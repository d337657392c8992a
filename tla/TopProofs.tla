----------------------------- MODULE TopProofs ------------------------------
(***************************************************************************)
(* What holds of every pane: proofs about Board and Top.                   *)
(***************************************************************************)
EXTENDS Top, TLAPS, FiniteSetTheorems, SequenceTheorems,
        WellFoundedInduction

\* The first place of a list that there is.
LEMMA MinFacts ==
    ASSUME NEW T \in SUBSET Nat, T # {}
    PROVE  Min(T) \in T
<1> DEFINE R == {p \in Nat \X Nat : p[1] < p[2]}
<1>1. IsWellFoundedOn(R, Nat)
  BY NatLessThanWellFounded DEF OpToRel
<1>2. \E x \in T : \A y \in T : ~ (<<y, x>> \in R)
  <2> HIDE DEF R
  <2> QED
    BY <1>1, WFMin
<1>3. PICK x \in T : \A y \in T : ~ (<<y, x>> \in R)
  BY <1>2
<1>4. \A y \in T : x <= y
  <2> TAKE y \in T
  <2>1. ~ (<<y, x>> \in R)
    BY <1>3
  <2>2. x \in Nat /\ y \in Nat
    OBVIOUS
  <2>3. ~ (y < x)
    BY <2>1, <2>2
  <2> QED
    BY <2>2, <2>3
<1> QED
  BY <1>4 DEF Min

(***************************************************************************)
(* Lists of distinct things.                                               *)
(***************************************************************************)
\* The list s has every member of S once, and nothing else.
Enumerates(s, S) ==
    /\ s \in Seq(S)
    /\ \A i, j \in DOMAIN s : s[i] = s[j] => i = j
    /\ \A x \in S : \E i \in DOMAIN s : s[i] = x

\* B[x] is what comes before x in a strict total order of S.
Precedes(B, S) ==
    /\ DOMAIN B = S
    /\ \A x, y \in S : x \in B[y] => x # y /\ y \notin B[x]
    /\ \A x, y \in S : x # y => x \in B[y] \/ y \in B[x]
    /\ \A x, y, z \in S : x \in B[y] /\ y \in B[z] => x \in B[z]
    /\ \A x \in S : B[x] \subseteq S

\* What Sorted makes of it: at each place the member with so many before it.
ByRank(s, B, S) ==
    /\ s = [i \in 1 .. Cardinality(S) |-> s[i]]
    /\ \A i \in 1 .. Cardinality(S) :
          (\E x \in S : Cardinality(B[x]) = i - 1) =>
             s[i] \in S /\ Cardinality(B[s[i]]) = i - 1

\* Each number up to the size of S is the rank of one member.
LEMMA RanksEnumerate ==
    ASSUME NEW S, IsFiniteSet(S), NEW B, Precedes(B, S),
           NEW s, ByRank(s, B, S)
    PROVE  Enumerates(s, S)
<1> DEFINE n == Cardinality(S)
           rank == [x \in S |-> Cardinality(B[x])]
<1>1. n \in Nat
  BY FS_CardinalityType
<1>2. \A x \in S : IsFiniteSet(B[x]) /\ rank[x] \in 0 .. n - 1
  <2> TAKE x \in S
  <2>1. /\ IsFiniteSet(S \ {x})
        /\ Cardinality(S \ {x}) = n - 1
    BY FS_RemoveElement
  <2>2. B[x] \in SUBSET (S \ {x})
    BY DEF Precedes
  <2>3. IsFiniteSet(B[x]) /\ Cardinality(B[x]) <= n - 1
    BY <2>1, <2>2, FS_Subset
  <2>4. Cardinality(B[x]) \in Nat
    BY <2>3, FS_CardinalityType
  <2> QED
    BY <1>1, <2>3, <2>4
<1>3. \A x, y \in S : x \in B[y] => rank[x] < rank[y]
  <2> SUFFICES ASSUME NEW x \in S, NEW y \in S, x \in B[y]
               PROVE  rank[x] < rank[y]
    OBVIOUS
  <2>1. /\ IsFiniteSet(B[x] \cup {x})
        /\ Cardinality(B[x] \cup {x}) = Cardinality(B[x]) + 1
    BY <1>2, FS_AddElement DEF Precedes
  <2>2. B[x] \cup {x} \in SUBSET B[y]
    BY DEF Precedes
  <2>3. Cardinality(B[x] \cup {x}) <= Cardinality(B[y])
    BY <1>2, <2>2, FS_Subset
  <2> QED
    BY <1>1, <1>2, <2>1, <2>3
<1>4. \A x, y \in S : rank[x] = rank[y] => x = y
  BY <1>2, <1>3 DEF Precedes
<1>5. rank \in Injection(S, 0 .. n - 1)
  BY <1>2, <1>4 DEF Injection, IsInjective
<1>6. IsFiniteSet(0 .. n - 1) /\ Cardinality(0 .. n - 1) = n
  BY <1>1, FS_Interval
<1>7. rank \in Surjection(S, 0 .. n - 1)
  BY <1>5, <1>6, FS_Injection
<1>8. \A i \in 1 .. n : s[i] \in S /\ rank[s[i]] = i - 1
  <2> TAKE i \in 1 .. n
  <2>1. i - 1 \in 0 .. n - 1
    BY <1>1
  <2>2. PICK x \in S : rank[x] = i - 1
    BY <1>7, <2>1 DEF Surjection
  <2> QED
    BY <2>2 DEF ByRank
<1>9. s \in Seq(S) /\ DOMAIN s = 1 .. n
  <2>1. s = [i \in 1 .. n |-> s[i]]
    BY DEF ByRank
  <2>2. s \in [1 .. n -> S]
    BY <1>8, <2>1
  <2> QED
    BY <1>1, <2>1, <2>2
<1>10. \A i, j \in 1 .. n : s[i] = s[j] => i = j
  <2> SUFFICES ASSUME NEW i \in 1 .. n, NEW j \in 1 .. n, s[i] = s[j]
               PROVE  i = j
    OBVIOUS
  <2>1. rank[s[i]] = i - 1 /\ rank[s[j]] = j - 1
    BY <1>8
  <2> QED
    BY <1>1, <2>1
<1>11. \A x \in S : \E i \in 1 .. n : s[i] = x
  <2> TAKE x \in S
  <2>1. rank[x] + 1 \in 1 .. n
    BY <1>1, <1>2
  <2>2. rank[s[rank[x] + 1]] = rank[x] /\ s[rank[x] + 1] \in S
    BY <1>1, <1>2, <1>8, <2>1
  <2> QED
    BY <1>4, <2>1, <2>2
<1> QED
  BY <1>9, <1>10, <1>11 DEF Enumerates

LEMMA ByIdEnumerates ==
    ASSUME NEW S \in SUBSET Nat, IsFiniteSet(S)
    PROVE  Enumerates(ById(S), S)
<1> DEFINE B == [x \in S |-> {y \in S : y < x}]
           s == ById(S)
<1>1. Precedes(B, S)
  <2>1. DOMAIN B = S
    OBVIOUS
  <2>2. \A x \in S : \A y : y \in B[x] <=> y \in S /\ y < x
    OBVIOUS
  <2>3. \A x \in S : x \in Nat
    OBVIOUS
  <2> HIDE DEF B
  <2> QED
    BY <2>1, <2>2, <2>3 DEF Precedes
<1>2. ByRank(s, B, S)
  <2>1. s = [i \in 1 .. Cardinality(S) |-> s[i]]
    BY SMTT(30) DEF ById, Sorted
  <2>2. ASSUME NEW i \in 1 .. Cardinality(S),
               \E x \in S : Cardinality(B[x]) = i - 1
        PROVE  s[i] \in S /\ Cardinality(B[s[i]]) = i - 1
    <3>1. s[i] = CHOOSE x \in S : Cardinality({y \in S : y < x}) = i - 1
      BY DEF ById, Sorted
    <3>2. \E x \in S : Cardinality({y \in S : y < x}) = i - 1
      BY <2>2
    <3>3. s[i] \in S /\ Cardinality({y \in S : y < s[i]}) = i - 1
      BY <3>1, <3>2
    <3> QED
      BY <3>3
  <2> HIDE DEF B, s
  <2> QED
    BY <2>1, <2>2 DEF ByRank
<1> QED
  <2> HIDE DEF B, s
  <2>1. Enumerates(s, S)
    BY <1>1, <1>2, RanksEnumerate
  <2> QED
    BY <2>1 DEF s

\* Of the two orders that depend on the board.
LEMMA ReadyEnumerates ==
    ASSUME NEW b, IsBoard(b)
    PROVE  Enumerates(Ready(b), In(b, "ready"))
<1> DEFINE S == In(b, "ready")
           P(t) == b.tasks[t].prio
           B == [x \in S |-> {y \in S : \/ P(y) < P(x)
                                        \/ ~ (P(x) < P(y)) /\ y < x}]
           F(i) == CHOOSE x \in S : Cardinality({y \in S :
                      \/ MoreUrgent(b, y, x)
                      \/ ~ MoreUrgent(b, x, y) /\ y < x}) = i - 1
           s == Ready(b)
<1>1. /\ S \subseteq Tasks /\ IsFiniteSet(S)
      /\ \A x \in S : x \in Nat /\ P(x) \in Nat
  <2>1. S \subseteq Known(b)
    BY DEF In
  <2>2. S \in SUBSET Tasks /\ IsFiniteSet(Tasks)
    BY <2>1, BoardAssumption DEF IsBoard
  <2>3. IsFiniteSet(S)
    BY <2>2, FS_Subset
  <2>4. \A x \in S : b.tasks[x] \in Task
    BY <2>1 DEF IsBoard
  <2>5. \A r \in Task : r.prio \in Nat
    <3>1. \A r \in Task : r.prio \in Priorities \cup {Unset}
      BY DEF Task
    <3>2. Priorities \subseteq Nat /\ Unset \in Nat
      BY BoardAssumption DEF Unset
    <3> QED
      BY <3>1, <3>2
  <2>6. \A x \in S : P(x) \in Nat
    BY <2>4, <2>5
  <2> QED
    BY <2>2, <2>3, <2>6, BoardAssumption
<1>2. Precedes(B, S)
  <2>1. DOMAIN B = S
    OBVIOUS
  <2>2. \A x \in S : \A y : y \in B[x] <=>
            /\ y \in S
            /\ P(y) < P(x) \/ (~ (P(x) < P(y)) /\ y < x)
    OBVIOUS
  <2>3. \A x \in S : x \in Nat /\ P(x) \in Nat
    BY <1>1
  <2> HIDE DEF B, S, P
  <2> QED
    BY <2>1, <2>2, <2>3 DEF Precedes
<1>3. ByRank(s, B, S)
  <2>1. s = [i \in 1 .. Cardinality(S) |-> F(i)]
    BY DEF Ready, Sorted
  <2>2. ASSUME NEW i \in 1 .. Cardinality(S),
               \E x \in S : Cardinality(B[x]) = i - 1
        PROVE  F(i) \in S /\ Cardinality(B[F(i)]) = i - 1
    <3>1. \A x \in S : {y \in S : \/ MoreUrgent(b, y, x)
                                  \/ ~ MoreUrgent(b, x, y) /\ y < x} = B[x]
      BY DEF MoreUrgent
    <3>2. \E x \in S : Cardinality({y \in S :
                \/ MoreUrgent(b, y, x)
                \/ ~ MoreUrgent(b, x, y) /\ y < x}) = i - 1
      <4> HIDE DEF B, S
      <4> QED
        BY <2>2, <3>1
    <3>3. F(i) \in S /\ Cardinality({y \in S :
              \/ MoreUrgent(b, y, F(i))
              \/ ~ MoreUrgent(b, F(i), y) /\ y < F(i)}) = i - 1
      <4> HIDE DEF B, S
      <4> QED
        BY <3>2
    <3> HIDE DEF B, F, S
    <3> QED
      BY <3>1, <3>3
  <2> HIDE DEF B, s, S, F
  <2> QED
    BY <2>1, <2>2 DEF ByRank
<1> QED
  <2> HIDE DEF B, s, S
  <2>1. Enumerates(s, S)
    BY <1>1, <1>2, <1>3, RanksEnumerate
  <2> QED
    BY <2>1 DEF s, S

LEMMA NewestFirstEnumerates ==
    ASSUME NEW b, IsBoard(b), NEW S \in SUBSET Known(b)
    PROVE  Enumerates(NewestFirst(b, S), S)
<1> DEFINE P(t) == b.tasks[t].closed
           B == [x \in S |-> {y \in S : \/ P(y) > P(x)
                                        \/ P(y) = P(x) /\ y < x}]
           F(i) == CHOOSE x \in S : Cardinality({y \in S :
                      \/ b.tasks[y].closed > b.tasks[x].closed
                      \/ /\ b.tasks[y].closed = b.tasks[x].closed
                         /\ y < x}) = i - 1
           s == NewestFirst(b, S)
<1>1. /\ IsFiniteSet(S)
      /\ \A x \in S : x \in Nat /\ P(x) \in Nat
  <2>1. S \in SUBSET Tasks /\ IsFiniteSet(Tasks)
    BY BoardAssumption DEF IsBoard
  <2>2. IsFiniteSet(S)
    BY <2>1, FS_Subset
  <2>3. \A x \in S : b.tasks[x] \in Task
    BY DEF IsBoard
  <2>4. \A r \in Task : r.closed \in Nat
    BY DEF Task
  <2>5. \A x \in S : P(x) \in Nat
    BY <2>3, <2>4
  <2> QED
    BY <2>1, <2>2, <2>5, BoardAssumption
<1>2. Precedes(B, S)
  <2>1. DOMAIN B = S
    OBVIOUS
  <2>2. \A x \in S : \A y : y \in B[x] <=>
            /\ y \in S
            /\ P(y) > P(x) \/ (P(y) = P(x) /\ y < x)
    OBVIOUS
  <2>3. \A x \in S : x \in Nat /\ P(x) \in Nat
    BY <1>1
  <2> HIDE DEF B, P
  <2> QED
    BY <2>1, <2>2, <2>3 DEF Precedes
<1>3. ByRank(s, B, S)
  <2>1. s = [i \in 1 .. Cardinality(S) |-> F(i)]
    BY DEF NewestFirst, Sorted
  <2>2. ASSUME NEW i \in 1 .. Cardinality(S),
               \E x \in S : Cardinality(B[x]) = i - 1
        PROVE  F(i) \in S /\ Cardinality(B[F(i)]) = i - 1
    <3>1. \A x \in S :
             {y \in S : \/ b.tasks[y].closed > b.tasks[x].closed
                        \/ /\ b.tasks[y].closed = b.tasks[x].closed
                           /\ y < x} = B[x]
      OBVIOUS
    <3>2. \E x \in S : Cardinality({y \in S :
              \/ b.tasks[y].closed > b.tasks[x].closed
              \/ /\ b.tasks[y].closed = b.tasks[x].closed
                 /\ y < x}) = i - 1
      <4> HIDE DEF B
      <4> QED
        BY <2>2, <3>1
    <3>3. F(i) \in S /\ Cardinality({y \in S :
              \/ b.tasks[y].closed > b.tasks[F(i)].closed
              \/ /\ b.tasks[y].closed = b.tasks[F(i)].closed
                 /\ y < F(i)}) = i - 1
      BY <3>2
    <3> HIDE DEF B, F
    <3> QED
      BY <3>1, <3>3
  <2> HIDE DEF B, s, F
  <2> QED
    BY <2>1, <2>2 DEF ByRank
<1> QED
  <2> HIDE DEF B, s
  <2>1. Enumerates(s, S)
    BY <1>1, <1>2, <1>3, RanksEnumerate
  <2> QED
    BY <2>1 DEF s

\* Two lists that share nothing, one after the other.
LEMMA ConcatEnumerates ==
    ASSUME NEW S, NEW T, S \cap T = {}, NEW s, NEW t,
           Enumerates(s, S), Enumerates(t, T)
    PROVE  Enumerates(s \o t, S \cup T)
<1> DEFINE c == s \o t
<1>1. /\ s \in Seq(S \cup T) /\ t \in Seq(S \cup T)
      /\ \A i \in 1 .. Len(s) : s[i] \in S
      /\ \A i \in 1 .. Len(t) : t[i] \in T
      /\ DOMAIN s = 1 .. Len(s) /\ DOMAIN t = 1 .. Len(t)
      /\ Len(s) \in Nat /\ Len(t) \in Nat
  BY DEF Enumerates
<1>2. /\ c \in Seq(S \cup T) /\ DOMAIN c = 1 .. Len(s) + Len(t)
      /\ \A i \in DOMAIN c :
            c[i] = IF i <= Len(s) THEN s[i] ELSE t[i - Len(s)]
  BY <1>1
<1>3. ASSUME NEW i \in DOMAIN c, NEW j \in DOMAIN c, c[i] = c[j]
      PROVE  i = j
  <2>1. CASE i <= Len(s) /\ j <= Len(s)
    BY <1>1, <1>2, <1>3, <2>1 DEF Enumerates
  <2>2. CASE ~ (i <= Len(s)) /\ ~ (j <= Len(s))
    <3>1. i - Len(s) \in 1 .. Len(t) /\ j - Len(s) \in 1 .. Len(t)
      BY <1>1, <1>2, <2>2
    <3>2. i - Len(s) = j - Len(s)
      BY <1>1, <1>2, <1>3, <2>2, <3>1 DEF Enumerates
    <3> QED
      BY <1>1, <1>2, <3>2
  <2>3. CASE i <= Len(s) /\ ~ (j <= Len(s))
    <3>1. i \in 1 .. Len(s) /\ j - Len(s) \in 1 .. Len(t)
      BY <1>1, <1>2, <2>3
    <3> QED
      BY <1>1, <1>2, <1>3, <2>3, <3>1
  <2>4. CASE ~ (i <= Len(s)) /\ j <= Len(s)
    <3>1. j \in 1 .. Len(s) /\ i - Len(s) \in 1 .. Len(t)
      BY <1>1, <1>2, <2>4
    <3> QED
      BY <1>1, <1>2, <1>3, <2>4, <3>1
  <2> QED
    BY <2>1, <2>2, <2>3, <2>4
<1>4. ASSUME NEW x \in S \cup T
      PROVE  \E i \in DOMAIN c : c[i] = x
  <2>1. CASE x \in S
    <3>1. PICK i \in DOMAIN s : s[i] = x
      BY <2>1 DEF Enumerates
    <3> QED
      BY <1>1, <1>2, <3>1
  <2>2. CASE x \in T
    <3>1. PICK i \in DOMAIN t : t[i] = x
      BY <2>2 DEF Enumerates
    <3>2. i + Len(s) \in DOMAIN c /\ ~ (i + Len(s) <= Len(s))
      BY <1>1, <1>2, <3>1
    <3>3. c[i + Len(s)] = x
      BY <1>1, <1>2, <3>1, <3>2
    <3> QED
      BY <3>2, <3>3
  <2> QED
    BY <2>1, <2>2
<1> QED
  BY <1>2, <1>3, <1>4 DEF Enumerates

\* The same of the images of a one-to-one function of the members.
LEMMA MapEnumerates ==
    ASSUME NEW S, NEW s, Enumerates(s, S), NEW f, DOMAIN f = S,
           \A x, y \in S : f[x] = f[y] => x = y,
           NEW m, m = [i \in DOMAIN s |-> f[s[i]]]
    PROVE  Enumerates(m, {f[x] : x \in S})
<1>1. /\ DOMAIN m = 1 .. Len(s) /\ Len(s) \in Nat
      /\ \A i \in DOMAIN s : s[i] \in S /\ m[i] = f[s[i]]
      /\ DOMAIN s = 1 .. Len(s)
  BY DEF Enumerates
<1>2. m \in Seq({f[x] : x \in S})
  BY <1>1
<1>3. \A i, j \in DOMAIN m : m[i] = m[j] => i = j
  BY <1>1 DEF Enumerates
<1>4. \A z \in {f[x] : x \in S} : \E i \in DOMAIN m : m[i] = z
  BY <1>1 DEF Enumerates
<1> QED
  BY <1>2, <1>3, <1>4 DEF Enumerates

\* Its members, and how many.
LEMMA EnumeratedSet ==
    ASSUME NEW S, NEW s, Enumerates(s, S)
    PROVE  ToSet(s) = S /\ IsFiniteSet(S) /\ Cardinality(S) = Len(s)
<1>1. s \in [1 .. Len(s) -> S] /\ Len(s) \in Nat /\ DOMAIN s = 1 .. Len(s)
  BY DEF Enumerates
<1>2. ToSet(s) = S
  BY <1>1 DEF ToSet, Enumerates
<1>3. s \in Injection(1 .. Len(s), S)
  BY <1>1 DEF Injection, IsInjective, Enumerates
<1>4. s \in Surjection(1 .. Len(s), S)
  BY <1>1 DEF Surjection, Enumerates
<1>5. ExistsBijection(1 .. Len(s), S)
  BY <1>3, <1>4 DEF ExistsBijection, Bijection
<1>6. IsFiniteSet(1 .. Len(s)) /\ Cardinality(1 .. Len(s)) = Len(s)
  <2>1. ASSUME NEW n \in Nat
        PROVE  IsFiniteSet(1 .. n) /\ Cardinality(1 .. n) = n
    BY FS_Interval
  <2> QED
    BY <1>1, <2>1
<1> QED
  BY <1>2, <1>5, <1>6, FS_Bijection

-----------------------------------------------------------------------------
(***************************************************************************)
(* The rows of the two lists.                                              *)
(***************************************************************************)
RowsOf(b, S, section) == {TaskRow(b, t, section) : t \in S}

EscRows(b) == {EscRow(e) : e \in b.open}

\* The blocked tasks that have a row of their own.
Stuck(b) == {t \in In(b, "blocked") : UnmetDeps(b, t) # {}}

OpenRows(b) ==
    EscRows(b) \cup RowsOf(b, In(b, "ready"), "ready")
    \cup RowsOf(b, In(b, "in_progress"), "inprogress")
    \cup RowsOf(b, Stuck(b), "blocked")
    \cup RowsOf(b, In(b, "held"), "held")
    \cup RowsOf(b, In(b, "inbox"), "inbox")

ClosedRows(b) ==
    RowsOf(b, In(b, "done"), "done")
    \cup RowsOf(b, In(b, "cancelled"), "cancelled")

RowSet(closed, b) == IF closed THEN ClosedRows(b) ELSE OpenRows(b)

LEMMA TaskRowFields ==
    ASSUME NEW b, NEW S, NEW section, NEW r \in RowsOf(b, S, section)
    PROVE  /\ r.kind = "task" /\ r.section = section /\ r.task \in S
           /\ r = TaskRow(b, r.task, section)
<1>1. PICK t \in S : r = TaskRow(b, t, section)
  BY DEF RowsOf
<1>2. r.kind = "task" /\ r.section = section /\ r.task = t
  BY <1>1 DEF TaskRow
<1> QED
  BY <1>1, <1>2

LEMMA EscRowFields ==
    ASSUME NEW b, NEW r \in EscRows(b)
    PROVE  /\ r.kind = "escalation" /\ r.section = "escalations"
           /\ r.esc \in b.open /\ r = EscRow(r.esc)
<1>1. PICK e \in b.open : r = EscRow(e)
  BY DEF EscRows
<1>2. r.kind = "escalation" /\ r.section = "escalations" /\ r.esc = e
  BY <1>1 DEF EscRow
<1> QED
  BY <1>1, <1>2

LEMMA TaskRowsEnumerate ==
    ASSUME NEW b, NEW S, NEW order, Enumerates(order, S), NEW section
    PROVE  Enumerates(TaskRows(b, order, section), RowsOf(b, S, section))
<1> DEFINE f == [t \in S |-> TaskRow(b, t, section)]
           m == TaskRows(b, order, section)
<1>1. DOMAIN f = S /\ \A x, y \in S : f[x] = f[y] => x = y
  BY DEF TaskRow
<1>2. \A i \in DOMAIN order : order[i] \in S
  BY DEF Enumerates
<1>3. m = [i \in DOMAIN order |-> f[order[i]]]
  BY <1>2 DEF TaskRows
<1>4. {f[x] : x \in S} = RowsOf(b, S, section)
  BY DEF RowsOf
<1>5. Enumerates(m, {f[x] : x \in S})
  <2> HIDE DEF f, m
  <2> QED
    BY <1>1, <1>3, MapEnumerates
<1> QED
  BY <1>4, <1>5

LEMMA InTypes ==
    ASSUME NEW b, IsBoard(b), NEW S, S \subseteq Known(b)
    PROVE  S \in SUBSET Nat /\ IsFiniteSet(S) /\ Enumerates(ById(S), S)
<1>1. S \in SUBSET Tasks /\ IsFiniteSet(Tasks) /\ Tasks \subseteq Nat
  BY BoardAssumption DEF IsBoard
<1>2. IsFiniteSet(S) /\ S \in SUBSET Nat
  BY <1>1, FS_Subset
<1> QED
  BY <1>2, ByIdEnumerates

LEMMA EscRowsEnumerate ==
    ASSUME NEW b, IsBoard(b)
    PROVE  Enumerates([i \in 1 .. Cardinality(b.open) |->
                          EscRow(ById(b.open)[i])], EscRows(b))
<1> DEFINE f == [e \in b.open |-> EscRow(e)]
           s == ById(b.open)
           m == [i \in 1 .. Cardinality(b.open) |-> EscRow(s[i])]
<1>1. b.open \in SUBSET Escalations /\ IsFiniteSet(Escalations)
      /\ Escalations \subseteq Nat
  BY BoardAssumption DEF IsBoard
<1>2. b.open \in SUBSET Nat /\ IsFiniteSet(b.open)
  BY <1>1, FS_Subset
<1>3. Enumerates(s, b.open)
  BY <1>2, ByIdEnumerates
<1>4. DOMAIN f = b.open /\ \A x, y \in b.open : f[x] = f[y] => x = y
  BY DEF EscRow
<1>5. DOMAIN s = 1 .. Cardinality(b.open)
  BY DEF ById, Sorted
<1>6. \A i \in DOMAIN s : s[i] \in b.open
  BY <1>3 DEF Enumerates
<1>7. m = [i \in DOMAIN s |-> f[s[i]]]
  <2> HIDE DEF s
  <2> QED
    BY <1>5, <1>6
<1>8. {f[x] : x \in b.open} = EscRows(b)
  BY DEF EscRows
<1>9. Enumerates(m, {f[x] : x \in b.open})
  <2> HIDE DEF f, m, s
  <2> QED
    BY <1>3, <1>4, <1>7, MapEnumerates
<1> QED
  BY <1>8, <1>9

LEMMA BuildRowsEnumerates ==
    ASSUME NEW b, IsBoard(b)
    PROVE  Enumerates(BuildRows(b), OpenRows(b))
<1> DEFINE s0 == [i \in 1 .. Cardinality(b.open) |-> EscRow(ById(b.open)[i])]
           s1 == TaskRows(b, Ready(b), "ready")
           s2 == TaskRows(b, ById(In(b, "in_progress")), "inprogress")
           s3 == TaskRows(b, ById(Stuck(b)), "blocked")
           s4 == TaskRows(b, ById(In(b, "held")), "held")
           s5 == TaskRows(b, ById(In(b, "inbox")), "inbox")
           S0 == EscRows(b)
           S1 == RowsOf(b, In(b, "ready"), "ready")
           S2 == RowsOf(b, In(b, "in_progress"), "inprogress")
           S3 == RowsOf(b, Stuck(b), "blocked")
           S4 == RowsOf(b, In(b, "held"), "held")
           S5 == RowsOf(b, In(b, "inbox"), "inbox")
<1>1. \A x : In(b, x) \subseteq Known(b)
  BY DEF In
<1>2. Stuck(b) \subseteq Known(b)
  BY <1>1 DEF Stuck
<1>3. /\ Enumerates(s0, S0) /\ Enumerates(s1, S1) /\ Enumerates(s2, S2)
      /\ Enumerates(s3, S3) /\ Enumerates(s4, S4) /\ Enumerates(s5, S5)
  <2>1. Enumerates(s0, S0)
    BY EscRowsEnumerate
  <2>2. Enumerates(s1, S1)
    BY ReadyEnumerates, TaskRowsEnumerate
  <2>3. Enumerates(s2, S2)
    BY <1>1, InTypes, TaskRowsEnumerate
  <2>4. Enumerates(s3, S3)
    BY <1>2, InTypes, TaskRowsEnumerate
  <2>5. Enumerates(s4, S4)
    BY <1>1, InTypes, TaskRowsEnumerate
  <2>6. Enumerates(s5, S5)
    BY <1>1, InTypes, TaskRowsEnumerate
  <2> QED
    BY <2>1, <2>2, <2>3, <2>4, <2>5, <2>6
<1>4. /\ \A r \in S0 : r.section = "escalations"
      /\ \A r \in S1 : r.section = "ready"
      /\ \A r \in S2 : r.section = "inprogress"
      /\ \A r \in S3 : r.section = "blocked"
      /\ \A r \in S4 : r.section = "held"
      /\ \A r \in S5 : r.section = "inbox"
  BY TaskRowFields, EscRowFields
<1>5. BuildRows(b) = s0 \o s1 \o s2 \o s3 \o s4 \o s5
  BY DEF BuildRows, Stuck
<1>6. OpenRows(b) = S0 \cup S1 \cup S2 \cup S3 \cup S4 \cup S5
  BY DEF OpenRows
<1>7. Enumerates(s0 \o s1 \o s2 \o s3 \o s4 \o s5,
                 S0 \cup S1 \cup S2 \cup S3 \cup S4 \cup S5)
  <2> HIDE DEF s0, s1, s2, s3, s4, s5, S0, S1, S2, S3, S4, S5
  <2>1. Enumerates(s0 \o s1, S0 \cup S1)
    <3>1. S0 \cap S1 = {}
      BY <1>4
    <3> QED
      BY <1>3, <3>1, ConcatEnumerates
  <2>2. Enumerates(s0 \o s1 \o s2, S0 \cup S1 \cup S2)
    <3>1. (S0 \cup S1) \cap S2 = {}
      BY <1>4
    <3> QED
      BY <1>3, <2>1, <3>1, ConcatEnumerates
  <2>3. Enumerates(s0 \o s1 \o s2 \o s3, S0 \cup S1 \cup S2 \cup S3)
    <3>1. (S0 \cup S1 \cup S2) \cap S3 = {}
      BY <1>4
    <3> QED
      BY <1>3, <2>2, <3>1, ConcatEnumerates
  <2>4. Enumerates(s0 \o s1 \o s2 \o s3 \o s4,
                   S0 \cup S1 \cup S2 \cup S3 \cup S4)
    <3>1. (S0 \cup S1 \cup S2 \cup S3) \cap S4 = {}
      BY <1>4
    <3> QED
      BY <1>3, <2>3, <3>1, ConcatEnumerates
  <2>5. (S0 \cup S1 \cup S2 \cup S3 \cup S4) \cap S5 = {}
    BY <1>4
  <2> QED
    BY <1>3, <2>4, <2>5, ConcatEnumerates
<1> QED
  <2> HIDE DEF s0, s1, s2, s3, s4, s5, S0, S1, S2, S3, S4, S5
  <2> QED
    BY <1>5, <1>6, <1>7

LEMMA BuildClosedRowsEnumerates ==
    ASSUME NEW b, IsBoard(b)
    PROVE  Enumerates(BuildClosedRows(b), ClosedRows(b))
<1> DEFINE s0 == TaskRows(b, NewestFirst(b, In(b, "done")), "done")
           s1 == TaskRows(b, NewestFirst(b, In(b, "cancelled")), "cancelled")
           S0 == RowsOf(b, In(b, "done"), "done")
           S1 == RowsOf(b, In(b, "cancelled"), "cancelled")
<1>1. /\ In(b, "done") \in SUBSET Known(b)
      /\ In(b, "cancelled") \in SUBSET Known(b)
  BY DEF In
<1>2. Enumerates(s0, S0) /\ Enumerates(s1, S1)
  BY <1>1, NewestFirstEnumerates, TaskRowsEnumerate
<1>3. S0 \cap S1 = {}
  <2>1. /\ \A r \in S0 : r.section = "done"
        /\ \A r \in S1 : r.section = "cancelled"
    BY TaskRowFields, EscRowFields
  <2> HIDE DEF S0, S1
  <2> QED
    BY <2>1
<1>4. Enumerates(s0 \o s1, S0 \cup S1)
  <2> HIDE DEF s0, s1, S0, S1
  <2> QED
    BY <1>2, <1>3, ConcatEnumerates
<1> QED
  BY <1>4 DEF BuildClosedRows, ClosedRows

LEMMA ActiveRowsEnumerate ==
    ASSUME NEW b, IsBoard(b), NEW closed \in BOOLEAN
    PROVE  Enumerates(ActiveRows(closed, b), RowSet(closed, b))
  BY BuildRowsEnumerates, BuildClosedRowsEnumerates DEF ActiveRows, RowSet

\* The section of a task that has a row.
SectionOf(situation) ==
    IF situation = "in_progress" THEN "inprogress" ELSE situation

Rowed(b, t) == Situation(b, t) = "blocked" => t \in Stuck(b)

LEMMA Situations ==
    ASSUME NEW b, IsBoard(b), NEW t \in Known(b)
    PROVE  /\ Situation(b, t) \in {"held", "inbox", "done", "cancelled",
                                   "in_progress", "ready", "blocked"}
           /\ ~ Rowed(b, t) => Questions(b, t) # {}
<1>1. b.tasks[t].status \in Statuses
  BY DEF IsBoard, Task
<1>2. Situation(b, t) \in {"held", "inbox", "done", "cancelled",
                           "in_progress", "ready", "blocked"}
  BY <1>1 DEF Situation, Statuses
<1>3. ASSUME ~ Rowed(b, t)
      PROVE  Questions(b, t) # {}
  <2>1. Situation(b, t) = "blocked" /\ t \notin Stuck(b)
    BY <1>3 DEF Rowed
  <2>2. UnmetDeps(b, t) = {}
    BY <2>1 DEF Stuck, In
  <2>3. UnmetDeps(b, t) \cup (Questions(b, t) \cap Blocking) # {}
    BY <1>1, <2>1 DEF Situation, Statuses
  <2> QED
    BY <2>2, <2>3
<1> QED
  BY <1>2, <1>3

\* The task rows of the two lists together, one way and the other.
LEMMA RowsOfTasks ==
    ASSUME NEW b, IsBoard(b)
    PROVE  /\ \A r \in OpenRows(b) \cup ClosedRows(b) : r.kind = "task" =>
                 /\ r.task \in Known(b) /\ Rowed(b, r.task)
                 /\ r = TaskRow(b, r.task, SectionOf(Situation(b, r.task)))
           /\ \A t \in Known(b) : Rowed(b, t) =>
                 TaskRow(b, t, SectionOf(Situation(b, t)))
                    \in OpenRows(b) \cup ClosedRows(b)
<1>1. ASSUME NEW r \in OpenRows(b) \cup ClosedRows(b), r.kind = "task"
      PROVE  /\ r.task \in Known(b) /\ Rowed(b, r.task)
             /\ r = TaskRow(b, r.task, SectionOf(Situation(b, r.task)))
  <2>1. r \notin EscRows(b)
    BY <1>1, EscRowFields
  <2>2. ASSUME NEW x, NEW y, r \in RowsOf(b, In(b, x), y), y = SectionOf(x),
               x # "blocked"
        PROVE  /\ r.task \in Known(b) /\ Rowed(b, r.task)
               /\ r = TaskRow(b, r.task, SectionOf(Situation(b, r.task)))
    <3>1. r.task \in In(b, x) /\ r = TaskRow(b, r.task, y)
      BY <2>2, TaskRowFields
    <3>2. r.task \in Known(b) /\ Situation(b, r.task) = x
      BY <3>1 DEF In
    <3> QED
      BY <2>2, <3>1, <3>2 DEF Rowed
  <2>3. ASSUME r \in RowsOf(b, Stuck(b), "blocked")
        PROVE  /\ r.task \in Known(b) /\ Rowed(b, r.task)
               /\ r = TaskRow(b, r.task, SectionOf(Situation(b, r.task)))
    <3>1. r.task \in Stuck(b) /\ r = TaskRow(b, r.task, "blocked")
      BY <2>3, TaskRowFields
    <3>2. r.task \in Known(b) /\ Situation(b, r.task) = "blocked"
      BY <3>1 DEF Stuck, In
    <3> QED
      BY <3>1, <3>2 DEF Rowed, SectionOf
  <2>4. \/ r \in RowsOf(b, Stuck(b), "blocked")
        \/ \E x, y : /\ r \in RowsOf(b, In(b, x), y) /\ y = SectionOf(x)
                     /\ x # "blocked"
    BY <2>1 DEF OpenRows, ClosedRows, SectionOf
  <2> QED
    BY <2>2, <2>3, <2>4
<1>2. ASSUME NEW t \in Known(b), Rowed(b, t)
      PROVE  TaskRow(b, t, SectionOf(Situation(b, t)))
                \in OpenRows(b) \cup ClosedRows(b)
  <2> DEFINE x == Situation(b, t)
             row == TaskRow(b, t, SectionOf(x))
  <2>1. t \in In(b, x)
    BY DEF In
  <2>2. row \in RowsOf(b, In(b, x), SectionOf(x))
    BY <2>1 DEF RowsOf
  <2>3. x = "blocked" => row \in RowsOf(b, Stuck(b), "blocked")
    BY <1>2 DEF RowsOf, Rowed, SectionOf
  <2>4. x \in {"held", "inbox", "done", "cancelled",
               "in_progress", "ready", "blocked"}
    BY Situations
  <2>5. row \in OpenRows(b) \cup ClosedRows(b)
    <3> HIDE DEF x, row
    <3>1. CASE x \in {"done", "cancelled"}
      BY <2>2, <3>1 DEF ClosedRows, SectionOf
    <3>2. CASE x = "blocked"
      BY <2>3, <3>2 DEF OpenRows
    <3>3. CASE x \in {"held", "inbox", "in_progress", "ready"}
      BY <2>2, <3>3 DEF OpenRows, SectionOf
    <3> QED
      BY <2>4, <3>1, <3>2, <3>3
  <2> QED
    BY <2>5
<1> QED
  BY <1>1, <1>2

LEMMA ListsShowTheBoard ==
    ASSUME NEW b, IsBoard(b), NEW closed \in BOOLEAN
    PROVE  LET lists == ActiveRows(closed, b) \o ActiveRows(~ closed, b)
               rows  == ToSet(lists)
           IN  /\ Cardinality(rows) = Len(lists)
               /\ \A e \in b.open : EscRow(e) \in rows
               /\ \A t \in Known(b) :
                     LET mine == {r \in rows : r.kind = "task" /\ r.task = t}
                     IN  \/ /\ mine # {}
                            /\ \E r \in mine :
                                  mine = {TaskRow(b, t, r.section)}
                         \/ mine = {} /\ Questions(b, t) # {}
<1> DEFINE lists == ActiveRows(closed, b) \o ActiveRows(~ closed, b)
           rows  == OpenRows(b) \cup ClosedRows(b)
<1>1. RowSet(closed, b) \cap RowSet(~ closed, b) = {}
  <2>1. OpenRows(b) \cap ClosedRows(b) = {}
    <3>1. \A r \in OpenRows(b) :
             r.section \in {"escalations", "ready", "inprogress", "blocked",
                            "held", "inbox"}
      BY TaskRowFields, EscRowFields DEF OpenRows
    <3>2. \A r \in ClosedRows(b) : r.section \in {"done", "cancelled"}
      BY TaskRowFields, EscRowFields DEF ClosedRows
    <3> QED
      BY <3>1, <3>2
  <2> QED
    BY <2>1 DEF RowSet
<1>2. /\ Enumerates(ActiveRows(closed, b), RowSet(closed, b))
      /\ Enumerates(ActiveRows(~ closed, b), RowSet(~ closed, b))
  BY ActiveRowsEnumerate
<1>3. Enumerates(lists, RowSet(closed, b) \cup RowSet(~ closed, b))
  BY <1>1, <1>2, ConcatEnumerates
<1>4. RowSet(closed, b) \cup RowSet(~ closed, b) = rows
  BY DEF RowSet
<1>5. ToSet(lists) = rows /\ Cardinality(rows) = Len(lists)
  <2> HIDE DEF lists, rows
  <2> QED
    BY <1>3, <1>4, EnumeratedSet
<1>6. \A e \in b.open : EscRow(e) \in rows
  BY DEF OpenRows, EscRows
<1>7. ASSUME NEW t \in Known(b)
      PROVE  LET mine == {r \in rows : r.kind = "task" /\ r.task = t}
             IN  \/ /\ mine # {}
                    /\ \E r \in mine : mine = {TaskRow(b, t, r.section)}
                 \/ mine = {} /\ Questions(b, t) # {}
  <2> DEFINE mine == {r \in rows : r.kind = "task" /\ r.task = t}
             row == TaskRow(b, t, SectionOf(Situation(b, t)))
  <2>1. \A r \in mine : r = row /\ Rowed(b, t)
    BY RowsOfTasks
  <2>2. CASE Rowed(b, t)
    <3>1. row \in rows
      BY <2>2, RowsOfTasks
    <3>2. /\ row.kind = "task" /\ row.task = t
          /\ row = TaskRow(b, t, row.section)
      BY DEF TaskRow
    <3>3. row \in mine
      <4> HIDE DEF row, rows
      <4> QED
        BY <3>1, <3>2
    <3> HIDE DEF row, mine
    <3>4. mine = {row}
      BY <2>1, <3>3
    <3>5. mine = {TaskRow(b, t, row.section)}
      BY <3>2, <3>4
    <3>6. mine # {} /\ \E r \in mine : mine = {TaskRow(b, t, r.section)}
      BY <3>3, <3>5
    <3> QED
      BY <3>6 DEF mine
  <2>3. CASE ~ Rowed(b, t)
    <3>1. mine = {}
      <4> HIDE DEF mine
      <4> QED
        BY <2>1, <2>3
    <3>2. Questions(b, t) # {}
      BY <2>3, Situations
    <3> QED
      BY <3>1, <3>2
  <2> QED
    BY <2>2, <2>3
<1> QED
  <2> HIDE DEF rows
  <2>1. rows = ToSet(lists)
    BY <1>5
  <2> QED
    BY <1>5, <1>6, <1>7, <2>1

-----------------------------------------------------------------------------
(***************************************************************************)
(* The invariant: types, that the rows shown are those of the snapshot     *)
(* shown, and what the modes have to do with the other fields.             *)
(***************************************************************************)
Boards ==
    {b \in [tasks : UNION {[K -> Task] : K \in SUBSET Tasks},
            open : SUBSET Escalations, raised : SUBSET Escalations] :
        IsBoard(b)}

Requests ==
    {w \in [op : {"status"} \cup InputModes, id : Nat,
            text : Texts \cup Statuses, num : Nat] :
        /\ w.op \in {"status", "cancel"} => w.text \in Statuses
        /\ w.op \in TextModes => w.text \in Texts
        /\ w.op = "priority" => w.num \in Priorities \cup {Unset}}

SectionNames ==
    {"", "ready", "inprogress", "blocked", "held", "inbox", "done",
     "cancelled"}

RowsOfTasksType ==
    [kind : {"task"}, section : SectionNames, esc : {0}, task : Tasks,
     status : Statuses, claimed : BOOLEAN]

RowType == RowsOfTasksType \cup {EscRow(e) : e \in Escalations}

PaneType ==
    [version : Nat, rows : Seq(RowType), cursor : Nat \ {0},
     closed : BOOLEAN, mode : {"nav", "detail"} \cup InputModes,
     back : {"nav", "detail"}, target : RowType \cup {NoRow}, was : Texts,
     rejected : BOOLEAN, detail : Tasks \cup {0}, focus : Nat \ {0},
     hops : Seq(Tasks), expanded : SUBSET Escalations]

\* What a pane with these fields on these boards must be.
PaneFits(p, s) ==
    /\ p \in PaneType
    /\ p.version <= Len(s)
    /\ p.rows = IF p.version = 0 THEN <<>>
                ELSE ActiveRows(p.closed, s[p.version])
    /\ p.cursor = 1 \/ p.cursor \in DOMAIN p.rows
    /\ p.closed => p.version > 0
    /\ p.mode \notin Fields => p.was = ""
    /\ p.rejected => p.mode \in TextModes
    /\ (p.detail = 0) = (p.mode # "detail" /\ "nav" \in {p.mode, p.back})
    /\ p.mode \in {"nav", "detail"} => p.back = "nav"
    /\ p.detail = 0 => p.hops = <<>> /\ p.expanded = {}

Inv ==
    /\ world \in Worlds
    /\ story \in Seq(Boards) /\ Len(story) > 0
    /\ writes \in Seq(Requests)
    /\ PaneFits(pane, story)
    /\ ~ Armed => writes = <<>> /\ pane.mode \in {"nav", "detail"}

-----------------------------------------------------------------------------
(***************************************************************************)
(* What others and the landing writes make of a board.                     *)
(***************************************************************************)
LEMMA BoardType == \A b : IsBoard(b) <=> b \in Boards
<1>1. ASSUME NEW b, IsBoard(b)
      PROVE  b \in Boards
  <2>1. b.tasks \in UNION {[K -> Task] : K \in SUBSET Tasks}
    BY <1>1 DEF IsBoard
  <2>2. b.open \in SUBSET Escalations /\ b.raised \in SUBSET Escalations
    BY <1>1 DEF IsBoard
  <2>3. b = [tasks |-> b.tasks, open |-> b.open, raised |-> b.raised]
    BY <1>1 DEF IsBoard
  <2>4. b \in [tasks : UNION {[K -> Task] : K \in SUBSET Tasks},
               open : SUBSET Escalations, raised : SUBSET Escalations]
    BY <2>1, <2>2, <2>3
  <2> QED
    BY <1>1, <2>4 DEF Boards
<1> QED
  BY <1>1 DEF Boards

LEMMA NoBoardIsBoard == IsBoard(NoBoard) /\ Known(NoBoard) = {}
  BY DEF IsBoard, NoBoard, Known

\* A board whose tasks are replaced by others, one whose questions are.
LEMMA NewTasks ==
    ASSUME NEW b, IsBoard(b), NEW K \in SUBSET Tasks, NEW f \in [K -> Task]
    PROVE  IsBoard([b EXCEPT !.tasks = f])
<1>1. b = [tasks |-> b.tasks, open |-> b.open, raised |-> b.raised]
  BY DEF IsBoard
<1>2. [b EXCEPT !.tasks = f]
         = [tasks |-> f, open |-> b.open, raised |-> b.raised]
  BY <1>1
<1> QED
  BY <1>2 DEF IsBoard, Known

LEMMA NewQuestions ==
    ASSUME NEW b, IsBoard(b), NEW O, NEW Q, O \subseteq Q,
           Q \subseteq Escalations
    PROVE  /\ IsBoard([b EXCEPT !.open = O, !.raised = Q])
           /\ O \subseteq b.raised => IsBoard([b EXCEPT !.open = O])
<1> DEFINE c == [b EXCEPT !.open = O]
           d == [c EXCEPT !.raised = Q]
<1>1. b = [tasks |-> b.tasks, open |-> b.open, raised |-> b.raised]
  BY DEF IsBoard
<1>2. c = [tasks |-> b.tasks, open |-> O, raised |-> b.raised]
  BY <1>1
<1>3. d = [tasks |-> b.tasks, open |-> O, raised |-> Q]
  <2> HIDE DEF c
  <2> QED
    BY <1>2
<1>4. [b EXCEPT !.open = O, !.raised = Q] = d
  OBVIOUS
<1>5. IsBoard(d)
  <2> HIDE DEF d
  <2> QED
    BY <1>3 DEF IsBoard, Known
<1>6. O \subseteq b.raised => IsBoard(c)
  <2> HIDE DEF c
  <2> QED
    BY <1>2 DEF IsBoard, Known
<1> QED
  BY <1>4, <1>5, <1>6

\* One record of a board replaced; that of a task it does not know is not.
LEMMA NewRecord ==
    ASSUME NEW b, IsBoard(b), NEW t, NEW r, t \in Known(b) => r \in Task
    PROVE  IsBoard([b EXCEPT !.tasks = [@ EXCEPT ![t] = r]])
<1>1. b.tasks \in [Known(b) -> Task] /\ Known(b) \in SUBSET Tasks
  BY DEF IsBoard
<1>2. [b.tasks EXCEPT ![t] = r] \in [Known(b) -> Task]
  BY <1>1
<1>3. IsBoard([b EXCEPT !.tasks = [b.tasks EXCEPT ![t] = r]])
  BY <1>1, <1>2, NewTasks
<1> QED
  BY <1>3

LEMMA WithStatusIsBoard ==
    ASSUME NEW b, IsBoard(b), NEW t, NEW status \in Statuses, Now \in Nat
    PROVE  IsBoard(WithStatus(b, t, status))
<1> DEFINE r == [b.tasks[t] EXCEPT !.status = status]
           c == [b EXCEPT !.tasks[t].status = status]
           at == IF ~ Terminal(status) THEN 0
                 ELSE IF status = b.tasks[t].status THEN c.tasks[t].closed
                 ELSE Now
           q == [c.tasks[t] EXCEPT !.closed = at]
<1>1. t \in Known(b) => r \in Task
  <2>1. t \in Known(b) => b.tasks[t] \in Task
    BY DEF IsBoard
  <2> QED
    BY <2>1 DEF Task
<1>2. c = [b EXCEPT !.tasks = [@ EXCEPT ![t] = r]]
  OBVIOUS
<1>3. IsBoard(c)
  <2> HIDE DEF r, c
  <2> QED
    BY <1>1, <1>2, NewRecord
<1>4. WithStatus(b, t, status) = [c EXCEPT !.tasks = [@ EXCEPT ![t] = q]]
  BY DEF WithStatus
<1>5. t \in Known(c) => q \in Task
  <2> HIDE DEF c
  <2>1. t \in Known(c) => c.tasks[t] \in Task
    BY <1>3 DEF IsBoard
  <2>2. \A x \in Task : x.closed \in Nat
    BY DEF Task
  <2>3. t \in Known(c) => at \in Nat
    BY <2>1, <2>2
  <2> HIDE DEF at
  <2> QED
    BY <2>1, <2>3 DEF Task
<1> QED
  <2> HIDE DEF c, q
  <2> QED
    BY <1>3, <1>4, <1>5, NewRecord

LEMMA ClaimedIsBoard ==
    ASSUME NEW b, IsBoard(b), NEW t, NEW claimed \in BOOLEAN
    PROVE  IsBoard(Claimed(b, t, claimed))
<1> DEFINE r == [b.tasks[t] EXCEPT !.claimed = claimed]
<1>1. t \in Known(b) => b.tasks[t] \in Task
  BY DEF IsBoard
<1>2. t \in Known(b) => r \in Task
  BY <1>1 DEF Task
<1>3. Claimed(b, t, claimed) = [b EXCEPT !.tasks = [@ EXCEPT ![t] = r]]
  BY DEF Claimed
<1> QED
  <2> HIDE DEF r
  <2> QED
    BY <1>2, <1>3, NewRecord

LEMMA EditedIsBoard ==
    ASSUME NEW b, IsBoard(b), NEW t, NEW f \in Fields, NEW text \in Texts
    PROVE  IsBoard([b EXCEPT !.tasks[t][f] = text])
<1> DEFINE r == [b.tasks[t] EXCEPT ![f] = text]
<1>1. t \in Known(b) => b.tasks[t] \in Task
  BY DEF IsBoard
<1>2. t \in Known(b) => r \in Task
  <2>1. CASE f = "title"
    BY <1>1, <2>1 DEF Task
  <2>2. CASE f = "labels"
    BY <1>1, <2>2 DEF Task
  <2>3. CASE f = "description"
    BY <1>1, <2>3 DEF Task
  <2> QED
    BY <2>1, <2>2, <2>3 DEF Fields
<1>3. [b EXCEPT !.tasks[t][f] = text]
         = [b EXCEPT !.tasks = [@ EXCEPT ![t] = r]]
  OBVIOUS
<1> QED
  <2> HIDE DEF r
  <2> QED
    BY <1>2, <1>3, NewRecord

LEMMA PrioritisedIsBoard ==
    ASSUME NEW b, IsBoard(b), NEW t, NEW n \in Priorities \cup {Unset}
    PROVE  IsBoard([b EXCEPT !.tasks[t].prio = n])
<1> DEFINE r == [b.tasks[t] EXCEPT !.prio = n]
<1>1. t \in Known(b) => b.tasks[t] \in Task
  BY DEF IsBoard
<1>2. t \in Known(b) => r \in Task
  BY <1>1 DEF Task
<1>3. [b EXCEPT !.tasks[t].prio = n]
         = [b EXCEPT !.tasks = [@ EXCEPT ![t] = r]]
  OBVIOUS
<1> QED
  <2> HIDE DEF r
  <2> QED
    BY <1>2, <1>3, NewRecord

LEMMA CapturedIsBoard ==
    ASSUME NEW b, IsBoard(b), NEW t \in Tasks, NEW title \in Texts
    PROVE  IsBoard(Captured(b, t, title))
<1> DEFINE r == [status |-> "inbox", claimed |-> FALSE, prio |-> Unset,
                 closed |-> 0, title |-> title, labels |-> "",
                 description |-> ""]
           f == [u \in Known(b) \cup {t} |->
                    IF u # t THEN b.tasks[u] ELSE r]
<1>1. r \in Task
  BY TopAssumption DEF Task, Statuses
<1>2. f \in [Known(b) \cup {t} -> Task]
  <2> HIDE DEF r
  <2> QED
    BY <1>1 DEF IsBoard
<1>3. Captured(b, t, title) = [b EXCEPT !.tasks = f]
  BY DEF Captured, Known
<1>4. Known(b) \cup {t} \in SUBSET Tasks
  BY DEF IsBoard
<1> QED
  <2> HIDE DEF f
  <2> QED
    BY <1>2, <1>3, <1>4, NewTasks

LEMMA AppliedIsBoard ==
    ASSUME NEW b, IsBoard(b), NEW w \in Requests, Now \in Nat,
           NEW c \in Applied(b, w)
    PROVE  IsBoard(c)
<1>1. /\ w.op \in {"status"} \cup InputModes
      /\ w.op \in {"status", "cancel"} => w.text \in Statuses
      /\ w.op \in TextModes => w.text \in Texts
      /\ w.op = "priority" => w.num \in Priorities \cup {Unset}
  BY DEF Requests
<1>2. CASE w.op \in {"status", "cancel"}
  <2>1. c = WithStatus(b, w.id, w.text)
    BY <1>2 DEF Applied, Fields
  <2> QED
    BY <1>1, <1>2, <2>1, WithStatusIsBoard
<1>3. CASE w.op = "priority"
  <2>1. c = [b EXCEPT !.tasks[w.id].prio = w.num]
    BY <1>3 DEF Applied, Fields
  <2> QED
    BY <1>1, <1>3, <2>1, PrioritisedIsBoard
<1>4. CASE w.op \in Fields
  <2>1. w.op \in TextModes
    BY <1>4 DEF Fields, TextModes
  <2>2. c = [b EXCEPT !.tasks[w.id][w.op] = w.text]
    BY <1>4 DEF Applied, Fields
  <2> QED
    BY <1>1, <1>4, <2>1, <2>2, EditedIsBoard
<1>5. CASE w.op = "answer"
  <2>1. c = [b EXCEPT !.open = @ \ {w.id}]
    BY <1>5 DEF Applied, Fields
  <2>2. b.open \ {w.id} \subseteq b.raised /\ b.raised \subseteq Escalations
    BY DEF IsBoard
  <2> QED
    BY <2>1, <2>2, NewQuestions
<1>6. CASE w.op = "capture"
  <2>1. PICK t \in Tasks : c = Captured(b, t, w.text)
    BY <1>6 DEF Applied, Fields
  <2>2. w.text \in Texts
    BY <1>1, <1>6 DEF TextModes
  <2> QED
    BY <2>1, <2>2, CapturedIsBoard
<1> QED
  BY <1>1, <1>2, <1>3, <1>4, <1>5, <1>6 DEF InputModes, TextModes, Fields

LEMMA ElsewhereIsBoard ==
    ASSUME Inv, Elsewhere
    PROVE  \E b : IsBoard(b) /\ story' = Append(story, b)
<1> DEFINE b == Ledger
<1>1. IsBoard(b) /\ Now \in Nat
  BY BoardType DEF Inv, Ledger, Now
<1>2. \A t : \A status \in Statuses : IsBoard(WithStatus(b, t, status))
  BY <1>1, WithStatusIsBoard
<1>3. ASSUME NEW t \in Known(b), Becomes(Claimed(b, t, TRUE))
      PROVE  \E c : IsBoard(c) /\ story' = Append(story, c)
  BY <1>1, <1>3, ClaimedIsBoard DEF Becomes
<1>4. ASSUME NEW t \in Known(b), Becomes(Claimed(b, t, FALSE))
      PROVE  \E c : IsBoard(c) /\ story' = Append(story, c)
  BY <1>1, <1>4, ClaimedIsBoard DEF Becomes
<1>5. ASSUME NEW t \in Known(b),
             Becomes(Claimed(WithStatus(b, t, "done"), t, FALSE))
      PROVE  \E c : IsBoard(c) /\ story' = Append(story, c)
  <2>1. IsBoard(WithStatus(b, t, "done"))
    BY <1>2 DEF Statuses
  <2>2. IsBoard(Claimed(WithStatus(b, t, "done"), t, FALSE))
    BY <2>1, ClaimedIsBoard
  <2> QED
    BY <1>5, <2>2 DEF Becomes
<1>6. ASSUME NEW t \in Known(b), NEW status \in Statuses,
             Becomes(WithStatus(b, t, status))
      PROVE  \E c : IsBoard(c) /\ story' = Append(story, c)
  BY <1>2, <1>6 DEF Becomes
<1>7. ASSUME NEW t \in Known(b), NEW f \in Fields, NEW text \in world.edits,
             Becomes([b EXCEPT !.tasks[t][f] = text])
      PROVE  \E c : IsBoard(c) /\ story' = Append(story, c)
  <2>1. text \in Texts
    BY TopAssumption DEF Inv
  <2>2. IsBoard([b EXCEPT !.tasks[t][f] = text])
    BY <1>1, <2>1, EditedIsBoard
  <2> QED
    BY <1>7, <2>2 DEF Becomes
<1>8. ASSUME NEW e \in b.open, Becomes([b EXCEPT !.open = @ \ {e}])
      PROVE  \E c : IsBoard(c) /\ story' = Append(story, c)
  <2>1. b.open \ {e} \subseteq b.raised /\ b.raised \subseteq Escalations
    BY <1>1 DEF IsBoard
  <2>2. IsBoard([b EXCEPT !.open = @ \ {e}])
    BY <1>1, <2>1, NewQuestions
  <2> QED
    BY <1>8, <2>2 DEF Becomes
<1>9. ASSUME NEW e \in Escalations \ b.raised,
             Becomes([b EXCEPT !.open = @ \cup {e}, !.raised = @ \cup {e}])
      PROVE  \E c : IsBoard(c) /\ story' = Append(story, c)
  <2>1. /\ b.open \cup {e} \subseteq b.raised \cup {e}
        /\ b.raised \cup {e} \subseteq Escalations
    BY <1>1 DEF IsBoard
  <2>2. IsBoard([b EXCEPT !.open = @ \cup {e}, !.raised = @ \cup {e}])
    BY <1>1, <2>1, NewQuestions
  <2> QED
    BY <1>9, <2>2 DEF Becomes
<1> HIDE DEF b
<1>10. \/ \E t \in Known(b) :
             \/ Becomes(Claimed(b, t, TRUE)) \/ Becomes(Claimed(b, t, FALSE))
             \/ Becomes(Claimed(WithStatus(b, t, "done"), t, FALSE))
             \/ \E status \in Statuses : Becomes(WithStatus(b, t, status))
             \/ \E f \in Fields, text \in world.edits :
                   Becomes([b EXCEPT !.tasks[t][f] = text])
       \/ \E e \in b.open : Becomes([b EXCEPT !.open = @ \ {e}])
       \/ \E e \in Escalations \ b.raised :
             Becomes([b EXCEPT !.open = @ \cup {e}, !.raised = @ \cup {e}])
  BY DEF Elsewhere, b
<1> QED
  BY <1>3, <1>4, <1>5, <1>6, <1>7, <1>8, <1>9, <1>10

-----------------------------------------------------------------------------
(***************************************************************************)
(* The steps.                                                              *)
(***************************************************************************)
LEMMA Removed ==
    ASSUME NEW S, NEW s \in Seq(S), NEW i \in DOMAIN s
    PROVE  /\ RemoveAt(s, i) \in Seq(S)
           /\ Len(RemoveAt(s, i)) = Len(s) - 1
<1>1. i \in 1 .. Len(s) /\ Len(s) \in Nat
  OBVIOUS
<1>2. /\ SubSeq(s, 1, i - 1) \in Seq(S) /\ Len(SubSeq(s, 1, i - 1)) = i - 1
      /\ SubSeq(s, i + 1, Len(s)) \in Seq(S)
      /\ Len(SubSeq(s, i + 1, Len(s))) = Len(s) - i
  BY <1>1
<1>3. ASSUME NEW x \in Seq(S), NEW y \in Seq(S)
      PROVE  x \o y \in Seq(S) /\ Len(x \o y) = Len(x) + Len(y)
  OBVIOUS
<1>4. /\ RemoveAt(s, i) \in Seq(S)
      /\ Len(RemoveAt(s, i)) = i - 1 + (Len(s) - i)
  BY <1>2, <1>3 DEF RemoveAt
<1> QED
  BY <1>1, <1>4

\* The board moves on, and the pane stays.
LEMMA StoryGrows ==
    ASSUME Inv, NEW b, IsBoard(b), story' = Append(story, b),
           pane' = pane, world' = world, writes' \in Seq(Requests),
           writes = <<>> => writes' = <<>>
    PROVE  Inv'
<1>1. b \in Boards
  BY BoardType
<1>2. /\ story' \in Seq(Boards) /\ Len(story') = Len(story) + 1
      /\ \A n \in 1 .. Len(story) : story'[n] = story[n]
      /\ Len(story) \in Nat
  BY <1>1 DEF Inv
<1>3. pane.version \in Nat
  BY DEF Inv, PaneFits, PaneType
<1>4. PaneFits(pane, story')
  <2>1. PaneFits(pane, story)
    BY DEF Inv
  <2>2. pane.version <= Len(story)
    BY <2>1 DEF PaneFits
  <2>3. pane.version <= Len(story')
    BY <1>2, <1>3, <2>2
  <2>4. pane.version # 0 => story'[pane.version] = story[pane.version]
    BY <1>2, <1>3, <2>2
  <2> QED
    BY <2>1, <2>3, <2>4 DEF PaneFits
<1> QED
  BY <1>2, <1>4 DEF Inv, Armed

\* What a pane shows.
LEMMA RowsTyped ==
    ASSUME NEW b, IsBoard(b)
    PROVE  /\ OpenRows(b) \cup ClosedRows(b) \subseteq RowType
           /\ \A closed \in BOOLEAN : ActiveRows(closed, b) \in Seq(RowType)
<1>1. ASSUME NEW t \in Known(b), NEW section \in SectionNames
      PROVE  TaskRow(b, t, section) \in RowType
  <2>1. b.tasks[t] \in Task /\ t \in Tasks
    BY DEF IsBoard
  <2>2. b.tasks[t].status \in Statuses /\ b.tasks[t].claimed \in BOOLEAN
    BY <2>1 DEF Task
  <2> QED
    BY <2>1, <2>2 DEF TaskRow, RowType, RowsOfTasksType
<1>2. ASSUME NEW r \in OpenRows(b) \cup ClosedRows(b)
      PROVE  r \in RowType
  <2>1. CASE r \in EscRows(b)
    <3>1. r.esc \in b.open /\ r = EscRow(r.esc)
      BY <2>1, EscRowFields
    <3>2. r.esc \in Escalations
      BY <3>1 DEF IsBoard
    <3> QED
      BY <3>1, <3>2 DEF RowType
  <2>2. CASE r \notin EscRows(b)
    <3>1. PICK S, section : /\ r \in RowsOf(b, S, section)
                            /\ section \in SectionNames
      BY <2>2 DEF OpenRows, ClosedRows, SectionNames
    <3>2. r.kind = "task" /\ r.section = section
          /\ r = TaskRow(b, r.task, section)
      BY <3>1, TaskRowFields
    <3>3. r.task \in Known(b)
      BY <3>2, RowsOfTasks
    <3> QED
      BY <1>1, <3>1, <3>2, <3>3
  <2> QED
    BY <2>1, <2>2
<1>3. ASSUME NEW closed \in BOOLEAN
      PROVE  ActiveRows(closed, b) \in Seq(RowType)
  <2>1. Enumerates(ActiveRows(closed, b), RowSet(closed, b))
    BY ActiveRowsEnumerate
  <2>2. RowSet(closed, b) \subseteq RowType
    BY <1>2 DEF RowSet
  <2>3. ActiveRows(closed, b) \in Seq(RowSet(closed, b))
    BY <2>1 DEF Enumerates
  <2> QED
    BY <2>2, <2>3
<1> QED
  BY <1>2, <1>3

LEMMA RowTypes ==
    ASSUME NEW r \in RowType
    PROVE  /\ IsRow(r) /\ r # NoRow /\ r.task \in Tasks /\ r.task # 0
           /\ r.task \in Nat /\ r.esc \in Nat
           /\ r.kind = "task" => r \in RowsOfTasksType
<1>0. NoRow.kind = "none" /\ \A t \in Tasks : t \in Nat /\ t # 0
  BY BoardAssumption DEF NoRow
<1>1. CASE r \in RowsOfTasksType
  <2>1. r.kind = "task" /\ r.task \in Tasks /\ r.esc = 0
    BY <1>1 DEF RowsOfTasksType
  <2>2. r # NoRow
    BY <1>0, <2>1
  <2>3. IsRow(r)
    BY <2>1 DEF IsRow
  <2> QED
    BY <1>0, <1>1, <2>1, <2>2, <2>3
<1>2. CASE \E e \in Escalations : r = EscRow(e)
  <2>1. PICK e \in Escalations : r = EscRow(e)
    BY <1>2
  <2>2. r.kind = "escalation" /\ r.esc = e /\ r.task = TaskOf[e]
    BY <2>1 DEF EscRow
  <2>3. TaskOf[e] \in Tasks /\ e \in Nat
    BY BoardAssumption
  <2>4. r # NoRow
    BY <1>0, <2>2
  <2>5. IsRow(r)
    BY <2>1, <2>2 DEF IsRow
  <2> QED
    BY <1>0, <2>2, <2>3, <2>4, <2>5
<1> QED
  BY <1>1, <1>2 DEF RowType

LEMMA SnapIsBoard ==
    ASSUME Inv
    PROVE  /\ IsBoard(Snap) /\ pane.version \in 0 .. Len(story)
           /\ pane.version > 0 => Snap = story[pane.version]
           /\ \A n \in 1 .. Len(story) : IsBoard(story[n])
<1>1. pane.version \in Nat /\ pane.version <= Len(story)
  BY DEF Inv, PaneFits, PaneType
<1>2. \A n \in 1 .. Len(story) : IsBoard(story[n])
  BY BoardType DEF Inv
<1>3. Len(story) \in Nat
  BY DEF Inv
<1> QED
  BY <1>1, <1>2, <1>3, NoBoardIsBoard DEF Snap

LEMMA SelectedTyped ==
    ASSUME Inv, NEW r \in Selected
    PROVE  /\ r \in RowType /\ pane.version > 0
           /\ pane.cursor \in DOMAIN pane.rows
           /\ r = pane.rows[pane.cursor]
<1>1. /\ pane.rows \in Seq(RowType) /\ pane.version \in Nat
      /\ pane.cursor \in Nat \ {0}
      /\ pane.version = 0 => pane.rows = <<>>
  BY DEF Inv, PaneFits, PaneType
<1>2. pane.cursor <= Len(pane.rows) /\ r = pane.rows[pane.cursor]
  BY DEF Selected
<1>3. pane.cursor \in DOMAIN pane.rows
  BY <1>1, <1>2
<1>4. pane.rows # <<>>
  BY <1>1, <1>2
<1> QED
  BY <1>1, <1>2, <1>3, <1>4

LEMMA AimedTyped ==
    ASSUME Inv, NEW r \in Aimed
    PROVE  /\ r \in RowType /\ pane.mode \in {"nav", "detail"}
           /\ r.kind = "task"
<1>1. pane.mode \in {"nav", "detail"}
  BY DEF Aimed
<1>2. CASE pane.mode = "nav"
  <2>1. r \in Selected /\ r.kind = "task"
    BY <1>2 DEF Aimed
  <2> QED
    BY <1>1, <2>1, SelectedTyped
<1>3. CASE pane.mode = "detail"
  <2>1. pane.detail \in Known(Snap) /\ r = TaskRow(Snap, pane.detail, "")
    BY <1>3 DEF Aimed, ViewedTask
  <2>2. Snap.tasks[pane.detail] \in Task /\ pane.detail \in Tasks
    BY <2>1, SnapIsBoard DEF IsBoard
  <2>3. /\ Snap.tasks[pane.detail].status \in Statuses
        /\ Snap.tasks[pane.detail].claimed \in BOOLEAN
    BY <2>2 DEF Task
  <2>4. r \in RowsOfTasksType
    BY <2>1, <2>2, <2>3 DEF TaskRow, RowsOfTasksType, SectionNames
  <2> QED
    BY <1>1, <2>4 DEF RowType, RowsOfTasksType
<1> QED
  BY <1>1, <1>2, <1>3

\* The stops of a view.
StopType ==
    [kind : {"title", "priority", "labels", "description"}, id : Tasks]
    \cup [kind : {"dep", "neededby"}, id : Tasks]
    \cup [kind : {"escalation"}, id : Escalations]

LEMMA StopsTyped ==
    ASSUME NEW kind, NEW S, NEW ids \in Seq(S),
           \A x \in S : Stop(kind, x) \in StopType
    PROVE  Stops(kind, ids) \in Seq(StopType)
<1>1. /\ DOMAIN ids = 1 .. Len(ids) /\ Len(ids) \in Nat
      /\ \A i \in DOMAIN ids : ids[i] \in S
  OBVIOUS
<1>2. Stops(kind, ids) \in [1 .. Len(ids) -> StopType]
  BY <1>1 DEF Stops
<1> QED
  BY <1>1, <1>2

LEMMA IfTyped ==
    ASSUME NEW c \in BOOLEAN, NEW one, c => one \in StopType
    PROVE  If(c, one) \in Seq(StopType)
  BY DEF If

LEMMA EscalationsTyped ==
    ASSUME NEW b, IsBoard(b), NEW t
    PROVE  /\ DetailEscalations(b, t) \in Seq(Escalations)
           /\ ToSet(DetailEscalations(b, t)) \subseteq Escalations
<1>1. Questions(b, t) \subseteq Escalations
  BY DEF Questions, IsBoard
<1>2. Questions(b, t) \in SUBSET Nat /\ IsFiniteSet(Questions(b, t))
  BY <1>1, BoardAssumption, FS_Subset
<1>3. Enumerates(ById(Questions(b, t)), Questions(b, t))
  BY <1>2, ByIdEnumerates
<1>4. ById(Questions(b, t)) \in Seq(Escalations)
  BY <1>1, <1>3 DEF Enumerates
<1>5. DetailEscalations(b, t) \in Seq(Escalations)
  BY <1>4 DEF DetailEscalations
<1> QED
  BY <1>5 DEF ToSet

LEMMA KnownDepsTyped ==
    ASSUME NEW b, IsBoard(b), NEW t \in Tasks
    PROVE  KnownDeps(b, t) \in Seq(Tasks)
<1> DEFINE S == {i \in DOMAIN Deps[t] : Deps[t][i] \in Known(b)}
           at == ById(S)
<1>1. Deps[t] \in Seq(Nat \ {0})
  BY BoardAssumption
<1>2. DOMAIN Deps[t] = 1 .. Len(Deps[t]) /\ Len(Deps[t]) \in Nat
  BY <1>1
<1>3. IsFiniteSet(1 .. Len(Deps[t]))
  <2>1. \A n \in Nat : IsFiniteSet(1 .. n)
    BY FS_Interval
  <2> QED
    BY <1>2, <2>1
<1>4. S \in SUBSET (1 .. Len(Deps[t]))
  BY <1>2
<1>5. S \in SUBSET Nat /\ IsFiniteSet(S)
  BY <1>2, <1>3, <1>4, FS_Subset
<1>6. Enumerates(at, S)
  BY <1>5, ByIdEnumerates
<1>7. \A i \in S : Deps[t][i] \in Tasks
  BY DEF IsBoard
<1>8. at \in Seq(S)
  BY <1>6 DEF Enumerates
<1>9. KnownDeps(b, t) = [i \in DOMAIN at |-> Deps[t][at[i]]]
  BY DEF KnownDeps
<1> QED
  <2> HIDE DEF at, S
  <2>1. /\ DOMAIN at = 1 .. Len(at) /\ Len(at) \in Nat
        /\ \A i \in DOMAIN at : at[i] \in S
    BY <1>8
  <2>2. KnownDeps(b, t) \in [1 .. Len(at) -> Tasks]
    BY <1>7, <1>9, <2>1
  <2> QED
    BY <2>1, <2>2

LEMMA RingTyped ==
    ASSUME NEW b, IsBoard(b), NEW armed \in BOOLEAN, NEW t
    PROVE  /\ DetailStops(armed, b, t) \in Seq(StopType)
           /\ DetailStops(armed, b, t) # <<>> => armed /\ t \in Known(b)
<1>1. CASE ~ armed \/ t \notin Known(b)
  <2>1. DetailStops(armed, b, t) = <<>>
    BY <1>1 DEF DetailStops
  <2>2. <<>> \in Seq(StopType)
    OBVIOUS
  <2> QED
    BY <2>1, <2>2
<1>2. CASE armed /\ t \in Known(b)
  <2>1. t \in Tasks
    BY <1>2 DEF IsBoard
  <2> DEFINE s0 == <<Stop("title", t)>>
             s1 == If(Steerable(TaskRow(b, t, "")), Stop("priority", t))
             s2 == If(~ Terminal(b.tasks[t].status), Stop("labels", t))
             s3 == Stops("escalation", DetailEscalations(b, t))
             s4 == Stops("dep", KnownDeps(b, t))
             s5 == Stops("neededby", DependentsOf(b, t))
             s6 == <<Stop("description", t)>>
  <2>2. /\ \A k \in {"title", "priority", "labels", "description"} :
              Stop(k, t) \in StopType
        /\ \A k \in {"dep", "neededby"}, x \in Tasks : Stop(k, x) \in StopType
        /\ \A x \in Escalations : Stop("escalation", x) \in StopType
    BY <2>1 DEF Stop, StopType
  <2>3. s0 \in Seq(StopType) /\ s6 \in Seq(StopType)
    BY <2>2
  <2>4. s1 \in Seq(StopType)
    BY <2>2, IfTyped DEF Steerable
  <2>5. s2 \in Seq(StopType)
    BY <2>2, IfTyped
  <2>6. s3 \in Seq(StopType)
    BY <2>2, EscalationsTyped, StopsTyped
  <2>7. s4 \in Seq(StopType)
    BY <2>1, <2>2, KnownDepsTyped, StopsTyped
  <2>8. DependentsOf(b, t) \in Seq(Tasks)
    <3> DEFINE S == {u \in Known(b) : t \in ToSet(Deps[u])}
    <3>1. S \subseteq Known(b) /\ S \subseteq Tasks
      BY DEF IsBoard
    <3>2. Enumerates(ById(S), S)
      BY <3>1, InTypes
    <3> QED
      BY <3>1, <3>2 DEF Enumerates, DependentsOf
  <2>9. s5 \in Seq(StopType)
    BY <2>2, <2>8, StopsTyped
  <2>10. DetailStops(armed, b, t) = s0 \o s1 \o s2 \o s3 \o s4 \o s5 \o s6
    BY <1>2 DEF DetailStops
  <2>11. s0 \o s1 \o s2 \o s3 \o s4 \o s5 \o s6 \in Seq(StopType)
    <3> HIDE DEF s0, s1, s2, s3, s4, s5, s6
    <3> QED
      BY <2>3, <2>4, <2>5, <2>6, <2>7, <2>9
  <2> QED
    BY <1>2, <2>10, <2>11
<1> QED
  BY <1>1, <1>2

LEMMA CursorOnFacts ==
    ASSUME NEW S, NEW rows \in Seq(S), NEW sel
    PROVE  /\ CursorOn(rows, sel) \in Nat \ {0}
           /\ CursorOn(rows, sel) = 1 \/ CursorOn(rows, sel) \in DOMAIN rows
           /\ \A q \in DOMAIN rows : RowId(rows[q]) = sel =>
                 /\ CursorOn(rows, sel) \in DOMAIN rows
                 /\ RowId(rows[CursorOn(rows, sel)]) = sel
<1> DEFINE T == {q \in 1 .. Len(rows) : RowId(rows[q]) = sel}
<1>1. DOMAIN rows = 1 .. Len(rows) /\ Len(rows) \in Nat
  OBVIOUS
<1>2. CursorOn(rows, sel) =
         LET i == IF T # {} THEN Min(T) ELSE 0 IN IF i = 0 THEN 1 ELSE i
  BY DEF CursorOn, SelectInSeq
<1>3. T \in SUBSET Nat
  BY <1>1
<1>4. CASE T = {}
  <2>1. CursorOn(rows, sel) = 1
    BY <1>2, <1>4
  <2> QED
    BY <1>1, <1>4, <2>1
<1>5. CASE T # {}
  <2>1. Min(T) \in T
    BY <1>3, <1>5, MinFacts
  <2>2. CursorOn(rows, sel) = Min(T)
    BY <1>1, <1>2, <1>5, <2>1
  <2> DEFINE c == CursorOn(rows, sel)
  <2>3. c \in 1 .. Len(rows) /\ RowId(rows[c]) = sel
    BY <2>1, <2>2
  <2> HIDE DEF c
  <2>4. c \in Nat \ {0} /\ c \in DOMAIN rows
    BY <1>1, <2>3
  <2> QED
    BY <2>3, <2>4 DEF c
<1> QED
  BY <1>4, <1>5

LEMMA IssueTyped ==
    ASSUME Inv, NEW op, NEW id, NEW text, NEW num, Issue(op, id, text, num),
           [op |-> op, id |-> id, text |-> text, num |-> num] \in Requests
    PROVE  /\ writes' \in Seq(Requests) /\ Len(writes') = Len(writes) + 1
           /\ Last(writes') = [op |-> op, id |-> id, text |-> text,
                               num |-> num]
<1>1. writes \in Seq(Requests)
  BY DEF Inv
<1> DEFINE w == [op |-> op, id |-> id, text |-> text, num |-> num]
<1>2. writes' = Append(writes, w)
  BY DEF Issue
<1> HIDE DEF w
<1>3. /\ writes' \in Seq(Requests) /\ Len(writes') = Len(writes) + 1
      /\ writes'[Len(writes) + 1] = w
  BY <1>1, <1>2 DEF w
<1> QED
  BY <1>3 DEF Last, w

LEMMA PaneMoves ==
    ASSUME Inv, world' = world, story' = story, PaneFits(pane', story),
           writes' \in Seq(Requests),
           ~ Armed => writes' = <<>> /\ pane'.mode \in {"nav", "detail"}
    PROVE  Inv'
  BY DEF Inv, Armed

LEMMA PromptFits ==
    ASSUME Inv, pane.mode \in {"nav", "detail"}, NEW mode \in InputModes,
           NEW r \in RowType \cup {NoRow}, NEW was \in Texts,
           mode \notin Fields => was = "", NEW focus \in Nat \ {0}
    PROVE  /\ PaneFits(Prompt(mode, r, was), story)
           /\ PaneFits([Prompt(mode, r, was) EXCEPT !.focus = focus], story)
           /\ Prompt(mode, r, was).mode = mode
           /\ [Prompt(mode, r, was) EXCEPT !.focus = focus].mode = mode
<1> DEFINE p == Prompt(mode, r, was)
           q == [p EXCEPT !.focus = focus]
<1>1. PaneFits(pane, story) /\ pane \in PaneType
  BY DEF Inv, PaneFits
<1>2. /\ p \in PaneType /\ p.mode = mode /\ p.back = pane.mode
      /\ p.was = was /\ p.rows = pane.rows /\ p.cursor = pane.cursor
      /\ p.version = pane.version /\ p.closed = pane.closed
      /\ p.rejected = pane.rejected /\ p.detail = pane.detail
      /\ p.hops = pane.hops /\ p.expanded = pane.expanded
  BY <1>1 DEF Prompt, PaneType
<1>3. /\ q \in PaneType /\ q.mode = p.mode /\ q.back = p.back
      /\ q.was = p.was /\ q.rows = p.rows /\ q.cursor = p.cursor
      /\ q.version = p.version /\ q.closed = p.closed
      /\ q.rejected = p.rejected /\ q.detail = p.detail
      /\ q.hops = p.hops /\ q.expanded = p.expanded
  <2> HIDE DEF p
  <2> QED
    BY <1>2 DEF PaneType
<1>4. mode \notin {"nav", "detail"}
  BY DEF InputModes, TextModes
<1>5. ~ pane.rejected
  BY <1>1 DEF PaneFits, TextModes
<1>6. (pane.detail = 0) = (pane.mode # "detail")
  BY <1>1 DEF PaneFits
<1> HIDE DEF p, q
<1>7. PaneFits(p, story)
  BY <1>1, <1>2, <1>4, <1>5, <1>6 DEF PaneFits
<1>8. PaneFits(q, story)
  BY <1>3, <1>7 DEF PaneFits
<1> QED
  BY <1>2, <1>3, <1>7, <1>8 DEF p, q

LEMMA ClosePromptFits ==
    ASSUME Inv, pane.mode \in InputModes
    PROVE  /\ PaneFits(ClosePrompt, story)
           /\ ClosePrompt.mode \in {"nav", "detail"}
           /\ ClosePrompt.version = pane.version
<1> DEFINE p == ClosePrompt
<1>1. PaneFits(pane, story) /\ pane \in PaneType
  BY DEF Inv, PaneFits
<1>2. /\ p \in PaneType /\ p.mode = pane.back /\ p.back = "nav"
      /\ p.was = "" /\ p.rows = pane.rows /\ p.cursor = pane.cursor
      /\ p.version = pane.version /\ p.closed = pane.closed
      /\ p.rejected = FALSE /\ p.detail = pane.detail
      /\ p.hops = pane.hops /\ p.expanded = pane.expanded
  BY <1>1, TopAssumption DEF ClosePrompt, PaneType
<1>3. pane.mode \notin {"nav", "detail"} /\ pane.back \in {"nav", "detail"}
  BY <1>1 DEF InputModes, TextModes, PaneType
<1>4. (pane.detail = 0) = (pane.back = "nav")
  BY <1>1, <1>3 DEF PaneFits
<1> HIDE DEF p
<1>5. PaneFits(p, story)
  BY <1>1, <1>2, <1>3, <1>4 DEF PaneFits
<1> QED
  BY <1>2, <1>3, <1>5 DEF p

\* What a step may not do: the parts of WritesWhatWasPicked that depend on the
\* action.
Aims ==
    /\ Len(writes') > Len(writes) =>
          LET w == Last(writes')
          IN  \/ /\ pane.mode \in InputModes
                 /\ w.op = pane.mode
                 /\ w.id = IF w.op = "answer" THEN pane.target.esc
                           ELSE pane.target.task
              \/ w.op = "status" /\ \E r \in Aimed : w.id = r.task
    /\ pane'.mode \in InputModes /\ pane.mode = pane'.mode =>
          pane'.target = pane.target
    /\ pane'.version # pane.version =>
          \A r \in Selected, q \in ToSet(pane'.rows) :
              RowId(q) = RowId(r) =>
                  RowId(pane'.rows[pane'.cursor]) = RowId(r)

LEMMA QuietStep ==
    ASSUME Inv, writes' = writes, pane'.version = pane.version,
           pane.mode \in {"nav", "detail"} \/ pane'.mode \in {"nav", "detail"}
    PROVE  Aims
<1>1. \A mode \in {"nav", "detail"} : mode \notin InputModes
  BY DEF InputModes, TextModes
<1>2. Len(writes) \in Nat
  BY DEF Inv
<1> QED
  BY <1>1, <1>2 DEF Aims

LEMMA ElsewhereKeeps ==
    ASSUME Inv, Elsewhere
    PROVE  Inv' /\ Aims
<1>1. PICK b : IsBoard(b) /\ story' = Append(story, b)
  BY ElsewhereIsBoard
<1>2. UNCHANGED <<world, pane, writes>>
  BY DEF Elsewhere
<1>3. writes \in Seq(Requests) /\ Len(writes) \in Nat
  BY DEF Inv
<1>4. Inv'
  BY <1>1, <1>2, <1>3, StoryGrows
<1> QED
  BY <1>2, <1>3, <1>4 DEF Aims

LEMMA LandKeeps ==
    ASSUME Inv, Land \/ Lost
    PROVE  Inv' /\ Aims
<1>1. PICK i \in DOMAIN writes : writes' = RemoveAt(writes, i)
  BY DEF Land, Lost
<1>2. UNCHANGED <<world, pane>>
  BY DEF Land, Lost
<1>3. writes \in Seq(Requests) /\ Len(writes) \in Nat
  BY DEF Inv
<1>4. /\ writes' \in Seq(Requests) /\ Len(writes') = Len(writes) - 1
      /\ writes # <<>>
  BY <1>1, <1>3, Removed
<1>5. ASSUME Land
      PROVE  Inv'
  <2>1. PICK j \in DOMAIN writes :
           \E b \in Applied(Ledger, writes[j]) : Becomes(b)
    BY <1>5 DEF Land
  <2>2. PICK b \in Applied(Ledger, writes[j]) : Becomes(b)
    BY <2>1
  <2>3. IsBoard(Ledger) /\ Now \in Nat
    BY BoardType DEF Inv, Ledger, Now
  <2>4. writes[j] \in Requests
    BY <1>3
  <2>5. IsBoard(b)
    BY <2>3, <2>4, AppliedIsBoard
  <2>6. story' = Append(story, b)
    BY <2>2 DEF Becomes
  <2>7. pane' = pane /\ world' = world
    BY <1>2
  <2> QED
    BY <1>4, <2>5, <2>6, <2>7, StoryGrows
<1>6. ASSUME Lost
      PROVE  Inv'
  <2>1. story' = story /\ PaneFits(pane, story)
    BY <1>6 DEF Lost, Inv
  <2>2. Armed
    BY <1>4 DEF Inv
  <2>3. PaneFits(pane', story) /\ world' = world
    BY <1>2, <2>1
  <2> QED
    BY <1>4, <2>1, <2>2, <2>3, PaneMoves
<1>7. Aims
  BY <1>2, <1>3, <1>4 DEF Aims
<1> QED
  BY <1>5, <1>6, <1>7

\* A refresh changes the rows and leaves the cursor on its row.
LEMMA RefreshKeeps ==
    ASSUME Inv, Refresh
    PROVE  Inv' /\ Aims
<1> DEFINE sel == IF Selected = {} THEN <<>>
                  ELSE RowId(pane.rows[pane.cursor])
           rows(v) == ActiveRows(pane.closed, story[v])
<1>1. PICK v \in (pane.version + 1) .. Len(story) :
         pane' = [pane EXCEPT !.version = v, !.rows = rows(v),
                              !.cursor = CursorOn(rows(v), sel)]
  BY DEF Refresh
<1>2. UNCHANGED <<world, story, writes>>
  BY DEF Refresh
<1>3. PaneFits(pane, story) /\ pane \in PaneType
  BY DEF Inv, PaneFits
<1>4. /\ pane.version \in Nat /\ pane.closed \in BOOLEAN
      /\ v \in 1 .. Len(story) /\ v \in Nat /\ v > 0
  BY <1>3 DEF PaneType, Inv
<1>5. rows(v) \in Seq(RowType)
  BY <1>4, SnapIsBoard, RowsTyped
<1>6. /\ CursorOn(rows(v), sel) \in Nat \ {0}
      /\ \/ CursorOn(rows(v), sel) = 1
         \/ CursorOn(rows(v), sel) \in DOMAIN rows(v)
      /\ \A q \in DOMAIN rows(v) : RowId(rows(v)[q]) = sel =>
            RowId(rows(v)[CursorOn(rows(v), sel)]) = sel
  <2> HIDE DEF sel
  <2> QED
    BY <1>5, CursorOnFacts
<1> DEFINE R == rows(v)
           c == CursorOn(R, sel)
<1>7. /\ R \in Seq(RowType) /\ c \in Nat \ {0}
      /\ c = 1 \/ c \in DOMAIN R
      /\ R = ActiveRows(pane.closed, story[v])
      /\ \A q \in DOMAIN R : RowId(R[q]) = sel => RowId(R[c]) = sel
  BY <1>5, <1>6
<1>8. pane' = [pane EXCEPT !.version = v, !.rows = R, !.cursor = c]
  BY <1>1
<1>9. \A r \in Selected : RowId(r) = sel
  BY SelectedTyped
<1> HIDE DEF R, c, sel
<1>10. /\ pane' \in PaneType /\ pane'.version = v /\ pane'.rows = R
       /\ pane'.cursor = c /\ pane'.closed = pane.closed
       /\ pane'.mode = pane.mode /\ pane'.back = pane.back
       /\ pane'.was = pane.was /\ pane'.rejected = pane.rejected
       /\ pane'.detail = pane.detail /\ pane'.hops = pane.hops
       /\ pane'.expanded = pane.expanded /\ pane'.target = pane.target
  BY <1>3, <1>4, <1>7, <1>8 DEF PaneType
<1>11. PaneFits(pane', story)
  <2>1. v <= Len(story)
    BY <1>4 DEF Inv
  <2>2. /\ pane.mode \notin Fields => pane.was = ""
        /\ pane.rejected => pane.mode \in TextModes
        /\ (pane.detail = 0)
              = (pane.mode # "detail" /\ "nav" \in {pane.mode, pane.back})
        /\ pane.mode \in {"nav", "detail"} => pane.back = "nav"
        /\ pane.detail = 0 => pane.hops = <<>> /\ pane.expanded = {}
    BY <1>3 DEF PaneFits
  <2>3. /\ pane'.rows = ActiveRows(pane'.closed, story[pane'.version])
        /\ pane'.version # 0
    BY <1>4, <1>7, <1>10
  <2>4. pane'.cursor = 1 \/ pane'.cursor \in DOMAIN pane'.rows
    BY <1>7, <1>10
  <2>5. pane'.version <= Len(story) /\ pane'.version > 0
    BY <1>4, <1>10, <2>1
  <2>6. /\ pane'.mode \notin Fields => pane'.was = ""
        /\ pane'.rejected => pane'.mode \in TextModes
        /\ (pane'.detail = 0)
              = (pane'.mode # "detail" /\ "nav" \in {pane'.mode, pane'.back})
        /\ pane'.mode \in {"nav", "detail"} => pane'.back = "nav"
        /\ pane'.detail = 0 => pane'.hops = <<>> /\ pane'.expanded = {}
    BY <1>10, <2>2
  <2> QED
    BY <1>10, <2>3, <2>4, <2>5, <2>6 DEF PaneFits
<1>12. Inv'
  BY <1>2, <1>10, <1>11, PaneMoves DEF Inv
<1>13. Aims
  <2>1. Len(writes) \in Nat
    BY DEF Inv
  <2>2. ASSUME NEW r \in Selected, NEW q \in ToSet(pane'.rows),
               RowId(q) = RowId(r)
        PROVE  RowId(pane'.rows[pane'.cursor]) = RowId(r)
    <3>1. PICK i \in DOMAIN R : q = R[i]
      BY <1>10 DEF ToSet
    <3> QED
      BY <1>7, <1>9, <1>10, <2>2, <3>1
  <2> QED
    BY <1>2, <1>10, <2>1, <2>2 DEF Aims
<1> QED
  BY <1>12, <1>13, SMTT(60)

LEMMA ListKeeps ==
    ASSUME Inv, MoveCursor \/ ListTab \/ ListEsc
    PROVE  Inv' /\ Aims
<1>1. PaneFits(pane, story) /\ pane \in PaneType
  BY DEF Inv, PaneFits
<1>2. /\ UNCHANGED <<world, story, writes>> /\ pane.mode = "nav"
      /\ writes \in Seq(Requests)
  BY DEF MoveCursor, Move, ListTab, ListEsc, Inv
<1>3. CASE MoveCursor
  <2>1. PICK i \in DOMAIN pane.rows : pane' = [pane EXCEPT !.cursor = i]
    BY <1>3 DEF MoveCursor, Move
  <2>2. pane.rows \in Seq(RowType)
    BY <1>1 DEF PaneType
  <2>3. i \in Nat \ {0}
    BY <2>2
  <2>4. /\ pane' \in PaneType /\ pane'.version = pane.version
        /\ pane'.rows = pane.rows /\ pane'.cursor = i
        /\ pane'.closed = pane.closed /\ pane'.mode = pane.mode
        /\ pane'.back = pane.back /\ pane'.was = pane.was
        /\ pane'.rejected = pane.rejected /\ pane'.detail = pane.detail
        /\ pane'.hops = pane.hops /\ pane'.expanded = pane.expanded
    BY <1>1, <2>1, <2>3 DEF PaneType
  <2>5. PaneFits(pane', story)
    BY <1>1, <2>4 DEF PaneFits
  <2>6. Inv'
    BY <1>2, <2>4, <2>5, PaneMoves DEF Inv
  <2> QED
    BY <1>2, <2>4, <2>6, QuietStep
<1>4. CASE ListTab \/ ListEsc
  <2>1. pane' = SwitchList
    BY <1>4 DEF ListTab, ListEsc
  <2>2. pane.version > 0
    BY <1>1, <1>4 DEF ListTab, ListEsc, PaneFits
  <2>3. PICK flip \in BOOLEAN : flip = ~ pane.closed
    OBVIOUS
  <2> DEFINE R == ActiveRows(flip, Snap)
  <2>4. R \in Seq(RowType)
    BY <2>3, SnapIsBoard, RowsTyped
  <2>5. R = ActiveRows(flip, story[pane.version])
    BY <2>2, SnapIsBoard
  <2>6. pane' = [pane EXCEPT !.closed = flip, !.rows = R, !.cursor = 1]
    BY <2>1, <2>3 DEF SwitchList
  <2> HIDE DEF R
  <2>7. /\ pane' \in PaneType /\ pane'.version = pane.version
        /\ pane'.rows = R /\ pane'.cursor = 1
        /\ pane'.closed = flip /\ pane'.mode = pane.mode
        /\ pane'.back = pane.back /\ pane'.was = pane.was
        /\ pane'.rejected = pane.rejected /\ pane'.detail = pane.detail
        /\ pane'.hops = pane.hops /\ pane'.expanded = pane.expanded
    <3>1. pane' \in PaneType
      <4>1. \A n \in Nat \ {0} : [pane EXCEPT !.closed = flip, !.rows = R,
                                              !.cursor = n] \in PaneType
        BY <1>1, <2>4 DEF PaneType
      <4>2. 1 \in Nat \ {0}
        OBVIOUS
      <4> HIDE DEF PaneType
      <4>3. [pane EXCEPT !.closed = flip, !.rows = R, !.cursor = 1]
               \in PaneType
        BY <4>1, <4>2, Zenon
      <4> QED
        BY <2>6, <4>3
    <3>2. /\ pane'.version = pane.version
          /\ pane'.rows = R /\ pane'.cursor = 1
          /\ pane'.mode = pane.mode
          /\ pane'.back = pane.back /\ pane'.was = pane.was
          /\ pane'.rejected = pane.rejected /\ pane'.detail = pane.detail
          /\ pane'.hops = pane.hops /\ pane'.expanded = pane.expanded
      BY <1>1, <2>4, <2>6 DEF PaneType
    <3>3. pane'.closed = flip
      BY <1>1, <2>4, <2>6 DEF PaneType
    <3> QED
      BY <3>1, <3>2, <3>3
  <2>8. PaneFits(pane', story)
    <3>1. pane.version # 0
      BY <1>1, <2>2 DEF PaneType
    <3>2. pane'.rows = ActiveRows(pane'.closed, story[pane'.version])
      BY <2>5, <2>7
    <3> QED
      BY <1>1, <2>2, <2>7, <3>1, <3>2 DEF PaneFits
  <2>9. Inv'
    BY <1>2, <2>7, <2>8, PaneMoves DEF Inv
  <2> QED
    BY <1>2, <2>7, <2>9, QuietStep
<1> QED
  BY <1>3, <1>4

LEMMA OpenRowKeeps ==
    ASSUME Inv, OpenRow
    PROVE  Inv' /\ Aims
<1>1. PaneFits(pane, story) /\ pane \in PaneType
  BY DEF Inv, PaneFits
<1>2. /\ UNCHANGED <<world, story, writes>> /\ pane.mode = "nav"
      /\ writes \in Seq(Requests)
  BY DEF OpenRow, Inv
<1> DEFINE stop(r) == SelectInSeq(DetailStops(Armed, Snap, r.task),
                       LAMBDA s : s.kind = "escalation" /\ s.id = r.esc)
<1>3. PICK r \in Selected :
         pane' = [pane EXCEPT !.mode = "detail", !.detail = r.task,
                              !.hops = <<>>, !.expanded = {},
                              !.focus = IF stop(r) = 0 THEN 1 ELSE stop(r)]
  BY DEF OpenRow
<1>4. r.task \in Tasks /\ r.task # 0
  BY SelectedTyped, RowTypes
<1> DEFINE asked == stop(r)
           focus == IF asked = 0 THEN 1 ELSE asked
<1>5. focus \in Nat \ {0}
  <2> DEFINE stops == DetailStops(Armed, Snap, r.task)
             T == {i \in 1 .. Len(stops) :
                      stops[i].kind = "escalation" /\ stops[i].id = r.esc}
  <2>1. asked = IF T # {} THEN Min(T) ELSE 0
    BY DEF SelectInSeq
  <2>2. Armed \in BOOLEAN
    BY TopAssumption DEF Inv, Armed
  <2>3. stops \in Seq(StopType)
    BY <2>2, SnapIsBoard, RingTyped
  <2>4. T \in SUBSET Nat
    <3> HIDE DEF stops
    <3> QED
      BY <2>3
  <2>5. T # {} => Min(T) \in Nat
    <3> HIDE DEF T
    <3> QED
      BY <2>4, MinFacts
  <2> HIDE DEF T, asked
  <2> QED
    BY <2>1, <2>5
<1> HIDE DEF focus
<1>6. pane' = [pane EXCEPT !.mode = "detail", !.detail = r.task,
                           !.hops = <<>>, !.expanded = {}, !.focus = focus]
  BY <1>3 DEF focus
<1>7. /\ pane' \in PaneType /\ pane'.version = pane.version
      /\ pane'.rows = pane.rows /\ pane'.cursor = pane.cursor
      /\ pane'.closed = pane.closed /\ pane'.mode = "detail"
      /\ pane'.back = pane.back /\ pane'.was = pane.was
      /\ pane'.rejected = pane.rejected /\ pane'.detail = r.task
      /\ pane'.hops = <<>> /\ pane'.expanded = {}
  <2>1. <<>> \in Seq(Tasks)
    OBVIOUS
  <2> QED
    BY <1>1, <1>4, <1>5, <1>6, <2>1 DEF PaneType
<1>8. PaneFits(pane', story)
  <2>1. ~ pane.rejected /\ pane.was = "" /\ pane.back = "nav"
    BY <1>1, <1>2 DEF PaneFits, TextModes, Fields
  <2> QED
    BY <1>1, <1>4, <1>7, <2>1 DEF PaneFits
<1>9. Inv'
  BY <1>2, <1>7, <1>8, PaneMoves DEF Inv
<1> QED
  BY <1>2, <1>7, <1>9, QuietStep

\* The keys that open a prompt.
LEMMA PromptStep ==
    ASSUME Inv, Armed, pane.mode \in {"nav", "detail"},
           PaneFits(pane', story), pane'.version = pane.version,
           UNCHANGED <<world, story, writes>>
    PROVE  Inv' /\ Aims
  BY PaneMoves, QuietStep DEF Inv

LEMMA PromptKeysKeep ==
    ASSUME Inv, CaptureKey \/ PriorityKey \/ CancelKey
    PROVE  Inv' /\ Aims
<1>1. Armed /\ UNCHANGED <<world, story, writes>>
  BY DEF CaptureKey, PriorityKey, CancelKey
<1>2. \E mode \in InputModes \ Fields, r \in RowType \cup {NoRow} :
         pane' = Prompt(mode, r, "") /\ pane.mode \in {"nav", "detail"}
  <2>1. CASE CaptureKey
    BY <2>1 DEF CaptureKey, InputModes, TextModes, Fields
  <2>2. CASE PriorityKey
    BY <2>2, AimedTyped DEF PriorityKey, InputModes, Fields
  <2>3. CASE CancelKey
    BY <2>3, AimedTyped DEF CancelKey, InputModes, Fields
  <2> QED
    BY <2>1, <2>2, <2>3
<1>3. PICK mode \in InputModes \ Fields, r \in RowType \cup {NoRow} :
         pane' = Prompt(mode, r, "") /\ pane.mode \in {"nav", "detail"}
  BY <1>2
<1>4. "" \in Texts
  BY TopAssumption
<1>5. PaneFits(pane', story)
  <2>1. mode \in InputModes /\ mode \notin Fields /\ 1 \in Nat \ {0}
    OBVIOUS
  <2>2. PaneFits(Prompt(mode, r, ""), story)
    BY <1>3, <1>4, <2>1, PromptFits
  <2> QED
    BY <1>3, <2>2
<1>6. pane'.version = pane.version
  <2>1. pane \in PaneType
    BY DEF Inv, PaneFits
  <2> QED
    BY <1>3, <2>1 DEF Prompt, PaneType
<1> QED
  BY <1>1, <1>3, <1>5, <1>6, PromptStep

LEMMA MoveStatusKeeps ==
    ASSUME Inv, NEW status \in {"open", "held", "inbox"}, MoveStatus(status)
    PROVE  Inv' /\ Aims
<1>1. PICK r \in Aimed : Issue("status", r.task, status, 0)
  BY DEF MoveStatus
<1>2. Armed /\ UNCHANGED <<world, story, pane>>
  BY DEF MoveStatus
<1>3. r \in RowType /\ r.task \in Nat
  BY AimedTyped, RowTypes
<1> DEFINE w == [op |-> "status", id |-> r.task, text |-> status, num |-> 0]
<1>4. w \in Requests
  BY <1>3 DEF Requests, Statuses, InputModes, TextModes
<1>5. writes' \in Seq(Requests) /\ Last(writes') = w
  BY <1>1, <1>4, IssueTyped
<1>6. PaneFits(pane', story)
  BY <1>2 DEF Inv
<1>7. Inv'
  BY <1>2, <1>5, <1>6, PaneMoves
<1>8. Last(writes').op = "status" /\ Last(writes').id = r.task
  BY <1>5
<1>9. Aims
  BY <1>2, <1>8 DEF Aims
<1> QED
  BY <1>7, <1>9

LEMMA NoTaskIsZero == \A t \in Tasks : t \in Nat /\ t # 0
  BY BoardAssumption

\* What a view finds in the other fields.
LEMMA ViewFields ==
    ASSUME Inv, pane.mode = "detail"
    PROVE  /\ pane.detail \in Tasks /\ pane.detail # 0
           /\ pane.hops \in Seq(Tasks)
           /\ ~ pane.rejected /\ pane.back = "nav" /\ pane.was = ""
<1>1. PaneFits(pane, story) /\ pane \in PaneType
  BY DEF Inv, PaneFits
<1>2. /\ pane.detail \in Tasks \cup {0} /\ pane.hops \in Seq(Tasks)
      /\ pane.rejected \in BOOLEAN
  BY <1>1 DEF PaneType
<1>3. pane.detail # 0 /\ pane.back = "nav"
  BY <1>1 DEF PaneFits
<1>4. ~ pane.rejected /\ pane.was = ""
  BY <1>1, <1>2 DEF PaneFits, TextModes, Fields
<1> QED
  BY <1>2, <1>3, <1>4

\* Moving within a view, and out of it.
LEMMA DetailEscKeeps ==
    ASSUME Inv, DetailEsc
    PROVE  Inv' /\ Aims
<1>1. PaneFits(pane, story) /\ pane \in PaneType
  BY DEF Inv, PaneFits
<1>2. /\ UNCHANGED <<world, story, writes>> /\ pane.mode = "detail"
      /\ writes \in Seq(Requests)
  BY DEF DetailEsc, Inv
<1>3. /\ pane.detail \in Tasks /\ pane.detail # 0
      /\ pane.hops \in Seq(Tasks)
      /\ ~ pane.rejected /\ pane.back = "nav" /\ pane.was = ""
  BY <1>1, <1>2, ViewFields
<1> PICK one \in Nat \ {0} : one = 1
  OBVIOUS
<1>4. CASE pane.hops # <<>>
  <2> DEFINE t == Last(pane.hops)
             h == Front(pane.hops)
  <2>1. t \in Tasks /\ h \in Seq(Tasks)
    <3> DEFINE hops == pane.hops
    <3>1. hops \in Seq(Tasks) /\ hops # <<>>
      BY <1>3, <1>4
    <3> HIDE DEF hops
    <3>2. /\ Len(hops) \in Nat /\ Len(hops) > 0
          /\ DOMAIN hops = 1 .. Len(hops)
      BY <3>1
    <3>3. hops[Len(hops)] \in Tasks
      BY <3>1, <3>2
    <3>4. SubSeq(hops, 1, Len(hops) - 1) \in Seq(Tasks)
      BY <3>1, <3>2
    <3> QED
      BY <3>3, <3>4 DEF Last, Front, hops
  <2>2. pane' = [pane EXCEPT !.detail = t, !.hops = h, !.focus = one]
    BY <1>4 DEF DetailEsc
  <2>3. t # 0
    BY <2>1, NoTaskIsZero
  <2> HIDE DEF t, h
  <2>4. /\ pane' \in PaneType /\ pane'.version = pane.version
        /\ pane'.rows = pane.rows /\ pane'.cursor = pane.cursor
        /\ pane'.closed = pane.closed /\ pane'.mode = "detail"
        /\ pane'.back = pane.back /\ pane'.was = pane.was
        /\ pane'.rejected = pane.rejected /\ pane'.detail = t
    BY <1>1, <1>2, <1>3, <2>1, <2>2 DEF PaneType
  <2>5. PaneFits(pane', story)
    BY <1>1, <1>3, <2>3, <2>4 DEF PaneFits
  <2>6. Inv'
    BY <1>2, <2>4, <2>5, PaneMoves DEF Inv
  <2> QED
    BY <1>2, <2>4, <2>6, QuietStep
<1>5. CASE pane.hops = <<>>
  <2>1. pane' = [pane EXCEPT !.mode = "nav", !.detail = 0, !.focus = one,
                             !.expanded = {}]
    BY <1>5 DEF DetailEsc
  <2>2. /\ pane' \in PaneType /\ pane'.version = pane.version
        /\ pane'.rows = pane.rows /\ pane'.cursor = pane.cursor
        /\ pane'.closed = pane.closed /\ pane'.mode = "nav"
        /\ pane'.back = pane.back /\ pane'.was = pane.was
        /\ pane'.rejected = pane.rejected /\ pane'.detail = 0
        /\ pane'.hops = <<>> /\ pane'.expanded = {}
    BY <1>1, <1>3, <1>5, <2>1 DEF PaneType
  <2>3. PaneFits(pane', story)
    BY <1>1, <1>3, <2>2 DEF PaneFits
  <2>4. Inv'
    BY <1>2, <2>2, <2>3, PaneMoves DEF Inv
  <2> QED
    BY <1>2, <2>2, <2>4, QuietStep
<1> QED
  BY <1>4, <1>5

\* The ring of the viewed task.
LEMMA FocusedTyped ==
    ASSUME Inv
    PROVE  /\ Ring \in Seq(StopType)
           /\ Ring # <<>> => /\ Armed /\ pane.detail \in Known(Snap)
                             /\ Focused \in Nat \ {0}
                             /\ Ring[Focused] \in StopType
<1>1. Armed \in BOOLEAN
  BY TopAssumption DEF Inv, Armed
<1>2. /\ Ring \in Seq(StopType)
      /\ Ring # <<>> => Armed /\ pane.detail \in Known(Snap)
  BY <1>1, SnapIsBoard, RingTyped DEF Ring
<1>3. pane.focus \in Nat \ {0}
  BY DEF Inv, PaneFits, PaneType
<1>4. ASSUME Ring # <<>>
      PROVE  Focused \in Nat \ {0} /\ Ring[Focused] \in StopType
  <2>1. Len(Ring) \in Nat \ {0} /\ DOMAIN Ring = 1 .. Len(Ring)
    BY <1>2, <1>4
  <2>2. Focused \in 1 .. Len(Ring)
    BY <1>3, <2>1 DEF Focused, FocusIdx
  <2> QED
    BY <1>2, <2>1, <2>2
<1> QED
  BY <1>2, <1>4

LEMMA MoveFocusKeeps ==
    ASSUME Inv, MoveFocus
    PROVE  Inv' /\ Aims
<1>1. PaneFits(pane, story) /\ pane \in PaneType
  BY DEF Inv, PaneFits
<1>2. /\ UNCHANGED <<world, story, writes>> /\ pane.mode = "detail"
      /\ writes \in Seq(Requests)
  BY DEF MoveFocus, Inv
<1>3. PICK i \in DOMAIN Ring : pane' = [pane EXCEPT !.focus = i]
  BY DEF MoveFocus
<1>4. i \in Nat \ {0}
  BY <1>3, FocusedTyped
<1>5. /\ pane' \in PaneType /\ pane'.version = pane.version
      /\ pane'.rows = pane.rows /\ pane'.cursor = pane.cursor
      /\ pane'.closed = pane.closed /\ pane'.mode = pane.mode
      /\ pane'.back = pane.back /\ pane'.was = pane.was
      /\ pane'.rejected = pane.rejected /\ pane'.detail = pane.detail
      /\ pane'.hops = pane.hops /\ pane'.expanded = pane.expanded
  BY <1>1, <1>3, <1>4 DEF PaneType
<1>6. PaneFits(pane', story)
  BY <1>1, <1>5 DEF PaneFits
<1>7. Inv'
  BY <1>2, <1>5, <1>6, PaneMoves DEF Inv
<1> QED
  BY <1>2, <1>5, <1>7, QuietStep

LEMMA ToggleContextKeeps ==
    ASSUME Inv, ToggleContext
    PROVE  Inv' /\ Aims
<1>1. PaneFits(pane, story) /\ pane \in PaneType
  BY DEF Inv, PaneFits
<1>2. /\ UNCHANGED <<world, story, writes>> /\ pane.mode = "detail"
      /\ writes \in Seq(Requests)
  BY DEF ToggleContext, Inv
<1> DEFINE asked == ToSet(DetailEscalations(Snap, pane.detail))
           flips == IF Ring = <<>> THEN asked
                    ELSE {Ring[Focused].id} \cap
                         {e \in asked : Ring[Focused].kind = "escalation"}
           X == SymDiff(pane.expanded, flips)
<1>3. asked \subseteq Escalations
  BY SnapIsBoard, EscalationsTyped
<1>4. flips \subseteq Escalations
  <2> HIDE DEF asked
  <2> QED
    BY <1>3
<1>5. pane' = [pane EXCEPT !.expanded = X]
  BY DEF ToggleContext
<1>6. X \in SUBSET Escalations
  <2> HIDE DEF flips
  <2> QED
    BY <1>1, <1>4 DEF SymDiff, PaneType
<1> HIDE DEF X
<1>7. /\ pane' \in PaneType /\ pane'.version = pane.version
      /\ pane'.rows = pane.rows /\ pane'.cursor = pane.cursor
      /\ pane'.closed = pane.closed /\ pane'.mode = pane.mode
      /\ pane'.back = pane.back /\ pane'.was = pane.was
      /\ pane'.rejected = pane.rejected /\ pane'.detail = pane.detail
      /\ pane'.hops = pane.hops
  BY <1>1, <1>5, <1>6 DEF PaneType
<1>8. PaneFits(pane', story)
  BY <1>1, <1>2, <1>7 DEF PaneFits
<1>9. Inv'
  BY <1>2, <1>7, <1>8, PaneMoves DEF Inv
<1> QED
  BY <1>2, <1>7, <1>9, QuietStep

\* Enter: to a neighbour of the task, or to a prompt.
LEMMA OpenStopKeeps ==
    ASSUME Inv, OpenStop
    PROVE  Inv' /\ Aims
<1>1. PaneFits(pane, story) /\ pane \in PaneType
  BY DEF Inv, PaneFits
<1>2. /\ UNCHANGED <<world, story, writes>> /\ pane.mode = "detail"
      /\ writes \in Seq(Requests)
  BY DEF OpenStop, Inv
<1> DEFINE s == Ring[Focused]
<1>3. /\ Armed /\ pane.detail \in Known(Snap) /\ Focused \in Nat \ {0}
      /\ s \in StopType
  BY FocusedTyped DEF OpenStop
<1>4. /\ s.kind \in {"dep", "neededby"} =>
           pane' = [pane EXCEPT !.hops = Append(@, pane.detail),
                                !.detail = s.id, !.focus = 1]
      /\ s.kind = "escalation" =>
           pane' = [Prompt("answer", EscRow(s.id), "")
                    EXCEPT !.focus = Focused]
      /\ s.kind \notin {"dep", "neededby", "escalation"} => EditStop(s.kind)
  BY DEF OpenStop
<1> HIDE DEF s
<1>5. "" \in Texts
  BY TopAssumption
<1>6. /\ pane.detail \in Tasks /\ pane.detail # 0
      /\ pane.hops \in Seq(Tasks)
      /\ ~ pane.rejected /\ pane.back = "nav" /\ pane.was = ""
  BY <1>1, <1>2, ViewFields
<1> PICK one \in Nat \ {0} : one = 1
  OBVIOUS
<1>7. CASE s.kind \in {"dep", "neededby"}
  <2> DEFINE h == Append(pane.hops, pane.detail)
             t == s.id
  <2>1. t \in Tasks
    BY <1>3, <1>7 DEF StopType
  <2>2. t # 0
    BY <2>1, NoTaskIsZero
  <2>3. h \in Seq(Tasks)
    <3>1. \A q \in Seq(Tasks), u \in Tasks : Append(q, u) \in Seq(Tasks)
      OBVIOUS
    <3> QED
      BY <1>6, <3>1
  <2>4. pane' = [pane EXCEPT !.hops = h, !.detail = t, !.focus = one]
    BY <1>4, <1>7
  <2> HIDE DEF t, h
  <2>5. /\ pane' \in PaneType /\ pane'.version = pane.version
        /\ pane'.rows = pane.rows /\ pane'.cursor = pane.cursor
        /\ pane'.closed = pane.closed /\ pane'.mode = "detail"
        /\ pane'.back = pane.back /\ pane'.was = pane.was
        /\ pane'.rejected = pane.rejected /\ pane'.detail = t
    BY <1>1, <1>2, <1>6, <2>1, <2>3, <2>4 DEF PaneType
  <2>6. PaneFits(pane', story)
    BY <1>1, <1>6, <2>2, <2>5 DEF PaneFits
  <2>7. Inv'
    BY <1>2, <2>5, <2>6, PaneMoves DEF Inv
  <2> QED
    BY <1>2, <2>5, <2>7, QuietStep
<1>8. ASSUME NEW mode \in InputModes, NEW r \in RowType, NEW was \in Texts,
             mode \notin Fields => was = "",
             pane' = [Prompt(mode, r, was) EXCEPT !.focus = Focused]
      PROVE  Inv' /\ Aims
  <2>1. PaneFits(pane', story)
    BY <1>2, <1>3, <1>8, PromptFits
  <2>2. pane'.version = pane.version
    BY <1>1, <1>8 DEF Prompt, PaneType
  <2> QED
    BY <1>2, <1>3, <2>1, <2>2, PromptStep
<1>9. CASE s.kind = "escalation"
  <2>1. s.id \in Escalations
    BY <1>3, <1>9 DEF StopType
  <2>2. EscRow(s.id) \in RowType
    BY <2>1 DEF RowType
  <2>3. "answer" \in InputModes /\ "answer" \notin Fields
    BY DEF InputModes, TextModes, Fields
  <2> QED
    BY <1>4, <1>5, <1>8, <1>9, <2>2, <2>3
<1>10. CASE s.kind \notin {"dep", "neededby", "escalation"}
  <2> DEFINE k == s.kind
             was(t) == IF k \in Fields THEN Snap.tasks[t][k] ELSE ""
  <2>1. k \in {"title", "priority", "labels", "description"}
    BY <1>3, <1>10 DEF StopType
  <2>2. PICK r \in ViewedTask :
           pane' = [Prompt(k, r, was(r.task)) EXCEPT !.focus = Focused]
    BY <1>4, <1>10 DEF EditStop
  <2>3. r \in Aimed
    BY <1>2, <2>2 DEF Aimed
  <2>4. r \in RowType
    BY <2>3, AimedTyped
  <2>5. r.task = pane.detail
    <3>1. r = TaskRow(Snap, pane.detail, "")
      BY <2>2 DEF ViewedTask
    <3> QED
      BY <3>1 DEF TaskRow
  <2>6. Snap.tasks[r.task] \in Task
    BY <1>3, <2>5, SnapIsBoard DEF IsBoard
  <2>7. was(r.task) \in Texts
    BY <1>5, <2>6 DEF Task, Fields
  <2>8. k \in InputModes
    BY <2>1 DEF InputModes, TextModes
  <2>9. k \notin Fields => was(r.task) = ""
    OBVIOUS
  <2> HIDE DEF k, was
  <2> QED
    BY <1>8, <2>2, <2>4, <2>7, <2>8, <2>9
<1> QED
  BY <1>7, <1>9, <1>10

-----------------------------------------------------------------------------
\* The prompts close, with a request or without.
LEMMA PromptEscKeeps ==
    ASSUME Inv, PromptEsc
    PROVE  Inv' /\ Aims
<1>1. pane' = ClosePrompt /\ pane.mode \in InputModes
      /\ UNCHANGED <<world, story, writes>>
  BY DEF PromptEsc
<1>2. /\ PaneFits(pane', story) /\ pane'.mode \in {"nav", "detail"}
      /\ pane'.version = pane.version
  BY <1>1, ClosePromptFits
<1>3. Inv'
  BY <1>1, <1>2, PaneMoves DEF Inv
<1> QED
  BY <1>1, <1>2, <1>3, QuietStep

LEMMA NotWhileWatching ==
    ASSUME Inv, pane.mode \in InputModes
    PROVE  Armed
<1>1. \A mode \in {"nav", "detail"} : mode \notin InputModes
  BY DEF InputModes, TextModes
<1> QED
  BY <1>1 DEF Inv

\* What a prompt sends is about its target.
Sent(op) == IF op = "answer" THEN pane.target.esc ELSE pane.target.task

LEMMA TargetTyped ==
    ASSUME Inv
    PROVE  pane.target.esc \in Nat /\ pane.target.task \in Nat
<1>1. pane.target \in RowType \cup {NoRow}
  BY DEF Inv, PaneFits, PaneType
<1>2. NoRow.esc = 0 /\ NoRow.task = 0
  BY DEF NoRow
<1> QED
  BY <1>1, <1>2, RowTypes

LEMMA SendStep ==
    ASSUME Inv, pane.mode \in InputModes, pane' = ClosePrompt,
           UNCHANGED <<world, story>>, NEW text, NEW num,
           Issue(pane.mode, Sent(pane.mode), text, num),
           [op |-> pane.mode, id |-> Sent(pane.mode), text |-> text,
            num |-> num] \in Requests
    PROVE  Inv' /\ Aims
<1> DEFINE w == [op |-> pane.mode, id |-> Sent(pane.mode), text |-> text,
                 num |-> num]
<1>1. writes' \in Seq(Requests) /\ Last(writes') = w
  BY IssueTyped
<1>2. /\ PaneFits(pane', story) /\ pane'.mode \in {"nav", "detail"}
      /\ pane'.version = pane.version
  BY ClosePromptFits
<1>3. Inv'
  BY <1>1, <1>2, NotWhileWatching, PaneMoves
<1>4. /\ Last(writes').op = pane.mode
      /\ Last(writes').id = Sent(pane.mode)
  BY <1>1
<1>5. pane'.mode \notin InputModes
  BY <1>2 DEF InputModes, TextModes
<1>6. Aims
  BY <1>2, <1>4, <1>5 DEF Aims, Sent
<1> QED
  BY <1>3, <1>6

LEMMA PickPriorityKeeps ==
    ASSUME Inv, PickPriority
    PROVE  Inv' /\ Aims
<1>1. PICK p \in Priorities \cup {Unset} :
         Issue("priority", pane.target.task, "", p)
  BY DEF PickPriority
<1>2. /\ pane.mode = "priority" /\ pane' = ClosePrompt
      /\ UNCHANGED <<world, story>>
  BY DEF PickPriority
<1>3. p \in Nat /\ "" \in Texts
  <2>1. Priorities \subseteq Nat
    BY BoardAssumption
  <2>2. "" \in Texts
    BY TopAssumption
  <2>3. p \in Nat
    BY <2>1 DEF Unset
  <2> QED
    BY <2>2, <2>3
<1>4. Sent("priority") = pane.target.task /\ Sent("priority") \in Nat
  BY TargetTyped DEF Sent
<1>5. [op |-> "priority", id |-> Sent("priority"), text |-> "", num |-> p]
         \in Requests
  BY <1>3, <1>4 DEF Requests, InputModes, TextModes
<1>6. pane.mode \in InputModes
  BY <1>2 DEF InputModes
<1> QED
  BY <1>1, <1>2, <1>4, <1>5, <1>6, SendStep

LEMMA ConfirmCancelKeeps ==
    ASSUME Inv, ConfirmCancel
    PROVE  Inv' /\ Aims
<1>1. /\ Issue("cancel", pane.target.task, "cancelled", 0)
      /\ pane.mode = "cancel" /\ pane' = ClosePrompt
      /\ UNCHANGED <<world, story>>
  BY DEF ConfirmCancel
<1>2. Sent("cancel") = pane.target.task /\ Sent("cancel") \in Nat
  BY TargetTyped DEF Sent
<1>3. [op |-> "cancel", id |-> Sent("cancel"), text |-> "cancelled",
       num |-> 0] \in Requests
  BY <1>2 DEF Requests, InputModes, TextModes, Statuses
<1>4. pane.mode \in InputModes
  BY <1>1 DEF InputModes
<1> QED
  BY <1>1, <1>2, <1>3, <1>4, SendStep

LEMMA SubmitKeeps ==
    ASSUME Inv, NEW text \in Inputs \cup {pane.was}, Submit(text)
    PROVE  Inv' /\ Aims
<1>1. PaneFits(pane, story) /\ pane \in PaneType
  BY DEF Inv, PaneFits
<1>2. /\ pane.mode \in TextModes /\ pane.mode \in InputModes
      /\ UNCHANGED <<world, story>>
  BY DEF Submit, InputModes
<1>3. text \in Texts
  BY <1>1, TopAssumption DEF PaneType
<1>4. CASE Empty(pane.mode, text)
  <2>1. pane' = [pane EXCEPT !.rejected = TRUE] /\ writes' = writes
    BY <1>4 DEF Submit
  <2>2. /\ pane' \in PaneType /\ pane'.version = pane.version
        /\ pane'.rows = pane.rows /\ pane'.cursor = pane.cursor
        /\ pane'.closed = pane.closed /\ pane'.mode = pane.mode
        /\ pane'.back = pane.back /\ pane'.was = pane.was
        /\ pane'.rejected /\ pane'.detail = pane.detail
        /\ pane'.hops = pane.hops /\ pane'.expanded = pane.expanded
        /\ pane'.target = pane.target
    BY <1>1, <2>1 DEF PaneType
  <2>3. PaneFits(pane', story)
    BY <1>1, <1>2, <2>2 DEF PaneFits
  <2>4. Inv'
    BY <1>2, <2>1, <2>3, NotWhileWatching, PaneMoves DEF Inv
  <2>5. Aims
    <3>1. Len(writes) \in Nat
      BY DEF Inv
    <3> QED
      BY <2>1, <2>2, <3>1 DEF Aims
  <2> QED
    BY <2>4, <2>5
<1>5. CASE ~ Empty(pane.mode, text) /\ Unchanged(pane.mode, text)
  <2>1. pane' = ClosePrompt /\ writes' = writes
    BY <1>5 DEF Submit
  <2>2. PromptEsc
    BY <1>2, <2>1 DEF PromptEsc
  <2> QED
    BY <2>2, PromptEscKeeps
<1>6. CASE ~ Empty(pane.mode, text) /\ ~ Unchanged(pane.mode, text)
  <2> DEFINE out == Written(pane.mode, text)
  <2>1. pane' = ClosePrompt /\ Issue(pane.mode, Target, out, 0)
    BY <1>6 DEF Submit
  <2>2. Target = Sent(pane.mode) /\ Sent(pane.mode) \in Nat
    BY TargetTyped DEF Sent, Target
  <2>3. out \in Texts
    <3>1. TrimSpace(text) \in Texts
      BY <1>3, TopAssumption
    <3>2. SplitList(TrimSpace(text)) \in Texts
      BY <3>1, TopAssumption
    <3> QED
      BY <1>3, <3>1, <3>2 DEF Written
  <2> HIDE DEF out
  <2>4. [op |-> pane.mode, id |-> Sent(pane.mode), text |-> out, num |-> 0]
           \in Requests
    BY <1>2, <2>2, <2>3 DEF Requests, InputModes, TextModes
  <2> QED
    BY <1>2, <2>1, <2>2, <2>4, SendStep
<1> QED
  BY <1>4, <1>5, <1>6

\* The arithmetic of a view's window: if a line of the view carries the
\* focused stop, then from wherever it was scrolled to, revealing the focus
\* brings the stop's first line into a window of any height, where a click
\* finds it.
THEOREM RevealedStopIsFound ==
    ASSUME NEW tags \in Seq(Nat), NEW focus \in Nat \ {0},
           \E i \in DOMAIN tags : tags[i] = focus,
           NEW window \in Nat \ {0}, NEW scroll \in 0 .. Len(tags)
    PROVE  LET above == DrawnScroll(tags,
                           RevealScroll(tags, focus, scroll, window), window)
           IN  StopAt(tags, above, window, FocusLine(tags, focus) - above)
                  = focus
<1> DEFINE T == {i \in 1 .. Len(tags) : tags[i] = focus}
           line == FocusLine(tags, focus)
           reveal == RevealScroll(tags, focus, scroll, window)
           above == DrawnScroll(tags, reveal, window)
           last == IF Len(tags) > window THEN Len(tags) - window ELSE 0
<1>1. DOMAIN tags = 1 .. Len(tags) /\ Len(tags) \in Nat
  OBVIOUS
<1>2. T \in SUBSET Nat /\ T # {}
  BY <1>1
<1>3. line = Min(T)
  BY <1>2 DEF FocusLine, SelectInSeq
<1>4. Min(T) \in T
  <2> HIDE DEF T
  <2> QED
    BY <1>2, MinFacts
<1>5. line \in 1 .. Len(tags) /\ tags[line] = focus
  BY <1>3, <1>4
<1> HIDE DEF line
<1>6. line \in Nat /\ line > 0 /\ line <= Len(tags) /\ scroll \in Nat
      /\ window \in Nat /\ window > 0
  BY <1>1, <1>5
<1>7. ASSUME NEW x \in Nat, NEW y \in Nat
      PROVE  Min({x, y}) = IF x <= y THEN x ELSE y
  <2>1. {x, y} \in SUBSET Nat /\ {x, y} # {}
    OBVIOUS
  <2>2. \A z \in {x, y} : z <= x /\ z <= y => z = IF x <= y THEN x ELSE y
    BY <1>7
  <2>3. Min({x, y}) = CHOOSE z \in {x, y} : \A w \in {x, y} : z <= w
    BY DEF Min
  <2>4. \E z \in {x, y} : \A w \in {x, y} : z <= w
    BY <1>7
  <2>5. /\ Min({x, y}) \in {x, y}
        /\ Min({x, y}) <= x /\ Min({x, y}) <= y
    BY <2>3, <2>4
  <2> QED
    BY <2>2, <2>5
<1> DEFINE up == Min({scroll, line - 1})
<1>8. up = (IF scroll <= line - 1 THEN scroll ELSE line - 1)
  <2>1. line - 1 \in Nat
    BY <1>6
  <2> QED
    BY <1>6, <1>7, <2>1
<1>9. reveal = IF line > up + window THEN line - window ELSE up
  BY <1>6 DEF RevealScroll, line
<1> HIDE DEF up, reveal
<1>10. reveal \in Nat /\ reveal < line /\ line <= reveal + window
  BY <1>6, <1>8, <1>9
<1>11. above = (IF reveal <= last THEN reveal ELSE last)
  <2>1. last \in Nat
    BY <1>1, <1>6
  <2>2. above = Min({reveal, last})
    BY DEF DrawnScroll
  <2> HIDE DEF last, above
  <2> QED
    BY <1>7, <1>10, <2>1, <2>2
<1> HIDE DEF above
<1>12. above \in Nat /\ above < line /\ line <= above + window
  <2>1. ASSUME NEW n \in Nat, NEW l \in Nat, NEW r \in Nat, NEW w \in Nat,
               NEW z \in Nat, z = IF n > w THEN n - w ELSE 0,
               0 < w, l <= n, r < l, l <= r + w, NEW a,
               a = IF r <= z THEN r ELSE z
        PROVE  a \in Nat /\ a < l /\ l <= a + w
    BY <2>1
  <2> DEFINE n == Len(tags)
  <2>2. n \in Nat /\ line \in Nat /\ reveal \in Nat /\ window \in Nat
    BY <1>1, <1>6, <1>10
  <2>3. last \in Nat /\ last = IF n > window THEN n - window ELSE 0
    BY <1>1, <1>6
  <2>4. /\ 0 < window /\ line <= n /\ reveal < line
        /\ line <= reveal + window
    BY <1>6, <1>10
  <2>5. above = IF reveal <= last THEN reveal ELSE last
    BY <1>11
  <2> HIDE DEF n, last
  <2> QED
    BY <2>1, <2>2, <2>3, <2>4, <2>5
<1>13. /\ line - above >= 1 /\ line - above <= window
       /\ above + (line - above) = line
  BY <1>6, <1>12
<1>14. StopAt(tags, above, window, line - above) = focus
  <2>1. ~ (line - above < 1 \/ line - above > window
           \/ above + (line - above) > Len(tags))
    BY <1>1, <1>6, <1>12, <1>13
  <2> QED
    BY <1>5, <1>13, <2>1 DEF StopAt
<1> QED
  BY <1>14 DEF above, line, reveal

-----------------------------------------------------------------------------
(***************************************************************************)
(* The theorems.                                                           *)
(***************************************************************************)
LEMMA InitIsInv == Init => Inv
<1> SUFFICES ASSUME Init
             PROVE  Inv
  OBVIOUS
<1>1. PICK b \in world.boards : story = <<b>>
  BY DEF Init
<1>2. world \in Worlds /\ pane = FirstPane /\ writes = <<>>
  BY DEF Init
<1>3. b \in Boards
  BY <1>2, TopAssumption, BoardType
<1>4. story \in Seq(Boards) /\ Len(story) = 1
  BY <1>1, <1>3
<1>5. pane \in PaneType
  <2>1. "" \in Texts
    BY TopAssumption
  <2>2. <<>> \in Seq(RowType)
    OBVIOUS
  <2>3. <<>> \in Seq(Tasks)
    OBVIOUS
  <2> PICK one \in Nat \ {0} : one = 1
    OBVIOUS
  <2>4. pane = [version |-> 0, rows |-> <<>>, cursor |-> one,
                closed |-> FALSE, mode |-> "nav", back |-> "nav",
                target |-> NoRow, was |-> "", rejected |-> FALSE,
                detail |-> 0, focus |-> one, hops |-> <<>>,
                expanded |-> {}]
    BY <1>2 DEF FirstPane
  <2> QED
    BY <2>1, <2>2, <2>3, <2>4 DEF PaneType
<1>6. /\ pane.version = 0 /\ pane.cursor = 1 /\ pane.closed = FALSE
      /\ pane.mode = "nav" /\ pane.back = "nav" /\ pane.was = ""
      /\ pane.rejected = FALSE /\ pane.detail = 0
  BY <1>2 DEF FirstPane
<1>7. pane.rows = <<>> /\ pane.hops = <<>> /\ pane.expanded = {}
  BY <1>2 DEF FirstPane
<1>8. PaneFits(pane, story)
  <2>1. pane.version <= Len(story)
    <3>1. pane.version = 0 /\ Len(story) = 1
      BY <1>4, <1>6
    <3> QED
      BY <3>1
  <2>2. (pane.detail = 0)
           = (pane.mode # "detail" /\ "nav" \in {pane.mode, pane.back})
    BY <1>6
  <2> QED
    BY <1>5, <1>6, <1>7, <2>1, <2>2 DEF PaneFits
<1>9. <<>> \in Seq(Requests)
  OBVIOUS
<1>10. writes \in Seq(Requests)
  BY <1>2, <1>9
<1>11. Len(story) > 0
  BY <1>4
<1>12. pane.mode \in {"nav", "detail"}
  BY <1>6
<1> QED
  BY <1>2, <1>4, <1>8, <1>10, <1>11, <1>12 DEF Inv

LEMMA NextKeeps ==
    ASSUME Inv, Next
    PROVE  Inv' /\ Aims
<1>1. CASE Elsewhere
  BY <1>1, ElsewhereKeeps
<1>2. CASE Land \/ Lost
  BY <1>2, LandKeeps
<1>3. CASE Refresh
  BY <1>3, RefreshKeeps
<1>4. CASE MoveCursor \/ ListTab \/ ListEsc
  BY <1>4, ListKeeps
<1>5. CASE OpenRow
  BY <1>5, OpenRowKeeps
<1>6. CASE CaptureKey \/ PriorityKey \/ CancelKey
  BY <1>6, PromptKeysKeep
<1>7. CASE \E status \in {"open", "held", "inbox"} : MoveStatus(status)
  BY <1>7, MoveStatusKeeps
<1>8. CASE DetailEsc
  BY <1>8, DetailEscKeeps
<1>9. CASE MoveFocus
  BY <1>9, MoveFocusKeeps
<1>10. CASE OpenStop
  BY <1>10, OpenStopKeeps
<1>11. CASE ToggleContext
  BY <1>11, ToggleContextKeeps
<1>12. CASE PromptEsc
  BY <1>12, PromptEscKeeps
<1>13. CASE PickPriority
  BY <1>13, PickPriorityKeeps
<1>14. CASE ConfirmCancel
  BY <1>14, ConfirmCancelKeeps
<1>15. CASE \E text \in Inputs \cup {pane.was} : Submit(text)
  BY <1>15, SubmitKeeps
<1> QED
  BY <1>1, <1>2, <1>3, <1>4, <1>5, <1>6, <1>7, <1>8, <1>9, <1>10, <1>11,
     <1>12, <1>13, <1>14, <1>15 DEF Next, User

LEMMA StutterKeeps ==
    ASSUME Inv, UNCHANGED vars
    PROVE  Inv' /\ Aims
<1>1. /\ world' = world /\ story' = story /\ pane' = pane
      /\ writes' = writes
  BY DEF vars
<1>2. PaneFits(pane', story) /\ Len(writes) \in Nat
  BY <1>1 DEF Inv
<1>3. Inv'
  BY <1>1, <1>2, PaneMoves DEF Inv
<1> QED
  BY <1>1, <1>2, <1>3 DEF Aims

LEMMA WorldStays ==
    ASSUME [Next]_vars
    PROVE  world' = world
<1>1. CASE Elsewhere
  BY <1>1 DEF Elsewhere
<1>2. CASE Land \/ Lost \/ Refresh
  BY <1>2 DEF Land, Lost, Refresh
<1>3. CASE User
  BY <1>3 DEF User, MoveCursor, Move, ListTab, ListEsc, OpenRow, CaptureKey,
     MoveStatus, PriorityKey, CancelKey, DetailEsc, MoveFocus, OpenStop,
     ToggleContext, PromptEsc, PickPriority, ConfirmCancel, Submit
<1>4. CASE UNCHANGED vars
  BY <1>4 DEF vars
<1> QED
  BY <1>1, <1>2, <1>3, <1>4 DEF Next

\* An editor submitted as it was opened.
LEMMA UnchangedSubmit ==
    ASSUME Inv, TrimSpace(pane.was) = pane.was, Submit(pane.was)
    PROVE  writes' = writes
<1>1. pane.mode \in TextModes
  BY DEF Submit
<1>2. CASE pane.mode \in {"answer", "capture"}
  <2>1. pane.mode \notin Fields
    BY <1>2 DEF Fields
  <2>2. pane.was = ""
    BY <2>1 DEF Inv, PaneFits
  <2>3. Empty(pane.mode, pane.was)
    BY <1>2, <2>2 DEF Empty
  <2> QED
    BY <2>3 DEF Submit
<1>3. CASE pane.mode \in Fields
  <2>1. Unchanged(pane.mode, pane.was)
    BY <1>3 DEF Unchanged, Fields
  <2> QED
    BY <2>1 DEF Submit
<1> QED
  BY <1>1, <1>2, <1>3 DEF TextModes, Fields

\* Every step of the board, of the writes and of the person keeps the
\* inductive invariant.
THEOREM InvHolds == Spec => []Inv
<1>1. Inv /\ [Next]_vars => Inv'
  BY NextKeeps, StutterKeeps
<1> QED
  BY <1>1, InitIsInv, PTL DEF Spec

\* The types of the pane, its boards and its writes, and what its modes have
\* to do with its other fields.
LEMMA InvIsTypeOK == Inv => TypeOK
<1> SUFFICES ASSUME Inv
             PROVE  TypeOK
  OBVIOUS
<1>1. PaneFits(pane, story) /\ pane \in PaneType
  BY DEF Inv, PaneFits
<1>2. \A n \in DOMAIN story : IsBoard(story[n])
  BY SnapIsBoard DEF Inv
<1>3. pane.version \in 0 .. Len(story)
  BY SnapIsBoard
<1>4. \A n \in DOMAIN pane.rows : IsRow(pane.rows[n])
  <2>1. pane.rows \in Seq(RowType)
    BY <1>1 DEF PaneType
  <2>2. \A n \in DOMAIN pane.rows : pane.rows[n] \in RowType
    BY <2>1
  <2> QED
    BY <2>2, RowTypes
<1>5. IsRow(pane.target)
  <2>1. pane.target \in RowType \cup {NoRow}
    BY <1>1 DEF PaneType
  <2>2. IsRow(NoRow)
    BY DEF IsRow
  <2> QED
    BY <2>1, <2>2, RowTypes
<1>6. \A i \in DOMAIN writes : writes[i].op \in {"status"} \cup InputModes
  <2>1. writes \in Seq(Requests)
    BY DEF Inv
  <2>2. \A i \in DOMAIN writes : writes[i] \in Requests
    BY <2>1
  <2> QED
    BY <2>2 DEF Requests
<1>7. /\ pane.mode \in {"nav", "detail"} \cup InputModes
      /\ pane.back \in {"nav", "detail"}
  BY <1>1 DEF PaneType
<1> QED
  BY <1>1, <1>2, <1>3, <1>4, <1>5, <1>6, <1>7 DEF TypeOK, PaneFits

\* No sequence of refreshes, keys and clicks leaves the pane with a row, a
\* target or a request it cannot have.
THEOREM TypesHold == Spec => []TypeOK
  BY InvHolds, InvIsTypeOK, PTL

\* Every task of the snapshot shown has its row on one of the two lists, or
\* is there as its question, and every open question has its row.
LEMMA InvHasRows == Inv => EveryTaskHasARow
<1> SUFFICES ASSUME Inv, pane.version > 0
             PROVE  EveryTaskHasARow
  BY DEF EveryTaskHasARow
<1>1. PaneFits(pane, story) /\ pane \in PaneType
  BY DEF Inv, PaneFits
<1>2. pane.version # 0 /\ pane.closed \in BOOLEAN
  BY <1>1 DEF PaneType
<1>3. pane.rows = ActiveRows(pane.closed, Snap)
  BY <1>1, <1>2, SnapIsBoard DEF PaneFits
<1>4. IsBoard(Snap)
  BY SnapIsBoard
<1> QED
  BY <1>2, <1>3, <1>4, ListsShowTheBoard DEF EveryTaskHasARow

\* Nothing that is on the board is missing from the screen.
THEOREM RowsHold == Spec => []EveryTaskHasARow
  BY InvHolds, InvHasRows, PTL

-----------------------------------------------------------------------------
(***************************************************************************)
(* The screen shows what the next key acts on.                             *)
(***************************************************************************)

\* The least and the greatest of some numbers.
LEMMA LeastOf ==
    ASSUME NEW T \in SUBSET Nat, T # {}
    PROVE  \E t \in T : \A u \in T : t <= u
<1> DEFINE R == {ss \in Nat \X Nat : ss[1] < ss[2]}
<1>1. IsWellFoundedOn(R, Nat)
  BY NatLessThanWellFounded DEF OpToRel
<1>2. PICK x \in T : \A y \in T : ~ (<<y, x>> \in R)
  <2> HIDE DEF R
  <2> QED
    BY <1>1, WFMin
<1>3. \A y \in T : x <= y
  <2> TAKE y \in T
  <2>1. ~ (<<y, x>> \in R)
    BY <1>2
  <2>2. x \in Nat /\ y \in Nat
    OBVIOUS
  <2> QED
    BY <2>1, <2>2
<1> QED
  BY <1>3

LEMMA MaxFacts ==
    ASSUME NEW n \in Nat, NEW T \in SUBSET (0 .. n), T # {}
    PROVE  Max(T) \in T /\ \A x \in T : x <= Max(T)
<1> DEFINE D == {n - x : x \in T}
<1>1. D \in SUBSET Nat /\ D # {}
  <2>1. \A x \in T : n - x \in Nat
    <3> TAKE x \in T
    <3>1. x \in 0 .. n
      OBVIOUS
    <3> QED
      BY <3>1
  <2> QED
    BY <2>1
<1>2. PICK d \in D : \A c \in D : d <= c
  <2> HIDE DEF D
  <2> QED
    BY <1>1, LeastOf
<1>3. PICK m \in T : d = n - m
  BY <1>2
<1>4. ASSUME NEW x \in T
      PROVE  m >= x
  <2>1. d <= n - x
    BY <1>2
  <2>2. x \in 0 .. n /\ m \in 0 .. n
    OBVIOUS
  <2> QED
    BY <1>3, <2>1, <2>2
<1>5. Max(T) \in T /\ \A x \in T : Max(T) >= x
  BY <1>4 DEF Max
<1> QED
  BY <1>5

LEMMA MinIsLeast ==
    ASSUME NEW T \in SUBSET Nat, T # {}
    PROVE  Min(T) \in T /\ \A x \in T : Min(T) <= x
<1>1. \E t \in T : \A u \in T : t <= u
  BY LeastOf
<1> QED
  BY <1>1 DEF Min

-----------------------------------------------------------------------------
\* The lines that FoldLeft adds up.
Chunks == [lines : Nat \ {0}, row : Nat]

Drawn(g, s, u) ==
    IF u = {} THEN 0 ELSE g[u \ {Max(u)}] + s[Max(u)].lines

IsDrawing(g, s) == g = [u \in SUBSET DOMAIN s |-> Drawn(g, s, u)]

Drawing(s) == CHOOSE g : IsDrawing(g, s)

LEMMA LinesThroughIs ==
    ASSUME NEW s, NEW from, NEW to
    PROVE  LinesThrough(s, from, to)
              = Drawing(SubSeq(s, from, to))[DOMAIN SubSeq(s, from, to)]
  BY DEF LinesThrough, FoldLeft, MapThenFoldSet, Drawing, IsDrawing, Drawn

LEMMA DrawingExists ==
    ASSUME NEW s \in Seq(Chunks)
    PROVE  IsDrawing(Drawing(s), s)
<1> DEFINE Part(g, k) == \A u \in SUBSET (1 .. k) : g[u] = Drawn(g, s, u)
           n == Len(s)
           Bad == {k \in 0 .. n : ~ \E g : Part(g, k)}
<1>0. n \in Nat /\ DOMAIN s = 1 .. n
  OBVIOUS
<1>1. Bad = {}
  <2> SUFFICES ASSUME Bad # {}
               PROVE  FALSE
    OBVIOUS
  <2>1. Bad \in SUBSET Nat
    OBVIOUS
  <2>2. PICK k \in Bad : \A j \in Bad : k <= j
    <3> HIDE DEF Bad
    <3> QED
      BY <2>1, LeastOf
  <2>3. k \in 0 .. n
    OBVIOUS
  <2>4. CASE k = 0
    <3> DEFINE g == [u \in {{}} |-> 0]
    <3>1. Part(g, 0)
      BY DEF Drawn
    <3> QED
      BY <2>4, <3>1
  <2>5. CASE k # 0
    <3>1. k - 1 \in 0 .. n /\ k - 1 < k
      BY <2>3, <2>5
    <3>2. k - 1 \notin Bad
      <4> HIDE DEF Bad
      <4> QED
        BY <2>2, <2>3, <3>1
    <3>3. PICK g : Part(g, k - 1)
      BY <3>1, <3>2
    <3> DEFINE h == [u \in SUBSET (1 .. k) |->
                        IF k \in u THEN g[u \ {k}] + s[k].lines ELSE g[u]]
    <3>4. ASSUME NEW u \in SUBSET (1 .. k)
          PROVE  h[u] = Drawn(h, s, u)
      <4> DEFINE m == Max(u)
      <4>1. CASE u = {}
        <5>1. h[u] = g[u] /\ u \in SUBSET (1 .. (k - 1))
          BY <4>1
        <5>2. g[u] = Drawn(g, s, u)
          BY <3>3, <5>1
        <5> QED
          BY <4>1, <5>1, <5>2 DEF Drawn
      <4>2. CASE u # {}
        <5>1. m \in u /\ \A x \in u : x <= m
          <6>1. u \in SUBSET (0 .. k) /\ k \in Nat
            BY <2>3
          <6> QED
            BY <4>2, <6>1, MaxFacts
        <5>2. CASE k \in u
          <6>1. m = k
            <7>1. m \in 1 .. k /\ k <= m /\ k \in Nat
              <8>1. k \in Nat
                BY <1>0, <2>3
              <8> QED
                BY <5>1, <5>2, <8>1
            <7> HIDE DEF m
            <7> QED
              BY <7>1
          <6>2. u \ {k} \in SUBSET (1 .. k) /\ k \notin u \ {k}
            OBVIOUS
          <6>3. h[u \ {k}] = g[u \ {k}]
            BY <6>2
          <6>4. h[u] = g[u \ {k}] + s[k].lines
            BY <5>2
          <6> HIDE DEF h, m
          <6> QED
            BY <4>2, <6>1, <6>3, <6>4 DEF Drawn, m
        <5>3. CASE k \notin u
          <6>1. u \in SUBSET (1 .. (k - 1)) /\ u \ {m} \in SUBSET (1 .. k)
                /\ k \notin u \ {m}
            <7>1. ASSUME NEW x \in u
                  PROVE  x \in 1 .. (k - 1)
              <8>1. x \in 1 .. k /\ x # k /\ k \in Nat
                BY <2>3, <5>3
              <8> QED
                BY <8>1
            <7> QED
              BY <5>3, <7>1
          <6>2. h[u] = g[u] /\ h[u \ {m}] = g[u \ {m}]
            BY <5>3, <6>1
          <6>3. g[u] = Drawn(g, s, u)
            BY <3>3, <6>1
          <6> HIDE DEF h
          <6> QED
            BY <4>2, <6>2, <6>3 DEF Drawn
        <5> QED
          BY <5>2, <5>3
      <4> QED
        BY <4>1, <4>2
    <3>5. Part(h, k)
      <4> HIDE DEF h
      <4> QED
        BY <3>4
    <3> QED
      BY <3>5
  <2> QED
    BY <2>4, <2>5
<1>2. PICK g : Part(g, n)
  <2>1. n \in 0 .. n
    BY <1>0
  <2>2. n \notin Bad
    <3> HIDE DEF Bad
    <3> QED
      BY <1>1
  <2> QED
    BY <2>1, <2>2
<1> DEFINE f == [u \in SUBSET DOMAIN s |-> g[u]]
<1>3. ASSUME NEW u \in SUBSET DOMAIN s
      PROVE  f[u] = Drawn(f, s, u)
  <2>1. f[u] = g[u] /\ f[u \ {Max(u)}] = g[u \ {Max(u)}]
    OBVIOUS
  <2>2. g[u] = Drawn(g, s, u)
    BY <1>0, <1>2
  <2> HIDE DEF f
  <2> QED
    BY <2>1, <2>2 DEF Drawn
<1>4. IsDrawing(f, s)
  <2>1. f = [u \in SUBSET DOMAIN s |-> f[u]]
    OBVIOUS
  <2> HIDE DEF f
  <2> QED
    BY <1>3, <2>1 DEF IsDrawing
<1> HIDE DEF f
<1> QED
  BY <1>4 DEF Drawing

\* The lines down to each chunk.
IsSum(p, s) ==
    /\ p \in [0 .. Len(s) -> Nat] /\ p[0] = 0
    /\ \A k \in 1 .. Len(s) : p[k] = p[k - 1] + s[k].lines

LEMMA DrawnStep ==
    ASSUME NEW s \in Seq(Chunks), NEW k \in 0 .. Len(s)
    PROVE  Drawing(s)[1 .. k]
              = IF k = 0 THEN 0 ELSE Drawing(s)[1 .. (k - 1)] + s[k].lines
<1> DEFINE g == Drawing(s)
           u == 1 .. k
<1>1. DOMAIN s = 1 .. Len(s) /\ Len(s) \in Nat
  OBVIOUS
<1>2. u \in SUBSET DOMAIN s
  BY <1>1
<1>3. IsDrawing(g, s)
  BY DrawingExists
<1>4. g[u] = Drawn(g, s, u)
  <2> HIDE DEF g, u
  <2> QED
    BY <1>2, <1>3 DEF IsDrawing
<1>5. CASE k = 0
  BY <1>4, <1>5 DEF Drawn
<1>6. CASE k # 0
  <2>1. u # {} /\ k \in u /\ u \in SUBSET (0 .. k) /\ k \in Nat
    BY <1>1, <1>6, SMTT(60)
  <2>2. Max(u) \in u /\ \A x \in u : x <= Max(u)
    <3> HIDE DEF u
    <3> QED
      BY <2>1, MaxFacts
  <2>3. Max(u) = k
    BY <2>1, <2>2
  <2>4. u \ {k} = 1 .. (k - 1)
    BY <1>6
  <2> HIDE DEF g, u
  <2> QED
    BY <1>4, <1>6, <2>1, <2>3, <2>4 DEF Drawn, g, u
<1> QED
  BY <1>5, <1>6

LEMMA SumExists ==
    ASSUME NEW s \in Seq(Chunks)
    PROVE  \E p : IsSum(p, s)
<1> DEFINE n == Len(s)
           p == [k \in 0 .. n |-> Drawing(s)[1 .. k]]
           Bad == {k \in 0 .. n : p[k] \notin Nat}
<1>0. n \in Nat /\ DOMAIN s = 1 .. n
      /\ \A k \in 1 .. n : s[k].lines \in Nat
  <2>1. \A k \in 1 .. n : s[k] \in Chunks
    OBVIOUS
  <2> QED
    BY <2>1 DEF Chunks
<1>1. \A k \in 0 .. n :
         p[k] = IF k = 0 THEN 0 ELSE p[k - 1] + s[k].lines
  <2> TAKE k \in 0 .. n
  <2>1. k # 0 => k - 1 \in 0 .. n
    BY <1>0
  <2>2. p[k] = Drawing(s)[1 .. k]
        /\ (k # 0 => p[k - 1] = Drawing(s)[1 .. (k - 1)])
    BY <2>1
  <2> HIDE DEF p
  <2> QED
    BY <2>2, DrawnStep
<1> HIDE DEF p
<1>2. Bad = {}
  <2> SUFFICES ASSUME Bad # {}
               PROVE  FALSE
    OBVIOUS
  <2>1. PICK k \in Bad : \A j \in Bad : k <= j
    <3>1. Bad \in SUBSET Nat
      OBVIOUS
    <3> HIDE DEF Bad
    <3> QED
      BY <3>1, LeastOf
  <2>2. k \in 0 .. n /\ p[k] \notin Nat
    BY <2>1
  <2>3. k # 0
    BY <1>1, <2>2
  <2>4. k - 1 \in 0 .. n /\ k - 1 \notin Bad
    BY <1>0, <2>1, <2>2, <2>3
  <2>5. p[k - 1] \in Nat /\ s[k].lines \in Nat
    BY <1>0, <2>2, <2>3, <2>4
  <2> QED
    BY <1>1, <2>2, <2>3, <2>5
<1>3. p \in [0 .. n -> Nat]
  BY <1>2 DEF p
<1>4. p[0] = 0 /\ \A k \in 1 .. n : p[k] = p[k - 1] + s[k].lines
  BY <1>0, <1>1
<1> QED
  BY <1>3, <1>4 DEF IsSum

\* What FoldLeft makes of a list is its sum.
LEMMA DrawingIsSum ==
    ASSUME NEW s \in Seq(Chunks), NEW p, IsSum(p, s)
    PROVE  Drawing(s)[DOMAIN s] = p[Len(s)]
<1> DEFINE n == Len(s)
           g == Drawing(s)
           Bad == {k \in 0 .. n : g[1 .. k] # p[k]}
<1>0. n \in Nat /\ DOMAIN s = 1 .. n
  OBVIOUS
<1>1. Bad = {}
  <2> SUFFICES ASSUME Bad # {}
               PROVE  FALSE
    OBVIOUS
  <2>1. PICK k \in Bad : \A j \in Bad : k <= j
    <3>1. Bad \in SUBSET Nat
      OBVIOUS
    <3> HIDE DEF Bad
    <3> QED
      BY <3>1, LeastOf
  <2>2. k \in 0 .. n /\ g[1 .. k] # p[k]
    BY <2>1
  <2>3. g[1 .. k] = IF k = 0 THEN 0 ELSE g[1 .. (k - 1)] + s[k].lines
    BY <2>2, DrawnStep
  <2>4. k # 0
    BY <2>2, <2>3 DEF IsSum
  <2>5. k - 1 \in 0 .. n /\ k - 1 \notin Bad
    BY <1>0, <2>1, <2>2, <2>4
  <2>6. g[1 .. (k - 1)] = p[k - 1]
    BY <2>5
  <2>7. p[k] = p[k - 1] + s[k].lines
    BY <1>0, <2>2, <2>4 DEF IsSum
  <2> QED
    BY <2>2, <2>3, <2>4, <2>6, <2>7
<1>2. n \in 0 .. n /\ n \notin Bad
  BY <1>0, <1>1
<1> QED
  BY <1>0, <1>2

\* The lines of a part of a list.
LEMMA LinesOfPart ==
    ASSUME NEW s \in Seq(Chunks), NEW p, IsSum(p, s),
           NEW from \in 1 .. Len(s), NEW to \in 1 .. Len(s), from <= to
    PROVE  LinesThrough(s, from, to) = p[to] - p[from - 1]
<1> DEFINE r == SubSeq(s, from, to)
           m == to - from + 1
           q == [k \in 0 .. m |-> p[from - 1 + k] - p[from - 1]]
<1>0. Len(s) \in Nat /\ from \in Nat /\ to \in Nat /\ m \in Nat
      /\ from >= 1 /\ to <= Len(s)
  OBVIOUS
<1>1. /\ r \in Seq(Chunks) /\ Len(r) = m /\ DOMAIN r = 1 .. m
      /\ \A k \in 1 .. m : r[k] = s[from - 1 + k]
  <2>1. /\ r \in Seq(Chunks) /\ Len(r) = m
        /\ \A k \in 1 .. m : r[k] = s[from + k - 1]
    BY <1>0, SubSeqProperties
  <2>2. \A k \in 1 .. m : from + k - 1 = from - 1 + k
    BY <1>0
  <2> HIDE DEF r, m
  <2> QED
    BY <2>1, <2>2
<1>2. \A k \in 0 .. m : /\ from - 1 + k \in 0 .. Len(s)
                        /\ p[from - 1 + k] \in Nat
  <2>1. \A k \in 0 .. m : from - 1 + k \in 0 .. Len(s)
    BY <1>0
  <2> QED
    BY <2>1 DEF IsSum
<1>3. \A k \in 1 .. m :
         p[from - 1 + k] = p[from - 1 + (k - 1)] + s[from - 1 + k].lines
  <2> TAKE k \in 1 .. m
  <2>1. from - 1 + k \in 1 .. Len(s)
        /\ (from - 1 + k) - 1 = from - 1 + (k - 1)
    BY <1>0
  <2> QED
    BY <2>1 DEF IsSum
<1>4. \A k \in 1 .. m : s[from - 1 + k].lines \in Nat
  <2>1. \A k \in 1 .. m : from - 1 + k \in 1 .. Len(s)
    BY <1>0
  <2>2. \A k \in 1 .. m : s[from - 1 + k] \in Chunks
    BY <2>1
  <2> QED
    BY <2>2 DEF Chunks
<1> DEFINE Bad == {k \in 0 .. m : q[k] \notin Nat}
<1>5. \A k \in 1 .. m : q[k] = q[k - 1] + r[k].lines
  <2> TAKE k \in 1 .. m
  <2>1. k - 1 \in 0 .. m /\ k \in 0 .. m /\ 0 \in 0 .. m
    BY <1>0
  <2>2. /\ q[k] = p[from - 1 + k] - p[from - 1]
        /\ q[k - 1] = p[from - 1 + (k - 1)] - p[from - 1]
    BY <2>1
  <2>3. p[from - 1 + (k - 1)] \in Nat /\ p[from - 1] \in Nat
    <3>1. from - 1 + 0 = from - 1
      BY <1>0
    <3> QED
      BY <1>2, <2>1, <3>1
  <2>4. /\ r[k] = s[from - 1 + k] /\ s[from - 1 + k].lines \in Nat
        /\ p[from - 1 + k]
              = p[from - 1 + (k - 1)] + s[from - 1 + k].lines
    BY <1>1, <1>3, <1>4
  <2> HIDE DEF q, r
  <2> QED
    BY <2>2, <2>3, <2>4
<1>6. q[0] = 0
  <2>1. p[from - 1] \in Nat /\ from - 1 + 0 = from - 1 /\ 0 \in 0 .. m
    BY <1>0 DEF IsSum
  <2> QED
    BY <2>1
<1> HIDE DEF q
<1>7. Bad = {}
  <2> SUFFICES ASSUME Bad # {}
               PROVE  FALSE
    OBVIOUS
  <2>1. PICK k \in Bad : \A j \in Bad : k <= j
    <3>1. Bad \in SUBSET Nat
      OBVIOUS
    <3> HIDE DEF Bad
    <3> QED
      BY <3>1, LeastOf
  <2>2. k \in 0 .. m /\ q[k] \notin Nat
    BY <2>1
  <2>3. k # 0
    BY <1>6, <2>2
  <2>4. k - 1 \in 0 .. m /\ k - 1 \notin Bad /\ k \in 1 .. m
    BY <1>0, <2>1, <2>2, <2>3
  <2>5. q[k - 1] \in Nat /\ r[k].lines \in Nat
    BY <1>1, <1>4, <2>4
  <2>6. q[k] = q[k - 1] + r[k].lines
    BY <1>5, <2>4
  <2>7. q[k - 1] + r[k].lines \in Nat
    <3> HIDE DEF r, m
    <3> QED
      BY <2>5
  <2> QED
    BY <2>2, <2>6, <2>7
<1>8. IsSum(q, r)
  <2>1. q \in [0 .. m -> Nat]
    BY <1>7 DEF q
  <2> HIDE DEF r
  <2> QED
    BY <1>1, <1>5, <1>6, <2>1 DEF IsSum
<1>9. Drawing(r)[DOMAIN r] = q[Len(r)]
  <2> HIDE DEF r
  <2> QED
    BY <1>1, <1>8, DrawingIsSum
<1>10. q[m] = p[to] - p[from - 1]
  <2>1. from - 1 + m = to /\ m \in 0 .. m
    BY <1>0
  <2> QED
    BY <2>1 DEF q
<1> QED
  BY <1>1, <1>9, <1>10, LinesThroughIs

-----------------------------------------------------------------------------
\* What FlattenSeq makes of lists: they all lie in it.
IsJoining(g, seqs) ==
    g = [i \in 1 .. Len(seqs) |->
            IF i = 1 THEN seqs[i] ELSE g[i - 1] \o seqs[i]]

Joining(seqs) == CHOOSE g : IsJoining(g, seqs)

LEMMA FlattenIs ==
    ASSUME NEW seqs, Len(seqs) # 0
    PROVE  FlattenSeq(seqs) = Joining(seqs)[Len(seqs)]
  BY DEF FlattenSeq, Joining, IsJoining

LEMMA JoiningExists ==
    ASSUME NEW S, NEW seqs \in Seq(Seq(S))
    PROVE  IsJoining(Joining(seqs), seqs)
<1> DEFINE Part(g, k) ==
               \A i \in 1 .. k :
                  g[i] = IF i = 1 THEN seqs[i] ELSE g[i - 1] \o seqs[i]
           n == Len(seqs)
           Bad == {k \in 0 .. n : ~ \E g : Part(g, k)}
<1>0. n \in Nat
  OBVIOUS
<1>1. Bad = {}
  <2> SUFFICES ASSUME Bad # {}
               PROVE  FALSE
    OBVIOUS
  <2>1. PICK k \in Bad : \A j \in Bad : k <= j
    <3>1. Bad \in SUBSET Nat
      OBVIOUS
    <3> HIDE DEF Bad
    <3> QED
      BY <3>1, LeastOf
  <2>2. k \in 0 .. n /\ k \in Nat
    BY <1>0
  <2>3. CASE k = 0
    <3>1. Part(<<>>, 0)
      OBVIOUS
    <3> QED
      BY <2>3, <3>1
  <2>4. CASE k # 0
    <3>1. k - 1 \in 0 .. n /\ k - 1 < k
      BY <2>2, <2>4
    <3>2. k - 1 \notin Bad
      <4> HIDE DEF Bad
      <4> QED
        BY <2>1, <2>2, <3>1
    <3>3. PICK g : Part(g, k - 1)
      BY <3>1, <3>2
    <3> DEFINE x == IF k = 1 THEN seqs[k] ELSE g[k - 1] \o seqs[k]
               h == [i \in 1 .. k |-> IF i = k THEN x ELSE g[i]]
    <3> HIDE DEF x
    <3>4. ASSUME NEW i \in 1 .. k
          PROVE  h[i] = IF i = 1 THEN seqs[i] ELSE h[i - 1] \o seqs[i]
      <4>1. i # 1 => i - 1 \in 1 .. k /\ i - 1 # k
        BY <2>2
      <4>2. i # 1 => h[i - 1] = g[i - 1]
        BY <4>1
      <4>3. CASE i = k
        <5>1. h[i] = x
          BY <4>3
        <5> HIDE DEF h
        <5> QED
          BY <4>2, <4>3, <5>1 DEF x
      <4>4. CASE i # k
        <5>1. i \in 1 .. (k - 1) /\ h[i] = g[i]
          BY <2>2, <4>4
        <5>2. g[i] = IF i = 1 THEN seqs[i] ELSE g[i - 1] \o seqs[i]
          BY <3>3, <5>1
        <5> HIDE DEF h
        <5> QED
          BY <4>2, <5>1, <5>2
      <4> QED
        BY <4>3, <4>4
    <3>5. Part(h, k)
      <4> HIDE DEF h
      <4> QED
        BY <3>4
    <3> QED
      BY <3>5
  <2> QED
    BY <2>3, <2>4
<1>2. PICK g : Part(g, n)
  <2>1. n \in 0 .. n
    BY <1>0
  <2>2. n \notin Bad
    <3> HIDE DEF Bad
    <3> QED
      BY <1>1
  <2> QED
    BY <2>1, <2>2
<1> DEFINE f == [i \in 1 .. n |-> g[i]]
<1>3. ASSUME NEW i \in 1 .. n
      PROVE  f[i] = IF i = 1 THEN seqs[i] ELSE f[i - 1] \o seqs[i]
  <2>1. i # 1 => i - 1 \in 1 .. n
    BY <1>0
  <2>2. f[i] = g[i] /\ (i # 1 => f[i - 1] = g[i - 1])
    BY <2>1
  <2>3. g[i] = IF i = 1 THEN seqs[i] ELSE g[i - 1] \o seqs[i]
    BY <1>2
  <2> HIDE DEF f
  <2> QED
    BY <2>2, <2>3
<1>4. IsJoining(f, seqs)
  <2>1. f = [i \in 1 .. n |-> f[i]]
    OBVIOUS
  <2> HIDE DEF f
  <2> QED
    BY <1>3, <2>1 DEF IsJoining
<1> HIDE DEF f
<1> QED
  BY <1>4 DEF Joining

\* Everything in list s is in list t.
Within(s, t) == \A i \in DOMAIN s : \E j \in DOMAIN t : t[j] = s[i]

LEMMA WithinConcat ==
    ASSUME NEW S, NEW s \in Seq(S), NEW t \in Seq(S)
    PROVE  s \o t \in Seq(S) /\ Within(s, s \o t) /\ Within(t, s \o t)
<1>1. /\ s \o t \in Seq(S) /\ Len(s \o t) = Len(s) + Len(t)
      /\ DOMAIN s = 1 .. Len(s) /\ DOMAIN t = 1 .. Len(t)
      /\ DOMAIN (s \o t) = 1 .. Len(s \o t)
      /\ Len(s) \in Nat /\ Len(t) \in Nat
  OBVIOUS
<1>2. ASSUME NEW i \in DOMAIN s
      PROVE  i \in DOMAIN (s \o t) /\ (s \o t)[i] = s[i]
  BY <1>1
<1>3. ASSUME NEW i \in DOMAIN t
      PROVE  /\ Len(s) + i \in DOMAIN (s \o t)
             /\ (s \o t)[Len(s) + i] = t[i]
  BY <1>1
<1> QED
  BY <1>1, <1>2, <1>3 DEF Within

LEMMA FlattenHolds ==
    ASSUME NEW S, NEW seqs \in Seq(Seq(S))
    PROVE  /\ FlattenSeq(seqs) \in Seq(S)
           /\ \A j \in DOMAIN seqs : Within(seqs[j], FlattenSeq(seqs))
<1> DEFINE n == Len(seqs)
           g == Joining(seqs)
           Good(k) == /\ g[k] \in Seq(S)
                      /\ \A j \in 1 .. k : Within(seqs[j], g[k])
           Bad == {k \in 1 .. n : ~ Good(k)}
<1>0. n \in Nat /\ DOMAIN seqs = 1 .. n
      /\ \A j \in 1 .. n : seqs[j] \in Seq(S)
  OBVIOUS
<1>1. CASE n = 0
  <2>1. FlattenSeq(seqs) = seqs /\ seqs = <<>>
    BY <1>1 DEF FlattenSeq
  <2> QED
    BY <2>1
<1>2. CASE n # 0
  <2>1. \A i \in 1 .. n :
           g[i] = IF i = 1 THEN seqs[i] ELSE g[i - 1] \o seqs[i]
    <3>1. IsJoining(g, seqs)
      BY JoiningExists
    <3> HIDE DEF g
    <3> QED
      BY <3>1 DEF IsJoining
  <2> HIDE DEF g
  <2>2. Bad = {}
    <3> SUFFICES ASSUME Bad # {}
                 PROVE  FALSE
      OBVIOUS
    <3>1. PICK k \in Bad : \A j \in Bad : k <= j
      <4>1. Bad \in SUBSET Nat
        OBVIOUS
      <4> HIDE DEF Bad
      <4> QED
        BY <4>1, LeastOf
    <3>2. k \in 1 .. n /\ ~ Good(k) /\ seqs[k] \in Seq(S)
      BY <1>0
    <3>3. CASE k = 1
      <4>1. g[k] = seqs[k]
        BY <2>1, <3>2, <3>3
      <4>2. \A j \in 1 .. k : j = k
        BY <3>3
      <4>3. Within(seqs[k], g[k])
        BY <4>1 DEF Within
      <4> QED
        BY <3>2, <4>1, <4>2, <4>3
    <3>4. CASE k # 1
      <4>1. k - 1 \in 1 .. n /\ k - 1 < k
        BY <1>0, <3>2, <3>4
      <4>2. k - 1 \notin Bad
        <5> HIDE DEF Bad
        <5> QED
          BY <1>0, <3>1, <3>2, <4>1
      <4>3. Good(k - 1)
        BY <4>1, <4>2
      <4>4. g[k] = g[k - 1] \o seqs[k]
        BY <2>1, <3>2, <3>4
      <4>5. /\ g[k] \in Seq(S) /\ Within(g[k - 1], g[k])
            /\ Within(seqs[k], g[k])
        BY <3>2, <4>3, <4>4, WithinConcat
      <4>6. ASSUME NEW j \in 1 .. k
            PROVE  Within(seqs[j], g[k])
        <5>1. j = k \/ j \in 1 .. (k - 1)
          BY <1>0, <3>2
        <5>2. CASE j \in 1 .. (k - 1)
          <6>1. Within(seqs[j], g[k - 1])
            BY <4>3, <5>2
          <6> QED
            BY <4>5, <6>1, ZenonT(60) DEF Within
        <5> QED
          BY <4>5, <5>1, <5>2
      <4> QED
        BY <3>2, <4>5, <4>6
    <3> QED
      BY <3>3, <3>4
  <2>3. Good(n)
    <3>1. n \in 1 .. n
      BY <1>0, <1>2
    <3> QED
      BY <2>2, <3>1
  <2>4. FlattenSeq(seqs) = g[n]
    BY <1>2, FlattenIs DEF g
  <2> QED
    BY <1>0, <2>3, <2>4
<1> QED
  BY <1>1, <1>2

-----------------------------------------------------------------------------
(***************************************************************************)
(* The window over a list.                                                 *)
(***************************************************************************)
LEMMA SumGrows ==
    ASSUME NEW s \in Seq(Chunks), NEW p, IsSum(p, s),
           NEW i \in 0 .. Len(s), NEW j \in 0 .. Len(s), i < j
    PROVE  p[i] < p[j]
<1> DEFINE n == Len(s)
           Bad == {k \in 0 .. n : i < k /\ ~ (p[i] < p[k])}
<1>0. n \in Nat /\ i \in Nat /\ \A k \in 0 .. n : p[k] \in Nat
  <2>1. n \in Nat
    OBVIOUS
  <2>2. \A k \in 0 .. n : p[k] \in Nat
    BY DEF IsSum
  <2> QED
    BY <2>1, <2>2
<1>1. Bad = {}
  <2> SUFFICES ASSUME Bad # {}
               PROVE  FALSE
    OBVIOUS
  <2>1. PICK k \in Bad : \A m \in Bad : k <= m
    <3>1. Bad \in SUBSET Nat
      OBVIOUS
    <3> HIDE DEF Bad
    <3> QED
      BY <3>1, LeastOf
  <2>2. k \in 0 .. n /\ i < k /\ ~ (p[i] < p[k]) /\ k \in Nat
    BY <1>0, <2>1
  <2>3. k \in 1 .. n /\ k - 1 \in 0 .. n /\ i <= k - 1
    BY <1>0, <2>2
  <2>4. p[k] = p[k - 1] + s[k].lines
    BY <2>3 DEF IsSum
  <2>5. s[k].lines \in Nat /\ s[k].lines > 0
    <3>1. s[k] \in Chunks
      BY <2>3
    <3> QED
      BY <3>1, SMTT(30) DEF Chunks
  <2>6. k - 1 \notin Bad
    <3> HIDE DEF Bad
    <3> QED
      BY <2>1, <2>2, <2>3
  <2>7. p[i] <= p[k - 1]
    <3>1. CASE i = k - 1
      BY <1>0, <2>3, <3>1
    <3>2. CASE i # k - 1
      <4>1. i < k - 1
        BY <1>0, <2>2, <2>3, <3>2
      <4>2. p[i] < p[k - 1]
        BY <2>3, <2>6, <4>1
      <4> QED
        BY <1>0, <2>3, <4>2
    <3> QED
      BY <3>1, <3>2
  <2>8. p[i] \in Nat /\ p[k - 1] \in Nat
    BY <1>0, <2>3
  <2> QED
    BY <2>2, <2>4, <2>5, <2>7, <2>8
<1> QED
  BY <1>1

LEMMA EndsOfRange ==
    ASSUME NEW lo \in Nat, NEW hi \in Nat, lo <= hi
    PROVE  Min(lo .. hi) = lo /\ Max(lo .. hi) = hi
<1> DEFINE T == lo .. hi
<1>1. T \in SUBSET Nat /\ T \in SUBSET (0 .. hi) /\ T # {}
      /\ lo \in T /\ hi \in T
  OBVIOUS
<1>2. /\ Min(T) \in T /\ \A x \in T : Min(T) <= x
      /\ Max(T) \in T /\ \A x \in T : x <= Max(T)
  <2> HIDE DEF T
  <2> QED
    BY <1>1, MinIsLeast, MaxFacts
<1>3. Min(T) <= lo /\ hi <= Max(T)
  <2> HIDE DEF T
  <2> QED
    BY <1>1, <1>2
<1>4. Min(T) \in lo .. hi /\ Max(T) \in lo .. hi
  BY <1>2
<1> DEFINE a == Min(T)
           b == Max(T)
<1> HIDE DEF a, b
<1>5. a \in lo .. hi /\ b \in lo .. hi /\ a <= lo /\ hi <= b
  BY <1>3, <1>4 DEF a, b
<1>6. a = lo /\ b = hi
  BY <1>5
<1> QED
  BY <1>6 DEF a, b

\* A click on the last line of a chunk in the window finds that chunk.
LEMMA ClickFindsChunk ==
    ASSUME NEW s \in Seq(Chunks), NEW lo \in 1 .. Len(s),
           NEW hi \in 1 .. Len(s), NEW at \in lo .. hi
    PROVE  RowAt(s, lo .. hi, LinesThrough(s, lo, at)) = s[at].row
<1> DEFINE seen == lo .. hi
           y == LinesThrough(s, lo, at)
           held == {i \in seen : y <= LinesThrough(s, lo, i)}
<1>0. /\ lo \in Nat /\ hi \in Nat /\ at \in Nat /\ lo <= hi /\ lo >= 1
      /\ lo <= at /\ at <= hi /\ hi <= Len(s) /\ Len(s) \in Nat
  OBVIOUS
<1>1. Min(seen) = lo
  BY <1>0, EndsOfRange
<1>2. PICK p : IsSum(p, s)
  BY SumExists
<1>3. ASSUME NEW i \in seen
      PROVE  /\ LinesThrough(s, lo, i) = p[i] - p[lo - 1]
             /\ p[i] \in Nat /\ p[lo - 1] \in Nat
             /\ i \in 0 .. Len(s)
  <2>1. i \in 1 .. Len(s) /\ lo <= i /\ i \in 0 .. Len(s)
        /\ lo - 1 \in 0 .. Len(s)
    BY <1>0
  <2>2. LinesThrough(s, lo, i) = p[i] - p[lo - 1]
    BY <1>2, <2>1, LinesOfPart
  <2> QED
    BY <1>2, <2>1, <2>2 DEF IsSum
<1>4. at \in seen /\ at \in held
  <2>1. at \in seen
    BY <1>0
  <2>2. y = p[at] - p[lo - 1] /\ p[at] \in Nat /\ p[lo - 1] \in Nat
    BY <1>3, <2>1
  <2>3. y <= y
    <3> HIDE DEF y
    <3> QED
      BY <2>2
  <2> QED
    BY <2>1, <2>3
<1>5. ASSUME NEW i \in held
      PROVE  at <= i
  <2>1. i \in seen /\ y <= LinesThrough(s, lo, i)
    OBVIOUS
  <2>2. /\ LinesThrough(s, lo, i) = p[i] - p[lo - 1]
        /\ y = p[at] - p[lo - 1]
        /\ p[i] \in Nat /\ p[at] \in Nat /\ p[lo - 1] \in Nat
        /\ i \in 0 .. Len(s) /\ at \in 0 .. Len(s)
    BY <1>3, <1>4, <2>1
  <2> HIDE DEF y
  <2>3. p[at] <= p[i]
    BY <2>1, <2>2
  <2>4. i < at => p[i] < p[at]
    BY <1>2, <2>2, SumGrows
  <2>5. i \in Nat
    BY <1>0, <2>2
  <2> QED
    BY <1>0, <2>2, <2>3, <2>4, <2>5
<1>6. Min(held) = at
  <2>1. held \in SUBSET Nat /\ held # {}
    BY <1>0, <1>4
  <2> HIDE DEF held
  <2>2. Min(held) \in held /\ \A x \in held : Min(held) <= x
    BY <2>1, MinIsLeast
  <2>3. Min(held) \in Nat /\ at <= Min(held) /\ Min(held) <= at
    BY <1>4, <1>5, <2>1, <2>2
  <2> QED
    BY <1>0, <2>3
<1>7. RowAt(s, seen, y) = IF held = {} THEN 0 ELSE s[Min(held)].row
  <2>1. RowAt(s, seen, y)
           = LET h == {i \in seen : y <= LinesThrough(s, Min(seen), i)}
             IN  IF h = {} THEN 0 ELSE s[Min(h)].row
    BY DEF RowAt
  <2> HIDE DEF seen, y
  <2> QED
    BY <1>1, <2>1
<1> HIDE DEF held
<1>8. RowAt(s, seen, y) = s[at].row
  BY <1>4, <1>6, <1>7
<1> QED
  BY <1>8

\* Row c has a chunk in list s.
HasRow(s, c) == \E i \in DOMAIN s : s[i].row = c

\* What the window must be.
Shows(s, cursor, avail, seen) ==
    /\ \E i \in seen :
          /\ s[i].row = cursor
          /\ RowAt(s, seen, LinesThrough(s, Min(seen), i)) = cursor
    /\ \/ LinesThrough(s, Min(seen), Max(seen)) <= avail
       \/ Cardinality(seen) = 1

\* Whatever chunks there are and however many lines, the row of the cursor is
\* in the window.
LEMMA WindowHoldsCursor ==
    ASSUME NEW s \in Seq(Chunks), NEW cursor, NEW avail \in Nat,
           HasRow(s, cursor)
    PROVE  Shows(s, cursor, avail, Visible(s, cursor, avail))
<1> DEFINE n     == Len(s)
           I     == {i \in 1 .. n : s[i].row = cursor}
           held  == SelectInSeq(s, LAMBDA c : c.row = cursor)
           at    == IF held = 0 THEN 1 ELSE held
           start == WindowStart(s, at, avail)
           E     == {e \in start .. n :
                        e = start \/ LinesThrough(s, start, e) <= avail}
           end   == Max(E)
           seen  == Visible(s, cursor, avail)
<1>0. n \in Nat /\ DOMAIN s = 1 .. n
  OBVIOUS
<1>1. at \in 1 .. n /\ s[at].row = cursor
  <2>1. I \in SUBSET Nat /\ I # {}
    BY <1>0 DEF HasRow
  <2>2. held = Min(I)
    BY <2>1 DEF SelectInSeq
  <2>3. Min(I) \in I
    <3> HIDE DEF I
    <3> QED
      BY <2>1, MinIsLeast
  <2>4. held \in 1 .. n /\ s[held].row = cursor
    BY <2>2, <2>3
  <2> HIDE DEF held
  <2> QED
    BY <2>4
<1>2. seen = IF LinesThrough(s, 1, n) <= avail THEN 1 .. n ELSE start .. end
  BY DEF Visible
<1> HIDE DEF at, held
<1>3. start \in 1 .. at /\ (start = at \/ LinesThrough(s, start, at) <= avail)
  <2> DEFINE T == {k \in 1 .. at :
                      k = at \/ LinesThrough(s, k, at) <= avail}
  <2>1. T \in SUBSET Nat /\ at \in T
    BY <1>0, <1>1
  <2>2. Min(T) \in T
    <3> HIDE DEF T
    <3> QED
      BY <2>1, MinIsLeast
  <2>3. start = Min(T)
    BY DEF WindowStart
  <2> HIDE DEF start
  <2> QED
    BY <2>2, <2>3
<1> HIDE DEF start
<1>4. /\ start \in Nat /\ at \in Nat /\ start <= at /\ start >= 1 /\ at <= n
  BY <1>0, <1>1, <1>3
<1>5. E \in SUBSET (0 .. n) /\ start \in E /\ at \in E
  BY <1>0, <1>3, <1>4
<1>6. end \in E /\ \A x \in E : x <= end
  <2> HIDE DEF E
  <2> QED
    BY <1>0, <1>5, MaxFacts
<1>7. /\ end \in start .. n /\ at <= end
      /\ end = start \/ LinesThrough(s, start, end) <= avail
  <2>1. at <= end
    <3> HIDE DEF E
    <3> QED
      BY <1>5, <1>6
  <2>2. end \in start .. n
        /\ (end = start \/ LinesThrough(s, start, end) <= avail)
    BY <1>6
  <2> QED
    BY <2>1, <2>2
<1> HIDE DEF end, E
<1>8. \E lo \in 1 .. n, hi \in 1 .. n :
         /\ seen = lo .. hi /\ at \in lo .. hi
         /\ lo = hi \/ LinesThrough(s, lo, hi) <= avail
  <2>1. CASE LinesThrough(s, 1, n) <= avail
    <3>1. seen = 1 .. n /\ 1 \in 1 .. n /\ n \in 1 .. n
      BY <1>2, <1>4, <1>0, <2>1
    <3> QED
      BY <1>1, <2>1, <3>1
  <2>2. CASE ~ (LinesThrough(s, 1, n) <= avail)
    <3>1. seen = start .. end
      BY <1>2, <2>2
    <3>2. start \in 1 .. n /\ end \in 1 .. n /\ at \in start .. end
      BY <1>0, <1>4, <1>7
    <3> QED
      BY <1>7, <3>1, <3>2
  <2> QED
    BY <2>1, <2>2
<1>9. PICK lo \in 1 .. n, hi \in 1 .. n :
         /\ seen = lo .. hi /\ at \in lo .. hi
         /\ lo = hi \/ LinesThrough(s, lo, hi) <= avail
  BY <1>8
<1> HIDE DEF seen
<1>10. Min(seen) = lo /\ Max(seen) = hi
  <2>1. lo \in Nat /\ hi \in Nat /\ lo <= hi
    BY <1>0, <1>9
  <2> QED
    BY <1>9, <2>1, EndsOfRange
<1>11. RowAt(s, seen, LinesThrough(s, Min(seen), at)) = cursor
  BY <1>1, <1>9, <1>10, ClickFindsChunk
<1>12. lo = hi => Cardinality(seen) = 1
  <2>1. ASSUME lo = hi
        PROVE  seen = {lo}
    BY <1>0, <1>9, <2>1
  <2> QED
    BY <2>1, FS_Singleton
<1>13. Shows(s, cursor, avail, seen)
  BY <1>1, <1>9, <1>10, <1>11, <1>12 DEF Shows
<1> QED
  BY <1>13 DEF seen

\* The chunks of a list, and that every row with a section has one.
LEMMA ChunkTyped ==
    ASSUME NEW lines \in Nat \ {0}, NEW row \in Nat
    PROVE  /\ Chunk(lines, row) \in Chunks
           /\ Chunk(lines, row).row = row
           /\ <<Chunk(lines, row)>> \in Seq(Chunks)
<1>1. Chunk(lines, row) \in Chunks /\ Chunk(lines, row).row = row
  BY DEF Chunk, Chunks
<1> QED
  BY <1>1

LEMMA SectionShowsRows ==
    ASSUME NEW b, NEW rows \in Seq(RowType), NEW section
    PROVE  /\ SectionChunks(b, rows, section) \in Seq(Chunks)
           /\ \A c \in DOMAIN rows : rows[c].section = section =>
                 HasRow(SectionChunks(b, rows, section), c)
<1> DEFINE S    == {i \in DOMAIN rows : rows[i].section = section}
           mine == ById(S)
           bar  == <<Chunk(1, 0)>>
           list == [i \in DOMAIN mine |->
                       Chunk(RowLines(b, rows[mine[i]]), mine[i])]
           rest == IF mine = <<>> THEN <<Chunk(1, 0)>> ELSE list
<1>1. S \in SUBSET Nat /\ IsFiniteSet(S)
  <2>1. DOMAIN rows = 1 .. Len(rows) /\ Len(rows) \in Nat
    OBVIOUS
  <2>2. IsFiniteSet(1 .. Len(rows))
    BY <2>1, FS_Interval
  <2>3. S \subseteq 1 .. Len(rows)
    BY <2>1
  <2> QED
    BY <2>2, <2>3, FS_Subset
<1>2. Enumerates(mine, S)
  <2> HIDE DEF S
  <2> QED
    BY <1>1, ByIdEnumerates
<1> HIDE DEF mine, S
<1>3. ASSUME NEW i \in DOMAIN mine
      PROVE  /\ list[i] \in Chunks
             /\ list[i].row = mine[i]
  <2>1. mine[i] \in Nat
    <3>1. mine \in Seq(S)
      BY <1>2 DEF Enumerates
    <3>2. mine[i] \in S
      BY <3>1
    <3> QED
      BY <1>1, <3>2
  <2> DEFINE l == RowLines(b, rows[mine[i]])
  <2>2. l \in Nat \ {0}
    <3>1. ASSUME NEW p \in BOOLEAN, NEW q \in BOOLEAN
          PROVE  (IF p THEN 2 ELSE 1) + (IF q THEN 1 ELSE 0) \in Nat \ {0}
      OBVIOUS
    <3> QED
      BY <3>1 DEF RowLines
  <2> HIDE DEF l
  <2>3. list[i] = Chunk(l, mine[i])
    BY DEF l
  <2> HIDE DEF list
  <2> QED
    BY <2>1, <2>2, <2>3, ChunkTyped
<1>4. list \in Seq(Chunks)
  <2>1. DOMAIN mine = 1 .. Len(mine) /\ Len(mine) \in Nat
    BY <1>2 DEF Enumerates
  <2>2. list = [i \in 1 .. Len(mine) |-> list[i]]
    BY <2>1
  <2> HIDE DEF list
  <2> QED
    BY <1>3, <2>1, <2>2
<1>5. bar \in Seq(Chunks)
  BY ChunkTyped
<1>6. rest \in Seq(Chunks)
  <2> HIDE DEF list
  <2> QED
    BY <1>4, <1>5
<1>7. SectionChunks(b, rows, section) = bar \o rest
  BY DEF SectionChunks, mine, S
<1>8. bar \o rest \in Seq(Chunks) /\ Within(rest, bar \o rest)
  <2> HIDE DEF bar, rest
  <2> QED
    BY <1>5, <1>6, WithinConcat
<1>9. ASSUME NEW c \in DOMAIN rows, rows[c].section = section
      PROVE  HasRow(bar \o rest, c)
  <2>1. PICK k \in DOMAIN mine : mine[k] = c
    BY <1>2, <1>9 DEF Enumerates, S
  <2>2. rest = list /\ k \in DOMAIN list
    BY <2>1
  <2>3. list[k].row = c
    <3> HIDE DEF list
    <3> QED
      BY <1>3, <2>1
  <2> HIDE DEF rest, list, bar
  <2>4. PICK j \in DOMAIN (bar \o rest) : (bar \o rest)[j] = list[k]
    BY <1>8, <2>2 DEF Within
  <2> QED
    BY <2>3, <2>4 DEF HasRow
<1> HIDE DEF bar, rest
<1> QED
  BY <1>7, <1>8, <1>9

LEMMA ListShowsRows ==
    ASSUME NEW degraded \in BOOLEAN, NEW closed \in BOOLEAN, NEW b,
           NEW rows \in Seq(RowType), NEW c \in DOMAIN rows,
           \E i \in DOMAIN Sections(closed) :
              rows[c].section = Sections(closed)[i]
    PROVE  LET s == ListChunks(degraded, closed, b, rows)
           IN  s \in Seq(Chunks) /\ HasRow(s, c)
<1> DEFINE sections == Sections(closed)
           note == IF degraded THEN <<Chunk(1, 0), Chunk(1, 0)>> ELSE <<>>
           F == [i \in DOMAIN sections |->
                    If(i > 1, Chunk(1, 0))
                    \o SectionChunks(b, rows, sections[i])]
           all == FlattenSeq(F)
<1>1. ListChunks(degraded, closed, b, rows) = note \o all
  BY DEF ListChunks
<1>2. /\ DOMAIN sections = 1 .. Len(sections) /\ Len(sections) \in Nat
  <2>1. CASE closed
    BY <2>1 DEF Sections
  <2>2. CASE ~ closed
    BY <2>2 DEF Sections
  <2> QED
    BY <2>1, <2>2
<1> HIDE DEF sections
<1>3. ASSUME NEW i \in DOMAIN sections
      PROVE  /\ F[i] \in Seq(Chunks)
             /\ Within(SectionChunks(b, rows, sections[i]), F[i])
  <2> DEFINE g == If(i > 1, Chunk(1, 0))
             t == SectionChunks(b, rows, sections[i])
  <2>1. g \in Seq(Chunks)
    BY ChunkTyped DEF If
  <2>2. t \in Seq(Chunks)
    BY SectionShowsRows
  <2>3. F[i] = g \o t
    OBVIOUS
  <2> HIDE DEF g, t, F
  <2>4. F[i] \in Seq(Chunks) /\ Within(t, F[i])
    BY <2>1, <2>2, <2>3, WithinConcat
  <2> QED
    BY <2>4 DEF t
<1>4. F \in Seq(Seq(Chunks)) /\ DOMAIN F = DOMAIN sections
  <2>1. F = [i \in 1 .. Len(sections) |-> F[i]]
    BY <1>2
  <2>2. \A i \in 1 .. Len(sections) : F[i] \in Seq(Chunks)
    BY <1>2, <1>3
  <2> HIDE DEF F
  <2> QED
    BY <1>2, <2>1, <2>2
<1>5. all \in Seq(Chunks) /\ \A i \in DOMAIN sections : Within(F[i], all)
  <2> HIDE DEF F
  <2> QED
    BY <1>4, FlattenHolds
<1>6. note \in Seq(Chunks)
  <2>1. Chunk(1, 0) \in Chunks
    BY ChunkTyped
  <2> QED
    BY <2>1
<1>7. note \o all \in Seq(Chunks) /\ Within(all, note \o all)
  <2> HIDE DEF note, all
  <2> QED
    BY <1>5, <1>6, WithinConcat
<1>8. PICK i \in DOMAIN sections : rows[c].section = sections[i]
  BY DEF sections
<1> DEFINE t == SectionChunks(b, rows, sections[i])
<1>9. PICK j \in DOMAIN t : t[j].row = c
  <2> DEFINE sec == sections[i]
  <2>1. rows[c].section = sec
    BY <1>8
  <2> HIDE DEF sec
  <2>2. HasRow(SectionChunks(b, rows, sec), c)
    BY <2>1, SectionShowsRows
  <2> QED
    BY <2>2 DEF sec, HasRow
<1>10. Within(t, F[i])
  BY <1>3, <1>8
<1> HIDE DEF t, F, all, note
<1>11. PICK k \in DOMAIN F[i] : F[i][k] = t[j]
  BY <1>9, <1>10 DEF Within
<1>12. PICK l \in DOMAIN all : all[l] = t[j]
  BY <1>5, <1>8, <1>11 DEF Within
<1>13. PICK m \in DOMAIN (note \o all) : (note \o all)[m] = t[j]
  BY <1>7, <1>12 DEF Within
<1> QED
  BY <1>1, <1>7, <1>9, <1>13 DEF HasRow

\* The first half of SelectionIsOnScreen, for a terminal of any height.
LEMMA RowIsOnScreen ==
    ASSUME Inv, pane.rows # <<>>, NEW degraded \in BOOLEAN, NEW avail \in Nat
    PROVE  LET s == ListChunks(degraded, pane.closed, Snap, pane.rows)
           IN  Shows(s, pane.cursor, avail, Visible(s, pane.cursor, avail))
<1> DEFINE c == pane.cursor
<1>1. /\ pane.rows \in Seq(RowType) /\ pane.closed \in BOOLEAN
      /\ IsBoard(Snap) /\ pane.version \in 0 .. Len(story)
      /\ pane.version > 0 => Snap = story[pane.version]
      /\ pane.rows = IF pane.version = 0 THEN <<>>
                     ELSE ActiveRows(pane.closed, story[pane.version])
      /\ c = 1 \/ c \in DOMAIN pane.rows
  BY SnapIsBoard DEF Inv, PaneFits, PaneType
<1>2. c \in DOMAIN pane.rows
  <2>1. 1 \in DOMAIN pane.rows
    BY <1>1
  <2> QED
    BY <1>1, <2>1
<1>3. pane.version > 0 /\ pane.rows = ActiveRows(pane.closed, Snap)
  <2>1. pane.version # 0
    BY <1>1
  <2>2. pane.version > 0
    <3>1. Len(story) \in Nat
      BY DEF Inv
    <3> QED
      BY <1>1, <2>1, <3>1
  <2> QED
    BY <1>1, <2>1, <2>2
<1>4. pane.rows[c] \in RowSet(pane.closed, Snap)
  <2>1. Enumerates(pane.rows, RowSet(pane.closed, Snap))
    BY <1>1, <1>3, ActiveRowsEnumerate
  <2> QED
    BY <1>2, <2>1 DEF Enumerates
<1>5. \E i \in DOMAIN Sections(pane.closed) :
         pane.rows[c].section = Sections(pane.closed)[i]
  <2>1. CASE pane.closed
    <3>1. pane.rows[c].section \in {"done", "cancelled"}
      BY <1>4, <2>1, TaskRowFields DEF RowSet, ClosedRows
    <3> QED
      BY <2>1, <3>1 DEF Sections
  <2>2. CASE ~ pane.closed
    <3>1. pane.rows[c].section \in
            {"escalations", "ready", "inprogress", "blocked", "held", "inbox"}
      BY <1>4, <2>2, TaskRowFields, EscRowFields DEF RowSet, OpenRows
    <3>2. /\ DOMAIN Sections(FALSE) = 1 .. 6
          /\ Sections(FALSE)[1] = "escalations"
          /\ Sections(FALSE)[2] = "ready"
          /\ Sections(FALSE)[3] = "inprogress"
          /\ Sections(FALSE)[4] = "blocked"
          /\ Sections(FALSE)[5] = "held"
          /\ Sections(FALSE)[6] = "inbox"
      BY DEF Sections
    <3>3. pane.closed = FALSE
      BY <1>1, <2>2
    <3> DEFINE x == pane.rows[c].section
               list == Sections(FALSE)
    <3>4. \E i \in DOMAIN list : x = list[i]
      <4>1. x \in {"escalations", "ready", "inprogress", "blocked", "held",
                   "inbox"}
        BY <3>1
      <4>2. /\ 1 \in DOMAIN list /\ 2 \in DOMAIN list /\ 3 \in DOMAIN list
            /\ 4 \in DOMAIN list /\ 5 \in DOMAIN list /\ 6 \in DOMAIN list
        <5>1. DOMAIN list = 1 .. 6
          BY <3>2
        <5> HIDE DEF list
        <5> QED
          BY <5>1
      <4>3. /\ list[1] = "escalations" /\ list[2] = "ready"
            /\ list[3] = "inprogress" /\ list[4] = "blocked"
            /\ list[5] = "held" /\ list[6] = "inbox"
        BY <3>2
      <4> HIDE DEF x, list
      <4> QED
        BY <4>1, <4>2, <4>3
    <3> QED
      BY <3>3, <3>4
  <2> QED
    BY <2>1, <2>2
<1> QED
  BY <1>1, <1>2, <1>5, ListShowsRows, WindowHoldsCursor

-----------------------------------------------------------------------------
(***************************************************************************)
(* The view: the stops of its blocks are its focus ring.                   *)
(***************************************************************************)
StopKinds ==
    {"title", "priority", "labels", "escalation", "dep", "neededby",
     "description"}
ChromeKinds ==
    {"blank", "id", "status", "waiting", "created", "NEEDS INPUT",
     "DEPENDS ON", "NEEDED BY", "DESCRIPTION", "HISTORY", "history"}

Blocks ==
    [what : StopKinds \cup ChromeKinds, id : Nat, lines : Nat \ {0},
     isStop : BOOLEAN]

\* The stops among the first j blocks.
Rank(s, j) == Cardinality({k \in 1 .. j : s[k].isStop})

LEMMA RankStep ==
    ASSUME NEW s \in Seq(Blocks)
    PROVE  /\ Rank(s, 0) = 0
           /\ \A j \in DOMAIN s :
                 /\ Rank(s, j - 1) \in Nat
                 /\ Rank(s, j) =
                       Rank(s, j - 1) + (IF s[j].isStop THEN 1 ELSE 0)
<1>1. Rank(s, 0) = 0
  <2>1. {k \in 1 .. 0 : s[k].isStop} = {}
    OBVIOUS
  <2> QED
    BY <2>1, FS_EmptySet DEF Rank
<1>2. ASSUME NEW j \in DOMAIN s
      PROVE  /\ Rank(s, j - 1) \in Nat
             /\ Rank(s, j) = Rank(s, j - 1) + (IF s[j].isStop THEN 1 ELSE 0)
  <2> DEFINE A == {k \in 1 .. (j - 1) : s[k].isStop}
             B == {k \in 1 .. j : s[k].isStop}
  <2>1. j \in Nat /\ j >= 1 /\ j - 1 \in Nat /\ s[j].isStop \in BOOLEAN
    <3>1. j \in 1 .. Len(s) /\ Len(s) \in Nat /\ s[j] \in Blocks
      OBVIOUS
    <3> QED
      BY <3>1 DEF Blocks
  <2>2. IsFiniteSet(A) /\ j \notin A
    <3>1. IsFiniteSet(1 .. (j - 1)) /\ A \subseteq 1 .. (j - 1)
      BY <2>1, FS_Interval
    <3>2. j \notin A
      BY <2>1
    <3> QED
      BY <3>1, <3>2, FS_Subset
  <2>3. B = IF s[j].isStop THEN A \cup {j} ELSE A
    <3>1. \A k : k \in 1 .. j <=> k \in 1 .. (j - 1) \/ k = j
      BY <2>1
    <3> QED
      BY <3>1
  <2>4. Cardinality(A) \in Nat
    <3> HIDE DEF A
    <3> QED
      BY <2>2, FS_CardinalityType
  <2>5. Cardinality(A \cup {j}) = Cardinality(A) + 1
    <3> HIDE DEF A
    <3> QED
      BY <2>2, FS_AddElement
  <2>6. Rank(s, j - 1) = Cardinality(A) /\ Rank(s, j) = Cardinality(B)
    BY DEF Rank
  <2> HIDE DEF A, B
  <2>7. CASE s[j].isStop
    BY <2>3, <2>4, <2>5, <2>6, <2>7
  <2>8. CASE ~ s[j].isStop
    BY <2>3, <2>4, <2>6, <2>8
  <2> QED
    BY <2>7, <2>8
<1> QED
  BY <1>1, <1>2

LEMMA RankType ==
    ASSUME NEW s \in Seq(Blocks), NEW j \in 0 .. Len(s)
    PROVE  Rank(s, j) \in Nat
<1>1. CASE j = 0
  BY <1>1, RankStep
<1>2. CASE j # 0
  <2>1. j \in DOMAIN s /\ DOMAIN s = 1 .. Len(s)
    BY <1>2
  <2>2. /\ Rank(s, j - 1) \in Nat
        /\ Rank(s, j) = Rank(s, j - 1) + (IF s[j].isStop THEN 1 ELSE 0)
    BY <2>1, RankStep
  <2> DEFINE d == IF s[j].isStop THEN 1 ELSE 0
  <2>3. d \in Nat
    OBVIOUS
  <2> HIDE DEF d
  <2> QED
    BY <2>2, <2>3 DEF d
<1> QED
  BY <1>1, <1>2

\* Ring r lists the stops of blocks s, in their order.
Carries(s, r) ==
    /\ s \in Seq(Blocks) /\ r \in Seq(StopType)
    /\ Rank(s, Len(s)) = Len(r)
    /\ \A j \in DOMAIN s : s[j].isStop =>
          /\ Rank(s, j) \in DOMAIN r
          /\ r[Rank(s, j)] = Stop(s[j].what, s[j].id)

LEMMA RankOfConcat ==
    ASSUME NEW s \in Seq(Blocks), NEW t \in Seq(Blocks)
    PROVE  /\ \A j \in 0 .. Len(s) : Rank(s \o t, j) = Rank(s, j)
           /\ \A i \in 0 .. Len(t) :
                 Rank(s \o t, Len(s) + i) = Rank(s, Len(s)) + Rank(t, i)
<1> DEFINE u == s \o t
           m == Len(s)
           n == Len(t)
           Bad == {i \in 0 .. n : Rank(u, m + i) # Rank(s, m) + Rank(t, i)}
<1>0. /\ u \in Seq(Blocks) /\ Len(u) = m + n /\ m \in Nat /\ n \in Nat
      /\ DOMAIN u = 1 .. (m + n) /\ DOMAIN s = 1 .. m /\ DOMAIN t = 1 .. n
      /\ \A j \in 1 .. m : u[j] = s[j]
      /\ \A i \in 1 .. n : u[m + i] = t[i]
  OBVIOUS
<1> HIDE DEF u
<1>1. ASSUME NEW j \in 0 .. m
      PROVE  Rank(u, j) = Rank(s, j)
  <2>1. \A k \in 1 .. j : k \in 1 .. m
    BY <1>0
  <2>2. {k \in 1 .. j : u[k].isStop} = {k \in 1 .. j : s[k].isStop}
    BY <1>0, <2>1
  <2> QED
    BY <2>2 DEF Rank
<1>2. Bad = {}
  <2> SUFFICES ASSUME Bad # {}
               PROVE  FALSE
    OBVIOUS
  <2>1. PICK i \in Bad : \A k \in Bad : i <= k
    <3>1. Bad \in SUBSET Nat
      OBVIOUS
    <3> HIDE DEF Bad
    <3> QED
      BY <3>1, LeastOf
  <2>2. /\ i \in 0 .. n /\ i \in Nat
        /\ Rank(u, m + i) # Rank(s, m) + Rank(t, i)
    BY <1>0, <2>1
  <2>3. Rank(s, m) \in Nat /\ m \in 0 .. m
    BY <1>0, RankType
  <2>4. CASE i = 0
    <3>1. Rank(t, 0) = 0 /\ m + 0 = m
      BY <1>0, RankStep
    <3>2. Rank(u, m) = Rank(s, m)
      BY <1>1, <2>3
    <3> QED
      BY <2>2, <2>3, <2>4, <3>1, <3>2
  <2>5. CASE i # 0
    <3>1. i - 1 \in 0 .. n /\ i - 1 < i /\ i \in DOMAIN t
          /\ m + i \in DOMAIN u /\ (m + i) - 1 = m + (i - 1)
      BY <1>0, <2>2, <2>5
    <3>2. i - 1 \notin Bad
      <4> HIDE DEF Bad
      <4> QED
        BY <2>1, <2>2, <3>1
    <3>3. Rank(u, m + (i - 1)) = Rank(s, m) + Rank(t, i - 1)
      BY <3>1, <3>2
    <3>4. /\ Rank(t, i - 1) \in Nat
          /\ Rank(t, i) = Rank(t, i - 1) + (IF t[i].isStop THEN 1 ELSE 0)
      BY <3>1, RankStep
    <3>5. Rank(u, m + i)
             = Rank(u, m + (i - 1)) + (IF u[m + i].isStop THEN 1 ELSE 0)
      BY <1>0, <3>1, RankStep
    <3>6. u[m + i] = t[i]
      BY <1>0, <3>1
    <3> DEFINE d == IF t[i].isStop THEN 1 ELSE 0
    <3>7. d \in Nat
      OBVIOUS
    <3> HIDE DEF d
    <3>8. Rank(t, i) = Rank(t, i - 1) + d
          /\ Rank(u, m + i) = Rank(u, m + (i - 1)) + d
      BY <3>4, <3>5, <3>6 DEF d
    <3> QED
      BY <2>2, <2>3, <3>3, <3>4, <3>7, <3>8
  <2> QED
    BY <2>4, <2>5
<1> QED
  BY <1>1, <1>2 DEF u

LEMMA CarriesConcat ==
    ASSUME NEW s, NEW q, Carries(s, q), NEW t, NEW r, Carries(t, r)
    PROVE  Carries(s \o t, q \o r)
<1> DEFINE u == s \o t
           m == Len(s)
           n == Len(t)
           p == q \o r
<1>0. /\ s \in Seq(Blocks) /\ t \in Seq(Blocks)
      /\ u \in Seq(Blocks) /\ Len(u) = m + n /\ m \in Nat /\ n \in Nat
      /\ DOMAIN u = 1 .. (m + n) /\ DOMAIN s = 1 .. m /\ DOMAIN t = 1 .. n
      /\ \A j \in 1 .. m : u[j] = s[j]
      /\ \A i \in 1 .. n : u[m + i] = t[i]
  BY DEF Carries
<1>1. /\ q \in Seq(StopType) /\ r \in Seq(StopType)
      /\ p \in Seq(StopType) /\ Len(p) = Len(q) + Len(r)
      /\ DOMAIN p = 1 .. (Len(q) + Len(r))
      /\ DOMAIN q = 1 .. Len(q) /\ DOMAIN r = 1 .. Len(r)
      /\ Len(q) \in Nat /\ Len(r) \in Nat
      /\ \A j \in 1 .. Len(q) : p[j] = q[j]
      /\ \A i \in 1 .. Len(r) : p[Len(q) + i] = r[i]
  BY DEF Carries
<1>2. /\ \A j \in 0 .. m : Rank(u, j) = Rank(s, j)
      /\ \A i \in 0 .. n : Rank(u, m + i) = Len(q) + Rank(t, i)
  BY <1>0, RankOfConcat DEF Carries
<1> HIDE DEF u, p
<1>3. Rank(u, Len(u)) = Len(p)
  <2>1. n \in 0 .. n /\ Rank(t, n) = Len(r)
    BY <1>0 DEF Carries
  <2> QED
    BY <1>0, <1>1, <1>2, <2>1
<1>4. ASSUME NEW j \in DOMAIN u, u[j].isStop
      PROVE  /\ Rank(u, j) \in DOMAIN p
             /\ p[Rank(u, j)] = Stop(u[j].what, u[j].id)
  <2>1. CASE j \in 1 .. m
    <3>1. j \in 0 .. m /\ u[j] = s[j] /\ j \in DOMAIN s
      BY <1>0, <2>1
    <3>2. Rank(s, j) \in DOMAIN q /\ q[Rank(s, j)] = Stop(s[j].what, s[j].id)
      BY <1>4, <3>1 DEF Carries
    <3>3. Rank(s, j) \in DOMAIN p /\ p[Rank(s, j)] = q[Rank(s, j)]
      BY <1>1, <3>2
    <3> QED
      BY <1>2, <3>1, <3>2, <3>3
  <2>2. CASE j \notin 1 .. m
    <3> DEFINE i == j - m
    <3>1. i \in 1 .. n /\ i \in 0 .. n /\ j = m + i
      BY <1>0, <2>2
    <3> HIDE DEF i
    <3>2. u[j] = t[i] /\ i \in DOMAIN t
      BY <1>0, <3>1
    <3>3. Rank(t, i) \in DOMAIN r /\ r[Rank(t, i)] = Stop(t[i].what, t[i].id)
      BY <1>4, <3>2 DEF Carries
    <3>4. /\ Len(q) + Rank(t, i) \in DOMAIN p
          /\ p[Len(q) + Rank(t, i)] = r[Rank(t, i)]
      BY <1>1, <3>3
    <3>5. Rank(u, j) = Len(q) + Rank(t, i)
      BY <1>2, <3>1
    <3> QED
      BY <3>2, <3>3, <3>4, <3>5
  <2> QED
    BY <2>1, <2>2
<1>5. Carries(u, p)
  BY <1>0, <1>1, <1>3, <1>4 DEF Carries
<1> QED
  BY <1>5 DEF u, p

\* Nothing, and one block.
LEMMA CarriesNone == Carries(<<>>, <<>>)
<1>1. <<>> \in Seq(Blocks) /\ <<>> \in Seq(StopType)
  OBVIOUS
<1>2. Rank(<<>>, 0) = 0
  BY <1>1, RankStep
<1> QED
  BY <1>1, <1>2 DEF Carries

LEMMA CarriesOne ==
    ASSUME NEW x \in Blocks, x.isStop => Stop(x.what, x.id) \in StopType
    PROVE  Carries(<<x>>, If(x.isStop, Stop(x.what, x.id)))
<1> DEFINE s == <<x>>
           r == If(x.isStop, Stop(x.what, x.id))
<1>1. /\ s \in Seq(Blocks) /\ Len(s) = 1 /\ DOMAIN s = {1} /\ s[1] = x
      /\ x.isStop \in BOOLEAN
  BY DEF Blocks
<1>2. Rank(s, 1) = IF x.isStop THEN 1 ELSE 0
  <2>1. Rank(s, 0) = 0 /\ 1 - 1 = 0
    <3> HIDE DEF s
    <3> QED
      BY <1>1, RankStep
  <2>2. Rank(s, 1) = Rank(s, 1 - 1) + (IF s[1].isStop THEN 1 ELSE 0)
    <3> HIDE DEF s
    <3> QED
      BY <1>1, RankStep
  <2> HIDE DEF s
  <2> QED
    BY <1>1, <2>1, <2>2
<1> HIDE DEF s
<1>3. CASE x.isStop
  <2>1. r = <<Stop(x.what, x.id)>>
    BY <1>3 DEF If
  <2>2. r \in Seq(StopType) /\ Len(r) = 1 /\ DOMAIN r = {1}
        /\ r[1] = Stop(x.what, x.id)
    <3> DEFINE y == Stop(x.what, x.id)
    <3>1. r = <<y>> /\ y \in StopType
      BY <1>3, <2>1
    <3> HIDE DEF y, r
    <3>2. r \in Seq(StopType) /\ Len(r) = 1 /\ DOMAIN r = {1} /\ r[1] = y
      BY <3>1
    <3> QED
      BY <3>2 DEF y
  <2> HIDE DEF r
  <2>3. Carries(s, r)
    BY <1>1, <1>2, <1>3, <2>2 DEF Carries
  <2> QED
    BY <2>3 DEF s, r
<1>4. CASE ~ x.isStop
  <2>1. r = <<>>
    BY <1>4 DEF If
  <2>2. r \in Seq(StopType) /\ Len(r) = 0
    BY <2>1
  <2> HIDE DEF r
  <2>3. Carries(s, r)
    BY <1>1, <1>2, <1>4, <2>2 DEF Carries
  <2> QED
    BY <2>3 DEF s, r
<1> QED
  BY <1>3, <1>4

\* The focus ring's f-th stop has a block.
LEMMA StopHasBlock ==
    ASSUME NEW s, NEW r, Carries(s, r), NEW f \in DOMAIN r
    PROVE  \E j \in DOMAIN s : s[j].isStop /\ Rank(s, j) = f
<1> DEFINE n == Len(s)
           T == {j \in 0 .. n : Rank(s, j) >= f}
<1>0. /\ s \in Seq(Blocks) /\ n \in Nat /\ DOMAIN s = 1 .. n
      /\ f \in Nat /\ f >= 1 /\ f <= Len(r) /\ Rank(s, n) = Len(r)
      /\ Len(r) \in Nat
  BY DEF Carries
<1>1. T \in SUBSET Nat /\ T # {}
  BY <1>0
<1>2. PICK j \in T : \A k \in T : j <= k
  <2> HIDE DEF T
  <2> QED
    BY <1>1, LeastOf
<1>3. j \in 0 .. n /\ Rank(s, j) >= f /\ j \in Nat
  BY <1>0, <1>2
<1>4. j # 0
  <2>1. Rank(s, 0) = 0
    BY <1>0, RankStep
  <2> QED
    BY <1>0, <1>3, <2>1
<1>5. j \in DOMAIN s /\ j - 1 \in 0 .. n /\ j - 1 < j
  BY <1>0, <1>3, <1>4
<1>6. ~ (Rank(s, j - 1) >= f)
  <2>1. j - 1 \notin T
    <3> HIDE DEF T
    <3> QED
      BY <1>2, <1>3, <1>5
  <2> QED
    BY <1>5, <2>1
<1>7. /\ Rank(s, j - 1) \in Nat
      /\ Rank(s, j) = Rank(s, j - 1) + (IF s[j].isStop THEN 1 ELSE 0)
  BY <1>0, <1>5, RankStep
<1>8. CASE s[j].isStop
  <2>1. Rank(s, j) = f
    BY <1>0, <1>3, <1>6, <1>7, <1>8
  <2> QED
    BY <1>5, <1>8, <2>1
<1>9. CASE ~ s[j].isStop
  BY <1>0, <1>3, <1>6, <1>7, <1>9
<1> QED
  BY <1>8, <1>9

Chain(s, t) == s \o t

LEMMA ConcatFacts ==
    ASSUME NEW S, NEW s \in Seq(S), NEW t \in Seq(S)
    PROVE  /\ Chain(s, t) \in Seq(S) /\ Len(Chain(s, t)) = Len(s) + Len(t)
           /\ \A i \in 1 .. Len(s) : Chain(s, t)[i] = s[i]
           /\ \A i \in 1 .. Len(t) : Chain(s, t)[Len(s) + i] = t[i]
  BY DEF Chain

LEMMA TwoBlocks ==
    ASSUME NEW S, NEW b \in S, NEW c \in S
    PROVE  <<b, c>> = <<b>> \o <<c>>
<1> DEFINE u == <<b>> \o <<c>>
           w == <<b, c>>
<1>1. u \in Seq(S) /\ Len(u) = 2 /\ u[1] = b /\ u[2] = c
  OBVIOUS
<1>2. w \in Seq(S) /\ Len(w) = 2 /\ w[1] = b /\ w[2] = c
  OBVIOUS
<1> HIDE DEF u, w
<1>3. \A i \in 1 .. 2 : u[i] = w[i]
  <2>1. \A i \in 1 .. 2 : i = 1 \/ i = 2
    OBVIOUS
  <2> QED
    BY <1>1, <1>2, <2>1
<1>4. u = w
  BY <1>1, <1>2, <1>3, SeqEqual
<1> QED
  BY <1>4 DEF u, w

LEMMA ThreeBlocks ==
    ASSUME NEW S, NEW a \in S, NEW b \in S, NEW c \in S
    PROVE  <<a, b, c>> = <<a>> \o (<<b>> \o <<c>>)
<1> DEFINE u == <<b>> \o <<c>>
           v == <<a>> \o u
           w == <<a, b, c>>
<1>1. u \in Seq(S) /\ Len(u) = 2 /\ u[1] = b /\ u[2] = c
  OBVIOUS
<1> HIDE DEF u
<1>2. v \in Seq(S) /\ Len(v) = 3 /\ v[1] = a /\ v[2] = b /\ v[3] = c
  <2> DEFINE o == <<a>>
  <2>1. o \in Seq(S) /\ Len(o) = 1 /\ o[1] = a
    OBVIOUS
  <2> HIDE DEF o
  <2>2. /\ Chain(o, u) \in Seq(S)
        /\ Len(Chain(o, u)) = Len(o) + Len(u)
        /\ \A i \in 1 .. Len(o) : Chain(o, u)[i] = o[i]
        /\ \A i \in 1 .. Len(u) : Chain(o, u)[Len(o) + i] = u[i]
    <3>0. o \in Seq(S) /\ u \in Seq(S)
      BY <1>1, <2>1
    <3>1. Chain(o, u) \in Seq(S)
      BY <3>0, ConcatFacts
    <3>2. Len(Chain(o, u)) = Len(o) + Len(u)
      BY <3>0, ConcatFacts
    <3>3. \A i \in 1 .. Len(o) : Chain(o, u)[i] = o[i]
      BY <3>0, ConcatFacts
    <3>4. \A i \in 1 .. Len(u) : Chain(o, u)[Len(o) + i] = u[i]
      BY <3>0, ConcatFacts
    <3> QED
      BY <3>1, <3>2, <3>3, <3>4
  <2>3. /\ Chain(o, u)[1] = o[1] /\ Chain(o, u)[1 + 1] = u[1]
        /\ Chain(o, u)[1 + 2] = u[2]
    BY <1>1, <2>1, <2>2
  <2>4. v = Chain(o, u)
    BY DEF o, Chain
  <2> HIDE DEF v
  <2> QED
    BY <1>1, <2>1, <2>2, <2>3, <2>4
<1>3. w \in Seq(S) /\ Len(w) = 3 /\ w[1] = a /\ w[2] = b /\ w[3] = c
  OBVIOUS
<1> HIDE DEF v, w
<1>4. \A i \in 1 .. 3 : v[i] = w[i]
  <2>1. \A i \in 1 .. 3 : i = 1 \/ i = 2 \/ i = 3
    OBVIOUS
  <2> QED
    BY <1>2, <1>3, <2>1
<1>5. v = w
  BY <1>2, <1>3, <1>4, SeqEqual
<1> QED
  BY <1>5 DEF u, v, w

LEMMA SixBlocks ==
    ASSUME NEW S, NEW s \in Seq(S), Len(s) = 6
    PROVE  s = <<s[1], s[2], s[3]>> \o <<s[4], s[5], s[6]>>
<1> DEFINE p == <<s[1], s[2], s[3]>>
           q == <<s[4], s[5], s[6]>>
           v == p \o q
<1>1. \A i \in 1 .. 6 : s[i] \in S
  <2>1. \A i \in 1 .. Len(s) : s[i] \in S
    BY ElementOfSeq
  <2> QED
    BY <2>1
<1>2. /\ p \in Seq(S) /\ Len(p) = 3
      /\ p[1] = s[1] /\ p[2] = s[2] /\ p[3] = s[3]
      /\ q \in Seq(S) /\ Len(q) = 3
      /\ q[1] = s[4] /\ q[2] = s[5] /\ q[3] = s[6]
  BY <1>1
<1> HIDE DEF p, q
<1>3. /\ v \in Seq(S) /\ Len(v) = 6
      /\ v[1] = p[1] /\ v[2] = p[2] /\ v[3] = p[3]
      /\ v[4] = q[1] /\ v[5] = q[2] /\ v[6] = q[3]
  <2>1. /\ Chain(p, q) \in Seq(S)
        /\ Len(Chain(p, q)) = Len(p) + Len(q)
        /\ \A i \in 1 .. Len(p) : Chain(p, q)[i] = p[i]
        /\ \A i \in 1 .. Len(q) : Chain(p, q)[Len(p) + i] = q[i]
    <3>0. p \in Seq(S) /\ q \in Seq(S)
      BY <1>2
    <3>1. Chain(p, q) \in Seq(S)
      BY <3>0, ConcatFacts
    <3>2. Len(Chain(p, q)) = Len(p) + Len(q)
      BY <3>0, ConcatFacts
    <3>3. \A i \in 1 .. Len(p) : Chain(p, q)[i] = p[i]
      BY <3>0, ConcatFacts
    <3>4. \A i \in 1 .. Len(q) : Chain(p, q)[Len(p) + i] = q[i]
      BY <3>0, ConcatFacts
    <3> QED
      BY <3>1, <3>2, <3>3, <3>4
  <2>2. /\ Chain(p, q)[1] = p[1] /\ Chain(p, q)[2] = p[2]
        /\ Chain(p, q)[3] = p[3]
        /\ Chain(p, q)[3 + 1] = q[1] /\ Chain(p, q)[3 + 2] = q[2]
        /\ Chain(p, q)[3 + 3] = q[3]
    BY <1>2, <2>1
  <2>3. v = Chain(p, q)
    BY DEF Chain
  <2> HIDE DEF v
  <2> QED
    BY <1>2, <2>1, <2>2, <2>3
<1> HIDE DEF v
<1>4. \A i \in 1 .. 6 : v[i] = s[i]
  <2>1. \A i \in 1 .. 6 : i = 1 \/ i = 2 \/ i = 3 \/ i = 4 \/ i = 5 \/ i = 6
    OBVIOUS
  <2> QED
    BY <1>2, <1>3, <2>1
<1>5. v = s
  BY <1>3, <1>4, SeqEqual
<1> QED
  BY <1>5 DEF p, q, v

LEMMA CarriesThree ==
    ASSUME NEW a, NEW b, NEW c, NEW p, NEW q, NEW r,
           Carries(<<a>>, p), Carries(<<b>>, q), Carries(<<c>>, r)
    PROVE  Carries(<<a, b, c>>, p \o (q \o r))
<1>1. a \in Blocks /\ b \in Blocks /\ c \in Blocks
  <2>1. <<a>> \in Seq(Blocks) /\ <<b>> \in Seq(Blocks) /\ <<c>> \in Seq(Blocks)
    BY DEF Carries
  <2>2. ASSUME NEW x, <<x>> \in Seq(Blocks)
        PROVE  x \in Blocks
    <3>1. 1 \in 1 .. Len(<<x>>)
      OBVIOUS
    <3>2. <<x>>[1] \in Blocks
      BY <2>2, <3>1, ElementOfSeq
    <3> QED
      BY <3>2
  <2> QED
    BY <2>1, <2>2
<1>2. Carries(<<b>> \o <<c>>, q \o r)
  BY CarriesConcat
<1>3. Carries(<<a>> \o (<<b>> \o <<c>>), p \o (q \o r))
  BY <1>2, CarriesConcat
<1>4. <<a, b, c>> = <<a>> \o (<<b>> \o <<c>>)
  BY <1>1, ThreeBlocks
<1> QED
  BY <1>3, <1>4

\* A line that is not a stop's carries nothing, and adds nothing.
LEMMA ChromeCarries ==
    ASSUME NEW what \in ChromeKinds, NEW lines \in Nat \ {0}
    PROVE  /\ Chrome(what, lines) \in Blocks
           /\ Carries(<<Chrome(what, lines)>>, <<>>)
<1> DEFINE x == Chrome(what, lines)
<1>1. x \in Blocks /\ x.isStop = FALSE
  BY DEF Chrome, Block, Blocks
<1> HIDE DEF x
<1>2. Carries(<<x>>, If(x.isStop, Stop(x.what, x.id)))
  BY <1>1, CarriesOne
<1>3. If(x.isStop, Stop(x.what, x.id)) = <<>>
  BY <1>1 DEF If
<1>4. Carries(<<x>>, <<>>)
  BY <1>2, <1>3
<1> QED
  BY <1>1, <1>4 DEF x

LEMMA ChromeLine ==
    ASSUME NEW what \in ChromeKinds
    PROVE  Chrome(what, 1) \in Blocks /\ Carries(<<Chrome(what, 1)>>, <<>>)
<1>1. 1 \in Nat \ {0}
  OBVIOUS
<1> QED
  BY <1>1, ChromeCarries, Zenon

\* One block of a task.
LEMMA BlockCarries ==
    ASSUME NEW t \in Tasks, NEW lines \in Nat \ {0}, NEW c \in BOOLEAN,
           NEW what \in {"title", "priority", "labels", "description"}
    PROVE  /\ Block(what, t, lines, c) \in Blocks
           /\ Carries(<<Block(what, t, lines, c)>>, If(c, Stop(what, t)))
<1> DEFINE x == Block(what, t, lines, c)
<1>1. t \in Nat /\ Stop(what, t) \in StopType
  BY NoTaskIsZero DEF Stop, StopType
<1>2. x \in Blocks /\ x.isStop = c /\ x.what = what /\ x.id = t
  BY <1>1 DEF Block, Blocks, StopKinds
<1> HIDE DEF x
<1>3. Carries(<<x>>, If(x.isStop, Stop(x.what, x.id)))
  BY <1>1, <1>2, CarriesOne
<1>4. Carries(<<x>>, If(c, Stop(what, t)))
  BY <1>2, <1>3
<1> QED
  BY <1>2, <1>4 DEF x

LEMMA AlwaysCarries ==
    ASSUME NEW t \in Tasks, NEW lines \in Nat \ {0},
           NEW what \in {"title", "priority", "labels", "description"}
    PROVE  /\ Block(what, t, lines, TRUE) \in Blocks
           /\ Carries(<<Block(what, t, lines, TRUE)>>, <<Stop(what, t)>>)
<1> DEFINE yes == TRUE
<1>1. yes \in BOOLEAN
  OBVIOUS
<1>2. If(yes, Stop(what, t)) = <<Stop(what, t)>>
  BY DEF If
<1> HIDE DEF yes
<1>3. /\ Block(what, t, lines, yes) \in Blocks
      /\ Carries(<<Block(what, t, lines, yes)>>, If(yes, Stop(what, t)))
  BY <1>1, BlockCarries, Zenon
<1>4. /\ Block(what, t, lines, yes) \in Blocks
      /\ Carries(<<Block(what, t, lines, yes)>>, <<Stop(what, t)>>)
  BY <1>2, <1>3, Zenon
<1> QED
  BY <1>4 DEF yes

LEMMA HeaderCarries ==
    ASSUME NEW b, IsBoard(b), NEW t \in Known(b)
    PROVE  Carries(HeaderBlocks(b, t),
               (<<Stop("title", t)>>
                \o If(Steerable(TaskRow(b, t, "")), Stop("priority", t)))
               \o If(~ Terminal(b.tasks[t].status), Stop("labels", t)))
<1> DEFINE p  == Steerable(TaskRow(b, t, ""))
           l  == ~ Terminal(b.tasks[t].status)
           b1 == Block("title", t, 1, TRUE)
           b2 == Chrome("blank", 1)
           b3 == Chrome("id", 1)
           b4 == Chrome("status", 1)
           b5 == Block("priority", t, 1, p)
           b6 == Block("labels", t, 1, l)
           w  == If(CancelledDeps(b, t) # {}, Chrome("waiting", 1))
           z  == <<Chrome("created", 1)>>
           r1 == <<Stop("title", t)>>
           r5 == If(p, Stop("priority", t))
           r6 == If(l, Stop("labels", t))
<1>1. t \in Tasks
  BY DEF IsBoard
<1>2. p \in BOOLEAN /\ l \in BOOLEAN
  BY DEF Steerable
<1>3. HeaderBlocks(b, t) = (<<b1, b2, b3, b4, b5, b6>> \o w) \o z
  BY DEF HeaderBlocks
<1> HIDE DEF p, l
<1>4. /\ b1 \in Blocks /\ Carries(<<b1>>, r1)
      /\ b5 \in Blocks /\ Carries(<<b5>>, r5)
      /\ b6 \in Blocks /\ Carries(<<b6>>, r6)
  <2>1. 1 \in Nat \ {0}
    OBVIOUS
  <2> DEFINE K == {"title", "priority", "labels", "description"}
  <2>2. "title" \in K /\ "priority" \in K /\ "labels" \in K
    OBVIOUS
  <2>3. b1 \in Blocks /\ Carries(<<b1>>, r1)
    BY <1>1, <2>1, <2>2, AlwaysCarries, Zenon
  <2>4. b5 \in Blocks /\ Carries(<<b5>>, r5)
    BY <1>1, <1>2, <2>1, <2>2, BlockCarries, Zenon
  <2>5. b6 \in Blocks /\ Carries(<<b6>>, r6)
    BY <1>1, <1>2, <2>1, <2>2, BlockCarries, Zenon
  <2> QED
    BY <2>3, <2>4, <2>5
<1>5. /\ b2 \in Blocks /\ Carries(<<b2>>, <<>>)
      /\ b3 \in Blocks /\ Carries(<<b3>>, <<>>)
      /\ b4 \in Blocks /\ Carries(<<b4>>, <<>>)
  <2>1. /\ "blank" \in ChromeKinds /\ "id" \in ChromeKinds
        /\ "status" \in ChromeKinds
    BY DEF ChromeKinds
  <2> QED
    BY <2>1, ChromeLine, Zenon
<1>6. Carries(w, <<>>)
  <2>1. "waiting" \in ChromeKinds
    BY DEF ChromeKinds
  <2>2. Carries(<<Chrome("waiting", 1)>>, <<>>)
    BY <2>1, ChromeLine, Zenon
  <2> QED
    BY <2>2, CarriesNone DEF If
<1>7. Carries(z, <<>>)
  <2>1. "created" \in ChromeKinds
    BY DEF ChromeKinds
  <2> QED
    BY <2>1, ChromeLine, Zenon
<1> HIDE DEF b1, b2, b3, b4, b5, b6, w, z, r1, r5, r6
<1>8. Carries(<<b1, b2, b3>>, r1)
  <2>1. Carries(<<b1, b2, b3>>, r1 \o (<<>> \o <<>>))
    BY <1>4, <1>5, CarriesThree
  <2>2. r1 \in Seq(StopType) /\ <<>> \in Seq(StopType)
    BY <1>4 DEF Carries
  <2>3. <<>> \o <<>> = <<>> /\ r1 \o <<>> = r1
    BY <2>2, ConcatEmptySeq
  <2> QED
    BY <2>1, <2>3
<1>9. Carries(<<b4, b5, b6>>, r5 \o r6)
  <2>1. Carries(<<b4, b5, b6>>, <<>> \o (r5 \o r6))
    BY <1>4, <1>5, CarriesThree
  <2>2. r5 \in Seq(StopType) /\ r6 \in Seq(StopType)
    BY <1>4 DEF Carries
  <2>3. r5 \o r6 \in Seq(StopType)
    BY <2>2, ConcatProperties
  <2>4. <<>> \o (r5 \o r6) = r5 \o r6
    BY <2>3, ConcatEmptySeq
  <2> QED
    BY <2>1, <2>4
<1>10. Carries(<<b1, b2, b3, b4, b5, b6>>, (r1 \o r5) \o r6)
  <2>1. Carries(<<b1, b2, b3>> \o <<b4, b5, b6>>, r1 \o (r5 \o r6))
    BY <1>8, <1>9, CarriesConcat
  <2>2. <<b1, b2, b3, b4, b5, b6>> = <<b1, b2, b3>> \o <<b4, b5, b6>>
    <3>1. /\ b1 \in Blocks /\ b2 \in Blocks /\ b3 \in Blocks
          /\ b4 \in Blocks /\ b5 \in Blocks /\ b6 \in Blocks
      BY <1>4, <1>5
    <3> DEFINE h == <<b1, b2, b3, b4, b5, b6>>
    <3>2. /\ h \in Seq(Blocks) /\ Len(h) = 6 /\ h[1] = b1 /\ h[2] = b2
          /\ h[3] = b3 /\ h[4] = b4 /\ h[5] = b5 /\ h[6] = b6
      BY <3>1
    <3> HIDE DEF h
    <3>3. h = <<h[1], h[2], h[3]>> \o <<h[4], h[5], h[6]>>
      BY <3>2, SixBlocks
    <3>4. h = <<b1, b2, b3>> \o <<b4, b5, b6>>
      BY <3>2, <3>3
    <3> QED
      BY <3>4 DEF h
  <2>3. /\ r1 \in Seq(StopType) /\ r5 \in Seq(StopType)
        /\ r6 \in Seq(StopType)
    BY <1>4 DEF Carries
  <2>4. r1 \o (r5 \o r6) = (r1 \o r5) \o r6
    BY <2>3, ConcatAssociative, SMTT(30)
  <2> QED
    BY <2>1, <2>2, <2>4
<1> DEFINE h == <<b1, b2, b3, b4, b5, b6>>
           r == (r1 \o r5) \o r6
<1> HIDE DEF h, r
<1>11. Carries((h \o w) \o z, r)
  <2>1. Carries(h, r)
    BY <1>10 DEF h, r
  <2>2. Carries((h \o w) \o z, (r \o <<>>) \o <<>>)
    BY <1>6, <1>7, <2>1, CarriesConcat
  <2>3. r \in Seq(StopType)
    BY <2>1 DEF Carries
  <2>4. r \o <<>> = r
    BY <2>3, ConcatEmptySeq
  <2> QED
    BY <2>2, <2>4
<1> QED
  BY <1>3, <1>11 DEF h, r, r1, r5, r6, p, l

\* The rows of a section, each a stop.
LEMMA RowsCarry ==
    ASSUME NEW kind, NEW ids \in Seq(Nat), NEW s \in Seq(Blocks),
           Len(s) = Len(ids), Stops(kind, ids) \in Seq(StopType),
           \A i \in DOMAIN s : /\ s[i].isStop /\ s[i].what = kind
                              /\ s[i].id = ids[i]
    PROVE  Carries(s, Stops(kind, ids))
<1> DEFINE n == Len(s)
           r == Stops(kind, ids)
<1>1. /\ n \in Nat /\ DOMAIN s = 1 .. n /\ DOMAIN ids = 1 .. n
      /\ DOMAIN r = 1 .. n /\ \A i \in 1 .. n : r[i] = Stop(kind, ids[i])
  BY DEF Stops
<1> HIDE DEF r
<1>2. Len(r) = n
  BY <1>1 DEF r
<1>3. ASSUME NEW j \in 0 .. n
      PROVE  Rank(s, j) = j
  <2>1. {k \in 1 .. j : s[k].isStop} = 1 .. j
    <3>1. \A k \in 1 .. j : k \in 1 .. n
      BY <1>1
    <3> QED
      BY <1>1, <3>1
  <2>2. Cardinality(1 .. j) = j
    <3>1. j \in Nat
      BY <1>1
    <3>2. \A m \in Nat : Cardinality(1 .. m) = m
      BY FS_Interval
    <3> QED
      BY <3>1, <3>2
  <2> QED
    BY <2>1, <2>2 DEF Rank
<1>4. ASSUME NEW j \in DOMAIN s
      PROVE  /\ Rank(s, j) \in DOMAIN r
             /\ r[Rank(s, j)] = Stop(s[j].what, s[j].id)
  <2>1. Rank(s, j) = j
    BY <1>1, <1>3
  <2> QED
    BY <1>1, <2>1
<1>5. Rank(s, n) = n
  BY <1>1, <1>3
<1>6. Carries(s, r)
  BY <1>2, <1>4, <1>5 DEF Carries, r
<1> QED
  BY <1>6 DEF r

LEMMA SectionCarries ==
    ASSUME NEW bar \in ChromeKinds, NEW s, NEW r, Carries(s, r)
    PROVE  Carries(Section(bar, s), r)
<1>1. s \in Seq(Blocks) /\ r \in Seq(StopType)
  BY DEF Carries
<1>2. CASE s = <<>>
  BY <1>2 DEF Section
<1>3. CASE s # <<>>
  <2> DEFINE x == Chrome("blank", 1)
             y == Chrome(bar, 1)
  <2>1. /\ x \in Blocks /\ Carries(<<x>>, <<>>)
        /\ y \in Blocks /\ Carries(<<y>>, <<>>)
    <3>1. "blank" \in ChromeKinds
      BY DEF ChromeKinds
    <3> QED
      BY <3>1, ChromeLine, Zenon
  <2>2. Section(bar, s) = <<x, y>> \o s
    BY <1>3 DEF Section
  <2> HIDE DEF x, y
  <2>3. <<x, y>> = <<x>> \o <<y>>
    BY <2>1, TwoBlocks
  <2>4. Carries(<<x>> \o <<y>>, <<>> \o <<>>)
    BY <2>1, CarriesConcat
  <2>5. Carries((<<x>> \o <<y>>) \o s, (<<>> \o <<>>) \o r)
    BY <2>4, CarriesConcat
  <2>6. <<>> \o <<>> = <<>> /\ <<>> \o r = r
    BY <1>1, ConcatEmptySeq
  <2> QED
    BY <2>2, <2>3, <2>5, <2>6
<1> QED
  BY <1>2, <1>3

LEMMA StopKindsTyped ==
    ASSUME NEW b, IsBoard(b), NEW t \in Tasks
    PROVE  /\ Stops("escalation", DetailEscalations(b, t)) \in Seq(StopType)
           /\ Stops("dep", KnownDeps(b, t)) \in Seq(StopType)
           /\ DependentsOf(b, t) \in Seq(Tasks)
           /\ Stops("neededby", DependentsOf(b, t)) \in Seq(StopType)
<1>1. /\ \A k \in {"dep", "neededby"}, x \in Tasks : Stop(k, x) \in StopType
      /\ \A x \in Escalations : Stop("escalation", x) \in StopType
  BY DEF Stop, StopType
<1>2. DependentsOf(b, t) \in Seq(Tasks)
  <2> DEFINE S == {u \in Known(b) : t \in ToSet(Deps[u])}
  <2>1. S \subseteq Known(b) /\ S \subseteq Tasks
    BY DEF IsBoard
  <2>2. Enumerates(ById(S), S)
    BY <2>1, InTypes
  <2> QED
    BY <2>1, <2>2 DEF Enumerates, DependentsOf
<1>3. Stops("escalation", DetailEscalations(b, t)) \in Seq(StopType)
  BY <1>1, EscalationsTyped, StopsTyped
<1>4. Stops("dep", KnownDeps(b, t)) \in Seq(StopType)
  BY <1>1, KnownDepsTyped, StopsTyped
<1>5. Stops("neededby", DependentsOf(b, t)) \in Seq(StopType)
  BY <1>1, <1>2, StopsTyped
<1> QED
  BY <1>2, <1>3, <1>4, <1>5

\* The rows of the questions, and those of the tasks that need this one.
LEMMA QuestionsCarry ==
    ASSUME NEW b, IsBoard(b), NEW t \in Known(b), NEW expanded
    PROVE  Carries(EscalationBlocks(b, t, expanded),
                   Stops("escalation", DetailEscalations(b, t)))
<1> DEFINE ids == DetailEscalations(b, t)
           s == [i \in DOMAIN ids |->
                    Block("escalation", ids[i],
                          IF ids[i] \in expanded THEN 5 ELSE 3, TRUE)]
<1>1. t \in Tasks
  BY DEF IsBoard
<1>2. EscalationBlocks(b, t, expanded) = Section("NEEDS INPUT", s)
  BY DEF EscalationBlocks
<1>3. ids \in Seq(Nat)
  <2>1. ids \in Seq(Escalations) /\ Escalations \subseteq Nat
    BY EscalationsTyped, BoardAssumption
  <2> HIDE DEF ids
  <2> QED
    BY <2>1, SeqMonotonic
<1>4. Stops("escalation", ids) \in Seq(StopType)
  BY <1>1, StopKindsTyped
<1> HIDE DEF ids
<1>5. DOMAIN ids = 1 .. Len(ids) /\ Len(ids) \in Nat
  BY <1>3
<1>6. ASSUME NEW i \in DOMAIN ids
      PROVE  /\ s[i] \in Blocks /\ s[i].isStop
             /\ s[i].what = "escalation" /\ s[i].id = ids[i]
  <2> DEFINE l == IF ids[i] \in expanded THEN 5 ELSE 3
  <2>1. l \in Nat \ {0} /\ ids[i] \in Nat
    BY <1>3
  <2>2. s[i] = Block("escalation", ids[i], l, TRUE)
    OBVIOUS
  <2> HIDE DEF l, s
  <2> QED
    BY <2>1, <2>2 DEF Block, Blocks, StopKinds
<1>7. s \in Seq(Blocks) /\ Len(s) = Len(ids) /\ DOMAIN s = DOMAIN ids
  <2>1. s = [i \in 1 .. Len(ids) |-> s[i]]
    BY <1>5
  <2>2. \A i \in 1 .. Len(ids) : s[i] \in Blocks
    BY <1>5, <1>6
  <2> HIDE DEF s
  <2> QED
    BY <1>5, <2>1, <2>2
<1> HIDE DEF s
<1>8. Carries(s, Stops("escalation", ids))
  BY <1>3, <1>4, <1>6, <1>7, RowsCarry
<1>9. "NEEDS INPUT" \in ChromeKinds
  BY DEF ChromeKinds
<1> QED
  BY <1>2, <1>8, <1>9, SectionCarries DEF ids

NeededRows(b, t) ==
    [i \in DOMAIN DependentsOf(b, t) |->
        Block("neededby", DependentsOf(b, t)[i], 1, TRUE)]

DepRows(b, t) ==
    [i \in DOMAIN Deps[t] |->
        Block("dep", Deps[t][i], 1, Deps[t][i] \in Known(b))]

LEMMA DependentsCarry ==
    ASSUME NEW b, IsBoard(b), NEW t \in Known(b)
    PROVE  Carries(NeededRows(b, t), Stops("neededby", DependentsOf(b, t)))
<1> DEFINE ids == DependentsOf(b, t)
           s == NeededRows(b, t)
<1>1. t \in Tasks
  BY DEF IsBoard
<1>2. ids \in Seq(Nat) /\ Stops("neededby", ids) \in Seq(StopType)
  <2>1. ids \in Seq(Tasks) /\ Stops("neededby", ids) \in Seq(StopType)
    BY <1>1, StopKindsTyped
  <2>2. Tasks \subseteq Nat
    BY BoardAssumption
  <2> HIDE DEF ids
  <2> QED
    BY <2>1, <2>2, SeqMonotonic
<1>3. s = [i \in DOMAIN ids |-> Block("neededby", ids[i], 1, TRUE)]
  BY DEF NeededRows
<1> HIDE DEF ids, s
<1>4. DOMAIN ids = 1 .. Len(ids) /\ Len(ids) \in Nat
  BY <1>2
<1>5. ASSUME NEW i \in DOMAIN ids
      PROVE  /\ s[i] \in Blocks /\ s[i].isStop
             /\ s[i].what = "neededby" /\ s[i].id = ids[i]
  <2>1. ids[i] \in Nat
    BY <1>2
  <2>2. s[i] = Block("neededby", ids[i], 1, TRUE)
    BY <1>3
  <2> QED
    BY <2>1, <2>2 DEF Block, Blocks, StopKinds
<1>6. s \in Seq(Blocks) /\ Len(s) = Len(ids) /\ DOMAIN s = DOMAIN ids
  <2>1. s = [i \in 1 .. Len(ids) |-> s[i]]
    BY <1>3, <1>4
  <2>2. \A i \in 1 .. Len(ids) : s[i] \in Blocks
    BY <1>4, <1>5
  <2> QED
    BY <1>4, <2>1, <2>2
<1> QED
  BY <1>2, <1>5, <1>6, RowsCarry DEF ids, s

\* The rows of the dependencies: the stops are those that came in.
LEMMA DepsCarry ==
    ASSUME NEW b, IsBoard(b), NEW t \in Known(b)
    PROVE  Carries(DepRows(b, t), Stops("dep", KnownDeps(b, t)))
<1> DEFINE n == Len(Deps[t])
           S == {i \in DOMAIN Deps[t] : Deps[t][i] \in Known(b)}
           at == ById(S)
           s == DepRows(b, t)
           r == Stops("dep", KnownDeps(b, t))
           Below(x) == {y \in S : y < x}
<1>1. t \in Tasks /\ Deps[t] \in Seq(Nat \ {0})
  BY BoardAssumption DEF IsBoard
<1>2. DOMAIN Deps[t] = 1 .. n /\ n \in Nat
  BY <1>1
<1>3. /\ DOMAIN s = 1 .. n /\ Len(s) = n /\ s \in Seq(Blocks)
      /\ \A i \in 1 .. n : /\ s[i].isStop = (i \in S) /\ s[i].what = "dep"
                           /\ s[i].id = Deps[t][i]
  <2>1. s = [i \in 1 .. n |-> Block("dep", Deps[t][i], 1,
                                   Deps[t][i] \in Known(b))]
    BY <1>2 DEF DepRows
  <2>2. ASSUME NEW i \in 1 .. n
        PROVE  /\ s[i] \in Blocks /\ s[i].isStop = (i \in S)
               /\ s[i].what = "dep" /\ s[i].id = Deps[t][i]
    <3> DEFINE c == Deps[t][i] \in Known(b)
    <3>1. c \in BOOLEAN /\ Deps[t][i] \in Nat /\ c = (i \in S)
      BY <1>1, <1>2
    <3>2. s[i] = Block("dep", Deps[t][i], 1, c)
      BY <2>1
    <3> HIDE DEF c, s, S
    <3> QED
      BY <3>1, <3>2 DEF Block, Blocks, StopKinds
  <2>3. s = [i \in 1 .. n |-> s[i]]
    BY <2>1
  <2> HIDE DEF s, S
  <2>4. s \in [1 .. n -> Blocks]
    BY <2>2, <2>3
  <2>5. s \in Seq(Blocks) /\ Len(s) = n /\ DOMAIN s = 1 .. n
    BY <1>2, <2>4
  <2> QED
    BY <2>2, <2>5
<1>4. S \in SUBSET Nat /\ IsFiniteSet(S) /\ S \subseteq 1 .. n
  <2>1. \A m \in Nat : IsFiniteSet(1 .. m)
    BY FS_Interval
  <2>2. S \subseteq 1 .. n /\ IsFiniteSet(1 .. n)
    BY <1>2, <2>1
  <2>3. S \in SUBSET Nat
    BY <1>2
  <2> HIDE DEF S
  <2> QED
    BY <2>2, <2>3, FS_Subset
<1>5. DOMAIN at = 1 .. Cardinality(S) /\ Len(at) = Cardinality(S)
      /\ Cardinality(S) \in Nat
  <2>1. Cardinality(S) \in Nat
    <3> HIDE DEF S
    <3> QED
      BY <1>4, FS_CardinalityType
  <2>2. DOMAIN at = 1 .. Cardinality(S)
    BY DEF ById, Sorted
  <2>3. Enumerates(at, S)
    <3> HIDE DEF S
    <3> QED
      BY <1>4, ByIdEnumerates
  <2>4. at \in Seq(S)
    BY <2>3 DEF Enumerates
  <2> HIDE DEF at, S
  <2>5. DOMAIN at = 1 .. Len(at) /\ Len(at) \in Nat
    BY <2>4
  <2> QED
    BY <2>1, <2>2, <2>5
<1>6. ASSUME NEW i \in 1 .. Cardinality(S)
      PROVE  at[i] = CHOOSE x \in S : Cardinality(Below(x)) = i - 1
  BY DEF ById, Sorted
<1>7. ASSUME NEW x \in S
      PROVE  /\ IsFiniteSet(Below(x)) /\ Cardinality(Below(x)) \in Nat
             /\ Cardinality(Below(x) \cup {x}) = Cardinality(Below(x)) + 1
  <2>1. IsFiniteSet(Below(x)) /\ x \notin Below(x)
    <3>1. Below(x) \subseteq S
      OBVIOUS
    <3>2. x \notin Below(x)
      BY <1>4
    <3> HIDE DEF S
    <3> QED
      BY <1>4, <3>1, <3>2, FS_Subset
  <2> DEFINE A == Below(x)
  <2> HIDE DEF A, S
  <2>2. IsFiniteSet(A) /\ x \notin A
    BY <2>1 DEF A
  <2>3. Cardinality(A) \in Nat /\ Cardinality(A \cup {x}) = Cardinality(A) + 1
    BY <2>2, FS_CardinalityType, FS_AddElement
  <2> QED
    BY <2>1, <2>3 DEF A
<1>8. ASSUME NEW x \in S, NEW y \in S, x < y
      PROVE  Cardinality(Below(x)) < Cardinality(Below(y))
  <2>1. Below(x) \cup {x} \subseteq Below(y)
    BY <1>4, <1>8
  <2> DEFINE A == Below(x) \cup {x}
             B == Below(y)
  <2>2. IsFiniteSet(B) /\ Cardinality(B) \in Nat
    BY <1>7
  <2>3. A \in SUBSET B
    BY <2>1
  <2>4. Cardinality(A) = Cardinality(Below(x)) + 1
        /\ Cardinality(Below(x)) \in Nat
    BY <1>7
  <2> HIDE DEF A, B, S
  <2>5. Cardinality(A) <= Cardinality(B)
    BY <2>2, <2>3, FS_Subset
  <2>6. Cardinality(Below(x)) < Cardinality(B)
    BY <2>2, <2>4, <2>5
  <2> QED
    BY <2>6 DEF B
<1>9. ASSUME NEW x \in S
      PROVE  Rank(s, x) = Cardinality(Below(x)) + 1
  <2>1. {k \in 1 .. x : s[k].isStop} = Below(x) \cup {x}
    <3>1. x \in 1 .. n /\ x \in Nat
      BY <1>2, <1>4
    <3>2. \A k \in 1 .. x : s[k].isStop <=> k \in S
      <4>1. \A k \in 1 .. x : k \in 1 .. n
        BY <1>2, <3>1
      <4> HIDE DEF S, s
      <4> QED
        BY <1>3, <4>1
    <3>3. \A k \in S : k \in Nat /\ k >= 1
      BY <1>2, <1>4
    <3> HIDE DEF S, s
    <3>4. \A k \in S : k \in 1 .. x <=> k < x \/ k = x
      BY <3>1, <3>3
    <3>5. x \in 1 .. x
      BY <3>1
    <3> QED
      BY <3>2, <3>4, <3>5
  <2> QED
    BY <1>7, <2>1 DEF Rank
<1>10. Rank(s, n) = Cardinality(S)
  <2>1. {k \in 1 .. n : s[k].isStop} = S
    BY <1>3, <1>4
  <2> QED
    BY <2>1 DEF Rank
<1>11. ASSUME NEW x \in S
       PROVE  /\ Rank(s, x) \in 1 .. Cardinality(S)
              /\ at[Rank(s, x)] = x
  <2>1. Below(x) \cup {x} \in SUBSET S
    OBVIOUS
  <2> DEFINE i == Cardinality(Below(x)) + 1
  <2>2. i <= Cardinality(S)
    <3>1. Cardinality(Below(x) \cup {x}) = i
      BY <1>7
    <3> DEFINE A == Below(x) \cup {x}
    <3> HIDE DEF A, S, i
    <3>2. A \in SUBSET S /\ Cardinality(A) = i
      BY <2>1, <3>1 DEF A
    <3> QED
      BY <1>4, <3>2, FS_Subset
  <2>3. Cardinality(Below(x)) \in Nat
    BY <1>7
  <2>4. i \in 1 .. Cardinality(S) /\ i - 1 = Cardinality(Below(x))
    <3> DEFINE c == Cardinality(Below(x))
    <3> HIDE DEF c, S
    <3>1. c \in Nat /\ i = c + 1
      BY <2>3 DEF c
    <3> HIDE DEF i
    <3> QED
      BY <1>5, <2>2, <3>1 DEF c
  <2>5. at[i] = CHOOSE y \in S : Cardinality(Below(y)) = i - 1
    BY <1>6, <2>4
  <2>6. at[i] \in S /\ Cardinality(Below(at[i])) = i - 1
    <3>1. \E y \in S : Cardinality(Below(y)) = i - 1
      BY <2>4
    <3> HIDE DEF S, i, at
    <3> QED
      BY <2>5, <3>1
  <2>7. at[i] = x
    <3> DEFINE y == at[i]
    <3>1. y \in S /\ Cardinality(Below(y)) = Cardinality(Below(x))
      BY <2>4, <2>6
    <3> HIDE DEF y, i, at
    <3>2. ~ (x < y) /\ ~ (y < x)
      <4>1. Cardinality(Below(y)) \in Nat /\ Cardinality(Below(x)) \in Nat
        BY <1>7, <3>1
      <4>2. x < y => Cardinality(Below(x)) < Cardinality(Below(y))
        BY <1>8, <3>1
      <4>3. y < x => Cardinality(Below(y)) < Cardinality(Below(x))
        BY <1>8, <3>1
      <4> HIDE DEF S
      <4> QED
        BY <3>1, <4>1, <4>2, <4>3
    <3>3. x \in Nat /\ y \in Nat
      BY <1>4, <3>1
    <3>4. x = y
      BY <3>2, <3>3
    <3> QED
      BY <3>4 DEF y
  <2>8. Rank(s, x) = i
    BY <1>9
  <2> HIDE DEF i
  <2> QED
    BY <2>4, <2>7, <2>8
<1>12. /\ r \in Seq(StopType) /\ DOMAIN r = 1 .. Cardinality(S)
       /\ Len(r) = Cardinality(S)
       /\ \A i \in 1 .. Cardinality(S) : r[i] = Stop("dep", Deps[t][at[i]])
  <2>1. r \in Seq(StopType)
    BY <1>1, StopKindsTyped
  <2>2. KnownDeps(b, t) = [i \in DOMAIN at |-> Deps[t][at[i]]]
    BY DEF KnownDeps
  <2>3. r = [i \in DOMAIN KnownDeps(b, t) |-> Stop("dep", KnownDeps(b, t)[i])]
    BY DEF Stops
  <2> HIDE DEF r, at, S
  <2>4. DOMAIN r = 1 .. Cardinality(S)
    BY <1>5, <2>2, <2>3
  <2>5. Len(r) = Cardinality(S)
    BY <1>5, <2>1, <2>4
  <2>6. \A i \in 1 .. Cardinality(S) : r[i] = Stop("dep", Deps[t][at[i]])
    BY <1>5, <2>2, <2>3
  <2> QED
    BY <2>1, <2>4, <2>5, <2>6
<1> HIDE DEF s, r, at, S
<1>13. ASSUME NEW j \in DOMAIN s, s[j].isStop
       PROVE  /\ Rank(s, j) \in DOMAIN r
              /\ r[Rank(s, j)] = Stop(s[j].what, s[j].id)
  <2>1. j \in S
    BY <1>3, <1>13
  <2>2. Rank(s, j) \in 1 .. Cardinality(S) /\ at[Rank(s, j)] = j
    BY <1>11, <2>1
  <2>3. s[j].what = "dep" /\ s[j].id = Deps[t][j]
    BY <1>3
  <2> QED
    BY <1>12, <2>2, <2>3
<1>14. Carries(s, r)
  BY <1>3, <1>10, <1>12, <1>13 DEF Carries
<1> QED
  BY <1>14 DEF s, r

\* What comes below the edges.
FootBlocks(t) ==
    <<Chrome("blank", 1), Chrome("DESCRIPTION", 1),
      Block("description", t, 2, TRUE),
      Chrome("blank", 1), Chrome("HISTORY", 1), Chrome("history", 3)>>

LEMMA FootCarries ==
    ASSUME NEW t \in Tasks
    PROVE  Carries(FootBlocks(t), <<Stop("description", t)>>)
<1> DEFINE b1 == Chrome("blank", 1)
           b2 == Chrome("DESCRIPTION", 1)
           b3 == Block("description", t, 2, TRUE)
           b5 == Chrome("HISTORY", 1)
           b6 == Chrome("history", 3)
           r  == <<Stop("description", t)>>
           h  == <<b1, b2, b3, b1, b5, b6>>
<1>1. FootBlocks(t) = h
  BY DEF FootBlocks
<1>2. /\ "blank" \in ChromeKinds /\ "DESCRIPTION" \in ChromeKinds
      /\ "HISTORY" \in ChromeKinds /\ "history" \in ChromeKinds
  BY DEF ChromeKinds
<1>3. /\ b1 \in Blocks /\ Carries(<<b1>>, <<>>)
      /\ b2 \in Blocks /\ Carries(<<b2>>, <<>>)
      /\ b5 \in Blocks /\ Carries(<<b5>>, <<>>)
  BY <1>2, ChromeLine, Zenon
<1>4. b6 \in Blocks /\ Carries(<<b6>>, <<>>)
  <2>1. 3 \in Nat \ {0}
    OBVIOUS
  <2> QED
    BY <1>2, <2>1, ChromeCarries, Zenon
<1>5. b3 \in Blocks /\ Carries(<<b3>>, r)
  <2>1. 2 \in Nat \ {0}
    OBVIOUS
  <2>2. "description" \in {"title", "priority", "labels", "description"}
    OBVIOUS
  <2> QED
    BY <2>1, <2>2, AlwaysCarries, Zenon
<1> HIDE DEF b1, b2, b3, b5, b6, r
<1>6. r \in Seq(StopType) /\ <<>> \in Seq(StopType)
  BY <1>5 DEF Carries
<1>7. Carries(<<b1, b2, b3>>, r)
  <2>1. Carries(<<b1, b2, b3>>, <<>> \o (<<>> \o r))
    BY <1>3, <1>5, CarriesThree
  <2>2. <<>> \o r = r
    BY <1>6, ConcatEmptySeq
  <2> QED
    BY <2>1, <2>2
<1>8. Carries(<<b1, b5, b6>>, <<>>)
  <2>1. Carries(<<b1, b5, b6>>, <<>> \o (<<>> \o <<>>))
    BY <1>3, <1>4, CarriesThree
  <2>2. <<>> \o <<>> = <<>>
    BY <1>6, ConcatEmptySeq
  <2> QED
    BY <2>1, <2>2
<1>9. h = <<b1, b2, b3>> \o <<b1, b5, b6>>
  <2>1. /\ b1 \in Blocks /\ b2 \in Blocks /\ b3 \in Blocks
        /\ b5 \in Blocks /\ b6 \in Blocks
    BY <1>3, <1>4, <1>5
  <2>2. /\ h \in Seq(Blocks) /\ Len(h) = 6 /\ h[1] = b1 /\ h[2] = b2
        /\ h[3] = b3 /\ h[4] = b1 /\ h[5] = b5 /\ h[6] = b6
    BY <2>1
  <2> HIDE DEF h
  <2>3. h = <<h[1], h[2], h[3]>> \o <<h[4], h[5], h[6]>>
    BY <2>2, SixBlocks
  <2> QED
    BY <2>2, <2>3
<1>10. Carries(h, r)
  <2>1. Carries(<<b1, b2, b3>> \o <<b1, b5, b6>>, r \o <<>>)
    BY <1>7, <1>8, CarriesConcat
  <2>2. r \o <<>> = r
    BY <1>6, ConcatEmptySeq
  <2> HIDE DEF h
  <2> QED
    BY <1>9, <2>1, <2>2
<1> HIDE DEF h
<1> QED
  BY <1>1, <1>10 DEF r

LEMMA ViewCarries ==
    ASSUME NEW b, IsBoard(b), NEW t \in Known(b), NEW expanded
    PROVE  Carries(DetailBlocks(b, t, expanded), DetailStops(TRUE, b, t))
<1> DEFINE r0 == <<Stop("title", t)>>
           r1 == If(Steerable(TaskRow(b, t, "")), Stop("priority", t))
           r2 == If(~ Terminal(b.tasks[t].status), Stop("labels", t))
           r3 == Stops("escalation", DetailEscalations(b, t))
           r4 == Stops("dep", KnownDeps(b, t))
           r5 == Stops("neededby", DependentsOf(b, t))
           r6 == <<Stop("description", t)>>
           H == HeaderBlocks(b, t)
           E == EscalationBlocks(b, t, expanded)
           D == Section("DEPENDS ON", DepRows(b, t))
           N == Section("NEEDED BY", NeededRows(b, t))
           F == FootBlocks(t)
<1>1. t \in Tasks
  BY DEF IsBoard
<1>2. DetailStops(TRUE, b, t) = r0 \o r1 \o r2 \o r3 \o r4 \o r5 \o r6
  BY DEF DetailStops
<1>3. DetailBlocks(b, t, expanded) = ((H \o E) \o (D \o N)) \o F
  BY DEF DetailBlocks, EdgeBlocks, DepRows, NeededRows, FootBlocks
<1>4. Carries(H, (r0 \o r1) \o r2)
  BY HeaderCarries
<1>5. Carries(E, r3)
  BY QuestionsCarry
<1>6. Carries(D, r4) /\ Carries(N, r5)
  <2>1. "DEPENDS ON" \in ChromeKinds /\ "NEEDED BY" \in ChromeKinds
    BY DEF ChromeKinds
  <2>2. Carries(DepRows(b, t), r4) /\ Carries(NeededRows(b, t), r5)
    BY DepsCarry, DependentsCarry
  <2> HIDE DEF r4, r5
  <2> QED
    BY <2>1, <2>2, SectionCarries
<1>7. Carries(F, r6)
  BY <1>1, FootCarries
<1> HIDE DEF r0, r1, r2, r3, r4, r5, r6, H, E, D, N, F
<1> DEFINE q == (r0 \o r1) \o r2
<1>8. /\ q \in Seq(StopType) /\ r3 \in Seq(StopType) /\ r4 \in Seq(StopType)
      /\ r5 \in Seq(StopType)
  BY <1>4, <1>5, <1>6 DEF Carries
<1>9. Carries(H, q)
  BY <1>4
<1> HIDE DEF q
<1>10. Carries((H \o E) \o (D \o N), (q \o r3) \o (r4 \o r5))
  <2>1. Carries(H \o E, q \o r3) /\ Carries(D \o N, r4 \o r5)
    BY <1>5, <1>6, <1>9, CarriesConcat
  <2> QED
    BY <2>1, CarriesConcat
<1>11. (q \o r3) \o (r4 \o r5) = ((q \o r3) \o r4) \o r5
  <2>1. q \o r3 \in Seq(StopType)
    BY <1>8, ConcatProperties
  <2> QED
    BY <1>8, <2>1, ConcatAssociative, SMTT(60)
<1>12. Carries(((H \o E) \o (D \o N)) \o F, (((q \o r3) \o r4) \o r5) \o r6)
  BY <1>7, <1>10, <1>11, CarriesConcat
<1> QED
  BY <1>2, <1>3, <1>12 DEF q

\* The tags of one block's lines, and of all blocks in order.
TagsOf(s, i) ==
    [n \in 1 .. s[i].lines |-> IF s[i].isStop THEN Rank(s, i) ELSE 0]
TagRows(s) == [i \in DOMAIN s |-> TagsOf(s, i)]

LEMMA TagRowsTyped ==
    ASSUME NEW s \in Seq(Blocks)
    PROVE  TagRows(s) \in Seq(Seq(Nat))
<1>1. Len(s) \in Nat /\ DOMAIN s = 1 .. Len(s)
  OBVIOUS
<1>2. ASSUME NEW i \in DOMAIN s
      PROVE  TagsOf(s, i) \in Seq(Nat)
  <2>1. s[i] \in Blocks
    OBVIOUS
  <2>2. s[i].lines \in Nat
    BY <2>1 DEF Blocks
  <2>3. Rank(s, i) \in Nat
    BY <1>1, RankType
  <2> DEFINE m == s[i].lines
             v == IF s[i].isStop THEN Rank(s, i) ELSE 0
  <2>4. v \in Nat
    BY <2>3
  <2>5. TagsOf(s, i) = [n \in 1 .. m |-> v]
    BY DEF TagsOf
  <2> HIDE DEF m, v
  <2>6. m \in Nat
    BY <2>2 DEF m
  <2>7. [n \in 1 .. m |-> v] \in [1 .. m -> Nat]
    BY <2>4
  <2> QED
    BY <2>5, <2>6, <2>7
<1>3. TagRows(s) \in [1 .. Len(s) -> Seq(Nat)]
  BY <1>1, <1>2 DEF TagRows
<1> QED
  BY <1>1, <1>3

HasTag(tags, f) == \E i \in DOMAIN tags : tags[i] = f

\* Every stop of the view has its line.
LEMMA StopHasLine ==
    ASSUME NEW b, IsBoard(b), NEW t \in Known(b), NEW expanded,
           NEW armed, armed = TRUE, NEW f \in DOMAIN DetailStops(armed, b, t)
    PROVE  /\ DetailLines(armed, b, t, expanded) \in Seq(Nat)
           /\ HasTag(DetailLines(armed, b, t, expanded), f)
<1> DEFINE s == DetailBlocks(b, t, expanded)
           r == DetailStops(armed, b, t)
           tags == DetailLines(armed, b, t, expanded)
<1>1. Carries(s, r)
  BY ViewCarries
<1>2. s \in Seq(Blocks)
  BY <1>1 DEF Carries
<1>3. tags = FlattenSeq(TagRows(s))
  BY DEF DetailLines, TagRows, TagsOf, Rank
<1>4. f \in DOMAIN r
  OBVIOUS
<1> HIDE DEF s, r, tags
<1>5. PICK j \in DOMAIN s : s[j].isStop /\ Rank(s, j) = f
  BY <1>1, <1>4, StopHasBlock
<1>6. TagRows(s) \in Seq(Seq(Nat))
  BY <1>2, TagRowsTyped
<1>7. /\ FlattenSeq(TagRows(s)) \in Seq(Nat)
      /\ \A k \in DOMAIN TagRows(s) :
            Within(TagRows(s)[k], FlattenSeq(TagRows(s)))
  BY <1>6, FlattenHolds
<1>8. DOMAIN TagRows(s) = DOMAIN s /\ TagRows(s)[j] = TagsOf(s, j)
  BY DEF TagRows
<1>9. 1 \in DOMAIN TagsOf(s, j) /\ TagsOf(s, j)[1] = f
  <2>1. s[j] \in Blocks
    BY <1>2
  <2>2. s[j].lines \in Nat \ {0}
    BY <2>1 DEF Blocks
  <2> QED
    BY <1>5, <2>2 DEF TagsOf
<1>10. Within(TagsOf(s, j), tags)
  BY <1>3, <1>7, <1>8
<1>11. HasTag(tags, f)
  BY <1>9, <1>10 DEF Within, HasTag
<1> QED
  BY <1>3, <1>7, <1>11 DEF tags

\* The second half of SelectionIsOnScreen, for a window of any height.
LEMMA StopIsOnScreen ==
    ASSUME Inv, Ring # <<>>, NEW window \in Nat \ {0}
    PROVE  LET tags == DetailLines(Armed, Snap, pane.detail, pane.expanded)
           IN  \A scroll \in 0 .. Len(tags) :
                  LET above ==
                          DrawnScroll(tags,
                              RevealScroll(tags, Focused, scroll, window),
                              window)
                  IN  StopAt(tags, above, window,
                             FocusLine(tags, Focused) - above) = Focused
<1> DEFINE tags == DetailLines(Armed, Snap, pane.detail, pane.expanded)
<1>1. /\ Ring \in Seq(StopType) /\ Armed /\ pane.detail \in Known(Snap)
      /\ Focused \in Nat \ {0}
  BY FocusedTyped
<1>2. Armed = TRUE
  <2>1. Armed \in BOOLEAN
    BY TopAssumption DEF Inv, Armed
  <2> QED
    BY <1>1, <2>1
<1>3. IsBoard(Snap)
  BY SnapIsBoard
<1>4. Focused \in DOMAIN Ring
  <2>1. Len(Ring) \in Nat \ {0} /\ DOMAIN Ring = 1 .. Len(Ring)
    BY <1>1
  <2>2. pane.focus \in Nat \ {0}
    BY DEF Inv, PaneFits, PaneType
  <2> QED
    BY <2>1, <2>2 DEF Focused, FocusIdx
<1>7. tags \in Seq(Nat) /\ \E i \in DOMAIN tags : tags[i] = Focused
  <2> DEFINE armed == Armed
             b == Snap
             t == pane.detail
             f == Focused
             ex == pane.expanded
  <2>1. /\ IsBoard(b) /\ t \in Known(b) /\ armed = TRUE
        /\ f \in DOMAIN DetailStops(armed, b, t)
    BY <1>1, <1>2, <1>3, <1>4 DEF Ring
  <2> HIDE DEF f, b, t, ex, armed
  <2>2. DetailLines(armed, b, t, ex) \in Seq(Nat)
    BY <2>1, StopHasLine
  <2>3. HasTag(DetailLines(armed, b, t, ex), f)
    BY <2>1, StopHasLine
  <2> QED
    BY <2>2, <2>3 DEF f, b, t, ex, armed, HasTag
<1> HIDE DEF tags
<1>8. ASSUME NEW scroll \in 0 .. Len(tags)
      PROVE  LET above == DrawnScroll(tags,
                     RevealScroll(tags, Focused, scroll, window), window)
             IN  StopAt(tags, above, window, FocusLine(tags, Focused) - above)
                    = Focused
  BY <1>1, <1>7, RevealedStopIsFound
<1> QED
  BY <1>8 DEF tags

\* The row under the cursor, or the focused stop, at the two heights the runs
\* look at.
LEMMA InvSelects == Inv => SelectionIsOnScreen
<1> SUFFICES ASSUME Inv, NEW height \in Heights
             PROVE  SelectionIsOnScreen!(height)
  BY DEF SelectionIsOnScreen
<1>1. height - 2 - 2 \in Nat /\ height - 2 - 1 - 1 \in Nat \ {0}
  BY DEF Heights
<1> DEFINE avail == height - 2 - 2
           window == height - 2 - 1 - 1
<1> HIDE DEF avail, window
<1>2. ASSUME pane.rows # <<>>, NEW degraded \in BOOLEAN
      PROVE  LET s == ListChunks(degraded, pane.closed, Snap, pane.rows)
             IN  Shows(s, pane.cursor, avail, Visible(s, pane.cursor, avail))
  BY <1>1, <1>2, RowIsOnScreen DEF avail
<1>3. ASSUME Ring # <<>>
      PROVE  LET tags == DetailLines(Armed, Snap, pane.detail, pane.expanded)
             IN  \A scroll \in 0 .. Len(tags) :
                    LET above ==
                            DrawnScroll(tags,
                                RevealScroll(tags, Focused, scroll, window),
                                window)
                    IN  StopAt(tags, above, window,
                               FocusLine(tags, Focused) - above) = Focused
  BY <1>1, <1>3, StopIsOnScreen DEF window
<1> QED
  BY <1>2, <1>3 DEF Shows, avail, window

\* What the next key acts on is on the screen, and a click finds it there:
\* whatever was on the board when it was last drawn, however many lines its
\* rows and the questions of a view take.
THEOREM SelectionHolds == Spec => []SelectionIsOnScreen
  BY InvHolds, InvSelects, PTL

\* The first half of what ScreenIsHonest says, for every board: the lines of a
\* view carry the stops of its focus ring, each in its place ("the counter
\* walks detailStops' construction order exactly").
THEOREM ViewsCarryTheirRing ==
    Spec => [](Armed /\ pane.detail \in Known(Snap) =>
                  Carries(DetailBlocks(Snap, pane.detail, pane.expanded),
                          Ring))
<1>1. ASSUME Inv, Armed, pane.detail \in Known(Snap)
      PROVE  Carries(DetailBlocks(Snap, pane.detail, pane.expanded), Ring)
  <2>1. Armed = TRUE
    <3>1. Armed \in BOOLEAN
      BY <1>1, TopAssumption DEF Inv, Armed
    <3> QED
      BY <1>1, <3>1
  <2>2. IsBoard(Snap)
    BY <1>1, SnapIsBoard
  <2>3. Ring = DetailStops(TRUE, Snap, pane.detail)
    BY <2>1 DEF Ring
  <2> QED
    BY <1>1, <2>2, <2>3, ViewCarries
<1> QED
  <2>1. Inv => (Armed /\ pane.detail \in Known(Snap) =>
                  Carries(DetailBlocks(Snap, pane.detail, pane.expanded),
                          Ring))
    BY <1>1
  <2> QED
    BY <2>1, InvHolds, PTL

\* A write is about what was picked: the row under the cursor or the task in
\* view when its key was pressed, whatever came in since.
THEOREM WritesHitTheirTarget == Spec => WritesWhatWasPicked
<1> DEFINE A ==
        /\ Len(writes') > Len(writes) =>
              LET w == Last(writes')
              IN  \/ /\ pane.mode \in InputModes
                     /\ w.op = pane.mode
                     /\ w.id = IF w.op = "answer" THEN pane.target.esc
                               ELSE pane.target.task
                  \/ w.op = "status" /\ \E r \in Aimed : w.id = r.task
        /\ pane'.mode \in InputModes /\ pane.mode = pane'.mode =>
              pane'.target = pane.target
        /\ pane'.version # pane.version =>
              \A r \in Selected, q \in ToSet(pane'.rows) :
                  RowId(q) = RowId(r) =>
                      RowId(pane'.rows[pane'.cursor]) = RowId(r)
        /\ TrimSpace(pane.was) = pane.was /\ Submit(pane.was) =>
              UNCHANGED writes
        /\ ~ Armed => writes' = <<>> /\ pane'.mode \in {"nav", "detail"}
<1>1. Inv /\ [Next]_vars => [A]_vars
  <2> SUFFICES ASSUME Inv, [Next]_vars
               PROVE  A
    OBVIOUS
  <2>1. Inv' /\ Aims
    BY NextKeeps, StutterKeeps
  <2>2. ~ Armed => writes' = <<>> /\ pane'.mode \in {"nav", "detail"}
    BY <2>1, WorldStays DEF Inv, Armed
  <2>3. TrimSpace(pane.was) = pane.was /\ Submit(pane.was) =>
           UNCHANGED writes
    BY UnchangedSubmit
  <2> QED
    BY <2>1, <2>2, <2>3 DEF Aims
<1> QED
  BY <1>1, InvHolds, PTL DEF Spec, WritesWhatWasPicked
=============================================================================
