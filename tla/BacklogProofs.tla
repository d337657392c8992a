--------------------------- MODULE BacklogProofs ---------------------------
(***************************************************************************)
(* What holds of a backlog that several machines edit: proofs about        *)
(* Backlog.                                                                *)
(*                                                                         *)
(* The first part is about the searches: the recursions of Backlog define  *)
(* functions, and these find what there is to find.  A walk is bounded by  *)
(* its rank, so that every fact is proved by the least counterexample.     *)
(*                                                                         *)
(* HeadFits and HeadsAgree hold however the machines' clocks stand: every  *)
(* head is a set of events the catalogue lets through, and an id names     *)
(* the same event on all of them.  HeadsSound adds what clocks that agree  *)
(* give: a new id is later than every id on any head, so that what an      *)
(* event refers to is read before it.                                      *)
(*                                                                         *)
(* Knowing is what the checks of the operations add to that: among the     *)
(* edges that its writer knew of, none of an event's edges closes a loop.  *)
(* Of the events that set the edges of a loop, no one can know all others. *)
(***************************************************************************)
EXTENDS Backlog, FoldProofs, FiniteSetTheorems

\* Head h of a deployment whose ids go up to last.
HeadFits(h, last) ==
    /\ h = [events |-> h.events, leases |-> h.leases, seen |-> h.seen]
    /\ h.seen = {e.id : e \in h.events}
    /\ h.seen \subseteq 1 .. last
    /\ h.leases \in [Ids -> Lease]
    /\ \A e \in h.events : IsEvent(e) /\ e.type # "claim.confirmed"

HeadsAgree(K) ==
    \A g, h \in K : \A e \in g.events, f \in h.events : e.id = f.id => e = f

\* Heads that replay: sound ledgers up to instant n that agree on how a task
\* was created.
HeadsSound(K, n) ==
    /\ \A h \in K : Sound(h.events) /\ \A e \in h.events : e.id <= n
    /\ \A g, h \in K : \A e \in g.events, f \in h.events :
          /\ e.type = "task.created" /\ f.type = "task.created"
          /\ e.task = f.task
          => e = f

-----------------------------------------------------------------------------
(***************************************************************************)
(* Searches.  A search ends because every call it makes either goes        *)
(* through fewer tasks or has seen more of them: its rank is less.         *)
(***************************************************************************)
Rank(S, todo, seen) ==
    Cardinality(S \ seen) * (Cardinality(S) + 1) + Cardinality(todo)

LEMMA RankFacts ==
    ASSUME NEW S, IsFiniteSet(S), NEW d \in SUBSET S, NEW v \in SUBSET S
    PROVE  /\ Rank(S, d, v) \in Nat
           /\ Rank(S, d, v) < (Cardinality(S) + 1) * (Cardinality(S) + 1)
           /\ \A x \in d : Rank(S, d \ {x}, v) < Rank(S, d, v)
           /\ \A e, w \in SUBSET S : \A x \in S \ w :
                 v \subseteq w => Rank(S, e, w \cup {x}) < Rank(S, d, v)
<1> DEFINE n == Cardinality(S)
<1>1. \A a \in SUBSET S : /\ IsFiniteSet(a) /\ Cardinality(a) \in Nat
                          /\ Cardinality(a) <= n
  BY FS_Subset, FS_CardinalityType
<1>2. n \in Nat /\ Cardinality(d) \in Nat /\ Cardinality(d) <= n
  BY <1>1
<1>3. Cardinality(S \ v) \in Nat /\ Cardinality(S \ v) <= n
  BY <1>1
<1>4. ASSUME NEW i \in Nat, NEW j \in Nat, NEW k \in Nat, i <= j
      PROVE  i * k \in Nat /\ i * k <= j * k
  <2>1. PICK l \in Nat : j = i + l
    <3>1. j - i \in Nat /\ j = i + (j - i)
      BY <1>4
    <3> QED  BY <3>1
  <2>2. j * k = i * k + l * k
    BY <2>1
  <2>3. i * k \in Nat /\ l * k \in Nat
    BY <2>1
  <2> QED  BY <2>2, <2>3
<1>5. Rank(S, d, v) \in Nat
  BY <1>2, <1>3 DEF Rank
<1>6. Rank(S, d, v) < (n + 1) * (n + 1)
  <2>1. Cardinality(S \ v) * (n + 1) <= n * (n + 1)
    BY <1>2, <1>3, <1>4
  <2>2. (n + 1) * (n + 1) = n * (n + 1) + (n + 1)
    BY <1>2
  <2>3. n * (n + 1) \in Nat /\ Cardinality(S \ v) * (n + 1) \in Nat
    BY <1>2, <1>3
  <2> HIDE DEF n
  <2>4. Rank(S, d, v) = Cardinality(S \ v) * (n + 1) + Cardinality(d)
    BY DEF Rank, n
  <2> QED  BY <1>2, <1>3, <2>1, <2>2, <2>3, <2>4
<1>7. ASSUME NEW x \in d
      PROVE  Rank(S, d \ {x}, v) < Rank(S, d, v)
  <2>1. Cardinality(d \ {x}) = Cardinality(d) - 1
    BY <1>1, FS_RemoveElement
  <2>2. Cardinality(S \ v) * (n + 1) \in Nat
    BY <1>2, <1>3
  <2> QED  BY <1>2, <2>1, <2>2 DEF Rank
<1>8. ASSUME NEW e \in SUBSET S, NEW w \in SUBSET S, NEW x \in S \ w,
             v \subseteq w
      PROVE  Rank(S, e, w \cup {x}) < Rank(S, d, v)
  <2> DEFINE k == Cardinality(S \ (w \cup {x}))
             l == Cardinality(S \ v)
  <2>1. k + 1 <= l
    <3>1. S \ (w \cup {x}) = (S \ w) \ {x} /\ S \ w \subseteq S \ v
      BY <1>8
    <3>2. k = Cardinality(S \ w) - 1
      BY <1>1, <3>1, FS_RemoveElement, SMTT(60)
    <3>3. Cardinality(S \ w) <= l
      BY <1>1, <3>1, FS_Subset
    <3> QED  BY <1>1, <3>2, <3>3
  <2>2. k \in Nat /\ l \in Nat /\ Cardinality(e) \in Nat
        /\ Cardinality(e) <= n
    BY <1>1
  <2>3. /\ Rank(S, e, w \cup {x}) = k * (n + 1) + Cardinality(e)
        /\ Rank(S, d, v) = l * (n + 1) + Cardinality(d)
    BY DEF Rank
  <2> HIDE DEF k, l, n
  <2>4. (k + 1) * (n + 1) <= l * (n + 1) /\ l * (n + 1) \in Nat
    BY <1>2, <1>4, <2>1, <2>2
  <2>5. (k + 1) * (n + 1) = k * (n + 1) + (n + 1) /\ k * (n + 1) \in Nat
    BY <1>2, <2>2
  <2> QED  BY <1>2, <2>2, <2>3, <2>4, <2>5
<1> QED  BY <1>5, <1>6, <1>7, <1>8

\* One more task of a walk that has come to w.
SearchOn(s, passed, target, g, dep, w) ==
    IF w.found \/ dep \in passed THEN w
    ELSE IF dep = target THEN [w EXCEPT !.found = TRUE]
    ELSE IF dep \in w.seen THEN w
    ELSE g[s.tasks[dep].deps][w.seen \cup {dep}]

Pick(deps) == CHOOSE x \in deps : TRUE

SearchAt(s, passed, target, g, deps, seen) ==
    IF deps = {} THEN [found |-> FALSE, seen |-> seen]
    ELSE SearchOn(s, passed, target, g, Pick(deps),
                  g[deps \ {Pick(deps)}][seen])

IsSearch(g, s, passed, target) ==
    g = [deps \in SUBSET Tasks |-> [seen \in SUBSET Tasks |->
            SearchAt(s, passed, target, g, deps, seen)]]

TheSearch(s, passed, target) == CHOOSE g : IsSearch(g, s, passed, target)

LEMMA SearchIsOne ==
    ASSUME NEW s, NEW passed, NEW target, NEW from
    PROVE  Search(s, passed, target, from) =
              TheSearch(s, passed, target)[from][{}].found
BY DEF Search, TheSearch, IsSearch, SearchAt, SearchOn, Pick

\* What a walk comes to: it has seen no less than before.
IsFinding(r, seen) ==
    /\ r = [found |-> r.found, seen |-> r.seen]
    /\ r.found \in BOOLEAN
    /\ r.seen \in SUBSET Tasks
    /\ seen \subseteq r.seen

\* g is the search as far as walks of rank below n go.
SearchBelow(g, s, passed, target, n) ==
    \A deps, seen \in SUBSET Tasks : Rank(Tasks, deps, seen) < n =>
        /\ g[deps][seen] = SearchAt(s, passed, target, g, deps, seen)
        /\ IsFinding(g[deps][seen], seen)

\* One step of a search only makes calls of lesser rank.
LEMMA SearchStep ==
    ASSUME IsFiniteSet(Tasks), NEW s, NEW passed, NEW target,
           \A dep \in Tasks \ (passed \cup {target}) :
              s.tasks[dep].deps \in SUBSET Tasks,
           NEW n \in Nat, NEW g, SearchBelow(g, s, passed, target, n),
           NEW deps \in SUBSET Tasks, NEW seen \in SUBSET Tasks,
           Rank(Tasks, deps, seen) <= n,
           NEW h, \A d, v \in SUBSET Tasks :
                     Rank(Tasks, d, v) < n => h[d][v] = g[d][v]
    PROVE  /\ SearchAt(s, passed, target, h, deps, seen) =
                 SearchAt(s, passed, target, g, deps, seen)
           /\ IsFinding(SearchAt(s, passed, target, g, deps, seen), seen)
<1>1. CASE deps = {}
  BY <1>1 DEF SearchAt, IsFinding
<1>2. CASE deps # {}
  <2> DEFINE dep == Pick(deps)
             w == g[deps \ {dep}][seen]
  <2>1. dep \in deps /\ dep \in Tasks /\ deps \ {dep} \in SUBSET Tasks
    BY <1>2 DEF Pick
  <2>2. /\ Rank(Tasks, deps \ {dep}, seen) < Rank(Tasks, deps, seen)
        /\ Rank(Tasks, deps, seen) \in Nat
        /\ Rank(Tasks, deps \ {dep}, seen) \in Nat
    BY <2>1, RankFacts
  <2>3. Rank(Tasks, deps \ {dep}, seen) < n
    BY <2>2
  <2>4. h[deps \ {dep}][seen] = w /\ IsFinding(w, seen)
    BY <2>1, <2>3 DEF SearchBelow
  <2> HIDE DEF dep, w
  <2>5. /\ SearchAt(s, passed, target, g, deps, seen) =
              SearchOn(s, passed, target, g, dep, w)
        /\ SearchAt(s, passed, target, h, deps, seen) =
              SearchOn(s, passed, target, h, dep, w)
    BY <1>2, <2>4 DEF SearchAt, dep, w
  <2>6. CASE w.found \/ dep \in passed \/ dep = target \/ dep \in w.seen
    <3>1. SearchOn(s, passed, target, g, dep, w) =
             SearchOn(s, passed, target, h, dep, w)
      BY <2>6 DEF SearchOn
    <3>2. \/ SearchOn(s, passed, target, g, dep, w) = w
          \/ SearchOn(s, passed, target, g, dep, w) =
                [w EXCEPT !.found = TRUE]
      BY <2>6 DEF SearchOn
    <3>3. IsFinding([w EXCEPT !.found = TRUE], seen)
      <4>1. PICK f \in BOOLEAN, v \in SUBSET Tasks :
               w = [found |-> f, seen |-> v]
        BY <2>4 DEF IsFinding
      <4>2. v \in SUBSET Tasks /\ seen \subseteq v
        BY <2>4, <4>1 DEF IsFinding
      <4>3. PICK yes \in BOOLEAN : yes = TRUE
        OBVIOUS
      <4>4. [w EXCEPT !.found = yes] = [found |-> yes, seen |-> v]
        BY <4>1
      <4>5. IsFinding([w EXCEPT !.found = yes], seen)
        BY <4>2, <4>4 DEF IsFinding
      <4> QED  BY <4>3, <4>5
    <3> QED  BY <2>4, <2>5, <3>1, <3>2, <3>3
  <2>7. CASE ~ (w.found \/ dep \in passed \/ dep = target \/ dep \in w.seen)
    <3> DEFINE next == s.tasks[dep].deps
               more == w.seen \cup {dep}
    <3>1. next \in SUBSET Tasks /\ more \in SUBSET Tasks
      BY <2>1, <2>4, <2>7 DEF IsFinding
    <3>2. Rank(Tasks, next, more) < Rank(Tasks, deps, seen)
      <4>1. w.seen \in SUBSET Tasks /\ dep \in Tasks \ w.seen
            /\ seen \subseteq w.seen
        BY <2>1, <2>4, <2>7 DEF IsFinding
      <4> HIDE DEF next
      <4> QED  BY <3>1, <4>1, RankFacts
    <3>3. Rank(Tasks, next, more) \in Nat
      BY <3>1, RankFacts
    <3>4. Rank(Tasks, next, more) < n
      BY <2>2, <3>2, <3>3
    <3>5. h[next][more] = g[next][more] /\ IsFinding(g[next][more], more)
      BY <3>1, <3>4 DEF SearchBelow
    <3>6. /\ SearchOn(s, passed, target, g, dep, w) = g[next][more]
          /\ SearchOn(s, passed, target, h, dep, w) = h[next][more]
      BY <2>7, SMTT(60) DEF SearchOn
    <3>7. IsFinding(g[next][more], seen)
      BY <2>4, <3>5 DEF IsFinding
    <3> QED  BY <2>5, <3>5, <3>6, <3>7
  <2> QED  BY <2>6, <2>7
<1> QED  BY <1>1, <1>2

\* The recursion defines the search: there is no least rank that a partial
\* one cannot be extended to.
LEMMA SearchExists ==
    ASSUME IsFiniteSet(Tasks), NEW s, NEW passed, NEW target,
           \A dep \in Tasks \ (passed \cup {target}) :
              s.tasks[dep].deps \in SUBSET Tasks
    PROVE  LET g == TheSearch(s, passed, target)
           IN  \A deps, seen \in SUBSET Tasks :
                  /\ g[deps][seen] =
                        SearchAt(s, passed, target, g, deps, seen)
                  /\ IsFinding(g[deps][seen], seen)
<1> DEFINE Part(n) == \E g : SearchBelow(g, s, passed, target, n)
           Bad == {n \in Nat : ~ Part(n)}
           Extended(g, n) ==
              [deps \in SUBSET Tasks |-> [seen \in SUBSET Tasks |->
                 IF Rank(Tasks, deps, seen) < n THEN g[deps][seen]
                 ELSE SearchAt(s, passed, target, g, deps, seen)]]
<1>1. Bad = {}
  <2> SUFFICES ASSUME Bad # {}
               PROVE  FALSE
    OBVIOUS
  <2>1. PICK k \in Bad : \A j \in Bad : k <= j
    <3>1. Bad \in SUBSET Nat
      OBVIOUS
    <3> HIDE DEF Bad
    <3> QED  BY <3>1, LeastOf
  <2>2. k \in Nat /\ ~ Part(k)
    OBVIOUS
  <2>3. k # 0
    <3>1. \A d, v \in SUBSET Tasks : Rank(Tasks, d, v) \in Nat
      BY RankFacts
    <3>2. \A d, v \in SUBSET Tasks : ~ (Rank(Tasks, d, v) < 0)
      BY <3>1
    <3>3. SearchBelow({}, s, passed, target, 0)
      BY <3>2 DEF SearchBelow
    <3> QED  BY <2>2, <3>3
  <2>4. k - 1 \in Nat /\ Part(k - 1)
    <3>1. k - 1 \in Nat /\ ~ (k <= k - 1)
      BY <2>2, <2>3
    <3>2. k - 1 \notin Bad
      <4> HIDE DEF Bad
      <4> QED  BY <2>1, <3>1
    <3> QED  BY <3>1, <3>2
  <2>5. PICK g : SearchBelow(g, s, passed, target, k - 1)
    BY <2>4
  <2> DEFINE h == Extended(g, k - 1)
  <2>6. \A d, v \in SUBSET Tasks :
           Rank(Tasks, d, v) < k - 1 => h[d][v] = g[d][v]
    OBVIOUS
  <2>7. \A d, v \in SUBSET Tasks :
           ~ (Rank(Tasks, d, v) < k - 1) =>
              h[d][v] = SearchAt(s, passed, target, g, d, v)
    OBVIOUS
  <2> HIDE DEF h
  <2>8. ASSUME NEW d \in SUBSET Tasks, NEW v \in SUBSET Tasks,
               Rank(Tasks, d, v) < k
        PROVE  /\ h[d][v] = SearchAt(s, passed, target, h, d, v)
               /\ IsFinding(h[d][v], v)
    <3>1. Rank(Tasks, d, v) \in Nat
      BY RankFacts
    <3>2. Rank(Tasks, d, v) <= k - 1
      BY <2>2, <2>8, <3>1
    <3>3. /\ SearchAt(s, passed, target, h, d, v) =
                SearchAt(s, passed, target, g, d, v)
          /\ IsFinding(SearchAt(s, passed, target, g, d, v), v)
      BY <2>4, <2>5, <2>6, <3>2, SearchStep
    <3>4. Rank(Tasks, d, v) < k - 1 =>
             g[d][v] = SearchAt(s, passed, target, g, d, v)
      BY <2>5 DEF SearchBelow
    <3> QED  BY <2>6, <2>7, <3>3, <3>4
  <2>9. SearchBelow(h, s, passed, target, k)
    BY <2>8 DEF SearchBelow
  <2> QED  BY <2>2, <2>9
<1> DEFINE top == (Cardinality(Tasks) + 1) * (Cardinality(Tasks) + 1)
<1>2. top \in Nat
  BY FS_CardinalityType
<1>3. PICK f : SearchBelow(f, s, passed, target, top)
  <2> HIDE DEF top
  <2> QED  BY <1>1, <1>2
<1>4. \A d, v \in SUBSET Tasks : Rank(Tasks, d, v) < top
  BY RankFacts
<1> HIDE DEF top
<1> DEFINE h == Extended(f, 0)
<1>5. h = [d \in SUBSET Tasks |-> [v \in SUBSET Tasks |->
             SearchAt(s, passed, target, f, d, v)]]
  <2>1. \A d, v \in SUBSET Tasks : Rank(Tasks, d, v) \in Nat
    BY RankFacts
  <2>2. \A d, v \in SUBSET Tasks : ~ (Rank(Tasks, d, v) < 0)
    BY <2>1
  <2> QED  BY <2>2
<1> HIDE DEF h
<1>6. \A d, v \in SUBSET Tasks : h[d][v] = f[d][v]
  BY <1>3, <1>4, <1>5 DEF SearchBelow
<1>7. \A d, v \in SUBSET Tasks :
         SearchAt(s, passed, target, h, d, v) =
            SearchAt(s, passed, target, f, d, v)
  <2> TAKE d \in SUBSET Tasks, v \in SUBSET Tasks
  <2>1. Rank(Tasks, d, v) <= top
    <3>1. Rank(Tasks, d, v) \in Nat
      BY RankFacts
    <3> QED  BY <1>2, <1>4, <3>1
  <2> QED  BY <1>2, <1>3, <1>6, <2>1, SearchStep
<1>8. IsSearch(h, s, passed, target)
  BY <1>5, <1>7 DEF IsSearch
<1> DEFINE g == TheSearch(s, passed, target)
<1>9. IsSearch(g, s, passed, target)
  BY <1>8 DEF TheSearch
<1> HIDE DEF g
<1>10. \A deps, seen \in SUBSET Tasks :
          g[deps][seen] = SearchAt(s, passed, target, g, deps, seen)
  BY <1>9 DEF IsSearch
<1> DEFINE Odd == {Rank(Tasks, p[1], p[2]) : p \in
                     {q \in (SUBSET Tasks) \X (SUBSET Tasks) :
                        ~ IsFinding(g[q[1]][q[2]], q[2])}}
<1>11. Odd = {}
  <2> SUFFICES ASSUME Odd # {}
               PROVE  FALSE
    OBVIOUS
  <2>1. Odd \in SUBSET Nat
    <3>1. \A d, v \in SUBSET Tasks : Rank(Tasks, d, v) \in Nat
      BY RankFacts
    <3>2. \A p \in (SUBSET Tasks) \X (SUBSET Tasks) :
             Rank(Tasks, p[1], p[2]) \in Nat
      BY <3>1
    <3> QED  BY <3>2
  <2>2. PICK k \in Odd : \A j \in Odd : k <= j
    <3> HIDE DEF Odd
    <3> QED  BY <2>1, LeastOf
  <2>3. k \in Nat
    BY <2>1
  <2>4. PICK d \in SUBSET Tasks, v \in SUBSET Tasks :
           Rank(Tasks, d, v) = k /\ ~ IsFinding(g[d][v], v)
    BY <2>2
  <2>5. \A e, w \in SUBSET Tasks :
           ~ IsFinding(g[e][w], w) => Rank(Tasks, e, w) \in Odd
    <3> TAKE e \in SUBSET Tasks, w \in SUBSET Tasks
    <3> DEFINE p == <<e, w>>
    <3>1. p \in (SUBSET Tasks) \X (SUBSET Tasks) /\ p[1] = e /\ p[2] = w
      OBVIOUS
    <3> QED  BY <3>1
  <2> HIDE DEF Odd
  <2>6. SearchBelow(g, s, passed, target, k)
    <3> SUFFICES ASSUME NEW e \in SUBSET Tasks, NEW w \in SUBSET Tasks,
                        Rank(Tasks, e, w) < k
                 PROVE  IsFinding(g[e][w], w)
      BY <1>10 DEF SearchBelow
    <3>1. Rank(Tasks, e, w) \in Nat
      BY RankFacts
    <3>2. Rank(Tasks, e, w) \notin Odd
      BY <2>2, <2>3, <3>1
    <3> QED  BY <2>5, <3>2
  <2>7. Rank(Tasks, d, v) <= k
    BY <2>3, <2>4
  <2>8. IsFinding(SearchAt(s, passed, target, g, d, v), v)
    BY <2>3, <2>6, <2>7, SearchStep
  <2> QED  BY <1>10, <2>4, <2>8
<1>12. \A deps, seen \in SUBSET Tasks : IsFinding(g[deps][seen], seen)
  <2> TAKE deps \in SUBSET Tasks, seen \in SUBSET Tasks
  <2> DEFINE p == <<deps, seen>>
  <2>1. p \in (SUBSET Tasks) \X (SUBSET Tasks) /\ p[1] = deps /\ p[2] = seen
    OBVIOUS
  <2> QED  BY <1>11, <2>1
<1> QED  BY <1>10, <1>12 DEF g

\* Every set of tasks that nothing leads out of and that has those in from
\* has the target, if tasks that are walked over lead nowhere.
LeadsTo(s, passed, target, from) ==
    \A C \in SUBSET Tasks :
        /\ from \ passed \subseteq C
        /\ \A u \in C \ passed : s.tasks[u].deps \ passed \subseteq C
        => target \in C

\* r is what there is to find on a walk through deps by which time seen was.
IsFound(r, s, passed, target, deps, seen) ==
    /\ r.found => LeadsTo(s, passed, target, deps)
    /\ ~ r.found =>
          /\ deps \ passed \subseteq r.seen
          /\ target \notin deps \ passed
          /\ \A u \in r.seen \ seen :
                /\ u \notin passed /\ u # target
                /\ s.tasks[u].deps \ passed \subseteq r.seen
                /\ target \notin s.tasks[u].deps \ passed

LEMMA SearchFinds ==
    ASSUME IsFiniteSet(Tasks), NEW s, NEW passed, NEW target,
           \A dep \in Tasks \ passed : s.tasks[dep].deps \in SUBSET Tasks,
           NEW n \in Nat, NEW g,
           \A d, v \in SUBSET Tasks :
              /\ g[d][v] = SearchAt(s, passed, target, g, d, v)
              /\ IsFinding(g[d][v], v),
           \A d, v \in SUBSET Tasks : Rank(Tasks, d, v) < n =>
              IsFound(g[d][v], s, passed, target, d, v),
           NEW deps \in SUBSET Tasks, NEW seen \in SUBSET Tasks,
           Rank(Tasks, deps, seen) = n
    PROVE  IsFound(g[deps][seen], s, passed, target, deps, seen)
<1> DEFINE r == g[deps][seen]
<1>1. CASE deps = {}
  <2>1. r = [found |-> FALSE, seen |-> seen]
    BY <1>1 DEF SearchAt
  <2> QED  BY <1>1, <2>1 DEF IsFound
<1>2. CASE deps # {}
  <2> DEFINE dep == Pick(deps)
             w == g[deps \ {dep}][seen]
  <2>1. dep \in deps /\ dep \in Tasks /\ deps \ {dep} \in SUBSET Tasks
    BY <1>2 DEF Pick
  <2>2. Rank(Tasks, deps \ {dep}, seen) < Rank(Tasks, deps, seen)
    BY <2>1, RankFacts
  <2>3. /\ IsFinding(w, seen)
        /\ IsFound(w, s, passed, target, deps \ {dep}, seen)
    BY <2>1, <2>2
  <2>4. r = SearchOn(s, passed, target, g, dep, w)
    BY <1>2 DEF SearchAt
  <2>5. IsFinding(r, seen)
    OBVIOUS
  <2> HIDE DEF dep, w, r
  <2>6. CASE w.found
    <3>1. r = w
      BY <2>4, <2>6 DEF SearchOn
    <3>2. LeadsTo(s, passed, target, deps)
      BY <2>3, <2>6 DEF IsFound, LeadsTo
    <3> QED  BY <2>6, <3>1, <3>2 DEF IsFound, r
  <2>7. CASE ~ w.found /\ dep \in passed
    <3>1. r = w
      BY <2>4, <2>7 DEF SearchOn
    <3>2. deps \ passed = (deps \ {dep}) \ passed
      BY <2>7
    <3> QED  BY <2>3, <2>7, <3>1, <3>2 DEF IsFound, r
  <2>8. CASE ~ w.found /\ dep \notin passed /\ dep = target
    <3>1. LeadsTo(s, passed, target, deps)
      BY <2>1, <2>8 DEF LeadsTo
    <3>2. r = [w EXCEPT !.found = TRUE]
      BY <2>4, <2>8 DEF SearchOn
    <3>3. r.found
      <4>1. PICK f \in BOOLEAN, v \in SUBSET Tasks :
               w = [found |-> f, seen |-> v]
        BY <2>3 DEF IsFinding
      <4> QED  BY <3>2, <4>1
    <3> QED  BY <3>1, <3>3 DEF IsFound, r
  <2>9. CASE ~ w.found /\ dep \notin passed /\ dep # target /\ dep \in w.seen
    <3>1. r = w
      BY <2>4, <2>9 DEF SearchOn
    <3>2. deps \ passed \subseteq ((deps \ {dep}) \ passed) \cup {dep}
      OBVIOUS
    <3>3. target \notin deps \ passed
      BY <2>3, <2>9 DEF IsFound
    <3> QED  BY <2>3, <2>9, <3>1, <3>2, <3>3 DEF IsFound, r
  <2>10. CASE ~ w.found /\ dep \notin passed /\ dep # target
              /\ dep \notin w.seen
    <3> DEFINE next == s.tasks[dep].deps
               more == w.seen \cup {dep}
    <3>1. r = g[next][more]
      BY <2>4, <2>10 DEF SearchOn
    <3>2. /\ next \in SUBSET Tasks /\ more \in SUBSET Tasks
          /\ w.seen \in SUBSET Tasks /\ dep \in Tasks \ w.seen
          /\ seen \subseteq w.seen
      BY <2>1, <2>3, <2>10 DEF IsFinding
    <3> HIDE DEF next
    <3>3. Rank(Tasks, next, more) < n
      BY <3>2, RankFacts
    <3>4. /\ IsFinding(r, more)
          /\ IsFound(r, s, passed, target, next, more)
      BY <3>1, <3>2, <3>3
    <3>5. CASE r.found
      <4>1. LeadsTo(s, passed, target, next)
        BY <3>4, <3>5 DEF IsFound
      <4>2. LeadsTo(s, passed, target, deps)
        BY <2>1, <2>10, <4>1 DEF LeadsTo, next
      <4> QED  BY <3>5, <4>2 DEF IsFound, r
    <3>6. CASE ~ r.found
      <4>1. more \subseteq r.seen
        BY <3>4 DEF IsFinding
      <4>2. deps \ passed \subseteq r.seen /\ target \notin deps \ passed
        BY <2>3, <2>10, <4>1 DEF IsFound
      <4>3. ASSUME NEW u \in r.seen \ seen
            PROVE  /\ u \notin passed /\ u # target
                   /\ s.tasks[u].deps \ passed \subseteq r.seen
                   /\ target \notin s.tasks[u].deps \ passed
        <5>1. CASE u = dep
          BY <2>10, <3>4, <3>6, <5>1 DEF IsFound, next
        <5>2. CASE u \in w.seen
          BY <2>3, <2>10, <4>1, <4>3, <5>2 DEF IsFound
        <5>3. CASE u \in r.seen \ more
          BY <3>4, <3>6, <5>3 DEF IsFound
        <5> QED  BY <4>3, <5>1, <5>2, <5>3
      <4> QED  BY <3>6, <4>2, <4>3 DEF IsFound, r
    <3> QED  BY <3>5, <3>6
  <2> QED  BY <2>6, <2>7, <2>8, <2>9, <2>10
<1> QED  BY <1>1, <1>2

\* A search finds its target if and only if the tasks it starts from lead to
\* it.
LEMMA SearchIsRight ==
    ASSUME IsFiniteSet(Tasks), NEW s, NEW passed, NEW target,
           \A dep \in Tasks \ passed : s.tasks[dep].deps \in SUBSET Tasks,
           NEW from \in SUBSET Tasks
    PROVE  Search(s, passed, target, from) =
              LeadsTo(s, passed, target, from)
<1> DEFINE g == TheSearch(s, passed, target)
<1>1. \A d, v \in SUBSET Tasks :
         /\ g[d][v] = SearchAt(s, passed, target, g, d, v)
         /\ IsFinding(g[d][v], v)
  BY SearchExists
<1> HIDE DEF g
<1> DEFINE Odd == {k \in Nat : \E d, v \in SUBSET Tasks :
                     /\ Rank(Tasks, d, v) = k
                     /\ ~ IsFound(g[d][v], s, passed, target, d, v)}
<1>2. Odd = {}
  <2> SUFFICES ASSUME Odd # {}
               PROVE  FALSE
    OBVIOUS
  <2>1. Odd \in SUBSET Nat
    OBVIOUS
  <2>2. PICK k \in Odd : \A j \in Odd : k <= j
    <3> HIDE DEF Odd
    <3> QED  BY <2>1, LeastOf
  <2>3. k \in Nat
    BY <2>1
  <2>4. PICK d \in SUBSET Tasks, v \in SUBSET Tasks :
           /\ Rank(Tasks, d, v) = k
           /\ ~ IsFound(g[d][v], s, passed, target, d, v)
    BY <2>2
  <2>5. ASSUME NEW e \in SUBSET Tasks, NEW w \in SUBSET Tasks,
               Rank(Tasks, e, w) < k
        PROVE  IsFound(g[e][w], s, passed, target, e, w)
    <3>1. Rank(Tasks, e, w) \in Nat
      BY RankFacts
    <3>2. Rank(Tasks, e, w) \notin Odd
      <4> HIDE DEF Odd
      <4> QED  BY <2>2, <2>3, <2>5, <3>1
    <3> QED  BY <3>1, <3>2
  <2>6. IsFound(g[d][v], s, passed, target, d, v)
    BY <1>1, <2>3, <2>4, <2>5, SearchFinds
  <2> QED  BY <2>4, <2>6
<1> DEFINE r == g[from][{}]
<1>3. IsFound(r, s, passed, target, from, {})
  <2>1. Rank(Tasks, from, {}) \in Nat
    BY RankFacts
  <2> QED  BY <1>2, <2>1
<1>4. IsFinding(r, {})
  BY <1>1
<1>5. Search(s, passed, target, from) = r.found
  BY SearchIsOne DEF g
<1> HIDE DEF r
<1>6. ASSUME ~ r.found
      PROVE  ~ LeadsTo(s, passed, target, from)
  <2> DEFINE C == r.seen
  <2>1. C \in SUBSET Tasks
    BY <1>4 DEF IsFinding
  <2>2. /\ from \ passed \subseteq C
        /\ \A u \in C \ passed : s.tasks[u].deps \ passed \subseteq C
        /\ target \notin C
    BY <1>3, <1>6 DEF IsFound
  <2> QED  BY <2>1, <2>2 DEF LeadsTo
<1>7. r.found => LeadsTo(s, passed, target, from)
  BY <1>3 DEF IsFound
<1>8. r.found \in BOOLEAN /\ LeadsTo(s, passed, target, from) \in BOOLEAN
  BY <1>4 DEF IsFinding, LeadsTo
<1> QED  BY <1>5, <1>6, <1>7, <1>8

-----------------------------------------------------------------------------
(***************************************************************************)
(* What a graph leads to.                                                  *)
(***************************************************************************)
ReachIn(adj, i) ==
    {j \in DOMAIN adj : \A S \in SUBSET DOMAIN adj :
        adj[i] \subseteq S /\ (\A v \in S : adj[v] \subseteq S) => j \in S}

LEMMA ReachFacts ==
    ASSUME NEW N, NEW adj \in [N -> SUBSET N], NEW i \in N
    PROVE  /\ ReachIn(adj, i) \in SUBSET N
           /\ adj[i] \subseteq ReachIn(adj, i)
           /\ \A j \in ReachIn(adj, i) :
                 /\ adj[j] \subseteq ReachIn(adj, i)
                 /\ ReachIn(adj, j) \subseteq ReachIn(adj, i)
           /\ \A S \in SUBSET N :
                 adj[i] \subseteq S /\ (\A v \in S : adj[v] \subseteq S)
                    => ReachIn(adj, i) \subseteq S
<1>1. DOMAIN adj = N /\ \A v \in N : adj[v] \in SUBSET N
  OBVIOUS
<1>2. ReachIn(adj, i) \in SUBSET N
  BY <1>1 DEF ReachIn
<1>3. adj[i] \subseteq ReachIn(adj, i)
  BY <1>1 DEF ReachIn
<1>4. ASSUME NEW j \in ReachIn(adj, i)
      PROVE  adj[j] \subseteq ReachIn(adj, i)
  BY <1>1, <1>4 DEF ReachIn
<1>5. ASSUME NEW j \in ReachIn(adj, i)
      PROVE  ReachIn(adj, j) \subseteq ReachIn(adj, i)
  <2> DEFINE R == ReachIn(adj, i)
  <2>1. R \in SUBSET DOMAIN adj /\ adj[j] \subseteq R
        /\ \A v \in R : adj[v] \subseteq R
    BY <1>1, <1>2, <1>4
  <2> HIDE DEF R
  <2>2. ReachIn(adj, j) \subseteq R
    BY <2>1 DEF ReachIn
  <2> QED  BY <2>2 DEF R
<1>6. \A S \in SUBSET N :
         adj[i] \subseteq S /\ (\A v \in S : adj[v] \subseteq S)
            => ReachIn(adj, i) \subseteq S
  BY <1>1 DEF ReachIn
<1> QED  BY <1>2, <1>3, <1>4, <1>5, <1>6

-----------------------------------------------------------------------------
(***************************************************************************)
(* The search for a cycle.                                                 *)
(***************************************************************************)
\* One more node of a walk that has come to c.
VisitOn(adj, g, i, grey, c) ==
    IF c.found \/ i \in c.black THEN c
    ELSE IF i \in grey THEN [c EXCEPT !.found = TRUE]
    ELSE LET after == g[adj[i]][grey \cup {i}][c.black]
         IN  [after EXCEPT !.black = @ \cup {i}]

VisitAt(adj, g, at, grey, black) ==
    IF at = {} THEN [found |-> FALSE, black |-> black]
    ELSE VisitOn(adj, g, Pick(at), grey, g[at \ {Pick(at)}][grey][black])

IsVisit(g, adj) ==
    g = [at \in SUBSET DOMAIN adj |-> [grey \in SUBSET DOMAIN adj |->
           [black \in SUBSET DOMAIN adj |->
              VisitAt(adj, g, at, grey, black)]]]

TheVisit(adj) == CHOOSE g : IsVisit(g, adj)

LEMMA VisitIsOne ==
    ASSUME NEW adj
    PROVE  HasCycle(adj) = TheVisit(adj)[DOMAIN adj][{}][{}].found
BY DEF HasCycle, Visit, TheVisit, IsVisit, VisitAt, VisitOn, Pick

\* What a walk comes to: no less is black than before.
IsColoring(c, N, black) ==
    /\ c = [found |-> c.found, black |-> c.black]
    /\ c.found \in BOOLEAN
    /\ c.black \in SUBSET N
    /\ black \subseteq c.black

LEMMA ColoringExcept ==
    ASSUME NEW c, NEW N, NEW black, IsColoring(c, N, black), NEW i \in N
    PROVE  /\ IsColoring([c EXCEPT !.found = TRUE], N, black)
           /\ [c EXCEPT !.found = TRUE].found
           /\ IsColoring([c EXCEPT !.black = @ \cup {i}], N, black)
           /\ [c EXCEPT !.black = @ \cup {i}].found = c.found
           /\ [c EXCEPT !.black = @ \cup {i}].black = c.black \cup {i}
<1>1. PICK f \in BOOLEAN, b \in SUBSET N : c = [found |-> f, black |-> b]
  BY DEF IsColoring
<1>2. black \subseteq b
  BY <1>1 DEF IsColoring
<1>3. PICK yes \in BOOLEAN : yes = TRUE
  OBVIOUS
<1>4. [c EXCEPT !.found = yes] = [found |-> yes, black |-> b]
  BY <1>1
<1>5. IsColoring([c EXCEPT !.found = yes], N, black)
      /\ [c EXCEPT !.found = yes].found = yes
  BY <1>2, <1>4 DEF IsColoring
<1>6. [c EXCEPT !.black = @ \cup {i}] = [found |-> f, black |-> b \cup {i}]
  BY <1>1
<1>7. IsColoring([c EXCEPT !.black = @ \cup {i}], N, black)
  BY <1>2, <1>6 DEF IsColoring
<1> QED  BY <1>1, <1>3, <1>5, <1>6, <1>7

Depth(N, at, grey, black) == Rank(N, at, grey \cup black)

LEMMA DepthFacts ==
    ASSUME NEW N, IsFiniteSet(N), NEW at \in SUBSET N,
           NEW grey \in SUBSET N, NEW black \in SUBSET N
    PROVE  /\ Depth(N, at, grey, black) \in Nat
           /\ Depth(N, at, grey, black) <
                 (Cardinality(N) + 1) * (Cardinality(N) + 1)
           /\ \A i \in at :
                 Depth(N, at \ {i}, grey, black) < Depth(N, at, grey, black)
           /\ \A next, more \in SUBSET N : \A i \in N :
                 /\ black \subseteq more
                 /\ i \notin grey /\ i \notin more
                 => Depth(N, next, grey \cup {i}, more) <
                       Depth(N, at, grey, black)
<1> DEFINE v == grey \cup black
<1>1. v \in SUBSET N
  OBVIOUS
<1>2. ASSUME NEW next \in SUBSET N, NEW more \in SUBSET N, NEW i \in N,
             black \subseteq more, i \notin grey, i \notin more
      PROVE  Depth(N, next, grey \cup {i}, more) <
                Depth(N, at, grey, black)
  <2> DEFINE w == grey \cup more
  <2>1. w \in SUBSET N /\ i \in N \ w /\ v \subseteq w
    BY <1>2
  <2>2. (grey \cup {i}) \cup more = w \cup {i}
    OBVIOUS
  <2> HIDE DEF v, w
  <2>3. Rank(N, next, w \cup {i}) < Rank(N, at, v)
    BY <1>1, <2>1, RankFacts
  <2> QED  BY <2>2, <2>3 DEF Depth, v
<1> HIDE DEF v
<1>3. /\ Rank(N, at, v) \in Nat
      /\ Rank(N, at, v) < (Cardinality(N) + 1) * (Cardinality(N) + 1)
      /\ \A i \in at : Rank(N, at \ {i}, v) < Rank(N, at, v)
  BY <1>1, RankFacts
<1> QED  BY <1>2, <1>3 DEF Depth, v

\* g is the search as far as walks of rank below n go.
VisitBelow(g, adj, n) ==
    \A at, grey, black \in SUBSET DOMAIN adj :
        Depth(DOMAIN adj, at, grey, black) < n =>
            /\ g[at][grey][black] = VisitAt(adj, g, at, grey, black)
            /\ IsColoring(g[at][grey][black], DOMAIN adj, black)

\* One step of the search only makes calls of lesser rank.
LEMMA VisitStep ==
    ASSUME NEW N, IsFiniteSet(N), NEW adj \in [N -> SUBSET N],
           NEW n \in Nat, NEW g, VisitBelow(g, adj, n),
           NEW at \in SUBSET N, NEW grey \in SUBSET N, NEW black \in SUBSET N,
           Depth(N, at, grey, black) <= n,
           NEW h, \A d, v, b \in SUBSET N :
                     Depth(N, d, v, b) < n => h[d][v][b] = g[d][v][b]
    PROVE  /\ VisitAt(adj, h, at, grey, black) =
                 VisitAt(adj, g, at, grey, black)
           /\ IsColoring(VisitAt(adj, g, at, grey, black), N, black)
<1>1. CASE at = {}
  BY <1>1 DEF VisitAt, IsColoring
<1>2. CASE at # {}
  <2> DEFINE i == Pick(at)
             c == g[at \ {i}][grey][black]
  <2>1. i \in at /\ i \in N /\ at \ {i} \in SUBSET N /\ DOMAIN adj = N
    BY <1>2 DEF Pick
  <2>2. /\ Depth(N, at \ {i}, grey, black) < Depth(N, at, grey, black)
        /\ Depth(N, at, grey, black) \in Nat
        /\ Depth(N, at \ {i}, grey, black) \in Nat
    BY <2>1, DepthFacts
  <2>3. Depth(N, at \ {i}, grey, black) < n
    BY <2>2
  <2>4. h[at \ {i}][grey][black] = c /\ IsColoring(c, N, black)
    BY <2>1, <2>3 DEF VisitBelow
  <2> HIDE DEF i, c
  <2>5. /\ VisitAt(adj, g, at, grey, black) = VisitOn(adj, g, i, grey, c)
        /\ VisitAt(adj, h, at, grey, black) = VisitOn(adj, h, i, grey, c)
    BY <1>2, <2>4 DEF VisitAt, i, c
  <2>6. CASE c.found \/ i \in c.black \/ i \in grey
    <3>1. VisitOn(adj, g, i, grey, c) = VisitOn(adj, h, i, grey, c)
      BY <2>6 DEF VisitOn
    <3>2. \/ VisitOn(adj, g, i, grey, c) = c
          \/ VisitOn(adj, g, i, grey, c) = [c EXCEPT !.found = TRUE]
      BY <2>6 DEF VisitOn
    <3>3. IsColoring([c EXCEPT !.found = TRUE], N, black)
      BY <2>1, <2>4, ColoringExcept
    <3> QED  BY <2>4, <2>5, <3>1, <3>2, <3>3
  <2>7. CASE ~ (c.found \/ i \in c.black \/ i \in grey)
    <3> DEFINE next == adj[i]
               more == grey \cup {i}
    <3>1. next \in SUBSET N /\ more \in SUBSET N /\ c.black \in SUBSET N
      BY <2>1, <2>4 DEF IsColoring
    <3>2. Depth(N, next, more, c.black) < Depth(N, at, grey, black)
      <4>1. black \subseteq c.black
        BY <2>4 DEF IsColoring
      <4> HIDE DEF next
      <4> QED  BY <2>1, <2>7, <3>1, <4>1, DepthFacts
    <3> HIDE DEF next, more
    <3>3. Depth(N, next, more, c.black) \in Nat
      BY <3>1, DepthFacts
    <3>4. Depth(N, next, more, c.black) < n
      BY <2>2, <3>2, <3>3
    <3>5. /\ h[next][more][c.black] = g[next][more][c.black]
          /\ IsColoring(g[next][more][c.black], N, c.black)
      <4>1. \A d, v, b \in SUBSET N : Depth(N, d, v, b) < n =>
               IsColoring(g[d][v][b], N, b)
        BY <2>1 DEF VisitBelow
      <4> QED  BY <3>1, <3>4, <4>1
    <3> DEFINE after == g[next][more][c.black]
    <3>6. /\ VisitOn(adj, g, i, grey, c) = [after EXCEPT !.black = @ \cup {i}]
          /\ VisitOn(adj, h, i, grey, c) = [after EXCEPT !.black = @ \cup {i}]
      BY <2>7, <3>5 DEF VisitOn, next, more
    <3>7. IsColoring(after, N, black)
      BY <2>4, <3>5 DEF IsColoring
    <3> HIDE DEF after
    <3>8. IsColoring([after EXCEPT !.black = @ \cup {i}], N, black)
      BY <2>1, <3>7, ColoringExcept
    <3>9. /\ VisitAt(adj, g, at, grey, black) =
                [after EXCEPT !.black = @ \cup {i}]
          /\ VisitAt(adj, h, at, grey, black) =
                [after EXCEPT !.black = @ \cup {i}]
      BY <2>5, <3>6
    <3> QED  BY <3>8, <3>9
  <2> QED  BY <2>6, <2>7
<1> QED  BY <1>1, <1>2

\* The recursion defines the search for a cycle.
LEMMA VisitExists ==
    ASSUME NEW N, IsFiniteSet(N), NEW adj \in [N -> SUBSET N]
    PROVE  LET g == TheVisit(adj)
           IN  \A at, grey, black \in SUBSET N :
                  /\ g[at][grey][black] = VisitAt(adj, g, at, grey, black)
                  /\ IsColoring(g[at][grey][black], N, black)
<1> DEFINE Part(n) == \E g : VisitBelow(g, adj, n)
           Bad == {n \in Nat : ~ Part(n)}
           Extended(g, n) ==
              [at \in SUBSET N |-> [grey \in SUBSET N |->
                 [black \in SUBSET N |->
                    IF Depth(N, at, grey, black) < n
                    THEN g[at][grey][black]
                    ELSE VisitAt(adj, g, at, grey, black)]]]
<1>0. DOMAIN adj = N
  OBVIOUS
<1>a. \A d, v, b \in SUBSET N : Depth(N, d, v, b) \in Nat
  BY DepthFacts
<1>1. Bad = {}
  <2> SUFFICES ASSUME Bad # {}
               PROVE  FALSE
    OBVIOUS
  <2>1. PICK k \in Bad : \A j \in Bad : k <= j
    <3>1. Bad \in SUBSET Nat
      OBVIOUS
    <3> HIDE DEF Bad
    <3> QED  BY <3>1, LeastOf
  <2>2. k \in Nat /\ ~ Part(k)
    OBVIOUS
  <2>3. k # 0
    <3>1. \A d, v, b \in SUBSET N : ~ (Depth(N, d, v, b) < 0)
      BY <1>a
    <3>2. VisitBelow({}, adj, 0)
      BY <1>0, <3>1 DEF VisitBelow
    <3> QED  BY <2>2, <3>2
  <2>4. k - 1 \in Nat /\ Part(k - 1)
    <3>1. k - 1 \in Nat /\ ~ (k <= k - 1)
      BY <2>2, <2>3
    <3>2. k - 1 \notin Bad
      <4> HIDE DEF Bad
      <4> QED  BY <2>1, <3>1
    <3> QED  BY <3>1, <3>2
  <2>5. PICK g : VisitBelow(g, adj, k - 1)
    BY <2>4
  <2> DEFINE h == Extended(g, k - 1)
  <2>6. \A d, v, b \in SUBSET N :
           Depth(N, d, v, b) < k - 1 => h[d][v][b] = g[d][v][b]
    OBVIOUS
  <2>7. \A d, v, b \in SUBSET N :
           ~ (Depth(N, d, v, b) < k - 1) =>
              h[d][v][b] = VisitAt(adj, g, d, v, b)
    OBVIOUS
  <2> HIDE DEF h
  <2>8. ASSUME NEW d \in SUBSET N, NEW v \in SUBSET N, NEW b \in SUBSET N,
               Depth(N, d, v, b) < k
        PROVE  /\ h[d][v][b] = VisitAt(adj, h, d, v, b)
               /\ IsColoring(h[d][v][b], N, b)
    <3>1. Depth(N, d, v, b) <= k - 1
      BY <1>a, <2>2, <2>8
    <3>2. /\ VisitAt(adj, h, d, v, b) = VisitAt(adj, g, d, v, b)
          /\ IsColoring(VisitAt(adj, g, d, v, b), N, b)
      BY <2>4, <2>5, <2>6, <3>1, VisitStep
    <3>3. Depth(N, d, v, b) < k - 1 =>
             g[d][v][b] = VisitAt(adj, g, d, v, b)
      BY <1>0, <2>5 DEF VisitBelow
    <3> QED  BY <2>6, <2>7, <3>2, <3>3
  <2>9. VisitBelow(h, adj, k)
    BY <1>0, <2>8 DEF VisitBelow
  <2> QED  BY <2>2, <2>9
<1> DEFINE top == (Cardinality(N) + 1) * (Cardinality(N) + 1)
<1>2. top \in Nat
  BY FS_CardinalityType
<1>3. PICK f : VisitBelow(f, adj, top)
  <2> HIDE DEF top
  <2> QED  BY <1>1, <1>2
<1>4. \A d, v, b \in SUBSET N : Depth(N, d, v, b) < top
  BY DepthFacts
<1> HIDE DEF top
<1> DEFINE h == Extended(f, 0)
<1>5. h = [d \in SUBSET N |-> [v \in SUBSET N |-> [b \in SUBSET N |->
             VisitAt(adj, f, d, v, b)]]]
  <2>1. \A d, v, b \in SUBSET N : ~ (Depth(N, d, v, b) < 0)
    BY <1>a
  <2> QED  BY <2>1
<1> HIDE DEF h
<1>6. \A d, v, b \in SUBSET N : h[d][v][b] = f[d][v][b]
  BY <1>0, <1>3, <1>4, <1>5 DEF VisitBelow
<1>7. \A d, v, b \in SUBSET N :
         VisitAt(adj, h, d, v, b) = VisitAt(adj, f, d, v, b)
  <2> TAKE d \in SUBSET N, v \in SUBSET N, b \in SUBSET N
  <2>1. Depth(N, d, v, b) <= top
    BY <1>a, <1>2, <1>4
  <2> QED  BY <1>2, <1>3, <1>6, <2>1, VisitStep
<1>8. IsVisit(h, adj)
  BY <1>0, <1>5, <1>7, ZenonT(60) DEF IsVisit
<1> DEFINE g == TheVisit(adj)
<1>9. IsVisit(g, adj)
  BY <1>8 DEF TheVisit
<1> HIDE DEF g
<1>10. \A d, v, b \in SUBSET N : g[d][v][b] = VisitAt(adj, g, d, v, b)
  BY <1>0, <1>9 DEF IsVisit
<1> DEFINE Odd == {k \in Nat : \E d, v, b \in SUBSET N :
                     /\ Depth(N, d, v, b) = k
                     /\ ~ IsColoring(g[d][v][b], N, b)}
<1>11. Odd = {}
  <2> SUFFICES ASSUME Odd # {}
               PROVE  FALSE
    OBVIOUS
  <2>1. PICK k \in Odd : \A j \in Odd : k <= j
    <3>1. Odd \in SUBSET Nat
      OBVIOUS
    <3> HIDE DEF Odd
    <3> QED  BY <3>1, LeastOf
  <2>2. PICK d \in SUBSET N, v \in SUBSET N, b \in SUBSET N :
           Depth(N, d, v, b) = k /\ ~ IsColoring(g[d][v][b], N, b)
    OBVIOUS
  <2>3. k \in Nat
    OBVIOUS
  <2>4. \A e, w, x \in SUBSET N : ~ IsColoring(g[e][w][x], N, x) =>
           Depth(N, e, w, x) \in Odd
    BY <1>a
  <2> HIDE DEF Odd
  <2>5. VisitBelow(g, adj, k)
    <3> SUFFICES ASSUME NEW e \in SUBSET N, NEW w \in SUBSET N,
                        NEW x \in SUBSET N, Depth(N, e, w, x) < k
                 PROVE  IsColoring(g[e][w][x], N, x)
      BY <1>0, <1>10 DEF VisitBelow
    <3>1. Depth(N, e, w, x) \notin Odd
      BY <1>a, <2>1, <2>3
    <3> QED  BY <2>4, <3>1
  <2>6. Depth(N, d, v, b) <= k
    BY <2>2, <2>3
  <2>7. IsColoring(VisitAt(adj, g, d, v, b), N, b)
    BY <2>3, <2>5, <2>6, VisitStep
  <2> QED  BY <1>10, <2>2, <2>7
<1>12. \A d, v, b \in SUBSET N : IsColoring(g[d][v][b], N, b)
  BY <1>a, <1>11
<1> QED  BY <1>10, <1>12 DEF g

\* What is black leads to what is black, and is on no cycle.
Settles(adj, black) ==
    \A i \in black : adj[i] \subseteq black /\ i \notin ReachIn(adj, i)

\* c is what there is to find on a walk through at, with the nodes in grey
\* before it and those in black done.
IsVisited(c, adj, at, grey, black) ==
    /\ (/\ c.found
        /\ \A i \in grey : at \subseteq ReachIn(adj, i))
       => \E i \in DOMAIN adj : i \in ReachIn(adj, i)
    /\ (~ c.found /\ grey \cap black = {} /\ Settles(adj, black)) =>
          /\ at \subseteq c.black
          /\ grey \cap c.black = {}
          /\ Settles(adj, c.black)

LEMMA VisitFinds ==
    ASSUME NEW N, IsFiniteSet(N), NEW adj \in [N -> SUBSET N],
           NEW n \in Nat, NEW g,
           \A d, v, b \in SUBSET N :
              /\ g[d][v][b] = VisitAt(adj, g, d, v, b)
              /\ IsColoring(g[d][v][b], N, b),
           \A d, v, b \in SUBSET N : Depth(N, d, v, b) < n =>
              IsVisited(g[d][v][b], adj, d, v, b),
           NEW at \in SUBSET N, NEW grey \in SUBSET N, NEW black \in SUBSET N,
           Depth(N, at, grey, black) = n
    PROVE  IsVisited(g[at][grey][black], adj, at, grey, black)
<1> DEFINE r == g[at][grey][black]
<1>1. CASE at = {}
  <2>1. r = [found |-> FALSE, black |-> black]
    BY <1>1 DEF VisitAt
  <2> QED  BY <1>1, <2>1 DEF IsVisited
<1>2. CASE at # {}
  <2> DEFINE i == Pick(at)
             c == g[at \ {i}][grey][black]
  <2>1. i \in at /\ i \in N /\ at \ {i} \in SUBSET N /\ DOMAIN adj = N
    BY <1>2 DEF Pick
  <2>2. Depth(N, at \ {i}, grey, black) < n
    BY <2>1, DepthFacts
  <2>3. /\ IsColoring(c, N, black)
        /\ IsVisited(c, adj, at \ {i}, grey, black)
    BY <2>1, <2>2
  <2>4. r = VisitOn(adj, g, i, grey, c)
    BY <1>2 DEF VisitAt
  <2> HIDE DEF i, c, r
  <2>5. CASE c.found \/ i \in c.black
    <3>1. r = c
      BY <2>4, <2>5 DEF VisitOn
    <3> QED  BY <2>3, <2>5, <3>1 DEF IsVisited, r
  <2>6. CASE ~ c.found /\ i \notin c.black /\ i \in grey
    <3>1. r = [c EXCEPT !.found = TRUE]
      BY <2>4, <2>6 DEF VisitOn
    <3>2. r.found
      BY <2>1, <2>3, <3>1, ColoringExcept
    <3> QED  BY <2>1, <2>6, <3>2 DEF IsVisited, r
  <2>7. CASE ~ c.found /\ i \notin c.black /\ i \notin grey
    <3> DEFINE next == adj[i]
               more == grey \cup {i}
               after == g[next][more][c.black]
    <3>1. r = [after EXCEPT !.black = @ \cup {i}]
      BY <2>4, <2>7 DEF VisitOn
    <3>2. next \in SUBSET N /\ more \in SUBSET N /\ c.black \in SUBSET N
      BY <2>1, <2>3 DEF IsColoring
    <3>3. Depth(N, next, more, c.black) < n
      <4>1. black \subseteq c.black
        BY <2>3 DEF IsColoring
      <4> HIDE DEF next
      <4> QED  BY <2>1, <2>7, <3>2, <4>1, DepthFacts
    <3> HIDE DEF next, more
    <3>4. /\ IsColoring(after, N, c.black)
          /\ IsVisited(after, adj, next, more, c.black)
      BY <3>2, <3>3
    <3> HIDE DEF after
    <3>5. r.found = after.found /\ r.black = after.black \cup {i}
      BY <2>1, <3>1, <3>4, ColoringExcept
    <3>6. /\ ReachIn(adj, i) \in SUBSET N
          /\ next \subseteq ReachIn(adj, i)
          /\ \A S \in SUBSET N :
                next \subseteq S /\ (\A v \in S : adj[v] \subseteq S)
                   => ReachIn(adj, i) \subseteq S
      BY <2>1, ReachFacts DEF next
    <3>7. ASSUME after.found, \A j \in grey : at \subseteq ReachIn(adj, j)
          PROVE  \E j \in N : j \in ReachIn(adj, j)
      <4>1. ASSUME NEW j \in grey
            PROVE  next \subseteq ReachIn(adj, j)
        <5>1. i \in ReachIn(adj, j)
          BY <2>1, <3>7
        <5> QED  BY <5>1, ReachFacts DEF next
      <4>2. \A j \in more : next \subseteq ReachIn(adj, j)
        BY <3>6, <4>1 DEF more
      <4> QED  BY <2>1, <3>4, <3>7, <4>2 DEF IsVisited
    <3>8. ASSUME ~ after.found, grey \cap black = {}, Settles(adj, black)
          PROVE  /\ at \subseteq r.black
                 /\ grey \cap r.black = {}
                 /\ Settles(adj, r.black)
      <4>1. /\ at \ {i} \subseteq c.black
            /\ grey \cap c.black = {}
            /\ Settles(adj, c.black)
        BY <2>3, <2>7, <3>8 DEF IsVisited
      <4>2. more \cap c.black = {}
        BY <2>7, <4>1 DEF more
      <4>3. /\ next \subseteq after.black
            /\ more \cap after.black = {}
            /\ Settles(adj, after.black)
        BY <3>4, <3>8, <4>1, <4>2 DEF IsVisited
      <4>4. c.black \subseteq after.black /\ after.black \in SUBSET N
        BY <3>4 DEF IsColoring
      <4>5. ReachIn(adj, i) \subseteq after.black
        BY <3>6, <4>3, <4>4 DEF Settles
      <4>6. i \notin ReachIn(adj, i)
        BY <4>3, <4>5 DEF more
      <4>7. Settles(adj, r.black)
        BY <3>5, <4>3, <4>6 DEF Settles, next
      <4>8. grey \cap r.black = {}
        BY <2>7, <3>5, <4>3 DEF more
      <4> QED  BY <3>5, <4>1, <4>4, <4>7, <4>8
    <3> QED  BY <2>1, <3>5, <3>7, <3>8 DEF IsVisited, r
  <2> QED  BY <2>5, <2>6, <2>7
<1> QED  BY <1>1, <1>2

\* hasCycle says yes if and only if there is a cycle.
LEMMA HasCycleIsRight ==
    ASSUME NEW N, IsFiniteSet(N), NEW adj \in [N -> SUBSET N]
    PROVE  HasCycle(adj) = \E i \in N : i \in ReachIn(adj, i)
<1> DEFINE g == TheVisit(adj)
<1>1. \A d, v, b \in SUBSET N :
         /\ g[d][v][b] = VisitAt(adj, g, d, v, b)
         /\ IsColoring(g[d][v][b], N, b)
  BY VisitExists
<1> HIDE DEF g
<1>a. \A d, v, b \in SUBSET N : Depth(N, d, v, b) \in Nat
  BY DepthFacts
<1> DEFINE Odd == {k \in Nat : \E d, v, b \in SUBSET N :
                     /\ Depth(N, d, v, b) = k
                     /\ ~ IsVisited(g[d][v][b], adj, d, v, b)}
<1>2. Odd = {}
  <2> SUFFICES ASSUME Odd # {}
               PROVE  FALSE
    OBVIOUS
  <2>1. PICK k \in Odd : \A j \in Odd : k <= j
    <3>1. Odd \in SUBSET Nat
      OBVIOUS
    <3> HIDE DEF Odd
    <3> QED  BY <3>1, LeastOf
  <2>2. PICK d \in SUBSET N, v \in SUBSET N, b \in SUBSET N :
           /\ Depth(N, d, v, b) = k
           /\ ~ IsVisited(g[d][v][b], adj, d, v, b)
    OBVIOUS
  <2>3. k \in Nat
    OBVIOUS
  <2>4. \A e, w, x \in SUBSET N :
           ~ IsVisited(g[e][w][x], adj, e, w, x) =>
              Depth(N, e, w, x) \in Odd
    BY <1>a
  <2> HIDE DEF Odd
  <2>5. \A e, w, x \in SUBSET N : Depth(N, e, w, x) < k =>
           IsVisited(g[e][w][x], adj, e, w, x)
    BY <1>a, <2>1, <2>3, <2>4
  <2>6. IsVisited(g[d][v][b], adj, d, v, b)
    BY <1>1, <2>2, <2>3, <2>5, VisitFinds
  <2> QED  BY <2>2, <2>6
<1> DEFINE c == g[N][{}][{}]
<1>3. IsVisited(c, adj, N, {}, {})
  <2>1. N \in SUBSET N /\ {} \in SUBSET N
    OBVIOUS
  <2> QED  BY <1>a, <1>2, <2>1
<1>4. IsColoring(c, N, {})
  BY <1>1
<1>5. DOMAIN adj = N /\ HasCycle(adj) = c.found
  BY VisitIsOne DEF g
<1> HIDE DEF c
<1>6. c.found => \E i \in N : i \in ReachIn(adj, i)
  BY <1>3, <1>5 DEF IsVisited
<1>7. ~ c.found => ~ \E i \in N : i \in ReachIn(adj, i)
  BY <1>3, <1>5 DEF IsVisited, Settles
<1>8. c.found \in BOOLEAN
  BY <1>4 DEF IsColoring
<1> QED  BY <1>5, <1>6, <1>7, <1>8

-----------------------------------------------------------------------------
(***************************************************************************)
(* What the searches find in the answers of a daemon.                      *)
(***************************************************************************)
LEMMA ReachableIs ==
    ASSUME NEW succ \in [Tasks -> SUBSET Tasks], NEW t \in Tasks
    PROVE  Reachable(succ, t) = ReachIn(succ, t)
<1>1. DOMAIN succ = Tasks
  OBVIOUS
<1> QED  BY <1>1 DEF Reachable, ReachIn

\* The edges past the tasks in passed.
Past(s, passed) ==
    [u \in Tasks |-> IF u \in DOMAIN s.tasks THEN s.tasks[u].deps \ passed
                     ELSE {}]

\* From t, through other edges than those it has, if from is given.
LEMMA LeadsIsReach ==
    ASSUME NEW s, IsMap(s.tasks, Tasks, TaskRecord),
           NEW t \in DOMAIN s.tasks, NEW done \in SUBSET Tasks,
           NEW from \in SUBSET Tasks
    PROVE  LeadsTo(s, (Tasks \ DOMAIN s.tasks) \cup done, t, from)
              <=> t \in Reachable([Past(s, done) EXCEPT ![t] = from \ done], t)
<1> DEFINE passed == (Tasks \ DOMAIN s.tasks) \cup done
           succ == [Past(s, done) EXCEPT ![t] = from \ done]
<1>1. /\ t \in Tasks /\ DOMAIN s.tasks \subseteq Tasks
      /\ \A u \in DOMAIN s.tasks : s.tasks[u].deps \in SUBSET Tasks
  BY DEF IsMap, TaskRecord
<1>2. /\ succ[t] = from \ done
      /\ \A u \in Tasks : u # t => succ[u] = Past(s, done)[u]
  BY <1>1 DEF Past
<1>3. \A u \in DOMAIN s.tasks : u # t => succ[u] = s.tasks[u].deps \ done
  BY <1>1, <1>2 DEF Past
<1>4. \A u \in Tasks \ DOMAIN s.tasks : succ[u] = {}
  BY <1>1, <1>2 DEF Past
<1> HIDE DEF succ
<1>5. ASSUME LeadsTo(s, passed, t, from),
             NEW S \in SUBSET Tasks, succ[t] \subseteq S,
             \A v \in S : succ[v] \subseteq S
      PROVE  t \in S
  <2> SUFFICES ASSUME t \notin S
               PROVE  FALSE
    OBVIOUS
  <2>1. from \ passed \subseteq S
    BY <1>2, <1>5
  <2>2. ASSUME NEW u \in S \ passed
        PROVE  s.tasks[u].deps \ passed \subseteq S
    <3>1. u \in DOMAIN s.tasks /\ u # t
      BY <2>2
    <3> QED  BY <1>3, <1>5, <3>1
  <2> QED  BY <1>5, <2>1, <2>2 DEF LeadsTo
<1>6. ASSUME t \in Reachable(succ, t),
             NEW C \in SUBSET Tasks, from \ passed \subseteq C,
             \A u \in C \ passed : s.tasks[u].deps \ passed \subseteq C
      PROVE  t \in C
  <2> SUFFICES ASSUME t \notin C
               PROVE  FALSE
    OBVIOUS
  <2> DEFINE S == (C \ passed) \cup (Tasks \ DOMAIN s.tasks)
  <2>1. S \in SUBSET Tasks /\ t \notin S
    BY <1>1
  <2>2. succ[t] \subseteq S
    BY <1>2, <1>6
  <2>3. ASSUME NEW v \in S
        PROVE  succ[v] \subseteq S
    <3>1. CASE v \in DOMAIN s.tasks
      <4>1. v \in C \ passed /\ v # t
        BY <2>1, <3>1
      <4>2. s.tasks[v].deps \ passed \subseteq C
        BY <1>6, <4>1
      <4>3. succ[v] = s.tasks[v].deps \ done
        BY <1>3, <3>1, <4>1
      <4> QED  BY <1>1, <3>1, <4>2, <4>3
    <3>2. CASE v \notin DOMAIN s.tasks
      BY <1>4, <2>1, <2>3, <3>2
    <3> QED  BY <3>1, <3>2
  <2> QED  BY <1>6, <2>1, <2>2, <2>3 DEF Reachable
<1>7. LeadsTo(s, passed, t, from) => t \in Reachable(succ, t)
  BY <1>1, <1>5 DEF Reachable
<1>8. t \in Reachable(succ, t) => LeadsTo(s, passed, t, from)
  BY <1>6 DEF LeadsTo
<1> QED  BY <1>7, <1>8 DEF succ

NotDone(s) == [t \in Tasks |-> EdgesOf(s)[t] \ WithStatus(s, "done")]

\* inDepLoop marks the tasks that are on a loop of tasks not done.
LEMMA InDepLoopIsRight ==
    ASSUME NEW s, IsMap(s.tasks, Tasks, TaskRecord), NEW t \in DOMAIN s.tasks
    PROVE  InDepLoop(s, t) = (t \in Reachable(NotDone(s), t))
<1> DEFINE done == WithStatus(s, "done")
           passed == (Tasks \ DOMAIN s.tasks) \cup done
           from == s.tasks[t].deps
<1>1. /\ t \in Tasks /\ DOMAIN s.tasks \subseteq Tasks
      /\ \A u \in DOMAIN s.tasks : s.tasks[u].deps \in SUBSET Tasks
  BY DEF IsMap, TaskRecord
<1>2. done \in SUBSET Tasks
  BY <1>1 DEF WithStatus
<1>3. NotDone(s) = Past(s, done)
  BY DEF NotDone, Past, EdgesOf
<1>4. [Past(s, done) EXCEPT ![t] = from \ done] = Past(s, done)
  BY <1>1 DEF Past
<1>5. \A dep \in Tasks \ passed : s.tasks[dep].deps \in SUBSET Tasks
  BY <1>1
<1>6. InDepLoop(s, t) = Search(s, passed, t, from)
  BY DEF InDepLoop, Unknown
<1> HIDE DEF done, passed, from
<1>7. from \in SUBSET Tasks
  BY <1>1 DEF from
<1>8. Search(s, passed, t, from) = LeadsTo(s, passed, t, from)
  BY <1>5, <1>7, SearchIsRight, BacklogAssumption
<1>9. LeadsTo(s, passed, t, from) <=> t \in Reachable(NotDone(s), t)
  BY <1>2, <1>3, <1>4, <1>7, LeadsIsReach DEF passed
<1>10. LeadsTo(s, passed, t, from) \in BOOLEAN
  BY DEF LeadsTo
<1> QED  BY <1>6, <1>8, <1>9, <1>10

\* depLoopLocked refuses the edges that would close a loop.
LEMMA DepLoopIsRight ==
    ASSUME NEW s, IsMap(s.tasks, Tasks, TaskRecord), NEW t \in DOMAIN s.tasks,
           NEW D \in SUBSET Tasks
    PROVE  DepLoop(s, t, D) =
              (t \in Reachable([EdgesOf(s) EXCEPT ![t] = D], t))
<1> DEFINE passed == (Tasks \ DOMAIN s.tasks) \cup {}
<1>1. /\ t \in Tasks /\ DOMAIN s.tasks \subseteq Tasks
      /\ \A u \in DOMAIN s.tasks : s.tasks[u].deps \in SUBSET Tasks
  BY DEF IsMap, TaskRecord
<1>2. EdgesOf(s) = Past(s, {}) /\ D \ {} = D
  BY DEF Past, EdgesOf
<1>3. \A dep \in Tasks \ passed : s.tasks[dep].deps \in SUBSET Tasks
  BY <1>1
<1>4. Unknown(s) \ {t} = passed
  BY DEF Unknown
<1>5. DepLoop(s, t, D) = Search(s, passed, t, D)
  BY <1>4 DEF DepLoop
<1>6. LeadsTo(s, passed, t, D) <=>
         t \in Reachable([EdgesOf(s) EXCEPT ![t] = D], t)
  BY <1>2, LeadsIsReach
<1> HIDE DEF passed
<1>7. Search(s, passed, t, D) = LeadsTo(s, passed, t, D)
  BY <1>3, SearchIsRight, BacklogAssumption
<1>8. LeadsTo(s, passed, t, D) \in BOOLEAN
  BY DEF LeadsTo
<1> QED  BY <1>5, <1>6, <1>7, <1>8

LEMMA EdgesType ==
    ASSUME NEW s, IsMap(s.tasks, Tasks, TaskRecord)
    PROVE  EdgesOf(s) \in [Tasks -> SUBSET Tasks]
BY DEF EdgesOf, IsMap, TaskRecord

-----------------------------------------------------------------------------
(***************************************************************************)
(* The edges that a set of events gives its tasks.                         *)
(***************************************************************************)
\* e sets the edges of its task, to EdgesSet(e).
SetsEdges(e) ==
    e.type = "task.created" \/ (e.type = "task.updated" /\ e.deps # {})

EdgesSet(e) ==
    IF e.type = "task.created" THEN e.deps ELSE CHOOSE x \in e.deps : TRUE

\* The event e of E that has the last word on the edges of t.
IsLatest(E, t, e) ==
    /\ e \in E /\ e.task = t /\ SetsEdges(e)
    /\ \A f \in E : f.task = t /\ SetsEdges(f) => f.id <= e.id

EdgesIn(E) ==
    [t \in Tasks |->
        {u \in Tasks : \E e \in E : IsLatest(E, t, e) /\ u \in EdgesSet(e)}]

\* The record after an event that only concerns claims.
LEMMA ClaimEventsKeepTasks ==
    ASSUME NEW s, NEW n, n.error # TRUE, Malformed(s).error = TRUE,
           \/ n = Malformed(s)
           \/ n = s
           \/ \E b, c, d : Is(n, s.tasks, b, c, d, s.escalations, s.error)
    PROVE  n.tasks = s.tasks
<1>1. ASSUME NEW b, NEW c, NEW d,
             Is(n, s.tasks, b, c, d, s.escalations, s.error)
      PROVE  n.tasks = s.tasks
  BY <1>1 DEF Is
<1>2. n # Malformed(s)
  OBVIOUS
<1> QED  BY <1>1, <1>2

LEMMA EdgesSetType ==
    ASSUME NEW e, IsEvent(e), SetsEdges(e)
    PROVE  EdgesSet(e) \in SUBSET Tasks
BY DEF IsEvent, SetsEdges, EdgesSet

LEMMA LatestIsOne ==
    ASSUME NEW E, AreEvents(E), NEW t \in Tasks, NEW e, IsLatest(E, t, e)
    PROVE  /\ EdgesIn(E)[t] = EdgesSet(e)
           /\ \A f \in E : IsLatest(E, t, f) => f = e
<1>1. \A f \in E : IsLatest(E, t, f) => f = e
  <2> SUFFICES ASSUME NEW f \in E, IsLatest(E, t, f)
               PROVE  f = e
    OBVIOUS
  <2>1. e \in E /\ f.id <= e.id /\ e.id <= f.id
    BY DEF IsLatest
  <2>2. e.id \in Nat /\ f.id \in Nat
    BY <2>1, ReplayAssumption DEF AreEvents, IsEvent, Ids
  <2>3. e.id = f.id
    BY <2>1, <2>2
  <2> QED  BY <2>1, <2>3 DEF AreEvents
<1>2. EdgesSet(e) \in SUBSET Tasks
  BY EdgesSetType DEF IsLatest, AreEvents
<1> QED  BY <1>1, <1>2 DEF EdgesIn, IsLatest

\* What an event does to the edges: those it sets it sets, and others stay.
LEMMA EdgesApply ==
    ASSUME NEW s, IsState(s), NEW e, IsEvent(e), NEW lv,
           ~ Apply(s, lv, e).error, NEW t \in Tasks
    PROVE  EdgesOf(Apply(s, lv, e))[t] =
              IF e.task = t /\ SetsEdges(e) THEN EdgesSet(e)
              ELSE EdgesOf(s)[t]
<1> DEFINE n == Apply(s, lv, e)
           Same(a) == \A u \in Tasks : EdgesOf(a)[u] = EdgesOf(s)[u]
<1>1. \A a : a.tasks = s.tasks => Same(a)
  BY DEF EdgesOf
<1>2. e.task \in Tasks /\ IsMap(s.tasks, Tasks, TaskRecord)
      /\ DOMAIN s.tasks \subseteq Tasks
  BY DEF IsEvent, IsState, IsMap
<1>3. Malformed(s).error = TRUE
  BY MalformedKeeps
<1>12. n.error # TRUE
  OBVIOUS
<1>4. CASE e.type = "task.created"
  <2>1. n = TaskCreated(s, e) /\ SetsEdges(e) /\ EdgesSet(e) = e.deps
    BY <1>4 DEF Apply, SetsEdges, EdgesSet
  <2> DEFINE k == [status |-> e.status, deps |-> e.deps,
                   closed |-> IF Terminal(e.status) THEN e.id ELSE None]
  <2>2. n.tasks = Put(s.tasks, e.task, k)
    BY <1>3, <2>1 DEF TaskCreated, IsState
  <2>3. k.deps = e.deps
    OBVIOUS
  <2> HIDE DEF k, n
  <2>4. EdgesOf(n)[t] = IF e.task = t THEN e.deps ELSE EdgesOf(s)[t]
    BY <2>2, <2>3 DEF EdgesOf, Put
  <2> QED  BY <2>1, <2>4 DEF n
<1>5. CASE e.type = "task.updated"
  <2>1. n = TaskUpdated(s, e) /\ e.task \in DOMAIN s.tasks
    BY <1>3, <1>5 DEF Apply, TaskUpdated
  <2> DEFINE deps == IF e.deps = {} THEN s.tasks[e.task].deps
                     ELSE CHOOSE x \in e.deps : TRUE
  <2>2. PICK k : k.deps = deps /\ n.tasks = [s.tasks EXCEPT ![e.task] = k]
    BY <2>1, ZenonT(60) DEF TaskUpdated, IsState
  <2>3. deps = IF SetsEdges(e) THEN EdgesSet(e) ELSE s.tasks[e.task].deps
    BY <1>5 DEF SetsEdges, EdgesSet
  <2> HIDE DEF deps, n
  <2>4. EdgesOf(n)[t] = IF e.task = t THEN deps ELSE EdgesOf(s)[t]
    BY <1>2, <2>1, <2>2 DEF EdgesOf
  <2>5. EdgesOf(s)[e.task] = s.tasks[e.task].deps
    BY <1>2, <2>1 DEF EdgesOf
  <2> QED  BY <2>3, <2>4, <2>5 DEF n
<1>6. CASE e.type = "run.finished"
  <2>1. n = RunFinished(s, e) /\ ~ SetsEdges(e) /\ e.task \in DOMAIN s.tasks
    BY <1>3, <1>6 DEF Apply, RunFinished, SetsEdges
  <2>2. \/ n.tasks = s.tasks
        \/ n.tasks = [s.tasks EXCEPT ![e.task] = s.tasks[e.task]]
        \/ \E c : n.tasks = [s.tasks EXCEPT ![e.task] =
                    [s.tasks[e.task] EXCEPT !.status = "done", !.closed = c]]
    BY <2>1, ZenonT(60) DEF RunFinished, IsState
  <2>3. s.tasks[e.task] \in TaskRecord
    BY <1>2, <2>1 DEF IsMap
  <2>4. \A c : [s.tasks[e.task] EXCEPT !.status = "done", !.closed = c].deps
                  = s.tasks[e.task].deps
    BY <2>3 DEF TaskRecord
  <2> HIDE DEF n
  <2>5. EdgesOf(n)[t] = EdgesOf(s)[t]
    BY <1>2, <2>1, <2>2, <2>4, ZenonT(60) DEF EdgesOf
  <2> QED  BY <2>1, <2>5 DEF n
<1>7. CASE e.type = "claim.made"
  <2>1. n = ClaimMade(s, lv, e) /\ ~ SetsEdges(e)
    BY <1>7 DEF Apply, SetsEdges
  <2>2. \/ n = Malformed(s) \/ n = s
        \/ \E b, c, d : Is(n, s.tasks, b, c, d, s.escalations, s.error)
    BY <1>2, <2>1, ClaimMadeCases
  <2> HIDE DEF n
  <2>3. n.tasks = s.tasks
    BY <1>3, <1>12, <2>2, ClaimEventsKeepTasks
  <2> QED  BY <1>1, <2>1, <2>3 DEF n
<1>8. CASE e.type = "claim.confirmed"
  <2>1. n = ClaimConfirmed(s, e) /\ ~ SetsEdges(e)
    BY <1>8 DEF Apply, SetsEdges
  <2>2. \/ n = Malformed(s) \/ n = s
        \/ \E b, c, d : Is(n, s.tasks, b, c, d, s.escalations, s.error)
    <3> DEFINE h == s.holder[e.task]
               b == [s.claims EXCEPT ![e.claim].confirmation = e.id]
               c == [s.claims EXCEPT ![h].status = "voided",
                                     ![e.claim].status = "active",
                                     ![e.claim].confirmation = e.id]
    <3>1. \/ n = Malformed(s) \/ n = s
          \/ Is(n, s.tasks, b, s.holder, s.runs, s.escalations, s.error)
          \/ Is(n, s.tasks, c, [s.holder EXCEPT ![e.task] = e.claim],
                s.runs, s.escalations, s.error)
      BY <1>2, <2>1, ClaimConfirmedCases
    <3> HIDE DEF b, c, n
    <3> QED  BY <3>1
  <2> HIDE DEF n
  <2>3. n.tasks = s.tasks
    BY <1>3, <1>12, <2>2, ClaimEventsKeepTasks
  <2> QED  BY <1>1, <2>1, <2>3 DEF n
<1>9. CASE e.type = "claim.released"
  <2>1. n = ClaimReleased(s, e) /\ ~ SetsEdges(e)
    BY <1>9 DEF Apply, SetsEdges
  <2>2. \/ n = Malformed(s) \/ n = s
        \/ \E b, c, d : Is(n, s.tasks, b, c, d, s.escalations, s.error)
    BY <1>2, <2>1, ClaimReleasedCases
  <2> HIDE DEF n
  <2>3. n.tasks = s.tasks
    BY <1>3, <1>12, <2>2, ClaimEventsKeepTasks
  <2> QED  BY <1>1, <2>1, <2>3 DEF n
<1>10. CASE e.type = "escalation.raised"
  <2>1. n = EscalationRaised(s, e) /\ ~ SetsEdges(e)
    BY <1>10 DEF Apply, SetsEdges
  <2>2. n.tasks = s.tasks
    BY <1>3, <2>1 DEF EscalationRaised, IsState
  <2> QED  BY <1>1, <2>1, <2>2
<1>11. CASE e.type = "escalation.answered"
  <2>1. n = EscalationAnswered(s, e) /\ ~ SetsEdges(e)
    BY <1>11 DEF Apply, SetsEdges
  <2>2. n.tasks = s.tasks
    BY <1>3, <2>1 DEF EscalationAnswered, IsState
  <2> QED  BY <1>1, <2>1, <2>2
<1> QED  BY <1>4, <1>5, <1>6, <1>7, <1>8, <1>9, <1>10, <1>11 DEF IsEvent

Upto(E, n) == {e \in E : e.id <= n}

LEMMA EdgesTurn ==
    ASSUME NEW E, AreEvents(E), NEW lv, NEW n \in 1 .. MaxId,
           NEW s, FoldInv(E, n - 1, s),
           ~ s.error => \A t \in Tasks :
              EdgesOf(s)[t] = EdgesIn(Upto(E, n - 1))[t],
           ~ Turn(E, lv, s, n).error, NEW t \in Tasks
    PROVE  EdgesOf(Turn(E, lv, s, n))[t] = EdgesIn(Upto(E, n))[t]
<1>1. \A e \in E : e.id \in Nat /\ IsEvent(e)
  BY ReplayAssumption DEF AreEvents, IsEvent, Ids
<1>2. n \in Nat /\ n - 1 \in Nat /\ MaxId \in Nat
  BY ReplayAssumption
<1>3. ~ s.error
  BY DEF Turn
<1>4. CASE {e \in E : e.id = n} = {}
  <2>1. Upto(E, n) = Upto(E, n - 1)
    BY <1>1, <1>2, <1>4 DEF Upto
  <2>2. Turn(E, lv, s, n) = s
    BY <1>4 DEF Turn
  <2> QED  BY <1>3, <2>1, <2>2
<1>5. ASSUME NEW e \in E, e.id = n
      PROVE  EdgesOf(Turn(E, lv, s, n))[t] = EdgesIn(Upto(E, n))[t]
  <2>1. {f \in E : f.id = n} = {e}
    BY <1>5 DEF AreEvents
  <2>2. Turn(E, lv, s, n) = Apply(s, lv, e)
    BY <1>3, <2>1 DEF Turn
  <2>3. EdgesOf(Apply(s, lv, e))[t] =
              IF e.task = t /\ SetsEdges(e) THEN EdgesSet(e)
              ELSE EdgesOf(s)[t]
    BY <1>1, <2>2, EdgesApply DEF FoldInv
  <2>4. Upto(E, n) = Upto(E, n - 1) \cup {e}
    BY <1>1, <1>2, <1>5, <2>1 DEF Upto
  <2>5. \A f \in Upto(E, n - 1) : f.id < e.id /\ f.id <= e.id
    BY <1>1, <1>2, <1>5 DEF Upto
  <2>6. AreEvents(Upto(E, n))
    BY DEF AreEvents, Upto
  <2>7. e.id <= e.id
    BY <1>1
  <2>8. CASE e.task = t /\ SetsEdges(e)
    <3>1. IsLatest(Upto(E, n), t, e)
      BY <2>4, <2>5, <2>7, <2>8 DEF IsLatest
    <3> QED  BY <2>2, <2>3, <2>6, <2>8, <3>1, LatestIsOne
  <2>9. CASE ~ (e.task = t /\ SetsEdges(e))
    <3>1. \A f : IsLatest(Upto(E, n), t, f) <=> IsLatest(Upto(E, n - 1), t, f)
      BY <2>4, <2>9 DEF IsLatest
    <3>2. EdgesIn(Upto(E, n))[t] = EdgesIn(Upto(E, n - 1))[t]
      BY <2>4, <3>1 DEF EdgesIn, IsLatest
    <3> QED  BY <1>3, <2>2, <2>3, <2>9, <3>2
  <2> QED  BY <2>8, <2>9
<1> QED  BY <1>4, <1>5

\* A replay that is not malformed has the edges that its events set last.
LEMMA EdgesFold ==
    ASSUME NEW E, AreEvents(E), NEW lv, ~ Fold(E, lv).error
    PROVE  EdgesOf(Fold(E, lv)) = EdgesIn(E)
<1> DEFINE f == States(E, lv)
           P(n) == ~ f[n].error => \A t \in Tasks :
                      EdgesOf(f[n])[t] = EdgesIn(Upto(E, n))[t]
           Bad == {n \in 0 .. MaxId : ~ P(n)}
<1>1. AreStates(f, E, lv) /\ MaxId \in Nat
      /\ \A e \in E : e.id \in 1 .. MaxId
  BY StatesExist, ReplayAssumption DEF AreEvents, IsEvent, Ids
<1>2. P(0)
  <2>1. f[0] = InitState
    BY <1>1 DEF AreStates, After
  <2>2. Upto(E, 0) = {}
    BY <1>1 DEF Upto
  <2>3. DOMAIN InitState.tasks = {}
    BY DEF InitState, Empty
  <2> HIDE DEF f
  <2> QED  BY <2>1, <2>2, <2>3 DEF EdgesOf, EdgesIn
<1>3. ASSUME NEW n \in 1 .. MaxId, P(n - 1)
      PROVE  P(n)
  <2>1. n - 1 \in 0 .. MaxId /\ n \in 0 .. MaxId /\ n # 0
    BY <1>1
  <2>2. f[n] = Turn(E, lv, f[n - 1], n)
    BY <1>1, <2>1 DEF AreStates, After
  <2>3. FoldInv(E, n - 1, f[n - 1])
    BY <2>1, StatesKeep
  <2> HIDE DEF f
  <2> QED  BY <1>3, <2>2, <2>3, EdgesTurn
<1> HIDE DEF P
<1>4. Bad = {}
  <2> SUFFICES ASSUME Bad # {}
               PROVE  FALSE
    OBVIOUS
  <2>1. Bad \in SUBSET Nat
    BY <1>1
  <2>2. PICK n \in Bad : \A k \in Bad : n <= k
    BY <2>1, LeastOf
  <2>3. n # 0 /\ n \in 1 .. MaxId
    BY <1>1, <1>2, <2>2
  <2>4. n - 1 \in 0 .. MaxId /\ ~ n <= n - 1
    BY <1>1, <2>3
  <2>5. P(n - 1)
    BY <2>2, <2>4
  <2> QED  BY <1>3, <2>2, <2>3, <2>5
<1>5. P(MaxId)
  BY <1>1, <1>4
<1>6. Fold(E, lv) = f[MaxId]
  BY FoldIsLastState
<1>7. Upto(E, MaxId) = E
  BY <1>1 DEF Upto
<1>8. \A t \in Tasks : EdgesOf(Fold(E, lv))[t] = EdgesIn(E)[t]
  BY <1>5, <1>6, <1>7 DEF P
<1> QED  BY <1>8 DEF EdgesOf, EdgesIn

-----------------------------------------------------------------------------
(***************************************************************************)
(* Bringing one head into another: there is no confirmation to refuse.     *)
(***************************************************************************)
LEMMA UnionOfHeads ==
    ASSUME NEW g, NEW h, NEW last, HeadFits(g, last), HeadFits(h, last)
    PROVE  \/ Reconciled(g, h) \in {g, h}
           \/ /\ Reconciled(g, h) =
                    [events |-> Reconciled(g, h).events,
                     leases |-> Reconciled(g, h).leases,
                     seen |-> Reconciled(g, h).seen]
              /\ Reconciled(g, h).events = g.events \cup h.events
              /\ Reconciled(g, h).seen = g.seen \cup h.seen
              /\ Reconciled(g, h).leases \in [Ids -> Lease]
<1>1. Refused(g, h) = {}
  BY DEF Refused, OneSidedConfirmations, HeadFits
<1>2. \A c \in Ids : PickLease(g.leases[c], h.leases[c]) \in Lease
  BY DEF PickLease, HeadFits
<1>3. CASE Reconciled(g, h) = MergeTrees(g, h)
  BY <1>1, <1>2, <1>3 DEF MergeTrees
<1>4. CASE Reconciled(g, h) # MergeTrees(g, h)
  BY <1>4 DEF Reconciled
<1> QED  BY <1>3, <1>4

LEMMA AdoptedFits ==
    ASSUME NEW K, NEW last, \A x \in K : HeadFits(x, last), HeadsAgree(K),
           NEW g \in K, NEW h \in K
    PROVE  /\ HeadFits(Reconciled(g, h), last)
           /\ HeadsAgree(K \cup {Reconciled(g, h)})
<1> DEFINE r == Reconciled(g, h)
<1>1. CASE r \in {g, h}
  BY <1>1 DEF HeadsAgree
<1>2. CASE /\ r = [events |-> r.events, leases |-> r.leases, seen |-> r.seen]
           /\ r.events = g.events \cup h.events
           /\ r.seen = g.seen \cup h.seen
           /\ r.leases \in [Ids -> Lease]
  <2> HIDE DEF r
  <2>1. HeadFits(g, last) /\ HeadFits(h, last)
    OBVIOUS
  <2>2. r.seen = {e.id : e \in r.events}
    BY <1>2, <2>1 DEF HeadFits
  <2>3. HeadFits(r, last)
    BY <1>2, <2>1, <2>2 DEF HeadFits
  <2>4. HeadsAgree(K \cup {r})
    BY <1>2 DEF HeadsAgree
  <2> QED  BY <2>3, <2>4 DEF r
<1> QED  BY <1>1, <1>2, UnionOfHeads

LEMMA UnionIsSound ==
    ASSUME NEW E, NEW F, Sound(E), Sound(F),
           \A e \in E, f \in F : e.id = f.id => e = f,
           \A e \in E, f \in F :
              /\ e.type = "task.created" /\ f.type = "task.created"
              /\ e.task = f.task
              => e = f
    PROVE  Sound(E \cup F)
<1>1. AreEvents(E \cup F)
  BY DEF Sound, AreEvents
<1>2. \A e, f \in E \cup F :
          /\ e.type = "task.created" /\ f.type = "task.created"
          /\ e.task = f.task
          => e = f
  BY DEF Sound
<1>3. \A e \in E \cup F :
          e.type \in {"task.updated", "claim.made", "run.finished",
                      "escalation.raised"} =>
             \E f \in E \cup F : /\ f.type = "task.created"
                                 /\ f.task = e.task /\ f.id < e.id
  BY DEF Sound
<1>4. \A e \in E \cup F : e.type = "claim.confirmed" =>
          \E f \in E \cup F : /\ f.type = "claim.made" /\ f.id = e.claim
                              /\ f.task = e.task /\ f.id < e.id
  BY DEF Sound
<1>5. \A e \in E \cup F : e.type = "escalation.answered" =>
          \E f \in E \cup F : /\ f.type = "escalation.raised"
                              /\ f.id = e.escalation
                              /\ f.task = e.task /\ f.id < e.id
  BY DEF Sound
<1> QED  BY <1>1, <1>2, <1>3, <1>4, <1>5 DEF Sound

LEMMA ReconciledSound ==
    ASSUME NEW K, NEW last, \A x \in K : HeadFits(x, last), HeadsAgree(K),
           NEW n, HeadsSound(K, n), NEW g \in K, NEW h \in K
    PROVE  HeadsSound(K \cup {Reconciled(g, h)}, n)
<1> DEFINE r == Reconciled(g, h)
<1>1. CASE r \in {g, h}
  BY <1>1 DEF HeadsSound
<1>2. CASE r.events = g.events \cup h.events
  <2> HIDE DEF r
  <2>1. Sound(r.events)
    BY <1>2, UnionIsSound DEF HeadsSound, HeadsAgree
  <2>2. HeadsSound(K \cup {r}, n)
    BY <1>2, <2>1, ZenonT(60) DEF HeadsSound
  <2> QED  BY <2>2 DEF r
<1> QED  BY <1>1, <1>2, UnionOfHeads

-----------------------------------------------------------------------------
(***************************************************************************)
(* A commit of events D on top of head h.                                  *)
(***************************************************************************)
IdsOf(D) == {e.id : e \in D}

Atop(h, D, leases) ==
    [events |-> h.events \cup D, leases |-> leases,
     seen |-> h.seen \cup IdsOf(D)]

\* New events, with ids that nobody has.
Fresh(K, D, last) ==
    /\ \A e \in D : IsEvent(e) /\ e.type # "claim.confirmed"
    /\ \A e, f \in D : e.id = f.id => e = f
    /\ IdsOf(D) \subseteq 1 .. last
    /\ \A x \in K : IdsOf(D) \cap x.seen = {}

LEMMA CommitFits ==
    ASSUME NEW K, NEW last, \A x \in K : HeadFits(x, last), HeadsAgree(K),
           NEW h \in K, NEW D, Fresh(K, D, last), NEW L \in [Ids -> Lease]
    PROVE  /\ HeadFits(Atop(h, D, L), last)
           /\ HeadsAgree(K \cup {Atop(h, D, L)})
<1> DEFINE x == Atop(h, D, L)
<1>1. /\ x = [events |-> x.events, leases |-> x.leases, seen |-> x.seen]
      /\ x.events = h.events \cup D
      /\ x.seen = h.seen \cup IdsOf(D)
      /\ x.leases = L
  BY DEF Atop
<1> HIDE DEF x
<1>2. x.seen = {e.id : e \in x.events}
  BY <1>1 DEF HeadFits, IdsOf
<1>3. HeadFits(x, last)
  BY <1>1, <1>2 DEF HeadFits, Fresh
<1>4. \A g \in K : \A e \in g.events, f \in D : e.id # f.id
  BY DEF Fresh, HeadFits, IdsOf
<1>5. HeadsAgree(K \cup {x})
  BY <1>1, <1>4 DEF HeadsAgree, Fresh
<1> QED  BY <1>3, <1>5 DEF x

\* What D refers to in the events E below it.
Founded(D, E) ==
    /\ \A e \in D : e.type \in {"task.created", "task.updated", "claim.made",
                                "escalation.raised", "escalation.answered"}
    /\ \A e \in D :
          e.type \in {"task.updated", "claim.made", "escalation.raised"} =>
             \E f \in E : f.type = "task.created" /\ f.task = e.task
    /\ \A e \in D : e.type = "escalation.answered" =>
          \E f \in E : /\ f.type = "escalation.raised" /\ f.id = e.escalation
                       /\ f.task = e.task

LEMMA WrittenSound ==
    ASSUME NEW K, NEW last \in Nat,
           \A x \in K : HeadFits(x, last), HeadsAgree(K),
           NEW n \in Nat, HeadsSound(K, n),
           NEW h \in K, NEW D, Fresh(K, D, last), NEW L,
           NEW m \in Nat, n <= m, \A e \in D : e.id \in n + 1 .. m,
           Founded(D, h.events),
           \A e, f \in D :
              /\ e.type = "task.created" /\ f.type = "task.created"
              /\ e.task = f.task
              => e = f,
           \A x \in K : \A e \in D, f \in x.events :
              ~ (/\ e.type = "task.created" /\ f.type = "task.created"
                 /\ e.task = f.task)
    PROVE  HeadsSound(K \cup {Atop(h, D, L)}, m)
<1> DEFINE x == Atop(h, D, L)
           E == h.events
<1>1. x.events = E \cup D
  BY DEF Atop
<1> HIDE DEF x
<1>2. \A y \in K : \A f \in y.events : f.id \in Nat /\ f.id <= n /\ f.id <= m
  BY DEF HeadFits, HeadsSound, IsEvent, Ids
<1>3. \A e \in D, f \in E : f.id < e.id
  BY <1>2
<1>4. AreEvents(x.events)
  <2>1. \A e \in D, f \in E : e.id # f.id
    BY <1>2
  <2> QED  BY <1>1, <2>1 DEF AreEvents, Fresh, HeadFits, HeadsAgree
<1>5. Sound(E)
  BY DEF HeadsSound
<1>6. \A e, f \in x.events :
          /\ e.type = "task.created" /\ f.type = "task.created"
          /\ e.task = f.task
          => e = f
  BY <1>1, <1>5 DEF Sound
<1>7. \A e \in x.events :
          e.type \in {"task.updated", "claim.made", "run.finished",
                      "escalation.raised"} =>
             \E f \in x.events : /\ f.type = "task.created"
                                 /\ f.task = e.task /\ f.id < e.id
  <2> SUFFICES ASSUME NEW e \in x.events,
                      e.type \in {"task.updated", "claim.made",
                                  "run.finished", "escalation.raised"}
               PROVE  \E f \in x.events :
                         /\ f.type = "task.created"
                         /\ f.task = e.task /\ f.id < e.id
    OBVIOUS
  <2>1. CASE e \in E
    BY <1>1, <1>5, <2>1 DEF Sound
  <2>2. CASE e \in D
    BY <1>1, <1>3, <2>2 DEF Founded
  <2> QED  BY <1>1, <2>1, <2>2
<1>8. \A e \in x.events : e.type = "claim.confirmed" =>
          \E f \in x.events : /\ f.type = "claim.made" /\ f.id = e.claim
                              /\ f.task = e.task /\ f.id < e.id
  BY <1>1 DEF HeadFits, Fresh
<1>9. \A e \in x.events : e.type = "escalation.answered" =>
          \E f \in x.events : /\ f.type = "escalation.raised"
                              /\ f.id = e.escalation
                              /\ f.task = e.task /\ f.id < e.id
  <2> SUFFICES ASSUME NEW e \in x.events, e.type = "escalation.answered"
               PROVE  \E f \in x.events :
                         /\ f.type = "escalation.raised"
                         /\ f.id = e.escalation
                         /\ f.task = e.task /\ f.id < e.id
    OBVIOUS
  <2>1. CASE e \in E
    BY <1>1, <1>5, <2>1 DEF Sound
  <2>2. CASE e \in D
    BY <1>1, <1>3, <2>2 DEF Founded
  <2> QED  BY <1>1, <2>1, <2>2
<1>10. Sound(x.events)
  BY <1>4, <1>6, <1>7, <1>8, <1>9 DEF Sound
<1>11. \A e \in x.events : e.id <= m
  BY <1>1, <1>2
<1>12. \A y \in K : \A e \in x.events, f \in y.events :
          /\ e.type = "task.created" /\ f.type = "task.created"
          /\ e.task = f.task
          => e = f /\ f = e
  BY <1>1 DEF HeadsSound
<1>13. \A y \in K : Sound(y.events) /\ \A e \in y.events : e.id <= m
  BY <1>2 DEF HeadsSound
<1>14. \A g, y \in K : \A e \in g.events, f \in y.events :
          /\ e.type = "task.created" /\ f.type = "task.created"
          /\ e.task = f.task
          => e = f
  BY DEF HeadsSound
<1>15. HeadsSound(K \cup {x}, m)
  BY <1>6, <1>10, <1>11, <1>12, <1>13, <1>14 DEF HeadsSound
<1> QED  BY <1>15 DEF x

-----------------------------------------------------------------------------
(***************************************************************************)
(* What the writers of a head knew.                                        *)
(***************************************************************************)
KnownTo(h, kn, w) == {e \in h.events : e.id \in kn[w.id]}

\* The edges that e sets lead to tasks that were created, and E being what
\* there is, its task is on no loop.
IsSafeEdge(E, F, e) ==
    /\ \A d \in EdgesSet(e) : \E f \in F : f.type = "task.created"
                                           /\ f.task = d
    /\ e.task \notin Reachable(EdgesIn(E), e.task)

\* Whoever wrote w knew of w, of what was in its head and of what the writers
\* of that knew; and wrote no loop among the edges it knew of.
Knows(h, kn, w) ==
    /\ w.id \in kn[w.id]
    /\ kn[w.id] \subseteq h.seen
    /\ \A n \in kn[w.id] : kn[n] \subseteq kn[w.id]
    /\ SetsEdges(w) => IsSafeEdge(KnownTo(h, kn, w), h.events, w)

Knowing(h, kn) == \A w \in h.events : Knows(h, kn, w)

LEMMA MoreKnows ==
    ASSUME NEW g, NEW h, NEW last, HeadFits(g, last), HeadFits(h, last),
           \A e \in g.events, f \in h.events : e.id = f.id => e = f,
           NEW r, r.events = g.events \cup h.events,
           r.seen = g.seen \cup h.seen, NEW kn, NEW w \in g.events,
           Knows(g, kn, w)
    PROVE  Knows(r, kn, w)
<1>1. KnownTo(r, kn, w) = KnownTo(g, kn, w)
  <2>1. kn[w.id] \subseteq g.seen
    BY DEF Knows
  <2>2. ASSUME NEW e \in h.events, e.id \in kn[w.id]
        PROVE  e \in g.events
    <3>1. \E f \in g.events : f.id = e.id
      BY <2>1, <2>2 DEF HeadFits
    <3> QED  BY <3>1
  <2> QED  BY <2>2 DEF KnownTo
<1> QED  BY <1>1 DEF Knows, IsSafeEdge

LEMMA ReconciledKnows ==
    ASSUME NEW K, NEW last, \A x \in K : HeadFits(x, last), HeadsAgree(K),
           NEW kn, \A x \in K : Knowing(x, kn), NEW g \in K, NEW h \in K
    PROVE  Knowing(Reconciled(g, h), kn)
<1> DEFINE r == Reconciled(g, h)
<1>1. CASE r \in {g, h}
  BY <1>1
<1>2. CASE r.events = g.events \cup h.events /\ r.seen = g.seen \cup h.seen
  <2> HIDE DEF r
  <2>1. /\ \A e \in g.events, f \in h.events : e.id = f.id => e = f
        /\ \A e \in h.events, f \in g.events : e.id = f.id => e = f
    BY DEF HeadsAgree
  <2>2. r.events = h.events \cup g.events /\ r.seen = h.seen \cup g.seen
    BY <1>2
  <2>3. \A w \in g.events : Knows(r, kn, w)
    BY <1>2, <2>1, MoreKnows DEF Knowing
  <2>4. \A w \in h.events : Knows(r, kn, w)
    BY <2>1, <2>2, MoreKnows DEF Knowing
  <2> QED  BY <1>2, <2>3, <2>4 DEF Knowing, r
<1> QED  BY <1>1, <1>2, UnionOfHeads

\* What the writer of events D on top of h knows from then on.
Learnt(kn, h, D) ==
    [n \in Ids |-> IF n \in IdsOf(D) THEN h.seen \cup IdsOf(D) ELSE kn[n]]

\* Events D close no loop on top of h.
ClosesNoLoop(h, D) ==
    \A e \in D : SetsEdges(e) =>
        IsSafeEdge(h.events \cup D, h.events \cup D, e)

LEMMA StillKnows ==
    ASSUME NEW last, 1 .. last \subseteq Ids, NEW h, NEW D,
           NEW y, HeadFits(y, last), IdsOf(D) \cap y.seen = {},
           NEW kn, Knowing(y, kn)
    PROVE  Knowing(y, Learnt(kn, h, D))
<1> DEFINE kx == Learnt(kn, h, D)
<1>1. \A n \in y.seen : kx[n] = kn[n]
  BY DEF HeadFits, Learnt
<1> HIDE DEF kx
<1>2. ASSUME NEW w \in y.events
      PROVE  Knows(y, kx, w)
  <2>1. Knows(y, kn, w) /\ w.id \in y.seen
    BY DEF Knowing, HeadFits
  <2>2. kx[w.id] = kn[w.id] /\ \A n \in kn[w.id] : kx[n] = kn[n]
    BY <1>1, <2>1 DEF Knows
  <2>3. KnownTo(y, kx, w) = KnownTo(y, kn, w)
    BY <2>2 DEF KnownTo
  <2> QED  BY <2>1, <2>2, <2>3 DEF Knows
<1> QED  BY <1>2 DEF Knowing, kx

LEMMA WrittenKnows ==
    ASSUME NEW K, NEW last, 1 .. last \subseteq Ids,
           \A x \in K : HeadFits(x, last), HeadsAgree(K),
           NEW h \in K, NEW D, Fresh(K, D, last), NEW L \in [Ids -> Lease],
           NEW kn, \A x \in K : Knowing(x, kn), ClosesNoLoop(h, D)
    PROVE  \A x \in K \cup {Atop(h, D, L)} : Knowing(x, Learnt(kn, h, D))
<1> DEFINE x == Atop(h, D, L)
           kx == Learnt(kn, h, D)
<1>1. \A y \in K : Knowing(y, kx)
  BY StillKnows DEF Fresh
<1>2. /\ x.events = h.events \cup D
      /\ x.seen = h.seen \cup IdsOf(D)
      /\ h.seen = {e.id : e \in h.events}
      /\ \A e \in D : e.id \in IdsOf(D) /\ e.id \in Ids
      /\ IdsOf(D) \cap h.seen = {}
      /\ IdsOf(D) \subseteq Ids /\ h.seen \subseteq Ids
  BY DEF Atop, HeadFits, IdsOf, Fresh
<1>3. \A n \in IdsOf(D) : kx[n] = h.seen \cup IdsOf(D)
  BY <1>2 DEF Learnt
<1> HIDE DEF x, kx
<1>4. ASSUME NEW w \in h.events
      PROVE  Knows(x, kx, w)
  <2>1. Knows(h, kx, w)
    BY <1>1 DEF Knowing
  <2>2. KnownTo(x, kx, w) = KnownTo(h, kx, w)
    BY <1>2, <2>1 DEF KnownTo, Knows
  <2> QED  BY <1>2, <2>1, <2>2 DEF Knows, IsSafeEdge
<1>5. ASSUME NEW w \in D
      PROVE  Knows(x, kx, w)
  <2>1. kx[w.id] = h.seen \cup IdsOf(D)
    BY <1>2, <1>3
  <2>2. KnownTo(x, kx, w) = x.events
    BY <1>2, <2>1 DEF KnownTo
  <2>3. ASSUME NEW n \in h.seen
        PROVE  kx[n] \subseteq h.seen
    <3>1. PICK e \in h.events : e.id = n
      BY <1>2
    <3> QED  BY <1>1, <3>1 DEF Knowing, Knows
  <2>4. \A n \in kx[w.id] : kx[n] \subseteq kx[w.id]
    BY <1>3, <2>1, <2>3
  <2>5. SetsEdges(w) => IsSafeEdge(x.events, x.events, w)
    BY <1>2 DEF ClosesNoLoop
  <2> QED  BY <1>2, <2>1, <2>2, <2>4, <2>5 DEF Knows
<1>6. Knowing(x, kx)
  BY <1>2, <1>4, <1>5 DEF Knowing
<1> QED  BY <1>1, <1>6 DEF x, kx

-----------------------------------------------------------------------------
(***************************************************************************)
(* What the checks of the operations see to.                               *)
(***************************************************************************)
\* One event that sets the edges of t last.
LEMMA EdgesOn ==
    ASSUME NEW E, AreEvents(E), NEW e, AreEvents(E \cup {e}), SetsEdges(e),
           \A f \in E : f.id < e.id
    PROVE  EdgesIn(E \cup {e}) = [EdgesIn(E) EXCEPT ![e.task] = EdgesSet(e)]
<1>1. e.task \in Tasks /\ e.id \in Nat /\ \A f \in E : f.id \in Nat
  BY ReplayAssumption DEF AreEvents, IsEvent, Ids
<1>2. EdgesIn(E \cup {e})[e.task] = EdgesSet(e)
  <2>1. IsLatest(E \cup {e}, e.task, e)
    BY <1>1 DEF IsLatest
  <2> QED  BY <1>1, <2>1, LatestIsOne
<1>3. ASSUME NEW t \in Tasks, t # e.task
      PROVE  EdgesIn(E \cup {e})[t] = EdgesIn(E)[t]
  <2>1. \A f : IsLatest(E \cup {e}, t, f) <=> IsLatest(E, t, f)
    BY <1>3 DEF IsLatest
  <2> QED  BY <2>1 DEF EdgesIn, IsLatest
<1>4. EdgesIn(E) = [t \in Tasks |-> EdgesIn(E)[t]]
      /\ EdgesIn(E \cup {e}) = [t \in Tasks |-> EdgesIn(E \cup {e})[t]]
  BY DEF EdgesIn
<1> QED  BY <1>1, <1>2, <1>3, <1>4

\* A batch of new tasks, to which no older edge leads, and that has no loop
\* of its own.
LEMMA BatchClosesNoLoop ==
    ASSUME NEW new, new \subseteq Tasks,
           NEW succ \in [Tasks -> SUBSET Tasks],
           \A u \in Tasks \ new : succ[u] \cap new = {},
           ~ HasCycle([t \in new |-> succ[t] \cap new]), NEW t \in new
    PROVE  t \notin Reachable(succ, t)
<1> DEFINE adj == [u \in new |-> succ[u] \cap new]
<1>1. adj \in [new -> SUBSET new] /\ IsFiniteSet(new)
      /\ \A u \in new : adj[u] = succ[u] \cap new
  BY BacklogAssumption, FS_Subset
<1>2. DOMAIN adj = new
  OBVIOUS
<1> HIDE DEF adj
<1>3. t \notin ReachIn(adj, t)
  BY <1>1, HasCycleIsRight DEF adj
<1>4. PICK S \in SUBSET new :
         /\ adj[t] \subseteq S
         /\ \A v \in S : adj[v] \subseteq S
         /\ t \notin S
  BY <1>2, <1>3 DEF ReachIn
<1> DEFINE C == S \cup (Tasks \ new)
<1>5. /\ C \in SUBSET Tasks /\ t \notin C /\ succ[t] \subseteq C
      /\ \A v \in C : succ[v] \subseteq C
  BY <1>1, <1>4
<1> QED  BY <1>5 DEF Reachable

-----------------------------------------------------------------------------
(***************************************************************************)
(* Ids.                                                                    *)
(***************************************************************************)
\* The ids of a batch are consecutive: as many of them as there are tasks.
LEMMA BatchIsAnInterval ==
    ASSUME NEW new, IsFiniteSet(new), NEW first \in Nat,
           NEW ids \in BatchIds(new, first),
           \A t, u \in new : ids[t] = ids[u] => t = u
    PROVE  /\ {ids[t] : t \in new} = first .. first + Cardinality(new) - 1
           /\ Cardinality({ids[t] : t \in new}) = Cardinality(new)
<1> DEFINE n == Cardinality(new)
           I == first .. first + n - 1
<1>1. n \in Nat
  BY FS_CardinalityType
<1>2. IsFiniteSet(I) /\ Cardinality(I) = n
  <2>1. IsFiniteSet(I)
        /\ Cardinality(I) = IF first > first + n - 1 THEN 0
                            ELSE (first + n - 1) - first + 1
    <3>1. first \in Int /\ first + n - 1 \in Int
      BY <1>1
    <3> HIDE DEF n
    <3> QED  BY <3>1, FS_Interval
  <2> QED  BY <1>1, <2>1
<1>3. ids \in Injection(new, I)
  BY DEF BatchIds, Injection, IsInjective
<1>4. ids \in Surjection(new, I)
  BY <1>2, <1>3, FS_Injection
<1>5. {ids[t] : t \in new} = I
  BY <1>3, <1>4 DEF Injection, Surjection
<1> QED  BY <1>2, <1>5

LEMMA CreatedIds ==
    ASSUME NEW new, NEW a, NEW ids, NEW items, DOMAIN items = new
    PROVE  IdsOf(Created(a, items, ids)) = {ids[t] : t \in new}
<1> DEFINE E(t) == [id |-> ids[t], type |-> "task.created", task |-> t,
                    actor |-> a, status |-> items[t].status,
                    deps |-> items[t].deps]
<1>1. Created(a, items, ids) = {E(t) : t \in new}
  BY DEF Created
<1>2. \A t \in new : E(t).id = ids[t]
  OBVIOUS
<1> HIDE DEF E
<1>3. {e.id : e \in {E(t) : t \in new}} = {ids[t] : t \in new}
  BY <1>2
<1> QED  BY <1>1, <1>3 DEF IdsOf

LEMMA OneId ==
    ASSUME NEW e
    PROVE  IdsOf({e}) = {e.id} /\ Cardinality(IdsOf({e})) = 1
<1>1. IdsOf({e}) = {e.id}
  BY DEF IdsOf
<1> QED  BY <1>1, FS_Singleton

-----------------------------------------------------------------------------
(***************************************************************************)
(* What a daemon answers from.                                             *)
(***************************************************************************)
LEMMA ViewFacts ==
    ASSUME NEW h, AreEvents(h.events)
    PROVE  LET v == View(h)
           IN  /\ v.tasks = Fold(h.events, Expiries(h)).tasks
               /\ v.error = Fold(h.events, Expiries(h)).error
               /\ IsMap(v.tasks, Tasks, TaskRecord)
               /\ \A t \in DOMAIN v.tasks : \E f \in h.events :
                     f.type = "task.created" /\ f.task = t
               /\ \A x \in DOMAIN v.escalations : \E f \in h.events :
                     /\ f.type = "escalation.raised" /\ f.id = x
                     /\ f.task = v.escalations[x].task
<1> DEFINE lv  == Expiries(h)
           s   == Fold(h.events, lv)
           now == IDTime(MaxId)
           v   == View(h)
<1>1. FoldInv(h.events, MaxId, s)
  BY ReplayFacts
<1>2. v = Close(s, lv, now)
  BY DEF View, ReplayOf
<1>3. IsState(s) /\ Traced(h.events, MaxId, s)
  BY <1>1 DEF FoldInv
<1> HIDE DEF s, lv, now, v
<1>4. v.tasks = s.tasks /\ v.error = s.error
  BY <1>2, <1>3, CloseFacts
<1>5. v.escalations = s.escalations
  BY <1>2, <1>3 DEF Close, IsState
<1>6. /\ IsMap(s.tasks, Tasks, TaskRecord)
      /\ \A t \in DOMAIN s.tasks : \E f \in h.events :
            f.type = "task.created" /\ f.task = t
      /\ \A x \in DOMAIN s.escalations : \E f \in h.events :
            /\ f.type = "escalation.raised" /\ f.id = x
            /\ f.task = s.escalations[x].task
  BY <1>3 DEF IsState, Traced
<1> QED  BY <1>4, <1>5, <1>6 DEF v, s, lv

-----------------------------------------------------------------------------
(***************************************************************************)
(* The invariant.                                                          *)
(***************************************************************************)
Inv ==
    /\ world \in Worlds
    /\ clock \in 0 .. LastId
    /\ local = [m \in Machines |-> local[m]]
    /\ state = [m \in Machines |-> View(local[m])]
    /\ \A h \in Heads : HeadFits(h, LastId)
    /\ HeadsAgree(Heads)
    /\ knew \in [Ids -> SUBSET Ids]

\* What the operations of machine m write: events with the next ids, that
\* refer to what its head holds, and create tasks nobody else created.
Commit(m, D) ==
    /\ \A e \in D : IsEvent(e) /\ e.type # "claim.confirmed"
    /\ \A e, f \in D : e.id = f.id => e = f
    /\ Cardinality(IdsOf(D)) \in Nat \ {0}
    /\ IdsOf(D) = Mint(m) .. Mint(m) + Cardinality(IdsOf(D)) - 1
    /\ Founded(D, local[m].events)
    /\ \A e, f \in D :
          /\ e.type = "task.created" /\ f.type = "task.created"
          /\ e.task = f.task
          => e = f
    /\ \A x \in Heads : \A e \in D, f \in x.events :
          ~ (/\ e.type = "task.created" /\ f.type = "task.created"
             /\ e.task = f.task)

\* An operation of machine m: a commit of D, with the leases L.
Wrote(m, D, L) ==
    /\ L \in [Ids -> Lease]
    /\ Commit(m, D)
    /\ Write(m, D, L)
    /\ UNCHANGED <<world, remote>>

\* What m writes closes no loop on top of its head, if the ids there are
\* before the one it mints and their writers closed none that they knew of.
Careful(m, D) ==
    /\ Knowing(local[m], knew)
    /\ \A f \in local[m].events : f.id < Mint(m)
    => ClosesNoLoop(local[m], D)

LEMMA Bounds ==
    ASSUME Inv
    PROVE  /\ LastId \in Ids /\ LastId \in Nat /\ clock \in Nat
           /\ MaxId \in Nat
           /\ \A m \in Machines : Skew[m] \in Nat /\ Mint(m) \in Nat
           /\ 1 .. LastId \subseteq Ids
           /\ Births \subseteq TaskStatus
BY BacklogAssumption, ReplayAssumption
   DEF Inv, LastId, Ids, Mint, Births, TaskStatus

LEMMA WroteHeads ==
    ASSUME Inv, NEW m \in Machines, NEW D, NEW L, Wrote(m, D, L)
    PROVE  /\ Heads' \subseteq Heads \cup {Atop(local[m], D, L)}
           /\ Fresh(Heads, D, LastId)
           /\ local[m] \in Heads
           /\ L \in [Ids -> Lease]
           /\ LastId' = LastId
<1>1. local[m] \in Heads
  BY DEF Heads
<1>2. local' = [local EXCEPT ![m] = Atop(local[m], D, L)]
  BY DEF Wrote, Write, Atop, IdsOf
<1>3. \A k \in Machines : local'[k] \in Heads \cup {Atop(local[m], D, L)}
  BY <1>2 DEF Inv, Heads
<1>4. remote' \in Heads
  BY DEF Wrote, Heads
<1>5. Heads' \subseteq Heads \cup {Atop(local[m], D, L)}
  BY <1>3, <1>4 DEF Heads
<1>6. Fresh(Heads, D, LastId)
  BY DEF Wrote, Write, Commit, Fresh, IdsOf
<1> QED  BY <1>1, <1>5, <1>6 DEF Wrote, LastId

LEMMA WroteKeeps ==
    ASSUME Inv, NEW m \in Machines, NEW D, NEW L, Wrote(m, D, L)
    PROVE  Inv'
<1> DEFINE x == Atop(local[m], D, L)
<1>1. /\ Heads' \subseteq Heads \cup {x}
      /\ Fresh(Heads, D, LastId) /\ local[m] \in Heads
      /\ LastId' = LastId /\ L \in [Ids -> Lease]
  BY WroteHeads
<1>2. HeadFits(x, LastId) /\ HeadsAgree(Heads \cup {x})
  <2>1. (\A h \in Heads : HeadFits(h, LastId)) /\ HeadsAgree(Heads)
    BY DEF Inv
  <2> QED  BY <1>1, <2>1, CommitFits
<1> HIDE DEF x
<1>3. (\A h \in Heads' : HeadFits(h, LastId)) /\ HeadsAgree(Heads')
  BY <1>1, <1>2 DEF Inv, HeadsAgree
<1>4. clock' \in 0 .. LastId'
  <2> DEFINE n == Cardinality(IdsOf(D))
  <2>1. clock' = clock + n
    BY DEF Wrote, Write, IdsOf
  <2>2. n \in Nat \ {0} /\ IdsOf(D) = Mint(m) .. Mint(m) + n - 1
        /\ IdsOf(D) \subseteq 1 .. LastId
    BY <1>1 DEF Wrote, Commit, Fresh
  <2> HIDE DEF n
  <2>3. Mint(m) + n - 1 \in IdsOf(D)
    BY <2>2, Bounds
  <2>4. Mint(m) + n - 1 <= LastId
    BY <2>2, <2>3, Bounds
  <2> QED  BY <1>1, <2>1, <2>2, <2>4, Bounds DEF Mint
<1>5. local' = [k \in Machines |-> local'[k]]
  BY DEF Wrote, Write, Inv
<1>6. state' = [k \in Machines |-> View(local'[k])]
  <2>1. /\ local = [k \in Machines |-> local[k]]
        /\ state = [k \in Machines |-> View(local[k])]
    BY DEF Inv
  <2>2. /\ \E y : local' = [local EXCEPT ![m] = y]
        /\ state' = [state EXCEPT ![m] = View(local'[m])]
    BY DEF Wrote, Write
  <2>3. \A k \in Machines : k # m => local'[k] = local[k]
    BY <2>1, <2>2
  <2> QED  BY <2>1, <2>2, <2>3
<1>7. knew' \in [Ids -> SUBSET Ids]
  <2>1. local[m].seen \subseteq Ids /\ IdsOf(D) \subseteq Ids
    BY <1>1, Bounds DEF Inv, HeadFits, Fresh
  <2> QED  BY <2>1 DEF Inv, Wrote, Write, IdsOf
<1> QED  BY <1>1, <1>3, <1>4, <1>5, <1>6, <1>7 DEF Inv, Wrote

\* Of clocks that agree, the next id is later than all there are.
LEMMA WroteSounds ==
    ASSUME Inv, NEW m \in Machines, NEW D, NEW L, Wrote(m, D, L),
           HeadsSound(Heads, clock + Skew[m])
    PROVE  HeadsSound(Heads', clock' + Skew[m])
<1> DEFINE x == Atop(local[m], D, L)
           n == Cardinality(IdsOf(D))
           before == clock + Skew[m]
           after  == clock' + Skew[m]
<1>1. /\ Heads' \subseteq Heads \cup {x}
      /\ Fresh(Heads, D, LastId) /\ local[m] \in Heads
  BY WroteHeads
<1>2. clock' = clock + n
  BY DEF Wrote, Write, IdsOf
<1>3. n \in Nat \ {0} /\ IdsOf(D) = Mint(m) .. Mint(m) + n - 1
  BY DEF Wrote, Commit
<1>4. /\ before \in Nat /\ after \in Nat /\ before <= after
      /\ \A e \in D : e.id \in before + 1 .. after
  <2>1. \A e \in D : e.id \in IdsOf(D)
    BY DEF IdsOf
  <2>2. /\ clock \in Nat /\ Skew[m] \in Nat /\ n \in Nat \ {0}
        /\ Mint(m) = clock + 1 + Skew[m]
    BY <1>3, Bounds DEF Mint
  <2> HIDE DEF n
  <2>3. before \in Nat /\ after \in Nat /\ before <= after
    BY <1>2, <2>2
  <2>4. \A i \in IdsOf(D) : i \in before + 1 .. after
    BY <1>2, <1>3, <2>2
  <2> QED BY <2>1, <2>3, <2>4
<1>5. HeadsSound(Heads \cup {x}, after)
  <2>1. (\A h \in Heads : HeadFits(h, LastId)) /\ HeadsAgree(Heads)
    BY DEF Inv
  <2>2. /\ Founded(D, local[m].events)
        /\ \A e, f \in D :
              /\ e.type = "task.created" /\ f.type = "task.created"
              /\ e.task = f.task
              => e = f
        /\ \A y \in Heads : \A e \in D, f \in y.events :
              ~ (/\ e.type = "task.created" /\ f.type = "task.created"
                 /\ e.task = f.task)
    BY DEF Wrote, Commit
  <2>3. HeadsSound(Heads, before) /\ LastId \in Nat
    BY Bounds
  <2> HIDE DEF before, after, n
  <2> QED  BY <1>1, <1>4, <2>1, <2>2, <2>3, WrittenSound
<1> HIDE DEF x, after
<1>6. HeadsSound(Heads', after)
  BY <1>1, <1>5 DEF HeadsSound
<1> QED  BY <1>6 DEF after

\* A careful commit leaves heads whose writers closed no loop they knew of.
LEMMA WroteKnows ==
    ASSUME Inv, NEW m \in Machines, NEW D, NEW L, Wrote(m, D, L),
           Careful(m, D), \A f \in local[m].events : f.id < Mint(m),
           \A h \in Heads : Knowing(h, knew)
    PROVE  \A h \in Heads' : Knowing(h, knew')
<1>1. /\ Heads' \subseteq Heads \cup {Atop(local[m], D, L)}
      /\ Fresh(Heads, D, LastId) /\ local[m] \in Heads
      /\ L \in [Ids -> Lease]
  BY WroteHeads
<1>2. knew' = Learnt(knew, local[m], D)
  BY DEF Wrote, Write, Learnt, IdsOf
<1>3. ClosesNoLoop(local[m], D)
  BY <1>1 DEF Careful
<1>4. /\ \A h \in Heads : HeadFits(h, LastId)
      /\ HeadsAgree(Heads) /\ 1 .. LastId \subseteq Ids
  BY Bounds DEF Inv
<1>5. \A h \in Heads \cup {Atop(local[m], D, L)} :
         Knowing(h, Learnt(knew, local[m], D))
  BY <1>1, <1>3, <1>4, WrittenKnows
<1> QED  BY <1>1, <1>2, <1>5

-----------------------------------------------------------------------------
(***************************************************************************)
(* The operations.                                                         *)
(***************************************************************************)
\* The head of a machine, and what its daemon knows of it.
LEMMA OwnHead ==
    ASSUME Inv, NEW m \in Machines
    PROVE  /\ local[m] \in Heads
           /\ state[m] = View(local[m])
           /\ HeadFits(local[m], LastId)
           /\ AreEvents(local[m].events)
           /\ local[m].leases \in [Ids -> Lease]
           /\ \A t \in DOMAIN state[m].tasks : t \in Tasks /\
                 \E f \in local[m].events :
                    f.type = "task.created" /\ f.task = t
           /\ \A x \in DOMAIN state[m].escalations : \E f \in local[m].events :
                 /\ f.type = "escalation.raised" /\ f.id = x
                 /\ f.task = state[m].escalations[x].task
<1>1. local[m] \in Heads /\ state[m] = View(local[m])
  BY DEF Heads, Inv
<1>2. HeadFits(local[m], LastId)
  BY <1>1 DEF Inv
<1>3. AreEvents(local[m].events)
  BY <1>1, <1>2 DEF AreEvents, HeadFits, Inv, HeadsAgree
<1>4. IsMap(state[m].tasks, Tasks, TaskRecord)
  BY <1>1, <1>3, ViewFacts
<1> QED  BY <1>1, <1>2, <1>3, <1>4, ViewFacts DEF IsMap, HeadFits

\* The edges of an answer are those that its head's events set last.
LEMMA EdgesOfAnswer ==
    ASSUME Inv, NEW m \in Machines, ~ state[m].error
    PROVE  EdgesOf(state[m]) = EdgesIn(local[m].events)
<1> DEFINE s == Fold(local[m].events, Expiries(local[m]))
<1>1. state[m].tasks = s.tasks /\ state[m].error = s.error
  BY OwnHead, ViewFacts
<1>2. EdgesOf(s) = EdgesIn(local[m].events)
  BY <1>1, OwnHead, EdgesFold
<1> HIDE DEF s
<1> QED  BY <1>1, <1>2 DEF EdgesOf

\* D creates the tasks in new with the edges of items; no head has them.
IsBatchOf(D, new, items) ==
    /\ DOMAIN items = new
    /\ \A t \in new : items[t].deps \in DepLists
    /\ \A e \in D : e.type = "task.created" /\ \E t \in new :
          e.task = t /\ e.deps = items[t].deps
    /\ \A t \in new : \E e \in D : e.task = t
    /\ \A e, f \in D : e.task = f.task => e = f
    /\ \A x \in Heads : \A e \in D, f \in x.events : e.task # f.task

\* A batch that passes the checks closes no loop.
LEMMA BatchIsSafe ==
    ASSUME Inv, NEW m \in Machines, ~ state[m].error,
           Knowing(local[m], knew), NEW new \in SUBSET Tasks,
           NEW items, NEW ids, IsBatch(DOMAIN state[m].tasks, items, ids),
           NEW D, IsBatchOf(D, new, items), NEW L, Wrote(m, D, L)
    PROVE  ClosesNoLoop(local[m], D)
<1>0. /\ DOMAIN items = new
      /\ \A t \in new : items[t].deps \in DepLists
      /\ \A e \in D : e.type = "task.created" /\ \E t \in new :
            e.task = t /\ e.deps = items[t].deps
      /\ \A t \in new : \E e \in D : e.task = t
      /\ \A e, f \in D : e.task = f.task => e = f
      /\ \A x \in Heads : \A e \in D, f \in x.events : e.task # f.task
  BY DEF IsBatchOf
<1> USE <1>0
<1> DEFINE E == local[m].events
           F == E \cup D
           succ == EdgesIn(F)
           adj == [t \in new |-> items[t].deps \cap new]
<1>1. /\ local[m] \in Heads /\ AreEvents(E)
      /\ \A t \in DOMAIN state[m].tasks : t \in Tasks /\
            \E f \in E : f.type = "task.created" /\ f.task = t
  BY OwnHead
<1>2. AreEvents(F)
  <2>1. Fresh(Heads, D, LastId) /\ HeadFits(local[m], LastId)
    BY WroteHeads, OwnHead
  <2>2. \A e \in E, f \in D : e.id # f.id
    BY <1>1, <2>1 DEF Fresh, HeadFits, IdsOf
  <2> QED  BY <1>1, <2>1, <2>2 DEF AreEvents, Fresh
<1>3. \A e \in D : SetsEdges(e) /\ EdgesSet(e) = e.deps
  BY DEF SetsEdges, EdgesSet
<1>4. succ \in [Tasks -> SUBSET Tasks]
  BY DEF EdgesIn
<1>5. \A e \in D : IsLatest(F, e.task, e)
  <2>1. \A e \in F : e.id \in Nat
    BY <1>2, ReplayAssumption DEF AreEvents, IsEvent, Ids
  <2>2. ASSUME NEW e \in D, NEW f \in F, f.task = e.task
        PROVE  f.id <= e.id
    <3>1. f = e
      BY <1>1, <2>2
    <3> QED  BY <2>1, <3>1
  <2> QED  BY <1>3, <2>2 DEF IsLatest
<1>6. ASSUME NEW e \in D
      PROVE  succ[e.task] = EdgesSet(e)
  <2>1. e.task \in Tasks /\ IsLatest(F, e.task, e)
    BY <1>2, <1>5 DEF AreEvents, IsEvent
  <2> HIDE DEF F
  <2> QED  BY <1>2, <2>1, LatestIsOne
<1>7. \A t \in new : succ[t] = items[t].deps
  <2> HIDE DEF succ
  <2> QED  BY <1>3, <1>6
<1>8. \A u \in Tasks \ new : succ[u] \cap new = {}
  <2> SUFFICES ASSUME NEW u \in Tasks \ new, NEW d \in succ[u], d \in new
               PROVE  FALSE
    OBVIOUS
  <2>1. PICK e \in F : IsLatest(F, u, e) /\ d \in EdgesSet(e)
    BY DEF EdgesIn, IsLatest
  <2>2. e \in E
    BY <2>1 DEF IsLatest
  <2>3. IsSafeEdge(KnownTo(local[m], knew, e), E, e)
    BY <2>1, <2>2 DEF Knowing, Knows, IsLatest
  <2>4. PICK f \in E : f.task = d
    BY <2>1, <2>3 DEF IsSafeEdge
  <2> QED  BY <1>1, <2>4
<1>9. \A t \in new : adj[t] = succ[t] \cap new
  BY <1>7
<1>10. ~ HasCycle([t \in new |-> succ[t] \cap new])
  <2>1. ~ HasCycle(adj)
    BY DEF IsBatch
  <2>2. adj = [t \in new |-> succ[t] \cap new]
    BY <1>9
  <2> QED  BY <2>1, <2>2
<1> HIDE DEF succ, adj
<1>11. \A t \in new : t \notin Reachable(succ, t)
  BY <1>4, <1>8, <1>10, BatchClosesNoLoop
<1>12. ASSUME NEW e \in D, NEW d \in e.deps
       PROVE  \E f \in F : f.type = "task.created" /\ f.task = d
  <2>1. PICK t \in new : e.deps = items[t].deps
    OBVIOUS
  <2>2. UnknownRefs(DOMAIN state[m].tasks \cup new, e.deps) = {}
    BY <2>1 DEF IsBatch
  <2>3. d \in DOMAIN state[m].tasks \/ d \in new
    BY <1>12, <2>2 DEF UnknownRefs
  <2> QED  BY <1>1, <2>3
<1>13. ASSUME NEW e \in D
       PROVE  IsSafeEdge(F, F, e)
  <2>1. EdgesSet(e) = e.deps /\ e.task \in new
    BY <1>3
  <2>2. e.task \notin Reachable(EdgesIn(F), e.task)
    BY <1>11, <2>1 DEF succ
  <2>3. \A d \in EdgesSet(e) :
           \E f \in F : f.type = "task.created" /\ f.task = d
    BY <1>12, <2>1
  <2> HIDE DEF F
  <2> QED  BY <2>2, <2>3 DEF IsSafeEdge
<1> QED  BY <1>13 DEF ClosesNoLoop

LEMMA CreateTasksWrites ==
    ASSUME Inv, NEW m \in Machines, NEW a \in Actors, CreateTasks(m, a)
    PROVE  \E D, L : Wrote(m, D, L) /\ Careful(m, D)
<1>1. PICK new \in (SUBSET (Tasks \ Minted)) \ {{}} :
         /\ Cardinality(new \cup Minted) <= Room
         /\ \E items \in Items(new), ids \in BatchIds(new, Mint(m)) :
                /\ IsBatch(DOMAIN state[m].tasks, items, ids)
                /\ Write(m, Created(a, items, ids), local[m].leases)
  BY DEF CreateTasks
<1>2. PICK items \in Items(new), ids \in BatchIds(new, Mint(m)) :
         /\ IsBatch(DOMAIN state[m].tasks, items, ids)
         /\ Write(m, Created(a, items, ids), local[m].leases)
  BY <1>1
<1> DEFINE D == Created(a, items, ids)
           n == Cardinality(IdsOf(D))
<1>3. DOMAIN items = new /\ \A t \in new : /\ t \in Tasks
                                           /\ items[t].status \in Births
                                           /\ items[t].deps \in DepLists
  BY DEF Items
<1>4. \A t, u \in new : ids[t] = ids[u] => t = u
  BY <1>2, <1>3 DEF IsBatch
<1>5. IsFiniteSet(new) /\ Cardinality(new) \in Nat \ {0}
  <2>1. IsFiniteSet(new)
    BY BacklogAssumption, FS_Subset
  <2>2. Cardinality(new) \in Nat
    BY <2>1, FS_CardinalityType
  <2>3. Cardinality(new) # 0
    <3>1. new # {}
      OBVIOUS
    <3>2. Cardinality(new) = 0 <=> new = {}
      BY <2>1, FS_EmptySet
    <3> QED  BY <3>1, <3>2
  <2> QED  BY <2>1, <2>2, <2>3
<1>6. IdsOf(D) = {ids[t] : t \in new}
  BY <1>3, CreatedIds
<1>7. n \in Nat \ {0} /\ IdsOf(D) = Mint(m) .. Mint(m) + n - 1
  <2>1. Mint(m) \in Nat
    BY Bounds
  <2> QED  BY <1>4, <1>5, <1>6, <2>1, BatchIsAnInterval
<1>8. IdsOf(D) \subseteq Ids
  BY <1>2, Bounds DEF Write, IdsOf
<1>9. \A e \in D : \E t \in new :
         /\ e = [id |-> ids[t], type |-> "task.created", task |-> t,
                 actor |-> a, status |-> items[t].status,
                 deps |-> items[t].deps]
         /\ ids[t] \in Ids
  BY <1>3, <1>6, <1>8 DEF Created
<1>10. \A e \in D : IsEvent(e) /\ e.type = "task.created" /\ e.task \in new
  <2> SUFFICES ASSUME NEW e \in D
               PROVE  IsEvent(e) /\ e.type = "task.created" /\ e.task \in new
    OBVIOUS
  <2>1. PICK t \in new :
         /\ e = [id |-> ids[t], type |-> "task.created", task |-> t,
                 actor |-> a, status |-> items[t].status,
                 deps |-> items[t].deps]
         /\ ids[t] \in Ids
    BY <1>9
  <2>2. /\ e.id \in Ids /\ e.type = "task.created" /\ e.task \in new
        /\ e.task \in Tasks /\ e.actor \in Actors
        /\ e.status \in TaskStatus /\ e.deps \in SUBSET Tasks
    BY <1>3, <2>1, Bounds DEF DepLists
  <2> QED  BY <2>2 DEF IsEvent
<1>11. \A e, f \in D : (e.id = f.id \/ e.task = f.task) => e = f
  BY <1>4, <1>9
<1>12. Founded(D, local[m].events)
  BY <1>10 DEF Founded
<1>13. \A x \in Heads : \A e \in D, f \in x.events : e.task # f.task
  BY <1>1, <1>10 DEF Minted
<1> HIDE DEF D
<1>14. Commit(m, D)
  BY <1>7, <1>10, <1>11, <1>12, <1>13 DEF Commit
<1>15. Wrote(m, D, local[m].leases)
  BY <1>2, <1>14, OwnHead DEF Wrote, CreateTasks, D
<1>16. ASSUME Knowing(local[m], knew)
       PROVE  ClosesNoLoop(local[m], D)
  <2>1. ~ state[m].error /\ new \in SUBSET Tasks
    BY DEF CreateTasks
  <2>2. \A e \in D : e.type = "task.created" /\ \E t \in new :
           e.task = t /\ e.deps = items[t].deps
    BY <1>9
  <2>3. ASSUME NEW t \in new
        PROVE  \E e \in D : e.task = t
    <3> DEFINE e == [id |-> ids[t], type |-> "task.created", task |-> t,
                     actor |-> a, status |-> items[t].status,
                     deps |-> items[t].deps]
    <3>1. e \in D
      BY <1>3 DEF D, Created
    <3>2. e.task = t
      OBVIOUS
    <3> QED  BY <3>1, <3>2
  <2>4. IsBatchOf(D, new, items)
    BY <1>3, <1>11, <1>13, <2>2, <2>3 DEF IsBatchOf
  <2>5. IsBatch(DOMAIN state[m].tasks, items, ids)
    BY <1>2
  <2> QED  BY <1>15, <1>16, <2>1, <2>4, <2>5, BatchIsSafe
<1>17. Careful(m, D)
  BY <1>16 DEF Careful
<1> QED  BY <1>15, <1>17

\* The operations that write one event, of a task that was there before.
LEMMA OneEventWrites ==
    ASSUME Inv, NEW m \in Machines, NEW e, NEW L \in [Ids -> Lease],
           e.id = Mint(m), e.task \in Tasks, e.actor \in Actors,
           Mint(m) \in Ids => IsEvent(e),
           e.type \in {"task.updated", "claim.made", "escalation.raised",
                       "escalation.answered"},
           e.type # "escalation.answered" =>
              \E f \in local[m].events :
                 f.type = "task.created" /\ f.task = e.task,
           e.type = "escalation.answered" =>
              \E f \in local[m].events :
                 /\ f.type = "escalation.raised" /\ f.id = e.escalation
                 /\ f.task = e.task,
           Write(m, {e}, L), UNCHANGED <<world, remote>>
    PROVE  Wrote(m, {e}, L)
<1>1. IdsOf({e}) = {Mint(m)} /\ Cardinality(IdsOf({e})) = 1
  BY OneId
<1>2. IdsOf({e}) = Mint(m) .. Mint(m) + Cardinality(IdsOf({e})) - 1
  <2>1. Mint(m) \in Nat /\ {Mint(m)} = Mint(m) .. Mint(m) + 1 - 1
    BY Bounds
  <2> QED  BY <1>1, <2>1
<1>3. Mint(m) \in Ids
  BY <1>1, Bounds DEF Write, IdsOf
<1>4. Founded({e}, local[m].events)
  BY DEF Founded
<1>5. Commit(m, {e})
  BY <1>1, <1>2, <1>3, <1>4 DEF Commit
<1> QED  BY <1>5 DEF Wrote

\* An edit that passes the checks closes no loop.
LEMMA EditIsSafe ==
    ASSUME Inv, NEW m \in Machines, ~ state[m].error,
           NEW t \in DOMAIN state[m].tasks, NEW e, e.type = "task.updated",
           e.task = t, e.id = Mint(m), e.deps \subseteq SUBSET Tasks,
           \A D \in e.deps : /\ UnknownRefs(DOMAIN state[m].tasks, D) = {}
                             /\ ~ DepLoop(state[m], t, D),
           NEW L, Wrote(m, {e}, L), \A f \in local[m].events : f.id < Mint(m)
    PROVE  ClosesNoLoop(local[m], {e})
<1> DEFINE E == local[m].events
           F == E \cup {e}
           D == EdgesSet(e)
<1> SUFFICES ASSUME SetsEdges(e)
             PROVE  IsSafeEdge(F, F, e)
  BY DEF ClosesNoLoop
<1>1. /\ AreEvents(E)
      /\ \A u \in DOMAIN state[m].tasks : u \in Tasks /\
            \E f \in E : f.type = "task.created" /\ f.task = u
  BY OwnHead
<1>2. D \in e.deps /\ D \in SUBSET Tasks
  BY DEF SetsEdges, EdgesSet
<1>3. AreEvents(F)
  <2>1. Fresh(Heads, {e}, LastId) /\ HeadFits(local[m], LastId)
    BY WroteHeads, OwnHead
  <2>2. \A f \in E : f.id # e.id
    <3>1. e.id \in Nat /\ \A f \in E : f.id \in Nat
      BY <1>1, Bounds, ReplayAssumption DEF AreEvents, IsEvent, Ids
    <3> QED  BY <3>1
  <2> QED  BY <1>1, <2>1, <2>2 DEF AreEvents, Fresh
<1> HIDE DEF D
<1>4. EdgesIn(F) = [EdgesIn(E) EXCEPT ![t] = D]
  BY <1>1, <1>3, EdgesOn DEF D
<1>5. EdgesIn(E) = EdgesOf(state[m])
  BY EdgesOfAnswer
<1>6. IsMap(state[m].tasks, Tasks, TaskRecord)
  BY OwnHead, ViewFacts
<1>7. t \notin Reachable(EdgesIn(F), t)
  <2>1. DepLoop(state[m], t, D) =
           (t \in Reachable([EdgesOf(state[m]) EXCEPT ![t] = D], t))
    BY <1>2, <1>6, DepLoopIsRight
  <2>2. ~ DepLoop(state[m], t, D)
    BY <1>2
  <2> QED  BY <1>4, <1>5, <2>1, <2>2
<1>8. \A d \in D : \E f \in F : f.type = "task.created" /\ f.task = d
  BY <1>1, <1>2 DEF UnknownRefs
<1> QED  BY <1>7, <1>8 DEF IsSafeEdge, D

\* Other events set no edges.
LEMMA NoEdgeIsSafe ==
    ASSUME NEW m, NEW e,
           e.type \in {"claim.made", "escalation.raised",
                       "escalation.answered"}
    PROVE  Careful(m, {e})
BY DEF Careful, ClosesNoLoop, SetsEdges

LEMMA UpdateTaskWrites ==
    ASSUME Inv, NEW m \in Machines, NEW a \in Actors, NEW t \in Tasks,
           UpdateTask(m, a, t)
    PROVE  \E D, L : Wrote(m, D, L) /\ Careful(m, D)
<1>1. t \in DOMAIN state[m].tasks
  BY DEF UpdateTask, Editable
<1>2. PICK status \in Maybe(StatusChoices), deps \in Maybe(DepLists) :
         /\ \A D \in deps : /\ UnknownRefs(DOMAIN state[m].tasks, D) = {}
                            /\ ~ DepLoop(state[m], t, D)
         /\ Write(m,
                  {[id |-> Mint(m), type |-> "task.updated", task |-> t,
                    actor |-> a, status |-> status, deps |-> deps,
                    fields |-> Fields(status, deps)]},
                  local[m].leases)
  BY DEF UpdateTask
<1> DEFINE e == [id |-> Mint(m), type |-> "task.updated", task |-> t,
                 actor |-> a, status |-> status, deps |-> deps,
                 fields |-> Fields(status, deps)]
<1>3. status \subseteq TaskStatus /\ deps \subseteq SUBSET Tasks
  BY BacklogAssumption DEF Maybe, DepLists
<1>4. /\ e.id = Mint(m) /\ e.type = "task.updated" /\ e.task = t
      /\ e.actor = a /\ e.status = status /\ e.deps = deps
  OBVIOUS
<1>5. Write(m, {e}, local[m].leases)
  BY <1>2
<1> HIDE DEF e
<1>6. Mint(m) \in Ids => IsEvent(e)
  BY <1>3, <1>4 DEF IsEvent
<1>7. Wrote(m, {e}, local[m].leases)
  BY <1>1, <1>4, <1>5, <1>6, OwnHead, OneEventWrites DEF UpdateTask
<1>8. ASSUME \A f \in local[m].events : f.id < Mint(m)
      PROVE  ClosesNoLoop(local[m], {e})
  BY <1>1, <1>2, <1>3, <1>4, <1>7, <1>8, EditIsSafe
     DEF UpdateTask, Editable
<1>9. Careful(m, {e})
  BY <1>8 DEF Careful
<1> QED  BY <1>7, <1>9

LEMMA ClaimTaskWrites ==
    ASSUME Inv, NEW m \in Machines, NEW a \in Actors, NEW t \in Tasks,
           ClaimTask(m, a, t)
    PROVE  \E D, L : Wrote(m, D, L) /\ Careful(m, D)
<1> DEFINE e == [id |-> Mint(m), type |-> "claim.made", task |-> t,
                 actor |-> a]
           r == [exp |-> IDTime(MaxId) + 1, released |-> FALSE]
           L == [local[m].leases EXCEPT ![Mint(m)] = r]
<1>1. t \in DOMAIN state[m].tasks /\ Write(m, {e}, L)
  BY DEF ClaimTask, Ready
<1>2. L \in [Ids -> Lease]
  <2>1. r \in Lease
    BY BacklogAssumption, Bounds DEF IDTime, Lease, Instants
  <2> HIDE DEF r
  <2> QED  BY <2>1, OwnHead
<1>3. /\ e.id = Mint(m) /\ e.type = "claim.made" /\ e.task = t
      /\ e.actor = a
  OBVIOUS
<1> HIDE DEF e, L
<1>4. Mint(m) \in Ids => IsEvent(e)
  BY <1>3 DEF IsEvent
<1>5. Wrote(m, {e}, L)
  BY <1>1, <1>2, <1>3, <1>4, OwnHead, OneEventWrites DEF ClaimTask
<1>6. Careful(m, {e})
  BY <1>3, NoEdgeIsSafe
<1> QED  BY <1>5, <1>6

LEMMA EscalateWrites ==
    ASSUME Inv, NEW m \in Machines, NEW a \in Actors, NEW t \in Tasks,
           Escalate(m, a, t)
    PROVE  \E D, L : Wrote(m, D, L) /\ Careful(m, D)
<1>1. t \in DOMAIN state[m].tasks
  BY DEF Escalate, Editable
<1>2. PICK blocking \in BOOLEAN :
         Write(m,
               {[id |-> Mint(m), type |-> "escalation.raised",
                 task |-> t, actor |-> a, blocking |-> blocking]},
               local[m].leases)
  BY DEF Escalate
<1> DEFINE e == [id |-> Mint(m), type |-> "escalation.raised",
                 task |-> t, actor |-> a, blocking |-> blocking]
<1>3. /\ e.id = Mint(m) /\ e.type = "escalation.raised" /\ e.task = t
      /\ e.actor = a /\ e.blocking \in BOOLEAN
      /\ Write(m, {e}, local[m].leases)
  BY <1>2
<1> HIDE DEF e
<1>4. Mint(m) \in Ids => IsEvent(e)
  BY <1>3 DEF IsEvent
<1>5. Wrote(m, {e}, local[m].leases)
  BY <1>1, <1>3, <1>4, OwnHead, OneEventWrites DEF Escalate
<1>6. Careful(m, {e})
  BY <1>3, NoEdgeIsSafe
<1> QED  BY <1>5, <1>6

LEMMA AnswerWrites ==
    ASSUME Inv, NEW m \in Machines, NEW a \in Actors, Answer(m, a)
    PROVE  \E D, L : Wrote(m, D, L) /\ Careful(m, D)
<1>1. PICK x \in DOMAIN state[m].escalations :
         Write(m,
               {[id |-> Mint(m), type |-> "escalation.answered",
                 task |-> state[m].escalations[x].task, actor |-> a,
                 escalation |-> x]},
               local[m].leases)
  BY DEF Answer
<1> DEFINE e == [id |-> Mint(m), type |-> "escalation.answered",
                 task |-> state[m].escalations[x].task, actor |-> a,
                 escalation |-> x]
<1>2. PICK f \in local[m].events :
         /\ f.type = "escalation.raised" /\ f.id = x
         /\ f.task = state[m].escalations[x].task
  BY OwnHead
<1>3. f.task \in Tasks
  BY OwnHead DEF HeadFits, IsEvent
<1>4. /\ e.id = Mint(m) /\ e.type = "escalation.answered"
      /\ e.task = f.task /\ e.actor = a /\ e.escalation = f.id
      /\ Write(m, {e}, local[m].leases)
  BY <1>1, <1>2
<1> HIDE DEF e
<1>5. Mint(m) \in Ids => IsEvent(e)
  BY <1>3, <1>4 DEF IsEvent
<1>6. Wrote(m, {e}, local[m].leases)
  BY <1>2, <1>3, <1>4, <1>5, OwnHead, OneEventWrites DEF Answer
<1>7. Careful(m, {e})
  BY <1>4, NoEdgeIsSafe
<1> QED  BY <1>6, <1>7

\* A cycle of the sync loop spreads the heads there are.
LEMMA SyncKeeps ==
    ASSUME Inv, NEW m \in Machines, Sync(m)
    PROVE  /\ Inv'
           /\ Heads' \subseteq Heads \cup {Reconciled(local[m], remote)}
<1> DEFINE x == Reconciled(local[m], remote)
<1>1. local[m] \in Heads /\ remote \in Heads
  BY DEF Heads
<1>2. HeadFits(x, LastId) /\ HeadsAgree(Heads \cup {x})
  BY <1>1, AdoptedFits DEF Inv
<1>3. /\ local' = [local EXCEPT ![m] = x]
      /\ state' = [state EXCEPT ![m] = View(x)]
      /\ remote' \in {remote, x}
      /\ UNCHANGED <<world, clock, knew>>
  BY DEF Sync
<1> HIDE DEF x
<1>4. Heads' \subseteq Heads \cup {x}
  <2>1. \A k \in Machines : local'[k] \in Heads \cup {x}
    BY <1>3 DEF Inv, Heads
  <2> QED  BY <1>1, <1>3, <2>1 DEF Heads
<1>5. LastId' = LastId
  BY <1>3 DEF LastId
<1>6. (\A h \in Heads' : HeadFits(h, LastId)) /\ HeadsAgree(Heads')
  BY <1>2, <1>4 DEF Inv, HeadsAgree
<1>7. /\ local' = [k \in Machines |-> local'[k]]
      /\ state' = [k \in Machines |-> View(local'[k])]
  <2>1. /\ local = [k \in Machines |-> local[k]]
        /\ state = [k \in Machines |-> View(local[k])]
    BY DEF Inv
  <2>2. \A k \in Machines : local'[k] = IF k = m THEN x ELSE local[k]
    BY <1>3, <2>1
  <2> QED  BY <1>3, <2>1, <2>2
<1>8. Inv'
  BY <1>3, <1>5, <1>6, <1>7 DEF Inv
<1> QED  BY <1>4, <1>8 DEF x

LEMMA SyncSounds ==
    ASSUME Inv, NEW m \in Machines, Sync(m), NEW n, HeadsSound(Heads, n)
    PROVE  HeadsSound(Heads', n)
<1> DEFINE x == Reconciled(local[m], remote)
<1>1. local[m] \in Heads /\ remote \in Heads
  BY DEF Heads
<1>2. HeadsSound(Heads \cup {x}, n)
  BY <1>1, ReconciledSound DEF Inv
<1>3. Heads' \subseteq Heads \cup {x}
  BY SyncKeeps
<1> HIDE DEF x
<1> QED  BY <1>2, <1>3 DEF HeadsSound

\* Every step is a cycle of the sync loop or a commit of one machine.
LEMMA Steps ==
    ASSUME Inv, Next
    PROVE  \E m \in Machines :
              Sync(m) \/ \E D, L : Wrote(m, D, L) /\ Careful(m, D)
<1>1. PICK m \in Machines :
        \/ Sync(m)
        \/ \E a \in Actors :
              \/ CreateTasks(m, a)
              \/ Answer(m, a)
              \/ \E t \in Tasks :
                    UpdateTask(m, a, t) \/ ClaimTask(m, a, t)
                        \/ Escalate(m, a, t)
  BY DEF Next
<1>2. CASE Sync(m)
  BY <1>2
<1>3. ASSUME NEW a \in Actors, CreateTasks(m, a)
      PROVE  \E D, L : Wrote(m, D, L) /\ Careful(m, D)
  BY <1>3, CreateTasksWrites
<1>4. ASSUME NEW a \in Actors, Answer(m, a)
      PROVE  \E D, L : Wrote(m, D, L) /\ Careful(m, D)
  BY <1>4, AnswerWrites
<1>5. ASSUME NEW a \in Actors, NEW t \in Tasks, UpdateTask(m, a, t)
      PROVE  \E D, L : Wrote(m, D, L) /\ Careful(m, D)
  BY <1>5, UpdateTaskWrites
<1>6. ASSUME NEW a \in Actors, NEW t \in Tasks, ClaimTask(m, a, t)
      PROVE  \E D, L : Wrote(m, D, L) /\ Careful(m, D)
  BY <1>6, ClaimTaskWrites
<1>7. ASSUME NEW a \in Actors, NEW t \in Tasks, Escalate(m, a, t)
      PROVE  \E D, L : Wrote(m, D, L) /\ Careful(m, D)
  BY <1>7, EscalateWrites
<1> QED  BY <1>1, <1>2, <1>3, <1>4, <1>5, <1>6, <1>7

-----------------------------------------------------------------------------
(***************************************************************************)
(* Where it starts.                                                        *)
(***************************************************************************)
LEMMA InitIsWhole ==
    ASSUME Init
    PROVE  Inv /\ \A n \in Nat : clock <= n => HeadsSound(Heads, n)
<1>1. PICK new \in SUBSET Tasks, a \in Actors :
         /\ Cardinality(new) = Shared
         /\ \E items \in Items(new), ids \in BatchIds(new, 1) :
                LET head == [events |-> Created(a, items, ids),
                             leases |-> [c \in Ids |-> NoRecord],
                             seen   |-> 1 .. Shared]
                IN  /\ IsBatch({}, items, ids)
                    /\ local = [m \in Machines |-> head]
                    /\ remote = head
                    /\ state = [m \in Machines |-> View(head)]
  BY DEF Init
<1>2. PICK items \in Items(new), ids \in BatchIds(new, 1) :
         LET head == [events |-> Created(a, items, ids),
                      leases |-> [c \in Ids |-> NoRecord],
                      seen   |-> 1 .. Shared]
         IN  /\ IsBatch({}, items, ids)
             /\ local = [m \in Machines |-> head]
             /\ remote = head
             /\ state = [m \in Machines |-> View(head)]
  BY <1>1
<1> DEFINE D == Created(a, items, ids)
           head == [events |-> D, leases |-> [c \in Ids |-> NoRecord],
                    seen |-> 1 .. Shared]
<1>3. /\ world \in Worlds /\ clock = Shared
      /\ Shared \in Nat /\ LastId \in Ids /\ LastId \in Nat
      /\ Shared <= LastId /\ Births \subseteq TaskStatus
  BY BacklogAssumption, ReplayAssumption
     DEF Init, Shared, LastId, Ids, Births, TaskStatus
<1>4. DOMAIN items = new /\ \A t \in new : /\ t \in Tasks
                                           /\ items[t].status \in Births
                                           /\ items[t].deps \in DepLists
  BY DEF Items
<1>5. \A t, u \in new : ids[t] = ids[u] => t = u
  BY <1>2, <1>4 DEF IsBatch
<1>6. IdsOf(D) = {ids[t] : t \in new}
  BY <1>4, CreatedIds
<1>7. IdsOf(D) = 1 .. Shared
  <2>1. IsFiniteSet(new)
    BY BacklogAssumption, FS_Subset
  <2>2. {ids[t] : t \in new} = 1 .. 1 + Cardinality(new) - 1
    BY <1>5, <2>1, BatchIsAnInterval
  <2> QED  BY <1>1, <1>3, <1>6, <2>2
<1>8. IdsOf(D) \subseteq Ids /\ 1 .. Shared \subseteq 1 .. LastId
  BY <1>3, <1>7, ReplayAssumption DEF Ids
<1>9. \A e \in D : \E t \in new :
         /\ e = [id |-> ids[t], type |-> "task.created", task |-> t,
                 actor |-> a, status |-> items[t].status,
                 deps |-> items[t].deps]
         /\ ids[t] \in Ids
  BY <1>4, <1>6, <1>8 DEF Created
<1>10. \A e \in D : IsEvent(e) /\ e.type = "task.created"
  <2> SUFFICES ASSUME NEW e \in D
               PROVE  IsEvent(e) /\ e.type = "task.created"
    OBVIOUS
  <2>1. PICK t \in new :
         /\ e = [id |-> ids[t], type |-> "task.created", task |-> t,
                 actor |-> a, status |-> items[t].status,
                 deps |-> items[t].deps]
         /\ ids[t] \in Ids
    BY <1>9
  <2>2. /\ e.id \in Ids /\ e.type = "task.created"
        /\ e.task \in Tasks /\ e.actor \in Actors
        /\ e.status \in TaskStatus /\ e.deps \in SUBSET Tasks
    BY <1>3, <1>4, <2>1 DEF DepLists
  <2> QED  BY <2>2 DEF IsEvent
<1>11. \A e, f \in D : (e.id = f.id \/ e.task = f.task) => e = f
  BY <1>5, <1>9
<1> HIDE DEF D
<1>12. [c \in Ids |-> NoRecord] \in [Ids -> Lease]
  BY DEF NoRecord, Lease, Instants
<1>13. HeadFits(head, LastId)
  BY <1>7, <1>8, <1>10, <1>12 DEF HeadFits, IdsOf
<1>14. Sound(D)
  BY <1>10, <1>11 DEF Sound, AreEvents
<1>15. /\ local = [m \in Machines |-> head] /\ remote = head
       /\ state = [m \in Machines |-> View(head)]
  BY <1>2 DEF D
<1>16. \A h \in Heads : h = head
  BY <1>15 DEF Heads
<1>17. knew \in [Ids -> SUBSET Ids]
  BY <1>3, <1>7, <1>8 DEF Init
<1>18. HeadsAgree(Heads)
  BY <1>11, <1>16 DEF HeadsAgree
<1>19. Inv
  <2> HIDE DEF head
  <2> QED  BY <1>3, <1>13, <1>15, <1>16, <1>17, <1>18 DEF Inv
<1>20. ASSUME NEW n \in Nat, clock <= n
       PROVE  HeadsSound(Heads, n)
  <2>1. \A e \in D : e.id \in 1 .. Shared
    BY <1>7 DEF IdsOf
  <2>2. \A e \in D : e.id <= n
    BY <1>3, <1>20, <2>1
  <2>3. head.events = D
    OBVIOUS
  <2> HIDE DEF head
  <2> QED  BY <1>11, <1>14, <1>16, <2>2, <2>3 DEF HeadsSound
<1> QED  BY <1>19, <1>20

-----------------------------------------------------------------------------
(***************************************************************************)
(* The theorems.                                                           *)
(***************************************************************************)
LEMMA InvHolds == Spec => []Inv
<1>1. Init => Inv
  BY InitIsWhole
<1>2. Inv /\ [Next]_vars => Inv'
  <2> SUFFICES ASSUME Inv, [Next]_vars
               PROVE  Inv'
    OBVIOUS
  <2>1. CASE Next
    BY <2>1, Steps, SyncKeeps, WroteKeeps
  <2>2. CASE UNCHANGED vars
    BY <2>2 DEF vars, Inv, LastId, Heads, View
  <2> QED  BY <2>1, <2>2
<1> QED  BY <1>1, <1>2, PTL DEF Spec

\* Whatever clocks the machines have: heads hold what was minted, one event
\* to an id, and the files of a claim (the commits of opCreateTasks,
\* opUpdateTask and the others, and their merges).
THEOREM BacklogIsTyped == Spec => []TypeOK
<1>1. Inv => TypeOK
  <2> SUFFICES ASSUME Inv
               PROVE  TypeOK
    OBVIOUS
  <2>1. \A h \in Heads : /\ h.seen = {e.id : e \in h.events}
                         /\ h.leases \in [Ids -> Lease]
    BY DEF Inv, HeadFits
  <2> QED  BY <2>1 DEF Inv, HeadsAgree, TypeOK
<1> QED  BY <1>1, InvHolds, PTL

\* Every head is a sound ledger up to the next instant on any machine.
InOrder == \A m \in Machines : HeadsSound(Heads, clock + Skew[m])

LEMMA InOrderHolds ==
    ASSUME \A m, n \in Machines : Skew[m] = Skew[n]
    PROVE  Spec => []InOrder
<1>1. Init => InOrder
  <2> SUFFICES ASSUME Init, NEW m \in Machines
               PROVE  HeadsSound(Heads, clock + Skew[m])
    BY DEF InOrder
  <2>1. Inv
    BY InitIsWhole
  <2>2. clock + Skew[m] \in Nat /\ clock <= clock + Skew[m]
    BY <2>1, Bounds
  <2> QED  BY <2>2, InitIsWhole
<1>2. Inv /\ InOrder /\ [Next]_vars => InOrder'
  <2> SUFFICES ASSUME Inv, InOrder, [Next]_vars, NEW k \in Machines
               PROVE  HeadsSound(Heads', clock' + Skew[k])
    BY DEF InOrder
  <2>1. ASSUME NEW m \in Machines, Sync(m)
        PROVE  HeadsSound(Heads', clock' + Skew[k])
    <3>1. clock' = clock
      BY <2>1 DEF Sync
    <3> QED  BY <2>1, <3>1, SyncSounds DEF InOrder
  <2>2. ASSUME NEW m \in Machines, NEW D, NEW L, Wrote(m, D, L)
        PROVE  HeadsSound(Heads', clock' + Skew[k])
    <3>1. Skew[m] = Skew[k]
      OBVIOUS
    <3> QED  BY <2>2, <3>1, WroteSounds DEF InOrder
  <2>3. CASE UNCHANGED vars
    BY <2>3 DEF vars, Heads, InOrder
  <2> QED  BY <2>1, <2>2, <2>3, Steps
<1> QED  BY <1>1, <1>2, InvHolds, PTL DEF Spec

\* What the daemon writes it can replay: if no machine's clock is ahead of
\* another's, no order of creating, editing, claiming, asking and answering,
\* and of merging all of that, gives a head that replay rejects as malformed.
THEOREM EditsReplay ==
    ASSUME \A m, n \in Machines : Skew[m] = Skew[n]
    PROVE  Spec => []EveryHeadReplays
<1>1. Inv /\ InOrder => EveryHeadReplays
  <2> SUFFICES ASSUME Inv, InOrder, NEW m \in Machines
               PROVE  ~ state[m].error
    BY DEF EveryHeadReplays
  <2>1. Sound(local[m].events)
    BY OwnHead DEF HeadsSound, InOrder
  <2> QED  BY <2>1, OwnHead, ViewFacts, SoundLedgersReplay
<1> QED  BY <1>1, InOrderHolds, InvHolds, PTL

\* "The blocked list can never disagree with what Ready withholds": the lists
\* of opBacklog part the tasks of whatever state there is.
LEMMA SectionsPartTasks ==
    ASSUME NEW s, IsMap(s.tasks, Tasks, TaskRecord), NEW t \in DOMAIN s.tasks
    PROVE  Cardinality({x \in DOMAIN Sections(s) : t \in Sections(s)[x]}) = 1
<1> DEFINE rows == Sections(s)
           in == {x \in DOMAIN rows : t \in rows[x]}
           status == s.tasks[t].status
<1>1. DOMAIN rows = {"ready", "inbox", "held", "in_progress", "blocked",
                     "done", "cancelled"}
  BY DEF Sections
<1>2. /\ "inbox" \in in <=> status = "inbox"
      /\ "held" \in in <=> status = "held"
      /\ "done" \in in <=> status = "done"
      /\ "cancelled" \in in <=> status = "cancelled"
      /\ "in_progress" \in in <=> status = "open" /\ ActiveClaims(s, t) # {}
      /\ "blocked" \in in <=>
            /\ status = "open" /\ ActiveClaims(s, t) = {}
            /\ UnmetDeps(s, t) # {} \/ BlockingEscalations(s, t) # {}
      /\ "ready" \in in <=>
            /\ status = "open" /\ ActiveClaims(s, t) = {}
            /\ UnmetDeps(s, t) = {} /\ BlockingEscalations(s, t) = {}
  BY DEF Sections, WithStatus, InProgress, Blocked, Ready
<1>3. status \in {"open", "inbox", "held", "done", "cancelled"}
  BY DEF IsMap, TaskRecord, TaskStatus
<1>4. in \subseteq {"ready", "inbox", "held", "in_progress", "blocked",
                    "done", "cancelled"}
  BY <1>1
<1> HIDE DEF in, status
<1>5. PICK x : in = {x}
  BY <1>2, <1>3, <1>4, ZenonT(60)
<1> QED  BY <1>5, FS_Singleton DEF in

\* Every task of every daemon's answer is in exactly one section.
THEOREM SectionsPart == Spec => []EachInOneSection
<1>1. Inv => EachInOneSection
  <2> SUFFICES ASSUME Inv, NEW m \in Machines,
                      NEW t \in DOMAIN state[m].tasks
               PROVE  Cardinality({x \in DOMAIN Sections(state[m]) :
                                     t \in Sections(state[m])[x]}) = 1
    BY DEF EachInOneSection
  <2>1. IsMap(state[m].tasks, Tasks, TaskRecord)
    BY OwnHead, ViewFacts
  <2> QED  BY <2>1, SectionsPartTasks
<1> QED  BY <1>1, InvHolds, PTL

\* On every answer of every daemon the three searches (hasCycle, inDepLoop,
\* depLoopLocked) find the loops there are and no others: tasks on a loop are
\* marked, tasks that only lead into one are not, and an edit is refused if
\* and only if its edges would close a loop.
THEOREM WalksFind == Spec => []WalksFindTheLoops
<1>1. Inv => WalksFindTheLoops
  <2> SUFFICES ASSUME Inv, NEW m \in Machines
               PROVE  LET s       == state[m]
                          edges   == EdgesOf(s)
                          notDone ==
                             [t \in Tasks |-> edges[t] \ WithStatus(s, "done")]
                      IN  /\ HasCycle(edges) =
                                \E t \in Tasks : t \in Reachable(edges, t)
                          /\ \A t \in DOMAIN s.tasks :
                               /\ InDepLoop(s, t) =
                                     (t \in Reachable(notDone, t))
                               /\ \A D \in SUBSET DOMAIN s.tasks :
                                     DepLoop(s, t, D) =
                                        (t \in Reachable(
                                           [edges EXCEPT ![t] = D], t))
    BY DEF WalksFindTheLoops
  <2> DEFINE s == state[m]
             edges == EdgesOf(s)
  <2>1. IsMap(s.tasks, Tasks, TaskRecord) /\ DOMAIN s.tasks \subseteq Tasks
    BY OwnHead, ViewFacts DEF IsMap
  <2> HIDE DEF s
  <2>2. edges \in [Tasks -> SUBSET Tasks]
    BY <2>1, EdgesType
  <2>3. HasCycle(edges) = \E t \in Tasks : t \in Reachable(edges, t)
    <3> HIDE DEF edges
    <3>1. HasCycle(edges) = \E t \in Tasks : t \in ReachIn(edges, t)
      BY <2>2, HasCycleIsRight, BacklogAssumption
    <3>2. \A t \in Tasks : Reachable(edges, t) = ReachIn(edges, t)
      BY <2>2, ReachableIs
    <3> QED  BY <3>1, <3>2
  <2>4. ASSUME NEW t \in DOMAIN s.tasks
        PROVE  InDepLoop(s, t) =
                  (t \in Reachable([u \in Tasks |->
                                       edges[u] \ WithStatus(s, "done")], t))
    BY <2>1, InDepLoopIsRight DEF NotDone
  <2>5. ASSUME NEW t \in DOMAIN s.tasks, NEW D \in SUBSET DOMAIN s.tasks
        PROVE  DepLoop(s, t, D) =
                  (t \in Reachable([edges EXCEPT ![t] = D], t))
    BY <2>1, DepLoopIsRight
  <2> QED  BY <2>3, <2>4, <2>5 DEF s
<1> QED  BY <1>1, InvHolds, PTL

\* A finite graph in which everything leads on has a cycle.
LEMMA LeadsOn ==
    ASSUME NEW N, IsFiniteSet(N), NEW adj \in [N -> SUBSET N],
           NEW R \in SUBSET N, R # {},
           \A u \in R : adj[u] \subseteq R /\ adj[u] # {}
    PROVE  \E u \in R : u \in ReachIn(adj, u)
<1> DEFINE Closed(C) == C # {} /\ \A u \in C : adj[u] \subseteq C
           Sizes == {k \in Nat : \E C \in SUBSET R :
                                    Closed(C) /\ Cardinality(C) = k}
<1>1. \A C \in SUBSET R : IsFiniteSet(C) /\ Cardinality(C) \in Nat
  BY FS_Subset, FS_CardinalityType
<1>2. Cardinality(R) \in Sizes
  BY <1>1
<1>3. PICK k \in Sizes : \A j \in Sizes : k <= j
  <2>1. Sizes \in SUBSET Nat
    OBVIOUS
  <2> HIDE DEF Sizes
  <2> QED  BY <1>2, <2>1, LeastOf
<1>4. PICK C \in SUBSET R : Closed(C) /\ Cardinality(C) = k
  OBVIOUS
<1>5. PICK u \in C : TRUE
  BY <1>4
<1> DEFINE S == ReachIn(adj, u)
<1>6. /\ adj[u] \subseteq S
      /\ \A v \in S : adj[v] \subseteq S
  BY ReachFacts
<1>7. S \subseteq C
  <2>1. C \in SUBSET N /\ adj[u] \subseteq C /\ \A v \in C : adj[v] \subseteq C
    BY <1>4
  <2> QED  BY <2>1, ReachFacts
<1>8. S # {}
  BY <1>6
<1> HIDE DEF S
<1>9. S \in SUBSET R /\ Closed(S) /\ Cardinality(S) \in Sizes
  BY <1>1, <1>6, <1>7, <1>8
<1>10. k <= Cardinality(S)
  BY <1>3, <1>9
<1>11. S = C
  <2>1. /\ IsFiniteSet(C) /\ S \in SUBSET C
        /\ Cardinality(S) \in Nat /\ Cardinality(C) \in Nat
    BY <1>1, <1>7, <1>9
  <2>2. Cardinality(S) <= Cardinality(C)
    BY <2>1, FS_Subset
  <2>3. Cardinality(S) = Cardinality(C)
    BY <1>4, <1>10, <2>1, <2>2
  <2> QED  BY <2>1, <2>3, FS_Subset
<1> QED  BY <1>11 DEF S

\* From a blocked task the unmet dependencies lead to a root, whatever state
\* there is.
LEMMA BlockedHasARoot ==
    ASSUME NEW s, IsMap(s.tasks, Tasks, TaskRecord), NEW t \in Blocked(s)
    PROVE  \E u \in {t} \cup Reachable(UnmetOf(s), t) :
              u \in Sections(s).ready \cup Sections(s).in_progress
                    \cup Sections(s).inbox \cup Sections(s).held \cup Marked(s)
<1> DEFINE succ == UnmetOf(s)
           R == {t} \cup Reachable(succ, t)
           roots == Sections(s).ready \cup Sections(s).in_progress
                    \cup Sections(s).inbox \cup Sections(s).held \cup Marked(s)
<1> SUFFICES ASSUME \A u \in R : u \notin roots
             PROVE  FALSE
  OBVIOUS
<1>1. DOMAIN s.tasks \subseteq Tasks /\ t \in DOMAIN s.tasks
      /\ \A u \in DOMAIN s.tasks : s.tasks[u].status \in TaskStatus
  BY DEF IsMap, TaskRecord, Blocked, WithStatus
<1>2. succ \in [Tasks -> SUBSET Tasks]
  BY <1>1 DEF UnmetOf, UnmetDeps
<1>3. \A u \in DOMAIN s.tasks : succ[u] = UnmetDeps(s, u)
  BY <1>1 DEF UnmetOf
<1>4. /\ Reachable(succ, t) \in SUBSET Tasks
      /\ succ[t] \subseteq Reachable(succ, t)
      /\ \A u \in Reachable(succ, t) : succ[u] \subseteq Reachable(succ, t)
      /\ \A S \in SUBSET Tasks :
            succ[t] \subseteq S /\ (\A v \in S : succ[v] \subseteq S)
               => Reachable(succ, t) \subseteq S
  <2> HIDE DEF succ
  <2> QED  BY <1>1, <1>2, ReachableIs, ReachFacts
<1> HIDE DEF succ
<1>5. roots = {u \in DOMAIN s.tasks : Ready(s, u)} \cup InProgress(s)
              \cup WithStatus(s, "inbox") \cup WithStatus(s, "held")
              \cup Marked(s)
  BY DEF Sections
<1> HIDE DEF roots
<1>6. ASSUME NEW u \in R, u \in Blocked(s)
      PROVE  succ[u] # {} /\ succ[u] \subseteq R \cap Blocked(s)
  <2>1. u \notin Marked(s)
    BY <1>5, <1>6
  <2>2. CancelledDeps(s, u) = {} /\ BlockingEscalations(s, u) = {}
    BY <1>6, <2>1 DEF Marked
  <2>3. u \in DOMAIN s.tasks /\ UnmetDeps(s, u) # {}
    BY <1>6, <2>2 DEF Blocked, WithStatus
  <2>4. ASSUME NEW d \in UnmetDeps(s, u)
        PROVE  d \in R \cap Blocked(s)
    <3>1. d \in R
      BY <1>3, <1>4, <2>3, <2>4
    <3>2. d \in DOMAIN s.tasks /\ s.tasks[d].status # "done"
      BY <2>4 DEF UnmetDeps
    <3>3. s.tasks[d].status # "cancelled"
      BY <2>2, <2>4 DEF CancelledDeps
    <3>4. d \notin WithStatus(s, "inbox") /\ d \notin WithStatus(s, "held")
          /\ d \notin InProgress(s) /\ ~ Ready(s, d)
      BY <1>5, <3>1, <3>2
    <3>5. s.tasks[d].status = "open"
      BY <1>1, <3>2, <3>3, <3>4 DEF WithStatus, TaskStatus
    <3>6. ActiveClaims(s, d) = {}
      BY <3>2, <3>4, <3>5 DEF InProgress, WithStatus
    <3>7. UnmetDeps(s, d) # {} \/ BlockingEscalations(s, d) # {}
      BY <3>2, <3>4, <3>5, <3>6 DEF Ready
    <3> QED  BY <3>1, <3>2, <3>4, <3>5, <3>7 DEF Blocked, WithStatus
  <2> QED  BY <1>3, <2>3, <2>4
<1>7. R \subseteq Blocked(s)
  <2> DEFINE S == R \cap Blocked(s)
  <2>1. S \in SUBSET Tasks /\ t \in S
    BY <1>1, <1>4
  <2>2. \A v \in S : succ[v] \subseteq S
    BY <1>6
  <2> HIDE DEF S
  <2>3. Reachable(succ, t) \subseteq S
    BY <1>4, <2>1, <2>2
  <2> QED  BY <2>1, <2>3 DEF S
<1>8. PICK u \in R : u \in ReachIn(succ, u)
  <2>1. R \in SUBSET Tasks /\ R # {}
    BY <1>1, <1>4
  <2>2. \A v \in R : succ[v] \subseteq R /\ succ[v] # {}
    BY <1>6, <1>7
  <2> HIDE DEF R
  <2> QED  BY <1>2, <2>1, <2>2, LeadsOn, BacklogAssumption
<1>9. u \in DOMAIN s.tasks /\ u \in Tasks
  BY <1>1, <1>7 DEF Blocked, WithStatus
<1>10. u \in Reachable(NotDone(s), u)
  <2>1. \A v \in Tasks : succ[v] \subseteq NotDone(s)[v]
    BY <1>1 DEF succ, UnmetOf, UnmetDeps, NotDone, EdgesOf, WithStatus
  <2>2. u \in Reachable(succ, u)
    BY <1>2, <1>8, <1>9, ReachableIs
  <2> QED  BY <1>9, <2>1, <2>2 DEF Reachable
<1>11. InDepLoop(s, u)
  BY <1>9, <1>10, InDepLoopIsRight
<1>12. u \in Marked(s)
  BY <1>7, <1>11 DEF Marked
<1> QED  BY <1>5, <1>12

\* Nothing waits for nothing, however the heads were merged: from every row
\* of opBacklog's blocked list the unmet dependencies lead to a task somebody
\* can work on or works on, to one on a shelf, or to a row that is marked.
THEOREM WaitsHaveRoots == Spec => []EveryWaitHasARoot
<1>1. Inv => \A m \in Machines :
        LET s    == state[m]
            rows == Sections(s)
        IN  \A t \in rows.blocked :
               \E u \in {t} \cup Reachable(UnmetOf(s), t) :
                   u \in rows.ready \cup rows.in_progress \cup rows.inbox
                         \cup rows.held \cup Marked(s)
  <2> SUFFICES ASSUME Inv, NEW m \in Machines,
                      NEW t \in Sections(state[m]).blocked
               PROVE  \E u \in {t} \cup Reachable(UnmetOf(state[m]), t) :
                         u \in Sections(state[m]).ready
                               \cup Sections(state[m]).in_progress
                               \cup Sections(state[m]).inbox
                               \cup Sections(state[m]).held
                               \cup Marked(state[m])
    OBVIOUS
  <2>1. IsMap(state[m].tasks, Tasks, TaskRecord)
    BY OwnHead, ViewFacts
  <2>2. t \in Blocked(state[m])
    BY DEF Sections
  <2> QED  BY <2>1, <2>2, BlockedHasARoot
<1>2. Spec => []EachInOneSection
  BY SectionsPart
<1> QED  BY <1>1, <1>2, InvHolds, PTL DEF EveryWaitHasARoot

-----------------------------------------------------------------------------
(***************************************************************************)
(* No loop that its last writer knew.                                      *)
(***************************************************************************)
\* The writers of every head closed no loop that they knew of.
WellWritten == \A h \in Heads : Knowing(h, knew)

\* The batch that everybody starts with has no loop.
LEMMA FirstBatchKnows ==
    ASSUME Init
    PROVE  WellWritten
<1>1. PICK new \in SUBSET Tasks, a \in Actors :
         /\ Cardinality(new) = Shared
         /\ \E items \in Items(new), ids \in BatchIds(new, 1) :
                LET head == [events |-> Created(a, items, ids),
                             leases |-> [c \in Ids |-> NoRecord],
                             seen   |-> 1 .. Shared]
                IN  /\ IsBatch({}, items, ids)
                    /\ local = [m \in Machines |-> head]
                    /\ remote = head
                    /\ state = [m \in Machines |-> View(head)]
  BY DEF Init
<1>2. PICK items \in Items(new), ids \in BatchIds(new, 1) :
         LET head == [events |-> Created(a, items, ids),
                      leases |-> [c \in Ids |-> NoRecord],
                      seen   |-> 1 .. Shared]
         IN  /\ IsBatch({}, items, ids)
             /\ local = [m \in Machines |-> head]
             /\ remote = head
             /\ state = [m \in Machines |-> View(head)]
  BY <1>1
<1> DEFINE D == Created(a, items, ids)
<1>3. remote.events = D /\ remote.seen = 1 .. Shared
      /\ \A h \in Heads : h = remote
  BY <1>2 DEF Heads
<1>4. DOMAIN items = new /\ IsBatch({}, items, ids)
  BY <1>2 DEF Items
<1>5. \A e \in D : \E t \in new :
         /\ e = [id |-> ids[t], type |-> "task.created", task |-> t,
                 actor |-> a, status |-> items[t].status,
                 deps |-> items[t].deps]
         /\ e.id = ids[t]
  BY <1>4 DEF Created
<1>6. ASSUME NEW t \in new
      PROVE  \E e \in D : e.task = t /\ e.type = "task.created"
                          /\ e.deps = items[t].deps
  <2> DEFINE e == [id |-> ids[t], type |-> "task.created", task |-> t,
                   actor |-> a, status |-> items[t].status,
                   deps |-> items[t].deps]
  <2>1. e \in D
    BY <1>4 DEF Created
  <2>2. e.task = t /\ e.type = "task.created" /\ e.deps = items[t].deps
    OBVIOUS
  <2> QED  BY <2>1, <2>2
<1>7. HeadFits(remote, LastId) /\ AreEvents(D) /\ Shared \in Nat
      /\ 1 .. Shared \subseteq Ids
  <2>1. Inv /\ remote \in Heads
    BY InitIsWhole DEF Heads
  <2>2. HeadFits(remote, LastId) /\ world \in Worlds
    BY <2>1 DEF Inv
  <2>3. AreEvents(D)
    BY <1>3, <2>1, <2>2 DEF AreEvents, HeadFits, Inv, HeadsAgree
  <2>4. 1 .. Shared \subseteq Ids
    BY <1>3, <2>1, <2>2, Bounds DEF HeadFits
  <2> QED  BY <2>2, <2>3, <2>4, BacklogAssumption DEF Shared
<1>8. \A e, f \in D : e.task = f.task => e = f
  <2> SUFFICES ASSUME NEW e \in D, NEW f \in D, e.task = f.task
               PROVE  e = f
    OBVIOUS
  <2>1. PICK t \in new :
           e = [id |-> ids[t], type |-> "task.created", task |-> t,
                 actor |-> a, status |-> items[t].status,
                 deps |-> items[t].deps]
    BY <1>5
  <2>2. PICK u \in new :
           f = [id |-> ids[u], type |-> "task.created", task |-> u,
                 actor |-> a, status |-> items[u].status,
                 deps |-> items[u].deps]
    BY <1>5
  <2>3. e.task = t /\ f.task = u
    BY <2>1, <2>2
  <2> QED  BY <2>1, <2>2, <2>3
<1>9. \A e \in D : e.type = "task.created" /\ \E t \in new :
         e.task = t /\ e.deps = items[t].deps
  BY <1>5
<1> HIDE DEF D
<1> DEFINE succ == EdgesIn(D)
<1>10. ASSUME NEW e \in D
       PROVE  SetsEdges(e) /\ EdgesSet(e) = e.deps /\ succ[e.task] = e.deps
  <2>1. SetsEdges(e) /\ EdgesSet(e) = e.deps
    BY <1>9 DEF SetsEdges, EdgesSet
  <2>2. IsLatest(D, e.task, e)
    <3>1. e.id \in Nat
      BY <1>7, ReplayAssumption DEF AreEvents, IsEvent, Ids
    <3> QED  BY <1>8, <2>1, <3>1 DEF IsLatest
  <2>3. e.task \in Tasks
    BY <1>7 DEF AreEvents, IsEvent
  <2> QED  BY <1>7, <2>1, <2>2, <2>3, LatestIsOne
<1>11. succ \in [Tasks -> SUBSET Tasks]
  BY DEF EdgesIn
<1>12. \A u \in Tasks \ new : succ[u] = {}
  BY <1>9 DEF EdgesIn, IsLatest
<1> HIDE DEF succ
<1>13. \A t \in new : succ[t] = items[t].deps
  BY <1>6, <1>10
<1>14. ~ HasCycle([t \in new |-> succ[t] \cap new])
  <2>1. ~ HasCycle([t \in new |-> items[t].deps \cap new])
    BY <1>4 DEF IsBatch
  <2>2. [t \in new |-> items[t].deps \cap new] =
           [t \in new |-> succ[t] \cap new]
    BY <1>13
  <2> QED  BY <2>1, <2>2
<1>15. \A t \in new : t \notin Reachable(succ, t)
  BY <1>11, <1>12, <1>14, BatchClosesNoLoop
<1>16. ASSUME NEW e \in D
       PROVE  IsSafeEdge(D, D, e)
  <2>1. EdgesSet(e) = e.deps /\ e.task \in new
    BY <1>9, <1>10
  <2>2. e.task \notin Reachable(EdgesIn(D), e.task)
    BY <1>15, <2>1 DEF succ
  <2>3. UnknownRefs({} \cup new, e.deps) = {}
    BY <1>4, <1>9 DEF IsBatch
  <2>4. \A d \in e.deps : d \in new
    BY <2>3 DEF UnknownRefs
  <2> QED  BY <1>6, <2>1, <2>2, <2>4 DEF IsSafeEdge
<1>17. ASSUME NEW w \in remote.events
       PROVE  Knows(remote, knew, w)
  <2>1. w.id \in 1 .. Shared
    BY <1>3, <1>7, <1>17 DEF HeadFits
  <2>2. \A n \in 1 .. Shared : knew[n] = 1 .. Shared
    BY <1>7 DEF Init
  <2>3. KnownTo(remote, knew, w) = D
    BY <1>3, <1>7, <2>1, <2>2 DEF KnownTo, HeadFits
  <2> QED  BY <1>3, <1>16, <2>1, <2>2, <2>3 DEF Knows
<1> QED  BY <1>3, <1>17 DEF WellWritten, Knowing

\* A loop of h that some event had the whole of before its eyes.
LEMMA KnownLoop ==
    ASSUME NEW E, AreEvents(E), NEW F \in SUBSET E, NEW w \in Tasks,
           w \in Reachable(EdgesIn(E), w),
           \A v \in Reachable(EdgesIn(E), w) :
              w \in Reachable(EdgesIn(E), v) =>
                 \E e \in F : IsLatest(E, v, e)
    PROVE  w \in Reachable(EdgesIn(F), w)
<1> DEFINE succ == EdgesIn(E)
           part == EdgesIn(F)
           R(v) == Reachable(succ, v)
<1>1. succ \in [Tasks -> SUBSET Tasks] /\ part \in [Tasks -> SUBSET Tasks]
  BY DEF EdgesIn
<1>2. ASSUME NEW v \in R(w), w \in R(v)
      PROVE  part[v] = succ[v]
  <2>1. PICK e \in F : IsLatest(E, v, e)
    BY <1>2
  <2>2. IsLatest(F, v, e) /\ AreEvents(F) /\ v \in Tasks
    BY <1>2, <2>1 DEF IsLatest, AreEvents, Reachable
  <2> QED  BY <2>1, <2>2, LatestIsOne
<1> HIDE DEF succ, part
<1>3. \A v \in Tasks :
         /\ R(v) \in SUBSET Tasks
         /\ succ[v] \subseteq R(v)
         /\ \A u \in R(v) : succ[u] \subseteq R(v) /\ R(u) \subseteq R(v)
         /\ \A S \in SUBSET Tasks :
               succ[v] \subseteq S /\ (\A u \in S : succ[u] \subseteq S)
                  => R(v) \subseteq S
  BY <1>1, ReachableIs, ReachFacts
<1>4. w \in R(w)
  BY DEF succ
<1> HIDE DEF R
<1>5. ASSUME NEW S \in SUBSET Tasks, part[w] \subseteq S,
             \A v \in S : part[v] \subseteq S
      PROVE  w \in S
  <2> DEFINE C == (S \cap R(w)) \cup {x \in Tasks : w \notin R(x)}
  <2>1. C \in SUBSET Tasks
    OBVIOUS
  <2>2. succ[w] \subseteq C
    BY <1>2, <1>3, <1>4, <1>5
  <2>3. ASSUME NEW v \in C
        PROVE  succ[v] \subseteq C
    <3>1. CASE w \in R(v)
      <4>1. v \in S /\ v \in R(w)
        BY <3>1
      <4>2. succ[v] \subseteq S
        BY <1>2, <1>5, <3>1, <4>1
      <4> QED  BY <1>3, <4>1, <4>2
    <3>2. CASE w \notin R(v)
      <4>1. v \in Tasks
        BY <2>1
      <4>2. \A y \in succ[v] : y \in Tasks /\ w \notin R(y)
        BY <1>3, <3>2, <4>1
      <4> QED  BY <4>2
    <3> QED  BY <3>1, <3>2
  <2> HIDE DEF C
  <2>4. w \in C
    BY <1>3, <1>4, <2>1, <2>2, <2>3
  <2> QED  BY <1>4, <2>4 DEF C
<1>6. w \in Reachable(part, w)
  BY <1>5 DEF Reachable
<1> QED  BY <1>6 DEF part

\* Whoever sets the edges of a task that leads somewhere.
LEMMA WriterOf ==
    ASSUME NEW h, NEW last, HeadFits(h, last), AreEvents(h.events),
           NEW u \in Tasks, EdgesIn(h.events)[u] # {}
    PROVE  \E e \in h.events :
              IsLatest(h.events, u, e) /\ EdgeWriter(h, u) = e.id
<1> DEFINE S == {e.id : e \in {f \in h.events :
                    f.task = u /\ \/ f.type = "task.created"
                                  \/ f.type = "task.updated" /\ f.deps # {}}}
<1>1. PICK e \in h.events : IsLatest(h.events, u, e)
  BY DEF EdgesIn, IsLatest
<1>2. EdgeWriter(h, u) = CHOOSE x \in S : \A y \in S : x >= y
  BY DEF EdgeWriter, Max
<1>3. e.id \in S /\ \A y \in S : y <= e.id
  BY <1>1 DEF IsLatest, SetsEdges
<1>4. S \subseteq Nat
  BY ReplayAssumption DEF AreEvents, IsEvent, Ids
<1> HIDE DEF S
<1>5. \A y \in S : e.id >= y
  BY <1>3, <1>4
<1>6. PICK x \in S : EdgeWriter(h, u) = x /\ \A y \in S : x >= y
  BY <1>2, <1>3, <1>5
<1>7. x = e.id
  <2>1. x \in Nat /\ e.id \in Nat /\ x <= e.id /\ e.id <= x
    BY <1>3, <1>4, <1>6
  <2> QED  BY <2>1
<1> QED  BY <1>1, <1>6, <1>7

\* The ids W give the tasks of a loop are those of events of h, and of any
\* two one was written with the other known.
Comparable(h, kn, loop, W) ==
    /\ W \in [loop -> Ids]
    /\ \A u \in loop : \E e \in h.events : e.id = W[u]
    /\ \A u, v \in loop : W[u] \in kn[W[v]] \/ W[v] \in kn[W[u]]

\* Of the events that set a loop's edges, if of any two one was written with
\* the other known, one was written with all of them known.
LEMMA OneKnowsAll ==
    ASSUME NEW h, NEW kn \in [Ids -> SUBSET Ids], Knowing(h, kn),
           NEW loop, loop # {}, NEW W, Comparable(h, kn, loop, W)
    PROVE  \E w \in loop : \A v \in loop : W[v] \in kn[W[w]]
<1> USE DEF Comparable
<1> DEFINE Ignored(u) == Cardinality(Ids \ kn[W[u]])
           Counts == {k \in Nat : \E u \in loop : Ignored(u) = k}
<1>1. IsFiniteSet(Ids)
  BY FS_Interval, ReplayAssumption DEF Ids
<1>2. \A S : IsFiniteSet(Ids \ S) /\ Cardinality(Ids \ S) \in Nat
  <2>1. ASSUME NEW S
        PROVE  IsFiniteSet(Ids \ S) /\ Cardinality(Ids \ S) \in Nat
    <3>1. Ids \ S \in SUBSET Ids
      OBVIOUS
    <3>2. IsFiniteSet(Ids \ S)
      BY <1>1, <3>1, FS_Subset
    <3> QED  BY <3>2, FS_CardinalityType
  <2> QED  BY <2>1
<1>3. PICK w \in loop : \A u \in loop : Ignored(w) <= Ignored(u)
  <2>1. \A u \in loop : Ignored(u) \in Counts
    BY <1>2
  <2>2. Counts \in SUBSET Nat /\ Counts # {}
    BY <2>1
  <2>3. PICK k \in Counts : \A j \in Counts : k <= j
    <3> HIDE DEF Counts
    <3> QED  BY <2>2, LeastOf
  <2>4. PICK w \in loop : Ignored(w) = k
    OBVIOUS
  <2> HIDE DEF Counts, Ignored
  <2> QED  BY <2>1, <2>3, <2>4
<1>4. ASSUME NEW u \in loop
      PROVE  /\ W[u] \in kn[W[u]] /\ kn[W[u]] \subseteq Ids
             /\ \A n \in kn[W[u]] : kn[n] \subseteq kn[W[u]]
  <2>1. PICK e \in h.events : e.id = W[u]
    OBVIOUS
  <2> QED  BY <2>1 DEF Knowing, Knows
<1>5. ASSUME NEW v \in loop
      PROVE  W[v] \in kn[W[w]]
  <2>1. CASE W[w] \in kn[W[v]]
    <3> DEFINE A == Ids \ kn[W[v]]
               B == Ids \ kn[W[w]]
    <3>1. A \subseteq B /\ IsFiniteSet(B) /\ IsFiniteSet(A)
          /\ Cardinality(A) \in Nat /\ Cardinality(B) \in Nat
      BY <1>2, <1>4, <2>1
    <3>2. Cardinality(B) <= Cardinality(A)
      BY <1>3
    <3>3. W[v] \notin A /\ W[v] \in Ids
      BY <1>4
    <3> HIDE DEF A, B
    <3>4. A \in SUBSET B
      BY <3>1
    <3>5. A = B
      <4>1. Cardinality(A) <= Cardinality(B)
        BY <3>1, <3>4, FS_Subset
      <4>2. Cardinality(A) = Cardinality(B)
        BY <3>1, <3>2, <4>1
      <4> QED  BY <3>1, <3>4, <4>2, FS_Subset
    <3> QED  BY <3>3, <3>5 DEF B
  <2> QED  BY <2>1
<1> QED  BY <1>5

LEMMA NoLoopOfOneWriter ==
    ASSUME Inv, InOrder, WellWritten, NEW m \in Machines, NEW t \in Tasks,
           t \in Reachable(EdgesOf(state[m]), t)
    PROVE  LET h     == local[m]
               edges == EdgesOf(state[m])
               loop  == {u \in Reachable(edges, t) : t \in Reachable(edges, u)}
           IN  \E u, v \in loop :
                  /\ EdgeWriter(h, u) \notin knew[EdgeWriter(h, v)]
                  /\ EdgeWriter(h, v) \notin knew[EdgeWriter(h, u)]
<1> DEFINE h == local[m]
           E == h.events
           succ == EdgesOf(state[m])
           R(u) == Reachable(succ, u)
           loop == {u \in R(t) : t \in R(u)}
           W(u) == EdgeWriter(h, u)
<1>1. /\ h \in Heads /\ HeadFits(h, LastId) /\ AreEvents(E)
      /\ Knowing(h, knew) /\ knew \in [Ids -> SUBSET Ids]
  BY OwnHead DEF WellWritten, Inv
<1>2. succ = EdgesIn(E)
  <2>1. Sound(E)
    BY <1>1 DEF HeadsSound, InOrder
  <2>2. ~ state[m].error
    BY <2>1, OwnHead, ViewFacts, SoundLedgersReplay
  <2> QED  BY <2>2, EdgesOfAnswer
<1>3. succ \in [Tasks -> SUBSET Tasks]
  BY <1>2 DEF EdgesIn
<1> HIDE DEF succ, h
<1>4. \A v \in Tasks :
         /\ R(v) \in SUBSET Tasks
         /\ succ[v] \subseteq R(v)
         /\ \A u \in R(v) : succ[u] \subseteq R(v) /\ R(u) \subseteq R(v)
         /\ \A S \in SUBSET Tasks :
               succ[v] \subseteq S /\ (\A u \in S : succ[u] \subseteq S)
                  => R(v) \subseteq S
  BY <1>3, ReachableIs, ReachFacts
<1>5. t \in R(t)
  BY DEF succ
<1> HIDE DEF R
<1>6. t \in loop /\ loop \subseteq Tasks
  BY <1>4, <1>5
<1>7. ASSUME NEW u \in loop
      PROVE  \E e \in E : IsLatest(E, u, e) /\ W(u) = e.id
  <2>1. succ[u] # {}
    <3> SUFFICES ASSUME succ[u] = {}
                 PROVE  FALSE
      OBVIOUS
    <3>1. R(u) \subseteq {}
      BY <1>4, <1>6
    <3> QED  BY <3>1
  <2>2. u \in Tasks
    BY <1>6
  <2> QED  BY <1>1, <1>2, <2>1, <2>2, WriterOf
<1> HIDE DEF W
<1> SUFFICES ASSUME \A u, v \in loop : \/ W(u) \in knew[W(v)]
                                      \/ W(v) \in knew[W(u)]
             PROVE  FALSE
  BY DEF W, R, succ, h
<1>8. PICK w \in loop : \A v \in loop : W(v) \in knew[W(w)]
  <2> DEFINE f == [u \in loop |-> W(u)]
  <2>1. \A u \in loop : \E e \in E : e.id = W(u) /\ e.id \in Ids
    BY <1>1, <1>7 DEF AreEvents, IsEvent
  <2>2. loop # {}
    BY <1>6
  <2>3. f \in [loop -> Ids] /\ \A u \in loop : f[u] = W(u)
    BY <2>1
  <2> HIDE DEF loop, f
  <2>4. \A u, v \in loop : f[u] \in knew[f[v]] \/ f[v] \in knew[f[u]]
    BY <2>3
  <2>5. \A u \in loop : \E e \in h.events : e.id = f[u]
    BY <2>1, <2>3
  <2>6. Comparable(h, knew, loop, f)
    BY <2>3, <2>4, <2>5 DEF Comparable
  <2>7. PICK w \in loop : \A v \in loop : f[v] \in knew[f[w]]
    BY <1>1, <2>2, <2>6, OneKnowsAll
  <2> QED  BY <2>3, <2>7
<1>9. PICK x \in E : IsLatest(E, w, x) /\ W(w) = x.id
  BY <1>7
<1> DEFINE F == KnownTo(h, knew, x)
<1>10. /\ w \in Tasks /\ w \in R(w) /\ R(w) \subseteq R(t)
       /\ \A v \in R(w) : w \in R(v) => v \in loop
  BY <1>4, <1>5, <1>6
<1>11. \A v \in R(w) : w \in R(v) => \E e \in F : IsLatest(E, v, e)
  <2> SUFFICES ASSUME NEW v \in R(w), w \in R(v)
               PROVE  \E e \in F : IsLatest(E, v, e)
    OBVIOUS
  <2>1. v \in loop
    BY <1>10
  <2>2. PICK e \in E : IsLatest(E, v, e) /\ W(v) = e.id
    BY <1>7, <2>1
  <2>3. e \in F
    BY <1>8, <1>9, <2>1, <2>2 DEF KnownTo
  <2> QED  BY <2>2, <2>3
<1>12. F \in SUBSET E
  BY DEF KnownTo
<1>13. w \in Reachable(EdgesIn(F), w)
  <2> HIDE DEF F, E
  <2> QED  BY <1>1, <1>2, <1>10, <1>11, <1>12, KnownLoop DEF R
<1>14. IsSafeEdge(F, E, x) /\ x.task = w
  BY <1>1, <1>9 DEF Knowing, Knows, IsLatest
<1> QED  BY <1>13, <1>14 DEF IsSafeEdge

\* "Refuse to knowingly write a dependency loop": if no machine's clock is
\* ahead of another's, every loop of every daemon's answer has two edges that
\* were set by events neither of which was written with the other known,
\* whatever tasks and machines there are and whatever was merged.
THEOREM LoopsNeedTwoWriters ==
    ASSUME \A m, n \in Machines : Skew[m] = Skew[n]
    PROVE  Spec => []LoopNeedsTwoWriters
<1>1. Init => WellWritten
  BY FirstBatchKnows
<1>2. Inv /\ InOrder /\ WellWritten /\ [Next]_vars => WellWritten'
  <2> SUFFICES ASSUME Inv, InOrder, WellWritten, [Next]_vars
               PROVE  WellWritten'
    OBVIOUS
  <2>1. ASSUME NEW m \in Machines, Sync(m)
        PROVE  WellWritten'
    <3>1. knew' = knew /\ local[m] \in Heads /\ remote \in Heads
      BY <2>1 DEF Sync, Heads
    <3>2. Heads' \subseteq Heads \cup {Reconciled(local[m], remote)}
      BY <2>1, SyncKeeps
    <3>3. Knowing(Reconciled(local[m], remote), knew)
      BY <3>1, ReconciledKnows DEF Inv, WellWritten
    <3> QED  BY <3>1, <3>2, <3>3 DEF WellWritten
  <2>2. ASSUME NEW m \in Machines, NEW D, NEW L, Wrote(m, D, L),
               Careful(m, D)
        PROVE  WellWritten'
    <3>1. local[m] \in Heads /\ AreEvents(local[m].events)
      BY OwnHead
    <3>2. \A f \in local[m].events : f.id < Mint(m)
      <4>1. \A f \in local[m].events : f.id \in Nat /\ f.id <= clock + Skew[m]
        BY <3>1, ReplayAssumption
           DEF InOrder, HeadsSound, AreEvents, IsEvent, Ids
      <4> QED  BY <4>1, Bounds DEF Mint
    <3>3. \A h \in Heads' : Knowing(h, knew')
      BY <2>2, <3>2, WroteKnows DEF WellWritten
    <3> QED  BY <3>3 DEF WellWritten
  <2>3. CASE UNCHANGED vars
    BY <2>3 DEF vars, Heads, WellWritten
  <2> QED  BY <2>1, <2>2, <2>3, Steps
<1>3. Inv /\ InOrder /\ WellWritten => LoopNeedsTwoWriters
  BY NoLoopOfOneWriter DEF LoopNeedsTwoWriters
<1> QED  BY <1>1, <1>2, <1>3, InOrderHolds, InvHolds, PTL DEF Spec
=============================================================================
