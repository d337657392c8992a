----------------------------- MODULE FoldProofs -----------------------------
(***************************************************************************)
(* What Fold makes of any set of events, and a merge of any two heads:     *)
(* proofs about Replay and Merge.                                          *)
(*                                                                         *)
(* The first part is about single events, and is used for ReplayLoop too.  *)
(* The second is about the function that Fold defines by recursion.  Its   *)
(* facts are proved by the least counterexample: if the state after some   *)
(* id lacked one, there would be a least such id, which neither is the     *)
(* first nor follows one that has it.  The third part is the contest for   *)
(* one task in which its earliest claim is neither given up nor outlived   *)
(* by its lease: the fold holds that claim until the first confirmation,   *)
(* applies that one, and leaves its claim confirmed for good.  The last    *)
(* part is about heads: that their merge is symmetric and loses nothing    *)
(* but refused confirmations, that heads which fit together still do with  *)
(* a merge of two of them, or a commit on top of one, and that the same    *)
(* goes for what FleetProofs says of first confirmations, of attempts that *)
(* end, and of the only head that there is.                                *)
(***************************************************************************)
EXTENDS Merge, TLAPS, WellFoundedInduction

\* Put builds a map from a map.
LEMMA PutIsMap ==
    ASSUME NEW K, NEW V, NEW f, NEW k \in K, NEW v \in V, IsMap(f, K, V)
    PROVE  IsMap(Put(f, k, v), K, V)
BY DEF IsMap, Put

\* Replacing one value of a map leaves a map.
LEMMA ExceptIsMap ==
    ASSUME NEW K, NEW V, NEW f, NEW k \in DOMAIN f, NEW v \in V, IsMap(f, K, V)
    PROVE  IsMap([f EXCEPT ![k] = v], K, V)
BY DEF IsMap

LEMMA NewClaimFacts ==
    ASSUME NEW e, e.task \in Tasks, e.actor \in Actors,
           NEW x \in {"active", "voided"}
    PROVE  /\ NewClaim(e, x) \in ClaimRecord
           /\ NewClaim(e, x).task = e.task
           /\ NewClaim(e, x).status = x
           /\ NewClaim(e, x).confirmation = None
BY DEF NewClaim, ClaimRecord, ClaimStatus

-----------------------------------------------------------------------------
\* The state record, field by field.
Is(s, tasks, claims, holder, runs, escalations, error) ==
    s = [tasks |-> tasks, claims |-> claims, holder |-> holder,
         runs |-> runs, escalations |-> escalations, error |-> error]

LEMMA IsFacts ==
    ASSUME NEW s, NEW a, NEW b, NEW c, NEW d, NEW e, NEW f,
           Is(s, a, b, c, d, e, f),
           IsMap(a, Tasks, TaskRecord), IsMap(b, Ids, ClaimRecord),
           c \in [Tasks -> Ids \cup {None}], d \subseteq RunRecord,
           IsMap(e, Ids, EscalationRecord), f \in BOOLEAN
    PROVE  IsState(s) /\ s.claims = b /\ s.holder = c
BY DEF Is, IsState

\* What a claim.made event does to the record.
LEMMA ClaimMadeCases ==
    ASSUME NEW s, IsState(s), NEW lv, NEW e, e.task \in Tasks
    PROVE  LET n == ClaimMade(s, lv, e)
               h == s.holder[e.task]
           IN  \/ n = Malformed(s)
               \/ /\ h = None
                  /\ Is(n, s.tasks, Put(s.claims, e.id, NewClaim(e, "active")),
                        [s.holder EXCEPT ![e.task] = e.id],
                        s.runs, s.escalations, s.error)
               \/ /\ h # None
                  /\ Is(n, s.tasks,
                        Put([s.claims EXCEPT ![h].status = "expired"],
                            e.id, NewClaim(e, "active")),
                        [s.holder EXCEPT ![e.task] = e.id],
                        s.runs \cup {InterruptedRun(s, h)},
                        s.escalations, s.error)
               \/ /\ h # None
                  /\ Is(n, s.tasks, Put(s.claims, e.id, NewClaim(e, "voided")),
                        s.holder, s.runs, s.escalations, s.error)
BY DEF ClaimMade, Is, IsState

\* What a claim.confirmed event does to the record.
LEMMA ClaimConfirmedCases ==
    ASSUME NEW s, IsState(s), NEW e, e.task \in Tasks
    PROVE  LET n == ClaimConfirmed(s, e)
               h == s.holder[e.task]
               l == e.claim
           IN  \/ n = Malformed(s)
               \/ n = s
               \/ /\ h = l /\ l \in DOMAIN s.claims
                  /\ s.claims[l].confirmation = None
                  /\ Is(n, s.tasks,
                        [s.claims EXCEPT ![l].confirmation = e.id],
                        s.holder, s.runs, s.escalations, s.error)
               \/ /\ h # None /\ s.claims[h].confirmation = None
                  /\ l \in DOMAIN s.claims /\ s.claims[l].task = e.task
                  /\ s.claims[l].status = "voided"
                  /\ Is(n, s.tasks,
                        [s.claims EXCEPT ![h].status = "voided",
                                         ![l].status = "active",
                                         ![l].confirmation = e.id],
                        [s.holder EXCEPT ![e.task] = l],
                        s.runs, s.escalations, s.error)
BY DEF ClaimConfirmed, Confirm, Is, IsState

\* What a claim.released event does to the record.
LEMMA ClaimReleasedCases ==
    ASSUME NEW s, IsState(s), NEW e, e.task \in Tasks
    PROVE  LET n == ClaimReleased(s, e)
               h == s.holder[e.task]
           IN  \/ n = s
               \/ /\ h # None
                  /\ Is(n, s.tasks, [s.claims EXCEPT ![h].status = "released"],
                        [s.holder EXCEPT ![e.task] = None],
                        s.runs, s.escalations, s.error)
BY DEF ClaimReleased, HeldBy, Is, IsState

\* Run r is what run.finished event e reports.
IsRunOf(r, e) ==
    /\ r.id = e.id /\ r.task = e.task /\ r.actor = e.actor
    /\ ~ r.synthesized /\ r.named = (e.claim # None)
    /\ e.claim # None => r.claim = e.claim

\* What a run.finished event does to the record.
LEMMA RunFinishedCases ==
    ASSUME NEW s, IsState(s), NEW e, e.task \in Tasks, e.id \in Ids,
           e.actor \in Actors, e.claim \in Ids \cup {None},
           e.outcome \in Outcome
    PROVE  LET n == RunFinished(s, e)
               h == s.holder[e.task]
           IN  \/ n = Malformed(s)
               \/ /\ ~ HeldBy(s, e.task, e.actor)
                  /\ \E r \in RunRecord :
                        /\ IsRunOf(r, e)
                        /\ Is(n, s.tasks, s.claims, s.holder, s.runs \cup {r},
                              s.escalations, s.error)
               \/ /\ h # None
                  /\ \E r \in RunRecord, k \in TaskRecord :
                        /\ IsRunOf(r, e)
                        /\ Is(n, [s.tasks EXCEPT ![e.task] = k],
                              [s.claims EXCEPT ![h].status = "finished"],
                              [s.holder EXCEPT ![e.task] = None],
                              s.runs \cup {r}, s.escalations, s.error)
                  /\ e.task \in DOMAIN s.tasks
<1> DEFINE h    == s.holder[e.task]
           held == HeldBy(s, e.task, e.actor)
           task == s.tasks[e.task]
           run  == [id |-> e.id, task |-> e.task,
                    claim |-> IF e.claim = None /\ held THEN h ELSE e.claim,
                    actor |-> e.actor, outcome |-> e.outcome,
                    named |-> e.claim # None, synthesized |-> FALSE]
           k    == IF e.outcome # "done" THEN task
                   ELSE [task EXCEPT !.status = "done",
                            !.closed = ClosedAfter(task, "done", e.id)]
<1>1. run \in RunRecord /\ IsRunOf(run, e)
  BY DEF RunRecord, IsState, IsRunOf
<1>2. CASE e.task \notin DOMAIN s.tasks
  BY <1>2 DEF RunFinished
<1>3. CASE e.task \in DOMAIN s.tasks /\ ~ held
  <2>1. RunFinished(s, e) = [s EXCEPT !.runs = @ \cup {run}]
    BY <1>3 DEF RunFinished
  <2> HIDE DEF run
  <2>2. Is(RunFinished(s, e), s.tasks, s.claims, s.holder, s.runs \cup {run},
           s.escalations, s.error)
    BY <2>1 DEF Is, IsState
  <2> QED BY <1>1, <1>3, <2>2
<1>4. CASE e.task \in DOMAIN s.tasks /\ held
  <2>1. RunFinished(s, e) = [s EXCEPT !.claims[h].status = "finished",
                                      !.holder[e.task] = None,
                                      !.tasks[e.task] = k,
                                      !.runs = @ \cup {run}]
    BY <1>4 DEF RunFinished
  <2>2. task \in TaskRecord
    BY <1>4 DEF IsState, IsMap
  <2>3. ClosedAfter(task, "done", e.id) \in Ids \cup {None}
    BY <2>2 DEF ClosedAfter, TaskRecord, Terminal
  <2>4. k \in TaskRecord
    BY <2>2, <2>3 DEF TaskRecord, TaskStatus
  <2>5. h # None
    BY <1>4 DEF HeldBy
  <2> HIDE DEF run, k
  <2>6. Is(RunFinished(s, e), [s.tasks EXCEPT ![e.task] = k],
           [s.claims EXCEPT ![h].status = "finished"],
           [s.holder EXCEPT ![e.task] = None],
           s.runs \cup {run}, s.escalations, s.error)
    BY <2>1 DEF Is, IsState
  <2> QED BY <1>1, <1>4, <2>4, <2>5, <2>6
<1> QED BY <1>2, <1>3, <1>4

\* The events about tasks and escalations touch no claim and no holder.
LEMMA TaskCreatedKeeps ==
    ASSUME NEW s, IsState(s), NEW e, e.id \in Ids, e.task \in Tasks,
           e.status \in TaskStatus, e.deps \in SUBSET Tasks
    PROVE  LET n == TaskCreated(s, e)
           IN  IsState(n) /\ n.claims = s.claims /\ n.holder = s.holder
<1> DEFINE new == [status |-> e.status, deps |-> e.deps,
                   closed |-> IF Terminal(e.status) THEN e.id ELSE None]
<1>1. CASE e.task \in DOMAIN s.tasks
  BY <1>1 DEF TaskCreated, Malformed, IsState
<1>2. CASE e.task \notin DOMAIN s.tasks
  <2>1. new \in TaskRecord
    BY DEF TaskRecord, Terminal
  <2>2. TaskCreated(s, e) = [s EXCEPT !.tasks = Put(@, e.task, new)]
    BY <1>2 DEF TaskCreated
  <2> HIDE DEF new
  <2>3. IsMap(Put(s.tasks, e.task, new), Tasks, TaskRecord)
    BY <2>1, PutIsMap DEF IsState
  <2>4. Is(TaskCreated(s, e), Put(s.tasks, e.task, new), s.claims, s.holder,
           s.runs, s.escalations, s.error)
    BY <2>2 DEF Is, IsState
  <2> QED BY <2>3, <2>4, IsFacts DEF IsState
<1> QED BY <1>1, <1>2

LEMMA TaskUpdatedKeeps ==
    ASSUME NEW s, IsState(s), NEW e, e.id \in Ids, e.task \in Tasks,
           e.status \subseteq TaskStatus, e.deps \subseteq SUBSET Tasks
    PROVE  LET n == TaskUpdated(s, e)
           IN  IsState(n) /\ n.claims = s.claims /\ n.holder = s.holder
<1> DEFINE task   == s.tasks[e.task]
           status == IF e.status = {} THEN task.status
                     ELSE CHOOSE x \in e.status : TRUE
           deps   == IF e.deps = {} THEN task.deps
                     ELSE CHOOSE x \in e.deps : TRUE
           closed == IF e.status = {} THEN task.closed
                     ELSE ClosedAfter(task, status, e.id)
           new    == [status |-> status, deps |-> deps, closed |-> closed]
<1>1. CASE e.task \notin DOMAIN s.tasks
  BY <1>1 DEF TaskUpdated, Malformed, IsState
<1>2. CASE e.task \in DOMAIN s.tasks
  <2>1. task \in TaskRecord
    BY <1>2 DEF IsState, IsMap
  <2>2. status \in TaskStatus /\ deps \in SUBSET Tasks
    BY <2>1 DEF TaskRecord
  <2>3. closed \in Ids \cup {None}
    BY <2>1 DEF TaskRecord, ClosedAfter, Terminal
  <2>4. new \in TaskRecord
    BY <2>2, <2>3 DEF TaskRecord
  <2>5. TaskUpdated(s, e) = [s EXCEPT !.tasks[e.task] = new]
    BY <1>2 DEF TaskUpdated
  <2> HIDE DEF new
  <2>6. IsMap([s.tasks EXCEPT ![e.task] = new], Tasks, TaskRecord)
    BY <1>2, <2>4, ExceptIsMap DEF IsState
  <2>7. Is(TaskUpdated(s, e), [s.tasks EXCEPT ![e.task] = new], s.claims,
           s.holder, s.runs, s.escalations, s.error)
    BY <2>5 DEF Is, IsState
  <2> QED BY <2>6, <2>7, IsFacts DEF IsState
<1> QED BY <1>1, <1>2

LEMMA EscalationRaisedKeeps ==
    ASSUME NEW s, IsState(s), NEW e, e.id \in Ids, e.task \in Tasks,
           e.blocking \in BOOLEAN
    PROVE  LET n == EscalationRaised(s, e)
           IN  IsState(n) /\ n.claims = s.claims /\ n.holder = s.holder
<1> DEFINE new == [task |-> e.task, blocking |-> e.blocking,
                   answered |-> FALSE]
<1>1. CASE e.task \notin DOMAIN s.tasks
  BY <1>1 DEF EscalationRaised, Malformed, IsState
<1>2. CASE e.task \in DOMAIN s.tasks
  <2>1. new \in EscalationRecord
    BY DEF EscalationRecord
  <2>2. EscalationRaised(s, e) = [s EXCEPT !.escalations = Put(@, e.id, new)]
    BY <1>2 DEF EscalationRaised
  <2> HIDE DEF new
  <2>3. IsMap(Put(s.escalations, e.id, new), Ids, EscalationRecord)
    BY <2>1, PutIsMap DEF IsState
  <2>4. Is(EscalationRaised(s, e), s.tasks, s.claims, s.holder, s.runs,
           Put(s.escalations, e.id, new), s.error)
    BY <2>2 DEF Is, IsState
  <2> QED BY <2>3, <2>4, IsFacts DEF IsState
<1> QED BY <1>1, <1>2

LEMMA EscalationAnsweredKeeps ==
    ASSUME NEW s, IsState(s), NEW e
    PROVE  LET n == EscalationAnswered(s, e)
           IN  IsState(n) /\ n.claims = s.claims /\ n.holder = s.holder
<1> DEFINE x == e.escalation
           new == [s.escalations[x] EXCEPT !.answered = TRUE]
<1>1. CASE \/ x \notin DOMAIN s.escalations
           \/ s.escalations[x].task # e.task
  BY <1>1 DEF EscalationAnswered, Malformed, IsState
<1>2. CASE x \in DOMAIN s.escalations /\ s.escalations[x].task = e.task
  <2>1. new \in EscalationRecord
    BY <1>2 DEF IsState, IsMap, EscalationRecord
  <2>2. EscalationAnswered(s, e) = [s EXCEPT !.escalations[x] = new]
    BY <1>2 DEF EscalationAnswered
  <2> HIDE DEF new
  <2>3. IsMap([s.escalations EXCEPT ![x] = new], Ids, EscalationRecord)
    BY <1>2, <2>1, ExceptIsMap DEF IsState
  <2>4. Is(EscalationAnswered(s, e), s.tasks, s.claims, s.holder, s.runs,
           [s.escalations EXCEPT ![x] = new], s.error)
    BY <2>2 DEF Is, IsState
  <2> QED BY <2>3, <2>4, IsFacts DEF IsState
<1> QED BY <1>1, <1>2

LEMMA MalformedKeeps ==
    ASSUME NEW s, IsState(s)
    PROVE  /\ IsState(Malformed(s))
           /\ Malformed(s).claims = s.claims
           /\ Malformed(s).holder = s.holder
           /\ Malformed(s).error = TRUE
<1> DEFINE n == Malformed(s)
<1>1. n = [s EXCEPT !.error = TRUE]
  BY DEF Malformed
<1> HIDE DEF n
<1>2. n.error = TRUE
  BY <1>1 DEF IsState
<1>3. /\ n.claims = s.claims /\ n.holder = s.holder
      /\ n.tasks = s.tasks /\ n.runs = s.runs
      /\ n.escalations = s.escalations
      /\ n = [tasks |-> n.tasks, claims |-> n.claims, holder |-> n.holder,
              runs |-> n.runs, escalations |-> n.escalations,
              error |-> n.error]
  BY <1>1 DEF IsState
<1>4. IsState(n)
  BY <1>2, <1>3 DEF IsState
<1> QED BY <1>2, <1>3, <1>4 DEF n
-----------------------------------------------------------------------------
\* A set of natural numbers has a least one: "<" on Nat is well-founded.
LEMMA LeastOf ==
    ASSUME NEW T \in SUBSET Nat, T # {}
    PROVE  \E t \in T : \A u \in T : t <= u
<1> DEFINE R == {ss \in Nat \X Nat : ss[1] < ss[2]}
<1>1. IsWellFoundedOn(R, Nat)
  BY NatLessThanWellFounded DEF OpToRel
<1>2. \E x \in T : \A y \in T : ~ (<<y, x>> \in R)
  <2> HIDE DEF R
  <2> QED
    BY <1>1, WFMin
<1>3. PICK x \in T : \A y \in T : ~ (<<y, x>> \in R)
  BY <1>2
<1>4. \A y \in T : x <= y
  <2> TAKE y \in T
  <2>1. ~ (<<y, x>> \in R)
    BY <1>3
  <2>2. x \in Nat /\ y \in Nat
    OBVIOUS
  <2>3. ~ (y < x)
    BY <2>1, <2>2
  <2> QED BY <2>2, <2>3
<1> QED BY <1>4

\* One turn of the loop: from the state after n - 1 to the state after n.
Turn(events, leases, s, n) ==
    LET now == {e \in events : e.id = n}
    IN  IF now = {} \/ s.error THEN s
        ELSE Apply(s, leases, CHOOSE e \in now : TRUE)

After(events, leases, f, n) ==
    IF n = 0 THEN InitState ELSE Turn(events, leases, f[n - 1], n)

AreStates(f, events, leases) ==
    f = [n \in 0 .. MaxId |-> After(events, leases, f, n)]

States(events, leases) == CHOOSE f : AreStates(f, events, leases)

LEMMA FoldIsLastState ==
    ASSUME NEW events, NEW leases
    PROVE  Fold(events, leases) = States(events, leases)[MaxId]
BY DEF Fold, States, AreStates, After, Turn

\* The recursion defines a function: there is no least id that a partial one
\* cannot be extended to.
LEMMA StatesExist ==
    ASSUME NEW events, NEW leases
    PROVE  AreStates(States(events, leases), events, leases)
<1> DEFINE Part(g, k) ==
               \A n \in 0 .. k : g[n] = After(events, leases, g, n)
           Bad == {k \in 0 .. MaxId : ~ \E g : Part(g, k)}
<1>1. Bad = {}
  <2> SUFFICES ASSUME Bad # {}
               PROVE  FALSE
    OBVIOUS
  <2>1. Bad \in SUBSET Nat
    BY ReplayAssumption
  <2>2. PICK k \in Bad : \A j \in Bad : k <= j
    <3> HIDE DEF Bad
    <3> QED BY <2>1, LeastOf
  <2>3. k \in 0 .. MaxId /\ MaxId \in Nat
    BY ReplayAssumption
  <2>4. CASE k = 0
    <3> DEFINE g == [n \in {0} |-> InitState]
    <3>1. Part(g, 0)
      BY DEF After
    <3> QED BY <2>4, <3>1
  <2>5. CASE k # 0
    <3>1. k - 1 \in 0 .. MaxId /\ k - 1 < k
      BY <2>3, <2>5
    <3>2. k - 1 \notin Bad
      <4> HIDE DEF Bad
      <4> QED BY <2>2, <2>3, <3>1
    <3>3. PICK g : Part(g, k - 1)
      BY <3>1, <3>2
    <3> DEFINE x == Turn(events, leases, g[k - 1], k)
               h == [n \in 0 .. MaxId |-> IF n < k THEN g[n] ELSE x]
    <3> HIDE DEF x
    <3>4. ASSUME NEW n \in 0 .. k
          PROVE  h[n] = After(events, leases, h, n)
      <4>1. CASE n = k
        <5>1. h[n] = x /\ h[n - 1] = g[k - 1]
          BY <2>3, <3>1, <4>1
        <5> QED BY <2>5, <4>1, <5>1 DEF After, x
      <4>2. CASE n # k
        <5>1. n \in 0 .. (k - 1) /\ h[n] = g[n]
              /\ (n # 0 => h[n - 1] = g[n - 1])
          BY <2>3, <4>2
        <5>2. g[n] = After(events, leases, g, n)
          BY <3>3, <5>1
        <5> HIDE DEF h, Part
        <5> QED BY <5>1, <5>2 DEF After
      <4> QED BY <4>1, <4>2
    <3>5. Part(h, k)
      <4> HIDE DEF h
      <4> QED BY <3>4
    <3> QED BY <3>5
  <2> QED BY <2>4, <2>5
<1>2. MaxId \in 0 .. MaxId
  BY ReplayAssumption
<1>3. PICK g : Part(g, MaxId)
  BY <1>1, <1>2
<1> DEFINE f == [n \in 0 .. MaxId |-> g[n]]
<1>4. AreStates(f, events, leases)
  <2>1. ASSUME NEW n \in 0 .. MaxId
        PROVE  f[n] = After(events, leases, f, n)
    <3>1. g[n] = After(events, leases, g, n)
      BY <1>3
    <3>2. n # 0 => n - 1 \in 0 .. MaxId
      BY ReplayAssumption
    <3>3. n # 0 => f[n - 1] = g[n - 1]
      BY <3>2
    <3>4. f[n] = g[n]
      OBVIOUS
    <3> HIDE DEF f
    <3> QED BY <3>1, <3>3, <3>4 DEF After
  <2>2. f = [n \in 0 .. MaxId |-> f[n]]
    OBVIOUS
  <2> HIDE DEF f
  <2> QED BY <2>1, <2>2 DEF AreStates
<1> HIDE DEF f
<1> QED BY <1>4 DEF States
-----------------------------------------------------------------------------
\* Events as the catalogue lets them through, each with an id of its own.
IsEvent(e) ==
    /\ e.id \in Ids /\ e.task \in Tasks /\ e.actor \in Actors
    /\ e.type \in {"task.created", "task.updated", "claim.made",
                   "claim.confirmed", "claim.released", "run.finished",
                   "escalation.raised", "escalation.answered"}
    /\ e.type = "task.created" =>
          e.status \in TaskStatus /\ e.deps \in SUBSET Tasks
    /\ e.type = "task.updated" =>
          e.status \subseteq TaskStatus /\ e.deps \subseteq SUBSET Tasks
    /\ e.type = "run.finished" =>
          e.claim \in Ids \cup {None} /\ e.outcome \in Outcome
    /\ e.type = "escalation.raised" => e.blocking \in BOOLEAN

AreEvents(E) ==
    /\ \A e \in E : IsEvent(e)
    /\ \A e, f \in E : e.id = f.id => e = f

\* A working set names, per task, the active claim.
Holds(s) ==
    /\ \A t \in Tasks : s.holder[t] # None =>
          /\ s.holder[t] \in DOMAIN s.claims
          /\ s.claims[s.holder[t]].task = t
          /\ s.claims[s.holder[t]].status = "active"
    /\ \A c \in DOMAIN s.claims :
          s.claims[c].status = "active" => s.holder[s.claims[c].task] = c
    /\ \A c \in DOMAIN s.claims :
          s.claims[c].confirmation # None => s.claims[c].status # "voided"

\* Whatever the state names comes from an event up to n.
Traced(E, n, s) ==
    /\ \A t \in DOMAIN s.tasks : \E e \in E :
          e.id <= n /\ e.type = "task.created" /\ e.task = t
    /\ \A c \in DOMAIN s.claims : \E e \in E :
          /\ e.id <= n /\ e.type = "claim.made" /\ e.id = c
          /\ s.claims[c].task = e.task /\ s.claims[c].actor = e.actor
    /\ \A c \in DOMAIN s.claims : s.claims[c].confirmation # None =>
          \E e \in E : /\ e.id <= n /\ e.type = "claim.confirmed"
                       /\ e.claim = c /\ e.id = s.claims[c].confirmation
    /\ \A x \in DOMAIN s.escalations : \E e \in E :
          /\ e.id <= n /\ e.type = "escalation.raised" /\ e.id = x
          /\ s.escalations[x].task = e.task

\* Every event up to n has left what its type leaves.  And a claim whose own
\* actor reported a run of it is not active any more, or was confirmed since.
Recorded(E, n, s) ==
    /\ \A e \in E : e.id <= n /\ e.type = "task.created" =>
          e.task \in DOMAIN s.tasks
    /\ \A e \in E : e.id <= n /\ e.type = "claim.made" =>
          e.id \in DOMAIN s.claims
    /\ \A e \in E : e.id <= n /\ e.type = "escalation.raised" =>
          e.id \in DOMAIN s.escalations
    /\ \A e \in E : e.id <= n /\ e.type = "run.finished" =>
          \E r \in s.runs : IsRunOf(r, e)
    /\ \A e \in E :
          /\ e.id <= n /\ e.type = "run.finished"
          /\ e.claim \in DOMAIN s.claims /\ e.claim < e.id
          /\ s.claims[e.claim].task = e.task
          /\ s.claims[e.claim].actor = e.actor
          /\ s.claims[e.claim].status = "active"
          => s.claims[e.claim].confirmation > e.id

FoldInv(E, n, s) ==
    /\ IsState(s) /\ Holds(s) /\ Traced(E, n, s)
    /\ ~ s.error => Recorded(E, n, s)

\* What an event does to the record as far as FoldInv can tell.
LEMMA MalformedFold ==
    ASSUME NEW E, NEW n \in Nat, NEW s, FoldInv(E, n - 1, s), AreEvents(E)
    PROVE  FoldInv(E, n, Malformed(s))
<1> DEFINE m == Malformed(s)
<1>1. /\ IsState(m) /\ m.error = TRUE
      /\ m.claims = s.claims /\ m.holder = s.holder
      /\ m.tasks = s.tasks /\ m.escalations = s.escalations
  BY MalformedKeeps DEF Malformed, FoldInv, IsState
<1> HIDE DEF m
<1>2. \A e \in E : e.id <= n - 1 => e.id <= n
  BY DEF AreEvents, IsEvent, Ids
<1>3. Holds(m)
  BY <1>1 DEF FoldInv, Holds
<1>4. Traced(E, n, m)
  <2>1. Traced(E, n - 1, s)
    BY DEF FoldInv
  <2> QED BY <1>1, <1>2, <2>1 DEF Traced
<1> QED BY <1>1, <1>3, <1>4 DEF FoldInv, m

\* What the arms of apply have in common: claims and holders as they were.
LEMMA QuietFold ==
    ASSUME NEW E, NEW n \in Nat, NEW s, FoldInv(E, n - 1, s), AreEvents(E),
           NEW e \in E, e.id = n, ~ s.error,
           e.type \notin {"claim.made", "run.finished"},
           NEW m, IsState(m), m.claims = s.claims, m.holder = s.holder,
           m.runs = s.runs,
           DOMAIN m.tasks = DOMAIN s.tasks
              \cup (IF e.type = "task.created" THEN {e.task} ELSE {}),
           DOMAIN m.escalations = DOMAIN s.escalations
              \cup (IF e.type = "escalation.raised" THEN {n} ELSE {}),
           e.type = "escalation.raised" => m.escalations[n].task = e.task,
           \A x \in DOMAIN s.escalations : x # n =>
              m.escalations[x].task = s.escalations[x].task
    PROVE  FoldInv(E, n, m)
<1>1. /\ IsState(s) /\ Holds(s) /\ Traced(E, n - 1, s)
      /\ Recorded(E, n - 1, s)
  BY DEF FoldInv
<1>2. /\ \A f \in E : f.id \in Ids
      /\ \A f \in E : f.id <= n <=> f.id <= n - 1 \/ f = e
      /\ n <= n
  BY DEF AreEvents, IsEvent, Ids
<1>3. Holds(m)
  BY <1>1 DEF Holds
<1>4. Traced(E, n, m)
  <2>1. \A t \in DOMAIN m.tasks : \E f \in E :
           f.id <= n /\ f.type = "task.created" /\ f.task = t
    BY <1>1, <1>2 DEF Traced
  <2>2. \A c \in DOMAIN m.claims : \E f \in E :
           /\ f.id <= n /\ f.type = "claim.made" /\ f.id = c
           /\ m.claims[c].task = f.task /\ m.claims[c].actor = f.actor
    BY <1>1, <1>2 DEF Traced
  <2>3. \A c \in DOMAIN m.claims : m.claims[c].confirmation # None =>
           \E f \in E : /\ f.id <= n /\ f.type = "claim.confirmed"
                        /\ f.claim = c /\ f.id = m.claims[c].confirmation
    BY <1>1, <1>2 DEF Traced
  <2>4. \A x \in DOMAIN m.escalations : \E f \in E :
           /\ f.id <= n /\ f.type = "escalation.raised" /\ f.id = x
           /\ m.escalations[x].task = f.task
    <3> TAKE x \in DOMAIN m.escalations
    <3>1. CASE e.type = "escalation.raised" /\ x = n
      BY <1>2, <3>1
    <3>2. CASE ~ (e.type = "escalation.raised" /\ x = n)
      <4>1. x \in DOMAIN s.escalations
        BY <3>2
      <4>2. PICK f \in E : /\ f.id <= n - 1 /\ f.type = "escalation.raised"
                           /\ f.id = x /\ s.escalations[x].task = f.task
        BY <1>1, <4>1 DEF Traced
      <4>3. x # n
        BY <4>2
      <4> QED BY <1>2, <4>1, <4>2, <4>3
    <3> QED BY <3>1, <3>2
  <2> QED BY <2>1, <2>2, <2>3, <2>4 DEF Traced
<1>5. Recorded(E, n, m)
  BY <1>1, <1>2 DEF Recorded
<1> QED BY <1>3, <1>4, <1>5 DEF FoldInv

LEMMA TaskCreatedFold ==
    ASSUME NEW E, NEW n \in Nat, NEW s, FoldInv(E, n - 1, s), AreEvents(E),
           NEW e \in E, e.id = n, ~ s.error, e.type = "task.created"
    PROVE  FoldInv(E, n, TaskCreated(s, e))
<1> DEFINE m == TaskCreated(s, e)
           new == [status |-> e.status, deps |-> e.deps,
                   closed |-> IF Terminal(e.status) THEN e.id ELSE None]
<1>1. IsState(s) /\ IsEvent(e)
  BY DEF FoldInv, AreEvents
<1>2. IsState(m) /\ m.claims = s.claims /\ m.holder = s.holder
  BY <1>1, TaskCreatedKeeps DEF IsEvent
<1>3. CASE e.task \in DOMAIN s.tasks
  BY <1>3, MalformedFold DEF TaskCreated
<1>4. CASE e.task \notin DOMAIN s.tasks
  <2>1. m = [s EXCEPT !.tasks = Put(@, e.task, new)]
    BY <1>4 DEF TaskCreated
  <2> HIDE DEF new, m
  <2>2. /\ m.runs = s.runs /\ m.escalations = s.escalations
        /\ m.tasks = Put(s.tasks, e.task, new)
    BY <1>1, <2>1 DEF IsState
  <2>3. DOMAIN m.tasks = DOMAIN s.tasks \cup {e.task}
    BY <2>2 DEF Put
  <2>4. FoldInv(E, n, m)
    BY <1>2, <2>2, <2>3, QuietFold
  <2> QED BY <2>4 DEF m
<1> QED BY <1>3, <1>4

LEMMA TaskUpdatedFold ==
    ASSUME NEW E, NEW n \in Nat, NEW s, FoldInv(E, n - 1, s), AreEvents(E),
           NEW e \in E, e.id = n, ~ s.error, e.type = "task.updated"
    PROVE  FoldInv(E, n, TaskUpdated(s, e))
<1> DEFINE m == TaskUpdated(s, e)
<1>1. IsState(s) /\ IsEvent(e)
  BY DEF FoldInv, AreEvents
<1>2. IsState(m) /\ m.claims = s.claims /\ m.holder = s.holder
  BY <1>1, TaskUpdatedKeeps DEF IsEvent
<1>3. CASE e.task \notin DOMAIN s.tasks
  BY <1>3, MalformedFold DEF TaskUpdated
<1>4. CASE e.task \in DOMAIN s.tasks
  <2>1. \E k : m = [s EXCEPT !.tasks[e.task] = k]
    BY <1>4 DEF TaskUpdated
  <2>2. PICK k : m = [s EXCEPT !.tasks[e.task] = k]
    BY <2>1
  <2> HIDE DEF m
  <2>3. /\ m.runs = s.runs /\ m.escalations = s.escalations
        /\ DOMAIN m.tasks = DOMAIN s.tasks
    BY <1>1, <2>2 DEF IsState
  <2>4. FoldInv(E, n, m)
    BY <1>2, <2>3, QuietFold
  <2> QED BY <2>4 DEF m
<1> QED BY <1>3, <1>4

LEMMA EscalationRaisedFold ==
    ASSUME NEW E, NEW n \in Nat, NEW s, FoldInv(E, n - 1, s), AreEvents(E),
           NEW e \in E, e.id = n, ~ s.error, e.type = "escalation.raised"
    PROVE  FoldInv(E, n, EscalationRaised(s, e))
<1> DEFINE m == EscalationRaised(s, e)
           new == [task |-> e.task, blocking |-> e.blocking, answered |-> FALSE]
<1>1. IsState(s) /\ IsEvent(e)
  BY DEF FoldInv, AreEvents
<1>2. IsState(m) /\ m.claims = s.claims /\ m.holder = s.holder
  BY <1>1, EscalationRaisedKeeps DEF IsEvent
<1>3. CASE e.task \notin DOMAIN s.tasks
  BY <1>3, MalformedFold DEF EscalationRaised
<1>4. CASE e.task \in DOMAIN s.tasks
  <2>1. m = [s EXCEPT !.escalations = Put(@, e.id, new)]
    BY <1>4 DEF EscalationRaised
  <2>0. new.task = e.task
    OBVIOUS
  <2> HIDE DEF new, m
  <2>2. /\ m.runs = s.runs /\ m.tasks = s.tasks
        /\ m.escalations = Put(s.escalations, n, new)
    BY <1>1, <2>1 DEF IsState
  <2>3. /\ DOMAIN m.escalations = DOMAIN s.escalations \cup {n}
        /\ m.escalations[n] = new
        /\ \A x \in DOMAIN s.escalations \ {n} :
              m.escalations[x] = s.escalations[x]
    BY <2>2 DEF Put
  <2>4. FoldInv(E, n, m)
    BY <1>2, <2>0, <2>2, <2>3, QuietFold
  <2> QED BY <2>4 DEF m
<1> QED BY <1>3, <1>4

LEMMA EscalationAnsweredFold ==
    ASSUME NEW E, NEW n \in Nat, NEW s, FoldInv(E, n - 1, s), AreEvents(E),
           NEW e \in E, e.id = n, ~ s.error, e.type = "escalation.answered"
    PROVE  FoldInv(E, n, EscalationAnswered(s, e))
<1> DEFINE m == EscalationAnswered(s, e)
           x == e.escalation
<1>1. IsState(s) /\ IsEvent(e)
  BY DEF FoldInv, AreEvents
<1>2. IsState(m) /\ m.claims = s.claims /\ m.holder = s.holder
  BY <1>1, EscalationAnsweredKeeps
<1>3. CASE x \notin DOMAIN s.escalations \/ s.escalations[x].task # e.task
  BY <1>3, MalformedFold DEF EscalationAnswered
<1>4. CASE x \in DOMAIN s.escalations /\ s.escalations[x].task = e.task
  <2>1. m = [s EXCEPT !.escalations[x].answered = TRUE]
    BY <1>4 DEF EscalationAnswered
  <2> HIDE DEF m
  <2>2. /\ m.runs = s.runs /\ m.tasks = s.tasks
        /\ m.escalations = [s.escalations EXCEPT ![x].answered = TRUE]
    BY <1>1, <2>1 DEF IsState
  <2>3. s.escalations[x] \in EscalationRecord
    BY <1>1, <1>4 DEF IsState, IsMap
  <2>4. /\ DOMAIN m.escalations = DOMAIN s.escalations
        /\ \A y \in DOMAIN s.escalations :
              m.escalations[y].task = s.escalations[y].task
    BY <2>2, <2>3 DEF EscalationRecord
  <2>5. FoldInv(E, n, m)
    BY <1>2, <2>2, <2>4, QuietFold
  <2> QED BY <2>5 DEF m
<1> QED BY <1>3, <1>4

\* Events that change a claim, the hold on their own task and the runs: what
\* is left to show of each is Holds, and that runs reported stay reported.
LEMMA ClaimsFold ==
    ASSUME NEW E, NEW n \in Nat, NEW s, FoldInv(E, n - 1, s), AreEvents(E),
           NEW e \in E, e.id = n, ~ s.error,
           e.type \notin {"task.created", "escalation.raised"},
           NEW m, IsState(m), Holds(m), DOMAIN m.tasks = DOMAIN s.tasks,
           m.escalations = s.escalations, s.runs \subseteq m.runs,
           DOMAIN m.claims = DOMAIN s.claims
              \cup (IF e.type = "claim.made" THEN {n} ELSE {}),
           e.type = "claim.made" =>
              /\ m.claims[n].task = e.task /\ m.claims[n].actor = e.actor
              /\ m.claims[n].confirmation = None,
           \A c \in DOMAIN s.claims : c # n =>
              /\ m.claims[c].task = s.claims[c].task
              /\ m.claims[c].actor = s.claims[c].actor
              /\ \/ m.claims[c].confirmation = s.claims[c].confirmation
                 \/ /\ e.type = "claim.confirmed" /\ e.claim = c
                    /\ m.claims[c].confirmation = n
              /\ m.claims[c].status = "active" =>
                    \/ s.claims[c].status = "active"
                    \/ m.claims[c].confirmation = n,
           e.type = "run.finished" =>
              /\ \E r \in m.runs : IsRunOf(r, e)
              /\ \A c \in DOMAIN m.claims :
                    ~ /\ c = e.claim /\ m.claims[c].task = e.task
                      /\ m.claims[c].actor = e.actor
                      /\ m.claims[c].status = "active"
    PROVE  FoldInv(E, n, m)
<1>1. /\ IsState(s) /\ Holds(s) /\ Traced(E, n - 1, s)
      /\ Recorded(E, n - 1, s)
  BY DEF FoldInv
<1>2. /\ \A f \in E : f.id \in Ids
      /\ \A f \in E : f.id <= n <=> f.id <= n - 1 \/ f = e
      /\ \A f \in E : f.id <= n - 1 => f.id # n /\ f.id < n
      /\ n <= n
  BY DEF AreEvents, IsEvent, Ids
<1>3. n \notin DOMAIN s.claims
  BY <1>1, <1>2 DEF Traced
<1>4. Traced(E, n, m)
  <2>1. \A t \in DOMAIN m.tasks : \E f \in E :
           f.id <= n /\ f.type = "task.created" /\ f.task = t
    BY <1>1, <1>2 DEF Traced
  <2>2. \A c \in DOMAIN m.claims : \E f \in E :
           /\ f.id <= n /\ f.type = "claim.made" /\ f.id = c
           /\ m.claims[c].task = f.task /\ m.claims[c].actor = f.actor
    <3> TAKE c \in DOMAIN m.claims
    <3>1. CASE c \in DOMAIN s.claims
      <4>1. PICK f \in E : /\ f.id <= n - 1 /\ f.type = "claim.made"
                           /\ f.id = c /\ s.claims[c].task = f.task
                           /\ s.claims[c].actor = f.actor
        BY <1>1, <3>1 DEF Traced
      <4>2. c # n
        BY <1>3, <3>1
      <4> QED BY <1>2, <3>1, <4>1, <4>2
    <3>2. CASE c \notin DOMAIN s.claims
      <4>1. c = n /\ e.type = "claim.made"
        BY <3>2
      <4> QED BY <1>2, <4>1
    <3> QED BY <3>1, <3>2
  <2>3. \A c \in DOMAIN m.claims : m.claims[c].confirmation # None =>
           \E f \in E : /\ f.id <= n /\ f.type = "claim.confirmed"
                        /\ f.claim = c /\ f.id = m.claims[c].confirmation
    <3> SUFFICES ASSUME NEW c \in DOMAIN m.claims,
                        m.claims[c].confirmation # None
                 PROVE  \E f \in E :
                           /\ f.id <= n /\ f.type = "claim.confirmed"
                           /\ f.claim = c /\ f.id = m.claims[c].confirmation
      OBVIOUS
    <3>1. c \in DOMAIN s.claims /\ c # n
      BY <1>3
    <3>2. CASE m.claims[c].confirmation = s.claims[c].confirmation
      BY <1>1, <1>2, <3>1, <3>2 DEF Traced
    <3>3. CASE m.claims[c].confirmation # s.claims[c].confirmation
      BY <1>2, <3>1, <3>3
    <3> QED BY <3>2, <3>3
  <2>4. \A x \in DOMAIN m.escalations : \E f \in E :
           /\ f.id <= n /\ f.type = "escalation.raised" /\ f.id = x
           /\ m.escalations[x].task = f.task
    BY <1>1, <1>2 DEF Traced
  <2> QED BY <2>1, <2>2, <2>3, <2>4 DEF Traced
<1>5. Recorded(E, n, m)
  <2>1. \A f \in E : f.id <= n /\ f.type = "run.finished" =>
           \E r \in m.runs : IsRunOf(r, f)
    BY <1>1, <1>2 DEF Recorded
  <2>2. ASSUME NEW f \in E, f.id <= n, f.type = "run.finished",
               f.claim \in DOMAIN m.claims, f.claim < f.id,
               m.claims[f.claim].task = f.task,
               m.claims[f.claim].actor = f.actor,
               m.claims[f.claim].status = "active"
        PROVE  m.claims[f.claim].confirmation > f.id
    <3>1. f # e
      BY <2>2
    <3>2. f.id <= n - 1 /\ f.id < n /\ f.id \in Ids
      BY <1>2, <2>2, <3>1
    <3>3. f.claim \in DOMAIN s.claims /\ f.claim # n
      <4>1. f.claim \in Ids
        BY <2>2 DEF AreEvents, IsEvent, IsState, IsMap
      <4>2. f.claim # n
        BY <2>2, <3>2, <4>1 DEF Ids
      <4> QED BY <2>2, <4>2
    <3>4. CASE m.claims[f.claim].confirmation = n
      BY <3>2, <3>4 DEF Ids
    <3>5. CASE m.claims[f.claim].confirmation # n
      <4>1. s.claims[f.claim].status = "active"
            /\ m.claims[f.claim].confirmation = s.claims[f.claim].confirmation
            /\ s.claims[f.claim].task = f.task
            /\ s.claims[f.claim].actor = f.actor
        BY <2>2, <3>3, <3>5
      <4> QED BY <1>1, <2>2, <3>2, <3>3, <4>1 DEF Recorded
    <3> QED BY <3>4, <3>5
  <2>3. /\ \A f \in E : f.id <= n /\ f.type = "task.created" =>
              f.task \in DOMAIN m.tasks
        /\ \A f \in E : f.id <= n /\ f.type = "claim.made" =>
              f.id \in DOMAIN m.claims
        /\ \A f \in E : f.id <= n /\ f.type = "escalation.raised" =>
              f.id \in DOMAIN m.escalations
    BY <1>1, <1>2 DEF Recorded
  <2> QED BY <2>1, <2>2, <2>3 DEF Recorded
<1> QED BY <1>4, <1>5 DEF FoldInv

\* What Holds says of the holder, and what a claim record is made of.
LEMMA HolderFacts ==
    ASSUME NEW E, NEW n \in Nat, NEW s, FoldInv(E, n - 1, s),
           NEW e, e.id = n, IsEvent(e), AreEvents(E)
    PROVE  /\ IsState(s) /\ Holds(s) /\ n \in Ids /\ n # None
           /\ n \notin DOMAIN s.claims
           /\ \A c \in DOMAIN s.claims :
                 /\ s.claims[c] \in ClaimRecord /\ c \in Ids /\ c # None
                 /\ s.claims[c].task \in Tasks
           /\ s.holder \in [Tasks -> Ids \cup {None}]
           /\ s.holder[e.task] # None =>
                 /\ s.holder[e.task] \in DOMAIN s.claims
                 /\ s.claims[s.holder[e.task]].task = e.task
                 /\ s.claims[s.holder[e.task]].status = "active"
<1>1. IsState(s) /\ Holds(s) /\ Traced(E, n - 1, s) /\ n \in Ids
  BY DEF FoldInv, IsEvent
<1>2. \A c \in DOMAIN s.claims : c \in Ids /\ c <= n - 1
  BY <1>1 DEF Traced, AreEvents, IsEvent
<1>3. n \notin DOMAIN s.claims /\ n # None
  BY <1>1, <1>2 DEF Ids, None
<1>4. \A c \in DOMAIN s.claims :
         s.claims[c] \in ClaimRecord /\ c # None
  BY <1>1, <1>2 DEF IsState, IsMap, Ids, None
<1> QED BY <1>1, <1>2, <1>3, <1>4 DEF Holds, IsState, ClaimRecord, IsEvent

LEMMA ClaimReleasedFold ==
    ASSUME NEW E, NEW n \in Nat, NEW s, FoldInv(E, n - 1, s), AreEvents(E),
           NEW e \in E, e.id = n, ~ s.error, e.type = "claim.released"
    PROVE  FoldInv(E, n, ClaimReleased(s, e))
<1> DEFINE m == ClaimReleased(s, e)
           h == s.holder[e.task]
           cs == [s.claims EXCEPT ![h].status = "released"]
           k  == [s.holder EXCEPT ![e.task] = None]
<1>1. IsEvent(e) /\ e.task \in Tasks
  BY DEF AreEvents, IsEvent
<1>2. IsState(s) /\ Holds(s)
  BY DEF FoldInv
<1>3. CASE m = s
  <2>1. FoldInv(E, n, s)
    BY <1>2, QuietFold
  <2> QED BY <1>3, <2>1
<1>4. CASE h # None /\ Is(m, s.tasks, cs, k, s.runs, s.escalations, s.error)
  <2>1. h \in DOMAIN s.claims /\ s.claims[h] \in ClaimRecord
    BY <1>1, <1>4, HolderFacts
  <2>2. /\ DOMAIN cs = DOMAIN s.claims
        /\ \A c \in DOMAIN s.claims : c # h => cs[c] = s.claims[c]
        /\ cs[h].task = s.claims[h].task /\ cs[h].actor = s.claims[h].actor
        /\ cs[h].confirmation = s.claims[h].confirmation
        /\ cs[h].status = "released"
        /\ [s.claims[h] EXCEPT !.status = "released"] \in ClaimRecord
    BY <2>1 DEF ClaimRecord, ClaimStatus
  <2>3. IsMap(cs, Ids, ClaimRecord)
    BY <1>2, <2>1, <2>2, ExceptIsMap DEF IsState
  <2>4. /\ k \in [Tasks -> Ids \cup {None}]
        /\ k[e.task] = None /\ \A t \in Tasks : t # e.task => k[t] = s.holder[t]
    BY <1>1, <1>2 DEF IsState
  <2> HIDE DEF m, h, cs, k
  <2>5. /\ IsState(m) /\ m.claims = cs /\ m.holder = k /\ m.tasks = s.tasks
        /\ m.runs = s.runs /\ m.escalations = s.escalations
    BY <1>2, <1>4, <2>3, <2>4, IsFacts DEF IsState, Is
  <2>6. Holds(m)
    <3>1. /\ \A t \in Tasks : s.holder[t] # None => s.holder[t] = h <=> t = e.task
          /\ s.holder[e.task] = h
      BY <1>1, <1>2, <1>4, HolderFacts DEF Holds, h
    <3> QED BY <1>2, <2>1, <2>2, <2>4, <2>5, <3>1, HolderFacts, <1>1 DEF Holds
  <2>7. FoldInv(E, n, m)
    BY <2>1, <2>2, <2>5, <2>6, ClaimsFold
  <2> QED BY <2>7 DEF m
<1> QED BY <1>1, <1>2, <1>3, <1>4, ClaimReleasedCases

\* m is s with claim e entered with status x; os are the other claims, and
\* the runs are the given ones.
EntersClaim(s, e, m, x, os, runs) ==
    LET h == s.holder[e.task]
    IN  /\ x \in {"active", "voided"}
        /\ IsMap(os, Ids, ClaimRecord)
        /\ DOMAIN os = DOMAIN s.claims
        /\ \A c \in DOMAIN os : os[c] = s.claims[c]
              \/ /\ c = h /\ x = "active" /\ os[c].status = "expired"
                 /\ os[c].task = e.task
                 /\ os[c].actor = s.claims[c].actor
                 /\ os[c].confirmation = s.claims[c].confirmation
        /\ (x = "active" /\ h # None) => os[h].status = "expired"
        /\ s.runs \subseteq runs
        /\ runs \subseteq RunRecord
        /\ Is(m, s.tasks, Put(os, e.id, NewClaim(e, x)),
              IF x = "active" THEN [s.holder EXCEPT ![e.task] = e.id]
              ELSE s.holder,
              runs, s.escalations, s.error)

LEMMA NewClaimFold ==
    ASSUME NEW E, NEW n \in Nat, NEW s, FoldInv(E, n - 1, s), AreEvents(E),
           NEW e \in E, e.id = n, ~ s.error, e.type = "claim.made", NEW m,
           NEW x, NEW os, NEW runs, EntersClaim(s, e, m, x, os, runs)
    PROVE  FoldInv(E, n, m)
<1> DEFINE h == s.holder[e.task]
           k == IF x = "active" THEN [s.holder EXCEPT ![e.task] = n]
                ELSE s.holder
<1>0. /\ x \in {"active", "voided"}
      /\ IsMap(os, Ids, ClaimRecord) /\ DOMAIN os = DOMAIN s.claims
      /\ \A c \in DOMAIN os : os[c] = s.claims[c]
            \/ /\ c = h /\ x = "active" /\ os[c].status = "expired"
               /\ os[c].task = e.task
               /\ os[c].actor = s.claims[c].actor
               /\ os[c].confirmation = s.claims[c].confirmation
      /\ (x = "active" /\ h # None) => os[h].status = "expired"
      /\ s.runs \subseteq runs /\ runs \subseteq RunRecord
      /\ Is(m, s.tasks, Put(os, n, NewClaim(e, x)), k, runs,
            s.escalations, s.error)
  BY DEF EntersClaim
<1>1. IsEvent(e) /\ e.task \in Tasks /\ e.actor \in Actors
  BY DEF AreEvents, IsEvent
<1>2. /\ IsState(s) /\ Holds(s) /\ n \in Ids /\ n # None
      /\ n \notin DOMAIN s.claims
      /\ \A c \in DOMAIN s.claims :
            s.claims[c] \in ClaimRecord /\ c # None /\ s.claims[c].task \in Tasks
      /\ s.holder \in [Tasks -> Ids \cup {None}]
      /\ h # None => /\ h \in DOMAIN s.claims /\ s.claims[h].task = e.task
                     /\ s.claims[h].status = "active"
  BY <1>1, HolderFacts
<1> HIDE DEF h
<1> DEFINE cs == Put(os, n, NewClaim(e, x))
<1>3. /\ NewClaim(e, x) \in ClaimRecord /\ NewClaim(e, x).task = e.task
      /\ NewClaim(e, x).actor = e.actor /\ NewClaim(e, x).status = x
      /\ NewClaim(e, x).confirmation = None
  BY <1>0, <1>1, NewClaimFacts DEF NewClaim
<1>4. /\ DOMAIN cs = DOMAIN s.claims \cup {n}
      /\ cs[n] = NewClaim(e, x)
      /\ \A c \in DOMAIN s.claims : cs[c] = os[c]
  BY <1>0, <1>2 DEF Put
<1>5. IsMap(cs, Ids, ClaimRecord)
  BY <1>0, <1>2, <1>3, PutIsMap
<1>6. /\ k \in [Tasks -> Ids \cup {None}]
      /\ k[e.task] = IF x = "active" THEN n ELSE h
      /\ \A t \in Tasks : t # e.task => k[t] = s.holder[t]
  <2>0. s.holder[e.task] = h
    BY DEF h
  <2>1. CASE x = "active"
    <3>1. k = [s.holder EXCEPT ![e.task] = n]
      BY <2>1
    <3> QED BY <1>1, <1>2, <2>0, <2>1, <3>1
  <2>2. CASE x = "voided"
    <3>1. k = s.holder
      BY <2>2
    <3> QED BY <1>1, <1>2, <2>0, <2>2, <3>1
  <2> QED BY <1>0, <2>1, <2>2
<1> HIDE DEF cs, k
<1>7. /\ IsState(m) /\ m.claims = cs /\ m.holder = k /\ m.tasks = s.tasks
      /\ m.runs = runs /\ m.escalations = s.escalations
  BY <1>0, <1>2, <1>5, <1>6, IsFacts DEF IsState, Is, cs
<1>8. Holds(m)
  <2>1. s.holder[e.task] = h
    BY DEF h
  <2>2. \A t \in Tasks : m.holder[t] # None =>
           /\ m.holder[t] \in DOMAIN m.claims
           /\ m.claims[m.holder[t]].task = t
           /\ m.claims[m.holder[t]].status = "active"
    <3> SUFFICES ASSUME NEW t \in Tasks, k[t] # None
                 PROVE  /\ k[t] \in DOMAIN cs /\ cs[k[t]].task = t
                        /\ cs[k[t]].status = "active"
      BY <1>7
    <3>1. CASE t = e.task /\ x = "active"
      BY <1>0, <1>3, <1>4, <1>6, <3>1
    <3>2. CASE ~ (t = e.task /\ x = "active")
      <4>1. k[t] = s.holder[t]
        BY <1>6, <2>1, <3>2
      <4>2. /\ k[t] \in DOMAIN s.claims /\ s.claims[k[t]].task = t
            /\ s.claims[k[t]].status = "active"
        BY <1>2, <4>1 DEF Holds
      <4>3. os[k[t]] = s.claims[k[t]]
        BY <1>0, <1>2, <3>2, <4>2
      <4> QED BY <1>4, <4>2, <4>3
    <3> QED BY <3>1, <3>2
  <2>3. \A c \in DOMAIN m.claims : m.claims[c].status = "active" =>
           m.holder[m.claims[c].task] = c
    <3> SUFFICES ASSUME NEW c \in DOMAIN cs, cs[c].status = "active"
                 PROVE  k[cs[c].task] = c
      BY <1>7
    <3>1. CASE c = n
      BY <1>0, <1>3, <1>4, <1>6, <3>1
    <3>2. CASE c # n
      <4>1. c \in DOMAIN s.claims /\ cs[c] = s.claims[c]
        BY <1>0, <1>4, <3>2
      <4>2. s.holder[s.claims[c].task] = c /\ s.claims[c].task \in Tasks
            /\ c # None
        BY <1>2, <4>1 DEF Holds
      <4>3. ~ (x = "active" /\ s.claims[c].task = e.task)
        BY <1>0, <1>4, <2>1, <4>1, <4>2
      <4> QED BY <1>6, <2>1, <4>1, <4>2, <4>3
    <3> QED BY <3>1, <3>2
  <2>4. \A c \in DOMAIN m.claims :
           m.claims[c].confirmation # None => m.claims[c].status # "voided"
    <3> SUFFICES ASSUME NEW c \in DOMAIN cs, cs[c].confirmation # None
                 PROVE  cs[c].status # "voided"
      BY <1>7
    <3>1. c # n
      BY <1>3, <1>4
    <3> QED BY <1>0, <1>2, <1>4, <3>1 DEF Holds
  <2> QED BY <2>2, <2>3, <2>4 DEF Holds
<1>9. FoldInv(E, n, m)
  <2>1. \A c \in DOMAIN s.claims : c # n =>
           /\ m.claims[c].task = s.claims[c].task
           /\ m.claims[c].actor = s.claims[c].actor
           /\ m.claims[c].confirmation = s.claims[c].confirmation
           /\ m.claims[c].status = "active" => s.claims[c].status = "active"
    BY <1>0, <1>2, <1>4, <1>7
  <2>2. /\ DOMAIN m.claims = DOMAIN s.claims
              \cup (IF e.type = "claim.made" THEN {n} ELSE {})
        /\ m.claims[n].task = e.task /\ m.claims[n].actor = e.actor
        /\ m.claims[n].confirmation = None
        /\ e.type \notin {"task.created", "escalation.raised"}
        /\ e.type # "run.finished" /\ s.runs \subseteq m.runs
        /\ DOMAIN m.tasks = DOMAIN s.tasks
    BY <1>0, <1>3, <1>4, <1>7
  <2> HIDE DEF FoldInv
  <2> QED BY <1>0, <1>7, <1>8, <2>1, <2>2, ClaimsFold
<1> QED BY <1>9

LEMMA ClaimMadeFold ==
    ASSUME NEW E, NEW n \in Nat, NEW s, FoldInv(E, n - 1, s), AreEvents(E),
           NEW e \in E, e.id = n, ~ s.error, e.type = "claim.made", NEW lv
    PROVE  FoldInv(E, n, ClaimMade(s, lv, e))
<1> DEFINE m == ClaimMade(s, lv, e)
           h == s.holder[e.task]
           es == [s.claims EXCEPT ![h].status = "expired"]
<1>1. IsEvent(e) /\ e.task \in Tasks /\ e.actor \in Actors
  BY DEF AreEvents, IsEvent
<1>2. /\ IsState(s) /\ Holds(s) /\ n \in Ids /\ n # None
      /\ n \notin DOMAIN s.claims
      /\ \A c \in DOMAIN s.claims :
            s.claims[c] \in ClaimRecord /\ c # None /\ s.claims[c].task \in Tasks
      /\ s.holder \in [Tasks -> Ids \cup {None}]
      /\ h # None => /\ h \in DOMAIN s.claims /\ s.claims[h].task = e.task
                     /\ s.claims[h].status = "active"
  BY <1>1, HolderFacts
<1>3. CASE m = Malformed(s)
  BY <1>3, MalformedFold
<1>4. CASE h = None /\ Is(m, s.tasks, Put(s.claims, n, NewClaim(e, "active")),
                          [s.holder EXCEPT ![e.task] = n],
                          s.runs, s.escalations, s.error)
  <2>1. EntersClaim(s, e, m, "active", s.claims, s.runs)
    BY <1>2, <1>4 DEF IsState, EntersClaim
  <2> QED BY <2>1, NewClaimFold
<1>5. CASE h # None /\ Is(m, s.tasks, Put(s.claims, n, NewClaim(e, "voided")),
                          s.holder, s.runs, s.escalations, s.error)
  <2>1. EntersClaim(s, e, m, "voided", s.claims, s.runs)
    BY <1>2, <1>5 DEF IsState, EntersClaim
  <2> QED BY <2>1, NewClaimFold
<1>6. CASE h # None /\ Is(m, s.tasks, Put(es, n, NewClaim(e, "active")),
                          [s.holder EXCEPT ![e.task] = n],
                          s.runs \cup {InterruptedRun(s, h)},
                          s.escalations, s.error)
  <2>1. h \in DOMAIN s.claims /\ s.claims[h] \in ClaimRecord /\ h \in Ids
    BY <1>2, <1>6 DEF IsState, IsMap
  <2>2. /\ DOMAIN es = DOMAIN s.claims
        /\ \A c \in DOMAIN s.claims : c # h => es[c] = s.claims[c]
        /\ es[h].task = s.claims[h].task /\ es[h].actor = s.claims[h].actor
        /\ es[h].confirmation = s.claims[h].confirmation
        /\ es[h].status = "expired"
        /\ [s.claims[h] EXCEPT !.status = "expired"] \in ClaimRecord
    BY <2>1 DEF ClaimRecord, ClaimStatus
  <2>3. IsMap(es, Ids, ClaimRecord)
    BY <1>2, <2>1, <2>2, ExceptIsMap DEF IsState
  <2>4. InterruptedRun(s, h) \in RunRecord
    BY <2>1 DEF InterruptedRun, RunRecord, ClaimRecord, Outcome
  <2> DEFINE runs == s.runs \cup {InterruptedRun(s, h)}
  <2>5. runs \subseteq RunRecord /\ s.runs \subseteq runs
    BY <1>2, <2>4 DEF IsState
  <2> HIDE DEF runs, es, m
  <2>6. EntersClaim(s, e, m, "active", es, runs)
    BY <1>2, <1>6, <2>2, <2>3, <2>5, SMTT(60) DEF EntersClaim, runs
  <2>7. FoldInv(E, n, m)
    BY <2>6, NewClaimFold
  <2> QED BY <2>7 DEF m
<1> QED BY <1>1, <1>2, <1>3, <1>4, <1>5, <1>6, ClaimMadeCases

LEMMA ClaimConfirmedFold ==
    ASSUME NEW E, NEW n \in Nat, NEW s, FoldInv(E, n - 1, s), AreEvents(E),
           NEW e \in E, e.id = n, ~ s.error, e.type = "claim.confirmed"
    PROVE  FoldInv(E, n, ClaimConfirmed(s, e))
<1> DEFINE m == ClaimConfirmed(s, e)
           h == s.holder[e.task]
           l == e.claim
           xs == [s.claims EXCEPT ![l].confirmation = n]
           cs == [s.claims EXCEPT ![h].status = "voided",
                                  ![l].status = "active",
                                  ![l].confirmation = n]
           k  == [s.holder EXCEPT ![e.task] = l]
<1>1. IsEvent(e) /\ e.task \in Tasks
  BY DEF AreEvents, IsEvent
<1>2. /\ IsState(s) /\ Holds(s) /\ n \in Ids /\ n # None
      /\ n \notin DOMAIN s.claims
      /\ \A c \in DOMAIN s.claims :
            /\ s.claims[c] \in ClaimRecord /\ c \in Ids /\ c # None
            /\ s.claims[c].task \in Tasks
      /\ s.holder \in [Tasks -> Ids \cup {None}]
      /\ h # None => /\ h \in DOMAIN s.claims /\ s.claims[h].task = e.task
                     /\ s.claims[h].status = "active"
  BY <1>1, HolderFacts
<1>3. CASE m = Malformed(s)
  BY <1>3, MalformedFold
<1>4. CASE m = s
  <2>1. FoldInv(E, n, s)
    BY <1>2, QuietFold
  <2> QED BY <1>4, <2>1
<1>5. CASE /\ h = l /\ l \in DOMAIN s.claims
           /\ Is(m, s.tasks, xs, s.holder, s.runs, s.escalations, s.error)
  <2>1. h # None /\ s.claims[l] \in ClaimRecord /\ s.claims[l].status = "active"
    BY <1>2, <1>5
  <2>2. /\ DOMAIN xs = DOMAIN s.claims
        /\ \A c \in DOMAIN s.claims : c # l => xs[c] = s.claims[c]
        /\ xs[l].task = s.claims[l].task /\ xs[l].actor = s.claims[l].actor
        /\ xs[l].status = "active" /\ xs[l].confirmation = n
        /\ [s.claims[l] EXCEPT !.confirmation = n] \in ClaimRecord
    BY <1>2, <1>5, <2>1 DEF ClaimRecord
  <2>3. IsMap(xs, Ids, ClaimRecord)
    BY <1>2, <1>5, <2>2, ExceptIsMap DEF IsState
  <2> HIDE DEF m, h, l, xs
  <2>4. /\ IsState(m) /\ m.claims = xs /\ m.holder = s.holder
        /\ m.tasks = s.tasks /\ m.runs = s.runs
        /\ m.escalations = s.escalations
    BY <1>2, <1>5, <2>3, IsFacts DEF IsState, Is
  <2>5. \A c \in DOMAIN s.claims :
           /\ m.claims[c].task = s.claims[c].task
           /\ m.claims[c].actor = s.claims[c].actor
           /\ m.claims[c].status = s.claims[c].status
           /\ c # l => m.claims[c].confirmation = s.claims[c].confirmation
           /\ c = l => m.claims[c].confirmation = n
    BY <2>1, <2>2, <2>4
  <2>6. Holds(m)
    BY <1>2, <2>1, <2>2, <2>4, <2>5 DEF Holds
  <2>7. FoldInv(E, n, m)
    <3>1. e.claim = l
      BY DEF l
    <3> QED BY <2>2, <2>4, <2>5, <2>6, <3>1, ClaimsFold, SMTT(60)
  <2> QED BY <2>7 DEF m
<1>6. CASE /\ h # None /\ s.claims[h].confirmation = None
           /\ l \in DOMAIN s.claims /\ s.claims[l].task = e.task
           /\ s.claims[l].status = "voided"
           /\ Is(m, s.tasks, cs, k, s.runs, s.escalations, s.error)
  <2>1. /\ h \in DOMAIN s.claims /\ s.claims[h].task = e.task
        /\ s.claims[h].status = "active" /\ s.claims[h] \in ClaimRecord
        /\ s.claims[l] \in ClaimRecord /\ l \in Ids
    BY <1>2, <1>6, SMTT(60)
  <2>2. h # l
    BY <1>6, <2>1
  <2> DEFINE ms == [s.claims EXCEPT ![h].status = "voided"]
             v  == [s.claims[l] EXCEPT !.status = "active",
                                       !.confirmation = n]
  <2>3. /\ DOMAIN ms = DOMAIN s.claims
        /\ \A c \in DOMAIN s.claims : c # h => ms[c] = s.claims[c]
        /\ ms[h] = [s.claims[h] EXCEPT !.status = "voided"]
        /\ [s.claims[h] EXCEPT !.status = "voided"] \in ClaimRecord
        /\ v \in ClaimRecord
    BY <1>2, <2>1 DEF ClaimRecord, ClaimStatus
  <2>4. IsMap(ms, Ids, ClaimRecord)
    BY <1>2, <2>1, <2>3, ExceptIsMap DEF IsState
  <2>5. cs = [ms EXCEPT ![l] = v]
    BY <2>2
  <2>6. IsMap(cs, Ids, ClaimRecord)
    <3> HIDE DEF ms, v, cs
    <3> QED BY <1>6, <2>3, <2>4, <2>5, ExceptIsMap
  <2>7. /\ DOMAIN cs = DOMAIN s.claims
        /\ \A c \in DOMAIN s.claims : c # h /\ c # l => cs[c] = s.claims[c]
        /\ cs[h] = [s.claims[h] EXCEPT !.status = "voided"]
        /\ cs[l] = v
    <3> HIDE DEF ms, v, cs
    <3> QED BY <1>6, <2>1, <2>2, <2>3, <2>5
  <2>8. /\ cs[h].task = s.claims[h].task /\ cs[h].actor = s.claims[h].actor
        /\ cs[h].confirmation = s.claims[h].confirmation
        /\ cs[h].status = "voided"
        /\ cs[l].task = s.claims[l].task /\ cs[l].actor = s.claims[l].actor
        /\ cs[l].confirmation = n /\ cs[l].status = "active"
    <3> HIDE DEF cs
    <3> QED BY <2>1, <2>7 DEF ClaimRecord
  <2>9. /\ k \in [Tasks -> Ids \cup {None}]
        /\ k[e.task] = l /\ \A t \in Tasks : t # e.task => k[t] = s.holder[t]
        /\ s.holder[e.task] = h /\ e.claim = l
    BY <1>1, <1>2, <2>1
  <2> HIDE DEF m, h, l, cs, k, ms, v
  <2>10. /\ IsState(m) /\ m.claims = cs /\ m.holder = k
         /\ m.tasks = s.tasks /\ m.runs = s.runs
         /\ m.escalations = s.escalations
    BY <1>2, <1>6, <2>6, <2>9, IsFacts DEF IsState, Is
  <2>11. Holds(m)
    <3>1. \A t \in Tasks : m.holder[t] # None =>
             /\ m.holder[t] \in DOMAIN m.claims
             /\ m.claims[m.holder[t]].task = t
             /\ m.claims[m.holder[t]].status = "active"
      <4> SUFFICES ASSUME NEW t \in Tasks, k[t] # None
                   PROVE  /\ k[t] \in DOMAIN cs /\ cs[k[t]].task = t
                          /\ cs[k[t]].status = "active"
        BY <2>10
      <4>1. CASE t = e.task
        BY <1>6, <2>7, <2>8, <2>9, <4>1
      <4>2. CASE t # e.task
        <5>1. k[t] = s.holder[t]
          BY <2>9, <4>2
        <5>2. /\ k[t] \in DOMAIN s.claims /\ s.claims[k[t]].task = t
              /\ s.claims[k[t]].status = "active"
          BY <1>2, <5>1 DEF Holds
        <5>3. cs[k[t]] = s.claims[k[t]]
          BY <1>6, <2>1, <2>7, <4>2, <5>2
        <5> QED BY <2>7, <5>2, <5>3
      <4> QED BY <4>1, <4>2
    <3>2. \A c \in DOMAIN m.claims : m.claims[c].status = "active" =>
             m.holder[m.claims[c].task] = c
      <4> SUFFICES ASSUME NEW c \in DOMAIN cs, cs[c].status = "active"
                   PROVE  k[cs[c].task] = c
        BY <2>10
      <4>1. CASE c = l
        BY <1>6, <2>8, <2>9, <4>1
      <4>2. CASE c # l
        <5>1. c # h /\ c \in DOMAIN s.claims /\ cs[c] = s.claims[c]
          BY <2>7, <2>8, <4>2
        <5>2. s.holder[s.claims[c].task] = c /\ s.claims[c].task \in Tasks
          BY <1>2, <5>1 DEF Holds
        <5> QED BY <2>9, <5>1, <5>2
      <4> QED BY <4>1, <4>2
    <3>3. \A c \in DOMAIN m.claims :
             m.claims[c].confirmation # None => m.claims[c].status # "voided"
      <4> SUFFICES ASSUME NEW c \in DOMAIN cs, cs[c].confirmation # None
                   PROVE  cs[c].status # "voided"
        BY <2>10
      <4>1. c # h
        BY <1>6, <2>8
      <4>2. CASE c = l
        BY <2>8, <4>2
      <4>3. CASE c # l
        BY <1>2, <2>7, <4>1, <4>3 DEF Holds
      <4> QED BY <4>2, <4>3
    <3> QED BY <3>1, <3>2, <3>3 DEF Holds
  <2>12. \A c \in DOMAIN s.claims :
            /\ m.claims[c].task = s.claims[c].task
            /\ m.claims[c].actor = s.claims[c].actor
            /\ c # l => m.claims[c].confirmation = s.claims[c].confirmation
            /\ c = l => m.claims[c].confirmation = n
            /\ c # l /\ m.claims[c].status = "active" =>
                  s.claims[c].status = "active"
    BY <2>7, <2>8, <2>10
  <2>13. FoldInv(E, n, m)
    BY <2>7, <2>9, <2>10, <2>11, <2>12, ClaimsFold
  <2> QED BY <2>13 DEF m
<1> QED BY <1>1, <1>2, <1>3, <1>4, <1>5, <1>6, ClaimConfirmedCases

LEMMA RunFinishedFold ==
    ASSUME NEW E, NEW n \in Nat, NEW s, FoldInv(E, n - 1, s), AreEvents(E),
           NEW e \in E, e.id = n, ~ s.error, e.type = "run.finished"
    PROVE  FoldInv(E, n, RunFinished(s, e))
<1> DEFINE m == RunFinished(s, e)
           h == s.holder[e.task]
           cs == [s.claims EXCEPT ![h].status = "finished"]
           k  == [s.holder EXCEPT ![e.task] = None]
<1>1. /\ e.id \in Ids /\ e.task \in Tasks /\ e.actor \in Actors
      /\ e.claim \in Ids \cup {None} /\ e.outcome \in Outcome /\ IsEvent(e)
  BY DEF AreEvents, IsEvent
<1>2. /\ IsState(s) /\ Holds(s) /\ n \in Ids /\ n # None
      /\ n \notin DOMAIN s.claims
      /\ \A c \in DOMAIN s.claims :
            /\ s.claims[c] \in ClaimRecord /\ c \in Ids /\ c # None
            /\ s.claims[c].task \in Tasks
      /\ s.holder \in [Tasks -> Ids \cup {None}]
      /\ h # None => /\ h \in DOMAIN s.claims /\ s.claims[h].task = e.task
                     /\ s.claims[h].status = "active"
  BY <1>1, HolderFacts
<1>3. CASE m = Malformed(s)
  BY <1>3, MalformedFold
<1>4. CASE /\ ~ HeldBy(s, e.task, e.actor)
           /\ \E r \in RunRecord :
                 /\ IsRunOf(r, e)
                 /\ Is(m, s.tasks, s.claims, s.holder, s.runs \cup {r},
                       s.escalations, s.error)
  <2>1. PICK r \in RunRecord :
           /\ IsRunOf(r, e)
           /\ Is(m, s.tasks, s.claims, s.holder, s.runs \cup {r},
                 s.escalations, s.error)
    BY <1>4
  <2> HIDE DEF m
  <2>2. /\ IsState(m) /\ m.claims = s.claims /\ m.holder = s.holder
        /\ m.tasks = s.tasks /\ m.runs = s.runs \cup {r}
        /\ m.escalations = s.escalations
    BY <1>2, <2>1, IsFacts DEF IsState, Is
  <2>3. Holds(m)
    BY <1>2, <2>2 DEF Holds
  <2>4. \A c \in DOMAIN m.claims :
           ~ /\ c = e.claim /\ m.claims[c].task = e.task
             /\ m.claims[c].actor = e.actor /\ m.claims[c].status = "active"
    BY <1>2, <1>4, <2>2 DEF Holds, HeldBy
  <2>5. FoldInv(E, n, m)
    BY <2>1, <2>2, <2>3, <2>4, ClaimsFold
  <2> QED BY <2>5 DEF m
<1>5. CASE /\ h # None
           /\ \E r \in RunRecord, x \in TaskRecord :
                 /\ IsRunOf(r, e)
                 /\ Is(m, [s.tasks EXCEPT ![e.task] = x], cs, k,
                       s.runs \cup {r}, s.escalations, s.error)
           /\ e.task \in DOMAIN s.tasks
  <2>1. PICK r \in RunRecord, x \in TaskRecord :
           /\ IsRunOf(r, e)
           /\ Is(m, [s.tasks EXCEPT ![e.task] = x], cs, k,
                 s.runs \cup {r}, s.escalations, s.error)
    BY <1>5
  <2>2. h \in DOMAIN s.claims /\ s.claims[h] \in ClaimRecord
    BY <1>2, <1>5
  <2>3. /\ DOMAIN cs = DOMAIN s.claims
        /\ \A c \in DOMAIN s.claims : c # h => cs[c] = s.claims[c]
        /\ cs[h].task = s.claims[h].task /\ cs[h].actor = s.claims[h].actor
        /\ cs[h].confirmation = s.claims[h].confirmation
        /\ cs[h].status = "finished"
        /\ [s.claims[h] EXCEPT !.status = "finished"] \in ClaimRecord
    BY <2>2 DEF ClaimRecord, ClaimStatus
  <2>4. IsMap(cs, Ids, ClaimRecord)
    BY <1>2, <2>2, <2>3, ExceptIsMap DEF IsState
  <2>5. /\ k \in [Tasks -> Ids \cup {None}]
        /\ k[e.task] = None /\ \A t \in Tasks : t # e.task => k[t] = s.holder[t]
        /\ s.holder[e.task] = h
    BY <1>1, <1>2
  <2> DEFINE ts == [s.tasks EXCEPT ![e.task] = x]
  <2>6. IsMap(ts, Tasks, TaskRecord)
    BY <1>2, <1>5, ExceptIsMap DEF IsState
  <2>7. DOMAIN ts = DOMAIN s.tasks
    OBVIOUS
  <2> HIDE DEF m, h, cs, k, ts
  <2>8. Is(m, ts, cs, k, s.runs \cup {r}, s.escalations, s.error)
    BY <2>1 DEF ts
  <2>9. /\ IsState(m) /\ m.claims = cs /\ m.holder = k /\ m.tasks = ts
        /\ m.runs = s.runs \cup {r} /\ m.escalations = s.escalations
    BY <1>2, <2>4, <2>5, <2>6, <2>8, IsFacts DEF IsState, Is
  <2>10. Holds(m)
    <3>1. \A t \in Tasks : s.holder[t] # None => (s.holder[t] = h <=> t = e.task)
      BY <1>2, <1>5, <2>5 DEF Holds
    <3>2. \A c \in DOMAIN s.claims :
             s.claims[c].status = "active" =>
                (c = h <=> s.claims[c].task = e.task)
      BY <1>2, <1>5, <2>5 DEF Holds
    <3>3. \A t \in Tasks : k[t] # None =>
             k[t] \in DOMAIN cs /\ cs[k[t]].task = t
                /\ cs[k[t]].status = "active"
      BY <1>2, <2>3, <2>5, <3>1 DEF Holds
    <3>4. \A c \in DOMAIN cs : cs[c].status = "active" => k[cs[c].task] = c
      BY <1>2, <2>3, <2>5, <3>2 DEF Holds
    <3>5. \A c \in DOMAIN cs :
             cs[c].confirmation # None => cs[c].status # "voided"
      BY <1>2, <2>3 DEF Holds
    <3> QED BY <2>9, <3>3, <3>4, <3>5 DEF Holds
  <2>11. \A c \in DOMAIN m.claims :
            ~ /\ c = e.claim /\ m.claims[c].task = e.task
              /\ m.claims[c].actor = e.actor /\ m.claims[c].status = "active"
    BY <1>2, <2>3, <2>5, <2>9 DEF Holds
  <2>12. /\ DOMAIN m.claims = DOMAIN s.claims
         /\ \A c \in DOMAIN s.claims :
              /\ m.claims[c].task = s.claims[c].task
              /\ m.claims[c].actor = s.claims[c].actor
              /\ m.claims[c].confirmation = s.claims[c].confirmation
              /\ m.claims[c].status = "active" => s.claims[c].status = "active"
    BY <2>3, <2>9
  <2>13. /\ DOMAIN m.tasks = DOMAIN s.tasks /\ s.runs \subseteq m.runs
         /\ \E q \in m.runs : IsRunOf(q, e)
    BY <2>1, <2>7, <2>9
  <2>14. FoldInv(E, n, m)
    BY <2>9, <2>10, <2>11, <2>12, <2>13, ClaimsFold
  <2> QED BY <2>14 DEF m
<1> QED BY <1>1, <1>2, <1>3, <1>4, <1>5, RunFinishedCases

-----------------------------------------------------------------------------
\* One turn keeps the facts, whatever the event and whatever the leases.
LEMMA ApplyFold ==
    ASSUME NEW E, NEW n \in Nat, NEW s, FoldInv(E, n - 1, s), AreEvents(E),
           NEW e \in E, e.id = n, ~ s.error, NEW lv
    PROVE  FoldInv(E, n, Apply(s, lv, e))
<1>1. IsEvent(e)
  BY DEF AreEvents
<1>2. CASE e.type = "task.created"
  BY <1>2, TaskCreatedFold DEF Apply
<1>3. CASE e.type = "task.updated"
  BY <1>3, TaskUpdatedFold DEF Apply
<1>4. CASE e.type = "claim.made"
  BY <1>4, ClaimMadeFold DEF Apply
<1>5. CASE e.type = "claim.confirmed"
  BY <1>5, ClaimConfirmedFold DEF Apply
<1>6. CASE e.type = "claim.released"
  BY <1>6, ClaimReleasedFold DEF Apply
<1>7. CASE e.type = "run.finished"
  BY <1>7, RunFinishedFold DEF Apply
<1>8. CASE e.type = "escalation.raised"
  BY <1>8, EscalationRaisedFold DEF Apply
<1>9. CASE e.type = "escalation.answered"
  BY <1>9, EscalationAnsweredFold DEF Apply
<1> QED BY <1>1, <1>2, <1>3, <1>4, <1>5, <1>6, <1>7, <1>8, <1>9 DEF IsEvent

LEMMA TurnFold ==
    ASSUME NEW E, NEW n \in Nat, NEW s, FoldInv(E, n - 1, s), AreEvents(E),
           NEW lv
    PROVE  FoldInv(E, n, Turn(E, lv, s, n))
<1> DEFINE now == {e \in E : e.id = n}
<1>1. CASE s.error
  <2>1. \A e \in E : e.id <= n - 1 => e.id <= n
    BY DEF AreEvents, IsEvent, Ids
  <2>2. Traced(E, n, s)
    BY <2>1 DEF FoldInv, Traced
  <2>3. FoldInv(E, n, s)
    BY <1>1, <2>2 DEF FoldInv
  <2> QED BY <1>1, <2>3 DEF Turn
<1>2. CASE ~ s.error /\ now = {}
  <2>1. \A e \in E : e.id <= n <=> e.id <= n - 1
    BY <1>2 DEF AreEvents, IsEvent, Ids
  <2>2. Traced(E, n, s) /\ Recorded(E, n, s)
    BY <1>2, <2>1 DEF FoldInv, Traced, Recorded
  <2>3. FoldInv(E, n, s)
    BY <2>2 DEF FoldInv
  <2> QED BY <1>2, <2>3 DEF Turn
<1>3. CASE ~ s.error /\ now # {}
  <2> DEFINE e == CHOOSE x \in now : TRUE
  <2>1. e \in E /\ e.id = n
    BY <1>3
  <2>2. Turn(E, lv, s, n) = Apply(s, lv, e)
    BY <1>3 DEF Turn
  <2> HIDE DEF e
  <2> QED BY <1>3, <2>1, <2>2, ApplyFold
<1> QED BY <1>1, <1>2, <1>3

LEMMA InitFold ==
    ASSUME NEW E, AreEvents(E)
    PROVE  FoldInv(E, 0, InitState)
<1>1. /\ InitState = [tasks |-> InitState.tasks, claims |-> InitState.claims,
                      holder |-> InitState.holder, runs |-> InitState.runs,
                      escalations |-> InitState.escalations,
                      error |-> InitState.error]
      /\ InitState.tasks = Empty /\ InitState.claims = Empty
      /\ InitState.escalations = Empty /\ InitState.runs = {}
      /\ InitState.holder = [t \in Tasks |-> None]
      /\ InitState.error = FALSE
  BY DEF InitState
<1>2. DOMAIN Empty = {} /\ Empty = [x \in DOMAIN Empty |-> Empty[x]]
  BY DEF Empty
<1>3. \A K, V : IsMap(Empty, K, V)
  BY <1>2 DEF IsMap
<1>4. IsState(InitState)
  BY <1>1, <1>3 DEF IsState
<1>5. Holds(InitState)
  BY <1>1, <1>2 DEF Holds
<1>6. Traced(E, 0, InitState)
  BY <1>1, <1>2 DEF Traced
<1>7. \A e \in E : ~ (e.id <= 0)
  BY DEF AreEvents, IsEvent, Ids
<1>8. Recorded(E, 0, InitState)
  BY <1>7 DEF Recorded
<1> QED BY <1>4, <1>5, <1>6, <1>8 DEF FoldInv

\* The state after any number of events, in id order, has the facts.
LEMMA StatesKeep ==
    ASSUME NEW E, AreEvents(E), NEW lv
    PROVE  \A n \in 0 .. MaxId : FoldInv(E, n, States(E, lv)[n])
<1> DEFINE f == States(E, lv)
           Bad == {n \in 0 .. MaxId : ~ FoldInv(E, n, f[n])}
<1>1. \A n \in 0 .. MaxId : f[n] = After(E, lv, f, n)
  <2>1. AreStates(f, E, lv)
    BY StatesExist
  <2> HIDE DEF f
  <2> QED BY <2>1 DEF AreStates
<1> HIDE DEF f
<1>2. Bad = {}
  <2> SUFFICES ASSUME Bad # {}
               PROVE  FALSE
    OBVIOUS
  <2>1. Bad \in SUBSET Nat
    BY ReplayAssumption
  <2>2. PICK k \in Bad : \A j \in Bad : k <= j
    <3> HIDE DEF Bad
    <3> QED BY <2>1, LeastOf
  <2>3. k \in 0 .. MaxId /\ MaxId \in Nat /\ ~ FoldInv(E, k, f[k])
    BY ReplayAssumption
  <2>4. CASE k = 0
    BY <1>1, <2>3, <2>4, InitFold DEF After
  <2>5. CASE k # 0
    <3>1. k \in Nat /\ k - 1 \in 0 .. MaxId /\ k - 1 < k
      BY <2>3, <2>5
    <3>2. k - 1 \notin Bad
      <4> HIDE DEF Bad
      <4> QED BY <2>2, <2>3, <3>1
    <3>3. FoldInv(E, k - 1, f[k - 1])
      BY <3>1, <3>2
    <3>4. FoldInv(E, k, Turn(E, lv, f[k - 1], k))
      BY <3>1, <3>3, TurnFold
    <3> QED BY <1>1, <2>3, <2>5, <3>4 DEF After
  <2> QED BY <2>4, <2>5
<1> QED BY <1>2 DEF f

LEMMA FoldKeeps ==
    ASSUME NEW E, AreEvents(E), NEW lv
    PROVE  FoldInv(E, MaxId, Fold(E, lv))
<1>1. MaxId \in 0 .. MaxId
  BY ReplayAssumption
<1> QED BY <1>1, StatesKeep, FoldIsLastState

-----------------------------------------------------------------------------
\* What the pass over the leases makes of the claims and the runs.
LEMMA CloseFacts ==
    ASSUME NEW s, IsState(s), NEW lv, NEW now
    PROVE  LET x == ExpiredHolders(s, lv, now)
               n == Close(s, lv, now)
           IN  /\ DOMAIN n.claims = DOMAIN s.claims
               /\ \A c \in DOMAIN s.claims :
                     /\ n.claims[c].task  = s.claims[c].task
                     /\ n.claims[c].actor = s.claims[c].actor
                     /\ n.claims[c].confirmation = s.claims[c].confirmation
                     /\ c \in x => n.claims[c].status = "expired"
                     /\ c \notin x => n.claims[c] = s.claims[c]
               /\ n.runs = s.runs \cup {InterruptedRun(s, c) : c \in x}
                     \cup {SupersededRun(s, c) :
                              c \in UnreportedLosers(s, lv, now)}
               /\ n.tasks = s.tasks /\ n.holder = s.holder
               /\ n.error = s.error
<1> DEFINE x == ExpiredHolders(s, lv, now)
           n == Close(s, lv, now)
<1>1. /\ n.claims = [c \in DOMAIN s.claims |->
                        IF c \in x THEN [s.claims[c] EXCEPT !.status = "expired"]
                        ELSE s.claims[c]]
      /\ n.runs = s.runs \cup {InterruptedRun(s, c) : c \in x}
            \cup {SupersededRun(s, c) : c \in UnreportedLosers(s, lv, now)}
      /\ n.tasks = s.tasks /\ n.holder = s.holder /\ n.error = s.error
  BY DEF Close, IsState
<1>2. \A c \in DOMAIN s.claims : s.claims[c] \in ClaimRecord
  BY DEF IsState, IsMap
<1> HIDE DEF n, x
<1>3. \A c \in DOMAIN s.claims : c \in x =>
         n.claims[c] = [s.claims[c] EXCEPT !.status = "expired"]
  BY <1>1
<1>4. \A c \in DOMAIN s.claims : c \in x =>
         /\ n.claims[c].task  = s.claims[c].task
         /\ n.claims[c].actor = s.claims[c].actor
         /\ n.claims[c].confirmation = s.claims[c].confirmation
         /\ n.claims[c].status = "expired"
  BY <1>2, <1>3 DEF ClaimRecord
<1>5. \A c \in DOMAIN s.claims : c \notin x => n.claims[c] = s.claims[c]
  BY <1>1
<1> QED BY <1>1, <1>4, <1>5 DEF n, x

\* What an answer read from a replay says of the folded state.  A claim shown
\* as active is the holder and its lease runs; a loser shown without a run
\* has a lease that runs; a run that names a claim closes it.
LEMMA ReplayFacts ==
    ASSUME NEW E, AreEvents(E), NEW lv, NEW now
    PROVE  LET s == Fold(E, lv)
               v == ReplayOf(E, lv, now)
           IN  /\ FoldInv(E, MaxId, s)
               /\ v.tasks = s.tasks /\ v.error = s.error
               /\ DOMAIN v.claims = DOMAIN s.claims
               /\ s.runs \subseteq v.runs
               /\ \A c \in DOMAIN s.claims :
                     /\ v.claims[c].task = s.claims[c].task
                     /\ v.claims[c].actor = s.claims[c].actor
                     /\ v.claims[c].confirmation = s.claims[c].confirmation
                     /\ v.claims[c].status = "active" =>
                           /\ s.claims[c].status = "active"
                           /\ ~ LeaseExpiredBy(lv, c, now)
                     /\ /\ v.claims[c].status = "voided"
                        /\ ~ ClosedByRun(v, v.runs, c)
                        => /\ s.claims[c].status = "voided"
                           /\ ~ LeaseExpiredBy(lv, c, now)
                     /\ \A r \in s.runs :
                           r.named /\ r.claim = c => ClosedByRun(v, v.runs, c)
<1> DEFINE s == Fold(E, lv)
           v == ReplayOf(E, lv, now)
           x == ExpiredHolders(s, lv, now)
           u == UnreportedLosers(s, lv, now)
<1>1. FoldInv(E, MaxId, s)
  BY FoldKeeps
<1>2. IsState(s) /\ Holds(s)
  BY <1>1 DEF FoldInv
<1>3. v = Close(s, lv, now)
  BY DEF ReplayOf
<1> HIDE DEF s, v
<1>4. /\ DOMAIN v.claims = DOMAIN s.claims
      /\ \A c \in DOMAIN s.claims :
            /\ v.claims[c].task  = s.claims[c].task
            /\ v.claims[c].actor = s.claims[c].actor
            /\ v.claims[c].confirmation = s.claims[c].confirmation
            /\ c \in x => v.claims[c].status = "expired"
            /\ c \notin x => v.claims[c] = s.claims[c]
      /\ v.runs = s.runs \cup {InterruptedRun(s, c) : c \in x}
            \cup {SupersededRun(s, c) : c \in u}
      /\ v.tasks = s.tasks /\ v.error = s.error
  BY <1>2, <1>3, CloseFacts
<1>5. ASSUME NEW c \in DOMAIN s.claims, v.claims[c].status = "active"
      PROVE  s.claims[c].status = "active" /\ ~ LeaseExpiredBy(lv, c, now)
  <2>1. c \notin x /\ s.claims[c].status = "active"
    BY <1>4, <1>5
  <2>2. s.holder[s.claims[c].task] = c
    BY <1>2, <2>1 DEF Holds
  <2> QED BY <2>1, <2>2 DEF ExpiredHolders, Lapsed
<1>6. ASSUME NEW c \in DOMAIN s.claims, NEW r \in v.runs, r.claim = c,
             r.synthesized \/ r.named
      PROVE  ClosedByRun(v, v.runs, c)
  BY <1>6 DEF ClosedByRun, RunCloses
<1>7. ASSUME NEW c \in DOMAIN s.claims, v.claims[c].status = "voided",
             ~ ClosedByRun(v, v.runs, c)
      PROVE  s.claims[c].status = "voided" /\ ~ LeaseExpiredBy(lv, c, now)
  <2>1. c \notin x /\ s.claims[c].status = "voided"
    BY <1>4, <1>7
  <2> SUFFICES ASSUME LeaseExpiredBy(lv, c, now)
               PROVE  FALSE
    BY <2>1
  <2>2. c \notin u
    <3> SUFFICES ASSUME c \in u
                 PROVE  FALSE
      OBVIOUS
    <3>1. SupersededRun(s, c) \in v.runs
      BY <1>4
    <3>2. SupersededRun(s, c).claim = c /\ SupersededRun(s, c).synthesized
      BY DEF SupersededRun
    <3> QED BY <1>6, <1>7, <3>1, <3>2
  <2>3. ClosedByRun(s, {r \in s.runs : ~ r.synthesized}, c)
    BY <2>1, <2>2 DEF UnreportedLosers, Lapsed
  <2>4. PICK r \in s.runs : RunCloses(s, r, c)
    BY <2>3 DEF ClosedByRun
  <2>5. RunCloses(v, r, c) /\ r \in v.runs
    BY <1>4, <2>4 DEF RunCloses
  <2> QED BY <1>7, <2>5 DEF ClosedByRun
<1>8. s.runs \subseteq v.runs
  BY <1>4
<1>9. ASSUME NEW c \in DOMAIN s.claims, NEW r \in s.runs,
             r.named /\ r.claim = c
      PROVE  ClosedByRun(v, v.runs, c)
  BY <1>6, <1>8, <1>9
<1> QED BY <1>1, <1>4, <1>5, <1>7, <1>8, <1>9 DEF s, v

\* Replay of any set of events, with any leases, at any instant: a task has
\* at most one active claim, and a loser is never a confirmed one.
THEOREM ReplayHasOneHolder ==
    ASSUME NEW E, AreEvents(E), NEW lv, NEW now
    PROVE  LET v == ReplayOf(E, lv, now)
           IN  /\ \A t \in Tasks : \A c, d \in ActiveClaims(v, t) : c = d
               /\ \A c \in DOMAIN v.claims :
                     v.claims[c].confirmation # None =>
                        v.claims[c].status # "voided"
<1> DEFINE s == Fold(E, lv)
           v == ReplayOf(E, lv, now)
           x == ExpiredHolders(s, lv, now)
<1>1. FoldInv(E, MaxId, s)
  BY FoldKeeps
<1>2. IsState(s) /\ Holds(s)
  BY <1>1 DEF FoldInv
<1>3. v = Close(s, lv, now)
  BY DEF ReplayOf
<1> HIDE DEF s, v, x
<1>4. /\ DOMAIN v.claims = DOMAIN s.claims
      /\ \A c \in DOMAIN s.claims :
            /\ v.claims[c].task  = s.claims[c].task
            /\ v.claims[c].confirmation = s.claims[c].confirmation
            /\ c \in x => v.claims[c].status = "expired"
            /\ c \notin x => v.claims[c] = s.claims[c]
  BY <1>2, <1>3, CloseFacts DEF x
<1>5. \A c \in DOMAIN v.claims : v.claims[c].status = "active" =>
         s.holder[v.claims[c].task] = c
  BY <1>2, <1>4 DEF Holds
<1>6. \A c \in DOMAIN v.claims : v.claims[c].confirmation # None =>
         v.claims[c].status # "voided"
  BY <1>2, <1>4 DEF Holds
<1> QED BY <1>5, <1>6 DEF ActiveClaims, v

-----------------------------------------------------------------------------
\* A ledger as the daemon's operations leave it: tasks are created once and
\* first, and what an event refers to was recorded before it.
Sound(E) ==
    /\ AreEvents(E)
    /\ \A e, f \in E :
          /\ e.type = "task.created" /\ f.type = "task.created"
          /\ e.task = f.task
          => e = f
    /\ \A e \in E :
          e.type \in {"task.updated", "claim.made", "run.finished",
                      "escalation.raised"} =>
             \E f \in E : /\ f.type = "task.created" /\ f.task = e.task
                          /\ f.id < e.id
    /\ \A e \in E : e.type = "claim.confirmed" =>
          \E f \in E : /\ f.type = "claim.made" /\ f.id = e.claim
                       /\ f.task = e.task /\ f.id < e.id
    /\ \A e \in E : e.type = "escalation.answered" =>
          \E f \in E : /\ f.type = "escalation.raised" /\ f.id = e.escalation
                       /\ f.task = e.task /\ f.id < e.id

LEMMA ApplySound ==
    ASSUME NEW E, Sound(E), NEW n \in Nat, NEW s, FoldInv(E, n - 1, s),
           NEW e \in E, e.id = n, ~ s.error, NEW lv
    PROVE  ~ Apply(s, lv, e).error
<1>1. /\ AreEvents(E) /\ IsEvent(e) /\ IsState(s)
      /\ Traced(E, n - 1, s) /\ Recorded(E, n - 1, s)
  BY DEF Sound, AreEvents, FoldInv
<1>2. /\ \A f \in E : f.id \in Ids /\ (f.id < n => f.id <= n - 1)
      /\ \A f, g \in E : f.id = g.id => f = g
      /\ \A f \in E : ~ (f = e /\ f.id <= n - 1)
  BY <1>1 DEF AreEvents, IsEvent, Ids
<1>3. e.type \in {"task.updated", "claim.made", "run.finished",
                  "escalation.raised"} => e.task \in DOMAIN s.tasks
  BY <1>1, <1>2 DEF Sound, Recorded
<1>4. CASE e.type = "task.created"
  <2>1. e.task \notin DOMAIN s.tasks
    BY <1>1, <1>2, <1>4 DEF Sound, Traced
  <2>2. TaskCreated(s, e).error = s.error
    BY <1>1, <2>1 DEF TaskCreated, IsState
  <2> QED BY <1>4, <2>2 DEF Apply
<1>5. CASE e.type = "task.updated"
  <2>1. TaskUpdated(s, e).error = s.error
    BY <1>1, <1>3, <1>5 DEF TaskUpdated, IsState
  <2> QED BY <1>5, <2>1 DEF Apply
<1>6. CASE e.type = "claim.made"
  <2>1. ClaimMade(s, lv, e).error = s.error
    BY <1>1, <1>3, <1>6 DEF ClaimMade, IsState
  <2> QED BY <1>6, <2>1 DEF Apply
<1>7. CASE e.type = "claim.confirmed"
  <2>1. PICK f \in E : /\ f.type = "claim.made" /\ f.id = e.claim
                       /\ f.task = e.task /\ f.id < e.id
    BY <1>7 DEF Sound
  <2>2. e.claim \in DOMAIN s.claims
    BY <1>1, <1>2, <2>1 DEF Recorded
  <2>3. s.claims[e.claim].task = e.task
    BY <1>1, <1>2, <2>1, <2>2 DEF Traced
  <2>4. ClaimConfirmed(s, e).error = s.error
    BY <1>1, <2>2, <2>3 DEF ClaimConfirmed, Confirm, IsState
  <2> QED BY <1>7, <2>4 DEF Apply
<1>8. CASE e.type = "claim.released"
  <2>1. ClaimReleased(s, e).error = s.error
    BY <1>1 DEF ClaimReleased, IsState
  <2> QED BY <1>8, <2>1 DEF Apply
<1>9. CASE e.type = "run.finished"
  <2>1. RunFinished(s, e).error = s.error
    BY <1>1, <1>3, <1>9 DEF RunFinished, IsState
  <2> QED BY <1>9, <2>1 DEF Apply
<1>10. CASE e.type = "escalation.raised"
  <2>1. EscalationRaised(s, e).error = s.error
    BY <1>1, <1>3, <1>10 DEF EscalationRaised, IsState
  <2> QED BY <1>10, <2>1 DEF Apply
<1>11. CASE e.type = "escalation.answered"
  <2>1. PICK f \in E : /\ f.type = "escalation.raised"
                       /\ f.id = e.escalation
                       /\ f.task = e.task /\ f.id < e.id
    BY <1>11 DEF Sound
  <2>2. e.escalation \in DOMAIN s.escalations
    BY <1>1, <1>2, <2>1 DEF Recorded
  <2>3. s.escalations[e.escalation].task = e.task
    BY <1>1, <1>2, <2>1, <2>2 DEF Traced
  <2>4. EscalationAnswered(s, e).error = s.error
    BY <1>1, <2>2, <2>3 DEF EscalationAnswered, IsState
  <2> QED BY <1>11, <2>4 DEF Apply
<1> QED
  BY <1>1, <1>4, <1>5, <1>6, <1>7, <1>8, <1>9, <1>10, <1>11 DEF IsEvent

LEMMA StatesSound ==
    ASSUME NEW E, Sound(E), NEW lv
    PROVE  \A n \in 0 .. MaxId : ~ States(E, lv)[n].error
<1> DEFINE f == States(E, lv)
           Bad == {n \in 0 .. MaxId : f[n].error}
<1>1. \A n \in 0 .. MaxId : f[n] = After(E, lv, f, n)
  <2>1. AreStates(f, E, lv)
    BY StatesExist
  <2> HIDE DEF f
  <2> QED BY <2>1 DEF AreStates
<1>2. AreEvents(E)
  BY DEF Sound
<1>3. \A n \in 0 .. MaxId : FoldInv(E, n, f[n])
  BY <1>2, StatesKeep
<1> HIDE DEF f
<1>4. Bad = {}
  <2> SUFFICES ASSUME Bad # {}
               PROVE  FALSE
    OBVIOUS
  <2>1. Bad \in SUBSET Nat
    BY ReplayAssumption
  <2>2. PICK k \in Bad : \A j \in Bad : k <= j
    <3> HIDE DEF Bad
    <3> QED BY <2>1, LeastOf
  <2>3. k \in 0 .. MaxId /\ MaxId \in Nat /\ f[k].error
    BY ReplayAssumption
  <2>4. CASE k = 0
    BY <1>1, <2>3, <2>4 DEF After, InitState
  <2>5. CASE k # 0
    <3>1. k \in Nat /\ k - 1 \in 0 .. MaxId /\ k - 1 < k
      BY <2>3, <2>5
    <3>2. k - 1 \notin Bad
      <4> HIDE DEF Bad
      <4> QED BY <2>2, <2>3, <3>1
    <3>3. FoldInv(E, k - 1, f[k - 1]) /\ ~ f[k - 1].error
      BY <1>3, <3>1, <3>2
    <3>4. f[k] = Turn(E, lv, f[k - 1], k)
      BY <1>1, <2>3, <2>5 DEF After
    <3> DEFINE now == {e \in E : e.id = k}
    <3>5. CASE now = {}
      BY <2>3, <3>3, <3>4, <3>5 DEF Turn
    <3>6. CASE now # {}
      <4> DEFINE e == CHOOSE y \in now : TRUE
      <4>1. e \in E /\ e.id = k
        BY <3>6
      <4>2. f[k] = Apply(f[k - 1], lv, e)
        BY <3>3, <3>4, <3>6 DEF Turn
      <4> HIDE DEF e
      <4>3. ~ Apply(f[k - 1], lv, e).error
        BY <3>1, <3>3, <4>1, ApplySound
      <4> QED BY <2>3, <4>2, <4>3
    <3> QED BY <3>5, <3>6
  <2> QED BY <2>4, <2>5
<1> QED BY <1>4 DEF f

\* Replay accepts a sound ledger, whatever the leases: no order of claims,
\* confirmations and endings makes it fail as malformed.
THEOREM SoundLedgersReplay ==
    ASSUME NEW E, Sound(E), NEW lv
    PROVE  ~ Fold(E, lv).error
<1>1. MaxId \in 0 .. MaxId
  BY ReplayAssumption
<1> QED BY <1>1, StatesSound, FoldIsLastState

-----------------------------------------------------------------------------
(***************************************************************************)
(* One event more, after all the others.                                   *)
(***************************************************************************)
\* Two lease tables by which the same leases, of claims up to id n, have
\* lapsed at each of the instants up to that of id n.
SameLapses(lv, mv, n) ==
    \A i \in 0 .. n : \A c \in Ids :
        c <= n => (LeaseExpiredBy(lv, c, IDTime(i))
                   <=> LeaseExpiredBy(mv, c, IDTime(i)))

LEMMA ApplySame ==
    ASSUME NEW s, IsState(s), NEW e, e.task \in Tasks,
           NEW lv, NEW mv, NEW n, SameLapses(lv, mv, n), e.id \in 0 .. n,
           s.holder[e.task] # None => s.holder[e.task] <= n
    PROVE  Apply(s, lv, e) = Apply(s, mv, e)
<1>1. s.holder[e.task] \in Ids \cup {None}
  BY DEF IsState
<1>2. s.holder[e.task] # None =>
         (LeaseExpiredBy(lv, s.holder[e.task], IDTime(e.id))
          <=> LeaseExpiredBy(mv, s.holder[e.task], IDTime(e.id)))
  BY <1>1 DEF SameLapses
<1>3. ClaimMade(s, lv, e) = ClaimMade(s, mv, e)
  BY <1>2 DEF ClaimMade
<1> QED BY <1>3 DEF Apply

\* Later events, and leases that lapse when they did before, leave the states
\* up to n as they were.
LEMMA StatesSame ==
    ASSUME NEW E, AreEvents(E), NEW F, NEW n \in 0 .. MaxId,
           \A e : e.id <= n => (e \in F <=> e \in E),
           NEW lv, NEW mv, SameLapses(lv, mv, n)
    PROVE  \A i \in 0 .. n : States(F, mv)[i] = States(E, lv)[i]
<1> DEFINE f == States(E, lv)
           g == States(F, mv)
           Bad == {i \in 0 .. n : g[i] # f[i]}
<1>1. /\ \A i \in 0 .. MaxId : f[i] = After(E, lv, f, i)
      /\ \A i \in 0 .. MaxId : g[i] = After(F, mv, g, i)
      /\ \A i \in 0 .. MaxId : FoldInv(E, i, f[i])
  <2>1. AreStates(f, E, lv) /\ AreStates(g, F, mv)
    BY StatesExist
  <2>2. \A i \in 0 .. MaxId : FoldInv(E, i, f[i])
    BY StatesKeep
  <2> HIDE DEF f, g
  <2> QED BY <2>1, <2>2 DEF AreStates
<1> HIDE DEF f, g
<1>2. Bad = {}
  <2> SUFFICES ASSUME Bad # {}
               PROVE  FALSE
    OBVIOUS
  <2>1. Bad \in SUBSET Nat
    BY ReplayAssumption
  <2>2. PICK k \in Bad : \A j \in Bad : k <= j
    <3> HIDE DEF Bad
    <3> QED BY <2>1, LeastOf
  <2>3. k \in 0 .. n /\ k \in 0 .. MaxId /\ MaxId \in Nat /\ g[k] # f[k]
    BY ReplayAssumption
  <2>4. k # 0
    BY <1>1, <2>3 DEF After
  <2>5. k - 1 \in 0 .. n /\ k - 1 \in 0 .. MaxId /\ k - 1 < k
    BY <2>3, <2>4
  <2>6. g[k - 1] = f[k - 1]
    <3>1. k - 1 \notin Bad
      <4> HIDE DEF Bad
      <4> QED BY <2>2, <2>3, <2>5
    <3> QED BY <2>5, <3>1
  <2>7. {e \in F : e.id = k} = {e \in E : e.id = k}
    BY <2>3
  <2>8. Turn(F, mv, f[k - 1], k) = Turn(E, lv, f[k - 1], k)
    <3> DEFINE now == {e \in E : e.id = k}
               s == f[k - 1]
               d == CHOOSE e \in now : TRUE
    <3>1. CASE now = {} \/ s.error
      BY <2>7, <3>1 DEF Turn
    <3>2. CASE ~ (now = {} \/ s.error)
      <4>1. d \in E /\ d.id = k
        BY <3>2
      <4>2. d.task \in Tasks /\ FoldInv(E, k - 1, s)
        BY <1>1, <2>5, <4>1 DEF AreEvents, IsEvent
      <4> HIDE DEF d, s
      <4>3. IsState(s) /\ Holds(s) /\ Traced(E, k - 1, s)
        BY <4>2 DEF FoldInv
      <4>4. s.holder[d.task] # None => s.holder[d.task] <= n
        <5> SUFFICES ASSUME s.holder[d.task] # None
                     PROVE  s.holder[d.task] <= n
          OBVIOUS
        <5>1. s.holder[d.task] \in DOMAIN s.claims
          BY <4>2, <4>3 DEF Holds
        <5>2. PICK q \in E : q.id <= k - 1 /\ q.id = s.holder[d.task]
          BY <4>3, <5>1 DEF Traced
        <5>3. q.id \in Nat
          BY DEF AreEvents, IsEvent, Ids
        <5> QED BY <2>3, <2>5, <5>2, <5>3
      <4>5. Apply(s, lv, d) = Apply(s, mv, d)
        BY <2>3, <4>1, <4>2, <4>3, <4>4, ApplySame
      <4> QED BY <2>7, <3>2, <4>5 DEF Turn, s, d
    <3> QED BY <3>1, <3>2
  <2>9. /\ f[k] = Turn(E, lv, f[k - 1], k)
        /\ g[k] = Turn(F, mv, g[k - 1], k)
    BY <1>1, <2>3, <2>4 DEF After
  <2> QED BY <2>3, <2>6, <2>8, <2>9
<1> QED BY <1>2 DEF f, g

\* Nothing happens after the last event.
LEMMA StatesEnd ==
    ASSUME NEW E, AreEvents(E), NEW lv, NEW n \in 0 .. MaxId,
           \A e \in E : e.id <= n
    PROVE  Fold(E, lv) = States(E, lv)[n]
<1> DEFINE f == States(E, lv)
           Bad == {i \in n .. MaxId : f[i] # f[n]}
<1>1. \A i \in 0 .. MaxId : f[i] = After(E, lv, f, i)
  <2>1. AreStates(f, E, lv)
    BY StatesExist
  <2> HIDE DEF f
  <2> QED BY <2>1 DEF AreStates
<1> HIDE DEF f
<1>2. Bad = {}
  <2> SUFFICES ASSUME Bad # {}
               PROVE  FALSE
    OBVIOUS
  <2>1. Bad \in SUBSET Nat
    BY ReplayAssumption
  <2>2. PICK k \in Bad : \A j \in Bad : k <= j
    <3> HIDE DEF Bad
    <3> QED BY <2>1, LeastOf
  <2>3. k \in n .. MaxId /\ MaxId \in Nat /\ n \in Nat /\ f[k] # f[n]
    BY ReplayAssumption
  <2>4. k # n
    BY <2>3
  <2>5. k - 1 \in n .. MaxId /\ k - 1 < k /\ k \in 0 .. MaxId /\ k # 0
        /\ n < k
    BY <2>3, <2>4
  <2>6. f[k - 1] = f[n]
    <3>1. k - 1 \notin Bad
      <4> HIDE DEF Bad
      <4> QED BY <2>2, <2>3, <2>5
    <3> QED BY <2>5, <3>1
  <2>7. {e \in E : e.id = k} = {}
    <3>1. \A e \in E : e.id \in Nat
      BY DEF AreEvents, IsEvent, Ids
    <3> QED BY <2>3, <2>5, <3>1
  <2>8. f[k] = f[k - 1]
    BY <1>1, <2>5, <2>7 DEF After, Turn
  <2> QED BY <2>3, <2>6, <2>8
<1>3. MaxId \in n .. MaxId
  BY ReplayAssumption
<1>4. f[MaxId] = f[n]
  BY <1>2, <1>3
<1> QED BY <1>4, FoldIsLastState DEF f

\* One more event, after all the others.
LEMMA FoldExtends ==
    ASSUME NEW E, AreEvents(E), NEW n \in Nat, n + 1 \in 1 .. MaxId,
           \A e \in E : e.id <= n,
           NEW e, e.id = n + 1, AreEvents(E \cup {e}),
           NEW lv, NEW mv, SameLapses(lv, mv, n), ~ Fold(E, lv).error
    PROVE  Fold(E \cup {e}, mv) = Apply(Fold(E, lv), mv, e)
<1> DEFINE F == E \cup {e}
           g == States(F, mv)
<1>1. n \in 0 .. MaxId /\ n + 1 \in 0 .. MaxId /\ n \in 0 .. n
  BY ReplayAssumption
<1>2. \A d \in E : d.id \in Nat
  BY DEF AreEvents, IsEvent, Ids
<1>3. \A d \in F : d.id <= n + 1
  BY <1>2
<1>4. \A d : d.id <= n => (d \in F <=> d \in E)
  OBVIOUS
<1> HIDE DEF F
<1>5. Fold(F, mv) = g[n + 1]
  BY <1>1, <1>3, StatesEnd DEF F
<1>6. Fold(E, lv) = States(E, lv)[n]
  BY <1>1, StatesEnd
<1>7. g[n] = States(E, lv)[n]
  BY <1>1, <1>4, StatesSame
<1>8. g[n + 1] = Turn(F, mv, g[n], n + 1)
  <2>1. AreStates(g, F, mv)
    BY StatesExist
  <2>2. n + 1 # 0 /\ (n + 1) - 1 = n
    OBVIOUS
  <2> HIDE DEF g
  <2>3. g[n + 1] = After(F, mv, g, n + 1)
    BY <1>1, <2>1 DEF AreStates
  <2> QED BY <2>2, <2>3 DEF After
<1>9. {d \in F : d.id = n + 1} = {e}
  BY <1>2 DEF F
<1> HIDE DEF g
<1> DEFINE s == Fold(E, lv)
<1>10. g[n + 1] = Turn(F, mv, s, n + 1) /\ ~ s.error
  BY <1>6, <1>7, <1>8
<1> HIDE DEF s
<1>11. Turn(F, mv, s, n + 1) = Apply(s, mv, e)
  <2>1. (CHOOSE d \in {e} : TRUE) = e
    OBVIOUS
  <2> QED BY <1>9, <1>10, <2>1 DEF Turn
<1> QED BY <1>5, <1>10, <1>11 DEF F, s

\* No event more.
LEMMA FoldStays ==
    ASSUME NEW E, AreEvents(E), NEW n \in 0 .. MaxId,
           \A e \in E : e.id <= n,
           NEW lv, NEW mv, SameLapses(lv, mv, n)
    PROVE  Fold(E, mv) = Fold(E, lv)
<1>1. n \in 0 .. n
  OBVIOUS
<1>2. States(E, mv)[n] = States(E, lv)[n]
  BY <1>1, StatesSame
<1> QED BY <1>2, StatesEnd

-----------------------------------------------------------------------------
(***************************************************************************)
(* The contest for a task, up to its first confirmation and from then on,  *)
(* where attempts end in a done run or a loss and leases outlast them.     *)
(***************************************************************************)
\* q is a claim of task t; x ends an attempt.
IsClaim(q, t) == q.type = "claim.made" /\ q.task = t
IsEnd(x)      == x.type \in {"claim.released", "run.finished"}

\* Before n somebody claimed task t, and later each time actor a did.
Beaten(a, t, n, E) ==
    \E q \in E : /\ IsClaim(q, t) /\ q.id < n
                 /\ \A p \in E : IsClaim(p, t) /\ p.actor = a /\ p.id < n =>
                        q.id < p.id

\* The events of task t and the leases of its claims as they are where
\* attempts end in a done run or a loss, under leases that outlast them: who
\* ends an attempt before any confirmation was late, and whose lease lapses
\* before a claim had released it.
Orderly(E, lv, t) ==
    /\ \A x \in E :
          /\ IsEnd(x) /\ x.task = t
          /\ \A e \in E :
                e.type = "claim.confirmed" /\ e.task = t => x.id < e.id
          => Beaten(x.actor, t, x.id, E)
    /\ \A p, q \in E :
          /\ IsClaim(p, t) /\ IsClaim(q, t) /\ p.id < q.id
          /\ LeaseExpiredBy(lv, p.id, IDTime(q.id))
          => \E x \in E : /\ x.type = "claim.released" /\ x.task = t
                          /\ x.actor = p.actor /\ x.id \in p.id .. q.id

ClaimsOf(s, t) == {c \in DOMAIN s.claims : s.claims[c].task = t}

\* The earliest claim of task t holds it, all others lose, and none is
\* confirmed.
Contested(s, t) ==
    \A c \in ClaimsOf(s, t) :
        /\ s.claims[c].confirmation = None
        /\ s.claims[c].status \in {"active", "voided"}
        /\ s.holder[t] # None /\ s.holder[t] <= c

\* The attempt that e confirms was ended by n.
OverBy(E, e, n) ==
    \E x \in E : /\ IsEnd(x) /\ x.task = e.task /\ x.actor = e.actor
                 /\ x.id \in e.claim .. n

\* Confirmation e was applied, and its claim holds the task until its attempt
\* is over; what holds the task unconfirmed came after that.
Crowned(E, e, n, s) ==
    /\ e.claim \in ClaimsOf(s, e.task)
    /\ s.claims[e.claim].actor = e.actor
    /\ s.claims[e.claim].confirmation = e.id
    /\ s.holder[e.task] = e.claim \/ OverBy(E, e, n)
    /\ \A c \in ClaimsOf(s, e.task) :
          /\ s.claims[c].status = "active" /\ s.claims[c].confirmation = None
          => OverBy(E, e, c)

\* Task t looks the same in two states.
Alike(s, m, t) ==
    /\ ClaimsOf(m, t) = ClaimsOf(s, t)
    /\ \A c \in ClaimsOf(s, t) : m.claims[c] = s.claims[c]
    /\ m.holder[t] = s.holder[t]

\* Claims and holders after one event.
LEMMA ClaimMadeMoves ==
    ASSUME NEW s, IsState(s), NEW lv, NEW e, e.task \in DOMAIN s.tasks
    PROVE  LET m == ClaimMade(s, lv, e)
               h == s.holder[e.task]
           IN  \/ /\ h = None
                  /\ m.claims = Put(s.claims, e.id, NewClaim(e, "active"))
                  /\ m.holder = [s.holder EXCEPT ![e.task] = e.id]
               \/ /\ h # None /\ LeaseExpiredBy(lv, h, IDTime(e.id))
                  /\ m.claims = Put([s.claims EXCEPT ![h].status = "expired"],
                                    e.id, NewClaim(e, "active"))
                  /\ m.holder = [s.holder EXCEPT ![e.task] = e.id]
               \/ /\ h # None
                  /\ m.claims = Put(s.claims, e.id, NewClaim(e, "voided"))
                  /\ m.holder = s.holder
BY DEF ClaimMade, IsState

LEMMA ClaimConfirmedMoves ==
    ASSUME NEW s, IsState(s), NEW e, e.claim \in DOMAIN s.claims,
           s.claims[e.claim].task = e.task
    PROVE  LET m == ClaimConfirmed(s, e)
               h == s.holder[e.task]
               c == e.claim
           IN  \/ /\ h = c /\ s.claims[c].confirmation = None
                  /\ m.claims = [s.claims EXCEPT ![c].confirmation = e.id]
                  /\ m.holder = s.holder
               \/ /\ h # c /\ h # None /\ s.claims[h].status = "active"
                  /\ s.claims[h].confirmation = None
                  /\ s.claims[c].status = "voided"
                  /\ m.claims = [s.claims EXCEPT ![h].status = "voided",
                                                 ![c].status = "active",
                                                 ![c].confirmation = e.id]
                  /\ m.holder = [s.holder EXCEPT ![e.task] = c]
               \/ /\ \/ h = c /\ s.claims[c].confirmation # None
                     \/ /\ h # c
                        /\ ~ (/\ h # None /\ s.claims[h].status = "active"
                              /\ s.claims[h].confirmation = None
                              /\ s.claims[c].status = "voided")
                  /\ m = s
BY DEF ClaimConfirmed, Confirm, IsState

LEMMA EndMoves ==
    ASSUME NEW s, IsState(s), NEW e,
           NEW m, \/ m = ClaimReleased(s, e)
                  \/ m = RunFinished(s, e) /\ e.task \in DOMAIN s.tasks
    PROVE  LET h == s.holder[e.task]
           IN  \/ m.claims = s.claims /\ m.holder = s.holder
               \/ /\ h # None /\ s.claims[h].actor = e.actor
                  /\ \E x \in {"released", "finished"} :
                        m.claims = [s.claims EXCEPT ![h].status = x]
                  /\ m.holder = [s.holder EXCEPT ![e.task] = None]
BY DEF ClaimReleased, RunFinished, HeldBy, IsState

\* What each event finds: the tasks and claims it refers to, and the claims
\* made before it.
LEMMA FindsItsOwn ==
    ASSUME NEW E, Sound(E), NEW n \in Nat, NEW s, FoldInv(E, n - 1, s),
           NEW e \in E, e.id = n, ~ s.error
    PROVE  /\ e.type \in {"claim.made", "run.finished"} =>
                 e.task \in DOMAIN s.tasks
           /\ e.type = "claim.confirmed" => e.claim \in ClaimsOf(s, e.task)
           /\ n \notin DOMAIN s.claims
           /\ \A t \in Tasks : s.holder[t] # None =>
                 s.holder[t] \in ClaimsOf(s, t)
           /\ \A c \in DOMAIN s.claims : c \in Ids /\ c < n /\ c # None
           /\ \A t : \A c \in ClaimsOf(s, t) :
                 \E q \in E : IsClaim(q, t) /\ q.id = c
                              /\ q.actor = s.claims[c].actor
           /\ \A t : \A q \in E :
                 IsClaim(q, t) /\ q.id < n => q.id \in ClaimsOf(s, t)
<1>1. /\ AreEvents(E) /\ IsEvent(e) /\ IsState(s) /\ Holds(s)
      /\ Traced(E, n - 1, s) /\ Recorded(E, n - 1, s)
  BY DEF Sound, AreEvents, FoldInv
<1>2. /\ \A f \in E : f.id \in Ids /\ f.id \in Nat /\ f.id # None
      /\ \A f \in E : f.id < n <=> f.id <= n - 1
      /\ \A f, g \in E : f.id = g.id => f = g
  BY <1>1 DEF AreEvents, IsEvent, Ids, None
<1>3. e.type \in {"claim.made", "run.finished"} => e.task \in DOMAIN s.tasks
  BY <1>1, <1>2 DEF Sound, Recorded
<1>4. \A c \in DOMAIN s.claims : \E q \in E :
         /\ q.id <= n - 1 /\ IsClaim(q, s.claims[c].task) /\ q.id = c
         /\ q.actor = s.claims[c].actor
  BY <1>1 DEF Traced, IsClaim
<1>5. \A c \in DOMAIN s.claims : c \in Ids /\ c < n /\ c # None
  BY <1>2, <1>4
<1>6. n \notin DOMAIN s.claims
  BY <1>5
<1>7. \A t : \A c \in ClaimsOf(s, t) : \E q \in E :
         IsClaim(q, t) /\ q.id = c /\ q.actor = s.claims[c].actor
  BY <1>4 DEF ClaimsOf
<1>8. ASSUME NEW t, NEW q \in E, IsClaim(q, t), q.id < n
      PROVE  q.id \in ClaimsOf(s, t)
  <2>1. q.id \in DOMAIN s.claims
    BY <1>1, <1>2, <1>8 DEF Recorded, IsClaim
  <2>2. PICK r \in E : IsClaim(r, s.claims[q.id].task) /\ r.id = q.id
    BY <1>4, <2>1
  <2>3. r = q
    BY <1>2, <2>2
  <2> QED BY <1>8, <2>1, <2>2, <2>3 DEF ClaimsOf, IsClaim
<1>9. e.type = "claim.confirmed" => e.claim \in ClaimsOf(s, e.task)
  <2> SUFFICES ASSUME e.type = "claim.confirmed"
               PROVE  e.claim \in ClaimsOf(s, e.task)
    OBVIOUS
  <2>1. PICK f \in E : /\ IsClaim(f, e.task) /\ f.id = e.claim /\ f.id < e.id
    BY DEF Sound, IsClaim
  <2> QED BY <1>8, <2>1
<1>10. \A t \in Tasks : s.holder[t] # None => s.holder[t] \in ClaimsOf(s, t)
  BY <1>1 DEF Holds, ClaimsOf
<1> QED BY <1>3, <1>5, <1>6, <1>7, <1>8, <1>9, <1>10

LEMMA FieldsAlike ==
    ASSUME NEW s, NEW m, NEW t, NEW u, t # u,
           DOMAIN s.claims \subseteq DOMAIN m.claims,
           \A c \in DOMAIN m.claims \ DOMAIN s.claims : m.claims[c].task = u,
           \A c \in DOMAIN s.claims : m.claims[c].task = s.claims[c].task,
           \A c \in DOMAIN s.claims :
              s.claims[c].task # u => m.claims[c] = s.claims[c],
           m.holder[t] = s.holder[t]
    PROVE  Alike(s, m, t)
<1>1. ClaimsOf(m, t) = ClaimsOf(s, t)
  BY DEF ClaimsOf
<1>2. \A c \in ClaimsOf(s, t) : m.claims[c] = s.claims[c]
  BY DEF ClaimsOf
<1> QED BY <1>1, <1>2 DEF Alike

LEMMA ClaimMadeAlike ==
    ASSUME NEW s, IsState(s), NEW lv, NEW e, e.task \in DOMAIN s.tasks,
           e.task \in Tasks, e.id \notin DOMAIN s.claims,
           s.holder[e.task] # None =>
              s.holder[e.task] \in ClaimsOf(s, e.task),
           NEW t \in Tasks, t # e.task
    PROVE  Alike(s, ClaimMade(s, lv, e), t)
<1> DEFINE h == s.holder[e.task]
           lapsed == [s.claims EXCEPT ![h].status = "expired"]
<1>1. \A x : NewClaim(e, x).task = e.task
  BY DEF NewClaim
<1>2. /\ s.holder \in [Tasks -> Ids \cup {None}]
      /\ \A c \in DOMAIN s.claims : s.claims[c] \in ClaimRecord
  BY DEF IsState, IsMap
<1>3. h # None =>
         /\ DOMAIN lapsed = DOMAIN s.claims
         /\ \A c \in DOMAIN s.claims : lapsed[c].task = s.claims[c].task
         /\ \A c \in DOMAIN s.claims :
               s.claims[c].task # e.task => lapsed[c] = s.claims[c]
  BY <1>2 DEF ClaimsOf, ClaimRecord
<1> SUFFICES ASSUME NEW m, m = ClaimMade(s, lv, e)
             PROVE  Alike(s, m, t)
  OBVIOUS
<1>4. ASSUME NEW os, NEW x, m.claims = Put(os, e.id, NewClaim(e, x)),
             os = s.claims \/ (h # None /\ os = lapsed),
             \/ m.holder = s.holder
             \/ m.holder = [s.holder EXCEPT ![e.task] = e.id]
      PROVE  Alike(s, m, t)
  <2>1. /\ DOMAIN os = DOMAIN s.claims
        /\ \A c \in DOMAIN s.claims : os[c].task = s.claims[c].task
        /\ \A c \in DOMAIN s.claims :
              s.claims[c].task # e.task => os[c] = s.claims[c]
    BY <1>3, <1>4
  <2> DEFINE v == NewClaim(e, x)
  <2>2. v.task = e.task /\ m.claims = Put(os, e.id, v)
    BY <1>1, <1>4
  <2> HIDE DEF v, h, lapsed
  <2>3. /\ DOMAIN m.claims = DOMAIN s.claims \cup {e.id}
        /\ m.claims[e.id].task = e.task
        /\ \A c \in DOMAIN s.claims : m.claims[c] = os[c]
    <3>1. \A c \in DOMAIN s.claims : c # e.id /\ c \in DOMAIN os
      BY <2>1
    <3>2. /\ DOMAIN Put(os, e.id, v) = DOMAIN os \cup {e.id}
          /\ Put(os, e.id, v)[e.id] = v
          /\ \A c \in DOMAIN os \ {e.id} : Put(os, e.id, v)[c] = os[c]
      BY DEF Put
    <3> QED BY <2>1, <2>2, <3>1, <3>2
  <2>4. m.holder[t] = s.holder[t]
    BY <1>2, <1>4
  <2>5. /\ DOMAIN s.claims \subseteq DOMAIN m.claims
        /\ \A c \in DOMAIN m.claims \ DOMAIN s.claims :
              m.claims[c].task = e.task
        /\ \A c \in DOMAIN s.claims : m.claims[c].task = s.claims[c].task
        /\ \A c \in DOMAIN s.claims :
              s.claims[c].task # e.task => m.claims[c] = s.claims[c]
    BY <2>1, <2>3
  <2> QED BY <2>4, <2>5, FieldsAlike
<1>5. \E os, x : /\ m.claims = Put(os, e.id, NewClaim(e, x))
                 /\ os = s.claims \/ (h # None /\ os = lapsed)
                 /\ \/ m.holder = s.holder
                    \/ m.holder = [s.holder EXCEPT ![e.task] = e.id]
  <2>1. \/ /\ m.claims = Put(s.claims, e.id, NewClaim(e, "active"))
           /\ m.holder = [s.holder EXCEPT ![e.task] = e.id]
        \/ /\ h # None
           /\ m.claims = Put(lapsed, e.id, NewClaim(e, "active"))
           /\ m.holder = [s.holder EXCEPT ![e.task] = e.id]
        \/ /\ m.claims = Put(s.claims, e.id, NewClaim(e, "voided"))
           /\ m.holder = s.holder
    BY ClaimMadeMoves
  <2> HIDE DEF h, lapsed
  <2> QED BY <2>1
<1> HIDE DEF lapsed, h
<1> QED BY <1>4, <1>5

LEMMA ClaimConfirmedAlike ==
    ASSUME NEW s, IsState(s), NEW e, e.claim \in ClaimsOf(s, e.task),
           e.task \in Tasks,
           s.holder[e.task] # None =>
              s.holder[e.task] \in ClaimsOf(s, e.task),
           NEW t \in Tasks, t # e.task, NEW m, m = ClaimConfirmed(s, e)
    PROVE  Alike(s, m, t)
<1> DEFINE h == s.holder[e.task]
<1>1. /\ s.holder \in [Tasks -> Ids \cup {None}]
      /\ \A c \in DOMAIN s.claims : s.claims[c] \in ClaimRecord
      /\ e.claim \in DOMAIN s.claims /\ s.claims[e.claim].task = e.task
  BY SMTT(60) DEF IsState, IsMap, ClaimsOf
<1>2. \/ /\ m.claims = [s.claims EXCEPT ![e.claim].confirmation = e.id]
         /\ m.holder = s.holder
      \/ /\ h # None /\ h # e.claim
         /\ m.claims = [s.claims EXCEPT ![h].status = "voided",
                                        ![e.claim].status = "active",
                                        ![e.claim].confirmation = e.id]
         /\ m.holder = [s.holder EXCEPT ![e.task] = e.claim]
      \/ m = s
  BY <1>1, ClaimConfirmedMoves
<1>3. h # None => h \in DOMAIN s.claims /\ s.claims[h].task = e.task
  BY DEF ClaimsOf
<1> HIDE DEF h
<1>4. CASE /\ m.claims = [s.claims EXCEPT ![e.claim].confirmation = e.id]
           /\ m.holder = s.holder
  <2>1. DOMAIN m.claims = DOMAIN s.claims
    BY <1>4
  <2>2. \A c \in DOMAIN s.claims : m.claims[c].task = s.claims[c].task
    BY <1>1, <1>4 DEF ClaimRecord
  <2>3. \A c \in DOMAIN s.claims :
           s.claims[c].task # e.task => m.claims[c] = s.claims[c]
    BY <1>1, <1>4
  <2>4. m.holder[t] = s.holder[t]
    BY <1>4
  <2> QED BY <2>1, <2>2, <2>3, <2>4, FieldsAlike
<1>5. CASE /\ h # None /\ h # e.claim
           /\ m.claims = [s.claims EXCEPT ![h].status = "voided",
                                          ![e.claim].status = "active",
                                          ![e.claim].confirmation = e.id]
           /\ m.holder = [s.holder EXCEPT ![e.task] = e.claim]
  <2>1. DOMAIN m.claims = DOMAIN s.claims
    BY <1>5
  <2>2. \A c \in DOMAIN s.claims : m.claims[c].task = s.claims[c].task
    BY <1>1, <1>5 DEF ClaimRecord
  <2>3. \A c \in DOMAIN s.claims :
           s.claims[c].task # e.task => m.claims[c] = s.claims[c]
    BY <1>1, <1>3, <1>5
  <2>4. m.holder[t] = s.holder[t]
    BY <1>1, <1>5
  <2> QED BY <2>1, <2>2, <2>3, <2>4, FieldsAlike
<1>6. CASE m = s
  BY <1>6 DEF Alike
<1> QED BY <1>2, <1>4, <1>5, <1>6

LEMMA EndAlike ==
    ASSUME NEW s, IsState(s), NEW e, e.task \in Tasks,
           s.holder[e.task] # None =>
              s.holder[e.task] \in ClaimsOf(s, e.task),
           NEW t \in Tasks, t # e.task,
           NEW m, \/ m = ClaimReleased(s, e)
                  \/ m = RunFinished(s, e) /\ e.task \in DOMAIN s.tasks
    PROVE  Alike(s, m, t)
<1> DEFINE h == s.holder[e.task]
<1>1. /\ s.holder \in [Tasks -> Ids \cup {None}]
      /\ \A c \in DOMAIN s.claims : s.claims[c] \in ClaimRecord
  BY DEF IsState, IsMap
<1>2. CASE m.claims = s.claims /\ m.holder = s.holder
  BY <1>2 DEF Alike, ClaimsOf
<1>3. ASSUME h # None, NEW x,
             m.claims = [s.claims EXCEPT ![h].status = x],
             m.holder = [s.holder EXCEPT ![e.task] = None]
      PROVE  Alike(s, m, t)
  <2>1. DOMAIN m.claims = DOMAIN s.claims
    BY <1>3
  <2>2. \A c \in DOMAIN s.claims : m.claims[c].task = s.claims[c].task
    BY <1>1, <1>3 DEF ClaimRecord
  <2>3. \A c \in DOMAIN s.claims :
           s.claims[c].task # e.task => m.claims[c] = s.claims[c]
    BY <1>3 DEF ClaimsOf
  <2>4. m.holder[t] = s.holder[t]
    BY <1>1, <1>3
  <2> QED BY <2>1, <2>2, <2>3, <2>4, FieldsAlike
<1>4. \/ m.claims = s.claims /\ m.holder = s.holder
      \/ /\ h # None
         /\ \E x \in {"released", "finished"} :
               m.claims = [s.claims EXCEPT ![h].status = x]
         /\ m.holder = [s.holder EXCEPT ![e.task] = None]
  BY EndMoves
<1> HIDE DEF h
<1> QED BY <1>2, <1>3, <1>4

\* An event leaves all tasks but its own alone, and its own unless it is about
\* claims.
LEMMA OthersAlike ==
    ASSUME NEW E, Sound(E), NEW n \in Nat, NEW s, FoldInv(E, n - 1, s),
           NEW e \in E, e.id = n, ~ s.error, NEW lv, NEW t \in Tasks,
           \/ t # e.task
           \/ e.type \in {"task.created", "task.updated",
                          "escalation.raised", "escalation.answered"}
    PROVE  Alike(s, Apply(s, lv, e), t)
<1>1. /\ IsEvent(e) /\ IsState(s) /\ e.task \in Tasks
  BY DEF Sound, AreEvents, FoldInv, IsState, IsEvent
<1>2. /\ e.type \in {"claim.made", "run.finished"} => e.task \in DOMAIN s.tasks
      /\ e.type = "claim.confirmed" => e.claim \in ClaimsOf(s, e.task)
      /\ e.id \notin DOMAIN s.claims
      /\ s.holder[e.task] # None => s.holder[e.task] \in ClaimsOf(s, e.task)
  BY <1>1, FindsItsOwn
<1>3. \A m : m.claims = s.claims /\ m.holder = s.holder => Alike(s, m, t)
  BY DEF Alike, ClaimsOf
<1>4. CASE e.type = "task.created"
  BY <1>1, <1>3, <1>4, TaskCreatedKeeps DEF Apply, IsEvent
<1>5. CASE e.type = "task.updated"
  BY <1>1, <1>3, <1>5, TaskUpdatedKeeps DEF Apply, IsEvent
<1>6. CASE e.type = "escalation.raised"
  BY <1>1, <1>3, <1>6, EscalationRaisedKeeps DEF Apply, IsEvent
<1>7. CASE e.type = "escalation.answered"
  BY <1>1, <1>3, <1>7, EscalationAnsweredKeeps DEF Apply, IsEvent
<1>8. CASE e.type = "claim.made"
  BY <1>1, <1>2, <1>8, ClaimMadeAlike DEF Apply
<1>9. CASE e.type = "claim.confirmed"
  BY <1>1, <1>2, <1>9, ClaimConfirmedAlike DEF Apply
<1>10. CASE e.type = "claim.released"
  BY <1>1, <1>2, <1>10, EndAlike DEF Apply
<1>11. CASE e.type = "run.finished"
  BY <1>1, <1>2, <1>11, EndAlike DEF Apply
<1> QED
  BY <1>1, <1>4, <1>5, <1>6, <1>7, <1>8, <1>9, <1>10, <1>11 DEF IsEvent

\* The records after an event of a task, claim by claim.
LEMMA ClaimMadeRecords ==
    ASSUME NEW s, IsState(s), NEW lv, NEW e, e.task \in DOMAIN s.tasks,
           e.task \in Tasks, e.id \notin DOMAIN s.claims,
           s.holder[e.task] # None =>
              s.holder[e.task] \in ClaimsOf(s, e.task),
           NEW m, m = ClaimMade(s, lv, e)
    PROVE  LET t == e.task
               h == s.holder[t]
           IN  /\ ClaimsOf(m, t) = ClaimsOf(s, t) \cup {e.id}
               /\ m.claims[e.id].confirmation = None
               /\ \A c \in ClaimsOf(s, t) :
                     /\ c # h => m.claims[c] = s.claims[c]
                     /\ m.claims[c].actor = s.claims[c].actor
                     /\ m.claims[c].confirmation = s.claims[c].confirmation
               /\ \/ /\ h = None \/ LeaseExpiredBy(lv, h, IDTime(e.id))
                     /\ m.claims[e.id].status = "active"
                     /\ m.holder[t] = e.id
                     /\ h # None => m.claims[h].status = "expired"
                  \/ /\ h # None
                     /\ m.claims[e.id].status = "voided"
                     /\ m.holder[t] = h
                     /\ m.claims[h] = s.claims[h]
<1> DEFINE t == e.task
           h == s.holder[t]
           lapsed == [s.claims EXCEPT ![h].status = "expired"]
<1>1. /\ s.holder \in [Tasks -> Ids \cup {None}]
      /\ \A c \in DOMAIN s.claims : s.claims[c] \in ClaimRecord
  BY DEF IsState, IsMap
<1>2. h # None => h \in DOMAIN s.claims /\ s.claims[h].task = t
  BY DEF ClaimsOf
<1>3. ASSUME NEW os, NEW x, m.claims = Put(os, e.id, NewClaim(e, x)),
             DOMAIN os = DOMAIN s.claims,
             \A c \in DOMAIN s.claims :
                /\ c # h => os[c] = s.claims[c]
                /\ os[c].task = s.claims[c].task
                /\ os[c].actor = s.claims[c].actor
                /\ os[c].confirmation = s.claims[c].confirmation
      PROVE  /\ ClaimsOf(m, t) = ClaimsOf(s, t) \cup {e.id}
             /\ m.claims[e.id].status = x
             /\ m.claims[e.id].confirmation = None
             /\ h # None => m.claims[h] = os[h]
             /\ \A c \in ClaimsOf(s, t) :
                   /\ c # h => m.claims[c] = s.claims[c]
                   /\ m.claims[c].actor = s.claims[c].actor
                   /\ m.claims[c].confirmation = s.claims[c].confirmation
  <2> DEFINE v == NewClaim(e, x)
  <2>1. v.task = t /\ v.status = x /\ v.confirmation = None
    BY DEF NewClaim
  <2>2. m.claims = Put(os, e.id, v)
    BY <1>3
  <2> HIDE DEF v
  <2>3. /\ DOMAIN m.claims = DOMAIN s.claims \cup {e.id}
        /\ m.claims[e.id] = v
        /\ \A c \in DOMAIN s.claims : m.claims[c] = os[c]
    BY <1>3, <2>2 DEF Put
  <2> HIDE DEF h
  <2>4. ClaimsOf(m, t) = ClaimsOf(s, t) \cup {e.id}
    BY <1>3, <2>1, <2>3 DEF ClaimsOf
  <2> QED BY <1>2, <1>3, <2>1, <2>3, <2>4 DEF ClaimsOf
<1>4. h # None => /\ DOMAIN lapsed = DOMAIN s.claims
                  /\ lapsed[h].status = "expired"
                  /\ \A c \in DOMAIN s.claims :
                        /\ c # h => lapsed[c] = s.claims[c]
                        /\ lapsed[c].task = s.claims[c].task
                        /\ lapsed[c].actor = s.claims[c].actor
                        /\ lapsed[c].confirmation = s.claims[c].confirmation
  BY <1>1, <1>2 DEF ClaimRecord
<1>5. \/ /\ h = None
         /\ m.claims = Put(s.claims, e.id, NewClaim(e, "active"))
         /\ m.holder = [s.holder EXCEPT ![t] = e.id]
      \/ /\ h # None /\ LeaseExpiredBy(lv, h, IDTime(e.id))
         /\ m.claims = Put(lapsed, e.id, NewClaim(e, "active"))
         /\ m.holder = [s.holder EXCEPT ![t] = e.id]
      \/ /\ h # None
         /\ m.claims = Put(s.claims, e.id, NewClaim(e, "voided"))
         /\ m.holder = s.holder
  BY ClaimMadeMoves
<1>6. m.holder = [s.holder EXCEPT ![t] = e.id] => m.holder[t] = e.id
  BY <1>1
<1> HIDE DEF h, lapsed
<1>7. CASE /\ h = None
           /\ m.claims = Put(s.claims, e.id, NewClaim(e, "active"))
           /\ m.holder = [s.holder EXCEPT ![t] = e.id]
  BY <1>3, <1>6, <1>7 DEF h
<1>8. CASE /\ h # None /\ LeaseExpiredBy(lv, h, IDTime(e.id))
           /\ m.claims = Put(lapsed, e.id, NewClaim(e, "active"))
           /\ m.holder = [s.holder EXCEPT ![t] = e.id]
  BY <1>3, <1>4, <1>6, <1>8 DEF h
<1>9. CASE /\ h # None
           /\ m.claims = Put(s.claims, e.id, NewClaim(e, "voided"))
           /\ m.holder = s.holder
  BY <1>3, <1>9, SMTT(60) DEF h
<1> QED BY <1>5, <1>7, <1>8, <1>9 DEF h

LEMMA ClaimConfirmedRecords ==
    ASSUME NEW s, IsState(s), NEW e, e.claim \in ClaimsOf(s, e.task),
           e.task \in Tasks,
           s.holder[e.task] # None =>
              s.holder[e.task] \in ClaimsOf(s, e.task),
           NEW m, m = ClaimConfirmed(s, e)
    PROVE  LET t == e.task
               h == s.holder[t]
               c == e.claim
           IN  /\ ClaimsOf(m, t) = ClaimsOf(s, t)
               /\ \A d \in ClaimsOf(s, t) :
                     /\ d \notin {h, c} => m.claims[d] = s.claims[d]
                     /\ m.claims[d].actor = s.claims[d].actor
                     /\ d # c => m.claims[d].confirmation
                                    = s.claims[d].confirmation
               /\ \/ /\ h = c /\ s.claims[c].confirmation = None
                     /\ m.claims[c].confirmation = e.id
                     /\ m.claims[c].status = s.claims[c].status
                     /\ m.holder[t] = c
                  \/ /\ h # c /\ h # None /\ s.claims[h].status = "active"
                     /\ s.claims[h].confirmation = None
                     /\ s.claims[c].status = "voided"
                     /\ m.claims[h].status = "voided"
                     /\ m.claims[c].status = "active"
                     /\ m.claims[c].confirmation = e.id
                     /\ m.holder[t] = c
                  \/ /\ \/ h = c /\ s.claims[c].confirmation # None
                        \/ /\ h # c
                           /\ ~ (/\ h # None /\ s.claims[h].status = "active"
                                 /\ s.claims[h].confirmation = None
                                 /\ s.claims[c].status = "voided")
                     /\ m = s
<1> DEFINE t == e.task
           h == s.holder[t]
           c == e.claim
<1>1. /\ s.holder \in [Tasks -> Ids \cup {None}]
      /\ \A d \in DOMAIN s.claims : s.claims[d] \in ClaimRecord
      /\ c \in DOMAIN s.claims /\ s.claims[c].task = t
      /\ h # None => h \in DOMAIN s.claims
  BY DEF IsState, IsMap, ClaimsOf
<1>2. \/ /\ h = c /\ s.claims[c].confirmation = None
         /\ m.claims = [s.claims EXCEPT ![c].confirmation = e.id]
         /\ m.holder = s.holder
      \/ /\ h # c /\ h # None /\ s.claims[h].status = "active"
         /\ s.claims[h].confirmation = None
         /\ s.claims[c].status = "voided"
         /\ m.claims = [s.claims EXCEPT ![h].status = "voided",
                                        ![c].status = "active",
                                        ![c].confirmation = e.id]
         /\ m.holder = [s.holder EXCEPT ![t] = c]
      \/ /\ \/ h = c /\ s.claims[c].confirmation # None
            \/ /\ h # c
               /\ ~ (/\ h # None /\ s.claims[h].status = "active"
                     /\ s.claims[h].confirmation = None
                     /\ s.claims[c].status = "voided")
         /\ m = s
  <2>1. e.claim \in DOMAIN s.claims /\ s.claims[e.claim].task = e.task
    BY <1>1
  <2> QED BY <2>1, ClaimConfirmedMoves, ZenonT(60)
<1>3. t \in Tasks
  OBVIOUS
<1> HIDE DEF h, c, t
<1>4. CASE /\ h = c /\ s.claims[c].confirmation = None
           /\ m.claims = [s.claims EXCEPT ![c].confirmation = e.id]
           /\ m.holder = s.holder
  <2>1. /\ DOMAIN m.claims = DOMAIN s.claims
        /\ \A d \in DOMAIN s.claims :
              /\ d # c => m.claims[d] = s.claims[d]
              /\ m.claims[d].task = s.claims[d].task
              /\ m.claims[d].actor = s.claims[d].actor
              /\ m.claims[d].status = s.claims[d].status
        /\ m.claims[c].confirmation = e.id
    BY <1>1, <1>4 DEF ClaimRecord
  <2>2. ClaimsOf(m, t) = ClaimsOf(s, t)
    BY <2>1 DEF ClaimsOf
  <2>3. m.holder[t] = c
    BY <1>4 DEF h
  <2>4. \A d \in ClaimsOf(s, t) :
           /\ d # c => m.claims[d] = s.claims[d]
           /\ m.claims[d].actor = s.claims[d].actor
    BY <2>1 DEF ClaimsOf
  <2> QED BY <1>1, <1>4, <2>1, <2>2, <2>3, <2>4 DEF h, c, t
<1>5. CASE /\ h # c /\ h # None /\ s.claims[h].status = "active"
           /\ s.claims[h].confirmation = None
           /\ s.claims[c].status = "voided"
           /\ m.claims = [s.claims EXCEPT ![h].status = "voided",
                                          ![c].status = "active",
                                          ![c].confirmation = e.id]
           /\ m.holder = [s.holder EXCEPT ![t] = c]
  <2>1. /\ DOMAIN m.claims = DOMAIN s.claims
        /\ \A d \in DOMAIN s.claims :
              /\ d \notin {h, c} => m.claims[d] = s.claims[d]
              /\ m.claims[d].task = s.claims[d].task
              /\ m.claims[d].actor = s.claims[d].actor
              /\ d # c => m.claims[d].confirmation = s.claims[d].confirmation
        /\ m.claims[h].status = "voided"
        /\ m.claims[c].status = "active"
        /\ m.claims[c].confirmation = e.id
    BY <1>1, <1>5, SMTT(60) DEF ClaimRecord
  <2>2. ClaimsOf(m, t) = ClaimsOf(s, t)
    BY <2>1 DEF ClaimsOf
  <2>3. m.holder[t] = c
    BY <1>1, <1>3, <1>5
  <2>4. \A d \in ClaimsOf(s, t) :
           /\ d \notin {h, c} => m.claims[d] = s.claims[d]
           /\ m.claims[d].actor = s.claims[d].actor
           /\ d # c => m.claims[d].confirmation = s.claims[d].confirmation
    BY <2>1 DEF ClaimsOf
  <2> QED BY <1>5, <2>1, <2>2, <2>3, <2>4 DEF h, c, t
<1>6. CASE /\ \/ h = c /\ s.claims[c].confirmation # None
              \/ /\ h # c
                 /\ ~ (/\ h # None /\ s.claims[h].status = "active"
                       /\ s.claims[h].confirmation = None
                       /\ s.claims[c].status = "voided")
           /\ m = s
  BY <1>6 DEF h, c, t
<1> QED BY <1>2, <1>4, <1>5, <1>6

LEMMA EndRecords ==
    ASSUME NEW s, IsState(s), NEW e, e.task \in Tasks,
           s.holder[e.task] # None =>
              s.holder[e.task] \in ClaimsOf(s, e.task),
           NEW m, \/ m = ClaimReleased(s, e)
                  \/ m = RunFinished(s, e) /\ e.task \in DOMAIN s.tasks
    PROVE  LET t == e.task
               h == s.holder[t]
           IN  /\ ClaimsOf(m, t) = ClaimsOf(s, t)
               /\ \/ /\ m.claims = s.claims /\ m.holder = s.holder
                  \/ /\ h # None /\ s.claims[h].actor = e.actor
                     /\ m.holder[t] = None
                     /\ \A c \in ClaimsOf(s, t) :
                           /\ c # h => m.claims[c] = s.claims[c]
                           /\ m.claims[c].actor = s.claims[c].actor
                           /\ m.claims[c].confirmation
                                 = s.claims[c].confirmation
                           /\ m.claims[c].status = "active" => c # h
<1> DEFINE t == e.task
           h == s.holder[t]
<1>1. /\ s.holder \in [Tasks -> Ids \cup {None}]
      /\ \A d \in DOMAIN s.claims : s.claims[d] \in ClaimRecord
      /\ h # None => h \in DOMAIN s.claims
      /\ t \in Tasks
  BY DEF IsState, IsMap, ClaimsOf
<1>2. \/ m.claims = s.claims /\ m.holder = s.holder
      \/ /\ h # None /\ s.claims[h].actor = e.actor
         /\ \E x \in {"released", "finished"} :
               m.claims = [s.claims EXCEPT ![h].status = x]
         /\ m.holder = [s.holder EXCEPT ![t] = None]
  BY EndMoves
<1> HIDE DEF h, t
<1>3. CASE m.claims = s.claims /\ m.holder = s.holder
  BY <1>3 DEF ClaimsOf, t
<1>4. ASSUME h # None, s.claims[h].actor = e.actor,
             NEW x \in {"released", "finished"},
             m.claims = [s.claims EXCEPT ![h].status = x],
             m.holder = [s.holder EXCEPT ![t] = None]
      PROVE  /\ ClaimsOf(m, t) = ClaimsOf(s, t)
             /\ m.holder[t] = None
             /\ \A c \in ClaimsOf(s, t) :
                   /\ c # h => m.claims[c] = s.claims[c]
                   /\ m.claims[c].actor = s.claims[c].actor
                   /\ m.claims[c].confirmation = s.claims[c].confirmation
                   /\ m.claims[c].status = "active" => c # h
  <2>1. /\ DOMAIN m.claims = DOMAIN s.claims
        /\ \A d \in DOMAIN s.claims :
              /\ d # h => m.claims[d] = s.claims[d]
              /\ m.claims[d].task = s.claims[d].task
              /\ m.claims[d].actor = s.claims[d].actor
              /\ m.claims[d].confirmation = s.claims[d].confirmation
              /\ m.claims[d].status = "active" => d # h
    BY <1>1, <1>4 DEF ClaimRecord
  <2>2. m.holder[t] = None
    BY <1>1, <1>4
  <2>3. ClaimsOf(m, t) = ClaimsOf(s, t)
    BY <2>1 DEF ClaimsOf
  <2> QED BY <2>1, <2>2, <2>3 DEF ClaimsOf
<1> QED BY <1>2, <1>3, <1>4 DEF h, t

\* No claim of a contest is later than the holder, so the holder did not end
\* it, and has not lapsed.
LEMMA HolderStands ==
    ASSUME NEW E, Sound(E), NEW n \in Nat, NEW s, FoldInv(E, n - 1, s),
           NEW e \in E, e.id = n, ~ s.error, NEW lv, NEW t \in Tasks,
           Orderly(E, lv, t), Contested(s, t), s.holder[t] # None,
           \A f \in E : f.type = "claim.confirmed" /\ f.task = t => n < f.id
    PROVE  LET h == s.holder[t]
           IN  /\ IsEnd(e) /\ e.task = t => s.claims[h].actor # e.actor
               /\ IsClaim(e, t) => ~ LeaseExpiredBy(lv, h, IDTime(n))
<1> DEFINE h == s.holder[t]
<1>1. /\ h \in ClaimsOf(s, t) /\ h < n
      /\ \E q \in E : IsClaim(q, t) /\ q.id = h
                      /\ q.actor = s.claims[h].actor
      /\ \A q \in E : IsClaim(q, t) /\ q.id < n => q.id \in ClaimsOf(s, t)
  <2>1. h \in ClaimsOf(s, t)
    BY FindsItsOwn
  <2>2. \A c \in ClaimsOf(s, t) :
           \E q \in E : IsClaim(q, t) /\ q.id = c
                        /\ q.actor = s.claims[c].actor
    BY FindsItsOwn
  <2>3. \A q \in E : IsClaim(q, t) /\ q.id < n => q.id \in ClaimsOf(s, t)
    BY FindsItsOwn
  <2>4. \A c \in DOMAIN s.claims : c < n
    BY FindsItsOwn
  <2> HIDE DEF h
  <2> QED BY <2>1, <2>2, <2>3, <2>4 DEF ClaimsOf
<1>2. PICK p \in E : IsClaim(p, t) /\ p.id = h /\ p.actor = s.claims[h].actor
  BY <1>1
<1>3. \A c \in ClaimsOf(s, t) : h <= c
  BY DEF Contested
<1>4. \A f \in E : f.id \in Nat
  BY DEF Sound, AreEvents, IsEvent, Ids
<1> HIDE DEF h
\* An ending by the holder's actor cannot be beaten.
<1>5. ASSUME NEW x \in E, IsEnd(x), x.task = t, x.actor = s.claims[h].actor,
             h < x.id, x.id <= n
      PROVE  FALSE
  <2>1. \A f \in E :
           f.type = "claim.confirmed" /\ f.task = t => x.id < f.id
    BY <1>4, <1>5
  <2>2. Beaten(x.actor, t, x.id, E)
    BY <1>5, <2>1 DEF Orderly
  <2>3. PICK q \in E : /\ IsClaim(q, t) /\ q.id < x.id
                       /\ \A r \in E : /\ IsClaim(r, t) /\ r.actor = x.actor
                                       /\ r.id < x.id
                                       => q.id < r.id
    BY <2>2 DEF Beaten
  <2>4. q.id < h
    BY <1>2, <1>5, <2>3
  <2>5. q.id \in ClaimsOf(s, t)
    BY <1>1, <1>2, <1>4, <2>3, <2>4
  <2>6. h <= q.id
    BY <1>3, <2>5
  <2> QED BY <1>2, <1>4, <2>4, <2>6
<1>6. ASSUME IsEnd(e), e.task = t
      PROVE  s.claims[h].actor # e.actor
  BY <1>1, <1>4, <1>5, <1>6 DEF h
<1>7. ASSUME IsClaim(e, t)
      PROVE  ~ LeaseExpiredBy(lv, h, IDTime(n))
  <2> SUFFICES ASSUME LeaseExpiredBy(lv, h, IDTime(n))
               PROVE  FALSE
    OBVIOUS
  <2>1. PICK x \in E : /\ x.type = "claim.released" /\ x.task = t
                       /\ x.actor = p.actor /\ x.id \in h .. n
    BY <1>1, <1>2, <1>7 DEF Orderly, h
  <2>2. x.id # h
    <3>1. \A f, g \in E : f.id = g.id => f = g
      BY DEF Sound, AreEvents
    <3> QED BY <1>2, <2>1, <3>1 DEF IsClaim
  <2>3. h < x.id /\ x.id <= n
    BY <1>2, <1>4, <2>1, <2>2
  <2> QED BY <1>2, <1>5, <2>1, <2>3 DEF IsEnd
<1> QED BY <1>6, <1>7 DEF h

LEMMA AlikeStays ==
    ASSUME NEW s, NEW m, NEW t, Alike(s, m, t)
    PROVE  /\ Contested(s, t) => Contested(m, t)
           /\ \A E, e, n : e.task = t /\ Crowned(E, e, n, s) =>
                 Crowned(E, e, n, m)
BY DEF Alike, Contested, Crowned

\* No event but a confirmation changes the leader of a contest.
LEMMA ContestTurn ==
    ASSUME NEW E, Sound(E), NEW n \in Nat, NEW s, FoldInv(E, n - 1, s),
           NEW e \in E, e.id = n, ~ s.error, NEW lv, NEW t \in Tasks,
           Orderly(E, lv, t), Contested(s, t),
           \A f \in E : f.type = "claim.confirmed" /\ f.task = t => n < f.id
    PROVE  Contested(Apply(s, lv, e), t)
<1> DEFINE m == Apply(s, lv, e)
           h == s.holder[t]
<1>1. /\ IsState(s) /\ IsEvent(e)
      /\ e.type \in {"claim.made", "run.finished"} => e.task \in DOMAIN s.tasks
      /\ n \notin DOMAIN s.claims
      /\ h # None => h \in ClaimsOf(s, t)
  BY FindsItsOwn DEF FoldInv, Sound, AreEvents
<1>2. \A c \in ClaimsOf(s, t) : c \in Ids /\ c < n
  BY FindsItsOwn DEF ClaimsOf
<1>3. h # None => /\ IsEnd(e) /\ e.task = t => s.claims[h].actor # e.actor
                  /\ IsClaim(e, t) => ~ LeaseExpiredBy(lv, h, IDTime(n))
  BY HolderStands
<1>4. n # None
  BY <1>1 DEF IsEvent, Ids, None
<1> HIDE DEF m, h
<1>5. CASE e.task = t /\ e.type = "claim.made"
  <2>1. m = ClaimMade(s, lv, e)
    BY <1>5 DEF Apply, m
  <2>2. /\ ClaimsOf(m, t) = ClaimsOf(s, t) \cup {n}
        /\ m.claims[n].confirmation = None
        /\ \A c \in ClaimsOf(s, t) :
              /\ c # h => m.claims[c] = s.claims[c]
              /\ m.claims[c].actor = s.claims[c].actor
              /\ m.claims[c].confirmation = s.claims[c].confirmation
        /\ \/ /\ h = None \/ LeaseExpiredBy(lv, h, IDTime(n))
              /\ m.claims[n].status = "active"
              /\ m.holder[t] = n
              /\ h # None => m.claims[h].status = "expired"
           \/ /\ h # None
              /\ m.claims[n].status = "voided"
              /\ m.holder[t] = h
              /\ m.claims[h] = s.claims[h]
    BY <1>1, <1>5, <2>1, ClaimMadeRecords DEF h
  <2>3. CASE h = None
    <3>1. ClaimsOf(s, t) = {}
      BY <2>3 DEF Contested, h
    <3> QED BY <1>2, <1>4, <2>2, <2>3, <3>1 DEF Contested, m
  <2>4. CASE h # None
    <3>1. /\ m.claims[n].status = "voided" /\ m.holder[t] = h
          /\ m.claims[h] = s.claims[h]
      BY <1>3, <1>5, <2>2, <2>4 DEF IsClaim
    <3>2. \A c \in ClaimsOf(s, t) : m.claims[c] = s.claims[c] /\ h <= c
      BY <2>2, <3>1 DEF Contested, h
    <3>3. h <= n
      BY <1>1, <1>2, <2>4 DEF Ids
    <3> QED BY <2>2, <2>4, <3>1, <3>2, <3>3 DEF Contested, m
  <2> QED BY <2>3, <2>4
<1>6. CASE e.task = t /\ IsEnd(e)
  <2>1. \/ m = ClaimReleased(s, e)
        \/ m = RunFinished(s, e) /\ e.task \in DOMAIN s.tasks
    BY <1>1, <1>6 DEF Apply, m, IsEnd
  <2>2. m.claims = s.claims /\ m.holder = s.holder
    BY <1>1, <1>3, <1>6, <2>1, EndRecords DEF h
  <2> QED BY <2>2 DEF Contested, ClaimsOf, m
<1>7. CASE e.task = t /\ e.type = "claim.confirmed"
  BY <1>1, <1>7 DEF IsEvent, Ids
<1>8. CASE e.task # t \/ e.type \in {"task.created", "task.updated",
                       "escalation.raised", "escalation.answered"}
  BY <1>8, OthersAlike, AlikeStays
<1> QED BY <1>1, <1>5, <1>6, <1>7, <1>8 DEF IsEvent, IsEnd

\* The first confirmation of a task ends the contest for its claim.
LEMMA CrownTurn ==
    ASSUME NEW E, Sound(E), NEW n \in Nat, NEW s, FoldInv(E, n - 1, s),
           NEW e \in E, e.id = n, ~ s.error, NEW lv,
           e.type = "claim.confirmed", Contested(s, e.task),
           \A p \in E : p.id = e.claim => p.actor = e.actor
    PROVE  Crowned(E, e, n, Apply(s, lv, e))
<1> DEFINE m == Apply(s, lv, e)
           t == e.task
           h == s.holder[t]
           w == e.claim
<1>1. /\ IsState(s) /\ IsEvent(e) /\ t \in Tasks /\ Holds(s)
      /\ e.claim \in ClaimsOf(s, t)
      /\ h # None => h \in ClaimsOf(s, t)
  <2>1. IsState(s) /\ Holds(s) /\ IsEvent(e)
    BY DEF FoldInv, Sound, AreEvents
  <2>2. t \in Tasks
    BY <2>1 DEF IsEvent
  <2> QED BY <2>1, <2>2, FindsItsOwn
<1>2. \A c \in ClaimsOf(s, t) :
         /\ s.claims[c].confirmation = None
         /\ s.claims[c].status \in {"active", "voided"}
         /\ h # None
         /\ s.claims[c].status = "active" => c = h
  BY <1>1 DEF Contested, Holds, ClaimsOf
<1>3. s.claims[w].actor = e.actor
  BY <1>1, FindsItsOwn
<1> HIDE DEF m, h, w, t
<1>4. m = ClaimConfirmed(s, e)
  BY DEF m, Apply
<1>5. /\ ClaimsOf(m, t) = ClaimsOf(s, t)
      /\ \A d \in ClaimsOf(s, t) :
            /\ d \notin {h, w} => m.claims[d] = s.claims[d]
            /\ m.claims[d].actor = s.claims[d].actor
      /\ \/ /\ h = w
            /\ m.claims[w].confirmation = e.id
            /\ m.holder[t] = w
         \/ /\ h # w
            /\ m.claims[h].status = "voided"
            /\ m.claims[w].confirmation = e.id
            /\ m.holder[t] = w
  <2>1. h # None /\ s.claims[h].status = "active"
    BY <1>1, <1>2 DEF Holds, h, t
  <2> QED BY <1>1, <1>2, <1>4, <2>1, ClaimConfirmedRecords DEF h, t, w
<1>6. e.id # None
  BY <1>1 DEF IsEvent, Ids, None
<1>7. \A c \in ClaimsOf(m, t) :
         ~ (m.claims[c].status = "active" /\ m.claims[c].confirmation = None)
  BY <1>2, <1>5, <1>6
<1> QED BY <1>1, <1>3, <1>5, <1>7 DEF Crowned, m, t, w

LEMMA CrownedTurn ==
    ASSUME NEW E, Sound(E), NEW n \in Nat, NEW s, FoldInv(E, n - 1, s),
           NEW e \in E, e.id = n, ~ s.error, NEW lv,
           NEW d \in E, d.type = "claim.confirmed",
           Orderly(E, lv, d.task), Crowned(E, d, n - 1, s)
    PROVE  Crowned(E, d, n, Apply(s, lv, e))
<1> DEFINE m == Apply(s, lv, e)
           t == d.task
           h == s.holder[t]
           w == d.claim
<1>1. /\ IsState(s) /\ IsEvent(e) /\ t \in Tasks /\ Holds(s)
      /\ e.type \in {"claim.made", "run.finished"} => e.task \in DOMAIN s.tasks
      /\ e.type = "claim.confirmed" => e.claim \in ClaimsOf(s, e.task)
      /\ n \notin DOMAIN s.claims
      /\ h # None => h \in ClaimsOf(s, t)
  <2>1. IsState(s) /\ Holds(s) /\ IsEvent(e) /\ IsEvent(d)
    BY DEF FoldInv, Sound, AreEvents
  <2>2. t \in Tasks
    BY <2>1 DEF IsEvent
  <2> QED BY <2>1, <2>2, FindsItsOwn
<1>2. /\ w \in ClaimsOf(s, t) /\ s.claims[w].actor = d.actor
      /\ s.claims[w].confirmation = d.id
      /\ h = w \/ OverBy(E, d, n - 1)
      /\ \A c \in ClaimsOf(s, t) :
            /\ s.claims[c].status = "active" /\ s.claims[c].confirmation = None
            => OverBy(E, d, c)
  BY DEF Crowned
<1>3. /\ d.id # None /\ n # None /\ w < n /\ w # n
      /\ \A f \in E : f.id \in Nat
      /\ w \in Nat
  <2>1. w < n /\ w \in Ids /\ w # n
    BY <1>1, <1>2, FindsItsOwn DEF ClaimsOf
  <2>2. \A f \in E : f.id \in Ids
    BY DEF Sound, AreEvents, IsEvent
  <2> QED BY <2>1, <2>2 DEF Ids, None
<1>4. OverBy(E, d, n - 1) => OverBy(E, d, n)
  BY <1>3 DEF OverBy
<1>5. Crowned(E, d, n, s)
  BY <1>2, <1>4 DEF Crowned
<1> HIDE DEF m, h, w, t
<1>6. CASE e.task = t /\ e.type = "claim.made"
  <2>1. m = ClaimMade(s, lv, e)
    BY <1>6 DEF Apply, m
  <2>2. /\ ClaimsOf(m, t) = ClaimsOf(s, t) \cup {n}
        /\ m.claims[n].confirmation = None
        /\ \A c \in ClaimsOf(s, t) :
              /\ c # h => m.claims[c] = s.claims[c]
              /\ m.claims[c].actor = s.claims[c].actor
              /\ m.claims[c].confirmation = s.claims[c].confirmation
        /\ \/ /\ h = None \/ LeaseExpiredBy(lv, h, IDTime(n))
              /\ m.claims[n].status = "active"
              /\ m.holder[t] = n
              /\ h # None => m.claims[h].status = "expired"
           \/ /\ h # None
              /\ m.claims[n].status = "voided"
              /\ m.holder[t] = h
              /\ m.claims[h] = s.claims[h]
    BY <1>1, <1>6, <2>1, ClaimMadeRecords DEF h
  <2>3. CASE h = None \/ LeaseExpiredBy(lv, h, IDTime(n))
    <3>1. OverBy(E, d, n)
      <4>1. CASE h = w
        <5>1. PICK p \in E : IsClaim(p, t) /\ p.id = w /\ p.actor = d.actor
          BY <1>2, FindsItsOwn
        <5>2. h # None
          <6>1. w # None
            BY <1>2, FindsItsOwn DEF ClaimsOf
          <6> QED BY <4>1, <6>1
        <5>3. PICK x \in E : /\ x.type = "claim.released" /\ x.task = t
                             /\ x.actor = p.actor /\ x.id \in w .. n
          BY <1>3, <1>6, <2>3, <4>1, <5>1, <5>2 DEF Orderly, IsClaim, t
        <5> QED BY <5>1, <5>3 DEF OverBy, IsEnd, t, w
      <4> QED BY <1>2, <1>4, <4>1
    <3>2. \A c \in ClaimsOf(s, t) :
             c # h \/ h = None => m.claims[c] = s.claims[c]
      <4>1. None \notin ClaimsOf(s, t)
        BY FindsItsOwn DEF ClaimsOf
      <4> QED BY <2>2, <4>1
    <3>3. h # None /\ n # h => \/ m.claims[h].status = "expired"
                               \/ m.claims[h] = s.claims[h]
      BY <2>2
    <3> QED BY <1>2, <1>3, <2>2, <3>1, <3>2, <3>3 DEF Crowned, m, t, w
  <2>4. CASE /\ h # None
             /\ m.claims[n].status = "voided"
             /\ m.holder[t] = h
             /\ m.claims[h] = s.claims[h]
    <3>1. \A c \in ClaimsOf(s, t) : m.claims[c] = s.claims[c]
      BY <2>2, <2>4
    <3> QED BY <1>2, <1>4, <2>2, <2>4, <3>1 DEF Crowned, m, t, w
  <2> QED BY <2>2, <2>3, <2>4
<1>7. CASE e.task = t /\ e.type = "claim.confirmed"
  <2>1. m = ClaimConfirmed(s, e) /\ e.claim \in ClaimsOf(s, t)
    BY <1>1, <1>7 DEF Apply, m
  <2>2. /\ ClaimsOf(m, t) = ClaimsOf(s, t)
        /\ \A c \in ClaimsOf(s, t) :
              /\ c \notin {h, e.claim} => m.claims[c] = s.claims[c]
              /\ m.claims[c].actor = s.claims[c].actor
              /\ c # e.claim => m.claims[c].confirmation
                                   = s.claims[c].confirmation
        /\ \/ /\ h = e.claim /\ s.claims[h].confirmation = None
              /\ m.claims[h].confirmation = e.id
              /\ m.holder[t] = h
           \/ /\ h # e.claim /\ h # None
              /\ s.claims[h].confirmation = None
              /\ s.claims[e.claim].status = "voided"
              /\ m.claims[h].status = "voided"
              /\ m.claims[e.claim].confirmation = e.id
           \/ m = s
    BY <1>1, <1>7, <2>1, ClaimConfirmedRecords, SMTT(60) DEF h, t
  <2>3. CASE m = s
    BY <1>5, <2>3 DEF m
  <2>4. CASE /\ h = e.claim /\ s.claims[h].confirmation = None
             /\ m.claims[h].confirmation = e.id
             /\ m.holder[t] = h
    <3>1. h # w
      BY <1>2, <1>3, <2>4
    <3>2. e.id # None
      BY <1>3
    <3> QED BY <1>2, <1>4, <2>2, <2>4, <3>1, <3>2 DEF Crowned, m, t, w
  <2>5. CASE /\ h # e.claim /\ h # None
             /\ s.claims[h].confirmation = None
             /\ s.claims[e.claim].status = "voided"
             /\ m.claims[h].status = "voided"
             /\ m.claims[e.claim].confirmation = e.id
    <3>1. h # w
      BY <1>2, <1>3, <2>5
    <3>2. e.claim # w
      BY <1>1, <1>2, <1>3, <2>5 DEF Holds, ClaimsOf
    <3>3. e.id # None
      BY <1>3
    <3> QED BY <1>2, <1>4, <2>2, <2>5, <3>1, <3>2, <3>3 DEF Crowned, m, t, w
  <2> QED BY <2>2, <2>3, <2>4, <2>5
<1>8. CASE e.task = t /\ IsEnd(e)
  <2>1. \/ m = ClaimReleased(s, e)
        \/ m = RunFinished(s, e) /\ e.task \in DOMAIN s.tasks
    BY <1>1, <1>8 DEF Apply, m, IsEnd
  <2>2. /\ ClaimsOf(m, t) = ClaimsOf(s, t)
        /\ \/ /\ m.claims = s.claims /\ m.holder = s.holder
           \/ /\ h # None /\ s.claims[h].actor = e.actor
              /\ m.holder[t] = None
              /\ \A c \in ClaimsOf(s, t) :
                    /\ c # h => m.claims[c] = s.claims[c]
                    /\ m.claims[c].actor = s.claims[c].actor
                    /\ m.claims[c].confirmation = s.claims[c].confirmation
                    /\ m.claims[c].status = "active" => c # h
    BY <1>1, <1>8, <2>1, EndRecords DEF h, t
  <2>3. CASE m.claims = s.claims /\ m.holder = s.holder
    BY <1>5, <2>2, <2>3 DEF Crowned, m, t
  <2>4. CASE /\ h # None /\ s.claims[h].actor = e.actor
             /\ m.holder[t] = None
             /\ \A c \in ClaimsOf(s, t) :
                   /\ c # h => m.claims[c] = s.claims[c]
                   /\ m.claims[c].actor = s.claims[c].actor
                   /\ m.claims[c].confirmation = s.claims[c].confirmation
                   /\ m.claims[c].status = "active" => c # h
    <3>1. OverBy(E, d, n)
      <4>1. CASE h = w
        <5>1. e.actor = d.actor /\ e.id \in w .. n
          BY <1>2, <1>3, <2>4, <4>1
        <5> QED BY <1>8, <5>1 DEF OverBy, t, w
      <4> QED BY <1>2, <1>4, <4>1
    <3> QED BY <1>2, <2>2, <2>4, <3>1 DEF Crowned, m, t, w
  <2> QED BY <2>2, <2>3, <2>4
<1>9. CASE e.task # t \/ e.type \in {"task.created", "task.updated",
                       "escalation.raised", "escalation.answered"}
  BY <1>1, <1>5, <1>9, OthersAlike, AlikeStays DEF t
<1> QED BY <1>1, <1>6, <1>7, <1>8, <1>9 DEF IsEvent, IsEnd

\* Each task is fought over until its first confirmation, and has a winner
\* from then on.
Fought(E, n, s, t) ==
    /\ (\A f \in E : f.type = "claim.confirmed" /\ f.task = t => n < f.id)
          => Contested(s, t)
    /\ \A e \in E :
          /\ e.type = "claim.confirmed" /\ e.task = t /\ e.id <= n
          /\ \A f \in E :
                f.type = "claim.confirmed" /\ f.task = t => e.id <= f.id
          => Crowned(E, e, n, s)

LEMMA CrownedLater ==
    ASSUME NEW E, AreEvents(E), NEW n \in Nat, NEW s, NEW e \in E,
           Crowned(E, e, n - 1, s)
    PROVE  Crowned(E, e, n, s)
<1>1. \A x \in E : x.id \in Nat
  BY DEF AreEvents, IsEvent, Ids
<1>2. OverBy(E, e, n - 1) => OverBy(E, e, n)
  <2> SUFFICES ASSUME NEW x \in E, x.id \in e.claim .. n - 1
               PROVE  x.id \in e.claim .. n
    BY DEF OverBy
  <2> QED BY <1>1
<1> QED BY <1>2 DEF Crowned

LEMMA FoughtTurn ==
    ASSUME NEW E, Sound(E), NEW n \in Nat \ {0}, NEW s, FoldInv(E, n - 1, s),
           ~ s.error, NEW lv, NEW t \in Tasks, Orderly(E, lv, t),
           \A e, p \in E : e.type = "claim.confirmed" /\ p.id = e.claim =>
              p.actor = e.actor,
           Fought(E, n - 1, s, t)
    PROVE  Fought(E, n, Turn(E, lv, s, n), t)
<1> DEFINE now == {e \in E : e.id = n}
           m == Turn(E, lv, s, n)
<1>1. /\ \A f \in E : f.id \in Nat
      /\ \A f \in E : n < f.id => n - 1 < f.id
      /\ \A f \in E : f.id <= n /\ f.id # n => f.id <= n - 1
      /\ \A f \in E : f.id = n => n - 1 < f.id
      /\ AreEvents(E)
  BY DEF Sound, AreEvents, IsEvent, Ids
<1>2. CASE now = {}
  <2>1. m = s
    BY <1>2 DEF Turn
  <2>2. \A f \in E : f.id # n
    BY <1>2
  <2>3. ASSUME \A f \in E :
                  f.type = "claim.confirmed" /\ f.task = t => n < f.id
        PROVE  Contested(s, t)
    BY <1>1, <2>3 DEF Fought
  <2>4. ASSUME NEW e \in E, e.type = "claim.confirmed", e.task = t, e.id <= n,
               \A f \in E :
                  f.type = "claim.confirmed" /\ f.task = t => e.id <= f.id
        PROVE  Crowned(E, e, n, s)
    <3>1. Crowned(E, e, n - 1, s)
      BY <1>1, <2>2, <2>4 DEF Fought
    <3> QED BY <1>1, <3>1, CrownedLater
  <2> QED BY <2>1, <2>3, <2>4 DEF Fought
<1>3. CASE now # {}
  <2> DEFINE x == CHOOSE e \in now : TRUE
  <2>1. x \in E /\ x.id = n
    BY <1>3
  <2>2. m = Apply(s, lv, x)
    BY <1>3 DEF Turn
  <2> HIDE DEF x, m, now
  <2>3. ASSUME \A f \in E :
                  f.type = "claim.confirmed" /\ f.task = t => n < f.id
        PROVE  Contested(m, t)
    <3>1. Contested(s, t)
      BY <1>1, <2>3 DEF Fought
    <3> QED BY <2>1, <2>2, <2>3, <3>1, ContestTurn
  <2>4. ASSUME NEW e \in E, e.type = "claim.confirmed", e.task = t, e.id <= n,
               \A f \in E :
                  f.type = "claim.confirmed" /\ f.task = t => e.id <= f.id
        PROVE  Crowned(E, e, n, m)
    <3>1. CASE e.id = n
      <4>1. \A f \in E :
               f.type = "claim.confirmed" /\ f.task = t => n - 1 < f.id
        BY <1>1, <2>4, <3>1
      <4>2. Contested(s, t)
        BY <4>1 DEF Fought
      <4>3. e = x
        BY <1>1, <2>1, <3>1 DEF AreEvents
      <4> QED BY <2>1, <2>2, <2>4, <4>2, <4>3, CrownTurn
    <3>2. CASE e.id # n
      <4>1. Crowned(E, e, n - 1, s)
        BY <1>1, <2>4, <3>2 DEF Fought
      <4> QED BY <2>1, <2>2, <2>4, <4>1, CrownedTurn
    <3> QED BY <3>1, <3>2
  <2> QED BY <2>3, <2>4 DEF Fought, m
<1> QED BY <1>2, <1>3

\* All along any orderly ledger, and after it.
LEMMA StatesFought ==
    ASSUME NEW E, Sound(E), NEW lv, NEW t \in Tasks, Orderly(E, lv, t),
           \A e, p \in E : e.type = "claim.confirmed" /\ p.id = e.claim =>
              p.actor = e.actor
    PROVE  \A n \in 0 .. MaxId : Fought(E, n, States(E, lv)[n], t)
<1> DEFINE f == States(E, lv)
           Bad == {n \in 0 .. MaxId : ~ Fought(E, n, f[n], t)}
<1>1. \A n \in 0 .. MaxId : f[n] = After(E, lv, f, n)
  <2>1. AreStates(f, E, lv)
    BY StatesExist
  <2> HIDE DEF f
  <2> QED BY <2>1 DEF AreStates
<1>2. \A n \in 0 .. MaxId : FoldInv(E, n, f[n]) /\ ~ f[n].error
  BY StatesKeep, StatesSound DEF Sound
<1> HIDE DEF f
<1>3. Fought(E, 0, InitState, t)
  <2>1. ClaimsOf(InitState, t) = {}
    BY DEF ClaimsOf, InitState, Empty
  <2>2. \A e \in E : ~ (e.id <= 0)
    BY DEF Sound, AreEvents, IsEvent, Ids
  <2> QED BY <2>1, <2>2 DEF Fought, Contested
<1>4. Bad = {}
  <2> SUFFICES ASSUME Bad # {}
               PROVE  FALSE
    OBVIOUS
  <2>1. Bad \in SUBSET Nat
    BY ReplayAssumption
  <2>2. PICK k \in Bad : \A j \in Bad : k <= j
    <3> HIDE DEF Bad
    <3> QED BY <2>1, LeastOf
  <2>3. k \in 0 .. MaxId /\ MaxId \in Nat /\ ~ Fought(E, k, f[k], t)
    BY ReplayAssumption
  <2>4. CASE k = 0
    BY <1>1, <1>3, <2>3, <2>4 DEF After
  <2>5. CASE k # 0
    <3>1. k \in Nat \ {0} /\ k - 1 \in 0 .. MaxId /\ k - 1 < k
      BY <2>3, <2>5
    <3>2. k - 1 \notin Bad
      <4> HIDE DEF Bad
      <4> QED BY <2>2, <2>3, <3>1
    <3>3. Fought(E, k - 1, f[k - 1], t)
      BY <3>1, <3>2
    <3>4. FoldInv(E, k - 1, f[k - 1]) /\ ~ f[k - 1].error
      BY <1>2, <3>1
    <3>5. Fought(E, k, Turn(E, lv, f[k - 1], k), t)
      BY <3>1, <3>3, <3>4, FoughtTurn
    <3> QED BY <1>1, <2>3, <2>5, <3>5 DEF After
  <2> QED BY <2>4, <2>5
<1> QED BY <1>4 DEF f

LEMMA FoldFought ==
    ASSUME NEW E, Sound(E), NEW lv, NEW t \in Tasks, Orderly(E, lv, t),
           \A e, p \in E : e.type = "claim.confirmed" /\ p.id = e.claim =>
              p.actor = e.actor
    PROVE  Fought(E, MaxId, Fold(E, lv), t)
<1>1. \A n \in 0 .. MaxId : Fought(E, n, States(E, lv)[n], t)
  BY StatesFought
<1>2. MaxId \in 0 .. MaxId
  BY ReplayAssumption
<1> QED BY <1>1, <1>2, FoldIsLastState

-----------------------------------------------------------------------------
(***************************************************************************)
(* A reign: a claim that holds its task until its actor reports it done.   *)
(***************************************************************************)
TaskDone(s, t) == t \in DOMAIN s.tasks /\ s.tasks[t].status = "done"

\* x ends an attempt of actor a at task t.
EndsOf(x, a, t) == IsEnd(x) /\ x.task = t /\ x.actor = a

\* Claim c, of actor a on task t, cannot be given up, lapse or be taken back
\* after k: its actor ends its attempts with done runs after k, no claim finds
\* its lease lapsed, and nobody edits the task.
Champion(E, lv, c, a, t, k) ==
    /\ \A x \in E : EndsOf(x, a, t) =>
          x.type = "run.finished" /\ x.outcome = "done" /\ k < x.id
    /\ \A x \in E : x.type = "task.updated" => x.task # t
    /\ \A q \in E : IsClaim(q, t) /\ c < q.id =>
          ~ LeaseExpiredBy(lv, c, IDTime(q.id))

\* Claim c of actor a holds task t, and nothing can take it over, or a
\* reported it done.
Reign(E, c, a, t, n, s) ==
    /\ c \in ClaimsOf(s, t)
    /\ s.claims[c].actor = a
    /\ \/ /\ s.holder[t] = c
          /\ \/ s.claims[c].confirmation # None
             \/ \A f \in E : f.type = "claim.confirmed" => f.task # t
          /\ \A x \in E : EndsOf(x, a, t) => n < x.id
       \/ /\ s.claims[c].status = "finished"
          /\ TaskDone(s, t)
          /\ \E x \in E : EndsOf(x, a, t) /\ x.id <= n

\* No event but an update takes a task back from done.
LEMMA StaysDone ==
    ASSUME NEW E, Sound(E), NEW n \in Nat, NEW s, FoldInv(E, n - 1, s),
           NEW e \in E, e.id = n, ~ s.error, NEW lv, NEW t,
           TaskDone(s, t), e.type = "task.updated" => e.task # t
    PROVE  TaskDone(Apply(s, lv, e), t)
<1>1. IsState(s) /\ IsEvent(e) /\ e.task \in Tasks
  BY DEF FoldInv, Sound, AreEvents, IsEvent
<1>2. /\ e.type \in {"claim.made", "run.finished"} => e.task \in DOMAIN s.tasks
      /\ e.type = "claim.confirmed" => e.claim \in ClaimsOf(s, e.task)
  BY FindsItsOwn
<1>3. \A m : m.tasks = s.tasks => TaskDone(m, t)
  BY DEF TaskDone
<1>4. CASE e.type = "task.created"
  <2>1. TaskCreated(s, e).tasks = s.tasks
        \/ /\ e.task \notin DOMAIN s.tasks
           /\ DOMAIN TaskCreated(s, e).tasks = DOMAIN s.tasks \cup {e.task}
           /\ \A u \in DOMAIN s.tasks :
                 u # e.task => TaskCreated(s, e).tasks[u] = s.tasks[u]
    BY <1>1 DEF TaskCreated, Malformed, IsState, Put
  <2> QED BY <1>3, <1>4, <2>1 DEF Apply, TaskDone
<1>5. CASE e.type = "task.updated"
  <2>1. TaskUpdated(s, e).tasks = s.tasks
        \/ /\ e.task \in DOMAIN s.tasks
           /\ \E r : TaskUpdated(s, e).tasks = [s.tasks EXCEPT ![e.task] = r]
    BY <1>1 DEF TaskUpdated, Malformed, IsState
  <2>2. e.task # t
    BY <1>5
  <2>3. ASSUME NEW r, TaskUpdated(s, e).tasks = [s.tasks EXCEPT ![e.task] = r]
        PROVE  TaskDone(TaskUpdated(s, e), t)
    BY <2>2, <2>3 DEF TaskDone
  <2> QED BY <1>3, <1>5, <2>1, <2>3 DEF Apply
<1>6. CASE e.type = "escalation.raised"
  <2>1. EscalationRaised(s, e).tasks = s.tasks
    BY <1>1 DEF EscalationRaised, Malformed, IsState
  <2> QED BY <1>3, <1>6, <2>1 DEF Apply
<1>7. CASE e.type = "escalation.answered"
  <2>1. EscalationAnswered(s, e).tasks = s.tasks
    BY <1>1 DEF EscalationAnswered, Malformed, IsState
  <2> QED BY <1>3, <1>7, <2>1 DEF Apply
<1>8. CASE e.type = "claim.made"
  <2>1. ClaimMade(s, lv, e).tasks = s.tasks
    BY <1>1 DEF ClaimMade, Malformed, IsState
  <2> QED BY <1>3, <1>8, <2>1 DEF Apply
<1>9. CASE e.type = "claim.confirmed"
  <2>1. ClaimConfirmed(s, e).tasks = s.tasks
    BY <1>1 DEF ClaimConfirmed, Confirm, Malformed, IsState
  <2> QED BY <1>3, <1>9, <2>1 DEF Apply
<1>10. CASE e.type = "claim.released"
  <2>1. ClaimReleased(s, e).tasks = s.tasks
    BY <1>1 DEF ClaimReleased, IsState
  <2> QED BY <1>3, <1>10, <2>1 DEF Apply
<1>11. CASE e.type = "run.finished"
  <2> DEFINE m == RunFinished(s, e)
             u == e.task
             k == [s.tasks[u] EXCEPT !.status = "done",
                      !.closed = ClosedAfter(s.tasks[u], "done", e.id)]
  <2>1. \/ m.tasks = s.tasks
        \/ u \in DOMAIN s.tasks /\ m.tasks = [s.tasks EXCEPT ![u] = s.tasks[u]]
        \/ u \in DOMAIN s.tasks /\ m.tasks = [s.tasks EXCEPT ![u] = k]
    BY <1>1 DEF RunFinished, Malformed, IsState
  <2>2. u \in DOMAIN s.tasks => k.status = "done"
    BY <1>1 DEF IsState, IsMap, TaskRecord
  <2>3. DOMAIN m.tasks = DOMAIN s.tasks
    BY <2>1
  <2>4. \A v \in DOMAIN s.tasks :
           m.tasks[v] = s.tasks[v] \/ m.tasks[v].status = "done"
    <3> HIDE DEF m, k
    <3> QED BY <2>1, <2>2
  <2> HIDE DEF m
  <2>5. TaskDone(m, t)
    BY <2>3, <2>4 DEF TaskDone
  <2> QED BY <1>11, <2>5 DEF Apply, m
<1> QED BY <1>1, <1>4, <1>5, <1>6, <1>7, <1>8, <1>9, <1>10, <1>11 DEF IsEvent

\* What a done run of the holder leaves.
LEMMA DoneRunEnds ==
    ASSUME NEW s, IsState(s), NEW e, e.task \in DOMAIN s.tasks,
           e.outcome = "done", HeldBy(s, e.task, e.actor),
           s.holder[e.task] \in DOMAIN s.claims
    PROVE  LET m == RunFinished(s, e)
           IN  /\ TaskDone(m, e.task)
               /\ m.claims[s.holder[e.task]].status = "finished"
<1> DEFINE u == e.task
           h == s.holder[u]
           k == [s.tasks[u] EXCEPT !.status = "done",
                    !.closed = ClosedAfter(s.tasks[u], "done", e.id)]
           m == RunFinished(s, e)
<1>1. /\ m.tasks = [s.tasks EXCEPT ![u] = k]
      /\ m.claims = [s.claims EXCEPT ![h].status = "finished"]
  BY DEF RunFinished, IsState
<1>2. k.status = "done"
  BY DEF IsState, IsMap, TaskRecord
<1>3. s.claims[h] \in ClaimRecord
  BY DEF IsState, IsMap
<1>4. m.claims[h].status = "finished"
  BY <1>1, <1>3 DEF ClaimRecord
<1> HIDE DEF k, m
<1>5. TaskDone(m, u)
  BY <1>1, <1>2 DEF TaskDone
<1> QED BY <1>4, <1>5 DEF m

\* An ending by anybody but the holder's actor changes no claim.
LEMMA EndOfOther ==
    ASSUME NEW s, IsState(s), NEW e, ~ HeldBy(s, e.task, e.actor),
           NEW m, \/ m = ClaimReleased(s, e)
                  \/ m = RunFinished(s, e) /\ e.task \in DOMAIN s.tasks
    PROVE  m.claims = s.claims /\ m.holder = s.holder
BY DEF ClaimReleased, RunFinished, IsState

\* An ending voids no claim.
LEMMA EndVoidsNone ==
    ASSUME NEW s, IsState(s), NEW e,
           NEW m, \/ m = ClaimReleased(s, e)
                  \/ m = RunFinished(s, e) /\ e.task \in DOMAIN s.tasks
    PROVE  \A d \in DOMAIN s.claims :
              m.claims[d].status = "voided" => s.claims[d].status = "voided"
<1> DEFINE h == s.holder[e.task]
<1>1. \A d \in DOMAIN s.claims : s.claims[d] \in ClaimRecord
  BY DEF IsState, IsMap
<1>2. \/ m.claims = s.claims
      \/ m.claims = [s.claims EXCEPT ![h].status = "released"]
      \/ m.claims = [s.claims EXCEPT ![h].status = "finished"]
  BY DEF ClaimReleased, RunFinished, IsState
<1> HIDE DEF h
<1> QED BY <1>1, <1>2 DEF ClaimRecord

\* Whoever reigns does so after the next event too.
LEMMA ReignTurn ==
    ASSUME NEW E, Sound(E), NEW n \in Nat, NEW s, FoldInv(E, n - 1, s),
           NEW e \in E, e.id = n, ~ s.error, NEW lv, NEW t \in Tasks,
           NEW c, NEW a, NEW k, Champion(E, lv, c, a, t, k),
           Reign(E, c, a, t, n - 1, s)
    PROVE  Reign(E, c, a, t, n, Apply(s, lv, e))
<1> DEFINE m == Apply(s, lv, e)
           h == s.holder[t]
           Free == \/ s.claims[c].confirmation # None
                   \/ \A f \in E : f.type = "claim.confirmed" => f.task # t
           Quiet(i) == \A x \in E : EndsOf(x, a, t) => i < x.id
           Over(i) == \E x \in E : EndsOf(x, a, t) /\ x.id <= i
<1>1. /\ IsState(s) /\ IsEvent(e) /\ Holds(s)
      /\ e.type \in {"claim.made", "run.finished"} => e.task \in DOMAIN s.tasks
      /\ e.type = "claim.confirmed" => e.claim \in ClaimsOf(s, e.task)
      /\ n \notin DOMAIN s.claims
      /\ h # None => h \in ClaimsOf(s, t)
      /\ e.task \in Tasks
  <2>1. IsState(s) /\ Holds(s) /\ IsEvent(e)
    BY DEF FoldInv, Sound, AreEvents
  <2>2. e.task \in Tasks
    BY <2>1 DEF IsEvent
  <2> QED BY <2>1, <2>2, FindsItsOwn
<1>2. /\ c \in ClaimsOf(s, t) /\ c # None /\ c \in Nat /\ c < n /\ c # n
      /\ s.claims[c].actor = a
      /\ c \in DOMAIN s.claims /\ s.claims[c].task = t
  <2>1. c \in ClaimsOf(s, t) /\ s.claims[c].actor = a
    BY DEF Reign
  <2>2. c \in DOMAIN s.claims /\ s.claims[c].task = t
    BY <2>1 DEF ClaimsOf
  <2>3. c \in Ids /\ c < n /\ c # None
    BY <2>2, FindsItsOwn
  <2> QED BY <2>1, <2>2, <2>3 DEF Ids
<1>3. \/ h = c /\ Free /\ Quiet(n - 1)
      \/ s.claims[c].status = "finished" /\ TaskDone(s, t) /\ Over(n - 1)
  BY DEF Reign
<1>4. /\ \A x \in E : x.id \in Nat /\ x.id # None
      /\ \A x, y \in E : x.id = y.id => x = y
      /\ Over(n - 1) => Over(n)
      /\ Quiet(n - 1) /\ ~ EndsOf(e, a, t) => Quiet(n)
  <2>1. \A x \in E : x.id \in Nat /\ x.id # None
    BY DEF Sound, AreEvents, IsEvent, Ids, None
  <2>2. \A x, y \in E : x.id = y.id => x = y
    BY DEF Sound, AreEvents
  <2>3. Over(n - 1) => Over(n)
    BY <2>1
  <2>4. ASSUME Quiet(n - 1), ~ EndsOf(e, a, t), NEW x \in E, EndsOf(x, a, t)
        PROVE  n < x.id
    <3>1. n - 1 < x.id /\ x # e /\ x.id \in Nat
      BY <2>1, <2>4
    <3>2. x.id # n
      BY <2>2, <3>1
    <3> QED BY <3>1, <3>2
  <2> QED BY <2>1, <2>2, <2>3, <2>4
<1>5. s.claims[c].status = "finished" => h # c
  <2>1. s.holder[t] = c => s.claims[c].status = "active"
    BY <1>1, <1>2 DEF Holds
  <2> QED BY <2>1
<1>6. TaskDone(s, t) => TaskDone(m, t)
  <2>1. e.type = "task.updated" => e.task # t
    BY DEF Champion
  <2> QED BY <2>1, StaysDone
<1>7. h = c => s.claims[c].status = "active"
  BY <1>1, <1>2 DEF Holds
<1> HIDE DEF m, h
<1>8. ASSUME c \in ClaimsOf(m, t), m.claims[c] = s.claims[c],
             h = c /\ Free => m.holder[t] = c, ~ EndsOf(e, a, t)
      PROVE  Reign(E, c, a, t, n, m)
  <2>1. CASE h = c /\ Free /\ Quiet(n - 1)
    <3>1. Quiet(n) /\ m.holder[t] = c
      BY <1>4, <1>8, <2>1
    <3> QED BY <1>2, <1>8, <2>1, <3>1 DEF Reign
  <2>2. CASE s.claims[c].status = "finished" /\ TaskDone(s, t) /\ Over(n - 1)
    <3>1. TaskDone(m, t) /\ Over(n)
      BY <1>4, <1>6, <2>2
    <3> QED BY <1>2, <1>8, <2>2, <3>1 DEF Reign
  <2> QED BY <1>3, <2>1, <2>2
<1>9. CASE e.task = t /\ e.type = "claim.made"
  <2>1. m = ClaimMade(s, lv, e)
    BY <1>9 DEF Apply, m
  <2>2. /\ ClaimsOf(m, t) = ClaimsOf(s, t) \cup {n}
        /\ \A d \in ClaimsOf(s, t) : d # h => m.claims[d] = s.claims[d]
        /\ \/ h = None \/ LeaseExpiredBy(lv, h, IDTime(n))
           \/ m.holder[t] = h /\ m.claims[h] = s.claims[h]
    BY <1>1, <1>9, <2>1, ClaimMadeRecords DEF h
  <2>3. ~ LeaseExpiredBy(lv, c, IDTime(n))
    BY <1>2, <1>9 DEF Champion, IsClaim
  <2>4. m.claims[c] = s.claims[c] /\ (h = c => m.holder[t] = c)
    BY <1>2, <2>2, <2>3
  <2>5. ~ EndsOf(e, a, t)
    BY <1>9 DEF EndsOf, IsEnd
  <2> QED BY <1>2, <1>8, <2>2, <2>4, <2>5 DEF m
<1>10. CASE e.task = t /\ e.type = "claim.confirmed"
  <2>1. m = ClaimConfirmed(s, e) /\ e.claim \in ClaimsOf(s, t)
    BY <1>1, <1>10 DEF Apply, m
  <2>2. /\ ClaimsOf(m, t) = ClaimsOf(s, t)
        /\ \A d \in ClaimsOf(s, t) :
              d \notin {h, e.claim} => m.claims[d] = s.claims[d]
        /\ \/ h = e.claim /\ s.claims[h].confirmation = None
           \/ /\ h # e.claim /\ h # None
              /\ s.claims[h].confirmation = None
              /\ s.claims[e.claim].status = "voided"
           \/ m = s
    BY <1>1, <1>10, <2>1, ClaimConfirmedRecords DEF h
  <2>3. Free => s.claims[c].confirmation # None
    BY <1>10
  <2>4. m.claims[c] = s.claims[c] /\ (h = c /\ Free => m.holder[t] = c)
    <3>1. CASE m = s
      BY <3>1 DEF h
    <3>2. CASE m # s /\ h = c /\ Free /\ Quiet(n - 1)
      BY <2>2, <2>3, <3>2
    <3>3. CASE m # s /\ s.claims[c].status = "finished"
      <4>1. h # c /\ e.claim # c
        BY <1>1, <1>2, <1>5, <2>2, <3>3
      <4> QED BY <1>2, <2>2, <4>1
    <3> QED BY <1>3, <3>1, <3>2, <3>3
  <2>5. ~ EndsOf(e, a, t)
    BY <1>10 DEF EndsOf, IsEnd
  <2> QED BY <1>2, <1>8, <2>2, <2>4, <2>5 DEF m
<1>11. CASE e.task = t /\ IsEnd(e)
  <2>1. \/ m = ClaimReleased(s, e)
        \/ m = RunFinished(s, e) /\ e.task \in DOMAIN s.tasks
    BY <1>1, <1>11 DEF Apply, m, IsEnd
  <2>2. /\ ClaimsOf(m, t) = ClaimsOf(s, t)
        /\ \/ m.claims = s.claims /\ m.holder = s.holder
           \/ /\ h # None /\ s.claims[h].actor = e.actor
              /\ \A d \in ClaimsOf(s, t) :
                    /\ d # h => m.claims[d] = s.claims[d]
                    /\ m.claims[d].actor = s.claims[d].actor
    BY <1>1, <1>11, <2>1, EndRecords DEF h
  <2>3. CASE h = c /\ Free /\ Quiet(n - 1)
    <3>1. CASE e.actor = a
      <4>1. EndsOf(e, a, t)
        BY <1>11, <3>1 DEF EndsOf
      <4>2. e.type = "run.finished" /\ e.outcome = "done"
        BY <4>1 DEF Champion
      <4>3. HeldBy(s, e.task, e.actor)
        BY <1>2, <1>7, <1>11, <2>3, <3>1 DEF HeldBy, h
      <4>4. m = RunFinished(s, e) /\ e.task \in DOMAIN s.tasks
        BY <1>1, <4>2 DEF Apply, m
      <4>5. TaskDone(m, t) /\ m.claims[c].status = "finished"
        BY <1>1, <1>2, <1>11, <2>3, <4>2, <4>3, <4>4, DoneRunEnds DEF h
      <4>6. m.claims[c].actor = a
        BY <1>2, <2>2
      <4>7. Over(n)
        BY <4>1, <1>4
      <4> QED BY <1>2, <2>2, <4>5, <4>6, <4>7 DEF Reign, m
    <3>2. CASE e.actor # a
      <4>1. ~ HeldBy(s, e.task, e.actor) /\ ~ EndsOf(e, a, t)
        BY <1>2, <1>11, <2>3, <3>2 DEF HeldBy, h, EndsOf
      <4>2. m.claims = s.claims /\ m.holder = s.holder
        BY <1>1, <2>1, <4>1, EndOfOther
      <4> QED BY <1>2, <1>8, <2>2, <2>3, <4>1, <4>2 DEF m, h
    <3> QED BY <3>1, <3>2
  <2>4. CASE s.claims[c].status = "finished" /\ TaskDone(s, t) /\ Over(n - 1)
    <3>1. m.claims[c] = s.claims[c]
      BY <1>2, <1>5, <2>2, <2>4
    <3>2. TaskDone(m, t) /\ Over(n)
      BY <1>4, <1>6, <2>4
    <3> QED BY <1>2, <2>2, <2>4, <3>1, <3>2 DEF Reign, m
  <2> QED BY <1>3, <2>3, <2>4
<1>12. CASE e.task # t \/ e.type \in {"task.created", "task.updated",
                       "escalation.raised", "escalation.answered"}
  <2>1. Alike(s, m, t)
    BY <1>12, OthersAlike DEF m
  <2>2. ~ EndsOf(e, a, t)
    BY <1>12 DEF EndsOf, IsEnd
  <2> QED BY <1>2, <1>8, <2>1, <2>2 DEF Alike, h, m
<1> QED BY <1>1, <1>9, <1>10, <1>11, <1>12 DEF IsEvent, IsEnd, m

\* The states along the ledger, one turn after the other.
LEMMA StatesTurn ==
    ASSUME NEW E, Sound(E), NEW lv, NEW n \in 0 .. MaxId
    PROVE  LET f == States(E, lv)
           IN  /\ FoldInv(E, n, f[n]) /\ ~ f[n].error
               /\ n = 0 => f[n] = InitState
               /\ n # 0 => /\ n - 1 \in 0 .. MaxId
                           /\ FoldInv(E, n - 1, f[n - 1])
                           /\ ~ f[n - 1].error
                           /\ f[n] = Turn(E, lv, f[n - 1], n)
<1> DEFINE f == States(E, lv)
<1>1. f[n] = After(E, lv, f, n)
  <2>1. AreStates(f, E, lv)
    BY StatesExist
  <2> HIDE DEF f
  <2> QED BY <2>1 DEF AreStates
<1>2. \A i \in 0 .. MaxId : FoldInv(E, i, f[i]) /\ ~ f[i].error
  BY StatesKeep, StatesSound DEF Sound
<1> HIDE DEF f
<1>3. n # 0 => n - 1 \in 0 .. MaxId
  BY ReplayAssumption
<1>4. n = 0 => f[n] = InitState
  BY <1>1 DEF After
<1>5. n # 0 => f[n] = Turn(E, lv, f[n - 1], n)
  BY <1>1 DEF After
<1> QED BY <1>2, <1>3, <1>4, <1>5 DEF f

\* A turn takes an event of its id, or nothing.
LEMMA TurnCases ==
    ASSUME NEW E, NEW lv, NEW s, NEW n, ~ s.error
    PROVE  \/ (\A e \in E : e.id # n) /\ Turn(E, lv, s, n) = s
           \/ \E e \in E : e.id = n /\ Turn(E, lv, s, n) = Apply(s, lv, e)
<1> DEFINE now == {e \in E : e.id = n}
<1>1. CASE now = {}
  BY <1>1 DEF Turn
<1>2. CASE now # {}
  <2> DEFINE x == CHOOSE e \in now : TRUE
  <2>1. x \in now
    BY <1>2
  <2>2. Turn(E, lv, s, n) = Apply(s, lv, x)
    BY <1>2 DEF Turn
  <2> HIDE DEF x
  <2> QED BY <2>1, <2>2
<1> QED BY <1>1, <1>2

LEMMA ReignLater ==
    ASSUME NEW E, Sound(E), NEW n \in Nat, NEW s, NEW c, NEW a, NEW t,
           Reign(E, c, a, t, n - 1, s), \A e \in E : e.id # n
    PROVE  Reign(E, c, a, t, n, s)
<1>1. \A e \in E : e.id \in Nat
  BY DEF Sound, AreEvents, IsEvent, Ids
<1>2. \A x \in E : n - 1 < x.id => n < x.id
  BY <1>1
<1>3. \A x \in E : x.id <= n - 1 => x.id <= n
  BY <1>1
<1> QED BY <1>2, <1>3 DEF Reign

\* Who reigns once reigns for good.
LEMMA ReignLasts ==
    ASSUME NEW E, Sound(E), NEW lv, NEW t \in Tasks, NEW c, NEW a, NEW b,
           Champion(E, lv, c, a, t, b), NEW k \in 0 .. MaxId,
           Reign(E, c, a, t, k, States(E, lv)[k])
    PROVE  \A n \in k .. MaxId : Reign(E, c, a, t, n, States(E, lv)[n])
<1> DEFINE f == States(E, lv)
           Bad == {n \in k .. MaxId : ~ Reign(E, c, a, t, n, f[n])}
<1>1. \A n \in 0 .. MaxId :
         n # 0 => /\ FoldInv(E, n - 1, f[n - 1]) /\ ~ f[n - 1].error
                  /\ f[n] = Turn(E, lv, f[n - 1], n)
  BY StatesTurn
<1> HIDE DEF f
<1>2. Bad = {}
  <2> SUFFICES ASSUME Bad # {}
               PROVE  FALSE
    OBVIOUS
  <2>1. Bad \in SUBSET Nat
    BY ReplayAssumption
  <2>2. PICK i \in Bad : \A j \in Bad : i <= j
    <3> HIDE DEF Bad
    <3> QED BY <2>1, LeastOf
  <2>3. i \in k .. MaxId /\ MaxId \in Nat /\ ~ Reign(E, c, a, t, i, f[i])
    BY ReplayAssumption
  <2>4. i # k
    BY <2>3 DEF f
  <2>5. /\ i - 1 \in k .. MaxId /\ i - 1 < i /\ i # 0
        /\ i \in 0 .. MaxId /\ i \in Nat
    BY <2>3, <2>4
  <2>6. Reign(E, c, a, t, i - 1, f[i - 1])
    <3>1. i - 1 \notin Bad
      <4> HIDE DEF Bad
      <4> QED BY <2>2, <2>3, <2>5
    <3> QED BY <2>5, <3>1
  <2>7. /\ FoldInv(E, i - 1, f[i - 1]) /\ ~ f[i - 1].error
        /\ f[i] = Turn(E, lv, f[i - 1], i)
    BY <1>1, <2>5
  <2>8. CASE \A e \in E : e.id # i
    <3>1. f[i] = f[i - 1]
      BY <2>7, <2>8, TurnCases
    <3> QED BY <2>3, <2>5, <2>6, <2>8, <3>1, ReignLater
  <2>9. ASSUME NEW e \in E, e.id = i, f[i] = Apply(f[i - 1], lv, e)
        PROVE  FALSE
    BY <2>3, <2>5, <2>6, <2>7, <2>9, ReignTurn
  <2> QED BY <2>7, <2>8, <2>9, TurnCases
<1> QED BY <1>2 DEF f

\* The first confirmed claim of a task reigns.
LEMMA CrownedReigns ==
    ASSUME NEW E, Sound(E), NEW lv, NEW d \in E, d.type = "claim.confirmed",
           \A f \in E : f.type = "claim.confirmed" /\ f.task = d.task =>
              d.id <= f.id,
           Orderly(E, lv, d.task),
           \A e, p \in E : e.type = "claim.confirmed" /\ p.id = e.claim =>
              p.actor = e.actor,
           Champion(E, lv, d.claim, d.actor, d.task, d.id)
    PROVE  \A n \in d.id .. MaxId :
              Reign(E, d.claim, d.actor, d.task, n, States(E, lv)[n])
<1> DEFINE s == States(E, lv)[d.id]
           t == d.task
<1>1. /\ d.id \in Ids /\ d.id \in 0 .. MaxId /\ t \in Tasks /\ d.id \in Nat
      /\ d.id # None /\ \A x \in E : x.id \in Nat
  BY ReplayAssumption DEF Sound, AreEvents, IsEvent, Ids, None
<1>2. Fought(E, d.id, s, t)
  <2> HIDE DEF s
  <2> QED BY <1>1, StatesFought DEF s
<1> HIDE DEF s
<1>3. Crowned(E, d, d.id, s)
  BY <1>1, <1>2 DEF Fought
<1>4. ~ OverBy(E, d, d.id)
  <2>1. \A x \in E : EndsOf(x, d.actor, t) => d.id < x.id
    BY DEF Champion
  <2> QED BY <1>1, <2>1 DEF OverBy, EndsOf
<1>5. Reign(E, d.claim, d.actor, t, d.id, s)
  <2>1. \A x \in E : EndsOf(x, d.actor, t) => d.id < x.id
    BY DEF Champion
  <2> QED BY <1>1, <1>3, <1>4, <2>1 DEF Crowned, Reign
<1> QED BY <1>1, <1>5, ReignLasts DEF s

\* The earliest claim of a task that nobody confirmed reigns.
LEMMA EarliestReigns ==
    ASSUME NEW E, Sound(E), NEW lv, NEW t \in Tasks,
           NEW q \in E, IsClaim(q, t),
           \A p \in E : IsClaim(p, t) => q.id <= p.id,
           \A f \in E : f.type = "claim.confirmed" => f.task # t,
           Champion(E, lv, q.id, q.actor, t, q.id)
    PROVE  \A n \in q.id .. MaxId :
              Reign(E, q.id, q.actor, t, n, States(E, lv)[n])
<1> DEFINE n == q.id
           s == States(E, lv)[n - 1]
           m == States(E, lv)[n]
<1>1. /\ n \in Ids /\ n \in 0 .. MaxId /\ n \in Nat /\ n # 0 /\ IsEvent(q)
      /\ \A x \in E : x.id \in Nat
      /\ \A x, y \in E : x.id = y.id => x = y
  BY ReplayAssumption DEF Sound, AreEvents, IsEvent, Ids
<1>2. FoldInv(E, n - 1, s) /\ ~ s.error /\ m = Turn(E, lv, s, n)
  BY <1>1, StatesTurn
<1> HIDE DEF s, m
<1>3. m = Apply(s, lv, q)
  BY <1>1, <1>2, TurnCases
<1>4. m = ClaimMade(s, lv, q) /\ q.task = t
  BY <1>3 DEF Apply, IsClaim
<1>5. /\ IsState(s) /\ q.task \in DOMAIN s.tasks /\ n \notin DOMAIN s.claims
      /\ s.holder[t] # None => s.holder[t] \in ClaimsOf(s, t)
      /\ \A c \in ClaimsOf(s, t) :
            c < n /\ \E p \in E : IsClaim(p, t) /\ p.id = c
  <2>1. IsState(s)
    BY <1>2 DEF FoldInv
  <2>2. q.type = "claim.made" /\ q.task = t
    BY DEF IsClaim
  <2>3. q.task \in DOMAIN s.tasks /\ n \notin DOMAIN s.claims
    BY <1>1, <1>2, <2>2, FindsItsOwn
  <2>4. s.holder[t] # None => s.holder[t] \in ClaimsOf(s, t)
    BY <1>1, <1>2, FindsItsOwn
  <2>5. \A c \in DOMAIN s.claims : c < n
    BY <1>1, <1>2, FindsItsOwn
  <2>6. \A c \in ClaimsOf(s, t) : \E p \in E : IsClaim(p, t) /\ p.id = c
    BY <1>1, <1>2, FindsItsOwn
  <2> QED BY <2>1, <2>3, <2>4, <2>5, <2>6 DEF ClaimsOf
<1>6. s.holder[t] = None
  BY <1>1, <1>5
<1>7. m.claims = Put(s.claims, n, NewClaim(q, "active")) /\ m.holder[t] = n
  <2>1. /\ m.claims = Put(s.claims, n, NewClaim(q, "active"))
        /\ m.holder = [s.holder EXCEPT ![t] = n]
    BY <1>4, <1>5, <1>6, ClaimMadeMoves
  <2>2. t \in DOMAIN s.holder
    BY <1>5 DEF IsState
  <2> QED BY <2>1, <2>2
<1>8. n \in ClaimsOf(m, t) /\ m.claims[n].actor = q.actor
  BY <1>4, <1>7 DEF ClaimsOf, Put, NewClaim
<1>9. \A x \in E : EndsOf(x, q.actor, t) => n < x.id
  BY DEF Champion
<1>10. Reign(E, n, q.actor, t, n, m)
  BY <1>7, <1>8, <1>9 DEF Reign
<1> QED BY <1>1, <1>10, ReignLasts DEF m

\* A claim made after the reign of the only other claim of its task is not
\* voided.
LEMMA HeirTurn ==
    ASSUME NEW E, Sound(E), NEW n \in Nat, NEW s, FoldInv(E, n - 1, s),
           NEW e \in E, e.id = n, ~ s.error, NEW lv, NEW t \in Tasks,
           NEW c, NEW a, NEW y, \A q \in E : IsClaim(q, t) => q.id \in {c, y},
           n - 1 >= y \/ n = y => s.claims[c].status = "finished",
           n - 1 >= y \/ n = y => c \in ClaimsOf(s, t),
           y \in Nat, y \in ClaimsOf(s, t) => s.claims[y].status # "voided"
    PROVE  LET m == Apply(s, lv, e)
           IN  y \in ClaimsOf(m, t) => m.claims[y].status # "voided"
<1> DEFINE m == Apply(s, lv, e)
           h == s.holder[t]
<1>1. /\ IsState(s) /\ IsEvent(e) /\ Holds(s)
      /\ e.type \in {"claim.made", "run.finished"} => e.task \in DOMAIN s.tasks
      /\ e.type = "claim.confirmed" => e.claim \in ClaimsOf(s, e.task)
      /\ n \notin DOMAIN s.claims
      /\ h # None => h \in ClaimsOf(s, t)
      /\ e.task \in Tasks
      /\ \A d \in ClaimsOf(s, t) : d \in {c, y} /\ d < n /\ d # None
  <2>1. IsState(s) /\ Holds(s) /\ IsEvent(e)
    BY DEF FoldInv, Sound, AreEvents
  <2>2. e.task \in Tasks
    BY <2>1 DEF IsEvent
  <2>3. /\ e.type \in {"claim.made", "run.finished"} =>
              e.task \in DOMAIN s.tasks
        /\ e.type = "claim.confirmed" => e.claim \in ClaimsOf(s, e.task)
        /\ n \notin DOMAIN s.claims
        /\ h # None => h \in ClaimsOf(s, t)
    BY FindsItsOwn
  <2>4. \A d \in ClaimsOf(s, t) : \E q \in E : IsClaim(q, t) /\ q.id = d
    BY FindsItsOwn
  <2>5. \A d \in ClaimsOf(s, t) : d < n /\ d # None
    BY FindsItsOwn DEF ClaimsOf
  <2> QED BY <2>1, <2>2, <2>3, <2>4, <2>5
<1>2. y \in ClaimsOf(s, t) => n - 1 >= y
  BY <1>1
<1>3. CASE y \in ClaimsOf(s, t) /\ e.task = t
  <2>1. /\ s.claims[y].status # "voided" /\ s.claims[c].status = "finished"
        /\ c \in ClaimsOf(s, t)
    BY <1>2, <1>3
  <2>2. CASE e.type = "claim.made"
    <3>1. n \in {c, y}
      BY <1>3, <2>2 DEF IsClaim
    <3> QED BY <1>1, <1>3, <2>1, <3>1 DEF ClaimsOf
  <2>3. CASE e.type = "claim.confirmed"
    <3>1. m = ClaimConfirmed(s, e) /\ e.claim \in ClaimsOf(s, t)
      BY <1>1, <1>3, <2>3 DEF Apply
    <3> HIDE DEF m, h
    <3>2. /\ \A d \in ClaimsOf(s, t) :
                d \notin {h, e.claim} => m.claims[d] = s.claims[d]
          /\ \/ h = e.claim /\ m.claims[h].status = s.claims[h].status
             \/ s.claims[e.claim].status = "voided"
             \/ m = s
      BY <1>1, <1>3, <3>1, ClaimConfirmedRecords, SMTT(60) DEF h
    <3>3. s.claims[e.claim].status # "voided"
      BY <1>1, <2>1, <3>1
    <3>4. m.claims[y].status # "voided"
      BY <1>3, <2>1, <3>2, <3>3
    <3> QED BY <3>4 DEF m
  <2>4. CASE IsEnd(e)
    <3>1. \/ m = ClaimReleased(s, e)
          \/ m = RunFinished(s, e) /\ e.task \in DOMAIN s.tasks
      BY <1>1, <2>4 DEF Apply, IsEnd
    <3> HIDE DEF m, h
    <3>2. IsState(s)
      BY <1>1
    <3>3. \A d \in DOMAIN s.claims :
             m.claims[d].status = "voided" => s.claims[d].status = "voided"
      BY <3>1, <3>2, EndVoidsNone
    <3>4. m.claims[y].status # "voided"
      BY <1>3, <2>1, <3>3 DEF ClaimsOf
    <3> QED BY <3>4 DEF m
  <2>5. CASE e.type \in {"task.created", "task.updated",
                         "escalation.raised", "escalation.answered"}
    <3>1. Alike(s, m, t)
      BY <2>5, OthersAlike
    <3> QED BY <1>3, <2>1, <3>1 DEF Alike
  <2> QED BY <1>1, <2>2, <2>3, <2>4, <2>5 DEF IsEvent, IsEnd
<1>4. CASE y \notin ClaimsOf(s, t) /\ e.task = t
  <2>1. CASE IsClaim(e, t)
    <3>1. m = ClaimMade(s, lv, e)
      BY <2>1 DEF Apply, IsClaim
    <3> HIDE DEF m, h
    <3>2. /\ ClaimsOf(m, t) = ClaimsOf(s, t) \cup {n}
          /\ h = None => m.claims[n].status = "active"
      BY <1>1, <1>4, <2>1, <3>1, ClaimMadeRecords DEF h, IsClaim
    <3> SUFFICES ASSUME n = y
                 PROVE  m.claims[y].status # "voided"
      BY <1>4, <3>2 DEF m
    <3>3. s.claims[c].status = "finished" /\ c \in ClaimsOf(s, t)
      <4>1. n - 1 >= y \/ n = y
        OBVIOUS
      <4> QED BY <4>1
    <3>4. h # c
      BY <1>1, <3>3 DEF Holds, h, ClaimsOf
    <3>5. h = None
      BY <1>1, <1>4, <3>4
    <3> QED BY <3>2, <3>5
  <2>2. CASE ~ IsClaim(e, t)
    <3>1. ClaimsOf(m, t) = ClaimsOf(s, t)
      <4>1. CASE e.type = "claim.confirmed"
        <5>1. m = ClaimConfirmed(s, e)
          BY <4>1 DEF Apply
        <5> HIDE DEF m, h
        <5> QED BY <1>1, <1>4, <4>1, <5>1, ClaimConfirmedRecords DEF h
      <4>2. CASE IsEnd(e)
        <5>1. \/ m = ClaimReleased(s, e)
              \/ m = RunFinished(s, e) /\ e.task \in DOMAIN s.tasks
          BY <1>1, <4>2 DEF Apply, IsEnd
        <5> HIDE DEF m, h
        <5> QED BY <1>1, <1>4, <5>1, EndRecords DEF h
      <4>3. CASE e.type \in {"task.created", "task.updated",
                             "escalation.raised", "escalation.answered"}
        BY <4>3, OthersAlike DEF Alike
      <4> QED BY <1>1, <1>4, <2>2, <4>1, <4>2, <4>3
              DEF IsEvent, IsEnd, IsClaim
    <3> QED BY <1>4, <3>1
  <2> QED BY <2>1, <2>2
<1>5. CASE e.task # t
  <2>1. Alike(s, m, t)
    BY <1>5, OthersAlike
  <2> QED BY <2>1 DEF Alike
<1> QED BY <1>3, <1>4, <1>5

LEMMA HeirStands ==
    ASSUME NEW E, Sound(E), NEW lv, NEW t \in Tasks, NEW c, NEW a,
           NEW k \in 0 .. MaxId,
           \A n \in k .. MaxId : Reign(E, c, a, t, n, States(E, lv)[n]),
           NEW x \in E, EndsOf(x, a, t), NEW y, x.id < y, y \in Nat, k < y,
           \A q \in E : IsClaim(q, t) => q.id \in {c, y}
    PROVE  y \in ClaimsOf(Fold(E, lv), t) =>
              Fold(E, lv).claims[y].status # "voided"
<1> DEFINE f == States(E, lv)
           Fine(s) == y \in ClaimsOf(s, t) => s.claims[y].status # "voided"
           Bad == {n \in 0 .. MaxId : ~ Fine(f[n])}
<1>1. \A n \in 0 .. MaxId :
         /\ n = 0 => f[n] = InitState
         /\ n # 0 => /\ FoldInv(E, n - 1, f[n - 1]) /\ ~ f[n - 1].error
                     /\ f[n] = Turn(E, lv, f[n - 1], n)
  BY StatesTurn
<1>2. \A n \in k .. MaxId : n >= x.id =>
         c \in ClaimsOf(f[n], t) /\ f[n].claims[c].status = "finished"
  <2>1. x.id \in Nat
    BY DEF Sound, AreEvents, IsEvent, Ids
  <2> HIDE DEF f
  <2> QED BY <2>1 DEF Reign, f
<1>3. x.id \in Nat
  BY DEF Sound, AreEvents, IsEvent, Ids
<1> HIDE DEF f
<1>4. Bad = {}
  <2> SUFFICES ASSUME Bad # {}
               PROVE  FALSE
    OBVIOUS
  <2>1. Bad \in SUBSET Nat
    BY ReplayAssumption
  <2>2. PICK i \in Bad : \A j \in Bad : i <= j
    <3> HIDE DEF Bad
    <3> QED BY <2>1, LeastOf
  <2>3. i \in 0 .. MaxId /\ MaxId \in Nat /\ ~ Fine(f[i])
    BY ReplayAssumption
  <2>4. i # 0
    <3>1. ClaimsOf(InitState, t) = {}
      BY DEF ClaimsOf, InitState, Empty
    <3> QED BY <1>1, <2>3, <3>1
  <2>5. i - 1 \in 0 .. MaxId /\ i - 1 < i /\ i \in Nat
    BY <2>3, <2>4
  <2>6. Fine(f[i - 1])
    <3>1. i - 1 \notin Bad
      <4> HIDE DEF Bad
      <4> QED BY <2>2, <2>3, <2>5
    <3> QED BY <2>5, <3>1
  <2>7. /\ FoldInv(E, i - 1, f[i - 1]) /\ ~ f[i - 1].error
        /\ f[i] = Turn(E, lv, f[i - 1], i)
    BY <1>1, <2>3, <2>4
  <2>8. i - 1 >= y \/ i = y =>
           /\ c \in ClaimsOf(f[i - 1], t)
           /\ f[i - 1].claims[c].status = "finished"
    BY <1>2, <1>3, <2>3, <2>5
  <2>9. ASSUME NEW e \in E, e.id = i, f[i] = Apply(f[i - 1], lv, e)
        PROVE  FALSE
    <3> DEFINE s == f[i - 1]
    <3>1. y \in ClaimsOf(s, t) => s.claims[y].status # "voided"
      BY <2>6
    <3> HIDE DEF s
    <3>2. y \in ClaimsOf(Apply(s, lv, e), t) =>
             Apply(s, lv, e).claims[y].status # "voided"
      BY <2>5, <2>7, <2>8, <2>9, <3>1, HeirTurn, SMTT(60) DEF s
    <3> QED BY <2>3, <2>9, <3>2 DEF s
  <2>10. CASE \A e \in E : e.id # i
    BY <2>3, <2>6, <2>7, <2>10, TurnCases
  <2> QED BY <2>7, <2>9, <2>10, TurnCases
<1>5. MaxId \in 0 .. MaxId
  BY ReplayAssumption
<1>6. Fine(f[MaxId])
  BY <1>4, <1>5
<1> QED BY <1>6, FoldIsLastState DEF f

-----------------------------------------------------------------------------
(***************************************************************************)
(* The merge of two heads, whatever they hold.  The two machines that      *)
(* merge a pair of heads name them the other way round, and several merges *)
(* may happen in any order: the lease rule has to be a join, and the       *)
(* merged tree must not depend on who merges.                              *)
(***************************************************************************)
\* Records are compared by their two fields.
LEMMA LeaseFields ==
    ASSUME NEW x \in Lease, NEW y \in Lease,
           x.exp = y.exp, x.released = y.released
    PROVE  x = y
BY DEF Lease

LEMMA ExpiryIsInteger ==
    ASSUME NEW x \in Lease
    PROVE  x.exp \in Int /\ x.released \in BOOLEAN
BY DEF Lease, Instants, NoLease

\* "Beats" is a strict total order on lease records: it never ranks two
\* records both ways, ranks every two different ones, and is transitive.
LEMMA BeatsIsTotal ==
    ASSUME NEW x \in Lease, NEW y \in Lease
    PROVE  /\ ~ (Beats(x, y) /\ Beats(y, x))
           /\ x = y \/ Beats(x, y) \/ Beats(y, x)
BY LeaseFields, ExpiryIsInteger DEF Beats

LEMMA BeatsIsTransitive ==
    ASSUME NEW x \in Lease, NEW y \in Lease, NEW z \in Lease,
           Beats(x, y), Beats(y, z)
    PROVE  Beats(x, z)
BY ExpiryIsInteger DEF Beats

\* Both machines pick the same lease record (pickLease is symmetric).
THEOREM PickLeaseCommutes ==
    ASSUME NEW x \in Lease, NEW y \in Lease
    PROVE  PickLease(x, y) = PickLease(y, x)
BY BeatsIsTotal DEF PickLease

\* The record that survives several merges does not depend on their order.
THEOREM PickLeaseAssociates ==
    ASSUME NEW x \in Lease, NEW y \in Lease, NEW z \in Lease
    PROVE  PickLease(x, PickLease(y, z)) = PickLease(PickLease(x, y), z)
BY BeatsIsTotal, BeatsIsTransitive DEF PickLease

\* A merge gives a lease record that neither side's record beats: a tombstone
\* survives any number of merges with plain records, and a renewal is never
\* undone by an older copy.
THEOREM PickLeaseIsUpper ==
    ASSUME NEW x \in Lease, NEW y \in Lease
    PROVE  /\ PickLease(x, y) \in {x, y}
           /\ ~ Beats(x, PickLease(x, y))
           /\ ~ Beats(y, PickLease(x, y))
BY BeatsIsTotal DEF PickLease

\* Neither head is privileged when a merge refuses confirmations.
LEMMA RefusedCommutes ==
    ASSUME NEW g, NEW h
    PROVE  Refused(g, h) = Refused(h, g)
BY DEF Refused

\* The two machines that merge a pair of heads, each calling its own head
\* "ours", compute the same tree: same events, same refused confirmations,
\* same leases.
THEOREM MergeIsSymmetric ==
    ASSUME NEW g, NEW h,
           g.leases \in [Ids -> Lease], h.leases \in [Ids -> Lease]
    PROVE  MergeTrees(g, h) = MergeTrees(h, g)
<1>1. Refused(g, h) = Refused(h, g)
  BY RefusedCommutes
<1>2. g.events \cup h.events = h.events \cup g.events
  OBVIOUS
<1>3. g.seen \cup h.seen = h.seen \cup g.seen
  OBVIOUS
<1>4. [c \in Ids |-> PickLease(g.leases[c], h.leases[c])]
        = [c \in Ids |-> PickLease(h.leases[c], g.leases[c])]
  BY PickLeaseCommutes
<1> QED
  BY <1>1, <1>2, <1>3, <1>4 DEF MergeTrees

\* confirmGuard leaves out confirmations only, and only those that one of
\* the two heads does not have.
LEMMA RefusedIsOneSided ==
    ASSUME NEW g, NEW h, NEW e \in Refused(g, h)
    PROVE  /\ e \in g.events \cup h.events
           /\ e \notin g.events \cap h.events
           /\ e.type = "claim.confirmed"
BY DEF Refused, Competing, OneSidedConfirmations

\* Shared history survives every merge, and nothing comes in from nowhere.
THEOREM MergeKeepsHistory ==
    ASSUME NEW g, NEW h
    PROVE  LET m == MergeTrees(g, h)
           IN  /\ g.events \cap h.events \subseteq m.events
               /\ m.events \subseteq g.events \cup h.events
               /\ \A e \in g.events \cup h.events :
                     e.type # "claim.confirmed" => e \in m.events
<1>1. MergeTrees(g, h).events = (g.events \cup h.events) \ Refused(g, h)
  BY DEF MergeTrees
<1> QED
  BY <1>1, RefusedIsOneSided

\* Of two confirmations that refuse each other only the later goes: a
\* confirmation is left out only for an earlier one, by which another claim
\* holds the task in the head that does not have it.
THEOREM RefusalNamesAnEarlierConfirmation ==
    ASSUME NEW g, NEW h, NEW e \in Refused(g, h)
    PROVE  \E o \in {g, h} : \E c \in ActiveClaims(Frozen(o), e.task) :
              /\ e \notin o.events
              /\ c # e.claim
              /\ Frozen(o).claims[c].confirmation # None
              /\ Frozen(o).claims[c].confirmation < e.id
BY DEF Refused, Competing, OneSidedConfirmations

-----------------------------------------------------------------------------
(***************************************************************************)
(* What a head is, and what the heads of a fleet have in common.           *)
(***************************************************************************)
\* Head g's record of claim c is h's or beats it.
NoOlder(g, h, c) ==
    g.leases[c] = h.leases[c] \/ Beats(g.leases[c], h.leases[c])

Rooted(h, K) ==
    \A c \in Ids :
        \/ h.leases[c] = NoRecord
        \/ \E n \in h.seen : \A g \in K : n \in g.seen => NoOlder(g, h, c)

\* Lease records as they can be at instant n with lease time ttl.
LeasesFit(f, n, ttl) ==
    \A c \in Ids :
        /\ f[c].released => f[c].exp <= n
        /\ f[c].exp <= n + ttl
        /\ c > n => f[c] = NoRecord

\* Runs and confirmations name an earlier claim of their own actor.
NamesClaims(E) ==
    \A e \in E : e.type \in {"run.finished", "claim.confirmed"} =>
        \E f \in E : /\ f.type = "claim.made" /\ f.id = e.claim
                     /\ f.id < e.id /\ f.task = e.task /\ f.actor = e.actor

Whole(h, n, ttl) ==
    /\ h = [events |-> h.events, leases |-> h.leases, seen |-> h.seen]
    /\ h.seen \subseteq 1 .. n
    /\ \A e \in h.events : e.id \in h.seen
    /\ Sound(h.events)
    /\ NamesClaims(h.events)
    /\ h.leases \in [Ids -> Lease]
    /\ LeasesFit(h.leases, n, ttl)

\* Two heads agree on what an id names and on how a task was created, have
\* each other's events but for refused confirmations once they have seen the
\* operation, and have one report per claim, which no confirmation follows.
Agree(g, h) ==
    /\ \A e \in g.events, f \in h.events : e.id = f.id => e = f
    /\ \A e \in g.events, f \in h.events :
          /\ e.type = "task.created" /\ f.type = "task.created"
          /\ e.task = f.task
          => e = f
    /\ \A e \in h.events :
          e.type # "claim.confirmed" /\ e.id \in g.seen => e \in g.events
    /\ \A e \in g.events, f \in h.events :
          /\ e.type = "claim.confirmed" /\ f.type = "run.finished"
          /\ e.claim = f.claim
          => e.id < f.id
    /\ \A e \in g.events, f \in h.events :
          /\ e.type = "run.finished" /\ f.type = "run.finished"
          /\ e.claim = f.claim
          => e = f

HeadsFit(K, n, ttl) ==
    /\ \A h \in K : Whole(h, n, ttl) /\ Rooted(h, K)
    /\ \A g, h \in K : Agree(g, h)

-----------------------------------------------------------------------------
(***************************************************************************)
(* Sets of heads.                                                          *)
(***************************************************************************)
LEMMA FewerHeadsFit ==
    ASSUME NEW K, NEW n, NEW ttl, HeadsFit(K, n, ttl), NEW J \in SUBSET K
    PROVE  HeadsFit(J, n, ttl)
<1>1. \A h \in J : Rooted(h, J)
  BY DEF HeadsFit, Rooted
<1> QED BY <1>1 DEF HeadsFit

\* Time passing takes nothing away.
LEMMA LaterHeadsFit ==
    ASSUME NEW K, NEW n \in Nat, NEW ttl \in Nat, HeadsFit(K, n, ttl),
           NEW m \in Nat, n <= m
    PROVE  HeadsFit(K, m, ttl)
<1> SUFFICES ASSUME NEW h \in K
             PROVE  Whole(h, m, ttl)
  BY DEF HeadsFit
<1>1. Whole(h, n, ttl)
  BY DEF HeadsFit
<1>2. h.seen \subseteq 1 .. m
  BY <1>1 DEF Whole
<1>3. LeasesFit(h.leases, m, ttl)
  <2> SUFFICES ASSUME NEW c \in Ids
               PROVE  /\ h.leases[c].released => h.leases[c].exp <= m
                      /\ h.leases[c].exp <= m + ttl
                      /\ c > m => h.leases[c] = NoRecord
    BY Zenon DEF LeasesFit
  <2>1. h.leases[c] \in Lease
    BY <1>1 DEF Whole
  <2>2. h.leases[c].exp \in Int /\ c \in Int
    BY <2>1, ExpiryIsInteger, ReplayAssumption DEF Ids
  <2>3. /\ h.leases[c].released => h.leases[c].exp <= n
        /\ h.leases[c].exp <= n + ttl
        /\ c > n => h.leases[c] = NoRecord
    BY <1>1 DEF Whole, LeasesFit
  <2> QED BY <2>2, <2>3
<1> QED BY <1>1, <1>2, <1>3 DEF Whole

\* "NoOlder" orders the records of a claim.
LEMMA NoOlderOrders ==
    ASSUME NEW a, NEW b, NEW d, NEW c \in Ids,
           a.leases \in [Ids -> Lease], b.leases \in [Ids -> Lease],
           d.leases \in [Ids -> Lease]
    PROVE  /\ NoOlder(a, a, c)
           /\ NoOlder(a, b, c) /\ NoOlder(b, d, c) => NoOlder(a, d, c)
           /\ b.leases[c] = NoRecord => NoOlder(a, b, c)
           /\ NoOlder(a, b, c) /\ b.leases[c].released =>
                 a.leases[c].released
<1>1. a.leases[c] \in Lease /\ b.leases[c] \in Lease /\ d.leases[c] \in Lease
  OBVIOUS
<1>2. NoOlder(a, b, c) /\ NoOlder(b, d, c) => NoOlder(a, d, c)
  BY <1>1, BeatsIsTransitive DEF NoOlder
<1>3. ASSUME b.leases[c] = NoRecord
      PROVE  NoOlder(a, b, c)
  <2>1. NoRecord \in Lease /\ NoRecord.exp = -1 /\ NoRecord.released = FALSE
    BY DEF NoRecord, Lease, Instants, NoLease
  <2>2. a.leases[c].exp \in Int /\ a.leases[c].exp >= -1
        /\ a.leases[c].released \in BOOLEAN
    BY <1>1 DEF Lease, Instants, NoLease
  <2>3. CASE a.leases[c].released
    BY <1>3, <2>1, <2>3 DEF NoOlder, Beats
  <2>4. CASE ~ a.leases[c].released /\ a.leases[c].exp > -1
    BY <1>3, <2>1, <2>4 DEF NoOlder, Beats
  <2>5. CASE ~ a.leases[c].released /\ a.leases[c].exp = -1
    BY <1>1, <1>3, <2>1, <2>2, <2>5, LeaseFields DEF NoOlder
  <2> QED BY <2>2, <2>3, <2>4, <2>5
<1>4. NoOlder(a, b, c) /\ b.leases[c].released => a.leases[c].released
  BY DEF NoOlder, Beats
<1> QED BY <1>2, <1>3, <1>4 DEF NoOlder

\* A descendant has a record as late of every claim.
LEMMA DescendantsNoOlder ==
    ASSUME NEW K, NEW n, NEW ttl, HeadsFit(K, n, ttl),
           NEW g \in K, NEW h \in K, Ancestor(g, h), NEW c \in Ids
    PROVE  NoOlder(h, g, c)
<1>1. g.leases \in [Ids -> Lease] /\ h.leases \in [Ids -> Lease]
  BY DEF HeadsFit, Whole
<1>2. Rooted(g, K)
  BY DEF HeadsFit
<1>3. CASE g.leases[c] = NoRecord
  BY <1>1, <1>3, NoOlderOrders
<1>4. CASE g.leases[c] # NoRecord
  BY <1>2, <1>4 DEF Rooted, Ancestor
<1> QED BY <1>3, <1>4

-----------------------------------------------------------------------------
(***************************************************************************)
(* Bringing one head into another.                                         *)
(***************************************************************************)
LEMMA MergedHead ==
    ASSUME NEW g, NEW h
    PROVE  LET m == MergeTrees(g, h)
           IN  /\ m = [events |-> m.events, leases |-> m.leases,
                       seen |-> m.seen]
               /\ m.events \subseteq g.events \cup h.events
               /\ \A e \in g.events \cup h.events :
                     e.type # "claim.confirmed" => e \in m.events
               /\ m.seen = g.seen \cup h.seen
               /\ m.leases = [c \in Ids |->
                     PickLease(g.leases[c], h.leases[c])]
<1> DEFINE m == MergeTrees(g, h)
<1>1. /\ m = [events |-> m.events, leases |-> m.leases, seen |-> m.seen]
      /\ m.seen = g.seen \cup h.seen
      /\ m.leases = [c \in Ids |-> PickLease(g.leases[c], h.leases[c])]
  BY DEF MergeTrees
<1>2. /\ m.events \subseteq g.events \cup h.events
      /\ \A e \in g.events \cup h.events :
            e.type # "claim.confirmed" => e \in m.events
  BY MergeKeepsHistory
<1> QED BY <1>1, <1>2

LEMMA PickedLease ==
    ASSUME NEW g, NEW h,
           g.leases \in [Ids -> Lease], h.leases \in [Ids -> Lease],
           NEW c \in Ids
    PROVE  LET m == MergeTrees(g, h)
           IN  /\ m.leases[c] \in {g.leases[c], h.leases[c]}
               /\ NoOlder(m, g, c) /\ NoOlder(m, h, c)
<1> DEFINE m == MergeTrees(g, h)
<1>1. m.leases[c] = PickLease(g.leases[c], h.leases[c])
  <2>1. m.leases = [d \in Ids |-> PickLease(g.leases[d], h.leases[d])]
    BY MergedHead
  <2> HIDE DEF m
  <2> QED BY <2>1
<1>2. g.leases[c] \in Lease /\ h.leases[c] \in Lease
  OBVIOUS
<1> HIDE DEF m
<1>3. m.leases[c] \in {g.leases[c], h.leases[c]}
  BY <1>1 DEF PickLease
<1>4. NoOlder(m, g, c) /\ NoOlder(m, h, c)
  BY <1>1, <1>2, BeatsIsTotal DEF PickLease, NoOlder
<1> QED BY <1>3, <1>4 DEF m

\* What soundness says of one event.
Grounded(e, E) ==
    /\ IsEvent(e)
    /\ e.type \in {"task.updated", "claim.made", "run.finished",
                   "escalation.raised"} =>
          \E f \in E : /\ f.type = "task.created" /\ f.task = e.task
                       /\ f.id < e.id
    /\ e.type \in {"run.finished", "claim.confirmed"} =>
          \E f \in E : /\ f.type = "claim.made" /\ f.id = e.claim
                       /\ f.id < e.id /\ f.task = e.task
                       /\ f.actor = e.actor
    /\ e.type = "escalation.answered" =>
          \E f \in E : /\ f.type = "escalation.raised" /\ f.id = e.escalation
                       /\ f.task = e.task /\ f.id < e.id

LEMMA SoundIsGrounded ==
    ASSUME NEW E
    PROVE  Sound(E) /\ NamesClaims(E) <=>
              /\ \A e \in E : Grounded(e, E)
              /\ \A e, f \in E : e.id = f.id => e = f
              /\ \A e, f \in E :
                    /\ e.type = "task.created" /\ f.type = "task.created"
                    /\ e.task = f.task
                    => e = f
<1>1. ASSUME Sound(E), NamesClaims(E), NEW e \in E
      PROVE  Grounded(e, E)
  BY <1>1 DEF Sound, NamesClaims, AreEvents, Grounded
<1>2. ASSUME \A e \in E : Grounded(e, E)
      PROVE  /\ NamesClaims(E)
             /\ \A e \in E : IsEvent(e)
  BY <1>2 DEF NamesClaims, Grounded
<1>3. ASSUME \A e \in E : Grounded(e, E),
             \A e, f \in E : e.id = f.id => e = f,
             \A e, f \in E :
                /\ e.type = "task.created" /\ f.type = "task.created"
                /\ e.task = f.task
                => e = f
      PROVE  Sound(E)
  <2>1. AreEvents(E)
    BY <1>2, <1>3 DEF AreEvents
  <2>2. \A e \in E : e.type = "claim.confirmed" =>
           \E f \in E : /\ f.type = "claim.made" /\ f.id = e.claim
                        /\ f.task = e.task /\ f.id < e.id
    BY <1>3 DEF Grounded
  <2>3. \A e \in E :
           e.type \in {"task.updated", "claim.made", "run.finished",
                       "escalation.raised"} =>
              \E f \in E : /\ f.type = "task.created" /\ f.task = e.task
                           /\ f.id < e.id
    BY <1>3 DEF Grounded
  <2>4. \A e \in E : e.type = "escalation.answered" =>
           \E f \in E : /\ f.type = "escalation.raised"
                        /\ f.id = e.escalation
                        /\ f.task = e.task /\ f.id < e.id
    BY <1>3 DEF Grounded
  <2> QED BY <1>3, <2>1, <2>2, <2>3, <2>4 DEF Sound
<1>4. Sound(E) =>
         /\ \A e, f \in E : e.id = f.id => e = f
         /\ \A e, f \in E :
               /\ e.type = "task.created" /\ f.type = "task.created"
               /\ e.task = f.task
               => e = f
  BY DEF Sound, AreEvents
<1> QED BY <1>1, <1>2, <1>3, <1>4

\* Events that are not confirmations ground what they ground in any set.
LEMMA StaysGrounded ==
    ASSUME NEW E, NEW F, NEW e, Grounded(e, E),
           \A f \in E : f.type # "claim.confirmed" => f \in F
    PROVE  Grounded(e, F)
<1>1. \A f \in E : f.type \in {"task.created", "claim.made",
                               "escalation.raised"} => f \in F
  OBVIOUS
<1> QED BY <1>1 DEF Grounded

LEMMA MergeWhole ==
    ASSUME NEW n, NEW ttl, NEW g, NEW h, Whole(g, n, ttl), Whole(h, n, ttl),
           Agree(g, h), Agree(h, g)
    PROVE  Whole(MergeTrees(g, h), n, ttl)
<1> DEFINE m == MergeTrees(g, h)
<1>1. /\ m = [events |-> m.events, leases |-> m.leases, seen |-> m.seen]
      /\ m.events \subseteq g.events \cup h.events
      /\ \A e \in g.events \cup h.events :
            e.type # "claim.confirmed" => e \in m.events
      /\ m.seen = g.seen \cup h.seen
      /\ m.leases = [c \in Ids |-> PickLease(g.leases[c], h.leases[c])]
  BY MergedHead
<1>2. /\ g.leases \in [Ids -> Lease] /\ h.leases \in [Ids -> Lease]
      /\ g.seen \subseteq 1 .. n /\ h.seen \subseteq 1 .. n
      /\ \A e \in g.events : e.id \in g.seen
      /\ \A e \in h.events : e.id \in h.seen
      /\ LeasesFit(g.leases, n, ttl) /\ LeasesFit(h.leases, n, ttl)
  BY DEF Whole
<1>3. \A c \in Ids : m.leases[c] \in {g.leases[c], h.leases[c]}
  BY <1>2, PickedLease
<1> HIDE DEF m
<1>4. m.leases \in [Ids -> Lease]
  <2>1. \A c \in Ids : m.leases[c] \in Lease
    BY <1>2, <1>3
  <2>2. DOMAIN m.leases = Ids /\ m.leases = [c \in Ids |-> m.leases[c]]
    BY <1>1
  <2> QED BY <2>1, <2>2
<1>5. LeasesFit(m.leases, n, ttl)
  BY <1>2, <1>3 DEF LeasesFit
<1>6. /\ \A e \in g.events : Grounded(e, g.events)
      /\ \A e \in h.events : Grounded(e, h.events)
      /\ \A e, f \in g.events \cup h.events : e.id = f.id => e = f
      /\ \A e, f \in g.events \cup h.events :
            /\ e.type = "task.created" /\ f.type = "task.created"
            /\ e.task = f.task
            => e = f
  <2>1. /\ \A e \in g.events : Grounded(e, g.events)
        /\ \A e, f \in g.events : e.id = f.id => e = f
        /\ \A e, f \in g.events :
              /\ e.type = "task.created" /\ f.type = "task.created"
              /\ e.task = f.task
              => e = f
    BY SoundIsGrounded DEF Whole
  <2>2. /\ \A e \in h.events : Grounded(e, h.events)
        /\ \A e, f \in h.events : e.id = f.id => e = f
        /\ \A e, f \in h.events :
              /\ e.type = "task.created" /\ f.type = "task.created"
              /\ e.task = f.task
              => e = f
    BY SoundIsGrounded DEF Whole
  <2> QED BY <2>1, <2>2 DEF Agree
<1>7. \A e \in m.events : Grounded(e, m.events)
  BY <1>1, <1>6, StaysGrounded
<1>8. Sound(m.events) /\ NamesClaims(m.events)
  BY <1>1, <1>6, <1>7, SoundIsGrounded
<1>9. \A e \in m.events : e.id \in m.seen
  BY <1>1, <1>2
<1>10. m.seen \subseteq 1 .. n
  BY <1>1, <1>2
<1> QED BY <1>1, <1>4, <1>5, <1>8, <1>9, <1>10 DEF Whole, m

LEMMA MergeAgrees ==
    ASSUME NEW g, NEW h, NEW x,
           Agree(g, x), Agree(h, x), Agree(x, g), Agree(x, h)
    PROVE  Agree(MergeTrees(g, h), x) /\ Agree(x, MergeTrees(g, h))
<1> DEFINE m == MergeTrees(g, h)
<1>1. /\ m.events \subseteq g.events \cup h.events
      /\ \A e \in g.events \cup h.events :
            e.type # "claim.confirmed" => e \in m.events
      /\ m.seen = g.seen \cup h.seen
  BY MergedHead
<1> HIDE DEF m
<1>2. \A e \in m.events : e \in g.events \/ e \in h.events
  BY <1>1
<1>3. Agree(m, x)
  BY <1>1, <1>2 DEF Agree
<1>4. Agree(x, m)
  BY <1>1, <1>2 DEF Agree
<1> QED BY <1>3, <1>4 DEF m

LEMMA MergeRooted ==
    ASSUME NEW K, NEW n, NEW ttl, HeadsFit(K, n, ttl), NEW g \in K, NEW h \in K
    PROVE  \A x \in K \cup {MergeTrees(g, h)} :
              Rooted(x, K \cup {MergeTrees(g, h)})
<1> DEFINE m == MergeTrees(g, h)
           J == K \cup {m}
<1>1. \A x \in K : x.leases \in [Ids -> Lease] /\ Rooted(x, K)
  BY DEF HeadsFit, Whole
<1>2. /\ m.seen = g.seen \cup h.seen
      /\ \A c \in Ids : /\ m.leases[c] \in {g.leases[c], h.leases[c]}
                        /\ NoOlder(m, g, c) /\ NoOlder(m, h, c)
  BY <1>1, MergedHead, PickedLease
<1>3. m.leases \in [Ids -> Lease]
  <2>1. m.leases = [c \in Ids |-> PickLease(g.leases[c], h.leases[c])]
    BY MergedHead
  <2> HIDE DEF m
  <2> QED BY <1>1, <2>1 DEF PickLease
<1> HIDE DEF m
<1>4. ASSUME NEW x \in K, NEW c \in Ids, NEW w \in x.seen,
             \A y \in K : w \in y.seen => NoOlder(y, x, c)
      PROVE  \A y \in J : w \in y.seen => NoOlder(y, x, c)
  <2> SUFFICES ASSUME w \in m.seen
               PROVE  NoOlder(m, x, c)
    BY <1>4
  <2>1. CASE w \in g.seen
    <3>1. NoOlder(g, x, c) /\ NoOlder(m, g, c)
      BY <1>2, <1>4, <2>1
    <3> QED BY <1>1, <1>3, <3>1, NoOlderOrders
  <2>2. CASE w \in h.seen
    <3>1. NoOlder(h, x, c) /\ NoOlder(m, h, c)
      BY <1>2, <1>4, <2>2
    <3> QED BY <1>1, <1>3, <3>1, NoOlderOrders
  <2> QED BY <1>2, <2>1, <2>2
<1>5. \A x \in K : Rooted(x, J)
  <2> SUFFICES ASSUME NEW x \in K, NEW c \in Ids, x.leases[c] # NoRecord
               PROVE  \E w \in x.seen :
                         \A y \in J : w \in y.seen => NoOlder(y, x, c)
    BY DEF Rooted
  <2>1. PICK w \in x.seen : \A y \in K : w \in y.seen => NoOlder(y, x, c)
    BY <1>1 DEF Rooted
  <2> QED BY <1>4, <2>1
<1>6. Rooted(m, J)
  <2> SUFFICES ASSUME NEW c \in Ids, m.leases[c] # NoRecord
               PROVE  \E w \in m.seen :
                         \A y \in J : w \in y.seen => NoOlder(y, m, c)
    BY DEF Rooted
  <2>1. PICK x \in {g, h} : m.leases[c] = x.leases[c]
    BY <1>2
  <2>2. PICK w \in x.seen : \A y \in J : w \in y.seen => NoOlder(y, x, c)
    BY <1>5, <2>1 DEF Rooted
  <2>3. \A y \in J : NoOlder(y, x, c) => NoOlder(y, m, c)
    BY <2>1 DEF NoOlder
  <2> QED BY <1>2, <2>2, <2>3
<1> QED BY <1>5, <1>6 DEF m

LEMMA ReconciledFits ==
    ASSUME NEW K, NEW n, NEW ttl, HeadsFit(K, n, ttl), NEW g \in K, NEW h \in K
    PROVE  HeadsFit(K \cup {Reconciled(g, h)}, n, ttl)
<1> DEFINE m == MergeTrees(g, h)
           J == K \cup {m}
<1>1. \A x \in K : Whole(x, n, ttl)
  BY DEF HeadsFit
<1>2. \A x, y \in K : Agree(x, y)
  BY DEF HeadsFit
<1>3. Whole(m, n, ttl)
  BY <1>1, <1>2, MergeWhole
<1>4. \A x \in K : Agree(m, x) /\ Agree(x, m)
  BY <1>2, MergeAgrees
<1>5. Agree(m, m)
  BY <1>4, MergeAgrees
<1>6. \A x \in J : Rooted(x, J)
  BY MergeRooted
<1> HIDE DEF m
<1>7. HeadsFit(J, n, ttl)
  BY <1>1, <1>2, <1>3, <1>4, <1>5, <1>6 DEF HeadsFit
<1>8. Reconciled(g, h) \in J
  BY DEF Reconciled, m
<1>9. K \cup {Reconciled(g, h)} \in SUBSET J
  BY <1>8
<1> HIDE DEF J
<1> QED BY <1>7, <1>9, FewerHeadsFit

-----------------------------------------------------------------------------
(***************************************************************************)
(* A commit on top of a head.                                              *)
(***************************************************************************)
On(h, D, leases, i) ==
    [events |-> h.events \cup D, leases |-> leases, seen |-> h.seen \cup {i}]

\* What may be committed on top of h by operation i: at most one event, that
\* closes an attempt nobody closed, or confirms one nobody closed.
Addable(K, h, D, i) ==
    /\ \A x \in K : i \notin x.seen
    /\ \A e, f \in D : e = f
    /\ \A e \in D : /\ e.id = i /\ e.type # "task.created"
                    /\ Grounded(e, h.events)
    /\ \A e \in D : e.type \in {"claim.confirmed", "run.finished"} =>
          \A x \in K : \A f \in x.events :
             f.type = "run.finished" => f.claim # e.claim
    /\ \A e \in D : e.type = "run.finished" =>
          \A x \in K : \A f \in x.events :
             f.type = "claim.confirmed" => f.id < i

LEMMA WrittenWhole ==
    ASSUME NEW K, NEW n \in Nat, NEW ttl, HeadsFit(K, n, ttl), NEW h \in K,
           NEW D, NEW L, NEW i \in 1 .. n, Addable(K, h, D, i),
           L \in [Ids -> Lease], LeasesFit(L, n, ttl)
    PROVE  Whole(On(h, D, L, i), n, ttl)
<1> DEFINE x == On(h, D, L, i)
<1>1. /\ x = [events |-> x.events, leases |-> x.leases, seen |-> x.seen]
      /\ x.events = h.events \cup D /\ x.leases = L
      /\ x.seen = h.seen \cup {i}
  BY DEF On
<1> HIDE DEF x
<1>2. Whole(h, n, ttl)
  BY DEF HeadsFit
<1>3. /\ \A e \in h.events : Grounded(e, h.events) /\ e.id # i
      /\ \A e, f \in h.events : e.id = f.id => e = f
      /\ \A e, f \in h.events :
            /\ e.type = "task.created" /\ f.type = "task.created"
            /\ e.task = f.task
            => e = f
  BY <1>2, SoundIsGrounded DEF Whole, Addable
<1>4. \A e \in x.events : Grounded(e, x.events)
  BY <1>1, <1>3, StaysGrounded DEF Addable
<1>5. /\ \A e, f \in x.events : e.id = f.id => e = f
      /\ \A e, f \in x.events :
            /\ e.type = "task.created" /\ f.type = "task.created"
            /\ e.task = f.task
            => e = f
  BY <1>1, <1>3 DEF Addable
<1>6. Sound(x.events) /\ NamesClaims(x.events)
  BY <1>4, <1>5, SoundIsGrounded
<1>7. x.seen \subseteq 1 .. n /\ \A e \in x.events : e.id \in x.seen
  BY <1>1, <1>2 DEF Whole, Addable
<1> QED BY <1>1, <1>6, <1>7 DEF Whole, x

LEMMA WrittenAgrees ==
    ASSUME NEW K, NEW n \in Nat, NEW ttl, HeadsFit(K, n, ttl), NEW h \in K,
           NEW D, NEW L, NEW i \in 1 .. n, Addable(K, h, D, i), NEW y \in K
    PROVE  Agree(On(h, D, L, i), y) /\ Agree(y, On(h, D, L, i))
<1> DEFINE x == On(h, D, L, i)
<1>1. x.events = h.events \cup D /\ x.seen = h.seen \cup {i}
  BY DEF On
<1> HIDE DEF x
<1>2. /\ Agree(h, y) /\ Agree(y, h)
      /\ \A e \in y.events : e.id \in y.seen
      /\ \A e \in y.events : e.id # i
      /\ i \notin y.seen
  BY DEF HeadsFit, Whole, Addable
<1>3. \A e \in D : /\ e.id = i /\ e.type # "task.created"
                   /\ e.type \in {"claim.confirmed", "run.finished"} =>
                         \A f \in y.events :
                            f.type = "run.finished" => f.claim # e.claim
                   /\ e.type = "run.finished" =>
                         \A f \in y.events :
                            f.type = "claim.confirmed" => f.id < i
  BY DEF Addable
<1>4. Agree(x, y)
  BY <1>1, <1>2, <1>3 DEF Agree
<1>5. Agree(y, x)
  BY <1>1, <1>2, <1>3 DEF Agree
<1> QED BY <1>4, <1>5 DEF x

LEMMA WrittenRooted ==
    ASSUME NEW K, NEW n \in Nat, NEW ttl, HeadsFit(K, n, ttl), NEW h \in K,
           NEW D, NEW L, NEW i, \A y \in K : i \notin y.seen,
           L \in [Ids -> Lease],
           \A c \in Ids : L[c] = h.leases[c] \/ Beats(L[c], h.leases[c])
    PROVE  \A x \in K \cup {On(h, D, L, i)} :
              Rooted(x, K \cup {On(h, D, L, i)})
<1> DEFINE m == On(h, D, L, i)
           J == K \cup {m}
<1>1. \A x \in K : x.leases \in [Ids -> Lease] /\ Rooted(x, K)
  BY DEF HeadsFit, Whole
<1>2. m.seen = h.seen \cup {i} /\ m.leases = L
  BY DEF On
<1> HIDE DEF m
<1>3. \A c \in Ids : NoOlder(m, h, c)
  BY <1>2 DEF NoOlder
<1>4. ASSUME NEW x \in K, NEW c \in Ids, NEW w \in x.seen,
             \A y \in K : w \in y.seen => NoOlder(y, x, c)
      PROVE  \A y \in J : w \in y.seen => NoOlder(y, x, c)
  <2> SUFFICES ASSUME w \in m.seen
               PROVE  NoOlder(m, x, c)
    BY <1>4
  <2>1. NoOlder(h, x, c) /\ NoOlder(m, h, c)
    BY <1>2, <1>3, <1>4
  <2> QED BY <1>1, <1>2, <2>1, NoOlderOrders
<1>5. \A x \in K : Rooted(x, J)
  <2> SUFFICES ASSUME NEW x \in K, NEW c \in Ids, x.leases[c] # NoRecord
               PROVE  \E w \in x.seen :
                         \A y \in J : w \in y.seen => NoOlder(y, x, c)
    BY DEF Rooted
  <2>1. PICK w \in x.seen : \A y \in K : w \in y.seen => NoOlder(y, x, c)
    BY <1>1 DEF Rooted
  <2> QED BY <1>4, <2>1
<1>6. Rooted(m, J)
  <2> SUFFICES ASSUME NEW c \in Ids, m.leases[c] # NoRecord
               PROVE  \E w \in m.seen :
                         \A y \in J : w \in y.seen => NoOlder(y, m, c)
    BY DEF Rooted
  <2>1. NoOlder(m, m, c)
    BY DEF NoOlder
  <2> QED BY <1>2, <2>1
<1> QED BY <1>5, <1>6 DEF m

LEMMA WrittenFits ==
    ASSUME NEW K, NEW n \in Nat, NEW ttl, HeadsFit(K, n, ttl), NEW h \in K,
           NEW D, NEW L, NEW i \in 1 .. n, Addable(K, h, D, i),
           L \in [Ids -> Lease], LeasesFit(L, n, ttl),
           \A c \in Ids : L[c] = h.leases[c] \/ Beats(L[c], h.leases[c])
    PROVE  HeadsFit(K \cup {On(h, D, L, i)}, n, ttl)
<1> DEFINE x == On(h, D, L, i)
           J == K \cup {x}
<1>1. Whole(x, n, ttl)
  BY WrittenWhole
<1>2. \A y \in K : Agree(x, y) /\ Agree(y, x)
  BY WrittenAgrees
<1>3. \A y \in J : Rooted(y, J)
  <2>1. \A y \in K : i \notin y.seen
    BY DEF Addable
  <2> QED BY <2>1, WrittenRooted
<1>4. Agree(x, x)
  <2>1. Agree(h, h) /\ Agree(h, x) /\ Agree(x, h)
    BY <1>2 DEF HeadsFit
  <2>2. x.events = h.events \cup D /\ x.seen = h.seen \cup {i}
    BY DEF On
  <2>3. \A e, f \in D : e = f
    BY DEF Addable
  <2>4. \A e \in x.events : e \in h.events \/ e \in D
    BY <2>2
  <2>5. \A e \in D : e.type # "claim.confirmed" \/ e.type # "run.finished"
    OBVIOUS
  <2> HIDE DEF x
  <2> QED BY <2>1, <2>2, <2>3, <2>4, <2>5 DEF Agree
<1> HIDE DEF x
<1>5. /\ \A y \in K : Whole(y, n, ttl)
      /\ \A y, z \in K : Agree(y, z)
  BY DEF HeadsFit
<1> QED BY <1>1, <1>2, <1>3, <1>4, <1>5 DEF HeadsFit, x

-----------------------------------------------------------------------------
(***************************************************************************)
(* The first confirmation of each task, on a head h and on the ledger g.   *)
(* A merge of heads that compare well never drops one of those, and the    *)
(* ledger moves only to heads that have them.                              *)
(***************************************************************************)
\* Task t had a first winner on head g before instant n.
Won(t, n, g) == \E f \in g.events : First(f, g) /\ f.task = t /\ f.id < n

Follows(h, g) ==
    \A e \in h.events : e.type = "claim.confirmed" =>
        \E f \in h.events : First(f, g) /\ f.task = e.task /\ f.id <= e.id

Heeds(h, g) ==
    \A f \in g.events : First(f, g) /\ f.id \in h.seen => f \in h.events

DoneLate(h, g) ==
    \A r \in h.events : r.type = "run.finished" /\ r.outcome = "done" =>
        Won(r.task, r.id, g)

Fits(h, g) == Follows(h, g) /\ Heeds(h, g) /\ DoneLate(h, g)

\* The first confirmations of g are first on x.
FirstsStay(g, x) == \A f \in g.events : First(f, g) => First(f, x)

LEMMA WholeIds ==
    ASSUME NEW n, NEW ttl, NEW h, Whole(h, n, ttl)
    PROVE  /\ \A e \in h.events : e.id \in Nat /\ e.id \in h.seen
           /\ \A e, f \in h.events : e.id = f.id => e = f
           /\ h.seen \subseteq 1 .. n
<1>1. \A e \in h.events : e.id \in Ids
  BY DEF Whole, Sound, AreEvents, IsEvent
<1>2. \A i \in Ids : i \in Nat
  BY DEF Ids
<1>3. \A e, f \in h.events : e.id = f.id => e = f
  BY DEF Whole, Sound, AreEvents
<1> QED BY <1>1, <1>2, <1>3 DEF Whole

LEMMA FirstExists ==
    ASSUME NEW n, NEW ttl, NEW h, Whole(h, n, ttl),
           NEW e \in h.events, e.type = "claim.confirmed"
    PROVE  \E f \in h.events : First(f, h) /\ f.task = e.task /\ f.id <= e.id
<1> DEFINE C == {f \in h.events : f.type = "claim.confirmed"
                                     /\ f.task = e.task}
           T == {f.id : f \in C}
<1>1. T \in SUBSET Nat /\ e.id \in T
  BY WholeIds
<1>2. PICK i \in T : \A j \in T : i <= j
  <2> HIDE DEF T
  <2> QED BY <1>1, LeastOf
<1>3. PICK f \in C : f.id = i
  BY <1>2
<1>4. First(f, h)
  BY <1>2, <1>3 DEF First
<1> QED BY <1>1, <1>2, <1>3, <1>4

LEMMA FirstUnique ==
    ASSUME NEW n, NEW ttl, NEW h, Whole(h, n, ttl),
           NEW e \in h.events, NEW f \in h.events,
           First(e, h), First(f, h), e.task = f.task
    PROVE  e = f
<1>1. e.id <= f.id /\ f.id <= e.id
  BY DEF First
<1>2. e.id \in Nat /\ f.id \in Nat
  BY WholeIds
<1>3. e.id = f.id
  BY <1>1, <1>2
<1> QED BY <1>3, WholeIds

\* The first confirmations of a head that fits are those that are first on the
\* ledger.
LEMMA FirstsAreTheLedgers ==
    ASSUME NEW n, NEW ttl, NEW g, NEW h, Whole(g, n, ttl), Whole(h, n, ttl),
           Fits(h, g), NEW f \in h.events
    PROVE  First(f, h) <=> First(f, g)
<1>1. ASSUME First(f, h)
      PROVE  First(f, g)
  <2>1. f.type = "claim.confirmed"
    BY <1>1 DEF First
  <2>2. PICK e \in h.events : First(e, g) /\ e.task = f.task /\ e.id <= f.id
    BY <2>1 DEF Fits, Follows
  <2>3. f.id <= e.id
    BY <1>1, <2>2 DEF First
  <2>4. e.id = f.id
    BY <2>2, <2>3, WholeIds
  <2>5. e = f
    BY <2>4, WholeIds
  <2> QED BY <2>2, <2>5
<1>2. ASSUME First(f, g)
      PROVE  First(f, h)
  <2> SUFFICES ASSUME NEW e \in h.events, e.type = "claim.confirmed",
                      e.task = f.task
               PROVE  f.id <= e.id
    BY <1>2 DEF First
  <2>1. PICK d \in h.events : First(d, g) /\ d.task = e.task /\ d.id <= e.id
    BY DEF Fits, Follows
  <2>2. d \in g.events /\ f \in g.events
    BY <1>2, <2>1 DEF First
  <2>3. d = f
    BY <1>2, <2>1, <2>2, FirstUnique
  <2> QED BY <2>1, <2>3
<1> QED BY <1>1, <1>2

\* A descendant of the ledger has its first confirmations.
LEMMA DescendantsHaveFirsts ==
    ASSUME NEW n, NEW ttl, NEW g, NEW h, Whole(g, n, ttl), Whole(h, n, ttl),
           Fits(h, g), Ancestor(g, h)
    PROVE  FirstsStay(g, h)
<1> SUFFICES ASSUME NEW f \in g.events, First(f, g)
             PROVE  First(f, h)
  BY DEF FirstsStay
<1>1. f.id \in h.seen
  BY WholeIds DEF Ancestor
<1>2. f \in h.events
  BY <1>1 DEF Fits, Heeds
<1> QED BY <1>2, FirstsAreTheLedgers

LEMMA WonStays ==
    ASSUME NEW g, NEW x, FirstsStay(g, x), NEW t, NEW n, Won(t, n, g)
    PROVE  Won(t, n, x)
<1>1. PICK f \in g.events : First(f, g) /\ f.task = t /\ f.id < n
  BY DEF Won
<1>2. First(f, x)
  BY <1>1 DEF FirstsStay
<1> QED BY <1>1, <1>2 DEF Won, First

\* A head fits the next ledger if it has not heard of what is first there only.
LEMMA FitsNext ==
    ASSUME NEW h, NEW g, NEW x, Fits(h, g), FirstsStay(g, x),
           \A f \in x.events :
              First(f, x) /\ f.id \in h.seen => f \in g.events /\ First(f, g)
    PROVE  Fits(h, x)
<1>1. Follows(h, x)
  <2> SUFFICES ASSUME NEW e \in h.events, e.type = "claim.confirmed"
               PROVE  \E f \in h.events :
                         First(f, x) /\ f.task = e.task /\ f.id <= e.id
    BY DEF Follows
  <2>1. PICK f \in h.events : First(f, g) /\ f.task = e.task /\ f.id <= e.id
    BY DEF Fits, Follows
  <2>2. f \in g.events
    BY <2>1 DEF First
  <2>3. First(f, x)
    BY <2>1, <2>2 DEF FirstsStay
  <2> QED BY <2>1, <2>3
<1>2. Heeds(h, x)
  BY DEF Fits, Heeds
<1>3. DoneLate(h, x)
  BY WonStays DEF Fits, DoneLate
<1> QED BY <1>1, <1>2, <1>3 DEF Fits

\* A merge refuses a confirmation only for an earlier one of the same task,
\* hence never a first one.
LEMMA FirstIsNotRefused ==
    ASSUME NEW n, NEW ttl, NEW g, NEW p, NEW q,
           Whole(g, n, ttl), Whole(p, n, ttl), Whole(q, n, ttl),
           Follows(p, g), Follows(q, g), NEW f, First(f, g)
    PROVE  f \notin Refused(p, q)
<1> SUFFICES ASSUME f \in Refused(p, q)
             PROVE  FALSE
  OBVIOUS
<1>1. PICK o \in {p, q} : \E c \in ActiveClaims(Frozen(o), f.task) :
         /\ Frozen(o).claims[c].confirmation # None
         /\ Frozen(o).claims[c].confirmation < f.id
  BY RefusalNamesAnEarlierConfirmation
<1>2. Whole(o, n, ttl) /\ Follows(o, g)
  OBVIOUS
<1>3. AreEvents(o.events)
  BY <1>2 DEF Whole, Sound
<1> DEFINE s == Fold(o.events, Expiries(o))
           v == Frozen(o)
<1>4. /\ Traced(o.events, MaxId, s)
      /\ DOMAIN v.claims = DOMAIN s.claims
      /\ \A d \in DOMAIN s.claims :
            /\ v.claims[d].task = s.claims[d].task
            /\ v.claims[d].confirmation = s.claims[d].confirmation
  BY <1>3, ReplayFacts DEF Frozen, FoldInv
<1> HIDE DEF s, v
<1>5. PICK c \in DOMAIN v.claims :
         /\ v.claims[c].task = f.task
         /\ v.claims[c].confirmation # None
         /\ v.claims[c].confirmation < f.id
  BY <1>1 DEF ActiveClaims, v
<1>6. PICK e \in o.events : /\ e.type = "claim.confirmed" /\ e.claim = c
                            /\ e.id = v.claims[c].confirmation
  BY <1>4, <1>5 DEF Traced
<1>7. e.task = f.task
  <2>1. PICK q1 \in o.events : /\ q1.type = "claim.made" /\ q1.id = c
                               /\ q1.task = f.task
    BY <1>4, <1>5 DEF Traced
  <2>2. PICK q2 \in o.events : /\ q2.type = "claim.made" /\ q2.id = c
                               /\ q2.task = e.task
    BY <1>2, <1>6 DEF Whole, NamesClaims
  <2>3. q1 = q2
    BY <1>2, <2>1, <2>2, WholeIds
  <2> QED BY <2>1, <2>2, <2>3
<1>8. PICK d \in o.events : First(d, g) /\ d.task = f.task /\ d.id <= e.id
  BY <1>2, <1>6, <1>7 DEF Follows
<1>9. d \in g.events /\ f \in g.events
  BY <1>8 DEF First
<1>10. d = f
  BY <1>8, <1>9, FirstUnique
<1>11. e.id < f.id /\ f.id <= e.id
  BY <1>5, <1>6, <1>8, <1>10
<1>12. e.id \in Nat /\ f.id \in Nat
  BY <1>2, <1>9, WholeIds
<1> QED BY <1>11, <1>12

LEMMA MergeFits ==
    ASSUME NEW n, NEW ttl, NEW g, NEW p, NEW q,
           Whole(g, n, ttl), Whole(p, n, ttl), Whole(q, n, ttl),
           Fits(p, g), Fits(q, g)
    PROVE  Fits(MergeTrees(p, q), g)
<1> DEFINE x == MergeTrees(p, q)
<1>1. /\ x.events = (p.events \cup q.events) \ Refused(p, q)
      /\ x.seen = p.seen \cup q.seen
  BY DEF MergeTrees
<1>2. \A f : First(f, g) => f \notin Refused(p, q)
  BY FirstIsNotRefused DEF Fits
<1> HIDE DEF x
<1>3. \A f \in p.events \cup q.events : First(f, g) => f \in x.events
  BY <1>1, <1>2
<1>4. Follows(x, g)
  BY <1>1, <1>3 DEF Fits, Follows
<1>5. Heeds(x, g)
  BY <1>1, <1>3 DEF Fits, Heeds
<1>6. DoneLate(x, g)
  BY <1>1 DEF Fits, DoneLate
<1> QED BY <1>4, <1>5, <1>6 DEF Fits, x

LEMMA ReconciledFirsts ==
    ASSUME NEW n, NEW ttl, NEW g, NEW p, NEW q,
           Whole(g, n, ttl), Whole(p, n, ttl), Whole(q, n, ttl),
           Fits(p, g), Fits(q, g)
    PROVE  Fits(Reconciled(p, q), g)
BY MergeFits DEF Reconciled

\* A commit without a confirmation, by an operation the ledger knows nothing
\* of.
LEMMA WrittenFirsts ==
    ASSUME NEW n, NEW ttl, NEW g, NEW h, Whole(g, n, ttl), Fits(h, g),
           NEW D, NEW L, NEW i, i \notin g.seen,
           \A e \in D : e.type # "claim.confirmed",
           \A r \in D : r.type = "run.finished" /\ r.outcome = "done" =>
              Won(r.task, r.id, g)
    PROVE  Fits(On(h, D, L, i), g)
<1> DEFINE x == On(h, D, L, i)
<1>1. x.events = h.events \cup D /\ x.seen = h.seen \cup {i}
  BY DEF On
<1> HIDE DEF x
<1>2. Follows(x, g)
  BY <1>1 DEF Fits, Follows
<1>3. Heeds(x, g)
  <2>1. \A f \in g.events : f.id # i
    BY WholeIds
  <2> QED BY <1>1, <2>1 DEF Fits, Heeds
<1>4. DoneLate(x, g)
  BY <1>1 DEF Fits, DoneLate
<1> QED BY <1>2, <1>3, <1>4 DEF Fits, x

\* The ledger moves to a commit on top of a head that descends from it.
LEMMA Landing ==
    ASSUME NEW n, NEW ttl, NEW K, NEW g \in K, NEW h \in K,
           \A k \in K : Whole(k, n, ttl) /\ Fits(k, g),
           Ancestor(g, h), NEW D, NEW L, NEW i,
           NEW n2, NEW ttl2, Whole(On(h, D, L, i), n2, ttl2),
           \A e \in D : e.type = "claim.confirmed" =>
              /\ \A q \in h.events : q.id < e.id
              /\ \A k \in K : e.id \notin k.seen,
           \A r \in D : r.type = "run.finished" /\ r.outcome = "done" =>
              Won(r.task, r.id, g)
    PROVE  /\ FirstsStay(g, On(h, D, L, i))
           /\ \A k \in K \cup {On(h, D, L, i)} : Fits(k, On(h, D, L, i))
<1> DEFINE x == On(h, D, L, i)
<1>1. x.events = h.events \cup D /\ x.seen = h.seen \cup {i}
  BY DEF On
<1>2. Whole(x, n2, ttl2)
  OBVIOUS
<1> HIDE DEF x
<1>3. \A f \in h.events : First(f, h) <=> First(f, g)
  BY FirstsAreTheLedgers
<1>4. FirstsStay(g, h)
  BY DescendantsHaveFirsts
<1>5. FirstsStay(g, x)
  <2> SUFFICES ASSUME NEW f \in g.events, First(f, g)
               PROVE  First(f, x)
    BY DEF FirstsStay
  <2>1. First(f, h) /\ f \in h.events
    BY <1>4 DEF FirstsStay, First
  <2> SUFFICES ASSUME NEW e \in x.events, e.type = "claim.confirmed",
                      e.task = f.task
               PROVE  f.id <= e.id
    BY <1>1, <2>1 DEF First
  <2>2. CASE e \in h.events
    BY <2>1, <2>2 DEF First
  <2>3. CASE e \in D
    <3>1. f.id < e.id
      BY <2>1, <2>3
    <3>2. f.id \in Nat /\ e.id \in Nat
      BY <1>2, <2>1, WholeIds
    <3> QED BY <3>1, <3>2
  <2> QED BY <1>1, <2>2, <2>3
<1>6. ASSUME NEW f \in x.events, First(f, x)
      PROVE  \/ f \in g.events /\ First(f, g)
             \/ f \in D /\ f.type = "claim.confirmed"
  <2>1. CASE f \in h.events
    <3>1. First(f, h)
      BY <1>1, <1>6, <2>1 DEF First
    <3>2. First(f, g)
      BY <1>3, <2>1, <3>1
    <3> QED BY <3>2 DEF First
  <2>2. CASE f \in D
    BY <1>6, <2>2 DEF First
  <2> QED BY <1>1, <2>1, <2>2
<1>7. ASSUME NEW k \in K
      PROVE  Fits(k, x)
  <2>1. \A f \in x.events :
           First(f, x) /\ f.id \in k.seen => f \in g.events /\ First(f, g)
    BY <1>6
  <2> QED BY <1>5, <2>1, FitsNext
<1>8. Fits(x, x)
  <2>1. Follows(x, x)
    BY <1>2, FirstExists DEF Follows
  <2>2. Heeds(x, x)
    BY DEF Heeds
  <2>3. DoneLate(x, x)
    <3> SUFFICES ASSUME NEW r \in x.events,
                        r.type = "run.finished", r.outcome = "done"
                 PROVE  Won(r.task, r.id, g)
      BY <1>5, WonStays DEF DoneLate
    <3>1. CASE r \in h.events
      BY <3>1 DEF Fits, DoneLate
    <3> QED BY <1>1, <3>1
  <2> QED BY <2>1, <2>2, <2>3 DEF Fits
<1> QED BY <1>5, <1>7, <1>8 DEF x

\* The ledger moves to a known head that descends from it.
LEMMA LedgerMoves ==
    ASSUME NEW n, NEW ttl, NEW K, NEW g \in K, NEW h \in K,
           \A k \in K : Whole(k, n, ttl) /\ Fits(k, g),
           Ancestor(g, h)
    PROVE  FirstsStay(g, h) /\ \A k \in K : Fits(k, h)
<1>1. FirstsStay(g, h)
  BY DescendantsHaveFirsts
<1>2. \A f \in h.events : First(f, h) <=> First(f, g)
  BY FirstsAreTheLedgers
<1>3. \A f \in h.events : First(f, h) => f \in g.events /\ First(f, g)
  BY <1>2 DEF First
<1> QED BY <1>1, <1>3, FitsNext

LEMMA FirstsReflexive == ASSUME NEW g PROVE FirstsStay(g, g)
BY DEF FirstsStay

\* A step to a ledger that has a confirmation of the gate's task was won.
LEMMA LandedIsWon ==
    ASSUME NEW n \in Nat, NEW ttl, NEW x, Whole(x, n, ttl),
           NEW e \in x.events, e.type = "claim.confirmed"
    PROVE  Won(e.task, n + 1, x)
<1>1. PICK f \in x.events : First(f, x) /\ f.task = e.task /\ f.id <= e.id
  BY FirstExists
<1>2. f.id \in 1 .. n
  BY WholeIds
<1>3. f.id < n + 1
  BY <1>2
<1> QED BY <1>1, <1>3 DEF Won

-----------------------------------------------------------------------------
(***************************************************************************)
(* Heads on which a claim is over only once it was late: beaten by an      *)
(* earlier claim on a head without a first winner, or made after one won.  *)
(***************************************************************************)
\* The lease of every claim on head h outlasts the behaviour, unless it was
\* released; and there are claims only up to instant last.
Leased(h, last, n) ==
    \A q \in h.events : q.type = "claim.made" =>
        /\ n <= last
        /\ ~ h.leases[q.id].released => h.leases[q.id].exp > last

\* Every tombstone on h is written by a release of its claim.
Tombs(h) ==
    \A c \in Ids : h.leases[c].released =>
        \E r, q \in h.events :
            /\ r.type = "claim.released" /\ r.id = h.leases[c].exp
            /\ IsClaim(q, r.task) /\ q.id = c /\ q.actor = r.actor
            /\ q.id < r.id

\* Who ends an attempt on h lost it, or comes after a winner.
EndsLate(h, g) ==
    \A r \in h.events : IsEnd(r) =>
        Won(r.task, r.id, g) \/ Beaten(r.actor, r.task, r.id, h.events)

\* Claim c of task t is on g, and is the first winner's or was made after that
\* one's attempt was over.
LateClaim(c, t, g) ==
    \E q, f \in g.events :
        /\ IsClaim(q, t) /\ q.id = c
        /\ First(f, g) /\ f.task = t /\ ClaimedAfter(c, f, g)

Alone(h, g) ==
    \A e \in h.events : e.type = "claim.confirmed" =>
        LateClaim(e.claim, e.task, g)

\* Who ends an attempt on h has there all it claimed before.
EndsAware(h, k) ==
    \A r \in h.events, p \in k.events :
        /\ IsEnd(r) /\ p.type = "claim.made" /\ p.actor = r.actor
        /\ p.id < r.id
        => p \in h.events

\* Nobody claims a task twice before it has a winner.
ClaimsOnce(h, k, g) ==
    \A p \in h.events, q \in k.events :
        /\ p.type = "claim.made" /\ IsClaim(q, p.task) /\ p.actor = q.actor
        /\ p.id < q.id
        => Won(q.task, q.id, g)

Sporting(h, last, n, g) ==
    Leased(h, last, n) /\ Tombs(h) /\ EndsLate(h, g) /\ Alone(h, g)

Fair(K, last, n, g) ==
    /\ \A h \in K : Sporting(h, last, n, g)
    /\ \A h, k \in K : EndsAware(h, k) /\ ClaimsOnce(h, k, g)

\* On E, somebody claimed task t before actor a ever did.
OutRun(a, t, E) ==
    \E q \in E : /\ IsClaim(q, t)
                 /\ \A p \in E : IsClaim(p, t) /\ p.actor = a => q.id < p.id

\* Ledger x has the first confirmations of g, and all else.
Extends(g, x) ==
    /\ FirstsStay(g, x)
    /\ \A e \in g.events : e.type # "claim.confirmed" => e \in x.events

LEMMA ExtendsReflexive == ASSUME NEW g PROVE Extends(g, g)
BY DEF Extends, FirstsStay

LEMMA LateStays ==
    ASSUME NEW g, NEW x, Extends(g, x), NEW c, NEW t, LateClaim(c, t, g)
    PROVE  LateClaim(c, t, x)
<1>1. PICK q \in g.events, f \in g.events :
         /\ IsClaim(q, t) /\ q.id = c
         /\ First(f, g) /\ f.task = t /\ ClaimedAfter(c, f, g)
  BY DEF LateClaim
<1>2. First(f, x) /\ f \in x.events /\ q \in x.events
  BY <1>1 DEF Extends, FirstsStay, First, IsClaim
<1>3. ClaimedAfter(c, f, x)
  BY <1>1 DEF ClaimedAfter, Extends
<1> QED BY <1>1, <1>2, <1>3 DEF LateClaim

LEMMA FewerFair ==
    ASSUME NEW K, NEW last, NEW n, NEW g, Fair(K, last, n, g),
           NEW J \in SUBSET K
    PROVE  Fair(J, last, n, g)
BY DEF Fair

\* Time passes, and the ledger grows.
LEMMA LaterFair ==
    ASSUME NEW K, NEW last, NEW n, NEW g, Fair(K, last, n, g),
           NEW k, k = n \/ k <= last, NEW x, Extends(g, x)
    PROVE  Fair(K, last, k, x)
<1>1. \A t, i : Won(t, i, g) => Won(t, i, x)
  BY WonStays DEF Extends
<1>2. \A c, t : LateClaim(c, t, g) => LateClaim(c, t, x)
  BY LateStays
<1>3. \A h \in K : Sporting(h, last, k, x)
  BY <1>1, <1>2 DEF Fair, Sporting, Leased, EndsLate, Alone
<1>4. \A h, y \in K : EndsAware(h, y) /\ ClaimsOnce(h, y, x)
  BY <1>1 DEF Fair, ClaimsOnce
<1> QED BY <1>3, <1>4 DEF Fair

\* One more head.
LEMMA OneMoreFair ==
    ASSUME NEW K, NEW last, NEW n, NEW g, Fair(K, last, n, g),
           NEW x, Sporting(x, last, n, g),
           EndsAware(x, x), ClaimsOnce(x, x, g),
           \A k \in K : /\ EndsAware(x, k) /\ EndsAware(k, x)
                        /\ ClaimsOnce(x, k, g) /\ ClaimsOnce(k, x, g)
    PROVE  Fair(K \cup {x}, last, n, g)
BY DEF Fair

\* A merged head ends no attempt that it does not have all claims of.
LEMMA MergeFair ==
    ASSUME NEW K, NEW last \in Nat, NEW n \in Nat, NEW ttl, NEW g,
           Fair(K, last, n, g), \A k \in K : Whole(k, n, ttl),
           NEW p \in K, NEW q \in K
    PROVE  Fair(K \cup {MergeTrees(p, q)}, last, n, g)
<1> DEFINE x == MergeTrees(p, q)
<1>1. /\ p.leases \in [Ids -> Lease] /\ q.leases \in [Ids -> Lease]
      /\ \A e \in p.events \cup q.events : e.id \in Ids
  BY DEF Whole, Sound, AreEvents, IsEvent
<1>2. /\ x.events \subseteq p.events \cup q.events
      /\ \A e \in p.events \cup q.events :
            e.type # "claim.confirmed" => e \in x.events
  BY MergedHead
<1>3. \A c \in Ids : /\ x.leases[c] \in {p.leases[c], q.leases[c]}
                     /\ NoOlder(x, p, c) /\ NoOlder(x, q, c)
  BY <1>1, PickedLease
<1> HIDE DEF x
<1>4. /\ Sporting(p, last, n, g) /\ Sporting(q, last, n, g)
      /\ \A h, k \in K : EndsAware(h, k) /\ ClaimsOnce(h, k, g)
  BY DEF Fair
<1>5. Leased(x, last, n)
  <2> SUFFICES ASSUME NEW c \in x.events, c.type = "claim.made"
               PROVE  /\ n <= last
                      /\ ~ x.leases[c.id].released =>
                            x.leases[c.id].exp > last
    BY DEF Leased
  <2>1. PICK h \in {p, q} : c \in h.events
    BY <1>2
  <2>2. /\ n <= last
        /\ ~ h.leases[c.id].released => h.leases[c.id].exp > last
    BY <1>4, <2>1 DEF Sporting, Leased
  <2>3. /\ NoOlder(x, h, c.id)
        /\ h.leases[c.id] \in Lease /\ x.leases[c.id] \in Lease
    BY <1>1, <1>2, <1>3
  <2>4. h.leases[c.id].exp \in Int /\ x.leases[c.id].exp \in Int
    BY <2>3, ExpiryIsInteger
  <2>5. ASSUME ~ x.leases[c.id].released
        PROVE  x.leases[c.id].exp > last
    BY <2>2, <2>3, <2>4, <2>5 DEF NoOlder, Beats
  <2> QED BY <2>2, <2>5
<1>6. Tombs(x)
  <2> SUFFICES ASSUME NEW c \in Ids, x.leases[c].released
               PROVE  \E r, d \in x.events :
                         /\ r.type = "claim.released"
                         /\ r.id = x.leases[c].exp
                         /\ IsClaim(d, r.task) /\ d.id = c
                         /\ d.actor = r.actor /\ d.id < r.id
    BY DEF Tombs
  <2>1. PICK h \in {p, q} : x.leases[c] = h.leases[c]
    BY <1>3
  <2>2. PICK r \in h.events, d \in h.events :
           /\ r.type = "claim.released" /\ r.id = h.leases[c].exp
           /\ IsClaim(d, r.task) /\ d.id = c /\ d.actor = r.actor
           /\ d.id < r.id
    BY <1>4, <2>1 DEF Sporting, Tombs
  <2>3. r \in x.events /\ d \in x.events
    BY <1>2, <2>2 DEF IsClaim
  <2> QED BY <2>1, <2>2, <2>3
<1>7. ASSUME NEW r \in x.events, IsEnd(r), NEW k \in K \cup {x},
             NEW d \in k.events, d.type = "claim.made", d.actor = r.actor,
             d.id < r.id, NEW h \in {p, q}, r \in h.events
      PROVE  d \in h.events
  <2>1. PICK y \in K : d \in y.events
    BY <1>2, <1>7
  <2>2. EndsAware(h, y)
    BY <1>4
  <2> QED BY <1>7, <2>1, <2>2 DEF EndsAware
<1>8. EndsLate(x, g)
  <2> SUFFICES ASSUME NEW r \in x.events, IsEnd(r), ~ Won(r.task, r.id, g)
               PROVE  Beaten(r.actor, r.task, r.id, x.events)
    BY DEF EndsLate
  <2>1. PICK h \in {p, q} : r \in h.events
    BY <1>2
  <2>2. Beaten(r.actor, r.task, r.id, h.events)
    BY <1>4, <2>1 DEF Sporting, EndsLate
  <2>3. PICK d \in h.events :
           /\ IsClaim(d, r.task) /\ d.id < r.id
           /\ \A y \in h.events :
                 IsClaim(y, r.task) /\ y.actor = r.actor /\ y.id < r.id =>
                    d.id < y.id
    BY <2>2 DEF Beaten
  <2>4. d \in x.events
    BY <1>2, <2>3 DEF IsClaim
  <2>5. \A y \in x.events :
           IsClaim(y, r.task) /\ y.actor = r.actor /\ y.id < r.id =>
              d.id < y.id
    BY <1>7, <2>1, <2>3 DEF IsClaim
  <2> QED BY <2>3, <2>4, <2>5 DEF Beaten
<1>9. Alone(x, g)
  BY <1>2, <1>4 DEF Sporting, Alone
<1>10. \A k \in K \cup {x} : EndsAware(x, k)
  <2> SUFFICES ASSUME NEW k \in K \cup {x}, NEW r \in x.events,
                      NEW d \in k.events, IsEnd(r), d.type = "claim.made",
                      d.actor = r.actor, d.id < r.id
               PROVE  d \in x.events
    BY DEF EndsAware
  <2>1. PICK h \in {p, q} : r \in h.events
    BY <1>2
  <2>2. d \in h.events
    BY <1>7, <2>1
  <2> QED BY <1>2, <2>2
<1>11. \A k \in K : EndsAware(k, x)
  <2>1. \A k \in K : EndsAware(k, p) /\ EndsAware(k, q)
    BY <1>4
  <2> QED BY <1>2, <2>1 DEF EndsAware
<1>12. \A h, k \in K \cup {x} : ClaimsOnce(h, k, g)
  <2>1. \A h \in K \cup {x} : \A d \in h.events : \E y \in K : d \in y.events
    BY <1>2
  <2> QED BY <1>4, <2>1 DEF ClaimsOnce
<1> QED
  BY <1>5, <1>6, <1>8, <1>9, <1>10, <1>11, <1>12, OneMoreFair
     DEF Sporting, x

LEMMA ReconciledFair ==
    ASSUME NEW K, NEW last \in Nat, NEW n \in Nat, NEW ttl, NEW g,
           Fair(K, last, n, g), \A k \in K : Whole(k, n, ttl),
           NEW p \in K, NEW q \in K
    PROVE  Fair(K \cup {Reconciled(p, q)}, last, n, g)
<1>1. Fair(K \cup {MergeTrees(p, q)}, last, n, g)
  BY MergeFair
<1>2. Reconciled(p, q) \in K \cup {MergeTrees(p, q)}
  BY DEF Reconciled
<1>3. K \cup {Reconciled(p, q)} \in SUBSET (K \cup {MergeTrees(p, q)})
  BY <1>2
<1> HIDE DEF Reconciled, MergeTrees
<1> QED BY <1>1, <1>3, FewerFair

\* What actor a's machine may commit at instant i on top of head h: claims of
\* a task that a has not claimed before or that was won, endings of attempts
\* that a lost, and tombstones and leases as Leased and Tombs have them.
Sportsmanlike(h, a, D, L, i, last, g) ==
    /\ \A e \in D :
          /\ e.id = i /\ e.actor = a
          /\ e.type = "claim.made" \/ IsEnd(e)
          /\ IsEnd(e) => Won(e.task, i, g) \/ OutRun(a, e.task, h.events)
          /\ e.type = "claim.made" =>
                /\ ~ L[i].released /\ L[i].exp > last
                /\ \A q \in h.events :
                      IsClaim(q, e.task) /\ q.actor = a => Won(e.task, i, g)
    /\ \A c \in Ids :
          \/ L[c] = h.leases[c]
          \/ ~ L[c].released /\ L[c].exp > last
          \/ /\ L[c].released /\ L[c].exp = i
             /\ \E r \in D, q \in h.events :
                   /\ r.type = "claim.released"
                   /\ IsClaim(q, r.task) /\ q.id = c /\ q.actor = a

LEMMA WrittenFair ==
    ASSUME NEW K, NEW last \in Nat, NEW n \in Nat, n + 1 <= last,
           NEW ttl, NEW g,
           Fair(K, last, n, g), \A k \in K : Whole(k, n, ttl),
           NEW h \in K, NEW a,
           \A k \in K : \A e \in k.events :
              e.type = "claim.made" /\ e.actor = a => e \in h.events,
           NEW D, NEW L, Sportsmanlike(h, a, D, L, n + 1, last, g)
    PROVE  Fair(K \cup {On(h, D, L, n + 1)}, last, n + 1, g)
<1> DEFINE i == n + 1
           x == On(h, D, L, i)
<1>1. x.events = h.events \cup D /\ x.leases = L
  BY DEF On
<1>2. /\ \A k \in K : \A e \in k.events : e.id \in 1 .. n /\ e.id \in Ids
      /\ i \in Nat /\ i <= last /\ ~ (i < i)
  BY WholeIds DEF Whole, Sound, AreEvents, IsEvent
<1>3. \A k \in K : \A e \in k.events : e.id < i /\ ~ (i < e.id)
  BY <1>2
<1>4. Fair(K, last, i, g)
  BY <1>2, LaterFair, ExtendsReflexive
<1>5. /\ Sporting(h, last, i, g)
      /\ \A k, y \in K : EndsAware(k, y) /\ ClaimsOnce(k, y, g)
  BY <1>4 DEF Fair
<1>6. /\ \A e \in D :
            /\ e.id = i /\ e.actor = a
            /\ e.type = "claim.made" \/ IsEnd(e)
            /\ IsEnd(e) => Won(e.task, i, g) \/ OutRun(a, e.task, h.events)
            /\ e.type = "claim.made" =>
                  /\ ~ L[i].released /\ L[i].exp > last
                  /\ \A q \in h.events :
                        IsClaim(q, e.task) /\ q.actor = a => Won(e.task, i, g)
      /\ \A c \in Ids :
            \/ L[c] = h.leases[c]
            \/ ~ L[c].released /\ L[c].exp > last
            \/ /\ L[c].released /\ L[c].exp = i
               /\ \E r \in D, q \in h.events :
                     /\ r.type = "claim.released"
                     /\ IsClaim(q, r.task) /\ q.id = c /\ q.actor = a
  BY DEF Sportsmanlike
<1> HIDE DEF x, i
<1>7. Leased(x, last, i)
  <2> SUFFICES ASSUME NEW q \in x.events, q.type = "claim.made",
                      ~ L[q.id].released
               PROVE  L[q.id].exp > last
    BY <1>1, <1>2 DEF Leased
  <2>1. CASE q \in D
    BY <1>6, <2>1
  <2>2. CASE q \in h.events
    BY <1>2, <1>5, <1>6, <2>2 DEF Sporting, Leased
  <2> QED BY <1>1, <2>1, <2>2
<1>8. Tombs(x)
  <2> SUFFICES ASSUME NEW c \in Ids, L[c].released
               PROVE  \E r, q \in x.events :
                         /\ r.type = "claim.released" /\ r.id = L[c].exp
                         /\ IsClaim(q, r.task) /\ q.id = c
                         /\ q.actor = r.actor /\ q.id < r.id
    BY <1>1 DEF Tombs
  <2>1. CASE L[c] = h.leases[c]
    <3>1. \E r, q \in h.events :
             /\ r.type = "claim.released" /\ r.id = L[c].exp
             /\ IsClaim(q, r.task) /\ q.id = c
             /\ q.actor = r.actor /\ q.id < r.id
      BY <1>5, <2>1 DEF Sporting, Tombs
    <3> QED BY <1>1, <3>1
  <2>2. CASE L[c] # h.leases[c]
    <3>1. L[c].exp = i
      BY <1>6, <2>2
    <3>2. PICK r \in D, q \in h.events :
             /\ r.type = "claim.released"
             /\ IsClaim(q, r.task) /\ q.id = c /\ q.actor = a
      BY <1>6, <2>2
    <3>3. r.id = i /\ r.actor = a /\ q.id < i
      BY <1>3, <1>6, <3>2
    <3> QED BY <1>1, <3>1, <3>2, <3>3
  <2> QED BY <2>1, <2>2
<1>9. \A k \in K : \A e \in k.events :
         e.type = "claim.made" /\ e.actor = a => e \in h.events
  OBVIOUS
<1>10. EndsAware(x, x) /\ \A k \in K : EndsAware(x, k) /\ EndsAware(k, x)
  <2>1. ASSUME NEW r \in x.events, NEW k \in K \cup {x}, NEW p \in k.events,
               IsEnd(r), p.type = "claim.made", p.actor = r.actor,
               p.id < r.id
        PROVE  p \in h.events
    <3>1. CASE r \in D
      <4>1. p \notin D
        BY <1>2, <1>6, <2>1, <3>1
      <4>2. \E y \in K : p \in y.events
        BY <1>1, <2>1, <4>1
      <4> QED BY <1>6, <1>9, <2>1, <3>1, <4>2
    <3>2. CASE r \in h.events
      <4>1. p \notin D
        BY <1>3, <1>6, <2>1, <3>2
      <4>2. \E y \in K : p \in y.events
        BY <1>1, <2>1, <4>1
      <4> QED BY <1>5, <2>1, <3>2, <4>2 DEF EndsAware
    <3> QED BY <1>1, <2>1, <3>1, <3>2
  <2>2. ASSUME NEW k \in K, NEW r \in k.events, NEW p \in x.events,
               IsEnd(r), p.type = "claim.made", p.actor = r.actor,
               p.id < r.id
        PROVE  p \in k.events
    <3>1. p \notin D
      BY <1>3, <1>6, <2>2
    <3> QED BY <1>1, <1>5, <2>2, <3>1 DEF EndsAware
  <2>3. \A k \in K \cup {x} : EndsAware(x, k)
    BY <1>1, <2>1 DEF EndsAware
  <2>4. \A k \in K : EndsAware(k, x)
    BY <2>2 DEF EndsAware
  <2> QED BY <2>3, <2>4
<1>11. EndsLate(x, g)
  <2> SUFFICES ASSUME NEW r \in x.events, IsEnd(r), ~ Won(r.task, r.id, g)
               PROVE  Beaten(r.actor, r.task, r.id, x.events)
    BY DEF EndsLate
  <2>1. \A p \in x.events :
           p.type = "claim.made" /\ p.actor = r.actor /\ p.id < r.id =>
              p \in h.events
    <3>1. CASE r \in D
      BY <1>1, <1>2, <1>6, <3>1
    <3>2. CASE r \in h.events
      BY <1>1, <1>3, <1>6, <3>2
    <3> QED BY <1>1, <3>1, <3>2
  <2>2. \E d \in h.events :
           /\ IsClaim(d, r.task) /\ d.id < r.id
           /\ \A p \in h.events :
                 IsClaim(p, r.task) /\ p.actor = r.actor /\ p.id < r.id =>
                    d.id < p.id
    <3>1. CASE r \in D
      <4>1. OutRun(a, r.task, h.events) /\ r.id = i /\ r.actor = a
        BY <1>6, <3>1
      <4> QED BY <1>3, <4>1 DEF OutRun
    <3>2. CASE r \in h.events
      <4>1. Beaten(r.actor, r.task, r.id, h.events)
        BY <1>5, <3>2 DEF Sporting, EndsLate
      <4> QED BY <4>1 DEF Beaten
    <3> QED BY <1>1, <3>1, <3>2
  <2> QED BY <1>1, <2>1, <2>2 DEF Beaten, IsClaim
<1>12. Alone(x, g)
  BY <1>1, <1>5, <1>6 DEF Sporting, Alone, IsEnd
<1>13. ClaimsOnce(x, x, g) /\ \A k \in K : ClaimsOnce(x, k, g) /\ ClaimsOnce(k, x, g)
  <2>1. ASSUME NEW k \in K \cup {x}, NEW y \in K \cup {x},
               NEW p \in k.events, NEW q \in y.events,
               p.type = "claim.made", IsClaim(q, p.task),
               p.actor = q.actor, p.id < q.id
        PROVE  Won(q.task, q.id, g)
    <3>1. CASE q \in D
      <4>1. p \notin D
        BY <1>2, <1>6, <2>1, <3>1
      <4>2. \E z \in K : p \in z.events
        BY <1>1, <2>1, <4>1
      <4>3. q.actor = a /\ q.id = i /\ q.type = "claim.made"
        BY <1>6, <2>1, <3>1 DEF IsClaim
      <4>4. p \in h.events /\ IsClaim(p, q.task)
        BY <1>9, <2>1, <4>2, <4>3 DEF IsClaim
      <4> QED BY <1>6, <2>1, <3>1, <4>3, <4>4
    <3>2. CASE q \notin D
      <4>1. PICK z \in K : q \in z.events
        BY <1>1, <2>1, <3>2
      <4>2. p \notin D
        BY <1>3, <1>6, <2>1, <4>1
      <4>3. PICK w \in K : p \in w.events
        BY <1>1, <2>1, <4>2
      <4> QED BY <1>5, <2>1, <4>1, <4>3 DEF ClaimsOnce
    <3> QED BY <3>1, <3>2
  <2> QED BY <2>1 DEF ClaimsOnce
<1>14. Sporting(x, last, i, g)
  BY <1>7, <1>8, <1>11, <1>12 DEF Sporting
<1>15. Fair(K \cup {x}, last, i, g)
  BY <1>4, <1>10, <1>13, <1>14, OneMoreFair
<1> QED BY <1>15 DEF x, i

LEMMA TombsGrow ==
    ASSUME NEW h, NEW k, k.leases = h.leases, h.events \subseteq k.events,
           Tombs(h)
    PROVE  Tombs(k)
<1> SUFFICES ASSUME NEW c \in Ids, k.leases[c].released
             PROVE  \E r, q \in k.events :
                       /\ r.type = "claim.released"
                       /\ r.id = k.leases[c].exp
                       /\ IsClaim(q, r.task) /\ q.id = c
                       /\ q.actor = r.actor /\ q.id < r.id
  BY DEF Tombs
<1>1. h.leases[c].released
  OBVIOUS
<1>2. PICK r \in h.events, q \in h.events :
         /\ r.type = "claim.released"
         /\ r.id = h.leases[c].exp
         /\ IsClaim(q, r.task) /\ q.id = c
         /\ q.actor = r.actor /\ q.id < r.id
  BY <1>1 DEF Tombs
<1>3. r \in k.events /\ q \in k.events /\ r.id = k.leases[c].exp
  BY <1>2
<1> QED BY <1>2, <1>3

\* The confirmation that a gate carries lands, on top of a head that knew a
\* first winner only if that one's attempt was over.
LEMMA LandedFair ==
    ASSUME NEW K, NEW last \in Nat, NEW n \in Nat, NEW ttl, NEW g,
           Fair(K, last, n, g), \A k \in K : Whole(k, n, ttl),
           NEW h \in K, NEW e, e.type = "claim.confirmed",
           \A f \in h.events : First(f, h) /\ f.task = e.task =>
              ClaimedAfter(e.claim, f, h),
           NEW i, NEW x, x = On(h, {e}, h.leases, i), Whole(x, n, ttl),
           Extends(g, x)
    PROVE  /\ LateClaim(e.claim, e.task, x)
           /\ Fair(K \cup {x}, last, n, x)
<1>1. /\ x.events = h.events \cup {e} /\ x.leases = h.leases
  BY DEF On
<1>2. Fair(K, last, n, x)
  BY LaterFair
<1>3. /\ Sporting(h, last, n, x)
      /\ \A k, y \in K : EndsAware(k, y) /\ ClaimsOnce(k, y, x)
  BY <1>2 DEF Fair
<1>4. LateClaim(e.claim, e.task, x)
  <2>1. PICK f \in x.events : First(f, x) /\ f.task = e.task
    BY <1>1, FirstExists
  <2>2. PICK q \in x.events : IsClaim(q, e.task) /\ q.id = e.claim
    <3>1. e \in x.events /\ NamesClaims(x.events)
      BY <1>1 DEF Whole
    <3> QED BY <3>1 DEF NamesClaims, IsClaim
  <2>3. CASE f \in h.events
    <3>1. First(f, h)
      BY <1>1, <2>1, <2>3 DEF First
    <3>2. ClaimedAfter(e.claim, f, x)
      BY <1>1, <2>1, <2>3, <3>1 DEF ClaimedAfter
    <3> QED BY <2>1, <2>2, <3>2 DEF LateClaim
  <2>4. CASE f = e
    <3>1. ClaimedAfter(e.claim, f, x)
      BY <2>4 DEF ClaimedAfter
    <3> QED BY <2>1, <2>2, <3>1 DEF LateClaim
  <2> QED BY <1>1, <2>1, <2>3, <2>4
<1>5. ~ IsEnd(e) /\ e.type # "claim.made"
  BY DEF IsEnd
<1>6. Leased(x, last, n)
  <2>1. Leased(h, last, n)
    BY <1>3 DEF Sporting
  <2> QED BY <1>1, <1>5, <2>1 DEF Leased
<1>7. Tombs(x)
  <2>1. Tombs(h)
    BY <1>3 DEF Sporting
  <2> QED BY <1>1, <2>1, TombsGrow
<1>11. EndsLate(x, x)
  <2> SUFFICES ASSUME NEW r \in x.events, IsEnd(r)
               PROVE  \/ Won(r.task, r.id, x)
                      \/ Beaten(r.actor, r.task, r.id, x.events)
    BY DEF EndsLate
  <2>1. r \in h.events
    BY <1>1, <1>5
  <2>2. Won(r.task, r.id, x) \/ Beaten(r.actor, r.task, r.id, h.events)
    BY <1>3, <2>1 DEF Sporting, EndsLate
  <2>3. \A q \in x.events : IsClaim(q, r.task) => q \in h.events
    BY <1>1, <1>5 DEF IsClaim
  <2> QED BY <1>1, <2>2, <2>3 DEF Beaten
<1>8. Alone(x, x)
  BY <1>1, <1>3, <1>4 DEF Sporting, Alone
<1>9. EndsAware(x, x) /\ \A k \in K : EndsAware(x, k) /\ EndsAware(k, x)
  BY <1>1, <1>3, <1>5 DEF EndsAware
<1>10. ClaimsOnce(x, x, x) /\ \A k \in K : ClaimsOnce(x, k, x) /\ ClaimsOnce(k, x, x)
  BY <1>1, <1>3, <1>5 DEF ClaimsOnce, IsClaim
<1> QED
  BY <1>2, <1>4, <1>6, <1>7, <1>8, <1>9, <1>10, <1>11, OneMoreFair
     DEF Sporting

-----------------------------------------------------------------------------
(***************************************************************************)
(* A head that a single machine commits its events on.                     *)
(***************************************************************************)
Certified(h, g) ==
    \A r \in h.events : r.type = "run.finished" /\ r.outcome = "done" =>
        \E e \in g.events : /\ e.type = "claim.confirmed"
                            /\ e.claim = r.claim /\ e.id < r.id

\* A head folds to a state with the facts.
LEMMA HeadFolds ==
    ASSUME NEW h, NEW n, NEW ttl, Whole(h, n, ttl)
    PROVE  LET s == Fold(h.events, Expiries(h))
           IN  /\ Sound(h.events) /\ NamesClaims(h.events)
               /\ FoldInv(h.events, MaxId, s) /\ IsState(s) /\ Holds(s)
               /\ s = States(h.events, Expiries(h))[MaxId]
               /\ ~ s.error
               /\ MaxId \in Nat
               /\ \A e \in h.events : e.id \in 1 .. MaxId
               /\ \A e, p \in h.events :
                     e.type = "claim.confirmed" /\ p.id = e.claim =>
                        p.actor = e.actor
<1> DEFINE E == h.events
           lv == Expiries(h)
<1>1. Sound(E) /\ NamesClaims(E) /\ AreEvents(E)
  BY DEF Whole, Sound
<1>2. MaxId \in Nat /\ \A e \in E : e.id \in 1 .. MaxId
  BY <1>1, ReplayAssumption DEF AreEvents, IsEvent, Ids
<1>3. \A e, p \in E :
         e.type = "claim.confirmed" /\ p.id = e.claim => p.actor = e.actor
  <2> SUFFICES ASSUME NEW e \in E, NEW p \in E,
                      e.type = "claim.confirmed", p.id = e.claim
               PROVE  p.actor = e.actor
    OBVIOUS
  <2>1. PICK q \in E : q.id = e.claim /\ q.actor = e.actor
    BY <1>1 DEF NamesClaims
  <2>2. p = q
    BY <2>1, WholeIds
  <2> QED BY <2>1, <2>2
<1>4. FoldInv(E, MaxId, Fold(E, lv))
  BY <1>1, FoldKeeps
<1>5. ~ Fold(E, lv).error
  BY <1>1, SoundLedgersReplay
<1>6. Fold(E, lv) = States(E, lv)[MaxId]
  BY FoldIsLastState
<1>7. IsState(Fold(E, lv)) /\ Holds(Fold(E, lv))
  BY <1>4 DEF FoldInv
<1> QED BY <1>1, <1>2, <1>3, <1>4, <1>5, <1>6, <1>7

\* Claims by id: one event.
LEMMA ClaimedBy ==
    ASSUME NEW h, NEW n, NEW ttl, Whole(h, n, ttl),
           NEW e \in h.events, e.type \in {"claim.confirmed", "run.finished"}
    PROVE  \E q \in h.events : /\ IsClaim(q, e.task) /\ q.id = e.claim
                               /\ q.id < e.id /\ q.actor = e.actor
BY DEF Whole, NamesClaims, IsClaim

\* Claim c, of actor a on task t, was over at instant k, as head h tells: its
\* lease had lapsed, or its actor had given the task back or reported on it.
Over(h, c, t, a, k) ==
    \/ h.leases[c].exp <= k
    \/ \E x \in h.events : EndsOf(x, a, t) /\ c <= x.id /\ x.id <= k

\* State s, the fold of head h, shows the latest claim of a task as its
\* holder, and no claim as ended whose hold was not over at instant n.
Newest(h, s) ==
    \A t \in Tasks : s.holder[t] # None =>
        \A q \in h.events : IsClaim(q, t) => q.id <= s.holder[t]

Spent(h, s, n) ==
    \A c \in DOMAIN s.claims : s.claims[c].status # "active" =>
        /\ s.claims[c].status # "voided"
        /\ Over(h, c, s.claims[c].task, s.claims[c].actor, n)

\* Of two claims of a task the earlier one's hold was over when the later one
\* was made.
Apart(h) ==
    \A p, q \in h.events :
        IsClaim(p, q.task) /\ q.type = "claim.made" /\ p.id < q.id =>
            Over(h, p.id, p.task, p.actor, q.id)

Solo(h, n) ==
    /\ Newest(h, Fold(h.events, Expiries(h)))
    /\ Spent(h, Fold(h.events, Expiries(h)), n)
    /\ Apart(h)
    /\ Certified(h, h)

\* What the fold of a head has of its claims.
LEMMA HeadClaims ==
    ASSUME NEW h, NEW n \in Nat, NEW ttl, Whole(h, n, ttl),
           NEW s, s = Fold(h.events, Expiries(h))
    PROVE  /\ IsState(s) /\ ~ s.error /\ DOMAIN s.holder = Tasks
           /\ \A t \in Tasks : s.holder[t] # None =>
                 /\ s.holder[t] \in DOMAIN s.claims
                 /\ s.claims[s.holder[t]].task = t
                 /\ s.claims[s.holder[t]].status = "active"
           /\ \A c \in DOMAIN s.claims :
                 /\ c \in Ids /\ c \in Nat /\ c <= n /\ c # None
                 /\ s.claims[c] \in ClaimRecord
                 /\ s.claims[c].task \in Tasks
                 /\ s.claims[c].status = "active" =>
                       s.holder[s.claims[c].task] = c
                 /\ \E q \in h.events :
                       /\ IsClaim(q, s.claims[c].task) /\ q.id = c
                       /\ q.actor = s.claims[c].actor
           /\ \A q \in h.events : q.type = "claim.made" =>
                 /\ q.id \in DOMAIN s.claims
                 /\ s.claims[q.id].task = q.task
                 /\ s.claims[q.id].actor = q.actor
<1>1. /\ Sound(h.events) /\ FoldInv(h.events, MaxId, s) /\ IsState(s)
      /\ Holds(s) /\ ~ s.error /\ MaxId \in Nat
      /\ \A e \in h.events : e.id \in 1 .. MaxId
  BY HeadFolds
<1>2. Traced(h.events, MaxId, s) /\ Recorded(h.events, MaxId, s)
  BY <1>1 DEF FoldInv
<1>3. \A e \in h.events : e.id \in 1 .. n
  BY DEF Whole
<1>4. \A e, f \in h.events : e.id = f.id => e = f
  BY <1>1 DEF Sound, AreEvents
<1>5. \A c \in DOMAIN s.claims : \E q \in h.events :
         /\ IsClaim(q, s.claims[c].task) /\ q.id = c
         /\ q.actor = s.claims[c].actor
  BY <1>2 DEF Traced, IsClaim
<1>6. \A c \in DOMAIN s.claims :
         /\ c \in Ids /\ c \in Nat /\ c <= n /\ c # None
         /\ s.claims[c] \in ClaimRecord /\ s.claims[c].task \in Tasks
  <2> SUFFICES ASSUME NEW c \in DOMAIN s.claims
               PROVE  /\ c \in Ids /\ c \in Nat /\ c <= n /\ c # None
                      /\ s.claims[c] \in ClaimRecord
                      /\ s.claims[c].task \in Tasks
    OBVIOUS
  <2>1. PICK q \in h.events : q.id = c
    BY <1>5
  <2>2. s.claims[c] \in ClaimRecord
    BY <1>1 DEF IsState, IsMap
  <2>3. c \in 1 .. n /\ c \in 1 .. MaxId
    BY <1>1, <1>3, <2>1
  <2>4. s.claims[c].task \in Tasks
    BY <2>2 DEF ClaimRecord
  <2> QED BY <1>1, <2>2, <2>3, <2>4 DEF Ids, None
<1>7. \A q \in h.events : q.type = "claim.made" =>
         /\ q.id \in DOMAIN s.claims
         /\ s.claims[q.id].task = q.task
         /\ s.claims[q.id].actor = q.actor
  <2> SUFFICES ASSUME NEW q \in h.events, q.type = "claim.made"
               PROVE  /\ q.id \in DOMAIN s.claims
                      /\ s.claims[q.id].task = q.task
                      /\ s.claims[q.id].actor = q.actor
    OBVIOUS
  <2>1. q.id \in DOMAIN s.claims
    BY <1>1, <1>2 DEF Recorded
  <2>2. PICK p \in h.events : /\ IsClaim(p, s.claims[q.id].task)
                              /\ p.id = q.id
                              /\ p.actor = s.claims[q.id].actor
    BY <1>5, <2>1
  <2>3. p = q
    BY <1>4, <2>2
  <2> QED BY <2>1, <2>2, <2>3 DEF IsClaim
<1>8. DOMAIN s.holder = Tasks
  BY <1>1 DEF IsState
<1> QED BY <1>1, <1>5, <1>6, <1>7, <1>8 DEF Holds

LEMMA OverStays ==
    ASSUME NEW h, NEW x, h.events \subseteq x.events,
           NEW c, NEW t, NEW a, NEW k \in Nat, NEW m \in Nat, k <= m,
           h.leases[c].exp \in Int, x.leases[c].exp \in Int,
           x.leases[c].exp <= h.leases[c].exp,
           \A e \in h.events : e.id \in Nat,
           Over(h, c, t, a, k)
    PROVE  Over(x, c, t, a, m)
<1>1. CASE h.leases[c].exp <= k
  <2>1. x.leases[c].exp <= m
    BY <1>1
  <2> QED BY <2>1 DEF Over
<1>2. CASE \E e \in h.events : EndsOf(e, a, t) /\ c <= e.id /\ e.id <= k
  <2>1. PICK e \in h.events : EndsOf(e, a, t) /\ c <= e.id /\ e.id <= k
    BY <1>2
  <2>2. e \in x.events /\ e.id <= m
    BY <2>1
  <2> QED BY <2>1, <2>2 DEF Over
<1> QED BY <1>1, <1>2 DEF Over

\* From head h, with state s, to a head x with state s2 that descends from
\* it: leases are extended of holders only, claims end when they are over,
\* whoever holds a task made the latest claim of it, and a claim is new only
\* when all others of its task are over.
Spares(h, s, x) ==
    \A c \in DOMAIN s.claims :
        \/ s.claims[c].status = "active"
        \/ x.leases[c].exp <= h.leases[c].exp

EndsOver(x, s, s2, m) ==
    \A c \in DOMAIN s2.claims :
        \/ s2.claims[c].status = "active"
        \/ /\ c \in DOMAIN s.claims
           /\ s2.claims[c].task = s.claims[c].task
           /\ s2.claims[c].actor = s.claims[c].actor
           /\ \/ s2.claims[c].status = s.claims[c].status
              \/ /\ s2.claims[c].status # "voided"
                 /\ Over(x, c, s.claims[c].task, s.claims[c].actor, m)

Passes(h, x, s, s2) ==
    \A t \in Tasks : s2.holder[t] # None =>
        \/ /\ s2.holder[t] = s.holder[t]
           /\ \A q \in x.events : IsClaim(q, t) => q \in h.events
        \/ \A q \in x.events : IsClaim(q, t) => q.id <= s2.holder[t]

FollowsOver(h, x) ==
    \A p, q \in x.events :
        IsClaim(p, q.task) /\ q.type = "claim.made" /\ p.id < q.id =>
            \/ p \in h.events /\ q \in h.events
            \/ Over(x, p.id, p.task, p.actor, q.id)

LEMMA SoloStep ==
    ASSUME NEW h, NEW n \in Nat, NEW ttl, Whole(h, n, ttl), Solo(h, n),
           NEW x, NEW m \in Nat, NEW ttl2, Whole(x, m, ttl2), n <= m,
           NEW s, s = Fold(h.events, Expiries(h)),
           NEW s2, s2 = Fold(x.events, Expiries(x)),
           h.events \subseteq x.events, Spares(h, s, x),
           EndsOver(x, s, s2, m), Passes(h, x, s, s2), FollowsOver(h, x),
           Certified(x, x)
    PROVE  Solo(x, m)
<1>1. /\ Newest(h, s) /\ Spent(h, s, n) /\ Apart(h)
  BY DEF Solo
<1>2. /\ \A t \in Tasks : s.holder[t] # None =>
            /\ s.holder[t] \in DOMAIN s.claims
            /\ s.claims[s.holder[t]].task = t
            /\ s.claims[s.holder[t]].status = "active"
      /\ \A c \in DOMAIN s.claims :
            /\ c \in Ids /\ c \in Nat /\ c <= n /\ c # None
            /\ s.claims[c].task \in Tasks
            /\ s.claims[c].status = "active" =>
                  s.holder[s.claims[c].task] = c
      /\ \A q \in h.events : q.type = "claim.made" =>
            /\ q.id \in DOMAIN s.claims
            /\ s.claims[q.id].task = q.task
            /\ s.claims[q.id].actor = q.actor
  BY HeadClaims, SMTT(60)
<1>3. /\ \A c \in Ids : h.leases[c].exp \in Int /\ x.leases[c].exp \in Int
      /\ \A e \in h.events : e.id \in Nat
  <2>1. h.leases \in [Ids -> Lease] /\ x.leases \in [Ids -> Lease]
    BY DEF Whole
  <2>2. \A e \in h.events : e.id \in 1 .. n
    BY DEF Whole
  <2> QED BY <2>1, <2>2, ExpiryIsInteger
<1>4. Spent(x, s2, m)
  <2> SUFFICES ASSUME NEW c \in DOMAIN s2.claims,
                      s2.claims[c].status # "active"
               PROVE  /\ s2.claims[c].status # "voided"
                      /\ Over(x, c, s2.claims[c].task, s2.claims[c].actor, m)
    BY DEF Spent
  <2>1. /\ c \in DOMAIN s.claims
        /\ s2.claims[c].task = s.claims[c].task
        /\ s2.claims[c].actor = s.claims[c].actor
        /\ \/ s2.claims[c].status = s.claims[c].status
           \/ /\ s2.claims[c].status # "voided"
              /\ Over(x, c, s.claims[c].task, s.claims[c].actor, m)
    BY DEF EndsOver
  <2>2. CASE s2.claims[c].status = s.claims[c].status
    <3> DEFINE t == s.claims[c].task
               a == s.claims[c].actor
    <3>1. s.claims[c].status # "voided" /\ Over(h, c, t, a, n)
      BY <1>1, <2>1, <2>2 DEF Spent
    <3>2. x.leases[c].exp <= h.leases[c].exp
      BY <2>1, <2>2 DEF Spares
    <3>3. h.leases[c].exp \in Int /\ x.leases[c].exp \in Int
      BY <1>2, <1>3, <2>1
    <3> HIDE DEF t, a
    <3>4. Over(x, c, t, a, m)
      BY <1>3, <3>1, <3>2, <3>3, OverStays
    <3> QED BY <2>1, <2>2, <3>1, <3>4 DEF t, a
  <2> QED BY <2>1, <2>2
<1>5. Newest(x, s2)
  <2> SUFFICES ASSUME NEW t \in Tasks, s2.holder[t] # None,
                      NEW q \in x.events, IsClaim(q, t)
               PROVE  q.id <= s2.holder[t]
    BY DEF Newest
  <2>1. CASE s2.holder[t] = s.holder[t] /\ q \in h.events
    BY <1>1, <2>1 DEF Newest
  <2> QED BY <2>1 DEF Passes
<1>6. Apart(x)
  <2> SUFFICES ASSUME NEW p \in x.events, NEW q \in x.events,
                      IsClaim(p, q.task), q.type = "claim.made", p.id < q.id
               PROVE  Over(x, p.id, p.task, p.actor, q.id)
    BY DEF Apart
  <2>1. CASE p \in h.events /\ q \in h.events
    <3>1. Over(h, p.id, p.task, p.actor, q.id)
      BY <1>1, <2>1 DEF Apart
    <3>2. /\ p.id \in DOMAIN s.claims /\ s.claims[p.id].task = p.task
          /\ p.id \in Ids /\ p.task \in Tasks /\ p.task = q.task
          /\ p.id # None
      BY <1>2, <2>1 DEF IsClaim
    <3>3. s.claims[p.id].status # "active"
      <4> SUFFICES ASSUME s.claims[p.id].status = "active"
                   PROVE  FALSE
        OBVIOUS
      <4>1. s.holder[p.task] = p.id
        BY <1>2, <3>2
      <4>2. q.id <= p.id
        BY <1>1, <2>1, <3>2, <4>1 DEF Newest, IsClaim
      <4>3. p.id \in Nat /\ q.id \in Nat
        BY <1>3, <2>1
      <4> QED BY <4>2, <4>3
    <3>4. x.leases[p.id].exp <= h.leases[p.id].exp
      BY <3>2, <3>3 DEF Spares
    <3>5. /\ h.leases[p.id].exp \in Int /\ x.leases[p.id].exp \in Int
          /\ q.id \in Nat /\ q.id <= q.id
      BY <1>3, <2>1, <3>2
    <3> QED BY <1>3, <3>1, <3>4, <3>5, OverStays
  <2> QED BY <2>1 DEF FollowsOver
<1> QED BY <1>4, <1>5, <1>6 DEF Solo

\* Leases of claims up to n are as they were, or ran at n and still do.
Spared(h, L, n) ==
    \A c \in Ids : c <= n =>
        \/ L[c].exp = h.leases[c].exp
        \/ n < L[c].exp /\ n < h.leases[c].exp

LEMMA SparedLapses ==
    ASSUME NEW h, NEW n \in Nat, h.leases \in [Ids -> Lease],
           NEW x, x.leases \in [Ids -> Lease], Spared(h, x.leases, n),
           IdsPerTick = 1
    PROVE  SameLapses(Expiries(h), Expiries(x), n)
<1> SUFFICES ASSUME NEW i \in 0 .. n, NEW c \in Ids, c <= n
             PROVE  LeaseExpiredBy(Expiries(h), c, IDTime(i))
                    <=> LeaseExpiredBy(Expiries(x), c, IDTime(i))
  BY DEF SameLapses
<1>1. i \in Nat /\ i <= n /\ IDTime(i) = i
  BY DEF IDTime
<1>2. /\ Expiries(h)[c] = h.leases[c].exp /\ Expiries(x)[c] = x.leases[c].exp
      /\ h.leases[c].exp \in Int /\ x.leases[c].exp \in Int
  BY ExpiryIsInteger DEF Expiries
<1>3. \/ x.leases[c].exp = h.leases[c].exp
      \/ n < x.leases[c].exp /\ n < h.leases[c].exp
  BY DEF Spared
<1>4. h.leases[c].exp <= i <=> x.leases[c].exp <= i
  BY <1>1, <1>2, <1>3
<1> QED BY <1>1, <1>2, <1>4 DEF LeaseExpiredBy

\* x is head h with event e, the latest of all, and leases that are spared.
Sequel(h, n, ttl, x, ttl2, e) ==
    /\ IdsPerTick = 1 /\ n \in Nat /\ n + 1 \in Ids
    /\ Whole(h, n, ttl) /\ Whole(x, n + 1, ttl2)
    /\ e.id = n + 1 /\ x.events = h.events \cup {e}
    /\ Spared(h, x.leases, n)

LEMMA SequelFacts ==
    ASSUME NEW h, NEW n, NEW ttl, NEW x, NEW ttl2, NEW e,
           Sequel(h, n, ttl, x, ttl2, e),
           NEW s, s = Fold(h.events, Expiries(h)),
           NEW s2, s2 = Fold(x.events, Expiries(x))
    PROVE  /\ s2 = Apply(s, Expiries(x), e)
           /\ IsState(s) /\ IsState(s2) /\ ~ s.error /\ ~ s2.error
           /\ IsEvent(e) /\ n \in Nat /\ n + 1 \in Nat /\ n < n + 1
           /\ \A q \in h.events : q.id \in Nat /\ q.id <= n
           /\ \A c \in Ids :
                 h.leases[c].exp \in Int /\ x.leases[c].exp \in Int
<1>1. /\ n \in Nat /\ n + 1 \in 1 .. MaxId /\ Whole(h, n, ttl)
      /\ Whole(x, n + 1, ttl2) /\ e.id = n + 1
      /\ x.events = h.events \cup {e} /\ Spared(h, x.leases, n)
      /\ IdsPerTick = 1
  BY DEF Sequel, Ids
<1>2. /\ h.leases \in [Ids -> Lease] /\ x.leases \in [Ids -> Lease]
      /\ AreEvents(h.events) /\ AreEvents(h.events \cup {e})
      /\ \A q \in h.events : q.id \in 1 .. n
  BY <1>1 DEF Whole, Sound
<1>3. SameLapses(Expiries(h), Expiries(x), n)
  BY <1>1, <1>2, SparedLapses
<1>4. \A q \in h.events : q.id \in Nat /\ q.id <= n
  BY <1>1, <1>2
<1>5. /\ IsState(s) /\ ~ s.error
  BY <1>1, HeadClaims
<1>6. n + 1 \in Nat /\ n < n + 1
  BY <1>1
<1>7. /\ IsState(s2) /\ ~ s2.error
  BY <1>1, <1>6, HeadClaims
<1>8. Fold(h.events \cup {e}, Expiries(x))
         = Apply(Fold(h.events, Expiries(h)), Expiries(x), e)
  BY <1>1, <1>2, <1>3, <1>4, <1>5, FoldExtends
<1>9. IsEvent(e)
  BY <1>2 DEF AreEvents
<1>10. \A c \in Ids : h.leases[c].exp \in Int /\ x.leases[c].exp \in Int
  BY <1>2, ExpiryIsInteger
<1> QED BY <1>1, <1>4, <1>5, <1>6, <1>7, <1>8, <1>9, <1>10

\* No lease of a claim made before ends later than it did.
NoneLonger(h, x, n) ==
    \A c \in Ids : c <= n => x.leases[c].exp <= h.leases[c].exp

LEMMA NoneLongerSpares ==
    ASSUME NEW h, NEW n \in Nat, NEW ttl, Whole(h, n, ttl),
           NEW s, s = Fold(h.events, Expiries(h)),
           NEW x, NoneLonger(h, x, n)
    PROVE  Spares(h, s, x)
BY HeadClaims DEF Spares, NoneLonger

\* A commit that is not a claim brings in none.
LEMMA NoNewClaim ==
    ASSUME NEW h, NEW x, NEW e, x.events = h.events \cup {e},
           e.type # "claim.made"
    PROVE  /\ \A q \in x.events : q.type = "claim.made" => q \in h.events
           /\ FollowsOver(h, x)
BY DEF FollowsOver, IsClaim

\* A done run is certified by a confirmation that was there before.
Certifying(h, e) ==
    e.type = "run.finished" /\ e.outcome = "done" =>
        \E f \in h.events : f.type = "claim.confirmed" /\ f.claim = e.claim

LEMMA SequelCertified ==
    ASSUME NEW h, NEW n \in Nat, NEW x, NEW e,
           x.events = h.events \cup {e}, Certified(h, h), Certifying(h, e),
           \A q \in h.events : q.id \in Nat /\ q.id <= n, e.id = n + 1
    PROVE  Certified(x, x)
<1> SUFFICES ASSUME NEW r \in x.events, r.type = "run.finished",
                    r.outcome = "done"
             PROVE  \E f \in x.events : /\ f.type = "claim.confirmed"
                                        /\ f.claim = r.claim /\ f.id < r.id
  BY DEF Certified
<1>1. CASE r \in h.events
  BY <1>1 DEF Certified
<1>2. CASE r = e
  <2>1. PICK f \in h.events : f.type = "claim.confirmed" /\ f.claim = e.claim
    BY <1>2 DEF Certifying
  <2>2. f.id < e.id
    BY <2>1
  <2> QED BY <1>2, <2>1, <2>2
<1> QED BY <1>1, <1>2

\* An attempt ends.
LEMMA EndSolo ==
    ASSUME NEW h, NEW n, NEW ttl, NEW x, NEW ttl2, NEW e,
           Sequel(h, n, ttl, x, ttl2, e), Solo(h, n), NoneLonger(h, x, n),
           IsEnd(e), Certifying(h, e)
    PROVE  Solo(x, n + 1)
<1> DEFINE s == Fold(h.events, Expiries(h))
           s2 == Fold(x.events, Expiries(x))
           hd == s.holder[e.task]
<1>1. /\ s2 = Apply(s, Expiries(x), e)
      /\ IsState(s) /\ IsState(s2) /\ ~ s.error /\ ~ s2.error
      /\ IsEvent(e) /\ n \in Nat /\ n + 1 \in Nat /\ n < n + 1
      /\ \A q \in h.events : q.id \in Nat /\ q.id <= n
  BY SequelFacts
<1>2. /\ Whole(h, n, ttl) /\ Whole(x, n + 1, ttl2)
      /\ e.id = n + 1 /\ x.events = h.events \cup {e}
  BY DEF Sequel
<1>3. /\ DOMAIN s.holder = Tasks
      /\ \A t \in Tasks : s.holder[t] # None =>
            /\ s.holder[t] \in DOMAIN s.claims
            /\ s.claims[s.holder[t]].task = t
      /\ \A c \in DOMAIN s.claims :
            c \in Nat /\ c <= n /\ s.claims[c] \in ClaimRecord
  BY <1>1, <1>2, HeadClaims
<1> HIDE DEF s, s2
<1>4. \/ s2.claims = s.claims /\ s2.holder = s.holder
      \/ /\ hd # None /\ s.claims[hd].actor = e.actor
         /\ \E z \in {"released", "finished"} :
               s2.claims = [s.claims EXCEPT ![hd].status = z]
         /\ s2.holder = [s.holder EXCEPT ![e.task] = None]
  <2>1. s2 = ClaimReleased(s, e) \/ s2 = RunFinished(s, e)
    BY <1>1 DEF IsEnd, Apply
  <2>2. s2 = RunFinished(s, e) => e.task \in DOMAIN s.tasks
    <3>1. Malformed(s).error = TRUE
      BY <1>1, MalformedKeeps
    <3> QED BY <1>1, <3>1 DEF RunFinished
  <2> QED BY <1>1, <2>1, <2>2, EndMoves
<1>5. e.task \in Tasks /\ e.type # "claim.made"
  BY <1>1 DEF IsEvent, IsEnd
<1>6. /\ \A q \in x.events : q.type = "claim.made" => q \in h.events
      /\ FollowsOver(h, x)
  BY <1>2, <1>5, NoNewClaim
<1>7. EndsOver(x, s, s2, n + 1) /\ Passes(h, x, s, s2)
  <2>1. CASE s2.claims = s.claims /\ s2.holder = s.holder
    BY <1>6, <2>1 DEF EndsOver, Passes, IsClaim
  <2>2. CASE /\ hd # None /\ s.claims[hd].actor = e.actor
             /\ \E z \in {"released", "finished"} :
                   s2.claims = [s.claims EXCEPT ![hd].status = z]
             /\ s2.holder = [s.holder EXCEPT ![e.task] = None]
    <3>1. PICK z \in {"released", "finished"} :
             s2.claims = [s.claims EXCEPT ![hd].status = z]
      BY <2>2
    <3>2. /\ hd \in DOMAIN s.claims /\ s.claims[hd].task = e.task
          /\ hd \in Nat /\ hd <= n
      BY <1>3, <1>5, <2>2
    <3> HIDE DEF hd
    <3>3. Over(x, hd, e.task, e.actor, n + 1)
      <4>1. e \in x.events /\ EndsOf(e, e.actor, e.task)
        BY <1>2 DEF EndsOf
      <4>2. hd <= e.id /\ e.id <= n + 1
        BY <1>1, <1>2, <3>2
      <4> QED BY <4>1, <4>2 DEF Over
    <3>4. /\ DOMAIN s2.claims = DOMAIN s.claims
          /\ s2.claims[hd].status = z
          /\ s2.claims[hd].task = e.task /\ s2.claims[hd].actor = e.actor
          /\ \A c \in DOMAIN s.claims : c # hd => s2.claims[c] = s.claims[c]
      <4>1. s.claims[hd] \in ClaimRecord
        BY <1>3, <3>2
      <4> QED BY <2>2, <3>1, <3>2, <4>1 DEF ClaimRecord
    <3>5. EndsOver(x, s, s2, n + 1)
      BY <2>2, <3>2, <3>3, <3>4 DEF EndsOver
    <3>6. Passes(h, x, s, s2)
      BY <1>3, <1>5, <1>6, <2>2 DEF Passes, IsClaim
    <3> QED BY <3>5, <3>6
  <2> QED BY <1>4, <2>1, <2>2
<1>8. Spares(h, s, x)
  BY <1>1, <1>2, NoneLongerSpares DEF s
<1>9. Certified(x, x)
  <2>1. Certified(h, h)
    BY DEF Solo
  <2> QED BY <1>1, <1>2, <2>1, SequelCertified
<1>10. h.events \subseteq x.events /\ n <= n + 1
  BY <1>1, <1>2
<1> QED BY <1>1, <1>2, <1>6, <1>7, <1>8, <1>9, <1>10, SoloStep DEF s, s2

\* The latest claim of a task, its holder, is confirmed.
LEMMA ConfirmSolo ==
    ASSUME NEW h, NEW n, NEW ttl, NEW x, NEW ttl2, NEW e,
           Sequel(h, n, ttl, x, ttl2, e), Solo(h, n), NoneLonger(h, x, n),
           e.type = "claim.confirmed"
    PROVE  Solo(x, n + 1)
<1> DEFINE s == Fold(h.events, Expiries(h))
           s2 == Fold(x.events, Expiries(x))
<1>1. /\ s2 = Apply(s, Expiries(x), e)
      /\ IsState(s) /\ IsState(s2) /\ ~ s.error /\ ~ s2.error
      /\ IsEvent(e) /\ n \in Nat /\ n + 1 \in Nat /\ n < n + 1
      /\ \A q \in h.events : q.id \in Nat /\ q.id <= n
  BY SequelFacts
<1>2. /\ Whole(h, n, ttl) /\ Whole(x, n + 1, ttl2)
      /\ e.id = n + 1 /\ x.events = h.events \cup {e}
  BY DEF Sequel
<1>3. /\ \A c \in DOMAIN s.claims : s.claims[c] \in ClaimRecord
  BY <1>1, <1>2, HeadClaims
<1>4. \A c \in DOMAIN s.claims : s.claims[c].status # "voided"
  BY DEF Solo, Spent
<1> HIDE DEF s, s2
<1>5. s2.holder = s.holder
      /\ \/ s2.claims = s.claims
         \/ /\ e.claim \in DOMAIN s.claims
            /\ s2.claims = [s.claims EXCEPT ![e.claim].confirmation = e.id]
  <2>1. s2 = ClaimConfirmed(s, e)
    BY <1>1 DEF Apply
  <2>2. Malformed(s).error = TRUE
    BY <1>1, MalformedKeeps
  <2>3. ~ (e.claim \notin DOMAIN s.claims)
    BY <1>1, <2>1, <2>2 DEF ClaimConfirmed
  <2>4. s.claims[e.claim].status # "voided"
    BY <1>4, <2>3
  <2> QED BY <1>1, <2>1, <2>2, <2>3, <2>4 DEF ClaimConfirmed, IsState
<1>6. /\ \A q \in x.events : q.type = "claim.made" => q \in h.events
      /\ FollowsOver(h, x)
  BY <1>2, NoNewClaim
<1>7. \A c \in DOMAIN s2.claims :
         /\ c \in DOMAIN s.claims
         /\ s2.claims[c].task = s.claims[c].task
         /\ s2.claims[c].actor = s.claims[c].actor
         /\ s2.claims[c].status = s.claims[c].status
  BY <1>3, <1>5 DEF ClaimRecord
<1>8. EndsOver(x, s, s2, n + 1)
  BY <1>7 DEF EndsOver
<1>9. Passes(h, x, s, s2)
  BY <1>5, <1>6 DEF Passes, IsClaim
<1>10. Spares(h, s, x)
  BY <1>1, <1>2, NoneLongerSpares DEF s
<1>11. Certified(x, x)
  <2>1. Certified(h, h) /\ Certifying(h, e)
    BY DEF Solo, Certifying
  <2> QED BY <1>1, <1>2, <2>1, SequelCertified
<1>12. h.events \subseteq x.events /\ n <= n + 1
  BY <1>1, <1>2
<1> QED BY <1>1, <1>2, <1>6, <1>8, <1>9, <1>10, <1>11, <1>12, SoloStep
        DEF s, s2

\* No event comes in: time passes, or a lease is renewed that runs.
LEMMA QuietSolo ==
    ASSUME NEW h, NEW n \in Ids, NEW ttl, Whole(h, n, ttl), Solo(h, n),
           NEW x, NEW m \in Nat, NEW ttl2, Whole(x, m, ttl2), n <= m,
           x.events = h.events, Spared(h, x.leases, n), IdsPerTick = 1,
           NEW s, s = Fold(h.events, Expiries(h)), Spares(h, s, x)
    PROVE  Solo(x, m)
<1> DEFINE s2 == Fold(x.events, Expiries(x))
<1>1. n \in Nat /\ n \in 0 .. MaxId
  BY DEF Ids
<1>2. /\ h.leases \in [Ids -> Lease] /\ x.leases \in [Ids -> Lease]
      /\ AreEvents(h.events) /\ \A q \in h.events : q.id <= n
  BY DEF Whole, Sound
<1>3. SameLapses(Expiries(h), Expiries(x), n)
  BY <1>1, <1>2, SparedLapses
<1>4. s2 = s
  <2>1. Fold(h.events, Expiries(x)) = Fold(h.events, Expiries(h))
    BY <1>1, <1>2, <1>3, FoldStays
  <2> QED BY <2>1
<1>5. IsState(s) /\ \A c \in DOMAIN s.claims : c \in Nat
  BY <1>1, HeadClaims
<1> HIDE DEF s2
<1>6. EndsOver(x, s, s2, m) /\ Passes(h, x, s, s2) /\ FollowsOver(h, x)
  BY <1>4 DEF EndsOver, Passes, FollowsOver
<1>7. Certified(x, x)
  BY DEF Solo, Certified
<1>8. h.events \subseteq x.events
  OBVIOUS
<1> QED BY <1>1, <1>6, <1>7, <1>8, SoloStep DEF s2

\* Lease records L, where those of head h of claims up to n may end earlier,
\* but not before n.
Shorter(h, L, n) ==
    \A c \in Ids : c <= n =>
        \/ L[c].exp = h.leases[c].exp
        \/ n < L[c].exp /\ L[c].exp <= h.leases[c].exp

LEMMA ShorterFacts ==
    ASSUME NEW h, NEW n \in Nat, NEW x,
           h.leases \in [Ids -> Lease], x.leases \in [Ids -> Lease],
           Shorter(h, x.leases, n)
    PROVE  Spared(h, x.leases, n) /\ NoneLonger(h, x, n)
<1>1. \A c \in Ids : h.leases[c].exp \in Int /\ x.leases[c].exp \in Int
  BY ExpiryIsInteger
<1> QED BY <1>1 DEF Shorter, Spared, NoneLonger
=============================================================================
