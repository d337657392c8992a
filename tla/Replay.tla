------------------------------- MODULE Replay -------------------------------
(***************************************************************************)
(* The referee: internal/core/replay.go as pure operators.                 *)
(*                                                                         *)
(* State is a function of an event set, the lease records and an instant.  *)
(* One operator per event type folds one event into the state record (the  *)
(* arms of the switch in "apply"); Close is the pass over the leases that   *)
(* Replay makes after the fold; Replay puts them together.                 *)
(*                                                                         *)
(* Event ids are ULIDs: totally ordered, with a millisecond timestamp.     *)
(* Here an id is a natural number and IdsPerTick consecutive ids share one *)
(* instant.  Titles, descriptions, labels, priorities, notes and the edit  *)
(* history are left out: no other state depends on them.                   *)
(***************************************************************************)
EXTENDS Integers, FiniteSets

CONSTANTS
    Tasks,        \* task ids
    Actors,       \* agents and humans, as the event envelope names them
    MaxId,        \* the largest event id considered (a bound)
    IdsPerTick    \* how many ids one instant of the clock can mint

ASSUME ReplayAssumption ==
    /\ MaxId \in Nat
    /\ IdsPerTick \in Nat \ {0}

Ids  == 1 .. MaxId
None == 0             \* the nil pointer, the empty string: never an id

\* event.IDTime: the instant encoded in a ULID.
IDTime(id) == id \div IdsPerTick

\* An absent lease record reads as one that lapsed before every instant.
NoLease == -1
Instants == Nat \cup {NoLease}

TaskStatus  == {"open", "inbox", "held", "done", "cancelled"}
ClaimStatus == {"active", "voided", "released", "finished", "expired"}
Outcome     == {"done", "failed", "abandoned", "blocked", "interrupted",
                "superseded"}

Terminal(status) == status \in {"done", "cancelled"}

(***************************************************************************)
(* The state record.  The maps of the code are functions whose domain is   *)
(* the set of keys present; Runs is a set, for a run is identified by its  *)
(* event (or, synthesized, by its claim).                                  *)
(***************************************************************************)
TaskRecord  == [status : TaskStatus, deps : SUBSET Tasks,
                closed : Ids \cup {None}]
ClaimRecord == [task : Tasks, actor : Actors, status : ClaimStatus,
                confirmation : Ids \cup {None}]
RunRecord   == [id : Ids, task : Tasks, claim : Ids \cup {None},
                actor : Actors, outcome : Outcome,
                named : BOOLEAN, synthesized : BOOLEAN]
EscalationRecord == [task : Tasks, blocking : BOOLEAN, answered : BOOLEAN]

IsMap(f, keys, values) ==
    /\ f = [k \in DOMAIN f |-> f[k]]
    /\ DOMAIN f \subseteq keys
    /\ \A k \in DOMAIN f : f[k] \in values

IsState(s) ==
    /\ s = [tasks |-> s.tasks, claims |-> s.claims, holder |-> s.holder,
            runs |-> s.runs, escalations |-> s.escalations,
            error |-> s.error]
    /\ IsMap(s.tasks, Tasks, TaskRecord)
    /\ IsMap(s.claims, Ids, ClaimRecord)
    /\ s.holder \in [Tasks -> Ids \cup {None}]
    /\ s.runs \subseteq RunRecord
    /\ IsMap(s.escalations, Ids, EscalationRecord)
    /\ s.error \in BOOLEAN

Empty == [x \in {} |-> x]

Put(f, k, v) == [x \in DOMAIN f \cup {k} |-> IF x = k THEN v ELSE f[x]]

InitState ==
    [tasks       |-> Empty,
     claims      |-> Empty,
     holder      |-> [t \in Tasks |-> None],
     runs        |-> {},
     escalations |-> Empty,
     error       |-> FALSE]

\* A malformed event makes the whole replay fail; nothing after it is read.
Malformed(s) == [s EXCEPT !.error = TRUE]

\* The holder of e's task is active and is e's own actor's claim.
HeldBy(s, task, actor) ==
    /\ s.holder[task] # None
    /\ s.claims[s.holder[task]].status = "active"
    /\ s.claims[s.holder[task]].actor = actor

LeaseExpiredBy(leases, claim, instant) == leases[claim] <= instant

InterruptedRun(s, c) ==
    [id |-> c, task |-> s.claims[c].task, claim |-> c,
     actor |-> s.claims[c].actor, outcome |-> "interrupted",
     named |-> FALSE, synthesized |-> TRUE]

SupersededRun(s, c) ==
    [id |-> c, task |-> s.claims[c].task, claim |-> c,
     actor |-> s.claims[c].actor, outcome |-> "superseded",
     named |-> FALSE, synthesized |-> TRUE]

\* Whether run r closes the attempt under claim c: by the claim it names,
\* and for a run recorded before the field existed by task, actor and order.
RunCloses(s, r, c) ==
    IF r.synthesized \/ r.named
    THEN r.claim = c
    ELSE /\ r.task = s.claims[c].task
         /\ r.actor = s.claims[c].actor
         /\ r.id > c

ClosedByRun(s, runs, c) == \E r \in runs : RunCloses(s, r, c)

-----------------------------------------------------------------------------
(***************************************************************************)
(* One event folded into the state.  An event is a record with the fields  *)
(* id, type, task, actor and those of its payload.  A payload field that   *)
(* may be absent is a set: empty when absent, a singleton when sent.       *)
(***************************************************************************)
TaskCreated(s, e) ==
    IF e.task \in DOMAIN s.tasks
    THEN Malformed(s)
    ELSE [s EXCEPT !.tasks = Put(@, e.task,
              [status |-> e.status, deps |-> e.deps,
               closed |-> IF Terminal(e.status) THEN e.id ELSE None])]

\* The stamp after an update that sends status "to": cleared on leaving the
\* terminal statuses, set on entering one, kept when the same one is sent
\* again.
ClosedAfter(task, to, id) ==
    CASE ~ Terminal(to)                      -> None
      [] Terminal(to) /\ to # task.status    -> id
      [] OTHER                               -> task.closed

\* Mutant: an update that sends no status sends the empty one.
TaskUpdatedBlanks(s, e) ==
    LET status == IF e.status = {} THEN "" ELSE CHOOSE x \in e.status : TRUE
    IN  IF e.task \notin DOMAIN s.tasks
        THEN Malformed(s)
        ELSE [s EXCEPT !.tasks[e.task].status = status]

TaskUpdated(s, e) ==
    IF e.task \notin DOMAIN s.tasks
    THEN Malformed(s)
    ELSE LET task   == s.tasks[e.task]
             status == IF e.status = {} THEN task.status
                       ELSE CHOOSE x \in e.status : TRUE
             deps   == IF e.deps = {} THEN task.deps
                       ELSE CHOOSE x \in e.deps : TRUE
             closed == IF e.status = {} THEN task.closed
                       ELSE ClosedAfter(task, status, e.id)
         IN [s EXCEPT !.tasks[e.task] =
                [status |-> status, deps |-> deps, closed |-> closed]]

NewClaim(e, status) ==
    [task |-> e.task, actor |-> e.actor, status |-> status,
     confirmation |-> None]

ClaimMade(s, leases, e) ==
    LET h == s.holder[e.task]
    IN  IF e.task \notin DOMAIN s.tasks
        THEN Malformed(s)
        ELSE IF h = None
        THEN [s EXCEPT !.claims = Put(@, e.id, NewClaim(e, "active")),
                       !.holder[e.task] = e.id]
        ELSE IF LeaseExpiredBy(leases, h, IDTime(e.id))
        THEN [s EXCEPT !.claims = Put([@ EXCEPT ![h].status = "expired"],
                                      e.id, NewClaim(e, "active")),
                       !.holder[e.task] = e.id,
                       !.runs = @ \cup {InterruptedRun(s, h)}]
        ELSE [s EXCEPT !.claims = Put(@, e.id, NewClaim(e, "voided"))]

\* Mutant: the confirmed claim does not take over the hold.
ConfirmKeepsHolder(s, e, h, c) ==
    [s EXCEPT !.claims = [@ EXCEPT ![h].status = "voided",
                                   ![c].status = "active",
                                   ![c].confirmation = e.id]]

\* The unconfirmed holder h stands down as a loser for claim c.
Confirm(s, e, h, c) ==
    [s EXCEPT !.claims = [@ EXCEPT ![h].status = "voided",
                                   ![c].status = "active",
                                   ![c].confirmation = e.id],
              !.holder[e.task] = c]

\* Mutant: a second confirmation settles the contest again.
ClaimConfirmedTwice(s, e) ==
    LET h == s.holder[e.task]
    IN  IF e.claim \notin DOMAIN s.claims \/ h = None
        THEN s
        ELSE IF /\ s.claims[e.claim].task = e.task
                /\ s.claims[e.claim].status \in {"active", "voided"}
        THEN Confirm(s, e, h, e.claim)
        ELSE s

\* Mutant: a confirmation brings back a claim that already ended.
ClaimConfirmedRevives(s, e) ==
    LET h == s.holder[e.task]
    IN  IF e.claim \notin DOMAIN s.claims \/ h = None
        THEN s
        ELSE IF /\ s.claims[e.claim].task = e.task
                /\ s.claims[h].confirmation = None
        THEN Confirm(s, e, h, e.claim)
        ELSE s

ClaimConfirmed(s, e) ==
    LET h == s.holder[e.task]
        c == e.claim
    IN  IF c \notin DOMAIN s.claims
        THEN Malformed(s)
        ELSE IF s.claims[c].task # e.task
        THEN Malformed(s)
        ELSE IF h = c
        THEN IF s.claims[c].confirmation = None
             THEN [s EXCEPT !.claims[c].confirmation = e.id]
             ELSE s
        ELSE IF /\ h # None
                /\ s.claims[h].status = "active"
                /\ s.claims[h].confirmation = None
                /\ s.claims[c].status = "voided"
        THEN Confirm(s, e, h, c)
        ELSE s

ClaimReleased(s, e) ==
    IF HeldBy(s, e.task, e.actor)
    THEN [s EXCEPT !.claims[s.holder[e.task]].status = "released",
                   !.holder[e.task] = None]
    ELSE s

RunFinished(s, e) ==
    LET h    == s.holder[e.task]
        held == HeldBy(s, e.task, e.actor)
        task == s.tasks[e.task]
        run  == [id |-> e.id, task |-> e.task,
                 claim |-> IF e.claim = None /\ held THEN h ELSE e.claim,
                 actor |-> e.actor, outcome |-> e.outcome,
                 named |-> e.claim # None, synthesized |-> FALSE]
    IN  IF e.task \notin DOMAIN s.tasks
        THEN Malformed(s)
        ELSE IF ~ held
        THEN [s EXCEPT !.runs = @ \cup {run}]
        ELSE [s EXCEPT !.claims[h].status = "finished",
                       !.holder[e.task] = None,
                       !.tasks[e.task] =
                           IF e.outcome # "done" THEN task
                           ELSE [task EXCEPT !.status = "done",
                                    !.closed = ClosedAfter(task, "done", e.id)],
                       !.runs = @ \cup {run}]

EscalationRaised(s, e) ==
    IF e.task \notin DOMAIN s.tasks
    THEN Malformed(s)
    ELSE [s EXCEPT !.escalations = Put(@, e.id,
              [task |-> e.task, blocking |-> e.blocking, answered |-> FALSE])]

EscalationAnswered(s, e) ==
    IF e.escalation \notin DOMAIN s.escalations
    THEN Malformed(s)
    ELSE IF s.escalations[e.escalation].task # e.task
    THEN Malformed(s)
    ELSE [s EXCEPT !.escalations[e.escalation].answered = TRUE]

Apply(s, leases, e) ==
    CASE e.type = "task.created"        -> TaskCreated(s, e)
      [] e.type = "task.updated"        -> TaskUpdated(s, e)
      [] e.type = "claim.made"          -> ClaimMade(s, leases, e)
      [] e.type = "claim.confirmed"     -> ClaimConfirmed(s, e)
      [] e.type = "claim.released"      -> ClaimReleased(s, e)
      [] e.type = "run.finished"        -> RunFinished(s, e)
      [] e.type = "escalation.raised"   -> EscalationRaised(s, e)
      [] e.type = "escalation.answered" -> EscalationAnswered(s, e)

-----------------------------------------------------------------------------
(***************************************************************************)
(* The pass after the fold: a holder whose lease has lapsed at now expires *)
(* and leaves an interrupted run; a voided claim whose lease has lapsed    *)
(* and that no recorded run closes leaves a superseded one.                *)
(***************************************************************************)
Lapsed(s, leases, now) ==
    {c \in DOMAIN s.claims : LeaseExpiredBy(leases, c, now)}

ExpiredHolders(s, leases, now) ==
    {c \in Lapsed(s, leases, now) :
        s.claims[c].status = "active" /\ s.holder[s.claims[c].task] = c}

\* Mutant: a loser whose run was recorded is closed again.
UnreportedLosersAll(s, leases, now) ==
    {c \in Lapsed(s, leases, now) : s.claims[c].status = "voided"}

UnreportedLosers(s, leases, now) ==
    {c \in Lapsed(s, leases, now) :
        s.claims[c].status = "voided"
            /\ ~ ClosedByRun(s, {r \in s.runs : ~ r.synthesized}, c)}

Close(s, leases, now) ==
    LET expired == ExpiredHolders(s, leases, now)
    IN [s EXCEPT !.claims = [c \in DOMAIN @ |->
                     IF c \in expired THEN [@[c] EXCEPT !.status = "expired"]
                     ELSE @[c]],
                 !.runs = @ \cup {InterruptedRun(s, c) : c \in expired}
                    \cup {SupersededRun(s, c) :
                              c \in UnreportedLosers(s, leases, now)}]

\* The state after the events with ids 1 .. n, in id order: events is a set,
\* and sorting it by id is all its order means.
Fold(events, leases) ==
    LET after[n \in 0 .. MaxId] ==
          IF n = 0 THEN InitState
          ELSE LET s == after[n - 1]
                   now == {e \in events : e.id = n}
               IN  IF now = {} \/ s.error THEN s
                   ELSE Apply(s, leases, CHOOSE e \in now : TRUE)
    IN after[MaxId]

ReplayOf(events, leases, now) == Close(Fold(events, leases), leases, now)

-----------------------------------------------------------------------------
\* State.ActiveClaim, as the set of answers it chooses from.
ActiveClaims(s, t) ==
    {c \in DOMAIN s.claims : s.claims[c].task = t
                                /\ s.claims[c].status = "active"}

\* State.ClaimBlockers: a dependency that resolves to no task is met.
UnmetDeps(s, t) ==
    {d \in s.tasks[t].deps : d \in DOMAIN s.tasks
                                /\ s.tasks[d].status # "done"}

BlockingEscalations(s, t) ==
    {x \in DOMAIN s.escalations :
        /\ s.escalations[x].task = t
        /\ s.escalations[x].blocking
        /\ ~ s.escalations[x].answered}

\* State.Ready: whether the task can be claimed right now.
Ready(s, t) ==
    /\ t \in DOMAIN s.tasks
    /\ s.tasks[t].status = "open"
    /\ ActiveClaims(s, t) = {}
    /\ UnmetDeps(s, t) = {}
    /\ BlockingEscalations(s, t) = {}
=============================================================================
