------------------------------ MODULE Backlog ------------------------------
(***************************************************************************)
(* The backlog as a graph: the operations of internal/daemon/ops.go that   *)
(* create and edit tasks, and what internal/core/state.go derives from     *)
(* their dependencies and escalations.                                     *)
(*                                                                         *)
(* A daemon refuses to write a dependency loop it can see, but the heads   *)
(* of two machines are merged by union: a loop may arise that nobody       *)
(* wrote.  It cannot be prevented, so it is marked on the tasks that are   *)
(* on it.                                                                  *)
(*                                                                         *)
(* Of claims only the making is here, under leases that do not lapse: how  *)
(* attempts end is Fleet's subject.  Every operation takes an instant of   *)
(* its own, and the id it mints is that instant as its machine's clock     *)
(* shows it.                                                               *)
(***************************************************************************)
EXTENDS Merge, FiniteSetsExt

CONSTANTS
    Machines,
    Skew,           \* how far each machine's clock is ahead
    StatusChoices,  \* statuses an update may send
    Worlds          \* the deployments and bounds looked at, one per behaviour

ASSUME BacklogAssumption ==
    /\ IdsPerTick = 1
    /\ IsFiniteSet(Tasks)
    /\ Skew \in [Machines -> Nat]
    /\ StatusChoices \subseteq TaskStatus
    /\ \A w \in Worlds :
          /\ {w.shared, w.room, w.maxDeps, w.maxFields} \subseteq Nat
          /\ w.last \in Ids /\ w.shared <= w.last
          /\ w.births \subseteq {"open", "inbox", "held"}
          /\ w.works \in BOOLEAN

VARIABLES
    world,   \* the bounds of this behaviour; no step changes them
    clock,   \* the latest instant anything was written at
    local,   \* the local head of each machine
    remote,  \* the head of the remote data branch
    state,   \* the replay of its local head that each daemon answers from
    knew     \* history: the ids the writer of an event had, its own included
vars == <<world, clock, local, remote, state, knew>>

Heads == {local[m] : m \in Machines} \cup {remote}

Shared   == world.shared   \* how many tasks every machine has from the start
Room     == world.room     \* how many tasks there may be
Births   == world.births   \* statuses tasks are created with
LastId   == world.last     \* the largest id looked at
MaxDeps  == world.maxDeps  \* how many dependencies a write gives a task
MaxFields == world.maxFields  \* how many fields one update sends
MayWork  == world.works    \* whether agents claim tasks and ask questions

DepLists == {D \in SUBSET Tasks : Cardinality(D) <= MaxDeps}

\* replayLocked.  No lease lapses before the last instant looked at.
View(head) == ReplayOf(head.events, Expiries(head), IDTime(MaxId))

-----------------------------------------------------------------------------
(***************************************************************************)
(* What is derived from the edges, by depth-first searches.  A walk goes   *)
(* through the given tasks, knowing what was seen before, and says what it *)
(* has found and seen after them.  It stops at the first way back.         *)
(***************************************************************************)

\* Whether the tasks in from lead to target, past those that are walked over.
Search(s, passed, target, from) ==
    LET walk[deps \in SUBSET Tasks] == [seen \in SUBSET Tasks |->
          IF deps = {} THEN [found |-> FALSE, seen |-> seen]
          ELSE LET dep == CHOOSE x \in deps : TRUE
                   w   == walk[deps \ {dep}][seen]
               IN  IF w.found \/ dep \in passed THEN w
                   ELSE IF dep = target THEN [w EXCEPT !.found = TRUE]
                   ELSE IF dep \in w.seen THEN w
                   ELSE walk[s.tasks[dep].deps][w.seen \cup {dep}]]
    IN  walk[from][{}].found

Unknown(s) == Tasks \ DOMAIN s.tasks

WithStatus(s, status) == {t \in DOMAIN s.tasks : s.tasks[t].status = status}

\* Mutant: only a task that depends on itself is on a loop.
InDepLoopDirect(s, t) == t \in s.tasks[t].deps

\* Mutant: a loop through a done task still counts.
InDepLoopThroughDone(s, t) == Search(s, Unknown(s), t, s.tasks[t].deps)

\* inDepLoop: whether t reaches itself through tasks that are not done.
InDepLoop(s, t) ==
    Search(s, Unknown(s) \cup WithStatus(s, "done"), t, s.tasks[t].deps)

\* Mutant: done tasks no longer count.
DepLoopSkipsDone(s, t, proposed) ==
    Search(s, Unknown(s) \cup WithStatus(s, "done"), t, proposed)

\* depLoopLocked: whether replacing t's edges with proposed closes a loop in
\* the graph as it stands, done tasks included.
DepLoop(s, t, proposed) == Search(s, Unknown(s) \ {t}, t, proposed)

\* hasCycle: three colors; what is neither grey nor black is white.
Visit(adj) ==
    LET Nodes == SUBSET DOMAIN adj
        walk[at \in Nodes] == [grey \in Nodes |-> [black \in Nodes |->
          IF at = {} THEN [found |-> FALSE, black |-> black]
          ELSE LET i == CHOOSE x \in at : TRUE
                   c == walk[at \ {i}][grey][black]
               IN  IF c.found \/ i \in c.black THEN c
                   ELSE IF i \in grey THEN [c EXCEPT !.found = TRUE]
                   ELSE LET after == walk[adj[i]][grey \cup {i}][c.black]
                        IN  [after EXCEPT !.black = @ \cup {i}]]]
    IN  walk[DOMAIN adj][{}][{}]

HasCycle(adj) == Visit(adj).found

\* Blockage: the unmet dependencies that are cancelled.  Its other parts are
\* UnmetDeps, BlockingEscalations and InDepLoop.
CancelledDeps(s, t) ==
    {d \in UnmetDeps(s, t) : s.tasks[d].status = "cancelled"}

\* inProgressRowsLocked.
InProgress(s) == {t \in WithStatus(s, "open") : ActiveClaims(s, t) # {}}

\* blockedRowsLocked.
Blocked(s) ==
    {t \in WithStatus(s, "open") \ InProgress(s) :
        UnmetDeps(s, t) # {} \/ BlockingEscalations(s, t) # {}}

\* opBacklog with every scope: the sections of the answer.
Sections(s) ==
    [ready       |-> {t \in DOMAIN s.tasks : Ready(s, t)},
     inbox       |-> WithStatus(s, "inbox"),
     held        |-> WithStatus(s, "held"),
     in_progress |-> InProgress(s),
     blocked     |-> Blocked(s),
     done        |-> WithStatus(s, "done"),
     cancelled   |-> WithStatus(s, "cancelled")]

-----------------------------------------------------------------------------
\* newEventLocked: the instant of the next write on the machine's own clock.
Mint(m) == clock + 1 + Skew[m]

\* What m writes: events of the given ids, and the lease of a claim.
Write(m, events, leases) ==
    LET ids == {e.id : e \in events}
    IN  /\ ids \subseteq 1 .. LastId
        /\ \A h \in Heads : ids \cap h.seen = {}
        /\ clock' = clock + Cardinality(ids)
        /\ local' = [local EXCEPT ![m] =
               [events |-> @.events \cup events,
                leases |-> leases,
                seen   |-> @.seen \cup ids]]
        /\ state' = [state EXCEPT ![m] = View(local'[m])]
        /\ knew' = [n \in Ids |-> IF n \in ids THEN local[m].seen \cup ids
                                  ELSE knew[n]]

\* The references of a write that name no task.
UnknownRefs(known, refs) == refs \ known

\* The checks of opCreateTasks on a batch with an item and an id for each new
\* task: edges lead to the batch or to known tasks, and close no loop.
IsBatch(known, items, ids) ==
    LET new == DOMAIN items
    IN  /\ \A t, u \in new : ids[t] = ids[u] => t = u
        /\ \A t \in new : UnknownRefs(known \cup new, items[t].deps) = {}
        /\ ~ HasCycle([t \in new |-> items[t].deps \cap new])

Items(new) == [new -> [status : Births, deps : DepLists]]

BatchIds(new, first) == [new -> first .. first + Cardinality(new) - 1]

Created(a, items, ids) ==
    {[id |-> ids[t], type |-> "task.created", task |-> t, actor |-> a,
      status |-> items[t].status, deps |-> items[t].deps] : t \in DOMAIN items}

\* The tasks somebody has minted an id for; nobody mints one twice.
Minted == {e.task : e \in UNION {h.events : h \in Heads}}

\* opCreateTasks: a batch of new tasks, in one commit.
CreateTasks(m, a) ==
    /\ ~ state[m].error
    /\ \E new \in (SUBSET (Tasks \ Minted)) \ {{}} :
          /\ Cardinality(new \cup Minted) <= Room
          /\ \E items \in Items(new), ids \in BatchIds(new, Mint(m)) :
                /\ IsBatch(DOMAIN state[m].tasks, items, ids)
                /\ Write(m, Created(a, items, ids), local[m].leases)
    /\ UNCHANGED <<world, remote>>

\* Every machine starts out with a batch that one of them created.
Init ==
    /\ world \in Worlds
    /\ clock = Shared
    /\ \E new \in SUBSET Tasks, a \in Actors :
          /\ Cardinality(new) = Shared
          /\ \E items \in Items(new), ids \in BatchIds(new, 1) :
                LET head == [events |-> Created(a, items, ids),
                             leases |-> [c \in Ids |-> NoRecord],
                             seen   |-> 1 .. Shared]
                IN  /\ IsBatch({}, items, ids)
                    /\ local = [m \in Machines |-> head]
                    /\ remote = head
                    /\ state = [m \in Machines |-> View(head)]
    /\ knew = [n \in Ids |-> IF n <= Shared THEN 1 .. Shared ELSE {}]

\* Mutant: any task may be edited.
EditableAny(s, t) == ~ s.error

Editable(s, t) == ~ s.error /\ t \in DOMAIN s.tasks

Maybe(choices) == {{}} \cup {{x} : x \in choices}

\* The names of the fields an update sends.
Fields(status, deps) ==
    {f \in {"status", "depends_on"} : IF f = "status" THEN status # {}
                                      ELSE deps # {}}

\* opUpdateTask: a status, a list of dependencies that replaces the old one,
\* or both.
UpdateTask(m, a, t) ==
    LET s == state[m]
    IN  /\ Editable(s, t)
        /\ \E status \in Maybe(StatusChoices), deps \in Maybe(DepLists) :
              /\ Cardinality(Fields(status, deps)) \in 1 .. MaxFields
              /\ \A D \in deps : /\ UnknownRefs(DOMAIN s.tasks, D) = {}
                                 /\ ~ DepLoop(s, t, D)
              /\ Write(m,
                       {[id |-> Mint(m), type |-> "task.updated", task |-> t,
                         actor |-> a, status |-> status, deps |-> deps,
                         fields |-> Fields(status, deps)]},
                       local[m].leases)
    /\ UNCHANGED <<world, remote>>

\* opClaimTask, and opClaimNext: by its labels and priorities the task it
\* picks may be any that is ready.  The lease outlasts the instants looked at.
ClaimTask(m, a, t) ==
    LET s == state[m]
    IN  /\ ~ s.error
        /\ MayWork
        /\ Ready(s, t)
        /\ Mint(m) \in Ids
        /\ Write(m,
                 {[id |-> Mint(m), type |-> "claim.made", task |-> t,
                   actor |-> a]},
                 [local[m].leases EXCEPT ![Mint(m)] =
                     [exp |-> IDTime(MaxId) + 1, released |-> FALSE]])
    /\ UNCHANGED <<world, remote>>

\* opEscalate.
Escalate(m, a, t) ==
    LET s == state[m]
    IN  /\ Editable(s, t)
        /\ MayWork
        /\ \E blocking \in BOOLEAN :
              Write(m,
                    {[id |-> Mint(m), type |-> "escalation.raised",
                      task |-> t, actor |-> a, blocking |-> blocking]},
                    local[m].leases)
    /\ UNCHANGED <<world, remote>>

\* opAnswerEscalation; opRelayAnswer is the case of an open one.
Answer(m, a) ==
    LET s == state[m]
    IN  /\ ~ s.error
        /\ \E x \in DOMAIN s.escalations :
              Write(m,
                    {[id |-> Mint(m), type |-> "escalation.answered",
                      task |-> s.escalations[x].task, actor |-> a,
                      escalation |-> x]},
                    local[m].leases)
    /\ UNCHANGED <<world, remote>>

\* One cycle of the sync loop: what came in, and whether it got out.
Sync(m) ==
    LET head == Reconciled(local[m], remote)
    IN  /\ local' = [local EXCEPT ![m] = head]
        /\ state' = [state EXCEPT ![m] = View(head)]
        /\ remote' \in {remote, head}
        /\ <<local', remote'>> # <<local, remote>>
        /\ UNCHANGED <<world, clock, knew>>

Next ==
    \E m \in Machines :
        \/ Sync(m)
        \/ \E a \in Actors :
              \/ CreateTasks(m, a)
              \/ Answer(m, a)
              \/ \E t \in Tasks :
                    UpdateTask(m, a, t) \/ ClaimTask(m, a, t)
                        \/ Escalate(m, a, t)

Spec == Init /\ [][Next]_vars

-----------------------------------------------------------------------------
\* Heads hold what was minted, one event to an id, and the files of a claim.
TypeOK ==
    /\ clock \in 0 .. LastId
    /\ \A h \in Heads :
          /\ h.seen = {e.id : e \in h.events}
          /\ h.leases \in [Ids -> Lease]
    /\ \A g, h \in Heads : \A e \in g.events, f \in h.events :
          e.id = f.id => e = f
    /\ knew \in [Ids -> SUBSET Ids]

\* Whatever the machines write and in whatever order it is merged, a head
\* can be replayed: "malformed" means that something wrote garbage.
EveryHeadReplays == \A m \in Machines : ~ state[m].error

\* The tasks reachable from t along succ: the smallest closed set of them.
Reachable(succ, t) ==
    {u \in Tasks : \A S \in SUBSET Tasks :
        succ[t] \subseteq S /\ (\A v \in S : succ[v] \subseteq S) => u \in S}

EdgesOf(s) ==
    [t \in Tasks |-> IF t \in DOMAIN s.tasks THEN s.tasks[t].deps ELSE {}]

UnmetOf(s) ==
    [t \in Tasks |-> IF t \in DOMAIN s.tasks THEN UnmetDeps(s, t) ELSE {}]

\* The id of the event that set t's edges as head h has them.
EdgeWriter(h, t) ==
    Max({e.id : e \in {f \in h.events :
            f.task = t /\ \/ f.type = "task.created"
                          \/ f.type = "task.updated" /\ f.deps # {}}})

\* "Refuse to knowingly write a dependency loop": on every loop of every
\* head there are two edges whose writers did not know of each other's,
\* whatever was done, undone, reopened and merged around them.
LoopNeedsTwoWriters ==
    \A m \in Machines :
        LET h     == local[m]
            edges == EdgesOf(state[m])
        IN  \A t \in Tasks : t \in Reachable(edges, t) =>
                LET loop == {u \in Reachable(edges, t) :
                                t \in Reachable(edges, u)}
                IN  \E u, v \in loop :
                        /\ EdgeWriter(h, u) \notin knew[EdgeWriter(h, v)]
                        /\ EdgeWriter(h, v) \notin knew[EdgeWriter(h, u)]

\* The blocked rows that show a person something to decide.
Marked(s) ==
    {t \in Blocked(s) : \/ CancelledDeps(s, t) # {}
                        \/ BlockingEscalations(s, t) # {}
                        \/ InDepLoop(s, t)}

\* Every task is in exactly one section of the backlog:
\* the blocked list "can never disagree with what Ready withholds".
EachInOneSection ==
    \A m \in Machines :
        LET rows == Sections(state[m])
        IN  \A t \in DOMAIN state[m].tasks :
                Cardinality({x \in DOMAIN rows : t \in rows[x]}) = 1

\* Nothing waits for nothing: every task is in a section, and from every
\* blocked one the unmet dependencies lead to one that can be worked on or is,
\* to one parked on a shelf, or to a row that is marked.  A fleet that has run
\* dry shows why.
EveryWaitHasARoot ==
    /\ EachInOneSection
    /\ \A m \in Machines :
         LET s    == state[m]
             rows == Sections(s)
         IN  \A t \in rows.blocked :
                \E u \in {t} \cup Reachable(UnmetOf(s), t) :
                    u \in rows.ready \cup rows.in_progress \cup rows.inbox
                          \cup rows.held \cup Marked(s)

\* The three searches find the loops there are and no others: the mark is on
\* the tasks of a loop and not on those that lead into it, and a daemon
\* refuses exactly the edges that would close one.
WalksFindTheLoops ==
    \A m \in Machines :
        LET s       == state[m]
            edges   == EdgesOf(s)
            notDone == [t \in Tasks |-> edges[t] \ WithStatus(s, "done")]
        IN  /\ HasCycle(edges) = \E t \in Tasks : t \in Reachable(edges, t)
            /\ \A t \in DOMAIN s.tasks :
                  /\ InDepLoop(s, t) = (t \in Reachable(notDone, t))
                  /\ \A D \in SUBSET DOMAIN s.tasks :
                        DepLoop(s, t, D) =
                            (t \in Reachable([edges EXCEPT ![t] = D], t))
=============================================================================
