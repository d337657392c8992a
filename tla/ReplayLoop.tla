----------------------------- MODULE ReplayLoop -----------------------------
(***************************************************************************)
(* Replay's loop as a state machine: "state" is the state after the events  *)
(* read so far, "last" the id of the latest one.  Every event set is some  *)
(* behaviour of this machine, so what is invariant here holds of the        *)
(* replay of any ledger.                                                    *)
(*                                                                         *)
(* The leases are an input of the fold.  They are only ever read for       *)
(* claims already made, so the lease of a claim is chosen when its event   *)
(* is read.                                                                *)
(*                                                                         *)
(* "contest" is a history variable: the claims that entered the current    *)
(* hold on each task, the one holding and those that lost to it.           *)
(***************************************************************************)
EXTENDS Replay

CONSTANTS
    MaxGap,        \* the largest step from one id to the next (a bound)
    LeaseTimes,    \* the instants a lease may expire at
    StatusChoices, \* statuses that created and updated events carry
    OutcomeChoices,\* outcomes that finished runs carry
    BlockingChoices,\* whether raised escalations block
    DepChoices     \* dependency lists that created and updated events carry

ASSUME LoopAssumption ==
    /\ MaxGap \in Nat
    /\ LeaseTimes \subseteq Instants
    /\ StatusChoices \subseteq TaskStatus
    /\ OutcomeChoices \subseteq Outcome
    /\ BlockingChoices \subseteq BOOLEAN
    /\ DepChoices \subseteq SUBSET Tasks

VARIABLES state, leases, last, contest
vars == <<state, leases, last, contest>>

Init ==
    /\ state = InitState
    /\ leases = [i \in Ids |-> NoLease]
    /\ last = 0
    /\ contest = [t \in Tasks |-> {}]

\* The fold reads ids in ascending order and stops at the first malformed
\* event.
Reads(id) ==
    /\ ~ state.error
    /\ last < id
    /\ id <= last + MaxGap
    /\ last' = id

Created(id) ==
    /\ Reads(id)
    /\ \E t \in Tasks, a \in Actors, x \in StatusChoices, d \in DepChoices :
          state' = TaskCreated(state, [id |-> id, type |-> "task.created",
                        task |-> t, actor |-> a, status |-> x, deps |-> d])
    /\ UNCHANGED <<leases, contest>>

Updated(id) ==
    /\ Reads(id)
    /\ \E t \in Tasks, a \in Actors,
          x \in {{}} \cup {{y} : y \in StatusChoices},
          d \in {{}} \cup {{y} : y \in DepChoices} :
          state' = TaskUpdated(state, [id |-> id, type |-> "task.updated",
                        task |-> t, actor |-> a, status |-> x, deps |-> d])
    /\ UNCHANGED <<leases, contest>>

\* Who is in the contest for task t after the step: a new hold starts it
\* afresh, a loser joins it, and the end of a hold closes it.
NextContest(t, id) ==
    IF state'.error THEN contest[t]
    ELSE IF state'.holder[t] = None THEN {}
    ELSE IF state'.holder[t] = id THEN {id}
    ELSE contest[t] \cup ({id} \cap DOMAIN state'.claims)

Made(id) ==
    /\ Reads(id)
    /\ \E t \in Tasks, a \in Actors, exp \in LeaseTimes :
          /\ leases' = [leases EXCEPT ![id] = exp]
          /\ state' = ClaimMade(state, leases', [id |-> id,
                          type |-> "claim.made", task |-> t, actor |-> a])
          /\ contest' = [contest EXCEPT ![t] = NextContest(t, id)]

Confirmed(id) ==
    /\ Reads(id)
    /\ \E t \in Tasks, a \in Actors, c \in Ids :
          /\ state' = ClaimConfirmed(state, [id |-> id,
                          type |-> "claim.confirmed",
                          task |-> t, actor |-> a, claim |-> c])
          /\ contest' = [contest EXCEPT ![t] =
                            @ \cup ({state'.holder[t]} \ {None})]
    /\ UNCHANGED leases

Released(id) ==
    /\ Reads(id)
    /\ \E t \in Tasks, a \in Actors :
          /\ state' = ClaimReleased(state, [id |-> id,
                          type |-> "claim.released", task |-> t, actor |-> a])
          /\ contest' = [contest EXCEPT ![t] = NextContest(t, id)]
    /\ UNCHANGED leases

Finished(id) ==
    /\ Reads(id)
    /\ \E t \in Tasks, a \in Actors, o \in OutcomeChoices,
          c \in {x \in Ids : x < id} \cup {None} :
          /\ state' = RunFinished(state, [id |-> id,
                          type |-> "run.finished", task |-> t, actor |-> a,
                          outcome |-> o, claim |-> c])
          /\ contest' = [contest EXCEPT ![t] = NextContest(t, id)]
    /\ UNCHANGED leases

Raised(id) ==
    /\ Reads(id)
    /\ \E t \in Tasks, a \in Actors, b \in BlockingChoices :
          state' = EscalationRaised(state, [id |-> id,
                        type |-> "escalation.raised",
                        task |-> t, actor |-> a, blocking |-> b])
    /\ UNCHANGED <<leases, contest>>

Answered(id) ==
    /\ Reads(id)
    /\ \E t \in Tasks, a \in Actors, x \in Ids :
          state' = EscalationAnswered(state, [id |-> id,
                        type |-> "escalation.answered",
                        task |-> t, actor |-> a, escalation |-> x])
    /\ UNCHANGED <<leases, contest>>

Next ==
    \E id \in Ids :
        \/ Created(id) \/ Updated(id)
        \/ Made(id) \/ Confirmed(id) \/ Released(id) \/ Finished(id)
        \/ Raised(id) \/ Answered(id)

Spec == Init /\ [][Next]_vars
-----------------------------------------------------------------------------
\* Every part of the state is of its type, and keys refer to what exists.
TypeOK ==
    /\ IsState(state)
    /\ leases \in [Ids -> Instants]
    /\ last \in Ids \cup {0}
    /\ contest \in [Tasks -> SUBSET Ids]

\* ActiveClaim answers with the first active claim it meets; the referee's
\* working set names one holder.  They agree on every task: a task never
\* has two active claims, and never one the referee forgot.
HolderIsTheActiveClaim ==
    \A t \in Tasks :
        ActiveClaims(state, t) =
            IF state.holder[t] = None THEN {} ELSE {state.holder[t]}

\* "Confirmed is final": no order of claims, releases, finishes, lapses and
\* rival confirmations leaves a confirmed claim voided.
ConfirmedIsNeverVoided ==
    \A c \in DOMAIN state.claims :
        state.claims[c].confirmation # None
            => state.claims[c].status # "voided"

\* The winner rule: the hold belongs to the one confirmed claim of the
\* contest if there is one, and otherwise to its earliest claim.
HoldIsTheWinners ==
    \A t \in Tasks : state.holder[t] # None =>
        LET settled == {c \in contest[t] :
                            state.claims[c].confirmation # None}
        IN  IF settled = {}
            THEN /\ state.holder[t] \in contest[t]
                 /\ \A c \in contest[t] : state.holder[t] <= c
            ELSE settled = {state.holder[t]}

\* What the referee keeps beside the claims is what the claims say: through
\* every event type the working set of holders and the statuses name the same
\* active claim, and it is the winner of its contest.
RefereeRule == HolderIsTheActiveClaim /\ HoldIsTheWinners

\* One close per attempt, as far as replay itself decides: whatever the
\* instant, no attempt gets two synthesized closes, a synthesized superseded
\* run never joins a recorded close, and an attempt that can neither be
\* reported any more nor hold the task has left a trace.
AttemptsLeaveOneTrace ==
    \A now \in LeaseTimes :
        LET s     == Close(state, leases, now)
            synth == {r \in s.runs : r.synthesized}
            real  == s.runs \ synth
        IN  /\ \A r1, r2 \in synth : r1.claim = r2.claim => r1 = r2
            /\ \A r \in synth : r.outcome = "superseded"
                                    => ~ ClosedByRun(s, real, r.claim)
            /\ \A c \in Lapsed(s, leases, now) :
                  s.claims[c].status \in {"voided", "expired"}
                      => ClosedByRun(s, s.runs, c)
            /\ \A c \in Lapsed(s, leases, now) :
                  s.claims[c].status # "active"

\* Verdicts only move forward.  A claim that ended stays ended; a holder
\* stands down as a loser only for a claim confirmed in that very step, and
\* only while it is itself unconfirmed; a loser regains the hold only by its
\* own confirmation; a confirmation, once recorded, is never replaced.
VerdictsMoveForward ==
    \A c \in DOMAIN state.claims :
        LET old == state.claims[c]
            new == state'.claims[c]
        IN  /\ old.status \in {"released", "finished", "expired"}
                  => new = old
            /\ old.status = "active" /\ new.status = "voided"
                  => /\ old.confirmation = None
                     /\ \E d \in DOMAIN state.claims :
                           /\ state.claims[d].task = old.task
                           /\ state.claims[d].confirmation = None
                           /\ state'.claims[d].confirmation = last'
                           /\ state'.claims[d].status = "active"
            /\ old.status = "voided" /\ new.status # "voided"
                  => new.status = "active" /\ new.confirmation = last'
            /\ old.confirmation # None
                  => new.confirmation = old.confirmation

\* The closing stamp is the event that entered the present terminal status:
\* sending the same status again, or a late done run, never moves it, and a
\* task that is open again has none.
StampIsKept ==
    \A t \in DOMAIN state.tasks :
        /\ state'.tasks[t].status = state.tasks[t].status
              => state'.tasks[t].closed = state.tasks[t].closed
        /\ ~ Terminal(state'.tasks[t].status)
              => state'.tasks[t].closed = None
        /\ Terminal(state'.tasks[t].status)
           /\ state'.tasks[t].status # state.tasks[t].status
              => state'.tasks[t].closed = last'

\* No later event takes back what an earlier one settled, of a claim or of a
\* closed task.
VerdictsOnlyMoveForward == [][VerdictsMoveForward /\ StampIsKept]_vars

\* The loop implements the abstract referee: a contest per task, settled at
\* most once, whose winner is the settled claim or else the earliest.
Settled(t) ==
    {c \in contest[t] : state.claims[c].confirmation # None}

Abstract == INSTANCE Referee WITH
    Claims  <- Ids,
    contest <- contest,
    settled <- [t \in Tasks |-> Settled(t)],
    holder  <- state.holder

ImplementsReferee == Abstract!Spec
=============================================================================
