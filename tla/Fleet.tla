------------------------------- MODULE Fleet -------------------------------
(***************************************************************************)
(* Several machines working one backlog: internal/daemon/ops.go over       *)
(* internal/syncer.                                                        *)
(*                                                                         *)
(* Each machine's daemon has a local head of the data branch, answers its  *)
(* own actors from the replay of that head, and exchanges heads with the   *)
(* remote.  A claim is provisional until its claimant has won the          *)
(* confirmation gate: judge the head a confirmation would land on, then    *)
(* land it there by compare-and-swap on the remote ref.                    *)
(*                                                                         *)
(* Every operation that writes takes place at an instant of its own, which *)
(* is the id of the event it mints: the machines' clocks agree.  An        *)
(* operation is atomic where the daemon holds its mutex; the gate lets go  *)
(* of it between judging, pushing and recording.                           *)
(***************************************************************************)
EXTENDS Merge

CONSTANTS
    Machines,
    Worlds       \* the deployments and habits looked at, one per behaviour

ASSUME FleetAssumption ==
    /\ IdsPerTick = 1
    /\ IsFiniteSet(Tasks) /\ Cardinality(Tasks) \in Ids
    /\ Actors # {}
    /\ \A w \in Worlds :
          /\ w.home \in [Actors -> Machines]
          /\ w.ttl \in Nat \ {0}
          /\ w.last \in Ids
          /\ {w.hasRemote, w.mayAbandon, w.mayRenew} \subseteq BOOLEAN
          /\ w.hasRemote \/ \E m \in Machines : w.home = [a \in Actors |-> m]

VARIABLES
    world,   \* the deployment of this behaviour; no step changes it
    clock,   \* the latest instant anything happened at
    local,   \* the local head of each machine
    remote,  \* the head of the remote data branch
    gate,    \* the verdict each actor is waiting for
    told     \* claims whose claimant was answered "confirmed, merge freely"
vars == <<world, clock, local, remote, gate, told>>

Home       == world.home        \* the machine whose daemon serves each actor
TTL        == world.ttl         \* the lease time, in instants
Last       == world.last        \* the last instant looked at
HasRemote  == world.hasRemote   \* whether a remote is configured
MayAbandon == world.mayAbandon  \* whether holders release or report failures
MayRenew   == world.mayRenew    \* whether sessions renew leases

Idle == [stage |-> "idle"]

-----------------------------------------------------------------------------
Now == clock + 1

Heads == {local[m] : m \in Machines} \cup {remote}

\* What a daemon answers from at an instant.
View(head, now) == ReplayOf(head.events, Expiries(head), IDTime(now))

\* opCreateTask's events, everywhere: one per task, ids 1 .. Cardinality.
Backlog ==
    CHOOSE seq \in [1 .. Cardinality(Tasks) -> Tasks] :
        \A i, j \in DOMAIN seq : seq[i] = seq[j] => i = j

FirstHead ==
    [events |-> {[id |-> i, type |-> "task.created", task |-> Backlog[i],
                  actor |-> CHOOSE a \in Actors : TRUE,
                  status |-> "open", deps |-> {}] : i \in DOMAIN Backlog},
     leases |-> [c \in Ids |-> NoRecord],
     seen   |-> DOMAIN Backlog]

Init ==
    /\ world \in Worlds
    /\ clock = Cardinality(Tasks)
    /\ local = [m \in Machines |-> FirstHead]
    /\ remote = FirstHead
    /\ gate = [a \in Actors |-> Idle]
    /\ told = {}

\* latestClaim, and attemptCloseLocked's "closed or synthesized".
OwnClaims(s, t, a) ==
    {c \in DOMAIN s.claims : s.claims[c].task = t /\ s.claims[c].actor = a}

LatestClaim(s, t, a) ==
    IF OwnClaims(s, t, a) = {} THEN None
    ELSE CHOOSE c \in OwnClaims(s, t, a) : \A d \in OwnClaims(s, t, a) : d <= c

HeldByActor(s, t, a) == {c \in ActiveClaims(s, t) : s.claims[c].actor = a}

\* A commit on top of head: one event, and the leases after it.
With(head, event, leases) ==
    [events |-> head.events \cup {event},
     leases |-> leases,
     seen   |-> head.seen \cup {event.id}]

Write(m, event, leases) ==
    /\ clock' = Now
    /\ local' = [local EXCEPT ![m] = With(@, event, leases)]

-----------------------------------------------------------------------------
\* opClaimTask: the lease, then the claim.
Claim(a, t) ==
    LET m == Home[a]
    IN  /\ Now <= Last
        /\ gate[a] = Idle
        /\ Ready(View(local[m], Now), t)
        /\ Write(m,
                 [id |-> Now, type |-> "claim.made", task |-> t, actor |-> a],
                 [local[m].leases EXCEPT ![Now] =
                     [exp |-> Now + TTL, released |-> FALSE]])
        /\ UNCHANGED <<world, remote, gate, told>>

\* opReleaseClaim: the holder gives the task back, or a loser whose attempt
\* is still open stands down.  The tombstone is written first.
Release(a, t) ==
    LET m == Home[a]
        s == View(local[m], Now)
        c == IF HeldByActor(s, t, a) # {}
             THEN CHOOSE x \in HeldByActor(s, t, a) : TRUE
             ELSE LatestClaim(s, t, a)
    IN  /\ Now <= Last
        /\ gate[a] = Idle
        /\ c # None
        /\ \/ s.claims[c].status = "active" /\ MayAbandon
           \/ /\ s.claims[c].status = "voided"
              /\ ~ ClosedByRun(s, s.runs, c)
        /\ Write(m,
                 [id |-> Now, type |-> "claim.released",
                  task |-> t, actor |-> a],
                 [local[m].leases EXCEPT ![c] =
                     [exp |-> Now, released |-> TRUE]])
        /\ UNCHANGED <<world, remote, gate, told>>

\* WriteLease: a commit on top of head that writes one lease record.
Renewed(head, c) ==
    [events |-> head.events,
     leases |-> [head.leases EXCEPT ![c] =
                    [exp |-> Now + TTL, released |-> FALSE]],
     seen   |-> head.seen \cup {Now}]

\* Mutant: a session renews every claim it has made, ended or not.
RenewTracked(a, t) ==
    LET m == Home[a]
    IN  /\ MayRenew
        /\ Now <= Last
        /\ \E c \in OwnClaims(View(local[m], clock), t, a) :
              local' = [local EXCEPT ![m] = Renewed(@, c)]
        /\ clock' = Now
        /\ UNCHANGED <<world, remote, gate, told>>

\* renewOnce: a session renews the claims it believes active.  The replay it
\* believes may be as old as the last instant anything happened at.
Renew(a, t) ==
    LET m == Home[a]
    IN  /\ MayRenew
        /\ Now <= Last
        /\ \E c \in HeldByActor(View(local[m], clock), t, a) :
              local' = [local EXCEPT ![m] = Renewed(@, c)]
        /\ clock' = Now
        /\ UNCHANGED <<world, remote, gate, told>>

-----------------------------------------------------------------------------
\* Mutant: an attempt that was already reported can be reported again.
ClosableAgain(s, t, a) ==
    IF HeldByActor(s, t, a) # {} THEN HeldByActor(s, t, a)
    ELSE {c \in {LatestClaim(s, t, a)} \ {None} :
             s.claims[c].status \in {"released", "voided"}}

\* finishGuardLocked: the attempt a finish by a would close, if any.
Closable(s, t, a) ==
    IF HeldByActor(s, t, a) # {} THEN HeldByActor(s, t, a)
    ELSE {c \in {LatestClaim(s, t, a)} \ {None} :
             /\ s.claims[c].status \in {"released", "voided"}
             /\ ~ ClosedByRun(s, s.runs, c)}

\* Mutant: any claim that has not ended may be confirmed.
JudgeTrustsClaim(s, t, a) ==
    LET mine == LatestClaim(s, t, a)
    IN  IF mine = None THEN "refuse"
        ELSE IF s.claims[mine].confirmation # None THEN "confirmed"
        ELSE IF s.claims[mine].status \in {"active", "voided"} THEN "proceed"
        ELSE "refuse"

\* judgeConfirm over state s.  "proceed": a's latest claim is the
\* provisional winner; "refuse": it ended unconfirmed, or there is none.
Judge(s, t, a) ==
    LET mine == LatestClaim(s, t, a)
    IN  IF mine = None THEN "refuse"
        ELSE IF s.claims[mine].confirmation # None THEN "confirmed"
        ELSE IF mine \in ActiveClaims(s, t) THEN "proceed"
        ELSE IF \/ ActiveClaims(s, t) # {}
                \/ s.claims[mine].status = "voided"
        THEN "lost"
        ELSE "refuse"

\* writeRunLocked.
RecordRun(a, t, c, outcome) ==
    LET m == Home[a]
    IN  Write(m, [id |-> Now, type |-> "run.finished", task |-> t,
                       actor |-> a, outcome |-> outcome, claim |-> c],
              local[m].leases)

\* opFinishRun with any outcome but done.
FinishFailed(a, t) ==
    LET s == View(local[Home[a]], Now)
    IN  /\ Now <= Last
        /\ gate[a] = Idle
        /\ \E c \in Closable(s, t, a) :
              /\ MayAbandon \/ s.claims[c].status = "voided"
              /\ RecordRun(a, t, c, IF s.claims[c].status = "voided"
                                    THEN "superseded" ELSE "failed")
        /\ UNCHANGED <<world, remote, gate, told>>

\* Mutant: holding a provisional claim is enough to record done.
FinishUncertified(a, t) ==
    LET s == View(local[Home[a]], Now)
    IN  /\ Now <= Last
        /\ gate[a] = Idle
        /\ Judge(s, t, a) # "refuse"
        /\ \E c \in Closable(s, t, a) :
              RecordRun(a, t, c, IF Judge(s, t, a) # "lost"
                                 THEN "done" ELSE "superseded")
        /\ UNCHANGED <<world, remote, gate, told>>

\* opFinishRun with outcome done, when the local pass settles it.
FinishSettled(a, t) ==
    LET s == View(local[Home[a]], Now)
    IN  /\ Now <= Last
        /\ gate[a] = Idle
        /\ Judge(s, t, a) \in {"confirmed", "lost"}
        /\ \E c \in Closable(s, t, a) :
              RecordRun(a, t, c, IF Judge(s, t, a) = "confirmed"
                                 THEN "done" ELSE "superseded")
        /\ UNCHANGED <<world, remote, gate, told>>

\* opConfirmClaim, when the local pass answers it: a verdict already won.
ConfirmSettled(a, t) ==
    LET s == View(local[Home[a]], clock)
    IN  /\ gate[a] = Idle
        /\ Judge(s, t, a) = "confirmed"
        /\ told' = told \cup {LatestClaim(s, t, a)}
        /\ UNCHANGED <<world, clock, local, remote, gate>>

\* opConfirmClaim and opFinishRun go out to the gate.
EnterGate(a, t, finishing) ==
    LET s == View(local[Home[a]], clock)
    IN  /\ gate[a] = Idle
        /\ Judge(s, t, a) = "proceed"
        /\ finishing => Closable(s, t, a) # {}
        /\ gate' = [gate EXCEPT ![a] = [stage |-> "judge", task |-> t,
                                        finishing |-> finishing]]
        /\ UNCHANGED <<world, clock, local, remote, told>>

\* The verdict is in: confirm_claim answers it, finish_run goes on to record.
Answer(a, verdict, c) ==
    /\ gate' = [gate EXCEPT ![a] =
                  IF gate[a].finishing
                  THEN [stage |-> "record", task |-> gate[a].task,
                        verdict |-> verdict]
                  ELSE Idle]
    /\ told' = IF verdict = "confirmed" THEN told \cup {c} ELSE told

\* judgeConfirm's three ways out; "proceed" mints the confirmation.
Judged(a, s) ==
    LET t == gate[a].task
        c == LatestClaim(s, t, a)
    IN  \/ /\ Judge(s, t, a) = "refuse"
           /\ gate' = [gate EXCEPT ![a] = Idle]
           /\ UNCHANGED <<clock, told>>
        \/ /\ Judge(s, t, a) \in {"confirmed", "lost"}
           /\ Answer(a, Judge(s, t, a), c)
           /\ UNCHANGED clock

Confirmation(a, s) ==
    [id |-> Now, type |-> "claim.confirmed", task |-> gate[a].task,
     actor |-> a, claim |-> LatestClaim(s, gate[a].task, a)]

\* GateHead and the judging after it.  The head judged is the local one with
\* the remote's work in it, or without if bringing it in lost its race.
GateJudge(a) ==
    /\ HasRemote
    /\ gate[a].stage = "judge"
    /\ \E head \in {local[Home[a]], Reconciled(local[Home[a]], remote)} :
          LET s == View(head, clock)
          IN  /\ local' = [local EXCEPT ![Home[a]] = head]
              /\ \/ Judged(a, s)
                 \/ /\ Judge(s, gate[a].task, a) = "proceed"
                    /\ Now <= Last
                    /\ clock' = Now
                    /\ gate' = [gate EXCEPT ![a] =
                          [stage |-> "push", task |-> @.task,
                           finishing |-> @.finishing, head |-> head,
                           event |-> Confirmation(a, s)]]
                    /\ UNCHANGED told
    /\ UNCHANGED <<world, remote>>

\* Mutant: the push is forced.
GatePushForced(a) ==
    /\ gate[a].stage = "push"
    /\ remote' = With(gate[a].head, gate[a].event, gate[a].head.leases)
    /\ local' = [local EXCEPT ![Home[a]] = Reconciled(@, remote')]
    /\ Answer(a, "confirmed", gate[a].event.claim)
    /\ UNCHANGED <<world, clock>>

\* GatePush: the confirmation on top of the judged head, accepted only if
\* the remote has not moved past it.  Advancing the local head is best
\* effort, and the answer of the remote may be lost on the way.
GatePush(a) ==
    /\ gate[a].stage = "push"
    /\ Ancestor(remote, gate[a].head)
    /\ remote' = With(gate[a].head, gate[a].event, gate[a].head.leases)
    /\ \E head \in {local[Home[a]], Reconciled(local[Home[a]], remote')} :
          local' = [local EXCEPT ![Home[a]] = head]
    /\ \/ Answer(a, "confirmed", gate[a].event.claim)
       \/ gate' = [gate EXCEPT ![a] = Idle] /\ UNCHANGED told
    /\ UNCHANGED <<world, clock>>

\* The push was refused: the remote moved, fetch and judge again.
GateRetry(a) ==
    /\ gate[a].stage = "push"
    /\ ~ Ancestor(remote, gate[a].head)
    /\ gate' = [gate EXCEPT ![a] =
                  [stage |-> "judge", task |-> @.task,
                   finishing |-> @.finishing]]
    /\ UNCHANGED <<world, clock, local, remote, told>>

\* An unreachable remote, the last retry, a caller gone or a daemon that
\* died: the gate ends with nothing written and nothing promised.
GateRefuse(a) ==
    /\ gate[a] # Idle
    /\ gate' = [gate EXCEPT ![a] = Idle]
    /\ UNCHANGED <<world, clock, local, remote, told>>

\* The instant an operation judges at once more after it went to the gate.  It
\* is the one the operation began at, or that of a later replay the daemon
\* still has; every instant up to now is let in.
Judgings == 1 .. Now

\* confirmLocally: without a remote the local verdict is the final one.
ConfirmLocally(a) ==
    /\ ~ HasRemote
    /\ gate[a].stage = "judge"
    /\ \E now \in Judgings :
          LET m == Home[a]
              s == View(local[m], now)
          IN  \/ Judged(a, s) /\ UNCHANGED local
              \/ /\ Judge(s, gate[a].task, a) = "proceed"
                 /\ Now <= Last
                 /\ Write(m, Confirmation(a, s), local[m].leases)
                 /\ Answer(a, "confirmed", LatestClaim(s, gate[a].task, a))
    /\ UNCHANGED <<world, remote>>

\* The rest of opFinishRun after the gate: guard again, then record.
GateRecord(a) ==
    /\ gate[a].stage = "record"
    /\ Now <= Last
    /\ \E now \in Judgings :
          LET t == gate[a].task
              s == View(local[Home[a]], now)
          IN  \/ /\ Closable(s, t, a) = {}
                 /\ UNCHANGED <<clock, local>>
              \/ \E c \in Closable(s, t, a) :
                    RecordRun(a, t, c, IF gate[a].verdict = "confirmed"
                                       THEN "done" ELSE "superseded")
    /\ gate' = [gate EXCEPT ![a] = Idle]
    /\ UNCHANGED <<world, remote, told>>

-----------------------------------------------------------------------------
\* Mutant: only fast-forwards are brought in.
PullFastForward(m) ==
    /\ HasRemote
    /\ ~ Ancestor(remote, local[m])
    /\ Ancestor(local[m], remote)
    /\ local' = [local EXCEPT ![m] = remote]
    /\ UNCHANGED <<world, clock, remote, gate, told>>

\* The two halves of a sync cycle.
Pull(m) ==
    /\ HasRemote
    /\ ~ Ancestor(remote, local[m])
    /\ local' = [local EXCEPT ![m] = Reconciled(@, remote)]
    /\ UNCHANGED <<world, clock, remote, gate, told>>

Push(m) ==
    /\ HasRemote
    /\ Ancestor(remote, local[m])
    /\ remote # local[m]
    /\ remote' = local[m]
    /\ UNCHANGED <<world, clock, local, gate, told>>

\* Time passes with nobody at work.  It is told apart from an operation's own
\* instant only while a lease may still lapse.
Wait ==
    /\ Now <= Last
    /\ \E h \in Heads, c \in Ids : h.leases[c].exp \in Now .. Last
    /\ clock' = Now
    /\ UNCHANGED <<world, local, remote, gate, told>>

Next ==
    \/ Wait
    \/ \E a \in Actors, t \in Tasks :
          \/ Claim(a, t) \/ Release(a, t) \/ Renew(a, t)
          \/ FinishFailed(a, t) \/ FinishSettled(a, t)
          \/ ConfirmSettled(a, t)
          \/ \E finishing \in BOOLEAN : EnterGate(a, t, finishing)
    \/ \E a \in Actors :
          \/ GateJudge(a) \/ GatePush(a) \/ GateRetry(a) \/ GateRefuse(a)
          \/ ConfirmLocally(a) \/ GateRecord(a)
    \/ \E m \in Machines : Pull(m) \/ Push(m)

Spec == Init /\ [][Next]_vars

\* The sync loop of every machine keeps cycling, and reaches the remote.
FairSpec ==
    /\ Spec
    /\ \A m \in Machines : WF_vars(Pull(m)) /\ WF_vars(Push(m))
-----------------------------------------------------------------------------
IsHead(h) ==
    /\ h.seen \subseteq 1 .. clock
    /\ {e.id : e \in h.events} \subseteq h.seen
    /\ \A e, f \in h.events : e.id = f.id => e = f
    /\ h.leases \in [Ids -> Lease]

\* Every head holds well-formed files, and replay accepts them: no interleaving
\* of operations, merges and refused confirmations brings on the read-only mode
\* of a malformed ledger.  Ids name events; what a gate is about to push is a
\* head.
TypeOK ==
    /\ clock \in Ids
    /\ \A h \in Heads : IsHead(h) /\ ~ Fold(h.events, Expiries(h)).error
    /\ told \subseteq Ids
    /\ \A a \in Actors :
          /\ gate[a].stage \in {"idle", "judge", "push", "record"}
          /\ gate[a].stage = "push" => IsHead(gate[a].head)

\* The head that has the last word: the remote's, or the only machine's.
Ledger == IF HasRemote THEN remote
          ELSE local[Home[CHOOSE a \in Actors : TRUE]]

\* Fleets that meet over a remote, where attempts end in a done run or a loss,
\* under leases that outlast them.
Lasting == HasRemote /\ ~ MayAbandon /\ TTL >= Last

\* "A confirmed claim wins its contest unconditionally": on every head that has
\* a task's first confirmation, replay applies it, whatever claims of whatever
\* machines, known when it was won or not, come in before or after it.  And
\* who is told to merge is the first winner, or claimed the task after the
\* first winner's attempt was over.
FirstWinnerStands ==
    Lasting =>
        /\ \A h \in Heads : \A e \in h.events : First(e, h) =>
              LET c == Fold(h.events, Expiries(h)).claims[e.claim]
              IN  c.confirmation = e.id /\ c.status # "voided"
        /\ \A c \in told : \E q, e \in Ledger.events :
              /\ q.type = "claim.made" /\ q.id = c
              /\ First(e, Ledger) /\ e.task = q.task
              /\ ClaimedAfter(c, e, Ledger)

\* Whatever was released, lapsed or refused: no two machines ever name
\* different first winners of a task, and no done run precedes the first one.
FirstWinnerIsAlone ==
    /\ \A h \in Heads : \A e \in h.events : First(e, h) => First(e, Ledger)
    /\ \A h \in Heads : \A r \in h.events :
          r.type = "run.finished" /\ r.outcome = "done" =>
             \E e \in Ledger.events :
                First(e, Ledger) /\ e.task = r.task /\ e.id < r.id

\* What is promised to every winner, not only to the first one of a task, is
\* promised to a single machine, or to two where attempts end in a done run or
\* a loss.  A release, a lapse or a third machine brings on heads that have
\* not heard that the first contest is over, and the merge guard then takes
\* its confirmation for a rival of the second winner's.
Settled ==
    HasRemote => /\ ~ MayAbandon /\ TTL >= Last
                 /\ \E m, n \in Machines : \A a \in Actors : Home[a] \in {m, n}

\* The confirmation of whoever was told to merge freely stays on the ledger, and
\* no head that has it counts the claim among the losers, then or ever after.
ToldIsNeverVoided ==
    \A c \in told :
        LET Has(h) == \E e \in h.events :
                          e.type = "claim.confirmed" /\ e.claim = c
        IN  /\ Has(Ledger)
            /\ \A h \in Heads : Has(h) =>
                  Fold(h.events, Expiries(h)).claims[c].status # "voided"

\* At most one claimant at a time may merge: of two claims of a task that
\* were both told to, the first one's hold was over when the second was
\* made, in the eyes of the ledger.
MergePermissionIsExclusive ==
    LET s == Fold(Ledger.events, Expiries(Ledger))
    IN  \A c, d \in told :
            /\ {c, d} \subseteq DOMAIN s.claims
            /\ c < d
            /\ s.claims[c].task = s.claims[d].task
            => \/ Ledger.leases[c].exp <= IDTime(d)
               \/ \E e \in Ledger.events :
                     /\ e.id \in c .. d
                     /\ e.task = s.claims[c].task
                     /\ e.actor = s.claims[c].actor
                     /\ e.type \in {"claim.released", "run.finished"}

\* "A done record is certified by winning the contest": every done run names
\* a claim that an earlier confirmation names.  The remote has it, and the
\* head with the run gets it no later than with the next merge.
DoneIsCertified ==
    \A h \in Heads : \A r \in h.events :
        (r.type = "run.finished" /\ r.outcome = "done") =>
            \E e \in h.events \cup remote.events :
                /\ e.type = "claim.confirmed"
                /\ e.claim = r.claim
                /\ e.id < r.id

\* Every winner of a settled fleet keeps what it was promised, and what was
\* published stays published.
EveryWinnerStands ==
    Settled =>
        /\ ToldIsNeverVoided /\ MergePermissionIsExclusive /\ DoneIsCertified
        /\ \A h \in Heads : \A e \in h.events :
              e.type = "claim.confirmed" => e \in Ledger.events

\* "One close per attempt": no attempt is reported twice, whatever its
\* verdict went through between the reports.
OneClosePerAttempt ==
    \A h \in Heads : \A q, r \in h.events :
        /\ q.type = "run.finished" /\ r.type = "run.finished"
        /\ q.claim = r.claim
        => q = r

\* "A renewal later than the tombstone structurally cannot exist": once a
\* tombstone is known anywhere, the machine that owns the claim holds it.
OwnerHoldsTombstone ==
    \A h \in Heads : \A e \in h.events :
        e.type = "claim.made" /\ h.leases[e.id].released
            => local[Home[e.actor]].leases[e.id].released

\* What was published stays published.
PublishedIsKept == [][remote.events \subseteq remote'.events]_vars

\* No replica's copy of a lease ever goes back to an older record.
LeasesGoForward ==
    \A c \in Ids :
        LET Forward(old, new) == new = old \/ Beats(new, old)
        IN  /\ Forward(remote.leases[c], remote'.leases[c])
            /\ \A m \in Machines :
                  Forward(local[m].leases[c], local'[m].leases[c])

\* A task's first confirmation is its first forever: no push, merge or
\* adoption, of however stale a head, takes it from a head that has it, or
\* comes up with an earlier one.
FirstWinnersStay ==
    LET Stays(old, new) == \A e \in old.events : First(e, old) => First(e, new)
    IN  /\ Stays(remote, remote')
        /\ \A m \in Machines : Stays(local[m], local'[m])

\* Nothing shared goes back: the first winners stay, and lease records go
\* forward.
NothingGoesBack == [][FirstWinnersStay /\ LeasesGoForward]_vars

\* Once nobody works any more, all machines and the remote come to agree.
Converges == <>[](\A m \in Machines : local[m] = remote)
=============================================================================
