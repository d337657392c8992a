-------------------------------- MODULE Memo --------------------------------
(* The versioned replica of internal/daemon/daemon.go and the one read       *)
(* endpoint of api.go: a memoized state with the instant it stops being     *)
(* right, a version that moves with it, a timer at that instant, requests   *)
(* parked on the version they hold.  A daemon starts, loads, serves, shuts   *)
(* down or dies, and the next one counts its versions from 1 again.          *)
(*                                                                          *)
(* One step is one stretch of code under Daemon.mu.                          *)
EXTENDS Naturals

CONSTANTS
    Claims,    \* claims that are active or voided, while their lease lives
    Readers,   \* who sends snapshot requests, one at a time each
    TTL,       \* the lease time
    MaxClock,  \* bounds the instants
    MaxFacts,  \* bounds how often the ledger's events change
    MaxBoots   \* bounds how many daemons run one after the other

ASSUME MemoAssumption == {TTL, MaxClock, MaxFacts, MaxBoots} \subseteq Nat

VARIABLES
    clock,   \* the present instant
    ledger,  \* what the store's replica and the overlay hold
    daemon,  \* the running daemon, if any
    boots,   \* how many daemons have been started
    call     \* the request of each reader
memoVars == <<clock, ledger, daemon, boots, call>>

Never == 0  \* the zero time

Lapsed(expiry, now) == {c \in Claims : expiry[c] <= now}
Live(expiry, now)   == Claims \ Lapsed(expiry, now)

\* core.NextTransition over transitionLeases.
NextTransition(expiry, now) ==
    IF Live(expiry, now) = {} THEN Never
    ELSE CHOOSE t \in {expiry[c] : c \in Live(expiry, now)} :
             \A c \in Live(expiry, now) : t <= expiry[c]

\* What a reader sees of a state: the facts, the claims whose hold stands, and
\* whether the daemon could read its ledger.  Nothing before the load.
Placeholder == [facts |-> 0, live |-> {}, degraded |-> FALSE]

Down ==
    [up |-> FALSE, load |-> "pending", stopping |-> FALSE, decided |-> FALSE,
     degraded |-> FALSE, version |-> 0, facts |-> 0, live |-> {},
     leases |-> [c \in Claims |-> Never], until |-> Never, timer |-> Never,
     owed |-> FALSE]

Loaded(d) == d.load = "loaded"

Picture(d) ==
    IF Loaded(d)
    THEN [facts |-> d.facts, live |-> d.live, degraded |-> d.degraded]
    ELSE Placeholder

NoAnswer == [kind |-> "none"]
Quiet    == [stage |-> "idle", since |-> 0, waits |-> FALSE, late |-> FALSE,
             answer |-> NoAnswer]

\* GET /v0/snapshot?since=N&wait=D on its way.
Request(since, waits) ==
    [Quiet EXCEPT !.stage = "sent", !.since = since, !.waits = waits]

------------------------------------------------------------------------------
\* armLocked: from an instant that may have passed while waiting for the mutex.
ArmLocked(d, now) ==
    [d EXCEPT !.timer = IF d.until = Never THEN Never
                        ELSE IF d.until < now THEN clock
                        ELSE clock + (d.until - now)]

\* wakeLocked: the broadcast channel is closed and replaced.
WakeLocked(calls) ==
    [r \in Readers |-> IF calls[r].stage = "parked"
                       THEN [calls[r] EXCEPT !.stage = "held"]
                       ELSE calls[r]]

\* Mutant: a bump that leaves the timer where it was.
BumpLockedUnarmed(d, calls, now) ==
    [daemon |-> [d EXCEPT !.version = @ + 1], call |-> WakeLocked(calls)]

\* bumpLocked.
BumpLocked(d, calls, now) ==
    [daemon |-> ArmLocked([d EXCEPT !.version = @ + 1], now),
     call   |-> WakeLocked(calls)]

\* Mutant: entering the fail-safe mode moves no version.
ReplayLockedSilent(l, d, calls, now) ==
    IF l.readable
    THEN BumpLocked([d EXCEPT !.degraded = FALSE, !.facts = l.facts,
                              !.live     = Live(l.expiry, now),
                              !.leases   = l.expiry,
                              !.until    = NextTransition(l.expiry, now)],
                    calls, now)
    ELSE [daemon |-> [d EXCEPT !.degraded = TRUE], call |-> calls]

\* Mutant: the memo is replaced, the instant it was good until is not.
ReplayLockedKeepsUntil(l, d, calls, now) ==
    IF l.readable
    THEN BumpLocked([d EXCEPT !.degraded = FALSE, !.facts = l.facts,
                              !.live     = Live(l.expiry, now),
                              !.leases   = l.expiry],
                    calls, now)
    ELSE IF d.degraded
    THEN [daemon |-> d, call |-> calls]
    ELSE BumpLocked([d EXCEPT !.degraded = TRUE], calls, now)

\* replayLocked: ledger l replayed at now becomes the memo.  A ledger that
\* cannot be read leaves the last good state and says so, once.
ReplayLocked(l, d, calls, now) ==
    IF l.readable
    THEN BumpLocked([d EXCEPT !.degraded = FALSE, !.facts = l.facts,
                              !.live     = Live(l.expiry, now),
                              !.leases   = l.expiry,
                              !.until    = NextTransition(l.expiry, now)],
                    calls, now)
    ELSE IF d.degraded
    THEN [daemon |-> d, call |-> calls]
    ELSE BumpLocked([d EXCEPT !.degraded = TRUE], calls, now)

\* Mutant: the memo still stands at the instant it stops being right.
FreshenLockedLate(d, calls, now) ==
    IF d.until = Never \/ now <= d.until
    THEN [daemon |-> d, call |-> calls]
    ELSE ReplayLocked(ledger, d, calls, now)

\* freshenLocked.
FreshenLocked(d, calls, now) ==
    IF d.until = Never \/ now < d.until
    THEN [daemon |-> d, call |-> calls]
    ELSE ReplayLocked(ledger, d, calls, now)

Becomes(s) == daemon' = s.daemon /\ call' = s.call

------------------------------------------------------------------------------
\* Requests.  "sent" is on its way, "held" wants the mutex, "parked" waits on
\* the broadcast channel.
Answer(r, calls, a) ==
    [calls EXCEPT ![r].stage = "answered", ![r].answer = a]

\* snapshotLocked.
Snapshot(d) ==
    [kind |-> "full", version |-> d.version, loaded |-> Loaded(d),
     decided |-> Loaded(d) /\ d.decided, picture |-> Picture(d),
     boot |-> boots]

Unchanged(d) ==
    [kind |-> "unchanged", version |-> d.version, loaded |-> FALSE,
     decided |-> FALSE]

\* handleSnapshot, once around its loop.
HandleSnapshot(r) ==
    LET gated  == Loaded(daemon) /\ ~ daemon.degraded
        s      == IF gated THEN FreshenLocked(daemon, call, clock)
                  ELSE [daemon |-> daemon, call |-> call]
        d      == s.daemon
        moved  == d.version # call[r].since
    IN  /\ daemon.up
        /\ call[r].stage \in {"sent", "held"}
        /\ daemon' = d
        /\ call' =
              IF gated /\ d.degraded
              THEN Answer(r, s.call, [kind |-> "error"])
              ELSE IF moved \/ d.stopping \/ ~ call[r].waits
              THEN Answer(r, s.call, Snapshot(d))
              ELSE IF call[r].late
              THEN Answer(r, s.call, Unchanged(d))
              ELSE [s.call EXCEPT ![r].stage = "parked"]
        /\ UNCHANGED <<clock, ledger, boots>>

\* The wait elapses.
WaitElapses(r) ==
    /\ call[r].stage = "parked"
    /\ call' = [call EXCEPT ![r].stage = "held", ![r].late = TRUE]
    /\ UNCHANGED <<clock, ledger, daemon, boots>>

\* Nobody listens.
Refused(r) ==
    /\ call[r].stage = "sent"
    /\ ~ daemon.up \/ daemon.stopping
    /\ call' = [call EXCEPT ![r].stage = "failed"]
    /\ UNCHANGED <<clock, ledger, daemon, boots>>

------------------------------------------------------------------------------
\* Writes.  opCreateTasks, opUpdateTask, ...: the write gate, then commitLocked.
Serving == daemon.up /\ Loaded(daemon)

Staged(l) == [l EXCEPT !.facts = @ + 1]

\* When the caller read the clock: before it waited for the mutex.
Earlier == {clock - 1, clock} \cap (Nat \ {Never})

WriteFacts ==
    /\ Serving /\ ~ daemon.degraded
    /\ ledger.facts < MaxFacts
    /\ ledger' = Staged(ledger)
    /\ Becomes(ReplayLocked(ledger', daemon, call, clock))
    /\ UNCHANGED <<clock, boots>>

\* opClaimTask, opReleaseClaim: freshen, decide on the memo, move a lease and
\* commit.  A claim's lease lives for TTL, a released one is lapsed at once.
WriteLease(c) ==
    /\ Serving /\ ~ daemon.degraded
    /\ ledger.facts < MaxFacts
    /\ \E now \in Earlier :
          LET s == FreshenLocked(daemon, call, now)
              expiry == IF c \in s.daemon.live THEN now ELSE now + TTL
              after  == Staged([ledger EXCEPT !.expiry[c] = expiry])
          IN  IF s.daemon.degraded
              THEN Becomes(s) /\ UNCHANGED ledger
              ELSE /\ ledger' = after
                   /\ Becomes(ReplayLocked(after, s.daemon, s.call, clock))
    /\ UNCHANGED <<clock, boots>>

\* renewOnce: what the memo shows active, with no freshening before and the
\* replay at the instant read before the mutex.
RenewOnce(c) ==
    /\ daemon.up /\ ~ daemon.degraded
    /\ c \in daemon.live
    /\ \E now \in Earlier :
          /\ ledger.expiry[c] < now + TTL
          /\ ledger' = [ledger EXCEPT !.expiry[c] = now + TTL]
          /\ Becomes(ReplayLocked(ledger', daemon, call, now))
    /\ UNCHANGED <<clock, boots>>

------------------------------------------------------------------------------
\* What another machine, or a daemon on its way out, may make of the ledger.
Foreign(l) ==
    {[facts |-> l.facts + 1, readable |-> FALSE, expiry |-> l.expiry]}
    \cup {[facts |-> l.facts + 1, readable |-> TRUE, expiry |-> e] :
              e \in {l.expiry} \cup {[l.expiry EXCEPT ![c] = t] :
                         c \in Claims, t \in {clock, clock + TTL}}}

\* reconcile and noticeExternalMove: the store has moved, the memo has not.
MergeLands ==
    /\ Serving /\ ~ daemon.owed
    /\ ledger.facts < MaxFacts
    /\ ledger' \in Foreign(ledger)
    /\ daemon' = [daemon EXCEPT !.owed = TRUE]
    /\ UNCHANGED <<clock, boots, call>>

\* Refresh, which the sync loop calls back.
Refresh ==
    /\ daemon.up /\ daemon.owed
    /\ Becomes(ReplayLocked(ledger, [daemon EXCEPT !.owed = FALSE], call, clock))
    /\ UNCHANGED <<clock, ledger, boots>>

\* What the next daemon will load: the final sync, a branch moved by hand.
Elsewhere ==
    /\ ~ daemon.up
    /\ ledger.facts < MaxFacts
    /\ ledger' \in Foreign(ledger)
    /\ UNCHANGED <<clock, daemon, boots, call>>

\* onTransition, when the timer is due.
OnTransition ==
    /\ daemon.up /\ daemon.timer # Never /\ daemon.timer <= clock
    /\ LET d == [daemon EXCEPT !.timer = Never]
       IN  IF \/ d.stopping \/ ~ Loaded(d) \/ d.degraded \/ d.until = Never
           THEN daemon' = d /\ UNCHANGED call
           ELSE IF clock < d.until
           THEN daemon' = ArmLocked(d, clock) /\ UNCHANGED call
           ELSE Becomes(ReplayLocked(ledger, d, call, clock))
    /\ UNCHANGED <<clock, ledger, boots>>

------------------------------------------------------------------------------
\* The life of a daemon.  New: the socket is served before the ledger is read.
Boot ==
    /\ ~ daemon.up
    /\ boots < MaxBoots
    /\ daemon' = [Down EXCEPT !.up = TRUE]
    /\ boots' = boots + 1
    /\ UNCHANGED <<clock, ledger, call>>

\* load: the first replay, under one critical section with the mark.
LoadLands ==
    /\ daemon.up /\ daemon.load = "pending"
    /\ LET s == ReplayLocked(ledger, daemon, call, clock)
       IN  Becomes([s EXCEPT !.daemon.load = "loaded"])
    /\ UNCHANGED <<clock, ledger, boots>>

\* Mutant: a shut-down that leaves parked requests to their wait.
ShutdownLeaves(d) ==
    /\ daemon' = [d EXCEPT !.stopping = TRUE, !.timer = Never]
    /\ call' = call

\* Shutdown, up to the drain.
StopServing(d) ==
    /\ daemon' = [d EXCEPT !.stopping = TRUE, !.timer = Never]
    /\ call' = WakeLocked(call)

\* The first load fails, and start ends the daemon.
LoadFails ==
    /\ daemon.up /\ daemon.load = "pending"
    /\ StopServing([daemon EXCEPT !.load = "failed"])
    /\ UNCHANGED <<clock, ledger, boots>>

\* start finds the shut-down already begun.
LoadSkipped ==
    /\ daemon.up /\ daemon.load = "pending" /\ daemon.stopping
    /\ daemon' = [daemon EXCEPT !.load = "failed"]
    /\ UNCHANGED <<clock, ledger, boots, call>>

\* The first sync cycle sets the mode, and bumps no version.
Decide ==
    /\ Serving /\ ~ daemon.decided
    /\ daemon' = [daemon EXCEPT !.decided = TRUE]
    /\ UNCHANGED <<clock, ledger, boots, call>>

Shutdown ==
    /\ daemon.up /\ ~ daemon.stopping
    /\ StopServing(daemon)
    /\ UNCHANGED <<clock, ledger, boots>>

\* The connections that are open when the process ends.
Cut(calls) ==
    [r \in Readers |-> IF calls[r].stage \in {"held", "parked"}
                       THEN [calls[r] EXCEPT !.stage = "failed"]
                       ELSE calls[r]]

\* Shutdown after the drain has ended or run out of time, and the load has
\* been joined.
Exit ==
    /\ daemon.up /\ daemon.stopping
    /\ daemon.load # "pending"
    /\ daemon' = Down
    /\ call' = Cut(call)
    /\ UNCHANGED <<clock, ledger, boots>>

Crash ==
    /\ daemon.up
    /\ daemon' = Down
    /\ call' = Cut(call)
    /\ UNCHANGED <<clock, ledger, boots>>

Tick ==
    /\ clock < MaxClock
    /\ clock' = clock + 1
    /\ UNCHANGED <<ledger, daemon, boots, call>>

MemoInit ==
    /\ clock = 1
    /\ ledger = [facts |-> 0, readable |-> TRUE,
                 expiry |-> [c \in Claims |-> Never]]
    /\ daemon = Down
    /\ boots = 0
    /\ call = [r \in Readers |-> Quiet]

\* The steps that leave the readers' side alone.
DaemonNext ==
    \/ WriteFacts \/ MergeLands \/ Refresh \/ Elsewhere \/ OnTransition
    \/ \E c \in Claims : WriteLease(c) \/ RenewOnce(c)
    \/ Boot \/ LoadLands \/ LoadFails \/ LoadSkipped \/ Decide
    \/ Shutdown \/ Exit \/ Crash \/ Tick
    \/ \E r \in Readers : HandleSnapshot(r) \/ WaitElapses(r) \/ Refused(r)

=============================================================================
