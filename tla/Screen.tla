------------------------------- MODULE Screen -------------------------------
(* The terminal screen of cmd/tuhdoo (top.go, snapshot.go) over the          *)
(* versioned replica: one long poll after another, each parked on the       *)
(* version last rendered.  Update handles one message at a time, so that    *)
(* an answer, what fetchSnapshotSince does with it and the message it       *)
(* becomes are one step.                                                    *)
EXTENDS Memo

CONSTANT MaxWakeUps  \* bounds the retry timers of one screen

ASSUME ScreenAssumption == MaxWakeUps \in Nat \ {0}

VARIABLE pane  \* topModel, as far as polling goes
vars == <<clock, ledger, daemon, boots, call, pane>>

\* "wakeUps" are the pollMsgs to come: Init's, and one per retry timer.
\* "boot" is history: the daemon that served what is shown.
FirstPane ==
    [version |-> 0, shown |-> Placeholder, boot |-> 0, inFlight |-> FALSE,
     fetching |-> "no", wakeUps |-> 1, failed |-> FALSE]

Init ==
    /\ MemoInit
    /\ pane = [p \in Readers |-> FirstPane]

------------------------------------------------------------------------------
\* startPoll, when none is in flight.
StartPoll(p, m) ==
    /\ pane' = [pane EXCEPT ![p] =
                   [m EXCEPT !.inFlight = TRUE, !.fetching = "first"]]
    /\ call' = [call EXCEPT ![p] = Request(m.version, TRUE)]

\* Another request of the same fetchSnapshotSince.
ReadAgain(p, loop, since, waits) ==
    /\ pane' = [pane EXCEPT ![p].fetching = loop]
    /\ call' = [call EXCEPT ![p] = Request(since, waits)]

\* snapMsg with an error: retryCmd.
PollFailed(p) ==
    /\ pane' = [pane EXCEPT ![p].inFlight = FALSE, ![p].fetching = "no",
                            ![p].failed = TRUE, ![p].wakeUps = @ + 1]
    /\ call' = [call EXCEPT ![p] = Quiet]

\* snapMsg with a fresh snapshot: shown, and polled for at its version.
Installed(m, a) ==
    [m EXCEPT !.version = a.version, !.shown = a.picture, !.boot = a.boot,
              !.failed = FALSE]

\* fetchSnapshotSince and Update, for whatever came back.
Receive(p) ==
    LET a    == call[p].answer
        m    == pane[p]
        same == m.fetching = "first" /\ a.kind = "unchanged"
    IN  /\ \/ /\ call[p].stage = "failed"
              /\ PollFailed(p)
           \/ /\ call[p].stage = "answered"
              /\ \/ a.kind = "error" /\ PollFailed(p)
                 \/ same /\ StartPoll(p, [m EXCEPT !.failed = FALSE])
                 \/ /\ a.kind # "error" /\ ~ same
                    /\ m.fetching # "undecided" /\ ~ a.loaded
                    /\ ReadAgain(p, "placeholder", 0, TRUE) \/ PollFailed(p)
                 \/ /\ a.kind = "full"
                    /\ m.fetching = "undecided" \/ a.loaded
                    /\ \/ /\ ~ a.decided
                          /\ ReadAgain(p, "undecided", a.version, FALSE)
                       \/ StartPoll(p, Installed(m, a))
        /\ UNCHANGED <<clock, ledger, daemon, boots>>

\* Mutant: a poll without a message that asks for it.
PollMsgUnasked(p) ==
    LET m == [pane[p] EXCEPT !.wakeUps = @ - 1]
    IN  /\ IF m.inFlight
           THEN pane' = [pane EXCEPT ![p] = m] /\ UNCHANGED call
           ELSE StartPoll(p, m)
        /\ UNCHANGED <<clock, ledger, daemon, boots>>

\* pollMsg: ignored while a poll is in flight.
PollMsg(p) ==
    LET m == [pane[p] EXCEPT !.wakeUps = @ - 1]
    IN  /\ pane[p].wakeUps > 0
        /\ IF m.inFlight
           THEN pane' = [pane EXCEPT ![p] = m] /\ UNCHANGED call
           ELSE StartPoll(p, m)
        /\ UNCHANGED <<clock, ledger, daemon, boots>>

\* actionMsg: only a screen sitting in a backoff has a poll to start.
ActionMsg(p) ==
    /\ ~ pane[p].inFlight
    /\ pane[p].wakeUps < MaxWakeUps
    /\ StartPoll(p, pane[p])
    /\ UNCHANGED <<clock, ledger, daemon, boots>>

Next ==
    \/ DaemonNext /\ UNCHANGED pane
    \/ \E p \in Readers : Receive(p) \/ PollMsg(p) \/ ActionMsg(p)

Spec == Init /\ [][Next]_vars

\* Go's runtime runs every handler, callback and timer; a load ends one way or
\* the other, a shut-down goes through, and the sync loop decides its mode.
\* Nobody is bound to start a daemon, to write, or to let time pass.
FairSpec ==
    /\ Spec
    /\ WF_memoVars(LoadLands) /\ WF_memoVars(LoadSkipped) /\ WF_memoVars(Exit)
    /\ WF_memoVars(Decide) /\ WF_memoVars(Refresh) /\ WF_memoVars(OnTransition)
    /\ \A p \in Readers :
          /\ WF_memoVars(HandleSnapshot(p)) /\ WF_memoVars(Refused(p))
          /\ WF_vars(Receive(p)) /\ WF_vars(PollMsg(p))

------------------------------------------------------------------------------
Shown    == [facts : Nat, live : SUBSET Claims, degraded : BOOLEAN]
Stages   == {"idle", "sent", "held", "parked", "answered", "failed"}
Fetching == {"no", "first", "placeholder", "undecided"}

Answers ==
    {NoAnswer, [kind |-> "error"]}
    \cup [kind : {"unchanged"}, version : Nat, loaded : {FALSE},
          decided : {FALSE}]
    \cup [kind : {"full"}, version : Nat, loaded : BOOLEAN, decided : BOOLEAN,
          picture : Shown, boot : Nat]

\* Types of all variables.
TypeOK ==
    /\ clock \in Nat \ {Never} /\ boots \in Nat
    /\ ledger \in [facts : Nat, readable : BOOLEAN, expiry : [Claims -> Nat]]
    /\ daemon \in [up : BOOLEAN, load : {"pending", "loaded", "failed"},
                   stopping : BOOLEAN, decided : BOOLEAN, degraded : BOOLEAN,
                   version : Nat, facts : Nat, live : SUBSET Claims,
                   leases : [Claims -> Nat], until : Nat, timer : Nat,
                   owed : BOOLEAN]
    /\ call \in [Readers -> [stage : Stages, since : Nat, waits : BOOLEAN,
                             late : BOOLEAN, answer : Answers]]
    /\ pane \in [Readers -> [version : Nat, shown : Shown, boot : Nat,
                             inFlight : BOOLEAN, fetching : Fetching,
                             wakeUps : Nat, failed : BOOLEAN]]

\* A version names one state of one daemon: a screen that holds the version
\* the daemon that served it is at now shows exactly that daemon's memo, so
\* that being told "unchanged" is true (bumpLocked, "the one place the state
\* version moves").
VersionNamesState ==
    \A p \in Readers :
        /\ daemon.up /\ pane[p].boot = boots /\ pane[p].version = daemon.version
        => pane[p].shown = Picture(daemon)

\* No wake-up is lost: a request waits on the channel only while the daemon
\* is at the version it was sent with and not on its way out.
ParkedIsCurrent ==
    \A r \in Readers :
        call[r].stage = "parked" =>
            /\ daemon.up /\ ~ daemon.stopping
            /\ daemon.version = call[r].since
            /\ call[r].waits

\* Until its next transition the memo is what a replay now would make of its
\* leases ("validUntil is the instant the memo stops being right on its own").
MemoHolds ==
    Loaded(daemon) /\ (daemon.until = Never \/ clock < daemon.until)
        => daemon.live = Live(daemon.leases, clock)

\* A lapsed lease is never served as live: whoever reads gets a state freshened
\* at the instant of the answer, whether the timer has run or not.
LapsedNeverServed ==
    [][\A r \in Readers :
          /\ call[r].stage \in {"sent", "held"}
          /\ call'[r].stage = "answered"
          /\ call'[r].answer.kind = "full"
          /\ Loaded(daemon') /\ ~ daemon'.degraded
          => call'[r].answer.picture.live \cap Lapsed(daemon'.leases, clock) = {}
      ]_vars

\* Exactly one poll is in flight or one is to come: messages that ask for a
\* poll meet in any order, and the chain of polls never doubles and never dies.
OnePollAtATime ==
    \A p \in Readers :
        /\ pane[p].inFlight <=> call[p].stage # "idle"
        /\ pane[p].inFlight \/ pane[p].wakeUps > 0

\* No screen is ever left waiting: neither on a version that has moved on, nor
\* for a poll that nothing will start.
NoPollIsLost == ParkedIsCurrent /\ OnePollAtATime

\* What a read would answer now.
Current ==
    IF daemon.degraded THEN Picture(daemon)
    ELSE [facts |-> ledger.facts, live |-> Live(ledger.expiry, clock),
          degraded |-> FALSE]

StaysUp == <>[](Serving /\ ~ daemon.stopping)

\* While a daemon stays up every screen comes to show the ledger as it is, holds
\* that lapse included, with nobody pressing a key; except for a screen that
\* still shows what an earlier daemon served.
ScreenCatchesUp ==
    StaysUp =>
        <>[](\A p \in Readers : pane[p].shown = Current \/ pane[p].boot # boots)
=============================================================================
