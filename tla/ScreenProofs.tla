---------------------------- MODULE ScreenProofs ----------------------------
(***************************************************************************)
(* What the memo promises its screens, for any claims, readers and bounds. *)
(*                                                                         *)
(* The invariants of the memo depend on each other only within the daemon: *)
(* "Inner" joins them, and every step of the daemon keeps it.  All that     *)
(* the screens need to know of such a step is "Moves": the version moves   *)
(* with the picture, and answers are made of the daemon as it is left.     *)
(***************************************************************************)
EXTENDS Screen, TLAPS, WellFoundedInduction

\* A set of natural numbers has a least one: "<" on Nat is well-founded.
LEMMA LeastNatural ==
    ASSUME NEW T \in SUBSET Nat, T # {}
    PROVE  \E t \in T : \A u \in T : t <= u
<1> DEFINE R == {ss \in Nat \X Nat : ss[1] < ss[2]}
<1>1. IsWellFoundedOn(R, Nat)
  BY NatLessThanWellFounded DEF OpToRel
<1>2. \E x \in T : \A y \in T : ~ (<<y, x>> \in R)
  <2> HIDE DEF R
  <2> QED
    BY <1>1, WFMin
<1>3. PICK x \in T : \A y \in T : ~ (<<y, x>> \in R)
  BY <1>2
<1>4. \A y \in T : x <= y
  <2> TAKE y \in T
  <2>1. ~ (<<y, x>> \in R)
    BY <1>3
  <2>2. x \in Nat /\ y \in Nat
    OBVIOUS
  <2>3. ~ (y < x)
    BY <2>1, <2>2
  <2> QED
    BY <2>2, <2>3
<1> QED
  BY <1>4

\* The memo stops being right at the first lapse of a live lease: nothing lives
\* past "Never", and the instant is after the present and not after any lapse.
LEMMA TransitionIsTheFirstLapse ==
    ASSUME NEW expiry \in [Claims -> Nat], NEW now \in Nat
    PROVE  /\ NextTransition(expiry, now) \in Nat
           /\ NextTransition(expiry, now) = Never => Live(expiry, now) = {}
           /\ \A c \in Live(expiry, now) :
                 NextTransition(expiry, now) <= expiry[c]
<1>1. CASE Live(expiry, now) = {}
  BY <1>1 DEF NextTransition, Never
<1>2. CASE Live(expiry, now) # {}
  <2> DEFINE T == {expiry[c] : c \in Live(expiry, now)}
             First(t) == t \in T /\ \A c \in Live(expiry, now) : t <= expiry[c]
  <2>1. Live(expiry, now) \subseteq Claims
    BY DEF Live
  <2>2. T \in SUBSET Nat /\ T # {}
    BY <1>2, <2>1
  <2>3. \E t \in T : \A u \in T : t <= u
    <3> HIDE DEF T
    <3> QED
      BY <2>2, LeastNatural
  <2>4. \E t \in T : \A c \in Live(expiry, now) : t <= expiry[c]
    BY <2>3
  <2> DEFINE t == NextTransition(expiry, now)
  <2>5. t = CHOOSE u \in T : \A c \in Live(expiry, now) : u <= expiry[c]
    BY <1>2 DEF NextTransition
  <2>6. t \in T /\ \A c \in Live(expiry, now) : t <= expiry[c]
    <3> HIDE DEF t, T
    <3> QED
      BY <2>4, <2>5
  <2>7. \A c \in Live(expiry, now) : expiry[c] > now
    BY <2>1 DEF Live, Lapsed
  <2>8. t # Never
    BY <2>1, <2>6, <2>7 DEF Never
  <2> QED
    BY <2>2, <2>6, <2>8
<1> QED
  BY <1>1, <1>2

------------------------------------------------------------------------------
\* The ranges of the variables, as TypeOK has them.
Ledgers == [facts : Nat, readable : BOOLEAN, expiry : [Claims -> Nat]]

Daemons ==
    [up : BOOLEAN, load : {"pending", "loaded", "failed"}, stopping : BOOLEAN,
     decided : BOOLEAN, degraded : BOOLEAN, version : Nat, facts : Nat,
     live : SUBSET Claims, leases : [Claims -> Nat], until : Nat, timer : Nat,
     owed : BOOLEAN]

Requests ==
    [stage : Stages, since : Nat, waits : BOOLEAN, late : BOOLEAN,
     answer : Answers]

Calls == [Readers -> Requests]

Screens ==
    [version : Nat, shown : Shown, boot : Nat, inFlight : BOOLEAN,
     fetching : Fetching, wakeUps : Nat, failed : BOOLEAN]

Panes == [Readers -> Screens]

\* What is true of a memo beside MemoHolds: its holds outlive the instant it
\* is good until, and the other leases have lapsed.
MemoRight(d) ==
    /\ d.until = Never => d.live = {}
    /\ \A c \in d.live : d.until <= d.leases[c]
    /\ \A c \in Claims \ d.live : d.leases[c] <= clock

\* Requests only ever leave the channel, and all do when the version moves.
Woken(calls, f, moved) ==
    \A r \in Readers :
        /\ \/ f[r] = calls[r]
           \/ /\ calls[r].stage = "parked"
              /\ f[r] = [calls[r] EXCEPT !.stage = "held"]
        /\ moved => f[r].stage # "parked"

\* What a replay leaves of the daemon and the requests it starts from.
Kept(d, calls, e, f) ==
    /\ e \in Daemons /\ f \in Calls
    /\ MemoRight(e)
    /\ e.up = d.up /\ e.load = d.load /\ e.stopping = d.stopping
    /\ \/ e.version > d.version
       \/ /\ e.version = d.version /\ e.facts = d.facts /\ e.live = d.live
          /\ e.degraded = d.degraded
    /\ Woken(calls, f, e.version # d.version)

\* Two replays in one critical section are like one.
LEMMA KeptTransitive ==
    ASSUME NEW d \in Daemons, NEW calls \in Calls, NEW e, NEW f, NEW g, NEW h,
           Kept(d, calls, e, f), Kept(e, f, g, h)
    PROVE  Kept(d, calls, g, h)
<1>1. e \in Daemons /\ f \in Calls /\ g \in Daemons /\ h \in Calls
  BY DEF Kept
<1>2. Woken(calls, h, g.version # d.version)
  <2> SUFFICES ASSUME NEW r \in Readers
               PROVE  /\ \/ h[r] = calls[r]
                         \/ /\ calls[r].stage = "parked"
                            /\ h[r] = [calls[r] EXCEPT !.stage = "held"]
                      /\ g.version # d.version => h[r].stage # "parked"
    BY DEF Woken
  <2>1. /\ \/ f[r] = calls[r]
           \/ /\ calls[r].stage = "parked"
              /\ f[r] = [calls[r] EXCEPT !.stage = "held"]
        /\ e.version # d.version => f[r].stage # "parked"
    BY DEF Kept, Woken
  <2>2. /\ \/ h[r] = f[r]
           \/ /\ f[r].stage = "parked"
              /\ h[r] = [f[r] EXCEPT !.stage = "held"]
        /\ g.version # e.version => h[r].stage # "parked"
    BY DEF Kept, Woken
  <2>3. calls[r] \in Requests
    BY DEF Calls
  <2>4. ([calls[r] EXCEPT !.stage = "held"]).stage = "held"
    BY <2>3
  <2> QED
    BY <2>1, <2>2, <2>4
<1>3. \/ g.version > d.version
      \/ /\ g.version = d.version /\ g.facts = d.facts /\ g.live = d.live
         /\ g.degraded = d.degraded
  <2>1. d.version \in Nat /\ e.version \in Nat /\ g.version \in Nat
    BY <1>1 DEF Daemons
  <2> QED
    BY <2>1 DEF Kept
<1> QED
  BY <1>1, <1>2, <1>3 DEF Kept

\* wakeLocked wakes whoever is parked.
LEMMA WakeIsWoken ==
    ASSUME NEW calls \in Calls, NEW moved \in BOOLEAN
    PROVE  WakeLocked(calls) \in Calls /\ Woken(calls, WakeLocked(calls), moved)
<1>1. ASSUME NEW r \in Readers
      PROVE  WakeLocked(calls)[r] =
                IF calls[r].stage = "parked"
                THEN [calls[r] EXCEPT !.stage = "held"] ELSE calls[r]
  BY DEF WakeLocked
<1>2. ASSUME NEW r \in Readers
      PROVE  /\ [calls[r] EXCEPT !.stage = "held"] \in Requests
             /\ ([calls[r] EXCEPT !.stage = "held"]).stage = "held"
  BY DEF Calls, Stages, Requests
<1>3. WakeLocked(calls) \in Calls
  BY <1>1, <1>2 DEF Calls, WakeLocked
<1> QED
  BY <1>1, <1>2, <1>3 DEF Woken

\* replayLocked: the memo is right afterwards, and the version moves unless the
\* daemon stays as it is.
LEMMA ReplayKeeps ==
    ASSUME NEW l \in Ledgers, NEW d \in Daemons, NEW calls \in Calls,
           NEW now \in Nat, clock \in Nat, now <= clock, MemoRight(d)
    PROVE  LET s == ReplayLocked(l, d, calls, now)
           IN  /\ Kept(d, calls, s.daemon, s.call)
               /\ ~ d.degraded => s.daemon.version = d.version + 1
               /\ ~ s.daemon.degraded =>
                     /\ s.daemon.live = Live(l.expiry, now)
                     /\ s.daemon.leases = l.expiry
<1> DEFINE s == ReplayLocked(l, d, calls, now)
<1>1. CASE l.readable
  <2> DEFINE u == NextTransition(l.expiry, now)
             w == Live(l.expiry, now)
             m == [d EXCEPT !.degraded = FALSE, !.facts = l.facts, !.live = w,
                            !.leases = l.expiry, !.until = u]
             b == [m EXCEPT !.version = @ + 1]
             e == ArmLocked(b, now)
  <2>1. l.expiry \in [Claims -> Nat] /\ l.facts \in Nat
    BY DEF Ledgers
  <2>2. /\ u \in Nat /\ w \in SUBSET Claims
        /\ u = Never => w = {}
        /\ \A c \in w : u <= l.expiry[c]
        /\ \A c \in Claims \ w : l.expiry[c] <= now
    <3>1. w \in SUBSET Claims /\ \A c \in Claims \ w : l.expiry[c] <= now
      BY DEF Live, Lapsed
    <3> QED
      BY <2>1, <3>1, TransitionIsTheFirstLapse
  <2>3. s = [daemon |-> e, call |-> WakeLocked(calls)]
    BY <1>1 DEF ReplayLocked, BumpLocked
  <2> HIDE DEF u, w
  <2>4. /\ m \in Daemons /\ m.up = d.up /\ m.load = d.load
        /\ m.stopping = d.stopping /\ m.version = d.version
        /\ m.live = w /\ m.leases = l.expiry /\ m.until = u
        /\ m.degraded = FALSE
    BY <2>1, <2>2 DEF Daemons
  <2> HIDE DEF m
  <2>5. /\ b \in Daemons /\ b.up = d.up /\ b.load = d.load
        /\ b.stopping = d.stopping /\ b.version = d.version + 1
        /\ b.live = w /\ b.leases = l.expiry /\ b.until = u
        /\ b.degraded = FALSE
    BY <2>4 DEF Daemons
  <2> HIDE DEF b
  <2>6. /\ e \in Daemons /\ e.up = b.up /\ e.load = b.load
        /\ e.stopping = b.stopping /\ e.version = b.version
        /\ e.live = b.live /\ e.leases = b.leases /\ e.until = b.until
        /\ e.degraded = b.degraded
    BY <2>5 DEF ArmLocked, Daemons, Never
  <2> HIDE DEF e
  <2>7. MemoRight(e)
    BY <2>1, <2>2, <2>5, <2>6 DEF MemoRight
  <2>8. d.version \in Nat
    BY DEF Daemons
  <2>9. /\ WakeLocked(calls) \in Calls
        /\ Woken(calls, WakeLocked(calls), e.version # d.version)
    BY WakeIsWoken
  <2>10. Kept(d, calls, e, WakeLocked(calls))
    BY <2>5, <2>6, <2>7, <2>8, <2>9 DEF Kept
  <2> QED
    BY <2>3, <2>5, <2>6, <2>10 DEF w
<1>2. CASE ~ l.readable /\ d.degraded
  <2>1. s = [daemon |-> d, call |-> calls]
    BY <1>2 DEF ReplayLocked
  <2>2. Kept(d, calls, d, calls)
    BY DEF Kept, Woken
  <2> QED
    BY <1>2, <2>1, <2>2
<1>3. CASE ~ l.readable /\ ~ d.degraded
  <2> DEFINE m == [d EXCEPT !.degraded = TRUE]
             b == [m EXCEPT !.version = @ + 1]
             e == ArmLocked(b, now)
  <2>1. s = [daemon |-> e, call |-> WakeLocked(calls)]
    BY <1>3 DEF ReplayLocked, BumpLocked
  <2>2. /\ m \in Daemons /\ m.up = d.up /\ m.load = d.load
        /\ m.stopping = d.stopping /\ m.version = d.version
        /\ m.live = d.live /\ m.leases = d.leases /\ m.until = d.until
        /\ m.degraded = TRUE
    BY DEF Daemons
  <2> HIDE DEF m
  <2>3. /\ b \in Daemons /\ b.up = d.up /\ b.load = d.load
        /\ b.stopping = d.stopping /\ b.version = d.version + 1
        /\ b.live = d.live /\ b.leases = d.leases /\ b.until = d.until
        /\ b.degraded = TRUE
    BY <2>2 DEF Daemons
  <2> HIDE DEF b
  <2>4. /\ e \in Daemons /\ e.up = b.up /\ e.load = b.load
        /\ e.stopping = b.stopping /\ e.version = b.version
        /\ e.live = b.live /\ e.leases = b.leases /\ e.until = b.until
        /\ e.degraded = b.degraded
    BY <2>3 DEF ArmLocked, Daemons, Never
  <2> HIDE DEF e
  <2>5. MemoRight(e)
    BY <2>3, <2>4 DEF MemoRight
  <2>6. d.version \in Nat
    BY DEF Daemons
  <2>7. /\ WakeLocked(calls) \in Calls
        /\ Woken(calls, WakeLocked(calls), e.version # d.version)
    BY WakeIsWoken
  <2>8. Kept(d, calls, e, WakeLocked(calls))
    BY <2>3, <2>4, <2>5, <2>6, <2>7 DEF Kept
  <2> QED
    BY <2>1, <2>3, <2>4, <2>8
<1> QED
  BY <1>1, <1>2, <1>3 DEF Ledgers, Daemons

\* freshenLocked: at the present instant it leaves the live holds, no others.
LEMMA FreshenKeeps ==
    ASSUME NEW d \in Daemons, NEW calls \in Calls, ledger \in Ledgers,
           NEW now \in Nat, clock \in Nat, now <= clock, MemoRight(d)
    PROVE  LET s == FreshenLocked(d, calls, now)
           IN  /\ Kept(d, calls, s.daemon, s.call)
               /\ ~ s.daemon.degraded /\ ~ d.degraded /\ now = clock
                  => s.daemon.live = Live(s.daemon.leases, clock)
<1> DEFINE s == FreshenLocked(d, calls, now)
<1>1. CASE d.until = Never \/ now < d.until
  <2>1. s = [daemon |-> d, call |-> calls]
    BY <1>1 DEF FreshenLocked
  <2>2. Kept(d, calls, d, calls)
    BY DEF Kept, Woken
  <2>3. ASSUME now = clock
        PROVE  d.live = Live(d.leases, clock)
    <3>1. /\ d.live \in SUBSET Claims /\ d.leases \in [Claims -> Nat]
          /\ d.until \in Nat
      BY DEF Daemons
    <3>2. ASSUME NEW c \in d.live
          PROVE  ~ (d.leases[c] <= clock)
      BY <1>1, <2>3, <3>1, <3>2 DEF MemoRight
    <3>3. ASSUME NEW c \in Claims \ d.live
          PROVE  d.leases[c] <= clock
      BY <3>3 DEF MemoRight
    <3> QED
      BY <3>1, <3>2, <3>3 DEF Live, Lapsed
  <2> QED
    BY <2>1, <2>2, <2>3
<1>2. CASE ~ (d.until = Never \/ now < d.until)
  <2>1. s = ReplayLocked(ledger, d, calls, now)
    BY <1>2 DEF FreshenLocked
  <2> QED
    BY <2>1, ReplayKeeps
<1> QED
  BY <1>1, <1>2

------------------------------------------------------------------------------
\* A daemon that has not loaded has nothing to replay, and is not degraded:
\* its first replay moves the version.
LoadSane(d) ==
    d.load = "pending" => ~ d.degraded /\ ~ d.owed /\ d.live = {}

\* The daemon's half of the inductive invariant.
Inner ==
    /\ clock \in Nat \ {Never} /\ boots \in Nat
    /\ ledger \in Ledgers /\ daemon \in Daemons /\ call \in Calls
    /\ MemoRight(daemon) /\ LoadSane(daemon) /\ ParkedIsCurrent

\* The answer on its way to r shows no hold that has lapsed.
ServedFresh(r) ==
    /\ call'[r].answer.kind = "full" /\ Loaded(daemon') /\ ~ daemon'.degraded
    => call'[r].answer.picture.live \cap Lapsed(daemon'.leases, clock) = {}

\* What each step of the daemon's half is to the readers' half: the version
\* moves with the picture, an answer is a snapshot of the daemon as it is left
\* and shows no lapsed hold, and no request is sent or forgotten.
Moves ==
    /\ boots' \in {boots, boots + 1}
    /\ boots' = boots /\ daemon'.up =>
          /\ daemon.up
          /\ \/ daemon'.version > daemon.version
             \/ /\ daemon'.version = daemon.version
                /\ Picture(daemon') = Picture(daemon)
    /\ \A r \in Readers :
          /\ call'[r].answer.kind = "full" =>
                \/ call'[r].answer = call[r].answer
                \/ boots' = boots /\ call'[r].answer = Snapshot(daemon')
          /\ call'[r].stage = "idle" <=> call[r].stage = "idle"
          /\ call'[r].stage = "answered" =>
                call[r].stage = "answered" \/ ServedFresh(r)

\* Most steps leave the requests alone, or wake those that are parked.
LEMMA WokenIsSafe ==
    ASSUME Inner, clock' = clock, boots' = boots, ledger' \in Ledgers,
           daemon' \in Daemons, call' \in Calls,
           MemoRight(daemon'), LoadSane(daemon'),
           daemon'.up = daemon.up,
           \/ daemon'.version > daemon.version
           \/ /\ daemon'.version = daemon.version
              /\ Picture(daemon') = Picture(daemon),
           NEW moved \in BOOLEAN, Woken(call, call', moved),
           ~ moved => /\ daemon'.version = daemon.version
                      /\ daemon'.stopping = daemon.stopping
    PROVE  Inner' /\ Moves
<1>1. ASSUME NEW r \in Readers
      PROVE  /\ call'[r].answer = call[r].answer
             /\ call'[r].stage = "idle" <=> call[r].stage = "idle"
             /\ call'[r].stage = "answered" => call[r].stage = "answered"
             /\ call'[r].stage = "parked" => ~ moved /\ call'[r] = call[r]
  <2>1. call[r] \in Requests
    BY DEF Inner, Calls
  <2>2. CASE call'[r] = call[r]
    BY <2>2 DEF Woken
  <2>3. CASE /\ call[r].stage = "parked"
             /\ call'[r] = [call[r] EXCEPT !.stage = "held"]
    <3>1. call'[r].stage = "held" /\ call'[r].answer = call[r].answer
      BY <2>1, <2>3
    <3> QED
      BY <2>3, <3>1
  <2> QED
    BY <2>2, <2>3 DEF Woken
<1>2. MemoRight(daemon)'
  BY DEF MemoRight
<1>3. LoadSane(daemon)'
  BY DEF LoadSane
<1>4. ParkedIsCurrent'
  BY <1>1 DEF Inner, ParkedIsCurrent
<1>5. Inner'
  BY <1>2, <1>3, <1>4 DEF Inner
<1>6. Moves
  BY <1>1 DEF Moves, Inner
<1> QED
  BY <1>5, <1>6

\* Replays that a loaded daemon makes, of a memo that may have forgotten its
\* timer or its owed refresh beforehand.
LEMMA KeptIsSafe ==
    ASSUME Inner, clock' = clock, boots' = boots, ledger' \in Ledgers,
           NEW d \in Daemons,
           d.up = daemon.up, d.load = daemon.load, d.stopping = daemon.stopping,
           d.version = daemon.version, d.facts = daemon.facts,
           d.live = daemon.live, d.degraded = daemon.degraded,
           daemon.load # "pending",
           Kept(d, call, daemon', call')
    PROVE  Inner' /\ Moves
<1>1. /\ daemon' \in Daemons /\ call' \in Calls /\ MemoRight(daemon')
      /\ daemon'.up = daemon.up /\ daemon'.load = daemon.load
      /\ daemon'.stopping = daemon.stopping
  BY DEF Kept
<1>2. LoadSane(daemon')
  BY <1>1 DEF LoadSane
<1>3. \/ daemon'.version > daemon.version
      \/ /\ daemon'.version = daemon.version
         /\ Picture(daemon') = Picture(daemon)
  BY <1>1 DEF Kept, Picture, Loaded
<1>4. Woken(call, call', daemon'.version # daemon.version)
  BY DEF Kept
<1> DEFINE moved == daemon'.version # daemon.version
<1>5. moved \in BOOLEAN /\ Woken(call, call', moved)
  BY <1>4
<1>6. ~ moved => /\ daemon'.version = daemon.version
                 /\ daemon'.stopping = daemon.stopping
  BY <1>1
<1> HIDE DEF moved
<1> QED
  BY <1>1, <1>2, <1>3, <1>5, <1>6, WokenIsSafe

LEMMA WriteFactsIsSafe == Inner /\ WriteFacts => Inner' /\ Moves
<1> SUFFICES ASSUME Inner, WriteFacts
             PROVE  Inner' /\ Moves
  OBVIOUS
<1>1. ledger' \in Ledgers
  BY DEF Inner, WriteFacts, Staged, Ledgers
<1>2. /\ clock \in Nat /\ clock <= clock /\ daemon \in Daemons /\ call \in Calls
      /\ MemoRight(daemon)
  BY DEF Inner
<1>3. Kept(daemon, call, daemon', call')
  BY <1>1, <1>2, ReplayKeeps DEF WriteFacts, Becomes
<1> QED
  BY <1>1, <1>2, <1>3, KeptIsSafe DEF WriteFacts, Serving, Loaded

LEMMA EarlierIsEarlier ==
    ASSUME clock \in Nat, NEW now \in Earlier
    PROVE  now \in Nat /\ now <= clock
BY DEF Earlier

LEMMA WriteLeaseIsSafe ==
    ASSUME Inner, NEW c \in Claims, WriteLease(c)
    PROVE  Inner' /\ Moves
<1>1. /\ clock \in Nat /\ clock <= clock /\ daemon \in Daemons /\ call \in Calls
      /\ MemoRight(daemon) /\ ledger \in Ledgers
  BY DEF Inner
<1>2. PICK now \in Earlier :
        LET s == FreshenLocked(daemon, call, now)
            expiry == IF c \in s.daemon.live THEN now ELSE now + TTL
            after  == Staged([ledger EXCEPT !.expiry[c] = expiry])
        IN  IF s.daemon.degraded
            THEN Becomes(s) /\ UNCHANGED ledger
            ELSE /\ ledger' = after
                 /\ Becomes(ReplayLocked(after, s.daemon, s.call, clock))
  BY DEF WriteLease
<1>3. now \in Nat /\ now <= clock
  BY <1>1, EarlierIsEarlier
<1> DEFINE s == FreshenLocked(daemon, call, now)
           expiry == IF c \in s.daemon.live THEN now ELSE now + TTL
           after  == Staged([ledger EXCEPT !.expiry[c] = expiry])
<1>4. Kept(daemon, call, s.daemon, s.call)
  BY <1>1, <1>3, FreshenKeeps
<1>5. after \in Ledgers
  <2>1. expiry \in Nat
    BY <1>3, MemoAssumption
  <2> HIDE DEF expiry
  <2> DEFINE moved == [ledger EXCEPT !.expiry[c] = expiry]
  <2>2. moved \in Ledgers
    BY <1>1, <2>1 DEF Ledgers
  <2>3. after = Staged(moved)
    OBVIOUS
  <2> HIDE DEF moved, after
  <2> QED
    BY <2>2, <2>3 DEF Staged, Ledgers
<1>6. daemon.load # "pending" /\ clock' = clock /\ boots' = boots
  BY DEF WriteLease, Serving, Loaded
<1>7. CASE s.daemon.degraded
  <2>1. Kept(daemon, call, daemon', call') /\ ledger' = ledger
    BY <1>2, <1>4, <1>7 DEF Becomes
  <2> QED
    BY <1>1, <1>6, <2>1, KeptIsSafe
<1>8. CASE ~ s.daemon.degraded
  <2>1. /\ ledger' = after
        /\ Becomes(ReplayLocked(after, s.daemon, s.call, clock))
    BY <1>2, <1>8
  <2>2. s.daemon \in Daemons /\ s.call \in Calls /\ MemoRight(s.daemon)
    BY <1>4 DEF Kept
  <2> HIDE DEF s, after
  <2>3. Kept(s.daemon, s.call, daemon', call')
    BY <1>1, <1>5, <2>1, <2>2, ReplayKeeps DEF Becomes
  <2>4. Kept(daemon, call, daemon', call')
    BY <1>1, <1>4, <2>3, KeptTransitive
  <2> QED
    BY <1>1, <1>5, <1>6, <2>1, <2>4, KeptIsSafe
<1> QED
  BY <1>7, <1>8

LEMMA RenewOnceIsSafe ==
    ASSUME Inner, NEW c \in Claims, RenewOnce(c)
    PROVE  Inner' /\ Moves
<1>1. /\ clock \in Nat /\ daemon \in Daemons /\ call \in Calls
      /\ MemoRight(daemon) /\ ledger \in Ledgers
  BY DEF Inner
<1>2. PICK now \in Earlier :
        /\ ledger' = [ledger EXCEPT !.expiry[c] = now + TTL]
        /\ Becomes(ReplayLocked(ledger', daemon, call, now))
  BY DEF RenewOnce
<1>3. now \in Nat /\ now <= clock
  BY <1>1, EarlierIsEarlier
<1>4. ledger' \in Ledgers
  BY <1>1, <1>2, <1>3, MemoAssumption DEF Ledgers
<1>5. Kept(daemon, call, daemon', call')
  BY <1>1, <1>2, <1>3, <1>4, ReplayKeeps DEF Becomes
<1>6. daemon.load # "pending" /\ clock' = clock /\ boots' = boots
  BY DEF RenewOnce, Inner, LoadSane
<1> QED
  BY <1>1, <1>4, <1>5, <1>6, KeptIsSafe

LEMMA RefreshIsSafe == Inner /\ Refresh => Inner' /\ Moves
<1> SUFFICES ASSUME Inner, Refresh
             PROVE  Inner' /\ Moves
  OBVIOUS
<1> DEFINE d == [daemon EXCEPT !.owed = FALSE]
<1>1. /\ clock \in Nat /\ clock <= clock /\ daemon \in Daemons /\ call \in Calls
      /\ MemoRight(daemon) /\ ledger \in Ledgers
  BY DEF Inner
<1>2. /\ d \in Daemons /\ d.up = daemon.up /\ d.load = daemon.load
      /\ d.stopping = daemon.stopping /\ d.version = daemon.version
      /\ d.facts = daemon.facts /\ d.live = daemon.live
      /\ d.degraded = daemon.degraded /\ d.until = daemon.until
      /\ d.leases = daemon.leases
  BY <1>1 DEF Daemons
<1>3. Becomes(ReplayLocked(ledger, d, call, clock))
  BY DEF Refresh
<1>4. daemon.load # "pending" /\ clock' = clock /\ boots' = boots
      /\ ledger' = ledger
  BY DEF Refresh, Inner, LoadSane
<1> HIDE DEF d
<1>5. MemoRight(d)
  BY <1>1, <1>2 DEF MemoRight
<1>6. Kept(d, call, daemon', call')
  BY <1>1, <1>2, <1>3, <1>5, ReplayKeeps DEF Becomes
<1> QED
  BY <1>1, <1>2, <1>4, <1>6, KeptIsSafe

\* Steps that touch none of what a screen sees.
LEMMA UnseenIsSafe ==
    ASSUME Inner, UNCHANGED <<clock, boots, call>>, ledger' \in Ledgers,
           daemon' \in Daemons,
           daemon'.up = daemon.up, daemon'.stopping = daemon.stopping,
           daemon'.version = daemon.version, daemon'.live = daemon.live,
           daemon'.leases = daemon.leases, daemon'.until = daemon.until,
           LoadSane(daemon'),
           Picture(daemon') = Picture(daemon)
    PROVE  Inner' /\ Moves
<1>1. MemoRight(daemon')
  BY DEF Inner, MemoRight
<1>2. call' \in Calls /\ Woken(call, call', FALSE)
  BY DEF Inner, Woken
<1> QED
  BY <1>1, <1>2, WokenIsSafe

LEMMA ForeignIsALedger ==
    ASSUME clock \in Nat, ledger \in Ledgers
    PROVE  Foreign(ledger) \subseteq Ledgers
<1>1. ledger.facts \in Nat /\ ledger.expiry \in [Claims -> Nat]
  BY DEF Ledgers
<1>2. clock + TTL \in Nat
  BY MemoAssumption
<1>3. ASSUME NEW c \in Claims, NEW t \in {clock, clock + TTL}
      PROVE  [ledger.expiry EXCEPT ![c] = t] \in [Claims -> Nat]
  BY <1>1, <1>2
<1> DEFINE E == {ledger.expiry} \cup {[ledger.expiry EXCEPT ![c] = t] :
                    c \in Claims, t \in {clock, clock + TTL}}
<1>4. E \subseteq [Claims -> Nat]
  BY <1>1, <1>3
<1>5. Foreign(ledger) =
        {[facts |-> ledger.facts + 1, readable |-> FALSE,
          expiry |-> ledger.expiry]}
        \cup {[facts |-> ledger.facts + 1, readable |-> TRUE, expiry |-> e] :
                  e \in E}
  BY DEF Foreign
<1> HIDE DEF E
<1> SUFFICES ASSUME NEW l \in Foreign(ledger)
             PROVE  l \in Ledgers
  OBVIOUS
<1>6. \E b \in BOOLEAN : \E e \in [Claims -> Nat] :
         l = [facts |-> ledger.facts + 1, readable |-> b, expiry |-> e]
  BY <1>1, <1>4, <1>5
<1>7. ledger.facts + 1 \in Nat
  BY <1>1
<1> QED
  BY <1>6, <1>7 DEF Ledgers

LEMMA MergeLandsIsSafe == Inner /\ MergeLands => Inner' /\ Moves
<1> SUFFICES ASSUME Inner, MergeLands
             PROVE  Inner' /\ Moves
  OBVIOUS
<1>1. ledger' \in Ledgers
  BY ForeignIsALedger DEF Inner, MergeLands
<1>2. /\ daemon' \in Daemons /\ daemon'.up = daemon.up
      /\ daemon'.load = daemon.load /\ daemon'.stopping = daemon.stopping
      /\ daemon'.version = daemon.version /\ daemon'.live = daemon.live
      /\ daemon'.leases = daemon.leases /\ daemon'.until = daemon.until
      /\ daemon'.facts = daemon.facts /\ daemon'.degraded = daemon.degraded
  BY DEF Inner, MergeLands, Daemons
<1>3. LoadSane(daemon') /\ Picture(daemon') = Picture(daemon)
  BY <1>2 DEF MergeLands, Serving, Loaded, LoadSane, Picture
<1> QED
  BY <1>1, <1>2, <1>3, UnseenIsSafe DEF MergeLands

LEMMA ElsewhereIsSafe == Inner /\ Elsewhere => Inner' /\ Moves
<1> SUFFICES ASSUME Inner, Elsewhere
             PROVE  Inner' /\ Moves
  OBVIOUS
<1>1. ledger' \in Ledgers
  BY ForeignIsALedger DEF Inner, Elsewhere
<1>2. daemon' = daemon /\ daemon \in Daemons /\ LoadSane(daemon)
  BY DEF Inner, Elsewhere
<1> QED
  BY <1>1, <1>2, UnseenIsSafe DEF Elsewhere

LEMMA DecideIsSafe == Inner /\ Decide => Inner' /\ Moves
<1> SUFFICES ASSUME Inner, Decide
             PROVE  Inner' /\ Moves
  OBVIOUS
<1>1. /\ daemon' \in Daemons /\ daemon'.up = daemon.up
      /\ daemon'.load = daemon.load /\ daemon'.stopping = daemon.stopping
      /\ daemon'.version = daemon.version /\ daemon'.live = daemon.live
      /\ daemon'.leases = daemon.leases /\ daemon'.until = daemon.until
      /\ daemon'.facts = daemon.facts /\ daemon'.degraded = daemon.degraded
  BY DEF Inner, Decide, Daemons
<1>2. LoadSane(daemon') /\ Picture(daemon') = Picture(daemon)
  BY <1>1 DEF Decide, Serving, Loaded, LoadSane, Picture
<1> QED
  BY <1>1, <1>2, UnseenIsSafe DEF Decide, Inner

LEMMA LoadSkippedIsSafe == Inner /\ LoadSkipped => Inner' /\ Moves
<1> SUFFICES ASSUME Inner, LoadSkipped
             PROVE  Inner' /\ Moves
  OBVIOUS
<1>1. /\ daemon' \in Daemons /\ daemon'.up = daemon.up
      /\ daemon'.load = "failed" /\ daemon'.stopping = daemon.stopping
      /\ daemon'.version = daemon.version /\ daemon'.live = daemon.live
      /\ daemon'.leases = daemon.leases /\ daemon'.until = daemon.until
  BY DEF Inner, LoadSkipped, Daemons
<1>2. LoadSane(daemon') /\ Picture(daemon') = Picture(daemon)
  BY <1>1 DEF LoadSkipped, Loaded, LoadSane, Picture
<1> QED
  BY <1>1, <1>2, UnseenIsSafe DEF LoadSkipped, Inner

LEMMA OnTransitionIsSafe == Inner /\ OnTransition => Inner' /\ Moves
<1> SUFFICES ASSUME Inner, OnTransition
             PROVE  Inner' /\ Moves
  OBVIOUS
<1> DEFINE d == [daemon EXCEPT !.timer = Never]
<1>1. /\ clock \in Nat /\ clock <= clock /\ daemon \in Daemons /\ call \in Calls
      /\ MemoRight(daemon) /\ ledger \in Ledgers /\ LoadSane(daemon)
  BY DEF Inner
<1>2. /\ d \in Daemons /\ d.up = daemon.up /\ d.load = daemon.load
      /\ d.stopping = daemon.stopping /\ d.version = daemon.version
      /\ d.facts = daemon.facts /\ d.live = daemon.live
      /\ d.degraded = daemon.degraded /\ d.until = daemon.until
      /\ d.leases = daemon.leases /\ d.owed = daemon.owed
  BY <1>1 DEF Daemons, Never
<1>3. \/ daemon' = d /\ UNCHANGED call
      \/ clock < d.until /\ daemon' = ArmLocked(d, clock) /\ UNCHANGED call
      \/ d.load = "loaded" /\ Becomes(ReplayLocked(ledger, d, call, clock))
  BY DEF OnTransition, Loaded
<1>4. clock' = clock /\ boots' = boots /\ ledger' = ledger
  BY DEF OnTransition
<1> HIDE DEF d
<1>5. LoadSane(d) /\ Picture(d) = Picture(daemon)
  BY <1>1, <1>2 DEF LoadSane, Picture, Loaded
<1>6. CASE daemon' = d /\ UNCHANGED call
  BY <1>1, <1>2, <1>4, <1>5, <1>6, UnseenIsSafe
<1>7. CASE clock < d.until /\ daemon' = ArmLocked(d, clock) /\ UNCHANGED call
  <2>1. /\ daemon' \in Daemons /\ daemon'.up = d.up /\ daemon'.load = d.load
        /\ daemon'.stopping = d.stopping /\ daemon'.version = d.version
        /\ daemon'.facts = d.facts /\ daemon'.live = d.live
        /\ daemon'.degraded = d.degraded /\ daemon'.until = d.until
        /\ daemon'.leases = d.leases /\ daemon'.owed = d.owed
    BY <1>1, <1>2, <1>7 DEF ArmLocked, Daemons, Never
  <2>2. LoadSane(daemon') /\ Picture(daemon') = Picture(d)
    BY <1>5, <2>1 DEF LoadSane, Picture, Loaded
  <2> QED
    BY <1>1, <1>2, <1>4, <1>5, <1>7, <2>1, <2>2, UnseenIsSafe
<1>8. CASE /\ d.load = "loaded"
           /\ Becomes(ReplayLocked(ledger, d, call, clock))
  <2>1. MemoRight(d)
    BY <1>1, <1>2 DEF MemoRight
  <2>2. Kept(d, call, daemon', call')
    BY <1>1, <1>2, <1>8, <2>1, ReplayKeeps DEF Becomes
  <2>3. daemon.load # "pending"
    BY <1>2, <1>8
  <2> QED
    BY <1>1, <1>2, <1>4, <2>2, <2>3, KeptIsSafe
<1> QED
  BY <1>3, <1>6, <1>7, <1>8

LEMMA LoadLandsIsSafe == Inner /\ LoadLands => Inner' /\ Moves
<1> SUFFICES ASSUME Inner, LoadLands
             PROVE  Inner' /\ Moves
  OBVIOUS
<1> DEFINE s == ReplayLocked(ledger, daemon, call, clock)
<1>1. /\ clock \in Nat /\ clock <= clock /\ daemon \in Daemons /\ call \in Calls
      /\ MemoRight(daemon) /\ ledger \in Ledgers
  BY DEF Inner
<1>2. Kept(daemon, call, s.daemon, s.call)
  BY <1>1, ReplayKeeps
<1>3. s.daemon.version = daemon.version + 1
  BY <1>1, ReplayKeeps DEF LoadLands, Inner, LoadSane
<1>4. s = [daemon |-> s.daemon, call |-> s.call]
  BY DEF ReplayLocked, BumpLocked
<1>5. /\ daemon' = [s.daemon EXCEPT !.load = "loaded"]
      /\ call' = s.call
  <2> HIDE DEF s
  <2>1. Becomes([s EXCEPT !.daemon.load = "loaded"])
    BY DEF LoadLands, s
  <2> QED
    BY <1>4, <2>1 DEF Becomes
<1> HIDE DEF s
<1>6. /\ daemon' \in Daemons /\ daemon'.up = s.daemon.up
      /\ daemon'.load = "loaded" /\ daemon'.version = s.daemon.version
      /\ daemon'.live = s.daemon.live /\ daemon'.leases = s.daemon.leases
      /\ daemon'.until = s.daemon.until
  BY <1>2, <1>5 DEF Kept, Daemons
<1>7. MemoRight(daemon') /\ LoadSane(daemon')
  BY <1>2, <1>6 DEF Kept, MemoRight, LoadSane
<1>8. daemon'.up = daemon.up /\ daemon'.version > daemon.version
  BY <1>1, <1>2, <1>3, <1>6 DEF Kept, Daemons
<1>9. Woken(call, call', TRUE) /\ call' \in Calls
  <2>1. s.daemon.version # daemon.version
    BY <1>1, <1>3 DEF Daemons
  <2> QED
    BY <1>2, <1>5, <2>1 DEF Kept, Woken
<1> QED
  BY <1>1, <1>6, <1>7, <1>8, <1>9, WokenIsSafe DEF LoadLands

\* Shut-downs wake whoever is parked.
LEMMA StopIsSafe ==
    ASSUME Inner, UNCHANGED <<clock, ledger, boots>>,
           NEW d \in Daemons, StopServing(d),
           d.up = daemon.up, d.version = daemon.version, d.live = daemon.live,
           d.leases = daemon.leases, d.until = daemon.until,
           LoadSane(d), Picture(d) = Picture(daemon)
    PROVE  Inner' /\ Moves
<1>1. /\ daemon' \in Daemons /\ daemon'.up = d.up /\ daemon'.load = d.load
      /\ daemon'.version = d.version /\ daemon'.facts = d.facts
      /\ daemon'.live = d.live /\ daemon'.degraded = d.degraded
      /\ daemon'.until = d.until /\ daemon'.leases = d.leases
      /\ daemon'.owed = d.owed
  BY DEF StopServing, Daemons, Never
<1>2. /\ MemoRight(daemon') /\ LoadSane(daemon')
      /\ Picture(daemon') = Picture(daemon)
  BY <1>1 DEF Inner, MemoRight, LoadSane, Picture, Loaded
<1>3. call' \in Calls /\ Woken(call, call', TRUE)
  BY WakeIsWoken DEF StopServing, Inner
<1> QED
  BY <1>1, <1>2, <1>3, WokenIsSafe DEF Inner

LEMMA ShutdownIsSafe == Inner /\ (Shutdown \/ LoadFails) => Inner' /\ Moves
<1> SUFFICES ASSUME Inner, Shutdown \/ LoadFails
             PROVE  Inner' /\ Moves
  OBVIOUS
<1>1. daemon \in Daemons /\ LoadSane(daemon)
  BY DEF Inner
<1>2. CASE Shutdown
  BY <1>1, <1>2, StopIsSafe DEF Shutdown
<1>3. CASE LoadFails
  <2> DEFINE d == [daemon EXCEPT !.load = "failed"]
  <2>1. /\ d \in Daemons /\ d.up = daemon.up /\ d.version = daemon.version
        /\ d.live = daemon.live /\ d.leases = daemon.leases
        /\ d.until = daemon.until /\ d.load = "failed"
    BY <1>1 DEF Daemons
  <2>2. StopServing(d) /\ UNCHANGED <<clock, ledger, boots>>
    BY <1>3 DEF LoadFails
  <2> HIDE DEF d
  <2>3. LoadSane(d) /\ Picture(d) = Picture(daemon)
    BY <1>3, <2>1 DEF LoadFails, LoadSane, Picture, Loaded
  <2> QED
    BY <2>1, <2>2, <2>3, StopIsSafe
<1> QED
  BY <1>2, <1>3

LEMMA DownIsADaemon ==
    ASSUME clock \in Nat
    PROVE  Down \in Daemons /\ MemoRight(Down) /\ LoadSane(Down)
<1> DEFINE L == [c \in Claims |-> Never]
<1>1. /\ Down.live = {} /\ Down.until = Never /\ Down.leases = L
      /\ Down.load = "pending" /\ ~ Down.degraded /\ ~ Down.owed
  BY DEF Down
<1>2. L \in [Claims -> Nat] /\ \A c \in Claims : L[c] <= clock
  BY DEF Never
<1> HIDE DEF L
<1>3. MemoRight(Down) /\ LoadSane(Down)
  BY <1>1, <1>2 DEF MemoRight, LoadSane
<1>4. Down \in Daemons
  BY <1>2 DEF Down, Daemons, Never, L
<1> QED
  BY <1>3, <1>4

LEMMA BootIsSafe == Inner /\ Boot => Inner' /\ Moves
<1> SUFFICES ASSUME Inner, Boot
             PROVE  Inner' /\ Moves
  OBVIOUS
<1>1. /\ daemon' \in Daemons /\ daemon'.load = "pending"
      /\ daemon'.live = {} /\ daemon'.until = Never
      /\ daemon'.leases = [c \in Claims |-> Never]
      /\ ~ daemon'.degraded /\ ~ daemon'.owed
  BY DownIsADaemon DEF Boot, Daemons, Down, Inner
<1>2. /\ clock' = clock /\ ledger' = ledger /\ call' = call
      /\ boots' = boots + 1 /\ boots \in Nat /\ clock \in Nat
  BY DEF Boot, Inner
<1>3. MemoRight(daemon)' /\ LoadSane(daemon)'
  BY <1>1, <1>2 DEF MemoRight, LoadSane, Never
<1>4. \A r \in Readers : call[r].stage # "parked"
  BY DEF Boot, Inner, ParkedIsCurrent
<1>5. Inner'
  BY <1>1, <1>2, <1>3, <1>4 DEF Inner, ParkedIsCurrent
<1>6. Moves
  BY <1>2 DEF Moves
<1> QED
  BY <1>5, <1>6

LEMMA EndIsSafe == Inner /\ (Exit \/ Crash) => Inner' /\ Moves
<1> SUFFICES ASSUME Inner, Exit \/ Crash
             PROVE  Inner' /\ Moves
  OBVIOUS
<1>1. /\ daemon' = Down /\ call' = Cut(call) /\ clock' = clock
      /\ ledger' = ledger /\ boots' = boots
  BY DEF Exit, Crash
<1>2. ASSUME NEW r \in Readers
      PROVE  /\ call'[r] \in Requests
             /\ call'[r].stage # "parked"
             /\ call'[r].answer = call[r].answer
             /\ call'[r].stage = "idle" <=> call[r].stage = "idle"
             /\ call'[r].stage = "answered" => call[r].stage = "answered"
  <2>1. call[r] \in Requests
    BY DEF Inner, Calls
  <2>2. call'[r] = IF call[r].stage \in {"held", "parked"}
                   THEN [call[r] EXCEPT !.stage = "failed"] ELSE call[r]
    BY <1>1 DEF Cut
  <2>3. CASE call[r].stage \in {"held", "parked"}
    <3>1. call'[r] = [call[r] EXCEPT !.stage = "failed"]
      BY <2>2, <2>3
    <3> QED
      BY <2>1, <2>3, <3>1 DEF Stages, Requests
  <2> QED
    BY <2>1, <2>2, <2>3
<1>3. call' \in Calls
  BY <1>1, <1>2 DEF Cut, Calls
<1>4. MemoRight(daemon)' /\ LoadSane(daemon)'
  BY <1>1, DownIsADaemon DEF MemoRight, LoadSane, Inner
<1>5. Inner'
  BY <1>1, <1>2, <1>3, <1>4, DownIsADaemon DEF Inner, ParkedIsCurrent
<1>6. ~ daemon'.up
  BY <1>1 DEF Down
<1> QED
  BY <1>1, <1>2, <1>5, <1>6 DEF Moves

LEMMA TickIsSafe == Inner /\ Tick => Inner' /\ Moves
<1> SUFFICES ASSUME Inner, Tick
             PROVE  Inner' /\ Moves
  OBVIOUS
<1>1. /\ clock' = clock + 1 /\ ledger' = ledger /\ daemon' = daemon
      /\ boots' = boots /\ call' = call /\ clock \in Nat
      /\ clock' \in Nat \ {Never}
  BY DEF Tick, Inner, Never
<1>2. daemon.leases \in [Claims -> Nat]
  BY DEF Inner, Daemons
<1>3. \A c \in Claims \ daemon.live : daemon.leases[c] <= clock + 1
  <2> TAKE c \in Claims \ daemon.live
  <2>1. daemon.leases[c] \in Nat /\ daemon.leases[c] <= clock
    BY <1>2 DEF Inner, MemoRight
  <2> QED
    BY <1>1, <2>1
<1>4. MemoRight(daemon)'
  BY <1>1, <1>3 DEF Inner, MemoRight
<1>5. LoadSane(daemon)' /\ ParkedIsCurrent'
  BY <1>1 DEF Inner, LoadSane, ParkedIsCurrent
<1>6. Inner'
  BY <1>1, <1>4, <1>5 DEF Inner
<1>7. Moves
  BY <1>1 DEF Moves
<1> QED
  BY <1>6, <1>7

\* One request changes; the daemon does not.
LEMMA OneRequestIsSafe ==
    ASSUME Inner, UNCHANGED <<clock, ledger, daemon, boots>>,
           NEW r \in Readers, NEW q,
           q \in Requests,
           q.answer = call[r].answer, q.stage \in {"held", "failed"},
           call[r].stage # "idle",
           call' = [call EXCEPT ![r] = q]
    PROVE  Inner' /\ Moves
<1>1. call \in Calls
  BY DEF Inner
<1>2. call' \in Calls
  BY <1>1 DEF Calls
<1>3. \A p \in Readers : call'[p] = IF p = r THEN q ELSE call[p]
  BY <1>1 DEF Calls
<1>4. MemoRight(daemon)' /\ LoadSane(daemon)' /\ ParkedIsCurrent'
  BY <1>3 DEF Inner, MemoRight, LoadSane, ParkedIsCurrent
<1>5. Inner'
  BY <1>2, <1>4 DEF Inner
<1>6. Moves
  BY <1>3 DEF Moves
<1> QED
  BY <1>5, <1>6

LEMMA WaitElapsesIsSafe ==
    ASSUME Inner, NEW r \in Readers, WaitElapses(r) \/ Refused(r)
    PROVE  Inner' /\ Moves
<1>1. call[r] \in Requests
  BY DEF Inner, Calls
<1>2. CASE WaitElapses(r)
  <2> DEFINE q == [call[r] EXCEPT !.stage = "held", !.late = TRUE]
  <2>1. /\ q \in Requests
        /\ q.answer = call[r].answer /\ q.stage = "held"
    BY <1>1 DEF Stages, Requests
  <2>2. call' = [call EXCEPT ![r] = q] /\ call[r].stage = "parked"
    BY <1>2 DEF WaitElapses, Inner, Calls
  <2> HIDE DEF q
  <2> QED
    BY <1>2, <2>1, <2>2, OneRequestIsSafe DEF WaitElapses
<1>3. CASE Refused(r)
  <2> DEFINE q == [call[r] EXCEPT !.stage = "failed"]
  <2>1. /\ q \in Requests
        /\ q.answer = call[r].answer /\ q.stage = "failed"
    BY <1>1 DEF Stages, Requests
  <2>2. call' = [call EXCEPT ![r] = q] /\ call[r].stage = "sent"
    BY <1>3 DEF Refused, Inner, Calls
  <2> HIDE DEF q
  <2> QED
    BY <1>3, <2>1, <2>2, OneRequestIsSafe DEF Refused
<1> QED
  BY <1>2, <1>3

LEMMA AnswersAreTyped ==
    ASSUME NEW d \in Daemons, boots \in Nat
    PROVE  {[kind |-> "error"], Snapshot(d), Unchanged(d)} \subseteq Answers
<1>1. d.version \in Nat /\ d.facts \in Nat /\ d.live \in SUBSET Claims
      /\ d.degraded \in BOOLEAN /\ d.decided \in BOOLEAN
  BY DEF Daemons
<1>2. Picture(d) \in Shown
  BY <1>1 DEF Picture, Placeholder, Shown
<1>3. Snapshot(d) \in [kind : {"full"}, version : Nat, loaded : BOOLEAN,
                       decided : BOOLEAN, picture : Shown, boot : Nat]
  BY <1>1, <1>2 DEF Snapshot, Loaded
<1>4. Unchanged(d) \in [kind : {"unchanged"}, version : Nat, loaded : {FALSE},
                        decided : {FALSE}]
  BY <1>1 DEF Unchanged
<1> QED
  BY <1>3, <1>4 DEF Answers

LEMMA HandleSnapshotIsSafe ==
    ASSUME Inner, NEW r \in Readers, HandleSnapshot(r)
    PROVE  Inner' /\ Moves
<1> DEFINE s == IF Loaded(daemon) /\ ~ daemon.degraded
                THEN FreshenLocked(daemon, call, clock)
                ELSE [daemon |-> daemon, call |-> call]
           d == s.daemon
           f == s.call
<1>1. /\ clock \in Nat /\ clock <= clock /\ daemon \in Daemons /\ call \in Calls
      /\ MemoRight(daemon) /\ ledger \in Ledgers /\ boots \in Nat
      /\ LoadSane(daemon)
  BY DEF Inner
<1>2. /\ daemon.up /\ call[r].stage \in {"sent", "held"}
      /\ daemon' = d
      /\ \/ call' = Answer(r, f, [kind |-> "error"])
         \/ call' = Answer(r, f, Snapshot(d))
         \/ call' = Answer(r, f, Unchanged(d))
         \/ /\ d.version = call[r].since /\ ~ d.stopping /\ call[r].waits
            /\ call' = [f EXCEPT ![r].stage = "parked"]
      /\ clock' = clock /\ ledger' = ledger /\ boots' = boots
  BY DEF HandleSnapshot
<1>3. Kept(daemon, call, d, f)
  <2>1. Kept(daemon, call, daemon, call)
    BY <1>1 DEF Kept, Woken
  <2> QED
    BY <1>1, <2>1, FreshenKeeps
<1>4. Loaded(d) /\ ~ d.degraded => d.live = Live(d.leases, clock)
  BY <1>1, <1>3, FreshenKeeps DEF Kept, Loaded
<1> HIDE DEF s
<1>5. /\ d \in Daemons /\ f \in Calls /\ MemoRight(d) /\ d.up = daemon.up
      /\ d.load = daemon.load
      /\ \/ d.version > daemon.version
         \/ d.version = daemon.version /\ Picture(d) = Picture(daemon)
  BY <1>3 DEF Kept, Picture, Loaded
<1>6. LoadSane(d)
  <2>1. CASE daemon.load = "pending"
    BY <1>1, <2>1 DEF s, LoadSane, Loaded
  <2>2. CASE daemon.load # "pending"
    BY <1>5, <2>2 DEF LoadSane
  <2> QED
    BY <2>1, <2>2
<1>7. \A p \in Readers :
         /\ f[p] \in Requests
         /\ call[p] \in Requests
  BY <1>1, <1>5 DEF Calls
<1>8. ASSUME NEW p \in Readers
      PROVE  /\ f[p].answer = call[p].answer
             /\ f[p].stage = "idle" <=> call[p].stage = "idle"
             /\ f[p].stage = "answered" => call[p].stage = "answered"
             /\ f[p].stage = "parked" =>
                   /\ f[p] = call[p]
                   /\ d.version = daemon.version
                   /\ d.stopping = daemon.stopping
  <2>1. CASE f[p] = call[p]
    BY <1>3, <2>1 DEF Kept, Woken
  <2>2. CASE /\ call[p].stage = "parked"
             /\ f[p] = [call[p] EXCEPT !.stage = "held"]
    <3>1. f[p].stage = "held" /\ f[p].answer = call[p].answer
      BY <1>7, <2>2
    <3> QED
      BY <2>2, <3>1
  <2> QED
    BY <1>3, <2>1, <2>2 DEF Kept, Woken
<1>9. f[r] = call[r]
  BY <1>2, <1>3 DEF Kept, Woken
<1> HIDE DEF d, f
<1>10. MemoRight(daemon)' /\ LoadSane(daemon)'
  BY <1>2, <1>5, <1>6 DEF MemoRight, LoadSane
<1>11. ASSUME NEW a \in {[kind |-> "error"], Snapshot(d), Unchanged(d)},
              call' = Answer(r, f, a)
       PROVE  Inner' /\ Moves
  <2>1. a \in Answers
    BY <1>1, <1>5, AnswersAreTyped
  <2> DEFINE q == [[f[r] EXCEPT !.stage = "answered"] EXCEPT !.answer = a]
  <2>2. /\ q \in Requests
        /\ q.stage = "answered" /\ q.answer = a
    BY <1>7, <2>1 DEF Stages, Requests
  <2>3. call' = [f EXCEPT ![r] = q]
    BY <1>5, <1>11 DEF Answer, Calls
  <2> HIDE DEF q
  <2>4. call' \in Calls
    BY <1>5, <2>2, <2>3 DEF Calls
  <2>5. \A p \in Readers : call'[p] = IF p = r THEN q ELSE f[p]
    BY <1>5, <2>3 DEF Calls
  <2>6. ParkedIsCurrent'
    BY <1>2, <1>5, <1>8, <2>2, <2>5 DEF Inner, ParkedIsCurrent
  <2>7. Inner'
    BY <1>1, <1>2, <1>5, <1>10, <2>4, <2>6 DEF Inner
  <2>8. a.kind = "full" => a = Snapshot(daemon')
    BY <1>2 DEF Unchanged
  <2>9. \A p \in Readers :
          /\ call'[p].answer.kind = "full" =>
                \/ call'[p].answer = call[p].answer
                \/ boots' = boots /\ call'[p].answer = Snapshot(daemon')
          /\ call'[p].stage = "idle" <=> call[p].stage = "idle"
          /\ call'[p].stage = "answered" => call[p].stage = "answered" \/ p = r
    BY <1>2, <1>8, <2>2, <2>5, <2>8
  <2>10. ServedFresh(r)
    <3> SUFFICES ASSUME a.kind = "full", Loaded(d), ~ d.degraded
                 PROVE  a.picture.live \cap Lapsed(d.leases, clock) = {}
      BY <1>2, <2>2, <2>5 DEF ServedFresh
    <3>1. a.picture.live = d.live
      BY <1>2, <2>8 DEF Snapshot, Picture
    <3> QED
      BY <1>4, <3>1 DEF Live
  <2> QED
    BY <1>2, <1>5, <2>7, <2>9, <2>10 DEF Moves
<1>12. ASSUME d.version = call[r].since, ~ d.stopping, call[r].waits,
              call' = [f EXCEPT ![r].stage = "parked"]
       PROVE  Inner' /\ Moves
  <2> DEFINE q == [f[r] EXCEPT !.stage = "parked"]
  <2>1. /\ q \in Requests
        /\ q.stage = "parked" /\ q.answer = f[r].answer
        /\ q.since = f[r].since /\ q.waits = f[r].waits
    BY <1>7 DEF Stages, Requests
  <2>2. call' = [f EXCEPT ![r] = q]
    BY <1>5, <1>12 DEF Calls
  <2> HIDE DEF q
  <2>3. call' \in Calls
    BY <1>5, <2>1, <2>2 DEF Calls
  <2>4. \A p \in Readers : call'[p] = IF p = r THEN q ELSE f[p]
    BY <1>5, <2>2 DEF Calls
  <2>5. ParkedIsCurrent'
    BY <1>2, <1>5, <1>8, <1>9, <1>12, <2>1, <2>4 DEF Inner, ParkedIsCurrent
  <2>6. Inner'
    BY <1>1, <1>2, <1>5, <1>10, <2>3, <2>5 DEF Inner
  <2>7. \A p \in Readers :
          /\ call'[p].answer = call[p].answer
          /\ call'[p].stage = "idle" <=> call[p].stage = "idle"
          /\ call'[p].stage = "answered" => call[p].stage = "answered"
    BY <1>2, <1>8, <1>9, <2>1, <2>4
  <2> QED
    BY <1>2, <1>5, <2>6, <2>7 DEF Moves
<1> QED
  BY <1>2, <1>11, <1>12

LEMMA DaemonNextIsSafe == Inner /\ DaemonNext => Inner' /\ Moves
BY WriteFactsIsSafe, MergeLandsIsSafe, RefreshIsSafe, ElsewhereIsSafe,
   OnTransitionIsSafe, WriteLeaseIsSafe, RenewOnceIsSafe, BootIsSafe,
   LoadLandsIsSafe, ShutdownIsSafe, LoadSkippedIsSafe, DecideIsSafe,
   EndIsSafe, TickIsSafe, HandleSnapshotIsSafe, WaitElapsesIsSafe
DEF DaemonNext

------------------------------------------------------------------------------
\* Picture pic was served by daemon number b at version v: the daemon, if it is
\* still up, is not behind, and still shows pic if it has not moved.
Tagged(b, v, pic) ==
    /\ b <= boots
    /\ daemon.up /\ b = boots =>
          /\ v <= daemon.version
          /\ v = daemon.version => pic = Picture(daemon)

\* What is shown, and what is on its way to be shown, was served.
Names ==
    \A p \in Readers :
        /\ Tagged(pane[p].boot, pane[p].version, pane[p].shown)
        /\ call[p].answer.kind = "full" =>
              Tagged(call[p].answer.boot, call[p].answer.version,
                     call[p].answer.picture)

\* The inductive invariant.
IInv == Inner /\ pane \in Panes /\ Names /\ OnePollAtATime

LEMMA FullAnswerIsTyped ==
    ASSUME NEW a \in Answers, a.kind = "full"
    PROVE  a.version \in Nat /\ a.boot \in Nat /\ a.picture \in Shown
<1>1. a # NoAnswer /\ a # [kind |-> "error"]
  BY DEF NoAnswer
<1>2. a \notin [kind : {"unchanged"}, version : Nat, loaded : {FALSE},
                decided : {FALSE}]
  OBVIOUS
<1>3. a \in [kind : {"full"}, version : Nat, loaded : BOOLEAN,
             decided : BOOLEAN, picture : Shown, boot : Nat]
  BY <1>1, <1>2 DEF Answers
<1> QED
  BY <1>3

LEMMA PanesAreTyped ==
    ASSUME pane \in Panes, NEW p \in Readers
    PROVE  pane[p] \in Screens
BY DEF Panes

\* A tag survives what the daemon does.
LEMMA TagsAreKept ==
    ASSUME Inner, Inner', Moves, NEW b \in Nat, NEW v \in Nat, NEW pic,
           Tagged(b, v, pic)
    PROVE  /\ b <= boots'
           /\ daemon'.up /\ b = boots' =>
                 /\ v <= daemon'.version
                 /\ v = daemon'.version => pic = Picture(daemon')
<1>1. boots \in Nat /\ daemon.version \in Nat /\ daemon'.version \in Nat
  BY DEF Inner, Daemons
<1>2. b <= boots
  BY DEF Tagged
<1>3. CASE boots' = boots + 1
  BY <1>1, <1>2, <1>3
<1>4. CASE boots' = boots
  <2>1. ASSUME daemon'.up, b = boots'
        PROVE  /\ v <= daemon'.version
               /\ v = daemon'.version => pic = Picture(daemon')
    <3>1. /\ daemon.up
          /\ \/ daemon'.version > daemon.version
             \/ /\ daemon'.version = daemon.version
                /\ Picture(daemon') = Picture(daemon)
      BY <1>4, <2>1 DEF Moves
    <3>2. /\ v <= daemon.version
          /\ v = daemon.version => pic = Picture(daemon)
      BY <1>4, <2>1, <3>1 DEF Tagged
    <3> QED
      BY <1>1, <3>1, <3>2
  <2> QED
    BY <1>2, <1>4, <2>1
<1> QED
  BY <1>3, <1>4 DEF Moves

LEMMA DaemonStepKeepsIInv == IInv /\ DaemonNext /\ UNCHANGED pane => IInv'
<1> SUFFICES ASSUME IInv, DaemonNext, UNCHANGED pane
             PROVE  IInv'
  OBVIOUS
<1>1. Inner /\ Inner' /\ Moves
  BY DaemonNextIsSafe DEF IInv
<1>2. ASSUME NEW p \in Readers
      PROVE  /\ pane[p].boot <= boots'
             /\ daemon'.up /\ pane[p].boot = boots' =>
                   /\ pane[p].version <= daemon'.version
                   /\ pane[p].version = daemon'.version =>
                         pane[p].shown = Picture(daemon')
  <2>1. pane[p].boot \in Nat /\ pane[p].version \in Nat
    BY PanesAreTyped DEF IInv, Screens
  <2>2. Tagged(pane[p].boot, pane[p].version, pane[p].shown)
    BY DEF IInv, Names
  <2> QED
    BY <1>1, <2>1, <2>2, TagsAreKept
<1>3. ASSUME NEW p \in Readers, call'[p].answer.kind = "full"
      PROVE  LET a == call'[p].answer
             IN  /\ a.boot <= boots'
                 /\ daemon'.up /\ a.boot = boots' =>
                       /\ a.version <= daemon'.version
                       /\ a.version = daemon'.version =>
                             a.picture = Picture(daemon')
  <2>1. CASE call'[p].answer = call[p].answer
    <3> DEFINE a == call[p].answer
    <3>1. a \in Answers /\ a.kind = "full"
      BY <1>1, <1>3, <2>1 DEF Inner, Calls, Requests
    <3>2. a.boot \in Nat /\ a.version \in Nat
      BY <3>1, FullAnswerIsTyped
    <3>3. Tagged(a.boot, a.version, a.picture)
      BY <3>1 DEF IInv, Names
    <3> HIDE DEF a
    <3>4. /\ a.boot <= boots'
          /\ daemon'.up /\ a.boot = boots' =>
                /\ a.version <= daemon'.version
                /\ a.version = daemon'.version =>
                      a.picture = Picture(daemon')
      BY <1>1, <3>2, <3>3, TagsAreKept
    <3> QED
      BY <2>1, <3>4 DEF a
  <2>2. CASE boots' = boots /\ call'[p].answer = Snapshot(daemon')
    <3>1. /\ call'[p].answer.boot = boots'
          /\ call'[p].answer.version = daemon'.version
          /\ call'[p].answer.picture = Picture(daemon')
      BY <2>2 DEF Snapshot
    <3>2. boots' \in Nat /\ daemon'.version \in Nat
      BY <1>1 DEF Inner, Daemons
    <3> QED
      BY <3>1, <3>2
  <2> QED
    BY <1>1, <1>3, <2>1, <2>2 DEF Moves
<1>4. Names'
  BY <1>2, <1>3 DEF Names, Tagged
<1>5. OnePollAtATime'
  BY <1>1 DEF IInv, OnePollAtATime, Moves
<1> QED
  BY <1>1, <1>4, <1>5 DEF IInv

LEMMA RequestIsTyped ==
    ASSUME NEW since \in Nat, NEW waits \in BOOLEAN
    PROVE  LET q == Request(since, waits)
           IN  /\ q \in Requests
               /\ q.stage = "sent" /\ q.answer = NoAnswer
<1>1. NoAnswer \in Answers
  BY DEF Answers
<1> QED
  BY <1>1 DEF Request, Quiet, Stages, Requests

LEMMA QuietIsTyped ==
    /\ Quiet \in Requests
    /\ Quiet.stage = "idle" /\ Quiet.answer = NoAnswer
<1>1. NoAnswer \in Answers
  BY DEF Answers
<1> QED
  BY <1>1 DEF Quiet, Stages, Requests

\* A step of one screen: it shows something that was served, and either polls
\* or has a poll to come.
LEMMA PaneStepKeepsIInv ==
    ASSUME IInv, UNCHANGED <<clock, ledger, daemon, boots>>,
           NEW p \in Readers, NEW m \in Screens, NEW q \in Requests,
           pane' = [pane EXCEPT ![p] = m], call' = [call EXCEPT ![p] = q],
           Tagged(m.boot, m.version, m.shown),
           q.answer = NoAnswer, q.stage \in {"idle", "sent"},
           m.inFlight <=> q.stage = "sent",
           m.inFlight \/ m.wakeUps > 0
    PROVE  IInv'
<1>1. /\ pane \in Panes /\ call \in Calls /\ Inner
  BY DEF IInv, Inner
<1>2. /\ \A r \in Readers : pane'[r] = IF r = p THEN m ELSE pane[r]
      /\ \A r \in Readers : call'[r] = IF r = p THEN q ELSE call[r]
  BY <1>1 DEF Panes, Calls
<1>3. pane' \in Panes /\ call' \in Calls
  BY <1>1 DEF Panes, Calls
<1>4. ParkedIsCurrent'
  BY <1>1, <1>2 DEF Inner, ParkedIsCurrent
<1>5. Inner'
  BY <1>1, <1>3, <1>4 DEF Inner, MemoRight, LoadSane
<1>6. Names'
  BY <1>2 DEF IInv, Names, Tagged, NoAnswer
<1>7. OnePollAtATime'
  BY <1>2 DEF IInv, OnePollAtATime
<1> QED
  BY <1>3, <1>5, <1>6, <1>7 DEF IInv

LEMMA StartPollKeepsIInv ==
    ASSUME IInv, UNCHANGED <<clock, ledger, daemon, boots>>,
           NEW p \in Readers, NEW m \in Screens,
           Tagged(m.boot, m.version, m.shown), StartPoll(p, m)
    PROVE  IInv'
<1> DEFINE n == [m EXCEPT !.inFlight = TRUE, !.fetching = "first"]
           q == Request(m.version, TRUE)
<1>1. m.version \in Nat
  BY DEF Screens
<1>2. /\ n \in Screens
      /\ n.boot = m.boot /\ n.version = m.version /\ n.shown = m.shown
      /\ n.inFlight = TRUE
  BY DEF Fetching, Screens
<1>3. /\ q \in Requests
      /\ q.stage = "sent" /\ q.answer = NoAnswer
  BY <1>1, RequestIsTyped
<1>4. pane' = [pane EXCEPT ![p] = n] /\ call' = [call EXCEPT ![p] = q]
  BY DEF StartPoll
<1> HIDE DEF n, q
<1> QED
  BY <1>2, <1>3, <1>4, PaneStepKeepsIInv

LEMMA PollFailedKeepsIInv ==
    ASSUME IInv, UNCHANGED <<clock, ledger, daemon, boots>>,
           NEW p \in Readers, PollFailed(p)
    PROVE  IInv'
<1> DEFINE m == [pane[p] EXCEPT !.inFlight = FALSE, !.fetching = "no",
                                !.failed = TRUE, !.wakeUps = @ + 1]
<1>1. /\ m \in Screens
      /\ m.boot = pane[p].boot /\ m.version = pane[p].version
      /\ m.shown = pane[p].shown /\ m.inFlight = FALSE /\ m.wakeUps > 0
  <2> DEFINE x == pane[p]
             w == x.wakeUps + 1
  <2>1. x \in Screens
    BY PanesAreTyped DEF IInv
  <2>2. w \in Nat /\ w > 0
    BY <2>1 DEF Screens
  <2>3. m = [x EXCEPT !.inFlight = FALSE, !.fetching = "no",
                      !.failed = TRUE, !.wakeUps = w]
    BY <2>1
  <2> HIDE DEF x, w, m
  <2> QED
    BY <2>1, <2>2, <2>3 DEF Fetching, x, Screens
<1>2. pane' = [pane EXCEPT ![p] = m] /\ call' = [call EXCEPT ![p] = Quiet]
  BY DEF PollFailed, IInv, Panes
<1>3. Tagged(pane[p].boot, pane[p].version, pane[p].shown)
  BY DEF IInv, Names
<1> HIDE DEF m
<1> QED
  BY <1>1, <1>2, <1>3, QuietIsTyped, PaneStepKeepsIInv

LEMMA ReadAgainKeepsIInv ==
    ASSUME IInv, UNCHANGED <<clock, ledger, daemon, boots>>,
           NEW p \in Readers, NEW loop \in Fetching, NEW since \in Nat,
           NEW waits \in BOOLEAN, call[p].stage # "idle",
           ReadAgain(p, loop, since, waits)
    PROVE  IInv'
<1> DEFINE m == [pane[p] EXCEPT !.fetching = loop]
           q == Request(since, waits)
<1>1. /\ m \in Screens
      /\ m.boot = pane[p].boot /\ m.version = pane[p].version
      /\ m.shown = pane[p].shown /\ m.inFlight = pane[p].inFlight
  BY PanesAreTyped DEF IInv, Screens
<1>2. /\ q \in Requests
      /\ q.stage = "sent" /\ q.answer = NoAnswer
  BY RequestIsTyped
<1>3. pane' = [pane EXCEPT ![p] = m] /\ call' = [call EXCEPT ![p] = q]
  BY DEF ReadAgain, IInv, Panes
<1>4. Tagged(pane[p].boot, pane[p].version, pane[p].shown)
  BY DEF IInv, Names
<1>5. pane[p].inFlight
  BY DEF IInv, OnePollAtATime
<1> HIDE DEF m, q
<1> QED
  BY <1>1, <1>2, <1>3, <1>4, <1>5, PaneStepKeepsIInv

LEMMA ReceiveKeepsIInv ==
    ASSUME IInv, NEW p \in Readers, Receive(p)
    PROVE  IInv'
<1> DEFINE a == call[p].answer
           m == pane[p]
<1>1. UNCHANGED <<clock, ledger, daemon, boots>>
  BY DEF Receive
<1>2. /\ m \in Screens
      /\ Tagged(m.boot, m.version, m.shown)
      /\ a \in Answers
  BY PanesAreTyped DEF IInv, Names, Inner, Calls, Requests, Screens
<1>3. /\ call[p].stage # "idle"
      /\ \/ PollFailed(p)
         \/ StartPoll(p, [m EXCEPT !.failed = FALSE])
         \/ ReadAgain(p, "placeholder", 0, TRUE)
         \/ a.kind = "full" /\ ReadAgain(p, "undecided", a.version, FALSE)
         \/ a.kind = "full" /\ StartPoll(p, Installed(m, a))
  BY DEF Receive
<1>4. ASSUME a.kind = "full"
      PROVE  /\ a.version \in Nat /\ a.boot \in Nat /\ a.picture \in Shown
             /\ Tagged(a.boot, a.version, a.picture)
  BY <1>2, <1>4, FullAnswerIsTyped DEF IInv, Names
<1> HIDE DEF a, m
<1>5. CASE PollFailed(p)
  BY <1>1, <1>5, PollFailedKeepsIInv
<1>6. CASE StartPoll(p, [m EXCEPT !.failed = FALSE])
  <2> DEFINE n == [m EXCEPT !.failed = FALSE]
  <2>1. /\ n \in Screens
        /\ n.boot = m.boot /\ n.version = m.version /\ n.shown = m.shown
    BY <1>2 DEF Screens
  <2>2. StartPoll(p, n)
    BY <1>6
  <2> HIDE DEF n
  <2> QED
    BY <1>1, <1>2, <2>1, <2>2, StartPollKeepsIInv
<1>7. CASE ReadAgain(p, "placeholder", 0, TRUE)
  BY <1>1, <1>3, <1>7, ReadAgainKeepsIInv DEF Fetching
<1>8. CASE a.kind = "full" /\ ReadAgain(p, "undecided", a.version, FALSE)
  BY <1>1, <1>3, <1>4, <1>8, ReadAgainKeepsIInv DEF Fetching
<1>9. CASE a.kind = "full" /\ StartPoll(p, Installed(m, a))
  <2> DEFINE n == Installed(m, a)
  <2>1. /\ n \in Screens
        /\ n.boot = a.boot /\ n.version = a.version /\ n.shown = a.picture
    BY <1>2, <1>4, <1>9 DEF Installed, Screens
  <2>2. StartPoll(p, n)
    BY <1>9
  <2> HIDE DEF n
  <2> QED
    BY <1>1, <1>4, <1>9, <2>1, <2>2, StartPollKeepsIInv
<1> QED
  BY <1>3, <1>5, <1>6, <1>7, <1>8, <1>9

LEMMA PollMsgKeepsIInv ==
    ASSUME IInv, NEW p \in Readers, PollMsg(p)
    PROVE  IInv'
<1> DEFINE m == [pane[p] EXCEPT !.wakeUps = @ - 1]
<1>1. /\ UNCHANGED <<clock, ledger, daemon, boots>>
      /\ pane[p].wakeUps > 0
      /\ \/ /\ pane[p].inFlight
            /\ pane' = [pane EXCEPT ![p] = m] /\ UNCHANGED call
         \/ StartPoll(p, m)
  <2>1. m.inFlight = pane[p].inFlight
    BY PanesAreTyped DEF IInv
  <2> QED
    BY <2>1 DEF PollMsg
<1>2. /\ m \in Screens
      /\ m.boot = pane[p].boot /\ m.version = pane[p].version
      /\ m.shown = pane[p].shown /\ m.inFlight = pane[p].inFlight
  <2> DEFINE x == pane[p]
             w == x.wakeUps - 1
  <2>1. x \in Screens
    BY PanesAreTyped DEF IInv
  <2>2. w \in Nat
    BY <1>1, <2>1 DEF Screens
  <2>3. m = [x EXCEPT !.wakeUps = w]
    BY <2>1
  <2> HIDE DEF x, w, m
  <2> QED
    BY <2>1, <2>2, <2>3 DEF x, Screens
<1>3. Tagged(pane[p].boot, pane[p].version, pane[p].shown)
  BY DEF IInv, Names
<1> HIDE DEF m
<1>4. CASE StartPoll(p, m)
  BY <1>1, <1>2, <1>3, <1>4, StartPollKeepsIInv
<1>5. CASE /\ pane[p].inFlight
           /\ pane' = [pane EXCEPT ![p] = m] /\ UNCHANGED call
  <2>1. \A r \in Readers : pane'[r] = IF r = p THEN m ELSE pane[r]
    BY <1>5 DEF IInv, Panes
  <2>2. pane' \in Panes
    BY <1>2, <1>5 DEF IInv, Panes
  <2>3. Inner'
    BY <1>1, <1>5 DEF IInv, Inner, MemoRight, LoadSane, ParkedIsCurrent
  <2>4. Names'
    BY <1>1, <1>2, <1>5, <2>1 DEF IInv, Names, Tagged
  <2>5. OnePollAtATime'
    BY <1>2, <1>5, <2>1 DEF IInv, OnePollAtATime
  <2> QED
    BY <2>2, <2>3, <2>4, <2>5 DEF IInv
<1> QED
  BY <1>1, <1>4, <1>5

LEMMA ActionMsgKeepsIInv ==
    ASSUME IInv, NEW p \in Readers, ActionMsg(p)
    PROVE  IInv'
BY PanesAreTyped, StartPollKeepsIInv DEF ActionMsg, IInv, Names

------------------------------------------------------------------------------
LEMMA InitHasIInv == Init => IInv
<1> SUFFICES ASSUME Init
             PROVE  IInv
  OBVIOUS
<1>1. /\ clock = 1 /\ boots = 0 /\ daemon = Down
      /\ call = [r \in Readers |-> Quiet]
      /\ pane = [p \in Readers |-> FirstPane]
      /\ ledger \in Ledgers
  BY DEF Init, MemoInit, Ledgers, Never
<1>2. call \in Calls /\ \A r \in Readers : call[r] = Quiet
  BY <1>1, QuietIsTyped DEF Calls
<1>3. Inner
  BY <1>1, <1>2, QuietIsTyped, DownIsADaemon DEF Inner, ParkedIsCurrent, Never
<1>4. /\ FirstPane.version = 0 /\ FirstPane.boot = 0
      /\ ~ FirstPane.inFlight /\ FirstPane.wakeUps = 1
      /\ FirstPane \in Screens
  BY DEF FirstPane, Fetching, Shown, Placeholder, Screens
<1>5. pane \in Panes /\ \A p \in Readers : pane[p] = FirstPane
  BY <1>1, <1>4 DEF Panes
<1>6. ~ daemon.up
  BY <1>1 DEF Down
<1>7. Names
  BY <1>1, <1>2, <1>4, <1>5, <1>6, QuietIsTyped DEF Names, Tagged, NoAnswer
<1>8. OnePollAtATime
  BY <1>2, <1>4, <1>5, QuietIsTyped DEF OnePollAtATime
<1> QED
  BY <1>3, <1>5, <1>7, <1>8 DEF IInv

LEMMA NextKeepsIInv == IInv /\ [Next]_vars => IInv'
<1> SUFFICES ASSUME IInv, [Next]_vars
             PROVE  IInv'
  OBVIOUS
<1>1. CASE DaemonNext /\ UNCHANGED pane
  BY <1>1, DaemonStepKeepsIInv
<1>2. ASSUME NEW p \in Readers, Receive(p) \/ PollMsg(p) \/ ActionMsg(p)
      PROVE  IInv'
  BY <1>2, ReceiveKeepsIInv, PollMsgKeepsIInv, ActionMsgKeepsIInv
<1>3. CASE UNCHANGED vars
  BY <1>3 DEF vars, IInv, Inner, MemoRight, LoadSane, ParkedIsCurrent, Names,
              Tagged, OnePollAtATime
<1> QED
  BY <1>1, <1>2, <1>3 DEF Next

\* The joined invariant holds: the daemon's half, and every picture shown or on
\* its way to a screen was served at the version it goes by.
THEOREM IInvHolds == Spec => []IInv
BY InitHasIInv, NextKeepsIInv, PTL DEF Spec

\* All variables keep their types: the records of a daemon, a request and a
\* screen keep their shape through every handler, callback and restart.
THEOREM TypeIsInvariant == Spec => []TypeOK
<1>1. IInv => TypeOK
  BY DEF IInv, Inner, TypeOK, Ledgers, Daemons, Calls, Panes, Requests, Screens
<1> QED
  BY <1>1, IInvHolds, PTL

\* A screen that holds the version its daemon is at shows that daemon's memo
\* (bumpLocked is the one place where the version moves).
THEOREM AVersionNamesOneState == Spec => []VersionNamesState
<1>1. IInv => VersionNamesState
  BY DEF IInv, Names, Tagged, VersionNamesState
<1> QED
  BY <1>1, IInvHolds, PTL

\* No request stays parked on a version the daemon has left (wakeLocked closes
\* the channel under the mutex that the handler compares versions under).
THEOREM NoWakeUpIsLost == Spec => []ParkedIsCurrent
<1>1. IInv => ParkedIsCurrent
  BY DEF IInv, Inner
<1> QED
  BY <1>1, IInvHolds, PTL

\* Until its transition the memo is what a replay now would make of its leases
\* (validUntil), although replays may run at instants behind one another.
THEOREM TheMemoHolds == Spec => []MemoHolds
<1>1. IInv => MemoHolds
  <2> SUFFICES ASSUME IInv, daemon.until = Never \/ clock < daemon.until
               PROVE  daemon.live = Live(daemon.leases, clock)
    BY DEF MemoHolds
  <2>1. /\ daemon.live \in SUBSET Claims /\ daemon.leases \in [Claims -> Nat]
        /\ daemon.until \in Nat /\ clock \in Nat
    BY DEF IInv, Inner, Daemons
  <2>2. ASSUME NEW c \in daemon.live
        PROVE  ~ (daemon.leases[c] <= clock)
    BY <2>1, <2>2 DEF IInv, Inner, MemoRight
  <2>3. ASSUME NEW c \in Claims \ daemon.live
        PROVE  daemon.leases[c] <= clock
    BY <2>3 DEF IInv, Inner, MemoRight
  <2> QED
    BY <2>1, <2>2, <2>3 DEF Live, Lapsed
<1> QED
  BY <1>1, IInvHolds, PTL

\* Polls neither double nor die out, whatever order answers, retry timers and
\* keys come in (startPoll and the pollMsg of retryCmd).
THEOREM PollsNeitherDoubleNorDie == Spec => []OnePollAtATime
<1>1. IInv => OnePollAtATime
  BY DEF IInv
<1> QED
  BY <1>1, IInvHolds, PTL

\* No screen is left waiting, on a version or for a poll that never comes.
THEOREM NoPollIsEverLost == Spec => []NoPollIsLost
<1>1. ParkedIsCurrent /\ OnePollAtATime => NoPollIsLost
  BY DEF NoPollIsLost
<1> QED
  BY <1>1, NoWakeUpIsLost, PollsNeitherDoubleNorDie, PTL

\* Whoever reads gets no hold that has lapsed (freshenLocked before the answer).
THEOREM NoLapsedHoldIsServed == Spec => LapsedNeverServed
<1> DEFINE Serves ==
        \A r \in Readers :
            /\ call[r].stage \in {"sent", "held"}
            /\ call'[r].stage = "answered"
            /\ call'[r].answer.kind = "full"
            /\ Loaded(daemon') /\ ~ daemon'.degraded
            => call'[r].answer.picture.live \cap Lapsed(daemon'.leases, clock)
                  = {}
<1>1. IInv /\ [Next]_vars => [Serves]_vars
  <2> SUFFICES ASSUME IInv, Next
               PROVE  Serves
    OBVIOUS
  <2>1. CASE DaemonNext
    BY <2>1, DaemonNextIsSafe DEF IInv, Moves, ServedFresh
  <2>2. ASSUME NEW p \in Readers, Receive(p) \/ PollMsg(p) \/ ActionMsg(p)
        PROVE  Serves
    <3> SUFFICES ASSUME NEW r \in Readers,
                        call[r].stage \in {"sent", "held"}
                 PROVE  call'[r].stage # "answered"
      OBVIOUS
    <3>1. call \in Calls
      BY DEF IInv, Inner
    <3>2. \/ UNCHANGED call
          \/ call' = [call EXCEPT ![p] = Quiet]
          \/ \E since, waits :
                call' = [call EXCEPT ![p] = Request(since, waits)]
      BY <2>2, ZenonT(60)
         DEF Receive, PollMsg, ActionMsg, StartPoll, PollFailed, ReadAgain
    <3>3. /\ Quiet.stage = "idle"
          /\ \A since, waits : Request(since, waits).stage = "sent"
      BY DEF Quiet, Request
    <3> QED
      BY <3>1, <3>2, <3>3 DEF Calls
  <2> QED
    BY <2>1, <2>2 DEF Next
<1> QED
  BY <1>1, IInvHolds, PTL DEF Spec, LapsedNeverServed
=============================================================================
