---------------------------- MODULE FleetProofs ----------------------------
(***************************************************************************)
(* What holds of the machines and their remote, however many there are and *)
(* whatever their users do: proofs about Fleet.                            *)
(*                                                                         *)
(* The invariant is about the heads that somebody knows: the machines',    *)
(* the remote's and those that a gate is about to push from.  HeadsFit     *)
(* says that each is a sound ledger, that they agree on what they share,   *)
(* and that each lease record has an operation from which on every head    *)
(* has a record as late (Rooted), so that bringing in a descendant never   *)
(* takes a record back.  Owned says that a machine has all that its own    *)
(* actors recorded, confirmations excepted, which a merge may drop.        *)
(* GateFits says what a confirmation on its way is: nobody has it, and     *)
(* nobody has reported its claim.                                          *)
(***************************************************************************)
EXTENDS Fleet, FoldProofs, FiniteSetTheorems

-----------------------------------------------------------------------------
(***************************************************************************)
(* What the machines keep of their own.                                    *)
(***************************************************************************)
\* The local heads loc have what the actors at home there recorded.
Owned(K, loc, home) ==
    /\ \A h \in K : \A e \in h.events :
          e.type # "claim.confirmed" => e \in loc[home[e.actor]].events
    /\ \A g, h \in K : \A e \in h.events :
          e.type = "claim.made" /\ g.leases[e.id].released =>
             loc[home[e.actor]].leases[e.id].released

LEMMA FewerOwned ==
    ASSUME NEW K, NEW loc, NEW home, Owned(K, loc, home), NEW J \in SUBSET K
    PROVE  Owned(J, loc, home)
BY DEF Owned

KeepsOwn(h, g) ==
    /\ \A e \in g.events : e.type # "claim.confirmed" => e \in h.events
    /\ \A c \in Ids : g.leases[c].released => h.leases[c].released

LEMMA ReconciledKeepsOwn ==
    ASSUME NEW K, NEW n, NEW ttl, HeadsFit(K, n, ttl), NEW g \in K, NEW h \in K
    PROVE  /\ KeepsOwn(Reconciled(g, h), g)
           /\ \A c \in Ids : NoOlder(Reconciled(g, h), g, c)
<1> DEFINE x == Reconciled(g, h)
<1>1. /\ g.leases \in [Ids -> Lease] /\ h.leases \in [Ids -> Lease]
      /\ \A e \in g.events : e.id \in g.seen
      /\ Agree(h, g)
  BY DEF HeadsFit, Whole
<1>2. CASE x = g
  BY <1>2 DEF KeepsOwn, NoOlder
<1>3. CASE Ancestor(g, h) /\ x = h
  <2>1. \A c \in Ids : NoOlder(h, g, c)
    BY <1>3, DescendantsNoOlder
  <2>2. \A c \in Ids : g.leases[c].released => h.leases[c].released
    BY <1>1, <2>1, NoOlderOrders
  <2>3. \A e \in g.events : e.type # "claim.confirmed" => e \in h.events
    BY <1>1, <1>3 DEF Agree, Ancestor
  <2> QED BY <1>3, <2>1, <2>2, <2>3 DEF KeepsOwn
<1>4. CASE x = MergeTrees(g, h)
  <2> DEFINE m == MergeTrees(g, h)
  <2>1. \A c \in Ids : NoOlder(m, g, c)
    BY <1>1, PickedLease
  <2>2. m.leases \in [Ids -> Lease]
    <3>1. m.leases = [c \in Ids |-> PickLease(g.leases[c], h.leases[c])]
      BY MergedHead
    <3> HIDE DEF m
    <3> QED BY <1>1, <3>1 DEF PickLease
  <2>3. \A e \in g.events : e.type # "claim.confirmed" => e \in m.events
    BY MergedHead
  <2> HIDE DEF m
  <2>4. \A c \in Ids : g.leases[c].released => m.leases[c].released
    BY <1>1, <2>1, <2>2, NoOlderOrders
  <2>5. x = m
    BY <1>4 DEF m
  <2> HIDE DEF x
  <2>6. KeepsOwn(x, g) /\ \A c \in Ids : NoOlder(x, g, c)
    BY <2>1, <2>3, <2>4, <2>5 DEF KeepsOwn
  <2> QED BY <2>6 DEF x
<1> QED BY <1>2, <1>3, <1>4 DEF Reconciled

LEMMA OwnedReconciled ==
    ASSUME NEW K, NEW n, NEW ttl, HeadsFit(K, n, ttl), NEW g \in K, NEW h \in K,
           NEW loc, NEW home, Owned(K, loc, home)
    PROVE  Owned(K \cup {Reconciled(g, h)}, loc, home)
<1> DEFINE m == MergeTrees(g, h)
           J == K \cup {m}
<1>1. /\ \A e \in m.events : e \in g.events \/ e \in h.events
      /\ \A c \in Ids : m.leases[c] \in {g.leases[c], h.leases[c]}
  BY MergedHead, PickedLease DEF HeadsFit, Whole
<1>2. \A x \in K : \A e \in x.events : e.id \in Ids
  BY DEF HeadsFit, Whole, Sound, AreEvents, IsEvent
<1> HIDE DEF m
<1>3. \A x \in J : \A e \in x.events :
         e.type # "claim.confirmed" => e \in loc[home[e.actor]].events
  BY <1>1 DEF Owned
<1>4. ASSUME NEW y \in J, NEW x \in J, NEW e \in x.events,
             e.type = "claim.made", y.leases[e.id].released
      PROVE  loc[home[e.actor]].leases[e.id].released
  <2>1. PICK z \in K : e \in z.events
    BY <1>1
  <2>2. PICK w \in K : w.leases[e.id].released
    BY <1>1, <1>2, <1>4, <2>1
  <2> QED BY <1>4, <2>1, <2>2 DEF Owned
<1>5. Owned(J, loc, home)
  BY <1>3, <1>4 DEF Owned
<1>6. Reconciled(g, h) \in J
  BY DEF Reconciled, m
<1>7. K \cup {Reconciled(g, h)} \in SUBSET J
  BY <1>6
<1> HIDE DEF J
<1> QED BY <1>5, <1>7, FewerOwned

LEMMA OwnedMoves ==
    ASSUME NEW K, NEW n, NEW ttl, HeadsFit(K, n, ttl),
           NEW loc, DOMAIN loc = Machines,
           NEW home \in [Actors -> Machines], Owned(K, loc, home),
           NEW m \in Machines, NEW x, KeepsOwn(x, loc[m])
    PROVE  Owned(K, [loc EXCEPT ![m] = x], home)
<1> DEFINE new == [loc EXCEPT ![m] = x]
<1>1. /\ new[m] = x
      /\ \A k \in Machines : k # m => new[k] = loc[k]
  OBVIOUS
<1> HIDE DEF new
<1>2. \A h \in K : \A e \in h.events :
         home[e.actor] \in Machines /\ e.id \in Ids
  BY DEF HeadsFit, Whole, Sound, AreEvents, IsEvent
<1>3. \A k \in Machines : KeepsOwn(new[k], loc[k])
  BY <1>1 DEF KeepsOwn
<1>4. \A h \in K : \A e \in h.events :
         e.type # "claim.confirmed" => e \in new[home[e.actor]].events
  BY <1>2, <1>3 DEF Owned, KeepsOwn
<1>5. \A g, h \in K : \A e \in h.events :
         e.type = "claim.made" /\ g.leases[e.id].released =>
            new[home[e.actor]].leases[e.id].released
  BY <1>2, <1>3 DEF Owned, KeepsOwn
<1> QED BY <1>4, <1>5 DEF Owned, new

\* A machine's own commit: the event is its actor's, and so is the claim
\* that gets a tombstone.
LEMMA OwnedWritten ==
    ASSUME NEW K, NEW n \in Nat, NEW ttl, HeadsFit(K, n, ttl),
           NEW loc, DOMAIN loc = Machines,
           NEW home \in [Actors -> Machines], Owned(K, loc, home),
           NEW m \in Machines, loc[m] \in K,
           NEW D, NEW L, NEW i \in Ids,
           Addable(K, loc[m], D, i), L \in [Ids -> Lease],
           \A c \in Ids : \/ L[c] = loc[m].leases[c]
                          \/ Beats(L[c], loc[m].leases[c]),
           \A e \in D : e.actor \in Actors /\ home[e.actor] = m,
           \A e \in D : e.type = "claim.made" =>
              ~ L[i].released /\ \A g \in K : ~ g.leases[i].released,
           \A c \in Ids : L[c].released =>
              \/ loc[m].leases[c].released
              \/ \A h \in K : \A e \in h.events :
                    e.type = "claim.made" /\ e.id = c => home[e.actor] = m
    PROVE  LET x == On(loc[m], D, L, i)
           IN  Owned(K \cup {x}, [loc EXCEPT ![m] = x], home)
<1> DEFINE x == On(loc[m], D, L, i)
           new == [loc EXCEPT ![m] = x]
<1>1. x.events = loc[m].events \cup D /\ x.leases = L
  BY DEF On
<1>2. loc[m].leases \in [Ids -> Lease]
  BY DEF HeadsFit, Whole
<1> HIDE DEF x
<1>3. \A c \in Ids : loc[m].leases[c].released => L[c].released
  BY <1>2, BeatsIsTotal DEF Beats
<1>4. KeepsOwn(x, loc[m])
  BY <1>1, <1>3 DEF KeepsOwn
<1>5. Owned(K, new, home)
  BY <1>4, OwnedMoves
<1>6. new[m] = x
  OBVIOUS
<1> HIDE DEF new
<1>7. \A h \in K \cup {x} : \A e \in h.events :
         e.type # "claim.confirmed" => e \in new[home[e.actor]].events
  BY <1>1, <1>5, <1>6 DEF Owned
<1>8. ASSUME NEW g \in K \cup {x}, NEW h \in K \cup {x}, NEW e \in h.events,
             e.type = "claim.made", g.leases[e.id].released
      PROVE  new[home[e.actor]].leases[e.id].released
  <2>1. CASE e \in D
    <3>1. e.id = i
      BY <2>1 DEF Addable
    <3> QED BY <1>1, <1>8, <2>1, <3>1
  <2>2. CASE e \notin D
    <3>1. PICK z \in K : e \in z.events
      BY <1>1, <2>2
    <3>2. e.id \in Ids
      BY <3>1 DEF HeadsFit, Whole, Sound, AreEvents, IsEvent
    <3>3. CASE \E w \in K : w.leases[e.id].released
      BY <1>5, <1>8, <3>1, <3>3 DEF Owned
    <3>4. CASE ~ \E w \in K : w.leases[e.id].released
      <4>1. g = x /\ L[e.id].released
        BY <1>1, <1>8, <3>4
      <4>2. home[e.actor] = m
        BY <1>8, <3>1, <3>2, <3>4, <4>1
      <4> QED BY <1>1, <1>6, <4>1, <4>2
    <3> QED BY <3>3, <3>4
  <2> QED BY <2>1, <2>2
<1> QED BY <1>7, <1>8 DEF Owned, x, new

\* A confirmation landed on the remote is nobody's own.
LEMMA OwnedConfirmed ==
    ASSUME NEW K, NEW loc, NEW home, Owned(K, loc, home), NEW h \in K,
           NEW D, \A e \in D : e.type = "claim.confirmed", NEW i
    PROVE  Owned(K \cup {On(h, D, h.leases, i)}, loc, home)
<1> DEFINE x == On(h, D, h.leases, i)
<1>1. x.events = h.events \cup D /\ x.leases = h.leases
  BY DEF On
<1> HIDE DEF x
<1>2. \A z \in K \cup {x} : \A e \in z.events :
         e.type # "claim.confirmed" => e \in loc[home[e.actor]].events
  BY <1>1 DEF Owned
<1>3. ASSUME NEW g \in K \cup {x}, NEW z \in K \cup {x}, NEW e \in z.events,
             e.type = "claim.made", g.leases[e.id].released
      PROVE  loc[home[e.actor]].leases[e.id].released
  <2>1. PICK y \in K : e \in y.events
    BY <1>1, <1>3
  <2>2. PICK w \in K : w.leases[e.id].released
    BY <1>1, <1>3
  <2> QED BY <1>3, <2>1, <2>2 DEF Owned
<1> QED BY <1>2, <1>3 DEF Owned, x

-----------------------------------------------------------------------------
(***************************************************************************)
(* What an operation concludes from the replay it looks at.                *)
(***************************************************************************)
LEMMA ViewFacts ==
    ASSUME NEW h, NEW n, NEW ttl, Whole(h, n, ttl), NEW now \in Nat
    PROVE  LET v == View(h, now)
           IN  /\ \A t \in DOMAIN v.tasks : \E f \in h.events :
                     f.type = "task.created" /\ f.task = t
               /\ \A c \in DOMAIN v.claims :
                     /\ c \in Ids /\ c # None
                     /\ \E f \in h.events :
                           /\ f.type = "claim.made" /\ f.id = c
                           /\ f.task = v.claims[c].task
                           /\ f.actor = v.claims[c].actor
                     /\ v.claims[c].confirmation # None =>
                           \E e \in h.events :
                              /\ e.type = "claim.confirmed" /\ e.claim = c
                              /\ e.id = v.claims[c].confirmation
                     /\ v.claims[c].status = "active" => h.leases[c].exp > now
                     /\ /\ v.claims[c].status = "voided"
                        /\ ~ ClosedByRun(v, v.runs, c)
                        => h.leases[c].exp > now
                     /\ \A q \in h.events :
                           q.type = "run.finished" /\ q.claim = c =>
                              /\ ClosedByRun(v, v.runs, c)
                              /\ v.claims[c].status = "active" =>
                                    v.claims[c].confirmation > q.id
<1> DEFINE E == h.events
           lv == Expiries(h)
           s == Fold(E, lv)
           v == View(h, now)
<1>1. /\ Sound(E) /\ AreEvents(E) /\ NamesClaims(E)
      /\ h.leases \in [Ids -> Lease]
  BY DEF Whole, Sound
<1>2. v = ReplayOf(E, lv, now)
  <2>1. IdsPerTick = 1
    BY FleetAssumption
  <2>2. IDTime(now) = now
    BY <2>1 DEF IDTime
  <2> QED BY <2>2 DEF View
<1> HIDE DEF v, s, lv
<1>3. /\ FoldInv(E, MaxId, s)
      /\ v.tasks = s.tasks
      /\ DOMAIN v.claims = DOMAIN s.claims
      /\ \A c \in DOMAIN s.claims :
            /\ v.claims[c].task = s.claims[c].task
            /\ v.claims[c].actor = s.claims[c].actor
            /\ v.claims[c].confirmation = s.claims[c].confirmation
            /\ v.claims[c].status = "active" =>
                  /\ s.claims[c].status = "active"
                  /\ ~ LeaseExpiredBy(lv, c, now)
            /\ /\ v.claims[c].status = "voided"
               /\ ~ ClosedByRun(v, v.runs, c)
               => ~ LeaseExpiredBy(lv, c, now)
            /\ \A r \in s.runs :
                  r.named /\ r.claim = c => ClosedByRun(v, v.runs, c)
  BY <1>1, <1>2, ReplayFacts DEF s
<1>4. IsState(s) /\ Traced(E, MaxId, s) /\ Recorded(E, MaxId, s)
  <2>1. ~ s.error
    BY <1>1, SoundLedgersReplay DEF s
  <2> QED BY <1>3, <2>1 DEF FoldInv
<1>5. \A c \in DOMAIN s.claims :
         /\ c \in Ids /\ c # None
         /\ \E f \in E : /\ f.type = "claim.made" /\ f.id = c
                         /\ f.task = s.claims[c].task
                         /\ f.actor = s.claims[c].actor
  BY <1>4, ReplayAssumption DEF Traced, IsState, IsMap, Ids, None
<1>6. \A c \in Ids : ~ LeaseExpiredBy(lv, c, now) => h.leases[c].exp > now
  <2> SUFFICES ASSUME NEW c \in Ids, ~ LeaseExpiredBy(lv, c, now)
               PROVE  h.leases[c].exp > now
    OBVIOUS
  <2>1. lv[c] = h.leases[c].exp
    BY DEF lv, Expiries
  <2>2. h.leases[c].exp \in Int
    BY <1>1, ExpiryIsInteger
  <2> QED BY <2>1, <2>2 DEF LeaseExpiredBy
<1>7. ASSUME NEW c \in DOMAIN v.claims, NEW q \in E,
             q.type = "run.finished", q.claim = c
      PROVE  /\ ClosedByRun(v, v.runs, c)
             /\ v.claims[c].status = "active" =>
                   v.claims[c].confirmation > q.id
  <2>1. c \in DOMAIN s.claims /\ q.claim # None /\ q.id \in Ids
        /\ q.id <= MaxId
    BY <1>1, <1>3, <1>5, <1>7 DEF AreEvents, IsEvent, Ids
  <2>2. PICK r \in s.runs : IsRunOf(r, q)
    BY <1>4, <1>7, <2>1 DEF Recorded
  <2>3. r.named /\ r.claim = c
    BY <1>7, <2>1, <2>2 DEF IsRunOf
  <2>4. ClosedByRun(v, v.runs, c)
    BY <1>3, <2>1, <2>3
  <2>5. PICK f \in E : /\ f.type = "claim.made" /\ f.id = c /\ f.id < q.id
                       /\ f.task = q.task /\ f.actor = q.actor
    BY <1>1, <1>7 DEF NamesClaims
  <2>6. PICK g \in E : /\ g.type = "claim.made" /\ g.id = c
                       /\ g.task = s.claims[c].task
                       /\ g.actor = s.claims[c].actor
    BY <1>5, <2>1
  <2>7. f = g
    BY <1>1, <2>5, <2>6 DEF AreEvents
  <2>8. s.claims[c].task = q.task /\ s.claims[c].actor = q.actor /\ c < q.id
    BY <2>5, <2>6, <2>7
  <2>9. v.claims[c].status = "active" => v.claims[c].confirmation > q.id
    BY <1>3, <1>4, <1>7, <2>1, <2>8 DEF Recorded
  <2> QED BY <2>4, <2>9
<1>8. \A t \in DOMAIN v.tasks : \E f \in E :
         f.type = "task.created" /\ f.task = t
  BY <1>3, <1>4 DEF Traced
<1>9. ASSUME NEW c \in DOMAIN v.claims, v.claims[c].confirmation # None
      PROVE  \E e \in E : /\ e.type = "claim.confirmed" /\ e.claim = c
                          /\ e.id = v.claims[c].confirmation
  BY <1>3, <1>4, <1>9 DEF Traced
<1>10. \A c \in DOMAIN v.claims :
          /\ v.claims[c].status = "active" => h.leases[c].exp > now
          /\ /\ v.claims[c].status = "voided"
             /\ ~ ClosedByRun(v, v.runs, c)
             => h.leases[c].exp > now
  BY <1>3, <1>5, <1>6
<1>11. \A c \in DOMAIN v.claims :
          /\ c \in Ids /\ c # None
          /\ \E f \in E : /\ f.type = "claim.made" /\ f.id = c
                          /\ f.task = v.claims[c].task
                          /\ f.actor = v.claims[c].actor
  BY <1>3, <1>5
<1> QED BY <1>7, <1>8, <1>9, <1>10, <1>11 DEF v

\* latestClaim answers the latest one.
LEMMA LatestIsLast ==
    ASSUME NEW v, NEW t, NEW a, DOMAIN v.claims \subseteq Ids,
           OwnClaims(v, t, a) # {}
    PROVE  /\ LatestClaim(v, t, a) \in OwnClaims(v, t, a)
           /\ \A d \in OwnClaims(v, t, a) : d <= LatestClaim(v, t, a)
<1> DEFINE S == OwnClaims(v, t, a)
           T == {MaxId - c : c \in S}
<1>1. S \subseteq Ids
  BY DEF OwnClaims
<1> HIDE DEF S
<1>2. T \in SUBSET Nat /\ T # {}
  <2>1. \A c \in S : c \in 1 .. MaxId
    BY <1>1 DEF Ids
  <2>2. MaxId \in Nat
    BY ReplayAssumption
  <2>3. \A c \in S : MaxId - c \in Nat
    BY <2>1, <2>2
  <2>4. T # {}
    BY DEF S
  <2> QED BY <2>3, <2>4
<1>3. PICK x \in T : \A y \in T : x <= y
  <2> HIDE DEF T
  <2> QED BY <1>2, LeastOf
<1>4. PICK c \in S : x = MaxId - c
  OBVIOUS
<1>5. \A d \in S : d <= c
  <2> TAKE d \in S
  <2>1. MaxId - c <= MaxId - d
    BY <1>3, <1>4
  <2>2. c \in Int /\ d \in Int /\ MaxId \in Int
    BY <1>1, ReplayAssumption DEF Ids
  <2> QED BY <2>1, <2>2
<1>6. \E y \in S : \A d \in S : d <= y
  BY <1>5
<1>7. LatestClaim(v, t, a) = CHOOSE y \in S : \A d \in S : d <= y
  BY DEF LatestClaim, S
<1> QED BY <1>6, <1>7 DEF S

\* latestClaim answers nothing or a claim of the actor on the task.
LEMMA LatestIsOwn ==
    ASSUME NEW v, NEW t, NEW a, DOMAIN v.claims \subseteq Ids
    PROVE  \/ LatestClaim(v, t, a) = None
           \/ LatestClaim(v, t, a) \in OwnClaims(v, t, a)
BY LatestIsLast DEF LatestClaim

\* An attempt that a finish may close was not reported in the head looked at.
LEMMA ClosableIsUnreported ==
    ASSUME NEW h, NEW n, NEW ttl, Whole(h, n, ttl), Agree(h, h),
           NEW now \in Nat, NEW t, NEW a,
           NEW c \in Closable(View(h, now), t, a)
    PROVE  /\ c \in DOMAIN View(h, now).claims
           /\ View(h, now).claims[c].task = t
           /\ View(h, now).claims[c].actor = a
           /\ \A q \in h.events : q.type = "run.finished" => q.claim # c
<1> DEFINE v == View(h, now)
<1>1. \A d \in DOMAIN v.claims : d \in Ids /\ d # None
  BY ViewFacts
<1>2. \A d \in DOMAIN v.claims : \A q \in h.events :
         q.type = "run.finished" /\ q.claim = d =>
            /\ ClosedByRun(v, v.runs, d)
            /\ v.claims[d].status = "active" => v.claims[d].confirmation > q.id
  BY ViewFacts
<1>3. \A d \in DOMAIN v.claims : v.claims[d].confirmation # None =>
         \E e \in h.events : /\ e.type = "claim.confirmed" /\ e.claim = d
                             /\ e.id = v.claims[d].confirmation
  BY ViewFacts
<1> HIDE DEF v
<1>4. \/ c \in HeldByActor(v, t, a)
      \/ c \in OwnClaims(v, t, a) /\ ~ ClosedByRun(v, v.runs, c)
  <2>1. \/ c \in HeldByActor(v, t, a)
        \/ /\ c = LatestClaim(v, t, a) /\ c # None
           /\ ~ ClosedByRun(v, v.runs, c)
    BY DEF Closable, v
  <2>2. DOMAIN v.claims \subseteq Ids
    BY <1>1
  <2> QED BY <2>1, <2>2, LatestIsOwn
<1>5. /\ c \in DOMAIN v.claims
      /\ v.claims[c].task = t /\ v.claims[c].actor = a
  BY <1>4 DEF HeldByActor, ActiveClaims, OwnClaims
<1>6. ASSUME NEW q \in h.events, q.type = "run.finished", q.claim = c
      PROVE  FALSE
  <2>1. /\ ClosedByRun(v, v.runs, c)
        /\ v.claims[c].status = "active" => v.claims[c].confirmation > q.id
    BY <1>2, <1>5, <1>6
  <2>2. v.claims[c].status = "active"
    BY <1>4, <2>1 DEF HeldByActor, ActiveClaims
  <2>3. q.id \in Ids
    BY DEF Whole, Sound, AreEvents, IsEvent
  <2>4. v.claims[c].confirmation > q.id
    BY <2>1, <2>2
  <2>5. v.claims[c].confirmation # None
    BY <2>3, <2>4 DEF Ids, None
  <2>6. PICK e \in h.events : /\ e.type = "claim.confirmed" /\ e.claim = c
                              /\ e.id = v.claims[c].confirmation
    BY <1>3, <1>5, <2>5
  <2>7. e.id < q.id
    BY <1>6, <2>6 DEF Agree
  <2>8. e.id \in Ids
    BY <2>6 DEF Whole, Sound, AreEvents, IsEvent
  <2> QED BY <2>3, <2>4, <2>6, <2>7, <2>8 DEF Ids
<1> QED BY <1>5, <1>6 DEF v

\* A claim that the gate lets proceed is its actor's, and nobody reported it
\* in the head looked at.
LEMMA ProceedsUnreported ==
    ASSUME NEW h, NEW n, NEW ttl, Whole(h, n, ttl), NEW now \in Nat,
           NEW t, NEW a, Judge(View(h, now), t, a) = "proceed"
    PROVE  LET c == LatestClaim(View(h, now), t, a)
           IN  /\ c \in DOMAIN View(h, now).claims
               /\ View(h, now).claims[c].task = t
               /\ View(h, now).claims[c].actor = a
               /\ \A q \in h.events : q.type = "run.finished" => q.claim # c
<1> DEFINE v == View(h, now)
           c == LatestClaim(v, t, a)
<1>1. \A d \in DOMAIN v.claims : d \in Ids
  BY ViewFacts
<1>2. \A d \in DOMAIN v.claims : \A q \in h.events :
         /\ q.type = "run.finished" /\ q.claim = d
         /\ v.claims[d].status = "active"
         => v.claims[d].confirmation > q.id
  BY ViewFacts
<1> HIDE DEF v
<1>3. c # None /\ v.claims[c].confirmation = None /\ c \in ActiveClaims(v, t)
  BY DEF Judge, v
<1>4. c \in OwnClaims(v, t, a)
  BY <1>1, <1>3, LatestIsOwn
<1> HIDE DEF c
<1>5. /\ c \in DOMAIN v.claims /\ v.claims[c].status = "active"
      /\ v.claims[c].task = t /\ v.claims[c].actor = a
  BY <1>3, <1>4 DEF ActiveClaims, OwnClaims
<1>6. ASSUME NEW q \in h.events, q.type = "run.finished", q.claim = c
      PROVE  FALSE
  <2>1. v.claims[c].confirmation > q.id
    BY <1>2, <1>5, <1>6
  <2>2. q.id \in Ids
    BY DEF Whole, Sound, AreEvents, IsEvent
  <2> QED BY <1>3, <2>1, <2>2 DEF Ids, None
<1> QED BY <1>5, <1>6 DEF v, c

-----------------------------------------------------------------------------
(***************************************************************************)
(* The invariant, for a deployment w, a set K of heads somebody knows, the *)
(* instant n, the local heads loc and the gates gt.                        *)
(***************************************************************************)
\* Nobody has the confirmation e, and nobody has reported its claim.
Outstanding(e, K) ==
    \A x \in K :
        /\ e.id \notin x.seen
        /\ \A q \in x.events : q.type = "run.finished" => q.claim # e.claim

\* What the gate of actor a carries.
Carried(a, gt, K, n) ==
    /\ gt[a].stage \in {"idle", "judge", "push", "record"}
    /\ gt[a].stage = "push" =>
          /\ gt[a].head \in K
          /\ gt[a].event.type = "claim.confirmed"
          /\ gt[a].event.actor = a
          /\ gt[a].event.id \in 1 .. n
          /\ Grounded(gt[a].event, gt[a].head.events)
          /\ Outstanding(gt[a].event, K)
          /\ \A b \in Actors \ {a} : gt[b].stage = "push" =>
                gt[b].event.id # gt[a].event.id

Sane(w, K, n, loc, gt) ==
    /\ HeadsFit(K, n, w.ttl)
    /\ Owned(K, loc, w.home)
    /\ DOMAIN loc = Machines
    /\ \A m \in Machines : loc[m] \in K
    /\ DOMAIN gt = Actors
    /\ \A a \in Actors : Carried(a, gt, K, n)

\* Heads that nobody has any more need not be looked at.
LEMMA SaneFewer ==
    ASSUME NEW w, NEW K, NEW n, NEW loc, NEW gt, Sane(w, K, n, loc, gt),
           NEW J \in SUBSET K, \A m \in Machines : loc[m] \in J,
           \A a \in Actors : gt[a].stage = "push" => gt[a].head \in J
    PROVE  Sane(w, J, n, loc, gt)
<1>1. HeadsFit(J, n, w.ttl)
  BY FewerHeadsFit DEF Sane
<1>2. Owned(J, loc, w.home)
  BY FewerOwned DEF Sane
<1>3. \A a \in Actors : Carried(a, gt, J, n)
  BY DEF Sane, Carried, Outstanding
<1> QED BY <1>1, <1>2, <1>3 DEF Sane

\* Time passes.
LEMMA SaneLater ==
    ASSUME NEW w \in Worlds, NEW K, NEW n \in Nat, NEW loc, NEW gt,
           Sane(w, K, n, loc, gt), NEW k \in Nat, n <= k
    PROVE  Sane(w, K, k, loc, gt)
<1>1. w.ttl \in Nat
  BY FleetAssumption
<1>2. HeadsFit(K, k, w.ttl)
  BY <1>1, LaterHeadsFit DEF Sane
<1>3. \A i \in 1 .. n : i \in 1 .. k
  OBVIOUS
<1>4. \A a \in Actors : Carried(a, gt, K, k)
  BY <1>3 DEF Sane, Carried
<1> QED BY <1>2, <1>4 DEF Sane

\* A gate moves on without a confirmation of its own.
LEMMA SaneGate ==
    ASSUME NEW w, NEW K, NEW n, NEW loc, NEW gt, Sane(w, K, n, loc, gt),
           NEW new, DOMAIN new = Actors,
           \A a \in Actors :
              new[a] = gt[a] \/ new[a].stage \in {"idle", "judge", "record"}
    PROVE  Sane(w, K, n, loc, new)
<1>1. \A a \in Actors :
         /\ new[a].stage = "push" => new[a] = gt[a]
         /\ new[a].stage \in {"idle", "judge", "push", "record"}
  BY DEF Sane, Carried
<1>2. \A a \in Actors : Carried(a, new, K, n)
  BY <1>1 DEF Sane, Carried
<1> QED BY <1>2 DEF Sane

\* A machine brings in a head.
LEMMA SaneAdopt ==
    ASSUME NEW w \in Worlds, NEW K, NEW n, NEW loc, NEW gt,
           Sane(w, K, n, loc, gt), NEW m \in Machines, NEW y \in K
    PROVE  LET x == Reconciled(loc[m], y)
           IN  Sane(w, K \cup {x}, n, [loc EXCEPT ![m] = x], gt)
<1> DEFINE x == Reconciled(loc[m], y)
           J == K \cup {x}
           new == [loc EXCEPT ![m] = x]
<1>1. /\ HeadsFit(K, n, w.ttl) /\ Owned(K, loc, w.home)
      /\ DOMAIN loc = Machines /\ loc[m] \in K
      /\ w.home \in [Actors -> Machines]
  BY FleetAssumption DEF Sane
<1>2. HeadsFit(J, n, w.ttl)
  BY <1>1, ReconciledFits
<1>3. Owned(J, loc, w.home)
  BY <1>1, OwnedReconciled
<1>4. KeepsOwn(x, loc[m])
  BY <1>1, ReconciledKeepsOwn
<1>5. Owned(J, new, w.home)
  <2> HIDE DEF x, J
  <2> QED BY <1>1, <1>2, <1>3, <1>4, OwnedMoves
<1>6. DOMAIN new = Machines /\ \A k \in Machines : new[k] \in J
  BY <1>1 DEF Sane
<1>7. \/ x \in K
      \/ /\ x.seen = loc[m].seen \cup y.seen
         /\ x.events \subseteq loc[m].events \cup y.events
  BY <1>1, MergedHead DEF Reconciled
<1> HIDE DEF x, new
<1>8. ASSUME NEW a \in Actors, gt[a].stage = "push"
      PROVE  Outstanding(gt[a].event, J)
  <2>1. Outstanding(gt[a].event, K)
    BY <1>8 DEF Sane, Carried
  <2> QED BY <1>1, <1>7, <2>1 DEF Outstanding
<1>9. \A a \in Actors : Carried(a, gt, J, n)
  BY <1>8 DEF Sane, Carried
<1> QED BY <1>2, <1>5, <1>6, <1>9 DEF Sane, x, new

\* Nobody but an actor's own machine is first to report its attempt.
LEMMA OwnReportsFirst ==
    ASSUME NEW w \in Worlds, NEW K, NEW n, NEW loc, NEW gt,
           Sane(w, K, n, loc, gt), NEW a \in Actors,
           NEW f \in loc[w.home[a]].events,
           f.type = "claim.made", f.actor = a,
           \A q \in loc[w.home[a]].events :
              q.type = "run.finished" => q.claim # f.id,
           NEW x \in K, NEW q \in x.events, q.type = "run.finished"
    PROVE  q.claim # f.id
<1> SUFFICES ASSUME q.claim = f.id
             PROVE  FALSE
  OBVIOUS
<1>1. w.home[a] \in Machines
  BY FleetAssumption
<1>2. loc[w.home[a]] \in K
  BY <1>1 DEF Sane
<1>3. Agree(x, loc[w.home[a]]) /\ Whole(x, n, w.ttl)
  BY <1>2 DEF Sane, HeadsFit
<1>4. PICK g \in x.events : g.type = "claim.made" /\ g.id = q.claim
                            /\ g.actor = q.actor
  BY <1>3 DEF Whole, NamesClaims
<1>5. g = f
  BY <1>3, <1>4 DEF Agree
<1>6. q \in loc[w.home[q.actor]].events
  BY DEF Sane, Owned
<1> QED BY <1>4, <1>5, <1>6
\* What actor a's machine commits at instant n + 1: the events D and the
\* lease records L.
Commits(w, loc, gt, a, D, L, n) ==
    LET h == loc[w.home[a]]
    IN  /\ \A e, f \in D : e = f
        /\ \A e \in D :
              /\ e.id = n + 1 /\ e.actor = a /\ e.type # "task.created"
              /\ Grounded(e, h.events)
              /\ e.type \in {"claim.confirmed", "run.finished"} =>
                    \A q \in h.events :
                       q.type = "run.finished" => q.claim # e.claim
              /\ e.type = "run.finished" => gt[a].stage # "push"
              /\ e.type = "claim.made" => ~ L[n + 1].released
        /\ L \in [Ids -> Lease] /\ LeasesFit(L, n + 1, w.ttl)
        /\ \A c \in Ids : L[c] = h.leases[c] \/ Beats(L[c], h.leases[c])
        /\ \A c \in Ids : L[c].released =>
              \/ h.leases[c].released
              \/ \E f \in h.events :
                    f.type = "claim.made" /\ f.id = c /\ f.actor = a

LEMMA CommitIsAddable ==
    ASSUME NEW w \in Worlds, NEW K, NEW n \in Nat, NEW loc, NEW gt,
           Sane(w, K, n, loc, gt), NEW a \in Actors, NEW D, NEW L,
           Commits(w, loc, gt, a, D, L, n)
    PROVE  Addable(K, loc[w.home[a]], D, n + 1)
<1> DEFINE h == loc[w.home[a]]
<1>1. h \in K
  BY FleetAssumption DEF Sane
<1>2. \A x \in K : Whole(x, n, w.ttl) /\ x.seen \subseteq 1 .. n
  BY DEF Sane, HeadsFit, Whole
<1>3. \A x \in K : n + 1 \notin x.seen
  BY <1>2
<1>4. /\ \A e, f \in D : e = f
      /\ \A e \in D : /\ e.id = n + 1 /\ e.type # "task.created"
                      /\ e.actor = a /\ Grounded(e, h.events)
                      /\ e.type \in {"claim.confirmed", "run.finished"} =>
                            \A q \in h.events :
                               q.type = "run.finished" => q.claim # e.claim
  BY DEF Commits
<1>5. ASSUME NEW e \in D, e.type \in {"claim.confirmed", "run.finished"},
             NEW x \in K, NEW q \in x.events, q.type = "run.finished"
      PROVE  q.claim # e.claim
  <2>1. PICK f \in h.events : /\ f.type = "claim.made" /\ f.id = e.claim
                              /\ f.actor = e.actor
    BY <1>4, <1>5 DEF Grounded
  <2>2. f.actor = a /\ \A r \in h.events :
                          r.type = "run.finished" => r.claim # f.id
    BY <1>4, <1>5, <2>1
  <2>3. q.claim # f.id
    BY <1>5, <2>2, <2>1, OwnReportsFirst
  <2> QED BY <2>1, <2>3
<1>6. \A x \in K : \A f \in x.events : f.id < n + 1
  <2> SUFFICES ASSUME NEW x \in K, NEW f \in x.events
               PROVE  f.id < n + 1
    OBVIOUS
  <2>1. f.id \in 1 .. n
    BY <1>2 DEF Whole
  <2> QED BY <2>1
<1> HIDE DEF h
<1> QED BY <1>3, <1>4, <1>5, <1>6 DEF Addable, h

LEMMA SaneCommit ==
    ASSUME NEW w \in Worlds, NEW K, NEW n \in Nat, n + 1 \in Ids,
           NEW loc, NEW gt,
           Sane(w, K, n, loc, gt), NEW a \in Actors, NEW D, NEW L,
           Commits(w, loc, gt, a, D, L, n)
    PROVE  LET m == w.home[a]
               x == On(loc[m], D, L, n + 1)
           IN  Sane(w, K \cup {x}, n + 1, [loc EXCEPT ![m] = x], gt)
<1> DEFINE m == w.home[a]
           h == loc[m]
           i == n + 1
           x == On(h, D, L, i)
           J == K \cup {x}
           new == [loc EXCEPT ![m] = x]
<1>1. /\ w.ttl \in Nat /\ w.home \in [Actors -> Machines] /\ m \in Machines
      /\ i \in Nat /\ n <= i /\ i \in 1 .. i
  <2>1. w.ttl \in Nat /\ w.home \in [Actors -> Machines]
    BY FleetAssumption
  <2>2. m \in Machines
    BY <2>1
  <2>3. i \in Nat /\ n <= i /\ i \in 1 .. i
    OBVIOUS
  <2> QED BY <2>1, <2>2, <2>3
<1>2. Sane(w, K, i, loc, gt)
  BY <1>1, SaneLater
<1>3. /\ HeadsFit(K, i, w.ttl) /\ Owned(K, loc, w.home)
      /\ DOMAIN loc = Machines /\ h \in K
      /\ \A g \in K : g.leases \in [Ids -> Lease]
      /\ \A g \in K : Whole(g, n, w.ttl)
  BY <1>1, <1>2 DEF Sane, HeadsFit, Whole
<1>4. Addable(K, h, D, i)
  BY CommitIsAddable
<1>5. /\ L \in [Ids -> Lease] /\ LeasesFit(L, i, w.ttl)
      /\ \A c \in Ids : L[c] = h.leases[c] \/ Beats(L[c], h.leases[c])
      /\ \A c \in Ids : L[c].released =>
            \/ h.leases[c].released
            \/ \E f \in h.events :
                  f.type = "claim.made" /\ f.id = c /\ f.actor = a
      /\ \A e \in D : e.actor = a /\ e.id = i
      /\ \A e \in D : e.type = "claim.made" => ~ L[i].released
      /\ \A e \in D : e.type = "run.finished" =>
            gt[a].stage # "push" /\ Grounded(e, h.events)
  BY DEF Commits
<1>6. \A g \in K : ~ g.leases[i].released
  <2>1. \A g \in K : LeasesFit(g.leases, n, w.ttl)
    BY <1>3 DEF Whole
  <2>2. i > n
    OBVIOUS
  <2>3. \A g \in K : g.leases[i] = NoRecord
    BY <2>1, <2>2 DEF LeasesFit
  <2> QED BY <2>3 DEF NoRecord
<1>7. \A c \in Ids : L[c].released =>
         \/ h.leases[c].released
         \/ \A g \in K : \A e \in g.events :
               e.type = "claim.made" /\ e.id = c => w.home[e.actor] = m
  <2> SUFFICES ASSUME NEW c \in Ids, L[c].released, ~ h.leases[c].released,
                      NEW g \in K, NEW e \in g.events, e.id = c
               PROVE  w.home[e.actor] = m
    OBVIOUS
  <2>1. PICK f \in h.events : f.id = c /\ f.actor = a
    BY <1>5
  <2>2. e = f
    BY <1>3, <2>1 DEF HeadsFit, Agree
  <2> QED BY <2>1, <2>2
<1>8. \A b \in Actors : gt[b].stage = "push" => Outstanding(gt[b].event, J)
  <2> SUFFICES ASSUME NEW b \in Actors, gt[b].stage = "push"
               PROVE  Outstanding(gt[b].event, J)
    OBVIOUS
  <2> DEFINE e == gt[b].event
  <2>1. Carried(b, gt, K, n)
    BY DEF Sane
  <2>2. /\ Outstanding(e, K) /\ e.id \in 1 .. n /\ e.actor = b
        /\ e.type = "claim.confirmed"
        /\ gt[b].head \in K /\ Grounded(e, gt[b].head.events)
    BY <2>1 DEF Carried
  <2> HIDE DEF e
  <2>3. e.id # i
    BY <2>2
  <2>4. ASSUME NEW q \in D, q.type = "run.finished", q.claim = e.claim
        PROVE  FALSE
    <3>1. PICK f \in h.events : /\ f.type = "claim.made" /\ f.id = q.claim
                                /\ f.actor = q.actor
      BY <1>5, <2>4 DEF Grounded
    <3>2. PICK g \in gt[b].head.events :
             g.type = "claim.made" /\ g.id = e.claim /\ g.actor = e.actor
      BY <2>2 DEF Grounded
    <3>3. f = g
      BY <1>3, <2>2, <2>4, <3>1, <3>2 DEF HeadsFit, Agree
    <3>4. b = a
      BY <1>5, <2>2, <2>4, <3>1, <3>2, <3>3
    <3> QED BY <1>5, <2>4, <3>4
  <2>5. x.seen = h.seen \cup {i} /\ x.events = h.events \cup D
    BY DEF On
  <2> HIDE DEF x, h
  <2>6. /\ e.id \notin x.seen
        /\ \A q \in x.events : q.type = "run.finished" => q.claim # e.claim
    BY <1>3, <2>2, <2>3, <2>4, <2>5 DEF Outstanding
  <2>7. Outstanding(e, J)
    BY <2>2, <2>6 DEF Outstanding
  <2> QED BY <2>7 DEF e
<1>9. HeadsFit(J, i, w.ttl)
  <2> HIDE DEF i, h
  <2> QED BY <1>1, <1>3, <1>4, <1>5, WrittenFits
<1>10. Owned(J, new, w.home)
  <2>1. \A e \in D : e.actor \in Actors /\ w.home[e.actor] = m
    BY <1>5
  <2>2. \A e \in D : e.type = "claim.made" =>
           ~ L[i].released /\ \A g \in K : ~ g.leases[i].released
    BY <1>5, <1>6
  <2>3. i \in Ids
    OBVIOUS
  <2> HIDE DEF i, m
  <2> QED BY <1>1, <1>3, <1>4, <1>5, <1>7, <2>1, <2>2, <2>3, OwnedWritten
<1> HIDE DEF x, i
<1>11. DOMAIN new = Machines /\ \A k \in Machines : new[k] \in J
  BY <1>1, <1>3 DEF Sane
<1>12. \A b \in Actors : Carried(b, gt, J, i)
  BY <1>2, <1>8 DEF Sane, Carried
<1>13. DOMAIN gt = Actors
  BY DEF Sane
<1>14. Sane(w, J, i, new, gt)
  BY <1>9, <1>10, <1>11, <1>12, <1>13 DEF Sane
<1> QED BY <1>14 DEF x, i
\* A gate mints the confirmation it will push: a later id than any head has,
\* for a claim that nobody reported.
LEMMA SaneMint ==
    ASSUME NEW w \in Worlds, NEW K, NEW n \in Nat, NEW loc, NEW gt,
           Sane(w, K, n, loc, gt), NEW a \in Actors, NEW h, h \in K,
           h = loc[w.home[a]],
           NEW new, DOMAIN new = Actors,
           \A b \in Actors \ {a} : new[b] = gt[b],
           new[a].stage = "push", new[a].head = h,
           NEW e, new[a].event = e, e.id = n + 1, e.type = "claim.confirmed",
           e.actor = a, Grounded(e, h.events),
           \A q \in h.events : q.type = "run.finished" => q.claim # e.claim
    PROVE  Sane(w, K, n + 1, loc, new)
<1>1. Sane(w, K, n + 1, loc, gt)
  BY SaneLater
<1>2. \A x \in K : e.id \notin x.seen
  <2>1. \A x \in K : x.seen \subseteq 1 .. n
    BY DEF Sane, HeadsFit, Whole
  <2> QED BY <2>1
<1>3. ASSUME NEW x \in K, NEW q \in x.events, q.type = "run.finished"
      PROVE  q.claim # e.claim
  <2>1. PICK f \in h.events : /\ f.type = "claim.made" /\ f.id = e.claim
                              /\ f.actor = a
    BY DEF Grounded
  <2> QED BY <1>3, <2>1, OwnReportsFirst
<1>4. Outstanding(e, K)
  BY <1>2, <1>3 DEF Outstanding
<1>5. \A b \in Actors \ {a} : gt[b].stage = "push" => gt[b].event.id \in 1 .. n
  BY DEF Sane, Carried
<1>6. \A b \in Actors \ {a} : new[b].stage = "push" =>
         new[b].event.id # e.id
  BY <1>5
<1>7. Carried(a, new, K, n + 1)
  <2>1. e.id \in 1 .. n + 1
    OBVIOUS
  <2> QED BY <1>4, <1>6, <2>1 DEF Carried
<1>8. ASSUME NEW b \in Actors \ {a}
      PROVE  Carried(b, new, K, n + 1)
  <2>1. Carried(b, gt, K, n + 1) /\ new[b] = gt[b]
    BY <1>1 DEF Sane
  <2>2. new[b].stage = "push" => new[b].event.id # new[a].event.id
    BY <1>6
  <2> QED BY <2>1, <2>2 DEF Carried
<1> QED BY <1>1, <1>7, <1>8 DEF Sane

\* The confirmation that a gate carries lands on the head it was judged on.
LEMMA SanePush ==
    ASSUME NEW w \in Worlds, NEW K, NEW n \in Nat, NEW loc, NEW gt,
           Sane(w, K, n, loc, gt), NEW a \in Actors, gt[a].stage = "push",
           NEW new, DOMAIN new = Actors,
           \A b \in Actors \ {a} : new[b] = gt[b],
           new[a].stage \in {"idle", "record"}
    PROVE  LET h == gt[a].head
               x == On(h, {gt[a].event}, h.leases, gt[a].event.id)
           IN  Sane(w, K \cup {x}, n, loc, new)
<1> DEFINE h == gt[a].head
           e == gt[a].event
           i == e.id
           D == {e}
           L == h.leases
           x == On(h, D, L, i)
           J == K \cup {x}
<1>1. /\ h \in K /\ e.type = "claim.confirmed" /\ e.actor = a
      /\ i \in 1 .. n /\ Grounded(e, h.events) /\ Outstanding(e, K)
  BY DEF Sane, Carried
<1>2. HeadsFit(K, n, w.ttl) /\ Owned(K, loc, w.home)
  BY DEF Sane
<1>3. L \in [Ids -> Lease] /\ LeasesFit(L, n, w.ttl)
  BY <1>1, <1>2 DEF HeadsFit, Whole
<1>4. Addable(K, h, D, i)
  BY <1>1 DEF Addable, Outstanding
<1>5. x.seen = h.seen \cup {i} /\ x.events = h.events \cup D
  BY DEF On
<1>6. ASSUME NEW b \in Actors \ {a}, gt[b].stage = "push"
      PROVE  Outstanding(gt[b].event, J)
  <2>1. Outstanding(gt[b].event, K) /\ gt[b].event.id # i
    BY <1>6 DEF Sane, Carried
  <2> HIDE DEF x, h, i
  <2>2. /\ gt[b].event.id \notin x.seen
        /\ \A q \in x.events :
              q.type = "run.finished" => q.claim # gt[b].event.claim
    BY <1>1, <1>5, <2>1 DEF Outstanding
  <2> QED BY <2>1, <2>2 DEF Outstanding
<1> HIDE DEF h, e
<1>7. HeadsFit(J, n, w.ttl)
  <2>1. \A c \in Ids : L[c] = h.leases[c] \/ Beats(L[c], h.leases[c])
    OBVIOUS
  <2> HIDE DEF D, i, L
  <2> QED BY <1>1, <1>2, <1>3, <1>4, <2>1, WrittenFits
<1>8. Owned(J, loc, w.home)
  <2>1. \A f \in D : f.type = "claim.confirmed"
    BY <1>1
  <2> HIDE DEF D, i
  <2> QED BY <1>1, <1>2, <2>1, OwnedConfirmed
<1> HIDE DEF x
<1>9. ASSUME NEW b \in Actors
      PROVE  Carried(b, new, J, n)
  <2>1. CASE b = a
    BY <2>1 DEF Carried
  <2>2. CASE b # a
    <3>1. Carried(b, gt, K, n) /\ new[b] = gt[b]
      BY <2>2 DEF Sane
    <3>2. gt[b].stage = "push" => Outstanding(gt[b].event, J)
      BY <1>6, <2>2
    <3>3. \A d \in Actors : new[d].stage = "push" => new[d] = gt[d]
      OBVIOUS
    <3> QED BY <3>1, <3>2, <3>3 DEF Carried
  <2> QED BY <2>1, <2>2
<1>10. Sane(w, J, n, loc, new)
  BY <1>7, <1>8, <1>9 DEF Sane
<1> QED BY <1>10 DEF x, h, e
-----------------------------------------------------------------------------
(***************************************************************************)
(* The invariant of the fleet.                                             *)
(***************************************************************************)
Known ==
    Heads \cup {gate[a].head : a \in {b \in Actors : gate[b].stage = "push"}}

FleetInv ==
    /\ world \in Worlds
    /\ clock \in Ids
    /\ Sane(world, Known, clock, local, gate)
    /\ told \subseteq Ids

\* What every step has at hand.
LEMMA AtHand ==
    ASSUME FleetInv
    PROVE  /\ world \in Worlds /\ clock \in Nat /\ clock \in Ids
           /\ Home \in [Actors -> Machines] /\ Home = world.home
           /\ TTL \in Nat \ {0} /\ TTL = world.ttl /\ Last \in Ids
           /\ IDTime(clock) = clock
           /\ Sane(world, Known, clock, local, gate)
           /\ HeadsFit(Known, clock, TTL) /\ Owned(Known, local, Home)
           /\ DOMAIN local = Machines /\ DOMAIN gate = Actors
           /\ \A m \in Machines : local[m] \in Known
           /\ remote \in Known
           /\ \A h \in Known : Whole(h, clock, TTL)
           /\ \A a \in Actors : Carried(a, gate, Known, clock)
<1>1. world \in Worlds /\ clock \in Ids
      /\ Sane(world, Known, clock, local, gate)
  BY DEF FleetInv
<1>2. clock \in Nat
  BY <1>1 DEF Ids
<1>3. /\ world.home \in [Actors -> Machines]
      /\ world.ttl \in Nat \ {0} /\ world.last \in Ids
  BY <1>1, FleetAssumption
<1>4. IDTime(clock) = clock
  <2>1. IdsPerTick = 1
    BY FleetAssumption
  <2> QED BY <1>2, <2>1 DEF IDTime
<1>5. remote \in Known /\ \A m \in Machines : local[m] \in Known
  BY DEF Known, Heads
<1>6. /\ HeadsFit(Known, clock, TTL) /\ Owned(Known, local, Home)
      /\ DOMAIN local = Machines /\ DOMAIN gate = Actors
      /\ \A a \in Actors : Carried(a, gate, Known, clock)
  BY <1>1 DEF Sane, TTL, Home
<1>7. \A h \in Known : Whole(h, clock, TTL)
  BY <1>6 DEF HeadsFit
<1> QED BY <1>1, <1>2, <1>3, <1>4, <1>5, <1>6, <1>7 DEF Home, TTL, Last

\* The next instant, if it is looked at.
LEMMA NextInstant ==
    ASSUME FleetInv, Now <= Last
    PROVE  /\ Now \in Ids /\ Now \in Nat /\ Now = clock + 1
           /\ IDTime(Now) = Now
<1>1. clock \in 1 .. MaxId /\ Last \in 1 .. MaxId
  BY AtHand DEF Ids
<1>2. MaxId \in Nat
  BY ReplayAssumption
<1>3. Now = clock + 1
  BY DEF Now
<1>4. Now \in 1 .. MaxId
  BY <1>1, <1>2, <1>3
<1>5. IdsPerTick = 1
  BY FleetAssumption
<1> HIDE DEF Now
<1> QED BY <1>3, <1>4, <1>5 DEF Ids, IDTime

\* Heads only move to heads that descend from them.
Advances ==
    /\ Ancestor(remote, remote')
    /\ \A m \in Machines : Ancestor(local[m], local'[m])

\* What every step guarantees.
Kept == FleetInv' /\ Advances /\ LeasesGoForward

LEMMA StandsStill ==
    ASSUME local' = local, remote' = remote
    PROVE  Advances
BY DEF Advances, Ancestor

LEMMA MachineAdvances ==
    ASSUME FleetInv, NEW m \in Machines, NEW x,
           local' = [local EXCEPT ![m] = x], Ancestor(local[m], x),
           remote' = remote
    PROVE  Advances
<1>1. DOMAIN local = Machines
  BY AtHand
<1>2. \A k \in Machines : k # m => local'[k] = local[k]
  BY <1>1
<1>3. local'[m] = x
  BY <1>1
<1> QED BY <1>2, <1>3 DEF Advances, Ancestor

LEMMA ReconciledDescends ==
    ASSUME NEW g, NEW h
    PROVE  Ancestor(g, Reconciled(g, h)) /\ Ancestor(h, Reconciled(g, h))
<1>1. MergeTrees(g, h).seen = g.seen \cup h.seen
  BY MergedHead
<1> QED BY <1>1 DEF Reconciled, Ancestor

\* A step that leaves a sane fleet on the heads known before and after it,
\* all machines on descendants of what they had.
LEMMA FleetStays ==
    ASSUME FleetInv, NEW K, Sane(world, K, clock', local', gate'),
           Known \subseteq K, Advances,
           world' = world, clock' \in Ids, told' \subseteq Ids,
           remote' \in K
    PROVE  Kept
<1>1. /\ \A m \in Machines : local'[m] \in K
      /\ \A a \in Actors : gate'[a].stage = "push" => gate'[a].head \in K
  BY DEF Sane, Carried
<1>2. Known' \in SUBSET K
  BY <1>1 DEF Known, Heads
<1>3. /\ \A m \in Machines : local'[m] \in Known'
      /\ \A a \in Actors : gate'[a].stage = "push" => gate'[a].head \in Known'
  BY DEF Known, Heads
<1>4. Sane(world, Known', clock', local', gate')
  BY <1>2, <1>3, SaneFewer
<1>5. Sane(world, Known, clock, local, gate)'
  BY <1>4
<1>6. FleetInv'
  BY <1>5 DEF FleetInv
<1>7. HeadsFit(K, clock', world.ttl)
  BY DEF Sane
<1>8. remote \in K /\ \A m \in Machines : local[m] \in K
  BY AtHand
<1>9. ASSUME NEW c \in Ids
      PROVE  /\ NoOlder(remote', remote, c)
             /\ \A m \in Machines : NoOlder(local'[m], local[m], c)
  BY <1>1, <1>7, <1>8, DescendantsNoOlder DEF Advances
<1>10. LeasesGoForward
  BY <1>9 DEF LeasesGoForward, NoOlder
<1> QED BY <1>6, <1>10 DEF Kept

LEMMA BacklogListsTasks ==
    /\ Backlog \in [1 .. Cardinality(Tasks) -> Tasks]
    /\ \A i, j \in DOMAIN Backlog : Backlog[i] = Backlog[j] => i = j
<1> DEFINE S == [1 .. Cardinality(Tasks) -> Tasks]
           OneToOne(seq) == \A i, j \in DOMAIN seq : seq[i] = seq[j] => i = j
<1>1. \E seq \in S : OneToOne(seq)
  <2>1. ExistsBijection(1 .. Cardinality(Tasks), Tasks)
    BY FleetAssumption, FS_CardinalityType
  <2>2. PICK f \in Bijection(1 .. Cardinality(Tasks), Tasks) : TRUE
    BY <2>1 DEF ExistsBijection
  <2>3. f \in S /\ IsInjective(f)
    BY <2>2 DEF Bijection, Injection
  <2> QED BY <2>3 DEF IsInjective
<1>2. Backlog = CHOOSE seq \in S : OneToOne(seq)
  BY DEF Backlog
<1> HIDE DEF S, OneToOne
<1>3. Backlog \in S /\ OneToOne(Backlog)
  BY <1>1, <1>2
<1> QED BY <1>3 DEF S, OneToOne

LEMMA FirstHeadFits ==
    ASSUME NEW ttl \in Nat
    PROVE  HeadsFit({FirstHead}, Cardinality(Tasks), ttl)
<1> DEFINE h == FirstHead
           n == Cardinality(Tasks)
           Opens(i) == [id |-> i, type |-> "task.created", task |-> Backlog[i],
                        actor |-> CHOOSE a \in Actors : TRUE,
                        status |-> "open", deps |-> {}]
<1>1. /\ n \in Ids /\ n \in Nat /\ 1 .. n \subseteq Ids
      /\ DOMAIN Backlog = 1 .. n
      /\ \A i \in 1 .. n : Backlog[i] \in Tasks
      /\ \A i, j \in 1 .. n : Backlog[i] = Backlog[j] => i = j
  <2>1. n \in 1 .. MaxId
    BY FleetAssumption DEF Ids
  <2>2. MaxId \in Nat
    BY ReplayAssumption
  <2>3. n \in Nat /\ 1 .. n \subseteq Ids
    BY <2>1, <2>2 DEF Ids
  <2>4. /\ DOMAIN Backlog = 1 .. n
        /\ \A i \in 1 .. n : Backlog[i] \in Tasks
        /\ \A i, j \in 1 .. n : Backlog[i] = Backlog[j] => i = j
    BY BacklogListsTasks
  <2> QED BY <2>1, <2>3, <2>4 DEF Ids
<1>2. h = [events |-> {Opens(i) : i \in 1 .. n},
           leases |-> [c \in Ids |-> NoRecord], seen |-> 1 .. n]
  BY <1>1 DEF FirstHead
<1>3. /\ h = [events |-> h.events, leases |-> h.leases, seen |-> h.seen]
      /\ h.events = {Opens(i) : i \in 1 .. n}
      /\ h.leases = [c \in Ids |-> NoRecord]
      /\ h.seen = 1 .. n
  BY <1>2
<1> HIDE DEF h, n
<1>4. (CHOOSE a \in Actors : TRUE) \in Actors
  BY FleetAssumption
<1>5. \A e \in h.events :
         /\ e.type = "task.created" /\ e.id \in 1 .. n
         /\ e.task = Backlog[e.id] /\ e = Opens(e.id)
         /\ e.actor \in Actors /\ e.status = "open" /\ e.deps = {}
  BY <1>3, <1>4
<1>6. ASSUME NEW e \in h.events
      PROVE  Grounded(e, h.events)
  <2>1. /\ e.type = "task.created" /\ e.id \in Ids /\ e.task \in Tasks
        /\ e.actor \in Actors /\ e.status \in TaskStatus
        /\ e.deps \in SUBSET Tasks
    BY <1>1, <1>5 DEF TaskStatus
  <2>2. IsEvent(e)
    BY <2>1 DEF IsEvent
  <2> QED BY <2>1, <2>2 DEF Grounded
<1>7. /\ \A e, f \in h.events : e.id = f.id => e = f
      /\ \A e, f \in h.events : e.task = f.task => e = f
  <2>1. \A e, f \in h.events : e.id = f.id => e = f
    <3> HIDE DEF Opens
    <3> QED BY <1>5
  <2>2. \A e, f \in h.events : e.task = f.task => e.id = f.id
    BY <1>1, <1>5
  <2> QED BY <2>1, <2>2
<1>8. Sound(h.events) /\ NamesClaims(h.events)
  BY <1>6, <1>7, SoundIsGrounded
<1>9. NoRecord \in Lease /\ NoRecord.released = FALSE /\ NoRecord.exp = -1
  BY DEF NoRecord, Lease, Instants, NoLease
<1>10. LeasesFit(h.leases, n, ttl)
  <2>1. -1 <= n + ttl
    BY <1>1
  <2>2. \A c \in Ids : h.leases[c] = NoRecord
    BY <1>3
  <2> QED BY <1>9, <2>1, <2>2 DEF LeasesFit
<1>11. Whole(h, n, ttl)
  BY <1>3, <1>5, <1>8, <1>9, <1>10 DEF Whole
<1>12. Rooted(h, {h})
  BY <1>3 DEF Rooted
<1>13. Agree(h, h)
  BY <1>5, <1>7 DEF Agree
<1>14. HeadsFit({h}, n, ttl)
  BY <1>11, <1>12, <1>13 DEF HeadsFit
<1> QED BY <1>14 DEF h, n

LEMMA FleetInit == Init => FleetInv
<1> SUFFICES ASSUME Init
             PROVE  FleetInv
  OBVIOUS
<1> DEFINE h == FirstHead
<1>1. /\ world \in Worlds /\ clock = Cardinality(Tasks)
      /\ local = [m \in Machines |-> h] /\ remote = h
      /\ gate = [a \in Actors |-> Idle] /\ told = {}
  BY DEF Init
<1>2. world.ttl \in Nat /\ world.home \in [Actors -> Machines] /\ clock \in Ids
  BY <1>1, FleetAssumption
<1>3. /\ \A e \in h.events : e.type = "task.created"
      /\ \A c \in Ids : h.leases[c] = NoRecord
  BY DEF FirstHead
<1>4. HeadsFit({h}, clock, world.ttl)
  BY <1>1, <1>2, FirstHeadFits
<1> HIDE DEF h
<1>5. \A m \in Machines : local[m] = h
  BY <1>1
<1>6. \A a \in Actors : gate[a].stage = "idle"
  BY <1>1 DEF Idle
<1>7. Known = {h}
  BY <1>1, <1>5, <1>6 DEF Known, Heads
<1>8. Owned({h}, local, world.home)
  <2>1. \A e \in h.events : local[world.home[e.actor]] = h
    BY <1>2, <1>4, <1>5 DEF HeadsFit, Whole, Sound, AreEvents, IsEvent
  <2> QED BY <1>3, <2>1 DEF Owned
<1>9. \A a \in Actors : Carried(a, gate, Known, clock)
  BY <1>6 DEF Carried
<1>10. Sane(world, Known, clock, local, gate)
  BY <1>1, <1>4, <1>5, <1>7, <1>8, <1>9 DEF Sane
<1> QED BY <1>1, <1>2, <1>10 DEF FleetInv
-----------------------------------------------------------------------------
(***************************************************************************)
(* The steps.                                                              *)
(***************************************************************************)
LEMMA WaitKeeps ==
    ASSUME FleetInv, Wait
    PROVE  Kept
<1>1. /\ world' = world /\ clock' = Now /\ local' = local /\ gate' = gate
      /\ told' = told /\ remote' = remote /\ Now <= Last
  BY DEF Wait
<1>2. Now \in Ids /\ Now \in Nat /\ clock <= Now /\ clock \in Nat
  BY <1>1, AtHand, NextInstant
<1>3. Sane(world, Known, Now, local, gate)
  BY <1>2, AtHand, SaneLater
<1>4. told' \subseteq Ids /\ remote \in Known
  BY <1>1, AtHand DEF FleetInv
<1>5. Advances
  BY <1>1, StandsStill
<1> HIDE DEF Now
<1> QED BY <1>1, <1>2, <1>3, <1>4, <1>5, FleetStays

\* A commit by the machine of actor a.
LEMMA WriteKeeps ==
    ASSUME FleetInv, Now <= Last, NEW a \in Actors, NEW D, NEW L,
           Commits(world, local, gate, a, D, L, clock),
           local' = [local EXCEPT ![Home[a]] = On(@, D, L, Now)],
           clock' = Now, world' = world, remote' = remote,
           told' \subseteq Ids, DOMAIN gate' = Actors,
           \A b \in Actors : \/ gate'[b] = gate[b]
                             \/ gate'[b].stage \in {"idle", "judge", "record"}
    PROVE  Kept
<1> DEFINE x == On(local[Home[a]], D, L, clock + 1)
           K == Known \cup {x}
           new == [local EXCEPT ![Home[a]] = x]
<1>1. Now = clock + 1 /\ Now \in Ids
  BY NextInstant
<1>2. Sane(world, K, Now, new, gate)
  BY <1>1, AtHand, SaneCommit
<1>3. local' = new
  BY <1>1
<1>4. Ancestor(local[Home[a]], x)
  BY DEF Ancestor, On
<1>5. Home[a] \in Machines
  BY AtHand
<1> HIDE DEF x
<1>6. Advances
  BY <1>3, <1>4, <1>5, MachineAdvances
<1> HIDE DEF new
<1>7. Sane(world, K, Now, new, gate')
  BY <1>2, SaneGate
<1>8. remote' \in K /\ Known \subseteq K
  BY AtHand
<1> HIDE DEF K
<1> QED BY <1>1, <1>3, <1>6, <1>7, <1>8, FleetStays

\* No lease record is from the future, and a tombstone is from the past.
LEMMA RecordFacts ==
    ASSUME FleetInv, NEW m \in Machines, NEW c \in Ids
    PROVE  LET r == local[m].leases[c]
           IN  /\ r \in Lease /\ r.exp \in Int
               /\ r.released => r.exp <= clock
               /\ r.exp <= clock + TTL
               /\ c > clock => r = NoRecord
<1>1. Whole(local[m], clock, TTL)
  BY AtHand
<1>2. local[m].leases \in [Ids -> Lease] /\ LeasesFit(local[m].leases, clock, TTL)
  BY <1>1 DEF Whole
<1>3. local[m].leases[c] \in Lease
  BY <1>2
<1> QED BY <1>2, <1>3, ExpiryIsInteger DEF LeasesFit

\* One changed record fits, if it is later than the one it replaces.
LEMMA RecordWritten ==
    ASSUME FleetInv, Now <= Last, NEW m \in Machines, NEW c \in Ids, c <= Now,
           NEW r \in Lease, r.released => r.exp <= Now, r.exp <= Now + TTL,
           Beats(r, local[m].leases[c])
    PROVE  LET L == [local[m].leases EXCEPT ![c] = r]
           IN  /\ L \in [Ids -> Lease] /\ L[c] = r
               /\ \A d \in Ids : d # c => L[d] = local[m].leases[d]
               /\ LeasesFit(L, Now, TTL)
               /\ \A d \in Ids : \/ L[d] = local[m].leases[d]
                                 \/ Beats(L[d], local[m].leases[d])
<1> DEFINE f == local[m].leases
           L == [f EXCEPT ![c] = r]
<1>1. Whole(local[m], clock, TTL)
  BY AtHand
<1>2. f \in [Ids -> Lease]
  BY <1>1 DEF Whole
<1>3. /\ L \in [Ids -> Lease] /\ L[c] = r
      /\ \A d \in Ids : d # c => L[d] = f[d]
  BY <1>2
<1>4. clock \in Nat /\ Now = clock + 1 /\ TTL \in Nat
  BY AtHand, NextInstant
<1> HIDE DEF L, Now
<1>5. LeasesFit(L, Now, TTL)
  <2> SUFFICES ASSUME NEW d \in Ids
               PROVE  /\ L[d].released => L[d].exp <= Now
                      /\ L[d].exp <= Now + TTL
                      /\ d > Now => L[d] = NoRecord
    BY Zenon DEF LeasesFit
  <2>1. CASE d = c
    <3>1. c \in Int /\ Now \in Int
      BY <1>4 DEF Ids
    <3> QED BY <1>3, <2>1, <3>1
  <2>2. CASE d # c
    <3>1. d \in Int
      BY DEF Ids
    <3> QED BY <1>3, <1>4, <2>2, <3>1, RecordFacts
  <2> QED BY <2>1, <2>2
<1>6. \A d \in Ids : L[d] = f[d] \/ Beats(L[d], f[d])
  BY <1>3
<1> QED BY <1>3, <1>5, <1>6 DEF L
\* What a view tells about a claim of actor a.
LEMMA ViewedClaim ==
    ASSUME FleetInv, NEW a \in Actors, NEW now \in Nat,
           NEW c \in DOMAIN View(local[Home[a]], now).claims,
           View(local[Home[a]], now).claims[c].actor = a
    PROVE  LET h == local[Home[a]]
               t == View(h, now).claims[c].task
           IN  /\ c \in Ids /\ c <= clock
               /\ \E f \in h.events :
                     f.type = "claim.made" /\ f.id = c /\ f.actor = a
                     /\ f.task = t
               /\ t \in Tasks
               /\ \E f \in h.events : f.type = "task.created" /\ f.task = t
<1> DEFINE h == local[Home[a]]
           v == View(h, now)
<1>1. Whole(h, clock, TTL)
  BY AtHand
<1>2. /\ c \in Ids
      /\ \E f \in h.events : /\ f.type = "claim.made" /\ f.id = c
                             /\ f.task = v.claims[c].task
                             /\ f.actor = v.claims[c].actor
  BY <1>1, ViewFacts
<1> HIDE DEF v
<1>3. PICK f \in h.events : /\ f.type = "claim.made" /\ f.id = c
                            /\ f.task = v.claims[c].task
                            /\ f.actor = v.claims[c].actor
  BY <1>2
<1>4. /\ f.task \in Tasks /\ f.id \in h.seen /\ h.seen \subseteq 1 .. clock
      /\ \E g \in h.events : g.type = "task.created" /\ g.task = f.task
  BY <1>1, <1>3 DEF Whole, Sound, AreEvents, IsEvent
<1>5. c <= clock
  BY <1>3, <1>4
<1>6. v.claims[c].actor = a
  BY DEF v
<1> QED BY <1>2, <1>3, <1>4, <1>5, <1>6 DEF v

LEMMA ClaimKeeps ==
    ASSUME FleetInv, NEW a \in Actors, NEW t \in Tasks, Claim(a, t)
    PROVE  Kept
<1> DEFINE m == Home[a]
           h == local[m]
           e == [id |-> Now, type |-> "claim.made", task |-> t, actor |-> a]
           r == [exp |-> Now + TTL, released |-> FALSE]
           L == [h.leases EXCEPT ![Now] = r]
<1>1. /\ Now <= Last /\ Ready(View(h, Now), t)
      /\ clock' = Now /\ local' = [local EXCEPT ![m] = With(@, e, L)]
      /\ world' = world /\ remote' = remote /\ gate' = gate /\ told' = told
  BY DEF Claim, Write
<1>2. /\ Now \in Ids /\ Now \in Nat /\ Now = clock + 1 /\ clock \in Nat
      /\ m \in Machines /\ TTL \in Nat /\ Whole(h, clock, TTL)
      /\ told \subseteq Ids /\ DOMAIN gate = Actors
  BY <1>1, AtHand, NextInstant DEF FleetInv
<1> HIDE DEF Now
<1>3. r \in Lease /\ r.exp = Now + TTL /\ r.released = FALSE
  BY <1>2 DEF Lease, Instants
<1>4. h.leases[Now] = NoRecord
  BY <1>2, RecordFacts
<1>5. Beats(r, h.leases[Now])
  BY <1>2, <1>3, <1>4 DEF Beats, NoRecord, NoLease
<1> HIDE DEF r
<1>6. /\ L \in [Ids -> Lease] /\ L[Now] = r
      /\ \A d \in Ids : d # Now => L[d] = h.leases[d]
      /\ LeasesFit(L, Now, TTL)
      /\ \A d \in Ids : L[d] = h.leases[d] \/ Beats(L[d], h.leases[d])
  BY <1>1, <1>2, <1>3, <1>5, RecordWritten
<1>7. PICK f \in h.events : f.type = "task.created" /\ f.task = t
  <2>1. t \in DOMAIN View(h, Now).tasks
    BY <1>1 DEF Ready
  <2> QED BY <1>2, <2>1, ViewFacts
<1>8. f.id < Now
  <2>1. f.id \in 1 .. clock
    BY <1>2, <1>7 DEF Whole
  <2> QED BY <1>2, <2>1
<1>9. /\ e.id = Now /\ e.type = "claim.made" /\ e.task = t /\ e.actor = a
      /\ With(h, e, L) = On(h, {e}, L, Now)
  BY DEF With, On
<1> HIDE DEF e, L, h
<1>10. Grounded(e, h.events)
  BY <1>2, <1>7, <1>8, <1>9 DEF Grounded, IsEvent
<1>11. Commits(world, local, gate, a, {e}, L, clock)
  BY <1>2, <1>3, <1>6, <1>9, <1>10 DEF Commits, h, Home, TTL
<1>12. local' = [local EXCEPT ![m] = On(@, {e}, L, Now)]
  BY <1>1, <1>9 DEF h
<1> QED BY <1>1, <1>2, <1>11, <1>12, WriteKeeps
LEMMA ReleaseKeeps ==
    ASSUME FleetInv, NEW a \in Actors, NEW t \in Tasks, Release(a, t)
    PROVE  Kept
<1> DEFINE m == Home[a]
           h == local[m]
           v == View(h, Now)
           c == IF HeldByActor(v, t, a) # {}
                THEN CHOOSE x \in HeldByActor(v, t, a) : TRUE
                ELSE LatestClaim(v, t, a)
           e == [id |-> Now, type |-> "claim.released", task |-> t,
                 actor |-> a]
           r == [exp |-> Now, released |-> TRUE]
           L == [h.leases EXCEPT ![c] = r]
<1>1. /\ Now <= Last /\ c # None
      /\ \/ v.claims[c].status = "active"
         \/ v.claims[c].status = "voided" /\ ~ ClosedByRun(v, v.runs, c)
      /\ clock' = Now /\ local' = [local EXCEPT ![m] = With(@, e, L)]
      /\ world' = world /\ remote' = remote /\ gate' = gate /\ told' = told
  BY DEF Release, Write
<1>2. /\ Now \in Ids /\ Now \in Nat /\ Now = clock + 1 /\ clock \in Nat
      /\ m \in Machines /\ TTL \in Nat /\ Whole(h, clock, TTL)
      /\ told \subseteq Ids /\ DOMAIN gate = Actors
  BY <1>1, AtHand, NextInstant DEF FleetInv
<1> HIDE DEF Now
<1>3. \A d \in DOMAIN v.claims :
         /\ d \in Ids
         /\ v.claims[d].status = "active" => h.leases[d].exp > Now
         /\ v.claims[d].status = "voided" /\ ~ ClosedByRun(v, v.runs, d)
            => h.leases[d].exp > Now
  BY <1>2, ViewFacts
<1>4. c \in DOMAIN v.claims /\ v.claims[c].actor = a
  <2>1. CASE HeldByActor(v, t, a) # {}
    <3>1. c \in HeldByActor(v, t, a)
      BY <2>1
    <3> QED BY <3>1 DEF HeldByActor, ActiveClaims
  <2>2. CASE HeldByActor(v, t, a) = {}
    <3>1. c = LatestClaim(v, t, a)
      BY <2>2, SMTT(60)
    <3>2. c \in OwnClaims(v, t, a)
      BY <1>1, <1>3, <3>1, LatestIsOwn
    <3> QED BY <3>2 DEF OwnClaims
  <2> QED BY <2>1, <2>2, SMTT(60)
<1> HIDE DEF c
<1>5. /\ c \in Ids /\ c <= clock
      /\ \E f \in h.events :
            f.type = "claim.made" /\ f.id = c /\ f.actor = a
  BY <1>2, <1>4, ViewedClaim
<1>6. h.leases[c].exp > Now
  BY <1>1, <1>3, <1>4
<1>7. ~ h.leases[c].released /\ c <= Now
  <2>1. c \in Int
    BY <1>5 DEF Ids
  <2> QED BY <1>2, <1>5, <1>6, <2>1, RecordFacts
<1>8. r \in Lease /\ r.released /\ r.exp = Now
  BY <1>2 DEF Lease, Instants
<1>9. Beats(r, h.leases[c])
  BY <1>7, <1>8 DEF Beats
<1> HIDE DEF r, v
<1>10. /\ L \in [Ids -> Lease]
       /\ \A d \in Ids : d # c => L[d] = h.leases[d]
       /\ LeasesFit(L, Now, TTL)
       /\ \A d \in Ids : L[d] = h.leases[d] \/ Beats(L[d], h.leases[d])
  <2>1. r.released => r.exp <= Now
    BY <1>2, <1>8
  <2>2. r.exp <= Now + TTL
    BY <1>2, <1>8
  <2> QED BY <1>1, <1>2, <1>5, <1>7, <1>8, <1>9, <2>1, <2>2, RecordWritten
<1>11. /\ e.id = Now /\ e.type = "claim.released" /\ e.task = t
       /\ e.actor = a /\ With(h, e, L) = On(h, {e}, L, Now)
  BY DEF With, On
<1> HIDE DEF e, L, h
<1>12. Grounded(e, h.events)
  BY <1>2, <1>11 DEF Grounded, IsEvent
<1>13. Commits(world, local, gate, a, {e}, L, clock)
  BY <1>2, <1>5, <1>10, <1>11, <1>12 DEF Commits, h, Home, TTL
<1>14. local' = [local EXCEPT ![m] = On(@, {e}, L, Now)]
  BY <1>1, <1>11 DEF h
<1> QED BY <1>1, <1>2, <1>13, <1>14, WriteKeeps

LEMMA RenewKeeps ==
    ASSUME FleetInv, NEW a \in Actors, NEW t \in Tasks, Renew(a, t)
    PROVE  Kept
<1> DEFINE m == Home[a]
           h == local[m]
           v == View(h, clock)
           r == [exp |-> Now + TTL, released |-> FALSE]
           L(c) == [h.leases EXCEPT ![c] = r]
<1>1. /\ Now <= Last /\ clock' = Now
      /\ world' = world /\ remote' = remote /\ gate' = gate /\ told' = told
  BY DEF Renew
<1>2. /\ Now \in Ids /\ Now \in Nat /\ Now = clock + 1 /\ clock \in Nat
      /\ m \in Machines /\ TTL \in Nat /\ Whole(h, clock, TTL)
      /\ told \subseteq Ids /\ DOMAIN gate = Actors
  BY <1>1, AtHand, NextInstant DEF FleetInv
<1>3. PICK c \in HeldByActor(v, t, a) :
         local' = [local EXCEPT ![m] = Renewed(@, c)]
  BY DEF Renew
<1> HIDE DEF Now
<1>4. /\ c \in DOMAIN v.claims /\ v.claims[c].actor = a
      /\ v.claims[c].status = "active"
  BY <1>3 DEF HeldByActor, ActiveClaims
<1>5. h.leases[c].exp > clock
  BY <1>2, <1>4, ViewFacts
<1>6. c \in Ids /\ c <= clock
  BY <1>2, <1>4, ViewedClaim
<1> HIDE DEF v
<1>7. /\ ~ h.leases[c].released /\ c <= Now /\ h.leases[c].exp < Now + TTL
  <2>1. c \in Int
    BY <1>6 DEF Ids
  <2> QED BY <1>2, <1>5, <1>6, <2>1, RecordFacts
<1>8. r \in Lease /\ ~ r.released /\ r.exp = Now + TTL
  BY <1>2 DEF Lease, Instants
<1>9. Beats(r, h.leases[c])
  BY <1>2, <1>6, <1>7, <1>8, RecordFacts DEF Beats
<1>10. Renewed(h, c) = On(h, {}, L(c), Now)
  <2>1. h.events \cup {} = h.events
    OBVIOUS
  <2> QED BY <2>1 DEF Renewed, On
<1>11. local' = [local EXCEPT ![m] = On(@, {}, L(c), Now)]
  BY <1>3, <1>10
<1> HIDE DEF r
<1>12. /\ L(c) \in [Ids -> Lease] /\ L(c)[c] = r
       /\ \A d \in Ids : d # c => L(c)[d] = h.leases[d]
       /\ LeasesFit(L(c), Now, TTL)
       /\ \A d \in Ids : L(c)[d] = h.leases[d] \/ Beats(L(c)[d], h.leases[d])
  <2>1. r.released => r.exp <= Now
    BY <1>8
  <2>2. r.exp <= Now + TTL
    BY <1>2, <1>8
  <2> QED BY <1>1, <1>2, <1>6, <1>7, <1>8, <1>9, <2>1, <2>2, RecordWritten
<1> HIDE DEF L, h
<1>13. Commits(world, local, gate, a, {}, L(c), clock)
  <2>1. \A d \in Ids : L(c)[d].released => h.leases[d].released
    BY <1>8, <1>12
  <2> QED BY <1>2, <1>12, <2>1 DEF Commits, h, Home, TTL
<1> QED BY <1>1, <1>2, <1>11, <1>13, WriteKeeps
\* The instants an operation may judge at again.
LEMMA JudgingsAreNat == \A now \in Judgings : now \in Nat
BY DEF Judgings

\* An operation of actor a that records the end of an attempt.
LEMMA RunKeeps ==
    ASSUME FleetInv, Now <= Last, NEW a \in Actors, NEW t, NEW outcome,
           outcome \in Outcome,
           NEW now \in Nat, NEW c \in Closable(View(local[Home[a]], now), t, a),
           RecordRun(a, t, c, outcome),
           gate[a].stage # "push", DOMAIN gate' = Actors,
           \A b \in Actors : \/ gate'[b] = gate[b]
                             \/ gate'[b].stage \in {"idle", "judge", "record"},
           world' = world, remote' = remote, told' = told
    PROVE  Kept
<1> DEFINE m == Home[a]
           h == local[m]
           v == View(h, now)
           e == [id |-> Now, type |-> "run.finished", task |-> t,
                 actor |-> a, outcome |-> outcome, claim |-> c]
           L == h.leases
<1>1. clock' = Now /\ local' = [local EXCEPT ![m] = With(@, e, L)]
  BY DEF RecordRun, Write
<1>2. /\ Now \in Ids /\ Now \in Nat /\ Now = clock + 1 /\ clock \in Nat
      /\ m \in Machines /\ TTL \in Nat /\ Whole(h, clock, TTL)
      /\ told \subseteq Ids /\ h \in Known /\ HeadsFit(Known, clock, TTL)
  BY AtHand, NextInstant DEF FleetInv
<1> HIDE DEF Now
<1>3. Agree(h, h)
  BY <1>2 DEF HeadsFit
<1>4. /\ c \in DOMAIN v.claims /\ v.claims[c].task = t
      /\ v.claims[c].actor = a
      /\ \A q \in h.events : q.type = "run.finished" => q.claim # c
  BY <1>2, <1>3, ClosableIsUnreported
<1>5. /\ c \in Ids /\ c <= clock /\ t \in Tasks
      /\ \E f \in h.events : /\ f.type = "claim.made" /\ f.id = c
                             /\ f.actor = a /\ f.task = t
      /\ \E f \in h.events : f.type = "task.created" /\ f.task = t
  BY <1>2, <1>4, ViewedClaim
<1> HIDE DEF v
<1>6. \A f \in h.events : f.id < Now
  <2> SUFFICES ASSUME NEW f \in h.events
               PROVE  f.id < Now
    OBVIOUS
  <2>1. f.id \in 1 .. clock
    BY <1>2 DEF Whole
  <2> QED BY <1>2, <2>1
<1>7. L \in [Ids -> Lease] /\ LeasesFit(L, Now, TTL)
  <2>1. HeadsFit(Known, Now, TTL)
    BY <1>2, LaterHeadsFit
  <2> QED BY <1>2, <2>1 DEF HeadsFit, Whole
<1>8. /\ e.id = Now /\ e.type = "run.finished" /\ e.task = t
      /\ e.actor = a /\ e.claim = c /\ e.outcome = outcome
      /\ With(h, e, L) = On(h, {e}, L, Now)
  BY DEF With, On
<1> HIDE DEF e
<1>9. Grounded(e, h.events)
  <2>1. IsEvent(e)
    BY <1>2, <1>5, <1>8 DEF IsEvent
  <2>2. PICK f \in h.events : /\ f.type = "claim.made" /\ f.id = c
                              /\ f.actor = a /\ f.task = t
    BY <1>5
  <2>3. PICK g \in h.events : g.type = "task.created" /\ g.task = t
    BY <1>5
  <2> QED BY <1>6, <1>8, <2>1, <2>2, <2>3 DEF Grounded
<1>10. Commits(world, local, gate, a, {e}, L, clock)
  <2>1. \A d \in Ids : L[d].released => h.leases[d].released
    OBVIOUS
  <2> HIDE DEF h
  <2> QED BY <1>2, <1>4, <1>7, <1>8, <1>9, <2>1 DEF Commits, h, Home, TTL
<1>11. local' = [local EXCEPT ![m] = On(@, {e}, L, Now)]
  BY <1>1, <1>8
<1> HIDE DEF L, h
<1> QED BY <1>1, <1>2, <1>10, <1>11, WriteKeeps

LEMMA FinishKeeps ==
    ASSUME FleetInv, NEW a \in Actors, NEW t \in Tasks,
           FinishFailed(a, t) \/ FinishSettled(a, t)
    PROVE  Kept
<1> DEFINE v == View(local[Home[a]], Now)
<1>1. /\ Now <= Last /\ gate[a] = Idle
      /\ world' = world /\ remote' = remote /\ gate' = gate /\ told' = told
  BY DEF FinishFailed, FinishSettled
<1>2. gate[a].stage # "push" /\ DOMAIN gate' = Actors
  BY <1>1, AtHand DEF Idle
<1> HIDE DEF Now
<1>3. PICK c \in Closable(v, t, a), outcome \in Outcome :
         RecordRun(a, t, c, outcome)
  <2>1. CASE FinishFailed(a, t)
    <3>1. PICK c \in Closable(v, t, a) :
             RecordRun(a, t, c, IF v.claims[c].status = "voided"
                                THEN "superseded" ELSE "failed")
      BY <2>1 DEF FinishFailed
    <3>2. (IF v.claims[c].status = "voided" THEN "superseded" ELSE "failed")
             \in Outcome
      BY DEF Outcome
    <3> HIDE DEF v
    <3> QED BY <3>1, <3>2
  <2>2. CASE FinishSettled(a, t)
    <3>1. PICK c \in Closable(v, t, a) :
             RecordRun(a, t, c, IF Judge(v, t, a) = "confirmed"
                                THEN "done" ELSE "superseded")
      BY <2>2 DEF FinishSettled
    <3>2. (IF Judge(v, t, a) = "confirmed" THEN "done" ELSE "superseded")
             \in Outcome
      BY DEF Outcome
    <3> HIDE DEF v
    <3> QED BY <3>1, <3>2
  <2> QED BY <2>1, <2>2
<1>4. Now \in Nat
  BY <1>1, NextInstant
<1> HIDE DEF Now, v
<1> QED BY <1>1, <1>2, <1>3, <1>4, RunKeeps DEF v
\* A step in which a gate moves on and nothing is written.
LEMMA GateStepKeeps ==
    ASSUME FleetInv, NEW a \in Actors, NEW g,
           gate' = [gate EXCEPT ![a] = g],
           g.stage \in {"idle", "judge", "record"},
           world' = world, clock' = clock, local' = local, remote' = remote,
           told' \subseteq Ids
    PROVE  Kept
<1>1. /\ DOMAIN gate' = Actors
      /\ \A b \in Actors : \/ gate'[b] = gate[b]
                           \/ gate'[b].stage \in {"idle", "judge", "record"}
  BY AtHand
<1>2. Sane(world, Known, clock, local, gate')
  BY <1>1, AtHand, SaneGate
<1>3. clock' \in Ids /\ remote' \in Known
  BY AtHand
<1>4. Advances
  BY StandsStill
<1> QED BY <1>2, <1>3, <1>4, FleetStays

LEMMA EnterGateKeeps ==
    ASSUME FleetInv, NEW a \in Actors, NEW t \in Tasks,
           NEW finishing \in BOOLEAN, EnterGate(a, t, finishing)
    PROVE  Kept
<1> DEFINE g == [stage |-> "judge", task |-> t, finishing |-> finishing]
<1>1. /\ gate' = [gate EXCEPT ![a] = g]
      /\ world' = world /\ clock' = clock /\ local' = local
      /\ remote' = remote /\ told' = told
  BY DEF EnterGate
<1>2. g.stage = "judge" /\ told \subseteq Ids
  BY DEF FleetInv
<1> HIDE DEF g
<1> QED BY <1>1, <1>2, GateStepKeeps

LEMMA GateRetryKeeps ==
    ASSUME FleetInv, NEW a \in Actors, GateRetry(a)
    PROVE  Kept
<1> DEFINE g == [stage |-> "judge", task |-> gate[a].task,
                 finishing |-> gate[a].finishing]
<1>1. /\ gate' = [gate EXCEPT ![a] = g]
      /\ world' = world /\ clock' = clock /\ local' = local
      /\ remote' = remote /\ told' = told
  BY DEF GateRetry
<1>2. g.stage = "judge" /\ told \subseteq Ids
  BY DEF FleetInv
<1> HIDE DEF g
<1> QED BY <1>1, <1>2, GateStepKeeps

LEMMA GateRefuseKeeps ==
    ASSUME FleetInv, NEW a \in Actors, GateRefuse(a)
    PROVE  Kept
<1>1. /\ gate' = [gate EXCEPT ![a] = Idle]
      /\ world' = world /\ clock' = clock /\ local' = local
      /\ remote' = remote /\ told' = told
  BY DEF GateRefuse
<1>2. Idle.stage = "idle" /\ told \subseteq Ids
  BY DEF FleetInv, Idle
<1> QED BY <1>1, <1>2, GateStepKeeps

\* A verdict of "confirmed" names a claim.
LEMMA ConfirmedIsClaim ==
    ASSUME FleetInv, NEW h, Whole(h, clock, TTL), NEW now \in Nat,
           NEW t, NEW a, Judge(View(h, now), t, a) \in {"confirmed", "proceed"}
    PROVE  LatestClaim(View(h, now), t, a) \in Ids
<1> DEFINE v == View(h, now)
<1>1. DOMAIN v.claims \subseteq Ids
  BY ViewFacts
<1> HIDE DEF v
<1>2. LatestClaim(v, t, a) # None
  BY DEF Judge, v
<1>3. LatestClaim(v, t, a) \in OwnClaims(v, t, a)
  BY <1>1, <1>2, LatestIsOwn
<1> QED BY <1>1, <1>3 DEF OwnClaims, v

LEMMA ConfirmSettledKeeps ==
    ASSUME FleetInv, NEW a \in Actors, NEW t \in Tasks, ConfirmSettled(a, t)
    PROVE  Kept
<1> DEFINE v == View(local[Home[a]], clock)
<1>1. /\ Judge(v, t, a) = "confirmed"
      /\ told' = told \cup {LatestClaim(v, t, a)}
      /\ world' = world /\ clock' = clock /\ local' = local
      /\ remote' = remote /\ gate' = gate
  BY DEF ConfirmSettled
<1>2. Whole(local[Home[a]], clock, TTL) /\ clock \in Nat
  BY AtHand
<1>3. LatestClaim(v, t, a) \in Ids
  BY <1>1, <1>2, ConfirmedIsClaim
<1>4. told' \subseteq Ids
  BY <1>1, <1>3 DEF FleetInv
<1>5. Sane(world, Known, clock, local, gate) /\ clock \in Ids
      /\ remote \in Known
  BY AtHand
<1>6. Advances
  BY <1>1, StandsStill
<1> HIDE DEF v
<1> QED BY <1>1, <1>4, <1>5, <1>6, FleetStays

\* An answer ends the wait, or goes on to the record.
LEMMA AnswerFacts ==
    ASSUME FleetInv, NEW a \in Actors, NEW verdict, NEW c,
           Answer(a, verdict, c), verdict = "confirmed" => c \in Ids
    PROVE  /\ DOMAIN gate' = Actors
           /\ \A b \in Actors \ {a} : gate'[b] = gate[b]
           /\ gate'[a].stage \in {"idle", "record"}
           /\ told' \subseteq Ids
<1>1. DOMAIN gate = Actors /\ told \subseteq Ids
  BY AtHand DEF FleetInv
<1>2. told' \subseteq Ids
  BY <1>1 DEF Answer
<1> DEFINE g == IF gate[a].finishing
                THEN [stage |-> "record", task |-> gate[a].task,
                      verdict |-> verdict]
                ELSE Idle
<1>3. gate' = [gate EXCEPT ![a] = g]
  BY DEF Answer
<1>4. g.stage \in {"idle", "record"}
  BY DEF Idle
<1> HIDE DEF g
<1>5. /\ DOMAIN gate' = Actors
      /\ \A b \in Actors \ {a} : gate'[b] = gate[b]
      /\ gate'[a].stage \in {"idle", "record"}
  BY <1>1, <1>3, <1>4
<1> QED BY <1>2, <1>5

LEMMA GateRecordKeeps ==
    ASSUME FleetInv, NEW a \in Actors, GateRecord(a)
    PROVE  Kept
<1>0. PICK now \in Judgings :
         LET u == gate[a].task
             w == View(local[Home[a]], now)
             x == IF gate[a].verdict = "confirmed" THEN "done"
                  ELSE "superseded"
         IN  \/ clock' = clock /\ local' = local
             \/ \E c \in Closable(w, u, a) : RecordRun(a, u, c, x)
  BY DEF GateRecord
<1>9. now \in Nat
  BY JudgingsAreNat
<1> DEFINE t == gate[a].task
           v == View(local[Home[a]], now)
           outcome == IF gate[a].verdict = "confirmed"
                      THEN "done" ELSE "superseded"
<1>1. /\ gate[a].stage = "record" /\ Now <= Last
      /\ gate' = [gate EXCEPT ![a] = Idle]
      /\ world' = world /\ remote' = remote /\ told' = told
      /\ \/ clock' = clock /\ local' = local
         \/ \E c \in Closable(v, t, a) : RecordRun(a, t, c, outcome)
  BY <1>0 DEF GateRecord
<1>2. outcome \in Outcome
  BY DEF Outcome
<1>3. /\ DOMAIN gate' = Actors
      /\ \A b \in Actors : \/ gate'[b] = gate[b]
                           \/ gate'[b].stage \in {"idle", "judge", "record"}
  BY <1>1, AtHand DEF Idle
<1> HIDE DEF v, outcome
<1>4. CASE clock' = clock /\ local' = local
  <2>1. Idle.stage = "idle" /\ told \subseteq Ids
    BY DEF Idle, FleetInv
  <2> QED BY <1>1, <1>4, <2>1, GateStepKeeps
<1>5. ASSUME NEW c \in Closable(v, t, a), RecordRun(a, t, c, outcome)
      PROVE  Kept
  <2> HIDE DEF t
  <2> QED BY <1>1, <1>2, <1>3, <1>5, <1>9, RunKeeps DEF v
<1> QED BY <1>1, <1>4, <1>5
\* The confirmation minted on a head whose replay lets the claim proceed.
LEMMA ConfirmationFacts ==
    ASSUME FleetInv, Now <= Last, NEW a \in Actors,
           NEW h, Whole(h, clock, TTL), NEW now \in Nat,
           Judge(View(h, now), gate[a].task, a) = "proceed"
    PROVE  LET e == Confirmation(a, View(h, now))
           IN  /\ e.id = Now /\ e.type = "claim.confirmed" /\ e.actor = a
               /\ Grounded(e, h.events)
               /\ \A q \in h.events :
                     q.type = "run.finished" => q.claim # e.claim
<1> DEFINE v == View(h, now)
           t == gate[a].task
           c == LatestClaim(v, t, a)
           e == Confirmation(a, v)
<1>1. /\ e.id = Now /\ e.type = "claim.confirmed" /\ e.task = t
      /\ e.actor = a /\ e.claim = c
  BY DEF Confirmation
<1>2. /\ c \in DOMAIN v.claims /\ v.claims[c].task = t
      /\ v.claims[c].actor = a
      /\ \A q \in h.events : q.type = "run.finished" => q.claim # c
  BY ProceedsUnreported
<1>3. \A d \in DOMAIN v.claims :
         \E f \in h.events : /\ f.type = "claim.made" /\ f.id = d
                             /\ f.task = v.claims[d].task
                             /\ f.actor = v.claims[d].actor
  BY ViewFacts
<1> HIDE DEF v, c, t
<1>4. PICK f \in h.events : /\ f.type = "claim.made" /\ f.id = c
                            /\ f.task = t /\ f.actor = a
  BY <1>2, <1>3
<1>5. f.task \in Tasks /\ f.id \in 1 .. clock
  BY <1>4 DEF Whole, Sound, AreEvents, IsEvent
<1>6. Now \in Ids /\ Now = clock + 1 /\ clock \in Nat
  BY AtHand, NextInstant
<1>7. f.id < Now
  BY <1>5, <1>6
<1> HIDE DEF e, Now
<1>8. Grounded(e, h.events)
  <2>1. IsEvent(e)
    BY <1>1, <1>4, <1>5, <1>6 DEF IsEvent
  <2> QED BY <1>1, <1>4, <1>7, <2>1 DEF Grounded
<1>9. \A q \in h.events : q.type = "run.finished" => q.claim # e.claim
  BY <1>1, <1>2
<1> QED BY <1>1, <1>8, <1>9 DEF e, v

\* judgeConfirm settled the wait.
LEMMA JudgedFacts ==
    ASSUME FleetInv, NEW a \in Actors, NEW h, Whole(h, clock, TTL),
           NEW now \in Nat, Judged(a, View(h, now))
    PROVE  /\ DOMAIN gate' = Actors
           /\ \A b \in Actors : \/ gate'[b] = gate[b]
                                \/ gate'[b].stage \in {"idle", "judge", "record"}
           /\ told' \subseteq Ids
           /\ clock' = clock
<1> DEFINE v == View(h, now)
           t == gate[a].task
           c == LatestClaim(v, t, a)
<1>1. CASE gate' = [gate EXCEPT ![a] = Idle] /\ told' = told /\ clock' = clock
  BY <1>1, AtHand DEF Idle, FleetInv
<1>2. CASE /\ Judge(v, t, a) \in {"confirmed", "lost"}
           /\ Answer(a, Judge(v, t, a), c) /\ clock' = clock
  <2>1. Judge(v, t, a) = "confirmed" => c \in Ids
    BY ConfirmedIsClaim
  <2> HIDE DEF v, c, t
  <2>2. /\ DOMAIN gate' = Actors
        /\ \A b \in Actors \ {a} : gate'[b] = gate[b]
        /\ gate'[a].stage \in {"idle", "record"}
        /\ told' \subseteq Ids
    BY <1>2, <2>1, AnswerFacts
  <2> QED BY <1>2, <2>2
<1> QED BY <1>1, <1>2 DEF Judged

\* What the daemon of actor a has after it brought head y in, or did not.
LEMMA AdoptFacts ==
    ASSUME FleetInv, NEW m \in Machines, NEW y \in Known,
           NEW x \in {local[m], Reconciled(local[m], y)},
           NEW loc, loc = [local EXCEPT ![m] = x]
    PROVE  /\ Sane(world, Known \cup {x}, clock, loc, gate)
           /\ loc[m] = x
           /\ Whole(x, clock, TTL)
           /\ Ancestor(local[m], x)
<1>1. PICK z \in Known : x = Reconciled(local[m], z)
  <2>1. Reconciled(local[m], local[m]) = local[m] /\ local[m] \in Known
    BY AtHand DEF Reconciled, Ancestor
  <2> QED BY <2>1
<1>2. Sane(world, Known \cup {x}, clock, loc, gate)
  BY <1>1, AtHand, SaneAdopt
<1>3. loc[m] = x
  BY AtHand
<1>4. Whole(x, clock, TTL)
  BY <1>2 DEF Sane, HeadsFit, TTL
<1>5. Ancestor(local[m], x)
  BY <1>1, ReconciledDescends
<1> QED BY <1>2, <1>3, <1>4, <1>5

LEMMA GateJudgeKeeps ==
    ASSUME FleetInv, NEW a \in Actors, GateJudge(a)
    PROVE  Kept
<1> DEFINE m == Home[a]
           t == gate[a].task
<1>1. PICK h \in {local[m], Reconciled(local[m], remote)} :
         /\ local' = [local EXCEPT ![m] = h]
         /\ \/ Judged(a, View(h, clock))
            \/ /\ Judge(View(h, clock), t, a) = "proceed"
               /\ Now <= Last
               /\ clock' = Now
               /\ gate' = [gate EXCEPT ![a] =
                     [stage |-> "push", task |-> gate[a].task,
                      finishing |-> gate[a].finishing, head |-> h,
                      event |-> Confirmation(a, View(h, clock))]]
               /\ told' = told
  BY DEF GateJudge
<1>2. world' = world /\ remote' = remote
  BY DEF GateJudge
<1> DEFINE K == Known \cup {h}
           v == View(h, clock)
<1>3. /\ m \in Machines /\ remote \in Known /\ clock \in Nat
      /\ DOMAIN gate = Actors /\ clock \in Ids /\ told \subseteq Ids
      /\ world \in Worlds
  BY AtHand DEF FleetInv
<1>4. /\ Sane(world, K, clock, local', gate) /\ local'[m] = h
      /\ Whole(h, clock, TTL) /\ Ancestor(local[m], h)
  BY <1>1, <1>3, AdoptFacts
<1>5. remote' \in K /\ h \in K /\ Known \subseteq K
  BY <1>2, <1>3
<1>6. Advances
  BY <1>1, <1>2, <1>3, <1>4, MachineAdvances
<1> HIDE DEF m, K, v, t
<1>7. CASE Judged(a, v)
  <2>1. /\ DOMAIN gate' = Actors
        /\ \A b \in Actors : \/ gate'[b] = gate[b]
                             \/ gate'[b].stage \in {"idle", "judge", "record"}
        /\ told' \subseteq Ids /\ clock' = clock
    BY <1>3, <1>4, <1>7, JudgedFacts DEF v
  <2>2. Sane(world, K, clock, local', gate')
    BY <1>4, <2>1, SaneGate
  <2> QED BY <1>2, <1>3, <1>5, <1>6, <2>1, <2>2, FleetStays
<1>8. ASSUME Judge(v, t, a) = "proceed", Now <= Last, clock' = Now,
             gate' = [gate EXCEPT ![a] =
                        [stage |-> "push", task |-> gate[a].task,
                         finishing |-> gate[a].finishing, head |-> h,
                         event |-> Confirmation(a, v)]],
             told' = told
      PROVE  Kept
  <2> DEFINE e == Confirmation(a, v)
  <2>1. /\ e.id = Now /\ e.type = "claim.confirmed" /\ e.actor = a
        /\ Grounded(e, h.events)
        /\ \A q \in h.events : q.type = "run.finished" => q.claim # e.claim
    BY <1>3, <1>4, <1>8, ConfirmationFacts DEF v, t
  <2>2. Now \in Ids /\ Now = clock + 1
    BY <1>8, NextInstant
  <2> HIDE DEF e, Now
  <2>3. /\ DOMAIN gate' = Actors
        /\ \A b \in Actors \ {a} : gate'[b] = gate[b]
        /\ gate'[a].stage = "push" /\ gate'[a].head = h
        /\ gate'[a].event = e
    BY <1>3, <1>8 DEF e
  <2>4. h = local'[world.home[a]]
    BY <1>4 DEF m, Home
  <2>5. Sane(world, K, Now, local', gate')
    <3> DEFINE loc == local'
               new == gate'
    <3>1. Sane(world, K, clock, loc, gate) /\ h = loc[world.home[a]]
      BY <1>4, <2>4
    <3>2. DOMAIN new = Actors /\ \A b \in Actors \ {a} : new[b] = gate[b]
      BY <2>3
    <3>3. /\ new[a].stage = "push" /\ new[a].head = h /\ new[a].event = e
          /\ e.id = clock + 1
      BY <2>1, <2>2, <2>3
    <3> HIDE DEF loc, new
    <3>4. Sane(world, K, clock + 1, loc, new)
      BY <1>3, <1>5, <2>1, <3>1, <3>2, <3>3, SaneMint
    <3> QED BY <2>2, <3>4 DEF loc, new
  <2> QED BY <1>2, <1>3, <1>5, <1>8, <1>6, <2>2, <2>5, FleetStays
<1> QED BY <1>1, <1>7, <1>8 DEF v, t
LEMMA GatePushKeeps ==
    ASSUME FleetInv, NEW a \in Actors, GatePush(a)
    PROVE  Kept
<1> DEFINE m == Home[a]
           h == gate[a].head
           e == gate[a].event
           x == On(h, {e}, h.leases, e.id)
           K == Known \cup {x}
<1>1. /\ gate[a].stage = "push" /\ Ancestor(remote, h)
      /\ remote' = With(h, e, h.leases)
      /\ \/ Answer(a, "confirmed", e.claim)
         \/ gate' = [gate EXCEPT ![a] = Idle] /\ told' = told
      /\ world' = world /\ clock' = clock
  BY DEF GatePush
<1>2. PICK g \in {local[m], Reconciled(local[m], remote')} :
         local' = [local EXCEPT ![m] = g]
  BY DEF GatePush
<1>3. remote' = x
  BY <1>1 DEF With, On
<1>4. /\ m \in Machines /\ clock \in Nat /\ clock \in Ids
      /\ DOMAIN gate = Actors /\ world \in Worlds /\ told \subseteq Ids
      /\ Sane(world, Known, clock, local, gate)
      /\ Carried(a, gate, Known, clock)
      /\ local[m] \in Known
  BY AtHand DEF FleetInv
<1>5. e.claim \in Ids
  <2>1. /\ e.type = "claim.confirmed" /\ h \in Known
        /\ Grounded(e, h.events)
    BY <1>1, <1>4 DEF Carried
  <2>2. PICK f \in h.events : f.id = e.claim
    BY <2>1 DEF Grounded
  <2>3. Whole(h, clock, TTL)
    BY <2>1, AtHand
  <2> QED BY <2>2, <2>3 DEF Whole, Sound, AreEvents, IsEvent
<1> HIDE DEF e, m, x
<1>6. /\ DOMAIN gate' = Actors
      /\ \A b \in Actors \ {a} : gate'[b] = gate[b]
      /\ gate'[a].stage \in {"idle", "record"}
      /\ told' \subseteq Ids
  <2>1. CASE Answer(a, "confirmed", e.claim)
    BY <1>5, <2>1, AnswerFacts
  <2>2. CASE gate' = [gate EXCEPT ![a] = Idle] /\ told' = told
    BY <1>4, <2>2 DEF Idle
  <2> QED BY <1>1, <2>1, <2>2
<1>7. Sane(world, K, clock, local, gate')
  BY <1>1, <1>4, <1>6, SanePush DEF x, e
<1> HIDE DEF K
<1>8. local[m] \in K /\ remote' \in K
  BY <1>3, <1>4 DEF K
<1>9. PICK z \in K : g = Reconciled(local[m], z)
  <2>1. Reconciled(local[m], local[m]) = local[m]
    BY DEF Reconciled, Ancestor
  <2> QED BY <1>8, <2>1
<1>10. Sane(world, K \cup {g}, clock, local', gate')
  BY <1>2, <1>4, <1>7, <1>9, SaneAdopt
<1>11. remote' \in K \cup {g} /\ clock' \in Ids
  BY <1>1, <1>4, <1>8
<1>12. Sane(world, K \cup {g}, clock', local', gate')
  BY <1>1, <1>10
<1>13. Advances
  <2>1. Ancestor(remote, remote')
    BY <1>1, <1>3 DEF Ancestor, On, x
  <2>2. Ancestor(local[m], g)
    BY <1>9, ReconciledDescends
  <2>3. DOMAIN local = Machines
    BY AtHand
  <2>4. /\ local'[m] = g
        /\ \A k \in Machines : k # m => local'[k] = local[k]
    BY <1>2, <1>4, <2>3
  <2> QED BY <2>1, <2>2, <2>4 DEF Advances, Ancestor
<1>14. Known \subseteq K \cup {g}
  BY DEF K
<1> QED BY <1>1, <1>6, <1>11, <1>12, <1>13, <1>14, FleetStays

LEMMA ConfirmLocallyKeeps ==
    ASSUME FleetInv, NEW a \in Actors, ConfirmLocally(a)
    PROVE  Kept
<1>0. PICK now \in Judgings :
         LET w == View(local[Home[a]], now)
         IN  \/ Judged(a, w) /\ local' = local
             \/ /\ Judge(w, gate[a].task, a) = "proceed" /\ Now <= Last
                /\ Write(Home[a], Confirmation(a, w), local[Home[a]].leases)
                /\ Answer(a, "confirmed", LatestClaim(w, gate[a].task, a))
  BY DEF ConfirmLocally
<1> DEFINE m == Home[a]
           h == local[m]
           t == gate[a].task
           v == View(h, now)
           e == Confirmation(a, v)
           L == h.leases
<1>1. world' = world /\ remote' = remote
  BY DEF ConfirmLocally
<1>2. \/ Judged(a, v) /\ local' = local
      \/ /\ Judge(v, t, a) = "proceed"
         /\ Now <= Last
         /\ clock' = Now /\ local' = [local EXCEPT ![m] = With(@, e, L)]
         /\ Answer(a, "confirmed", LatestClaim(v, t, a))
  BY <1>0 DEF Write
<1>3. /\ clock \in Nat /\ clock \in Ids /\ Now = clock + 1
      /\ Whole(h, clock, TTL)
      /\ told \subseteq Ids /\ h \in Known /\ HeadsFit(Known, clock, TTL)
      /\ remote \in Known /\ TTL \in Nat
      /\ Sane(world, Known, clock, local, gate)
  BY AtHand DEF FleetInv, Now
<1> HIDE DEF Now
<1>4. Now \in Nat /\ now \in Nat
  BY <1>3, JudgingsAreNat
<1>5. CASE Judged(a, v) /\ local' = local
  <2>1. /\ DOMAIN gate' = Actors
        /\ \A b \in Actors : \/ gate'[b] = gate[b]
                             \/ gate'[b].stage \in {"idle", "judge", "record"}
        /\ told' \subseteq Ids /\ clock' = clock
    BY <1>3, <1>4, <1>5, JudgedFacts
  <2> HIDE DEF v
  <2>2. Sane(world, Known, clock', local', gate')
    BY <1>3, <1>5, <2>1, SaneGate
  <2>3. Advances
    BY <1>1, <1>5, StandsStill
  <2> QED BY <1>1, <1>3, <2>1, <2>2, <2>3, FleetStays
<1>6. ASSUME Judge(v, t, a) = "proceed", Now <= Last, clock' = Now,
             local' = [local EXCEPT ![m] = With(@, e, L)],
             Answer(a, "confirmed", LatestClaim(v, t, a))
      PROVE  Kept
  <2>1. LatestClaim(v, t, a) \in Ids
    BY <1>3, <1>4, <1>6, ConfirmedIsClaim
  <2>2. /\ e.id = Now /\ e.type = "claim.confirmed" /\ e.actor = a
        /\ Grounded(e, h.events)
        /\ \A q \in h.events : q.type = "run.finished" => q.claim # e.claim
    BY <1>3, <1>4, <1>6, ConfirmationFacts
  <2> HIDE DEF e, v, t
  <2>3. /\ DOMAIN gate' = Actors
        /\ \A b \in Actors \ {a} : gate'[b] = gate[b]
        /\ gate'[a].stage \in {"idle", "record"}
        /\ told' \subseteq Ids
    BY <1>6, <2>1, AnswerFacts
  <2>4. L \in [Ids -> Lease] /\ LeasesFit(L, Now, TTL)
    <3>1. HeadsFit(Known, Now, TTL)
      BY <1>3, <1>4, LaterHeadsFit
    <3> QED BY <1>3, <3>1 DEF HeadsFit, Whole
  <2>5. Commits(world, local, gate, a, {e}, L, clock)
    <3>1. \A d \in Ids : L[d].released => h.leases[d].released
      OBVIOUS
    <3> HIDE DEF h
    <3> QED BY <1>3, <2>2, <2>4, <3>1 DEF Commits, h, Home, TTL
  <2>6. local' = [local EXCEPT ![m] = On(@, {e}, L, Now)]
    <3>1. With(h, e, L) = On(h, {e}, L, Now)
      BY <2>2 DEF With, On
    <3> QED BY <1>6, <3>1
  <2> HIDE DEF L, h, m
  <2> QED BY <1>1, <1>6, <2>3, <2>5, <2>6, WriteKeeps DEF m
<1> QED BY <1>2, <1>5, <1>6

LEMMA PullKeeps ==
    ASSUME FleetInv, NEW m \in Machines, Pull(m)
    PROVE  Kept
<1> DEFINE x == Reconciled(local[m], remote)
           K == Known \cup {x}
<1>1. /\ local' = [local EXCEPT ![m] = x]
      /\ world' = world /\ clock' = clock /\ remote' = remote
      /\ gate' = gate /\ told' = told
  BY DEF Pull
<1>2. remote \in Known /\ clock \in Ids /\ told \subseteq Ids
  BY AtHand DEF FleetInv
<1>3. Sane(world, K, clock, local', gate) /\ Ancestor(local[m], x)
  BY <1>1, <1>2, AdoptFacts
<1>4. remote' \in K /\ Known \subseteq K
  BY <1>1, <1>2
<1>5. Advances
  BY <1>1, <1>3, MachineAdvances
<1> HIDE DEF K
<1> QED BY <1>1, <1>2, <1>3, <1>4, <1>5, FleetStays

LEMMA PushKeeps ==
    ASSUME FleetInv, NEW m \in Machines, Push(m)
    PROVE  Kept
<1>1. /\ remote' = local[m] /\ local' = local
      /\ Ancestor(remote, local[m])
      /\ world' = world /\ clock' = clock
      /\ gate' = gate /\ told' = told
  BY DEF Push
<1>2. /\ local[m] \in Known /\ clock \in Ids /\ told \subseteq Ids
      /\ Sane(world, Known, clock, local, gate)
  BY AtHand DEF FleetInv
<1>3. Advances
  BY <1>1 DEF Advances, Ancestor
<1> QED BY <1>1, <1>2, <1>3, FleetStays

LEMMA FleetNext == FleetInv /\ [Next]_vars => Kept
<1> SUFFICES ASSUME FleetInv, [Next]_vars
             PROVE  Kept
  OBVIOUS
<1>1. CASE UNCHANGED vars
  <2>1. /\ world' = world /\ clock' = clock /\ local' = local
        /\ remote' = remote /\ gate' = gate /\ told' = told
    BY <1>1 DEF vars
  <2>2. /\ clock \in Ids /\ told \subseteq Ids /\ remote \in Known
        /\ Sane(world, Known, clock, local, gate)
    BY AtHand DEF FleetInv
  <2>3. Advances
    BY <2>1, StandsStill
  <2> QED BY <2>1, <2>2, <2>3, FleetStays
<1>2. CASE Wait
  BY <1>2, WaitKeeps
<1>3. ASSUME NEW a \in Actors, NEW t \in Tasks,
             \/ Claim(a, t) \/ Release(a, t) \/ Renew(a, t)
             \/ FinishFailed(a, t) \/ FinishSettled(a, t)
             \/ ConfirmSettled(a, t)
             \/ \E finishing \in BOOLEAN : EnterGate(a, t, finishing)
      PROVE  Kept
  BY <1>3, ClaimKeeps, ReleaseKeeps, RenewKeeps, FinishKeeps,
     ConfirmSettledKeeps, EnterGateKeeps
<1>4. ASSUME NEW a \in Actors,
             \/ GateJudge(a) \/ GatePush(a) \/ GateRetry(a) \/ GateRefuse(a)
             \/ ConfirmLocally(a) \/ GateRecord(a)
      PROVE  Kept
  BY <1>4, GateJudgeKeeps, GatePushKeeps, GateRetryKeeps, GateRefuseKeeps,
     ConfirmLocallyKeeps, GateRecordKeeps
<1>5. ASSUME NEW m \in Machines, Pull(m) \/ Push(m)
      PROVE  Kept
  BY <1>5, PullKeeps, PushKeeps
<1> QED BY <1>1, <1>2, <1>3, <1>4, <1>5 DEF Next
-----------------------------------------------------------------------------
(***************************************************************************)
(* The theorems.                                                           *)
(***************************************************************************)
LEMMA FleetInvHolds == Spec => []FleetInv
<1>1. FleetInv /\ [Next]_vars => FleetInv'
  BY FleetNext DEF Kept
<1> QED BY FleetInit, <1>1, PTL DEF Spec

LEMMA KnownIsHead ==
    ASSUME FleetInv, NEW h \in Known
    PROVE  IsHead(h) /\ ~ Fold(h.events, Expiries(h)).error
<1>1. Whole(h, clock, TTL)
  BY AtHand
<1>2. IsHead(h)
  BY <1>1 DEF IsHead, Whole, Sound, AreEvents
<1>3. ~ Fold(h.events, Expiries(h)).error
  BY <1>1, SoundLedgersReplay DEF Whole
<1> QED BY <1>2, <1>3

\* No interleaving of operations, merges, lapses and refused confirmations,
\* on any number of machines, brings a head to a state that replay rejects:
\* the daemons never turn read-only by themselves.
THEOREM HeadsReplayCleanly == Spec => []TypeOK
<1>1. FleetInv => TypeOK
  <2> SUFFICES ASSUME FleetInv
               PROVE  TypeOK
    OBVIOUS
  <2>1. clock \in Ids /\ told \subseteq Ids
    BY DEF FleetInv
  <2>2. \A h \in Heads : IsHead(h) /\ ~ Fold(h.events, Expiries(h)).error
    BY KnownIsHead DEF Known
  <2>3. \A a \in Actors :
           /\ gate[a].stage \in {"idle", "judge", "push", "record"}
           /\ gate[a].stage = "push" => IsHead(gate[a].head)
    BY AtHand, KnownIsHead DEF Carried
  <2> QED BY <2>1, <2>2, <2>3 DEF TypeOK
<1> QED BY <1>1, FleetInvHolds, PTL

\* Once any machine or the remote knows that a claim was released, the
\* machine that could renew it knows: whatever merges come, no renewal is
\* written over a tombstone.
THEOREM OwnersHoldTombstones == Spec => []OwnerHoldsTombstone
<1>1. FleetInv => OwnerHoldsTombstone
  <2> SUFFICES ASSUME FleetInv
               PROVE  OwnerHoldsTombstone
    OBVIOUS
  <2>1. Owned(Known, local, Home) /\ Heads \subseteq Known
    BY AtHand DEF Known
  <2> QED BY <2>1 DEF OwnerHoldsTombstone, Owned
<1> QED BY <1>1, FleetInvHolds, PTL

\* However often an actor asks to finish, whatever its verdict went through
\* and wherever the records travel, an attempt has one report.
THEOREM AttemptsCloseOnce == Spec => []OneClosePerAttempt
<1>1. FleetInv => OneClosePerAttempt
  <2> SUFFICES ASSUME FleetInv
               PROVE  OneClosePerAttempt
    OBVIOUS
  <2>1. \A h \in Heads : Agree(h, h)
    BY AtHand DEF HeadsFit, Known
  <2> QED BY <2>1 DEF OneClosePerAttempt, Agree
<1> QED BY <1>1, FleetInvHolds, PTL

\* No step of any daemon, push or merge replaces a lease record, on a machine
\* or on the remote, by one that it beats.
THEOREM LeaseRecordsGoForward == Spec => [][LeasesGoForward]_vars
<1>1. FleetInv /\ [Next]_vars => LeasesGoForward
  BY FleetNext DEF Kept
<1> QED BY <1>1, FleetInvHolds, PTL DEF Spec

-----------------------------------------------------------------------------
(***************************************************************************)
(* The first winner of every task, whatever the machines do.               *)
(*                                                                         *)
(* Merges may drop confirmations, so heads differ in more than how much    *)
(* they have heard.  What they never differ in is the first confirmation   *)
(* of a task.  The invariant compares each head that somebody knows with   *)
(* the ledger: all its confirmations come after one that is first on the   *)
(* ledger and that it has (Follows), it has each first one of the ledger   *)
(* whose operation it has seen (Heeds), and its done runs come after one   *)
(* (DoneLate).  Then a merge never refuses a first confirmation, since the *)
(* guard refuses only for an earlier one, and the ledger moves only to     *)
(* heads with the same first ones, or with the first of a task that had    *)
(* none and that nobody else knows.                                        *)
(*                                                                         *)
(* What the first winner was promised needs more, and holds of the fleets  *)
(* that Lasting describes.  Fair says how heads compare with the ledger    *)
(* there: on each, an attempt ends only beaten by an earlier claim or      *)
(* after a winner, nobody claims a task twice before it has one, who ends  *)
(* an attempt has there all it claimed before, and each confirmation is    *)
(* for the winner's claim or for one made after that one's attempt.  Then  *)
(* the fold of each head is a contest of the kind FoldProofs settles.      *)
(***************************************************************************)
\* What a gate may rely on: a verdict of "confirmed" comes with a winner, and a
\* confirmation on its way is later than all it was judged on.
Promised(a, gt, n, g) ==
    /\ gt[a].stage = "record" /\ gt[a].verdict = "confirmed" =>
          Won(gt[a].task, n + 1, g)
    /\ gt[a].stage = "push" =>
          /\ HasRemote
          /\ gt[a].event.task = gt[a].task
          /\ \A q \in gt[a].head.events : q.id < gt[a].event.id

-----------------------------------------------------------------------------
(***************************************************************************)
(* The invariant.                                                          *)
(***************************************************************************)
FirstsInv ==
    /\ \A h \in Known : Fits(h, Ledger)
    /\ \A a \in Actors : Promised(a, gate, clock, Ledger)

\* What every step guarantees.
FirstsKept == FirstsInv' /\ FirstsStay(Ledger, Ledger')

LEMMA LedgerFacts ==
    ASSUME FleetInv
    PROVE  /\ Ledger \in Known
           /\ HasRemote => Ledger = remote
           /\ ~ HasRemote => \A a \in Actors : Ledger = local[Home[a]]
<1>1. /\ world \in Worlds /\ Home \in [Actors -> Machines]
      /\ remote \in Known /\ \A m \in Machines : local[m] \in Known
  BY AtHand
<1>2. CASE HasRemote
  BY <1>1, <1>2 DEF Ledger
<1>3. CASE ~ HasRemote
  <2>1. PICK m \in Machines : Home = [a \in Actors |-> m]
    BY <1>1, <1>3, FleetAssumption DEF HasRemote, Home
  <2>2. (CHOOSE a \in Actors : TRUE) \in Actors
    BY FleetAssumption
  <2>3. Ledger = local[m]
    BY <1>3, <2>1, <2>2 DEF Ledger
  <2> QED BY <1>1, <1>3, <2>1, <2>3
<1> QED BY <1>2, <1>3

LEMMA LedgerNext ==
    ASSUME FleetInv, world' = world
    PROVE  /\ HasRemote => Ledger' = remote'
           /\ ~ HasRemote => \A a \in Actors : Ledger' = local'[Home[a]]
<1>1. /\ world \in Worlds /\ Home \in [Actors -> Machines]
      /\ Home' = Home /\ HasRemote' = HasRemote
  BY AtHand DEF Home, HasRemote
<1>2. CASE HasRemote
  BY <1>1, <1>2 DEF Ledger
<1>3. CASE ~ HasRemote
  <2>1. PICK m \in Machines : Home = [a \in Actors |-> m]
    BY <1>1, <1>3, FleetAssumption DEF HasRemote, Home
  <2>2. (CHOOSE a \in Actors : TRUE) \in Actors
    BY FleetAssumption
  <2>3. Ledger' = local'[m]
    BY <1>1, <1>3, <2>1, <2>2 DEF Ledger
  <2> QED BY <1>1, <1>3, <2>1, <2>3
<1> QED BY <1>2, <1>3

\* Each gate is as it was, or waits for what it may rely on at instant n under
\* ledger g, with a head from K.
GatesMove(n, g, K) ==
    \A b \in Actors :
        \/ gate'[b] = gate[b]
        \/ /\ Promised(b, gate', n, g)
           /\ gate'[b].stage = "push" => gate'[b].head \in K

\* A step to heads of K that all fit ledger g.
LEMMA FirstsStep ==
    ASSUME FleetInv, FirstsInv, NEW K, Known \subseteq K,
           NEW g, Ledger' = g, FirstsStay(Ledger, g), \A k \in K : Fits(k, g),
           \A m \in Machines : local'[m] \in K, remote' \in K,
           clock' \in Nat, clock <= clock', GatesMove(clock', g, K),
           world' = world
    PROVE  FirstsKept
<1>1. \A b \in Actors : gate[b].stage = "push" => gate[b].head \in K
  BY DEF Known
<1>2. \A b \in Actors : gate'[b].stage = "push" => gate'[b].head \in K
  BY <1>1 DEF GatesMove
<1>3. Known' \subseteq K
  BY <1>2 DEF Known, Heads
<1>4. ASSUME NEW b \in Actors
      PROVE  Promised(b, gate', clock', g)
  <2>1. CASE gate'[b] = gate[b]
    <3>1. Promised(b, gate, clock, Ledger)
      BY DEF FirstsInv
    <3>2. ASSUME NEW t, Won(t, clock + 1, Ledger)
          PROVE  Won(t, clock' + 1, g)
      <4>1. PICK f \in g.events :
               First(f, g) /\ f.task = t /\ f.id < clock + 1
        BY <3>2, WonStays DEF Won
      <4>2. Whole(Ledger, clock, TTL) /\ clock \in Nat
        BY AtHand, LedgerFacts
      <4>3. PICK e \in Ledger.events :
               First(e, Ledger) /\ e.task = t /\ e.id < clock + 1
        BY <3>2 DEF Won
      <4>4. First(e, g) /\ e \in g.events /\ e.id \in Nat
        BY <4>2, <4>3, WholeIds DEF FirstsStay, First
      <4> QED BY <4>2, <4>3, <4>4 DEF Won
    <3> QED BY <2>1, <3>1, <3>2 DEF Promised
  <2> QED BY <2>1 DEF GatesMove
<1>5. HasRemote' = HasRemote
  BY DEF HasRemote
<1>6. FirstsInv'
  BY <1>3, <1>4, <1>5 DEF FirstsInv, Promised
<1> QED BY <1>6 DEF FirstsKept

\* A step that writes nothing.
LEMMA FirstsStill ==
    ASSUME FleetInv, FirstsInv, world' = world, local' = local,
           remote' = remote, clock' \in Nat, clock <= clock',
           GatesMove(clock', Ledger, Known)
    PROVE  FirstsKept
<1>1. Ledger' = Ledger
  BY DEF Ledger, HasRemote, Home
<1>2. /\ \A k \in Known : Fits(k, Ledger)
      /\ \A m \in Machines : local'[m] \in Known
      /\ remote' \in Known
  BY AtHand DEF FirstsInv
<1> DEFINE g == Ledger
<1> QED BY <1>1, <1>2, FirstsReflexive, FirstsStep

\* A machine brings in a head.
LEMMA FirstsAdopt ==
    ASSUME FleetInv, FirstsInv, HasRemote, world' = world, remote' = remote,
           NEW m \in Machines, NEW y \in Known,
           NEW x \in {local[m], Reconciled(local[m], y)},
           local' = [local EXCEPT ![m] = x],
           clock' \in Nat, clock <= clock',
           GatesMove(clock', Ledger, Known \cup {x})
    PROVE  FirstsKept
<1>1. Ledger = remote /\ Ledger' = remote
  BY LedgerFacts, LedgerNext
<1>2. /\ \A h \in Known : Whole(h, clock, TTL)
      /\ \A k \in Known : Fits(k, Ledger)
      /\ \A k \in Machines : local[k] \in Known
      /\ DOMAIN local = Machines /\ remote \in Known
  BY AtHand DEF FirstsInv
<1>3. Fits(x, Ledger)
  BY <1>1, <1>2, ReconciledFirsts
<1>4. \A k \in Machines : local'[k] \in Known \cup {x}
  BY <1>2
<1> DEFINE K == Known \cup {x}
           g == Ledger
<1>5. /\ Known \subseteq K /\ remote' \in K /\ Ledger' = g
      /\ \A k \in K : Fits(k, g)
      /\ FirstsStay(Ledger, g)
      /\ \A k \in Machines : local'[k] \in K
      /\ GatesMove(clock', g, K)
  BY <1>1, <1>2, <1>3, <1>4, FirstsReflexive
<1> HIDE DEF K, g
<1> QED BY <1>5, FirstsStep

\* The same after a step.
LEMMA AtHandNext ==
    ASSUME FleetInv'
    PROVE  /\ \A m \in Machines : local'[m] \in Known'
           /\ remote' \in Known'
           /\ \A k \in Known' : Whole(k, clock', TTL')
<1>1. Sane(world', Known', clock', local', gate')
  BY DEF FleetInv
<1>2. HeadsFit(Known', clock', TTL')
  BY <1>1 DEF Sane, TTL
<1> QED BY <1>2 DEF HeadsFit, Known, Heads

\* A commit by the machine of actor a, of a confirmation only if there is no
\* remote.
LEMMA FirstsWrite ==
    ASSUME FleetInv, FirstsInv, FleetInv', Now <= Last, NEW a \in Actors,
           NEW D, NEW L,
           local' = [local EXCEPT ![Home[a]] = On(@, D, L, Now)],
           clock' = Now, world' = world, remote' = remote,
           \A e \in D : /\ e.id = Now
                        /\ e.type = "claim.confirmed" => ~ HasRemote,
           \A r \in D : r.type = "run.finished" /\ r.outcome = "done" =>
              Won(r.task, Now, Ledger),
           GatesMove(Now, Ledger', Known)
    PROVE  FirstsKept
<1> DEFINE h == local[Home[a]]
           x == On(h, D, L, Now)
           K == Known \cup {x}
<1>1. /\ \A k \in Known : Whole(k, clock, TTL) /\ Fits(k, Ledger)
      /\ \A m \in Machines : local[m] \in Known
      /\ DOMAIN local = Machines /\ Home[a] \in Machines
      /\ remote \in Known /\ Ledger \in Known
      /\ clock \in Nat /\ Now = clock + 1 /\ Now \in Nat
  BY AtHand, NextInstant, LedgerFacts DEF FirstsInv
<1>2. local'[Home[a]] = x /\ \A m \in Machines : local'[m] \in K
  BY <1>1
<1>3. \A k \in Known : Now \notin k.seen
  <2>1. \A k \in Known : k.seen \subseteq 1 .. clock
    BY <1>1 DEF Whole
  <2> HIDE DEF Now
  <2> QED BY <1>1, <2>1
<1>4. GatesMove(clock', Ledger', K)
  BY DEF GatesMove
<1>5. Known \subseteq K /\ remote' \in K /\ clock' \in Nat /\ clock <= clock'
  <2> HIDE DEF Now
  <2> QED BY <1>1
<1>6. CASE HasRemote
  <2>1. Ledger = remote /\ Ledger' = remote
    BY <1>6, LedgerFacts, LedgerNext
  <2>2. Fits(x, Ledger)
    <3> HIDE DEF h, Now
    <3>1. Whole(Ledger, clock, TTL) /\ Fits(h, Ledger) /\ Now \notin Ledger.seen
      BY <1>1, <1>3 DEF h
    <3>2. \A e \in D : e.type # "claim.confirmed"
      BY <1>6
    <3> QED BY <3>1, <3>2, WrittenFirsts
  <2>3. \A k \in K : Fits(k, Ledger)
    BY <1>1, <2>2
  <2> HIDE DEF K, x, Now
  <2> QED BY <1>2, <1>4, <1>5, <2>1, <2>3, FirstsReflexive, FirstsStep
<1>7. CASE ~ HasRemote
  <2>1. Ledger = h /\ Ledger' = x
    BY <1>2, <1>7, LedgerFacts, LedgerNext
  <2>2. Whole(x, clock', TTL')
    <3>1. local'[Home[a]] \in Known' /\ \A k \in Known' : Whole(k, clock', TTL')
      BY <1>1, AtHandNext
    <3> QED BY <1>2, <3>1
  <2>3. FirstsStay(Ledger, x) /\ \A k \in K : Fits(k, x)
    <3>1. /\ h \in Known /\ Ancestor(h, h)
          /\ \A k \in Known : Whole(k, clock, TTL) /\ Fits(k, h)
      BY <1>1, <2>1 DEF Ancestor
    <3>2. \A q \in h.events : q.id < Now
      <4> SUFFICES ASSUME NEW q \in h.events
                   PROVE  q.id < Now
        OBVIOUS
      <4>1. q.id \in 1 .. clock
        BY <3>1 DEF Whole
      <4> HIDE DEF Now
      <4> QED BY <1>1, <4>1
    <3>3. \A e \in D : e.type = "claim.confirmed" =>
             /\ \A q \in h.events : q.id < e.id
             /\ \A k \in Known : e.id \notin k.seen
      BY <1>3, <3>2
    <3>4. \A r \in D : r.type = "run.finished" /\ r.outcome = "done" =>
             Won(r.task, r.id, h)
      BY <2>1
    <3> HIDE DEF h, Now
    <3> QED BY <2>1, <2>2, <3>1, <3>3, <3>4, Landing
  <2> HIDE DEF K, x, Now
  <2> QED BY <1>2, <1>4, <1>5, <2>1, <2>3, FirstsStep
<1> QED BY <1>6, <1>7

-----------------------------------------------------------------------------
(***************************************************************************)
(* The steps.                                                              *)
(***************************************************************************)
\* A verdict of "confirmed" comes with a winner.
LEMMA ConfirmedIsWon ==
    ASSUME NEW g, NEW n \in Nat, NEW ttl, NEW h, Whole(h, n, ttl),
           Fits(h, g), Whole(g, n, ttl),
           NEW now \in Nat, NEW t, NEW a,
           Judge(View(h, now), t, a) = "confirmed"
    PROVE  Won(t, n + 1, g)
<1> DEFINE v == View(h, now)
           c == LatestClaim(v, t, a)
<1>1. \A d \in DOMAIN v.claims :
         /\ d \in Ids
         /\ \E f \in h.events : /\ f.type = "claim.made" /\ f.id = d
                                /\ f.task = v.claims[d].task
         /\ v.claims[d].confirmation # None =>
               \E e \in h.events : e.type = "claim.confirmed" /\ e.claim = d
  BY ViewFacts
<1> HIDE DEF v
<1>2. c # None /\ v.claims[c].confirmation # None
  BY DEF Judge, v
<1>3. c \in DOMAIN v.claims /\ v.claims[c].task = t
  <2>1. DOMAIN v.claims \subseteq Ids
    BY <1>1
  <2>2. c \in OwnClaims(v, t, a)
    BY <1>2, <2>1, LatestIsOwn
  <2> QED BY <2>2 DEF OwnClaims
<1> HIDE DEF c
<1>4. PICK q1 \in h.events : /\ q1.type = "claim.made" /\ q1.id = c
                             /\ q1.task = t
  BY <1>1, <1>3
<1>5. PICK e \in h.events : e.type = "claim.confirmed" /\ e.claim = c
  BY <1>1, <1>2, <1>3
<1>6. PICK q2 \in h.events : /\ q2.type = "claim.made" /\ q2.id = c
                             /\ q2.task = e.task
  BY <1>5 DEF Whole, NamesClaims
<1>7. e.task = t
  BY <1>4, <1>6, WholeIds
<1>8. PICK f \in h.events : First(f, g) /\ f.task = t /\ f.id <= e.id
  BY <1>5, <1>7 DEF Fits, Follows
<1>9. f.id \in 1 .. n
  BY WholeIds
<1>10. f \in g.events /\ f.id < n + 1
  BY <1>8, <1>9 DEF First
<1> QED BY <1>8, <1>10 DEF Won

\* An answer that may be relied on.
LEMMA AnswerMoves ==
    ASSUME FleetInv, NEW a \in Actors, NEW verdict, NEW c,
           Answer(a, verdict, c), NEW n, NEW g, NEW K,
           verdict = "confirmed" => Won(gate[a].task, n + 1, g)
    PROVE  GatesMove(n, g, K)
<1> DEFINE s == IF gate[a].finishing
                THEN [stage |-> "record", task |-> gate[a].task,
                      verdict |-> verdict]
                ELSE Idle
<1>1. gate' = [gate EXCEPT ![a] = s] /\ DOMAIN gate = Actors
  BY AtHand DEF Answer
<1>2. s.stage # "push"
  BY DEF Idle
<1>3. s.stage = "record" => s.task = gate[a].task /\ s.verdict = verdict
  BY DEF Idle
<1> HIDE DEF s
<1>4. gate'[a] = s /\ \A b \in Actors : b # a => gate'[b] = gate[b]
  BY <1>1
<1> QED BY <1>2, <1>3, <1>4 DEF GatesMove, Promised

\* A gate closes, or goes on to judge.
LEMMA GateCloses ==
    ASSUME FleetInv, NEW a \in Actors, NEW s, gate' = [gate EXCEPT ![a] = s],
           s.stage \in {"idle", "judge"}, NEW n, NEW g, NEW K
    PROVE  GatesMove(n, g, K)
<1>1. gate'[a] = s /\ \A b \in Actors : b # a => gate'[b] = gate[b]
  BY AtHand
<1> QED BY <1>1 DEF GatesMove, Promised

\* Nothing is won later than it was.
LEMMA WonLater ==
    ASSUME FleetInv, NEW t, Won(t, clock + 1, Ledger), NEW n \in Nat,
           clock <= n
    PROVE  Won(t, n + 1, Ledger)
<1>1. PICK f \in Ledger.events :
         First(f, Ledger) /\ f.task = t /\ f.id < clock + 1
  BY DEF Won
<1>2. Whole(Ledger, clock, TTL) /\ clock \in Nat
  BY AtHand, LedgerFacts
<1>3. f.id \in Nat
  BY <1>2, WholeIds
<1> QED BY <1>1, <1>2, <1>3 DEF Won

\* A commit of one event.
LEMMA EventFirsts ==
    ASSUME FleetInv, FirstsInv, FleetInv', Now <= Last, NEW a \in Actors,
           NEW e, NEW L, e.id = Now,
           e.type = "claim.confirmed" => ~ HasRemote,
           e.type = "run.finished" /\ e.outcome = "done" =>
              Won(e.task, Now, Ledger),
           local' = [local EXCEPT ![Home[a]] = With(@, e, L)],
           clock' = Now, world' = world, remote' = remote,
           GatesMove(Now, Ledger', Known)
    PROVE  FirstsKept
<1> HIDE DEF Now
<1>1. With(local[Home[a]], e, L) = On(local[Home[a]], {e}, L, Now)
  BY DEF With, On
<1>2. local' = [local EXCEPT ![Home[a]] = On(@, {e}, L, Now)]
  BY <1>1
<1> DEFINE D == {e}
<1>3. /\ \A d \in D : /\ d.id = Now
                      /\ d.type = "claim.confirmed" => ~ HasRemote
      /\ \A r \in D : r.type = "run.finished" /\ r.outcome = "done" =>
            Won(r.task, Now, Ledger)
      /\ local' = [local EXCEPT ![Home[a]] = On(@, D, L, Now)]
  BY <1>2
<1> HIDE DEF D
<1> QED BY <1>3, FirstsWrite

LEMMA WorkFirsts ==
    ASSUME FleetInv, FirstsInv, FleetInv', NEW a \in Actors, NEW t \in Tasks,
           Claim(a, t) \/ Release(a, t) \/ Renew(a, t)
    PROVE  FirstsKept
<1> DEFINE m == Home[a]
           h == local[m]
<1>1. /\ Now <= Last /\ clock' = Now /\ world' = world /\ remote' = remote
      /\ gate' = gate
  BY DEF Claim, Release, Renew, Write
<1>2. GatesMove(Now, Ledger', Known)
  BY <1>1 DEF GatesMove
<1> HIDE DEF Now
<1>3. CASE Claim(a, t)
  <2> DEFINE e == [id |-> Now, type |-> "claim.made", task |-> t, actor |-> a]
             L == [h.leases EXCEPT ![Now] =
                      [exp |-> Now + TTL, released |-> FALSE]]
  <2>1. /\ local' = [local EXCEPT ![m] = With(@, e, L)]
        /\ e.id = Now /\ e.type = "claim.made"
    BY <1>3 DEF Claim, Write
  <2> HIDE DEF e, L
  <2> QED BY <1>1, <1>2, <2>1, EventFirsts
<1>4. CASE Release(a, t)
  <2> DEFINE s == View(h, Now)
             c == IF HeldByActor(s, t, a) # {}
                  THEN CHOOSE x \in HeldByActor(s, t, a) : TRUE
                  ELSE LatestClaim(s, t, a)
             e == [id |-> Now, type |-> "claim.released", task |-> t,
                   actor |-> a]
             L == [h.leases EXCEPT ![c] = [exp |-> Now, released |-> TRUE]]
  <2>1. /\ local' = [local EXCEPT ![m] = With(@, e, L)]
        /\ e.id = Now /\ e.type = "claim.released"
    BY <1>4 DEF Release, Write
  <2> HIDE DEF e, L
  <2> QED BY <1>1, <1>2, <2>1, EventFirsts
<1>5. CASE Renew(a, t)
  <2>1. PICK c : local' = [local EXCEPT ![m] = Renewed(@, c)]
    BY <1>5 DEF Renew
  <2> DEFINE D == {}
             L == [h.leases EXCEPT ![c] =
                      [exp |-> Now + TTL, released |-> FALSE]]
  <2>2. Renewed(h, c) = On(h, D, L, Now)
    <3>1. h.events \cup {} = h.events
      OBVIOUS
    <3> QED BY <3>1 DEF Renewed, On
  <2>3. local' = [local EXCEPT ![m] = On(@, D, L, Now)]
    <3> HIDE DEF D, L
    <3> QED BY <2>1, <2>2
  <2>4. /\ \A e \in D : /\ e.id = Now
                        /\ e.type = "claim.confirmed" => ~ HasRemote
        /\ \A r \in D : r.type = "run.finished" /\ r.outcome = "done" =>
              Won(r.task, Now, Ledger)
    OBVIOUS
  <2> HIDE DEF D, L
  <2> QED BY <1>1, <1>2, <2>3, <2>4, FirstsWrite
<1> QED BY <1>3, <1>4, <1>5

\* A report, with outcome done only after a winner.
LEMMA RunFirsts ==
    ASSUME FleetInv, FirstsInv, FleetInv', Now <= Last, NEW a \in Actors,
           NEW t, NEW c, NEW outcome, RecordRun(a, t, c, outcome),
           outcome = "done" => Won(t, clock + 1, Ledger),
           world' = world, remote' = remote,
           GatesMove(Now, Ledger', Known)
    PROVE  FirstsKept
<1> DEFINE m == Home[a]
           e == [id |-> Now, type |-> "run.finished", task |-> t,
                 actor |-> a, outcome |-> outcome, claim |-> c]
           L == local[m].leases
<1>1. clock' = Now /\ local' = [local EXCEPT ![m] = With(@, e, L)]
  BY DEF RecordRun, Write
<1>2. /\ e.id = Now /\ e.type = "run.finished" /\ e.task = t
      /\ e.outcome = outcome
  OBVIOUS
<1>3. Now = clock + 1
  BY DEF Now
<1> HIDE DEF e, Now, L
<1> QED BY <1>1, <1>2, <1>3, EventFirsts

LEMMA FinishFirsts ==
    ASSUME FleetInv, FirstsInv, FleetInv', NEW a \in Actors, NEW t \in Tasks,
           FinishFailed(a, t) \/ FinishSettled(a, t)
    PROVE  FirstsKept
<1> DEFINE h == local[Home[a]]
           v == View(h, Now)
<1>1. /\ Now <= Last /\ world' = world /\ remote' = remote /\ gate' = gate
  BY DEF FinishFailed, FinishSettled
<1>2. GatesMove(Now, Ledger', Known)
  BY <1>1 DEF GatesMove
<1>3. Now \in Nat /\ clock \in Nat
  BY <1>1, AtHand, NextInstant
<1>4. PICK c, outcome :
         /\ RecordRun(a, t, c, outcome)
         /\ outcome = "done" => Judge(v, t, a) = "confirmed"
  <2>1. CASE FinishFailed(a, t)
    <3>1. PICK c : RecordRun(a, t, c, IF v.claims[c].status = "voided"
                                      THEN "superseded" ELSE "failed")
      BY <2>1 DEF FinishFailed
    <3>2. (IF v.claims[c].status = "voided" THEN "superseded" ELSE "failed")
             # "done"
      OBVIOUS
    <3> HIDE DEF v
    <3> QED BY <3>1, <3>2
  <2>2. CASE FinishSettled(a, t)
    <3>1. PICK c : RecordRun(a, t, c, IF Judge(v, t, a) = "confirmed"
                                      THEN "done" ELSE "superseded")
      BY <2>2 DEF FinishSettled
    <3>2. (IF Judge(v, t, a) = "confirmed" THEN "done" ELSE "superseded")
             = "done" => Judge(v, t, a) = "confirmed"
      OBVIOUS
    <3> HIDE DEF v
    <3> QED BY <3>1, <3>2
  <2> QED BY <2>1, <2>2
<1>5. Judge(v, t, a) = "confirmed" => Won(t, clock + 1, Ledger)
  <2>1. /\ Whole(h, clock, TTL) /\ Whole(Ledger, clock, TTL)
        /\ Fits(h, Ledger)
    BY AtHand, LedgerFacts DEF FirstsInv
  <2> HIDE DEF Now, h
  <2> QED BY <1>3, <2>1, ConfirmedIsWon
<1> HIDE DEF v, Now
<1> QED BY <1>1, <1>2, <1>4, <1>5, RunFirsts

LEMMA WaitFirsts ==
    ASSUME FleetInv, FirstsInv, Wait
    PROVE  FirstsKept
<1>1. /\ world' = world /\ clock' = Now /\ local' = local /\ gate' = gate
      /\ remote' = remote /\ Now <= Last
  BY DEF Wait
<1>2. clock' \in Nat /\ clock <= clock'
  BY <1>1, AtHand, NextInstant
<1>3. GatesMove(clock', Ledger, Known)
  BY <1>1 DEF GatesMove
<1> QED BY <1>1, <1>2, <1>3, FirstsStill

LEMMA GateStillFirsts ==
    ASSUME FleetInv, FirstsInv, NEW a \in Actors,
           \/ \E t \in Tasks : ConfirmSettled(a, t)
           \/ \E t \in Tasks, finishing \in BOOLEAN : EnterGate(a, t, finishing)
           \/ GateRetry(a) \/ GateRefuse(a)
    PROVE  FirstsKept
<1>1. /\ world' = world /\ clock' = clock /\ local' = local
      /\ remote' = remote
  BY DEF ConfirmSettled, EnterGate, GateRetry, GateRefuse
<1>2. \/ gate' = gate
      \/ \E s : gate' = [gate EXCEPT ![a] = s] /\ s.stage \in {"idle", "judge"}
  <2>1. CASE \E t \in Tasks : ConfirmSettled(a, t)
    BY <2>1 DEF ConfirmSettled
  <2>2. ASSUME NEW t \in Tasks, NEW finishing \in BOOLEAN,
               EnterGate(a, t, finishing)
        PROVE  \E s : /\ gate' = [gate EXCEPT ![a] = s]
                      /\ s.stage \in {"idle", "judge"}
    <3> DEFINE s == [stage |-> "judge", task |-> t, finishing |-> finishing]
    <3>1. gate' = [gate EXCEPT ![a] = s] /\ s.stage = "judge"
      BY <2>2 DEF EnterGate
    <3> HIDE DEF s
    <3> QED BY <3>1
  <2>3. CASE GateRetry(a)
    <3> DEFINE s == [stage |-> "judge", task |-> gate[a].task,
                     finishing |-> gate[a].finishing]
    <3>1. gate' = [gate EXCEPT ![a] = s] /\ s.stage = "judge"
      BY <2>3 DEF GateRetry
    <3> HIDE DEF s
    <3> QED BY <3>1
  <2>4. CASE GateRefuse(a)
    <3>1. gate' = [gate EXCEPT ![a] = Idle] /\ Idle.stage = "idle"
      BY <2>4 DEF GateRefuse, Idle
    <3> QED BY <3>1
  <2> QED BY <2>1, <2>2, <2>3, <2>4
<1>3. GatesMove(clock', Ledger, Known)
  BY <1>2, GateCloses DEF GatesMove
<1>4. clock' \in Nat /\ clock <= clock'
  BY <1>1, AtHand
<1> QED BY <1>1, <1>3, <1>4, FirstsStill

LEMMA GateJudgeFirsts ==
    ASSUME FleetInv, FirstsInv, NEW a \in Actors, GateJudge(a)
    PROVE  FirstsKept
<1> DEFINE m == Home[a]
           t == gate[a].task
<1>1. PICK h \in {local[m], Reconciled(local[m], remote)} :
         /\ local' = [local EXCEPT ![m] = h]
         /\ \/ Judged(a, View(h, clock))
            \/ /\ Judge(View(h, clock), t, a) = "proceed"
               /\ Now <= Last
               /\ clock' = Now
               /\ gate' = [gate EXCEPT ![a] =
                     [stage |-> "push", task |-> gate[a].task,
                      finishing |-> gate[a].finishing, head |-> h,
                      event |-> Confirmation(a, View(h, clock))]]
  BY DEF GateJudge
<1>2. HasRemote /\ world' = world /\ remote' = remote
  BY DEF GateJudge
<1> DEFINE v == View(h, clock)
           K == Known \cup {h}
<1>3. /\ m \in Machines /\ remote \in Known /\ clock \in Nat
      /\ local[m] \in Known /\ Ledger \in Known /\ DOMAIN gate = Actors
      /\ \A k \in Known : Whole(k, clock, TTL) /\ Fits(k, Ledger)
  BY AtHand, LedgerFacts DEF FirstsInv
<1>4. Whole(h, clock, TTL)
  BY <1>3, AdoptFacts
<1>5. Fits(h, Ledger)
  BY <1>3, ReconciledFirsts
<1> HIDE DEF m
<1>6. ASSUME clock' \in Nat, clock <= clock', GatesMove(clock', Ledger, K)
      PROVE  FirstsKept
  BY <1>1, <1>2, <1>3, <1>6, FirstsAdopt
<1> HIDE DEF K, v
<1>7. CASE Judged(a, v)
  <2>1. Judge(v, t, a) = "confirmed" => Won(t, clock + 1, Ledger)
    BY <1>3, <1>4, <1>5, ConfirmedIsWon DEF v
  <2> DEFINE g == Ledger
             n == clock
  <2>2. clock' = clock
    BY <1>7 DEF Judged
  <2>3. CASE gate' = [gate EXCEPT ![a] = Idle]
    <3>1. Idle.stage = "idle"
      BY DEF Idle
    <3>2. GatesMove(n, g, K)
      BY <2>3, <3>1, GateCloses
    <3> QED BY <1>3, <1>6, <2>2, <3>2
  <2>4. CASE Answer(a, Judge(v, t, a), LatestClaim(v, t, a))
    <3> DEFINE verdict == Judge(v, t, a)
               c == LatestClaim(v, t, a)
    <3>1. Answer(a, verdict, c)
          /\ (verdict = "confirmed" => Won(gate[a].task, n + 1, g))
      BY <2>1, <2>4
    <3> HIDE DEF verdict, c, g, n
    <3>2. GatesMove(n, g, K)
      BY <3>1, AnswerMoves
    <3> QED BY <1>3, <1>6, <2>2, <3>2 DEF g, n
  <2> QED BY <1>7, <2>3, <2>4 DEF Judged
<1>8. CASE /\ Now <= Last /\ clock' = Now
           /\ gate' = [gate EXCEPT ![a] =
                 [stage |-> "push", task |-> gate[a].task,
                  finishing |-> gate[a].finishing, head |-> h,
                  event |-> Confirmation(a, v)]]
  <2> DEFINE e == Confirmation(a, v)
  <2>1. e.id = Now /\ e.task = gate[a].task /\ Now = clock + 1
    BY DEF Confirmation, Now
  <2> HIDE DEF e, Now
  <2>2. /\ gate'[a].stage = "push" /\ gate'[a].head = h
        /\ gate'[a].event = e /\ gate'[a].task = gate[a].task
        /\ \A b \in Actors : b # a => gate'[b] = gate[b]
    BY <1>3, <1>8 DEF e
  <2>3. \A q \in h.events : q.id < Now
    <3> SUFFICES ASSUME NEW q \in h.events
                 PROVE  q.id < Now
      OBVIOUS
    <3>1. q.id \in 1 .. clock
      BY <1>4 DEF Whole
    <3> QED BY <1>3, <2>1, <3>1
  <2>4. Promised(a, gate', clock', Ledger)
    BY <1>2, <2>1, <2>2, <2>3 DEF Promised
  <2>5. GatesMove(clock', Ledger, K)
    BY <2>2, <2>4 DEF GatesMove, K
  <2>6. clock' \in Nat /\ clock <= clock'
    BY <1>3, <1>8, <2>1
  <2> QED BY <1>6, <2>5, <2>6
<1> QED BY <1>1, <1>7, <1>8 DEF v

LEMMA GatePushFirsts ==
    ASSUME FleetInv, FirstsInv, FleetInv', NEW a \in Actors, GatePush(a)
    PROVE  FirstsKept
<1> DEFINE m == Home[a]
           h == gate[a].head
           e == gate[a].event
           D == {e}
           L == h.leases
           x == On(h, D, L, e.id)
           K == Known \cup {x}
<1>1. /\ gate[a].stage = "push" /\ Ancestor(remote, h)
      /\ remote' = With(h, e, h.leases)
      /\ \/ Answer(a, "confirmed", e.claim)
         \/ gate' = [gate EXCEPT ![a] = Idle]
      /\ world' = world /\ clock' = clock
  BY DEF GatePush
<1>2. PICK y \in {local[m], Reconciled(local[m], remote')} :
         local' = [local EXCEPT ![m] = y]
  BY DEF GatePush
<1>3. remote' = x
  BY <1>1 DEF With, On
<1>4. /\ m \in Machines /\ clock \in Nat /\ DOMAIN local = Machines
      /\ \A k \in Known : Whole(k, clock, TTL) /\ Fits(k, Ledger)
      /\ \A k \in Machines : local[k] \in Known
      /\ Carried(a, gate, Known, clock) /\ Promised(a, gate, clock, Ledger)
  BY AtHand DEF FirstsInv
<1>5. /\ HasRemote /\ e.task = gate[a].task
      /\ \A q \in h.events : q.id < e.id
      /\ h \in Known /\ e.type = "claim.confirmed"
      /\ \A k \in Known : e.id \notin k.seen
  BY <1>1, <1>4 DEF Promised, Carried, Outstanding
<1>6. Ledger = remote /\ Ledger' = x /\ remote \in Known
  BY <1>1, <1>3, <1>5, AtHand, LedgerFacts, LedgerNext
<1>7. Whole(x, clock, TTL)
  <2>1. remote' \in Known' /\ \A k \in Known' : Whole(k, clock', TTL')
    BY AtHandNext
  <2>2. TTL' = TTL
    BY <1>1 DEF TTL
  <2> QED BY <1>1, <1>3, <2>1, <2>2
<1>8. FirstsStay(Ledger, x) /\ \A k \in K : Fits(k, x)
  <2>1. /\ remote \in Known /\ h \in Known /\ Ancestor(remote, h)
        /\ \A k \in Known : Whole(k, clock, TTL) /\ Fits(k, remote)
    BY <1>1, <1>4, <1>5, <1>6
  <2>2. /\ \A d \in D : d.type = "claim.confirmed" =>
              /\ \A q \in h.events : q.id < d.id
              /\ \A k \in Known : d.id \notin k.seen
        /\ \A r \in D : r.type = "run.finished" /\ r.outcome = "done" =>
              Won(r.task, r.id, remote)
    BY <1>5
  <2> HIDE DEF D, h, e, L
  <2> QED BY <1>6, <1>7, <2>1, <2>2, Landing
<1>9. Won(e.task, clock + 1, x)
  <2>1. e \in x.events
    BY DEF On
  <2> HIDE DEF x, e
  <2> QED BY <1>4, <1>5, <1>7, <2>1, LandedIsWon
<1> HIDE DEF x, e, h, L, D, m
<1> DEFINE J == K \cup {y}
<1>10. Fits(y, x)
  <2>1. local[m] \in K /\ x \in K /\ Whole(local[m], clock, TTL)
    BY <1>4
  <2> QED BY <1>2, <1>3, <1>7, <1>8, <2>1, ReconciledFirsts
<1>11. \A k \in Machines : local'[k] \in J
  BY <1>2, <1>4
<1>12. /\ Known \subseteq J /\ remote' \in J
       /\ \A k \in J : Fits(k, x)
  BY <1>3, <1>8, <1>10
<1> HIDE DEF J
<1>13. GatesMove(clock, x, J)
  <2>1. CASE Answer(a, "confirmed", e.claim)
    <3> DEFINE n == clock
               c == e.claim
    <3>1. Answer(a, "confirmed", c) /\ Won(gate[a].task, n + 1, x)
      BY <1>5, <1>9, <2>1
    <3> HIDE DEF n, c
    <3>2. GatesMove(n, x, J)
      BY <3>1, AnswerMoves
    <3> QED BY <3>2 DEF n
  <2>2. CASE gate' = [gate EXCEPT ![a] = Idle]
    <3>1. Idle.stage = "idle"
      BY DEF Idle
    <3> DEFINE n == clock
    <3>2. GatesMove(n, x, J)
      BY <2>2, <3>1, GateCloses
    <3> QED BY <3>2
  <2> QED BY <1>1, <2>1, <2>2
<1>14. /\ clock' \in Nat /\ clock <= clock' /\ GatesMove(clock', x, J)
  BY <1>1, <1>4, <1>13
<1> QED BY <1>1, <1>6, <1>8, <1>11, <1>12, <1>14, FirstsStep

LEMMA ConfirmLocallyFirsts ==
    ASSUME FleetInv, FirstsInv, FleetInv', NEW a \in Actors, ConfirmLocally(a)
    PROVE  FirstsKept
<1>0. PICK now \in Judgings :
         LET w == View(local[Home[a]], now)
         IN  \/ Judged(a, w) /\ local' = local
             \/ /\ Judge(w, gate[a].task, a) = "proceed" /\ Now <= Last
                /\ Write(Home[a], Confirmation(a, w), local[Home[a]].leases)
                /\ Answer(a, "confirmed", LatestClaim(w, gate[a].task, a))
  BY DEF ConfirmLocally
<1> DEFINE m == Home[a]
           h == local[m]
           t == gate[a].task
           v == View(h, now)
           e == Confirmation(a, v)
           L == h.leases
<1>1. ~ HasRemote /\ world' = world /\ remote' = remote
  BY DEF ConfirmLocally
<1>2. \/ Judged(a, v) /\ local' = local
      \/ /\ Now <= Last
         /\ clock' = Now /\ local' = [local EXCEPT ![m] = With(@, e, L)]
         /\ Answer(a, "confirmed", LatestClaim(v, t, a))
  BY <1>0 DEF Write
<1>3. /\ clock \in Nat /\ Now = clock + 1 /\ Ledger \in Known
      /\ h \in Known /\ m \in Machines /\ DOMAIN local = Machines
      /\ \A k \in Known : Whole(k, clock, TTL) /\ Fits(k, Ledger)
  BY AtHand, LedgerFacts DEF FirstsInv, Now
<1> HIDE DEF Now
<1>4. Now \in Nat /\ now \in Nat
  BY <1>3, JudgingsAreNat
<1>5. CASE Judged(a, v) /\ local' = local
  <2> DEFINE g == Ledger
             n == clock
             K == Known
             verdict == Judge(v, t, a)
             c == LatestClaim(v, t, a)
  <2>1. verdict = "confirmed" => Won(gate[a].task, n + 1, g)
    <3> HIDE DEF h, t
    <3>1. verdict = "confirmed" => Won(t, clock + 1, Ledger)
      BY <1>3, <1>4, ConfirmedIsWon
    <3> QED BY <3>1 DEF t
  <2>2. /\ clock' = clock
        /\ gate' = [gate EXCEPT ![a] = Idle] \/ Answer(a, verdict, c)
    BY <1>5 DEF Judged
  <2> HIDE DEF verdict, c, v
  <2>3. GatesMove(n, g, K)
    <3> HIDE DEF n, g, K
    <3>1. Idle.stage = "idle"
      BY DEF Idle
    <3> QED BY <2>1, <2>2, <3>1, AnswerMoves, GateCloses
  <2> QED BY <1>1, <1>3, <1>5, <2>2, <2>3, FirstsStill
<1>6. CASE /\ Now <= Last /\ clock' = Now
           /\ local' = [local EXCEPT ![m] = With(@, e, L)]
           /\ Answer(a, "confirmed", LatestClaim(v, t, a))
  <2>1. e.id = Now /\ e.type = "claim.confirmed" /\ e.task = gate[a].task
    BY DEF Confirmation
  <2>2. e \in Ledger'.events
    <3>1. Ledger' = local'[m]
      BY <1>1, LedgerNext
    <3>2. local'[m] = With(h, e, L)
      BY <1>3, <1>6
    <3> HIDE DEF e, L, h
    <3> QED BY <3>1, <3>2 DEF With
  <2> DEFINE c == LatestClaim(v, t, a)
             g == Ledger'
             n == Now
             K == Known
  <2> HIDE DEF e, v, L
  <2>3. Won(gate[a].task, n + 1, g)
    <3>1. Whole(Ledger', Now, TTL')
      <4>1. local'[m] \in Known' /\ \A k \in Known' : Whole(k, clock', TTL')
        BY <1>3, AtHandNext
      <4>2. Ledger' = local'[m]
        BY <1>1, LedgerNext
      <4> QED BY <1>6, <4>1, <4>2
    <3> HIDE DEF g
    <3>2. Whole(g, Now, TTL') /\ e \in g.events
      BY <2>2, <3>1 DEF g
    <3>3. Won(e.task, Now + 1, g)
      BY <1>4, <2>1, <3>2, LandedIsWon
    <3> QED BY <2>1, <3>3
  <2>4. GatesMove(n, g, K)
    <3>1. Answer(a, "confirmed", c)
      BY <1>6
    <3> HIDE DEF n, g, K, c
    <3> QED BY <2>3, <3>1, AnswerMoves
  <2>5. GatesMove(Now, Ledger', Known)
    BY <2>4
  <2> QED BY <1>1, <1>6, <2>1, <2>5, EventFirsts
<1> QED BY <1>2, <1>5, <1>6

LEMMA GateRecordFirsts ==
    ASSUME FleetInv, FirstsInv, FleetInv', NEW a \in Actors, GateRecord(a)
    PROVE  FirstsKept
<1>0. PICK now \in Judgings :
         LET u == gate[a].task
             w == View(local[Home[a]], now)
             x == IF gate[a].verdict = "confirmed" THEN "done"
                  ELSE "superseded"
         IN  \/ clock' = clock /\ local' = local
             \/ \E c \in Closable(w, u, a) : RecordRun(a, u, c, x)
  BY DEF GateRecord
<1> DEFINE t == gate[a].task
           v == View(local[Home[a]], now)
           outcome == IF gate[a].verdict = "confirmed"
                      THEN "done" ELSE "superseded"
<1>1. /\ gate[a].stage = "record" /\ Now <= Last
      /\ gate' = [gate EXCEPT ![a] = Idle]
      /\ world' = world /\ remote' = remote
      /\ \/ clock' = clock /\ local' = local
         \/ \E c \in Closable(v, t, a) : RecordRun(a, t, c, outcome)
  BY <1>0 DEF GateRecord
<1>2. outcome = "done" => Won(t, clock + 1, Ledger)
  <2>1. Promised(a, gate, clock, Ledger)
    BY DEF FirstsInv
  <2> QED BY <1>1, <2>1 DEF Promised
<1>3. \A n, g, K : GatesMove(n, g, K)
  <2>1. Idle.stage = "idle"
    BY DEF Idle
  <2> QED BY <1>1, <2>1, GateCloses
<1> HIDE DEF v, outcome
<1>4. CASE clock' = clock /\ local' = local
  <2>1. clock' \in Nat /\ clock <= clock'
    BY <1>4, AtHand
  <2> QED BY <1>1, <1>3, <1>4, <2>1, FirstsStill
<1>5. ASSUME NEW c, RecordRun(a, t, c, outcome)
      PROVE  FirstsKept
  <2> HIDE DEF t, Now
  <2> QED BY <1>1, <1>2, <1>3, <1>5, RunFirsts
<1> QED BY <1>1, <1>4, <1>5

LEMMA PullFirsts ==
    ASSUME FleetInv, FirstsInv, NEW m \in Machines, Pull(m)
    PROVE  FirstsKept
<1> DEFINE x == Reconciled(local[m], remote)
<1>1. /\ HasRemote /\ local' = [local EXCEPT ![m] = x]
      /\ world' = world /\ clock' = clock /\ remote' = remote /\ gate' = gate
  BY DEF Pull
<1>2. remote \in Known /\ clock' \in Nat /\ clock <= clock'
  BY <1>1, AtHand
<1>3. GatesMove(clock', Ledger, Known \cup {x})
  BY <1>1 DEF GatesMove
<1> QED BY <1>1, <1>2, <1>3, FirstsAdopt

LEMMA PushFirsts ==
    ASSUME FleetInv, FirstsInv, NEW m \in Machines, Push(m)
    PROVE  FirstsKept
<1> DEFINE x == local[m]
<1>1. /\ HasRemote /\ remote' = x /\ local' = local
      /\ Ancestor(remote, x)
      /\ world' = world /\ clock' = clock /\ gate' = gate
  BY DEF Push
<1>2. /\ remote \in Known /\ x \in Known /\ clock' \in Nat
      /\ clock <= clock'
      /\ \A k \in Machines : local'[k] \in Known
      /\ \A k \in Known : Whole(k, clock, TTL) /\ Fits(k, Ledger)
  BY <1>1, AtHand DEF FirstsInv
<1>3. Ledger = remote /\ Ledger' = x
  BY <1>1, LedgerFacts, LedgerNext
<1> HIDE DEF x
<1>4. FirstsStay(remote, x) /\ \A k \in Known : Fits(k, x)
  BY <1>1, <1>2, <1>3, LedgerMoves
<1>5. GatesMove(clock', x, Known)
  BY <1>1 DEF GatesMove
<1> DEFINE K == Known
<1>6. Known \subseteq K
  OBVIOUS
<1> QED BY <1>1, <1>2, <1>3, <1>4, <1>5, <1>6, FirstsStep

LEMMA FirstsNext ==
    FleetInv /\ FleetInv' /\ FirstsInv /\ [Next]_vars => FirstsKept
<1> SUFFICES ASSUME FleetInv, FleetInv', FirstsInv, [Next]_vars
             PROVE  FirstsKept
  OBVIOUS
<1>1. CASE UNCHANGED vars
  <2>1. /\ world' = world /\ clock' = clock /\ local' = local
        /\ remote' = remote /\ gate' = gate
    BY <1>1 DEF vars
  <2>2. GatesMove(clock', Ledger, Known)
    BY <2>1 DEF GatesMove
  <2>3. clock' \in Nat /\ clock <= clock'
    BY <2>1, AtHand
  <2> QED BY <2>1, <2>2, <2>3, FirstsStill
<1>2. CASE Wait
  BY <1>2, WaitFirsts
<1>3. ASSUME NEW a \in Actors, NEW t \in Tasks,
             \/ Claim(a, t) \/ Release(a, t) \/ Renew(a, t)
             \/ FinishFailed(a, t) \/ FinishSettled(a, t)
             \/ ConfirmSettled(a, t)
             \/ \E finishing \in BOOLEAN : EnterGate(a, t, finishing)
      PROVE  FirstsKept
  BY <1>3, WorkFirsts, FinishFirsts, GateStillFirsts
<1>4. ASSUME NEW a \in Actors,
             \/ GateJudge(a) \/ GatePush(a) \/ GateRetry(a) \/ GateRefuse(a)
             \/ ConfirmLocally(a) \/ GateRecord(a)
      PROVE  FirstsKept
  BY <1>4, GateJudgeFirsts, GatePushFirsts, GateStillFirsts,
     ConfirmLocallyFirsts, GateRecordFirsts
<1>5. ASSUME NEW m \in Machines, Pull(m) \/ Push(m)
      PROVE  FirstsKept
  BY <1>5, PullFirsts, PushFirsts
<1> QED BY <1>1, <1>2, <1>3, <1>4, <1>5 DEF Next

LEMMA FirstsInit == Init => FirstsInv
<1> SUFFICES ASSUME Init
             PROVE  FirstsInv
  OBVIOUS
<1>1. /\ local = [m \in Machines |-> FirstHead] /\ remote = FirstHead
      /\ gate = [a \in Actors |-> Idle]
  BY DEF Init
<1>2. \A e \in FirstHead.events : e.type = "task.created"
  BY DEF FirstHead
<1> DEFINE h == FirstHead
<1> HIDE DEF h
<1>3. \A k \in Known : k = h
  BY <1>1 DEF Known, Heads, Idle, h
<1>4. Ledger = h
  <2>1. Ledger \in Known
    BY FleetInit, LedgerFacts
  <2> QED BY <1>3, <2>1
<1>5. Fits(h, h)
  BY <1>2 DEF Fits, Follows, Heeds, DoneLate, h
<1>6. \A a \in Actors : Promised(a, gate, clock, Ledger)
  BY <1>1 DEF Promised, Idle
<1> QED BY <1>3, <1>4, <1>5, <1>6 DEF FirstsInv

LEMMA FirstsInvHolds == Spec => [](FleetInv /\ FirstsInv)
<1>1. Init => FleetInv /\ FirstsInv
  BY FleetInit, FirstsInit
<1>2. FleetInv /\ FirstsInv /\ [Next]_vars => FleetInv' /\ FirstsInv'
  BY FleetNext, FirstsNext DEF Kept, FirstsKept
<1> QED BY <1>1, <1>2, PTL DEF Spec

-----------------------------------------------------------------------------
(***************************************************************************)
(* The theorems.                                                           *)
(***************************************************************************)
\* Releases, lapses, third machines and all: the machines never disagree on
\* who won a task first, and none reports it done before there is a winner.
THEOREM FirstWinnersAgree == Spec => []FirstWinnerIsAlone
<1>1. FleetInv /\ FirstsInv => FirstWinnerIsAlone
  <2> SUFFICES ASSUME FleetInv, FirstsInv
               PROVE  FirstWinnerIsAlone
    OBVIOUS
  <2>1. /\ Ledger \in Known
        /\ \A h \in Heads : h \in Known
        /\ \A h \in Known : Whole(h, clock, TTL) /\ Fits(h, Ledger)
    BY AtHand, LedgerFacts DEF FirstsInv, Known
  <2>2. \A h \in Heads : \A e \in h.events : First(e, h) => First(e, Ledger)
    BY <2>1, FirstsAreTheLedgers
  <2>3. \A h \in Heads : \A r \in h.events :
           r.type = "run.finished" /\ r.outcome = "done" =>
              \E e \in Ledger.events :
                 First(e, Ledger) /\ e.task = r.task /\ e.id < r.id
    BY <2>1 DEF Fits, DoneLate, Won
  <2> QED BY <2>2, <2>3 DEF FirstWinnerIsAlone
<1> QED BY <1>1, FirstsInvHolds, PTL

LEMMA LedgerKnown == FleetInv => Ledger \in Known
BY LedgerFacts

LEMMA LedgerKnownNext == FleetInv' => (Ledger \in Known)'
BY LedgerKnown, PTL

\* A head that descends from another has its first confirmations.
LEMMA FirstsGoAlong ==
    ASSUME FleetInv, FirstsInv, FleetInv', FirstsKept,
           NEW h \in Known, NEW x \in Known', Ancestor(h, x),
           NEW f \in h.events, First(f, h)
    PROVE  First(f, x)
<1>1. /\ Whole(h, clock, TTL) /\ Whole(Ledger, clock, TTL)
      /\ Fits(h, Ledger)
  BY AtHand, LedgerFacts DEF FirstsInv
<1>2. Ledger' \in Known'
  BY LedgerKnownNext
<1>3. /\ Whole(x, clock', TTL') /\ Whole(Ledger', clock', TTL')
      /\ Fits(x, Ledger') /\ FirstsStay(Ledger, Ledger')
  BY <1>2, AtHandNext DEF FirstsKept, FirstsInv
<1>4. First(f, Ledger)
  BY <1>1, FirstsAreTheLedgers
<1>5. First(f, Ledger') /\ f \in Ledger'.events
  BY <1>3, <1>4 DEF FirstsStay, First
<1>6. f.id \in x.seen
  BY <1>1, WholeIds DEF Ancestor
<1>7. f \in x.events
  BY <1>3, <1>5, <1>6 DEF Fits, Heeds
<1> QED BY <1>3, <1>5, <1>7, FirstsAreTheLedgers

\* However stale the heads that machines merge, adopt and push: the first
\* confirmation of a task stays the first on every head that has it, and no
\* lease record is replaced by one that it beats.
THEOREM NothingSharedGoesBack == Spec => NothingGoesBack
<1>1. FleetInv /\ FirstsInv /\ [Next]_vars
         => FirstWinnersStay /\ LeasesGoForward
  <2> SUFFICES ASSUME FleetInv, FirstsInv, [Next]_vars
               PROVE  FirstWinnersStay /\ LeasesGoForward
    OBVIOUS
  <2>1. FleetInv' /\ Advances /\ LeasesGoForward
    BY FleetNext DEF Kept
  <2>2. FirstsKept
    BY <2>1, FirstsNext
  <2>3. /\ remote \in Known /\ \A m \in Machines : local[m] \in Known
        /\ remote' \in Known' /\ \A m \in Machines : local'[m] \in Known'
    BY <2>1, AtHand, AtHandNext
  <2>4. /\ Ancestor(remote, remote')
        /\ \A m \in Machines : Ancestor(local[m], local'[m])
    BY <2>1 DEF Advances
  <2>5. \A e \in remote.events : First(e, remote) => First(e, remote')
    BY <2>1, <2>2, <2>3, <2>4, FirstsGoAlong
  <2>6. \A m \in Machines : \A e \in local[m].events :
           First(e, local[m]) => First(e, local'[m])
    BY <2>1, <2>2, <2>3, <2>4, FirstsGoAlong
  <2> QED BY <2>1, <2>5, <2>6 DEF FirstWinnersStay
<1> QED BY <1>1, FirstsInvHolds, PTL DEF NothingGoesBack, Spec

-----------------------------------------------------------------------------
(***************************************************************************)
(* Where attempts end in a done run or a loss, and leases outlast them.    *)
(*                                                                         *)
(* What the replay of such a head tells.                                   *)
(***************************************************************************)
\* A replay shows a claim as it was folded, unless its lease has lapsed.
LEMMA ViewShows ==
    ASSUME NEW h, NEW now \in Nat
    PROVE  LET s == Fold(h.events, Expiries(h))
               v == View(h, now)
           IN  /\ DOMAIN v.claims = DOMAIN s.claims
               /\ \A c \in DOMAIN s.claims :
                     \/ v.claims[c] = s.claims[c]
                     \/ s.claims[c].status = "active" /\ Expiries(h)[c] <= now
<1> DEFINE lv == Expiries(h)
           s == Fold(h.events, lv)
           v == View(h, now)
           x == ExpiredHolders(s, lv, now)
<1>1. IDTime(now) = now
  <2>1. IdsPerTick = 1
    BY FleetAssumption
  <2> QED BY <2>1 DEF IDTime
<1>2. v = Close(s, lv, now)
  BY <1>1 DEF View, ReplayOf
<1> HIDE DEF s, v, lv
<1>3. v.claims = [c \in DOMAIN s.claims |->
                     IF c \in x THEN [s.claims[c] EXCEPT !.status = "expired"]
                     ELSE s.claims[c]]
  BY <1>2 DEF Close
<1>4. \A c \in x : s.claims[c].status = "active" /\ lv[c] <= now
  BY DEF ExpiredHolders, Lapsed, LeaseExpiredBy
<1> HIDE DEF x
<1> QED BY <1>3, <1>4 DEF s, v, lv

\* The fold of a head that has a confirmation of t, or whose ledger has no
\* winner of t, is an orderly contest for t.
LEMMA HeadIsOrderly ==
    ASSUME NEW n \in Nat, NEW ttl, NEW last \in Nat, NEW g, NEW h,
           Whole(h, n, ttl), Whole(g, n, ttl), Fits(h, g),
           Leased(h, last, n), Tombs(h), EndsLate(h, g), NEW t,
           \/ ~ Won(t, n + 1, g)
           \/ \E e \in h.events : e.type = "claim.confirmed" /\ e.task = t
    PROVE  Orderly(h.events, Expiries(h), t)
<1> DEFINE E == h.events
           lv == Expiries(h)
<1>1. /\ \A e \in E : e.id \in 1 .. n /\ e.id \in Ids /\ e.id \in Nat
      /\ \A e, f \in E : e.id = f.id => e = f
      /\ h.leases \in [Ids -> Lease]
  BY WholeIds DEF Whole, Sound, AreEvents, IsEvent
<1>2. ASSUME NEW x \in E, IsEnd(x), x.task = t,
             \A e \in E : e.type = "claim.confirmed" /\ e.task = t
                             => x.id < e.id
      PROVE  Beaten(x.actor, t, x.id, E)
  <2> SUFFICES ASSUME Won(t, x.id, g)
               PROVE  FALSE
    BY <1>2 DEF EndsLate
  <2>1. PICK f \in g.events : First(f, g) /\ f.task = t /\ f.id < x.id
    BY DEF Won
  <2>2. f.id \in Nat
    BY WholeIds
  <2>3. CASE ~ Won(t, n + 1, g)
    <3>1. f.id < n + 1
      BY <1>1, <2>1, <2>2
    <3> QED BY <2>1, <2>3, <3>1 DEF Won
  <2>4. CASE \E e \in E : e.type = "claim.confirmed" /\ e.task = t
    <3>1. PICK d \in E : First(d, g) /\ d.task = t
      BY <2>4 DEF Fits, Follows
    <3>2. d \in g.events /\ d.type = "claim.confirmed"
      BY <3>1 DEF First
    <3>3. d = f
      BY <2>1, <3>1, <3>2, FirstUnique
    <3>4. x.id < d.id
      BY <1>2, <3>1, <3>2
    <3> QED BY <1>1, <2>1, <3>3, <3>4
  <2> QED BY <2>3, <2>4
<1>3. ASSUME NEW p \in E, NEW q \in E, IsClaim(p, t), IsClaim(q, t),
             p.id < q.id, LeaseExpiredBy(lv, p.id, IDTime(q.id))
      PROVE  \E x \in E : /\ x.type = "claim.released" /\ x.task = t
                          /\ x.actor = p.actor /\ x.id \in p.id .. q.id
  <2> DEFINE r == h.leases[p.id]
  <2>1. r \in Lease /\ lv[p.id] = r.exp
    BY <1>1 DEF Expiries
  <2>2. IDTime(q.id) = q.id
    <3>1. IdsPerTick = 1
      BY FleetAssumption
    <3> QED BY <1>1, <3>1 DEF IDTime
  <2>3. r.exp \in Int /\ r.exp <= q.id
    BY <1>3, <2>1, <2>2, ExpiryIsInteger DEF LeaseExpiredBy
  <2>4. r.released
    <3> SUFFICES ASSUME ~ r.released
                 PROVE  FALSE
      OBVIOUS
    <3>1. n <= last /\ r.exp > last
      BY <1>3 DEF Leased, IsClaim
    <3> QED BY <1>1, <2>3, <3>1
  <2>5. PICK x \in E, d \in E :
           /\ x.type = "claim.released" /\ x.id = r.exp
           /\ IsClaim(d, x.task) /\ d.id = p.id /\ d.actor = x.actor
           /\ d.id < x.id
    BY <1>1, <2>4 DEF Tombs
  <2>6. d = p
    BY <1>1, <2>5
  <2> QED BY <1>1, <1>3, <2>3, <2>5, <2>6 DEF IsClaim
<1> QED BY <1>2, <1>3 DEF Orderly

LEMMA HeadIsFought ==
    ASSUME NEW n \in Nat, NEW ttl, NEW last \in Nat, NEW g, NEW h,
           Whole(h, n, ttl), Whole(g, n, ttl), Fits(h, g),
           Leased(h, last, n), Tombs(h), EndsLate(h, g), NEW t \in Tasks,
           \/ ~ Won(t, n + 1, g)
           \/ \E e \in h.events : e.type = "claim.confirmed" /\ e.task = t
    PROVE  Fought(h.events, MaxId, Fold(h.events, Expiries(h)), t)
<1>1. Orderly(h.events, Expiries(h), t)
  BY HeadIsOrderly
<1>2. Sound(h.events) /\ NamesClaims(h.events)
  BY DEF Whole
<1>3. \A e, p \in h.events :
         e.type = "claim.confirmed" /\ p.id = e.claim => p.actor = e.actor
  <2> SUFFICES ASSUME NEW e \in h.events, NEW p \in h.events,
                      e.type = "claim.confirmed", p.id = e.claim
               PROVE  p.actor = e.actor
    OBVIOUS
  <2>1. PICK q \in h.events : q.id = e.claim /\ q.actor = e.actor
    BY <1>2 DEF NamesClaims
  <2>2. p = q
    BY <2>1, WholeIds
  <2> QED BY <2>1, <2>2
<1> QED BY <1>1, <1>2, <1>3, FoldFought

\* The claims of a replay are those of the events.
LEMMA ViewClaims ==
    ASSUME NEW n, NEW ttl, NEW h, Whole(h, n, ttl), NEW now \in Nat, NEW t
    PROVE  LET s == Fold(h.events, Expiries(h))
               v == View(h, now)
           IN  /\ IsState(s) /\ Holds(s)
               /\ ClaimsOf(v, t) = ClaimsOf(s, t)
               /\ \A c \in ClaimsOf(s, t) :
                     /\ c \in Ids /\ c \in Nat /\ c # None
                     /\ v.claims[c].actor = s.claims[c].actor
                     /\ v.claims[c].task = t
                     /\ v.claims[c].confirmation = s.claims[c].confirmation
                     /\ v.claims[c].status = "active" =>
                           s.claims[c].status = "active"
                     /\ \E q \in h.events :
                           /\ IsClaim(q, t) /\ q.id = c
                           /\ q.actor = s.claims[c].actor
               /\ \A q \in h.events : IsClaim(q, t) =>
                     /\ q.id \in ClaimsOf(s, t)
                     /\ s.claims[q.id].actor = q.actor
<1> DEFINE E == h.events
           s == Fold(E, Expiries(h))
           v == View(h, now)
<1>1. Sound(E) /\ AreEvents(E)
  BY DEF Whole, Sound
<1>2. /\ FoldInv(E, MaxId, s)
      /\ DOMAIN v.claims = DOMAIN s.claims
      /\ \A c \in DOMAIN s.claims :
            /\ v.claims[c].task = s.claims[c].task
            /\ v.claims[c].actor = s.claims[c].actor
            /\ v.claims[c].confirmation = s.claims[c].confirmation
            /\ v.claims[c].status = "active" => s.claims[c].status = "active"
  BY <1>1, ReplayFacts DEF View
<1>3. ~ s.error
  BY <1>1, SoundLedgersReplay
<1> HIDE DEF s, v
<1>4. /\ IsState(s) /\ Holds(s) /\ Traced(E, MaxId, s) /\ Recorded(E, MaxId, s)
  BY <1>2, <1>3 DEF FoldInv
<1>5. \A c \in DOMAIN s.claims :
         /\ c \in Ids /\ c \in Nat /\ c # None
         /\ \E q \in E : /\ q.type = "claim.made" /\ q.id = c
                         /\ q.task = s.claims[c].task
                         /\ q.actor = s.claims[c].actor
  BY <1>4 DEF Traced, IsState, IsMap, Ids, None
<1>6. ASSUME NEW q \in E, q.type = "claim.made"
      PROVE  /\ q.id \in DOMAIN s.claims
             /\ s.claims[q.id].task = q.task /\ s.claims[q.id].actor = q.actor
  <2>1. q.id <= MaxId
    <3>1. q.id \in 1 .. MaxId
      BY <1>1 DEF AreEvents, IsEvent, Ids
    <3> QED BY <3>1, ReplayAssumption
  <2>2. q.id \in DOMAIN s.claims
    BY <1>4, <1>6, <2>1 DEF Recorded
  <2>3. PICK d \in E : /\ d.id = q.id /\ d.task = s.claims[q.id].task
                       /\ d.actor = s.claims[q.id].actor
    BY <1>5, <2>2
  <2>4. d = q
    BY <2>3, WholeIds
  <2> QED BY <2>2, <2>3, <2>4
<1>7. ClaimsOf(v, t) = ClaimsOf(s, t)
  BY <1>2 DEF ClaimsOf
<1>8. ASSUME NEW c \in ClaimsOf(s, t)
      PROVE  /\ c \in Ids /\ c \in Nat /\ c # None
             /\ v.claims[c].actor = s.claims[c].actor
             /\ v.claims[c].task = t
             /\ v.claims[c].confirmation = s.claims[c].confirmation
             /\ v.claims[c].status = "active" =>
                   s.claims[c].status = "active"
             /\ \E q \in E : /\ IsClaim(q, t) /\ q.id = c
                             /\ q.actor = s.claims[c].actor
  BY <1>2, <1>5, <1>8 DEF ClaimsOf, IsClaim
<1>9. \A q \in E : IsClaim(q, t) =>
         q.id \in ClaimsOf(s, t) /\ s.claims[q.id].actor = q.actor
  BY <1>6 DEF IsClaim, ClaimsOf
<1> QED BY <1>4, <1>7, <1>8, <1>9 DEF s, v

\* Before a task has a winner, its earliest claim on a head shows as active
\* there.
LEMMA EarliestStands ==
    ASSUME NEW n \in Nat, NEW ttl, NEW last \in Nat, NEW g, NEW h,
           Whole(h, n, ttl), Whole(g, n, ttl), Fits(h, g),
           Leased(h, last, n), Tombs(h), EndsLate(h, g),
           NEW t \in Tasks, ~ Won(t, n + 1, g),
           NEW now \in Nat, now = n \/ now <= last,
           NEW q \in h.events, IsClaim(q, t)
    PROVE  LET v == View(h, now)
           IN  \E c \in ClaimsOf(v, t) :
                  /\ v.claims[c].status = "active"
                  /\ \A d \in ClaimsOf(v, t) : c <= d
<1> DEFINE E == h.events
           lv == Expiries(h)
           s == Fold(E, lv)
           v == View(h, now)
           c == s.holder[t]
<1>1. /\ \A e \in E : e.id \in 1 .. n /\ e.id \in Ids /\ e.id \in Nat
      /\ \A e, f \in E : e.id = f.id => e = f
      /\ h.leases \in [Ids -> Lease]
  BY WholeIds DEF Whole, Sound, AreEvents, IsEvent
<1>2. now <= last
  BY DEF Leased, IsClaim
<1>3. \A e \in E : ~ (e.type = "claim.confirmed" /\ e.task = t)
  <2> SUFFICES ASSUME NEW e \in E, e.type = "claim.confirmed", e.task = t
               PROVE  FALSE
    OBVIOUS
  <2>1. PICK f \in E : First(f, g) /\ f.task = t /\ f.id <= e.id
    BY DEF Fits, Follows
  <2>2. f.id < n + 1 /\ f \in g.events
    BY <1>1, <2>1 DEF First
  <2> QED BY <2>1, <2>2 DEF Won
<1>4. Contested(s, t)
  BY <1>3, HeadIsFought DEF Fought
<1>5. /\ IsState(s) /\ Holds(s)
      /\ ClaimsOf(v, t) = ClaimsOf(s, t)
      /\ DOMAIN v.claims = DOMAIN s.claims
      /\ \A d \in ClaimsOf(s, t) :
            /\ d \in Ids /\ d \in Nat
            /\ \E p \in E : /\ IsClaim(p, t) /\ p.id = d
                            /\ p.actor = s.claims[d].actor
      /\ \A p \in E : IsClaim(p, t) => p.id \in ClaimsOf(s, t)
  BY ViewClaims, ViewShows
<1>6. \A d \in DOMAIN s.claims :
         \/ v.claims[d] = s.claims[d]
         \/ s.claims[d].status = "active" /\ lv[d] <= now
  BY ViewShows
<1> HIDE DEF s, v, lv
<1>7. q.id \in ClaimsOf(s, t)
  BY <1>5
<1>8. /\ c # None /\ \A d \in ClaimsOf(s, t) : c <= d
      /\ c \in ClaimsOf(s, t) /\ s.claims[c].status = "active"
  <2>1. c # None /\ \A d \in ClaimsOf(s, t) : c <= d
    BY <1>4, <1>7 DEF Contested
  <2>2. c \in ClaimsOf(s, t) /\ s.claims[c].status = "active"
    BY <1>5, <2>1 DEF Holds, ClaimsOf
  <2> QED BY <2>1, <2>2
<1> HIDE DEF c
<1>9. ~ (lv[c] <= now)
  <2> SUFFICES ASSUME lv[c] <= now
               PROVE  FALSE
    OBVIOUS
  <2>1. PICK p \in E : IsClaim(p, t) /\ p.id = c
    BY <1>5, <1>8
  <2> DEFINE r == h.leases[c]
  <2>2. c \in Ids /\ c \in Nat /\ r \in Lease /\ lv[c] = r.exp
    BY <1>1, <1>5, <1>8 DEF Expiries, lv
  <2>3. r.exp \in Int
    BY <2>2, ExpiryIsInteger
  <2>4. r.released
    <3> SUFFICES ASSUME ~ r.released
                 PROVE  FALSE
      OBVIOUS
    <3>1. r.exp > last
      BY <2>1 DEF Leased, IsClaim
    <3> HIDE DEF r
    <3> QED BY <1>2, <2>2, <2>3, <3>1
  <2>5. PICK x \in E, d \in E :
           /\ x.type = "claim.released" /\ x.id = r.exp
           /\ IsClaim(d, x.task) /\ d.id = c /\ d.actor = x.actor
           /\ d.id < x.id
    BY <2>2, <2>4 DEF Tombs
  <2>6. d = p /\ x.task = t
    <3>1. d = p
      BY <1>1, <2>1, <2>5
    <3> QED BY <2>1, <2>5, <3>1 DEF IsClaim
  <2>7. CASE Won(t, x.id, g)
    <3>1. PICK f \in g.events : First(f, g) /\ f.task = t /\ f.id < x.id
      BY <2>7 DEF Won
    <3>2. f.id \in Nat /\ x.id \in 1 .. n
      BY <1>1, WholeIds
    <3>3. f.id < n + 1
      BY <3>1, <3>2
    <3> QED BY <3>1, <3>3 DEF Won
  <2>8. CASE Beaten(x.actor, t, x.id, E)
    <3>1. PICK y \in E : IsClaim(y, t) /\ y.id < p.id
      BY <2>1, <2>5, <2>6, <2>8 DEF Beaten
    <3>2. y.id \in ClaimsOf(s, t)
      BY <1>5, <3>1
    <3>3. c <= y.id /\ y.id \in Nat
      BY <1>1, <1>8, <3>2
    <3> QED BY <2>1, <2>2, <3>1, <3>3
  <2> QED BY <2>5, <2>6, <2>7, <2>8 DEF EndsLate, IsEnd
<1>10. v.claims[c].status = "active"
  BY <1>6, <1>8, <1>9 DEF ClaimsOf
<1> QED BY <1>5, <1>8, <1>10 DEF v

\* A task that has a claim on a head is only ready there once it was won.
LEMMA ReadyIsWon ==
    ASSUME NEW n \in Nat, NEW ttl, NEW last \in Nat, NEW g, NEW h,
           Whole(h, n, ttl), Whole(g, n, ttl), Fits(h, g),
           Leased(h, last, n), Tombs(h), EndsLate(h, g),
           NEW t \in Tasks, NEW now \in Nat, now = n \/ now <= last,
           Ready(View(h, now), t), NEW q \in h.events, IsClaim(q, t)
    PROVE  Won(t, n + 1, g)
<1> DEFINE v == View(h, now)
<1> SUFFICES ASSUME ~ Won(t, n + 1, g)
             PROVE  FALSE
  OBVIOUS
<1>1. PICK c \in ClaimsOf(v, t) : v.claims[c].status = "active"
  BY EarliestStands
<1> HIDE DEF v
<1>2. c \in ActiveClaims(v, t)
  BY <1>1 DEF ActiveClaims, ClaimsOf
<1> QED BY <1>2 DEF Ready, v

\* An actor whose latest claim does not show as active was outrun, or comes
\* after a winner.
LEMMA Loses ==
    ASSUME NEW n \in Nat, NEW ttl, NEW last \in Nat, NEW g, NEW h,
           Whole(h, n, ttl), Whole(g, n, ttl), Fits(h, g),
           Leased(h, last, n), Tombs(h), EndsLate(h, g), ClaimsOnce(h, h, g),
           NEW t \in Tasks, NEW a, NEW now \in Nat, now = n \/ now <= last,
           LatestClaim(View(h, now), t, a) # None,
           LatestClaim(View(h, now), t, a) \notin ActiveClaims(View(h, now), t)
    PROVE  Won(t, n + 1, g) \/ OutRun(a, t, h.events)
<1> DEFINE E == h.events
           v == View(h, now)
           m == LatestClaim(v, t, a)
           s == Fold(E, Expiries(h))
<1> SUFFICES ASSUME ~ Won(t, n + 1, g)
             PROVE  OutRun(a, t, E)
  OBVIOUS
<1>1. /\ ClaimsOf(v, t) = ClaimsOf(s, t)
      /\ \A c \in ClaimsOf(s, t) :
            /\ c \in Nat
            /\ v.claims[c].actor = s.claims[c].actor
            /\ \E q \in E : /\ IsClaim(q, t) /\ q.id = c
                            /\ q.actor = s.claims[c].actor
  BY ViewClaims, SMTT(60)
<1>2. /\ \A e \in E : e.id \in Nat /\ e.id \in 1 .. n
  BY WholeIds
<1>3. DOMAIN v.claims \subseteq Ids
  BY ViewFacts
<1>4. m \in OwnClaims(v, t, a)
  BY <1>3, LatestIsOwn
<1> HIDE DEF v, s
<1>5. m \in ClaimsOf(v, t) /\ v.claims[m].actor = a
  BY <1>4 DEF OwnClaims, ClaimsOf
<1> HIDE DEF m
<1>6. PICK p \in E : IsClaim(p, t) /\ p.id = m /\ p.actor = a
  BY <1>1, <1>5
<1>7. PICK c \in ClaimsOf(v, t) : /\ v.claims[c].status = "active"
                                  /\ \A d \in ClaimsOf(v, t) : c <= d
  BY <1>6, EarliestStands DEF v
<1>8. c # m
  <2>1. c \in ActiveClaims(v, t)
    BY <1>7 DEF ActiveClaims, ClaimsOf
  <2> QED BY <2>1 DEF m, v
<1>9. c < m
  BY <1>1, <1>5, <1>7, <1>8
<1>10. PICK q \in E : IsClaim(q, t) /\ q.id = c
  BY <1>1, <1>7
<1>11. ASSUME NEW r \in E, IsClaim(r, t), r.actor = a
       PROVE  r.id = m
  <2>1. ~ Won(t, r.id, g) /\ ~ Won(t, p.id, g)
    <3> SUFFICES ASSUME NEW i \in 1 .. n, Won(t, i, g)
                 PROVE  FALSE
      BY <1>2
    <3>1. PICK f \in g.events : First(f, g) /\ f.task = t /\ f.id < i
      BY DEF Won
    <3>2. f.id \in Nat
      BY WholeIds
    <3>3. f.id < n + 1
      BY <3>1, <3>2
    <3> QED BY <3>1, <3>3 DEF Won
  <2>2. ~ (r.id < p.id) /\ ~ (p.id < r.id)
    BY <1>6, <1>11, <2>1 DEF ClaimsOnce, IsClaim
  <2> QED BY <1>2, <1>6, <2>2
<1> QED BY <1>9, <1>10, <1>11 DEF OutRun

\* A claim that may proceed on a head with a winner came after that one's
\* attempt was over.
LEMMA ProceedsLate ==
    ASSUME NEW n \in Nat, NEW ttl, NEW last \in Nat, NEW g, NEW h,
           Whole(h, n, ttl), Whole(g, n, ttl), Fits(h, g),
           Leased(h, last, n), Tombs(h), EndsLate(h, g),
           NEW t \in Tasks, NEW a, NEW now \in Nat,
           Judge(View(h, now), t, a) = "proceed",
           NEW f \in h.events, First(f, h), f.task = t
    PROVE  ClaimedAfter(LatestClaim(View(h, now), t, a), f, h)
<1> DEFINE E == h.events
           v == View(h, now)
           m == LatestClaim(v, t, a)
           s == Fold(E, Expiries(h))
<1>1. m \in ActiveClaims(v, t) /\ v.claims[m].confirmation = None
  BY DEF Judge
<1>2. /\ ClaimsOf(v, t) = ClaimsOf(s, t)
      /\ \A c \in ClaimsOf(s, t) :
            /\ v.claims[c].confirmation = s.claims[c].confirmation
            /\ v.claims[c].status = "active" => s.claims[c].status = "active"
  BY ViewClaims, SMTT(60)
<1>3. Fought(E, MaxId, s, t)
  BY HeadIsFought DEF First
<1>4. f.id <= MaxId
  <2>1. f.id \in 1 .. MaxId
    BY DEF Whole, Sound, AreEvents, IsEvent, Ids
  <2> QED BY <2>1, ReplayAssumption
<1> HIDE DEF v, s, m
<1>5. m \in ClaimsOf(s, t) /\ s.claims[m].status = "active"
      /\ s.claims[m].confirmation = None
  BY <1>1, <1>2 DEF ActiveClaims, ClaimsOf
<1>6. Crowned(E, f, MaxId, s)
  BY <1>3, <1>4 DEF Fought, First
<1>7. OverBy(E, f, m)
  BY <1>5, <1>6 DEF Crowned
<1> QED BY <1>7 DEF OverBy, IsEnd, ClaimedAfter, m, v

\* Replay applies the first confirmation of a task.
LEMMA FirstIsApplied ==
    ASSUME NEW n \in Nat, NEW ttl, NEW last \in Nat, NEW g, NEW h,
           Whole(h, n, ttl), Whole(g, n, ttl), Fits(h, g),
           Leased(h, last, n), Tombs(h), EndsLate(h, g),
           NEW e \in h.events, First(e, h)
    PROVE  LET c == Fold(h.events, Expiries(h)).claims[e.claim]
           IN  c.confirmation = e.id /\ c.status # "voided"
<1> DEFINE E == h.events
           s == Fold(E, Expiries(h))
           t == e.task
<1>1. t \in Tasks /\ e.id \in Ids /\ e.type = "claim.confirmed"
  BY DEF Whole, Sound, AreEvents, IsEvent, First
<1>2. Fought(E, MaxId, s, t)
  BY <1>1, HeadIsFought
<1>3. e.id <= MaxId /\ e.id # None
  <2>1. e.id \in 1 .. MaxId
    BY <1>1 DEF Ids
  <2> QED BY <2>1, ReplayAssumption DEF None
<1>4. Holds(s)
  <2>1. 0 \in Nat
    OBVIOUS
  <2> QED BY <2>1, ViewClaims
<1> HIDE DEF s
<1>5. Crowned(E, e, MaxId, s)
  BY <1>2, <1>3 DEF Fought, First
<1> QED BY <1>3, <1>4, <1>5 DEF Crowned, Holds, ClaimsOf, s

-----------------------------------------------------------------------------
(***************************************************************************)
(* The invariant.                                                          *)
(***************************************************************************)
\* What the gate of actor a carries past a winner its head knew came after
\* that one's attempt; a verdict of "lost" was earned.
Waits(a, gt, loc, n, g) ==
    /\ gt[a].stage = "push" =>
          \A f \in gt[a].head.events :
             First(f, gt[a].head) /\ f.task = gt[a].event.task =>
                ClaimedAfter(gt[a].event.claim, f, gt[a].head)
    /\ gt[a].stage = "record" /\ gt[a].verdict # "confirmed" =>
          \/ Won(gt[a].task, n + 1, g)
          \/ OutRun(a, gt[a].task, loc[Home[a]].events)

IsLate(c, g) == \E t : LateClaim(c, t, g)

FairInv ==
    Lasting =>
        /\ Fair(Known, Last, clock, Ledger)
        /\ \A a \in Actors : Waits(a, gate, local, clock, Ledger)
        /\ \A c \in told : IsLate(c, Ledger)

\* What every step has at hand.
LEMMA FairAtHand ==
    ASSUME FleetInv, FirstsInv, FairInv, Lasting
    PROVE  /\ Fair(Known, Last, clock, Ledger)
           /\ \A a \in Actors : Waits(a, gate, local, clock, Ledger)
           /\ \A c \in told : IsLate(c, Ledger)
           /\ HasRemote /\ ~ MayAbandon /\ TTL >= Last
           /\ Ledger = remote /\ Ledger \in Known
           /\ clock \in Nat /\ Last \in Nat /\ TTL \in Nat
           /\ \A k \in Known : Whole(k, clock, TTL) /\ Fits(k, Ledger)
<1>1. Last \in Nat
  BY AtHand DEF Ids
<1> QED BY <1>1, AtHand, LedgerFacts DEF FairInv, FirstsInv, Lasting

\* All claims of an actor are on its own machine.
LEMMA OwnClaimsAtHome ==
    ASSUME FleetInv, NEW a \in Actors, NEW k \in Known, NEW e \in k.events,
           e.type = "claim.made", e.actor = a
    PROVE  e \in local[Home[a]].events
BY AtHand DEF Owned

\* Who was outrun stays so, on more events without claims of its own.
LEMMA OutRunStays ==
    ASSUME FleetInv, NEW a \in Actors, NEW t,
           OutRun(a, t, local[Home[a]].events), NEW E,
           \A q \in local[Home[a]].events : q.type = "claim.made" => q \in E,
           \A p \in E : p.type = "claim.made" /\ p.actor = a =>
              \E k \in Known : p \in k.events
    PROVE  OutRun(a, t, E)
<1>1. PICK q \in local[Home[a]].events :
         /\ IsClaim(q, t)
         /\ \A p \in local[Home[a]].events :
               IsClaim(p, t) /\ p.actor = a => q.id < p.id
  BY DEF OutRun
<1>2. \A p \in E : IsClaim(p, t) /\ p.actor = a => q.id < p.id
  BY <1>1, OwnClaimsAtHome DEF IsClaim
<1>3. q \in E
  BY <1>1 DEF IsClaim
<1> QED BY <1>1, <1>2, <1>3 DEF OutRun

\* Each gate is as it was, or waits for what it may rely on, with a head of K.
GatesWait(n, g, K) ==
    \A b \in Actors :
        \/ gate'[b] = gate[b]
        \/ /\ Waits(b, gate', local', n, g)
           /\ gate'[b].stage = "push" => gate'[b].head \in K

\* Who waits to record a loss has no new claim of its own.
LossesStay ==
    \A b \in Actors : \A t :
        /\ gate[b].stage = "record"
        /\ OutRun(b, t, local[Home[b]].events)
        => OutRun(b, t, local'[Home[b]].events)

\* A step to heads of K that are all fair under ledger g.
LEMMA FairStep ==
    ASSUME FleetInv, FirstsInv, FairInv, Lasting, world' = world,
           NEW K, Known \subseteq K, NEW g, Ledger' = g, Extends(Ledger, g),
           clock' \in Nat, clock <= clock', Fair(K, Last, clock', g),
           \A m \in Machines : local'[m] \in K, remote' \in K,
           GatesWait(clock', g, K), LossesStay,
           \A c \in told' : c \in told \/ IsLate(c, g)
    PROVE  FairInv'
<1>1. /\ Last' = Last /\ Home' = Home /\ Lasting' = Lasting
  BY DEF Last, Home, Lasting, HasRemote, MayAbandon, TTL
<1>2. Known' \subseteq K
  <2>1. \A b \in Actors : gate[b].stage = "push" => gate[b].head \in K
    BY DEF Known
  <2>2. \A b \in Actors : gate'[b].stage = "push" => gate'[b].head \in K
    BY <2>1 DEF GatesWait
  <2> QED BY <2>2 DEF Known, Heads
<1>3. Fair(Known', Last, clock', g)
  BY <1>2, FewerFair
<1>4. \A c \in told' : IsLate(c, g)
  BY FairAtHand, LateStays DEF IsLate
<1>5. ASSUME NEW b \in Actors, gate'[b] = gate[b]
      PROVE  Waits(b, gate', local', clock', g)
  <2>1. Waits(b, gate, local, clock, Ledger)
    BY FairAtHand
  <2>2. ASSUME NEW t, Won(t, clock + 1, Ledger)
        PROVE  Won(t, clock' + 1, g)
    <3>1. Won(t, clock' + 1, Ledger)
      BY <2>2, WonLater
    <3> QED BY <3>1, WonStays DEF Extends
  <2> QED BY <1>5, <2>1, <2>2 DEF Waits, LossesStay
<1>6. \A b \in Actors : Waits(b, gate', local', clock', g)
  BY <1>5 DEF GatesWait
<1>7. \A b \in Actors : Waits(b, gate, local, clock, Ledger)'
  BY <1>1, <1>6 DEF Waits
<1> QED BY <1>1, <1>3, <1>4, <1>7 DEF FairInv, IsLate, LateClaim

\* A step that writes nothing.
LEMMA FairStill ==
    ASSUME FleetInv, FirstsInv, FairInv, Lasting, world' = world,
           local' = local, remote' = remote,
           clock' \in Nat, clock <= clock', clock' = clock \/ clock' <= Last,
           GatesWait(clock', Ledger, Known),
           \A c \in told' : c \in told \/ IsLate(c, Ledger)
    PROVE  FairInv'
<1> DEFINE g == Ledger
           K == Known
<1>1. Ledger' = g /\ Extends(Ledger, g)
  BY ExtendsReflexive DEF Ledger, HasRemote, Home
<1>2. /\ \A m \in Machines : local'[m] \in K
      /\ remote' \in K /\ Known \subseteq K
  BY AtHand
<1>3. Fair(K, Last, clock', g)
  BY FairAtHand, LaterFair, ExtendsReflexive
<1>4. LossesStay
  BY DEF LossesStay
<1>5. GatesWait(clock', g, K) /\ \A c \in told' : c \in told \/ IsLate(c, g)
  OBVIOUS
<1> HIDE DEF g, K
<1> QED BY <1>1, <1>2, <1>3, <1>4, <1>5, FairStep

\* What a machine has after bringing in a head with no claims but known ones.
LEMMA LossesOutlive ==
    ASSUME FleetInv, NEW m \in Machines, NEW y,
           NEW K, NEW n, NEW ttl, HeadsFit(K, n, ttl), y \in K,
           Known \subseteq K,
           \A e \in y.events : e.type = "claim.made" =>
              \E k \in Known : e \in k.events,
           NEW x \in {local[m], Reconciled(local[m], y)},
           local' = [local EXCEPT ![m] = x]
    PROVE  LossesStay
<1>1. /\ DOMAIN local = Machines /\ Home \in [Actors -> Machines]
      /\ \A k \in Machines : local[k] \in Known
  BY AtHand
<1>2. \A e \in local[m].events : e.type = "claim.made" => e \in x.events
  <2>1. KeepsOwn(Reconciled(local[m], y), local[m])
    BY <1>1, ReconciledKeepsOwn
  <2> QED BY <2>1 DEF KeepsOwn
<1>3. \A e \in x.events : e.type = "claim.made" =>
         \E k \in Known : e \in k.events
  <2>1. x.events \subseteq local[m].events \cup y.events
    BY MergedHead DEF Reconciled
  <2> QED BY <1>1, <2>1
<1> SUFFICES ASSUME NEW b \in Actors, NEW t,
                    OutRun(b, t, local[Home[b]].events)
             PROVE  OutRun(b, t, local'[Home[b]].events)
  BY DEF LossesStay
<1>4. CASE Home[b] = m
  <2>1. local'[Home[b]] = x
    BY <1>1, <1>4
  <2> QED BY <1>2, <1>3, <1>4, <2>1, OutRunStays
<1>5. CASE Home[b] # m
  <2>1. local'[Home[b]] = local[Home[b]]
    BY <1>1, <1>5
  <2> QED BY <2>1
<1> QED BY <1>4, <1>5

\* A machine brings in the remote head, or not.
LEMMA FairAdopt ==
    ASSUME FleetInv, FirstsInv, FairInv, Lasting, world' = world,
           remote' = remote, NEW m \in Machines,
           NEW x \in {local[m], Reconciled(local[m], remote)},
           local' = [local EXCEPT ![m] = x],
           clock' \in Nat, clock <= clock', clock' = clock \/ clock' <= Last,
           GatesWait(clock', Ledger, Known \cup {x}),
           \A c \in told' : c \in told \/ IsLate(c, Ledger)
    PROVE  FairInv'
<1> DEFINE g == Ledger
           K == Known \cup {x}
<1>1. /\ Ledger' = g /\ Extends(Ledger, g)
      /\ remote \in Known /\ local[m] \in Known
      /\ \A k \in Machines : local[k] \in Known
      /\ DOMAIN local = Machines
      /\ HeadsFit(Known, clock, TTL)
      /\ \A k \in Known : Whole(k, clock, TTL)
  BY AtHand, FairAtHand, LedgerNext, ExtendsReflexive
<1>2. Fair(K, Last, clock', g)
  <2>1. Fair(K, Last, clock, g)
    <3>1. Fair(Known \cup {Reconciled(local[m], remote)}, Last, clock, g)
      BY <1>1, FairAtHand, ReconciledFair
    <3>2. K \in SUBSET (Known \cup {Reconciled(local[m], remote)})
      BY <1>1
    <3> HIDE DEF K
    <3> QED BY <3>1, <3>2, FewerFair
  <2> HIDE DEF K
  <2> QED BY <2>1, LaterFair, ExtendsReflexive
<1>3. LossesStay
  <2>1. /\ \A e \in remote.events : e.type = "claim.made" =>
              \E k \in Known : e \in k.events
        /\ Known \subseteq Known
    BY <1>1
  <2> QED BY <1>1, <2>1, LossesOutlive
<1>4. /\ \A k \in Machines : local'[k] \in K
      /\ remote' \in K /\ Known \subseteq K
      /\ GatesWait(clock', g, K)
      /\ \A c \in told' : c \in told \/ IsLate(c, g)
  BY <1>1
<1> HIDE DEF g, K
<1> QED BY <1>1, <1>2, <1>3, <1>4, FairStep

\* A commit by the machine of actor a.
LEMMA FairWrite ==
    ASSUME FleetInv, FirstsInv, FairInv, Lasting, world' = world,
           remote' = remote, Now <= Last, clock' = Now, told' = told,
           NEW a \in Actors, NEW D, NEW L,
           Sportsmanlike(local[Home[a]], a, D, L, Now, Last, Ledger),
           \A e \in D : e.type = "claim.made" => gate[a].stage # "record",
           local' = [local EXCEPT ![Home[a]] = On(@, D, L, Now)],
           \A b \in Actors : \/ gate'[b] = gate[b]
                             \/ gate'[b].stage \in {"idle", "judge"}
    PROVE  FairInv'
<1> DEFINE m == Home[a]
           h == local[m]
           n == clock
           x == On(h, D, L, Now)
           K == Known \cup {x}
           g == Ledger
<1>1. /\ Ledger' = g /\ Extends(Ledger, g)
      /\ remote \in Known /\ h \in Known /\ m \in Machines
      /\ \A k \in Machines : local[k] \in Known
      /\ DOMAIN local = Machines
      /\ n \in Nat /\ Now = n + 1 /\ Now \in Nat /\ Last \in Nat
      /\ Fair(Known, Last, n, g)
      /\ \A k \in Known : Whole(k, n, TTL)
      /\ \A k \in Known : \A e \in k.events :
            e.type = "claim.made" /\ e.actor = a => e \in h.events
  BY AtHand, FairAtHand, LedgerNext, ExtendsReflexive, OwnClaimsAtHome,
     NextInstant
<1> HIDE DEF Now
<1>2. Fair(K, Last, clock', g)
  <2>1. /\ n + 1 <= Last /\ Sportsmanlike(h, a, D, L, n + 1, Last, g)
        /\ clock' = n + 1 /\ x = On(h, D, L, n + 1)
    BY <1>1
  <2> HIDE DEF n, h, g, x
  <2>2. Fair(Known \cup {On(h, D, L, n + 1)}, Last, n + 1, g)
    BY <1>1, <2>1, WrittenFair
  <2> QED BY <2>1, <2>2
<1>3. local'[m] = x /\ \A k \in Machines : k # m => local'[k] = local[k]
  BY <1>1
<1>4. LossesStay
  <2> SUFFICES ASSUME NEW b \in Actors, NEW t, gate[b].stage = "record",
                      OutRun(b, t, local[Home[b]].events)
               PROVE  OutRun(b, t, local'[Home[b]].events)
    BY DEF LossesStay
  <2>1. CASE Home[b] = m
    <3>1. x.events = h.events \cup D
      BY DEF On
    <3>2. \A e \in D : ~ (e.type = "claim.made" /\ e.actor = b)
      BY DEF Sportsmanlike
    <3> HIDE DEF x
    <3>3. \A e \in x.events : e.type = "claim.made" /\ e.actor = b =>
             \E k \in Known : e \in k.events
      BY <1>1, <3>1, <3>2
    <3> QED BY <1>3, <2>1, <3>1, <3>3, OutRunStays
  <2>2. CASE Home[b] # m
    <3>1. Home[b] \in Machines
      BY AtHand
    <3> QED BY <1>3, <2>2, <3>1
  <2> QED BY <2>1, <2>2
<1>5. /\ \A k \in Machines : local'[k] \in K
      /\ remote' \in K /\ Known \subseteq K
      /\ clock' \in Nat /\ clock <= clock'
      /\ \A c \in told' : c \in told \/ IsLate(c, g)
  BY <1>1, <1>3
<1>6. GatesWait(clock', g, K)
  BY DEF GatesWait, Waits
<1> HIDE DEF g, K
<1> QED BY <1>1, <1>2, <1>4, <1>5, <1>6, FairStep

-----------------------------------------------------------------------------
(***************************************************************************)
(* The steps.                                                              *)
(***************************************************************************)
\* What actor a's machine has at hand when a works.
LEMMA HomeFacts ==
    ASSUME FleetInv, FirstsInv, FairInv, Lasting, NEW a \in Actors
    PROVE  LET h == local[Home[a]]
           IN  /\ h \in Known /\ Whole(h, clock, TTL) /\ Fits(h, Ledger)
               /\ Whole(Ledger, clock, TTL)
               /\ Leased(h, Last, clock) /\ Tombs(h) /\ EndsLate(h, Ledger)
               /\ Alone(h, Ledger) /\ ClaimsOnce(h, h, Ledger)
BY FairAtHand, AtHand DEF Fair, Sporting

LEMMA ClaimFair ==
    ASSUME FleetInv, FirstsInv, FairInv, Lasting,
           NEW a \in Actors, NEW t \in Tasks, Claim(a, t)
    PROVE  FairInv'
<1> DEFINE h == local[Home[a]]
           e == [id |-> Now, type |-> "claim.made", task |-> t, actor |-> a]
           D == {e}
           L == [h.leases EXCEPT ![Now] = [exp |-> Now + TTL,
                                           released |-> FALSE]]
<1>1. /\ Now <= Last /\ clock' = Now /\ world' = world /\ remote' = remote
      /\ gate' = gate /\ told' = told /\ gate[a].stage = "idle"
      /\ Ready(View(h, Now), t)
      /\ local' = [local EXCEPT ![Home[a]] = With(@, e, L)]
  BY DEF Claim, Write, Idle
<1>2. /\ Now \in Ids /\ Now \in Nat /\ Now = clock + 1
      /\ clock \in Nat /\ Last \in Nat /\ TTL \in Nat /\ TTL >= Last
      /\ h.leases \in [Ids -> Lease]
  BY <1>1, NextInstant, FairAtHand, HomeFacts DEF Whole
<1> HIDE DEF Now
<1>3. local' = [local EXCEPT ![Home[a]] = On(@, D, L, Now)]
  BY <1>1 DEF With, On
<1>4. Sportsmanlike(h, a, D, L, Now, Last, Ledger)
  <2>1. /\ L[Now] = [exp |-> Now + TTL, released |-> FALSE]
        /\ \A c \in Ids : c # Now => L[c] = h.leases[c]
    BY <1>2
  <2>2. ~ L[Now].released /\ L[Now].exp > Last
    BY <1>2, <2>1
  <2>3. \A q \in h.events : IsClaim(q, t) /\ q.actor = a =>
           Won(t, Now, Ledger)
    <3> SUFFICES ASSUME NEW q \in h.events, IsClaim(q, t)
                 PROVE  Won(t, Now, Ledger)
      OBVIOUS
    <3>1. /\ Whole(h, clock, TTL) /\ Fits(h, Ledger)
          /\ Whole(Ledger, clock, TTL)
          /\ Leased(h, Last, clock) /\ Tombs(h) /\ EndsLate(h, Ledger)
      BY HomeFacts
    <3> HIDE DEF h
    <3>2. Won(t, clock + 1, Ledger)
      BY <1>1, <1>2, <3>1, ReadyIsWon
    <3> QED BY <1>2, <3>2
  <2>4. e.id = Now /\ e.actor = a /\ e.type = "claim.made" /\ e.task = t
        /\ ~ IsEnd(e)
    BY DEF IsEnd
  <2> HIDE DEF e, L
  <2> QED BY <2>1, <2>2, <2>3, <2>4 DEF Sportsmanlike
<1>5. \A d \in D : d.type = "claim.made" => gate[a].stage # "record"
  BY <1>1
<1> HIDE DEF D, L
<1> QED BY <1>1, <1>3, <1>4, <1>5, FairWrite

\* Who has a claim that does not show as active has lost.
LEMMA LoserIsOutRun ==
    ASSUME FleetInv, FirstsInv, FairInv, Lasting, NEW a \in Actors,
           NEW t \in Tasks, NEW now \in Nat, now = clock \/ now <= Last,
           LatestClaim(View(local[Home[a]], now), t, a) # None,
           LatestClaim(View(local[Home[a]], now), t, a) \notin
              ActiveClaims(View(local[Home[a]], now), t)
    PROVE  \/ Won(t, clock + 1, Ledger)
           \/ OutRun(a, t, local[Home[a]].events)
<1> DEFINE h == local[Home[a]]
<1>1. /\ Whole(h, clock, TTL) /\ Fits(h, Ledger) /\ Whole(Ledger, clock, TTL)
      /\ Leased(h, Last, clock) /\ Tombs(h) /\ EndsLate(h, Ledger)
      /\ ClaimsOnce(h, h, Ledger)
      /\ clock \in Nat /\ Last \in Nat
  BY HomeFacts, FairAtHand
<1> HIDE DEF h
<1> QED BY <1>1, Loses DEF h

LEMMA ReleaseFair ==
    ASSUME FleetInv, FirstsInv, FairInv, Lasting,
           NEW a \in Actors, NEW t \in Tasks, Release(a, t)
    PROVE  FairInv'
<1> DEFINE h == local[Home[a]]
           v == View(h, Now)
           c == IF HeldByActor(v, t, a) # {}
                THEN CHOOSE x \in HeldByActor(v, t, a) : TRUE
                ELSE LatestClaim(v, t, a)
           e == [id |-> Now, type |-> "claim.released", task |-> t,
                 actor |-> a]
           D == {e}
           L == [h.leases EXCEPT ![c] = [exp |-> Now, released |-> TRUE]]
<1>1. /\ Now <= Last /\ clock' = Now /\ world' = world /\ remote' = remote
      /\ gate' = gate /\ told' = told /\ c # None
      /\ \/ v.claims[c].status = "active" /\ MayAbandon
         \/ v.claims[c].status = "voided"
      /\ local' = [local EXCEPT ![Home[a]] = With(@, e, L)]
  BY DEF Release, Write
<1>2. /\ Now \in Ids /\ Now \in Nat /\ Now = clock + 1
      /\ ~ MayAbandon /\ Whole(h, clock, TTL)
      /\ h.leases \in [Ids -> Lease]
  BY <1>1, NextInstant, FairAtHand, HomeFacts DEF Whole
<1> HIDE DEF Now, v, h
<1>3. local' = [local EXCEPT ![Home[a]] = On(@, D, L, Now)]
  BY <1>1 DEF With, On
<1>4. v.claims[c].status = "voided"
  BY <1>1, <1>2
<1>5. c = LatestClaim(v, t, a) /\ c # None
  <2>1. HeldByActor(v, t, a) = {}
    <3> SUFFICES ASSUME HeldByActor(v, t, a) # {}
                 PROVE  FALSE
      OBVIOUS
    <3>1. c \in HeldByActor(v, t, a)
      OBVIOUS
    <3> QED BY <1>4, <3>1 DEF HeldByActor, ActiveClaims
  <2> QED BY <1>1, <2>1
<1> HIDE DEF c
<1>6. c \notin ActiveClaims(v, t)
  BY <1>4 DEF ActiveClaims
<1>7. Won(t, clock + 1, Ledger) \/ OutRun(a, t, h.events)
  BY <1>1, <1>2, <1>5, <1>6, LoserIsOutRun DEF v, h
<1>8. PICK q \in h.events : IsClaim(q, t) /\ q.id = c /\ q.actor = a
  <2>1. /\ \A d \in DOMAIN v.claims :
              /\ d \in Ids
              /\ \E f \in h.events : /\ f.type = "claim.made" /\ f.id = d
                                     /\ f.task = v.claims[d].task
                                     /\ f.actor = v.claims[d].actor
    BY <1>2, ViewFacts DEF v
  <2>2. c \in OwnClaims(v, t, a)
    BY <1>5, <2>1, LatestIsOwn
  <2> QED BY <2>1, <2>2 DEF OwnClaims, IsClaim
<1>9. c \in Ids
  BY <1>2, <1>8 DEF Whole, Sound, AreEvents, IsEvent
<1>10. Sportsmanlike(h, a, D, L, Now, Last, Ledger)
  <2>1. /\ L[c].released /\ L[c].exp = Now
        /\ \A d \in Ids : d # c => L[d] = h.leases[d]
    BY <1>2, <1>9
  <2>2. e.id = Now /\ e.actor = a /\ e.type = "claim.released" /\ e.task = t
    OBVIOUS
  <2>3. IsEnd(e) /\ e.type # "claim.made"
    BY DEF IsEnd
  <2> HIDE DEF e, L
  <2> QED BY <1>2, <1>7, <1>8, <2>1, <2>2, <2>3 DEF Sportsmanlike
<1>11. \A d \in D : d.type = "claim.made" => gate[a].stage # "record"
  OBVIOUS
<1> HIDE DEF D, L
<1> QED BY <1>1, <1>3, <1>10, <1>11, FairWrite DEF h

LEMMA RenewFair ==
    ASSUME FleetInv, FirstsInv, FairInv, Lasting,
           NEW a \in Actors, NEW t \in Tasks, Renew(a, t)
    PROVE  FairInv'
<1> DEFINE h == local[Home[a]]
           D == {}
<1>1. PICK c \in HeldByActor(View(h, clock), t, a) :
         local' = [local EXCEPT ![Home[a]] = Renewed(@, c)]
  BY DEF Renew
<1> DEFINE L == [h.leases EXCEPT ![c] = [exp |-> Now + TTL,
                                         released |-> FALSE]]
<1>2. /\ Now <= Last /\ clock' = Now /\ world' = world /\ remote' = remote
      /\ gate' = gate /\ told' = told
  BY DEF Renew
<1>3. /\ Now \in Nat /\ Now = clock + 1 /\ clock \in Nat
      /\ Last \in Nat /\ TTL \in Nat /\ TTL >= Last
      /\ h.leases \in [Ids -> Lease]
  BY <1>2, NextInstant, FairAtHand, HomeFacts DEF Whole
<1> HIDE DEF Now
<1>4. local' = [local EXCEPT ![Home[a]] = On(@, D, L, Now)]
  <2>1. Renewed(h, c) = On(h, D, L, Now)
    <3>1. h.events \cup {} = h.events
      OBVIOUS
    <3> QED BY <3>1 DEF Renewed, On
  <2> HIDE DEF D, L
  <2> QED BY <1>1, <2>1
<1>5. Sportsmanlike(h, a, D, L, Now, Last, Ledger)
  <2> DEFINE r == [exp |-> Now + TTL, released |-> FALSE]
  <2>1. ~ r.released /\ r.exp > Last
    BY <1>3
  <2> HIDE DEF r
  <2>2. \A d \in Ids : L[d] = h.leases[d] \/ L[d] = r
    BY <1>3 DEF r
  <2> HIDE DEF L
  <2> QED BY <2>1, <2>2 DEF Sportsmanlike
<1>6. \A d \in D : d.type = "claim.made" => gate[a].stage # "record"
  OBVIOUS
<1> HIDE DEF D, L, h
<1> QED BY <1>2, <1>4, <1>5, <1>6, FairWrite DEF h

\* A report by who lost, or after a winner.
LEMMA RunFair ==
    ASSUME FleetInv, FirstsInv, FairInv, Lasting, Now <= Last,
           NEW a \in Actors, NEW t, NEW c, NEW outcome,
           RecordRun(a, t, c, outcome),
           \/ Won(t, clock + 1, Ledger)
           \/ OutRun(a, t, local[Home[a]].events),
           world' = world, remote' = remote, told' = told,
           \A b \in Actors : \/ gate'[b] = gate[b]
                             \/ gate'[b].stage \in {"idle", "judge"}
    PROVE  FairInv'
<1> DEFINE h == local[Home[a]]
           e == [id |-> Now, type |-> "run.finished", task |-> t,
                 actor |-> a, outcome |-> outcome, claim |-> c]
           D == {e}
           L == h.leases
<1>1. clock' = Now /\ local' = [local EXCEPT ![Home[a]] = With(@, e, L)]
  BY DEF RecordRun, Write
<1>2. Now = clock + 1
  BY DEF Now
<1> HIDE DEF Now
<1>3. local' = [local EXCEPT ![Home[a]] = On(@, D, L, Now)]
  BY <1>1 DEF With, On
<1>4. Sportsmanlike(h, a, D, L, Now, Last, Ledger)
  <2>1. e.id = Now /\ e.actor = a /\ e.type = "run.finished" /\ e.task = t
    OBVIOUS
  <2>2. IsEnd(e) /\ e.type # "claim.made"
    BY DEF IsEnd
  <2> HIDE DEF e
  <2> QED BY <1>2, <2>1, <2>2 DEF Sportsmanlike
<1>5. \A d \in D : d.type = "claim.made" => gate[a].stage # "record"
  OBVIOUS
<1> HIDE DEF D, L
<1> QED BY <1>1, <1>3, <1>4, <1>5, FairWrite

LEMMA FinishFair ==
    ASSUME FleetInv, FirstsInv, FairInv, Lasting,
           NEW a \in Actors, NEW t \in Tasks,
           FinishFailed(a, t) \/ FinishSettled(a, t)
    PROVE  FairInv'
<1> DEFINE h == local[Home[a]]
           v == View(h, Now)
<1>1. /\ Now <= Last /\ world' = world /\ remote' = remote /\ gate' = gate
      /\ told' = told
  BY DEF FinishFailed, FinishSettled
<1>2. /\ Now \in Nat /\ clock \in Nat /\ ~ MayAbandon
      /\ Whole(h, clock, TTL) /\ Whole(Ledger, clock, TTL) /\ Fits(h, Ledger)
  BY <1>1, NextInstant, FairAtHand, HomeFacts
<1> HIDE DEF Now
<1>3. ASSUME LatestClaim(v, t, a) # None,
             LatestClaim(v, t, a) \notin ActiveClaims(v, t)
      PROVE  Won(t, clock + 1, Ledger) \/ OutRun(a, t, h.events)
  BY <1>1, <1>2, <1>3, LoserIsOutRun
<1>4. CASE FinishFailed(a, t)
  <2>1. PICK c \in Closable(v, t, a) :
           /\ v.claims[c].status = "voided"
           /\ RecordRun(a, t, c, IF v.claims[c].status = "voided"
                                 THEN "superseded" ELSE "failed")
    BY <1>2, <1>4 DEF FinishFailed
  <2>2. c = LatestClaim(v, t, a) /\ c # None /\ c \notin ActiveClaims(v, t)
    <3> HIDE DEF v
    <3>1. c \notin ActiveClaims(v, t)
      BY <2>1 DEF ActiveClaims
    <3> QED BY <2>1, <3>1 DEF Closable, HeldByActor
  <2> DEFINE outcome == IF v.claims[c].status = "voided"
                        THEN "superseded" ELSE "failed"
  <2>3. RecordRun(a, t, c, outcome)
    BY <2>1
  <2> HIDE DEF outcome, v
  <2> QED BY <1>1, <1>3, <2>2, <2>3, RunFair
<1>5. CASE FinishSettled(a, t)
  <2> DEFINE outcome == IF Judge(v, t, a) = "confirmed"
                        THEN "done" ELSE "superseded"
  <2>1. PICK c : RecordRun(a, t, c, outcome)
    BY <1>5 DEF FinishSettled
  <2>2. Judge(v, t, a) \in {"confirmed", "lost"}
    BY <1>5 DEF FinishSettled
  <2> HIDE DEF outcome, h
  <2>3. Judge(v, t, a) = "confirmed" => Won(t, clock + 1, Ledger)
    BY <1>2, ConfirmedIsWon
  <2> HIDE DEF v
  <2>4. Judge(v, t, a) = "lost" =>
           /\ LatestClaim(v, t, a) # None
           /\ LatestClaim(v, t, a) \notin ActiveClaims(v, t)
    BY DEF Judge
  <2> QED BY <1>1, <1>3, <2>1, <2>2, <2>3, <2>4, RunFair DEF h
<1> QED BY <1>4, <1>5

\* A verdict of "confirmed" is for a claim that came late enough.
LEMMA ConfirmedIsLate ==
    ASSUME NEW n, NEW ttl, NEW h, Whole(h, n, ttl), NEW g, Alone(h, g),
           NEW now \in Nat, NEW t, NEW a,
           Judge(View(h, now), t, a) = "confirmed"
    PROVE  IsLate(LatestClaim(View(h, now), t, a), g)
<1> DEFINE v == View(h, now)
           c == LatestClaim(v, t, a)
<1>1. \A d \in DOMAIN v.claims :
         /\ d \in Ids
         /\ v.claims[d].confirmation # None =>
               \E e \in h.events : e.type = "claim.confirmed" /\ e.claim = d
  BY ViewFacts
<1> HIDE DEF v
<1>2. c # None /\ v.claims[c].confirmation # None
  BY DEF Judge, v
<1>3. c \in DOMAIN v.claims
  <2>1. DOMAIN v.claims \subseteq Ids
    BY <1>1
  <2>2. c \in OwnClaims(v, t, a)
    BY <1>2, <2>1, LatestIsOwn
  <2> QED BY <2>2 DEF OwnClaims
<1> HIDE DEF c
<1>4. IsLate(c, g)
  <2>1. PICK e \in h.events : e.type = "claim.confirmed" /\ e.claim = c
    BY <1>1, <1>2, <1>3
  <2>2. LateClaim(e.claim, e.task, g)
    BY <2>1 DEF Alone
  <2> QED BY <2>1, <2>2 DEF IsLate
<1> QED BY <1>4 DEF c, v

\* Only tasks are judged.
LEMMA ClaimedIsTask ==
    ASSUME NEW n, NEW ttl, NEW h, Whole(h, n, ttl), NEW now \in Nat,
           NEW t, NEW a, LatestClaim(View(h, now), t, a) # None
    PROVE  t \in Tasks
<1> DEFINE v == View(h, now)
           c == LatestClaim(v, t, a)
<1>1. \A d \in DOMAIN v.claims :
         /\ d \in Ids
         /\ \E f \in h.events : /\ f.type = "claim.made" /\ f.id = d
                                /\ f.task = v.claims[d].task
  BY ViewFacts
<1> HIDE DEF v
<1>2. c \in DOMAIN v.claims /\ v.claims[c].task = t
  <2>1. DOMAIN v.claims \subseteq Ids
    BY <1>1
  <2>2. c \in OwnClaims(v, t, a)
    BY <2>1, LatestIsOwn DEF v
  <2> QED BY <2>2 DEF OwnClaims
<1>3. PICK f \in h.events : f.task = t
  BY <1>1, <1>2
<1> QED BY <1>3 DEF Whole, Sound, AreEvents, IsEvent

\* A gate closes, or goes on to judge.
LEMMA WaitEnds ==
    ASSUME FleetInv, NEW a \in Actors, NEW s, gate' = [gate EXCEPT ![a] = s],
           s.stage \in {"idle", "judge"}, NEW n, NEW g, NEW K
    PROVE  GatesWait(n, g, K)
<1>1. gate'[a] = s /\ \A b \in Actors : b # a => gate'[b] = gate[b]
  BY AtHand
<1> QED BY <1>1 DEF GatesWait, Waits

\* An answer of "confirmed", or of "lost" to who was outrun.
LEMMA AnswerWaits ==
    ASSUME FleetInv, NEW a \in Actors, NEW verdict, NEW c,
           Answer(a, verdict, c), NEW n, NEW g, NEW K,
           \/ verdict = "confirmed"
           \/ Won(gate[a].task, n + 1, g)
           \/ OutRun(a, gate[a].task, local'[Home[a]].events)
    PROVE  GatesWait(n, g, K)
<1> DEFINE s == IF gate[a].finishing
                THEN [stage |-> "record", task |-> gate[a].task,
                      verdict |-> verdict]
                ELSE Idle
<1>1. gate' = [gate EXCEPT ![a] = s] /\ DOMAIN gate = Actors
  BY AtHand DEF Answer
<1>2. s.stage # "push"
  BY DEF Idle
<1>3. s.stage = "record" => s.task = gate[a].task /\ s.verdict = verdict
  BY DEF Idle
<1> HIDE DEF s
<1>4. gate'[a] = s /\ \A b \in Actors : b # a => gate'[b] = gate[b]
  BY <1>1
<1> QED BY <1>2, <1>3, <1>4 DEF GatesWait, Waits

LEMMA WaitFair ==
    ASSUME FleetInv, FirstsInv, FairInv, Lasting, Wait
    PROVE  FairInv'
<1>1. /\ world' = world /\ clock' = Now /\ local' = local /\ gate' = gate
      /\ remote' = remote /\ Now <= Last /\ told' = told
  BY DEF Wait
<1>2. clock' \in Nat /\ clock <= clock'
  BY <1>1, AtHand, NextInstant
<1>3. GatesWait(clock', Ledger, Known)
  BY <1>1 DEF GatesWait
<1> QED BY <1>1, <1>2, <1>3, FairStill

LEMMA GateStillFair ==
    ASSUME FleetInv, FirstsInv, FairInv, Lasting, NEW a \in Actors,
           \/ \E t \in Tasks : ConfirmSettled(a, t)
           \/ \E t \in Tasks, finishing \in BOOLEAN : EnterGate(a, t, finishing)
           \/ GateRetry(a) \/ GateRefuse(a)
    PROVE  FairInv'
<1>1. /\ world' = world /\ clock' = clock /\ local' = local
      /\ remote' = remote
  BY DEF ConfirmSettled, EnterGate, GateRetry, GateRefuse
<1>2. clock' \in Nat /\ clock <= clock'
  BY <1>1, AtHand
<1>3. GatesWait(clock', Ledger, Known)
  <2>1. CASE \E t \in Tasks : ConfirmSettled(a, t)
    BY <2>1 DEF ConfirmSettled, GatesWait
  <2>2. ASSUME NEW t \in Tasks, NEW finishing \in BOOLEAN,
               EnterGate(a, t, finishing)
        PROVE  GatesWait(clock', Ledger, Known)
    <3> DEFINE s == [stage |-> "judge", task |-> t, finishing |-> finishing]
    <3>1. gate' = [gate EXCEPT ![a] = s] /\ s.stage = "judge"
      BY <2>2 DEF EnterGate
    <3> HIDE DEF s
    <3> QED BY <3>1, WaitEnds
  <2>3. CASE GateRetry(a)
    <3> DEFINE s == [stage |-> "judge", task |-> gate[a].task,
                     finishing |-> gate[a].finishing]
    <3>1. gate' = [gate EXCEPT ![a] = s] /\ s.stage = "judge"
      BY <2>3 DEF GateRetry
    <3> HIDE DEF s
    <3> QED BY <3>1, WaitEnds
  <2>4. CASE GateRefuse(a)
    <3>1. gate' = [gate EXCEPT ![a] = Idle] /\ Idle.stage = "idle"
      BY <2>4 DEF GateRefuse, Idle
    <3> QED BY <3>1, WaitEnds
  <2> QED BY <2>1, <2>2, <2>3, <2>4
<1>4. \A c \in told' : c \in told \/ IsLate(c, Ledger)
  <2>1. ASSUME NEW t \in Tasks, ConfirmSettled(a, t)
        PROVE  \A c \in told' : c \in told \/ IsLate(c, Ledger)
    <3> DEFINE c == LatestClaim(View(local[Home[a]], clock), t, a)
    <3>1. told' = told \cup {c}
      BY <2>1 DEF ConfirmSettled
    <3>2. IsLate(c, Ledger)
      <4>1. Judge(View(local[Home[a]], clock), t, a) = "confirmed"
        BY <2>1 DEF ConfirmSettled
      <4>2. /\ Whole(local[Home[a]], clock, TTL) /\ clock \in Nat
            /\ Alone(local[Home[a]], Ledger)
        BY HomeFacts, FairAtHand
      <4> QED BY <4>1, <4>2, ConfirmedIsLate
    <3> HIDE DEF c
    <3> QED BY <3>1, <3>2
  <2> QED BY <2>1 DEF EnterGate, GateRetry, GateRefuse
<1> QED BY <1>1, <1>2, <1>3, <1>4, FairStill

LEMMA GateJudgeFair ==
    ASSUME FleetInv, FirstsInv, FairInv, Lasting, NEW a \in Actors,
           GateJudge(a)
    PROVE  FairInv'
<1> DEFINE m == Home[a]
           t == gate[a].task
<1>1. PICK h \in {local[m], Reconciled(local[m], remote)} :
         /\ local' = [local EXCEPT ![m] = h]
         /\ \/ Judged(a, View(h, clock))
            \/ /\ Judge(View(h, clock), t, a) = "proceed"
               /\ Now <= Last
               /\ clock' = Now
               /\ gate' = [gate EXCEPT ![a] =
                     [stage |-> "push", task |-> gate[a].task,
                      finishing |-> gate[a].finishing, head |-> h,
                      event |-> Confirmation(a, View(h, clock))]]
               /\ told' = told
  BY DEF GateJudge
<1>2. world' = world /\ remote' = remote
  BY DEF GateJudge
<1> DEFINE v == View(h, clock)
           K == Known \cup {h}
           c == LatestClaim(v, t, a)
<1>3. /\ m \in Machines /\ remote \in Known /\ clock \in Nat /\ Last \in Nat
      /\ local[m] \in Known /\ Ledger \in Known /\ DOMAIN gate = Actors
      /\ DOMAIN local = Machines
      /\ Fair(Known, Last, clock, Ledger)
      /\ \A k \in Known : Whole(k, clock, TTL) /\ Fits(k, Ledger)
  BY AtHand, FairAtHand
<1>4. Whole(h, clock, TTL) /\ Fits(h, Ledger) /\ Whole(Ledger, clock, TTL)
  <2>1. Whole(h, clock, TTL)
    BY <1>3, AdoptFacts
  <2>2. Fits(h, Ledger)
    BY <1>3, ReconciledFirsts
  <2> QED BY <1>3, <2>1, <2>2
<1>5. /\ Leased(h, Last, clock) /\ Tombs(h) /\ EndsLate(h, Ledger)
      /\ Alone(h, Ledger) /\ ClaimsOnce(h, h, Ledger)
  <2>1. Fair(Known \cup {Reconciled(local[m], remote)}, Last, clock, Ledger)
    BY <1>3, ReconciledFair
  <2>2. h \in Known \cup {Reconciled(local[m], remote)}
    BY <1>3
  <2> QED BY <2>1, <2>2 DEF Fair, Sporting
<1>6. local'[m] = h
  BY <1>1, <1>3
<1>7. ASSUME clock' \in Nat, clock <= clock',
             clock' = clock \/ clock' <= Last, GatesWait(clock', Ledger, K),
             \A d \in told' : d \in told \/ IsLate(d, Ledger)
      PROVE  FairInv'
  <2> HIDE DEF m
  <2> QED BY <1>1, <1>2, <1>3, <1>7, FairAdopt
<1> HIDE DEF K, v, m
<1>8. CASE Judged(a, v)
  <2> DEFINE g == Ledger
             n == clock
             verdict == Judge(v, t, a)
  <2>1. clock' = clock
    BY <1>8 DEF Judged
  <2>2. verdict = "confirmed" => IsLate(c, g)
    BY <1>3, <1>4, <1>5, ConfirmedIsLate DEF v
  <2>3. verdict = "lost" => Won(t, n + 1, g) \/ OutRun(a, t, h.events)
    <3> SUFFICES ASSUME verdict = "lost"
                 PROVE  Won(t, n + 1, g) \/ OutRun(a, t, h.events)
      OBVIOUS
    <3>1. c # None /\ c \notin ActiveClaims(v, t)
      BY DEF Judge
    <3>2. t \in Tasks
      BY <1>3, <1>4, <3>1, ClaimedIsTask DEF v
    <3> QED BY <1>3, <1>4, <1>5, <3>1, <3>2, Loses DEF v
  <2> HIDE DEF g, n
  <2>4. CASE gate' = [gate EXCEPT ![a] = Idle] /\ told' = told
    <3>1. Idle.stage = "idle"
      BY DEF Idle
    <3>2. GatesWait(n, g, K)
      BY <2>4, <3>1, WaitEnds
    <3> QED BY <1>3, <1>7, <2>1, <2>4, <3>2 DEF g, n
  <2>5. CASE verdict \in {"confirmed", "lost"} /\ Answer(a, verdict, c)
    <3>1. \/ verdict = "confirmed"
          \/ Won(gate[a].task, n + 1, g)
          \/ OutRun(a, gate[a].task, local'[Home[a]].events)
      BY <1>6, <2>3, <2>5 DEF m
    <3>2. \A d \in told' : d \in told \/ IsLate(d, g)
      BY <2>2, <2>5 DEF Answer
    <3> HIDE DEF verdict, c
    <3>3. GatesWait(n, g, K)
      BY <2>5, <3>1, AnswerWaits
    <3> QED BY <1>3, <1>7, <2>1, <3>2, <3>3 DEF g, n
  <2> QED BY <1>8, <2>4, <2>5 DEF Judged
<1>9. CASE /\ Judge(v, t, a) = "proceed"
           /\ Now <= Last /\ clock' = Now /\ told' = told
           /\ gate' = [gate EXCEPT ![a] =
                 [stage |-> "push", task |-> gate[a].task,
                  finishing |-> gate[a].finishing, head |-> h,
                  event |-> Confirmation(a, v)]]
  <2> DEFINE e == Confirmation(a, v)
  <2>1. e.task = t /\ e.claim = c /\ Now = clock + 1
    BY DEF Confirmation, Now
  <2> HIDE DEF e, Now
  <2>2. /\ gate'[a].stage = "push" /\ gate'[a].head = h
        /\ gate'[a].event = e
        /\ \A b \in Actors : b # a => gate'[b] = gate[b]
    BY <1>3, <1>9 DEF e
  <2>3. t \in Tasks
    <3>1. c # None
      BY <1>9 DEF Judge
    <3> QED BY <1>3, <1>4, <3>1, ClaimedIsTask DEF v
  <2>4. \A f \in h.events : First(f, h) /\ f.task = t =>
           ClaimedAfter(c, f, h)
    <3> HIDE DEF t
    <3>1. Judge(View(h, clock), t, a) = "proceed"
      BY <1>9 DEF v
    <3> QED BY <1>3, <1>4, <1>5, <2>3, <3>1, ProceedsLate DEF v
  <2> HIDE DEF c, t
  <2>5. Waits(a, gate', local', clock', Ledger)
    BY <2>1, <2>2, <2>4 DEF Waits
  <2>6. GatesWait(clock', Ledger, K)
    BY <2>2, <2>5 DEF GatesWait, K
  <2>7. clock' \in Nat /\ clock <= clock' /\ clock' <= Last
    BY <1>3, <1>9, <2>1
  <2> QED BY <1>7, <1>9, <2>6, <2>7
<1> QED BY <1>1, <1>8, <1>9 DEF v

\* The confirmation e that actor a's gate carries lands on head h, and x is
\* what that makes of the ledger g.
Lands(a, e, h, K, g, x) ==
    /\ h \in K /\ Ancestor(g, h)
    /\ e.type = "claim.confirmed" /\ e.actor = a /\ Grounded(e, h.events)
    /\ Outstanding(e, K)
    /\ \A q \in h.events : q.id < e.id
    /\ \A f \in h.events : First(f, h) /\ f.task = e.task =>
          ClaimedAfter(e.claim, f, h)
    /\ x = On(h, {e}, h.leases, e.id)
    /\ FirstsStay(g, x)

\* A confirmation lands.
LEMMA LandingFacts ==
    ASSUME FleetInv, FirstsInv, FairInv, Lasting, FleetInv',
           NEW a \in Actors, GatePush(a),
           NEW h, h = gate[a].head, NEW e, e = gate[a].event,
           NEW x, x = remote'
    PROVE  /\ Lands(a, e, h, Known, remote, x)
           /\ Extends(remote, x)
           /\ LateClaim(e.claim, e.task, x)
           /\ Fair(Known \cup {x}, Last, clock, x)
           /\ HeadsFit(Known \cup {x}, clock, TTL)
           /\ Owned(Known \cup {x}, local, Home)
           /\ \A k \in Known \cup {x} : Fits(k, x)
<1> DEFINE n == clock
           K == Known \cup {x}
<1>1. /\ gate[a].stage = "push" /\ Ancestor(remote, h)
      /\ remote' = With(h, e, h.leases) /\ world' = world /\ clock' = clock
  BY DEF GatePush
<1>2. x = On(h, {e}, h.leases, e.id)
  BY <1>1 DEF With, On
<1>3. /\ clock \in Nat /\ DOMAIN local = Machines /\ Last \in Nat
      /\ \A k \in Known : Whole(k, clock, TTL) /\ Fits(k, Ledger)
      /\ Carried(a, gate, Known, clock) /\ Promised(a, gate, clock, Ledger)
      /\ Waits(a, gate, local, clock, Ledger)
      /\ Fair(Known, Last, clock, Ledger)
      /\ Ledger = remote /\ remote \in Known
      /\ HeadsFit(Known, clock, TTL)
  BY AtHand, FairAtHand DEF FirstsInv
<1>4. /\ \A q \in h.events : q.id < e.id
      /\ h \in Known /\ e.type = "claim.confirmed" /\ e.actor = a
      /\ Grounded(e, h.events) /\ Outstanding(e, Known)
      /\ \A k \in Known : e.id \notin k.seen
      /\ \A f \in h.events : First(f, h) /\ f.task = e.task =>
            ClaimedAfter(e.claim, f, h)
  BY <1>1, <1>3 DEF Promised, Carried, Outstanding, Waits
<1>5. Whole(x, n, TTL)
  <2>1. remote' \in Known' /\ \A k \in Known' : Whole(k, clock', TTL')
    BY AtHandNext
  <2>2. TTL' = TTL
    BY <1>1 DEF TTL
  <2> QED BY <1>1, <2>1, <2>2
<1>6. FirstsStay(remote, x) /\ \A k \in K : Fits(k, x)
  <2> DEFINE D == {e}
             L == h.leases
             i == e.id
  <2>1. /\ remote \in Known /\ h \in Known /\ Ancestor(remote, h)
        /\ \A k \in Known : Whole(k, clock, TTL) /\ Fits(k, remote)
    BY <1>1, <1>3, <1>4
  <2>2. /\ \A d \in D : d.type = "claim.confirmed" =>
              /\ \A q \in h.events : q.id < d.id
              /\ \A k \in Known : d.id \notin k.seen
        /\ \A r \in D : r.type = "run.finished" /\ r.outcome = "done" =>
              Won(r.task, r.id, remote)
    BY <1>4
  <2>3. x = On(h, D, L, i)
    BY <1>2
  <2> DEFINE y == On(h, D, L, i)
  <2>4. Whole(On(h, D, L, i), n, TTL)
    BY <1>5, <2>3
  <2> HIDE DEF D, L, i, n
  <2>5. FirstsStay(remote, y) /\ \A k \in Known \cup {y} : Fits(k, y)
    BY <1>3, <2>1, <2>2, <2>4, Landing
  <2> QED BY <2>3, <2>5
<1>7. Extends(remote, x)
  <2>1. \A q \in remote.events : q.type # "claim.confirmed" => q \in h.events
    BY <1>1, <1>3, <1>4 DEF HeadsFit, Agree, Ancestor, Whole
  <2> QED BY <1>2, <1>6, <2>1 DEF Extends, On
<1>8. LateClaim(e.claim, e.task, x) /\ Fair(K, Last, n, x)
  <2>1. /\ n \in Nat /\ Fair(Known, Last, n, remote) /\ Extends(remote, x)
        /\ \A k \in Known : Whole(k, n, TTL)
    BY <1>3, <1>7
  <2> HIDE DEF n
  <2> QED BY <1>2, <1>3, <1>4, <1>5, <2>1, LandedFair, ZenonT(60)
<1>9. HeadsFit(K, n, TTL) /\ Owned(K, local, Home)
  <2> DEFINE new == [gate EXCEPT ![a] = Idle]
  <2>1. /\ world \in Worlds /\ n \in Nat /\ Sane(world, Known, n, local, gate)
        /\ TTL = world.ttl /\ DOMAIN gate = Actors /\ Home = world.home
    BY AtHand
  <2>2. /\ DOMAIN new = Actors /\ \A b \in Actors \ {a} : new[b] = gate[b]
        /\ new[a].stage = "idle"
    BY <2>1 DEF Idle
  <2> HIDE DEF new, n
  <2>3. Sane(world, K, n, local, new)
    BY <1>1, <1>2, <2>1, <2>2, SanePush
  <2> QED BY <2>1, <2>3 DEF Sane
<1>10. Lands(a, e, h, Known, remote, x)
  BY <1>1, <1>2, <1>4, <1>6 DEF Lands
<1> QED BY <1>6, <1>7, <1>8, <1>9, <1>10

LEMMA GatePushFair ==
    ASSUME FleetInv, FirstsInv, FairInv, Lasting, FleetInv',
           NEW a \in Actors, GatePush(a)
    PROVE  FairInv'
<1> DEFINE m == Home[a]
           h == gate[a].head
           e == gate[a].event
           x == remote'
           K == Known \cup {x}
           n == clock
<1>1. /\ \/ Answer(a, "confirmed", e.claim)
         \/ gate' = [gate EXCEPT ![a] = Idle] /\ told' = told
      /\ world' = world /\ clock' = clock
  BY DEF GatePush
<1>2. PICK y \in {local[m], Reconciled(local[m], x)} :
         local' = [local EXCEPT ![m] = y]
  BY DEF GatePush
<1>3. /\ m \in Machines /\ n \in Nat /\ DOMAIN local = Machines
      /\ Last \in Nat
      /\ \A k \in Machines : local[k] \in Known
      /\ Ledger = remote /\ HasRemote
  BY AtHand, FairAtHand
<1>4. /\ Lands(a, e, h, Known, remote, x) /\ Extends(remote, x)
      /\ LateClaim(e.claim, e.task, x)
      /\ Fair(K, Last, n, x) /\ HeadsFit(K, n, TTL)
  BY LandingFacts
<1>5. Ledger' = x
  BY <1>1, <1>3, LedgerNext
<1> DEFINE J == K \cup {y}
<1>6. Fair(J, Last, n, x)
  <2>1. Fair(K \cup {Reconciled(local[m], x)}, Last, n, x)
    <3>1. /\ local[m] \in K /\ x \in K
          /\ \A k \in K : Whole(k, n, TTL)
      BY <1>3, <1>4 DEF HeadsFit
    <3> HIDE DEF K, x, n, m
    <3> QED BY <1>3, <1>4, <3>1, ReconciledFair
  <2>2. J \in SUBSET (K \cup {Reconciled(local[m], x)})
    BY <1>2, <1>3
  <2> HIDE DEF J, K, x, n, m
  <2> QED BY <2>1, <2>2, FewerFair
<1>7. \A q \in x.events : q.type = "claim.made" =>
         \E k \in Known : q \in k.events
  BY <1>4 DEF Lands, On
<1>8. \A k \in Machines : local'[k] \in J
  BY <1>2, <1>3
<1>9. Known \subseteq J /\ remote' \in J /\ x \in K /\ Known \subseteq K
  OBVIOUS
<1> HIDE DEF h, m, K, J
<1>10. LossesStay
  BY <1>2, <1>3, <1>4, <1>7, <1>9, LossesOutlive DEF n
<1>11. \A d \in told' : d \in told \/ IsLate(d, x)
  BY <1>1, <1>4 DEF Answer, IsLate
<1> HIDE DEF e, n, x
<1>12. GatesWait(n, x, J)
  <2>1. CASE Answer(a, "confirmed", e.claim)
    BY <2>1, AnswerWaits
  <2>2. CASE gate' = [gate EXCEPT ![a] = Idle]
    <3>1. Idle.stage = "idle"
      BY DEF Idle
    <3> QED BY <2>2, <3>1, WaitEnds
  <2> QED BY <1>1, <2>1, <2>2
<1>13. /\ clock' \in Nat /\ clock <= clock' /\ GatesWait(clock', x, J)
       /\ Fair(J, Last, clock', x) /\ Extends(Ledger, x)
  BY <1>1, <1>3, <1>4, <1>6, <1>12 DEF n
<1> QED BY <1>1, <1>5, <1>8, <1>9, <1>10, <1>11, <1>13, FairStep

LEMMA GateRecordFair ==
    ASSUME FleetInv, FirstsInv, FairInv, Lasting, NEW a \in Actors,
           GateRecord(a)
    PROVE  FairInv'
<1>0. PICK now \in Judgings :
         LET u == gate[a].task
             w == View(local[Home[a]], now)
             x == IF gate[a].verdict = "confirmed" THEN "done"
                  ELSE "superseded"
         IN  \/ clock' = clock /\ local' = local
             \/ \E c \in Closable(w, u, a) : RecordRun(a, u, c, x)
  BY DEF GateRecord
<1> DEFINE t == gate[a].task
           v == View(local[Home[a]], now)
           outcome == IF gate[a].verdict = "confirmed"
                      THEN "done" ELSE "superseded"
<1>1. /\ gate[a].stage = "record" /\ Now <= Last
      /\ gate' = [gate EXCEPT ![a] = Idle]
      /\ world' = world /\ remote' = remote /\ told' = told
      /\ \/ clock' = clock /\ local' = local
         \/ \E c \in Closable(v, t, a) : RecordRun(a, t, c, outcome)
  BY <1>0 DEF GateRecord
<1>2. \/ Won(t, clock + 1, Ledger)
      \/ OutRun(a, t, local[Home[a]].events)
  <2>1. /\ Promised(a, gate, clock, Ledger)
        /\ Waits(a, gate, local, clock, Ledger)
    BY FairAtHand DEF FirstsInv
  <2> QED BY <1>1, <2>1 DEF Promised, Waits
<1>3. Idle.stage = "idle"
  BY DEF Idle
<1>4. \A b \in Actors : \/ gate'[b] = gate[b]
                        \/ gate'[b].stage \in {"idle", "judge"}
  <2>1. gate'[a] = Idle /\ \A b \in Actors : b # a => gate'[b] = gate[b]
    BY <1>1, AtHand
  <2> QED BY <1>3, <2>1
<1> HIDE DEF v, outcome
<1>5. CASE clock' = clock /\ local' = local
  <2>1. clock' \in Nat /\ clock <= clock'
    BY <1>5, AtHand
  <2>2. GatesWait(clock', Ledger, Known)
    BY <1>1, <1>3, WaitEnds
  <2> QED BY <1>1, <1>5, <2>1, <2>2, FairStill
<1>6. ASSUME NEW c, RecordRun(a, t, c, outcome)
      PROVE  FairInv'
  <2> HIDE DEF t, Now
  <2> QED BY <1>1, <1>2, <1>4, <1>6, RunFair
<1> QED BY <1>1, <1>5, <1>6

LEMMA SyncFair ==
    ASSUME FleetInv, FirstsInv, FairInv, Lasting, NEW m \in Machines,
           Pull(m) \/ Push(m)
    PROVE  FairInv'
<1>1. /\ world' = world /\ clock' = clock /\ gate' = gate /\ told' = told
  BY DEF Pull, Push
<1>2. /\ clock' \in Nat /\ clock <= clock'
      /\ \A k \in Machines : local[k] \in Known
      /\ remote \in Known /\ Ledger = remote /\ HasRemote
  BY <1>1, AtHand, FairAtHand
<1>3. \A g, K : GatesWait(clock', g, K)
  BY <1>1 DEF GatesWait
<1>4. CASE Pull(m)
  <2> DEFINE x == Reconciled(local[m], remote)
  <2>1. local' = [local EXCEPT ![m] = x] /\ remote' = remote
    BY <1>4 DEF Pull
  <2>2. x \in {local[m], Reconciled(local[m], remote)}
    OBVIOUS
  <2> HIDE DEF x
  <2> QED BY <1>1, <1>2, <1>3, <2>1, <2>2, FairAdopt
<1>5. CASE Push(m)
  <2> DEFINE x == local[m]
             K == Known
  <2>1. remote' = x /\ local' = local /\ Ancestor(remote, x)
    BY <1>5 DEF Push
  <2>2. Ledger' = x
    BY <1>1, <1>2, <2>1, LedgerNext
  <2>3. /\ x \in Known /\ HeadsFit(Known, clock, TTL)
        /\ \A k \in Known : Whole(k, clock, TTL) /\ Fits(k, remote)
    BY <1>2, AtHand, FairAtHand
  <2>4. Extends(Ledger, x)
    <3>1. FirstsStay(remote, x)
      BY <1>2, <2>1, <2>3, LedgerMoves
    <3>2. \A q \in remote.events : q.type # "claim.confirmed" =>
             q \in x.events
      BY <1>2, <2>1, <2>3 DEF HeadsFit, Agree, Ancestor, Whole
    <3> QED BY <1>2, <3>1, <3>2 DEF Extends
  <2>5. Fair(K, Last, clock', x)
    BY <1>1, <2>4, FairAtHand, LaterFair
  <2>6. LossesStay
    BY <2>1 DEF LossesStay
  <2>7. /\ Known \subseteq K /\ remote' \in K
        /\ \A k \in Machines : local'[k] \in K
        /\ \A c \in told' : c \in told \/ IsLate(c, x)
    BY <1>1, <1>2, <2>1
  <2> HIDE DEF x, K
  <2> QED BY <1>1, <1>2, <1>3, <2>2, <2>4, <2>5, <2>6, <2>7, FairStep
<1> QED BY <1>4, <1>5

\* Nobody's machine, clock rate or licence changes.
LEMMA WorldStays ==
    ASSUME [Next]_vars
    PROVE  world' = world
<1>1. CASE Wait \/ UNCHANGED vars
  BY <1>1, SMTT(60) DEF Wait, vars
<1>2. ASSUME NEW a \in Actors, NEW t \in Tasks,
             \/ Claim(a, t) \/ Release(a, t) \/ Renew(a, t)
             \/ FinishFailed(a, t) \/ FinishSettled(a, t)
             \/ ConfirmSettled(a, t)
             \/ \E finishing \in BOOLEAN : EnterGate(a, t, finishing)
      PROVE  world' = world
  BY <1>2 DEF Claim, Release, Renew, FinishFailed, FinishSettled,
     ConfirmSettled, EnterGate
<1>3. ASSUME NEW a \in Actors,
             \/ GateJudge(a) \/ GatePush(a) \/ GateRetry(a)
             \/ GateRefuse(a) \/ ConfirmLocally(a) \/ GateRecord(a)
      PROVE  world' = world
  BY <1>3 DEF GateJudge, GatePush, GateRetry, GateRefuse, ConfirmLocally,
     GateRecord
<1>4. ASSUME NEW m \in Machines, Pull(m) \/ Push(m)
      PROVE  world' = world
  BY <1>4 DEF Pull, Push
<1> QED BY <1>1, <1>2, <1>3, <1>4 DEF Next

LEMMA FairNext ==
    /\ FleetInv /\ FirstsInv /\ FairInv /\ FleetInv' /\ [Next]_vars
    => FairInv'
<1> SUFFICES ASSUME FleetInv, FirstsInv, FairInv, FleetInv', [Next]_vars
             PROVE  FairInv'
  OBVIOUS
<1>1. world' = world
  BY WorldStays
<1>2. Lasting' = Lasting
  BY <1>1 DEF Lasting, HasRemote, MayAbandon, TTL, Last
<1> SUFFICES ASSUME Lasting
             PROVE  FairInv'
  BY <1>2 DEF FairInv
<1>3. CASE UNCHANGED vars
  <2>1. /\ clock' = clock /\ local' = local /\ remote' = remote
        /\ gate' = gate /\ told' = told
    BY <1>3 DEF vars
  <2>2. GatesWait(clock', Ledger, Known)
    BY <2>1 DEF GatesWait
  <2>3. clock' \in Nat /\ clock <= clock'
    BY <2>1, AtHand
  <2> QED BY <1>1, <2>1, <2>2, <2>3, FairStill
<1>4. CASE Wait
  BY <1>4, WaitFair
<1>5. ASSUME NEW a \in Actors, NEW t \in Tasks,
             \/ Claim(a, t) \/ Release(a, t) \/ Renew(a, t)
             \/ FinishFailed(a, t) \/ FinishSettled(a, t)
             \/ ConfirmSettled(a, t)
             \/ \E finishing \in BOOLEAN : EnterGate(a, t, finishing)
      PROVE  FairInv'
  BY <1>5, ClaimFair, ReleaseFair, RenewFair, FinishFair, GateStillFair
<1>6. ASSUME NEW a \in Actors,
             \/ GateJudge(a) \/ GatePush(a) \/ GateRetry(a) \/ GateRefuse(a)
             \/ ConfirmLocally(a) \/ GateRecord(a)
      PROVE  FairInv'
  <2>1. ~ ConfirmLocally(a)
    BY DEF ConfirmLocally, Lasting
  <2> QED BY <1>6, <2>1, GateJudgeFair, GatePushFair, GateStillFair,
             GateRecordFair
<1>7. ASSUME NEW m \in Machines, Pull(m) \/ Push(m)
      PROVE  FairInv'
  BY <1>7, SyncFair
<1> QED BY <1>3, <1>4, <1>5, <1>6, <1>7 DEF Next

LEMMA FairInit == Init => FairInv
<1> SUFFICES ASSUME Init, Lasting
             PROVE  FairInv
  BY DEF FairInv
<1>1. /\ local = [m \in Machines |-> FirstHead] /\ remote = FirstHead
      /\ gate = [a \in Actors |-> Idle] /\ told = {}
  BY DEF Init
<1> DEFINE h == FirstHead
<1>2. \A e \in h.events : e.type = "task.created"
  BY DEF FirstHead
<1>3. \A c \in Ids : ~ h.leases[c].released
  BY DEF FirstHead, NoRecord
<1> HIDE DEF h
<1>4. \A k \in Known : k = h
  BY <1>1 DEF Known, Heads, Idle, h
<1>5. Sporting(h, Last, clock, Ledger)
  BY <1>2, <1>3 DEF Sporting, Leased, Tombs, EndsLate, Alone, IsEnd
<1>6. EndsAware(h, h) /\ ClaimsOnce(h, h, Ledger)
  BY <1>2 DEF EndsAware, ClaimsOnce
<1>7. Fair(Known, Last, clock, Ledger)
  BY <1>4, <1>5, <1>6 DEF Fair
<1>8. \A a \in Actors : Waits(a, gate, local, clock, Ledger)
  BY <1>1 DEF Waits, Idle
<1> QED BY <1>1, <1>7, <1>8 DEF FairInv

\* However many machines meet over a remote, as long as attempts end in a done
\* run or a loss and leases outlast them: no head, whatever claims and
\* confirmations of others are merged into it and in whichever order, lets
\* replay give a task to anybody but its first winner first, and no machine
\* tells anybody to merge who is not that winner, or claimed the task once the
\* winner's attempt was over.
THEOREM FirstWinnerHolds == Spec => []FirstWinnerStands
<1>1. Init => FleetInv /\ FirstsInv /\ FairInv
  BY FleetInit, FirstsInit, FairInit
<1>2. FleetInv /\ FirstsInv /\ FairInv /\ [Next]_vars
      => FleetInv' /\ FirstsInv' /\ FairInv'
  BY FleetNext, FirstsNext, FairNext DEF Kept, FirstsKept
<1>3. FleetInv /\ FirstsInv /\ FairInv => FirstWinnerStands
  <2> SUFFICES ASSUME FleetInv, FirstsInv, FairInv, Lasting
               PROVE  FirstWinnerStands
    BY DEF FirstWinnerStands
  <2>1. /\ Fair(Known, Last, clock, Ledger) /\ Ledger \in Known
        /\ clock \in Nat /\ Last \in Nat
        /\ \A h \in Heads : h \in Known
        /\ \A k \in Known : Whole(k, clock, TTL) /\ Fits(k, Ledger)
    BY FairAtHand DEF Known
  <2>2. ASSUME NEW h \in Heads, NEW e \in h.events, First(e, h)
        PROVE  LET c == Fold(h.events, Expiries(h)).claims[e.claim]
               IN  c.confirmation = e.id /\ c.status # "voided"
    <3>1. Leased(h, Last, clock) /\ Tombs(h) /\ EndsLate(h, Ledger)
      BY <2>1 DEF Fair, Sporting
    <3> QED BY <2>1, <2>2, <3>1, FirstIsApplied
  <2>3. ASSUME NEW c \in told
        PROVE  \E q, e \in Ledger.events :
                  /\ q.type = "claim.made" /\ q.id = c
                  /\ First(e, Ledger) /\ e.task = q.task
                  /\ ClaimedAfter(c, e, Ledger)
    <3>1. PICK t : LateClaim(c, t, Ledger)
      BY FairAtHand DEF IsLate
    <3> QED BY <3>1 DEF LateClaim, IsClaim
  <2> QED BY <2>2, <2>3 DEF FirstWinnerStands
<1> QED BY <1>1, <1>2, <1>3, PTL DEF Spec

-----------------------------------------------------------------------------
(***************************************************************************)
(* Every winner, where two machines meet over a remote.                    *)
(*                                                                         *)
(* Plays says what else there is to a head in such a fleet: a machine      *)
(* claims a task once (Single), the first winner ends its attempt with a   *)
(* done run after it won (Reports), who else ends one had lost or knows    *)
(* who won (Knows), a confirmation is for the first winner's claim or for  *)
(* one made once that attempt was over (Heirs), and heads differ from the  *)
(* ledger in the confirmations they have not heard of only (Published,     *)
(* Informed).  Of three claims of a task two are the same, so what is true *)
(* of the first winner is true of the second as well.                      *)
(*                                                                         *)
(* What keeps it so is where the machines and gates are.  The first        *)
(* winner's machine has heard that it won, or has no earlier claim (Proud),*)
(* the other one hears of its report no sooner than of its win (Heard),    *)
(* and who won later has heard that the first attempt was over (Succeeds). *)
(* Hence no merge refuses a confirmation there at all (NothingIsRefused).  *)
(***************************************************************************)
\* Nobody edits, cancels or asks about a task.
Plain(h) ==
    \A e \in h.events :
        e.type \in {"task.created", "claim.made", "claim.confirmed",
                    "claim.released", "run.finished"}

\* A machine claims a task at most once.
Single(h, k, home) ==
    \A p \in h.events, q \in k.events :
        /\ p.type = "claim.made" /\ IsClaim(q, p.task)
        /\ home[p.actor] = home[q.actor]
        => p = q

\* A first winner ends its attempt with a done run, after it won.
Reports(h, g) ==
    \A f \in g.events, r \in h.events :
        First(f, g) /\ EndsOf(r, f.actor, f.task) =>
            /\ r.type = "run.finished" /\ r.outcome = "done"
            /\ r.claim = f.claim /\ f.id < r.id

\* Who ends an attempt on h lost it, or won, or had heard who won.
Knows(h, g) ==
    \A r \in h.events : IsEnd(r) =>
        \/ Beaten(r.actor, r.task, r.id, h.events)
        \/ \E f \in g.events :
              /\ First(f, g) /\ f.task = r.task
              /\ f.actor = r.actor \/ (f \in h.events /\ f.id < r.id)

\* A confirmation on h is for the first winner's claim, or for one made after
\* that one's attempt was over, as h tells.
Heirs(h, g) ==
    \A e \in h.events : e.type = "claim.confirmed" =>
        \E f \in h.events : /\ First(f, g) /\ f.task = e.task
                            /\ ClaimedAfter(e.claim, f, h)

\* The confirmations of h are on the ledger, and those of the ledger are on h
\* if h has seen the operation.
Published(h, g) ==
    \A e \in h.events : e.type = "claim.confirmed" => e \in g.events
Informed(h, g) ==
    \A e \in g.events :
        e.type = "claim.confirmed" /\ e.id \in h.seen => e \in h.events

Plays(h, g, home) ==
    /\ Plain(h) /\ Single(h, h, home) /\ Reports(h, g) /\ Knows(h, g)
    /\ Heirs(h, g) /\ Published(h, g) /\ Informed(h, g) /\ Certified(h, g)

\* What the sections before say of a head.
Fielded(h, n, ttl, last, g) ==
    /\ n \in Nat /\ last \in Nat
    /\ Whole(h, n, ttl) /\ Whole(g, n, ttl) /\ Fits(h, g)
    /\ Sporting(h, last, n, g)

\* Claim c of actor a holds task t on head h, and a has ended no attempt at t
\* there; or a did, and t is done.
Rules(h, c, a, t, last) ==
    LET s == Fold(h.events, Expiries(h))
    IN  /\ c \in ClaimsOf(s, t) /\ s.claims[c].actor = a
        /\ last < Expiries(h)[c]
        /\ \/ /\ s.holder[t] = c
              /\ \A x \in h.events : ~ EndsOf(x, a, t)
           \/ /\ s.claims[c].status = "finished" /\ TaskDone(s, t)
              /\ \E x \in h.events : EndsOf(x, a, t)

-----------------------------------------------------------------------------
(***************************************************************************)
(* Who holds a task on such a head.                                        *)
(***************************************************************************)
\* The lease of a claim that its actor never released runs.
LEMMA LeaseRuns ==
    ASSUME NEW h, NEW n, NEW ttl, NEW last, NEW g,
           Fielded(h, n, ttl, last, g),
           NEW q \in h.events, q.type = "claim.made",
           \A x \in h.events :
              EndsOf(x, q.actor, q.task) => x.type = "run.finished"
    PROVE  last < Expiries(h)[q.id] /\ n <= last
<1> DEFINE E == h.events
           r == h.leases[q.id]
<1>1. /\ \A e, f \in E : e.id = f.id => e = f
      /\ q.id \in Ids /\ h.leases \in [Ids -> Lease]
      /\ n \in Nat /\ last \in Nat
  BY WholeIds DEF Fielded, Whole, Sound, AreEvents, IsEvent
<1>2. Expiries(h)[q.id] = r.exp
  BY <1>1 DEF Expiries
<1>3. ~ r.released
  <2> SUFFICES ASSUME r.released
               PROVE  FALSE
    OBVIOUS
  <2>1. PICK x \in E, d \in E :
           /\ x.type = "claim.released"
           /\ IsClaim(d, x.task) /\ d.id = q.id /\ d.actor = x.actor
    BY <1>1 DEF Fielded, Sporting, Tombs
  <2>2. d = q
    BY <1>1, <2>1
  <2>3. EndsOf(x, q.actor, q.task)
    BY <2>1, <2>2 DEF EndsOf, IsEnd, IsClaim
  <2> QED BY <2>1, <2>3
<1>4. n <= last /\ r.exp > last
  BY <1>3 DEF Fielded, Sporting, Leased
<1>5. r \in Lease
  BY <1>1
<1>6. r.exp \in Int
  BY <1>5, ExpiryIsInteger
<1> QED BY <1>1, <1>2, <1>4, <1>6

\* The ends of a claim's actor are done runs after instant k: nothing takes
\* its task from it once it holds it.
LEMMA HeadChampion ==
    ASSUME NEW h, NEW n, NEW ttl, NEW last, NEW g,
           Fielded(h, n, ttl, last, g), Plain(h),
           NEW q \in h.events, q.type = "claim.made", NEW k,
           \A x \in h.events : EndsOf(x, q.actor, q.task) =>
              x.type = "run.finished" /\ x.outcome = "done" /\ k < x.id
    PROVE  Champion(h.events, Expiries(h), q.id, q.actor, q.task, k)
<1> DEFINE E == h.events
           lv == Expiries(h)
<1>1. last < lv[q.id] /\ n <= last
  BY LeaseRuns
<1>2. lv[q.id] \in Int /\ n \in Nat /\ last \in Nat
  <2>1. q.id \in Ids /\ h.leases \in [Ids -> Lease]
    BY DEF Fielded, Whole, Sound, AreEvents, IsEvent
  <2>2. h.leases[q.id] \in Lease
    BY <2>1
  <2>3. h.leases[q.id].exp \in Int
    BY <2>2, ExpiryIsInteger
  <2> QED BY <2>1, <2>3 DEF Expiries, Fielded
<1> HIDE DEF lv
<1>3. ASSUME NEW p \in E, LeaseExpiredBy(lv, q.id, IDTime(p.id))
      PROVE  FALSE
  <2>1. p.id \in Nat /\ p.id <= n
    <3>1. Whole(h, n, ttl)
      BY DEF Fielded
    <3>2. p.id \in 1 .. n
      BY <3>1, WholeIds
    <3> QED BY <1>2, <3>2
  <2>2. IDTime(p.id) = p.id
    <3>1. IdsPerTick = 1
      BY FleetAssumption
    <3> QED BY <2>1, <3>1 DEF IDTime
  <2>3. lv[q.id] <= p.id
    BY <1>3, <2>2 DEF LeaseExpiredBy
  <2> QED BY <1>1, <1>2, <2>1, <2>3
<1>4. \A x \in E : x.type = "task.updated" => x.task # q.task
  BY DEF Plain
<1> QED BY <1>3, <1>4 DEF Champion, lv

\* Who reigns in the end rules.
LEMMA ReignRules ==
    ASSUME NEW h, NEW n, NEW ttl, NEW last, NEW g,
           Fielded(h, n, ttl, last, g), NEW c, NEW a, NEW t,
           last < Expiries(h)[c],
           Reign(h.events, c, a, t, MaxId, Fold(h.events, Expiries(h)))
    PROVE  Rules(h, c, a, t, last)
<1>1. MaxId \in Nat /\ \A e \in h.events : e.id \in 1 .. MaxId
  BY HeadFolds DEF Fielded
<1>2. \A x \in h.events : ~ (MaxId < x.id)
  BY <1>1
<1> QED BY <1>2 DEF Reign, Rules

\* The first winner of a task, on a head that has heard who that is.
LEMMA CrownReigns ==
    ASSUME NEW h, NEW n, NEW ttl, NEW last, NEW g,
           Fielded(h, n, ttl, last, g), Plain(h), Reports(h, g),
           NEW f \in h.events, First(f, g)
    PROVE  /\ \A i \in f.id .. MaxId :
                 Reign(h.events, f.claim, f.actor, f.task, i,
                       States(h.events, Expiries(h))[i])
           /\ Rules(h, f.claim, f.actor, f.task, last)
<1> DEFINE E == h.events
           lv == Expiries(h)
<1>1. /\ Whole(h, n, ttl) /\ Whole(g, n, ttl) /\ Fits(h, g)
      /\ Leased(h, last, n) /\ Tombs(h) /\ EndsLate(h, g)
      /\ n \in Nat /\ last \in Nat
  BY DEF Fielded, Sporting
<1>2. First(f, h) /\ f.type = "claim.confirmed" /\ f \in g.events
  BY <1>1, FirstsAreTheLedgers DEF First
<1>3. Orderly(E, lv, f.task)
  BY <1>1, <1>2, HeadIsOrderly
<1>4. PICK q \in E : IsClaim(q, f.task) /\ q.id = f.claim /\ q.actor = f.actor
  BY <1>1, <1>2, ClaimedBy
<1>5. \A x \in E : EndsOf(x, q.actor, q.task) =>
         x.type = "run.finished" /\ x.outcome = "done" /\ f.id < x.id
  BY <1>2, <1>4 DEF Reports, IsClaim
<1>6. Champion(E, lv, f.claim, f.actor, f.task, f.id)
  <2>1. q.type = "claim.made" /\ q.task = f.task
    BY <1>4 DEF IsClaim
  <2>2. Champion(E, lv, q.id, q.actor, q.task, f.id)
    BY <1>5, <2>1, HeadChampion
  <2> QED BY <1>4, <2>1, <2>2
<1>7. /\ Sound(E)
      /\ \A e, p \in E :
            e.type = "claim.confirmed" /\ p.id = e.claim => p.actor = e.actor
      /\ Fold(E, lv) = States(E, lv)[MaxId]
      /\ MaxId \in Nat /\ f.id \in 1 .. MaxId
  BY <1>1, HeadFolds
<1>8. \A d \in E : d.type = "claim.confirmed" /\ d.task = f.task =>
         f.id <= d.id
  BY <1>2 DEF First
<1>9. \A i \in f.id .. MaxId :
         Reign(E, f.claim, f.actor, f.task, i, States(E, lv)[i])
  BY <1>2, <1>3, <1>6, <1>7, <1>8, CrownedReigns
<1>10. Reign(E, f.claim, f.actor, f.task, MaxId, Fold(E, lv))
  <2>1. MaxId \in f.id .. MaxId
    BY <1>7
  <2> QED BY <1>7, <1>9, <2>1
<1>11. last < lv[f.claim]
  <2>1. q.type = "claim.made"
    BY <1>4 DEF IsClaim
  <2> QED BY <1>4, <1>5, <2>1, LeaseRuns
<1>12. Rules(h, f.claim, f.actor, f.task, last)
  BY <1>10, <1>11, ReignRules
<1> QED BY <1>9, <1>12

\* Whose claim leads on a head that has not heard of a winner ends the attempt
\* only as the winner.
LEMMA LeaderWins ==
    ASSUME NEW h, NEW n, NEW ttl, NEW last, NEW g,
           Fielded(h, n, ttl, last, g), Reports(h, g), Knows(h, g),
           NEW q \in h.events, NEW t, IsClaim(q, t),
           \A p \in h.events : IsClaim(p, t) => q.id <= p.id,
           \A f \in h.events : f.type = "claim.confirmed" => f.task # t,
           NEW x \in h.events, EndsOf(x, q.actor, t)
    PROVE  \E f \in g.events :
              /\ First(f, g) /\ f.task = t /\ f.actor = q.actor
              /\ x.type = "run.finished" /\ x.outcome = "done"
              /\ x.claim = f.claim /\ f.id < x.id
<1>1. \A e \in h.events : e.id \in Nat
  BY WholeIds DEF Fielded
<1>2. \A e, p \in h.events : e.id = p.id => e = p
  BY WholeIds DEF Fielded
<1>3. ~ Beaten(x.actor, t, x.id, h.events)
  <2> SUFFICES ASSUME Beaten(x.actor, t, x.id, h.events)
               PROVE  FALSE
    OBVIOUS
  <2>1. PICK y \in h.events :
           /\ IsClaim(y, t) /\ y.id < x.id
           /\ \A p \in h.events : IsClaim(p, t) /\ p.actor = x.actor
                                  /\ p.id < x.id => y.id < p.id
    BY DEF Beaten
  <2>2. q.id <= y.id
    BY <2>1
  <2>3. q.id < x.id
    BY <1>1, <2>1, <2>2
  <2>4. y.id < q.id
    BY <2>1, <2>3 DEF EndsOf
  <2> QED BY <1>1, <2>2, <2>4
<1>4. PICK f \in g.events :
         /\ First(f, g) /\ f.task = t
         /\ f.actor = x.actor \/ f \in h.events
  BY <1>3 DEF Knows, EndsOf
<1>5. f.actor = q.actor
  BY <1>4 DEF EndsOf, First
<1>6. EndsOf(x, f.actor, f.task)
  BY <1>4, <1>5
<1> QED BY <1>4, <1>5, <1>6 DEF Reports

LEMMA LeadRules ==
    ASSUME NEW h, NEW n, NEW ttl, NEW last, NEW g, NEW home,
           Fielded(h, n, ttl, last, g), Plays(h, g, home),
           NEW q \in h.events, NEW t, IsClaim(q, t),
           \A p \in h.events : IsClaim(p, t) => q.id <= p.id,
           \A f \in h.events : f.type = "claim.confirmed" => f.task # t
    PROVE  Rules(h, q.id, q.actor, t, last)
<1> DEFINE E == h.events
           lv == Expiries(h)
<1>0. /\ Plain(h) /\ Single(h, h, home) /\ Reports(h, g) /\ Knows(h, g)
      /\ q.type = "claim.made" /\ q.task = t
  BY DEF Plays, IsClaim
<1>1. Whole(h, n, ttl)
  BY DEF Fielded
<1>2. /\ Sound(E) /\ Fold(E, lv) = States(E, lv)[MaxId]
      /\ MaxId \in Nat /\ q.id \in 1 .. MaxId
      /\ \A e \in E : e.id \in 1 .. MaxId
  BY <1>1, HeadFolds
<1>3. t \in Tasks
  BY <1>0, <1>2 DEF Sound, AreEvents, IsEvent
<1>4. ASSUME NEW x \in E, EndsOf(x, q.actor, q.task)
      PROVE  x.type = "run.finished" /\ x.outcome = "done" /\ q.id < x.id
  <2>1. EndsOf(x, q.actor, t)
    BY <1>0, <1>4
  <2>2. x.type = "run.finished" /\ x.outcome = "done"
    BY <1>0, <2>1, LeaderWins
  <2>3. PICK p \in E : IsClaim(p, t) /\ p.id < x.id /\ p.actor = x.actor
    BY <1>1, <2>1, <2>2, ClaimedBy DEF EndsOf
  <2>4. q.id <= p.id
    BY <2>3
  <2> QED BY <1>2, <2>2, <2>3, <2>4
<1>5. Champion(E, lv, q.id, q.actor, t, q.id)
  <2>1. Champion(E, lv, q.id, q.actor, q.task, q.id)
    BY <1>0, <1>4, HeadChampion
  <2> QED BY <1>0, <2>1
<1>6. \A i \in q.id .. MaxId : Reign(E, q.id, q.actor, t, i, States(E, lv)[i])
  BY <1>2, <1>3, <1>5, EarliestReigns
<1>7. Reign(E, q.id, q.actor, t, MaxId, Fold(E, lv))
  <2>1. MaxId \in q.id .. MaxId
    BY <1>2
  <2> QED BY <1>2, <1>6, <2>1
<1>8. last < lv[q.id]
  BY <1>0, <1>4, LeaseRuns
<1> QED BY <1>7, <1>8, ReignRules

\* The earliest claim of a task.
LEMMA SomeClaimLeads ==
    ASSUME NEW h, NEW n, NEW ttl, NEW last, NEW g,
           Fielded(h, n, ttl, last, g),
           NEW p \in h.events, NEW t, IsClaim(p, t)
    PROVE  \E q \in h.events :
              /\ IsClaim(q, t)
              /\ \A d \in h.events : IsClaim(d, t) => q.id <= d.id
<1> DEFINE S == {d.id : d \in {e \in h.events : IsClaim(e, t)}}
<1>1. S \subseteq Nat /\ S # {}
  BY WholeIds DEF Fielded
<1>2. PICK i \in S : \A j \in S : i <= j
  <2> HIDE DEF S
  <2> QED BY <1>1, LeastOf
<1> QED BY <1>2

\* On a head without a first winner of t nobody's claim of t is confirmed.
LEMMA Unconfirmed ==
    ASSUME NEW h, NEW n, NEW ttl, NEW last, NEW g,
           Fielded(h, n, ttl, last, g), NEW t,
           \A f \in h.events : First(f, g) => f.task # t
    PROVE  \A f \in h.events : f.type = "claim.confirmed" => f.task # t
BY DEF Fielded, Fits, Follows

\* Every task with a claim has a ruler: its first winner, if the head has
\* heard of one, or else its earliest claim.
LEMMA SomebodyRules ==
    ASSUME NEW h, NEW n, NEW ttl, NEW last, NEW g, NEW home,
           Fielded(h, n, ttl, last, g), Plays(h, g, home),
           NEW p \in h.events, NEW t, IsClaim(p, t)
    PROVE  \E c, a : Rules(h, c, a, t, last)
<1>1. CASE \E f \in h.events : First(f, g) /\ f.task = t
  BY <1>1, CrownReigns DEF Plays
<1>2. CASE \A f \in h.events : First(f, g) => f.task # t
  <2>1. \A f \in h.events : f.type = "claim.confirmed" => f.task # t
    BY <1>2, Unconfirmed
  <2>2. PICK q \in h.events :
           /\ IsClaim(q, t)
           /\ \A d \in h.events : IsClaim(d, t) => q.id <= d.id
    BY SomeClaimLeads
  <2>3. Rules(h, q.id, q.actor, t, last)
    BY <2>1, <2>2, LeadRules
  <2> QED BY <2>3
<1> QED BY <1>1, <1>2

\* What a daemon is told of the ruler.
LEMMA ViewRules ==
    ASSUME NEW h, NEW n, NEW ttl, NEW last, NEW g,
           Fielded(h, n, ttl, last, g),
           NEW c, NEW a, NEW t \in Tasks, Rules(h, c, a, t, last),
           NEW now \in Nat, now <= last
    PROVE  LET v == View(h, now)
           IN  /\ v.claims[c].actor = a
               /\ ~ Ready(v, t)
               /\ \/ /\ ActiveClaims(v, t) = {c}
                     /\ \A x \in h.events : ~ EndsOf(x, a, t)
                  \/ /\ v.claims[c].status = "finished"
                     /\ \E x \in h.events : EndsOf(x, a, t)
<1> DEFINE E == h.events
           lv == Expiries(h)
           s == Fold(E, lv)
           v == View(h, now)
<1>1. /\ IsState(s) /\ Holds(s)
      /\ ClaimsOf(v, t) = ClaimsOf(s, t)
      /\ \A d \in ClaimsOf(s, t) :
            /\ v.claims[d].actor = s.claims[d].actor
            /\ v.claims[d].status = "active" => s.claims[d].status = "active"
  <2>1. Whole(h, n, ttl)
    BY DEF Fielded
  <2> QED BY <2>1, ViewClaims, SMTT(60)
<1>2. \A d \in DOMAIN s.claims :
         \/ v.claims[d] = s.claims[d]
         \/ s.claims[d].status = "active" /\ lv[d] <= now
  BY ViewShows
<1>3. v.tasks = s.tasks
  <2>1. AreEvents(E)
    BY DEF Fielded, Whole, Sound
  <2> QED BY <2>1, ReplayFacts DEF View
<1>4. /\ c \in ClaimsOf(s, t) /\ s.claims[c].actor = a /\ last < lv[c]
      /\ \/ /\ s.holder[t] = c
            /\ \A x \in E : ~ EndsOf(x, a, t)
         \/ /\ s.claims[c].status = "finished" /\ TaskDone(s, t)
            /\ \E x \in E : EndsOf(x, a, t)
  BY DEF Rules
<1>5. lv[c] \in Int /\ last \in Nat /\ c # None
  <2>1. c \in Ids /\ h.leases \in [Ids -> Lease] /\ last \in Nat
    BY <1>1, <1>4 DEF Fielded, Whole, IsState, IsMap, ClaimsOf
  <2>2. h.leases[c] \in Lease
    BY <2>1
  <2>3. h.leases[c].exp \in Int
    BY <2>2, ExpiryIsInteger
  <2> QED BY <2>1, <2>3 DEF Expiries, Ids, None
<1> HIDE DEF s, v, lv
<1>6. v.claims[c] = s.claims[c] /\ c \in DOMAIN v.claims
      /\ v.claims[c].task = t
  <2>1. c \in DOMAIN s.claims /\ c \in ClaimsOf(v, t)
    BY <1>1, <1>4 DEF ClaimsOf
  <2>2. ~ (lv[c] <= now)
    BY <1>4, <1>5
  <2> QED BY <1>2, <2>1, <2>2 DEF ClaimsOf
<1>7. CASE /\ s.holder[t] = c
           /\ \A x \in E : ~ EndsOf(x, a, t)
  <2>1. s.claims[c].status = "active"
    BY <1>1, <1>5, <1>7 DEF Holds
  <2>2. c \in ActiveClaims(v, t)
    BY <1>6, <2>1 DEF ActiveClaims
  <2>3. ASSUME NEW d \in ActiveClaims(v, t)
        PROVE  d = c
    <3>1. d \in ClaimsOf(v, t) /\ v.claims[d].status = "active"
      BY <2>3 DEF ActiveClaims, ClaimsOf
    <3>2. d \in ClaimsOf(s, t) /\ s.claims[d].status = "active"
      BY <1>1, <3>1
    <3> QED BY <1>1, <1>7, <3>2 DEF Holds, ClaimsOf
  <2>4. ~ Ready(v, t)
    BY <2>2 DEF Ready
  <2>5. ActiveClaims(v, t) = {c}
    BY <2>2, <2>3
  <2> QED BY <1>1, <1>4, <1>7, <2>4, <2>5 DEF v
<1>8. CASE /\ s.claims[c].status = "finished" /\ TaskDone(s, t)
           /\ \E x \in E : EndsOf(x, a, t)
  <2>1. ~ Ready(v, t)
    BY <1>3, <1>8 DEF Ready, TaskDone
  <2> QED BY <1>1, <1>4, <1>6, <1>8, <2>1 DEF v
<1> QED BY <1>4, <1>7, <1>8

\* A task that looks ready was never claimed.
LEMMA ReadyIsUnclaimed ==
    ASSUME NEW h, NEW n, NEW ttl, NEW last, NEW g, NEW home,
           Fielded(h, n, ttl, last, g), Plays(h, g, home),
           NEW t \in Tasks, NEW now \in Nat, now <= last,
           Ready(View(h, now), t), NEW p \in h.events
    PROVE  ~ IsClaim(p, t)
<1> SUFFICES ASSUME IsClaim(p, t)
             PROVE  FALSE
  OBVIOUS
<1>1. PICK c, a : Rules(h, c, a, t, last)
  BY SomebodyRules
<1> QED BY <1>1, ViewRules

\* An actor's latest claim of a task, on a head where it has one claim.
LEMMA LatestIsOnly ==
    ASSUME NEW h, NEW n, NEW ttl, Whole(h, n, ttl), NEW now \in Nat,
           NEW t, NEW a, NEW c, c = LatestClaim(View(h, now), t, a), c # None
    PROVE  \E p \in h.events : IsClaim(p, t) /\ p.id = c /\ p.actor = a
<1> DEFINE v == View(h, now)
<1>1. /\ DOMAIN v.claims \subseteq Ids
      /\ \A d \in DOMAIN v.claims : \E f \in h.events :
            /\ f.type = "claim.made" /\ f.id = d
            /\ f.task = v.claims[d].task /\ f.actor = v.claims[d].actor
  BY ViewFacts
<1> HIDE DEF v
<1>2. c \in OwnClaims(v, t, a)
  BY <1>1, LatestIsOwn DEF v
<1>3. c \in DOMAIN v.claims /\ v.claims[c].task = t /\ v.claims[c].actor = a
  BY <1>2 DEF OwnClaims
<1> QED BY <1>1, <1>3 DEF IsClaim

\* The first winner's machine has heard that it won, or nobody's claim comes
\* before the winner's there.
Ahead(f, h) ==
    f \in h.events \/ \A q \in h.events : IsClaim(q, f.task) => f.claim <= q.id

\* The first winner rules on its own machine.
LEMMA WinnerRules ==
    ASSUME NEW h, NEW n, NEW ttl, NEW last, NEW g, NEW home,
           Fielded(h, n, ttl, last, g), Plays(h, g, home), Single(g, h, home),
           NEW f \in g.events, First(f, g), Ahead(f, h),
           NEW p \in h.events, IsClaim(p, f.task), p.actor = f.actor
    PROVE  p.id = f.claim /\ Rules(h, f.claim, f.actor, f.task, last)
<1>1. Whole(g, n, ttl) /\ Whole(h, n, ttl) /\ Fits(h, g)
  BY DEF Fielded
<1>2. PICK q \in g.events : /\ IsClaim(q, f.task) /\ q.id = f.claim
                            /\ q.actor = f.actor
  BY <1>1, ClaimedBy DEF First
<1>3. p = q
  BY <1>2 DEF Single, IsClaim
<1>4. CASE f \in h.events
  BY <1>2, <1>3, <1>4, CrownReigns DEF Plays
<1>5. CASE f \notin h.events
  <2>1. \A d \in h.events : First(d, g) => d.task # f.task
    <3> SUFFICES ASSUME NEW d \in h.events, First(d, g), d.task = f.task
                 PROVE  FALSE
      OBVIOUS
    <3>1. d \in g.events
      BY DEF First
    <3>2. d = f
      BY <1>1, <3>1, FirstUnique
    <3> QED BY <1>5, <3>2
  <2>2. \A d \in h.events : d.type = "claim.confirmed" => d.task # f.task
    BY <2>1, Unconfirmed
  <2>3. \A d \in h.events : IsClaim(d, f.task) => p.id <= d.id
    BY <1>2, <1>3, <1>5 DEF Ahead
  <2>4. Rules(h, p.id, p.actor, f.task, last)
    BY <2>2, <2>3, LeadRules
  <2> QED BY <1>2, <1>3, <2>4
<1> QED BY <1>4, <1>5

\* Who has a claim that does not show as active reported it as the first
\* winner, or knows who won, or was outrun.
LEMMA WinnerReported ==
    ASSUME NEW h, NEW n, NEW ttl, NEW last, NEW g, NEW home,
           Fielded(h, n, ttl, last, g), Plays(h, g, home), Single(g, h, home),
           NEW f \in g.events, First(f, g), Ahead(f, h),
           NEW now \in Nat, now <= last,
           NEW m, m = LatestClaim(View(h, now), f.task, f.actor), m # None,
           m \notin ActiveClaims(View(h, now), f.task)
    PROVE  /\ View(h, now).claims[m].status = "finished" /\ m = f.claim
           /\ \E r \in h.events : r.type = "run.finished" /\ r.claim = f.claim
<1>1. Whole(h, n, ttl) /\ Whole(g, n, ttl)
  BY DEF Fielded
<1>2. PICK p \in h.events : IsClaim(p, f.task) /\ p.id = m
                            /\ p.actor = f.actor
  BY <1>1, LatestIsOnly
<1>3. m = f.claim /\ Rules(h, m, f.actor, f.task, last)
  BY <1>2, WinnerRules
<1>4. f.task \in Tasks
  BY <1>1 DEF Whole, Sound, AreEvents, IsEvent
<1>5. /\ View(h, now).claims[m].status = "finished"
      /\ \E x \in h.events : EndsOf(x, f.actor, f.task)
  BY <1>3, <1>4, ViewRules
<1> QED BY <1>3, <1>5 DEF Plays, Reports

LEMMA LoserKnows ==
    ASSUME NEW h, NEW n, NEW ttl, NEW last, NEW g, NEW home,
           Fielded(h, n, ttl, last, g), Plays(h, g, home),
           NEW t \in Tasks, NEW a, NEW now \in Nat, now <= last,
           NEW m, m = LatestClaim(View(h, now), t, a), m # None,
           m \notin ActiveClaims(View(h, now), t),
           \A f \in g.events : First(f, g) /\ f.task = t => f.actor # a,
           \A f \in h.events : First(f, g) => f.task # t
    PROVE  OutRun(a, t, h.events)
<1>1. Whole(h, n, ttl)
  BY DEF Fielded
<1>2. PICK p \in h.events : IsClaim(p, t) /\ p.id = m /\ p.actor = a
  BY <1>1, LatestIsOnly
<1>3. \A d \in h.events : d.type = "claim.confirmed" => d.task # t
  BY Unconfirmed
<1>4. PICK q \in h.events :
         /\ IsClaim(q, t)
         /\ \A d \in h.events : IsClaim(d, t) => q.id <= d.id
  BY <1>2, SomeClaimLeads
<1>5. Rules(h, q.id, q.actor, t, last)
  BY <1>3, <1>4, LeadRules
<1>6. q # p
  <2> SUFFICES ASSUME q = p
               PROVE  FALSE
    OBVIOUS
  <2>1. PICK x \in h.events : EndsOf(x, q.actor, t)
    BY <1>2, <1>5, ViewRules
  <2>2. Reports(h, g) /\ Knows(h, g)
    BY DEF Plays
  <2>3. \E f \in g.events : First(f, g) /\ f.task = t /\ f.actor = q.actor
    BY <1>3, <1>4, <2>1, <2>2, LeaderWins
  <2> QED BY <1>2, <2>3
<1>7. \A d \in h.events : IsClaim(d, t) /\ d.actor = a => d = p
  BY <1>2 DEF Plays, Single, IsClaim
<1>8. q.id # p.id /\ q.id \in Nat /\ p.id \in Nat /\ q.id <= p.id
  BY <1>1, <1>2, <1>4, <1>6, WholeIds
<1> QED BY <1>4, <1>7, <1>8 DEF OutRun

\* A claim that may proceed on a head without a winner leads there, if the
\* head has heard of whoever reported there to have won.
LEMMA ProceedLeads ==
    ASSUME NEW h, NEW n, NEW ttl, NEW last, NEW g, NEW home,
           Fielded(h, n, ttl, last, g), Plays(h, g, home),
           NEW t \in Tasks, NEW a, NEW now \in Nat, now <= last,
           Judge(View(h, now), t, a) = "proceed",
           NEW m, m = LatestClaim(View(h, now), t, a), m # None,
           \A f \in h.events : f.type = "claim.confirmed" => f.task # t,
           \A f \in g.events, x \in h.events :
              /\ First(f, g) /\ f.task = t /\ EndsOf(x, f.actor, t)
              /\ home[f.actor] # home[a]
              => f \in h.events
    PROVE  \A d \in h.events : IsClaim(d, t) => m <= d.id
<1>1. Whole(h, n, ttl)
  BY DEF Fielded
<1>2. PICK p \in h.events : IsClaim(p, t) /\ p.id = m /\ p.actor = a
  BY <1>1, LatestIsOnly
<1>3. m \in ActiveClaims(View(h, now), t)
  BY DEF Judge
<1>4. PICK q \in h.events :
         /\ IsClaim(q, t)
         /\ \A d \in h.events : IsClaim(d, t) => q.id <= d.id
  BY <1>2, SomeClaimLeads
<1>5. Rules(h, q.id, q.actor, t, last)
  BY <1>4, LeadRules
<1>6. CASE ActiveClaims(View(h, now), t) = {q.id}
  BY <1>3, <1>4, <1>6
<1>7. CASE /\ View(h, now).claims[q.id].status = "finished"
           /\ \E x \in h.events : EndsOf(x, q.actor, t)
  <2>1. PICK x \in h.events : EndsOf(x, q.actor, t)
    BY <1>7
  <2>2. Reports(h, g) /\ Knows(h, g)
    BY DEF Plays
  <2>3. PICK f \in g.events : /\ First(f, g) /\ f.task = t
                              /\ f.actor = q.actor
    BY <1>4, <2>1, <2>2, LeaderWins
  <2>4. f.type = "claim.confirmed"
    BY <2>3 DEF First
  <2>5. home[q.actor] = home[a]
    BY <2>1, <2>3, <2>4
  <2>6. p = q
    BY <1>2, <1>4, <2>5 DEF Plays, Single, IsClaim
  <2> QED BY <1>2, <1>3, <1>7, <2>6 DEF ActiveClaims
<1> QED BY <1>5, <1>6, <1>7, ViewRules

TwoHomes(home) ==
    \E m, n \in Machines : \A a \in Actors : home[a] \in {m, n}

\* Of three claims of a task two are the same.
LEMMA ThirdClaim ==
    ASSUME NEW home, TwoHomes(home),
           NEW g, NEW h, NEW k, Single(g, h, home), Single(g, k, home),
           Single(h, k, home), NEW t,
           NEW p \in g.events, NEW q \in h.events, NEW r \in k.events,
           IsClaim(p, t), IsClaim(q, t), IsClaim(r, t),
           p.actor \in Actors, q.actor \in Actors, r.actor \in Actors
    PROVE  p = q \/ p = r \/ q = r
BY DEF TwoHomes, Single, IsClaim

\* No head counts a confirmed claim among the losers.
LEMMA ConfirmedIsNotVoided ==
    ASSUME NEW h, NEW n, NEW ttl, NEW last, NEW g, NEW home,
           Fielded(h, n, ttl, last, g), Plays(h, g, home), TwoHomes(home),
           NEW e \in h.events, e.type = "claim.confirmed"
    PROVE  Fold(h.events, Expiries(h)).claims[e.claim].status # "voided"
<1> DEFINE E == h.events
           lv == Expiries(h)
           t == e.task
<1>1. /\ Whole(h, n, ttl) /\ Whole(g, n, ttl) /\ Fits(h, g)
      /\ Leased(h, last, n) /\ Tombs(h) /\ EndsLate(h, g)
      /\ n \in Nat /\ last \in Nat
  BY DEF Fielded, Sporting
<1>2. PICK f \in E : /\ First(f, g) /\ f.task = t
                     /\ ClaimedAfter(e.claim, f, h)
  BY DEF Plays, Heirs
<1>3. First(f, h) /\ f.type = "claim.confirmed" /\ f \in g.events
  BY <1>1, <1>2, FirstsAreTheLedgers DEF First
<1>4. CASE e.claim = f.claim
  BY <1>1, <1>3, <1>4, FirstIsApplied
<1>5. CASE e.claim # f.claim
  <2>1. PICK x \in E : EndsOf(x, f.actor, t) /\ x.id \in f.claim .. e.claim
    BY <1>2, <1>5 DEF ClaimedAfter, EndsOf, IsEnd
  <2>2. f.id < x.id
    BY <1>2, <1>3, <2>1 DEF Plays, Reports
  <2>3. PICK q \in E : IsClaim(q, t) /\ q.id = f.claim /\ q.actor = f.actor
    BY <1>1, <1>2, <1>3, ClaimedBy
  <2>4. PICK p \in E : IsClaim(p, t) /\ p.id = e.claim
    BY <1>1, ClaimedBy
  <2>5. /\ \A d \in E : d.id \in 1 .. MaxId /\ d.actor \in Actors
        /\ MaxId \in Nat /\ Sound(E) /\ t \in Tasks
        /\ Fold(E, lv) = States(E, lv)[MaxId]
    <3>1. /\ \A d \in E : d.id \in 1 .. MaxId
          /\ MaxId \in Nat /\ Sound(E) /\ Fold(E, lv) = States(E, lv)[MaxId]
      BY <1>1, HeadFolds
    <3>2. t \in Tasks /\ \A d \in E : d.actor \in Actors
      BY <3>1 DEF Sound, AreEvents, IsEvent
    <3> QED BY <3>1, <3>2
  <2>6. \A d \in E : IsClaim(d, t) => d.id \in {f.claim, e.claim}
    <3>1. p # q
      BY <1>5, <2>3, <2>4
    <3>2. \A d \in E : IsClaim(d, t) => d = p \/ d = q
      BY <2>3, <2>4, <2>5, <3>1, ThirdClaim DEF Plays
    <3> QED BY <2>3, <2>4, <3>2
  <2>7. x # p /\ \A d, b \in E : d.id = b.id => d = b
    BY <1>1, <2>1, <2>4, WholeIds DEF EndsOf, IsEnd, IsClaim
  <2>8. x.id < e.claim /\ f.id < e.claim /\ e.claim \in Nat
        /\ f.id \in 0 .. MaxId
    BY <2>1, <2>2, <2>4, <2>5, <2>7
  <2>9. \A i \in f.id .. MaxId :
           Reign(E, f.claim, f.actor, t, i, States(E, lv)[i])
    BY <1>2, CrownReigns DEF Plays
  <2>10. e.claim \in ClaimsOf(Fold(E, lv), t)
    <3>1. 0 \in Nat
      OBVIOUS
    <3>2. \A d \in E : IsClaim(d, t) => d.id \in ClaimsOf(Fold(E, lv), t)
      BY <1>1, <3>1, ViewClaims
    <3> QED BY <2>4, <3>2
  <2> QED BY <2>1, <2>5, <2>6, <2>8, <2>9, <2>10, HeirStands, ZenonT(60)
<1> QED BY <1>4, <1>5

-----------------------------------------------------------------------------
(***************************************************************************)
(* The machines and the gates of such a fleet.                             *)
(***************************************************************************)
HeadsPlay(K, home, g) ==
    /\ \A h \in K : Plays(h, g, home)
    /\ \A h, k \in K : Single(h, k, home)

\* The first winner's machine knows that it won, or has no earlier claim.
Proud(loc, home, g) ==
    \A f \in g.events : First(f, g) => Ahead(f, loc[home[f.actor]])

\* Other machines hear of the winner's report no sooner than that it won.
Heard(loc, home, g) ==
    \A f \in g.events, m \in Machines :
        /\ First(f, g) /\ m # home[f.actor]
        /\ \E x \in loc[m].events : EndsOf(x, f.actor, f.task)
        => f \in loc[m].events

\* A machine without actors has nothing of its own.
Relays(loc, home, g) ==
    \A m \in Machines :
        (\A a \in Actors : home[a] # m) => Ancestor(loc[m], g)

\* A later winner's machine knows that the first one's attempt was over.
Succeeds(loc, home, g) ==
    \A e, f \in g.events :
        e.type = "claim.confirmed" /\ First(f, g) /\ f.task = e.task =>
            ClaimedAfter(e.claim, f, loc[home[e.actor]])

MachinesPlay(loc, home, g) ==
    /\ Proud(loc, home, g) /\ Heard(loc, home, g)
    /\ Relays(loc, home, g) /\ Succeeds(loc, home, g)

Field(K, n, ttl, last, g, loc, home) ==
    /\ n \in Nat /\ last \in Nat
    /\ HeadsFit(K, n, ttl) /\ Owned(K, loc, home) /\ Fair(K, last, n, g)
    /\ \A k \in K : Fits(k, g)
    /\ g \in K /\ \A m \in Machines : loc[m] \in K
    /\ DOMAIN loc = Machines
    /\ home \in [Actors -> Machines] /\ TwoHomes(home)

LEMMA FieldedHeads ==
    ASSUME NEW K, NEW n, NEW ttl, NEW last, NEW g, NEW loc, NEW home,
           Field(K, n, ttl, last, g, loc, home), NEW h \in K
    PROVE  /\ Fielded(h, n, ttl, last, g)
           /\ Whole(h, n, ttl) /\ Whole(g, n, ttl) /\ Fits(h, g)
           /\ \A k \in K : Agree(h, k) /\ Agree(k, h)
BY DEF Field, Fielded, HeadsFit, Fair

\* Where two machines meet no merge refuses a confirmation.
LEMMA NothingIsRefused ==
    ASSUME NEW K, NEW n, NEW ttl, NEW last, NEW g, NEW loc, NEW home,
           Field(K, n, ttl, last, g, loc, home),
           HeadsPlay(K, home, g), MachinesPlay(loc, home, g),
           NEW m \in Machines, ~ Ancestor(loc[m], g)
    PROVE  Refused(loc[m], g) = {}
<1> DEFINE L == loc[m]
           E == L.events
           lv == Expiries(L)
           s == Fold(E, lv)
           v == Frozen(L)
<1>1. /\ L \in K /\ g \in K
      /\ Plays(L, g, home) /\ Plays(g, g, home)
      /\ Single(L, g, home) /\ Single(g, L, home) /\ Single(L, L, home)
      /\ Fielded(L, n, ttl, last, g)
      /\ Whole(L, n, ttl) /\ Whole(g, n, ttl) /\ Fits(L, g) /\ Agree(g, L)
  <2>1. L \in K /\ g \in K
    BY DEF Field
  <2>2. /\ Fielded(L, n, ttl, last, g)
        /\ Whole(L, n, ttl) /\ Whole(g, n, ttl) /\ Fits(L, g) /\ Agree(g, L)
    BY <2>1, FieldedHeads
  <2> QED BY <2>1, <2>2 DEF HeadsPlay
<1>2. OneSidedConfirmations(L, g) = {}
  BY <1>1 DEF Plays, Published, OneSidedConfirmations
<1>3. /\ FoldInv(E, MaxId, s)
      /\ DOMAIN v.claims = DOMAIN s.claims
      /\ \A c \in DOMAIN s.claims :
            /\ v.claims[c].task = s.claims[c].task
            /\ v.claims[c].confirmation = s.claims[c].confirmation
            /\ v.claims[c].status = "active" => s.claims[c].status = "active"
  <2>1. AreEvents(E)
    BY <1>1 DEF Whole, Sound
  <2> QED BY <2>1, ReplayFacts DEF Frozen
<1> HIDE DEF s, v, lv, L
<1>4. ASSUME NEW e \in g.events, e \notin E, e.type = "claim.confirmed",
             NEW c \in ActiveClaims(v, e.task), c # e.claim,
             v.claims[c].confirmation # None, v.claims[c].confirmation < e.id
      PROVE  FALSE
  <2> DEFINE t == e.task
  <2>1. /\ c \in DOMAIN s.claims /\ s.claims[c].task = t
        /\ s.claims[c].status = "active"
        /\ s.claims[c].confirmation # None
        /\ s.claims[c].confirmation < e.id
    BY <1>3, <1>4 DEF ActiveClaims
  <2>2. PICK b \in E : /\ b.type = "claim.confirmed" /\ b.claim = c
                       /\ b.id = s.claims[c].confirmation
    BY <1>3, <2>1 DEF FoldInv, Traced
  <2>3. PICK p \in E : IsClaim(p, t) /\ p.id = c
    BY <1>3, <2>1 DEF FoldInv, Traced, IsClaim
  <2>4. b.task = t /\ c < b.id
    <3>1. PICK q \in E : IsClaim(q, b.task) /\ q.id = b.claim /\ q.id < b.id
      BY <1>1, <2>2, ClaimedBy
    <3>2. q = p
      BY <1>1, <2>2, <2>3, <3>1, WholeIds
    <3> QED BY <2>2, <2>3, <3>1, <3>2 DEF IsClaim
  <2>5. PICK f \in E : /\ First(f, g) /\ f.task = t
                       /\ ClaimedAfter(c, f, L)
    BY <1>1, <2>2, <2>4 DEF Plays, Heirs, L
  <2>6. Rules(L, f.claim, f.actor, t, last)
    BY <1>1, <2>5, CrownReigns DEF Plays, L
  <2>7. s.holder[t] = c
    BY <1>3, <2>1 DEF FoldInv, Holds
  <2>8. f.type = "claim.confirmed" /\ f \in g.events
    BY <2>5 DEF First
  <2>9. PICK q \in E : IsClaim(q, t) /\ q.id = f.claim /\ q.actor = f.actor
    BY <1>1, <2>5, <2>8, ClaimedBy DEF L
  <2>10. PICK d \in g.events : IsClaim(d, t) /\ d.id = e.claim
                               /\ d.actor = e.actor
    BY <1>1, <1>4, ClaimedBy
  <2>11. p.actor \in Actors /\ q.actor \in Actors /\ d.actor \in Actors
    BY <1>1 DEF Whole, Sound, AreEvents, IsEvent, L
  <2>12. CASE c = f.claim
    <3>1. \A x \in E : ~ EndsOf(x, f.actor, t)
      <4>1. s.claims[c].status # "finished"
        BY <2>1
      <4> QED BY <2>6, <2>12, <4>1 DEF Rules, s, lv, L
    <3>2. PICK x \in loc[home[e.actor]].events : EndsOf(x, f.actor, t)
      <4>1. ClaimedAfter(e.claim, f, loc[home[e.actor]])
        BY <1>4, <2>5, <2>8 DEF MachinesPlay, Succeeds
      <4> QED BY <1>4, <2>5, <2>12, <4>1 DEF ClaimedAfter, EndsOf, IsEnd
    <3>3. home[d.actor] # home[q.actor]
      <4>1. d # q
        BY <1>4, <2>9, <2>10, <2>12
      <4> QED BY <1>1, <2>9, <2>10, <4>1 DEF Single, IsClaim, L
    <3>4. PICK a \in Actors : home[a] = m
      BY DEF MachinesPlay, Relays
    <3>5. m = home[e.actor] \/ m = home[f.actor]
      BY <2>9, <2>10, <2>11, <3>3, <3>4 DEF Field, TwoHomes
    <3>6. x \in loc[home[f.actor]].events
      <4>1. loc[home[e.actor]] \in K
        BY <2>10, <2>11 DEF Field
      <4>2. x.type # "claim.confirmed" /\ x.actor = f.actor
        BY <3>2 DEF EndsOf, IsEnd
      <4> QED BY <4>1, <4>2 DEF Field, Owned
    <3> QED BY <3>1, <3>2, <3>5, <3>6 DEF L
  <2>13. CASE c # f.claim
    <3>1. PICK x \in E : EndsOf(x, f.actor, t) /\ x.id \in f.claim .. c
      BY <2>5, <2>13 DEF ClaimedAfter, EndsOf, IsEnd, L
    <3>2. x.type = "run.finished" /\ x.claim = f.claim
      BY <1>1, <2>5, <2>8, <3>1 DEF Plays, Reports, L
    <3>3. d = q
      <4>1. p # q /\ d # p
        BY <1>4, <2>3, <2>9, <2>10, <2>13
      <4>2. TwoHomes(home)
        BY DEF Field
      <4> QED BY <1>1, <2>3, <2>9, <2>10, <2>11, <4>1, <4>2, ThirdClaim DEF L
    <3>4. e.id < x.id
      BY <1>1, <1>4, <2>9, <2>10, <3>2, <3>3 DEF Agree, L
    <3>5. e.id \in Nat /\ b.id \in Nat /\ c \in Nat /\ x.id \in Nat
      BY <1>1, <2>3, WholeIds DEF L
    <3> QED BY <2>1, <2>2, <2>4, <3>1, <3>4, <3>5
  <2> QED BY <2>12, <2>13
<1>5. Competing(g, L, v) = {}
  BY <1>4 DEF Competing, OneSidedConfirmations
<1>6. Competing(L, g, Frozen(g)) = {}
  BY <1>2 DEF Competing
<1> QED BY <1>5, <1>6 DEF Refused, L, v

\* What the gate of actor a is about to push: its machine is past the head it
\* judged, but has heard of no earlier claim since, unless from the ledger;
\* and without a winner it carries the earliest claim.
Aims(a, gt, loc, home, g) ==
    gt[a].stage = "push" =>
        LET e == gt[a].event
            h == gt[a].head
            L == loc[home[a]]
        IN  /\ Ancestor(h, L)
            /\ \A x \in L.events : EndsOf(x, a, e.task) => x \in h.events
            /\ \A q \in L.events : IsClaim(q, e.task) /\ q.id < e.id =>
                  q \in h.events \cup g.events
            /\ (\A f \in h.events :
                   f.type = "claim.confirmed" => f.task # e.task)
               => \A q \in h.events : IsClaim(q, e.task) => e.claim <= q.id

\* Who is about to record a verdict won, or knows who did, or was outrun; it
\* won if the verdict says so, and if it does not, reported its win before.
Records(a, gt, loc, home, g) ==
    gt[a].stage = "record" =>
        LET t == gt[a].task
            L == loc[home[a]]
        IN  /\ \/ \E f \in g.events : /\ First(f, g) /\ f.task = t
                                      /\ f.actor = a \/ f \in L.events
               \/ gt[a].verdict # "confirmed" /\ OutRun(a, t, L.events)
            /\ gt[a].verdict = "confirmed" =>
                  \E e \in g.events : /\ e.type = "claim.confirmed"
                                      /\ e.task = t /\ e.actor = a
            /\ gt[a].verdict # "confirmed" => \A f \in g.events :
                  First(f, g) /\ f.task = t /\ f.actor = a =>
                     \E r \in L.events :
                        r.type = "run.finished" /\ r.claim = f.claim

GatesPlay(gt, loc, home, g) ==
    \A a \in Actors : Aims(a, gt, loc, home, g) /\ Records(a, gt, loc, home, g)

\* All of it.
Played(K, loc, gt, home, g) ==
    /\ HeadsPlay(K, home, g) /\ MachinesPlay(loc, home, g)
    /\ GatesPlay(gt, loc, home, g)

-----------------------------------------------------------------------------
(***************************************************************************)
(* A machine brings in the ledger.                                         *)
(***************************************************************************)
LEMMA AfterStays ==
    ASSUME NEW h, NEW x,
           \A e \in h.events : e.type # "claim.confirmed" => e \in x.events,
           NEW c, NEW f, ClaimedAfter(c, f, h)
    PROVE  ClaimedAfter(c, f, x)
BY DEF ClaimedAfter

\* A head that has all of two heads plays as they do.
LEMMA UnionPlays ==
    ASSUME NEW K, NEW last, NEW n, NEW g, NEW home,
           HeadsPlay(K, home, g), Fair(K, last, n, g),
           NEW p \in K, NEW q \in K, NEW x,
           x.events = p.events \cup q.events, x.seen = p.seen \cup q.seen
    PROVE  HeadsPlay(K \cup {x}, home, g)
<1>1. /\ Plays(p, g, home) /\ Plays(q, g, home)
      /\ \A h, k \in K : Single(h, k, home)
  BY DEF HeadsPlay
<1>2. /\ Single(x, x, home)
      /\ \A k \in K : Single(x, k, home) /\ Single(k, x, home)
  BY <1>1 DEF Single
<1>3. Plain(x) /\ Reports(x, g) /\ Published(x, g) /\ Informed(x, g)
      /\ Certified(x, g)
  BY <1>1 DEF Plays, Plain, Reports, Published, Informed, Certified
<1>4. Heirs(x, g)
  <2> SUFFICES ASSUME NEW h \in {p, q}, NEW e \in h.events,
                      e.type = "claim.confirmed"
               PROVE  \E f \in x.events :
                         /\ First(f, g) /\ f.task = e.task
                         /\ ClaimedAfter(e.claim, f, x)
    BY DEF Heirs
  <2>1. PICK f \in h.events : /\ First(f, g) /\ f.task = e.task
                              /\ ClaimedAfter(e.claim, f, h)
    BY <1>1 DEF Plays, Heirs
  <2>2. h.events \subseteq x.events
    OBVIOUS
  <2>3. ClaimedAfter(e.claim, f, x)
    BY <2>1, <2>2, AfterStays
  <2> QED BY <2>1, <2>2, <2>3
<1>5. Knows(x, g)
  <2> SUFFICES ASSUME NEW h \in {p, q}, NEW r \in h.events, IsEnd(r)
               PROVE  \/ Beaten(r.actor, r.task, r.id, x.events)
                      \/ \E f \in g.events :
                            /\ First(f, g) /\ f.task = r.task
                            /\ \/ f.actor = r.actor
                               \/ f \in x.events /\ f.id < r.id
    BY DEF Knows
  <2>1. \/ Beaten(r.actor, r.task, r.id, h.events)
        \/ \E f \in g.events :
              /\ First(f, g) /\ f.task = r.task
              /\ f.actor = r.actor \/ (f \in h.events /\ f.id < r.id)
    BY <1>1 DEF Plays, Knows
  <2>2. h.events \subseteq x.events
    OBVIOUS
  <2>3. ASSUME Beaten(r.actor, r.task, r.id, h.events)
        PROVE  Beaten(r.actor, r.task, r.id, x.events)
    <3>1. PICK y \in h.events :
             /\ IsClaim(y, r.task) /\ y.id < r.id
             /\ \A d \in h.events : IsClaim(d, r.task) /\ d.actor = r.actor
                                    /\ d.id < r.id => y.id < d.id
      BY <2>3 DEF Beaten
    <3>2. \A d \in x.events : IsClaim(d, r.task) /\ d.actor = r.actor
                              /\ d.id < r.id => d \in h.events
      <4>1. EndsAware(h, p) /\ EndsAware(h, q)
        BY DEF Fair
      <4> QED BY <4>1 DEF EndsAware, IsClaim
    <3> QED BY <2>2, <3>1, <3>2 DEF Beaten
  <2> QED BY <2>1, <2>2, <2>3
<1> QED BY <1>1, <1>2, <1>3, <1>4, <1>5 DEF HeadsPlay, Plays

\* What bringing in the ledger makes of a machine's head.
Gains(L, g, x) ==
    /\ Ancestor(L, x)
    /\ \A e \in L.events : e.type # "claim.confirmed" => e \in x.events
    /\ x.events \subseteq L.events \cup g.events
    /\ \/ x = L
       \/ \A f \in g.events : f.type = "claim.confirmed" => f \in x.events

Brings(L, g, x) == x \in {L, Reconciled(L, g)}

\* Machine m of loc gets head x.
Puts(loc, m, x, new) ==
    \A k \in Machines : new[k] = IF k = m THEN x ELSE loc[k]

LEMMA AdoptGains ==
    ASSUME NEW K, NEW n, NEW ttl, NEW last, NEW g, NEW loc, NEW home,
           Field(K, n, ttl, last, g, loc, home),
           HeadsPlay(K, home, g), MachinesPlay(loc, home, g),
           NEW m \in Machines, NEW L, L = loc[m],
           NEW x, Brings(L, g, x)
    PROVE  /\ HeadsPlay(K \cup {x}, home, g)
           /\ \A new : Puts(loc, m, x, new) => Relays(new, home, g)
           /\ Gains(L, g, x)
<1>1. L \in K /\ g \in K /\ Agree(g, L) /\ DOMAIN loc = Machines
      /\ Fair(K, last, n, g) /\ Relays(loc, home, g)
  <2>1. L \in K /\ g \in K /\ DOMAIN loc = Machines /\ Fair(K, last, n, g)
    BY DEF Field
  <2>2. Relays(loc, home, g)
    BY DEF MachinesPlay
  <2> QED BY <2>1, <2>2, FieldedHeads
<1>2. CASE x = L
  <2>1. Gains(L, g, x)
    BY <1>2 DEF Gains, Ancestor
  <2>2. K \cup {x} = K
    BY <1>1, <1>2
  <2>3. \A new : Puts(loc, m, x, new) => Relays(new, home, g)
    BY <1>1, <1>2 DEF Relays, Puts
  <2> QED BY <2>1, <2>2, <2>3
<1>3. CASE x = g /\ Ancestor(L, g)
  <2>1. Gains(L, g, x)
    <3>1. \A e \in L.events : e.id \in L.seen
      <4>1. Whole(L, n, ttl)
        BY <1>1, FieldedHeads
      <4> QED BY <4>1, WholeIds
    <3> QED BY <1>1, <1>3, <3>1 DEF Gains, Agree, Ancestor
  <2>2. K \cup {x} = K
    BY <1>1, <1>3
  <2>3. Ancestor(x, g)
    BY <1>3 DEF Ancestor
  <2>4. \A new : Puts(loc, m, x, new) => Relays(new, home, g)
    BY <1>1, <2>3 DEF Relays, Puts
  <2> QED BY <2>1, <2>2, <2>4
<1>4. CASE x = MergeTrees(L, g) /\ ~ Ancestor(L, g)
  <2>1. Refused(L, g) = {}
    BY <1>4, NothingIsRefused
  <2>2. x.events = L.events \cup g.events /\ x.seen = L.seen \cup g.seen
    BY <1>4, <2>1 DEF MergeTrees
  <2>3. Gains(L, g, x)
    BY <2>2 DEF Gains, Ancestor
  <2>4. HeadsPlay(K \cup {x}, home, g)
    BY <1>1, <2>2, UnionPlays
  <2>5. \A new : Puts(loc, m, x, new) => Relays(new, home, g)
    BY <1>1, <1>4 DEF Relays, Puts
  <2> QED BY <2>3, <2>4, <2>5
<1> QED BY <1>2, <1>3, <1>4 DEF Reconciled, Brings

\* A machine's own attempts come from nobody else.
LEMMA OwnStay ==
    ASSUME NEW K, NEW n, NEW ttl, NEW last, NEW g, NEW loc, NEW home,
           Field(K, n, ttl, last, g, loc, home),
           NEW a \in Actors, NEW m, m = home[a],
           NEW x, x.events \subseteq loc[m].events \cup g.events,
           NEW e \in x.events, e.type # "claim.confirmed", e.actor = a
    PROVE  e \in loc[m].events
BY DEF Field, Owned

\* A machine brings in the ledger.
LEMMA AdoptPlays ==
    ASSUME NEW K, NEW n, NEW ttl, NEW last, NEW g, NEW loc, NEW home,
           Field(K, n, ttl, last, g, loc, home),
           NEW gt, Played(K, loc, gt, home, g),
           NEW m \in Machines, NEW x, Brings(loc[m], g, x),
           NEW new, Puts(loc, m, x, new)
    PROVE  Played(K \cup {x}, new, gt, home, g)
<1> HeadsPlay(K, home, g) /\ MachinesPlay(loc, home, g)
    /\ GatesPlay(gt, loc, home, g)
  BY DEF Played
<1> DEFINE L == loc[m]
<1>1. Gains(L, g, x) /\ HeadsPlay(K \cup {x}, home, g) /\ Relays(new, home, g)
  <2>0. L = loc[m] /\ Brings(L, g, x)
    OBVIOUS
  <2> HIDE DEF L
  <2>1. Gains(L, g, x)
    BY <2>0, AdoptGains
  <2>2. HeadsPlay(K \cup {x}, home, g)
    BY <2>0, AdoptGains
  <2>3. Relays(new, home, g)
    BY <2>0, AdoptGains
  <2> QED BY <2>1, <2>2, <2>3
<1>2. /\ \A k \in Machines : new[k] = IF k = m THEN x ELSE loc[k]
      /\ home \in [Actors -> Machines]
      /\ Whole(g, n, ttl)
  <2>1. home \in [Actors -> Machines] /\ g \in K
    BY DEF Field
  <2> QED BY <2>1, FieldedHeads DEF Puts
<1>3. /\ \A f \in g.events : f.actor \in Actors
  BY <1>2 DEF Whole, Sound, AreEvents, IsEvent
<1>4. \A f \in g.events, k \in Machines :
         f.type = "claim.confirmed" /\ f \in loc[k].events
            => f \in new[k].events
  BY <1>1, <1>2 DEF Gains, L
<1>5. \A k \in Machines : \A e \in loc[k].events :
         e.type # "claim.confirmed" => e \in new[k].events
  BY <1>1, <1>2 DEF Gains, L
<1>6. Proud(new, home, g)
  <2> SUFFICES ASSUME NEW f \in g.events, First(f, g)
               PROVE  Ahead(f, new[home[f.actor]])
    BY DEF Proud
  <2>1. home[f.actor] \in Machines /\ Ahead(f, loc[home[f.actor]])
    BY <1>2, <1>3 DEF MachinesPlay, Proud
  <2>2. f.type = "claim.confirmed"
    BY DEF First
  <2>3. CASE f \in new[home[f.actor]].events
    BY <2>3 DEF Ahead
  <2>4. CASE f \notin new[home[f.actor]].events
    <3>1. new[home[f.actor]] = loc[home[f.actor]]
      BY <1>1, <1>2, <2>1, <2>2, <2>4 DEF Gains, L
    <3> QED BY <2>1, <3>1
  <2> QED BY <2>3, <2>4
<1>7. Heard(new, home, g)
  <2> SUFFICES ASSUME NEW f \in g.events, NEW k \in Machines, First(f, g),
                      k # home[f.actor],
                      \E e \in new[k].events : EndsOf(e, f.actor, f.task),
                      f \notin new[k].events
               PROVE  FALSE
    BY DEF Heard
  <2>1. f.type = "claim.confirmed"
    BY DEF First
  <2>2. new[k] = loc[k]
    BY <1>1, <1>2, <2>1 DEF Gains, L
  <2> QED BY <2>2 DEF MachinesPlay, Heard
<1>8. Succeeds(new, home, g)
  <2> SUFFICES ASSUME NEW e \in g.events, NEW f \in g.events,
                      e.type = "claim.confirmed", First(f, g),
                      f.task = e.task
               PROVE  ClaimedAfter(e.claim, f, new[home[e.actor]])
    BY DEF Succeeds
  <2>1. home[e.actor] \in Machines
    BY <1>2, <1>3
  <2>2. ClaimedAfter(e.claim, f, loc[home[e.actor]])
    BY DEF MachinesPlay, Succeeds
  <2> QED BY <1>5, <2>1, <2>2, AfterStays
<1>9. ASSUME NEW a \in Actors
      PROVE  Aims(a, gt, new, home, g)
  <2> DEFINE e == gt[a].event
             h == gt[a].head
             k == home[a]
  <2> SUFFICES ASSUME gt[a].stage = "push"
               PROVE  Aims(a, gt, new, home, g)
    BY DEF Aims
  <2>1. /\ Ancestor(h, loc[k])
        /\ \A y \in loc[k].events : EndsOf(y, a, e.task) => y \in h.events
        /\ \A q \in loc[k].events : IsClaim(q, e.task) /\ q.id < e.id =>
              q \in h.events \cup g.events
        /\ (\A f \in h.events :
               f.type = "claim.confirmed" => f.task # e.task)
           => \A q \in h.events : IsClaim(q, e.task) => e.claim <= q.id
    BY DEF GatesPlay, Aims
  <2>2. k \in Machines
    BY <1>2
  <2>3. Ancestor(h, new[k])
    BY <1>1, <1>2, <2>1, <2>2 DEF Gains, Ancestor, L
  <2>4. new[k].events \subseteq loc[k].events \cup g.events
    BY <1>1, <1>2, <2>2 DEF Gains, L
  <2>5. ASSUME NEW y \in new[k].events, EndsOf(y, a, e.task)
        PROVE  y \in h.events
    <3>1. y.type # "claim.confirmed" /\ y.actor = a
      BY <2>5 DEF EndsOf, IsEnd
    <3>2. y \in loc[k].events
      BY <2>4, <3>1, OwnStay
    <3> QED BY <2>1, <2>5, <3>2
  <2> HIDE DEF e, h, k
  <2>6. \A q \in new[k].events : IsClaim(q, e.task) /\ q.id < e.id =>
              q \in h.events \cup g.events
    BY <2>1, <2>4
  <2> QED BY <2>1, <2>3, <2>5, <2>6 DEF Aims, e, h, k
<1>10. ASSUME NEW a \in Actors
       PROVE  Records(a, gt, new, home, g)
  <2> DEFINE t == gt[a].task
             k == home[a]
  <2> SUFFICES ASSUME gt[a].stage = "record"
               PROVE  Records(a, gt, new, home, g)
    BY DEF Records
  <2>1. Records(a, gt, loc, home, g)
    BY DEF GatesPlay
  <2>2. k \in Machines
    BY <1>2
  <2>3. new[k].events \subseteq loc[k].events \cup g.events
    BY <1>1, <1>2, <2>2 DEF Gains, L
  <2>4. ASSUME OutRun(a, t, loc[k].events)
        PROVE  OutRun(a, t, new[k].events)
    <3>1. PICK q \in loc[k].events :
             /\ IsClaim(q, t)
             /\ \A p \in loc[k].events : IsClaim(p, t) /\ p.actor = a =>
                   q.id < p.id
      BY <2>4 DEF OutRun
    <3>2. q \in new[k].events
      BY <1>5, <2>2, <3>1 DEF IsClaim
    <3>3. \A p \in new[k].events : IsClaim(p, t) /\ p.actor = a =>
             p \in loc[k].events
      BY <2>3, OwnStay DEF IsClaim
    <3> QED BY <3>1, <3>2, <3>3 DEF OutRun
  <2>5. \A f \in g.events : First(f, g) /\ f \in loc[k].events =>
           f \in new[k].events
    BY <1>4, <2>2 DEF First
  <2>6. \A r \in loc[k].events :
           r.type = "run.finished" => r \in new[k].events
    BY <1>5, <2>2
  <2> HIDE DEF t, k
  <2> QED BY <2>1, <2>4, <2>5, <2>6 DEF Records, t, k
<1> QED BY <1>1, <1>6, <1>7, <1>8, <1>9, <1>10
    DEF MachinesPlay, GatesPlay, Played

-----------------------------------------------------------------------------
(***************************************************************************)
(* The ledger moves to a head that is pushed, or to a confirmation.        *)
(***************************************************************************)
\* The ledger moves to a known head that descends from it.
LEMMA SameFirsts ==
    ASSUME NEW g, NEW x,
           \A e : e.type = "claim.confirmed" =>
              (e \in g.events <=> e \in x.events)
    PROVE  \A f : First(f, g) <=> First(f, x)
BY DEF First

LEMMA PushPlays ==
    ASSUME NEW K, NEW n, NEW ttl, NEW last, NEW g, NEW loc, NEW home,
           Field(K, n, ttl, last, g, loc, home),
           NEW gt, Played(K, loc, gt, home, g),
           NEW x \in K, Ancestor(g, x)
    PROVE  /\ Played(K, loc, gt, home, x)
           /\ \A e \in g.events : e \in x.events
<1> HeadsPlay(K, home, g) /\ MachinesPlay(loc, home, g)
    /\ GatesPlay(gt, loc, home, g)
  BY DEF Played
<1>1. \A e : e.type = "claim.confirmed" => (e \in g.events <=> e \in x.events)
  <2>1. Plays(x, g, home) /\ Whole(g, n, ttl)
    BY FieldedHeads DEF HeadsPlay
  <2>2. \A e \in g.events : e.id \in x.seen
    BY <2>1, WholeIds DEF Ancestor
  <2> QED BY <2>1, <2>2 DEF Plays, Published, Informed
<1>2. \A f : First(f, g) <=> First(f, x)
  BY <1>1, SameFirsts
<1>3. \A e \in g.events : e.type # "claim.confirmed" => e \in x.events
  <2>1. Agree(x, g) /\ Whole(g, n, ttl)
    BY FieldedHeads DEF Field
  <2> QED BY <2>1, WholeIds DEF Agree, Ancestor
<1>4. \A f : First(f, g) => f \in g.events /\ f \in x.events
  BY <1>2 DEF First
<1>5. ASSUME NEW h \in K
      PROVE  Plays(h, x, home)
  <2>1. Plays(h, g, home)
    BY DEF HeadsPlay
  <2>2. Reports(h, x)
    BY <1>2, <1>4, <2>1 DEF Plays, Reports
  <2>3. Knows(h, x)
    BY <1>2, <1>4, <2>1 DEF Plays, Knows
  <2>4. Heirs(h, x)
    BY <1>2, <2>1 DEF Plays, Heirs
  <2>5. Published(h, x) /\ Informed(h, x) /\ Certified(h, x)
    BY <1>1, <2>1 DEF Plays, Published, Informed, Certified
  <2> QED BY <2>1, <2>2, <2>3, <2>4, <2>5 DEF Plays
<1>6. MachinesPlay(loc, home, x)
  <2>1. Proud(loc, home, x) /\ Heard(loc, home, x)
    BY <1>2, <1>4 DEF MachinesPlay, Proud, Heard
  <2>2. Relays(loc, home, x)
    BY DEF MachinesPlay, Relays, Ancestor
  <2>3. Succeeds(loc, home, x)
    BY <1>1, <1>2, <1>4 DEF MachinesPlay, Succeeds
  <2> QED BY <2>1, <2>2, <2>3 DEF MachinesPlay
<1>7. ASSUME NEW a \in Actors
      PROVE  Aims(a, gt, loc, home, x) /\ Records(a, gt, loc, home, x)
  <2>1. Aims(a, gt, loc, home, g) /\ Records(a, gt, loc, home, g)
    BY DEF GatesPlay
  <2>2. Aims(a, gt, loc, home, x)
    <3> SUFFICES ASSUME gt[a].stage = "push"
                 PROVE  Aims(a, gt, loc, home, x)
      BY DEF Aims
    <3>1. \A q : q.type = "claim.made" =>
             (q \in g.events => q \in x.events)
      BY <1>3
    <3> QED BY <2>1, <3>1 DEF Aims, IsClaim
  <2>3. Records(a, gt, loc, home, x)
    <3> SUFFICES ASSUME gt[a].stage = "record"
                 PROVE  Records(a, gt, loc, home, x)
      BY DEF Records
    <3> QED BY <1>1, <1>2, <1>4, <2>1 DEF Records
  <2> QED BY <2>2, <2>3
<1> QED BY <1>1, <1>3, <1>5, <1>6, <1>7 DEF Played, HeadsPlay, GatesPlay

LEMMA LandFacts ==
    ASSUME NEW K, NEW n, NEW ttl, NEW last, NEW g, NEW loc, NEW home,
           Field(K, n, ttl, last, g, loc, home), HeadsPlay(K, home, g),
           NEW a, NEW e, NEW h, NEW x, Lands(a, e, h, K, g, x)
    PROVE  /\ \A d : d.type = "claim.confirmed" =>
                 (d \in x.events <=> d \in g.events \/ d = e)
           /\ \A d : d.type # "claim.confirmed" =>
                 (d \in x.events <=> d \in h.events)
           /\ \A d \in g.events : d.type # "claim.confirmed" =>
                 d \in h.events
           /\ \A d \in g.events : d.type = "claim.confirmed" =>
                 d \in h.events
           /\ \A f : First(f, g) => First(f, x)
           /\ \A f : First(f, x) =>
                 \/ First(f, g)
                 \/ f = e /\ \A d \in h.events :
                                d.type = "claim.confirmed" => d.task # e.task
           /\ \A k \in K : e \notin k.events /\ e.id \notin k.seen
           /\ x.seen = h.seen \cup {e.id}
<1>1. /\ h \in K /\ Ancestor(g, h) /\ g \in K
      /\ e.type = "claim.confirmed"
      /\ x.events = h.events \cup {e} /\ x.seen = h.seen \cup {e.id}
      /\ \A q \in h.events : q.id < e.id
      /\ FirstsStay(g, x)
      /\ \A k \in K : e.id \notin k.seen
  BY DEF Lands, Field, On, Outstanding
<1>2. /\ Whole(h, n, ttl) /\ Whole(g, n, ttl) /\ Fits(h, g) /\ Agree(h, g)
      /\ Plays(h, g, home)
  BY <1>1, FieldedHeads DEF HeadsPlay
<1>3. \A d \in g.events : d.id \in h.seen
  BY <1>1, <1>2, WholeIds DEF Ancestor
<1>4. \A d \in g.events : d.type # "claim.confirmed" => d \in h.events
  BY <1>2, <1>3 DEF Agree
<1>5. \A d : d.type = "claim.confirmed" =>
         (d \in g.events <=> d \in h.events)
  BY <1>2, <1>3 DEF Plays, Published, Informed
<1>6. \A f : First(f, g) => First(f, x)
  BY <1>1 DEF FirstsStay, First
<1>7. ASSUME NEW f, First(f, x), ~ First(f, g)
      PROVE  f = e /\ \A d \in h.events :
                         d.type = "claim.confirmed" => d.task # e.task
  <2>1. f \notin h.events
    <3> SUFFICES ASSUME f \in h.events
                 PROVE  FALSE
      OBVIOUS
    <3>1. First(f, g)
      BY <1>1, <1>5, <1>7 DEF First
    <3> QED BY <1>7, <3>1
  <2>2. f = e
    BY <1>1, <1>7, <2>1 DEF First
  <2>3. ASSUME NEW d \in h.events, d.type = "claim.confirmed",
               d.task = e.task
        PROVE  FALSE
    <3>1. e.id <= d.id
      BY <1>1, <1>7, <2>2, <2>3 DEF First
    <3>2. d.id < e.id
      BY <1>1
    <3>3. d.id \in Nat /\ e.id \in Nat
      <4>1. d.id \in Nat
        BY <1>2, WholeIds
      <4>2. e.id \in Ids
        BY DEF Lands, Grounded, IsEvent
      <4> QED BY <4>1, <4>2 DEF Ids
    <3> QED BY <3>1, <3>2, <3>3
  <2> QED BY <2>2, <2>3
<1>8. \A k \in K : e \notin k.events
  <2> SUFFICES ASSUME NEW k \in K, e \in k.events
               PROVE  FALSE
    OBVIOUS
  <2>1. Whole(k, n, ttl)
    BY FieldedHeads
  <2>2. e.id \in k.seen
    BY <2>1, WholeIds
  <2> QED BY <1>1, <2>2
<1> QED BY <1>1, <1>4, <1>5, <1>6, <1>7, <1>8

\* A new first winner's attempt was ended nowhere.
LEMMA NewWinnerIsAtWork ==
    ASSUME NEW K, NEW n, NEW ttl, NEW last, NEW g, NEW loc, NEW home,
           Field(K, n, ttl, last, g, loc, home), HeadsPlay(K, home, g),
           NEW gt, GatesPlay(gt, loc, home, g),
           NEW a \in Actors, NEW e, NEW h, NEW x, Lands(a, e, h, K, g, x),
           gt[a].stage = "push", gt[a].event = e, gt[a].head = h,
           \A d \in h.events : d.type = "claim.confirmed" => d.task # e.task,
           NEW k \in K \cup {x}, NEW r \in k.events
    PROVE  ~ EndsOf(r, a, e.task)
<1> SUFFICES ASSUME EndsOf(r, a, e.task)
             PROVE  FALSE
  OBVIOUS
<1> DEFINE t == e.task
           L == loc[home[a]]
<1>1. r.type # "claim.confirmed" /\ r.actor = a /\ r.task = t /\ IsEnd(r)
  BY DEF EndsOf, IsEnd
<1>2. \E j \in K : r \in j.events
  <2>1. h \in K
    BY DEF Lands
  <2>2. \A d : d.type # "claim.confirmed" =>
           (d \in x.events <=> d \in h.events)
    BY LandFacts
  <2> QED BY <1>1, <2>1, <2>2
<1>3. r \in L.events
  BY <1>1, <1>2 DEF Field, Owned
<1>4. /\ \A y \in L.events : EndsOf(y, a, t) => y \in h.events
      /\ \A q \in h.events : IsClaim(q, t) => e.claim <= q.id
  BY DEF GatesPlay, Aims
<1>5. r \in h.events
  BY <1>3, <1>4
<1>6. /\ h \in K /\ Plays(h, g, home) /\ Whole(h, n, ttl)
  <2>1. h \in K
    BY DEF Lands
  <2> QED BY <2>1, FieldedHeads DEF HeadsPlay
<1>7. \A f \in g.events : First(f, g) => f.task # t
  <2>1. \A d \in g.events : d.type = "claim.confirmed" => d \in h.events
    BY LandFacts
  <2> QED BY <2>1 DEF First
<1>8. Beaten(a, t, r.id, h.events)
  BY <1>1, <1>5, <1>6, <1>7 DEF Plays, Knows
<1>9. PICK y \in h.events :
         /\ IsClaim(y, t) /\ y.id < r.id
         /\ \A q \in h.events : IsClaim(q, t) /\ q.actor = a /\ q.id < r.id =>
               y.id < q.id
  BY <1>8 DEF Beaten
<1>10. PICK p \in h.events : IsClaim(p, t) /\ p.id = e.claim /\ p.actor = a
  BY DEF Lands, Grounded, IsClaim
<1>11. p.id \in Nat /\ y.id \in Nat /\ r.id \in Nat
  BY <1>5, <1>6, WholeIds
<1>12. p.id <= y.id
  BY <1>4, <1>9, <1>10
<1> QED BY <1>9, <1>10, <1>11, <1>12

\* The task of confirmation e has a winner on x, e itself or one known to h.
HasWinner(e, h, x) ==
    \E f \in x.events : /\ First(f, x) /\ f.task = e.task
                        /\ f = e \/ f \in h.events

\* What holds of the confirmation e as it lands.
LEMMA LandHeads ==
    ASSUME NEW K, NEW n, NEW ttl, NEW last, NEW g, NEW loc, NEW home,
           Field(K, n, ttl, last, g, loc, home), HeadsPlay(K, home, g),
           NEW gt, GatesPlay(gt, loc, home, g),
           NEW a \in Actors, NEW e, NEW h, NEW x, Lands(a, e, h, K, g, x),
           gt[a].stage = "push", gt[a].event = e, gt[a].head = h
    PROVE  /\ HeadsPlay(K \cup {x}, home, x)
           /\ HasWinner(e, h, x)
<1>1. /\ \A d : d.type = "claim.confirmed" =>
            (d \in x.events <=> d \in g.events \/ d = e)
      /\ \A d : d.type # "claim.confirmed" =>
            (d \in x.events <=> d \in h.events)
      /\ \A d \in g.events : d.type = "claim.confirmed" => d \in h.events
      /\ \A f : First(f, g) => First(f, x)
      /\ \A f : First(f, x) =>
            \/ First(f, g)
            \/ f = e /\ \A d \in h.events :
                           d.type = "claim.confirmed" => d.task # e.task
      /\ \A k \in K : e \notin k.events /\ e.id \notin k.seen
  BY LandFacts
<1>2. /\ h \in K /\ e.type = "claim.confirmed" /\ e.actor = a
      /\ e.id \in Ids
      /\ \A f \in h.events : First(f, h) /\ f.task = e.task =>
            ClaimedAfter(e.claim, f, h)
  BY DEF Lands, Grounded, IsEvent
<1>3. /\ Plays(h, g, home) /\ Fits(h, g)
      /\ Whole(h, n, ttl) /\ Whole(g, n, ttl)
      /\ \A k \in K : Plays(k, g, home)
      /\ \A j, k \in K : Single(j, k, home)
  BY <1>2, FieldedHeads DEF HeadsPlay
<1>4. \A f : First(f, g) => f \in g.events /\ f \in h.events
  BY <1>1 DEF First
<1>5. \A f \in x.events, k \in K \cup {x} : \A r \in k.events :
         First(f, x) /\ ~ First(f, g) => ~ EndsOf(r, f.actor, f.task)
  BY <1>1, <1>2, NewWinnerIsAtWork
<1>6. e.id \in Nat
  BY <1>2 DEF Ids
<1>7. ASSUME NEW k \in K
      PROVE  Plays(k, x, home)
  <2>1. Plays(k, g, home)
    BY <1>3
  <2>2. Reports(k, x)
    BY <1>5, <2>1 DEF Plays, Reports, First
  <2>3. Knows(k, x)
    <3>1. \A f : First(f, g) => f \in x.events
      BY <1>1 DEF First
    <3> QED BY <1>1, <2>1, <3>1 DEF Plays, Knows
  <2>4. Heirs(k, x)
    BY <1>1, <2>1 DEF Plays, Heirs
  <2>5. Published(k, x) /\ Informed(k, x)
    BY <1>1, <2>1 DEF Plays, Published, Informed
  <2>6. Certified(k, x)
    BY <1>1, <2>1 DEF Plays, Certified
  <2> QED BY <2>1, <2>2, <2>3, <2>4, <2>5, <2>6 DEF Plays
<1>8. \A d \in x.events : d = e \/ d \in h.events
  BY DEF Lands, On
<1>9. \A d \in h.events : d \in x.events
  BY DEF Lands, On
<1>10. \E f \in x.events :
          /\ First(f, x) /\ f.task = e.task
          /\ f = e \/ f \in h.events
          /\ ClaimedAfter(e.claim, f, x)
  <2>1. CASE \A d \in h.events :
                d.type = "claim.confirmed" => d.task # e.task
    <3>1. e \in x.events
      BY <1>1, <1>2
    <3>2. \A d \in x.events :
             d.type = "claim.confirmed" /\ d.task = e.task => d = e
      BY <1>8, <2>1
    <3>3. First(e, x)
      BY <1>2, <1>6, <3>1, <3>2 DEF First
    <3>4. ClaimedAfter(e.claim, e, x)
      BY DEF ClaimedAfter
    <3> QED BY <3>1, <3>3, <3>4
  <2>2. ASSUME NEW d \in h.events, d.type = "claim.confirmed",
               d.task = e.task
        PROVE  \E f \in x.events :
                  /\ First(f, x) /\ f.task = e.task
                  /\ f = e \/ f \in h.events
                  /\ ClaimedAfter(e.claim, f, x)
    <3>1. PICK f \in h.events : First(f, g) /\ f.task = e.task
      BY <1>3, <2>2 DEF Plays, Heirs
    <3>2. First(f, h)
      BY <1>3, <3>1, FirstsAreTheLedgers
    <3>3. ClaimedAfter(e.claim, f, h)
      BY <1>2, <3>1, <3>2
    <3>4. ClaimedAfter(e.claim, f, x)
      BY <1>9, <3>3, AfterStays
    <3> QED BY <1>1, <1>9, <3>1, <3>4
  <2> QED BY <2>1, <2>2
<1>11. /\ Single(x, x, home)
       /\ \A k \in K : Single(x, k, home) /\ Single(k, x, home)
  BY <1>1, <1>2, <1>3 DEF Single, IsClaim
<1>12. Plays(x, x, home)
  <2>1. Plain(x)
    BY <1>2, <1>3, <1>8 DEF Plays, Plain
  <2>2. Reports(x, x)
    <3>1. Reports(h, x)
      BY <1>2, <1>7 DEF Plays
    <3>2. \A r \in x.events : IsEnd(r) => r \in h.events
      BY <1>2, <1>8 DEF IsEnd
    <3> QED BY <3>1, <3>2 DEF Reports, EndsOf
  <2>3. Knows(x, x)
    <3> SUFFICES ASSUME NEW r \in x.events, IsEnd(r)
                 PROVE  \/ Beaten(r.actor, r.task, r.id, x.events)
                        \/ \E f \in x.events :
                              /\ First(f, x) /\ f.task = r.task
                              /\ \/ f.actor = r.actor
                                 \/ f \in x.events /\ f.id < r.id
      BY DEF Knows
    <3>1. r \in h.events /\ Knows(h, x)
      BY <1>2, <1>7, <1>8 DEF IsEnd, Plays
    <3>2. ASSUME Beaten(r.actor, r.task, r.id, h.events)
          PROVE  Beaten(r.actor, r.task, r.id, x.events)
      <4>1. \A q, t : IsClaim(q, t) => (q \in x.events <=> q \in h.events)
        BY <1>1 DEF IsClaim
      <4> QED BY <3>2, <4>1 DEF Beaten
    <3> QED BY <1>9, <3>1, <3>2 DEF Knows
  <2>4. Heirs(x, x)
    <3> SUFFICES ASSUME NEW d \in x.events, d.type = "claim.confirmed"
                 PROVE  \E f \in x.events : /\ First(f, x) /\ f.task = d.task
                                            /\ ClaimedAfter(d.claim, f, x)
      BY DEF Heirs
    <3>1. CASE d = e
      BY <1>10, <3>1
    <3>2. CASE d \in h.events
      <4>1. PICK f \in h.events : /\ First(f, x) /\ f.task = d.task
                                  /\ ClaimedAfter(d.claim, f, h)
        BY <1>2, <1>7, <3>2 DEF Plays, Heirs
      <4>2. ClaimedAfter(d.claim, f, x)
        BY <1>9, <4>1, AfterStays
      <4> QED BY <1>9, <4>1, <4>2
    <3> QED BY <1>8, <3>1, <3>2
  <2>5. Published(x, x) /\ Informed(x, x)
    BY DEF Published, Informed
  <2>6. Certified(x, x)
    <3>1. Certified(h, x)
      BY <1>2, <1>7 DEF Plays
    <3> QED BY <1>2, <1>8, <3>1 DEF Certified
  <2> QED BY <1>11, <2>1, <2>2, <2>3, <2>4, <2>5, <2>6 DEF Plays
<1>13. HeadsPlay(K \cup {x}, home, x)
  BY <1>3, <1>7, <1>11, <1>12 DEF HeadsPlay
<1> QED BY <1>10, <1>13 DEF HasWinner

\* The gate of actor a carries the confirmation e for head h, and goes on to
\* record that it landed, or forgets it.
Delivers(gt, a, e, h, new) ==
    /\ gt[a].stage = "push" /\ gt[a].event = e /\ gt[a].head = h
    /\ \A b \in Actors \ {a} : new[b] = gt[b]
    /\ \/ new[a].stage = "idle"
       \/ /\ new[a].stage = "record" /\ new[a].task = e.task
          /\ new[a].verdict = "confirmed"

\* The confirmation of actor a lands, and its gate goes on.
LEMMA LandPlays ==
    ASSUME NEW K, NEW n, NEW ttl, NEW last, NEW g, NEW loc, NEW home,
           Field(K, n, ttl, last, g, loc, home),
           NEW gt, Played(K, loc, gt, home, g),
           NEW a \in Actors, NEW e, NEW h, NEW x, Lands(a, e, h, K, g, x),
           NEW new, Delivers(gt, a, e, h, new)
    PROVE  /\ Played(K \cup {x}, loc, new, home, x)
           /\ \A d \in g.events : d \in x.events
<1> HeadsPlay(K, home, g) /\ MachinesPlay(loc, home, g)
    /\ GatesPlay(gt, loc, home, g)
  BY DEF Played
<1> /\ gt[a].stage = "push" /\ gt[a].event = e /\ gt[a].head = h
    /\ \A b \in Actors \ {a} : new[b] = gt[b]
    /\ \/ new[a].stage = "idle"
       \/ /\ new[a].stage = "record" /\ new[a].task = e.task
          /\ new[a].verdict = "confirmed"
  BY DEF Delivers
<1> DEFINE L == loc[home[a]]
<1>1. /\ \A d : d.type = "claim.confirmed" =>
            (d \in x.events <=> d \in g.events \/ d = e)
      /\ \A d : d.type # "claim.confirmed" =>
            (d \in x.events <=> d \in h.events)
      /\ \A d \in g.events : d.type # "claim.confirmed" => d \in h.events
      /\ \A d \in g.events : d.type = "claim.confirmed" => d \in h.events
      /\ \A f : First(f, g) => First(f, x)
      /\ \A f : First(f, x) =>
            \/ First(f, g)
            \/ f = e /\ \A d \in h.events :
                           d.type = "claim.confirmed" => d.task # e.task
      /\ x.seen = h.seen \cup {e.id}
  BY LandFacts
<1>2. /\ h \in K /\ e.type = "claim.confirmed" /\ e.actor = a
      /\ \E q \in h.events : q.id = e.claim /\ q.id < e.id
      /\ \A f \in h.events : First(f, h) /\ f.task = e.task =>
            ClaimedAfter(e.claim, f, h)
      /\ Ancestor(g, h) /\ e.id \in Nat
  BY DEF Lands, Grounded, IsEvent, Ids
<1>3. /\ L \in K /\ g \in K /\ home \in [Actors -> Machines]
      /\ \A k \in Machines : loc[k] \in K
  BY DEF Field
<1>4. /\ Plays(L, g, home) /\ Whole(L, n, ttl) /\ Whole(h, n, ttl)
      /\ Fits(h, g) /\ Whole(g, n, ttl)
      /\ Agree(L, h)
  BY <1>2, <1>3, FieldedHeads DEF HeadsPlay
<1>5. HeadsPlay(K \cup {x}, home, x) /\ HasWinner(e, h, x)
  BY LandHeads
<1>6. \A f \in x.events, k \in K : \A r \in k.events :
         First(f, x) /\ ~ First(f, g) => ~ EndsOf(r, f.actor, f.task)
  BY <1>1, <1>2, NewWinnerIsAtWork
<1>7. \A f : First(f, g) => f \in g.events /\ f \in h.events
  BY <1>1 DEF First
<1>8. /\ Ancestor(h, L)
      /\ \A q \in L.events : IsClaim(q, e.task) /\ q.id < e.id =>
            q \in h.events \cup g.events
      /\ (\A f \in h.events :
             f.type = "claim.confirmed" => f.task # e.task)
         => \A q \in h.events : IsClaim(q, e.task) => e.claim <= q.id
  BY DEF GatesPlay, Aims
<1> HIDE DEF L
<1>9. Proud(loc, home, x)
  <2> SUFFICES ASSUME NEW f \in x.events, First(f, x)
               PROVE  Ahead(f, loc[home[f.actor]])
    BY DEF Proud
  <2>1. CASE First(f, g)
    BY <1>7, <2>1 DEF MachinesPlay, Proud
  <2>2. CASE ~ First(f, g)
    <3>1. f = e /\ \A q \in h.events : IsClaim(q, e.task) => e.claim <= q.id
      BY <1>1, <1>8, <2>2
    <3>2. ASSUME NEW q \in L.events, IsClaim(q, e.task)
          PROVE  e.claim <= q.id
      <4>1. CASE q.id < e.id
        <5>1. q \in h.events
          BY <1>1, <1>8, <3>2, <4>1 DEF IsClaim
        <5> QED BY <3>1, <3>2, <5>1
      <4>2. CASE ~ (q.id < e.id)
        <5>1. q.id \in Nat
          BY <1>4, WholeIds
        <5>2. PICK p \in h.events : p.id = e.claim /\ p.id < e.id
          BY <1>2
        <5>3. p.id \in Nat
          BY <1>4, WholeIds
        <5> QED BY <1>2, <4>2, <5>1, <5>2, <5>3
      <4> QED BY <4>1, <4>2
    <3>3. loc[home[f.actor]] = L
      BY <1>2, <3>1 DEF L
    <3> QED BY <3>1, <3>2, <3>3 DEF Ahead
  <2> QED BY <2>1, <2>2
<1>10. Heard(loc, home, x)
  <2> SUFFICES ASSUME NEW f \in x.events, NEW m \in Machines, First(f, x),
                      m # home[f.actor],
                      NEW r \in loc[m].events, EndsOf(r, f.actor, f.task)
               PROVE  f \in loc[m].events
    BY DEF Heard
  <2>1. First(f, g)
    BY <1>3, <1>6
  <2> QED BY <1>7, <2>1 DEF MachinesPlay, Heard
<1>11. Relays(loc, home, x)
  <2>1. g.seen \subseteq x.seen
    BY <1>1, <1>2 DEF Ancestor
  <2> QED BY <2>1 DEF MachinesPlay, Relays, Ancestor
<1>12. \A d \in h.events : d.type # "claim.confirmed" => d \in L.events
  BY <1>4, <1>8, WholeIds DEF Agree, Ancestor
<1>13. Succeeds(loc, home, x)
  <2> SUFFICES ASSUME NEW d \in x.events, NEW f \in x.events,
                      d.type = "claim.confirmed", First(f, x),
                      f.task = d.task
               PROVE  ClaimedAfter(d.claim, f, loc[home[d.actor]])
    BY DEF Succeeds
  <2>1. CASE First(f, g) /\ d \in g.events
    BY <1>7, <2>1 DEF MachinesPlay, Succeeds
  <2>2. CASE First(f, g) /\ d = e
    <3>1. f \in h.events /\ First(f, h)
      BY <1>4, <1>7, <2>2, FirstsAreTheLedgers
    <3>2. ClaimedAfter(e.claim, f, h)
      BY <1>2, <2>2, <3>1
    <3>3. ClaimedAfter(e.claim, f, L)
      BY <1>12, <3>2, AfterStays
    <3> QED BY <1>2, <2>2, <3>3 DEF L
  <2>3. CASE ~ First(f, g)
    <3>1. f = e /\ d \notin h.events
      BY <1>1, <2>3
    <3>2. d = e
      BY <1>1, <3>1
    <3> QED BY <3>1, <3>2 DEF ClaimedAfter
  <2> QED BY <1>1, <2>1, <2>2, <2>3
<1>14. \A d \in g.events : d \in x.events
  BY <1>1
<1>15. ASSUME NEW b \in Actors \ {a}
       PROVE  Aims(b, new, loc, home, x) /\ Records(b, new, loc, home, x)
  <2>1. /\ Aims(b, gt, loc, home, g) /\ Records(b, gt, loc, home, g)
        /\ new[b] = gt[b]
    BY DEF GatesPlay
  <2>2. Aims(b, new, loc, home, x)
    <3> SUFFICES ASSUME new[b].stage = "push"
                 PROVE  Aims(b, new, loc, home, x)
      BY DEF Aims
    <3> QED BY <1>14, <2>1 DEF Aims
  <2>3. Records(b, new, loc, home, x)
    <3> SUFFICES ASSUME new[b].stage = "record"
                 PROVE  Records(b, new, loc, home, x)
      BY DEF Records
    <3>1. \A f \in x.events : First(f, x) /\ f.actor = b =>
             f \in g.events /\ First(f, g)
      BY <1>1, <1>2, <1>7
    <3>2. \A f \in g.events : First(f, g) => f \in x.events /\ First(f, x)
      BY <1>1, <1>14
    <3> QED BY <1>14, <2>1, <3>1, <3>2 DEF Records
  <2> QED BY <2>2, <2>3
<1>16. Aims(a, new, loc, home, x) /\ Records(a, new, loc, home, x)
  <2>1. CASE new[a].stage = "idle"
    BY <2>1 DEF Aims, Records
  <2>2. CASE /\ new[a].stage = "record" /\ new[a].task = e.task
             /\ new[a].verdict = "confirmed"
    <3>1. PICK f \in x.events : /\ First(f, x) /\ f.task = e.task
                                /\ f = e \/ f \in h.events
      BY <1>5 DEF HasWinner
    <3>2. f.actor = a \/ f \in L.events
      <4>1. CASE f = e
        BY <1>2, <4>1
      <4>2. CASE f # e
        <5>1. f \in g.events /\ f \in h.events /\ f.type = "claim.confirmed"
          BY <1>1, <3>1, <4>2 DEF First
        <5>2. f.id \in L.seen
          BY <1>4, <1>8, <5>1, WholeIds DEF Ancestor
        <5> QED BY <1>4, <5>1, <5>2 DEF Plays, Informed
      <4> QED BY <4>1, <4>2
    <3>3. e \in x.events
      BY <1>1, <1>2
    <3>4. Records(a, new, loc, home, x)
      BY <1>2, <2>2, <3>1, <3>2, <3>3 DEF Records, L
    <3> QED BY <2>2, <3>4 DEF Aims
  <2> QED BY <2>1, <2>2
<1>17. GatesPlay(new, loc, home, x)
  BY <1>15, <1>16 DEF GatesPlay
<1> QED BY <1>5, <1>9, <1>10, <1>11, <1>13, <1>14, <1>17
    DEF MachinesPlay, Played

-----------------------------------------------------------------------------
(***************************************************************************)
(* A machine writes.                                                       *)
(***************************************************************************)
\* What a's machine may commit at instant i: a claim of a task nobody claimed
\* there, or the end of an attempt as the winner, or with the winner known, or
\* outrun.
Fairly(h, a, D, i, g) ==
    /\ \A e, f \in D : e = f
    /\ \A e \in D :
        /\ e.id = i /\ e.actor = a
        /\ e.type = "claim.made" \/ IsEnd(e)
        /\ e.type = "claim.made" => \A q \in h.events : ~ IsClaim(q, e.task)
        /\ IsEnd(e) =>
              /\ \A f \in g.events : First(f, g) /\ EndsOf(e, f.actor, f.task) =>
                    /\ e.type = "run.finished" /\ e.outcome = "done"
                    /\ e.claim = f.claim
              /\ \/ OutRun(a, e.task, h.events)
                 \/ \E f \in g.events : /\ First(f, g) /\ f.task = e.task
                                        /\ f.actor = a \/ f \in h.events
        /\ e.type = "run.finished" /\ e.outcome = "done" =>
              \E c \in g.events : c.type = "claim.confirmed" /\ c.claim = e.claim

LEMMA WrittenHead ==
    ASSUME NEW K, NEW n, NEW ttl, NEW last, NEW g, NEW loc, NEW home,
           Field(K, n, ttl, last, g, loc, home), HeadsPlay(K, home, g),
           NEW a \in Actors, NEW h, h = loc[home[a]], NEW D, NEW x,
           Fairly(h, a, D, n + 1, g),
           x.events = h.events \cup D, x.seen = h.seen \cup {n + 1}
    PROVE  HeadsPlay(K \cup {x}, home, g)
<1>1. /\ h \in K /\ g \in K /\ home \in [Actors -> Machines] /\ n \in Nat
      /\ Owned(K, loc, home)
  BY DEF Field
<1>2. /\ Plays(h, g, home) /\ Whole(h, n, ttl) /\ Whole(g, n, ttl)
      /\ \A k \in K : Plays(k, g, home) /\ Whole(k, n, ttl)
      /\ \A j, k \in K : Single(j, k, home)
  BY <1>1, FieldedHeads DEF HeadsPlay
<1>3. /\ \A f \in g.events : f.id \in Nat /\ f.id \in 1 .. n
      /\ \A f \in h.events : f.id \in Nat /\ f.id \in 1 .. n
  BY <1>2, WholeIds
<1>4. /\ \A f \in g.events : f.id < n + 1 /\ f.id # n + 1
      /\ \A f \in h.events : f.id < n + 1 /\ f.id # n + 1
  BY <1>1, <1>3
<1> DEFINE i == n + 1
<1>5. /\ \A f \in g.events : f.id < i /\ f.id # i
      /\ \A f \in h.events : f.id < i /\ f.id # i
      /\ Fairly(h, a, D, i, g) /\ x.seen = h.seen \cup {i}
  BY <1>4
<1> HIDE DEF i
<1>6. \A e \in D : e.id = i /\ e.actor = a /\ e.type # "claim.confirmed"
  BY <1>5 DEF Fairly, IsEnd
<1>7. \A k \in K : Single(x, k, home) /\ Single(k, x, home)
  <2> SUFFICES ASSUME NEW k \in K, NEW p \in D, NEW q \in k.events, NEW t,
                      IsClaim(p, t), IsClaim(q, t),
                      home[p.actor] = home[q.actor]
               PROVE  FALSE
    BY <1>1, <1>2 DEF Single, IsClaim
  <2>1. q \in h.events
    BY <1>1, <1>6 DEF Owned, IsClaim
  <2> QED BY <1>5, <2>1 DEF Fairly, IsClaim
<1>8. Single(x, x, home)
  <2> SUFFICES ASSUME NEW p \in x.events, NEW q \in x.events,
                      p.type = "claim.made", IsClaim(q, p.task),
                      home[p.actor] = home[q.actor]
               PROVE  p = q
    BY DEF Single
  <2>1. CASE p \in h.events
    BY <1>1, <1>7, <2>1 DEF Single
  <2>2. CASE q \in h.events
    BY <1>1, <1>7, <2>2 DEF Single
  <2>3. CASE p \in D /\ q \in D
    BY <2>3 DEF Fairly
  <2> QED BY <2>1, <2>2, <2>3
<1>9. Plain(x)
  BY <1>2, <1>5 DEF Plays, Plain, Fairly, IsEnd
<1>10. Reports(x, g)
  <2> SUFFICES ASSUME NEW f \in g.events, NEW r \in x.events, First(f, g),
                      EndsOf(r, f.actor, f.task)
               PROVE  /\ r.type = "run.finished" /\ r.outcome = "done"
                      /\ r.claim = f.claim /\ f.id < r.id
    BY DEF Reports
  <2>1. CASE r \in h.events
    BY <1>2, <2>1 DEF Plays, Reports
  <2>2. CASE r \in D
    BY <1>5, <2>2 DEF Fairly, EndsOf
  <2> QED BY <2>1, <2>2
<1>11. Knows(x, g)
  <2> SUFFICES ASSUME NEW r \in x.events, IsEnd(r)
               PROVE  \/ Beaten(r.actor, r.task, r.id, x.events)
                      \/ \E f \in g.events :
                            /\ First(f, g) /\ f.task = r.task
                            /\ \/ f.actor = r.actor
                               \/ f \in x.events /\ f.id < r.id
    BY DEF Knows
  <2>1. CASE r \in h.events
    <3>1. ASSUME Beaten(r.actor, r.task, r.id, h.events)
          PROVE  Beaten(r.actor, r.task, r.id, x.events)
      <4>1. PICK y \in h.events :
               /\ IsClaim(y, r.task) /\ y.id < r.id
               /\ \A d \in h.events :
                     IsClaim(d, r.task) /\ d.actor = r.actor
                     /\ d.id < r.id => y.id < d.id
        BY <3>1 DEF Beaten
      <4>2. \A d \in D : ~ (d.id < r.id)
        <5>1. r.id < n + 1 /\ n + 1 \in Nat /\ r.id \in Nat
          BY <1>1, <1>3, <1>4, <2>1
        <5> QED BY <1>6, <5>1 DEF i
      <4> QED BY <4>1, <4>2 DEF Beaten
    <3> QED BY <1>2, <2>1, <3>1 DEF Plays, Knows
  <2>2. CASE r \in D
    <3>1. ASSUME OutRun(a, r.task, h.events)
          PROVE  Beaten(r.actor, r.task, r.id, x.events)
      <4>1. PICK y \in h.events :
               /\ IsClaim(y, r.task)
               /\ \A p \in h.events : IsClaim(p, r.task) /\ p.actor = a =>
                     y.id < p.id
        BY <3>1 DEF OutRun
      <4>2. y.id < r.id /\ r.actor = a
        BY <1>5, <1>6, <2>2
      <4>3. \A d \in D : ~ (d.id < r.id)
        <5>1. n + 1 \in Nat
          BY <1>1
        <5> QED BY <1>6, <2>2, <5>1 DEF i
      <4> QED BY <4>1, <4>2, <4>3 DEF Beaten
    <3> QED BY <1>5, <1>6, <2>2, <3>1 DEF Fairly
  <2> QED BY <2>1, <2>2
<1>12. Heirs(x, g)
  <2> SUFFICES ASSUME NEW e \in x.events, e.type = "claim.confirmed"
               PROVE  \E f \in x.events : /\ First(f, g) /\ f.task = e.task
                                          /\ ClaimedAfter(e.claim, f, x)
    BY DEF Heirs
  <2>1. e \in h.events
    BY <1>6
  <2>2. PICK f \in h.events : /\ First(f, g) /\ f.task = e.task
                              /\ ClaimedAfter(e.claim, f, h)
    BY <1>2, <2>1 DEF Plays, Heirs
  <2>3. \A d \in h.events : d.type # "claim.confirmed" => d \in x.events
    OBVIOUS
  <2>4. ClaimedAfter(e.claim, f, x)
    BY <2>2, <2>3, AfterStays
  <2> QED BY <2>2, <2>4
<1>13. Published(x, g) /\ Informed(x, g)
  BY <1>2, <1>5, <1>6 DEF Plays, Published, Informed
<1>14. Certified(x, g)
  BY <1>2, <1>5, <1>6 DEF Plays, Certified, Fairly
<1>15. Plays(x, g, home)
  BY <1>8, <1>9, <1>10, <1>11, <1>12, <1>13, <1>14 DEF Plays
<1> QED BY <1>2, <1>7, <1>8, <1>15 DEF HeadsPlay

\* The gate of actor a after a commit of the events D: shut, or as it was if
\* there are none.  What the others carry is no later than instant n.
GatesAfter(gt, new, a, D, n) ==
    /\ \A b \in Actors \ {a} : new[b] = gt[b]
    /\ \/ new[a].stage \in {"idle", "judge"}
       \/ D = {} /\ new[a] = gt[a]
    /\ \A b \in Actors : gt[b].stage = "push" => gt[b].event.id \in 1 .. n

\* Actor a's machine commits what it may.
LEMMA WritePlays ==
    ASSUME NEW K, NEW n, NEW ttl, NEW last, NEW g, NEW loc, NEW home,
           Field(K, n, ttl, last, g, loc, home),
           NEW gt, Played(K, loc, gt, home, g),
           NEW a \in Actors, NEW h, h = loc[home[a]], NEW D, NEW x,
           Fairly(h, a, D, n + 1, g),
           x.events = h.events \cup D, x.seen = h.seen \cup {n + 1},
           NEW l2,
           Puts(loc, home[a], x, l2),
           NEW new, GatesAfter(gt, new, a, D, n)
    PROVE  Played(K \cup {x}, l2, new, home, g)
<1> HeadsPlay(K, home, g) /\ MachinesPlay(loc, home, g)
    /\ GatesPlay(gt, loc, home, g)
  BY DEF Played
<1>1. /\ h \in K /\ g \in K /\ home \in [Actors -> Machines] /\ n \in Nat
      /\ Owned(K, loc, home) /\ DOMAIN loc = Machines
  BY DEF Field
<1>2. Plays(h, g, home) /\ Whole(h, n, ttl) /\ Whole(g, n, ttl)
  BY <1>1, FieldedHeads DEF HeadsPlay
<1>3. /\ \A m \in Machines : l2[m] = IF m = home[a] THEN x ELSE loc[m]
      /\ home[a] \in Machines
  BY <1>1 DEF Puts
<1>4. HeadsPlay(K \cup {x}, home, g)
  BY WrittenHead
<1>5. \A e \in D : /\ e.id = n + 1 /\ e.actor = a
                   /\ e.type = "claim.made" \/ IsEnd(e)
  BY DEF Fairly
<1>6. \A m \in Machines : loc[m].events \subseteq l2[m].events
  <2>1. h.events \subseteq x.events
    OBVIOUS
  <2> QED BY <1>3, <2>1
<1>7. \A f \in g.events : f.actor \in Actors /\ f.id \in 1 .. n
  BY <1>2, WholeIds DEF Whole, Sound, AreEvents, IsEvent
<1>8. Proud(l2, home, g)
  <2> SUFFICES ASSUME NEW f \in g.events, First(f, g)
               PROVE  Ahead(f, l2[home[f.actor]])
    BY DEF Proud
  <2> DEFINE m == home[f.actor]
  <2>1. m \in Machines /\ Ahead(f, loc[m])
    BY <1>1, <1>7 DEF MachinesPlay, Proud
  <2>2. CASE f \in loc[m].events
    BY <1>6, <2>1, <2>2 DEF Ahead
  <2>3. CASE \A q \in loc[m].events : IsClaim(q, f.task) => f.claim <= q.id
    <3>1. f.claim <= n + 1
      <4>1. PICK q \in g.events : q.id = f.claim
        BY <1>2, ClaimedBy DEF First
      <4> QED BY <1>1, <1>7, <4>1
    <3>2. \A q \in l2[m].events : q \in loc[m].events \/ q \in D
      BY <1>3, <2>1
    <3>3. \A q \in l2[m].events : IsClaim(q, f.task) => f.claim <= q.id
      BY <1>5, <2>3, <3>1, <3>2
    <3> QED BY <3>3 DEF Ahead
  <2> QED BY <2>1, <2>2, <2>3 DEF Ahead
<1>9. Heard(l2, home, g)
  <2> SUFFICES ASSUME NEW f \in g.events, NEW m \in Machines, First(f, g),
                      m # home[f.actor],
                      NEW r \in l2[m].events, EndsOf(r, f.actor, f.task)
               PROVE  f \in l2[m].events
    BY DEF Heard
  <2>1. r \in loc[m].events
    <3>1. CASE m = home[a]
      BY <1>3, <1>5, <3>1 DEF EndsOf
    <3>2. CASE m # home[a]
      BY <1>3, <3>2
    <3> QED BY <3>1, <3>2
  <2>2. f \in loc[m].events
    BY <2>1 DEF MachinesPlay, Heard
  <2> QED BY <1>6, <2>2
<1>10. Relays(l2, home, g)
  <2> SUFFICES ASSUME NEW m \in Machines, \A b \in Actors : home[b] # m
               PROVE  Ancestor(l2[m], g)
    BY DEF Relays
  <2>1. l2[m] = loc[m]
    BY <1>3
  <2> QED BY <2>1 DEF MachinesPlay, Relays
<1>11. Succeeds(l2, home, g)
  <2> SUFFICES ASSUME NEW e \in g.events, NEW f \in g.events,
                      e.type = "claim.confirmed", First(f, g),
                      f.task = e.task
               PROVE  ClaimedAfter(e.claim, f, l2[home[e.actor]])
    BY DEF Succeeds
  <2> DEFINE k == loc[home[e.actor]]
             y == l2[home[e.actor]]
  <2>1. home[e.actor] \in Machines
    BY <1>1, <1>7
  <2>2. ClaimedAfter(e.claim, f, k)
    BY DEF MachinesPlay, Succeeds
  <2>3. \A d \in k.events : d.type # "claim.confirmed" => d \in y.events
    BY <1>6, <2>1
  <2> HIDE DEF k, y
  <2>4. ClaimedAfter(e.claim, f, y)
    BY <2>2, <2>3, AfterStays
  <2> QED BY <2>4 DEF y
<1>12. \A b \in Actors : \/ new[b] = gt[b]
                         \/ b = a /\ new[b].stage \in {"idle", "judge"}
  BY DEF GatesAfter
<1>13. \A b \in Actors : new[b].stage \in {"push", "record"} =>
          new[b] = gt[b] /\ (b # a \/ D = {})
  BY DEF GatesAfter
<1>14. ASSUME NEW b \in Actors, new[b].stage = "push"
       PROVE  Aims(b, new, l2, home, g)
  <2> DEFINE e == gt[b].event
             k == gt[b].head
             m == home[b]
  <2>1. new[b] = gt[b] /\ (b # a \/ D = {}) /\ gt[b].stage = "push"
    BY <1>13, <1>14
  <2>2. /\ Ancestor(k, loc[m])
        /\ \A y \in loc[m].events : EndsOf(y, b, e.task) => y \in k.events
        /\ \A q \in loc[m].events : IsClaim(q, e.task) /\ q.id < e.id =>
              q \in k.events \cup g.events
        /\ (\A f \in k.events :
               f.type = "claim.confirmed" => f.task # e.task)
           => \A q \in k.events : IsClaim(q, e.task) => e.claim <= q.id
    BY <2>1 DEF GatesPlay, Aims
  <2>3. m \in Machines
    BY <1>1
  <2>4. e.id \in 1 .. n
    BY <2>1 DEF GatesAfter
  <2> HIDE DEF e, k, m
  <2>5. Ancestor(k, l2[m])
    BY <1>3, <2>2, <2>3 DEF Ancestor
  <2>6. \A y \in l2[m].events : y \in loc[m].events \/ y \in D
    BY <1>3, <2>3
  <2>7. \A y \in l2[m].events : EndsOf(y, b, e.task) => y \in k.events
    BY <1>5, <2>1, <2>2, <2>6 DEF EndsOf
  <2>8. \A q \in l2[m].events : IsClaim(q, e.task) /\ q.id < e.id =>
           q \in k.events \cup g.events
    <3>1. ~ (n + 1 < e.id)
      BY <1>1, <2>4
    <3> QED BY <1>5, <2>2, <2>6, <3>1
  <2> QED BY <2>1, <2>2, <2>5, <2>7, <2>8 DEF Aims, e, k, m
<1>15. ASSUME NEW b \in Actors, new[b].stage = "record"
       PROVE  Records(b, new, l2, home, g)
  <2> DEFINE t == gt[b].task
             m == home[b]
  <2>1. new[b] = gt[b] /\ (b # a \/ D = {})
    BY <1>13, <1>15
  <2>2. Records(b, gt, loc, home, g)
    BY DEF GatesPlay
  <2>3. m \in Machines
    BY <1>1
  <2> HIDE DEF m
  <2>4. \A y \in l2[m].events : y \in loc[m].events \/ y \in D
    BY <1>3, <2>3
  <2>5. ASSUME OutRun(b, t, loc[m].events)
        PROVE  OutRun(b, t, l2[m].events)
    BY <1>5, <1>6, <2>1, <2>3, <2>4, <2>5 DEF OutRun
  <2>6. loc[m].events \subseteq l2[m].events
    BY <1>6, <2>3
  <2> HIDE DEF t
  <2> QED BY <1>15, <2>1, <2>2, <2>5, <2>6 DEF Records, t, m
<1>16. GatesPlay(new, l2, home, g)
  BY <1>14, <1>15 DEF GatesPlay, Aims, Records
<1> QED BY <1>4, <1>8, <1>9, <1>10, <1>11, <1>16
    DEF MachinesPlay, Played

-----------------------------------------------------------------------------
(***************************************************************************)
(* What a verdict stands on.                                               *)
(***************************************************************************)
\* What actor a's daemon answers from.
Seat(h, a, n, ttl, last, g, home) ==
    /\ Fielded(h, n, ttl, last, g) /\ Plays(h, g, home) /\ Single(g, h, home)
    /\ \A f \in g.events : First(f, g) /\ f.actor = a => Ahead(f, h)

\* Actor a won task t, or knows who did, or was outrun.
Informs(a, t, h, g) ==
    \/ OutRun(a, t, h.events)
    \/ \E f \in g.events : /\ First(f, g) /\ f.task = t
                           /\ f.actor = a \/ f \in h.events

\* Who has a claim that does not show as active.
LEMMA LossFacts ==
    ASSUME NEW h, NEW a, NEW n, NEW ttl, NEW last, NEW g, NEW home,
           Seat(h, a, n, ttl, last, g, home),
           NEW t \in Tasks, NEW now \in Nat, now <= last,
           NEW m, m = LatestClaim(View(h, now), t, a), m # None,
           m \notin ActiveClaims(View(h, now), t)
    PROVE  /\ Informs(a, t, h, g)
           /\ \A f \in g.events : First(f, g) /\ f.task = t /\ f.actor = a =>
                 /\ View(h, now).claims[m].status = "finished"
                 /\ \E r \in h.events :
                       r.type = "run.finished" /\ r.claim = f.claim
<1>1. /\ Fielded(h, n, ttl, last, g) /\ Plays(h, g, home)
      /\ Single(g, h, home)
      /\ \A f \in g.events : First(f, g) /\ f.actor = a => Ahead(f, h)
  BY DEF Seat
<1>2. ASSUME NEW f \in g.events, First(f, g), f.task = t, f.actor = a
      PROVE  /\ View(h, now).claims[m].status = "finished"
             /\ \E r \in h.events :
                   r.type = "run.finished" /\ r.claim = f.claim
  <2>1. Ahead(f, h) /\ m = LatestClaim(View(h, now), f.task, f.actor)
        /\ m \notin ActiveClaims(View(h, now), f.task)
    BY <1>1, <1>2
  <2> QED BY <1>1, <1>2, <2>1, WinnerReported
<1>3. Informs(a, t, h, g)
  <2>1. CASE \E f \in g.events : First(f, g) /\ f.task = t /\ f.actor = a
    BY <2>1 DEF Informs
  <2>2. CASE \E f \in h.events : First(f, g) /\ f.task = t
    <3>1. PICK f \in h.events : First(f, g) /\ f.task = t
      BY <2>2
    <3>2. f \in g.events
      BY <3>1 DEF First
    <3> QED BY <3>1, <3>2 DEF Informs
  <2>3. CASE /\ \A f \in g.events : First(f, g) /\ f.task = t => f.actor # a
             /\ \A f \in h.events : First(f, g) => f.task # t
    <3>1. OutRun(a, t, h.events)
      BY <1>1, <2>3, LoserKnows
    <3> QED BY <3>1 DEF Informs
  <2> QED BY <2>1, <2>2, <2>3
<1> QED BY <1>2, <1>3

\* A claim that can be closed is the actor's only one, and unreported.
LEMMA ClosableIsOnly ==
    ASSUME NEW h, NEW a, NEW n, NEW ttl, NEW last, NEW g, NEW home,
           Seat(h, a, n, ttl, last, g, home), Agree(h, h),
           NEW t, NEW now \in Nat,
           NEW c \in Closable(View(h, now), t, a)
    PROVE  /\ \A q \in h.events : IsClaim(q, t) /\ q.actor = a => q.id = c
           /\ \A q \in g.events : IsClaim(q, t) /\ q.actor = a => q.id = c
           /\ \A q \in h.events : q.type = "run.finished" => q.claim # c
<1>1. Whole(h, n, ttl) /\ Single(g, h, home) /\ Single(h, h, home)
  BY DEF Seat, Fielded, Plays
<1> DEFINE v == View(h, now)
<1>2. /\ c \in DOMAIN v.claims /\ v.claims[c].task = t
      /\ v.claims[c].actor = a
      /\ \A q \in h.events : q.type = "run.finished" => q.claim # c
  BY <1>1, ClosableIsUnreported
<1>3. PICK p \in h.events : IsClaim(p, t) /\ p.id = c /\ p.actor = a
  <2>1. \A d \in DOMAIN v.claims :
           \E f \in h.events : /\ f.type = "claim.made" /\ f.id = d
                               /\ f.task = v.claims[d].task
                               /\ f.actor = v.claims[d].actor
    BY <1>1, ViewFacts
  <2> HIDE DEF v
  <2> QED BY <1>2, <2>1 DEF IsClaim
<1>4. \A q \in h.events : IsClaim(q, t) /\ q.actor = a => q.id = c
  BY <1>1, <1>3 DEF Single, IsClaim
<1>5. \A q \in g.events : IsClaim(q, t) /\ q.actor = a => q.id = c
  BY <1>1, <1>3 DEF Single, IsClaim
<1> QED BY <1>2, <1>4, <1>5

\* The first winner's claim.
LEMMA WinnersClaim ==
    ASSUME NEW g, NEW n, NEW ttl, Whole(g, n, ttl),
           NEW e \in g.events, e.type = "claim.confirmed",
           NEW t, e.task = t, NEW a, e.actor = a, NEW c,
           \A q \in g.events : IsClaim(q, t) /\ q.actor = a => q.id = c
    PROVE  e.claim = c
BY ClaimedBy

\* Ledger g has a confirmation of a's claim c of task t.
Certifies(g, c, t, a) ==
    \E e \in g.events : /\ e.type = "claim.confirmed" /\ e.claim = c
                        /\ e.task = t /\ e.actor = a

\* A verdict of "confirmed" is for a confirmation on the ledger.
LEMMA ConfirmedFacts ==
    ASSUME NEW h, NEW a, NEW n, NEW ttl, NEW last, NEW g, NEW home,
           Fielded(h, n, ttl, last, g), Plays(h, g, home),
           NEW t, NEW now \in Nat,
           Judge(View(h, now), t, a) = "confirmed"
    PROVE  /\ Informs(a, t, h, g)
           /\ Certifies(g, LatestClaim(View(h, now), t, a), t, a)
           /\ \E f \in h.events : First(f, g) /\ f.task = t
<1> DEFINE v == View(h, now)
           c == LatestClaim(v, t, a)
<1>1. Whole(h, n, ttl)
  BY DEF Fielded
<1>2. \A d \in DOMAIN v.claims :
         /\ d \in Ids
         /\ \E f \in h.events : /\ f.type = "claim.made" /\ f.id = d
                                /\ f.task = v.claims[d].task
                                /\ f.actor = v.claims[d].actor
         /\ v.claims[d].confirmation # None =>
               \E e \in h.events : e.type = "claim.confirmed" /\ e.claim = d
  BY <1>1, ViewFacts
<1> HIDE DEF v
<1>3. c # None /\ v.claims[c].confirmation # None
  BY DEF Judge, v
<1>4. c \in DOMAIN v.claims /\ v.claims[c].task = t /\ v.claims[c].actor = a
  <2>1. DOMAIN v.claims \subseteq Ids
    BY <1>2
  <2>2. c \in OwnClaims(v, t, a)
    BY <1>3, <2>1, LatestIsOwn
  <2> QED BY <2>2 DEF OwnClaims
<1>5. PICK e \in h.events : e.type = "claim.confirmed" /\ e.claim = c
  BY <1>2, <1>3, <1>4
<1>6. PICK p \in h.events : IsClaim(p, t) /\ p.id = c /\ p.actor = a
  BY <1>2, <1>4 DEF IsClaim
<1>7. PICK q \in h.events : IsClaim(q, e.task) /\ q.id = c /\ q.actor = e.actor
  <2>1. e.type \in {"claim.confirmed", "run.finished"}
    BY <1>5
  <2> HIDE DEF c
  <2> QED BY <1>1, <1>5, <2>1, ClaimedBy
<1>8. p = q
  BY <1>1, <1>6, <1>7, WholeIds
<1>9. e.task = t /\ e.actor = a /\ e \in g.events
  BY <1>5, <1>6, <1>7, <1>8 DEF IsClaim, Plays, Published
<1>10. PICK f \in h.events : First(f, g) /\ f.task = t
  BY <1>5, <1>9 DEF Plays, Heirs
<1>11. f \in g.events
  BY <1>10 DEF First
<1> HIDE DEF c
<1>12. Informs(a, t, h, g)
  BY <1>10, <1>11 DEF Informs
<1> QED BY <1>5, <1>9, <1>10, <1>12 DEF c, v, Certifies

LEMMA FieldSeat ==
    ASSUME NEW K, NEW n, NEW ttl, NEW last, NEW g, NEW loc, NEW home,
           Field(K, n, ttl, last, g, loc, home),
           NEW gt, Played(K, loc, gt, home, g),
           NEW a \in Actors, NEW h, h = loc[home[a]]
    PROVE  Seat(h, a, n, ttl, last, g, home) /\ h \in K /\ Agree(h, h)
<1>1. h \in K /\ g \in K
  BY DEF Field
<1>2. \A f \in g.events : First(f, g) /\ f.actor = a => Ahead(f, h)
  BY DEF Played, MachinesPlay, Proud
<1>3. Fielded(h, n, ttl, last, g) /\ Agree(h, h)
  BY <1>1, FieldedHeads
<1>4. Plays(h, g, home) /\ Single(g, h, home)
  BY <1>1 DEF Played, HeadsPlay
<1> QED BY <1>1, <1>2, <1>3, <1>4 DEF Seat

\* A report, of a win that a confirmation certifies, or of a loss by who never
\* won, or won and has said so.
LEMMA RunIsFair ==
    ASSUME NEW h, NEW a, NEW n \in Nat, NEW ttl, NEW last, NEW g, NEW home,
           Seat(h, a, n, ttl, last, g, home), Agree(h, h),
           NEW t, NEW now \in Nat, NEW c \in Closable(View(h, now), t, a),
           NEW outcome,
           Informs(a, t, h, g),
           \/ /\ outcome # "done"
              /\ \A f \in g.events : First(f, g) /\ f.task = t /\ f.actor = a =>
                    \E r \in h.events :
                       r.type = "run.finished" /\ r.claim = f.claim
           \/ /\ outcome = "done"
              /\ \E e \in g.events : /\ e.type = "claim.confirmed"
                                     /\ e.task = t /\ e.actor = a,
           NEW r, r = [id |-> n + 1, type |-> "run.finished", task |-> t,
                       actor |-> a, outcome |-> outcome, claim |-> c]
    PROVE  Fairly(h, a, {r}, n + 1, g)
<1>1. /\ \A q \in g.events : IsClaim(q, t) /\ q.actor = a => q.id = c
      /\ \A q \in h.events : q.type = "run.finished" => q.claim # c
  BY ClosableIsOnly
<1>2. Whole(g, n, ttl)
  BY DEF Seat, Fielded
<1>3. \A e \in g.events :
         e.type = "claim.confirmed" /\ e.task = t /\ e.actor = a => e.claim = c
  BY <1>1, <1>2, WinnersClaim
<1>4. /\ r.id = n + 1 /\ r.type = "run.finished" /\ r.task = t /\ r.actor = a
      /\ r.outcome = outcome /\ r.claim = c
  OBVIOUS
<1>5. \A f \in g.events : First(f, g) /\ f.task = t /\ f.actor = a =>
         outcome = "done" /\ f.claim = c
  BY <1>1, <1>3 DEF First
<1>6. outcome = "done" =>
         \E e \in g.events : e.type = "claim.confirmed" /\ e.claim = c
  BY <1>3
<1>7. \A f \in g.events : First(f, g) /\ EndsOf(r, f.actor, f.task) =>
         r.outcome = "done" /\ r.claim = f.claim
  BY <1>4, <1>5 DEF EndsOf
<1>8. \/ OutRun(a, t, h.events)
      \/ \E f \in g.events : /\ First(f, g) /\ f.task = t
                             /\ f.actor = a \/ f \in h.events
  BY DEF Informs
<1>9. IsEnd(r)
  BY <1>4 DEF IsEnd
<1> QED BY <1>4, <1>6, <1>7, <1>8, <1>9 DEF Fairly

\* A verdict reached on the head of the actor's machine.
LEMMA VerdictRecords ==
    ASSUME NEW h, NEW a, NEW n \in Nat, NEW ttl, NEW last, NEW g, NEW home,
           Seat(h, a, n, ttl, last, g, home),
           NEW loc, h = loc[home[a]], NEW t,
           Judge(View(h, n), t, a) \in {"confirmed", "lost"},
           NEW gt, gt[a].stage \in {"idle", "record"},
           gt[a].stage = "record" =>
              /\ gt[a].task = t
              /\ gt[a].verdict = Judge(View(h, n), t, a)
    PROVE  Aims(a, gt, loc, home, g) /\ Records(a, gt, loc, home, g)
<1> DEFINE v == View(h, n)
           c == LatestClaim(v, t, a)
<1>1. Fielded(h, n, ttl, last, g) /\ Plays(h, g, home) /\ Whole(h, n, ttl)
      /\ Sporting(h, last, n, g)
  BY DEF Seat, Fielded
<1>2. CASE Judge(v, t, a) = "confirmed"
  <2>1. /\ Certifies(g, c, t, a)
        /\ \E f \in h.events : First(f, g) /\ f.task = t
    BY <1>1, <1>2, ConfirmedFacts
  <2> HIDE DEF c, v
  <2>2. \E f \in g.events : First(f, g) /\ f.task = t /\ f \in h.events
    BY <2>1 DEF First
  <2>3. \E e \in g.events : /\ e.type = "claim.confirmed"
                            /\ e.task = t /\ e.actor = a
    BY <2>1 DEF Certifies
  <2>4. gt[a].stage = "record" => gt[a].verdict = "confirmed"
    BY <1>2 DEF v
  <2> QED BY <2>2, <2>3, <2>4 DEF Aims, Records
<1>3. CASE Judge(v, t, a) = "lost"
  <2>1. c # None /\ c \notin ActiveClaims(v, t)
    BY <1>3 DEF Judge
  <2>2. t \in Tasks
    BY <1>1, <2>1, ClaimedIsTask
  <2>3. n <= last
    <3>1. PICK p \in h.events : IsClaim(p, t) /\ p.id = c /\ p.actor = a
      BY <1>1, <2>1, LatestIsOnly
    <3> QED BY <1>1, <3>1 DEF Sporting, Leased, IsClaim
  <2>4. /\ Informs(a, t, h, g)
        /\ \A f \in g.events : First(f, g) /\ f.task = t /\ f.actor = a =>
              \E r \in h.events :
                 r.type = "run.finished" /\ r.claim = f.claim
    BY <2>1, <2>2, <2>3, LossFacts
  <2>5. gt[a].stage = "record" => gt[a].verdict # "confirmed"
    BY <1>3
  <2> HIDE DEF c, v
  <2> QED BY <2>4, <2>5 DEF Aims, Records, Informs
<1> QED BY <1>2, <1>3

\* A claim that may go on, on the head of the actor's machine.
LEMMA ProceedAims ==
    ASSUME NEW K, NEW n, NEW ttl, NEW last, NEW g, NEW loc, NEW home,
           Field(K, n, ttl, last, g, loc, home),
           NEW old, Played(K, loc, old, home, g),
           NEW a \in Actors, NEW h, h = loc[home[a]],
           NEW t \in Tasks, n <= last,
           Judge(View(h, n), t, a) = "proceed",
           NEW gt, gt[a].stage = "push", gt[a].head = h,
           gt[a].event.task = t,
           gt[a].event.claim = LatestClaim(View(h, n), t, a)
    PROVE  Aims(a, gt, loc, home, g) /\ Records(a, gt, loc, home, g)
<1> DEFINE c == LatestClaim(View(h, n), t, a)
<1>1. /\ Seat(h, a, n, ttl, last, g, home) /\ n \in Nat
      /\ home \in [Actors -> Machines] /\ Heard(loc, home, g)
  BY FieldSeat DEF Field, Played, MachinesPlay
<1>2. Fielded(h, n, ttl, last, g) /\ Plays(h, g, home)
  BY <1>1 DEF Seat
<1>3. c # None
  BY DEF Judge
<1>4. \A f \in g.events, x \in h.events :
         /\ First(f, g) /\ f.task = t /\ EndsOf(x, f.actor, t)
         /\ home[f.actor] # home[a]
         => f \in h.events
  BY <1>1 DEF Heard
<1>5. ASSUME \A f \in h.events : f.type = "claim.confirmed" => f.task # t
      PROVE  \A d \in h.events : IsClaim(d, t) => c <= d.id
  BY <1>1, <1>2, <1>3, <1>4, <1>5, ProceedLeads
<1>6. Ancestor(h, h)
  BY DEF Ancestor
<1> HIDE DEF c
<1>7. gt[a].event.claim = c
  BY DEF c
<1>8. Aims(a, gt, loc, home, g)
  BY <1>5, <1>6, <1>7 DEF Aims
<1> QED BY <1>8 DEF Records

-----------------------------------------------------------------------------
(***************************************************************************)
(* The invariant of such a fleet.                                          *)
(***************************************************************************)
\* Two machines that meet over a remote, where attempts end in a done run or a
\* loss, under leases that outlast them.
Meeting == HasRemote /\ Settled

Promise(c, g) ==
    \E e \in g.events : e.type = "claim.confirmed" /\ e.claim = c

PairInv ==
    Meeting =>
        /\ Played(Known, local, gate, Home, Ledger)
        /\ \A c \in told : Promise(c, Ledger)

\* What every step has at hand.
LEMMA PairAtHand ==
    ASSUME FleetInv, FirstsInv, FairInv, PairInv, Meeting
    PROVE  /\ Lasting /\ HasRemote /\ ~ MayAbandon
           /\ Field(Known, clock, TTL, Last, Ledger, local, Home)
           /\ Played(Known, local, gate, Home, Ledger)
           /\ \A c \in told : Promise(c, Ledger)
           /\ Ledger = remote /\ Ledger \in Known
           /\ clock \in Nat /\ Last \in Nat
           /\ DOMAIN local = Machines /\ DOMAIN gate = Actors
           /\ Home \in [Actors -> Machines]
           /\ \A m \in Machines : local[m] \in Known
<1>1. Lasting /\ HasRemote /\ ~ MayAbandon /\ TwoHomes(Home)
  BY DEF Meeting, Settled, Lasting, TwoHomes
<1>2. /\ Fair(Known, Last, clock, Ledger)
      /\ Ledger = remote /\ Ledger \in Known /\ clock \in Nat /\ Last \in Nat
      /\ \A k \in Known : Fits(k, Ledger)
  BY <1>1, FairAtHand
<1>3. /\ HeadsFit(Known, clock, TTL) /\ Owned(Known, local, Home)
      /\ DOMAIN local = Machines /\ DOMAIN gate = Actors
      /\ Home \in [Actors -> Machines]
      /\ \A m \in Machines : local[m] \in Known
  BY AtHand
<1>4. Field(Known, clock, TTL, Last, Ledger, local, Home)
  BY <1>1, <1>2, <1>3 DEF Field
<1> QED BY <1>1, <1>2, <1>3, <1>4 DEF PairInv

LEMMA FewerPlay ==
    ASSUME NEW K, NEW loc, NEW gt, NEW home, NEW g,
           Played(K, loc, gt, home, g), NEW J \in SUBSET K
    PROVE  Played(J, loc, gt, home, g)
BY DEF Played, HeadsPlay

\* A step to heads of K that all play under ledger g.
LEMMA PairStep ==
    ASSUME world' = world, NEW K, Known \subseteq K, NEW g, Ledger' = g,
           \A m \in Machines : local'[m] \in K, remote' \in K,
           \A b \in Actors : \/ gate'[b] = gate[b]
                             \/ gate'[b].stage = "push" => gate'[b].head \in K,
           Played(K, local', gate', Home, g),
           \A c \in told' : Promise(c, g)
    PROVE  PairInv'
<1>1. Home' = Home
  BY DEF Home
<1>2. Known' \subseteq K
  <2>1. \A b \in Actors : gate[b].stage = "push" => gate[b].head \in K
    BY DEF Known
  <2>2. \A b \in Actors : gate'[b].stage = "push" => gate'[b].head \in K
    BY <2>1
  <2> QED BY <2>2 DEF Known, Heads
<1>3. Played(Known', local', gate', Home, g)
  BY <1>2, FewerPlay
<1>4. Played(Known, local, gate, Home, Ledger)'
  BY <1>1, <1>3
<1>5. (\A c \in told : Promise(c, Ledger))'
  BY DEF Promise
<1> QED BY <1>4, <1>5 DEF PairInv

-----------------------------------------------------------------------------
(***************************************************************************)
(* The steps.                                                              *)
(***************************************************************************)
\* A step that writes nothing and closes a gate, or none.
LEMMA PairStill ==
    ASSUME FleetInv, FirstsInv, FairInv, PairInv, Meeting, world' = world,
           local' = local, remote' = remote,
           \A b \in Actors : \/ gate'[b] = gate[b]
                             \/ gate'[b].stage \in {"idle", "judge"},
           \A c \in told' : c \in told \/ Promise(c, Ledger)
    PROVE  PairInv'
<1> DEFINE g == Ledger
           K == Known
<1>1. Ledger' = g
  BY LedgerNext, PairAtHand
<1>2. Played(K, local', gate', Home, g)
  <2>1. Played(K, local, gate, Home, g)
    BY PairAtHand
  <2> HIDE DEF g, K
  <2>2. ASSUME NEW b \in Actors
        PROVE  /\ Aims(b, gate', local', Home, g)
               /\ Records(b, gate', local', Home, g)
    <3>1. CASE gate'[b] = gate[b]
      BY <2>1, <3>1 DEF Played, GatesPlay, Aims, Records
    <3>2. CASE gate'[b].stage \in {"idle", "judge"}
      BY <3>2 DEF Aims, Records
    <3> QED BY <3>1, <3>2
  <2> QED BY <2>1, <2>2 DEF Played, GatesPlay
<1>3. /\ \A c \in told' : Promise(c, g)
      /\ \A m \in Machines : local'[m] \in K
      /\ remote' \in K /\ Known \subseteq K
  BY PairAtHand
<1>4. \A b \in Actors : \/ gate'[b] = gate[b]
                        \/ gate'[b].stage = "push" => gate'[b].head \in K
  OBVIOUS
<1> HIDE DEF g, K
<1> QED BY <1>1, <1>2, <1>3, <1>4, PairStep

\* A commit by the machine of actor a.
LEMMA WritePair ==
    ASSUME FleetInv, FirstsInv, FairInv, PairInv, Meeting, world' = world,
           remote' = remote, told' = told, NEW a \in Actors, NEW D, NEW L,
           Fairly(local[Home[a]], a, D, Now, Ledger),
           local' = [local EXCEPT ![Home[a]] = On(@, D, L, Now)],
           \A b \in Actors \ {a} : gate'[b] = gate[b],
           \/ gate'[a].stage \in {"idle", "judge"}
           \/ D = {} /\ gate'[a] = gate[a]
    PROVE  PairInv'
<1> DEFINE n == clock
           h == local[Home[a]]
           x == On(h, D, L, n + 1)
           g == Ledger
           K == Known \cup {x}
<1>1. /\ Field(Known, n, TTL, Last, g, local, Home)
      /\ Played(Known, local, gate, Home, g)
      /\ DOMAIN local = Machines /\ Home \in [Actors -> Machines]
      /\ HasRemote /\ \A c \in told : Promise(c, g)
      /\ \A m \in Machines : local[m] \in Known
      /\ remote \in Known
  BY PairAtHand
<1>2. Ledger' = g
  BY <1>1, LedgerNext, PairAtHand
<1>3. /\ x.events = h.events \cup D /\ x.seen = h.seen \cup {n + 1}
      /\ Fairly(h, a, D, n + 1, g)
  BY DEF On, Now
<1>4. GatesAfter(gate, gate', a, D, n)
  BY AtHand DEF GatesAfter, Carried
<1>5. Puts(local, Home[a], x, local')
  BY <1>1 DEF Puts, Now
<1> HIDE DEF n, h, x, g
<1>6. Played(K, local', gate', Home, g)
  <2>1. h = local[Home[a]]
    BY DEF h
  <2> HIDE DEF K
  <2>2. Played(Known \cup {x}, local', gate', Home, g)
    BY <1>1, <1>3, <1>4, <1>5, <2>1, WritePlays
  <2> QED BY <2>2 DEF K
<1>7. /\ \A m \in Machines : local'[m] \in K
      /\ remote' \in K /\ Known \subseteq K
      /\ \A c \in told' : Promise(c, g)
  BY <1>1, <1>5 DEF Puts
<1>8. \A b \in Actors : \/ gate'[b] = gate[b]
                        \/ gate'[b].stage = "push" => gate'[b].head \in K
  OBVIOUS
<1> HIDE DEF K
<1> QED BY <1>2, <1>6, <1>7, <1>8, PairStep

LEMMA ClaimPair ==
    ASSUME FleetInv, FirstsInv, FairInv, PairInv, Meeting,
           NEW a \in Actors, NEW t \in Tasks, Claim(a, t)
    PROVE  PairInv'
<1> DEFINE h == local[Home[a]]
           e == [id |-> Now, type |-> "claim.made", task |-> t, actor |-> a]
           D == {e}
           L == [h.leases EXCEPT ![Now] = [exp |-> Now + TTL,
                                           released |-> FALSE]]
<1>1. /\ Now <= Last /\ world' = world /\ remote' = remote
      /\ gate' = gate /\ told' = told /\ gate[a].stage = "idle"
      /\ Ready(View(h, Now), t)
      /\ local' = [local EXCEPT ![Home[a]] = With(@, e, L)]
  BY DEF Claim, Write, Idle
<1>2. local' = [local EXCEPT ![Home[a]] = On(@, D, L, Now)]
  BY <1>1 DEF With, On
<1>3. Seat(h, a, clock, TTL, Last, Ledger, Home)
  BY PairAtHand, FieldSeat
<1>4. Now \in Nat
  BY <1>1, NextInstant
<1> HIDE DEF h
<1>5. \A q \in h.events : ~ IsClaim(q, t)
  BY <1>1, <1>3, <1>4, ReadyIsUnclaimed DEF Seat
<1>6. Fairly(h, a, D, Now, Ledger)
  <2>1. e.id = Now /\ e.actor = a /\ e.type = "claim.made" /\ e.task = t
        /\ ~ IsEnd(e)
    BY DEF IsEnd
  <2> HIDE DEF e
  <2> QED BY <1>5, <2>1 DEF Fairly
<1>7. /\ \A b \in Actors \ {a} : gate'[b] = gate[b]
      /\ gate'[a].stage \in {"idle", "judge"}
  BY <1>1
<1> HIDE DEF D, L
<1> QED BY <1>1, <1>2, <1>6, <1>7, WritePair DEF h

LEMMA RenewPair ==
    ASSUME FleetInv, FirstsInv, FairInv, PairInv, Meeting,
           NEW a \in Actors, NEW t \in Tasks, Renew(a, t)
    PROVE  PairInv'
<1> DEFINE h == local[Home[a]]
           D == {}
<1>1. PICK c \in HeldByActor(View(h, clock), t, a) :
         local' = [local EXCEPT ![Home[a]] = Renewed(@, c)]
  BY DEF Renew
<1> DEFINE L == [h.leases EXCEPT ![c] = [exp |-> Now + TTL,
                                         released |-> FALSE]]
<1>2. /\ world' = world /\ remote' = remote
      /\ gate' = gate /\ told' = told
  BY DEF Renew
<1>3. local' = [local EXCEPT ![Home[a]] = On(@, D, L, Now)]
  <2>1. Renewed(h, c) = On(h, D, L, Now)
    <3>1. h.events \cup {} = h.events
      OBVIOUS
    <3> QED BY <3>1 DEF Renewed, On
  <2> HIDE DEF D, L
  <2> QED BY <1>1, <2>1
<1>4. Fairly(h, a, D, Now, Ledger)
  BY DEF Fairly
<1>5. /\ \A b \in Actors \ {a} : gate'[b] = gate[b]
      /\ D = {} /\ gate'[a] = gate[a]
  BY <1>2
<1> HIDE DEF D, L, h
<1> QED BY <1>2, <1>3, <1>4, <1>5, WritePair DEF h

LEMMA ReleasePair ==
    ASSUME FleetInv, FirstsInv, FairInv, PairInv, Meeting,
           NEW a \in Actors, NEW t \in Tasks, Release(a, t)
    PROVE  PairInv'
<1> DEFINE h == local[Home[a]]
           v == View(h, Now)
           c == IF HeldByActor(v, t, a) # {}
                THEN CHOOSE x \in HeldByActor(v, t, a) : TRUE
                ELSE LatestClaim(v, t, a)
           e == [id |-> Now, type |-> "claim.released", task |-> t,
                 actor |-> a]
           D == {e}
           L == [h.leases EXCEPT ![c] = [exp |-> Now, released |-> TRUE]]
<1>1. /\ Now <= Last /\ world' = world /\ remote' = remote
      /\ gate' = gate /\ told' = told /\ c # None /\ gate[a].stage = "idle"
      /\ \/ v.claims[c].status = "active" /\ MayAbandon
         \/ v.claims[c].status = "voided"
      /\ local' = [local EXCEPT ![Home[a]] = With(@, e, L)]
  BY DEF Release, Write, Idle
<1>2. Now \in Nat /\ ~ MayAbandon
  BY <1>1, NextInstant, PairAtHand
<1>3. Seat(h, a, clock, TTL, Last, Ledger, Home)
  BY PairAtHand, FieldSeat
<1> HIDE DEF Now, v, h
<1>4. local' = [local EXCEPT ![Home[a]] = On(@, D, L, Now)]
  BY <1>1 DEF With, On
<1>5. v.claims[c].status = "voided"
  BY <1>1, <1>2
<1>6. c = LatestClaim(v, t, a) /\ c # None
  <2>1. HeldByActor(v, t, a) = {}
    <3> SUFFICES ASSUME HeldByActor(v, t, a) # {}
                 PROVE  FALSE
      OBVIOUS
    <3>1. c \in HeldByActor(v, t, a)
      OBVIOUS
    <3> QED BY <1>5, <3>1 DEF HeldByActor, ActiveClaims
  <2> QED BY <1>1, <2>1
<1> HIDE DEF c
<1>7. c \notin ActiveClaims(v, t)
  BY <1>5 DEF ActiveClaims
<1>8. /\ Informs(a, t, h, Ledger)
      /\ \A f \in Ledger.events :
            First(f, Ledger) /\ f.task = t => f.actor # a
  BY <1>1, <1>2, <1>3, <1>5, <1>6, <1>7, LossFacts DEF v
<1>9. Fairly(h, a, D, Now, Ledger)
  <2>1. e.id = Now /\ e.actor = a /\ e.type = "claim.released" /\ e.task = t
        /\ IsEnd(e)
    BY DEF IsEnd
  <2> HIDE DEF e
  <2> QED BY <1>8, <2>1 DEF Fairly, Informs, EndsOf
<1>10. /\ \A b \in Actors \ {a} : gate'[b] = gate[b]
       /\ gate'[a].stage \in {"idle", "judge"}
  BY <1>1
<1> HIDE DEF D, L
<1> QED BY <1>1, <1>4, <1>9, <1>10, WritePair DEF h

LEMMA RunPair ==
    ASSUME FleetInv, FirstsInv, FairInv, PairInv, Meeting, Now <= Last,
           NEW a \in Actors, NEW t,
           NEW now \in Nat, NEW c \in Closable(View(local[Home[a]], now), t, a),
           NEW outcome,
           RecordRun(a, t, c, outcome),
           Informs(a, t, local[Home[a]], Ledger),
           \/ /\ outcome # "done"
              /\ \A f \in Ledger.events :
                    First(f, Ledger) /\ f.task = t /\ f.actor = a =>
                       \E r \in local[Home[a]].events :
                          r.type = "run.finished" /\ r.claim = f.claim
           \/ /\ outcome = "done"
              /\ \E e \in Ledger.events : /\ e.type = "claim.confirmed"
                                          /\ e.task = t /\ e.actor = a,
           world' = world, remote' = remote, told' = told,
           \A b \in Actors \ {a} : gate'[b] = gate[b],
           gate'[a].stage \in {"idle", "judge"}
    PROVE  PairInv'
<1> DEFINE h == local[Home[a]]
           e == [id |-> Now, type |-> "run.finished", task |-> t,
                 actor |-> a, outcome |-> outcome, claim |-> c]
           D == {e}
           L == h.leases
           g == Ledger
<1>1. local' = [local EXCEPT ![Home[a]] = With(@, e, L)]
  BY DEF RecordRun, Write
<1>2. Now = clock + 1 /\ clock \in Nat
  BY NextInstant, PairAtHand
<1>3. Seat(h, a, clock, TTL, Last, g, Home) /\ Agree(h, h)
  BY PairAtHand, FieldSeat
<1> HIDE DEF Now
<1>4. local' = [local EXCEPT ![Home[a]] = On(@, D, L, Now)]
  BY <1>1 DEF With, On
<1>5. Fairly(h, a, D, Now, g)
  <2>1. /\ c \in Closable(View(h, now), t, a) /\ Informs(a, t, h, g)
        /\ e = [id |-> clock + 1, type |-> "run.finished", task |-> t,
                actor |-> a, outcome |-> outcome, claim |-> c]
        /\ \/ /\ outcome # "done"
              /\ \A f \in g.events : First(f, g) /\ f.task = t /\ f.actor = a =>
                    \E r \in h.events :
                       r.type = "run.finished" /\ r.claim = f.claim
           \/ /\ outcome = "done"
              /\ \E q \in g.events : /\ q.type = "claim.confirmed"
                                     /\ q.task = t /\ q.actor = a
    BY <1>2
  <2> HIDE DEF e, h, g
  <2>2. Fairly(h, a, {e}, clock + 1, g)
    BY <1>2, <1>3, <2>1, RunIsFair
  <2> QED BY <1>2, <2>2
<1> HIDE DEF D, L, h, g
<1> QED BY <1>4, <1>5, WritePair DEF h, g

LEMMA FinishPair ==
    ASSUME FleetInv, FirstsInv, FairInv, PairInv, Meeting,
           NEW a \in Actors, NEW t \in Tasks,
           FinishFailed(a, t) \/ FinishSettled(a, t)
    PROVE  PairInv'
<1> DEFINE h == local[Home[a]]
           v == View(h, Now)
           g == Ledger
<1>1. /\ Now <= Last /\ world' = world /\ remote' = remote /\ gate' = gate
      /\ told' = told /\ gate[a].stage = "idle"
  BY DEF FinishFailed, FinishSettled, Idle
<1>2. Now \in Nat /\ ~ MayAbandon
  BY <1>1, NextInstant, PairAtHand
<1>3. Seat(h, a, clock, TTL, Last, g, Home)
  BY PairAtHand, FieldSeat
<1> HIDE DEF Now, h, g
<1>4. ASSUME LatestClaim(v, t, a) # None,
             LatestClaim(v, t, a) \notin ActiveClaims(v, t)
      PROVE  /\ Informs(a, t, h, g)
             /\ \A f \in g.events : First(f, g) /\ f.task = t /\ f.actor = a =>
                   \E r \in h.events :
                      r.type = "run.finished" /\ r.claim = f.claim
  BY <1>1, <1>2, <1>3, <1>4, LossFacts
<1>5. CASE FinishFailed(a, t)
  <2>1. PICK c \in Closable(v, t, a) :
           /\ v.claims[c].status = "voided"
           /\ RecordRun(a, t, c, IF v.claims[c].status = "voided"
                                 THEN "superseded" ELSE "failed")
    BY <1>2, <1>5 DEF FinishFailed, h
  <2>2. c = LatestClaim(v, t, a) /\ c # None /\ c \notin ActiveClaims(v, t)
    <3> HIDE DEF v
    <3>1. c \notin ActiveClaims(v, t)
      BY <2>1 DEF ActiveClaims
    <3> QED BY <2>1, <3>1 DEF Closable, HeldByActor
  <2>3. RecordRun(a, t, c, "superseded") /\ "superseded" # "done"
    BY <2>1
  <2> QED BY <1>1, <1>2, <1>4, <2>1, <2>2, <2>3, RunPair DEF h, g
<1>6. CASE FinishSettled(a, t)
  <2> DEFINE outcome == IF Judge(v, t, a) = "confirmed"
                        THEN "done" ELSE "superseded"
  <2>1. PICK c \in Closable(v, t, a) : RecordRun(a, t, c, outcome)
    BY <1>6 DEF FinishSettled, h
  <2>2. Judge(v, t, a) \in {"confirmed", "lost"}
    BY <1>6 DEF FinishSettled, h
  <2>3. CASE Judge(v, t, a) = "confirmed"
    <3>2. outcome = "done"
      BY <2>3
    <3> HIDE DEF outcome
    <3>3. /\ Fielded(h, clock, TTL, Last, g) /\ Plays(h, g, Home)
          /\ Judge(View(h, Now), t, a) = "confirmed"
      BY <1>3, <2>3 DEF Seat
    <3>4. Informs(a, t, h, g)
      BY <1>2, <3>3, ConfirmedFacts
    <3>5. Certifies(g, LatestClaim(View(h, Now), t, a), t, a)
      BY <1>2, <3>3, ConfirmedFacts
    <3>1. /\ Informs(a, t, h, g)
          /\ \E e \in g.events : /\ e.type = "claim.confirmed"
                                 /\ e.task = t /\ e.actor = a
      BY <3>4, <3>5 DEF Certifies
    <3> QED BY <1>1, <1>2, <2>1, <3>1, <3>2, RunPair DEF h, g
  <2>4. CASE Judge(v, t, a) = "lost"
    <3>1. /\ LatestClaim(v, t, a) # None
          /\ LatestClaim(v, t, a) \notin ActiveClaims(v, t)
      <4> HIDE DEF v
      <4> QED BY <2>4 DEF Judge
    <3>2. outcome # "done"
      BY <2>4
    <3> HIDE DEF outcome
    <3> QED BY <1>1, <1>2, <1>4, <2>1, <3>1, <3>2, RunPair DEF h, g
  <2> QED BY <2>2, <2>3, <2>4
<1> QED BY <1>5, <1>6

LEMMA GateRecordPair ==
    ASSUME FleetInv, FirstsInv, FairInv, PairInv, Meeting, NEW a \in Actors,
           GateRecord(a)
    PROVE  PairInv'
<1>0. PICK now \in Judgings :
         LET u == gate[a].task
             w == View(local[Home[a]], now)
             x == IF gate[a].verdict = "confirmed" THEN "done"
                  ELSE "superseded"
         IN  \/ clock' = clock /\ local' = local
             \/ \E c \in Closable(w, u, a) : RecordRun(a, u, c, x)
  BY DEF GateRecord
<1>9. now \in Nat
  BY JudgingsAreNat
<1> DEFINE t == gate[a].task
           h == local[Home[a]]
           v == View(h, now)
           g == Ledger
           outcome == IF gate[a].verdict = "confirmed"
                      THEN "done" ELSE "superseded"
<1>1. /\ gate[a].stage = "record" /\ Now <= Last
      /\ gate' = [gate EXCEPT ![a] = Idle]
      /\ world' = world /\ remote' = remote /\ told' = told
      /\ \/ local' = local
         \/ \E c \in Closable(v, t, a) : RecordRun(a, t, c, outcome)
  BY <1>0 DEF GateRecord
<1>2. Idle.stage = "idle"
  BY DEF Idle
<1>3. /\ \A b \in Actors \ {a} : gate'[b] = gate[b]
      /\ gate'[a].stage \in {"idle", "judge"}
      /\ \A b \in Actors : \/ gate'[b] = gate[b]
                           \/ gate'[b].stage \in {"idle", "judge"}
  BY <1>1, <1>2, AtHand
<1>4. /\ \/ \E f \in g.events : /\ First(f, g) /\ f.task = t
                                /\ f.actor = a \/ f \in h.events
         \/ gate[a].verdict # "confirmed" /\ OutRun(a, t, h.events)
      /\ gate[a].verdict = "confirmed" =>
            \E e \in g.events : /\ e.type = "claim.confirmed"
                                /\ e.task = t /\ e.actor = a
      /\ gate[a].verdict # "confirmed" => \A f \in g.events :
            First(f, g) /\ f.task = t /\ f.actor = a =>
               \E r \in h.events :
                  r.type = "run.finished" /\ r.claim = f.claim
  BY <1>1, PairAtHand DEF Played, GatesPlay, Records
<1> HIDE DEF h, g, v
<1>5. Informs(a, t, h, g)
  BY <1>4 DEF Informs
<1>6. \/ /\ outcome # "done"
         /\ \A f \in g.events : First(f, g) /\ f.task = t /\ f.actor = a =>
               \E r \in h.events :
                  r.type = "run.finished" /\ r.claim = f.claim
      \/ /\ outcome = "done"
         /\ \E e \in g.events : /\ e.type = "claim.confirmed"
                                /\ e.task = t /\ e.actor = a
  BY <1>4
<1> HIDE DEF outcome, t, Now
<1>7. CASE local' = local
  BY <1>1, <1>3, <1>7, PairStill
<1>8. ASSUME NEW c \in Closable(v, t, a), RecordRun(a, t, c, outcome)
      PROVE  PairInv'
  BY <1>1, <1>3, <1>5, <1>6, <1>8, <1>9, RunPair DEF v, h, g
<1> QED BY <1>1, <1>7, <1>8

\* A machine brings in the remote head.
LEMMA AdoptField ==
    ASSUME FleetInv, FirstsInv, FairInv, PairInv, Meeting,
           NEW m \in Machines, NEW x, Brings(local[m], remote, x),
           NEW loc, loc = [local EXCEPT ![m] = x]
    PROVE  /\ Field(Known \cup {x}, clock, TTL, Last, Ledger, loc, Home)
           /\ Puts(local, m, x, loc)
<1> DEFINE K == Known \cup {x}
           g == Ledger
<1>1. /\ remote \in Known /\ local[m] \in Known /\ g \in Known /\ g = remote
      /\ clock \in Nat /\ Last \in Nat /\ DOMAIN local = Machines
      /\ Home \in [Actors -> Machines] /\ TwoHomes(Home)
      /\ Fair(Known, Last, clock, g)
      /\ \A k \in Known : Whole(k, clock, TTL) /\ Fits(k, g)
  BY PairAtHand, FairAtHand DEF Field
<1>2. Home = world.home /\ TTL = world.ttl
  BY AtHand
<1>3. x \in {local[m], Reconciled(local[m], remote)}
  BY DEF Brings
<1>4. Sane(world, K, clock, loc, gate)
  BY <1>1, <1>3, AdoptFacts
<1>5. Fair(K, Last, clock, g)
  <2>1. Fair(Known \cup {Reconciled(local[m], remote)}, Last, clock, g)
    BY <1>1, ReconciledFair
  <2>2. K \in SUBSET (Known \cup {Reconciled(local[m], remote)})
    BY <1>1, <1>3
  <2> HIDE DEF K, g
  <2> QED BY <2>1, <2>2, FewerFair
<1>6. \A k \in K : Fits(k, g)
  <2>1. Fits(Reconciled(local[m], remote), g)
    BY <1>1, ReconciledFirsts
  <2> QED BY <1>1, <1>3, <2>1
<1>7. HeadsFit(K, clock, TTL) /\ Owned(K, loc, Home) /\ DOMAIN loc = Machines
      /\ \A k \in Machines : loc[k] \in K
  BY <1>2, <1>4 DEF Sane
<1>8. Puts(local, m, x, loc)
  BY <1>1 DEF Puts
<1> QED BY <1>1, <1>5, <1>6, <1>7, <1>8 DEF Field

\* A machine brings in the remote head, and a gate goes on.
LEMMA AdoptPair ==
    ASSUME FleetInv, FirstsInv, FairInv, PairInv, Meeting, world' = world,
           remote' = remote, NEW m \in Machines,
           NEW x, Brings(local[m], remote, x),
           local' = [local EXCEPT ![m] = x],
           \A b \in Actors :
              \/ gate'[b] = gate[b]
              \/ /\ Aims(b, gate', local', Home, remote)
                 /\ Records(b, gate', local', Home, remote)
                 /\ gate'[b].stage = "push" => gate'[b].head = x,
           \A c \in told' : c \in told \/ Promise(c, remote)
    PROVE  PairInv'
<1> DEFINE K == Known \cup {x}
           g == remote
<1>1. /\ Field(Known, clock, TTL, Last, g, local, Home)
      /\ Played(Known, local, gate, Home, g)
      /\ Ledger = g /\ g \in Known /\ HasRemote /\ DOMAIN local = Machines
      /\ \A k \in Machines : local[k] \in Known
      /\ \A c \in told : Promise(c, g)
  BY PairAtHand
<1>2. Ledger' = g
  BY <1>1, LedgerNext
<1>3. Puts(local, m, x, local')
  BY <1>1 DEF Puts
<1>4. Played(K, local', gate, Home, g)
  <2> HIDE DEF K
  <2>1. Played(Known \cup {x}, local', gate, Home, g)
    BY <1>1, <1>3, AdoptPlays
  <2> QED BY <2>1 DEF K
<1>5. Played(K, local', gate', Home, g)
  <2> HIDE DEF K
  <2>1. ASSUME NEW b \in Actors
        PROVE  /\ Aims(b, gate', local', Home, g)
               /\ Records(b, gate', local', Home, g)
    <3>1. CASE gate'[b] = gate[b]
      BY <1>4, <3>1 DEF Played, GatesPlay, Aims, Records
    <3> QED BY <3>1
  <2> QED BY <1>4, <2>1 DEF Played, GatesPlay
<1>6. /\ \A k \in Machines : local'[k] \in K
      /\ remote' \in K /\ Known \subseteq K
      /\ \A b \in Actors : \/ gate'[b] = gate[b]
                           \/ gate'[b].stage = "push" => gate'[b].head \in K
      /\ \A c \in told' : Promise(c, g)
  BY <1>1
<1> HIDE DEF K, g
<1> QED BY <1>2, <1>5, <1>6, PairStep

LEMMA SyncPair ==
    ASSUME FleetInv, FirstsInv, FairInv, PairInv, Meeting,
           NEW m \in Machines, Pull(m) \/ Push(m)
    PROVE  PairInv'
<1>1. world' = world /\ gate' = gate /\ told' = told
  BY DEF Pull, Push
<1>2. CASE Pull(m)
  <2> DEFINE x == Reconciled(local[m], remote)
  <2>1. local' = [local EXCEPT ![m] = x] /\ remote' = remote
    BY <1>2 DEF Pull
  <2>2. Brings(local[m], remote, x)
    BY DEF Brings
  <2> HIDE DEF x
  <2> QED BY <1>1, <2>1, <2>2, AdoptPair
<1>3. CASE Push(m)
  <2> DEFINE x == local[m]
             K == Known
             g == remote
  <2>1. remote' = x /\ local' = local /\ Ancestor(g, x)
    BY <1>3 DEF Push
  <2>2. /\ Field(K, clock, TTL, Last, g, local, Home)
        /\ Played(K, local, gate, Home, g)
        /\ HasRemote /\ \A k \in Machines : local[k] \in K
        /\ \A c \in told : Promise(c, g)
        /\ x \in K
    BY PairAtHand
  <2>3. Ledger' = x
    BY <1>1, <2>1, <2>2, LedgerNext
  <2> HIDE DEF x, g, K
  <2>4. Played(K, local, gate, Home, x) /\ \A e \in g.events : e \in x.events
    BY <2>1, <2>2, PushPlays
  <2>5. \A c \in told' : Promise(c, x)
    BY <1>1, <2>2, <2>4 DEF Promise
  <2>6. /\ Known \subseteq K /\ remote' \in K
        /\ \A k \in Machines : local'[k] \in K
        /\ Played(K, local', gate', Home, x)
    BY <1>1, <2>1, <2>2, <2>4 DEF K
  <2> QED BY <1>1, <2>3, <2>5, <2>6, PairStep
<1> QED BY <1>2, <1>3

LEMMA GateStillPair ==
    ASSUME FleetInv, FirstsInv, FairInv, PairInv, Meeting, NEW a \in Actors,
           \/ \E t \in Tasks : ConfirmSettled(a, t)
           \/ \E t \in Tasks, finishing \in BOOLEAN : EnterGate(a, t, finishing)
           \/ GateRetry(a) \/ GateRefuse(a)
    PROVE  PairInv'
<1>1. world' = world /\ local' = local /\ remote' = remote
  BY DEF ConfirmSettled, EnterGate, GateRetry, GateRefuse
<1>2. \A b \in Actors : \/ gate'[b] = gate[b]
                        \/ gate'[b].stage \in {"idle", "judge"}
  <2>1. DOMAIN gate = Actors
    BY AtHand
  <2>2. CASE \E t \in Tasks : ConfirmSettled(a, t)
    BY <2>2 DEF ConfirmSettled
  <2>3. ASSUME NEW t \in Tasks, NEW finishing \in BOOLEAN,
               EnterGate(a, t, finishing), NEW b \in Actors
        PROVE  gate'[b] = gate[b] \/ gate'[b].stage \in {"idle", "judge"}
    <3> DEFINE s == [stage |-> "judge", task |-> t, finishing |-> finishing]
    <3>1. gate' = [gate EXCEPT ![a] = s] /\ s.stage = "judge"
      BY <2>3 DEF EnterGate
    <3> HIDE DEF s
    <3> QED BY <2>1, <3>1
  <2>4. ASSUME GateRetry(a), NEW b \in Actors
        PROVE  gate'[b] = gate[b] \/ gate'[b].stage \in {"idle", "judge"}
    <3> DEFINE s == [stage |-> "judge", task |-> gate[a].task,
                     finishing |-> gate[a].finishing]
    <3>1. gate' = [gate EXCEPT ![a] = s] /\ s.stage = "judge"
      BY <2>4 DEF GateRetry
    <3> HIDE DEF s
    <3> QED BY <2>1, <3>1
  <2>5. ASSUME GateRefuse(a), NEW b \in Actors
        PROVE  gate'[b] = gate[b] \/ gate'[b].stage \in {"idle", "judge"}
    <3>1. gate' = [gate EXCEPT ![a] = Idle] /\ Idle.stage = "idle"
      BY <2>5 DEF GateRefuse, Idle
    <3> QED BY <2>1, <3>1
  <2> QED BY <2>2, <2>3, <2>4, <2>5
<1>3. \A c \in told' : c \in told \/ Promise(c, Ledger)
  <2>1. ASSUME NEW t \in Tasks, ConfirmSettled(a, t)
        PROVE  \A c \in told' : c \in told \/ Promise(c, Ledger)
    <3> DEFINE h == local[Home[a]]
               c == LatestClaim(View(h, clock), t, a)
    <3>1. told' = told \cup {c} /\ Judge(View(h, clock), t, a) = "confirmed"
      BY <2>1 DEF ConfirmSettled
    <3>2. Promise(c, Ledger)
      <4>1. Seat(h, a, clock, TTL, Last, Ledger, Home) /\ clock \in Nat
        BY PairAtHand, FieldSeat
      <4>2. Fielded(h, clock, TTL, Last, Ledger) /\ Plays(h, Ledger, Home)
        BY <4>1 DEF Seat
      <4> HIDE DEF h
      <4>3. Certifies(Ledger, LatestClaim(View(h, clock), t, a), t, a)
        BY <3>1, <4>1, <4>2, ConfirmedFacts
      <4> QED BY <4>3 DEF Certifies, Promise
    <3> HIDE DEF c
    <3> QED BY <3>1, <3>2
  <2> QED BY <2>1 DEF EnterGate, GateRetry, GateRefuse
<1> QED BY <1>1, <1>2, <1>3, PairStill

LEMMA GatePushPair ==
    ASSUME FleetInv, FirstsInv, FairInv, PairInv, Meeting, FleetInv',
           NEW a \in Actors, GatePush(a)
    PROVE  PairInv'
<1> DEFINE m == Home[a]
           h == gate[a].head
           e == gate[a].event
           x == remote'
           K == Known \cup {x}
           n == clock
           g == remote
<1>1. /\ gate[a].stage = "push"
      /\ \/ Answer(a, "confirmed", e.claim)
         \/ gate' = [gate EXCEPT ![a] = Idle] /\ told' = told
      /\ world' = world
  BY DEF GatePush
<1>2. PICK y \in {local[m], Reconciled(local[m], x)} :
         local' = [local EXCEPT ![m] = y]
  BY DEF GatePush
<1>3. /\ Field(Known, n, TTL, Last, g, local, Home)
      /\ Played(Known, local, gate, Home, g)
      /\ \A c \in told : Promise(c, g)
      /\ HasRemote /\ Lasting /\ Last \in Nat /\ n \in Nat
      /\ DOMAIN local = Machines /\ DOMAIN gate = Actors
      /\ m \in Machines /\ TwoHomes(Home) /\ Home \in [Actors -> Machines]
      /\ \A k \in Machines : local[k] \in Known
  BY PairAtHand DEF Field
<1>4. Ledger' = x
  BY <1>1, <1>3, LedgerNext
<1>5. /\ Lands(a, e, h, Known, g, x)
      /\ Fair(K, Last, n, x) /\ HeadsFit(K, n, TTL) /\ Owned(K, local, Home)
      /\ \A k \in K : Fits(k, x)
  BY <1>3, LandingFacts
<1>6. e.task = gate[a].task
  BY <1>1 DEF FirstsInv, Promised
<1>7. /\ \A b \in Actors \ {a} : gate'[b] = gate[b]
      /\ \/ gate'[a].stage = "idle"
         \/ /\ gate'[a].stage = "record" /\ gate'[a].task = e.task
            /\ gate'[a].verdict = "confirmed"
  BY <1>1, <1>3, <1>6 DEF Answer, Idle
<1>8. Field(K, n, TTL, Last, x, local, Home)
  BY <1>3, <1>5 DEF Field
<1>9. Brings(local[m], x, y) /\ Puts(local, m, y, local')
  BY <1>2, <1>3 DEF Brings, Puts
<1>10. \A k \in Machines : local'[k] \in K \cup {y}
  BY <1>3, <1>9 DEF Puts
<1>11. e \in x.events
  BY <1>5 DEF Lands, On
<1>12. \A c \in told' : c \in told \/ c = e.claim
  BY <1>1 DEF Answer
<1>13. e.type = "claim.confirmed"
  BY <1>5 DEF Lands
<1>14. /\ h = gate[a].head /\ e = gate[a].event /\ x = remote'
       /\ Known \subseteq K /\ x \in K
  OBVIOUS
<1> HIDE DEF h, e, x, n, g
<1>15. Played(K, local, gate', Home, x) /\ \A d \in g.events : d \in x.events
  <2> HIDE DEF m, K
  <2>1. Delivers(gate, a, e, h, gate')
    BY <1>1, <1>7, <1>14 DEF Delivers
  <2>2. Field(Known, n, TTL, Last, g, local, Home)
    BY <1>3
  <2>3. Played(Known, local, gate, Home, g)
    BY <1>3
  <2>4. Lands(a, e, h, Known, g, x)
    BY <1>5
  <2>5. Played(Known \cup {x}, local, gate', Home, x)
    BY <2>1, <2>2, <2>3, <2>4, LandPlays
  <2>6. \A d \in g.events : d \in x.events
    BY <2>1, <2>2, <2>3, <2>4, LandPlays
  <2> QED BY <2>5, <2>6 DEF K
<1> HIDE DEF K, m
<1>16. Played(K \cup {y}, local', gate', Home, x)
  BY <1>3, <1>8, <1>9, <1>15, AdoptPlays
<1>17. \A c \in told' : Promise(c, x)
  BY <1>3, <1>11, <1>12, <1>13, <1>15 DEF Promise
<1>18. \A b \in Actors :
          \/ gate'[b] = gate[b]
          \/ gate'[b].stage = "push" => gate'[b].head \in K \cup {y}
  BY <1>7
<1> DEFINE J == K \cup {y}
<1>19. /\ Known \subseteq J /\ remote' \in J
       /\ \A k \in Machines : local'[k] \in J
       /\ Played(J, local', gate', Home, x)
       /\ \A b \in Actors :
             \/ gate'[b] = gate[b]
             \/ gate'[b].stage = "push" => gate'[b].head \in J
  BY <1>10, <1>14, <1>16, <1>18
<1> HIDE DEF J
<1> QED BY <1>1, <1>4, <1>17, <1>19, PairStep

LEMMA GateJudgePair ==
    ASSUME FleetInv, FirstsInv, FairInv, PairInv, Meeting, NEW a \in Actors,
           GateJudge(a)
    PROVE  PairInv'
<1> DEFINE m == Home[a]
           t == gate[a].task
           n == clock
           g == remote
<1>1. PICK h \in {local[m], Reconciled(local[m], remote)} :
         /\ local' = [local EXCEPT ![m] = h]
         /\ \/ Judged(a, View(h, n))
            \/ /\ Judge(View(h, n), t, a) = "proceed"
               /\ Now <= Last
               /\ gate' = [gate EXCEPT ![a] =
                     [stage |-> "push", task |-> gate[a].task,
                      finishing |-> gate[a].finishing, head |-> h,
                      event |-> Confirmation(a, View(h, n))]]
               /\ told' = told
  BY DEF GateJudge
<1> DEFINE v == View(h, n)
           c == LatestClaim(v, t, a)
<1>2. world' = world /\ remote' = remote
  BY DEF GateJudge
<1>3. /\ Field(Known, n, TTL, Last, g, local, Home)
      /\ Played(Known, local, gate, Home, g)
      /\ Ledger = g /\ n \in Nat /\ Last \in Nat
      /\ DOMAIN local = Machines /\ DOMAIN gate = Actors
      /\ m \in Machines
  BY PairAtHand
<1>4. Brings(local[m], remote, h)
  BY DEF Brings
<1> DEFINE K == Known \cup {h}
<1>5. Field(K, n, TTL, Last, g, local', Home) /\ Puts(local, m, h, local')
  <2>1. m \in Machines /\ local' = [local EXCEPT ![m] = h]
    BY <1>1, <1>3
  <2> HIDE DEF m
  <2>2. /\ Field(Known \cup {h}, clock, TTL, Last, Ledger, local', Home)
        /\ Puts(local, m, h, local')
    BY <1>4, <2>1, AdoptField
  <2> QED BY <1>3, <2>2
<1>6. h = local'[m]
  BY <1>1, <1>3
<1>7. Played(K, local', gate, Home, g)
  <2>1. m \in Machines
    BY <1>3
  <2> HIDE DEF m, n, g, K
  <2>2. Played(Known \cup {h}, local', gate, Home, g)
    BY <1>3, <1>4, <1>5, <2>1, AdoptPlays DEF g
  <2> QED BY <2>2 DEF K
<1>8. Seat(h, a, n, TTL, Last, g, Home)
  <2>1. h = local'[Home[a]]
    BY <1>6
  <2> HIDE DEF K, n, g, m
  <2> QED BY <1>5, <1>7, <2>1, FieldSeat
<1>9. ASSUME Aims(a, gate', local', Home, g),
             Records(a, gate', local', Home, g),
             gate'[a].stage = "push" => gate'[a].head = h,
             \A b \in Actors \ {a} : gate'[b] = gate[b],
             \A d \in told' : d \in told \/ Promise(d, g)
      PROVE  PairInv'
  <2>1. \A b \in Actors :
           \/ gate'[b] = gate[b]
           \/ /\ Aims(b, gate', local', Home, g)
              /\ Records(b, gate', local', Home, g)
              /\ gate'[b].stage = "push" => gate'[b].head = h
    BY <1>9
  <2>2. m \in Machines /\ local' = [local EXCEPT ![m] = h]
    BY <1>1, <1>3
  <2> HIDE DEF m
  <2> QED BY <1>2, <1>4, <1>9, <2>1, <2>2, AdoptPair
<1> HIDE DEF K, v
<1>10. CASE Judged(a, v)
  <2>1. CASE gate' = [gate EXCEPT ![a] = Idle] /\ told' = told
    <3>1. /\ gate'[a].stage = "idle"
          /\ \A b \in Actors \ {a} : gate'[b] = gate[b]
      BY <1>3, <2>1 DEF Idle
    <3>2. /\ Aims(a, gate', local', Home, g)
          /\ Records(a, gate', local', Home, g)
      BY <3>1 DEF Aims, Records
    <3> QED BY <1>9, <2>1, <3>1, <3>2
  <2>2. CASE /\ Judge(v, t, a) \in {"confirmed", "lost"}
             /\ Answer(a, Judge(v, t, a), c)
    <3>1. /\ \A b \in Actors \ {a} : gate'[b] = gate[b]
          /\ \/ gate'[a].stage = "idle"
             \/ /\ gate'[a].stage = "record" /\ gate'[a].task = t
                /\ gate'[a].verdict = Judge(v, t, a)
      BY <1>3, <2>2 DEF Answer, Idle
    <3>2. /\ Aims(a, gate', local', Home, g)
          /\ Records(a, gate', local', Home, g)
      <4>1. /\ gate'[a].stage \in {"idle", "record"}
            /\ gate'[a].stage = "record" =>
                  gate'[a].task = t /\ gate'[a].verdict = Judge(v, t, a)
            /\ h = local'[Home[a]]
        BY <1>6, <3>1
      <4> HIDE DEF t, n, g, m
      <4> QED BY <1>3, <1>8, <2>2, <4>1, VerdictRecords DEF v
    <3>3. Judge(v, t, a) = "confirmed" => Promise(c, g)
      <4> HIDE DEF t, n, g, m
      <4>1. ASSUME Judge(View(h, n), t, a) = "confirmed"
            PROVE  Certifies(g, LatestClaim(View(h, n), t, a), t, a)
        <5>1. Fielded(h, n, TTL, Last, g) /\ Plays(h, g, Home)
          BY <1>8 DEF Seat
        <5> QED BY <1>3, <4>1, <5>1, ConfirmedFacts
      <4> QED BY <4>1 DEF v, Certifies, Promise
    <3>4. \A d \in told' : d \in told \/ Promise(d, g)
      <4> HIDE DEF c
      <4> QED BY <2>2, <3>3 DEF Answer
    <3> QED BY <1>9, <3>1, <3>2, <3>4
  <2> QED BY <1>10, <2>1, <2>2 DEF Judged
<1>11. CASE /\ Judge(v, t, a) = "proceed"
            /\ Now <= Last
            /\ gate' = [gate EXCEPT ![a] =
                  [stage |-> "push", task |-> gate[a].task,
                   finishing |-> gate[a].finishing, head |-> h,
                   event |-> Confirmation(a, v)]]
            /\ told' = told
  <2> DEFINE e == Confirmation(a, v)
  <2>1. e.task = t /\ e.claim = c /\ n <= Last
    BY <1>3, <1>11 DEF Confirmation, Now
  <2> HIDE DEF e
  <2>2. /\ gate'[a].stage = "push" /\ gate'[a].head = h
        /\ gate'[a].event = e
        /\ \A b \in Actors \ {a} : gate'[b] = gate[b]
    BY <1>3, <1>11 DEF e
  <2>3. t \in Tasks
    <3>1. LatestClaim(View(h, n), t, a) # None
      BY <1>11 DEF Judge, v
    <3>2. Whole(h, n, TTL)
      BY <1>8 DEF Seat, Fielded
    <3> HIDE DEF t
    <3> QED BY <1>3, <3>1, <3>2, ClaimedIsTask
  <2>4. /\ Aims(a, gate', local', Home, g)
        /\ Records(a, gate', local', Home, g)
    <3>1. /\ h = local'[Home[a]] /\ Judge(View(h, n), t, a) = "proceed"
          /\ gate'[a].event.task = t
          /\ gate'[a].event.claim = LatestClaim(View(h, n), t, a)
      BY <1>6, <1>11, <2>1, <2>2 DEF v
    <3> HIDE DEF t, n, g, m
    <3> QED BY <1>5, <1>7, <2>1, <2>2, <2>3, <3>1, ProceedAims
  <2> QED BY <1>9, <1>11, <2>2, <2>4
<1> QED BY <1>1, <1>10, <1>11 DEF v

LEMMA PairNext ==
    /\ FleetInv /\ FirstsInv /\ FairInv /\ PairInv /\ FleetInv' /\ [Next]_vars
    => PairInv'
<1> SUFFICES ASSUME FleetInv, FirstsInv, FairInv, PairInv, FleetInv',
                    [Next]_vars
             PROVE  PairInv'
  OBVIOUS
<1>1. world' = world
  BY WorldStays
<1>2. Meeting' = Meeting
  BY <1>1 DEF Meeting, Settled, HasRemote, MayAbandon, TTL, Last, Home
<1> SUFFICES ASSUME Meeting
             PROVE  PairInv'
  BY <1>2 DEF PairInv
<1>3. CASE Wait \/ UNCHANGED vars
  <2>1. local' = local /\ remote' = remote /\ gate' = gate /\ told' = told
    BY <1>3 DEF Wait, vars
  <2> QED BY <1>1, <2>1, PairStill
<1>4. ASSUME NEW a \in Actors, NEW t \in Tasks,
             \/ Claim(a, t) \/ Release(a, t) \/ Renew(a, t)
             \/ FinishFailed(a, t) \/ FinishSettled(a, t)
             \/ ConfirmSettled(a, t)
             \/ \E finishing \in BOOLEAN : EnterGate(a, t, finishing)
      PROVE  PairInv'
  BY <1>4, ClaimPair, ReleasePair, RenewPair, FinishPair, GateStillPair
<1>5. ASSUME NEW a \in Actors,
             \/ GateJudge(a) \/ GatePush(a) \/ GateRetry(a) \/ GateRefuse(a)
             \/ ConfirmLocally(a) \/ GateRecord(a)
      PROVE  PairInv'
  <2>1. ~ ConfirmLocally(a)
    BY DEF ConfirmLocally, Meeting
  <2> QED BY <1>5, <2>1, GateJudgePair, GatePushPair, GateStillPair,
             GateRecordPair
<1>6. ASSUME NEW m \in Machines, Pull(m) \/ Push(m)
      PROVE  PairInv'
  BY <1>6, SyncPair
<1> QED BY <1>3, <1>4, <1>5, <1>6 DEF Next

LEMMA PairInit == Init => PairInv
<1> SUFFICES ASSUME Init, Meeting
             PROVE  PairInv
  BY DEF PairInv
<1> DEFINE h == FirstHead
<1>1. /\ local = [m \in Machines |-> h] /\ remote = h
      /\ gate = [a \in Actors |-> Idle] /\ told = {} /\ world \in Worlds
  BY DEF Init
<1>2. \A e \in h.events : e.type = "task.created"
  BY DEF FirstHead
<1> HIDE DEF h
<1>3. /\ \A k \in Known : k = h
      /\ \A m \in Machines : local[m] = h
      /\ Ledger = h
  BY <1>1 DEF Known, Heads, Idle, Ledger, Meeting
<1>4. Plays(h, h, Home) /\ Single(h, h, Home)
  BY <1>2 DEF Plays, Plain, Single, Reports, Knows, Heirs, Published,
     Informed, Certified, EndsOf, IsEnd
<1>5. HeadsPlay(Known, Home, h)
  BY <1>3, <1>4 DEF HeadsPlay
<1>6. MachinesPlay(local, Home, h)
  <2>1. Proud(local, Home, h) /\ Heard(local, Home, h)
        /\ Succeeds(local, Home, h)
    BY <1>2 DEF Proud, Heard, Succeeds, First
  <2>2. Relays(local, Home, h)
    BY <1>3 DEF Relays, Ancestor
  <2> QED BY <2>1, <2>2 DEF MachinesPlay
<1>7. GatesPlay(gate, local, Home, h)
  BY <1>1 DEF GatesPlay, Aims, Records, Idle
<1> QED BY <1>1, <1>3, <1>5, <1>6, <1>7 DEF PairInv, Played

\* Two confirmed claims of a task are not at work at the same time.
LEMMA HoldsAreApart ==
    ASSUME NEW g, NEW n, NEW ttl, NEW last, NEW home,
           Fielded(g, n, ttl, last, g), Plays(g, g, home), TwoHomes(home),
           NEW c, NEW d, Promise(c, g), Promise(d, g), c < d,
           NEW s, s = Fold(g.events, Expiries(g)),
           c \in DOMAIN s.claims, d \in DOMAIN s.claims,
           s.claims[c].task = s.claims[d].task
    PROVE  \E x \in g.events :
              /\ x.id \in c .. d
              /\ x.task = s.claims[c].task /\ x.actor = s.claims[c].actor
              /\ IsEnd(x)
<1>1. Whole(g, n, ttl)
  BY DEF Fielded
<1>2. /\ Sound(g.events) /\ Traced(g.events, MaxId, s) /\ MaxId \in Nat
      /\ \A e \in g.events : e.id \in 1 .. MaxId
  BY <1>1, HeadFolds DEF FoldInv
<1>3. \A e \in g.events : e.actor \in Actors
  BY <1>2 DEF Sound, AreEvents, IsEvent
<1> DEFINE t == s.claims[c].task
<1>4. PICK p \in g.events : /\ IsClaim(p, t) /\ p.id = c
                            /\ p.actor = s.claims[c].actor
  BY <1>2 DEF Traced, IsClaim
<1>5. PICK q \in g.events : IsClaim(q, t) /\ q.id = d
  BY <1>2 DEF Traced, IsClaim
<1> HIDE DEF t
<1>6. ASSUME NEW i, Promise(i, g), NEW b \in g.events, IsClaim(b, t),
             b.id = i
      PROVE  \E f \in g.events : /\ First(f, g) /\ f.task = t
                                 /\ ClaimedAfter(i, f, g)
  <2>1. PICK e \in g.events : e.type = "claim.confirmed" /\ e.claim = i
    BY <1>6 DEF Promise
  <2>2. PICK z \in g.events : IsClaim(z, e.task) /\ z.id = i
    BY <1>1, <2>1, ClaimedBy
  <2>3. z = b
    BY <1>1, <1>6, <2>2, WholeIds
  <2>4. e.task = t
    BY <1>6, <2>2, <2>3 DEF IsClaim
  <2> QED BY <2>1, <2>4 DEF Plays, Heirs
<1>7. PICK f \in g.events : /\ First(f, g) /\ f.task = t
                            /\ ClaimedAfter(c, f, g)
  BY <1>4, <1>6
<1>8. PICK k \in g.events : /\ First(k, g) /\ k.task = t
                            /\ ClaimedAfter(d, k, g)
  BY <1>5, <1>6
<1>9. k = f
  <2>1. k.id <= f.id /\ f.id <= k.id
    BY <1>7, <1>8 DEF First
  <2>2. k.id \in Nat /\ f.id \in Nat
    BY <1>2
  <2>3. k.id = f.id
    BY <2>1, <2>2
  <2> QED BY <1>1, <2>3, WholeIds
<1>10. PICK r \in g.events : /\ IsClaim(r, t) /\ r.id = f.claim
                             /\ r.actor = f.actor
  <2>1. f.type \in {"claim.confirmed", "run.finished"}
    BY <1>7 DEF First
  <2> QED BY <1>1, <1>7, <2>1, ClaimedBy
<1>11. c \in Nat /\ d \in Nat
  BY <1>2, <1>4, <1>5
<1>12. p # q
  BY <1>4, <1>5, <1>11
<1>13. p = r \/ q = r
  <2>1. /\ p.actor \in Actors /\ q.actor \in Actors /\ r.actor \in Actors
        /\ Single(g, g, home)
    BY <1>3 DEF Plays
  <2> QED BY <1>4, <1>5, <1>10, <1>12, <2>1, ThirdClaim
<1>14. CASE p = r
  <2>1. PICK x \in g.events : /\ IsEnd(x) /\ x.task = t /\ x.actor = f.actor
                              /\ x.id \in f.claim .. d
    BY <1>4, <1>7, <1>8, <1>9, <1>10, <1>11, <1>14 DEF ClaimedAfter, IsEnd
  <2> QED BY <1>4, <1>10, <1>14, <2>1 DEF t
<1>15. CASE q = r
  <2>1. PICK x \in g.events : x.id \in d .. c
    BY <1>5, <1>7, <1>10, <1>11, <1>15 DEF ClaimedAfter
  <2>2. x.id \in Nat
    BY <1>2
  <2> QED BY <1>11, <2>1, <2>2
<1> QED BY <1>13, <1>14, <1>15

\* What all that makes of a promise.
LEMMA PairHolds ==
    ASSUME FleetInv, FirstsInv, FairInv, PairInv, HasRemote
    PROVE  EveryWinnerStands
<1> SUFFICES ASSUME Settled
             PROVE  EveryWinnerStands
  BY DEF EveryWinnerStands
<1> DEFINE g == Ledger
<1>1. /\ Field(Known, clock, TTL, Last, g, local, Home)
      /\ Played(Known, local, gate, Home, g)
      /\ \A c \in told : Promise(c, g)
      /\ g = remote /\ g \in Known
  BY PairAtHand DEF Meeting
<1>2. /\ \A h \in Heads : h \in Known
      /\ TwoHomes(Home)
      /\ \A h \in Known : Plays(h, g, Home)
  BY <1>1 DEF Known, Field, Played, HeadsPlay
<1> HIDE DEF g
<1>3. \A h \in Known : Fielded(h, clock, TTL, Last, g)
  BY <1>1, FieldedHeads
<1>4. ToldIsNeverVoided
  <2> SUFFICES ASSUME NEW c \in told
               PROVE  /\ Promise(c, g)
                      /\ \A h \in Heads :
                            Promise(c, h) =>
                               Fold(h.events, Expiries(h)).claims[c].status
                                  # "voided"
    BY DEF ToldIsNeverVoided, Promise, g
  <2> SUFFICES ASSUME NEW h \in Heads, NEW e \in h.events,
                      e.type = "claim.confirmed", e.claim = c
               PROVE  Fold(h.events, Expiries(h)).claims[c].status # "voided"
    BY <1>1 DEF Promise
  <2>1. Fielded(h, clock, TTL, Last, g) /\ Plays(h, g, Home)
    BY <1>2, <1>3
  <2> QED BY <1>2, <2>1, ConfirmedIsNotVoided
<1>5. MergePermissionIsExclusive
  <2> DEFINE s == Fold(g.events, Expiries(g))
  <2> SUFFICES ASSUME NEW c \in told, NEW d \in told,
                      c \in DOMAIN s.claims, d \in DOMAIN s.claims, c < d,
                      s.claims[c].task = s.claims[d].task
               PROVE  \E e \in g.events :
                         /\ e.id \in c .. d
                         /\ e.task = s.claims[c].task
                         /\ e.actor = s.claims[c].actor
                         /\ e.type \in {"claim.released", "run.finished"}
    BY DEF MergePermissionIsExclusive, g
  <2>1. /\ Fielded(g, clock, TTL, Last, g) /\ Plays(g, g, Home)
        /\ Promise(c, g) /\ Promise(d, g)
    BY <1>1, <1>2, <1>3
  <2> HIDE DEF s
  <2>2. \E x \in g.events :
           /\ x.id \in c .. d
           /\ x.task = s.claims[c].task /\ x.actor = s.claims[c].actor
           /\ IsEnd(x)
    <3>1. s = Fold(g.events, Expiries(g))
      BY DEF s
    <3> QED BY <1>2, <2>1, <3>1, HoldsAreApart
  <2> QED BY <2>2 DEF IsEnd
<1>6. DoneIsCertified
  BY <1>1, <1>2 DEF DoneIsCertified, Plays, Certified
<1>7. \A h \in Heads : \A e \in h.events :
         e.type = "claim.confirmed" => e \in g.events
  BY <1>2 DEF Plays, Published
<1> QED BY <1>4, <1>5, <1>6, <1>7 DEF EveryWinnerStands, g

-----------------------------------------------------------------------------
(***************************************************************************)
(* Every winner, on a single machine.                                      *)
(*                                                                         *)
(* There the ledger is the machine's own head, and every operation judges  *)
(* what it commits on.  Solo, of FoldProofs, says of it that a task is held *)
(* by the latest claim of it, that a claim which is over was so when the   *)
(* next one came, and that done runs are of confirmed claims.  An event on *)
(* top keeps that, since the replay it is judged by lets nobody claim a    *)
(* task that is held, or finish an attempt which is not the latest one.    *)
(***************************************************************************)
\* Who claims a task that a view shows ready finds nobody at work on it.
LEMMA ReadyIsFree ==
    ASSUME NEW h, NEW n \in Nat, NEW ttl, Whole(h, n, ttl),
           NEW now \in Nat, NEW t \in Tasks, Ready(View(h, now), t),
           NEW s, s = Fold(h.events, Expiries(h)), s.holder[t] # None
    PROVE  h.leases[s.holder[t]].exp <= now
<1> DEFINE v == View(h, now)
           d == s.holder[t]
           lv == Expiries(h)
<1>1. /\ IsState(s)
      /\ d \in DOMAIN s.claims /\ s.claims[d].task = t
      /\ s.claims[d].status = "active" /\ d \in Ids
  BY HeadClaims
<1>2. v = Close(s, lv, IDTime(now)) /\ IDTime(now) = now
  BY FleetAssumption DEF View, ReplayOf, IDTime
<1>3. /\ DOMAIN v.claims = DOMAIN s.claims
      /\ v.claims[d].task = s.claims[d].task
      /\ d \notin ExpiredHolders(s, lv, IDTime(now)) =>
            v.claims[d] = s.claims[d]
  <2> HIDE DEF v, lv, d
  <2> QED BY <1>1, <1>2, CloseFacts
<1>4. ~ (d \in DOMAIN v.claims /\ v.claims[d].task = t
         /\ v.claims[d].status = "active")
  BY DEF Ready, ActiveClaims
<1>5. d \in ExpiredHolders(s, lv, IDTime(now))
  BY <1>1, <1>3, <1>4
<1>6. LeaseExpiredBy(lv, d, now)
  BY <1>2, <1>5, SMTT(60) DEF ExpiredHolders, Lapsed
<1>7. lv[d] = h.leases[d].exp
  BY <1>1 DEF Expiries
<1> QED BY <1>6, <1>7 DEF LeaseExpiredBy

\* A task is claimed.
LEMMA ClaimSolo ==
    ASSUME NEW h, NEW n, NEW ttl, NEW x, NEW ttl2, NEW e,
           Sequel(h, n, ttl, x, ttl2, e), Solo(h, n), NoneLonger(h, x, n),
           e.type = "claim.made", Ready(View(h, n + 1), e.task)
    PROVE  Solo(x, n + 1)
<1> DEFINE s == Fold(h.events, Expiries(h))
           s2 == Fold(x.events, Expiries(x))
           hd == s.holder[e.task]
<1>1. /\ s2 = Apply(s, Expiries(x), e)
      /\ IsState(s) /\ IsState(s2) /\ ~ s.error /\ ~ s2.error
      /\ IsEvent(e) /\ n \in Nat /\ n + 1 \in Nat /\ n < n + 1
      /\ \A q \in h.events : q.id \in Nat /\ q.id <= n
      /\ \A c \in Ids :
            h.leases[c].exp \in Int /\ x.leases[c].exp \in Int
  BY SequelFacts
<1>2. /\ Whole(h, n, ttl) /\ Whole(x, n + 1, ttl2)
      /\ e.id = n + 1 /\ x.events = h.events \cup {e} /\ n + 1 \in Ids
  BY DEF Sequel
<1>3. /\ DOMAIN s.holder = Tasks
      /\ \A t \in Tasks : s.holder[t] # None =>
            /\ s.holder[t] \in DOMAIN s.claims
            /\ s.claims[s.holder[t]].task = t
      /\ \A c \in DOMAIN s.claims :
            /\ c \in Ids /\ c \in Nat /\ c <= n /\ s.claims[c] \in ClaimRecord
            /\ s.claims[c].task \in Tasks
            /\ s.claims[c].status = "active" =>
                  s.holder[s.claims[c].task] = c
      /\ \A q \in h.events : q.type = "claim.made" =>
            /\ q.id \in DOMAIN s.claims
            /\ s.claims[q.id].task = q.task
            /\ s.claims[q.id].actor = q.actor
  BY <1>1, <1>2, HeadClaims
<1>4. Spent(h, s, n)
  BY DEF Solo
<1>5. e.task \in Tasks
  BY <1>1 DEF IsEvent
<1>6. ASSUME hd # None
      PROVE  x.leases[hd].exp <= n + 1
  <2>1. h.leases[s.holder[e.task]].exp <= n + 1
    BY <1>1, <1>2, <1>5, <1>6, ReadyIsFree
  <2>2. hd \in Ids /\ hd <= n
    BY <1>3, <1>5, <1>6
  <2>3. x.leases[hd].exp <= h.leases[hd].exp
    BY <2>2 DEF NoneLonger
  <2>4. h.leases[hd].exp \in Int /\ x.leases[hd].exp \in Int
    BY <1>1, <2>2
  <2> HIDE DEF s
  <2> QED BY <1>1, <2>1, <2>3, <2>4
<1> HIDE DEF s, s2
<1>7. /\ s2.holder = [s.holder EXCEPT ![e.task] = n + 1]
      /\ \/ /\ hd = None
            /\ s2.claims = Put(s.claims, n + 1, NewClaim(e, "active"))
         \/ /\ hd # None
            /\ s2.claims = Put([s.claims EXCEPT ![hd].status = "expired"],
                               n + 1, NewClaim(e, "active"))
  <2>1. s2 = ClaimMade(s, Expiries(x), e)
    BY <1>1 DEF Apply
  <2>2. Malformed(s).error = TRUE
    BY <1>1, MalformedKeeps
  <2>3. e.task \in DOMAIN s.tasks
    BY <1>1, <2>1, <2>2 DEF ClaimMade
  <2>4. hd # None => LeaseExpiredBy(Expiries(x), hd, IDTime(e.id))
    <3>1. IDTime(e.id) = n + 1
      BY <1>1, <1>2, FleetAssumption DEF IDTime
    <3>2. hd # None => hd \in Ids
      BY <1>3, <1>5
    <3>3. hd # None => Expiries(x)[hd] = x.leases[hd].exp
      BY <3>2 DEF Expiries
    <3> QED BY <1>6, <3>1, <3>3 DEF LeaseExpiredBy
  <2> QED BY <1>1, <1>2, <2>1, <2>3, <2>4 DEF ClaimMade, IsState
<1>8. \A c \in DOMAIN s2.claims :
         \/ s2.claims[c].status = "active"
         \/ /\ c \in DOMAIN s.claims
            /\ s2.claims[c].task = s.claims[c].task
            /\ s2.claims[c].actor = s.claims[c].actor
            /\ \/ s2.claims[c].status = s.claims[c].status
               \/ c = hd /\ hd # None /\ s2.claims[c].status = "expired"
  BY <1>3, <1>5, <1>7 DEF Put, NewClaim, ClaimRecord
<1>9. EndsOver(x, s, s2, n + 1)
  <2>1. ASSUME hd # None
        PROVE  Over(x, hd, s.claims[hd].task, s.claims[hd].actor, n + 1)
    BY <1>6, <2>1 DEF Over
  <2> HIDE DEF hd
  <2> QED BY <1>8, <2>1 DEF EndsOver
<1>10. Passes(h, x, s, s2)
  <2> SUFFICES ASSUME NEW t \in Tasks, s2.holder[t] # None
               PROVE  \/ /\ s2.holder[t] = s.holder[t]
                         /\ \A q \in x.events : IsClaim(q, t) => q \in h.events
                      \/ \A q \in x.events : IsClaim(q, t) =>
                            q.id <= s2.holder[t]
    BY DEF Passes
  <2>1. CASE t = e.task
    <3>1. s2.holder[t] = n + 1
      BY <1>3, <1>5, <1>7, <2>1
    <3>2. \A q \in x.events : q.id <= n + 1
      BY <1>1, <1>2
    <3> QED BY <3>1, <3>2
  <2>2. CASE t # e.task
    <3>1. s2.holder[t] = s.holder[t]
      BY <1>3, <1>7, <2>2
    <3>2. \A q \in x.events : IsClaim(q, t) => q \in h.events
      BY <1>2, <2>2 DEF IsClaim
    <3> QED BY <3>1, <3>2
  <2> QED BY <2>1, <2>2
<1>11. FollowsOver(h, x)
  <2> SUFFICES ASSUME NEW p \in x.events, NEW q \in x.events,
                      IsClaim(p, q.task), q.type = "claim.made", p.id < q.id
               PROVE  \/ p \in h.events /\ q \in h.events
                      \/ Over(x, p.id, p.task, p.actor, q.id)
    BY DEF FollowsOver
  <2>1. CASE q \in h.events
    <3>1. p # e
      BY <1>1, <1>2, <2>1
    <3> QED BY <1>2, <2>1, <3>1
  <2>2. CASE q = e
    <3>1. p \in h.events
      BY <1>1, <1>2, <2>2
    <3>2. /\ p.id \in DOMAIN s.claims /\ s.claims[p.id].task = p.task
          /\ s.claims[p.id].actor = p.actor /\ p.task = e.task
          /\ p.id \in Ids /\ p.id <= n
      BY <1>3, <2>2, <3>1 DEF IsClaim
    <3>3. CASE s.claims[p.id].status = "active"
      <4>1. p.id = hd /\ hd # None
        <5>1. p.id # None
          BY <3>2 DEF Ids, None
        <5> QED BY <1>3, <3>2, <3>3, <5>1
      <4>2. x.leases[p.id].exp <= q.id
        BY <1>2, <1>6, <2>2, <4>1
      <4> QED BY <4>2 DEF Over
    <3>4. CASE s.claims[p.id].status # "active"
      <4>1. Over(h, p.id, p.task, p.actor, n)
        BY <1>4, <3>2, <3>4 DEF Spent
      <4>2. /\ h.events \subseteq x.events /\ n \in Nat /\ q.id \in Nat
            /\ n <= q.id
            /\ h.leases[p.id].exp \in Int /\ x.leases[p.id].exp \in Int
            /\ x.leases[p.id].exp <= h.leases[p.id].exp
            /\ \A f \in h.events : f.id \in Nat
        BY <1>1, <1>2, <2>2, <3>2 DEF NoneLonger
      <4> QED BY <4>1, <4>2, OverStays
    <3> QED BY <3>3, <3>4
  <2> QED BY <1>2, <2>1, <2>2
<1>12. Spares(h, s, x)
  BY <1>1, <1>2, NoneLongerSpares DEF s
<1>13. Certified(x, x)
  <2>1. Certified(h, h) /\ Certifying(h, e)
    BY DEF Solo, Certifying
  <2> QED BY <1>1, <1>2, <2>1, SequelCertified
<1>14. h.events \subseteq x.events /\ n <= n + 1
  BY <1>1, <1>2
<1> QED BY <1>1, <1>2, <1>9, <1>10, <1>11, <1>12, <1>13, <1>14, SoloStep
        DEF s, s2

\* The latest claim that a view has of an actor is the latest one there.
LEMMA LatestViewed ==
    ASSUME NEW h, NEW n, NEW ttl, Whole(h, n, ttl), NEW now \in Nat,
           NEW t, NEW a, NEW c, c = LatestClaim(View(h, now), t, a)
    PROVE  /\ \A q \in h.events : IsClaim(q, t) /\ q.actor = a =>
                 q.id \in OwnClaims(View(h, now), t, a) /\ q.id <= c
           /\ c # None =>
                 /\ c \in OwnClaims(View(h, now), t, a)
                 /\ \E q \in h.events : IsClaim(q, t) /\ q.id = c
                                        /\ q.actor = a
<1> DEFINE s == Fold(h.events, Expiries(h))
           v == View(h, now)
<1>1. /\ ClaimsOf(v, t) = ClaimsOf(s, t)
      /\ \A d \in ClaimsOf(s, t) :
            v.claims[d].actor = s.claims[d].actor
      /\ \A d \in ClaimsOf(s, t) :
            \E q \in h.events : /\ IsClaim(q, t) /\ q.id = d
                                /\ q.actor = s.claims[d].actor
  <2>1. ClaimsOf(v, t) = ClaimsOf(s, t)
    BY ViewClaims
  <2>2. \A d \in ClaimsOf(s, t) : v.claims[d].actor = s.claims[d].actor
    BY ViewClaims
  <2>3. \A d \in ClaimsOf(s, t) :
            \E q \in h.events : /\ IsClaim(q, t) /\ q.id = d
                                /\ q.actor = s.claims[d].actor
    BY ViewClaims
  <2> QED BY <2>1, <2>2, <2>3
<1>7. \A q \in h.events : IsClaim(q, t) =>
         q.id \in ClaimsOf(s, t) /\ s.claims[q.id].actor = q.actor
  BY ViewClaims
<1>2. DOMAIN v.claims \subseteq Ids
  BY ViewFacts
<1> HIDE DEF s, v
<1>3. \A q \in h.events : IsClaim(q, t) /\ q.actor = a =>
         q.id \in OwnClaims(v, t, a)
  BY <1>1, <1>7 DEF OwnClaims, ClaimsOf
<1>4. c = None \/ c \in OwnClaims(v, t, a)
  BY <1>2, LatestIsOwn DEF v
<1>5. \A d \in OwnClaims(v, t, a) : d <= c
  BY <1>2, LatestIsLast DEF v
<1>6. \A d \in OwnClaims(v, t, a) :
         \E q \in h.events : IsClaim(q, t) /\ q.id = d /\ q.actor = a
  BY <1>1 DEF OwnClaims, ClaimsOf
<1> QED BY <1>3, <1>4, <1>5, <1>6 DEF v

\* Actor a's latest claim of task t is confirmed.
Sealed(h, a, t) ==
    \E e \in h.events :
        /\ e.type = "claim.confirmed" /\ e.task = t /\ e.actor = a
        /\ \A q \in h.events : IsClaim(q, t) /\ q.actor = a => q.id <= e.claim

\* A verdict of "confirmed" speaks of the latest claim.
LEMMA JudgedSealed ==
    ASSUME NEW h, NEW n, NEW ttl, Whole(h, n, ttl), NEW now \in Nat,
           NEW t, NEW a, Judge(View(h, now), t, a) = "confirmed"
    PROVE  /\ Sealed(h, a, t)
           /\ Promise(LatestClaim(View(h, now), t, a), h)
<1> DEFINE v == View(h, now)
           c == LatestClaim(v, t, a)
<1>1. \A d \in DOMAIN v.claims : v.claims[d].confirmation # None =>
         \E e \in h.events : e.type = "claim.confirmed" /\ e.claim = d
  BY ViewFacts
<1>2. c # None /\ v.claims[c].confirmation # None
  BY DEF Judge
<1>3. /\ \A q \in h.events : IsClaim(q, t) /\ q.actor = a => q.id <= c
      /\ c \in OwnClaims(v, t, a)
      /\ \E q \in h.events : IsClaim(q, t) /\ q.id = c /\ q.actor = a
  BY <1>2, LatestViewed
<1> HIDE DEF v
<1>4. c \in DOMAIN v.claims
  BY <1>3 DEF OwnClaims
<1> HIDE DEF c
<1>5. PICK p \in h.events : IsClaim(p, t) /\ p.id = c /\ p.actor = a
  BY <1>3
<1>6. PICK e \in h.events : e.type = "claim.confirmed" /\ e.claim = c
  BY <1>1, <1>2, <1>4
<1>7. PICK q \in h.events : /\ q.id = c /\ q.task = e.task
                            /\ q.actor = e.actor
  BY <1>6 DEF Whole, NamesClaims
<1>8. q = p
  BY <1>5, <1>7, WholeIds
<1>9. e.task = t /\ e.actor = a
  BY <1>5, <1>7, <1>8 DEF IsClaim
<1> QED BY <1>3, <1>6, <1>9 DEF Sealed, Promise, c, v

\* What a finish would close then is confirmed.
LEMMA SealedCloses ==
    ASSUME NEW h, NEW n, NEW ttl, Whole(h, n, ttl), NEW now \in Nat,
           Newest(h, Fold(h.events, Expiries(h))),
           NEW t \in Tasks, NEW a, Sealed(h, a, t),
           NEW c \in Closable(View(h, now), t, a)
    PROVE  \E f \in h.events : f.type = "claim.confirmed" /\ f.claim = c
<1> DEFINE s == Fold(h.events, Expiries(h))
           v == View(h, now)
<1>1. PICK e \in h.events :
         /\ e.type = "claim.confirmed" /\ e.task = t /\ e.actor = a
         /\ \A q \in h.events : IsClaim(q, t) /\ q.actor = a => q.id <= e.claim
  BY DEF Sealed
<1>2. PICK p \in h.events : IsClaim(p, t) /\ p.id = e.claim /\ p.actor = a
  BY <1>1 DEF Whole, NamesClaims, IsClaim
<1>3. \A q \in h.events : q.id \in Nat
  BY WholeIds
<1>4. \E q \in h.events : IsClaim(q, t) /\ q.id = c /\ q.actor = a /\ p.id <= c
  <2>1. CASE c \in HeldByActor(v, t, a)
    <3>1. /\ Holds(s)
          /\ ClaimsOf(v, t) = ClaimsOf(s, t)
          /\ \A d \in ClaimsOf(s, t) :
                /\ d # None
                /\ v.claims[d].actor = s.claims[d].actor
                /\ v.claims[d].status = "active" =>
                      s.claims[d].status = "active"
                /\ \E q \in h.events : /\ IsClaim(q, t) /\ q.id = d
                                       /\ q.actor = s.claims[d].actor
      BY ViewClaims
    <3>2. Newest(h, s)
      OBVIOUS
    <3> HIDE DEF s, v
    <3>3. /\ c \in ClaimsOf(v, t) /\ v.claims[c].status = "active"
          /\ v.claims[c].actor = a
      BY <2>1 DEF HeldByActor, ActiveClaims, ClaimsOf
    <3>4. s.holder[t] = c /\ c # None
      BY <3>1, <3>3 DEF Holds, ClaimsOf
    <3>5. p.id <= c
      BY <1>2, <3>2, <3>4 DEF Newest
    <3> QED BY <3>1, <3>3, <3>5
  <2>2. CASE c = LatestClaim(v, t, a) /\ c # None
    BY <1>2, <2>2, LatestViewed
  <2> QED BY <2>1, <2>2 DEF Closable
<1>5. PICK q \in h.events : /\ IsClaim(q, t) /\ q.id = c /\ q.actor = a
                            /\ p.id <= c
  BY <1>4
<1>6. q.id <= e.claim
  BY <1>1, <1>5
<1>7. c = e.claim
  BY <1>2, <1>3, <1>5, <1>6
<1> QED BY <1>1, <1>7

\* The latest claim gets its confirmation.
LEMMA ConfirmedSealed ==
    ASSUME NEW h, NEW n, NEW ttl, Whole(h, n, ttl), NEW now \in Nat,
           NEW t, NEW a, NEW e, e.type = "claim.confirmed",
           e.task = t, e.actor = a, e.claim = LatestClaim(View(h, now), t, a),
           NEW x, x.events = h.events \cup {e}
    PROVE  Sealed(x, a, t) /\ Promise(e.claim, x)
<1>1. \A q \in h.events : IsClaim(q, t) /\ q.actor = a => q.id <= e.claim
  BY LatestViewed
<1>2. \A q \in x.events : IsClaim(q, t) => q \in h.events
  BY DEF IsClaim
<1> QED BY <1>1, <1>2 DEF Sealed, Promise

LEMMA SealedStays ==
    ASSUME NEW h, NEW x, h.events \subseteq x.events, NEW a, NEW t,
           Sealed(h, a, t),
           \A q \in x.events : q.type = "claim.made" =>
              q \in h.events \/ q.actor # a
    PROVE  Sealed(x, a, t)
BY DEF Sealed, IsClaim
-----------------------------------------------------------------------------
Blank(k) == \A e \in k.events : e.type = "task.created"
Sits(a, gt, h) ==
    gt[a].stage = "record" /\ gt[a].verdict = "confirmed" =>
        Sealed(h, a, gt[a].task)
SoloInv ==
    ~ HasRemote =>
        /\ Solo(Ledger, clock) /\ Blank(remote)
        /\ \A m \in Machines :
              (\E a \in Actors : Home[a] = m) \/ Blank(local[m])
        /\ \A c \in told : Promise(c, Ledger)
        /\ \A a \in Actors : Sits(a, gate, Ledger)

\* A step of the only machine, from its head to head x.
LEMMA SoloMoves ==
    ASSUME FleetInv, SoloInv, ~ HasRemote,
           world' = world, remote' = remote,
           NEW x, \A a \in Actors : local'[Home[a]] = x,
           \A m \in Machines : \/ local'[m] = local[m]
                               \/ \E a \in Actors : Home[a] = m,
           Solo(x, clock'), Ledger.events \subseteq x.events,
           \A q \in x.events : q.type = "claim.made" =>
              q \in Ledger.events \/ gate[q.actor].stage # "record",
           \A c \in told' : c \in told \/ Promise(c, x),
           \A a \in Actors : \/ gate'[a] = gate[a]
                             \/ Sits(a, gate', x)
    PROVE  SoloInv'
<1>1. /\ Blank(remote)
      /\ \A m \in Machines :
            (\E a \in Actors : Home[a] = m) \/ Blank(local[m])
      /\ \A c \in told : Promise(c, Ledger)
      /\ \A a \in Actors : Sits(a, gate, Ledger)
  BY DEF SoloInv
<1>2. Ledger' = x
  <2>1. \A a \in Actors : Ledger' = local'[Home[a]]
    BY LedgerNext
  <2>2. PICK a \in Actors : TRUE
    BY FleetAssumption
  <2> QED BY <2>1, <2>2
<1>3. Home' = Home /\ HasRemote' = HasRemote
  BY DEF Home, HasRemote
<1>4. \A c \in told' : Promise(c, x)
  BY <1>1 DEF Promise
<1>5. ASSUME NEW a \in Actors
      PROVE  Sits(a, gate', x)
  <2>1. CASE gate'[a] = gate[a]
    <3> SUFFICES ASSUME gate[a].stage = "record",
                        gate[a].verdict = "confirmed"
                 PROVE  Sealed(x, a, gate[a].task)
      BY <2>1 DEF Sits
    <3>1. Sealed(Ledger, a, gate[a].task)
      BY <1>1 DEF Sits
    <3>2. \A q \in x.events : q.type = "claim.made" =>
             q \in Ledger.events \/ q.actor # a
      OBVIOUS
    <3> QED BY <3>1, <3>2, SealedStays
  <2> QED BY <2>1
<1>6. Blank(remote')
  BY <1>1
<1>7. \A m \in Machines :
         (\E a \in Actors : Home[a] = m) \/ Blank(local'[m])
  BY <1>1
<1>8. (Solo(Ledger, clock))'
  BY <1>2 DEF Solo, Newest, Spent, Apart, Certified, Over
<1>9. /\ (\A c \in told : Promise(c, Ledger))'
      /\ (\A a \in Actors : Sits(a, gate, Ledger))'
  BY <1>2, <1>4, <1>5 DEF Promise, Sits, Sealed
<1>10. /\ (Blank(remote))'
       /\ (\A m \in Machines :
             (\E a \in Actors : Home[a] = m) \/ Blank(local[m]))'
  BY <1>3, <1>6, <1>7 DEF Blank
<1> QED BY <1>8, <1>9, <1>10 DEF SoloInv

\* What the only machine may commit on its head h.
Plainly(h, e, now) ==
    \/ IsEnd(e) /\ Certifying(h, e)
    \/ e.type = "claim.confirmed"
    \/ /\ e.type = "claim.made" /\ Ready(View(h, now), e.task)
       /\ gate[e.actor].stage # "record"

\* What a step without a remote has at hand.
LEMMA SoloAtHand ==
    ASSUME FleetInv, SoloInv, ~ HasRemote, NEW a \in Actors
    PROVE  /\ Ledger = local[Home[a]]
           /\ Whole(Ledger, clock, TTL) /\ Solo(Ledger, clock)
           /\ clock \in Nat /\ clock \in Ids /\ Home[a] \in Machines
           /\ Ledger.leases \in [Ids -> Lease]
           /\ \A b \in Actors : Home[b] = Home[a]
           /\ \A e \in Ledger.events : e.actor \in Actors
<1>1. /\ Ledger \in Known /\ Ledger = local[Home[a]]
  BY LedgerFacts
<1>2. /\ Whole(Ledger, clock, TTL) /\ clock \in Nat /\ clock \in Ids
      /\ Home \in [Actors -> Machines] /\ world \in Worlds
  BY <1>1, AtHand
<1>3. PICK m \in Machines : Home = [b \in Actors |-> m]
  BY <1>2, FleetAssumption DEF HasRemote, Home
<1>4. Solo(Ledger, clock)
  BY DEF SoloInv
<1>5. /\ Ledger.leases \in [Ids -> Lease]
      /\ \A e \in Ledger.events : e.actor \in Actors
  BY <1>2 DEF Whole, Sound, AreEvents, IsEvent
<1> HIDE DEF Home
<1> QED BY <1>1, <1>2, <1>3, <1>4, <1>5

LEMMA SoloWrite ==
    ASSUME FleetInv, FleetInv', SoloInv, ~ HasRemote, Now <= Last,
           clock' = Now, world' = world, remote' = remote,
           NEW a \in Actors, NEW e, NEW L,
           local' = [local EXCEPT ![Home[a]] = With(@, e, L)],
           e.id = Now, Plainly(Ledger, e, Now), Shorter(Ledger, L, clock),
           \/ told' = told
           \/ e.type = "claim.confirmed" /\ told' \subseteq told \cup {e.claim},
           NEW x, x = With(Ledger, e, L),
           \A b \in Actors : gate'[b] = gate[b] \/ Sits(b, gate', x)
    PROVE  SoloInv'
<1> DEFINE h == Ledger
           n == clock
<1>1. /\ h = local[Home[a]] /\ Whole(h, n, TTL) /\ Solo(h, n)
      /\ n \in Nat /\ n \in Ids /\ Home[a] \in Machines
      /\ h.leases \in [Ids -> Lease]
      /\ \A b \in Actors : Home[b] = Home[a]
      /\ \A q \in h.events : q.actor \in Actors
  BY SoloAtHand
<1>2. Now \in Ids /\ Now = n + 1
  BY NextInstant
<1>3. x.events = h.events \cup {e} /\ x.leases = L
  BY DEF With
<1>4. /\ DOMAIN local = Machines
  BY AtHand
<1>5. /\ local'[Home[a]] = x
      /\ \A m \in Machines : m # Home[a] => local'[m] = local[m]
  BY <1>1, <1>4
<1>6. Whole(x, Now, TTL')
  <2>1. \A m \in Machines : local'[m] \in Known'
    BY AtHandNext
  <2>2. \A k \in Known' : Whole(k, clock', TTL')
    BY AtHandNext
  <2> QED BY <1>1, <1>5, <2>1, <2>2
<1>7. x.leases \in [Ids -> Lease]
  BY <1>6 DEF Whole
<1> HIDE DEF h, n, Now
<1>8. Spared(h, x.leases, n) /\ NoneLonger(h, x, n)
  BY <1>1, <1>3, <1>7, ShorterFacts DEF h, n
<1>9. Sequel(h, n, TTL, x, TTL', e)
  BY <1>1, <1>2, <1>3, <1>6, <1>8, FleetAssumption DEF Sequel
<1>10. Solo(x, Now)
  <2>1. CASE IsEnd(e) /\ Certifying(h, e)
    BY <1>1, <1>2, <1>8, <1>9, <2>1, EndSolo
  <2>2. CASE e.type = "claim.confirmed"
    BY <1>1, <1>2, <1>8, <1>9, <2>2, ConfirmSolo
  <2>3. CASE e.type = "claim.made" /\ Ready(View(h, Now), e.task)
    BY <1>1, <1>2, <1>8, <1>9, <2>3, ClaimSolo
  <2> QED BY <2>1, <2>2, <2>3 DEF Plainly, h
<1>11. /\ \A b \in Actors : local'[Home[b]] = x
       /\ \A m \in Machines : \/ local'[m] = local[m]
                              \/ \E b \in Actors : Home[b] = m
  BY <1>1, <1>5
<1>12. \A q \in x.events : q.type = "claim.made" =>
          q \in Ledger.events \/ gate[q.actor].stage # "record"
  BY <1>3 DEF Plainly, h, IsEnd
<1>13. \A c \in told' : c \in told \/ Promise(c, x)
  BY <1>3 DEF Promise
<1>14. Solo(x, clock') /\ Ledger.events \subseteq x.events
  BY <1>3, <1>10 DEF h
<1> QED BY <1>11, <1>12, <1>13, <1>14, SoloMoves

\* A step that writes nothing.
LEMMA SoloStill ==
    ASSUME FleetInv, FleetInv', SoloInv, ~ HasRemote,
           clock' \in {clock, Now}, world' = world, remote' = remote,
           local' = local,
           \A c \in told' : c \in told \/ Promise(c, Ledger),
           \A b \in Actors : gate'[b] = gate[b] \/ Sits(b, gate', Ledger)
    PROVE  SoloInv'
<1> DEFINE h == Ledger
           s == Fold(h.events, Expiries(h))
<1>1. PICK a \in Actors : TRUE
  BY FleetAssumption
<1>2. /\ h = local[Home[a]] /\ Whole(h, clock, TTL) /\ Solo(h, clock)
      /\ clock \in Nat /\ clock \in Ids /\ Home[a] \in Machines
      /\ \A b \in Actors : Home[b] = Home[a]
  BY SoloAtHand
<1>3. Whole(h, clock', TTL')
  <2>1. \A m \in Machines : local'[m] \in Known'
    BY AtHandNext
  <2>2. \A k \in Known' : Whole(k, clock', TTL')
    BY AtHandNext
  <2> QED BY <1>2, <2>1, <2>2
<1>4. clock' \in Nat /\ clock <= clock'
  BY <1>2 DEF Now
<1> HIDE DEF h
<1>5. Spared(h, h.leases, clock)
  BY DEF Spared
<1>6. Spares(h, s, h)
  <2>1. h.leases \in [Ids -> Lease]
    BY <1>2 DEF Whole
  <2>2. \A c \in DOMAIN s.claims : c \in Ids
    BY <1>2, HeadClaims
  <2> HIDE DEF s
  <2>3. \A c \in DOMAIN s.claims : h.leases[c].exp \in Int
    BY <2>1, <2>2, ExpiryIsInteger
  <2> QED BY <2>3 DEF Spares
<1>7. Solo(h, clock')
  <2>1. h.events = h.events
    OBVIOUS
  <2>2. IdsPerTick = 1
    BY FleetAssumption
  <2> QED BY <1>2, <1>3, <1>4, <1>5, <1>6, <2>1, <2>2, QuietSolo
<1>8. \A b \in Actors : local'[Home[b]] = h
  BY <1>2
<1> QED BY <1>7, <1>8, SoloMoves DEF h

\* Nothing lasts longer in the view than it does on the head.
LEMMA ActiveRuns ==
    ASSUME FleetInv, SoloInv, ~ HasRemote, NEW a \in Actors,
           NEW now \in Nat,
           NEW c \in DOMAIN View(Ledger, now).claims,
           View(Ledger, now).claims[c].status = "active"
    PROVE  /\ c \in Ids /\ Ledger.leases[c].exp > now
           /\ c \in DOMAIN Fold(Ledger.events, Expiries(Ledger)).claims
           /\ Fold(Ledger.events, Expiries(Ledger)).claims[c].status
                 = "active"
<1> DEFINE h == Ledger
<1>1. Whole(h, clock, TTL)
  BY SoloAtHand
<1> HIDE DEF h
<1>2. c \in Ids /\ h.leases[c].exp > now
  BY <1>1, ViewFacts DEF h
<1>3. AreEvents(h.events)
  BY <1>1 DEF Whole, Sound
<1>4. /\ DOMAIN View(h, now).claims = DOMAIN Fold(h.events, Expiries(h)).claims
      /\ \A d \in DOMAIN Fold(h.events, Expiries(h)).claims :
            View(h, now).claims[d].status = "active" =>
               Fold(h.events, Expiries(h)).claims[d].status = "active"
  BY <1>3, ReplayFacts DEF View
<1> QED BY <1>2, <1>4 DEF h

LEMMA ClaimAlone ==
    ASSUME FleetInv, FleetInv', SoloInv, ~ HasRemote,
           NEW a \in Actors, NEW t \in Tasks, Claim(a, t)
    PROVE  SoloInv'
<1> DEFINE h == Ledger
           e == [id |-> Now, type |-> "claim.made", task |-> t, actor |-> a]
           L == [h.leases EXCEPT ![Now] = [exp |-> Now + TTL,
                                           released |-> FALSE]]
<1>1. /\ h = local[Home[a]] /\ clock \in Nat
      /\ h.leases \in [Ids -> Lease] /\ Home[a] \in Machines
  BY SoloAtHand
<1>2. /\ Now <= Last /\ clock' = Now /\ world' = world /\ remote' = remote
      /\ gate' = gate /\ told' = told /\ gate[a].stage = "idle"
      /\ Ready(View(h, Now), t)
      /\ local' = [local EXCEPT ![Home[a]] = With(@, e, L)]
  BY <1>1 DEF Claim, Write, Idle
<1>3. Shorter(h, L, clock)
  <2>1. \A c \in Ids : c <= clock => c # Now
    BY <1>1 DEF Now, Ids
  <2> QED BY <1>1, <2>1 DEF Shorter
<1>4. Plainly(h, e, Now) /\ e.id = Now
  BY <1>2 DEF Plainly
<1> HIDE DEF e, L
<1> QED BY <1>2, <1>3, <1>4, SoloWrite

LEMMA ReleaseAlone ==
    ASSUME FleetInv, FleetInv', SoloInv, ~ HasRemote,
           NEW a \in Actors, NEW t \in Tasks, Release(a, t)
    PROVE  SoloInv'
<1> DEFINE h == Ledger
           v == View(h, Now)
           s == Fold(h.events, Expiries(h))
           c == IF HeldByActor(v, t, a) # {}
                THEN CHOOSE x \in HeldByActor(v, t, a) : TRUE
                ELSE LatestClaim(v, t, a)
           e == [id |-> Now, type |-> "claim.released", task |-> t,
                 actor |-> a]
           L == [h.leases EXCEPT ![c] = [exp |-> Now, released |-> TRUE]]
<1>1. /\ h = local[Home[a]] /\ Whole(h, clock, TTL) /\ Solo(h, clock)
      /\ clock \in Nat /\ h.leases \in [Ids -> Lease]
  BY SoloAtHand
<1>2. /\ Now <= Last /\ clock' = Now /\ world' = world /\ remote' = remote
      /\ gate' = gate /\ told' = told /\ c # None
      /\ \/ v.claims[c].status = "active"
         \/ v.claims[c].status = "voided" /\ ~ ClosedByRun(v, v.runs, c)
      /\ local' = [local EXCEPT ![Home[a]] = With(@, e, L)]
  BY <1>1 DEF Release, Write
<1>3. Now \in Nat /\ Now = clock + 1
  BY <1>1 DEF Now
<1> HIDE DEF Now
<1>4. c \in DOMAIN v.claims
  <2>1. CASE HeldByActor(v, t, a) # {}
    <3>1. c \in HeldByActor(v, t, a)
      BY <2>1
    <3> HIDE DEF c
    <3> QED BY <3>1 DEF HeldByActor, ActiveClaims
  <2>2. CASE HeldByActor(v, t, a) = {}
    <3>1. c \in OwnClaims(v, t, a)
      BY <1>1, <1>2, <1>3, <2>2, LatestViewed
    <3> HIDE DEF c
    <3> QED BY <3>1 DEF OwnClaims
  <2> QED BY <2>1, <2>2
<1> HIDE DEF c
<1>5. v.claims[c].status = "active"
  <2> SUFFICES ASSUME v.claims[c].status = "voided",
                      ~ ClosedByRun(v, v.runs, c)
               PROVE  FALSE
    BY <1>2
  <2>1. AreEvents(h.events)
    BY <1>1 DEF Whole, Sound
  <2>2. c \in DOMAIN s.claims /\ s.claims[c].status = "voided"
    BY <1>4, <2>1, ReplayFacts DEF View
  <2> HIDE DEF s
  <2> QED BY <1>1, <2>2 DEF Solo, Spent, s
<1>6. c \in Ids /\ h.leases[c].exp > Now
  BY <1>3, <1>4, <1>5, ActiveRuns
<1>7. h.leases[c].exp \in Int
  BY <1>1, <1>6, ExpiryIsInteger
<1>8. Shorter(h, L, clock)
  <2>1. L[c].exp = Now /\ \A d \in Ids : d # c => L[d] = h.leases[d]
    BY <1>1, <1>6
  <2> HIDE DEF L
  <2> QED BY <1>1, <1>3, <1>6, <1>7, <2>1 DEF Shorter
<1>9. Plainly(h, e, Now) /\ e.id = Now
  BY DEF Plainly, IsEnd, Certifying
<1> HIDE DEF e, L
<1> QED BY <1>2, <1>8, <1>9, SoloWrite

LEMMA RenewAlone ==
    ASSUME FleetInv, FleetInv', SoloInv, ~ HasRemote,
           NEW a \in Actors, NEW t \in Tasks, Renew(a, t)
    PROVE  SoloInv'
<1> DEFINE h == Ledger
           v == View(h, clock)
           s == Fold(h.events, Expiries(h))
<1>1. /\ h = local[Home[a]] /\ Whole(h, clock, TTL) /\ Solo(h, clock)
      /\ clock \in Nat /\ clock \in Ids /\ h.leases \in [Ids -> Lease]
      /\ \A b \in Actors : Home[b] = Home[a]
      /\ Home[a] \in Machines /\ TTL \in Nat
  BY SoloAtHand, AtHand
<1>2. PICK c \in HeldByActor(v, t, a) :
         local' = [local EXCEPT ![Home[a]] = Renewed(@, c)]
  BY <1>1 DEF Renew
<1>3. /\ Now <= Last /\ clock' = Now /\ world' = world /\ remote' = remote
      /\ gate' = gate /\ told' = told
  BY DEF Renew
<1> DEFINE x == Renewed(h, c)
<1>4. /\ c \in Ids /\ h.leases[c].exp > clock
      /\ c \in DOMAIN s.claims /\ s.claims[c].status = "active"
  <2>1. c \in DOMAIN v.claims /\ v.claims[c].status = "active"
    BY <1>2 DEF HeldByActor, ActiveClaims
  <2> HIDE DEF v, s, h
  <2>2. clock \in Nat
    BY <1>1
  <2> QED BY <2>1, <2>2, ActiveRuns DEF v, s, h
<1>5. x.events = h.events
  BY DEF Renewed
<1>6. /\ x.leases[c].exp = Now + TTL
      /\ \A d \in Ids : d # c => x.leases[d] = h.leases[d]
  BY <1>1, <1>4 DEF Renewed
<1>7. Now = clock + 1 /\ Now \in Nat
  BY <1>1 DEF Now
<1>8. /\ local'[Home[a]] = x
      /\ \A m \in Machines : m # Home[a] => local'[m] = local[m]
  BY <1>1, <1>2, AtHand
<1>9. Whole(x, Now, TTL')
  <2>1. \A m \in Machines : local'[m] \in Known'
    BY AtHandNext
  <2>2. \A k \in Known' : Whole(k, clock', TTL')
    BY AtHandNext
  <2> QED BY <1>1, <1>3, <1>8, <2>1, <2>2
<1> HIDE DEF x, h, s, Now
<1>10. Spared(h, x.leases, clock)
  <2>1. clock < x.leases[c].exp
    BY <1>1, <1>6, <1>7
  <2>2. clock < h.leases[c].exp
    <3>1. h.leases[c].exp \in Int
      BY <1>1, <1>4, ExpiryIsInteger
    <3> QED BY <1>1, <1>4, <3>1
  <2> QED BY <1>6, <2>1, <2>2 DEF Spared
<1>11. Spares(h, s, x)
  <2>1. \A d \in DOMAIN s.claims : d \in Ids
    BY <1>1, HeadClaims DEF s
  <2>2. \A d \in Ids : h.leases[d].exp \in Int
    BY <1>1, ExpiryIsInteger
  <2> QED BY <1>4, <1>6, <2>1, <2>2 DEF Spares
<1>12. Solo(x, Now)
  <2>1. s = Fold(h.events, Expiries(h)) /\ clock <= Now
    BY <1>1, <1>7 DEF s
  <2>2. IdsPerTick = 1
    BY FleetAssumption
  <2> QED BY <1>1, <1>5, <1>7, <1>9, <1>10, <1>11, <2>1, <2>2, QuietSolo
<1>13. /\ \A b \in Actors : local'[Home[b]] = x
       /\ \A m \in Machines : \/ local'[m] = local[m]
                              \/ \E b \in Actors : Home[b] = m
  BY <1>1, <1>8
<1>14. Solo(x, clock') /\ Ledger.events \subseteq x.events
  BY <1>3, <1>5, <1>12 DEF h
<1>15. \A q \in x.events : q.type = "claim.made" => q \in Ledger.events
  BY <1>5 DEF h
<1> QED BY <1>3, <1>13, <1>14, <1>15, SoloMoves

\* A report, with outcome done only of a confirmed attempt.
LEMMA RunAlone ==
    ASSUME FleetInv, FleetInv', SoloInv, ~ HasRemote, Now <= Last,
           NEW a \in Actors, NEW t \in Tasks, NEW outcome,
           NEW now \in Nat, NEW c \in Closable(View(Ledger, now), t, a),
           RecordRun(a, t, c, outcome),
           outcome = "done" => Sealed(Ledger, a, t),
           world' = world, remote' = remote, told' = told,
           \A b \in Actors : gate'[b] = gate[b] \/ gate'[b].stage = "idle"
    PROVE  SoloInv'
<1> DEFINE h == Ledger
           e == [id |-> Now, type |-> "run.finished", task |-> t,
                 actor |-> a, outcome |-> outcome, claim |-> c]
           L == h.leases
<1>1. /\ h = local[Home[a]] /\ Whole(h, clock, TTL) /\ Solo(h, clock)
      /\ clock \in Nat
  BY SoloAtHand
<1>2. /\ clock' = Now
      /\ local' = [local EXCEPT ![Home[a]] = With(@, e, L)]
  BY <1>1 DEF RecordRun, Write
<1>3. Now \in Nat
  BY <1>1 DEF Now
<1>4. Certifying(h, e)
  <2>1. Newest(h, Fold(h.events, Expiries(h)))
    BY <1>1 DEF Solo
  <2>2. outcome = "done" =>
           \E f \in h.events : f.type = "claim.confirmed" /\ f.claim = c
    BY <1>1, <1>3, <2>1, SealedCloses
  <2> QED BY <2>2 DEF Certifying
<1>5. Plainly(h, e, Now) /\ e.id = Now
  BY <1>4 DEF Plainly, IsEnd
<1>6. Shorter(h, L, clock)
  BY DEF Shorter
<1>7. \A b \in Actors : gate'[b] = gate[b] \/ Sits(b, gate', With(h, e, L))
  BY DEF Sits
<1> HIDE DEF e, L
<1> QED BY <1>2, <1>5, <1>6, <1>7, SoloWrite

LEMMA FinishAlone ==
    ASSUME FleetInv, FleetInv', SoloInv, ~ HasRemote,
           NEW a \in Actors, NEW t \in Tasks,
           FinishFailed(a, t) \/ FinishSettled(a, t)
    PROVE  SoloInv'
<1> DEFINE s == View(Ledger, Now)
<1>1. /\ Ledger = local[Home[a]] /\ Whole(Ledger, clock, TTL)
      /\ clock \in Nat
  BY SoloAtHand
<1>2. Now \in Nat
  BY <1>1 DEF Now
<1>3. /\ Now <= Last /\ world' = world /\ remote' = remote /\ told' = told
      /\ gate' = gate
  BY DEF FinishFailed, FinishSettled
<1>4. CASE FinishFailed(a, t)
  <2>1. PICK c \in Closable(s, t, a) :
           RecordRun(a, t, c, IF s.claims[c].status = "voided"
                              THEN "superseded" ELSE "failed")
    BY <1>1, <1>4 DEF FinishFailed
  <2>2. PICK outcome : /\ outcome # "done"
                       /\ RecordRun(a, t, c, outcome)
    BY <2>1
  <2> QED BY <1>2, <1>3, <2>2, RunAlone
<1>5. CASE FinishSettled(a, t)
  <2>1. PICK c \in Closable(s, t, a) :
           RecordRun(a, t, c, IF Judge(s, t, a) = "confirmed"
                              THEN "done" ELSE "superseded")
    BY <1>1, <1>5 DEF FinishSettled
  <2>2. PICK outcome : /\ outcome = "done" => Judge(s, t, a) = "confirmed"
                       /\ RecordRun(a, t, c, outcome)
    BY <2>1
  <2>3. outcome = "done" => Sealed(Ledger, a, t)
    BY <1>1, <1>2, <2>2, JudgedSealed
  <2> QED BY <1>2, <1>3, <2>2, <2>3, RunAlone
<1> QED BY <1>4, <1>5

LEMMA ConfirmSettledAlone ==
    ASSUME FleetInv, FleetInv', SoloInv, ~ HasRemote,
           NEW a \in Actors, NEW t \in Tasks, ConfirmSettled(a, t)
    PROVE  SoloInv'
<1>1. /\ Ledger = local[Home[a]] /\ Whole(Ledger, clock, TTL)
      /\ clock \in Nat
  BY SoloAtHand
<1>2. /\ Judge(View(Ledger, clock), t, a) = "confirmed"
      /\ told' = told \cup {LatestClaim(View(Ledger, clock), t, a)}
      /\ UNCHANGED <<world, clock, local, remote, gate>>
  BY <1>1 DEF ConfirmSettled
<1>3. Promise(LatestClaim(View(Ledger, clock), t, a), Ledger)
  BY <1>1, <1>2, JudgedSealed
<1> QED BY <1>2, <1>3, SoloStill

LEMMA GateStillAlone ==
    ASSUME FleetInv, FleetInv', SoloInv, ~ HasRemote, NEW a \in Actors,
           \/ \E t \in Tasks, finishing \in BOOLEAN :
                 EnterGate(a, t, finishing)
           \/ GateRefuse(a)
    PROVE  SoloInv'
<1>1. PICK g : /\ gate' = [gate EXCEPT ![a] = g]
               /\ g.stage \in {"judge", "idle"}
               /\ UNCHANGED <<world, clock, local, remote, told>>
  BY DEF EnterGate, GateRefuse, Idle
<1>2. DOMAIN gate = Actors
  BY AtHand
<1>3. \A b \in Actors : gate'[b] = gate[b] \/ Sits(b, gate', Ledger)
  BY <1>1, <1>2 DEF Sits
<1> QED BY <1>1, <1>3, SoloStill

\* What an answer leaves.
LEMMA AnswerLeaves ==
    ASSUME DOMAIN gate = Actors, NEW a \in Actors, NEW verdict, NEW c,
           Answer(a, verdict, c)
    PROVE  /\ \A b \in Actors \ {a} : gate'[b] = gate[b]
           /\ \/ gate'[a].stage = "idle"
              \/ gate'[a].task = gate[a].task /\ gate'[a].verdict = verdict
           /\ told' \subseteq told \cup {c}
           /\ verdict # "confirmed" => told' = told
<1>1. /\ \A b \in Actors \ {a} : gate'[b] = gate[b]
      /\ \/ gate'[a].stage = "idle"
         \/ gate'[a].task = gate[a].task /\ gate'[a].verdict = verdict
  <2>1. CASE gate[a].finishing
    <3> DEFINE r == [stage |-> "record", task |-> gate[a].task,
                     verdict |-> verdict]
    <3>1. gate' = [gate EXCEPT ![a] = r]
      BY <2>1 DEF Answer
    <3>2. r.task = gate[a].task /\ r.verdict = verdict
      OBVIOUS
    <3> HIDE DEF r
    <3> QED BY <3>1, <3>2
  <2>2. CASE ~ gate[a].finishing
    <3>1. gate' = [gate EXCEPT ![a] = Idle]
      BY <2>2 DEF Answer
    <3>2. Idle.stage = "idle"
      BY DEF Idle
    <3> QED BY <3>1, <3>2
  <2> QED BY <2>1, <2>2
<1>2. /\ told' \subseteq told \cup {c}
      /\ verdict # "confirmed" => told' = told
  BY DEF Answer
<1> QED BY <1>1, <1>2

\* confirmLocally, whichever way it goes.
LEMMA ConfirmLocallyAlone ==
    ASSUME FleetInv, FleetInv', SoloInv, NEW a \in Actors, ConfirmLocally(a)
    PROVE  SoloInv'
<1>0. PICK now \in Judgings :
         LET w == View(local[Home[a]], now)
         IN  \/ Judged(a, w) /\ local' = local
             \/ /\ Judge(w, gate[a].task, a) = "proceed" /\ Now <= Last
                /\ Write(Home[a], Confirmation(a, w), local[Home[a]].leases)
                /\ Answer(a, "confirmed", LatestClaim(w, gate[a].task, a))
  BY DEF ConfirmLocally
<1> DEFINE h == Ledger
           t == gate[a].task
           v == View(h, now)
           c == LatestClaim(v, t, a)
<1>1. ~ HasRemote /\ world' = world /\ remote' = remote
      /\ gate[a].stage = "judge"
  BY DEF ConfirmLocally
<1>2. /\ h = local[Home[a]] /\ Whole(h, clock, TTL) /\ clock \in Nat
      /\ DOMAIN gate = Actors
  BY <1>1, SoloAtHand, AtHand
<1>3. now \in Nat
  BY JudgingsAreNat
<1>5. CASE Judged(a, v) /\ local' = local
  <2>1. /\ clock' = clock
        /\ told' \subseteq told \cup {c}
        /\ Judge(v, t, a) # "confirmed" => told' = told
        /\ \/ gate'[a].stage = "idle"
           \/ gate'[a].task = t /\ gate'[a].verdict = Judge(v, t, a)
        /\ \A b \in Actors \ {a} : gate'[b] = gate[b]
    <3>1. CASE /\ gate' = [gate EXCEPT ![a] = Idle]
               /\ UNCHANGED <<clock, told>>
      <4>1. gate'[a] = Idle /\ \A b \in Actors \ {a} : gate'[b] = gate[b]
        BY <1>2, <3>1
      <4>2. gate'[a].stage = "idle"
        BY <4>1 DEF Idle
      <4>3. clock' = clock /\ told' = told
        BY <3>1
      <4> HIDE DEF v, c, t
      <4> QED BY <4>1, <4>2, <4>3
    <3>2. CASE Answer(a, Judge(v, t, a), c) /\ clock' = clock
      <4> HIDE DEF v, c
      <4> QED BY <1>2, <3>2, AnswerLeaves
    <3> QED BY <1>5, <3>1, <3>2 DEF Judged
  <2>2. Judge(v, t, a) = "confirmed" => Sealed(h, a, t) /\ Promise(c, h)
    BY <1>2, <1>3, JudgedSealed
  <2> HIDE DEF v, c, t
  <2>3. \A d \in told' : d \in told \/ Promise(d, Ledger)
    BY <2>1, <2>2
  <2>4. \A b \in Actors : gate'[b] = gate[b] \/ Sits(b, gate', Ledger)
    BY <2>1, <2>2 DEF Sits
  <2> QED BY <1>1, <1>5, <2>1, <2>3, <2>4, SoloStill
<1>6. CASE /\ Now <= Last
           /\ Write(Home[a], Confirmation(a, v), h.leases)
           /\ Answer(a, "confirmed", c)
  <2> DEFINE e == Confirmation(a, v)
             L == h.leases
             x == With(h, e, L)
  <2>1. /\ clock' = Now
        /\ local' = [local EXCEPT ![Home[a]] = With(@, e, L)]
    BY <1>6 DEF Write
  <2>2. /\ e.type = "claim.confirmed" /\ e.id = Now /\ e.task = t
        /\ e.actor = a /\ e.claim = c
    BY DEF Confirmation
  <2> HIDE DEF e
  <2>3. Plainly(h, e, Now) /\ Shorter(h, L, clock)
    BY <2>2 DEF Plainly, Shorter
  <2>4. x.events = h.events \cup {e}
    BY DEF With
  <2>9. /\ \A b \in Actors \ {a} : gate'[b] = gate[b]
        /\ gate'[a].stage = "idle" \/ gate'[a].task = t
        /\ told' \subseteq told \cup {c}
    <3> HIDE DEF c
    <3> QED BY <1>2, <1>6, AnswerLeaves
  <2>5. told' \subseteq told \cup {e.claim}
    BY <2>2, <2>9
  <2> HIDE DEF x, t
  <2>6. Sealed(x, a, t)
    BY <1>2, <1>3, <2>2, <2>4, ConfirmedSealed
  <2> HIDE DEF c
  <2>7. \A b \in Actors : gate'[b] = gate[b] \/ Sits(b, gate', x)
    BY <2>6, <2>9 DEF Sits
  <2>8. x = With(Ledger, e, L)
    BY DEF x
  <2> HIDE DEF L, h
  <2> QED BY <1>1, <1>6, <2>1, <2>2, <2>3, <2>5, <2>7, <2>8, SoloWrite
         DEF h
<1> QED BY <1>0, <1>2, <1>5, <1>6

LEMMA GateRecordAlone ==
    ASSUME FleetInv, FleetInv', SoloInv, ~ HasRemote,
           NEW a \in Actors, GateRecord(a)
    PROVE  SoloInv'
<1>0. PICK now \in Judgings :
         LET u == gate[a].task
             w == View(local[Home[a]], now)
             x == IF gate[a].verdict = "confirmed" THEN "done"
                  ELSE "superseded"
         IN  \/ clock' = clock /\ local' = local
             \/ \E c \in Closable(w, u, a) : RecordRun(a, u, c, x)
  BY DEF GateRecord
<1> DEFINE h == Ledger
           t == gate[a].task
           v == View(h, now)
<1>1. /\ world' = world /\ remote' = remote /\ told' = told /\ Now <= Last
      /\ gate[a].stage = "record" /\ gate' = [gate EXCEPT ![a] = Idle]
  BY DEF GateRecord
<1>2. /\ h = local[Home[a]] /\ Whole(h, clock, TTL) /\ clock \in Nat
      /\ DOMAIN gate = Actors
  BY SoloAtHand, AtHand
<1>3. now \in Nat
  BY JudgingsAreNat
<1>4. \A b \in Actors : gate'[b] = gate[b] \/ gate'[b].stage = "idle"
  BY <1>1, <1>2 DEF Idle
<1>5. CASE clock' = clock /\ local' = local
  BY <1>1, <1>4, <1>5, SoloStill DEF Sits
<1>6. CASE \E c \in Closable(v, t, a) :
              RecordRun(a, t, c, IF gate[a].verdict = "confirmed"
                                 THEN "done" ELSE "superseded")
  <2> DEFINE outcome == IF gate[a].verdict = "confirmed"
                        THEN "done" ELSE "superseded"
  <2>1. PICK c \in Closable(v, t, a) : RecordRun(a, t, c, outcome)
    BY <1>6
  <2>2. outcome = "done" => Sealed(h, a, t)
    <3>1. Sits(a, gate, h)
      BY DEF SoloInv
    <3> QED BY <1>1, <3>1 DEF Sits
  <2> HIDE DEF outcome
  <2>3. t \in Tasks
    <3>1. /\ c \in DOMAIN v.claims /\ v.claims[c].task = t
          /\ v.claims[c].actor = a
      <4>1. Agree(h, h)
        BY AtHand, LedgerFacts DEF HeadsFit
      <4> QED BY <1>2, <1>3, <4>1, ClosableIsUnreported
    <3> HIDE DEF t
    <3> QED BY <1>2, <1>3, <3>1, ViewedClaim
  <2> HIDE DEF t
  <2> QED BY <1>1, <1>4, <2>1, <2>2, <2>3, <1>3, RunAlone
<1> QED BY <1>0, <1>2, <1>5, <1>6

LEMMA SoloNext ==
    FleetInv /\ FirstsInv /\ SoloInv /\ FleetInv' /\ [Next]_vars => SoloInv'
<1> SUFFICES ASSUME FleetInv, FirstsInv, SoloInv, FleetInv', [Next]_vars
             PROVE  SoloInv'
  OBVIOUS
<1>1. world' = world
  BY WorldStays
<1>2. HasRemote' = HasRemote
  BY <1>1 DEF HasRemote
<1> SUFFICES ASSUME ~ HasRemote
             PROVE  SoloInv'
  BY <1>2 DEF SoloInv
<1>3. CASE Wait \/ UNCHANGED vars
  <2>1. /\ local' = local /\ remote' = remote /\ gate' = gate /\ told' = told
        /\ clock' \in {clock, Now}
    BY <1>3 DEF Wait, vars
  <2> QED BY <1>1, <2>1, SoloStill
<1>4. ASSUME NEW a \in Actors, NEW t \in Tasks,
             \/ Claim(a, t) \/ Release(a, t) \/ Renew(a, t)
             \/ FinishFailed(a, t) \/ FinishSettled(a, t)
             \/ ConfirmSettled(a, t)
             \/ \E finishing \in BOOLEAN : EnterGate(a, t, finishing)
      PROVE  SoloInv'
  BY <1>4, ClaimAlone, ReleaseAlone, RenewAlone, FinishAlone,
     ConfirmSettledAlone, GateStillAlone
<1>5. ASSUME NEW a \in Actors,
             \/ GateJudge(a) \/ GatePush(a) \/ GateRetry(a) \/ GateRefuse(a)
             \/ ConfirmLocally(a) \/ GateRecord(a)
      PROVE  SoloInv'
  <2>1. gate[a].stage # "push"
    BY DEF FirstsInv, Promised
  <2>2. ~ GateJudge(a) /\ ~ GatePush(a) /\ ~ GateRetry(a)
    BY <2>1 DEF GateJudge, GatePush, GateRetry
  <2> QED BY <1>5, <2>2, GateStillAlone, ConfirmLocallyAlone,
             GateRecordAlone
<1>6. ASSUME NEW m \in Machines, Pull(m) \/ Push(m)
      PROVE  SoloInv'
  BY <1>6 DEF Pull, Push
<1> QED BY <1>3, <1>4, <1>5, <1>6 DEF Next

LEMMA BlankSolo ==
    ASSUME NEW h, NEW n \in Nat, NEW ttl, Whole(h, n, ttl), Blank(h)
    PROVE  Solo(h, n)
<1> DEFINE s == Fold(h.events, Expiries(h))
<1>1. /\ \A t \in Tasks : s.holder[t] # None => s.holder[t] \in DOMAIN s.claims
      /\ \A c \in DOMAIN s.claims :
            \E q \in h.events : IsClaim(q, s.claims[c].task)
  BY HeadClaims
<1> HIDE DEF s
<1>2. DOMAIN s.claims = {}
  BY <1>1 DEF Blank, IsClaim
<1>3. Newest(h, s) /\ Spent(h, s, n)
  BY <1>1, <1>2 DEF Newest, Spent
<1>4. Apart(h) /\ Certified(h, h)
  BY DEF Apart, Certified, Blank, IsClaim
<1> QED BY <1>3, <1>4 DEF Solo, s

LEMMA SoloInit == Init => SoloInv
<1> SUFFICES ASSUME Init, ~ HasRemote
             PROVE  SoloInv
  BY DEF SoloInv
<1> DEFINE h == FirstHead
<1>1. FleetInv
  BY FleetInit
<1>2. /\ local = [m \in Machines |-> h] /\ remote = h
      /\ gate = [a \in Actors |-> Idle] /\ told = {}
  BY DEF Init
<1>3. Blank(h)
  BY DEF FirstHead, Blank
<1> HIDE DEF h
<1>4. /\ Whole(remote, clock, TTL) /\ clock \in Nat
      /\ Home \in [Actors -> Machines]
  BY <1>1, AtHand
<1>5. PICK a \in Actors : Ledger = local[Home[a]]
  BY <1>1, LedgerFacts, FleetAssumption
<1>6. Ledger = h
  BY <1>2, <1>4, <1>5
<1>7. Solo(Ledger, clock)
  BY <1>2, <1>3, <1>4, <1>6, BlankSolo
<1>8. \A b \in Actors : Sits(b, gate, Ledger)
  BY <1>2 DEF Sits, Idle
<1> QED BY <1>2, <1>3, <1>7, <1>8 DEF SoloInv

\* What all that makes of a promise on a single machine.
LEMMA SoloHolds ==
    ASSUME FleetInv, SoloInv, ~ HasRemote
    PROVE  EveryWinnerStands
<1> DEFINE g == Ledger
           s == Fold(g.events, Expiries(g))
<1>1. PICK a \in Actors : TRUE
  BY FleetAssumption
<1>2. /\ g = local[Home[a]] /\ Whole(g, clock, TTL) /\ Solo(g, clock)
      /\ clock \in Nat /\ \A b \in Actors : Home[b] = Home[a]
  BY SoloAtHand
<1>3. /\ Spent(g, s, clock) /\ Apart(g) /\ Certified(g, g)
  BY <1>2 DEF Solo
<1>4. /\ Blank(remote)
      /\ \A m \in Machines :
            (\E b \in Actors : Home[b] = m) \/ Blank(local[m])
      /\ \A c \in told : Promise(c, g)
  BY DEF SoloInv
<1> HIDE DEF g
<1>5. /\ \A c \in DOMAIN s.claims :
            \E q \in g.events :
               /\ IsClaim(q, s.claims[c].task) /\ q.id = c
               /\ q.actor = s.claims[c].actor
      /\ \A q \in g.events : q.type = "claim.made" => q.id \in DOMAIN s.claims
  <2>1. s = Fold(g.events, Expiries(g))
    OBVIOUS
  <2> HIDE DEF s
  <2>2. \A c \in DOMAIN s.claims :
           \E q \in g.events :
              /\ IsClaim(q, s.claims[c].task) /\ q.id = c
              /\ q.actor = s.claims[c].actor
    <3>1. Whole(g, clock, TTL) /\ clock \in Nat
      BY <1>2
    <3>2. Traced(g.events, MaxId, s)
      BY <2>1, <3>1, HeadFolds DEF FoldInv
    <3> QED BY <3>2 DEF Traced, IsClaim
  <2>3. \A q \in g.events :
           q.type = "claim.made" => q.id \in DOMAIN s.claims
    BY <1>2, <2>1, HeadClaims
  <2> QED BY <2>2, <2>3
<1> HIDE DEF s
<1>6. \A h \in Heads : h = g \/ Blank(h)
  BY <1>2, <1>4 DEF Heads
<1>7. ToldIsNeverVoided
  <2> SUFFICES ASSUME NEW c \in told
               PROVE  /\ Promise(c, g)
                      /\ \A h \in Heads :
                            Promise(c, h) =>
                               Fold(h.events, Expiries(h)).claims[c].status
                                  # "voided"
    BY DEF ToldIsNeverVoided, Promise, g
  <2>1. Promise(c, g)
    BY <1>4
  <2>2. PICK e \in g.events : e.type = "claim.confirmed" /\ e.claim = c
    BY <2>1 DEF Promise
  <2>3. PICK p \in g.events : p.type = "claim.made" /\ p.id = c
    BY <1>2, <2>2 DEF Whole, NamesClaims
  <2>4. s.claims[c].status # "voided"
    BY <1>3, <1>5, <2>3 DEF Spent
  <2>5. \A h \in Heads : Promise(c, h) => h = g
    BY <1>6 DEF Promise, Blank
  <2> QED BY <2>1, <2>4, <2>5 DEF s
<1>8. MergePermissionIsExclusive
  <2> SUFFICES ASSUME NEW c \in told, NEW d \in told,
                      c \in DOMAIN s.claims, d \in DOMAIN s.claims, c < d,
                      s.claims[c].task = s.claims[d].task
               PROVE  \/ g.leases[c].exp <= IDTime(d)
                      \/ \E e \in g.events :
                            /\ e.id \in c .. d
                            /\ e.task = s.claims[c].task
                            /\ e.actor = s.claims[c].actor
                            /\ e.type \in {"claim.released", "run.finished"}
    BY DEF MergePermissionIsExclusive, g, s
  <2>1. PICK p \in g.events : /\ IsClaim(p, s.claims[c].task) /\ p.id = c
                              /\ p.actor = s.claims[c].actor
    BY <1>5
  <2>2. PICK q \in g.events : IsClaim(q, s.claims[d].task) /\ q.id = d
    BY <1>5
  <2>3. Over(g, c, p.task, p.actor, d)
    <3>1. IsClaim(p, q.task) /\ q.type = "claim.made" /\ p.id < q.id
      BY <2>1, <2>2 DEF IsClaim
    <3> QED BY <1>3, <2>1, <2>2, <3>1 DEF Apart
  <2>4. c \in Nat /\ d \in Nat /\ \A e \in g.events : e.id \in Nat
    BY <1>2, <2>1, <2>2, WholeIds
  <2>5. CASE g.leases[c].exp <= d
    <3>1. IDTime(d) = d
      BY <2>4, FleetAssumption DEF IDTime
    <3> QED BY <2>5, <3>1
  <2>6. CASE \E x \in g.events :
                /\ EndsOf(x, p.actor, p.task) /\ c <= x.id /\ x.id <= d
    <3>1. PICK x \in g.events :
             /\ EndsOf(x, p.actor, p.task) /\ c <= x.id /\ x.id <= d
      BY <2>6
    <3>2. x.id \in c .. d
      BY <2>4, <3>1
    <3>3. /\ x.task = s.claims[c].task /\ x.actor = s.claims[c].actor
          /\ x.type \in {"claim.released", "run.finished"}
      BY <2>1, <3>1 DEF EndsOf, IsEnd, IsClaim
    <3> QED BY <3>2, <3>3
  <2> QED BY <2>3, <2>5, <2>6 DEF Over
<1>9. DoneIsCertified
  <2> SUFFICES ASSUME NEW h \in Heads, NEW r \in h.events,
                      r.type = "run.finished", r.outcome = "done"
               PROVE  \E e \in h.events \cup remote.events :
                         /\ e.type = "claim.confirmed"
                         /\ e.claim = r.claim /\ e.id < r.id
    BY DEF DoneIsCertified
  <2>1. h = g
    BY <1>6 DEF Blank
  <2> QED BY <1>3, <2>1 DEF Certified
<1>10. \A h \in Heads : \A e \in h.events :
          e.type = "claim.confirmed" => e \in g.events
  BY <1>6 DEF Blank
<1> QED BY <1>7, <1>8, <1>9, <1>10 DEF EveryWinnerStands, g

\* A single machine, and two that meet over a remote where attempts end in a
\* done run or a loss and leases outlast them: every winner, and not only the
\* first one of a task, keeps what it was promised.  Its confirmation is never
\* refused by a merge, no head that has it counts the claim among the losers,
\* two winners of a task are never at work at the same time, and every done
\* run names a claim that an earlier confirmation names.
THEOREM WinnersStand == Spec => []EveryWinnerStands
<1> DEFINE I == FleetInv /\ FirstsInv /\ FairInv /\ PairInv /\ SoloInv
<1>1. Init => I
  BY FleetInit, FirstsInit, FairInit, PairInit, SoloInit
<1>2. I /\ [Next]_vars => I'
  <2> SUFFICES ASSUME I, [Next]_vars
               PROVE  I'
    OBVIOUS
  <2>1. FleetInv'
    BY FleetNext DEF Kept
  <2>2. FirstsInv'
    BY <2>1, FirstsNext DEF FirstsKept
  <2>3. FairInv' /\ PairInv' /\ SoloInv'
    BY <2>1, <2>2, FairNext, PairNext, SoloNext
  <2> QED BY <2>1, <2>2, <2>3
<1>3. I => EveryWinnerStands
  BY PairHolds, SoloHolds
<1> QED BY <1>1, <1>2, <1>3, PTL DEF Spec
=============================================================================
