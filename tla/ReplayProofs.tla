---------------------------- MODULE ReplayProofs ----------------------------
(***************************************************************************)
(* What holds of the replay of every ledger: proofs about ReplayLoop.      *)
(*                                                                         *)
(* Verdicts is the heart of the inductive invariant.  It speaks of the     *)
(* claims, the working set that names a holder per task, and the contests. *)
(* Five lemmas show that it survives the five things an event can do to    *)
(* them: open a contest, join one, end a hold, confirm the holder, and     *)
(* confirm a loser over it.  The theorems follow by cases on the event.    *)
(* The second part takes the same steps as moves of the contests.          *)
(***************************************************************************)
EXTENDS ReplayLoop, FoldProofs

Verdicts(cs, h, ct) ==
    /\ IsMap(cs, Ids, ClaimRecord)
    /\ h \in [Tasks -> Ids \cup {None}]
    /\ ct \in [Tasks -> SUBSET Ids]
    /\ \A t \in Tasks : h[t] # None =>
          h[t] \in DOMAIN cs /\ cs[h[t]].task = t /\ cs[h[t]].status = "active"
    /\ \A c \in DOMAIN cs : cs[c].status = "active" => h[cs[c].task] = c
    /\ \A c \in DOMAIN cs : cs[c].confirmation # None => cs[c].status # "voided"
    /\ \A t \in Tasks : h[t] = None => ct[t] = {}
    /\ \A t \in Tasks : h[t] # None =>
          /\ h[t] \in ct[t]
          /\ \A c \in ct[t] : /\ c \in DOMAIN cs
                              /\ cs[c].task = t
                              /\ c # h[t] => cs[c].status = "voided"
    /\ \A t \in Tasks : h[t] # None /\ cs[h[t]].confirmation = None =>
          \A c \in ct[t] : h[t] <= c

-----------------------------------------------------------------------------
\* A claim with a new id that takes a free task opens its contest.
LEMMA OpenKeeps ==
    ASSUME NEW cs, NEW h, NEW ct, Verdicts(cs, h, ct),
           NEW e, e.task \in Tasks, e.actor \in Actors,
           e.id \in Ids, e.id \notin DOMAIN cs, h[e.task] = None
    PROVE  Verdicts(Put(cs, e.id, NewClaim(e, "active")),
                    [h EXCEPT ![e.task] = e.id],
                    [ct EXCEPT ![e.task] = {e.id}])
<1> DEFINE new == NewClaim(e, "active")
           n  == Put(cs, e.id, new)
           k  == [h EXCEPT ![e.task] = e.id]
           kt == [ct EXCEPT ![e.task] = {e.id}]
<1>a. /\ new \in ClaimRecord /\ new.task = e.task
      /\ new.status = "active" /\ new.confirmation = None
  BY NewClaimFacts
<1> HIDE DEF new
<1>1. IsMap(n, Ids, ClaimRecord)
  BY <1>a, PutIsMap DEF Verdicts
<1>b. /\ DOMAIN n = DOMAIN cs \cup {e.id}
      /\ n[e.id] = new
      /\ \A x \in DOMAIN cs \ {e.id} : n[x] = cs[x]
  BY DEF Put
<1> HIDE DEF n
<1>2. /\ DOMAIN n = DOMAIN cs \cup {e.id}
      /\ \A c \in DOMAIN cs : c # e.id /\ n[c] = cs[c]
      /\ n[e.id].task = e.task /\ n[e.id].status = "active"
      /\ n[e.id].confirmation = None
  BY <1>a, <1>b
<1>3. /\ k \in [Tasks -> Ids \cup {None}] /\ kt \in [Tasks -> SUBSET Ids]
      /\ k[e.task] = e.id /\ kt[e.task] = {e.id}
      /\ \A t \in Tasks \ {e.task} : k[t] = h[t] /\ kt[t] = ct[t]
      /\ e.id # None /\ e.id \in Int
  BY DEF Verdicts, Ids, None
<1>4. \A c \in DOMAIN cs : cs[c].task \in Tasks /\ c # None
  BY DEF Verdicts, IsMap, ClaimRecord, Ids, None
<1> HIDE DEF n, k, kt
<1>5. \A t \in Tasks : k[t] # None =>
        k[t] \in DOMAIN n /\ n[k[t]].task = t /\ n[k[t]].status = "active"
  BY <1>2, <1>3 DEF Verdicts
<1>6. \A c \in DOMAIN n : n[c].status = "active" => k[n[c].task] = c
  BY <1>2, <1>3, <1>4 DEF Verdicts
<1>7. \A c \in DOMAIN n : n[c].confirmation # None => n[c].status # "voided"
  BY <1>2 DEF Verdicts
<1>8. \A t \in Tasks : k[t] = None => kt[t] = {}
  BY <1>3 DEF Verdicts
<1>9. \A t \in Tasks : k[t] # None =>
        /\ k[t] \in kt[t]
        /\ \A c \in kt[t] : /\ c \in DOMAIN n
                            /\ n[c].task = t
                            /\ c # k[t] => n[c].status = "voided"
  BY <1>2, <1>3 DEF Verdicts
<1>10. \A t \in Tasks : k[t] # None /\ n[k[t]].confirmation = None =>
          \A c \in kt[t] : k[t] <= c
  BY <1>2, <1>3 DEF Verdicts
<1>11. Verdicts(n, k, kt)
  BY <1>1, <1>3, <1>5, <1>6, <1>7, <1>8, <1>9, <1>10 DEF Verdicts
<1> QED BY <1>11 DEF n, k, kt, new

\* A claim with the latest id that meets a live holder loses: it joins the
\* contest.
LEMMA JoinKeeps ==
    ASSUME NEW cs, NEW h, NEW ct, Verdicts(cs, h, ct),
           NEW e, e.task \in Tasks, e.actor \in Actors,
           e.id \in Ids, \A c \in DOMAIN cs : c < e.id, h[e.task] # None
    PROVE  Verdicts(Put(cs, e.id, NewClaim(e, "voided")), h,
                    [ct EXCEPT ![e.task] = @ \cup {e.id}])
<1> DEFINE new == NewClaim(e, "voided")
           n  == Put(cs, e.id, new)
           k  == h
           kt == [ct EXCEPT ![e.task] = @ \cup {e.id}]
<1>a. /\ new \in ClaimRecord /\ new.task = e.task
      /\ new.status = "voided" /\ new.confirmation = None
  BY NewClaimFacts
<1> HIDE DEF new
<1>1. IsMap(n, Ids, ClaimRecord)
  BY <1>a, PutIsMap DEF Verdicts
<1>b. /\ DOMAIN n = DOMAIN cs \cup {e.id}
      /\ n[e.id] = new
      /\ \A x \in DOMAIN cs \ {e.id} : n[x] = cs[x]
  BY DEF Put
<1> HIDE DEF n
<1>c. /\ e.id # None /\ e.id \in Int
      /\ DOMAIN cs \subseteq Int
      /\ \A c \in DOMAIN cs : c # e.id /\ c <= e.id
  BY DEF Verdicts, IsMap, Ids, None
<1>2. /\ DOMAIN n = DOMAIN cs \cup {e.id}
      /\ \A c \in DOMAIN cs : c # e.id /\ n[c] = cs[c]
      /\ n[e.id].task = e.task /\ n[e.id].status = "voided"
      /\ n[e.id].confirmation = None
  BY <1>a, <1>b, <1>c
<1>3. /\ k \in [Tasks -> Ids \cup {None}] /\ kt \in [Tasks -> SUBSET Ids]
      /\ k[e.task] = h[e.task] /\ kt[e.task] = ct[e.task] \cup {e.id}
      /\ \A t \in Tasks : k[t] = h[t]
      /\ \A t \in Tasks \ {e.task} : kt[t] = ct[t]
      /\ k[e.task] \in DOMAIN cs
  BY DEF Verdicts
<1>4. \A c \in DOMAIN cs : cs[c].task \in Tasks
  BY DEF Verdicts, IsMap, ClaimRecord
<1> HIDE DEF k, kt
<1>5. \A t \in Tasks : k[t] # None =>
        k[t] \in DOMAIN n /\ n[k[t]].task = t /\ n[k[t]].status = "active"
  BY <1>2, <1>3, <1>4, <1>c DEF Verdicts
<1>6. \A c \in DOMAIN n : n[c].status = "active" => k[n[c].task] = c
  BY <1>2, <1>3, <1>4, <1>c DEF Verdicts
<1>7. \A c \in DOMAIN n : n[c].confirmation # None => n[c].status # "voided"
  BY <1>2, <1>3, <1>4, <1>c DEF Verdicts
<1>8. \A t \in Tasks : k[t] = None => kt[t] = {}
  BY <1>2, <1>3, <1>4, <1>c DEF Verdicts
<1>9. \A t \in Tasks : k[t] # None =>
        /\ k[t] \in kt[t]
        /\ \A c \in kt[t] : /\ c \in DOMAIN n
                            /\ n[c].task = t
                            /\ c # k[t] => n[c].status = "voided"
  BY <1>2, <1>3, <1>4, <1>c DEF Verdicts
<1>10. \A t \in Tasks : k[t] # None /\ n[k[t]].confirmation = None =>
          \A c \in kt[t] : k[t] <= c
  BY <1>2, <1>3, <1>4, <1>c DEF Verdicts
<1>11. Verdicts(n, k, kt)
  BY <1>1, <1>3, <1>5, <1>6, <1>7, <1>8, <1>9, <1>10 DEF Verdicts
<1> QED BY <1>11 DEF n, k, kt, new

\* The end of a hold closes its contest.
LEMMA EndKeeps ==
    ASSUME NEW cs, NEW h, NEW ct, Verdicts(cs, h, ct),
           NEW x \in {"released", "finished", "expired"},
           NEW u \in Tasks, h[u] # None
    PROVE  Verdicts([cs EXCEPT ![h[u]].status = x],
                    [h EXCEPT ![u] = None],
                    [ct EXCEPT ![u] = {}])
<1> DEFINE n  == [cs EXCEPT ![h[u]].status = x]
           k  == [h EXCEPT ![u] = None]
           kt == [ct EXCEPT ![u] = {}]
<1>a. h[u] \in DOMAIN cs /\ cs[h[u]] \in ClaimRecord
  BY DEF Verdicts, IsMap
<1>b. [cs[h[u]] EXCEPT !.status = x] \in ClaimRecord
  BY <1>a DEF ClaimRecord, ClaimStatus
<1>1. IsMap(n, Ids, ClaimRecord)
  BY <1>a, <1>b DEF Verdicts, IsMap
<1>2. /\ DOMAIN n = DOMAIN cs
      /\ \A c \in DOMAIN cs \ {h[u]} : n[c] = cs[c]
      /\ n[h[u]].task = cs[h[u]].task /\ n[h[u]].status = x
      /\ n[h[u]].confirmation = cs[h[u]].confirmation
      /\ h[u] \in DOMAIN cs /\ cs[h[u]].task = u
  BY <1>a DEF ClaimRecord, Verdicts
<1>3. /\ k \in [Tasks -> Ids \cup {None}] /\ kt \in [Tasks -> SUBSET Ids]
      /\ k[u] = None /\ kt[u] = {}
      /\ \A t \in Tasks \ {u} : k[t] = h[t] /\ kt[t] = ct[t]
  BY DEF Verdicts
<1>4. /\ \A c \in DOMAIN cs : cs[c].task \in Tasks
      /\ \A t \in Tasks \ {u} : k[t] # h[u] \/ k[t] = None
      /\ \A t \in Tasks \ {u} : h[u] \notin kt[t]
  BY <1>2, <1>3 DEF Verdicts, IsMap, ClaimRecord
<1> HIDE DEF n, k, kt
<1>5. \A t \in Tasks : k[t] # None =>
        k[t] \in DOMAIN n /\ n[k[t]].task = t /\ n[k[t]].status = "active"
  BY <1>2, <1>3, <1>4 DEF Verdicts
<1>6. \A c \in DOMAIN n : n[c].status = "active" => k[n[c].task] = c
  BY <1>2, <1>3, <1>4 DEF Verdicts
<1>7. \A c \in DOMAIN n : n[c].confirmation # None => n[c].status # "voided"
  BY <1>2, <1>3, <1>4 DEF Verdicts
<1>8. \A t \in Tasks : k[t] = None => kt[t] = {}
  BY <1>2, <1>3, <1>4 DEF Verdicts
<1>9. \A t \in Tasks : k[t] # None =>
        /\ k[t] \in kt[t]
        /\ \A c \in kt[t] : /\ c \in DOMAIN n
                            /\ n[c].task = t
                            /\ c # k[t] => n[c].status = "voided"
  BY <1>2, <1>3, <1>4 DEF Verdicts
<1>10. \A t \in Tasks : k[t] # None /\ n[k[t]].confirmation = None =>
          \A c \in kt[t] : k[t] <= c
  BY <1>2, <1>3, <1>4 DEF Verdicts
<1>11. Verdicts(n, k, kt)
  BY <1>1, <1>3, <1>5, <1>6, <1>7, <1>8, <1>9, <1>10 DEF Verdicts
<1> QED BY <1>11 DEF n, k, kt

\* Confirming the holder changes no verdict.
LEMMA ConfirmKeeps ==
    ASSUME NEW cs, NEW h, NEW ct, Verdicts(cs, h, ct),
           NEW id \in Ids, NEW u \in Tasks, h[u] # None
    PROVE  Verdicts([cs EXCEPT ![h[u]].confirmation = id], h, ct)
<1> DEFINE n  == [cs EXCEPT ![h[u]].confirmation = id]
           k  == h
           kt == ct
<1>a. h[u] \in DOMAIN cs /\ cs[h[u]] \in ClaimRecord
  BY DEF Verdicts, IsMap
<1>b. [cs[h[u]] EXCEPT !.confirmation = id] \in ClaimRecord
  BY <1>a DEF ClaimRecord
<1>1. IsMap(n, Ids, ClaimRecord)
  BY <1>a, <1>b DEF Verdicts, IsMap
<1>2. /\ DOMAIN n = DOMAIN cs
      /\ \A c \in DOMAIN cs \ {h[u]} : n[c] = cs[c]
      /\ n[h[u]].task = cs[h[u]].task /\ n[h[u]].status = cs[h[u]].status
      /\ n[h[u]].confirmation = id
      /\ h[u] \in DOMAIN cs /\ cs[h[u]].status = "active"
  BY <1>a DEF ClaimRecord, Verdicts
<1>3. /\ k \in [Tasks -> Ids \cup {None}] /\ kt \in [Tasks -> SUBSET Ids]
      /\ k = h /\ kt = ct /\ id # None
  BY DEF Verdicts, Ids, None
<1>4. \A c \in DOMAIN cs : cs[c].task \in Tasks
  BY DEF Verdicts, IsMap, ClaimRecord
<1> HIDE DEF n, k, kt
<1>5. \A t \in Tasks : k[t] # None =>
        k[t] \in DOMAIN n /\ n[k[t]].task = t /\ n[k[t]].status = "active"
  BY <1>2, <1>3, <1>4 DEF Verdicts
<1>6. \A c \in DOMAIN n : n[c].status = "active" => k[n[c].task] = c
  BY <1>2, <1>3, <1>4 DEF Verdicts
<1>7. \A c \in DOMAIN n : n[c].confirmation # None => n[c].status # "voided"
  BY <1>2, <1>3, <1>4 DEF Verdicts
<1>8. \A t \in Tasks : k[t] = None => kt[t] = {}
  BY <1>2, <1>3, <1>4 DEF Verdicts
<1>9. \A t \in Tasks : k[t] # None =>
        /\ k[t] \in kt[t]
        /\ \A c \in kt[t] : /\ c \in DOMAIN n
                            /\ n[c].task = t
                            /\ c # k[t] => n[c].status = "voided"
  BY <1>2, <1>3, <1>4 DEF Verdicts
<1>10. \A t \in Tasks : k[t] # None /\ n[k[t]].confirmation = None =>
          \A c \in kt[t] : k[t] <= c
  BY <1>2, <1>3, <1>4 DEF Verdicts
<1>11. Verdicts(n, k, kt)
  BY <1>1, <1>3, <1>5, <1>6, <1>7, <1>8, <1>9, <1>10 DEF Verdicts
<1> QED BY <1>11 DEF n, k, kt

\* Confirming a loser over an unconfirmed holder swaps the two.
LEMMA StandDownKeeps ==
    ASSUME NEW cs, NEW h, NEW ct, Verdicts(cs, h, ct),
           NEW id \in Ids, NEW u \in Tasks, h[u] # None,
           cs[h[u]].confirmation = None,
           NEW l \in DOMAIN cs, cs[l].task = u, cs[l].status = "voided"
    PROVE  Verdicts([cs EXCEPT ![h[u]].status = "voided",
                               ![l].status = "active",
                               ![l].confirmation = id],
                    [h EXCEPT ![u] = l],
                    [ct EXCEPT ![u] = @ \cup {l}])
<1> DEFINE n  == [cs EXCEPT ![h[u]].status = "voided",
                            ![l].status = "active",
                            ![l].confirmation = id]
           k  == [h EXCEPT ![u] = l]
           kt == [ct EXCEPT ![u] = @ \cup {l}]
<1>a. /\ h[u] \in DOMAIN cs /\ cs[h[u]] \in ClaimRecord
      /\ cs[l] \in ClaimRecord /\ l \in Ids /\ l # None /\ id # None
      /\ cs[h[u]].status = "active" /\ cs[h[u]].task = u /\ l # h[u]
  BY DEF Verdicts, IsMap, Ids, None
<1>b. /\ [cs[h[u]] EXCEPT !.status = "voided"] \in ClaimRecord
      /\ [[cs[l] EXCEPT !.status = "active"] EXCEPT !.confirmation = id]
            \in ClaimRecord
  BY <1>a DEF ClaimRecord, ClaimStatus
<1>c. n = [c \in DOMAIN cs |->
              IF c = h[u] THEN [cs[h[u]] EXCEPT !.status = "voided"]
              ELSE IF c = l THEN [[cs[l] EXCEPT !.status = "active"]
                                     EXCEPT !.confirmation = id]
              ELSE cs[c]]
  BY <1>a
<1> HIDE DEF n
<1>1. IsMap(n, Ids, ClaimRecord)
  BY <1>a, <1>b, <1>c DEF Verdicts, IsMap
<1>2. /\ DOMAIN n = DOMAIN cs
      /\ \A c \in DOMAIN cs \ {h[u], l} : n[c] = cs[c]
      /\ n[h[u]].task = u /\ n[h[u]].status = "voided"
      /\ n[h[u]].confirmation = None
      /\ n[l].task = u /\ n[l].status = "active" /\ n[l].confirmation = id
      /\ h[u] \in DOMAIN cs
  BY <1>a, <1>c DEF ClaimRecord
<1>3. /\ k \in [Tasks -> Ids \cup {None}] /\ kt \in [Tasks -> SUBSET Ids]
      /\ k[u] = l /\ kt[u] = ct[u] \cup {l}
      /\ \A t \in Tasks \ {u} : k[t] = h[t] /\ kt[t] = ct[t]
  BY <1>a DEF Verdicts
<1>4. /\ \A c \in DOMAIN cs : cs[c].task \in Tasks
      /\ \A t \in Tasks \ {u} : k[t] # None => k[t] # h[u] /\ k[t] # l
      /\ \A t \in Tasks \ {u} : k[t] # None => h[u] \notin kt[t] /\ l \notin kt[t]
  BY <1>a, <1>3 DEF Verdicts, IsMap, ClaimRecord
<1> HIDE DEF k, kt
<1>5. \A t \in Tasks : k[t] # None =>
        k[t] \in DOMAIN n /\ n[k[t]].task = t /\ n[k[t]].status = "active"
  BY <1>2, <1>3, <1>4, <1>a DEF Verdicts
<1>6. \A c \in DOMAIN n : n[c].status = "active" => k[n[c].task] = c
  BY <1>2, <1>3, <1>4, <1>a DEF Verdicts
<1>7. \A c \in DOMAIN n : n[c].confirmation # None => n[c].status # "voided"
  BY <1>2, <1>3, <1>4, <1>a DEF Verdicts
<1>8. \A t \in Tasks : k[t] = None => kt[t] = {}
  BY <1>2, <1>3, <1>4, <1>a DEF Verdicts
<1>9. \A t \in Tasks : k[t] # None =>
        /\ k[t] \in kt[t]
        /\ \A c \in kt[t] : /\ c \in DOMAIN n
                            /\ n[c].task = t
                            /\ c # k[t] => n[c].status = "voided"
  BY <1>2, <1>3, <1>4, <1>a DEF Verdicts
<1>10. \A t \in Tasks : k[t] # None /\ n[k[t]].confirmation = None =>
          \A c \in kt[t] : k[t] <= c
  BY <1>2, <1>3, <1>4, <1>a DEF Verdicts
<1>11. Verdicts(n, k, kt)
  BY <1>1, <1>3, <1>5, <1>6, <1>7, <1>8, <1>9, <1>10 DEF Verdicts
<1> QED BY <1>11 DEF n, k, kt

-----------------------------------------------------------------------------
\* The inductive invariant: the types, the verdicts, and that every claim
\* recorded so far has an id the fold has passed.
IInv ==
    /\ TypeOK
    /\ Verdicts(state.claims, state.holder, contest)
    /\ \A c \in DOMAIN state.claims : c <= last

\* What each step shows: the next state is well formed, its verdicts hold,
\* and no claim has an id that is not read yet.
Keeps ==
    /\ IsState(state')
    /\ Verdicts(state'.claims, state'.holder, contest')
    /\ \A c \in DOMAIN state'.claims : c <= last'

\* The history variable follows the holder.
LEMMA ContestFacts ==
    ASSUME IInv, NEW t \in Tasks, NEW id \in Ids
    PROVE  /\ state'.error => NextContest(t, id) = contest[t]
           /\ ~ state'.error /\ state'.holder[t] = None
                 => NextContest(t, id) = {}
           /\ ~ state'.error /\ state'.holder[t] = id /\ id # None
                 => NextContest(t, id) = {id}
           /\ ~ state'.error /\ state'.holder[t] \notin {None, id}
              /\ id \in DOMAIN state'.claims
                 => NextContest(t, id) = contest[t] \cup {id}
           /\ ~ state'.error /\ state'.holder[t] \notin {None, id}
              /\ id \notin DOMAIN state'.claims
                 => NextContest(t, id) = contest[t]
BY DEF NextContest

LEMMA InitInv == ASSUME Init PROVE IInv
<1>1. IsState(InitState)
  BY DEF InitState, IsState, IsMap, Empty
<1>2. Verdicts(InitState.claims, InitState.holder, contest)
  BY DEF Init, InitState, Verdicts, IsMap, Empty
<1>3. leases \in [Ids -> Instants]
  BY DEF Init, Instants
<1> QED BY <1>1, <1>2, <1>3 DEF Init, IInv, TypeOK, InitState, Empty, Verdicts

LEMMA MadeStep ==
    ASSUME IInv, NEW id \in Ids, Made(id)
    PROVE  Keeps
<1>1. PICK t \in Tasks, a \in Actors, exp \in LeaseTimes :
          /\ leases' = [leases EXCEPT ![id] = exp]
          /\ state' = ClaimMade(state, leases', [id |-> id,
                          type |-> "claim.made", task |-> t, actor |-> a])
          /\ contest' = [contest EXCEPT ![t] = NextContest(t, id)]
  BY DEF Made
<1> DEFINE e == [id |-> id, type |-> "claim.made", task |-> t, actor |-> a]
           h == state.holder[t]
<1>2. /\ IsState(state) /\ Verdicts(state.claims, state.holder, contest)
      /\ ~ state.error /\ last' = id /\ last < id /\ id # None
      /\ DOMAIN state.claims \subseteq Ids
      /\ contest \in [Tasks -> SUBSET Ids]
      /\ last \in Int
  BY DEF IInv, TypeOK, Made, Reads, IsState, IsMap, Ids, None
<1>3. /\ \A c \in DOMAIN state.claims : c < id /\ c <= last'
      /\ id \notin DOMAIN state.claims
      /\ last' <= last'
  BY <1>2 DEF IInv, Ids
<1>4. e.id = id /\ e.task = t /\ e.actor = a
  OBVIOUS
<1> HIDE DEF e
<1>5. CASE state' = Malformed(state)
  <2>a. state'.error = TRUE
    BY <1>2, <1>5, MalformedKeeps
  <2>b. NextContest(t, id) = contest[t]
    BY <2>a, ContestFacts
  <2>1. contest' = contest
    BY <1>1, <1>2, <2>b
  <2> QED BY <1>2, <1>3, <1>5, <2>1, MalformedKeeps DEF Keeps
<1>6. CASE /\ h = None
           /\ Is(state', state.tasks,
                 Put(state.claims, id, NewClaim(e, "active")),
                 [state.holder EXCEPT ![t] = id],
                 state.runs, state.escalations, state.error)
  <2>1. Verdicts(Put(state.claims, id, NewClaim(e, "active")),
                 [state.holder EXCEPT ![t] = id],
                 [contest EXCEPT ![t] = {id}])
    BY <1>2, <1>3, <1>4, <1>6, OpenKeeps
  <2>2. /\ IsState(state')
        /\ state'.claims = Put(state.claims, id, NewClaim(e, "active"))
        /\ state'.holder = [state.holder EXCEPT ![t] = id]
    BY <1>2, <1>6, <2>1, IsFacts DEF IsState, Verdicts
  <2>3. ~ state'.error
    BY <1>2, <1>6 DEF Is
  <2>4. contest' = [contest EXCEPT ![t] = {id}]
    BY <1>1, <1>2, <2>2, <2>3, ContestFacts DEF IsState
  <2>5. DOMAIN state'.claims = DOMAIN state.claims \cup {id}
    BY <2>2 DEF Put
  <2> QED BY <1>2, <1>3, <2>1, <2>2, <2>4, <2>5 DEF Keeps
<1>7. CASE /\ h # None
           /\ Is(state', state.tasks,
                 Put([state.claims EXCEPT ![h].status = "expired"], id,
                     NewClaim(e, "active")),
                 [state.holder EXCEPT ![t] = id],
                 state.runs \cup {InterruptedRun(state, h)},
                 state.escalations, state.error)
  <2> DEFINE cs == [state.claims EXCEPT ![h].status = "expired"]
             k  == [state.holder EXCEPT ![t] = None]
             ct == [contest EXCEPT ![t] = {}]
  <2>1. Verdicts(cs, k, ct)
    BY <1>2, <1>7, EndKeeps
  <2>2. k[t] = None /\ DOMAIN cs = DOMAIN state.claims
    BY <1>2 DEF IsState
  <2>3. /\ [k EXCEPT ![t] = id] = [state.holder EXCEPT ![t] = id]
        /\ [ct EXCEPT ![t] = {id}] = [contest EXCEPT ![t] = {id}]
    BY <1>2 DEF IsState
  <2> HIDE DEF cs, k, ct
  <2>4. Verdicts(Put(cs, id, NewClaim(e, "active")),
                 [k EXCEPT ![t] = id], [ct EXCEPT ![t] = {id}])
    BY <1>3, <1>4, <2>1, <2>2, OpenKeeps
  <2>5. InterruptedRun(state, h) \in RunRecord
    <3>1. h \in DOMAIN state.claims /\ state.claims[h] \in ClaimRecord
      BY <1>2, <1>7 DEF Verdicts, IsMap
    <3> QED BY <1>2, <3>1 DEF InterruptedRun, RunRecord, ClaimRecord, Outcome
  <2>a. Is(state', state.tasks, Put(cs, id, NewClaim(e, "active")),
           [state.holder EXCEPT ![t] = id],
           state.runs \cup {InterruptedRun(state, h)},
           state.escalations, state.error)
    BY <1>7 DEF cs
  <2>b. /\ IsMap(Put(cs, id, NewClaim(e, "active")), Ids, ClaimRecord)
        /\ [state.holder EXCEPT ![t] = id] \in [Tasks -> Ids \cup {None}]
    BY <2>3, <2>4 DEF Verdicts
  <2>c. /\ IsMap(state.tasks, Tasks, TaskRecord)
        /\ state.runs \cup {InterruptedRun(state, h)} \subseteq RunRecord
        /\ IsMap(state.escalations, Ids, EscalationRecord)
        /\ state.error \in BOOLEAN
    BY <1>2, <2>5 DEF IsState
  <2>6. /\ IsState(state')
        /\ state'.claims = Put(cs, id, NewClaim(e, "active"))
        /\ state'.holder = [state.holder EXCEPT ![t] = id]
    BY <2>a, <2>b, <2>c, IsFacts
  <2>7. ~ state'.error
    BY <1>2, <1>7 DEF Is
  <2>d. state'.holder[t] = id
    BY <1>2, <2>6 DEF IsState
  <2>8. contest' = [contest EXCEPT ![t] = {id}]
    BY <1>1, <1>2, <2>d, <2>7, ContestFacts
  <2>9. DOMAIN state'.claims = DOMAIN state.claims \cup {id}
    BY <2>2, <2>6 DEF Put
  <2> QED BY <1>2, <1>3, <2>3, <2>4, <2>6, <2>8, <2>9 DEF Keeps
<1>8. CASE /\ h # None
           /\ Is(state', state.tasks,
                 Put(state.claims, id, NewClaim(e, "voided")),
                 state.holder, state.runs, state.escalations, state.error)
  <2>1. Verdicts(Put(state.claims, id, NewClaim(e, "voided")), state.holder,
                 [contest EXCEPT ![t] = @ \cup {id}])
    BY <1>2, <1>3, <1>4, <1>8, JoinKeeps
  <2>2. /\ IsState(state')
        /\ state'.claims = Put(state.claims, id, NewClaim(e, "voided"))
        /\ state'.holder = state.holder
    BY <1>2, <1>8, <2>1, IsFacts DEF IsState, Verdicts
  <2>3. ~ state'.error
    BY <1>2, <1>8 DEF Is
  <2>4. DOMAIN state'.claims = DOMAIN state.claims \cup {id}
    BY <2>2 DEF Put
  <2>5. h \in DOMAIN state.claims
    BY <1>2, <1>8 DEF Verdicts
  <2>6. contest' = [contest EXCEPT ![t] = @ \cup {id}]
    <3>1. /\ ~ state'.error /\ state'.holder[t] \notin {None, id}
          /\ id \in DOMAIN state'.claims
      BY <1>2, <1>3, <1>8, <2>2, <2>3, <2>4, <2>5
    <3>2. NextContest(t, id) = contest[t] \cup {id}
      BY <1>2, <3>1, ContestFacts, SMTT(60)
    <3> QED BY <1>1, <1>2, <3>2
  <2> QED BY <1>2, <1>3, <2>1, <2>2, <2>4, <2>6 DEF Keeps
<1> QED BY <1>1, <1>2, <1>4, <1>5, <1>6, <1>7, <1>8, ClaimMadeCases DEF e

LEMMA ConfirmedStep ==
    ASSUME IInv, NEW id \in Ids, Confirmed(id)
    PROVE  Keeps
<1>1. PICK t \in Tasks, a \in Actors, l \in Ids :
          /\ state' = ClaimConfirmed(state, [id |-> id,
                          type |-> "claim.confirmed",
                          task |-> t, actor |-> a, claim |-> l])
          /\ contest' = [contest EXCEPT ![t] =
                            @ \cup ({state'.holder[t]} \ {None})]
  BY DEF Confirmed
<1> DEFINE e == [id |-> id, type |-> "claim.confirmed",
                 task |-> t, actor |-> a, claim |-> l]
           h == state.holder[t]
<1>2. /\ IsState(state) /\ Verdicts(state.claims, state.holder, contest)
      /\ last' = id /\ last < id
      /\ DOMAIN state.claims \subseteq Ids
      /\ contest \in [Tasks -> SUBSET Ids] /\ last \in Int
      /\ h # None => h \in contest[t]
  BY DEF IInv, TypeOK, Confirmed, Reads, IsState, IsMap, Ids, None, Verdicts
<1>3. \A c \in DOMAIN state.claims : c <= last' /\ c # None
  BY <1>2 DEF IInv, Ids, None
<1>4. e.id = id /\ e.task = t /\ e.claim = l
  OBVIOUS
<1> HIDE DEF e
<1>5. CASE state'.claims = state.claims /\ state'.holder = state.holder
           /\ IsState(state')
  <2>1. contest[t] \cup ({state'.holder[t]} \ {None}) = contest[t]
    BY <1>2, <1>5
  <2>2. contest' = contest
    BY <1>1, <1>2, <2>1
  <2> QED BY <1>2, <1>3, <1>5, <2>2 DEF Keeps
<1>6. CASE /\ h = l /\ l \in DOMAIN state.claims
           /\ Is(state', state.tasks,
                 [state.claims EXCEPT ![l].confirmation = id],
                 state.holder, state.runs, state.escalations, state.error)
  <2>1. h # None
    BY <1>3, <1>6
  <2>2. Verdicts([state.claims EXCEPT ![l].confirmation = id], state.holder,
                 contest)
    BY <1>2, <1>6, <2>1, ConfirmKeeps
  <2>3. /\ IsState(state')
        /\ state'.claims = [state.claims EXCEPT ![l].confirmation = id]
        /\ state'.holder = state.holder
    BY <1>2, <1>6, <2>2, IsFacts DEF IsState, Verdicts
  <2>4. contest[t] \cup ({state'.holder[t]} \ {None}) = contest[t]
    BY <1>2, <2>3
  <2>5. contest' = contest
    BY <1>1, <1>2, <2>4
  <2> QED BY <1>2, <1>3, <2>2, <2>3, <2>5 DEF Keeps
<1>7. CASE /\ h # None /\ state.claims[h].confirmation = None
           /\ l \in DOMAIN state.claims /\ state.claims[l].task = t
           /\ state.claims[l].status = "voided"
           /\ Is(state', state.tasks,
                 [state.claims EXCEPT ![h].status = "voided",
                                      ![l].status = "active",
                                      ![l].confirmation = id],
                 [state.holder EXCEPT ![t] = l],
                 state.runs, state.escalations, state.error)
  <2> DEFINE cs == [state.claims EXCEPT ![h].status = "voided",
                                        ![l].status = "active",
                                        ![l].confirmation = id]
             k  == [state.holder EXCEPT ![t] = l]
  <2>a. /\ Verdicts(state.claims, state.holder, contest)
        /\ state.holder[t] # None
        /\ state.claims[state.holder[t]].confirmation = None
        /\ l \in DOMAIN state.claims /\ state.claims[l].task = t
        /\ state.claims[l].status = "voided"
    BY <1>2, <1>7
  <2>1. Verdicts(cs, k, [contest EXCEPT ![t] = @ \cup {l}])
    BY ONLY <2>a, StandDownKeeps, id \in Ids, t \in Tasks, Zenon
  <2>2. DOMAIN cs = DOMAIN state.claims
    OBVIOUS
  <2>3. Is(state', state.tasks, cs, k, state.runs, state.escalations,
           state.error)
    BY <1>7
  <2>4. k[t] = l
    BY <1>2 DEF IsState
  <2> HIDE DEF cs, k
  <2>5. IsState(state') /\ state'.claims = cs /\ state'.holder = k
    BY <1>2, <2>1, <2>3, IsFacts DEF IsState, Verdicts
  <2>6. contest' = [contest EXCEPT ![t] = @ \cup {l}]
    <3>1. {state'.holder[t]} \ {None} = {l}
      BY <1>3, <1>7, <2>4, <2>5
    <3> QED BY <1>1, <3>1
  <2> QED BY <1>2, <1>3, <2>1, <2>2, <2>5, <2>6 DEF Keeps
<1>8. CASE state' = Malformed(state)
  BY <1>2, <1>5, <1>8, MalformedKeeps
<1>9. CASE state' = state
  BY <1>2, <1>5, <1>9
<1> QED BY <1>1, <1>2, <1>4, <1>6, <1>7, <1>8, <1>9, ClaimConfirmedCases,
           ZenonT(60) DEF e

\* A hold that ends, whatever else the event records.
LEMMA EndStep ==
    ASSUME IInv, NEW id \in Ids, Reads(id), NEW t \in Tasks,
           state.holder[t] # None, IsState(state'), ~ state'.error,
           NEW x \in {"released", "finished"},
           state'.claims = [state.claims EXCEPT ![state.holder[t]].status = x],
           state'.holder = [state.holder EXCEPT ![t] = None],
           contest' = [contest EXCEPT ![t] = NextContest(t, id)]
    PROVE  Keeps
<1>1. /\ Verdicts(state.claims, state.holder, contest)
      /\ DOMAIN state'.claims = DOMAIN state.claims
      /\ state'.holder[t] = None
      /\ last' = id /\ last < id /\ last \in Int
      /\ DOMAIN state.claims \subseteq Ids
  BY DEF IInv, TypeOK, IsState, IsMap, Reads, Ids
<1>2. contest' = [contest EXCEPT ![t] = {}]
  BY <1>1, ContestFacts
<1>3. Verdicts(state'.claims, state'.holder, contest')
  <2>1. Verdicts([state.claims EXCEPT ![state.holder[t]].status = x],
                 [state.holder EXCEPT ![t] = None],
                 [contest EXCEPT ![t] = {}])
    BY <1>1, EndKeeps
  <2> QED BY <1>2, <2>1
<1>4. \A c \in DOMAIN state.claims : c <= last'
  BY <1>1 DEF IInv, Ids
<1> QED BY <1>1, <1>3, <1>4 DEF Keeps

\* An event that leaves claims and holders alone leaves the contests alone.
LEMMA QuietStep ==
    ASSUME IInv, NEW id \in Ids, Reads(id), IsState(state'),
           state'.claims = state.claims, state'.holder = state.holder,
           \/ contest' = contest
           \/ \E t \in Tasks :
                 contest' = [contest EXCEPT ![t] = NextContest(t, id)]
    PROVE  Keeps
<1>1. /\ Verdicts(state.claims, state.holder, contest)
      /\ contest \in [Tasks -> SUBSET Ids]
      /\ last' = id /\ last < id /\ last \in Int /\ id # None
      /\ DOMAIN state.claims \subseteq Ids
  BY DEF IInv, TypeOK, IsState, IsMap, Reads, Ids, None
<1>2. \A c \in DOMAIN state.claims : c <= last' /\ c # id
  BY <1>1 DEF IInv, Ids
<1>3. ASSUME NEW t \in Tasks PROVE NextContest(t, id) = contest[t]
  <2>1. /\ state'.holder[t] # id
        /\ state'.holder[t] = None => contest[t] = {}
        /\ id \notin DOMAIN state'.claims
    BY <1>1, <1>2 DEF Verdicts
  <2> QED BY <2>1, ContestFacts
<1>4. contest' = contest
  BY <1>1, <1>3
<1> QED BY <1>1, <1>2, <1>4 DEF Keeps

LEMMA ReleasedStep ==
    ASSUME IInv, NEW id \in Ids, Released(id)
    PROVE  Keeps
<1>1. PICK t \in Tasks, a \in Actors :
          /\ state' = ClaimReleased(state, [id |-> id,
                          type |-> "claim.released", task |-> t, actor |-> a])
          /\ contest' = [contest EXCEPT ![t] = NextContest(t, id)]
  BY DEF Released
<1> DEFINE e == [id |-> id, type |-> "claim.released",
                 task |-> t, actor |-> a]
           h == state.holder[t]
<1>2. /\ IsState(state) /\ ~ state.error /\ Reads(id)
      /\ Verdicts(state.claims, state.holder, contest)
  BY DEF IInv, TypeOK, Released, Reads
<1>3. e.task = t
  OBVIOUS
<1> HIDE DEF e
<1>4. CASE state' = state
  BY <1>1, <1>2, <1>4, QuietStep
<1>5. CASE /\ h # None
           /\ Is(state', state.tasks,
                 [state.claims EXCEPT ![h].status = "released"],
                 [state.holder EXCEPT ![t] = None],
                 state.runs, state.escalations, state.error)
  <2>1. Verdicts([state.claims EXCEPT ![h].status = "released"],
                 [state.holder EXCEPT ![t] = None],
                 [contest EXCEPT ![t] = {}])
    BY <1>2, <1>5, EndKeeps
  <2>2. /\ IsState(state') /\ ~ state'.error
        /\ state'.claims = [state.claims EXCEPT ![h].status = "released"]
        /\ state'.holder = [state.holder EXCEPT ![t] = None]
    <3>1. IsState(state')
      BY <1>2, <1>5, <2>1, IsFacts DEF IsState, Verdicts
    <3> QED BY <1>2, <1>5, <3>1 DEF Is
  <2> QED BY <1>1, <1>2, <1>5, <2>2, EndStep
<1> QED BY <1>1, <1>2, <1>3, <1>4, <1>5, ClaimReleasedCases DEF e

LEMMA FinishedStep ==
    ASSUME IInv, NEW id \in Ids, Finished(id)
    PROVE  Keeps
<1>1. PICK t \in Tasks, a \in Actors, o \in OutcomeChoices,
           c \in {x \in Ids : x < id} \cup {None} :
          /\ state' = RunFinished(state, [id |-> id,
                          type |-> "run.finished", task |-> t, actor |-> a,
                          outcome |-> o, claim |-> c])
          /\ contest' = [contest EXCEPT ![t] = NextContest(t, id)]
  BY DEF Finished
<1> DEFINE e == [id |-> id, type |-> "run.finished", task |-> t, actor |-> a,
                 outcome |-> o, claim |-> c]
           h == state.holder[t]
<1>2. /\ IsState(state) /\ ~ state.error /\ Reads(id)
      /\ Verdicts(state.claims, state.holder, contest)
  BY DEF IInv, TypeOK, Finished, Reads
<1>3. /\ e.task = t /\ e.id = id /\ e.actor = a /\ e.claim = c
      /\ e.outcome = o /\ o \in Outcome /\ c \in Ids \cup {None}
  BY LoopAssumption
<1> HIDE DEF e
<1>4. CASE state' = Malformed(state)
  BY <1>1, <1>2, <1>4, MalformedKeeps, QuietStep
<1>5. CASE \E r \in RunRecord :
              Is(state', state.tasks, state.claims, state.holder,
                 state.runs \cup {r}, state.escalations, state.error)
  <2>1. IsState(state') /\ state'.claims = state.claims
           /\ state'.holder = state.holder
    BY <1>2, <1>5, IsFacts DEF IsState
  <2> QED BY <1>1, <1>2, <2>1, QuietStep
<1>6. CASE /\ h # None
           /\ \E r \in RunRecord, k \in TaskRecord :
                 Is(state', [state.tasks EXCEPT ![t] = k],
                    [state.claims EXCEPT ![h].status = "finished"],
                    [state.holder EXCEPT ![t] = None],
                    state.runs \cup {r}, state.escalations, state.error)
           /\ t \in DOMAIN state.tasks
  <2>1. PICK r \in RunRecord, k \in TaskRecord :
           Is(state', [state.tasks EXCEPT ![t] = k],
              [state.claims EXCEPT ![h].status = "finished"],
              [state.holder EXCEPT ![t] = None],
              state.runs \cup {r}, state.escalations, state.error)
    BY <1>6
  <2>2. IsMap([state.tasks EXCEPT ![t] = k], Tasks, TaskRecord)
    BY <1>2, <1>6, ExceptIsMap DEF IsState
  <2>3. Verdicts([state.claims EXCEPT ![h].status = "finished"],
                 [state.holder EXCEPT ![t] = None],
                 [contest EXCEPT ![t] = {}])
    BY <1>2, <1>6, EndKeeps
  <2>4. IsState(state')
    BY <1>2, <2>1, <2>2, <2>3, IsFacts DEF IsState, Verdicts
  <2>5. /\ ~ state'.error
        /\ state'.claims = [state.claims EXCEPT ![h].status = "finished"]
        /\ state'.holder = [state.holder EXCEPT ![t] = None]
    BY <1>2, <2>1 DEF Is
  <2> QED BY <1>1, <1>2, <1>6, <2>4, <2>5, EndStep
<1> QED BY <1>1, <1>2, <1>3, <1>4, <1>5, <1>6, RunFinishedCases DEF e

LEMMA TaskSteps ==
    ASSUME IInv, NEW id \in Ids,
           Created(id) \/ Updated(id) \/ Raised(id) \/ Answered(id)
    PROVE  Keeps
<1>1. IsState(state) /\ Reads(id) /\ contest' = contest
  BY DEF IInv, TypeOK, Created, Updated, Raised, Answered
<1>2. CASE Created(id)
  <2>1. PICK t \in Tasks, a \in Actors, x \in StatusChoices, d \in DepChoices :
           state' = TaskCreated(state, [id |-> id, type |-> "task.created",
                         task |-> t, actor |-> a, status |-> x, deps |-> d])
    BY <1>2 DEF Created
  <2>2. x \in TaskStatus /\ d \in SUBSET Tasks
    BY LoopAssumption
  <2>3. /\ IsState(state') /\ state'.claims = state.claims
        /\ state'.holder = state.holder
    BY <1>1, <2>1, <2>2, TaskCreatedKeeps
  <2> QED BY <1>1, <2>3, QuietStep
<1>3. CASE Updated(id)
  <2>1. PICK t \in Tasks, a \in Actors,
             x \in {{}} \cup {{y} : y \in StatusChoices},
             d \in {{}} \cup {{y} : y \in DepChoices} :
           state' = TaskUpdated(state, [id |-> id, type |-> "task.updated",
                         task |-> t, actor |-> a, status |-> x, deps |-> d])
    BY <1>3 DEF Updated
  <2>2. x \subseteq TaskStatus /\ d \subseteq SUBSET Tasks
    BY LoopAssumption
  <2>3. /\ IsState(state') /\ state'.claims = state.claims
        /\ state'.holder = state.holder
    BY <1>1, <2>1, <2>2, TaskUpdatedKeeps
  <2> QED BY <1>1, <2>3, QuietStep
<1>4. CASE Raised(id)
  <2>1. PICK t \in Tasks, a \in Actors, b \in BlockingChoices :
           state' = EscalationRaised(state, [id |-> id,
                         type |-> "escalation.raised",
                         task |-> t, actor |-> a, blocking |-> b])
    BY <1>4 DEF Raised
  <2>2. b \in BOOLEAN
    BY LoopAssumption
  <2>3. /\ IsState(state') /\ state'.claims = state.claims
        /\ state'.holder = state.holder
    BY <1>1, <2>1, <2>2, EscalationRaisedKeeps
  <2> QED BY <1>1, <2>3, QuietStep
<1>5. CASE Answered(id)
  <2>1. PICK t \in Tasks, a \in Actors, x \in Ids :
           state' = EscalationAnswered(state, [id |-> id,
                         type |-> "escalation.answered",
                         task |-> t, actor |-> a, escalation |-> x])
    BY <1>5 DEF Answered
  <2>2. /\ IsState(state') /\ state'.claims = state.claims
        /\ state'.holder = state.holder
    BY <1>1, <2>1, EscalationAnsweredKeeps
  <2> QED BY <1>1, <2>2, QuietStep
<1> QED BY <1>2, <1>3, <1>4, <1>5

LEMMA NextInv == ASSUME IInv, [Next]_vars PROVE IInv'
<1>1. CASE UNCHANGED vars
  BY <1>1 DEF IInv, TypeOK, vars
<1>2. CASE Next
  <2>1. PICK id \in Ids :
           \/ Created(id) \/ Updated(id)
           \/ Made(id) \/ Confirmed(id) \/ Released(id) \/ Finished(id)
           \/ Raised(id) \/ Answered(id)
    BY <1>2 DEF Next
  <2>2. Keeps
    BY <2>1, MadeStep, ConfirmedStep, ReleasedStep, FinishedStep, TaskSteps
  <2>3. last' = id
    BY <2>1 DEF Created, Updated, Made, Confirmed, Released, Finished,
       Raised, Answered, Reads
  <2>4. leases' \in [Ids -> Instants]
    <3>1. leases \in [Ids -> Instants]
      BY DEF IInv, TypeOK
    <3>2. CASE Made(id)
      BY <3>1, <3>2, LoopAssumption DEF Made
    <3>3. CASE ~ Made(id)
      BY <2>1, <3>1, <3>3 DEF Created, Updated, Confirmed, Released,
         Finished, Raised, Answered
    <3> QED BY <3>2, <3>3
  <2> QED BY <2>2, <2>3, <2>4 DEF IInv, TypeOK, Keeps, Verdicts
<1> QED BY <1>1, <1>2

\* Every event replay applies keeps the inductive invariant.
THEOREM Invariance == Spec => []IInv
BY InitInv, NextInv, PTL DEF Spec

\* Whatever the ledger, every state the fold goes through is well typed.
THEOREM TypeCorrect == Spec => []TypeOK
<1>1. IInv => TypeOK
  BY DEF IInv
<1> QED BY <1>1, Invariance, PTL

\* replay.go's working set and State.ActiveClaim agree on every task: no
\* ledger gives a task two active claims, or an active one without the hold.
THEOREM OneHolder == Spec => []HolderIsTheActiveClaim
<1>1. IInv => HolderIsTheActiveClaim
  <2> SUFFICES ASSUME IInv, NEW t \in Tasks
               PROVE  ActiveClaims(state, t) =
                         IF state.holder[t] = None THEN {}
                         ELSE {state.holder[t]}
    BY DEF HolderIsTheActiveClaim
  <2>1. Verdicts(state.claims, state.holder, contest)
    BY DEF IInv
  <2>2. \A c \in DOMAIN state.claims : c # None
    BY <2>1 DEF Verdicts, IsMap, Ids, None
  <2> QED BY <2>1, <2>2 DEF Verdicts, ActiveClaims
<1> QED BY <1>1, Invariance, PTL

\* The claim.confirmed arm of apply: no ledger ends with a confirmed claim
\* voided.
THEOREM ConfirmedIsFinal == Spec => []ConfirmedIsNeverVoided
<1>1. IInv => ConfirmedIsNeverVoided
  BY DEF IInv, Verdicts, ConfirmedIsNeverVoided
<1> QED BY <1>1, Invariance, PTL

\* The winner rule of the claim arms of apply: the contest's confirmed claim
\* holds the task, and while there is none its earliest claim does.
THEOREM WinnerRule == Spec => []HoldIsTheWinners
<1>1. IInv => HoldIsTheWinners
  <2> SUFFICES ASSUME IInv, NEW t \in Tasks, state.holder[t] # None
               PROVE  LET settled == {c \in contest[t] :
                                        state.claims[c].confirmation # None}
                      IN  IF settled = {}
                          THEN /\ state.holder[t] \in contest[t]
                               /\ \A c \in contest[t] : state.holder[t] <= c
                          ELSE settled = {state.holder[t]}
    BY DEF HoldIsTheWinners
  <2>1. Verdicts(state.claims, state.holder, contest)
    BY DEF IInv
  <2>2. \A c \in contest[t] :
           state.claims[c].confirmation # None => c = state.holder[t]
    BY <2>1 DEF Verdicts
  <2>3. CASE state.claims[state.holder[t]].confirmation = None
    BY <2>1, <2>2, <2>3 DEF Verdicts
  <2>4. CASE state.claims[state.holder[t]].confirmation # None
    <3>1. state.holder[t] \in contest[t]
      BY <2>1 DEF Verdicts
    <3> QED BY <2>2, <2>4, <3>1
  <2> QED BY <2>3, <2>4
<1> QED BY <1>1, Invariance, PTL

\* The working set of holders names the active claim of every task, and that
\* is the winner of its contest.
THEOREM RefereeHolds == Spec => []RefereeRule
<1>1. HolderIsTheActiveClaim /\ HoldIsTheWinners => RefereeRule
  BY DEF RefereeRule
<1> QED BY <1>1, OneHolder, WinnerRule, PTL

-----------------------------------------------------------------------------
(***************************************************************************)
(* What the replay of a ledger does step by step: verdicts only move       *)
(* forward, every attempt leaves one trace, and the loop implements the    *)
(* abstract referee.                                                       *)
(*                                                                         *)
(* Effect says, claim by claim, what one event may do to the claims, the   *)
(* working set of holders and the contests.  There are seven such effects; *)
(* the theorems are case splits over them.                                 *)
(***************************************************************************)
Synthesized(s) == {r \in s.runs : r.synthesized}
SynthKept      == Synthesized(state') = Synthesized(state)

\* Every claim not in X keeps its record.
KeptBut(X) ==
    \A c \in DOMAIN state.claims \ X : state'.claims[c] = state.claims[c]

\* Claim c keeps its task and its actor.
Turned(c, status, confirmation) ==
    /\ state'.claims[c].status = status
    /\ state'.claims[c].confirmation = confirmation
    /\ state'.claims[c].task  = state.claims[c].task
    /\ state'.claims[c].actor = state.claims[c].actor

New(id, t, status) ==
    /\ DOMAIN state'.claims = DOMAIN state.claims \cup {id}
    /\ state'.claims[id].status = status
    /\ state'.claims[id].task = t
    /\ state'.claims[id].confirmation = None

NoNew == DOMAIN state'.claims = DOMAIN state.claims

Moves(t, holder, in) ==
    /\ state'.holder = [state.holder EXCEPT ![t] = holder]
    /\ contest' = [contest EXCEPT ![t] = in]

Nothing ==
    /\ state'.claims = state.claims /\ state'.holder = state.holder
    /\ contest' = contest /\ SynthKept

Opens(t, id) ==
    /\ state.holder[t] = None
    /\ New(id, t, "active") /\ KeptBut({}) /\ SynthKept
    /\ Moves(t, id, {id})

TakesOver(t, id) ==
    LET h == state.holder[t]
    IN  /\ h # None
        /\ New(id, t, "active") /\ KeptBut({h})
        /\ Turned(h, "expired", state.claims[h].confirmation)
        /\ Synthesized(state') =
              Synthesized(state) \cup {InterruptedRun(state, h)}
        /\ Moves(t, id, {id})

Joins(t, id) ==
    /\ state.holder[t] # None
    /\ New(id, t, "voided") /\ KeptBut({}) /\ SynthKept
    /\ state'.holder = state.holder
    /\ contest' = [contest EXCEPT ![t] = @ \cup {id}]

Confirms(t, id) ==
    LET h == state.holder[t]
    IN  /\ h # None /\ state.claims[h].confirmation = None
        /\ NoNew /\ KeptBut({h}) /\ Turned(h, "active", id) /\ SynthKept
        /\ state'.holder = state.holder /\ contest' = contest

StandsDown(t, l, id) ==
    LET h == state.holder[t]
    IN  /\ h # None /\ state.claims[h].confirmation = None
        /\ l \in DOMAIN state.claims /\ state.claims[l].task = t
        /\ state.claims[l].status = "voided"
        /\ NoNew /\ KeptBut({h, l}) /\ SynthKept
        /\ Turned(h, "voided", None) /\ Turned(l, "active", id)
        /\ Moves(t, l, contest[t] \cup {l})

Ends(t, x) ==
    LET h == state.holder[t]
    IN  /\ h # None
        /\ NoNew /\ KeptBut({h}) /\ SynthKept
        /\ Turned(h, x, state.claims[h].confirmation)
        /\ Moves(t, None, {})

Effect(t, id) ==
    \/ Nothing
    \/ Opens(t, id) \/ TakesOver(t, id) \/ Joins(t, id)
    \/ Confirms(t, id) \/ \E l \in Ids : StandsDown(t, l, id)
    \/ \E x \in {"released", "finished"} : Ends(t, x)

-----------------------------------------------------------------------------
\* What all steps start from.
LEMMA ReadsFacts ==
    ASSUME IInv, NEW id \in Ids, Reads(id)
    PROVE  /\ IsState(state) /\ Verdicts(state.claims, state.holder, contest)
           /\ ~ state.error /\ last' = id /\ last < id /\ id # None
           /\ DOMAIN state.claims \subseteq Ids
           /\ \A c \in DOMAIN state.claims :
                 c < id /\ c # id /\ c # None /\ state.claims[c] \in ClaimRecord
           /\ id \notin DOMAIN state.claims
           /\ contest \in [Tasks -> SUBSET Ids] /\ last \in Int
           /\ state.holder \in [Tasks -> Ids \cup {None}]
           /\ \A t \in Tasks : state.holder[t] # None =>
                 /\ state.holder[t] \in DOMAIN state.claims
                 /\ state.claims[state.holder[t]].task = t
                 /\ state.claims[state.holder[t]].status = "active"
                 /\ state.holder[t] \in contest[t]
<1>1. /\ IsState(state) /\ Verdicts(state.claims, state.holder, contest)
      /\ ~ state.error /\ last' = id /\ last < id /\ id # None
      /\ DOMAIN state.claims \subseteq Ids
      /\ \A c \in DOMAIN state.claims : state.claims[c] \in ClaimRecord
      /\ contest \in [Tasks -> SUBSET Ids] /\ last \in Int
      /\ \A c \in DOMAIN state.claims : c <= last
  BY DEF IInv, TypeOK, Reads, IsState, IsMap, Ids, None
<1>2. \A c \in DOMAIN state.claims : c < id /\ c # id /\ c # None
  BY <1>1 DEF Ids, None
<1> QED BY <1>1, <1>2 DEF Verdicts

\* A malformed event changes nothing but the error flag.
LEMMA MalformedIsNothing ==
    ASSUME NEW s, IsState(s)
    PROVE  /\ Malformed(s).claims = s.claims /\ Malformed(s).holder = s.holder
           /\ Malformed(s).runs = s.runs /\ Malformed(s).tasks = s.tasks
BY DEF Malformed, IsState

\* A step that leaves claims and holders alone leaves the contests alone.
LEMMA QuietContest ==
    ASSUME IInv, NEW id \in Ids, Reads(id), NEW t \in Tasks,
           state'.claims = state.claims, state'.holder = state.holder,
           contest' = [contest EXCEPT ![t] = NextContest(t, id)]
    PROVE  contest' = contest
<1>1. /\ state'.holder[t] # id
      /\ state'.holder[t] = None => contest[t] = {}
      /\ id \notin DOMAIN state'.claims
      /\ contest \in [Tasks -> SUBSET Ids]
  BY ReadsFacts DEF Verdicts
<1>2. NextContest(t, id) = contest[t]
  BY <1>1, ContestFacts
<1> QED BY <1>1, <1>2

LEMMA MadeEffect ==
    ASSUME IInv, NEW id \in Ids, Made(id)
    PROVE  \E t \in Tasks : Effect(t, id)
<1>1. PICK t \in Tasks, a \in Actors, exp \in LeaseTimes :
          /\ leases' = [leases EXCEPT ![id] = exp]
          /\ state' = ClaimMade(state, leases', [id |-> id,
                          type |-> "claim.made", task |-> t, actor |-> a])
          /\ contest' = [contest EXCEPT ![t] = NextContest(t, id)]
  BY DEF Made
<1> DEFINE e == [id |-> id, type |-> "claim.made", task |-> t, actor |-> a]
           h == state.holder[t]
<1>2. Reads(id)
  BY DEF Made
<1>3. /\ IsState(state) /\ ~ state.error /\ id # None
      /\ state.holder \in [Tasks -> Ids \cup {None}]
      /\ id \notin DOMAIN state.claims
      /\ \A u \in Tasks : state.holder[u] # None =>
            /\ state.holder[u] \in DOMAIN state.claims
            /\ state.claims[state.holder[u]] \in ClaimRecord
            /\ state.holder[u] # id
  BY <1>2, ReadsFacts
<1>4. e.id = id /\ e.task = t /\ e.actor = a
  OBVIOUS
<1> HIDE DEF e
<1>5. CASE state' = Malformed(state)
  <2>1. /\ state'.claims = state.claims /\ state'.holder = state.holder
        /\ state'.runs = state.runs
    BY <1>3, <1>5, MalformedIsNothing
  <2>2. contest' = contest
    BY <1>1, <1>2, <2>1, QuietContest
  <2>3. Nothing
    BY <2>1, <2>2 DEF Nothing, SynthKept, Synthesized
  <2> QED BY <2>3 DEF Effect
<1>6. CASE /\ h = None
           /\ Is(state', state.tasks,
                 Put(state.claims, id, NewClaim(e, "active")),
                 [state.holder EXCEPT ![t] = id],
                 state.runs, state.escalations, state.error)
  <2> DEFINE new == NewClaim(e, "active")
  <2>1. new.task = t /\ new.status = "active" /\ new.confirmation = None
    BY <1>4, NewClaimFacts
  <2> HIDE DEF new
  <2>a. /\ state'.claims = Put(state.claims, id, new)
        /\ state'.holder = [state.holder EXCEPT ![t] = id]
        /\ state'.runs = state.runs /\ state'.error = state.error
    BY <1>6 DEF Is, new
  <2>2. /\ DOMAIN state'.claims = DOMAIN state.claims \cup {id}
        /\ state'.claims[id] = new
        /\ \A c \in DOMAIN state.claims : state'.claims[c] = state.claims[c]
        /\ state'.holder = [state.holder EXCEPT ![t] = id]
        /\ state'.runs = state.runs /\ ~ state'.error
    BY <1>3, <2>a DEF Put
  <2>3. New(id, t, "active") /\ KeptBut({}) /\ SynthKept
    BY <2>1, <2>2 DEF New, KeptBut, SynthKept,
       Synthesized
  <2>4. state'.holder[t] = id
    BY <1>2, <1>3, <2>2
  <2>5. NextContest(t, id) = {id}
    BY <1>2, <1>3, <2>2, <2>4, ContestFacts
  <2>6. Opens(t, id)
    BY <1>1, <1>6, <2>2, <2>3, <2>5 DEF Opens, Moves
  <2> QED BY <2>6 DEF Effect
<1>7. CASE /\ h # None
           /\ Is(state', state.tasks,
                 Put([state.claims EXCEPT ![h].status = "expired"], id,
                     NewClaim(e, "active")),
                 [state.holder EXCEPT ![t] = id],
                 state.runs \cup {InterruptedRun(state, h)},
                 state.escalations, state.error)
  <2> DEFINE new == NewClaim(e, "active")
             cs  == [state.claims EXCEPT ![h].status = "expired"]
  <2>1. new.task = t /\ new.status = "active" /\ new.confirmation = None
    BY <1>4, NewClaimFacts
  <2>2. /\ DOMAIN cs = DOMAIN state.claims
        /\ \A c \in DOMAIN cs \ {h} : cs[c] = state.claims[c]
        /\ cs[h] = [state.claims[h] EXCEPT !.status = "expired"]
        /\ h \in DOMAIN cs
    BY <1>2, <1>3, <1>7
  <2>3. /\ cs[h].status = "expired"
        /\ cs[h].confirmation = state.claims[h].confirmation
        /\ cs[h].task = state.claims[h].task
        /\ cs[h].actor = state.claims[h].actor
    BY <1>2, <1>3, <2>2 DEF ClaimRecord
  <2>4. InterruptedRun(state, h).synthesized = TRUE
    BY DEF InterruptedRun
  <2> HIDE DEF new, cs
  <2>5. /\ state'.claims = Put(cs, id, new)
        /\ state'.holder = [state.holder EXCEPT ![t] = id]
        /\ state'.runs = state.runs \cup {InterruptedRun(state, h)}
        /\ state'.error = state.error
    BY <1>7 DEF Is, new, cs
  <2>6. id \notin DOMAIN cs
    BY <1>3, <2>2
  <2>a. /\ DOMAIN state'.claims = DOMAIN state.claims \cup {id}
        /\ state'.claims[id] = new
        /\ \A c \in DOMAIN state.claims : state'.claims[c] = cs[c]
    BY <2>2, <2>5, <2>6 DEF Put
  <2>7. New(id, t, "active")
    BY <2>1, <2>a DEF New
  <2>8. KeptBut({h}) /\ Turned(h, "expired", state.claims[h].confirmation)
    BY <2>2, <2>3, <2>a DEF KeptBut, Turned
  <2>9. Synthesized(state') =
           Synthesized(state) \cup {InterruptedRun(state, h)}
    BY <2>4, <2>5 DEF Synthesized
  <2>10. state'.holder[t] = id
    BY <1>2, <1>3, <2>5
  <2>11. NextContest(t, id) = {id}
    BY <1>2, <1>3, <2>5, <2>10, ContestFacts
  <2>12. TakesOver(t, id)
    BY <1>1, <1>7, <2>5, <2>7, <2>8, <2>9, <2>11 DEF TakesOver, Moves
  <2> QED BY <2>12 DEF Effect
<1>8. CASE /\ h # None
           /\ Is(state', state.tasks,
                 Put(state.claims, id, NewClaim(e, "voided")),
                 state.holder, state.runs, state.escalations, state.error)
  <2> DEFINE new == NewClaim(e, "voided")
  <2>1. new.task = t /\ new.status = "voided" /\ new.confirmation = None
    BY <1>4, NewClaimFacts
  <2> HIDE DEF new
  <2>a. /\ state'.claims = Put(state.claims, id, new)
        /\ state'.holder = state.holder
        /\ state'.runs = state.runs /\ state'.error = state.error
    BY <1>8 DEF Is, new
  <2>2. /\ DOMAIN state'.claims = DOMAIN state.claims \cup {id}
        /\ state'.claims[id] = new
        /\ \A c \in DOMAIN state.claims : state'.claims[c] = state.claims[c]
        /\ state'.holder = state.holder
        /\ state'.runs = state.runs /\ ~ state'.error
    BY <1>3, <2>a DEF Put
  <2>3. New(id, t, "voided") /\ KeptBut({}) /\ SynthKept
    BY <2>1, <2>2 DEF New, KeptBut, SynthKept,
       Synthesized
  <2>4. state'.holder[t] \notin {None, id} /\ id \in DOMAIN state'.claims
    BY <1>2, <1>3, <1>8, <2>2, <2>3 DEF New
  <2>5. NextContest(t, id) = contest[t] \cup {id}
    BY <1>2, <1>3, <2>2, <2>4, ContestFacts
  <2>6. Joins(t, id)
    BY <1>1, <1>8, <2>2, <2>3, <2>5 DEF Joins
  <2> QED BY <2>6 DEF Effect
<1> QED
  BY <1>1, <1>3, <1>4, <1>5, <1>6, <1>7, <1>8, ClaimMadeCases DEF e

LEMMA ConfirmedEffect ==
    ASSUME IInv, NEW id \in Ids, Confirmed(id)
    PROVE  \E t \in Tasks : Effect(t, id)
<1>1. PICK t \in Tasks, a \in Actors, l \in Ids :
          /\ state' = ClaimConfirmed(state, [id |-> id,
                          type |-> "claim.confirmed",
                          task |-> t, actor |-> a, claim |-> l])
          /\ contest' = [contest EXCEPT ![t] =
                            @ \cup ({state'.holder[t]} \ {None})]
  BY DEF Confirmed
<1> DEFINE e == [id |-> id, type |-> "claim.confirmed",
                 task |-> t, actor |-> a, claim |-> l]
           h == state.holder[t]
<1>2. Reads(id)
  BY DEF Confirmed
<1>3. /\ IsState(state) /\ contest \in [Tasks -> SUBSET Ids]
      /\ state.holder \in [Tasks -> Ids \cup {None}] /\ l # None
      /\ \A c \in DOMAIN state.claims : state.claims[c] \in ClaimRecord
      /\ h # None => /\ h \in DOMAIN state.claims /\ h \in contest[t]
                     /\ state.claims[h].status = "active"
                     /\ state.claims[h].task = t
  BY <1>2, ReadsFacts DEF Ids, None
<1>4. e.id = id /\ e.task = t /\ e.claim = l
  OBVIOUS
<1> HIDE DEF e
<1>5. CASE /\ state'.claims = state.claims /\ state'.holder = state.holder
           /\ state'.runs = state.runs
  <2>1. contest[t] \cup ({state'.holder[t]} \ {None}) = contest[t]
    BY <1>3, <1>5
  <2>2. contest' = contest
    BY <1>1, <1>3, <2>1
  <2>3. Nothing
    BY <1>5, <2>2 DEF Nothing, SynthKept, Synthesized
  <2> QED BY <2>3 DEF Effect
<1>6. CASE /\ h = l /\ l \in DOMAIN state.claims
           /\ state.claims[l].confirmation = None
           /\ Is(state', state.tasks,
                 [state.claims EXCEPT ![l].confirmation = id],
                 state.holder, state.runs, state.escalations, state.error)
  <2> DEFINE cs == [state.claims EXCEPT ![l].confirmation = id]
  <2>1. /\ DOMAIN cs = DOMAIN state.claims
        /\ \A c \in DOMAIN state.claims \ {l} : cs[c] = state.claims[c]
        /\ cs[l] = [state.claims[l] EXCEPT !.confirmation = id]
    BY <1>6
  <2>2. /\ cs[l].status = "active" /\ cs[l].confirmation = id
        /\ cs[l].task = state.claims[l].task
        /\ cs[l].actor = state.claims[l].actor
    BY <1>3, <1>6, <2>1 DEF ClaimRecord
  <2> HIDE DEF cs
  <2>3. /\ state'.claims = cs /\ state'.holder = state.holder
        /\ state'.runs = state.runs
    BY <1>6 DEF Is, cs
  <2>4. contest[t] \cup ({state'.holder[t]} \ {None}) = contest[t]
    BY <1>3, <2>3
  <2>5. contest' = contest
    BY <1>1, <1>3, <2>4
  <2>6. NoNew /\ KeptBut({h}) /\ Turned(h, "active", id) /\ SynthKept
    BY <1>6, <2>1, <2>2, <2>3
       DEF NoNew, KeptBut, Turned, SynthKept, Synthesized
  <2>7. Confirms(t, id)
    BY <1>3, <1>6, <2>3, <2>5, <2>6 DEF Confirms
  <2> QED BY <2>7 DEF Effect
<1>7. CASE /\ h # None /\ state.claims[h].confirmation = None
           /\ l \in DOMAIN state.claims /\ state.claims[l].task = t
           /\ state.claims[l].status = "voided"
           /\ Is(state', state.tasks,
                 [state.claims EXCEPT ![h].status = "voided",
                                      ![l].status = "active",
                                      ![l].confirmation = id],
                 [state.holder EXCEPT ![t] = l],
                 state.runs, state.escalations, state.error)
  <2> DEFINE cs == [state.claims EXCEPT ![h].status = "voided",
                                        ![l].status = "active",
                                        ![l].confirmation = id]
  <2>1. /\ DOMAIN cs = DOMAIN state.claims /\ h # l
        /\ \A c \in DOMAIN state.claims \ {h, l} : cs[c] = state.claims[c]
        /\ cs[h] = [state.claims[h] EXCEPT !.status = "voided"]
        /\ cs[l] = [state.claims[l] EXCEPT !.status = "active",
                                           !.confirmation = id]
    BY <1>3, <1>7
  <2> HIDE DEF cs
  <2>a. /\ state.claims[l] \in ClaimRecord /\ state.claims[h] \in ClaimRecord
        /\ state.claims[h].confirmation = None
    BY <1>3, <1>7
  <2>2. /\ cs[l].status = "active" /\ cs[l].confirmation = id
        /\ cs[l].task = state.claims[l].task
        /\ cs[l].actor = state.claims[l].actor
    BY <2>1, <2>a DEF ClaimRecord
  <2>3. /\ cs[h].status = "voided" /\ cs[h].confirmation = None
        /\ cs[h].task = state.claims[h].task
        /\ cs[h].actor = state.claims[h].actor
    BY <2>1, <2>a DEF ClaimRecord
  <2>4. /\ state'.claims = cs /\ state'.runs = state.runs
        /\ state'.holder = [state.holder EXCEPT ![t] = l]
    BY <1>7 DEF Is, cs
  <2>5. contest[t] \cup ({state'.holder[t]} \ {None}) = contest[t] \cup {l}
    BY <1>3, <2>4
  <2>6. contest' = [contest EXCEPT ![t] = contest[t] \cup {l}]
    BY <1>1, <1>3, <2>5
  <2>7. NoNew /\ KeptBut({h, l}) /\ SynthKept
    BY <2>1, <2>4 DEF NoNew, KeptBut, SynthKept, Synthesized
  <2>8. Turned(h, "voided", None) /\ Turned(l, "active", id)
    BY <2>2, <2>3, <2>4 DEF Turned
  <2>9. StandsDown(t, l, id)
    BY <1>7, <2>4, <2>6, <2>7, <2>8 DEF StandsDown, Moves
  <2> QED BY <2>9 DEF Effect
<1>8. CASE state' = Malformed(state)
  BY <1>3, <1>5, <1>8, MalformedIsNothing
<1>9. CASE state' = state
  BY <1>5, <1>9
<1>10. IsState(state)
  BY <1>3
<1>11. state' = ClaimConfirmed(state, e) /\ e.task \in Tasks
  BY <1>1, <1>4 DEF e
<1> QED BY <1>10, <1>11, <1>4, <1>6, <1>7, <1>8, <1>9, ClaimConfirmedCases,
           ZenonT(60)

\* A hold that ends, whatever else the event records.
LEMMA EndEffect ==
    ASSUME IInv, NEW id \in Ids, Reads(id), NEW t \in Tasks,
           state.holder[t] # None, ~ state'.error, SynthKept,
           NEW x \in {"released", "finished"},
           state'.claims = [state.claims EXCEPT ![state.holder[t]].status = x],
           state'.holder = [state.holder EXCEPT ![t] = None],
           contest' = [contest EXCEPT ![t] = NextContest(t, id)]
    PROVE  Effect(t, id)
<1> DEFINE h  == state.holder[t]
           cs == [state.claims EXCEPT ![h].status = x]
<1>1. /\ state.holder \in [Tasks -> Ids \cup {None}]
      /\ h \in DOMAIN state.claims /\ state.claims[h] \in ClaimRecord
  BY ReadsFacts
<1>2. /\ DOMAIN cs = DOMAIN state.claims
      /\ \A c \in DOMAIN state.claims \ {h} : cs[c] = state.claims[c]
      /\ cs[h] = [state.claims[h] EXCEPT !.status = x]
  BY <1>1
<1>3. /\ cs[h].status = x
      /\ cs[h].confirmation = state.claims[h].confirmation
      /\ cs[h].task = state.claims[h].task
      /\ cs[h].actor = state.claims[h].actor
  BY <1>1, <1>2 DEF ClaimRecord
<1>4. state'.claims = cs
  OBVIOUS
<1> HIDE DEF cs
<1>5. /\ NoNew /\ KeptBut({h})
      /\ Turned(h, x, state.claims[h].confirmation)
  BY <1>2, <1>3, <1>4 DEF NoNew, KeptBut, Turned
<1>6. state'.holder[t] = None
  BY <1>1
<1>7. NextContest(t, id) = {}
  BY <1>6, ContestFacts
<1>8. Ends(t, x)
  BY <1>5, <1>7 DEF Ends, Moves
<1> QED BY <1>8 DEF Effect

LEMMA ReleasedEffect ==
    ASSUME IInv, NEW id \in Ids, Released(id)
    PROVE  \E t \in Tasks : Effect(t, id)
<1>1. PICK t \in Tasks, a \in Actors :
          /\ state' = ClaimReleased(state, [id |-> id,
                          type |-> "claim.released", task |-> t, actor |-> a])
          /\ contest' = [contest EXCEPT ![t] = NextContest(t, id)]
  BY DEF Released
<1> DEFINE e == [id |-> id, type |-> "claim.released",
                 task |-> t, actor |-> a]
           h == state.holder[t]
<1>2. Reads(id)
  BY DEF Released
<1>3. IsState(state) /\ ~ state.error
  BY <1>2, ReadsFacts
<1>4. e.task = t
  OBVIOUS
<1> HIDE DEF e
<1>5. CASE state' = state
  <2>1. contest' = contest
    BY <1>1, <1>2, <1>5, QuietContest
  <2>2. Nothing
    BY <1>5, <2>1 DEF Nothing, SynthKept, Synthesized
  <2> QED BY <2>2 DEF Effect
<1>6. CASE /\ h # None
           /\ Is(state', state.tasks,
                 [state.claims EXCEPT ![h].status = "released"],
                 [state.holder EXCEPT ![t] = None],
                 state.runs, state.escalations, state.error)
  <2>1. /\ state'.claims = [state.claims EXCEPT ![h].status = "released"]
        /\ state'.holder = [state.holder EXCEPT ![t] = None]
        /\ state'.runs = state.runs /\ state'.error = state.error
    BY <1>6 DEF Is
  <2>2. ~ state'.error /\ SynthKept
    BY <1>3, <2>1 DEF SynthKept, Synthesized
  <2> QED BY <1>1, <1>2, <1>6, <2>1, <2>2, EndEffect
<1> QED BY <1>1, <1>3, <1>4, <1>5, <1>6, ClaimReleasedCases DEF e

\* A recorded run is never a synthesized one.
LEMMA RecordedRun ==
    ASSUME NEW s, IsState(s), NEW e
    PROVE  Synthesized(RunFinished(s, e)) = Synthesized(s)
<1> DEFINE held == HeldBy(s, e.task, e.actor)
           run  == [id |-> e.id, task |-> e.task,
                    claim |-> IF e.claim = None /\ held
                              THEN s.holder[e.task] ELSE e.claim,
                    actor |-> e.actor, outcome |-> e.outcome,
                    named |-> e.claim # None, synthesized |-> FALSE]
<1>1. \/ RunFinished(s, e).runs = s.runs
      \/ RunFinished(s, e).runs = s.runs \cup {run}
  BY DEF RunFinished, Malformed, IsState
<1>2. run.synthesized = FALSE
  OBVIOUS
<1> HIDE DEF run
<1> QED BY <1>1, <1>2 DEF Synthesized

LEMMA FinishedEffect ==
    ASSUME IInv, NEW id \in Ids, Finished(id)
    PROVE  \E t \in Tasks : Effect(t, id)
<1>1. PICK t \in Tasks, a \in Actors, o \in OutcomeChoices,
           c \in {x \in Ids : x < id} \cup {None} :
          /\ state' = RunFinished(state, [id |-> id,
                          type |-> "run.finished", task |-> t, actor |-> a,
                          outcome |-> o, claim |-> c])
          /\ contest' = [contest EXCEPT ![t] = NextContest(t, id)]
  BY DEF Finished
<1> DEFINE e == [id |-> id, type |-> "run.finished", task |-> t, actor |-> a,
                 outcome |-> o, claim |-> c]
           h == state.holder[t]
<1>2. Reads(id)
  BY DEF Finished
<1>3. IsState(state) /\ ~ state.error
  BY <1>2, ReadsFacts
<1>4. /\ e.task = t /\ e.id = id /\ e.actor = a /\ e.claim = c
      /\ e.outcome = o /\ o \in Outcome /\ c \in Ids \cup {None}
  BY LoopAssumption
<1> HIDE DEF e
<1>5. SynthKept
  BY <1>1, <1>3, RecordedRun DEF SynthKept
<1>6. CASE state'.claims = state.claims /\ state'.holder = state.holder
  <2>1. contest' = contest
    BY <1>1, <1>2, <1>6, QuietContest
  <2>2. Nothing
    BY <1>5, <1>6, <2>1 DEF Nothing
  <2> QED BY <2>2 DEF Effect
<1>7. CASE /\ h # None
           /\ \E r \in RunRecord, k \in TaskRecord :
                 Is(state', [state.tasks EXCEPT ![t] = k],
                    [state.claims EXCEPT ![h].status = "finished"],
                    [state.holder EXCEPT ![t] = None],
                    state.runs \cup {r}, state.escalations, state.error)
  <2>1. /\ state'.claims = [state.claims EXCEPT ![h].status = "finished"]
        /\ state'.holder = [state.holder EXCEPT ![t] = None]
        /\ state'.error = state.error
    BY <1>7 DEF Is
  <2>2. ~ state'.error
    BY <1>3, <2>1
  <2> QED BY <1>1, <1>2, <1>5, <1>7, <2>1, <2>2, EndEffect
<1>8. CASE state' = Malformed(state)
  BY <1>3, <1>6, <1>8, MalformedIsNothing
<1>9. CASE \E r \in RunRecord :
              Is(state', state.tasks, state.claims, state.holder,
                 state.runs \cup {r}, state.escalations, state.error)
  BY <1>6, <1>9 DEF Is
<1> QED
  BY <1>1, <1>3, <1>4, <1>7, <1>8, <1>9, RunFinishedCases DEF e

\* The four events that are not about claims leave the runs alone too.
LEMMA TaskEffects ==
    ASSUME IInv, NEW id \in Ids,
           Created(id) \/ Updated(id) \/ Raised(id) \/ Answered(id)
    PROVE  \E t \in Tasks : Effect(t, id)
<1>1. IsState(state) /\ contest' = contest
  BY DEF IInv, TypeOK, Created, Updated, Raised, Answered
<1>2. \A e : /\ TaskCreated(state, e).claims = state.claims
             /\ TaskCreated(state, e).holder = state.holder
             /\ TaskCreated(state, e).runs = state.runs
  BY <1>1 DEF TaskCreated, Malformed, IsState
<1>3. \A e : /\ TaskUpdated(state, e).claims = state.claims
             /\ TaskUpdated(state, e).holder = state.holder
             /\ TaskUpdated(state, e).runs = state.runs
  BY <1>1 DEF TaskUpdated, Malformed, IsState
<1>4. \A e : /\ EscalationRaised(state, e).claims = state.claims
             /\ EscalationRaised(state, e).holder = state.holder
             /\ EscalationRaised(state, e).runs = state.runs
  BY <1>1 DEF EscalationRaised, Malformed, IsState
<1>5. \A e : /\ EscalationAnswered(state, e).claims = state.claims
             /\ EscalationAnswered(state, e).holder = state.holder
             /\ EscalationAnswered(state, e).runs = state.runs
  BY <1>1 DEF EscalationAnswered, Malformed, IsState
<1>6. /\ state'.claims = state.claims /\ state'.holder = state.holder
      /\ state'.runs = state.runs
  BY <1>2, <1>3, <1>4, <1>5 DEF Created, Updated, Raised, Answered
<1>7. Nothing
  BY <1>1, <1>6 DEF Nothing, SynthKept, Synthesized
<1>8. Tasks # {}
  BY DEF Created, Updated, Raised, Answered
<1> QED BY <1>7, <1>8 DEF Effect

LEMMA StepEffect ==
    ASSUME IInv, Next
    PROVE  \E id \in Ids, t \in Tasks : Reads(id) /\ Effect(t, id)
<1>1. PICK id \in Ids :
         \/ Created(id) \/ Updated(id)
         \/ Made(id) \/ Confirmed(id) \/ Released(id) \/ Finished(id)
         \/ Raised(id) \/ Answered(id)
  BY DEF Next
<1>2. Reads(id)
  BY <1>1 DEF Created, Updated, Made, Confirmed, Released, Finished,
     Raised, Answered
<1>3. \E t \in Tasks : Effect(t, id)
  BY <1>1, MadeEffect, ConfirmedEffect, ReleasedEffect, FinishedEffect,
     TaskEffects
<1> QED BY <1>2, <1>3

-----------------------------------------------------------------------------
\* What VerdictsMoveForward asks of a claim whose record changes.
MovesForward(c) ==
    LET old == state.claims[c]
        new == state'.claims[c]
    IN  /\ old.status \notin {"released", "finished", "expired"}
        /\ old.status = "active" /\ new.status = "voided"
              => /\ old.confirmation = None
                 /\ \E d \in DOMAIN state.claims :
                       /\ state.claims[d].task = old.task
                       /\ state.claims[d].confirmation = None
                       /\ state'.claims[d].confirmation = last'
                       /\ state'.claims[d].status = "active"
        /\ old.status = "voided" /\ new.status # "voided"
              => new.status = "active" /\ new.confirmation = last'
        /\ old.confirmation # None
              => new.confirmation = old.confirmation

\* Verdicts of claims only move forward.
LEMMA VerdictsStep ==
    ASSUME IInv, NEW id \in Ids, Reads(id), NEW t \in Tasks, Effect(t, id)
    PROVE  VerdictsMoveForward
<1> DEFINE h == state.holder[t]
<1>1. /\ last' = id /\ id # None
      /\ h # None => /\ h \in DOMAIN state.claims
                     /\ state.claims[h].task = t
                     /\ state.claims[h].status = "active"
  BY ReadsFacts
<1>2. \A c \in DOMAIN state.claims :
         state.claims[c].confirmation # None => state.claims[c].status # "voided"
  BY DEF IInv, Verdicts
<1>3. SUFFICES ASSUME NEW c \in DOMAIN state.claims,
                      state'.claims[c] # state.claims[c]
      PROVE  MovesForward(c)
  BY DEF VerdictsMoveForward, MovesForward
<1>4. CASE Nothing \/ Opens(t, id) \/ Joins(t, id)
  BY <1>3, <1>4 DEF Nothing, Opens, Joins, MovesForward, KeptBut
<1>5. CASE TakesOver(t, id)
  BY <1>1, <1>3, <1>5 DEF TakesOver, MovesForward, KeptBut, Turned
<1>6. CASE Confirms(t, id)
  BY <1>1, <1>3, <1>6 DEF Confirms, MovesForward, KeptBut, Turned
<1>7. ASSUME NEW l \in Ids, StandsDown(t, l, id)
      PROVE  MovesForward(c)
  BY <1>1, <1>2, <1>3, <1>7 DEF StandsDown, MovesForward, KeptBut, Turned
<1>8. CASE \E x \in {"released", "finished"} : Ends(t, x)
  BY <1>1, <1>3, <1>8 DEF Ends, MovesForward, KeptBut, Turned
<1> QED BY <1>4, <1>5, <1>6, <1>7, <1>8 DEF Effect

-----------------------------------------------------------------------------
\* The invariant's winner is the one the abstract referee chooses.
LEMMA WinnerIsHolder ==
    ASSUME NEW cs, NEW h, NEW ct, Verdicts(cs, h, ct),
           NEW t \in Tasks, NEW final,
           \A c : c \in final <=> c \in ct[t] /\ cs[c].confirmation # None
    PROVE  h[t] = Abstract!Winner(ct[t], final)
<1>1. CASE h[t] = None
  <2>1. ct[t] = {}
    BY <1>1 DEF Verdicts
  <2> QED BY <1>1, <2>1 DEF Abstract!Winner, None
<1>2. CASE h[t] # None /\ cs[h[t]].confirmation # None
  <2>1. final = {h[t]}
    BY <1>2 DEF Verdicts
  <2> QED BY <2>1 DEF Abstract!Winner
<1>3. CASE h[t] # None /\ cs[h[t]].confirmation = None
  <2>1. final = {} /\ h[t] \in ct[t]
    BY <1>3 DEF Verdicts
  <2>2. \A c \in ct[t] : h[t] <= c
    BY <1>3 DEF Verdicts
  <2>3. ct[t] \subseteq Int
    BY DEF Verdicts, Ids
  <2>4. h[t] = CHOOSE c \in ct[t] : \A d \in ct[t] : c <= d
    <3>1. \A c \in ct[t] : (\A d \in ct[t] : c <= d) => c = h[t]
      BY <2>1, <2>2, <2>3
    <3> QED BY <2>1, <2>2, <3>1
  <2> QED BY <2>1, <2>4 DEF Abstract!Winner
<1> QED BY <1>1, <1>2, <1>3

\* A step touches the claims of one task only.
LEMMA OthersKept ==
    ASSUME IInv, NEW id \in Ids, Reads(id), NEW t \in Tasks, Effect(t, id)
    PROVE  \A u \in Tasks \ {t} :
              /\ contest'[u] = contest[u]
              /\ Settled(u)' = Settled(u)
              /\ state'.holder[u] = state.holder[u]
<1>1. /\ contest \in [Tasks -> SUBSET Ids]
      /\ state.holder \in [Tasks -> Ids \cup {None}]
      /\ \A u \in Tasks : state.holder[u] # None =>
            state.claims[state.holder[u]].task = u
  BY ReadsFacts
<1>2. \A c \in DOMAIN state.claims :
         state.claims[c].task # t => state'.claims[c] = state.claims[c]
  BY <1>1 DEF Effect, Nothing, Opens, TakesOver, Joins, Confirms,
     StandsDown, Ends, KeptBut
<1>3. \A u \in Tasks \ {t} : /\ contest'[u] = contest[u]
                             /\ state'.holder[u] = state.holder[u]
  BY <1>1 DEF Effect, Nothing, Opens, TakesOver, Joins, Confirms,
     StandsDown, Ends, Moves
<1>4. \A u \in Tasks : \A c \in contest[u] :
         c \in DOMAIN state.claims /\ state.claims[c].task = u
  BY DEF IInv, Verdicts
<1> QED BY <1>2, <1>3, <1>4 DEF Settled

\* What is left to show of a step, once the winner is known to be chosen
\* alike and the other tasks to be left alone.
LEMMA SetStep ==
    ASSUME IInv, IInv', NEW id \in Ids, Reads(id),
           NEW t \in Tasks, Effect(t, id), NEW in, NEW final,
           contest' = [contest EXCEPT ![t] = in], Settled(t)' = final
    PROVE  Abstract!Set(t, in, final)
<1>1. /\ contest \in [Tasks -> SUBSET Ids]
      /\ state.holder \in [Tasks -> Ids \cup {None}]
  BY ReadsFacts
<1>2. /\ Verdicts(state'.claims, state'.holder, contest')
      /\ state'.holder \in [Tasks -> Ids \cup {None}]
  BY DEF IInv, Verdicts
<1>3. contest'[t] = in
  BY <1>1
<1> DEFINE cs == state'.claims
           hs == state'.holder
           ct == contest'
<1>4. /\ Verdicts(cs, hs, ct)
      /\ \A c : c \in final <=> c \in ct[t] /\ cs[c].confirmation # None
  BY <1>2 DEF Settled
<1> HIDE DEF cs, hs, ct
<1>5. hs[t] = Abstract!Winner(ct[t], final)
  BY <1>4, WinnerIsHolder
<1>6. state'.holder[t] = Abstract!Winner(in, final)
  BY <1>3, <1>5 DEF hs, ct
<1>7. \A u \in Tasks \ {t} : /\ Settled(u)' = Settled(u)
                             /\ state'.holder[u] = state.holder[u]
  BY OthersKept
<1>8. state'.holder = [state.holder EXCEPT ![t] = Abstract!Winner(in, final)]
  BY <1>1, <1>2, <1>6, <1>7
<1>9. [u \in Tasks |-> Settled(u)]' =
         [[u \in Tasks |-> Settled(u)] EXCEPT ![t] = final]
  BY <1>7
<1> QED BY <1>8, <1>9 DEF Abstract!Set

LEMMA EffectRefines ==
    ASSUME IInv, IInv', NEW id \in Ids, Reads(id),
           NEW t \in Tasks, Effect(t, id)
    PROVE  \/ Abstract!Next
           \/ /\ contest' = contest /\ state'.holder = state.holder
              /\ \A u \in Tasks : Settled(u)' = Settled(u)
<1> DEFINE h == state.holder[t]
<1>1. /\ contest \in [Tasks -> SUBSET Ids]
      /\ \A c \in contest[t] :
            /\ c \in DOMAIN state.claims /\ c < id /\ c # id
            /\ c # h => state.claims[c].confirmation = None
      /\ h # None => h \in contest[t] /\ h \in Ids
      /\ h = None => contest[t] = {}
  <2>1. /\ contest \in [Tasks -> SUBSET Ids]
        /\ \A c \in DOMAIN state.claims : c < id /\ c # id
        /\ h # None => h \in contest[t] /\ h \in Ids
        /\ Verdicts(state.claims, state.holder, contest)
    BY ReadsFacts
  <2> QED BY <2>1 DEF Verdicts
<1>2. Settled(t) = {c \in contest[t] : state.claims[c].confirmation # None}
  BY DEF Settled
<1>3. Settled(t)' =
         {c \in contest'[t] : state'.claims[c].confirmation # None}
  BY DEF Settled
<1>4. CASE Nothing
  BY <1>4 DEF Nothing, Settled
<1>5. CASE Opens(t, id) \/ TakesOver(t, id)
  <2>1. /\ contest' = [contest EXCEPT ![t] = {id}]
        /\ state'.claims[id].confirmation = None
    BY <1>5 DEF Opens, TakesOver, Moves, New
  <2>2. Settled(t)' = {}
    BY <1>1, <1>3, <2>1
  <2>3. Abstract!Set(t, {id}, {})
    BY <2>1, <2>2, SetStep
  <2>4. Abstract!Open(t, id)
    BY <1>1, <2>3 DEF Abstract!Open
  <2> QED BY <2>4 DEF Abstract!Next
<1>6. CASE Joins(t, id)
  <2>1. /\ contest' = [contest EXCEPT ![t] = contest[t] \cup {id}]
        /\ state'.claims[id].confirmation = None
        /\ \A c \in DOMAIN state.claims : state'.claims[c] = state.claims[c]
        /\ h # None
    BY <1>6 DEF Joins, New, KeptBut
  <2>2. Settled(t)' = Settled(t)
    BY <1>1, <1>2, <1>3, <2>1
  <2>3. Abstract!Set(t, contest[t] \cup {id}, Settled(t))
    BY <2>1, <2>2, SetStep
  <2>4. Abstract!Join(t, id)
    BY <1>1, <2>1, <2>3 DEF Abstract!Join
  <2> QED BY <2>4 DEF Abstract!Next
<1>7. CASE Confirms(t, id)
  <2>1. /\ contest' = contest /\ h # None
        /\ state.claims[h].confirmation = None
        /\ state'.claims[h].confirmation = id
        /\ \A c \in DOMAIN state.claims \ {h} :
              state'.claims[c] = state.claims[c]
    BY <1>7 DEF Confirms, Turned, KeptBut
  <2>2. contest' = [contest EXCEPT ![t] = contest[t] \cup {h}]
    BY <1>1, <2>1
  <2>3. id # None
    BY DEF Ids, None
  <2>4. Settled(t) = {} /\ Settled(t)' = {h}
    BY <1>1, <1>2, <1>3, <2>1, <2>3
  <2>5. Abstract!Set(t, contest[t] \cup {h}, {h})
    BY <2>2, <2>4, SetStep
  <2>6. Abstract!Settle(t, h)
    BY <1>1, <2>1, <2>4, <2>5 DEF Abstract!Settle
  <2> QED BY <1>1, <2>1, <2>6 DEF Abstract!Next
<1>8. ASSUME NEW l \in Ids, StandsDown(t, l, id)
      PROVE  Abstract!Next
  <2>1. /\ contest' = [contest EXCEPT ![t] = contest[t] \cup {l}]
        /\ h # None /\ state.claims[h].confirmation = None
        /\ state'.claims[h].confirmation = None
        /\ state'.claims[l].confirmation = id
        /\ \A c \in DOMAIN state.claims \ {h, l} :
              state'.claims[c] = state.claims[c]
    BY <1>8 DEF StandsDown, Moves, Turned, KeptBut
  <2>2. id # None
    BY DEF Ids, None
  <2>3. Settled(t) = {}
    BY <1>1, <1>2, <2>1
  <2>4. contest'[t] = contest[t] \cup {l}
    BY <1>1, <2>1
  <2>5. Settled(t)' = {l}
    BY <1>1, <1>3, <2>1, <2>2, <2>4
  <2>6. Abstract!Set(t, contest[t] \cup {l}, {l})
    BY <2>1, <2>5, SetStep
  <2>7. Abstract!Settle(t, l)
    BY <1>1, <2>1, <2>3, <2>6 DEF Abstract!Settle
  <2> QED BY <2>7 DEF Abstract!Next
<1>9. CASE \E x \in {"released", "finished"} : Ends(t, x)
  <2>1. contest' = [contest EXCEPT ![t] = {}] /\ h # None
    BY <1>9 DEF Ends, Moves
  <2>2. Settled(t)' = {}
    BY <1>1, <1>3, <2>1
  <2>3. Abstract!Set(t, {}, {})
    BY <2>1, <2>2, SetStep
  <2>4. Abstract!End(t)
    BY <1>1, <2>1, <2>3 DEF Abstract!End
  <2> QED BY <2>4 DEF Abstract!Next
<1> QED BY <1>4, <1>5, <1>6, <1>7, <1>8, <1>9 DEF Effect

\* The claim arms of apply, whatever the ledger, the leases and the clocks:
\* the holders and contests of every replay move as the abstract referee's do,
\* with at most one settlement per contest and the winner it names.
THEOREM LoopImplementsReferee == Spec => ImplementsReferee
<1>1. Init => Abstract!Init
  <2> SUFFICES ASSUME Init PROVE Abstract!Init
    OBVIOUS
  <2>1. \A t \in Tasks : Settled(t) = {}
    BY DEF Init, Settled
  <2> QED BY <2>1 DEF Init, Abstract!Init, InitState, None
<1>2. IInv /\ IInv' /\ [Next]_vars => [Abstract!Next]_Abstract!vars
  <2> SUFFICES ASSUME IInv, IInv', [Next]_vars
               PROVE  Abstract!Next \/ UNCHANGED Abstract!vars
    OBVIOUS
  <2>1. CASE UNCHANGED vars
    BY <2>1 DEF vars, Abstract!vars, Settled
  <2>2. CASE Next
    <3>1. PICK id \in Ids, t \in Tasks : Reads(id) /\ Effect(t, id)
      BY <2>2, StepEffect
    <3>2. \/ Abstract!Next
          \/ /\ contest' = contest /\ state'.holder = state.holder
             /\ \A u \in Tasks : Settled(u)' = Settled(u)
      BY <3>1, EffectRefines
    <3> QED BY <3>2 DEF Abstract!vars
  <2> QED BY <2>1, <2>2
<1> QED
  BY <1>1, <1>2, Invariance, PTL DEF Spec, ImplementsReferee, Abstract!Spec

-----------------------------------------------------------------------------
\* The closing stamp.  A task that is open has none, which makes the stamp of
\* one that stays open the same before and after.
Unstamped(task) == ~ Terminal(task.status) => task.closed = None
AllUnstamped(s) == \A t \in DOMAIN s.tasks : Unstamped(s.tasks[t])

Restamps(old, new, id) ==
    /\ new.status = old.status => new.closed = old.closed
    /\ ~ Terminal(new.status) => new.closed = None
    /\ Terminal(new.status) /\ new.status # old.status => new.closed = id

Stamps(s, n, id) ==
    /\ DOMAIN s.tasks \subseteq DOMAIN n.tasks
    /\ \A t \in DOMAIN n.tasks :
          /\ Unstamped(n.tasks[t])
          /\ t \in DOMAIN s.tasks => Restamps(s.tasks[t], n.tasks[t], id)

LEMMA QuietStamps ==
    ASSUME NEW s, AllUnstamped(s), NEW n, n.tasks = s.tasks, NEW id
    PROVE  Stamps(s, n, id)
BY DEF AllUnstamped, Unstamped, Stamps, Restamps, Terminal

LEMMA OneStamp ==
    ASSUME NEW s, AllUnstamped(s), NEW n, NEW t \in DOMAIN s.tasks, NEW new,
           NEW id, n.tasks = [s.tasks EXCEPT ![t] = new],
           Unstamped(new), Restamps(s.tasks[t], new, id)
    PROVE  Stamps(s, n, id)
<1>1. \A u \in DOMAIN s.tasks \ {t} : n.tasks[u] = s.tasks[u]
  OBVIOUS
<1>2. n.tasks[t] = new /\ DOMAIN n.tasks = DOMAIN s.tasks
  OBVIOUS
<1>3. \A u \in DOMAIN s.tasks \ {t} :
         /\ Unstamped(n.tasks[u])
         /\ Restamps(s.tasks[u], n.tasks[u], id)
  BY <1>1 DEF AllUnstamped, Unstamped, Restamps
<1> QED BY <1>2, <1>3 DEF Stamps

LEMMA CreatedStamps ==
    ASSUME NEW s, IsState(s), AllUnstamped(s), NEW e
    PROVE  Stamps(s, TaskCreated(s, e), e.id)
<1> DEFINE n   == TaskCreated(s, e)
           new == [status |-> e.status, deps |-> e.deps,
                   closed |-> IF Terminal(e.status) THEN e.id ELSE None]
<1>1. CASE e.task \in DOMAIN s.tasks
  <2>1. n.tasks = s.tasks
    BY <1>1 DEF TaskCreated, Malformed, IsState
  <2> QED BY <2>1, QuietStamps
<1>2. CASE e.task \notin DOMAIN s.tasks
  <2>1. Unstamped(new)
    BY DEF Unstamped
  <2>2. n.tasks = Put(s.tasks, e.task, new)
    BY <1>2 DEF TaskCreated, IsState
  <2> HIDE DEF n, new
  <2>3. /\ DOMAIN n.tasks = DOMAIN s.tasks \cup {e.task}
        /\ n.tasks[e.task] = new
        /\ \A t \in DOMAIN s.tasks : n.tasks[t] = s.tasks[t]
    BY <1>2, <2>2 DEF Put
  <2>4. \A t \in DOMAIN s.tasks : /\ Unstamped(n.tasks[t])
                                  /\ Restamps(s.tasks[t], n.tasks[t], e.id)
    BY <2>3 DEF AllUnstamped, Unstamped, Restamps
  <2>5. Stamps(s, n, e.id)
    BY <1>2, <2>1, <2>3, <2>4 DEF Stamps
  <2> QED BY <2>5 DEF n
<1> QED BY <1>1, <1>2

LEMMA UpdatedStamps ==
    ASSUME NEW s, IsState(s), AllUnstamped(s), NEW e
    PROVE  Stamps(s, TaskUpdated(s, e), e.id)
<1> DEFINE n      == TaskUpdated(s, e)
           task   == s.tasks[e.task]
           status == IF e.status = {} THEN task.status
                     ELSE CHOOSE x \in e.status : TRUE
           deps   == IF e.deps = {} THEN task.deps
                     ELSE CHOOSE x \in e.deps : TRUE
           closed == IF e.status = {} THEN task.closed
                     ELSE ClosedAfter(task, status, e.id)
           new    == [status |-> status, deps |-> deps, closed |-> closed]
<1>1. CASE e.task \notin DOMAIN s.tasks
  <2>1. n.tasks = s.tasks
    BY <1>1 DEF TaskUpdated, Malformed, IsState
  <2> QED BY <2>1, QuietStamps
<1>2. CASE e.task \in DOMAIN s.tasks
  <2>1. n.tasks = [s.tasks EXCEPT ![e.task] = new]
    BY <1>2 DEF TaskUpdated, IsState
  <2>2. Unstamped(task)
    BY <1>2 DEF AllUnstamped
  <2>3. new.status = status /\ new.closed = closed
    OBVIOUS
  <2>4. \/ closed = task.closed /\ status = task.status
        \/ closed = ClosedAfter(task, status, e.id)
    OBVIOUS
  <2> HIDE DEF n, new, status, closed, deps, task
  <2>5. Unstamped(new) /\ Restamps(task, new, e.id)
    BY <2>2, <2>3, <2>4 DEF Unstamped, Restamps, ClosedAfter
  <2>6. Stamps(s, n, e.id)
    BY <1>2, <2>1, <2>5, OneStamp DEF task
  <2> QED BY <2>6 DEF n
<1> QED BY <1>1, <1>2

LEMMA FinishedStamps ==
    ASSUME NEW s, IsState(s), AllUnstamped(s), NEW e
    PROVE  Stamps(s, RunFinished(s, e), e.id)
<1> DEFINE n    == RunFinished(s, e)
           task == s.tasks[e.task]
           new  == IF e.outcome # "done" THEN task
                   ELSE [task EXCEPT !.status = "done",
                            !.closed = ClosedAfter(task, "done", e.id)]
<1>1. \/ n.tasks = s.tasks
      \/ e.task \in DOMAIN s.tasks /\ n.tasks = [s.tasks EXCEPT ![e.task] = new]
  BY DEF RunFinished, Malformed, IsState
<1>2. CASE n.tasks = s.tasks
  BY <1>2, QuietStamps
<1>3. CASE /\ e.task \in DOMAIN s.tasks
           /\ n.tasks = [s.tasks EXCEPT ![e.task] = new]
  <2>1. Unstamped(task) /\ task \in TaskRecord
    BY <1>3 DEF AllUnstamped, IsState, IsMap
  <2>2. \/ new.status = task.status /\ new.closed = task.closed
        \/ new.status = "done" /\ new.closed = ClosedAfter(task, "done", e.id)
    BY <2>1 DEF TaskRecord
  <2> HIDE DEF n, new, task
  <2>3. Unstamped(new) /\ Restamps(task, new, e.id)
    BY <2>1, <2>2 DEF Unstamped, Restamps, ClosedAfter, Terminal
  <2>4. Stamps(s, n, e.id)
    BY <1>3, <2>3, OneStamp DEF task
  <2> QED BY <2>4 DEF n
<1> QED BY <1>1, <1>2, <1>3

LEMMA StampStep ==
    ASSUME IInv, AllUnstamped(state), Next
    PROVE  Stamps(state, state', last')
<1>1. PICK id \in Ids :
         \/ Created(id) \/ Updated(id)
         \/ Made(id) \/ Confirmed(id) \/ Released(id) \/ Finished(id)
         \/ Raised(id) \/ Answered(id)
  BY DEF Next
<1>2. IsState(state) /\ last' = id
  BY <1>1 DEF IInv, TypeOK, Created, Updated, Made, Confirmed, Released,
     Finished, Raised, Answered, Reads
<1>3. CASE Created(id)
  <2>1. PICK e : state' = TaskCreated(state, e) /\ e.id = id
    BY <1>3 DEF Created
  <2> QED BY <1>2, <2>1, CreatedStamps
<1>4. CASE Updated(id)
  <2>1. PICK e : state' = TaskUpdated(state, e) /\ e.id = id
    BY <1>4 DEF Updated
  <2> QED BY <1>2, <2>1, UpdatedStamps
<1>5. CASE Finished(id)
  <2>1. PICK e : state' = RunFinished(state, e) /\ e.id = id
    BY <1>5 DEF Finished
  <2> QED BY <1>2, <2>1, FinishedStamps
<1>6. CASE Made(id)
  <2>1. PICK lv, e : state' = ClaimMade(state, lv, e)
    BY <1>6 DEF Made
  <2>2. state'.tasks = state.tasks
    BY <1>2, <2>1 DEF ClaimMade, Malformed, IsState
  <2> QED BY <2>2, QuietStamps
<1>7. CASE Confirmed(id)
  <2>1. PICK e : state' = ClaimConfirmed(state, e)
    BY <1>7 DEF Confirmed
  <2>2. state'.tasks = state.tasks
    BY <1>2, <2>1 DEF ClaimConfirmed, Confirm, Malformed, IsState
  <2> QED BY <2>2, QuietStamps
<1>8. CASE Released(id)
  <2>1. PICK e : state' = ClaimReleased(state, e)
    BY <1>8 DEF Released
  <2>2. state'.tasks = state.tasks
    BY <1>2, <2>1 DEF ClaimReleased, IsState
  <2> QED BY <2>2, QuietStamps
<1>9. CASE Raised(id) \/ Answered(id)
  <2>1. PICK e : \/ state' = EscalationRaised(state, e)
                 \/ state' = EscalationAnswered(state, e)
    BY <1>9 DEF Raised, Answered
  <2>2. state'.tasks = state.tasks
    BY <1>2, <2>1
       DEF EscalationRaised, EscalationAnswered, Malformed, IsState
  <2> QED BY <2>2, QuietStamps
<1> QED BY <1>1, <1>3, <1>4, <1>5, <1>6, <1>7, <1>8, <1>9

-----------------------------------------------------------------------------
\* The traces.  A claim is expired exactly when its interrupted run is there,
\* and no other run is synthesized before Close.
Traces ==
    /\ \A r \in Synthesized(state) :
          \E c \in DOMAIN state.claims : /\ state.claims[c].status = "expired"
                                         /\ r = InterruptedRun(state, c)
    /\ \A c \in DOMAIN state.claims : state.claims[c].status = "expired" =>
          InterruptedRun(state, c) \in Synthesized(state)

LEMMA EffectTraces ==
    ASSUME IInv, Traces, NEW id \in Ids, Reads(id),
           NEW t \in Tasks, Effect(t, id)
    PROVE  Traces'
<1> DEFINE h == state.holder[t]
<1>1. /\ id \notin DOMAIN state.claims
      /\ h # None => /\ h \in DOMAIN state.claims
                     /\ state.claims[h].status = "active"
  BY ReadsFacts
<1>2. \A c \in DOMAIN state.claims :
         /\ c \in DOMAIN state'.claims
         /\ state'.claims[c].task = state.claims[c].task
         /\ state'.claims[c].actor = state.claims[c].actor
  BY <1>1 DEF Effect, Nothing, Opens, TakesOver, Joins, Confirms, StandsDown,
     Ends, New, NoNew, KeptBut, Turned
<1>3. \A c \in DOMAIN state.claims :
         InterruptedRun(state', c) = InterruptedRun(state, c)
  BY <1>2 DEF InterruptedRun
<1>4. \A c \in DOMAIN state'.claims :
         \/ c \in DOMAIN state.claims
         \/ c = id /\ state'.claims[c].status # "expired"
  <2>1. NoNew \/ New(id, t, "active") \/ New(id, t, "voided")
    BY DEF Effect, Nothing, Opens, TakesOver, Joins, Confirms, StandsDown,
       Ends, NoNew
  <2>2. \/ DOMAIN state'.claims = DOMAIN state.claims
        \/ /\ DOMAIN state'.claims = DOMAIN state.claims \cup {id}
           /\ state'.claims[id].status # "expired"
    BY <2>1 DEF New, NoNew
  <2> QED BY <2>2
<1>5. CASE TakesOver(t, id)
  <2>1. /\ h # None
        /\ \A c \in DOMAIN state.claims \ {h} :
              state'.claims[c] = state.claims[c]
        /\ state'.claims[h].status = "expired"
        /\ Synthesized(state') =
              Synthesized(state) \cup {InterruptedRun(state, h)}
    BY <1>5 DEF TakesOver, KeptBut, Turned
  <2>2. \A c \in DOMAIN state.claims :
           state'.claims[c].status = "expired"
              <=> state.claims[c].status = "expired" \/ c = h
    BY <1>1, <2>1
  <2> QED BY <1>1, <1>2, <1>3, <1>4, <2>1, <2>2 DEF Traces, Synthesized
<1>6. CASE ~ TakesOver(t, id)
  <2>1. \A c \in DOMAIN state.claims :
           state'.claims[c].status = "expired"
              <=> state.claims[c].status = "expired"
    BY <1>1, <1>6 DEF Effect, Nothing, Opens, Joins, Confirms, StandsDown,
       Ends, KeptBut, Turned
  <2>2. Synthesized(state') = Synthesized(state)
    BY <1>6 DEF Effect, Nothing, Opens, Joins, Confirms, StandsDown, Ends,
       SynthKept
  <2> QED BY <1>2, <1>3, <1>4, <2>1, <2>2, SMTT(60) DEF Traces, Synthesized
<1> QED BY <1>5, <1>6

\* The four parts of AttemptsLeaveOneTrace, at any instant.
LEMMA TracesAreOne ==
    ASSUME IInv, Traces, NEW now
    PROVE  LET s     == Close(state, leases, now)
               synth == {r \in s.runs : r.synthesized}
               real  == s.runs \ synth
           IN  /\ \A r1, r2 \in synth : r1.claim = r2.claim => r1 = r2
               /\ \A r \in synth : r.outcome = "superseded"
                                       => ~ ClosedByRun(s, real, r.claim)
               /\ \A c \in Lapsed(s, leases, now) :
                     s.claims[c].status \in {"voided", "expired"}
                         => ClosedByRun(s, s.runs, c)
               /\ \A c \in Lapsed(s, leases, now) :
                     s.claims[c].status # "active"
<1> DEFINE s     == Close(state, leases, now)
           synth == {r \in s.runs : r.synthesized}
           real  == s.runs \ synth
           x     == ExpiredHolders(state, leases, now)
           u     == UnreportedLosers(state, leases, now)
           lost  == {c \in DOMAIN state.claims :
                        state.claims[c].status = "expired"}
<1>1. /\ IsState(state) /\ Verdicts(state.claims, state.holder, contest)
      /\ \A r \in state.runs : r \in RunRecord
  BY DEF IInv, TypeOK, IsState
<1>2. /\ DOMAIN s.claims = DOMAIN state.claims
      /\ \A c \in DOMAIN state.claims :
            /\ s.claims[c].task  = state.claims[c].task
            /\ s.claims[c].actor = state.claims[c].actor
            /\ c \in x => s.claims[c].status = "expired"
            /\ c \notin x => s.claims[c] = state.claims[c]
      /\ s.runs = state.runs \cup {InterruptedRun(state, c) : c \in x}
            \cup {SupersededRun(state, c) : c \in u}
  BY <1>1, CloseFacts
<1>3. /\ Lapsed(s, leases, now) = Lapsed(state, leases, now)
      /\ Lapsed(state, leases, now) \subseteq DOMAIN state.claims
  BY <1>2 DEF Lapsed
<1>4. /\ x \subseteq Lapsed(state, leases, now)
      /\ u \subseteq Lapsed(state, leases, now)
      /\ \A c \in x : state.claims[c].status = "active"
      /\ \A c \in u : state.claims[c].status = "voided"
  BY DEF ExpiredHolders, UnreportedLosers
<1>5. \A c : /\ InterruptedRun(state, c).synthesized = TRUE
             /\ InterruptedRun(state, c).claim = c
             /\ InterruptedRun(state, c).outcome = "interrupted"
             /\ SupersededRun(state, c).synthesized = TRUE
             /\ SupersededRun(state, c).claim = c
             /\ SupersededRun(state, c).outcome = "superseded"
  BY DEF InterruptedRun, SupersededRun
<1>6. /\ Synthesized(state) = {InterruptedRun(state, c) : c \in lost}
      /\ Synthesized(state) \subseteq state.runs
  BY DEF Traces, Synthesized
<1>7. real = {r \in state.runs : ~ r.synthesized}
  BY <1>2, <1>5
<1>8. \A r, c : c \in DOMAIN state.claims =>
         (RunCloses(s, r, c) <=> RunCloses(state, r, c))
  BY <1>2 DEF RunCloses
<1> HIDE DEF s, x, u, real
<1>9. synth = {InterruptedRun(state, c) : c \in lost \cup x}
                 \cup {SupersededRun(state, c) : c \in u}
  BY <1>2, <1>5, <1>6 DEF Synthesized
<1>10. \A r1, r2 \in synth : r1.claim = r2.claim => r1 = r2
  BY <1>3, <1>4, <1>5, <1>9
<1>11. ASSUME NEW r \in synth, r.outcome = "superseded"
       PROVE  ~ ClosedByRun(s, real, r.claim)
  <2>1. PICK c \in u : r = SupersededRun(state, c)
    BY <1>5, <1>9, <1>11
  <2>2. r.claim = c /\ c \in DOMAIN state.claims
    BY <1>3, <1>4, <1>5, <2>1
  <2>3. ~ ClosedByRun(state, real, c)
    BY <1>7, <2>1 DEF u, UnreportedLosers
  <2> QED BY <1>8, <2>2, <2>3 DEF ClosedByRun
<1>12. ASSUME NEW c \in Lapsed(state, leases, now)
       PROVE  s.claims[c].status # "active"
  <2>1. c \in DOMAIN state.claims
    BY <1>3
  <2>2. CASE state.claims[c].status = "active"
    <3>1. c \in x
      BY <1>1, <2>1, <2>2 DEF Verdicts, x, ExpiredHolders
    <3> QED BY <1>2, <2>1, <3>1
  <2>3. CASE state.claims[c].status # "active"
    BY <1>2, <2>1, <2>3
  <2> QED BY <2>2, <2>3
<1>13. ASSUME NEW c \in Lapsed(state, leases, now),
              s.claims[c].status \in {"voided", "expired"}
       PROVE  ClosedByRun(s, s.runs, c)
  <2>1. c \in DOMAIN state.claims
    BY <1>3
  <2>2. SUFFICES \E r \in s.runs : RunCloses(s, r, c)
    BY DEF ClosedByRun
  <2>3. CASE c \in x \/ c \in lost
    <3>1. InterruptedRun(state, c) \in s.runs
      BY <1>2, <1>6, <2>3
    <3>2. RunCloses(s, InterruptedRun(state, c), c)
      BY <1>5 DEF RunCloses
    <3> QED BY <3>1, <3>2
  <2>4. CASE c \in u
    <3>1. SupersededRun(state, c) \in s.runs
      BY <1>2, <2>4
    <3>2. RunCloses(s, SupersededRun(state, c), c)
      BY <1>5 DEF RunCloses
    <3> QED BY <3>1, <3>2
  <2>5. CASE c \notin x /\ c \notin lost /\ c \notin u
    <3>1. state.claims[c].status = "voided"
      BY <1>2, <1>13, <2>1, <2>5
    <3>2. ClosedByRun(state, real, c)
      BY <1>7, <2>5, <3>1 DEF u, UnreportedLosers
    <3>3. real \subseteq s.runs
      BY DEF real
    <3> QED BY <1>8, <2>1, <3>2, <3>3 DEF ClosedByRun
  <2> QED BY <2>3, <2>4, <2>5
<1> QED BY <1>3, <1>10, <1>11, <1>12, <1>13 DEF s, real

-----------------------------------------------------------------------------
\* The inductive invariant of this module, on top of IInv.
Kept == AllUnstamped(state) /\ Traces

LEMMA KeptInit == ASSUME Init PROVE Kept
BY DEF Init, InitState, Empty, Kept, AllUnstamped, Traces, Synthesized

LEMMA KeptStep ==
    ASSUME IInv, Kept, [Next]_vars
    PROVE  Kept' /\ [VerdictsMoveForward /\ StampIsKept]_vars
<1>1. CASE UNCHANGED vars
  BY <1>1 DEF vars, Kept, AllUnstamped, Traces
<1>2. CASE Next
  <2>1. PICK id \in Ids, t \in Tasks : Reads(id) /\ Effect(t, id)
    BY <1>2, StepEffect
  <2>2. Traces' /\ VerdictsMoveForward
    BY <2>1, EffectTraces, VerdictsStep DEF Kept
  <2>3. Stamps(state, state', last')
    BY <1>2, StampStep DEF Kept
  <2>4. AllUnstamped(state') /\ StampIsKept
    BY <2>3 DEF Stamps, AllUnstamped, StampIsKept, Restamps
  <2> QED BY <2>2, <2>4 DEF Kept
<1> QED BY <1>1, <1>2

LEMMA AlwaysKept == Spec => []Kept
BY KeptInit, KeptStep, Invariance, PTL DEF Spec

\* The claim arms of apply and the stamp of the task arms: no event of any
\* ledger takes back what an earlier one settled.  Ended claims stay ended,
\* a confirmation is never replaced, a holder yields only to a claim confirmed
\* in that step, and a closed task keeps the stamp of the event that closed it.
THEOREM NothingIsTakenBack == Spec => VerdictsOnlyMoveForward
BY KeptStep, AlwaysKept, Invariance, PTL DEF Spec, VerdictsOnlyMoveForward

\* The pass over the leases in Replay, at any instant of any ledger: every
\* attempt that can neither be reported nor hold the task has left a trace,
\* and none has two synthesized closes or a superseded beside a recorded one.
THEOREM OneTracePerAttempt == Spec => []AttemptsLeaveOneTrace
<1>1. IInv /\ Kept => AttemptsLeaveOneTrace
  BY TracesAreOne DEF Kept, AttemptsLeaveOneTrace
<1> QED BY <1>1, AlwaysKept, Invariance, PTL
=============================================================================
