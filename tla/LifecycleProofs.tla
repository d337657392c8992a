--------------------------- MODULE LifecycleProofs ---------------------------
(***************************************************************************)
(* One daemon at a time, torn down cleanly, for any clients and worlds.    *)
(*                                                                         *)
(* What a process has reached says what it holds ("Fit", of the process    *)
(* alone; "Holds", with the files).  Whoever holds the lock may do with    *)
(* the files what it wants, for nobody else has a claim on them; who was   *)
(* overtaken by its shut-down may still unlink the socket, and the others  *)
(* claim to be bound to it only while there is no such process.  So a step *)
(* of one process never disturbs another ("StepOfOne"), and every action   *)
(* is a matter of its own process.                                         *)
(***************************************************************************)
EXTENDS Lifecycle, TLAPS

\* The ranges of the variables, as TypeOK has them.
Files == [lock   : Clients \cup {Nobody},
          socket : Clients \cup {Nobody, Stale},
          json   : Clients \cup {Nobody, Stale}]

Clones == [pointer : Homes \cup {"absent", "broken"},
           config  : Homes \cup {"unset", "broken"},
           branch  : {"none", "adopted", "minted"}]

Callers == [at  : {"idle", "looking", "awaiting", "asking", "parked",
                   "ready", "writing", "done", "failed"},
            to  : Clients \cup {Nobody},
            why : {"none", "exited", "ceiling", "loading"}]

Up    == {"running", "serving", "leaving"}
Early == {"no", "begun", "draining"}
Final == {"syncing", "removing", "unlocking", "done"}

\* How far main, start, the loop and Shutdown may be apart from each other.
Fit(q) ==
    /\ q.main \notin Up => q.load = "none"
    /\ q.main \notin Up \cup {"announced"} => q.down = "no"
    /\ q.down \notin Early \cup {"drained"} =>
          q.main \in Up /\ q.load \in {"closed", "failed", "running", "over"}
    /\ q.main = "running" /\ q.down \in {"unlocking", "done"} => q.overtaken
    /\ q.overtaken => q.down \in {"unlocking", "done"} \/ q.main = "exited"
    /\ q.listening => q.main \in {"bound", "announced", "running", "serving"}
    /\ q.main \in {"bound", "announced", "running"} => q.listening
    /\ q.main = "serving" => (q.listening <=> q.down \in {"no", "begun"})
    /\ q.loaded => q.load \in {"closed", "running", "over"}
    /\ q.load \in {"closed", "running"} => q.loaded
    /\ q.loop # "none" => q.loaded /\ q.load = "over"
    /\ q.pending # {} => q.loaded
    /\ q.down \in Final \cup {"joining"} => q.halt \/ ~ q.loaded
    /\ q.down \in Final => q.loop \in {"none", "over"}
    /\ q.down \in Final \cup {"halting", "joining"} /\ q.pending # {} =>
          q.overran \/ q.flushFailed

Working(q) == q.main \notin {"none", "started", "exited"} /\ q.down # "done"

\* What the files say of a process.
Holds(p, q, f) ==
    /\ Working(q) => f.lock = p
    /\ q.listening /\ f.socket = p => f.lock = p
    /\ q.down \in {"unlocking", "done"} => f.socket # p
    /\ q.main \in {"announced", "running", "serving"} /\ q.down = "no" =>
          f.json = p

\* What they say of it while no shut-down has overtaken a Serve.
Bound(p, q, f) ==
    q.listening /\ (\A s \in Clients : ~ proc[s].overtaken) =>
        q.overtaken \/ f.socket = p

\* What p may do with the files.
Allowed(p, q) ==
    /\ files' \in Files /\ files'.socket \in {files.socket, p, Nobody}
    /\ \/ files' = files \/ files.lock \in {Nobody, p}
       \/ q.overtaken /\ files' = [files EXCEPT !.socket = Nobody]

\* A write that arrives after the drain: the drain gave up on it, or it is in
\* the backlog of a listener that nobody accepts from.
Late(q) == q.down \notin Early
Harmless(q) == q.overran \/ q.main # "serving"

\* What a target found in the pointer file leaves in the clone's config.
Remembered(q, c) == q.target \in Homes /\ q.recorded => c.config \in Homes

\* The inductive invariant.
IInv ==
    /\ TypeOK
    /\ \A p \in Clients : Fit(proc[p])
    /\ \A p \in Clients : Holds(p, proc[p], files)
    /\ \A p \in Clients : Bound(p, proc[p], files)
    /\ \A p \in Clients : Remembered(proc[p], clone)
    /\ \A c \in Clients :
          /\ client[c].at \in {"idle", "looking"} => proc[c].main = "none"
          /\ client[c].at \in {"parked", "writing"} => client[c].to \in Clients
          /\ client[c].at = "writing" /\ Late(proc[client[c].to]) =>
                Harmless(proc[client[c].to])

------------------------------------------------------------------------------
\* A step of one process, with the lock in its hand or no file changed but by a
\* late Serve, leaves everybody else as they were.
LEMMA StepOfOne ==
    ASSUME IInv, NEW p \in Clients, NEW q \in Stages, Fit(q),
           proc' = [proc EXCEPT ![p] = q],
           Allowed(p, q), Holds(p, q, files'), Bound(p, q, files'),
           proc[p].overtaken => q.overtaken,
           world' = world,
           clone' \in Clones,
           clone'.config = clone.config \/ clone'.config \in Homes,
           Remembered(q, clone'),
           client' \in [Clients -> Callers],
           \A c \in Clients : \/ client'[c] = client[c]
                              \/ client'[c].at \in {"awaiting", "done"},
           client'[p].at \notin {"idle", "looking"},
           Late(q) => \/ Late(proc[p]) /\ (Harmless(proc[p]) => Harmless(q))
                      \/ q.overran
                      \/ Requests(p) = {} /\ q.main = proc[p].main
    PROVE  IInv'
<1>1. proc \in [Clients -> Stages] /\ proc' \in [Clients -> Stages]
  BY DEF IInv, TypeOK
<1>2. proc'[p] = q /\ \A r \in Clients \ {p} : proc'[r] = proc[r]
  BY <1>1
<1>3. TypeOK'
  BY <1>1 DEF IInv, TypeOK, Files, Clones, Callers, Allowed
<1>4. \A r \in Clients : Fit(proc'[r])
  BY <1>2 DEF IInv
<1>5. ASSUME NEW r \in Clients \ {p}
      PROVE  /\ Holds(r, proc[r], files')
             /\ proc[r].listening /\ files.socket = r =>
                   files'.socket = r \/ q.overtaken
  <2>1. r # Nobody /\ Holds(r, proc[r], files) /\ files \in Files
    BY LifecycleAssumption DEF Nobody, IInv, TypeOK, Files
  <2>2. CASE files' = files
    BY <2>1, <2>2
  <2>3. CASE files.lock \in {Nobody, p}
    <3>1. /\ ~ Working(proc[r])
          /\ ~ (proc[r].listening /\ files.socket = r)
          /\ files'.socket = r => files.socket = r
      BY <2>1, <2>3 DEF Holds, Allowed
    <3>2. proc[r].main = "running" => proc[r].down # "no"
      BY <3>1 DEF Working
    <3>3. ~ (/\ proc[r].main \in {"announced", "running", "serving"}
             /\ proc[r].down = "no")
      BY <3>1, <3>2 DEF IInv, Fit, Working
    <3> QED
      BY <2>1, <3>1, <3>3 DEF Holds
  <2>4. CASE q.overtaken /\ files' = [files EXCEPT !.socket = Nobody]
    BY <2>1, <2>4 DEF Holds, Files
  <2> QED
    BY <2>2, <2>3, <2>4 DEF Allowed
<1>6. \A r \in Clients : Holds(r, proc'[r], files')
  BY <1>2, <1>5
<1>9. ASSUME NEW r \in Clients
      PROVE  Bound(r, proc[r], files)'
  <2> SUFFICES ASSUME proc'[r].listening,
                      \A s \in Clients : ~ proc'[s].overtaken
               PROVE  files'.socket = r
    BY DEF Bound
  <2>1. ~ q.overtaken /\ (\A s \in Clients : ~ proc[s].overtaken)
    BY <1>2
  <2>2. CASE r = p
    BY <1>2, <2>1, <2>2 DEF Bound
  <2>3. CASE r # p
    <3>1. proc[r].listening
      BY <1>2, <2>3
    <3>2. files.socket = r
      BY <2>1, <3>1 DEF IInv, Bound
    <3> QED
      BY <1>5, <2>1, <2>3, <3>1, <3>2
  <2> QED
    BY <2>2, <2>3
<1>7. \A r \in Clients : Remembered(proc'[r], clone')
  BY <1>2 DEF IInv, Remembered
<1>8. ASSUME NEW c \in Clients
      PROVE  /\ client'[c].at \in {"idle", "looking"} => proc'[c].main = "none"
             /\ client'[c].at \in {"parked", "writing"} =>
                   client'[c].to \in Clients
             /\ client'[c].at = "writing" /\ Late(proc'[client'[c].to]) =>
                   Harmless(proc'[client'[c].to])
  <2>1. CASE client'[c].at \in {"awaiting", "done"}
    BY <2>1
  <2>2. CASE client'[c] = client[c]
    <3>1. client'[c].at \in {"idle", "looking"} => proc'[c].main = "none"
      BY <1>2, <2>2 DEF IInv
    <3>2. client'[c].at \in {"parked", "writing"} => client'[c].to \in Clients
      BY <2>2 DEF IInv
    <3>3. ASSUME client[c].at = "writing", Late(proc'[client[c].to])
          PROVE  Harmless(proc'[client[c].to])
      <4>1. client[c].to \in Clients
        BY <3>3 DEF IInv
      <4>2. CASE client[c].to # p
        BY <1>2, <3>3, <4>1, <4>2 DEF IInv
      <4>3. CASE client[c].to = p
        <5>1. Requests(p) # {} \/ proc[p].main # "serving"
          BY <3>3, <4>3 DEF Requests
        <5>2. Late(q) /\ (Late(proc[p]) => Harmless(proc[p]))
          BY <1>2, <3>3, <4>3 DEF IInv
        <5> QED
          BY <1>2, <4>3, <5>1, <5>2 DEF Harmless
      <4> QED
        BY <4>2, <4>3
    <3> QED
      BY <2>2, <3>1, <3>2, <3>3
  <2> QED
    BY <2>1, <2>2
<1> QED
  BY <1>3, <1>4, <1>6, <1>7, <1>8, <1>9 DEF IInv

\* A step of one command that leaves the processes alone.
LEMMA StepOfACommand ==
    ASSUME IInv, NEW c \in Clients, NEW d \in Callers,
           client' = [client EXCEPT ![c] = d],
           UNCHANGED <<world, files, clone, proc>>,
           d.at = "looking" => client[c].at = "idle",
           d.at # "idle",
           d.at \in {"parked", "writing"} => d.to \in Clients,
           d.at = "writing" => ~ Late(proc[d.to]) \/ Harmless(proc[d.to])
    PROVE  IInv'
<1>1. client \in [Clients -> Callers]
  BY DEF IInv, TypeOK, Callers
<1>2. client'[c] = d /\ \A b \in Clients \ {c} : client'[b] = client[b]
  BY <1>1
<1>3. TypeOK'
  BY <1>1 DEF IInv, TypeOK, Callers
<1>4. ASSUME NEW b \in Clients
      PROVE  /\ client'[b].at \in {"idle", "looking"} => proc'[b].main = "none"
             /\ client'[b].at \in {"parked", "writing"} =>
                   client'[b].to \in Clients
             /\ client'[b].at = "writing" /\ Late(proc'[client'[b].to]) =>
                   Harmless(proc'[client'[b].to])
  <2>1. CASE b = c
    BY <1>2, <2>1 DEF IInv
  <2>2. CASE b # c
    BY <1>2, <2>2 DEF IInv
  <2> QED
    BY <2>1, <2>2
<1>5. \A p \in Clients : Bound(p, proc[p], files)'
  BY DEF IInv, Bound
<1> QED
  BY <1>3, <1>4, <1>5 DEF IInv

\* A step that the files and the clone have no part in, of a goroutine of p
\* other than New's.
Beside(q, r) ==
    /\ q.main = r.main /\ q.listening = r.listening
    /\ q.target = r.target /\ q.recorded = r.recorded
    /\ q.overtaken = r.overtaken /\ r.main # "none"
    /\ \/ q.down = r.down
       \/ /\ r.down \notin {"unlocking", "done"}
          /\ q.down \notin {"no", "unlocking", "done"}

LEMMA StepBeside ==
    ASSUME IInv, NEW p \in Clients, NEW q \in Stages, Fit(q),
           proc' = [proc EXCEPT ![p] = q],
           UNCHANGED <<world, files, clone, client>>,
           Beside(q, proc[p]),
           Late(q) => \/ Late(proc[p]) /\ (Harmless(proc[p]) => Harmless(q))
                      \/ q.overran \/ Requests(p) = {}
    PROVE  IInv'
<1>1. Allowed(p, q) /\ clone' \in Clones /\ client' \in [Clients -> Callers]
  BY DEF IInv, TypeOK, Files, Clones, Callers, Allowed
<1>2. Holds(p, q, files') /\ Remembered(q, clone') /\ Bound(p, q, files')
  BY DEF IInv, Beside, Holds, Bound, Working, Remembered
<1>4. (proc[p].overtaken => q.overtaken) /\ q.main = proc[p].main
  BY DEF Beside
<1>3. client'[p].at \notin {"idle", "looking"}
  BY DEF IInv, Beside
<1> QED
  BY <1>1, <1>2, <1>3, <1>4, StepOfOne

\* start, and the loop it ends in.
LEMMA StartIsSafe ==
    ASSUME IInv, NEW p \in Clients,
           \/ StartCheck(p) \/ Adopt(p) \/ LoadEnds(p) \/ LoadClosed(p)
           \/ RunLoop(p) \/ Loop(p)
    PROVE  IInv'
<1> DEFINE r == proc[p]
<1>1. r \in Stages /\ Fit(r) /\ proc \in [Clients -> Stages]
  BY DEF IInv, TypeOK
<1>2. ASSUME NEW q \in Stages, Fit(q), proc' = [proc EXCEPT ![p] = q],
             UNCHANGED <<world, files, clone, client>>,
             Beside(q, r), Late(q) => Late(r) /\ (Harmless(r) => Harmless(q))
      PROVE  IInv'
  BY <1>2, StepBeside
<1>3. CASE StartCheck(p)
  <2> DEFINE q == [r EXCEPT !.load = IF Stopping(p) THEN "over"
                                     ELSE "adopting"]
  <2>1. q \in Stages /\ proc' = [proc EXCEPT ![p] = q]
    BY <1>1, <1>3 DEF StartCheck, Stages
  <2>2. Fit(q)
    BY <1>1, <1>3 DEF StartCheck, Stages, Stopping, Fit, Up, Early, Final
  <2>3. Beside(q, r) /\ (Late(q) => Late(r) /\ (Harmless(r) => Harmless(q)))
    BY <1>1, <1>3 DEF StartCheck, Stages, Stopping, Fit, Up, Early, Beside,
                      Late, Harmless
  <2> HIDE DEF q
  <2> QED
    BY <1>2, <1>3, <2>1, <2>2, <2>3 DEF StartCheck
<1>4. CASE Adopt(p)
  <2>1. PICK load \in {"fetched", "initing"} :
            proc' = [proc EXCEPT ![p].load = load]
    BY <1>4 DEF Adopt
  <2> DEFINE q == [r EXCEPT !.load = load]
  <2>2. q \in Stages /\ proc' = [proc EXCEPT ![p] = q]
    BY <1>1, <2>1 DEF Stages
  <2>3. Fit(q)
    BY <1>1, <1>4 DEF Adopt, Stages, Fit, Up, Early, Final
  <2>4. Beside(q, r) /\ (Late(q) => Late(r) /\ (Harmless(r) => Harmless(q)))
    BY <1>1, <1>4 DEF Adopt, Stages, Fit, Up, Early, Beside, Late, Harmless
  <2> HIDE DEF q
  <2> QED
    BY <1>2, <1>4, <2>2, <2>3, <2>4 DEF Adopt
<1>5. CASE LoadEnds(p)
  <2>1. PICK q \in {[r EXCEPT !.load = "closed", !.loaded = TRUE],
                    [r EXCEPT !.load = "failed"]} :
            proc' = [proc EXCEPT ![p] = q]
    BY <1>1, <1>5 DEF LoadEnds
  <2>2. q \in Stages
    <3>1. [r EXCEPT !.load = "closed", !.loaded = TRUE] \in Stages
      BY <1>1 DEF Stages
    <3>2. [r EXCEPT !.load = "failed"] \in Stages
      BY <1>1 DEF Stages
    <3> QED
      BY <2>1, <3>1, <3>2
  <2>3. Fit(q)
    BY <1>1, <1>5, <2>1, ZenonT(60) DEF LoadEnds, Stages, Fit, Up, Early, Final
  <2>4. Beside(q, r) /\ (Late(q) => Late(r) /\ (Harmless(r) => Harmless(q)))
    BY <1>1, <1>5, <2>1 DEF LoadEnds, Stages, Fit, Up, Early, Beside, Late,
                            Harmless
  <2> QED
    BY <1>2, <1>5, <2>1, <2>2, <2>3, <2>4 DEF LoadEnds
<1>6. CASE LoadClosed(p)
  <2>1. PICK q \in {[r EXCEPT !.down = "begun"],
                    [r EXCEPT !.load = IF Stopping(p) THEN "over"
                                       ELSE "running"]} :
            /\ proc' = [proc EXCEPT ![p] = q]
            /\ \/ r.load = "failed" /\ q = [r EXCEPT !.down = "begun"]
                                    /\ ~ Stopping(p)
               \/ r.load = "closed" /\ q = [r EXCEPT !.load =
                              IF Stopping(p) THEN "over" ELSE "running"]
    BY <1>1, <1>6 DEF LoadClosed
  <2>2. q \in Stages
    BY <1>1, <2>1 DEF Stages
  <2>3. Fit(q)
    BY <1>1, <2>1 DEF Stages, Stopping, Fit, Up, Early, Final
  <2>4. Beside(q, r) /\ (Late(q) => Late(r) /\ (Harmless(r) => Harmless(q)))
    BY <1>1, <2>1 DEF Stages, Stopping, Fit, Up, Early, Beside, Late, Harmless
  <2> QED
    BY <1>2, <1>6, <2>1, <2>2, <2>3, <2>4 DEF LoadClosed
<1>7. CASE RunLoop(p)
  <2> DEFINE q == [r EXCEPT !.load = "over",
                            !.loop = IF r.halt THEN "none" ELSE "cycling"]
  <2>1. q \in Stages /\ proc' = [proc EXCEPT ![p] = q]
    BY <1>1, <1>7, ZenonT(60) DEF RunLoop, Stages
  <2>2. Fit(q)
    BY <1>1, <1>7 DEF RunLoop, Stages, Fit, Up, Early, Final
  <2>3. Beside(q, r) /\ (Late(q) => Late(r) /\ (Harmless(r) => Harmless(q)))
    BY <1>1, <1>7 DEF RunLoop, Stages, Fit, Up, Early, Beside, Late, Harmless
  <2> HIDE DEF q
  <2> QED
    BY <1>2, <1>7, <2>1, <2>2, <2>3 DEF RunLoop
<1>8. CASE Loop(p)
  <2>1. PICK loop \in {"cycling", "waiting", "over"} :
            /\ proc' = [proc EXCEPT ![p].loop = loop]
            /\ r.loop \in {"cycling", "waiting"}
    BY <1>8 DEF Loop
  <2> DEFINE q == [r EXCEPT !.loop = loop]
  <2>2. q \in Stages /\ proc' = [proc EXCEPT ![p] = q]
    BY <1>1, <2>1 DEF Stages
  <2>3. Fit(q)
    BY <1>1, <2>1 DEF Stages, Fit, Up, Early, Final
  <2>4. Beside(q, r) /\ (Late(q) => Late(r) /\ (Harmless(r) => Harmless(q)))
    BY <1>1, <2>1 DEF Stages, Fit, Up, Early, Beside, Late, Harmless
  <2> HIDE DEF q
  <2> QED
    BY <1>2, <1>8, <2>2, <2>3, <2>4 DEF Loop
<1> QED
  BY <1>3, <1>4, <1>5, <1>6, <1>7, <1>8

\* A field of a process at a time.
LEMMA FieldsAreTyped ==
    ASSUME NEW r \in Stages
    PROVE  /\ \A b \in BOOLEAN : [r EXCEPT !.listening = b] \in Stages
           /\ \A b \in BOOLEAN : [r EXCEPT !.overtaken = b] \in Stages
           /\ \A b \in BOOLEAN : [r EXCEPT !.recorded = b] \in Stages
           /\ \A t \in Homes \cup {"origin", "none"} :
                 [r EXCEPT !.target = t] \in Stages
           /\ \A c \in {"none", "died", "running", "ended", "killed"} :
                 [r EXCEPT !.code = c] \in Stages
<1>1. ASSUME NEW b \in BOOLEAN
      PROVE  [r EXCEPT !.listening = b] \in Stages
  BY DEF Stages
<1>2. ASSUME NEW b \in BOOLEAN
      PROVE  [r EXCEPT !.recorded = b] \in Stages
  BY DEF Stages
<1>3. ASSUME NEW t \in Homes \cup {"origin", "none"}
      PROVE  [r EXCEPT !.target = t] \in Stages
  BY DEF Stages
<1>4. ASSUME NEW c \in {"none", "died", "running", "ended", "killed"}
      PROVE  [r EXCEPT !.code = c] \in Stages
  BY DEF Stages
<1>5. ASSUME NEW b \in BOOLEAN
      PROVE  [r EXCEPT !.overtaken = b] \in Stages
  BY DEF Stages
<1> QED
  BY <1>1, <1>2, <1>3, <1>4, <1>5

\* The branch is adopted or minted.
LEMMA BranchIsSafe ==
    ASSUME IInv, NEW p \in Clients, FastForward(p) \/ MintBranch(p)
    PROVE  IInv'
<1> DEFINE r == proc[p]
<1>1. r \in Stages /\ Fit(r) /\ proc \in [Clients -> Stages]
  BY DEF IInv, TypeOK
<1>2. PICK load \in {"initing", "loading"} :
          /\ proc' = [proc EXCEPT ![p].load = load]
          /\ r.load \in {"fetched", "initing"}
  BY DEF FastForward, MintBranch
<1> DEFINE q == [r EXCEPT !.load = load]
<1>3. q \in Stages /\ proc' = [proc EXCEPT ![p] = q]
  BY <1>1, <1>2 DEF Stages
<1>4. Fit(q)
  BY <1>1, <1>2 DEF Stages, Fit, Up, Early, Final
<1>5. Late(q) => Late(r) /\ (Harmless(r) => Harmless(q))
  BY <1>1, <1>2 DEF Stages, Late, Harmless
<1>6. clone' \in Clones /\ clone'.config = clone.config
  BY DEF IInv, TypeOK, Clones, FastForward, MintBranch
<1>7. UNCHANGED <<world, files, client>>
  BY DEF FastForward, MintBranch
<1>8. Allowed(p, q) /\ client' \in [Clients -> Callers]
  BY <1>7 DEF IInv, TypeOK, Files, Callers, Allowed
<1>9. /\ Holds(p, q, files') /\ Remembered(q, clone')
      /\ Bound(p, q, files') /\ (r.overtaken => q.overtaken)
  BY <1>1, <1>2, <1>6, <1>7
     DEF IInv, Stages, Holds, Bound, Working, Remembered
<1>10. client'[p].at \notin {"idle", "looking"}
  BY <1>1, <1>2, <1>7 DEF IInv, Fit, Up
<1> HIDE DEF q
<1> QED
  BY <1>3, <1>4, <1>5, <1>6, <1>7, <1>8, <1>9, <1>10, StepOfOne

------------------------------------------------------------------------------
\* A step of main or of Shutdown that may have to do with the files.
LEMMA StepWithFiles ==
    ASSUME IInv, NEW p \in Clients, NEW q \in Stages, Fit(q),
           proc' = [proc EXCEPT ![p] = q],
           Allowed(p, q), Holds(p, q, files'), Bound(p, q, files'),
           proc[p].overtaken => q.overtaken,
           UNCHANGED <<world, clone, client>>,
           proc[p].main # "none",
           q.target = proc[p].target, q.recorded = proc[p].recorded,
           ~ Late(q) \/ (Late(proc[p]) /\ (Harmless(proc[p]) => Harmless(q)))
    PROVE  IInv'
<1>1. clone' \in Clones /\ client' \in [Clients -> Callers]
  BY DEF IInv, TypeOK, Clones, Callers
<1>2. Remembered(q, clone')
  BY DEF IInv, Remembered
<1>3. client'[p].at \notin {"idle", "looking"}
  BY DEF IInv
<1> QED
  BY <1>1, <1>2, <1>3, StepOfOne

\* A process that ends gives back the lock and nothing else.
LEMMA EndIsSafe ==
    ASSUME IInv, NEW p \in Clients,
           NEW code \in {"died", "running", "ended", "killed"},
           proc[p].main # "none",
           proc' = Gone(p, code),
           UNCHANGED <<world, clone, client>>,
           \/ files' = Unlocked(p) \/ files' = files
           \/ files' = [Unlocked(p) EXCEPT !.socket = Nobody] /\ files.lock = p
    PROVE  IInv'
<1> DEFINE q == [Unborn EXCEPT !.main = "exited", !.code = code,
                               !.target    = proc[p].target,
                               !.recorded  = proc[p].recorded,
                               !.overtaken = proc[p].overtaken]
<1>1. proc[p] \in Stages /\ files \in Files
  BY DEF IInv, TypeOK, Files
<1>2. q \in Stages /\ proc' = [proc EXCEPT ![p] = q]
  <2>1. proc' = [proc EXCEPT ![p] = q]
    BY DEF Gone
  <2>2. Unborn \in Stages
    BY Zenon DEF Unborn, Stages
  <2>3. /\ proc[p].target \in Homes \cup {"origin", "none"}
        /\ proc[p].recorded \in BOOLEAN /\ proc[p].overtaken \in BOOLEAN
    BY <1>1 DEF Stages
  <2> DEFINE q1 == [Unborn EXCEPT !.main = "exited"]
             q2 == [q1 EXCEPT !.code = code]
             q3 == [q2 EXCEPT !.target = proc[p].target]
             q4 == [q3 EXCEPT !.recorded = proc[p].recorded]
  <2>4. q1 \in Stages
    BY <2>2 DEF Stages
  <2>5. q2 \in Stages
    <3> HIDE DEF q1
    <3> QED
      BY <2>4, FieldsAreTyped
  <2>6. q3 \in Stages
    <3> HIDE DEF q1, q2
    <3> QED
      BY <2>3, <2>5, FieldsAreTyped
  <2>7. q4 \in Stages
    <3> HIDE DEF q1, q2, q3
    <3> QED
      BY <2>3, <2>6, FieldsAreTyped
  <2>8. [q4 EXCEPT !.overtaken = proc[p].overtaken] \in Stages
    <3> HIDE DEF q1, q2, q3, q4
    <3> QED
      BY <2>3, <2>7, FieldsAreTyped
  <2> QED
    BY <2>1, <2>8
<1>3. Fit(q) /\ ~ Late(q) /\ (\A f : Holds(p, q, f) /\ Bound(p, q, f))
  BY DEF Unborn, Fit, Up, Early, Final, Late, Holds, Bound, Working
<1>4. /\ q.target = proc[p].target /\ q.recorded = proc[p].recorded
      /\ q.overtaken = proc[p].overtaken
  BY DEF Unborn
<1>5. Allowed(p, q)
  BY <1>1 DEF Files, Unlocked, Allowed
<1> HIDE DEF q
<1> QED
  BY <1>2, <1>3, <1>4, <1>5, StepWithFiles

\* New and Run, from the lock to the exit.
LEMMA MainIsSafe ==
    ASSUME IInv, NEW p \in Clients, Main(p) \/ StartFails(p) \/ Kill(p)
    PROVE  IInv'
<1> DEFINE r == proc[p]
<1>1. /\ r \in Stages /\ Fit(r) /\ proc \in [Clients -> Stages]
      /\ files \in Files /\ Holds(p, r, files) /\ Bound(p, r, files)
  BY DEF IInv, TypeOK, Files
<1>2. ASSUME NEW q \in Stages, Fit(q), proc' = [proc EXCEPT ![p] = q],
             Allowed(p, q), Holds(p, q, files'), Bound(p, q, files'),
             UNCHANGED <<world, clone, client>>,
             r.main # "none", q.target = r.target, q.recorded = r.recorded,
             r.overtaken => q.overtaken,
             ~ Late(q) \/ (Late(r) /\ (Harmless(r) => Harmless(q)))
      PROVE  IInv'
  BY <1>2, StepWithFiles
<1>3. CASE AcquireLock(p)
  <2>1. CASE files.lock = Nobody
    <3> DEFINE q == [r EXCEPT !.main = "locked"]
    <3>1. q \in Stages /\ proc' = [proc EXCEPT ![p] = q]
      BY <1>1, <1>3, <2>1 DEF AcquireLock, Stages
    <3>2. Fit(q) /\ ~ Late(q) /\ r.main # "none"
      BY <1>1, <1>3 DEF AcquireLock, Stages, Fit, Up, Early, Final, Late
    <3>3. Allowed(p, q) /\ Holds(p, q, files') /\ Bound(p, q, files')
      BY <1>1, <1>3, <2>1 DEF AcquireLock, Stages, Fit, Up, Early, Files,
                              Allowed, Holds, Bound, Working
    <3>4. /\ q.target = r.target /\ q.recorded = r.recorded
          /\ r.overtaken => q.overtaken
      BY <1>1 DEF Stages
    <3> HIDE DEF q
    <3> QED
      BY <1>2, <1>3, <2>1, <3>1, <3>2, <3>3, <3>4 DEF AcquireLock
  <2>2. CASE files.lock # Nobody
    BY <1>3, <2>2, EndIsSafe DEF AcquireLock
  <2> QED
    BY <2>1, <2>2
<1>4. CASE Resolve(p)
  <2>1. CASE Die(p) /\ UNCHANGED clone
    BY <1>4, <2>1, EndIsSafe DEF Resolve, Die
  <2> DEFINE target == ResolveTarget(clone)
  <2>2. ASSUME target # "broken", NEW recorded \in BOOLEAN,
               proc' = [proc EXCEPT ![p].main = "resolved",
                                    ![p].target = target,
                                    ![p].recorded = recorded],
               clone' = [clone EXCEPT !.config =
                            IF target \in Homes /\ recorded
                            THEN target ELSE @],
               UNCHANGED files
        PROVE  IInv'
    <3> DEFINE q == [r EXCEPT !.main = "resolved", !.target = target,
                              !.recorded = recorded]
    <3>1. clone \in Clones
      BY DEF IInv, TypeOK, Clones
    <3>2. target \in Homes \cup {"origin"}
      BY <2>2, <3>1 DEF ResolveTarget, Clones
    <3>3. q \in Stages /\ proc' = [proc EXCEPT ![p] = q]
      <4>1. proc' = [proc EXCEPT ![p] = q]
        BY <1>1, <2>2
      <4> DEFINE q1 == [r EXCEPT !.main = "resolved"]
                 q2 == [q1 EXCEPT !.target = target]
      <4>2. q1 \in Stages
        BY <1>1 DEF Stages
      <4>3. q2 \in Stages
        <5> HIDE DEF q1, target
        <5> QED
          BY <3>2, <4>2, FieldsAreTyped
      <4>4. [q2 EXCEPT !.recorded = recorded] \in Stages
        <5> HIDE DEF q1, q2
        <5> QED
          BY <2>2, <4>3, FieldsAreTyped
      <4> QED
        BY <4>1, <4>4
    <3>4. Fit(q) /\ ~ Late(q)
      BY <1>1, <1>4 DEF Resolve, Stages, Fit, Up, Early, Final, Late
    <3>5. /\ clone' \in Clones
          /\ clone'.config = clone.config \/ clone'.config \in Homes
          /\ Remembered(q, clone')
      BY <1>1, <2>2, <3>1 DEF Clones, Remembered, Stages
    <3>6. UNCHANGED <<world, files, client>>
      BY <1>4, <2>2 DEF Resolve
    <3>7. /\ Holds(p, q, files') /\ Bound(p, q, files')
          /\ r.overtaken => q.overtaken
      BY <1>1, <1>4, <3>6
         DEF Resolve, Stages, Fit, Up, Early, Holds, Bound, Working
    <3>8. Allowed(p, q) /\ client' \in [Clients -> Callers]
      BY <3>6 DEF IInv, TypeOK, Files, Callers, Allowed
    <3>9. client'[p].at \notin {"idle", "looking"}
      BY <1>4, <3>6 DEF IInv, Resolve
    <3> HIDE DEF q, target
    <3> QED
      BY <3>3, <3>4, <3>5, <3>6, <3>7, <3>8, <3>9, StepOfOne
  <2> QED
    BY <1>4, <2>1, <2>2 DEF Resolve
<1>5. CASE RemoveSocket(p)
  <2> DEFINE q == [r EXCEPT !.main = "cleared"]
  <2>1. q \in Stages /\ proc' = [proc EXCEPT ![p] = q]
    BY <1>1, <1>5 DEF RemoveSocket, Stages
  <2>2. Fit(q) /\ ~ Late(q) /\ r.main # "none"
    BY <1>1, <1>5 DEF RemoveSocket, Stages, Fit, Up, Early, Final, Late
  <2>3. Allowed(p, q) /\ Holds(p, q, files') /\ Bound(p, q, files')
    BY <1>1, <1>5 DEF RemoveSocket, Stages, Fit, Up, Early, Files, Allowed,
                      Holds, Bound, Working
  <2>4. /\ q.target = r.target /\ q.recorded = r.recorded
        /\ r.overtaken => q.overtaken
    BY <1>1 DEF Stages
  <2> HIDE DEF q
  <2> QED
    BY <1>2, <1>5, <2>1, <2>2, <2>3, <2>4 DEF RemoveSocket
<1>6. CASE Listen(p)
  <2>1. CASE files.socket = Nobody
    <3> DEFINE q == [r EXCEPT !.main = "bound", !.listening = TRUE]
    <3>1. q \in Stages /\ proc' = [proc EXCEPT ![p] = q]
      BY <1>1, <1>6, <2>1 DEF Listen, Stages
    <3>2. Fit(q) /\ ~ Late(q) /\ r.main # "none"
      BY <1>1, <1>6 DEF Listen, Stages, Fit, Up, Early, Final, Late
    <3>3. Allowed(p, q) /\ Holds(p, q, files') /\ Bound(p, q, files')
      BY <1>1, <1>6, <2>1 DEF Listen, Stages, Fit, Up, Early, Files, Allowed,
                              Holds, Bound, Working
    <3>4. /\ q.target = r.target /\ q.recorded = r.recorded
          /\ r.overtaken => q.overtaken
      BY <1>1 DEF Stages
    <3> HIDE DEF q
    <3> QED
      BY <1>2, <1>6, <3>1, <3>2, <3>3, <3>4 DEF Listen
  <2>2. CASE files.socket # Nobody
    BY <1>6, <2>2, EndIsSafe DEF Listen, Die
  <2> QED
    BY <2>1, <2>2
<1>7. CASE Announce(p)
  <2>1. CASE files' = [files EXCEPT !.json = p] /\
             proc' = [proc EXCEPT ![p].main = "announced"]
    <3> DEFINE q == [r EXCEPT !.main = "announced"]
    <3>1. q \in Stages /\ proc' = [proc EXCEPT ![p] = q]
      BY <1>1, <2>1 DEF Stages
    <3>2. Fit(q) /\ ~ Late(q) /\ r.main # "none"
      BY <1>1, <1>7 DEF Announce, Stages, Fit, Up, Early, Final, Late
    <3>3. Allowed(p, q) /\ Holds(p, q, files') /\ Bound(p, q, files')
      BY <1>1, <1>7, <2>1 DEF Announce, Stages, Fit, Up, Early, Files, Allowed,
                              Holds, Bound, Working
    <3>4. /\ q.target = r.target /\ q.recorded = r.recorded
          /\ r.overtaken => q.overtaken
      BY <1>1 DEF Stages
    <3> HIDE DEF q
    <3> QED
      BY <1>2, <1>7, <3>1, <3>2, <3>3, <3>4 DEF Announce
  <2>2. CASE files' = [Unlocked(p) EXCEPT !.socket = Nobody] /\
             proc' = Gone(p, "died")
    <3>1. files.lock = p
      BY <1>1, <1>7 DEF Announce, Fit, Up, Early, Holds, Working
    <3> QED
      BY <1>7, <2>2, <3>1, EndIsSafe DEF Announce
  <2> QED
    BY <1>7, <2>1, <2>2 DEF Announce
<1>12. CASE Run(p)
  <2> DEFINE q == [r EXCEPT !.main = "running", !.load = "asked"]
  <2>1. q \in Stages /\ proc' = [proc EXCEPT ![p] = q] /\ files' = files
    BY <1>1, <1>12 DEF Run, Stages
  <2>2. Fit(q) /\ r.main # "none"
    BY <1>1, <1>12 DEF Run, Stages, Fit, Up, Early, Final
  <2>3. Allowed(p, q) /\ Holds(p, q, files') /\ Bound(p, q, files')
    BY <1>1, <1>12, <2>1
       DEF Run, Stages, Fit, Up, Early, Allowed, Holds, Bound, Working
  <2>4. /\ q.target = r.target /\ q.recorded = r.recorded
        /\ r.overtaken => q.overtaken
        /\ ~ Late(q) \/ (Late(r) /\ (Harmless(r) => Harmless(q)))
    BY <1>1 DEF Stages, Late, Harmless
  <2> HIDE DEF q
  <2> QED
    BY <1>2, <1>12, <2>1, <2>2, <2>3, <2>4 DEF Run
<1>8. CASE Serve(p)
  <2>1. CASE r.down \in {"no", "begun"}
    <3> DEFINE q == [r EXCEPT !.main = "serving"]
    <3>1. q \in Stages /\ proc' = [proc EXCEPT ![p] = q] /\ files' = files
      BY <1>1, <1>8, <2>1 DEF Serve, Stages
    <3>2. Fit(q) /\ ~ Late(q) /\ r.main # "none"
      BY <1>1, <1>8, <2>1 DEF Serve, Stages, Fit, Up, Early, Final, Late
    <3>3. Allowed(p, q) /\ Holds(p, q, files') /\ Bound(p, q, files')
      BY <1>1, <1>8, <3>1
         DEF Serve, Stages, Fit, Up, Early, Allowed, Holds, Bound, Working
    <3>4. /\ q.target = r.target /\ q.recorded = r.recorded
          /\ r.overtaken => q.overtaken
      BY <1>1 DEF Stages
    <3> HIDE DEF q
    <3> QED
      BY <1>1, <1>2, <1>8, <2>1, <3>1, <3>2, <3>3, <3>4 DEF Serve
  <2>2. CASE r.down \notin {"no", "begun"}
    <3> DEFINE leaving == [r EXCEPT !.main = "leaving"]
               q == [leaving EXCEPT !.listening = FALSE]
    <3>1. /\ q \in Stages /\ proc' = [proc EXCEPT ![p] = q]
          /\ files' = [files EXCEPT !.socket = Nobody]
      <4>1. leaving \in Stages
        BY <1>1 DEF Stages
      <4>2. q \in Stages
        <5> HIDE DEF leaving
        <5> QED
          BY <4>1, FieldsAreTyped
      <4> QED
        BY <1>8, <2>2, <4>2 DEF Serve, Close
    <3>2. /\ r.main = "running" /\ ~ q.listening
          /\ q.main = "leaving" /\ q.down = r.down
          /\ q.overtaken = r.overtaken
      BY <1>1, <1>8 DEF Serve, Stages
    <3>3. Fit(q)
      BY <1>1, <2>2, <3>2 DEF Stages, Fit, Up, Early, Final
    <3>4. files.lock = p \/ q.overtaken
      BY <1>1, <3>2 DEF Fit, Holds, Working
    <3>5. p # Nobody
      BY LifecycleAssumption DEF Nobody
    <3>6. Allowed(p, q) /\ Holds(p, q, files') /\ Bound(p, q, files')
      <4> HIDE DEF q
      <4> QED
        BY <1>1, <2>2, <3>1, <3>2, <3>4, <3>5
           DEF Files, Allowed, Holds, Bound, Working
    <3>7. /\ q.target = r.target /\ q.recorded = r.recorded
          /\ r.overtaken => q.overtaken
          /\ ~ Late(q) \/ (Late(r) /\ (Harmless(r) => Harmless(q)))
      BY <1>1, <3>2 DEF Stages, Late, Harmless
    <3> HIDE DEF q
    <3> QED
      BY <1>2, <1>8, <3>1, <3>2, <3>3, <3>6, <3>7 DEF Serve
  <2> QED
    BY <2>1, <2>2
<1>9. CASE Exit(p)
  BY <1>9, EndIsSafe DEF Exit
<1>10. CASE StartFails(p)
  BY <1>10, EndIsSafe DEF StartFails
<1>11. CASE Kill(p)
  BY <1>11, EndIsSafe DEF Kill
<1> QED
  BY <1>3, <1>4, <1>5, <1>6, <1>7, <1>8, <1>9, <1>10, <1>11, <1>12 DEF Main

\* A step of Shutdown that only Shutdown itself takes notice of.
LEMMA StageIsSafe ==
    ASSUME IInv, NEW p \in Clients, NEW q \in Stages, Fit(q),
           proc' = [proc EXCEPT ![p] = q],
           UNCHANGED <<world, files, clone, client>>,
           Beside(q, proc[p]), Late(proc[p]), q.overran = proc[p].overran
    PROVE  IInv'
BY StepBeside DEF Harmless, Beside

LEMMA ShutdownIsSafe ==
    ASSUME IInv, NEW p \in Clients, Shutdown(p) \/ Signal(p) \/ FlushTimer(p)
    PROVE  IInv'
<1> DEFINE r == proc[p]
<1>1. /\ r \in Stages /\ Fit(r) /\ proc \in [Clients -> Stages]
      /\ files \in Files /\ Holds(p, r, files) /\ Bound(p, r, files)
  BY DEF IInv, TypeOK, Files
<1>2. CASE Signal(p)
  <2> DEFINE q == [r EXCEPT !.down = "begun"]
  <2>1. q \in Stages /\ proc' = [proc EXCEPT ![p] = q]
    BY <1>1, <1>2 DEF Signal, DownTo, Stages
  <2>2. Fit(q) /\ ~ Late(q) /\ Beside(q, r)
    BY <1>1, <1>2
       DEF Signal, Stopping, Stages, Fit, Up, Early, Final, Late, Beside
  <2> HIDE DEF q
  <2> QED
    BY <1>2, <2>1, <2>2, StepBeside DEF Signal
<1>3. CASE StopServing(p)
  <2>1. CASE r.main = "serving"
    <3> DEFINE q == [r EXCEPT !.down = "draining", !.listening = FALSE]
    <3>1. q \in Stages
      BY <1>1, ZenonT(60) DEF Stages
    <3>2. /\ proc' = [proc EXCEPT ![p] = q]
          /\ files' = [files EXCEPT !.socket = Nobody]
      BY <1>1, <1>3, <2>1 DEF StopServing, Close
    <3>3. Fit(q) /\ ~ Late(q) /\ files.lock = p
      BY <1>1, <1>3, <2>1
         DEF StopServing, Stages, Fit, Up, Early, Final, Late, Holds, Working
    <3>4. Allowed(p, q) /\ Holds(p, q, files') /\ Bound(p, q, files')
      BY <1>1, <1>3, <3>2, <3>3
         DEF StopServing, Stages, Files, Allowed, Holds, Bound, Working
    <3>5. /\ q.target = r.target /\ q.recorded = r.recorded
          /\ r.overtaken => q.overtaken
      BY <1>1 DEF Stages
    <3> HIDE DEF q
    <3> QED
      BY <1>3, <2>1, <3>1, <3>2, <3>3, <3>4, <3>5, StepWithFiles
         DEF StopServing
  <2>2. CASE r.main # "serving"
    <3> DEFINE q == [r EXCEPT !.down = "draining"]
    <3>1. q \in Stages /\ proc' = [proc EXCEPT ![p] = q]
      BY <1>1, <1>3, <2>2 DEF StopServing, DownTo, Stages
    <3>2. Fit(q) /\ ~ Late(q) /\ Beside(q, r)
      BY <1>1, <1>3, <2>2
         DEF StopServing, Stages, Fit, Up, Early, Final, Late, Beside
    <3> HIDE DEF q
    <3> QED
      BY <1>3, <2>2, <3>1, <3>2, StepBeside DEF StopServing
  <2> QED
    BY <2>1, <2>2
<1>4. CASE Drained(p)
  <2> DEFINE q == [r EXCEPT !.down = "drained",
                            !.overran = (Requests(p) # {})]
  <2>1. q \in Stages /\ proc' = [proc EXCEPT ![p] = q]
    <3>1. proc' = [proc EXCEPT ![p] = q]
      BY <1>1, <1>4 DEF Drained
    <3>2. CASE Requests(p) = {}
      <4>1. [r EXCEPT !.down = "drained", !.overran = FALSE] \in Stages
        BY <1>1, ZenonT(60) DEF Stages
      <4>2. (Requests(p) # {}) = FALSE
        BY <3>2
      <4> QED
        BY <3>1, <4>1, <4>2
    <3>3. CASE Requests(p) # {}
      <4>1. [r EXCEPT !.down = "drained", !.overran = TRUE] \in Stages
        BY <1>1, ZenonT(60) DEF Stages
      <4>2. (Requests(p) # {}) = TRUE
        BY <3>3
      <4> QED
        BY <3>1, <4>1, <4>2
    <3> QED
      BY <3>2, <3>3
  <2>2. Fit(q) /\ Beside(q, r)
    BY <1>1, <1>4 DEF Drained, Stages, Fit, Up, Early, Final, Beside
  <2>3. q.overran \/ Requests(p) = {}
    BY <1>1 DEF Stages
  <2> HIDE DEF q
  <2> QED
    BY <1>4, <2>1, <2>2, <2>3, StepBeside DEF Drained
<1>5. CASE JoinLoad(p)
  <2>1. PICK down \in {"flushing", "removing"} :
            /\ proc' = [proc EXCEPT ![p].down = down]
            /\ down = "removing" => ~ r.loaded
    BY <1>5 DEF JoinLoad, DownTo
  <2> DEFINE q == [r EXCEPT !.down = down]
  <2>2. q \in Stages /\ proc' = [proc EXCEPT ![p] = q]
    BY <1>1, <2>1 DEF Stages
  <2>3. Fit(q)
    BY <1>1, <1>5, <2>1 DEF JoinLoad, LoadDone, Stages, Fit, Up, Early, Final
  <2>4. /\ Beside(q, r) /\ Late(r) /\ q.overran = r.overran
    BY <1>1, <1>5, <2>1 DEF JoinLoad, Stages, Fit, Up, Early, Beside, Late
  <2> HIDE DEF q
  <2> QED
    BY <1>5, <2>2, <2>3, <2>4, StageIsSafe DEF JoinLoad
<1>6. CASE Flush(p)
  <2>1. PICK q \in {[r EXCEPT !.down = "halting", !.pending = {}],
                    [r EXCEPT !.down = "halting", !.flushFailed = TRUE]} :
            proc' = [proc EXCEPT ![p] = q]
    BY <1>1, <1>6 DEF Flush
  <2>2. q \in Stages
    <3>1. [r EXCEPT !.down = "halting", !.pending = {}] \in Stages
      BY <1>1, ZenonT(60) DEF Stages
    <3>2. [r EXCEPT !.down = "halting", !.flushFailed = TRUE] \in Stages
      BY <1>1, ZenonT(60) DEF Stages
    <3> QED
      BY <2>1, <3>1, <3>2
  <2>3. Fit(q)
    <3>1. r.down = "flushing"
      BY <1>6 DEF Flush
    <3>2. CASE q = [r EXCEPT !.down = "halting", !.pending = {}]
      BY <1>1, <3>1, <3>2 DEF Stages, Fit, Up, Early, Final
    <3>3. CASE q = [r EXCEPT !.down = "halting", !.flushFailed = TRUE]
      BY <1>1, <3>1, <3>3 DEF Stages, Fit, Up, Early, Final
    <3> QED
      BY <2>1, <3>2, <3>3
  <2>4. /\ Beside(q, r) /\ Late(r) /\ q.overran = r.overran
    BY <1>1, <1>6, <2>1 DEF Flush, Stages, Fit, Up, Early, Beside, Late
  <2> QED
    BY <1>6, <2>1, <2>2, <2>3, <2>4, StageIsSafe DEF Flush
<1>7. CASE StopLoop(p)
  <2> DEFINE q == [r EXCEPT !.halt = TRUE,
                            !.down = IF r.loop = "none" THEN "syncing"
                                     ELSE "joining"]
  <2>1. q \in Stages /\ proc' = [proc EXCEPT ![p] = q]
    BY <1>1, <1>7 DEF StopLoop, Stages
  <2>2. Fit(q)
    BY <1>1, <1>7 DEF StopLoop, Stages, Fit, Up, Early, Final
  <2>3. /\ Beside(q, r) /\ Late(r) /\ q.overran = r.overran
    BY <1>1, <1>7 DEF StopLoop, Stages, Fit, Up, Early, Beside, Late
  <2> HIDE DEF q
  <2> QED
    BY <1>7, <2>1, <2>2, <2>3, StageIsSafe DEF StopLoop
<1>8. CASE JoinLoop(p) \/ LastCycle(p)
  <2>1. PICK down \in {"syncing", "removing"} :
            /\ proc' = [proc EXCEPT ![p].down = down]
            /\ r.down \in {"joining", "syncing"}
            /\ down = "syncing" => r.loop = "over"
            /\ down = "removing" => r.down = "syncing"
    BY <1>8 DEF JoinLoop, LastCycle, DownTo
  <2> DEFINE q == [r EXCEPT !.down = down]
  <2>2. q \in Stages /\ proc' = [proc EXCEPT ![p] = q]
    BY <1>1, <2>1 DEF Stages
  <2>3. Fit(q)
    BY <1>1, <2>1 DEF Stages, Fit, Up, Early, Final
  <2>4. /\ Beside(q, r) /\ Late(r) /\ q.overran = r.overran
    BY <1>1, <2>1 DEF Stages, Fit, Up, Early, Beside, Late
  <2>5. UNCHANGED <<world, files, clone, client>>
    BY <1>8 DEF JoinLoop, LastCycle
  <2> HIDE DEF q
  <2> QED
    BY <2>2, <2>3, <2>4, <2>5, StageIsSafe
<1>9. CASE Cleanup(p)
  <2>1. UNCHANGED <<world, clone, client>> /\ p # Nobody
    BY <1>9, LifecycleAssumption DEF Cleanup, Nobody
  <2>2. CASE r.down = "removing"
    <3> DEFINE late == r.main = "running"
               q == [r EXCEPT !.down = "unlocking", !.overtaken = late]
    <3>1. /\ proc' = [proc EXCEPT ![p] = q]
          /\ files' = [files EXCEPT !.socket = Nobody, !.json = Nobody]
      BY <1>1, <1>9, <2>2 DEF Cleanup
    <3>2. /\ q.main = r.main /\ q.load = r.load /\ q.loop = r.loop
          /\ q.down = "unlocking" /\ q.target = r.target
          /\ (q.listening <=> r.listening) /\ (q.loaded <=> r.loaded)
          /\ (q.halt <=> r.halt) /\ (q.overran <=> r.overran)
          /\ (q.flushFailed <=> r.flushFailed) /\ q.recorded = r.recorded
          /\ q.pending = r.pending /\ (q.overtaken <=> late)
      BY <1>1 DEF Stages
    <3>3. q \in Stages
      <4>1. [r EXCEPT !.down = "unlocking"] \in Stages
        BY <1>1 DEF Stages
      <4>2. [[r EXCEPT !.down = "unlocking"] EXCEPT !.overtaken = late]
               \in Stages
        <5> HIDE DEF late
        <5>1. late \in BOOLEAN
          BY DEF late
        <5> QED
          BY <4>1, <5>1, FieldsAreTyped
      <4> QED
        BY <4>2
    <3> HIDE DEF q
    <3>4. Fit(q) /\ r.main \in Up /\ files.lock = p
      BY <1>1, <2>2, <3>2 DEF Fit, Up, Early, Final, Holds, Working
    <3>5. q.listening => q.overtaken
      BY <1>1, <2>2, <3>2, <3>4 DEF Fit, Up
    <3>6. Allowed(p, q) /\ Holds(p, q, files') /\ Bound(p, q, files')
      BY <1>1, <2>1, <3>1, <3>2, <3>4, <3>5
         DEF Files, Allowed, Holds, Bound, Working
    <3>7. /\ r.overtaken => q.overtaken
          /\ Late(r) /\ (Harmless(r) => Harmless(q))
      BY <1>1, <2>2, <3>2 DEF Fit, Up, Early, Late, Harmless
    <3> QED
      BY <2>1, <3>1, <3>2, <3>3, <3>4, <3>6, <3>7, StepWithFiles DEF Up
  <2>3. CASE r.down # "removing"
    <3> DEFINE q == [r EXCEPT !.down = "done"]
    <3>1. /\ proc' = [proc EXCEPT ![p] = q] /\ files' = Unlocked(p)
          /\ r.down = "unlocking"
      BY <1>1, <1>9, <2>3 DEF Cleanup, DownTo
    <3>2. q \in Stages
      BY <1>1 DEF Stages
    <3>3. Fit(q) /\ r.main \in Up /\ files.lock = p
      BY <1>1, <3>1 DEF Stages, Fit, Up, Early, Final, Holds, Working
    <3>4. Allowed(p, q) /\ Holds(p, q, files') /\ Bound(p, q, files')
      BY <1>1, <3>1, <3>3
         DEF Stages, Files, Unlocked, Allowed, Holds, Bound, Working
    <3>5. /\ q.target = r.target /\ q.recorded = r.recorded
          /\ r.overtaken => q.overtaken
          /\ Late(r) /\ (Harmless(r) => Harmless(q))
      BY <1>1, <3>1 DEF Stages, Early, Late, Harmless
    <3> HIDE DEF q
    <3> QED
      BY <2>1, <3>1, <3>2, <3>3, <3>4, <3>5, StepWithFiles DEF Up
  <2> QED
    BY <2>2, <2>3
<1>10. CASE FlushTimer(p)
  <2> DEFINE q == [r EXCEPT !.pending = {}]
  <2>1. q \in Stages /\ proc' = [proc EXCEPT ![p] = q]
    BY <1>1, <1>10 DEF FlushTimer, Stages
  <2>2. Fit(q)
    BY <1>1 DEF Stages, Fit, Up, Early, Final
  <2>3. Beside(q, r) /\ (Late(q) => Late(r) /\ (Harmless(r) => Harmless(q)))
    BY <1>1, <1>10
       DEF FlushTimer, Stages, Fit, Up, Early, Beside, Late, Harmless
  <2> HIDE DEF q
  <2> QED
    BY <1>10, <2>1, <2>2, <2>3, StepBeside DEF FlushTimer
<1> QED
  BY <1>2, <1>3, <1>4, <1>5, <1>6, <1>7, <1>8, <1>9, <1>10 DEF Shutdown

------------------------------------------------------------------------------
\* The requests and the commands.
LEMMA HandleWriteIsSafe ==
    ASSUME IInv, NEW c \in Clients, HandleWrite(c)
    PROVE  IInv'
<1> DEFINE p == client[c].to
           r == proc[p]
           q == [r EXCEPT !.pending = IF r.loaded THEN @ \cup {c} ELSE @]
<1>1. p \in Clients
  BY DEF IInv, HandleWrite
<1>2. /\ r \in Stages /\ Fit(r) /\ proc \in [Clients -> Stages]
      /\ r.main = "serving" /\ Holds(p, r, files) /\ Bound(p, r, files)
      /\ Late(r) => Harmless(r)
  BY <1>1 DEF IInv, TypeOK, HandleWrite
<1>3. q \in Stages /\ proc' = [proc EXCEPT ![p] = q]
  BY <1>1, <1>2 DEF HandleWrite, Stages
<1>4. /\ q.main = r.main /\ q.load = r.load /\ q.loop = r.loop
      /\ q.down = r.down /\ q.target = r.target
      /\ (q.listening <=> r.listening) /\ (q.loaded <=> r.loaded)
      /\ (q.halt <=> r.halt) /\ (q.overran <=> r.overran)
      /\ (q.flushFailed <=> r.flushFailed) /\ (q.recorded <=> r.recorded)
      /\ (q.overtaken <=> r.overtaken)
      /\ q.pending # {} => r.pending # {} \/ r.loaded
  BY <1>2 DEF Stages
<1>5. Fit(q)
  <2> HIDE DEF q
  <2>1. q.pending # {} => q.loaded
    BY <1>2, <1>4 DEF Fit
  <2>2. q.down \in Final \cup {"halting", "joining"} /\ q.pending # {} =>
           q.overran \/ q.flushFailed
    BY <1>2, <1>4, <2>1 DEF Fit, Late, Harmless, Early, Final
  <2> QED
    BY <1>2, <1>4, <2>1, <2>2 DEF Fit
<1> HIDE DEF q
<1>6. /\ Holds(p, q, files) /\ Bound(p, q, files)
      /\ r.overtaken => q.overtaken
      /\ Late(q) => Late(r) /\ (Harmless(r) => Harmless(q))
      /\ Remembered(q, clone)
  BY <1>1, <1>2, <1>4
     DEF IInv, Holds, Bound, Working, Late, Harmless, Remembered
<1>7. UNCHANGED <<world, files, clone>>
  BY DEF HandleWrite
<1>8. Allowed(p, q) /\ clone' \in Clones /\ client \in [Clients -> Callers]
  BY <1>7 DEF IInv, TypeOK, Files, Clones, Callers, Allowed
<1>9. client' = [client EXCEPT ![c].at = "done"]
  BY DEF HandleWrite, ClientAt
<1>10. /\ client' \in [Clients -> Callers]
       /\ \A b \in Clients : \/ client'[b] = client[b]
                             \/ client'[b].at \in {"awaiting", "done"}
  BY <1>8, <1>9 DEF Callers
<1>11. client'[p].at \notin {"idle", "looking"}
  BY <1>1, <1>2, <1>8, <1>10 DEF IInv
<1> QED
  BY <1>1, <1>3, <1>5, <1>6, <1>7, <1>8, <1>10, <1>11, StepOfOne

LEMMA EnsureDaemonIsSafe ==
    ASSUME IInv, NEW c \in Clients, EnsureDaemon(c)
    PROVE  IInv'
<1>1. client \in [Clients -> Callers] /\ client[c].at = "looking"
  BY DEF IInv, TypeOK, Callers, EnsureDaemon
<1>2. CASE LiveSocket
  <2> DEFINE d == [client[c] EXCEPT !.at = "asking"]
  <2>1. /\ client' = [client EXCEPT ![c] = d]
        /\ UNCHANGED <<world, files, clone, proc>>
    BY <1>1, <1>2 DEF EnsureDaemon, ClientAt
  <2>2. d \in Callers /\ d.at = "asking"
    BY <1>1 DEF Callers
  <2> HIDE DEF d
  <2> QED
    BY <2>1, <2>2, StepOfACommand
<1>3. CASE ~ LiveSocket
  <2> DEFINE r == proc[c]
             q == [r EXCEPT !.main = "started"]
  <2>1. /\ r \in Stages /\ Fit(r) /\ proc \in [Clients -> Stages]
        /\ r.main = "none"
    BY <1>1 DEF IInv, TypeOK
  <2>2. q \in Stages /\ proc' = [proc EXCEPT ![c] = q]
    BY <1>3, <2>1 DEF EnsureDaemon, Stages
  <2>3. /\ Fit(q) /\ ~ Late(q) /\ (r.overtaken => q.overtaken)
        /\ \A f : Holds(c, q, f) /\ Bound(c, q, f)
    BY <2>1 DEF Stages, Fit, Up, Early, Final, Late, Holds, Bound, Working
  <2>4. Remembered(q, clone)
    BY <2>1 DEF IInv, Remembered, Stages
  <2>5. UNCHANGED <<world, files, clone>>
    BY DEF EnsureDaemon
  <2>6. Allowed(c, q) /\ clone' \in Clones
    BY <2>5 DEF IInv, TypeOK, Files, Clones, Allowed
  <2>7. client' = [client EXCEPT ![c].at = "awaiting"]
    BY <1>3 DEF EnsureDaemon, ClientAt
  <2>8. /\ client' \in [Clients -> Callers]
        /\ \A b \in Clients : \/ client'[b] = client[b]
                              \/ client'[b].at \in {"awaiting", "done"}
        /\ client'[c].at \notin {"idle", "looking"}
    BY <1>1, <2>7 DEF Callers
  <2> HIDE DEF q
  <2> QED
    BY <2>2, <2>3, <2>4, <2>5, <2>6, <2>8, StepOfOne
<1> QED
  BY <1>2, <1>3

\* A connection is accepted by a process that listens.
LEMMA ListenerIsEarly ==
    ASSUME IInv, NEW p, Listens(p)
    PROVE  p \in Clients /\ (Late(proc[p]) => Harmless(proc[p]))
<1>1. p \in Clients /\ proc[p].listening /\ Fit(proc[p]) /\ proc[p] \in Stages
  BY DEF IInv, TypeOK, Listens
<1>2. CASE proc[p].main = "serving"
  BY <1>1, <1>2 DEF Fit, Late, Early
<1>3. CASE proc[p].main # "serving"
  BY <1>1, <1>3 DEF Fit, Harmless
<1> QED
  BY <1>1, <1>2, <1>3

LEMMA CommandIsSafe ==
    ASSUME IInv, NEW c \in Clients,
           \/ Launch(c) \/ AwaitDaemon(c) \/ Ask(c) \/ Answered(c)
           \/ Dropped(c) \/ Write(c)
    PROVE  IInv'
<1>1. client \in [Clients -> Callers]
  BY DEF IInv, TypeOK, Callers
<1>2. UNCHANGED <<world, files, clone, proc>>
  BY DEF Launch, AwaitDaemon, Ask, Answered, Dropped, Write
<1>3. ASSUME NEW at \in {"looking", "asking", "ready"}, ClientAt(c, at),
             at = "looking" => client[c].at = "idle"
      PROVE  IInv'
  <2> DEFINE d == [client[c] EXCEPT !.at = at]
  <2>1. client' = [client EXCEPT ![c] = d]
    BY <1>1, <1>3 DEF ClientAt
  <2>2. d \in Callers /\ d.at = at
    BY <1>1 DEF Callers
  <2> HIDE DEF d
  <2> QED
    BY <1>2, <1>3, <2>1, <2>2, StepOfACommand
<1>4. ASSUME NEW why \in {"exited", "ceiling", "loading"}, Fails(c, why)
      PROVE  IInv'
  <2> DEFINE d == [client[c] EXCEPT !.at = "failed", !.why = why]
  <2>1. client' = [client EXCEPT ![c] = d]
    BY <1>1, <1>4 DEF Fails
  <2>2. d \in Callers /\ d.at = "failed"
    BY <1>1 DEF Callers
  <2> HIDE DEF d
  <2> QED
    BY <1>2, <2>1, <2>2, StepOfACommand
<1>5. ASSUME NEW at \in {"parked", "writing"}, Listens(files.socket),
             client' = [client EXCEPT ![c].at = at, ![c].to = files.socket]
      PROVE  IInv'
  <2> DEFINE d == [client[c] EXCEPT !.at = at, !.to = files.socket]
  <2>1. client' = [client EXCEPT ![c] = d]
    BY <1>1, <1>5
  <2>2. /\ files.socket \in Clients
        /\ Late(proc[files.socket]) => Harmless(proc[files.socket])
    BY <1>5, ListenerIsEarly
  <2>3. d \in Callers /\ d.at = at /\ d.to = files.socket
    BY <1>1, <2>2 DEF Callers
  <2> HIDE DEF d
  <2> QED
    BY <1>2, <1>5, <2>1, <2>2, <2>3, StepOfACommand
<1>6. CASE Launch(c)
  BY <1>3, <1>6 DEF Launch
<1>7. CASE AwaitDaemon(c)
  BY <1>3, <1>4, <1>7 DEF AwaitDaemon
<1>8. CASE Ask(c)
  BY <1>4, <1>5, <1>8 DEF Ask
<1>9. CASE Answered(c)
  BY <1>3, <1>4, <1>9 DEF Answered
<1>10. CASE Dropped(c)
  BY <1>4, <1>10 DEF Dropped
<1>11. CASE Write(c)
  BY <1>4, <1>5, <1>11 DEF Write
<1> QED
  BY <1>6, <1>7, <1>8, <1>9, <1>10, <1>11

LEMMA CheckoutIsSafe == IInv /\ Checkout => IInv'
<1> SUFFICES ASSUME IInv, Checkout
             PROVE  IInv'
  OBVIOUS
<1>1. PICK pointer \in world.pointers :
          clone' = [clone EXCEPT !.pointer = pointer]
  BY DEF Checkout
<1>2. UNCHANGED <<world, files, proc, client>>
  BY DEF Checkout
<1>3. pointer \in Homes \cup {"absent", "broken"}
  <2>1. world \in Worlds
    BY DEF IInv, TypeOK
  <2>2. world.pointers \subseteq Homes \cup {"absent", "broken"}
    BY <2>1, LifecycleAssumption
  <2> QED
    BY <2>2
<1>4. clone \in Clones
  BY DEF IInv, TypeOK, Clones
<1>5. clone' \in Clones /\ clone'.config = clone.config
  BY <1>1, <1>3, <1>4 DEF Clones
<1>6. TypeOK'
  BY <1>2, <1>5 DEF IInv, TypeOK, Clones
<1>7. \A p \in Clients : Remembered(proc'[p], clone')
  BY <1>2, <1>5 DEF IInv, Remembered
<1>8. \A p \in Clients : Bound(p, proc[p], files)'
  BY <1>2 DEF IInv, Bound
<1> QED
  BY <1>2, <1>6, <1>7, <1>8 DEF IInv

------------------------------------------------------------------------------
LEMMA InitHasIInv == Init => IInv
<1> SUFFICES ASSUME Init
             PROVE  IInv
  OBVIOUS
<1>1. Unborn \in Stages
  BY Zenon DEF Unborn, Stages
<1>2. proc \in [Clients -> Stages] /\ (\A p \in Clients : proc[p] = Unborn)
  BY <1>1 DEF Init
<1>3. Idle \in Callers /\ Idle.at = "idle"
  BY DEF Idle, Callers
<1>4. client \in [Clients -> Callers] /\ (\A c \in Clients : client[c] = Idle)
  BY <1>3 DEF Init
<1>5. files \in Files
  BY DEF Init, Files
<1>6. clone \in Clones
  <2>1. PICK pointer \in world.pointers :
            clone = [pointer |-> pointer, config |-> world.config,
                     branch |-> "none"]
    BY DEF Init
  <2>2. world \in Worlds
    BY DEF Init
  <2>3. /\ world.pointers \subseteq Homes \cup {"absent", "broken"}
        /\ world.config \in Homes \cup {"unset", "broken"}
    BY <2>2, LifecycleAssumption
  <2> QED
    BY <2>1, <2>3 DEF Clones
<1>7. TypeOK
  BY <1>2, <1>4, <1>5, <1>6 DEF Init, TypeOK, Files, Clones, Callers
<1>8. /\ Fit(Unborn) /\ Unborn.main = "none"
      /\ \A p : Holds(p, Unborn, files) /\ Bound(p, Unborn, files)
      /\ \A c : Remembered(Unborn, c)
  BY LifecycleAssumption
     DEF Unborn, Fit, Up, Early, Final, Holds, Bound, Working, Remembered
<1> QED
  BY <1>2, <1>3, <1>4, <1>7, <1>8 DEF IInv

LEMMA NextKeepsIInv == IInv /\ [Next]_vars => IInv'
<1> SUFFICES ASSUME IInv, [Next]_vars
             PROVE  IInv'
  OBVIOUS
<1>1. CASE UNCHANGED vars
  <2>1. UNCHANGED <<world, files, clone, proc, client>>
    BY <1>1 DEF vars
  <2>2. TypeOK'
    BY <2>1 DEF IInv, TypeOK
  <2>3. \A p \in Clients : Bound(p, proc[p], files)'
    BY <2>1 DEF IInv, Bound
  <2> QED
    BY <2>1, <2>2, <2>3 DEF IInv
<1>2. CASE Checkout
  BY <1>2, CheckoutIsSafe
<1>3. ASSUME NEW p \in Clients,
             \/ Main(p) \/ Start(p) \/ Loop(p) \/ Shutdown(p)
             \/ StartFails(p) \/ Signal(p) \/ Kill(p) \/ FlushTimer(p)
             \/ Launch(p) \/ Command(p) \/ Write(p) \/ Request(p)
      PROVE  IInv'
  <2>1. CASE Main(p) \/ StartFails(p) \/ Kill(p)
    BY <2>1, MainIsSafe
  <2>2. CASE Start(p) \/ Loop(p)
    BY <2>2, StartIsSafe, BranchIsSafe DEF Start
  <2>3. CASE Shutdown(p) \/ Signal(p) \/ FlushTimer(p)
    BY <2>3, ShutdownIsSafe
  <2>4. CASE Launch(p) \/ Command(p) \/ Write(p) \/ Request(p)
    BY <2>4, CommandIsSafe, EnsureDaemonIsSafe, HandleWriteIsSafe
       DEF Command, Request
  <2> QED
    BY <1>3, <2>1, <2>2, <2>3, <2>4
<1> QED
  BY <1>1, <1>2, <1>3 DEF Next

\* The inductive invariant holds of every behaviour.
THEOREM IInvHolds == Spec => []IInv
<1> QED
  BY InitHasIInv, NextKeepsIInv, PTL DEF Spec

\* Every variable keeps its shape through start, shut-down and death, and no
\* daemon runs for a target it could not resolve (resolveTarget).
THEOREM TypeIsInvariant == Spec => []TypeOK
<1>1. IInv => TypeOK
  BY DEF IInv
<1> QED
  BY <1>1, IInvHolds, PTL

\* The lock is its holder's from before it knows its target until it has
\* cleaned up, a listening socket that is found is the holder's, and both files
\* are a serving daemon's own, save for one that was overtaken and unlinks the
\* path it has lost: for any number of commands, signals and kills
\* (acquireLock, New, Run, Shutdown, cleanup).
THEOREM OneDaemonAtATime == Spec => []OneDaemon
<1>1. IInv => OneDaemon
  <2> SUFFICES ASSUME IInv, NEW p \in Clients
               PROVE  /\ Working(proc[p]) => files.lock = p
                      /\ proc[p].listening /\ files.socket = p =>
                            files.lock = p
                      /\ /\ proc[p].main \in {"announced", "running",
                                               "serving"}
                         /\ ~ Stopping(p)
                         => proc[p].listening /\ files.json = p
                      /\ /\ \A q \in Clients : ~ proc[q].overtaken
                         /\ proc[p].listening
                         => files.socket = p
    BY DEF OneDaemon, Working
  <2>1. Fit(proc[p]) /\ Holds(p, proc[p], files) /\ Bound(p, proc[p], files)
    BY DEF IInv
  <2>2. proc[p].listening /\ (\A q \in Clients : ~ proc[q].overtaken) =>
           files.socket = p
    BY <2>1 DEF Bound
  <2>3. /\ proc[p].main \in {"announced", "running", "serving"}
        /\ ~ Stopping(p)
        => proc[p].listening /\ files.json = p
    BY <2>1 DEF Fit, Holds, Stopping
  <2> QED
    BY <2>1, <2>2, <2>3 DEF Holds
<1> QED
  BY <1>1, IInvHolds, PTL

\* Shutdown waits for the load and for the loop, and leaves nothing unflushed
\* that it did not give up on (Shutdown, Syncer.Run, Syncer.Stop).
THEOREM TeardownIsClean == Spec => []CleanTeardown
<1>1. IInv => CleanTeardown
  <2> SUFFICES ASSUME IInv, NEW p \in Clients, proc[p].down \in Final
               PROVE  /\ LoadDone(p) /\ proc[p].loop \in {"none", "over"}
                      /\ proc[p].pending # {} =>
                            proc[p].overran \/ proc[p].flushFailed
    BY DEF CleanTeardown, Final
  <2>1. Fit(proc[p])
    BY DEF IInv
  <2> QED
    BY <2>1 DEF Fit, Up, Early, Final, LoadDone
<1> QED
  BY <1>1, IInvHolds, PTL

\* A process knows where its ledger is from resolveTarget and nothing else.
LEMMA OnlyResolveFindsATarget ==
    ASSUME IInv, Next, NEW q \in Clients, proc'[q].target # proc[q].target
    PROVE  Resolve(q)
<1>1. proc \in [Clients -> Stages]
  BY DEF IInv, TypeOK
<1> USE <1>1 DEF Stages
<1>2. ASSUME NEW p \in Clients, NEW code, proc' = Gone(p, code)
      PROVE  FALSE
  BY <1>2 DEF Gone, Unborn
<1>3. ASSUME NEW p \in Clients, NEW r, r.target = proc[p].target,
             proc' = [proc EXCEPT ![p] = r]
      PROVE  FALSE
  BY <1>3
<1>4. ASSUME NEW p \in Clients, NEW r \in Stages, Close(p, r),
             r.target = proc[p].target
      PROVE  FALSE
  <2> DEFINE d == [r EXCEPT !.listening = FALSE]
  <2>1. d.target = r.target /\ proc' = [proc EXCEPT ![p] = d]
    BY <1>4 DEF Close
  <2> HIDE DEF d
  <2> QED
    BY <1>3, <1>4, <2>1
<1>5. CASE Checkout
  BY <1>5 DEF Checkout
<1>6. ASSUME NEW p \in Clients, Main(p) \/ StartFails(p) \/ Kill(p)
      PROVE  Resolve(q)
  <2>1. CASE AcquireLock(p)
    BY <1>2, <2>1 DEF AcquireLock
  <2>2. CASE Resolve(p)
    <3>1. p = q
      BY <1>2, <2>2 DEF Resolve, Die
    <3> QED
      BY <2>2, <3>1
  <2>3. CASE RemoveSocket(p)
    BY <2>3 DEF RemoveSocket
  <2>4. CASE Listen(p)
    BY <1>2, <2>4 DEF Listen, Die
  <2>5. CASE Announce(p)
    BY <1>2, <2>5 DEF Announce
  <2>6. CASE Run(p) \/ Serve(p)
    <3> DEFINE r == [proc[p] EXCEPT !.main = "leaving"]
    <3>1. r \in Stages /\ r.target = proc[p].target
      OBVIOUS
    <3>2. CASE Close(p, r)
      <4> HIDE DEF r
      <4> QED
        BY <1>4, <3>1, <3>2
    <3>3. CASE ~ Close(p, r)
      BY <2>6, <3>3 DEF Run, Serve
    <3> QED
      BY <3>2, <3>3
  <2>7. CASE Exit(p) \/ StartFails(p) \/ Kill(p)
    BY <1>2, <2>7 DEF Exit, StartFails, Kill
  <2> QED
    BY <1>6, <2>1, <2>2, <2>3, <2>4, <2>5, <2>6, <2>7 DEF Main
<1>7. ASSUME NEW p \in Clients, Start(p) \/ Loop(p)
      PROVE  FALSE
  <2>1. CASE StartCheck(p) \/ Adopt(p) \/ FastForward(p) \/ MintBranch(p)
    BY <2>1 DEF StartCheck, Adopt, FastForward, MintBranch
  <2>2. CASE LoadEnds(p) \/ LoadClosed(p)
    BY <2>2 DEF LoadEnds, LoadClosed
  <2>3. CASE RunLoop(p) \/ Loop(p)
    BY <2>3 DEF RunLoop, Loop
  <2> QED
    BY <1>7, <2>1, <2>2, <2>3 DEF Start
<1>8. ASSUME NEW p \in Clients, Shutdown(p) \/ Signal(p) \/ FlushTimer(p)
      PROVE  FALSE
  <2>1. CASE Drained(p) \/ JoinLoad(p) \/ Signal(p)
    BY <2>1 DEF Drained, JoinLoad, Signal, DownTo
  <2>2. CASE Flush(p) \/ StopLoop(p) \/ FlushTimer(p)
    BY <2>2 DEF Flush, StopLoop, FlushTimer
  <2>3. CASE JoinLoop(p) \/ LastCycle(p) \/ Cleanup(p)
    BY <2>3 DEF JoinLoop, LastCycle, Cleanup, DownTo
  <2>4. CASE StopServing(p)
    <3> DEFINE r == [proc[p] EXCEPT !.down = "draining"]
    <3>1. r \in Stages /\ r.target = proc[p].target
      OBVIOUS
    <3>2. proc' = [proc EXCEPT ![p] = r] \/ Close(p, r)
      BY <2>4 DEF StopServing, DownTo
    <3> HIDE DEF r
    <3> QED
      BY <1>3, <1>4, <3>1, <3>2
  <2> QED
    BY <1>8, <2>1, <2>2, <2>3, <2>4 DEF Shutdown
<1>9. ASSUME NEW p \in Clients,
             Launch(p) \/ Command(p) \/ Write(p) \/ Request(p)
      PROVE  FALSE
  <2>1. CASE EnsureDaemon(p)
    BY <2>1 DEF EnsureDaemon
  <2>2. CASE HandleWrite(p)
    BY <2>2 DEF HandleWrite
  <2>3. CASE \/ Launch(p) \/ AwaitDaemon(p) \/ Ask(p) \/ Answered(p)
             \/ Dropped(p) \/ Write(p)
    BY <2>3 DEF Launch, AwaitDaemon, Ask, Answered, Dropped, Write
  <2> QED
    BY <1>9, <2>1, <2>2, <2>3 DEF Command, Request
<1> QED
  BY <1>5, <1>6, <1>7, <1>8, <1>9 DEF Next

\* A clone that has run a daemon for a ledger kept elsewhere never opens
\* origin's in its stead, whatever is checked out (resolveTargetAt).
THEOREM HomeIsNotForgotten == Spec => HomeIsKept
<1> DEFINE Kept ==
        \A q \in Clients :
            proc[q].target = "none" /\ proc'[q].target = "origin" =>
                \A p \in Clients :
                    proc[p].target \in Homes => ~ proc[p].recorded
<1>1. IInv /\ [Next]_vars => [Kept]_vars
  <2> SUFFICES ASSUME IInv, Next, NEW q \in Clients,
                      proc[q].target = "none", proc'[q].target = "origin",
                      NEW p \in Clients,
                      proc[p].target \in Homes, proc[p].recorded
               PROVE  FALSE
    OBVIOUS
  <2>1. Resolve(q)
    BY OnlyResolveFindsATarget
  <2>2. clone \in Clones /\ clone.config \in Homes
    BY DEF IInv, TypeOK, Clones, Remembered
  <2>3. proc'[q].target \in {proc[q].target, ResolveTarget(clone)}
    <3>1. proc \in [Clients -> Stages]
      BY DEF IInv, TypeOK
    <3> QED
      <4>1. CASE Die(q)
        BY <3>1, <4>1 DEF Die, Gone, Unborn
      <4>2. CASE ~ Die(q)
        BY <2>1, <3>1, <4>2 DEF Resolve, Stages
      <4> QED
        BY <4>1, <4>2
  <2>4. ResolveTarget(clone) \in Homes \cup {"broken"}
    BY <2>2, LifecycleAssumption DEF ResolveTarget, Clones
  <2> QED
    BY <2>3, <2>4, LifecycleAssumption
<1> QED
  BY <1>1, IInvHolds, PTL DEF Spec, HomeIsKept
=============================================================================
