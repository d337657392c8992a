------------------------------ MODULE Lifecycle ------------------------------
(* How the command line gets its daemon and how a daemon comes and goes      *)
(* (cmd/tuhdoo/client.go and daemon_cmd.go, internal/daemon/daemon.go and   *)
(* target.go, internal/syncer/adopt.go and the loop of syncer.go).           *)
(*                                                                          *)
(* A client looks for a live socket and spawns a daemon when there is none. *)
(* Of the daemons that race one gets the lock.  It binds the socket, names   *)
(* it in daemon.json, serves, loads the ledger behind the socket and then   *)
(* runs the sync loop; a signal or a failed load shuts it down.  A daemon is *)
(* named for the client that spawns it.  One step of it is one step of one  *)
(* of its goroutines: main, start, Shutdown, a request's handler.            *)
EXTENDS Naturals

CONSTANTS
    Clients,  \* commands that call ensureDaemon, once each
    Homes,    \* where a ledger may be kept other than at origin
    Worlds    \* what may happen around them

\* Of a world: which commands are given, whether an earlier daemon died and
\* left its files, what the pointer file may come to say and what the clone's
\* config says, whether the remote carries a ledger; which daemons may be
\* signalled; and whether kills, failing calls, handlers slower than the drain
\* and writes occur.
ASSUME LifecycleAssumption ==
    /\ Homes \cap {"origin", "none", "absent", "broken", "unset"} = {}
    /\ "nobody" \notin Clients /\ "stale" \notin Clients
    /\ Worlds \subseteq
          [commands : SUBSET Clients, stale : BOOLEAN, carries : BOOLEAN,
           pointers : SUBSET (Homes \cup {"absent", "broken"}),
           config : Homes \cup {"unset", "broken"},
           signals : SUBSET Clients, kills : BOOLEAN, faults : BOOLEAN,
           slow : BOOLEAN, writes : BOOLEAN]

VARIABLES
    world,   \* one of Worlds
    files,   \* the lock, the socket and the discovery file: whose they are
    clone,   \* .tuhdoo, git config tuhdoo.remote, the local data branch
    proc,    \* the daemon spawned by each client
    client   \* ensureDaemon, and one write after it
vars == <<world, files, clone, proc, client>>

Nobody == "nobody"
Stale  == "stale"  \* an earlier daemon, dead

Unborn ==
    [main |-> "none", load |-> "none", loop |-> "none", down |-> "no",
     listening |-> FALSE, loaded |-> FALSE, halt |-> FALSE, overran |-> FALSE,
     overtaken |-> FALSE, flushFailed |-> FALSE, pending |-> {},
     target |-> "none", recorded |-> FALSE, code |-> "none"]

Idle == [at |-> "idle", to |-> Nobody, why |-> "none"]

Init ==
    /\ world \in Worlds
    /\ files = [lock   |-> Nobody,
                socket |-> IF world.stale THEN Stale ELSE Nobody,
                json   |-> IF world.stale THEN Stale ELSE Nobody]
    /\ \E pointer \in world.pointers :
          clone = [pointer |-> pointer, config |-> world.config,
                   branch |-> "none"]
    /\ proc = [p \in Clients |-> Unborn]
    /\ client = [c \in Clients |-> Idle]

\* A process that has ended, keeping what is asked of it afterwards.
Gone(p, code) ==
    [proc EXCEPT ![p] = [Unborn EXCEPT !.main = "exited", !.code = code,
                                       !.target    = proc[p].target,
                                       !.recorded  = proc[p].recorded,
                                       !.overtaken = proc[p].overtaken]]

Unlocked(p) == [files EXCEPT !.lock = IF @ = p THEN Nobody ELSE @]

Stopping(p) == proc[p].down # "no"
LoadDone(p) == proc[p].load \in {"closed", "failed", "running", "over"}

------------------------------------------------------------------------------
\* runDaemon and New.

\* Before the lock: no repository, an unusable lease time.
StartFails(p) ==
    /\ proc[p].main = "started" /\ world.faults
    /\ proc' = Gone(p, "died")
    /\ UNCHANGED <<world, files, clone, client>>

\* acquireLock: the loser leaves with exitAlreadyRunning.
AcquireLock(p) ==
    /\ proc[p].main = "started"
    /\ IF files.lock = Nobody
       THEN /\ files' = [files EXCEPT !.lock = p]
            /\ proc'  = [proc EXCEPT ![p].main = "locked"]
       ELSE proc' = Gone(p, "running") /\ UNCHANGED files
    /\ UNCHANGED <<world, clone, client>>

\* An error of New after the lock, which the exit gives back.
Die(p) ==
    /\ proc'  = Gone(p, "died")
    /\ files' = Unlocked(p)

\* Mutant: a clone that remembers nothing has no default.
ResolveTargetBare(c) == IF c.pointer # "absent" THEN c.pointer ELSE c.config

\* resolveTarget: the pointer file, else what the clone remembers of it, else
\* origin.  What cannot be trusted is an error.
ResolveTarget(c) ==
    IF c.pointer # "absent" THEN c.pointer
    ELSE IF c.config = "unset" THEN "origin" ELSE c.config

\* Mutant: nothing is remembered of a pointer file.
ResolveForgets(p) ==
    LET target == ResolveTarget(clone)
    IN  /\ proc[p].main = "locked"
        /\ \/ /\ target = "broken" \/ world.faults
              /\ Die(p) /\ UNCHANGED clone
           \/ /\ target # "broken"
              /\ proc' = [proc EXCEPT ![p].main = "resolved",
                                      ![p].target = target,
                                      ![p].recorded = TRUE]
              /\ UNCHANGED <<files, clone>>
        /\ UNCHANGED <<world, client>>

\* machineID, gitx.New and resolveTargetAt, which writes down in the clone's
\* config what the file says and goes on if it cannot.
Resolve(p) ==
    LET target == ResolveTarget(clone)
    IN  /\ proc[p].main = "locked"
        /\ \/ /\ target = "broken" \/ world.faults
              /\ Die(p) /\ UNCHANGED clone
           \/ /\ target # "broken"
              /\ \E recorded \in {TRUE} \cup {~ world.faults} :
                    /\ proc' = [proc EXCEPT ![p].main = "resolved",
                                            ![p].target = target,
                                            ![p].recorded = recorded]
                    /\ clone' = [clone EXCEPT !.config =
                                    IF target \in Homes /\ recorded
                                    THEN target ELSE @]
              /\ UNCHANGED files
        /\ UNCHANGED <<world, client>>

\* A leftover socket is in the way of net.Listen.
RemoveSocket(p) ==
    /\ proc[p].main = "resolved"
    /\ files' = [files EXCEPT !.socket = Nobody]
    /\ proc'  = [proc EXCEPT ![p].main = "cleared"]
    /\ UNCHANGED <<world, clone, client>>

Listen(p) ==
    /\ proc[p].main = "cleared"
    /\ IF files.socket = Nobody
       THEN /\ files' = [files EXCEPT !.socket = p]
            /\ proc'  = [proc EXCEPT ![p].main = "bound",
                                     ![p].listening = TRUE]
       ELSE Die(p)
    /\ UNCHANGED <<world, clone, client>>

\* daemon.json; a listener closed again takes the socket file with it.
Announce(p) ==
    /\ proc[p].main = "bound"
    /\ \/ /\ files' = [files EXCEPT !.json = p]
          /\ proc'  = [proc EXCEPT ![p].main = "announced"]
       \/ /\ world.faults
          /\ files' = [Unlocked(p) EXCEPT !.socket = Nobody]
          /\ proc'  = Gone(p, "died")
    /\ UNCHANGED <<world, clone, client>>

\* The listener closes, and unlinks its path.
Close(p, stage) ==
    /\ proc'  = [proc EXCEPT ![p] = [stage EXCEPT !.listening = FALSE]]
    /\ files' = [files EXCEPT !.socket = Nobody]

\* Run: start goes its way ...
Run(p) ==
    /\ proc[p].main = "announced"
    /\ proc' = [proc EXCEPT ![p].main = "running", ![p].load = "asked"]
    /\ UNCHANGED <<world, files, clone, client>>

\* ... and Serve takes up the listener.  If the server was shut down before,
\* it accepts nothing and closes it, whoever is bound to its path by then.
Serve(p) ==
    /\ proc[p].main = "running"
    /\ IF proc[p].down \in {"no", "begun"}
       THEN /\ proc' = [proc EXCEPT ![p].main = "serving"]
            /\ UNCHANGED files
       ELSE Close(p, [proc[p] EXCEPT !.main = "leaving"])
    /\ UNCHANGED <<world, clone, client>>

\* Run returns when Shutdown is through.
Exit(p) ==
    /\ proc[p].main \in {"serving", "leaving"} /\ proc[p].down = "done"
    /\ proc' = Gone(p, "ended")
    /\ UNCHANGED <<world, files, clone, client>>

------------------------------------------------------------------------------
\* start: the first load, then the sync loop.
StartCheck(p) ==
    /\ proc[p].load = "asked"
    /\ proc' = [proc EXCEPT ![p].load =
                   IF Stopping(p) THEN "over" ELSE "adopting"]
    /\ UNCHANGED <<world, files, clone, client>>

\* AdoptRemoteBranch: the local branch is looked for before the fetch ...
Adopt(p) ==
    /\ proc[p].load = "adopting"
    /\ \E load \in {"fetched", "initing"} :
          /\ load = "fetched" => clone.branch = "none" /\ world.carries
          /\ load = "initing" =>
                clone.branch # "none" \/ ~ world.carries \/ world.faults
          /\ proc' = [proc EXCEPT ![p].load = load]
    /\ UNCHANGED <<world, files, clone, client>>

\* ... and must still be missing when the fetched head becomes it.
FastForward(p) ==
    /\ proc[p].load = "fetched"
    /\ proc'  = [proc EXCEPT ![p].load = "initing"]
    /\ clone' = [clone EXCEPT !.branch = IF @ = "none" THEN "adopted" ELSE @]
    /\ UNCHANGED <<world, files, client>>

\* Init: a root of one's own unless there is a branch.
MintBranch(p) ==
    /\ proc[p].load = "initing"
    /\ proc'  = [proc EXCEPT ![p].load = "loading"]
    /\ clone' = [clone EXCEPT !.branch = IF @ = "none" THEN "minted" ELSE @]
    /\ UNCHANGED <<world, files, client>>

LoadEnds(p) ==
    /\ proc[p].load = "loading"
    /\ \/ proc' = [proc EXCEPT ![p].load = "closed", ![p].loaded = TRUE]
       \/ world.faults /\ proc' = [proc EXCEPT ![p].load = "failed"]
    /\ UNCHANGED <<world, files, clone, client>>

\* start after loadDone: a failed load ends the daemon, a shut-down that has
\* begun owns the final sync.
LoadClosed(p) ==
    /\ \/ /\ proc[p].load = "failed" /\ ~ Stopping(p)
          /\ proc' = [proc EXCEPT ![p].down = "begun"]
       \/ /\ proc[p].load = "closed"
          /\ proc' = [proc EXCEPT ![p].load =
                         IF Stopping(p) THEN "over" ELSE "running"]
    /\ UNCHANGED <<world, files, clone, client>>

\* Mutant: a loop that does not look whether it was stopped before it began.
RunLoopUnasked(p) ==
    /\ proc[p].load = "running"
    /\ proc' = [proc EXCEPT ![p].load = "over", ![p].loop = "cycling"]
    /\ UNCHANGED <<world, files, clone, client>>

\* Syncer.Run decides under the mutex whether it starts.
RunLoop(p) ==
    /\ proc[p].load = "running"
    /\ proc' = [proc EXCEPT ![p].load = "over",
                            ![p].loop = IF proc[p].halt THEN "none"
                                        ELSE "cycling"]
    /\ UNCHANGED <<world, files, clone, client>>

\* One cycle after another, until a select finds the stop channel closed.
Loop(p) ==
    /\ \/ /\ proc[p].loop = "cycling"
          /\ proc' = [proc EXCEPT ![p].loop = IF proc[p].halt THEN "over"
                                              ELSE "waiting"]
       \/ /\ proc[p].loop = "waiting"
          /\ \/ proc' = [proc EXCEPT ![p].loop = "cycling"]
             \/ proc[p].halt /\ proc' = [proc EXCEPT ![p].loop = "over"]
    /\ UNCHANGED <<world, files, clone, client>>

------------------------------------------------------------------------------
\* Shutdown, once.
DownTo(p, stage) == proc' = [proc EXCEPT ![p].down = stage]

\* SIGTERM, once New has returned.
Signal(p) ==
    /\ p \in world.signals
    /\ proc[p].main \in {"announced", "running", "serving"}
    /\ ~ Stopping(p)
    /\ DownTo(p, "begun")
    /\ UNCHANGED <<world, files, clone, client>>

\* http.Server.Shutdown closes the listener that Serve has told it of ...
StopServing(p) ==
    /\ proc[p].down = "begun"
    /\ IF proc[p].main = "serving"
       THEN Close(p, [proc[p] EXCEPT !.down = "draining"])
       ELSE DownTo(p, "draining") /\ UNCHANGED files
    /\ UNCHANGED <<world, clone, client>>

\* ... and waits, not for ever, for the requests it has accepted: for none if
\* Serve has not begun.
Requests(p) ==
    {c \in Clients :
        /\ client[c].at \in {"parked", "writing"} /\ client[c].to = p
        /\ proc[p].main = "serving"}

Drained(p) ==
    /\ proc[p].down = "draining"
    /\ Requests(p) = {} \/ world.slow
    /\ proc' = [proc EXCEPT ![p].down = "drained",
                            ![p].overran = Requests(p) # {}]
    /\ UNCHANGED <<world, files, clone, client>>

\* The first load has ended, one way or the other.
JoinLoad(p) ==
    /\ proc[p].down = "drained" /\ LoadDone(p)
    /\ DownTo(p, IF proc[p].loaded THEN "flushing" ELSE "removing")
    /\ UNCHANGED <<world, files, clone, client>>

\* batcher.Flush; a failed one is logged.
Flush(p) ==
    /\ proc[p].down = "flushing"
    /\ \/ proc' = [proc EXCEPT ![p].down = "halting", ![p].pending = {}]
       \/ /\ world.faults /\ proc[p].pending # {}
          /\ proc' = [proc EXCEPT ![p].down = "halting",
                                  ![p].flushFailed = TRUE]
    /\ UNCHANGED <<world, files, clone, client>>

\* Syncer.Stop: a loop that has started is waited for.
StopLoop(p) ==
    /\ proc[p].down = "halting"
    /\ proc' = [proc EXCEPT ![p].halt = TRUE,
                            ![p].down = IF proc[p].loop = "none" THEN "syncing"
                                        ELSE "joining"]
    /\ UNCHANGED <<world, files, clone, client>>

JoinLoop(p) ==
    /\ proc[p].down = "joining" /\ proc[p].loop = "over"
    /\ DownTo(p, "syncing")
    /\ UNCHANGED <<world, files, clone, client>>

LastCycle(p) ==
    /\ proc[p].down = "syncing"
    /\ DownTo(p, "removing")
    /\ UNCHANGED <<world, files, clone, client>>

\* Mutant: the lock is given back before the files are gone.
CleanupUnlocked(p) ==
    /\ \/ /\ proc[p].down = "removing"
          /\ files' = Unlocked(p)
          /\ DownTo(p, "unlocking")
       \/ /\ proc[p].down = "unlocking"
          /\ files' = [files EXCEPT !.socket = Nobody, !.json = Nobody]
          /\ proc' = [proc EXCEPT ![p].down = "done",
                                  ![p].overtaken = proc[p].main = "running"]
    /\ UNCHANGED <<world, clone, client>>

\* cleanup: the files, then the lock.  It may overtake Serve.
Cleanup(p) ==
    /\ \/ /\ proc[p].down = "removing"
          /\ files' = [files EXCEPT !.socket = Nobody, !.json = Nobody]
          /\ proc' = [proc EXCEPT ![p].down = "unlocking",
                                  ![p].overtaken = proc[p].main = "running"]
       \/ /\ proc[p].down = "unlocking"
          /\ files' = Unlocked(p)
          /\ DownTo(p, "done")
    /\ UNCHANGED <<world, clone, client>>

\* A kill, a power cut, or a signal before New has returned: the kernel gives
\* the lock back, the files stay.
Kill(p) ==
    /\ world.kills
    /\ proc[p].main \notin {"none", "exited"}
    /\ proc'  = Gone(p, "killed")
    /\ files' = Unlocked(p)
    /\ UNCHANGED <<world, clone, client>>

------------------------------------------------------------------------------
\* The command line.
Listens(p) == p \in Clients /\ proc[p].listening

\* liveSocket: every daemon of a repository binds the same path, so that a
\* discovery file may be an earlier one's and the socket not.
LiveSocket == files.json # Nobody /\ Listens(files.socket)

ClientAt(c, at) == client' = [client EXCEPT ![c].at = at]

Fails(c, why) ==
    client' = [client EXCEPT ![c].at = "failed", ![c].why = why]

Launch(c) ==
    /\ client[c].at = "idle" /\ c \in world.commands
    /\ ClientAt(c, "looking")
    /\ UNCHANGED <<world, files, clone, proc>>

\* ensureDaemon: a live socket, or a daemon of one's own.
EnsureDaemon(c) ==
    /\ client[c].at = "looking"
    /\ IF LiveSocket
       THEN ClientAt(c, "asking") /\ UNCHANGED proc
       ELSE /\ ClientAt(c, "awaiting")
            /\ proc' = [proc EXCEPT ![c].main = "started"]
    /\ UNCHANGED <<world, files, clone>>

SomeoneIsComing ==
    \E p \in Clients :
        proc[p].main \in {"started", "locked", "resolved", "cleared", "bound"}

\* Mutant: the loser of the lock is taken for a daemon that died.
AwaitDaemonLoses(c) ==
    /\ client[c].at = "awaiting"
    /\ \/ LiveSocket /\ ClientAt(c, "asking")
       \/ /\ ~ LiveSocket /\ proc[c].main = "exited"
          /\ Fails(c, "exited")
       \/ ~ LiveSocket /\ ~ SomeoneIsComing /\ Fails(c, "ceiling")
    /\ UNCHANGED <<world, files, clone, proc>>

\* awaitDaemon: the socket, whoever serves it; the exit of one's own daemon,
\* unless it is the lock's loser; or the ceiling, which is generous: while a
\* process is on its way to the socket it is not reached.
AwaitDaemon(c) ==
    /\ client[c].at = "awaiting"
    /\ \/ LiveSocket /\ ClientAt(c, "asking")
       \/ /\ ~ LiveSocket /\ proc[c].main = "exited"
          /\ proc[c].code # "running"
          /\ Fails(c, "exited")
       \/ ~ LiveSocket /\ ~ SomeoneIsComing /\ Fails(c, "ceiling")
    /\ UNCHANGED <<world, files, clone, proc>>

\* awaitLoaded parks a snapshot request on the socket.
Ask(c) ==
    /\ client[c].at = "asking"
    /\ IF Listens(files.socket)
       THEN client' = [client EXCEPT ![c].at = "parked",
                                     ![c].to = files.socket]
       ELSE Fails(c, "exited")
    /\ UNCHANGED <<world, files, clone, proc>>

\* The answer: a ledger, or the placeholder of a daemon on its way out.
Answered(c) ==
    LET p == client[c].to
    IN  /\ client[c].at = "parked"
        /\ proc[p].main = "serving"
        /\ \/ proc[p].loaded /\ ClientAt(c, "ready")
           \/ ~ proc[p].loaded /\ Stopping(p) /\ ClientAt(c, "asking")
           \/ ~ proc[p].loaded /\ world.slow /\ Fails(c, "loading")
        /\ UNCHANGED <<world, files, clone, proc>>

\* A request that no handler took, or whose daemon is gone.
Dropped(c) ==
    /\ client[c].at \in {"parked", "writing"}
    /\ ~ proc[client[c].to].listening
    /\ Fails(c, "exited")
    /\ UNCHANGED <<world, files, clone, proc>>

Write(c) ==
    /\ client[c].at = "ready" /\ world.writes
    /\ IF Listens(files.socket)
       THEN client' = [client EXCEPT ![c].at = "writing",
                                     ![c].to = files.socket]
       ELSE Fails(c, "exited")
    /\ UNCHANGED <<world, files, clone, proc>>

\* A write that is answered and committed later.  The gate asks whether the
\* daemon has loaded, not whether it is on its way out.
HandleWrite(c) ==
    LET p == client[c].to
    IN  /\ client[c].at = "writing"
        /\ proc[p].main = "serving"
        /\ ClientAt(c, "done")
        /\ proc' = [proc EXCEPT ![p].pending =
                       IF proc[p].loaded THEN @ \cup {c} ELSE @]
        /\ UNCHANGED <<world, files, clone>>

\* background: the batcher's timer.
FlushTimer(p) ==
    /\ proc[p].pending # {}
    /\ proc' = [proc EXCEPT ![p].pending = {}]
    /\ UNCHANGED <<world, files, clone, client>>

\* Another branch is checked out, with another .tuhdoo or none.
Checkout ==
    /\ \E pointer \in world.pointers \ {clone.pointer} :
          clone' = [clone EXCEPT !.pointer = pointer]
    /\ UNCHANGED <<world, files, proc, client>>

------------------------------------------------------------------------------
Main(p) ==
    \/ AcquireLock(p) \/ Resolve(p) \/ RemoveSocket(p) \/ Listen(p)
    \/ Announce(p) \/ Run(p) \/ Serve(p) \/ Exit(p)

Start(p) ==
    \/ StartCheck(p) \/ Adopt(p) \/ FastForward(p) \/ MintBranch(p)
    \/ LoadEnds(p) \/ LoadClosed(p) \/ RunLoop(p)

Shutdown(p) ==
    \/ StopServing(p) \/ Drained(p) \/ JoinLoad(p) \/ Flush(p) \/ StopLoop(p)
    \/ JoinLoop(p) \/ LastCycle(p) \/ Cleanup(p)

Command(c) == EnsureDaemon(c) \/ AwaitDaemon(c) \/ Ask(c)
Request(c) == Answered(c) \/ Dropped(c) \/ HandleWrite(c)

Next ==
    \/ Checkout
    \/ \E p \in Clients :
          \/ Main(p) \/ Start(p) \/ Loop(p) \/ Shutdown(p)
          \/ StartFails(p) \/ Signal(p) \/ Kill(p) \/ FlushTimer(p)
          \/ Launch(p) \/ Command(p) \/ Write(p) \/ Request(p)

Spec == Init /\ [][Next]_vars

\* The operating system runs every process and Go every goroutine: a drain is
\* bounded by its context, a load by the adoption's own time limit, a cycle by
\* git.  The one loop that never ends by itself is the sync loop; of the rest
\* it is enough that some step is taken while there is one.  Nobody is bound to
\* launch, to write, to signal or to kill.
FairSpec ==
    /\ Spec
    /\ WF_vars(\E p \in Clients : Main(p) \/ Start(p) \/ Shutdown(p))
    /\ WF_vars(\E p \in Clients : Loop(p))
    /\ WF_vars(\E c \in Clients : Command(c) \/ Request(c))

------------------------------------------------------------------------------
Stages ==
    [main : {"none", "started", "locked", "resolved", "cleared", "bound",
             "announced", "running", "serving", "leaving", "exited"},
     load : {"none", "asked", "adopting", "fetched", "initing", "loading",
             "closed", "failed", "running", "over"},
     loop : {"none", "cycling", "waiting", "over"},
     down : {"no", "begun", "draining", "drained", "flushing", "halting",
             "joining", "syncing", "removing", "unlocking", "done"},
     listening : BOOLEAN, loaded : BOOLEAN, halt : BOOLEAN, overran : BOOLEAN,
     overtaken : BOOLEAN, flushFailed : BOOLEAN, pending : SUBSET Clients,
     target : Homes \cup {"origin", "none"}, recorded : BOOLEAN,
     code : {"none", "died", "running", "ended", "killed"}]

\* Types of all variables; no daemon ever runs for a ledger it had to guess the
\* place of.
TypeOK ==
    /\ world \in Worlds
    /\ files \in [lock   : Clients \cup {Nobody},
                  socket : Clients \cup {Nobody, Stale},
                  json   : Clients \cup {Nobody, Stale}]
    /\ clone \in [pointer : Homes \cup {"absent", "broken"},
                  config  : Homes \cup {"unset", "broken"},
                  branch  : {"none", "adopted", "minted"}]
    /\ proc \in [Clients -> Stages]
    /\ client \in [Clients ->
                      [at  : {"idle", "looking", "awaiting", "asking",
                              "parked", "ready", "writing", "done", "failed"},
                       to  : Clients \cup {Nobody},
                       why : {"none", "exited", "ceiling", "loading"}]]

\* One daemon at a time works on the ledger, and "if the lock is held, a daemon
\* is alive": from before its target is known until nothing of it is left, the
\* lock is its own.  Whoever finds a socket file that is listened on has found
\* the lock's holder, and a daemon that serves is named in the discovery file
\* until it stops.  It is also listening at that path, unless a shut-down has
\* overtaken a Serve: the late one unlinks the path, whosoever it is by then.
OneDaemon ==
    \A p \in Clients :
        /\ /\ proc[p].main \notin {"none", "started", "exited"}
           /\ proc[p].down # "done"
           => files.lock = p
        /\ proc[p].listening /\ files.socket = p => files.lock = p
        /\ /\ proc[p].main \in {"announced", "running", "serving"}
           /\ ~ Stopping(p)
           => proc[p].listening /\ files.json = p
        /\ /\ \A q \in Clients : ~ proc[q].overtaken
           /\ proc[p].listening
           => files.socket = p

\* A daemon is never torn down under its load or its sync loop, and no loop
\* begins behind its back; the last cycle has nobody beside it; and what it
\* answered for is on the branch by then, save for a flush that failed and
\* for handlers that outlived the drain.
CleanTeardown ==
    \A p \in Clients :
        proc[p].down \in {"syncing", "removing", "unlocking", "done"} =>
            /\ LoadDone(p) /\ proc[p].loop \in {"none", "over"}
            /\ proc[p].pending # {} => proc[p].overran \/ proc[p].flushFailed

\* A clone that has run a daemon for a ledger kept elsewhere does not fall back
\* to origin when a branch without the pointer file is checked out, unless
\* writing the target down failed.
HomeIsKept ==
    [][\A q \in Clients :
          proc[q].target = "none" /\ proc'[q].target = "origin" =>
              \A p \in Clients :
                  proc[p].target \in Homes => ~ proc[p].recorded]_vars

Served == {"ready", "writing", "done"}

\* Nobody is signalled or killed, and nothing fails.
Calm ==
    [](\A p \in Clients :
          ~ Stopping(p) /\ proc[p].code \in {"none", "running"})

\* Every command that asks for a daemon comes to an end, every shut-down does,
\* whatever it meets; and where no daemon is stopped, every command finds one,
\* the losers of the lock included, unless the load outlasts its ceiling.
LaunchesEnd ==
    /\ \A c \in Clients :
          client[c].at = "looking" ~> client[c].at \in Served \cup {"failed"}
    /\ \A p \in Clients : Stopping(p) ~> proc[p].main = "exited"
    /\ Calm => \A c \in Clients :
          client[c].at = "looking" ~>
              client[c].at \in Served \/ client[c].why = "loading"
=============================================================================
