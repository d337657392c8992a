# tuhdoo, modelled

tuhdoo is a task ledger for fleets of coding agents. Every machine runs a
daemon over an orphan branch of the repository; the branch holds immutable
event files, mutable lease files and rendered views. State is never stored: it
is *replayed* from the events, the leases and the clock. Machines exchange the
branch through a git remote and merge it at the level of the application.
Who owns a task is decided by that replay, provisionally, and by a
confirmation that a claimant wins against the remote, finally.

The project models that core: the replay (the "referee"), the merge, and a
fleet of daemons that claim, confirm, finish, release and renew while they
pull from and push to one another; one machine at a time, the path a write
takes from an operation through the batcher and the store onto the branch;
the way back, from the daemon's memo through parked requests to the screens
that poll it, across restarts of the daemon; the backlog as a graph that
several machines edit and merge; the screen a person works at, while the board changes
under it; and how a command gets its daemon, and how daemons come and go.
Safety is model-checked with TLC on small instances; the referee's
invariants, the algebra of the merge, what a fleet of any size agrees on, what the
batcher and the store never lose, what the memo promises its screens and what the
lock promises its daemons are proved with TLAPS for all parameters.

## The system

| part | state it keeps | operations | what makes it hard |
|---|---|---|---|
| replay (`internal/core/replay.go`) | none: a fold over an event set | `Replay`, one arm of `apply` per event type, two passes over the leases | events arrive in any order and are folded in id order; a late event rewrites verdicts |
| state queries (`core/state.go`) | none | `ActiveClaim`, `Ready`, `ClaimBlockers`, ordering, dependency loops | read by every guard of the daemon |
| merge (`syncer/merge.go`) | none | union of events, pick of leases, confirmation guard, views policy | both machines must compute the same tree, in either direction |
| sync cycle (`syncer/syncer.go`) | tracking ref, status | notice an outside move, fetch, reconcile, push, retry | everyone pushes; compare-and-swap on every ref |
| gate (`syncer/gate.go`, `daemon/ops.go`) | none of its own | judge the head, push one confirmation onto it, re-judge, record | the daemon's mutex is not held across it |
| leases (`store/lease.go`, `daemon/mcp.go`) | one file per claim | write, renew, tombstone | clocks, offline machines, stale copies |
| store (`store/store.go`) | head, tree, decode caches, private index | load, commit, append with retries, fast-forward | the ref also moves from outside; a failed step leaves the index behind |
| batcher (`store/batcher.go`) | pending events, staged pages, a timer | add, stage, flush, background flush | debounce; failed flushes; pages staged before a merge |
| daemon (`daemon/daemon.go`) | memoized state, overlay, version, transition timer | load, replay, bump, render, shut down | memo against branch, long polls, start-up and shut-down |
| surfaces (`daemon/api.go`, `daemon/mcp.go`) | sessions, parked requests | HTTP and MCP handlers | renewal from a memo |
| events (`internal/event`) | none | ids, encoding, payload checks, upcasts | ids are clocks |
| views (`internal/views`) | none | render state to Markdown | format stamps between versions |
| git (`internal/gitx`) | none | subprocesses | compare-and-swap, index file |
| start and stop (`daemon.New`, `Run`, `Shutdown`, `daemon_cmd.go`, `target.go`, `adopt.go`) | lock, socket and discovery file, pointer file and clone config, stages of four goroutines | take the lock, resolve the ledger's home, bind, announce, adopt or mint, load, run the loop, drain, flush, last cycle, clean up | anything may die anywhere; files outlive their daemon; a signal meets a load |
| command line (`client.go`) | none | find a socket or spawn, await the socket, await the ledger, write | commands race; the loser of the lock waits for the winner |
| screen (`cmd/tuhdoo/top.go`, `snapshot.go`) | version shown, poll in flight, cursor, mode, prompt and its target, view and its focus | long poll, retry, refresh, keys, writes | answers, retry timers and keys in any order; daemons that restart and boards that change under it |
| text input, overlays, renderers (`cmd/tuhdoo`), harness, npm, site | none of the ledger's | | |

How they interact. An operation runs under the daemon's mutex: it brings the
memo up to date, judges it, stages events with the batcher and either waits for
the debounce or flushes. The batcher appends to the store, which commits and
moves the ref. The sync loop moves the same ref through the same store when it
merges, then calls the daemon back to refresh. The gate goes around the
batcher: it builds a commit on the head it judged and pushes it to the remote
before any local ref knows of it. Readers ask for a snapshot with the version they
have; the daemon answers at once when its version differs and parks the request
until the next bump otherwise. A command dials the socket that the discovery file
names and spawns a daemon when nobody answers; the lock decides which daemon stays.

## The modules

| module | models | how |
|---|---|---|
| `Replay` | `core/replay.go`, the queries of `core/state.go` that guards read | pure operators: one per event type, `Fold`, `Close`, `ReplayOf`, `Ready` |
| `Referee` | what replay promises about claims | abstract state machine: contests that open, are joined, settled and ended |
| `ReplayLoop` | replay's loop | state machine over `Replay`'s operators, one action per event type; refines `Referee` |
| `FoldProofs` | | what the operators of `Replay` and `Merge` preserve, what the fold computes of any ledger, and how heads compare: their merge, the first confirmations, what one more event makes of a head |
| `ReplayProofs` | | the inductive invariant of `ReplayLoop`; what an event does to a contest, claim by claim: the refinement of `Referee`, the verdicts, the traces |
| `Merge` | `syncer/merge.go`, `reconcile` | pure operators on heads: `PickLease`, `Refused`, `MergeTrees`, `Reconciled`; and, for the properties, the first confirmation of a task on a head |
| `Fleet` | `daemon/ops.go` over the gate and the sync cycle | machines, a remote, one action per operation and one per step of the gate |
| `FleetProofs` | | what the heads of a fleet agree on, what each machine keeps of its own, and the first winner, and then every winner, of every task through all that machines and merges do |
| `Backlog` | the operations of `daemon/ops.go` on tasks, dependencies and escalations; what `core/state.go` derives from edges | machines and a remote as in `Fleet`, one action per operation, a cycle of the sync loop in one step |
| `BacklogProofs` | | that a backlog replays whatever is written and merged, that its searches find the loops there are, that no loop is written knowingly and that no task waits for nothing unseen |
| `Replica` | `store/store.go`, `store/batcher.go`, the memo and overlay of `daemon/daemon.go`, the sync cycle of `syncer/syncer.go` | one machine's threads over the data branch, one action per stretch of code that a mutex protects |
| `ReplicaProofs` | | the lineage of heads, and that nothing accepted is lost |
| `Memo` | `daemon/daemon.go`'s memo, versions, transition timer, load and shut-down; `handleSnapshot` of `daemon/api.go` | one daemon after another, one action per critical section |
| `Screen` | `cmd/tuhdoo/top.go` and `snapshot.go`, as far as polling goes | composes with `Memo` (which it extends): one action per message of `Update` |
| `ScreenProofs` | | what the memo promises its screens |
| `Board` | what `top.go` and `snapshot.go` compute from a snapshot | pure operators: rows of both lists, stops and lines of a task's view, scrolling, windows and hit maps |
| `Top` | `topModel` of `cmd/tuhdoo/top.go` | state machine over `Board`: one action per key, mouse event or message, the writes as they are sent and land, and what others do to the ledger |
| `TopProofs` | | that the lists leave nothing out, that a write hits what was picked, and that what the next key acts on is on the screen |
| `Lifecycle` | `daemon.New`, `Run`, `start`, `Shutdown`; `target.go`; `adopt.go`; `Syncer.Run` and `Stop`; `client.go` | daemons and commands over one repository's files, one action per step of a goroutine that another can get between |
| `LifecycleProofs` | | the inductive invariant of `Lifecycle` and its safety properties |
| `MCReplayLoop`, `MCFleet`, `MCBacklog`, `MCReplica`, `MCScreen`, `MCTop`, `MCLifecycle` | | values of constants for TLC |

### Replay

A ledger is a set of events; `Fold` applies them in id order. Ids are natural
numbers, `IdsPerTick` of which share an instant, as ULIDs of one millisecond
do. State is a record: `tasks`, `claims` and `escalations` are functions on the
keys present (the maps of `State`), `holder` is the map local to `Replay`,
`runs` a set. `error` stands for a replay that returns an error; the fold then
stops. `Close(s, leases, now)` is what `Replay` does after the loop: it expires
the holders whose lease has lapsed and closes the losers that never reported.
A missing lease file reads as a lease that lapsed before every instant.

Data no verdict depends on (titles, descriptions, labels, priorities, notes,
the edit history) is not in the model, nor is that a `note.added` on an unknown task makes a
ledger malformed (`replay.go:465`), as a `task.updated` does, which is modelled.

`ReplayLoop` reads one more event at each step, so that its reachable states
are the replays of all ledgers, and what is invariant in it holds for every
replay. The variable `contest` is history: the claims of the present hold.

### Merge and Fleet

A head is a record of `events`, `leases` and `seen`, the operations in its
history; git's ancestor relation is inclusion of `seen`. `Fleet` gives every
machine a local head, the remote another. An operation is one step, for it runs
under the daemon's mutex; the gate is cut where the code lets go of it:
`EnterGate` (judged locally), `GateJudge` (`GateHead`, then `judgeConfirm`, then
the id is minted), `GatePush` (accepted, and the answer may be lost, and the
local head may fail to advance), `GateRetry` (refused, judge again),
`GateRefuse` (gives up), `GateRecord` (`opFinishRun` records what was won).
`told` collects the claims whose owner was answered "confirmed, merge freely".
`Pull` and `Push` are the halves of a sync cycle.

What `Fleet` abstracts:

- Clocks agree: every operation has its own instant, which is also its event's
  id. `Wait` lets time pass while a lease may lapse. Skewed clocks are in
  `Backlog`.
- After the gate an operation judges again at the instant it began at (`now` is taken once,
  `ops.go:572`, `784`), or at that of a later replay the daemon still has. `Judgings`
  lets in every instant up to now.
- Events come to `Fold` in id order; the sort itself is not modelled as something that could go wrong.
- An actor has one call under way at a time (two of one actor at once, `ops.go:636`, are not met). A claim and its lease are one step
  (the code commits the lease first; a crash in between leaves an orphan lease).
- The debounce is left out: what an operation wrote is on its local head when it
  returns. Claims, releases and confirmations flush eagerly, so this concerns
  runs recorded moments before a sync.
- Tasks exist on every machine from the start and have no dependencies (`Backlog`
  has both); views are a function of the rest and left out.

### Backlog

`Backlog` uses the heads of `Merge` for the other half of the operations: batches of
new tasks, updates of status and edges, claims, escalations and their answers. A
daemon refuses to write a dependency loop it sees, but two heads merge by union, so
that loops arise which nobody wrote; the code marks them. `inDepLoop`, `depLoopLocked`
and `hasCycle` are the depth-first searches of the code: `Search` and `Visit` are its
recursive closures as recursive functions, with the captured `seen`, `color` passed in
and handed back (in the order of a `CHOOSE`, for the answer does not depend on it), and
they stop at the first way back as the code does. `opBacklog` gives the sections of its
answer.

| state | code |
|---|---|
| `local`, `remote` | the data branch of each machine and of the remote |
| `state` | the replay of its head that each daemon answers from |
| `clock` | the latest instant; `Skew` says how far a machine's clock is ahead |
| `knew` | history: the ids the writer of an event had on its head |
| `world` | which deployment and bounds this behaviour has; no step changes it |

What it abstracts:

- Attempts only begin here: claims are made under leases that outlast the run.
- Labels and priorities are left out, so `next` may pick any task that is ready.
- `Sync` is one cycle of the loop whose push is accepted or not.
- Every machine starts out with one batch of tasks (none, in the world of the skewed
  clocks).
- `Max` of a set of ids, in `EdgeWriter`, is the last writer because `Skew` is nought
  in the run that checks it.

### Replica

`Replica` looks at one machine from close by. Three threads take turns: an
operation or refresh under the daemon's mutex (`op` says what it does next), the
batcher's timer, and the sync loop (`sync`). The store's mutex is held for a whole
`AppendBatch` (`append`), and only the outside moves the ref between its
attempts. A head is a commit with the commits in its history; beside events and
leases it has the rendered pages and the format stamp. `acked` is history: the
events whose operation was answered without an error.

| state | code |
|---|---|
| `ref`, `remote` | the local data branch in git, the branch on the remote |
| `store` | `Store.head`, `Store.tree`, the private index, `indexStale` |
| `append` | an `AppendBatch` under way: its batch and its attempts |
| `batcher` | `Batcher.pending`, `Batcher.files`, whether the timer is armed |
| `memo`, `written` | `Daemon.state`, `Daemon.written` |

What `Replica` abstracts:

- Pages are one value: the state they show and the format they are written in. The
  code stages only the pages that differ; here they are staged together. The stamp file beside them
  is a value of its own, staged like them only where the head has another (`Changed`). A branch
  starts as `store.Init` mints it, without pages or stamp. Replay is
  reduced to which events and leases there are, for nothing else matters to the path.
- `ReadFile`, `Changed` and `SetFiles` of `renderViewsLocked` are one step, as are the git
  commands of one commit attempt; a failure among the latter leaves the index
  as it was or fed and stale.
- Lapses of leases, which also change pages, and the fail-safe mode are left out.
  Merges refuse no confirmation here (`Merge` and `Fleet` have that).
- The outside moves the ref forward only (a fetch into it); a `branch -f` to
  somewhere else takes work away by intent, and nothing is promised then.
- Peers write the remote directly, each with its format, older than ours, ours or newer. A peer
  heeds a stamp that is newer than its own, or, in worlds where peers `overwrite`, may put its pages over it, as this machine
  may by the race described below.
- A background flush that fails leaves its batch pending and the timer unarmed, as in the code
  (`batcher.go:107-111`): `NothingForgotten` counts what waits with the batcher as kept, and only `Settles`, where
  nothing fails, says that it gets to the branch.
- `AppendBatch` tries twice instead of five times (`MaxCASRetries`).

### Memo and Screen

`Memo` is one daemon's memo and the requests parked on it, through start, load,
shut-down, crash and the next start. `Screen` adds what sends the requests: the
terminal screen's chain of long polls.

| state | code |
|---|---|
| `daemon.facts`, `.live`, `.leases`, `.degraded` | `Daemon.state` as served, and the fail-safe mode |
| `daemon.until`, `.timer`, `.version` | `validUntil`, `transition`, `version` |
| `daemon.load`, `.stopping`, `.decided` | `loaded` and `loadDone`, `stopping`, whether the sync loop has left mode "starting" |
| `call` | a request: on its way, wanting the mutex, parked on `changed`, answered |
| `pane` | `topModel.version`, the snapshot shown, `inFlight`, messages `pollMsg` to come |

A step is what one holder of `Daemon.mu` does. `HandleSnapshot` is one round of the
handler's loop: write gate, `freshenLocked`, compare versions, answer or park. `Receive`
is what `fetchSnapshotSince` does with an answer, and the message `Update` gets from it.
`boot` counts daemons; it is history, and tells which daemon served what.

What they abstract:

- What a ledger says is a count of facts, and the leases of the claims that stand.
  A write adds a fact, `WriteLease` moves a lease, and the outside (`Foreign`) may do
  either, or leave a ledger that replay refuses.
- `RenewOnce` renews one claim per step; the code renews all of a session's and
  replays once.
- `Earlier`: operations read the clock before they wait for the mutex, so that the
  instant they replay at may lie behind.
- The wait of a request and the budgets of `fetchSnapshotSince` may run out at any
  moment. `WaitElapses` is not fair: catching up relies on wake-ups alone.
- A drain that times out after three seconds is an `Exit` with requests still open. The
  lock file, the socket and the flush and final sync of a shut-down are not here; what
  they leave on the branch is `Elsewhere`.
- A screen whose version is, by chance, the one the restarted daemon is at is parked
  although it shows the older daemon's picture. The property `ScreenCatchesUp` excepts screens that
  still show an earlier daemon's picture; nothing in the code makes them notice before
  the next bump or the end of the wait.

### Board and Top

`Screen` has the polls; `Top` has the person. A `story` is the ledger as the daemon
comes to have it, version by version; the `pane` shows one of them, and a `Refresh` may
put a later one under any key.

| state | code |
|---|---|
| `story` | the snapshots behind version 1, 2, ... of the daemon; the last is the ledger |
| `pane.version`, `.rows`, `.cursor`, `.closed` | `version` and `snap`, `rows`, `cursor`, `closed` |
| `pane.mode`, `.back`, `.target`, `.was`, `.rejected` | `mode`, `back`, `target`, `editWas`, `inputErr` |
| `pane.detail`, `.hops`, `.focus`, `.expanded` | the task in view and the stack of tasks behind it, `detailFocus`, what is folded open |
| `flight`, `writes` | commands that run beside `Update`, and history: everything ever sent |
| `world` | armed or in watch mode, the boards to start on, the bounds; no step changes it |

An action is one branch of `Update`: which keys are live in which mode and for which
row, what they open, what they send. `Board` is what those branches ask: `BuildRows`,
`BuildClosedRows` and their order, `DetailStops` (the focus ring), `DetailBlocks` and
`DetailLines` (what is drawn, with the counter that tags a line with its stop),
`RevealScroll`, `ListChunks` and `Visible` (the windows), `RowAt` and `StopAt` (the hit
maps of the mouse).

What they abstract:

- Texts are seven values, among them an empty one, a blank one, and one with a space before and one
  with a space inside it, which is what trimming and splitting labels tell apart. What is typed into a
  prompt is whatever it holds at the key that submits it.
- A block has a fixed number of lines: the width of a terminal and wrapping are left out, as are colours,
  relative times and the sync strip, which only adds a line.
- Dependencies are fixed and without loops (`Backlog` has those); one of them is of a
  task that is in no snapshot.
- Boards only grow, as no event takes a task away: the view of a task that vanished under a refresh
  (`top.go:1608-1612`), which shows the list while the view's keys act, does not occur.
- A write lands at some later time, in any order, or is lost; the daemon accepts it as
  `opUpdateTask` does. Other principals claim, finish, ask and answer meanwhile.

### Lifecycle

A daemon is named for the command that spawns it. It has four goroutines: main (`New`,
then `Run`, which sends `start` on its way, then `Serve`, which takes up the listener), `start` (the load, then the loop), the sync loop, and whoever runs
`Shutdown`; a stage is kept for each.

| state | code |
|---|---|
| `files.lock`, `.socket`, `.json` | whose the flock, the socket file and `daemon.json` are; `stale` for a daemon long dead |
| `clone.pointer`, `.config`, `.branch` | `.tuhdoo` of the checked-out branch, `git config tuhdoo.remote`, how the local data branch came to be |
| `proc[p].main`, `.load`, `.loop`, `.down` | the stages |
| `proc[p].listening`, `.loaded`, `.halt`, `.pending` | the listener is open, `loaded`, `Syncer.stop` is closed, what the batcher holds |
| `proc[p].overran`, `.overtaken`, `.flushFailed`, `.recorded`, `.target`, `.code` | history: requests were left after the drain, the files were removed before `Serve` had the listener, the last flush failed, the target was written to the config, what it was; the exit status |
| `client[c]` | the stage of `ensureDaemon`, the daemon it talks to, the reason it failed |

What it abstracts:

- All daemons of a repository bind one path (`socketPath` is a function of the runtime
  directory), and closing a Go listener unlinks that path.
- Of the ledger there is one bit per writer: what was answered and not committed yet.
  `Replica` has the rest of a write, `Memo` the rest of a load.
- Where a ledger is kept is one of `Homes` or origin; a file or config value is right or
  `broken`. One worktree, whose pointer file a `Checkout` changes. A linked worktree has a git
  directory, and so a runtime directory, of its own (`daemon.go:804-826`), and shares the config, the
  refs and so the ledger: there two daemons with two locks may run on one branch. `OneDaemon`
  and `HomeIsKept` are about one runtime directory and say nothing of that.
- Clocks: the drain of three seconds and the ceilings of thirty may run out only in `slow` worlds,
  save the ceiling of `awaitDaemon`, which runs out when no process is on its way to the socket.
- `http.Server.Shutdown` closes the listeners that `Serve` has registered, so `Run` and `Serve` are two steps: a
  signal in between is not waited for by anybody, and `Serve` then returns at once and closes the
  listener (stage `leaving`).
- A listener that fails under `Serve`, with the exit of `Run` it causes, and the ids of processes, are left out.

## Runs

| run | asks | result |
|---|---|---|
| `ReplayLedgers` | ledgers of up to six events on one task: types, confirmed never voided, the winner rule with the one holder it names, one trace per attempt, verdicts and closing stamps that only move forward, `Referee` implemented | holds |
| `FleetContest` | two machines and a remote where nobody gives up and no lease lapses, one machine without a remote where anything happens, and two machines with releases, failures, lapses and renewals: the first winner of a task is the same everywhere and stands, and in settled fleets every winner stands and one at a time is told to merge; one close per attempt, tombstones, and that nothing goes back: no lease and no first winner; every head replays (in `TypeOK`) | holds |
| `FleetConverges` | the heads come together when the work stops | holds |
| `ReplicaWrites` | git failures, crashes, outside moves, peers of older and newer formats and the sync cycle in every order: commits are whole (the replica's tree is its head's tree, leases land before claims), nothing is forgotten (what is accepted stays and is read back, eager writes are durable), no event leaves a branch and the stamp goes back only by a batch's first attempt, or with the head of a peer that did so; in the world without failures, machine and remote end on one head with current pages | holds |
| `ScreenPolls` | one screen under two daemons one after the other, lapses, renewals, foreign changes, fail-safe mode, shut-down and crash: a version names one state, no poll is lost (none parked past a bump, none doubled, none missing), the memo is right until its transition, no lapsed hold is served, and while a daemon stays up the screen comes to show the ledger as it is | holds |
| `Backlog` | two machines edit the graph, work on it and merge: every head replays, a loop takes two writers who did not know of each other, every task is in one section and every blocked one waits for something a person can see, the three searches find exactly the loops | holds |
| `TopPanes` | a person at a screen whose board changes under every key: writes are about what was picked, every task has a row, ring, lines, hit maps and legends agree, the selection is in the window | holds |
| `Lifecycle` | commands that race over a dead daemon's files; signals, kills, faults, slow handlers, a pointer file that comes and goes: one daemon (the lock, and whose files are whose), no tear-down under a load or a loop, the ledger's home is kept, everything asked for ends | holds |
| `FleetSecondContest` | published files stay, with releases | violated |
| `ReplicaOutside` | a ref moved from outside is noticed in the end | violated |
| `ReplicaStamp` | the highest format stamp wins | violated |
| `BacklogSkewed` | every head replays, with one clock ahead | violated |

Bounds. Six ids on one task are enough for two contests with a loser each, or
one contest with three claims, a confirmation, a lapse and a late run; ids that
share an instant (`IdsPerTick = 2`) exercise the boundary of a lapse. Two
machines suffice for every disagreement of replicas found, since a third only
relays; eight ids let both machines claim, confirm and finish one task, and one
claim again.
`MaxId` bounds the ids; when they run out the behaviour ends, so the runs do
not check for deadlock.

`Replica` has one event that waits for the debounce, one claim and up to two foreign
events, and three `Worlds` in one run. One has every failure, crash and move by hand, and a peer of our or a
newer format. One has moves by hand, to heads of peers that overwrite newer pages, and two foreign events: with two, an append can lose twice in a row
and give up. Six commits (`last`) let a write, two peers' pushes, a merge and a late flush follow one another.
The third is `Calm`: nothing fails, a peer has any of three formats, and the machine must settle. There, and in
`ReplicaOutside` and `ReplicaStamp`, the bound of fourteen commits is never reached, so that
it cannot stand in for progress.

`ScreenPolls` has one claim, a lease of one tick and a clock of three, so that the
lease is renewed, lapses and is taken again; one fact, which may be written by an operation, merged or come from
outside, beside the changes that leases make, so that one change lands while a request is
being answered for another; two
daemons, so that a version of the first meets the same version of the second; and two
retry timers, so that one can fire while a poll that another started is in flight. The
theorems of `ScreenProofs` cover longer leases and more facts.

`Backlog` has five worlds. Three tasks with single edges and two writes after the batch
give a loop of three that a merge closes, and tasks that lead into it; the same tasks
with two edges each give tasks that lie on two loops, and unmet beside met
dependencies. Two tasks with three writes let a done task be reopened behind an edge
that was written while it was done; with two fields to an update, a status and an edge
change at once. The last world claims tasks and raises and answers escalations on them.
A third machine would only relay. Tasks and machines are symmetric: the code compares
ids of tasks for equality only in what is modelled, and machines differ in nothing once
their clocks agree.

`TopPanes` has four panes over two or three tasks and two questions. One shows boards of every kind,
where the first task runs through all statuses and is held or not, the second through all statuses and the third is
there to be listed elsewhere, with and without a question, and never refreshes: that is
for what is computed from one board. One meets a board that gets work, questions and
answers between its keys, one a board whose task is closed and whose fields are
edited by others, and one is in watch mode. Two versions are enough for a prompt to outlive the
board it was opened on, and one write to be told from none (`maxVersion`, `maxWrites`, `maxHops`); the
heights are a window that everything fits and one that it does not.

`Lifecycle` has four worlds: three commands race over the files of a dead daemon, so that
a loser's command meets a winner spawned by another; two daemons are killed and one of them
is signalled too, so that one starts while the other leaves, also one whose shut-down overtook its `Serve`; two start in a clone whose pointer file is there,
missing or broken; and one meets everything at once, failures of each call included.
The theorems of `LifecycleProofs` are for any number of commands and any worlds.

In `ReplayLedgers` actors are symmetric: they are only compared for equality.

`Fleet` starts in one of several `Worlds` (who lives where, a remote or none, the
lease time, whether users give up and sessions renew, the last instant) and stays in it. What is
promised to winners comes in three degrees. `FirstWinnerIsAlone` is asked of all worlds: whatever
is released, lapses or is refused, no two heads name different first confirmations of a task, and no done run
precedes the first one. `FirstWinnerStands` is asked where the fleet is `Lasting` (a remote, nobody gives up, no
lease lapses before the last instant): the first confirmation is applied by the replay of every
head that has it, and who is told to merge is that winner, or claimed the task after the winner's attempt was
over. `EveryWinnerStands` promises that to every winner, not only to the first of a task
(`ToldIsNeverVoided`, `MergePermissionIsExclusive`, `DoneIsCertified`, and that published
confirmations stay), where the fleet is `Settled`: one machine, or two that are `Lasting`. They hold only there. A release that was
never pushed sorts before a confirmation won meanwhile and turns it into a no-op, and
renewals made offline undo a lapse that another machine acted on, so that two
claimants of one contest have been told to merge. A claim made on a stale replica
after the done run can be confirmed as well; where a third machine has heard of the first confirmation
and not of the done run, the merge guard takes the two for rivals and drops the second one,
without any release or lapse. Two instants beyond the bounds of the runs, TLC
also finds a told claim voided under leases that lapse, and a done run whose confirmation
`confirmGuard` dropped from the remote, after a release and a second contest, before the
run got there. The third world, with releases, lapses and
renewals, ends two instants earlier. What the code does against its own
words is what the violation runs show:

1. **Second contest.** `confirmGuard` judges a confirmation by the other head's
   view. A head that has not heard of the first winner's release still shows
   it active, and the merge drops the second winner's published confirmation.
2. **Unnoticed move.** A commit that loses its compare-and-swap to an outside move
   reloads the replica itself. The sync cycle compares the ref with the replica's
   head, finds them equal and refreshes nobody: reads lack the outside work until
   something else is written or merged.
3. **Skewed clocks.** Ids are taken from the local clock, and nothing compares them with
   the ids on the head. An edit by a machine whose clock is behind sorts before
   the event that created the task, and replay, which reads in id order, calls the
   ledger malformed on every machine that merges it.

4. **Stale pages and stamp.** Staged pages are cleared by the refresh that follows a merge. A
   timer that fires between the two (`batcher.go:132`) commits them on top of the newer pages that
   the merge brought. No compare-and-swap is lost, for the sync cycle has reloaded the replica, so the batch is not
   cut down. If the head they were rendered on had no stamp or an older one, as the root of
   `store.Init`, the stamp file is among them and the branch's stamp falls from the newer format to
   ours; otherwise our pages lie under a stamp that says newer. `daemon.go:748-750` says such
   pages are never overwritten, and `daemon.go:767-768` that what was staged before must not land.

Five more disagreements with the repository's words have no run of their own; the models
show the code's behaviour, and the properties name the exception:

5. **Placeholder.** `fetchSnapshotSince` checks `Loaded` in its first loop only. A daemon
   restarted under the second (`snapshot.go:86`), which waits for the sync mode, answers a placeholder
   whose mode is "starting" too; at the budget it is returned, although
   `snapshot.go:60-65` says a placeholder never is, and an empty board shown until the next answer.
6. **Padded title.** The prompt compares the trimmed input with the untrimmed text it was opened
   on (`top.go:1038`, `1069`), so that submitting a title with surrounding spaces as it was
   writes it. `WritesWhatWasPicked` excepts such texts from "an unchanged submit writes nothing".
7. **The loser's wait.** `client.go:156-157` says of the lock's loser that "the winner's
   socket is coming". The holder of the lock may be a daemon on its way out; nobody
   spawns another, and the command fails at its ceiling. `LaunchesEnd` promises a daemon
   only where none is stopped.
8. **Late handlers.** A handler that outlives the drain of three seconds may still stage a write after the
   last flush and answer it: the write gate asks whether the daemon has loaded, not
   whether it is stopping. `CleanTeardown` excepts it (`overran`).
9. **Overtaken Serve.** A shut-down (a signal, or a load that fails at once) may pass `srv.Shutdown`, the
   load and the cleanup before `Serve` has registered the listener (`daemon.go:378-379`, `515-520`).
   The daemon then listens without the lock; a second one locks and binds the same path, and the first
   one's late `Serve` closes its listener and unlinks the second's socket, which keeps running where nobody
   finds it. `daemon.go:337-338` reasons from the lock to the socket. "Who listens has the lock" and
   "who listens is bound to the path" are both false of the code; `OneDaemon` says
   that a socket file which is listened on is the holder's, and promises the path only where no
   shut-down has overtaken a `Serve` (`overtaken`).

Fairness. `FairSpec` asks for weak fairness of each machine's `Pull` and `Push`:
the sync loop runs on a timer for the life of the daemon, and an enabled half of
its cycle stays enabled until some other step changes the heads. No fairness is
assumed of actors. In `Replica`, weak fairness of the thread that holds the daemon's
mutex, of the append under way, of the armed timer (the runtime fires it) and of the
sync loop; `Settles` asks something only of worlds without failures, crashes and outside moves (`Calm`), and the
outside moves in `ReplicaOutside` are finitely many. In `Screen`, weak
fairness of the load and of the exit of a daemon told to stop, of the loop's first
decision, of the refresh after a merge, of the transition timer once due, of handlers
and of the messages to a screen: Go's runtime runs each of them. Nobody has to start a
daemon, to write, or to let time pass, and crashes stay possible: `ScreenCatchesUp` asks
something only of behaviours in which a daemon comes to stay. In `Lifecycle`, weak
fairness of the daemons' goroutines, of the sync loop and of the commands, each as a whole:
the operating system and Go's runtime run what can run, every wait of `Shutdown` is bounded
(the drain by its context, the load by the adoption's time limit), and the sync loop, which never ends by
itself, must not use up the fairness of the others. Nobody has to launch a command, to write, to signal or
to kill. `Backlog` and `Top` check safety only.

## Proofs

`ReplayProofs` proves, for any set of tasks and actors, any bounds and any
leases, that the replay loop keeps `TypeOK`, `ConfirmedIsNeverVoided` and
`RefereeRule`, of which `OneHolder` and `WinnerRule` are the two halves. None is inductive alone: that the
winner rule survives a confirmation needs to know that every claim of the
contest other than the holder is voided and that every confirmed claim of the
contest is the holder; that the holder is the only active claim needs that every
active claim is some task's holder, with its own task. `IInv` joins these:
types, ids read so far, holders active and of their task, active claims
holders, contests made of claims of the task no later than the last event,
losers voided. One lemma handles each way a step can touch the hold (open,
join, end, confirm, stand down), and the lemma of each action chooses among
them. TLC checked `IInv` on small instances before it was proved.

Its second part proves the other three properties of `replay_ledgers`.
`Effect` lists the seven things one event can do to the claims, the holders and the
contests, claim by claim; `StepEffect` shows that every step is one of them, and the rest are
case splits. `LoopImplementsReferee` is the refinement: the invariant's winner is the one
`Referee` chooses (`WinnerIsHolder`), an event leaves the other tasks' contests alone
(`OthersKept`), so a step opens, joins, settles or ends one contest, or stutters. For
`NothingIsTakenBack` and `OneTracePerAttempt` the invariant gains two parts: a task that is
open has no closing stamp (without it, one that stays open could lose one), and the
synthesized runs before the pass over the leases are the interrupted runs of the
expired claims, one each. Then the runs `Close` adds are of other claims, by
their status.

`FoldProofs` is about `Fold` itself, for any set of events, which the loop reads one at a time. The
library's induction theorems cannot be used (they take an operator), but the least element of a set
of natural numbers can be had from the well-foundedness of `<`: were the fold's states not all
in `FoldInv`, there would be a first that is not, and the one before it would lead to it by one
`Apply`. `StatesExist` turns the recursive function into a sequence of states so that this argument
applies. `FoldInv` says that the state is typed, that holders and active claims match
(`Holds`), that everything in the state comes from an event read (`Traced`), and that every event read left its
mark (`Recorded`): a claim for each claim event, a run for each report, and no active claim that was
reported unless its confirmation came later. Together with `CloseFacts` it gives
`ReplayHasOneHolder`, and for ledgers that are `Sound` (ids are unique, a task is created
once, and events name earlier events) `SoundLedgersReplay`. Everything that a daemon's
answers rest on is thereby known of the operator that answers them, `ReplayOf`.
Its other half is about heads. The algebra of the merge: the lease rule is commutative, associative and an
upper bound of its arguments, so that replicas agree whatever paths the copies
took; `MergeTrees` is symmetric, which is what lets two machines merge the
same pair of heads independently; a merge keeps everything but one-sided
confirmations; and each confirmation left out has an earlier rival on the other head. Then what fits together stays so under a merge or a
commit, for each of the relations on heads that `FleetProofs` uses, and `FoldExtends`: with a later event the fold of a head is the
fold that it had, with that event applied, whatever the leases have become since, unless one of them crossed an instant that was already folded.

`FleetProofs` proves, for any number of machines, actors and tasks and any worlds, that every
head replays (`TypeOK`), that attempts are reported once (`OneClosePerAttempt`), that the owner of a claim
has its tombstone (`OwnerHoldsTombstone`), and that lease records go forward (`LeasesGoForward`, half of
`NothingGoesBack`; the module's second part has the other half). What makes these hard is that a head may be brought in by anybody at any
time, in place of the own one when it descends from it. `HeadsFit` is about all heads that
somebody knows, those that gates are about to push from among them. Any two `Agree`: an id names one event in both, whoever has seen an
operation has its event unless it is a confirmation (which a merge may drop), and a claim has one report
in the two together, that comes after its confirmations. And each lease record is
`Rooted`: there is an operation such that every head that has it in its history
has a record as late; so a fast-forward, which compares histories and not records, takes none back. `Owned` says that
a machine has all that its own actors recorded, tombstones included. It is why a daemon, looking only
at its own head, never reports an attempt twice or renews a released claim: the
run or the tombstone could only have come from it. The gate needs `Carried`: between judging and pushing, nobody
else has its confirmation and nobody can report its claim, for its actor waits. Writing,
merging and landing a confirmation keep all this (`SaneCommit`, `SaneAdopt`, `SanePush`, `SaneMint`);
what an action may write follows from the replay it looks at (`ViewFacts`), where `FoldProofs` comes in. TLC
checked the invariant `FleetInv` on small instances as well.

`ReplicaProofs` proves every safety property of `Replica`, for any writes, peers, formats and
bounds. `Lineage` says of any two heads in play that one whose history contains the other's has its events
and leases; all merges and appends are built so as to keep it. `Mirrored` says what the store's copy
of the tree and its private index may be: the index is the tree's, or stale and never committed from.
`Threads` fits the stages of an operation, an append and the sync loop together (who waits for whom, and
which of them may hold a batch), and `Waiting` says where an event is between its acceptance and its commit:
with the batcher, in the batch of the append, or on the branch. `CommitsAreWhole` needs the first two, `NothingForgotten` the last:
an append that loses its compare-and-swap, fails or gives up hands its batch back to the batcher before anybody looks. `BranchMovesForward` has the events from `Lineage`. Which way stamps go is
`Stamped`, a fifth part that needs the others: where peers heed stamps, a head whose history holds
another's has no older stamp, for those pairs that a step puts one in the place of the other (the
daemon's own commits are in no other head's history yet). It does not say that of commits: an append whose files are all its
own tries for the first time (`Threads`), and may take the stamp back, to our format and no further. `HighestStampWins`, which
says it may not, is false of the code and shown so. The assumptions on the constants are those of
`ReplicaAssumption`: events of different kinds differ, and an append makes an attempt at all.

The second part of `FleetProofs` proves, for any fleet, `FirstWinnerIsAlone` and `NothingGoesBack`. A merge may drop
confirmations, so heads differ in more than how much they have heard, and an invariant that says
"descendants have the events of their ancestors" is false of exactly the events that matter. What holds is weaker and enough:
compared with the ledger, every known head `Follows` (each of its confirmations comes no earlier than one that is first on the ledger and that
it has itself), `Heeds` (it has each first confirmation of the ledger whose operation it has seen), and is `DoneLate` (its done runs
come after a first confirmation). A merge refuses a confirmation only for an earlier one on the other head, so of
two heads that fit it never refuses a first one; and the ledger moves only to
heads with the same first confirmations, or with the first of a task that had none, which by `Carried` nobody
else has yet. `Promised` is the gate's part: a verdict of "confirmed" comes with a winner, and a
confirmation on its way is later than all it was judged on.

The third part of `FleetProofs` proves `FirstWinnerStands`: however many machines there are, where attempts end in a
done run or a loss and leases outlast them, the replay of every head applies each task's first confirmation, and
whoever is told to merge is that winner or claimed the task after the winner's attempt was over. It is a statement
about what `Fold` makes of heads that differ, so it has two layers. `FoldProofs` has the contest for one task
(`Orderly`): the earliest claim of a ledger is neither ended nor lapsed unless its actor was beaten by an earlier
claim, or a confirmation came first. By the same least-counterexample argument the fold then holds the earliest claim up to the
first confirmation, applies that one even if it has to revive its claim, and keeps it confirmed (`FoldFought`).
`FairInv` says that every head somebody knows is such a contest: `Leased` and `Tombs` (no lease lapses, tombstones are written by
releases), `EndsLate` (who ended an attempt was `Beaten` by an earlier claim on that head, or there was a winner on the ledger before),
`Alone` (each confirmation is for the first winner's claim, or for one made after that attempt was over, as the ledger tells),
and, of any two heads, `EndsAware` (who ended an attempt has there all claims it had made before) and `ClaimsOnce` (nobody claims a task twice
before it has a winner). The pairs matter: a merge brings together claims of one head and endings of
another, and without `EndsAware` a merged head could show an earlier claim by the very actor that was thought beaten. A
verdict of "lost" is earned when it is given (`Loses`) and stays earned until it is recorded (`OutRun`), although the
local head moves in between; a verdict of "proceed" on a head with a winner means that its attempt was over
(`ProceedsLate`), and the compare-and-swap makes that head the one to land on (`LandedFair`). `Lasting` is part of the
property because the code promises no more without it (see the bounds above), and no assumption of the proof.

The last two parts prove `EveryWinnerStands`, for the fleets that `Settled` describes, any number of tasks and any instants
(`WinnersStand`). Where two machines meet over a remote, the argument is that of three claims of a task two are by the same machine, and
`Single` says that a machine claims a task once; so there is at most one winner after the first, and what is known of the first one
carries over. `Plays` has, for every head somebody knows, what a contest looks like there: the first winner ends its attempt with a done run and after it won (`Reports`), whoever else
ends one had lost or had heard who won (`Knows`), a later confirmation is for a claim made after the first
winner's attempt was over (`Heirs`), a done run comes after a confirmation of its claim (`Certified`), and heads lack confirmations of the ledger only if they have not seen the operation (`Published`, `Informed`).
From it follows who holds a task on each head (`CrownReigns`, `LeaderWins`), hence that no view shows a task ready that somebody may still merge, that
there is no third claim (`ThirdClaim`), and that a merge refuses no confirmation at all (`NothingIsRefused`). That it stays so depends on where things
are, which `MachinesPlay` and `GatesPlay` say: the first winner's machine has heard that it won or has no earlier claim (`Proud`), the other machine hears of the
report no sooner than of the win (`Heard`, `Relays`), and what a gate carries or is about to record (`Aims`, `Records`) is judged right.

On a single machine nothing is merged and leases may lapse, so that contests are decided by instants. `Solo` says of
the one head that a task is held by its latest claim (`Newest`), that every claim which no longer is active was over (`Over`: lapsed, given
back or reported) by now (`Spent`) and when the next one came (`Apart`), and that done runs are certified. One event on top keeps
this (`ClaimSolo`, `EndSolo`, `ConfirmSolo`), as the daemon's replay, at the instant of the event, is what allowed the event; a renewal
keeps it because it may only lengthen a lease that still runs (`Spared`, `QuietSolo`). What makes the replays of successive instants
comparable is `FoldExtends`. A verdict of "confirmed" speaks of the latest claim (`Sealed`), also while it waits to be recorded.

`BacklogProofs` proves, for any set of tasks, actors and machines and any worlds, that what daemons write they can replay. It
has two invariants, for two reasons. `Inv` holds however the clocks stand: heads are sets of events the catalogue lets
through, each id names one event on all of them, and a daemon's state is the replay of its head. From it follow `BacklogIsTyped`
and `SectionsPart`, that each task is in exactly one section of `opBacklog` (which is about the replay and not
about clocks). `HeadsSound` is what `SoundLedgersReplay` of `FoldProofs` asks of a ledger: whatever an
event refers to, it comes after, and a task was created by one event. It survives a merge because two heads agree on their events, and a
write because the writer refers only to what its replay shows it (`ViewFacts`) and its id is later than
all ids on all heads. This last step needs clocks that agree, so `EditsReplay` has that as its hypothesis. It cannot do without:
`backlog_skewed` violates the same property with one clock ahead. All operations are one kind of step (`Wrote`), so each action's lemma
only says which events it writes, what they refer to and which loops they do not close. The assumptions on the constants are that tasks are finitely many
and that a world starts with no more ids than it may have.

Its first part is about the searches alone. A walk calls itself with fewer tasks to go through or with more of them seen, so
its `Rank`, a number, falls with each call. That makes the recursion define a function (`SearchExists`, `VisitExists`), and every fact
about the function is proved by the least rank at which it fails. `SearchIsRight`: a search says yes exactly if
every set closed under the edges that has the first tasks has the target. For "no" the invariant of the walk
is that everything seen leads only to what is seen (`IsFound`). `HasCycleIsRight` does the same for the three colors: what
is black leads to black and is on no cycle, and what is grey leads to where the walk is (`IsVisited`). From these follow `WalksFind`, whatever
clocks there are, and, since a finite set of blocked tasks that only lead to one another has a loop (`LeadsOn`) and every task on a loop is
marked, `WaitsHaveRoots`.

`LoopsNeedTwoWriters` is about the history of all machines. A head's edges are those its latest events set (`EdgesFold`, by
induction over the fold). `Knowing` says of each event on each head that its writer knew all that the writers of what it knew
knew, and that among the edges it knew, its own task is on no loop. A merge keeps this, because heads agree on the events known
to a writer that is on one of them (`MoreKnows`). A write keeps it by the check of its operation: for an edit that is `DepLoopIsRight`, and
here too the id must be the latest, or the edges the check saw would not be those that result; for a batch it is `HasCycleIsRight` on the batch
alone, which is enough because no older edge can lead to a new task. Now suppose that of any two edges of a loop one writer knew of the
other. Then one of them knew of all (`OneKnowsAll`: the one that ignored least), and the loop was among the edges it knew, restricted
to the latest of them (`KnownLoop`). So it would have been refused. The theorem has the hypothesis on the clocks of `EditsReplay`.

`ScreenProofs` proves every safety property of `Screen`, for any claims, readers and
bounds. The invariant has two halves. `Inner` is the daemon's: types, `MemoRight` (the
live holds outlive `until`, all other leases have lapsed by now; `MemoHolds` alone says
nothing once `until` has passed), `LoadSane` (a daemon that has not loaded is not
degraded, so that the first replay moves the version) and `ParkedIsCurrent`. Every step
of the daemon keeps it; `Kept` says what a replay leaves, and composes, for an operation
freshens and then commits. `Moves` is all that a screen needs to know of such a step.
The screens' half, `Names`, tags every picture shown or on its way with the daemon and
the version it was served at, for a picture may arrive long after the daemon has moved.
That the next transition exists needs the least element of a set of instants, which
comes from the library's well-foundedness of `<`. Proved so: `TypeOK`,
`VersionNamesState`, `NoPollIsLost` (whose halves are `ParkedIsCurrent` and `OnePollAtATime`), `MemoHolds`, `LapsedNeverServed`.
The assumptions are those on the constants: instants and bounds are natural numbers.

`LifecycleProofs` proves every safety property of `Lifecycle`, for any commands, homes and
worlds. `OneDaemon` is not inductive: it does not say what becomes of the files between
`RemoveSocket` and `Announce`, nor after `Close`. `IInv` gives every process a `Fit` (how its
stages go together: a loop runs only after a load that went well, a shut-down that is past
the load waits for it, nothing is pending where nothing was loaded, who is still to serve when a clean-up has overtaken it), the files a
`Holds` (whoever works has the lock, a socket that is listened on is the lock's holder's) and a `Bound` (who listens is at its path,
while nobody was overtaken), and the config a
`Remembered` (a daemon that recorded its home left it there, and no later one can
have replaced it by origin). Nearly all steps are of one process, and one lemma, `StepOfOne`,
carries the rest: whoever has the lock may change the files, because nobody else has a claim
on them, and who has not leaves them alone, save for a late `Serve` that takes the socket file away (`Allowed`). Each action's lemma then shows its own process fits.

`TopProofs` proves, for any tasks, questions, texts, worlds and bounds, four of the five properties of `top_panes`. The lists are the harder part. `Board` says of a sorted list that each place holds the member with so many
before it; that this is a list of all members, once each, is `RanksEnumerate`: in a strict total order (`Precedes`) the ranks of
a finite set are distinct and below its size, so each number is somebody's. It covers the four orders of the screen (by
id, ready tasks by priority, closed tasks by the time of closing, questions), `Enumerates` goes through concatenation and
mapping, and so each list is an enumeration of a set (`BuildRowsEnumerates`); that the two sets share no task, and leave out only those that wait
for an answer, is a case split on the situation (`RowsOfTasks`). `ListsShowTheBoard` is the result, for any board. What
makes it a property of the running screen is `PaneFits`: the rows a pane keeps are those of the snapshot it says it shows, in
every mode and through every refresh, although they are stored and not computed. The rest of `PaneFits` is what `WritesWhatWasPicked` needs
beyond the types: only an editor of a field remembers what the field was (so an unchanged submit of any other prompt is an empty
one, which is rejected), a prompt always has a list or a view to close to, and a watch pane never gets into a prompt. Writes that land, fail
or are overtaken change the board under the pane and nothing in it (`StoryGrows`). `RevealedStopIsFound` is the arithmetic of
scrolling for any height and position: given that the focused stop has a line, revealing it puts it where a click finds it.
`SelectionHolds` (`SelectionIsOnScreen`) needs that line, and the lines of the list besides. Both are folds in the model: the
height of a stretch of chunks adds up their lines, the view joins the lines of its blocks. `IsDrawing` and `IsJoining` are the two recursions
spelled out as functions of a number; that they exist is recursion over the naturals, and that the fold is their last value is read
off its definition. What follows by a least counterexample is `SumGrows` (chunks further apart take more lines, so that the window is as
large as it can be), `ClickFindsChunk`, and `FlattenHolds` (nothing gets lost in joining). `RowIsOnScreen` then covers the list, for a terminal of any
height and chunks of any number of lines. For a view, `Carries` relates blocks to a focus ring: as many stops, and the one with so many
before it is the ring's with that number. It goes through concatenation (`CarriesConcat`), so `ViewCarries` takes `detailLines` and `detailStops` apart
section by section, the cases where one of them shows something and the other must not included: a row of a dependency
that is not on the board yet is no stop. `ViewsCarryTheirRing` states it of every pane; it is the first half of `ScreenIsHonest` in other words (that one
filters the blocks). The assumptions
are those on the constants: boards are records of the daemon's shape, and what editors make of a text is a text.

Only model-checked: of `Top` `ScreenIsHonest`, half of which speaks of `ENABLED` (the other half is
`ViewsCarryTheirRing`); and liveness, which is out of the prover's reach: `Converges`, `Settles`, `ScreenCatchesUp`,
`LaunchesEnd`. Every other invariant and action property of a passing run is a theorem.

## Not modelled

Git itself (`internal/gitx`): subprocesses, whose compare-and-swap of refs and pushes is
modelled where it is used. Encodings, their validators and upcasts (`internal/event`,
`core/upcast.go`): conversions of bytes, which golden tests pin. Rendering, the text widget,
overlays and selections of the terminal, the commands that send one request and print the answer, the
registry of MCP sessions. The collision harness (a driver of the program from outside), the npm package and
the site.

Of what is modelled: retry counts, the rewound remote and the status of the sync cycle; order of
ready tasks by priority in `opClaimNext`; notes, labels and the edit history.

## Plan

1. `Sync`: the cycle in full, with the tracking ref, rewound remotes and two
   orphan roots; sessions and their renewals.
2. What a fleet that is not `Settled` promises to winners after the first, as a property and then a theorem.
