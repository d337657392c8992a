------------------------------ MODULE Replica ------------------------------
(***************************************************************************)
(* One machine's way from an operation to the data branch: the store       *)
(* (internal/store), the daemon's memo and overlay (internal/daemon), and  *)
(* the sync cycle that moves the same ref (internal/syncer).               *)
(*                                                                         *)
(* Three threads: an operation or a refresh under the daemon's mutex (op), *)
(* the batcher's timer, and the sync loop (sync).  The store's mutex is    *)
(* held for the whole of an append, between whose attempts only the        *)
(* outside can move the ref; "append" is the append under way.             *)
(*                                                                         *)
(* A head is a commit: the commits in its history (seen, which also names  *)
(* it), the events and leases it holds, the rendered pages and the format  *)
(* stamp beside them.  Pages are the state they show and the format they   *)
(* are written in.  What the events say does not matter here.              *)
(***************************************************************************)
EXTENDS Integers, FiniteSets

CONSTANTS
    Notes,          \* events that ride the debounce
    Claims,         \* claim events: a lease first, then an eager commit
    Foreign,        \* events that peers publish
    MaxCASRetries,  \* attempts of one append
    Worlds          \* the surroundings a behaviour may have

Ours == 10          \* views.FormatVersion

\* Surroundings: whether git commands and the network fail, the daemon dies,
\* somebody fetches into the branch by hand; which events peers publish, in
\* which view formats, older or newer, and whether they may put their pages
\* over a newer format, as this machine may; and the last commit (a bound).
ASSUME ReplicaAssumption ==
    /\ Notes \cap Claims = {} /\ Foreign \cap (Notes \cup Claims) = {}
    /\ MaxCASRetries \in Nat \ {0}
    /\ Worlds \subseteq
         [fails : BOOLEAN, crashes : BOOLEAN, moves : BOOLEAN,
          peers : SUBSET Foreign, formats : SUBSET Nat,
          overwrites : BOOLEAN, last : Nat]

VARIABLES
    world,    \* the surroundings
    ref,      \* the head of the local data branch, in git
    remote,   \* the head of the remote one
    commits,  \* how many commits were made
    store,    \* the replica: head, tree, private index, whether it is stale
    append,   \* the append that holds the store
    batcher,  \* pending events, staged files, whether the timer is armed
    memo,     \* the state reads are answered from
    written,  \* the overlay: staged events not yet seen on the branch
    op,       \* what the holder of the daemon's mutex does next
    sync,     \* where the sync loop is in its cycle
    acked     \* events whose operation was answered without an error
vars == <<world, ref, remote, commits, store, append, batcher, memo, written,
          op, sync, acked>>

Events == Notes \cup Claims \cup Foreign
Idle == [pc |-> "idle"]

-----------------------------------------------------------------------------
\* What replay makes of events and leases, as far as pages show it: a claim
\* without a lease reads as expired, a lease without a claim as nothing.
Render(events, leases) == [events |-> events, held |-> events \cap leases]

Pages(events, leases) == [by |-> Ours, of |-> Render(events, leases)]

\* A tree without pages, without a stamp; nothing staged of either.
NoPages == [by |-> 0, of |-> Render({}, {})]
NoStamp == 0
NoFiles == [pages |-> NoPages, stamp |-> NoStamp]

Tree(head) == [events |-> head.events, leases |-> head.leases,
               pages |-> head.pages, stamp |-> head.stamp]

Commit(tree, parents) ==
    [seen |-> parents \cup {commits + 1}, events |-> tree.events,
     leases |-> tree.leases, pages |-> tree.pages, stamp |-> tree.stamp]

\* The private index after being fed what turns tree "from" into "to".
Fed(index, from, to) ==
    [events |-> index.events \cup (to.events \ from.events),
     leases |-> index.leases \cup (to.leases \ from.leases),
     pages  |-> IF to.pages = from.pages THEN index.pages ELSE to.pages,
     stamp  |-> IF to.stamp = from.stamp THEN index.stamp ELSE to.stamp]

\* commitLocked seeds a stale index from the head before it feeds it.
Built(to) ==
    Fed(IF store.stale THEN Tree(store.head) ELSE store.index, store.tree, to)

\* Mutant: an index that was fed for a commit that failed is used again.
AbandonedInPlace(s, to) == [s EXCEPT !.index = Built(to), !.stale = FALSE]

\* A commit that failed after the index was fed.
Abandoned(s, to) == [s EXCEPT !.index = Built(to), !.stale = TRUE]

\* loadLocked: the replica follows the ref; the index is left behind.
Loaded(s, head) ==
    [s EXCEPT !.head = head, !.tree = Tree(head), !.stale = TRUE]

\* commitLocked, when the compare-and-swap succeeds.
Lands(to, parents) ==
    LET head == Commit(Built(to), parents)
    IN  /\ commits < world.last
        /\ commits' = commits + 1
        /\ ref' = head
        /\ store' = [head |-> head, tree |-> to, index |-> Built(to),
                     stale |-> FALSE]

StoreFree   == append = Idle
BatcherFree == append = Idle \/ append.pc = "lease"

\* A process that loads: the first replay under the mutex, then the sync loop.
Loading == [pc |-> "replay", events |-> {}]
AfterLoading == [pc |-> "refreshing", next |-> Idle]

Nothing == [events |-> {}, leases |-> {}, pages |-> NoPages,
            stamp |-> NoStamp]

\* store.Init has minted an empty root, without pages or a stamp, and a fresh
\* daemon is loading it.
Init ==
    /\ world \in Worlds
    /\ ref = [seen |-> {1}, events |-> {}, leases |-> {}, pages |-> NoPages,
              stamp |-> NoStamp]
    /\ remote = ref
    /\ commits = 1
    /\ store = [head |-> ref, tree |-> Tree(ref), index |-> Nothing,
                stale |-> TRUE]
    /\ append = Idle
    /\ batcher = [pending |-> {}, files |-> NoFiles, armed |-> FALSE]
    /\ memo = Render({}, {})
    /\ written = {}
    /\ op = Loading
    /\ sync = AfterLoading
    /\ acked = {}

Minted == ref.events \cup remote.events \cup written \cup batcher.pending
            \cup acked \cup store.tree.leases
            \cup (IF op = Idle THEN {} ELSE op.events)

-----------------------------------------------------------------------------
\* An operation staged behind the debounce: stageLocked, then replay.
Note(e) ==
    /\ op = Idle
    /\ e \in Notes \ Minted
    /\ BatcherFree
    /\ written' = written \cup {e}
    /\ batcher' = [batcher EXCEPT !.pending = @ \cup {e}, !.armed = TRUE]
    /\ op' = [pc |-> "replay", events |-> {e}]
    /\ UNCHANGED <<world, ref, remote, commits, store, append, memo, sync,
                   acked>>

\* claimTargetLocked: the lease is appended before anything is staged.
Claim(e) ==
    /\ op = Idle
    /\ e \in Claims \ Minted
    /\ StoreFree
    /\ append' = [pc |-> "lease", events |-> {}, leases |-> {e},
                  files |-> NoFiles, tries |-> 0]
    /\ op' = [pc |-> "lease", events |-> {e}]
    /\ UNCHANGED <<world, ref, remote, commits, store, batcher, memo, written,
                   sync, acked>>

\* The claim event goes through commitLocked.
StageClaim ==
    /\ op.pc = "stage"
    /\ BatcherFree
    /\ written' = written \cup op.events
    /\ batcher' = [batcher EXCEPT !.pending = @ \cup op.events, !.armed = TRUE]
    /\ op' = [op EXCEPT !.pc = "replay"]
    /\ UNCHANGED <<world, ref, remote, commits, store, append, memo, sync,
                   acked>>

\* replayLocked: the branch as the replica knows it, and the overlay.
OpReplay ==
    /\ op.pc = "replay"
    /\ StoreFree
    /\ memo' = Render(store.tree.events \cup written, store.tree.leases)
    /\ written' = written \ store.tree.events
    /\ op' = [op EXCEPT !.pc = "render"]
    /\ UNCHANGED <<world, ref, remote, commits, store, append, batcher, sync,
                   acked>>

\* The answer: what was staged behind the debounce counts as accepted.
Answered == acked' = acked \cup op.events

\* store.Changed(views.Render): the pages and the stamp beside them, each only
\* if the tree has another.
Changed(state) ==
    LET pages == [by |-> Ours, of |-> state]
    IN  [pages |-> IF store.tree.pages = pages THEN NoPages ELSE pages,
         stamp |-> IF store.tree.stamp = Ours THEN NoStamp ELSE Ours]

\* Nothing is staged over a newer generator's pages.
Staged == IF store.tree.stamp > Ours THEN NoFiles ELSE Changed(memo)

\* Mutant: staging pages does not arm the timer.
OpRenderUnarmed ==
    LET eager == op.events \cap Claims # {}
    IN  /\ op.pc = "render"
        /\ StoreFree
        /\ batcher' = [batcher EXCEPT !.files = Staged]
        /\ op' = IF eager THEN [op EXCEPT !.pc = "flush"] ELSE Idle
        /\ IF eager THEN UNCHANGED acked ELSE Answered
        /\ UNCHANGED <<world, ref, remote, commits, store, append, memo,
                       written, sync>>

\* renderViewsLocked: what the memo's rendering changes is staged in place of
\* what was, and arms the timer.
OpRender ==
    LET eager == op.events \cap Claims # {}
    IN  /\ op.pc = "render"
        /\ StoreFree
        /\ batcher' = [batcher EXCEPT !.files = Staged,
                                      !.armed = @ \/ Staged # NoFiles]
        /\ op' = IF eager THEN [op EXCEPT !.pc = "flush"] ELSE Idle
        /\ IF eager THEN UNCHANGED acked ELSE Answered
        /\ UNCHANGED <<world, ref, remote, commits, store, append, memo,
                       written, sync>>

Batch(by) == [pc |-> by, events |-> batcher.pending, leases |-> {},
              files |-> batcher.files, tries |-> 0]

HasBatch == batcher.pending # {} \/ batcher.files # NoFiles

\* The eager flush of commitLocked, or nothing left to flush.
OpFlush ==
    /\ op.pc = "flush"
    /\ StoreFree
    /\ batcher' = [batcher EXCEPT !.armed = FALSE]
    /\ IF HasBatch
       THEN /\ append' = Batch("flush")
            /\ op' = [op EXCEPT !.pc = "flushing"]
            /\ UNCHANGED acked
       ELSE /\ op' = Idle
            /\ Answered
            /\ UNCHANGED append
    /\ UNCHANGED <<world, ref, remote, commits, store, memo, written, sync>>

\* The batcher's background.
Timer ==
    /\ batcher.armed
    /\ StoreFree
    /\ batcher' = [batcher EXCEPT !.armed = FALSE]
    /\ append' = IF HasBatch THEN Batch("timer") ELSE Idle
    /\ UNCHANGED <<world, ref, remote, commits, store, memo, written, op, sync,
                   acked>>

-----------------------------------------------------------------------------
\* AppendBatch's changes on the replica's tree, staged files as they are.
Applied(b) ==
    [events |-> store.tree.events \cup b.events,
     leases |-> store.tree.leases \cup b.leases,
     pages  |-> IF b.files.pages = NoPages THEN store.tree.pages
                ELSE b.files.pages,
     stamp  |-> IF b.files.stamp = NoStamp THEN store.tree.stamp
                ELSE b.files.stamp]

\* The append is over: whoever waited for it goes on.
AppendLands ==
    /\ append # Idle
    /\ ref = store.head
    /\ Lands(Applied(append), ref.seen)
    /\ append' = Idle
    /\ IF append.pc = "lease"
       THEN UNCHANGED batcher
       ELSE batcher' = [batcher EXCEPT !.pending = {}, !.files = NoFiles]
    /\ CASE append.pc = "lease" -> /\ op' = [op EXCEPT !.pc = "stage"]
                                   /\ UNCHANGED acked
         [] append.pc = "flush" -> op' = Idle /\ Answered
         [] OTHER               -> UNCHANGED <<op, acked>>
    /\ UNCHANGED <<world, remote, memo, written, sync>>

\* Mutant: a failed flush drops what it was to write.
GivesUpDrops ==
    /\ append' = Idle
    /\ op' = IF append.pc = "timer" THEN op ELSE Idle
    /\ batcher' = IF append.pc = "lease" THEN batcher
                  ELSE [batcher EXCEPT !.pending = {}, !.files = NoFiles]

\* The append failed: an operation that waited for it is answered with an
\* error, what was pending stays pending, and the timer is not armed again.
GivesUp ==
    /\ append' = Idle
    /\ op' = IF append.pc = "timer" THEN op ELSE Idle
    /\ UNCHANGED batcher

\* Mutant: one attempt too many.
AppendLosesLate ==
    /\ append # Idle
    /\ ref # store.head
    /\ store' = Loaded(Abandoned(store, Applied(append)), ref)
    /\ IF append.tries + 1 > MaxCASRetries
       THEN GivesUp
       ELSE /\ append' = [append EXCEPT !.tries = @ + 1, !.files = NoFiles]
            /\ UNCHANGED <<op, batcher>>
    /\ UNCHANGED <<world, ref, remote, commits, memo, written, sync, acked>>

\* The compare-and-swap is lost: the replica follows the ref, and the append
\* tries again with its events and leases only, a bounded number of times.
AppendLoses ==
    /\ append # Idle
    /\ ref # store.head
    /\ store' = Loaded(Abandoned(store, Applied(append)), ref)
    /\ IF append.tries + 1 >= MaxCASRetries
       THEN GivesUp
       ELSE /\ append' = [append EXCEPT !.tries = @ + 1, !.files = NoFiles]
            /\ UNCHANGED <<op, batcher>>
    /\ UNCHANGED <<world, ref, remote, commits, memo, written, sync, acked>>

\* A git command fails before or after the index was fed, the reload after a
\* lost swap included.
AppendFails ==
    /\ world.fails
    /\ append # Idle
    /\ store' \in {store, Abandoned(store, Applied(append))}
    /\ GivesUp
    /\ UNCHANGED <<world, ref, remote, commits, memo, written, sync, acked>>

-----------------------------------------------------------------------------
\* noticeExternalMove, then on to the fetch.
Notice ==
    /\ sync = Idle
    /\ StoreFree
    /\ IF ref = store.head
       THEN sync' = [pc |-> "fetch"] /\ UNCHANGED store
       ELSE /\ store' = Loaded(store, ref)
            /\ sync' = [pc |-> "refresh", next |-> [pc |-> "fetch"]]
    /\ UNCHANGED <<world, ref, remote, commits, append, batcher, memo, written,
                   op, acked>>

Fetch ==
    /\ sync.pc = "fetch"
    /\ StoreFree
    /\ sync' = [pc |-> "reconcile", theirs |-> remote, base |-> store.head]
    /\ UNCHANGED <<world, ref, remote, commits, store, append, batcher, memo,
                   written, op, acked>>

Again == sync' \in {[pc |-> "fetch"], Idle}

AfterMerge == sync' = [pc |-> "refresh", next |-> [pc |-> "push"]]

\* reconcile: nothing to bring in, or a divergence to merge.
Reconcile ==
    /\ sync.pc = "reconcile"
    /\ StoreFree
    /\ \/ /\ sync.theirs.seen \subseteq sync.base.seen
          /\ sync' = [pc |-> "push"]
       \/ /\ ~ sync.theirs.seen \subseteq sync.base.seen
          /\ ~ sync.base.seen \subseteq sync.theirs.seen
          /\ sync' = [sync EXCEPT !.pc = "merge", !.base = store.head]
    /\ UNCHANGED <<world, ref, remote, commits, store, append, batcher, memo,
                   written, op, acked>>

\* Mutant: the head the decision was made on is not checked again.
FastForwardBlindly ==
    /\ sync.pc = "reconcile"
    /\ StoreFree
    /\ ~ sync.theirs.seen \subseteq sync.base.seen
    /\ sync.base.seen \subseteq sync.theirs.seen
    /\ ref' = sync.theirs
    /\ store' = Loaded(store, ref')
    /\ AfterMerge
    /\ UNCHANGED <<world, remote, commits, append, batcher, memo, written, op,
                   acked>>

\* reconcile: a fast-forward from the head that was looked at, or refused.
FastForward ==
    /\ sync.pc = "reconcile"
    /\ StoreFree
    /\ ~ sync.theirs.seen \subseteq sync.base.seen
    /\ sync.base.seen \subseteq sync.theirs.seen
    /\ IF sync.base = store.head /\ ref = store.head
       THEN /\ ref' = sync.theirs
            /\ store' = Loaded(store, ref')
            /\ AfterMerge
       ELSE /\ store' = IF sync.base = store.head THEN Loaded(store, ref)
                        ELSE store
            /\ Again
            /\ UNCHANGED ref
    /\ UNCHANGED <<world, remote, commits, append, batcher, memo, written, op,
                   acked>>

\* mergeTrees: unions; pages rendered afresh unless a newer stamp owns them.
Merged(ours, theirs) ==
    LET events == ours.events \cup theirs.events
        leases == ours.leases \cup theirs.leases
        owner  == IF theirs.stamp > ours.stamp THEN theirs ELSE ours
        fresh  == owner.stamp <= Ours
    IN  [events |-> events, leases |-> leases,
         pages  |-> IF fresh THEN Pages(events, leases) ELSE owner.pages,
         stamp  |-> IF fresh THEN Ours ELSE owner.stamp]

\* merge: committed on the head it was computed from, or refused.
Merge ==
    /\ sync.pc = "merge"
    /\ StoreFree
    /\ LET to == Merged(Tree(sync.base), Tree(sync.theirs))
       IN  IF sync.base = store.head /\ ref = store.head
           THEN /\ Lands(to, ref.seen \cup sync.theirs.seen)
                /\ AfterMerge
           ELSE /\ store' = IF sync.base = store.head
                            THEN Loaded(Abandoned(store, to), ref)
                            ELSE store
                /\ Again
                /\ UNCHANGED <<ref, commits>>
    /\ UNCHANGED <<world, remote, append, batcher, memo, written, op, acked>>

\* onMerged: Refresh takes its turn with the operations.
Refresh ==
    /\ sync.pc = "refresh"
    /\ op = Idle
    /\ op' = [pc |-> "replay", events |-> {}]
    /\ sync' = [sync EXCEPT !.pc = "refreshing"]
    /\ UNCHANGED <<world, ref, remote, commits, store, append, batcher, memo,
                   written, acked>>

Refreshed ==
    /\ sync.pc = "refreshing"
    /\ op = Idle
    /\ sync' = sync.next
    /\ UNCHANGED <<world, ref, remote, commits, store, append, batcher, memo,
                   written, op, acked>>

\* The push sends the ref as it is by now.
Push ==
    /\ sync.pc = "push"
    /\ IF remote.seen \subseteq ref.seen
       THEN remote' = ref /\ sync' = Idle
       ELSE Again /\ UNCHANGED remote
    /\ UNCHANGED <<world, ref, commits, store, append, batcher, memo, written,
                   op, acked>>

\* A command of the cycle fails and ends it: in a fetch or push nothing has
\* happened; in a commit the index was fed; after a fast-forward's ref move
\* the reload may fail.
SyncFails ==
    /\ world.fails
    /\ sync.pc \in {"fetch", "reconcile", "merge", "push"}
    /\ StoreFree
    /\ sync' = Idle
    /\ \/ UNCHANGED <<ref, store>>
       \/ /\ sync.pc = "merge"
          /\ sync.base = store.head
          /\ store' = Abandoned(store,
                          Merged(Tree(sync.base), Tree(sync.theirs)))
          /\ UNCHANGED ref
       \/ /\ sync.pc = "reconcile"
          /\ sync.base = store.head /\ ref = store.head
          /\ sync.base.seen \subseteq sync.theirs.seen
          /\ ~ sync.theirs.seen \subseteq sync.base.seen
          /\ ref' = sync.theirs
          /\ UNCHANGED store
    /\ UNCHANGED <<world, remote, commits, append, batcher, memo, written, op,
                   acked>>

-----------------------------------------------------------------------------
\* A peer publishes an event, and its pages unless a newer stamp is there and
\* heeded.
Peer(e, format) ==
    /\ e \in world.peers \ remote.events
    /\ commits < world.last
    /\ commits' = commits + 1
    /\ LET events == remote.events \cup {e}
           Publishes(pages, stamp) ==
              remote' = [seen |-> remote.seen \cup {commits'},
                         events |-> events, leases |-> remote.leases,
                         pages |-> pages, stamp |-> stamp]
       IN  \/ /\ remote.stamp > format
              /\ Publishes(remote.pages, remote.stamp)
           \/ /\ remote.stamp <= format \/ world.overwrites
              /\ Publishes([by |-> format,
                             of |-> Render(events, remote.leases)], format)
    /\ UNCHANGED <<world, ref, store, append, batcher, memo, written, op, sync,
                   acked>>

\* "A manual fetch into it": the ref moves forward behind the store's back.
Outside ==
    /\ world.moves
    /\ ref.seen \subseteq remote.seen
    /\ ref # remote
    /\ ref' = remote
    /\ UNCHANGED <<world, remote, commits, store, append, batcher, memo,
                   written, op, sync, acked>>

\* The process dies at any step and a new one loads the branch: pending
\* events, overlay and staged pages are gone, the index file stays.
Crash ==
    /\ world.crashes
    /\ append' = Idle
    /\ store' = Loaded(IF append = Idle THEN store
                       ELSE Abandoned(store, Applied(append)), ref)
    /\ batcher' = [pending |-> {}, files |-> NoFiles, armed |-> FALSE]
    /\ written' = {}
    /\ memo' = Render({}, {})
    /\ op' = Loading
    /\ sync' = AfterLoading
    /\ acked' = acked \ (batcher.pending \cap Notes)
    /\ UNCHANGED <<world, ref, remote, commits>>

Work ==
    \/ \E e \in Events : Note(e) \/ Claim(e)
    \/ \E e \in world.peers, format \in world.formats : Peer(e, format)

OpStep == StageClaim \/ OpReplay \/ OpRender \/ OpFlush
AppendStep == AppendLands \/ AppendLoses
SyncStep ==
    \/ Notice \/ Fetch \/ Reconcile \/ FastForward \/ Merge \/ Refresh
    \/ Refreshed \/ Push

Next ==
    \/ Work
    \/ OpStep \/ Timer \/ AppendStep \/ AppendFails
    \/ SyncStep \/ SyncFails
    \/ Outside \/ Crash

Spec == Init /\ [][Next]_vars

\* Threads are scheduled, the timer fires, the sync loop keeps cycling.
FairSpec ==
    /\ Spec
    /\ WF_vars(OpStep) /\ WF_vars(Timer) /\ WF_vars(AppendStep)
    /\ WF_vars(SyncStep)
-----------------------------------------------------------------------------
IsHead(h) ==
    /\ h.seen \subseteq 1 .. commits
    /\ h.events \subseteq Events
    /\ h.leases \subseteq Claims
    /\ h.pages.of.events \subseteq h.events

\* Heads hold what was written, pages never show what their head lacks, and
\* an append is within its bound.
TypeOK ==
    /\ world \in Worlds
    /\ IsHead(ref) /\ IsHead(remote) /\ IsHead(store.head)
    /\ commits \in Nat \ {0}
    /\ written \cup batcher.pending \cup acked \subseteq Notes \cup Claims
    /\ append # Idle => append.tries < MaxCASRetries

\* Commits are whole.  The replica's tree is the tree of the commit it calls
\* its head: whatever failed before, no commit carries entries of one that
\* never landed.  And "the lease lands first": no head shows a claim without
\* its lease, through failures, crashes and merges.
CommitsAreWhole ==
    /\ store.tree = Tree(store.head)
    /\ \A h \in {ref, remote} : h.events \cap Claims \subseteq h.leases

\* What an operation was told is accepted is on the branch or still with the
\* batcher (whose timer may have fired in vain), and a claim is on the branch
\* for good; a crash takes back only what was still waiting.  Reads show every accepted write, whatever merges and
\* flushes came between.
NothingForgotten ==
    /\ acked \subseteq ref.events \cup batcher.pending
    /\ acked \cap Claims \subseteq ref.events
    /\ op = Idle => acked \subseteq memo.events

\* The step that may bring an older format back: the first attempt of a batch,
\* whose files were staged before the replica met the newer stamp.
FlushesStaged == append.pc \in {"flush", "timer"} /\ append.tries = 0

\* Nothing takes an event off the branch, local or remote.  And the local
\* stamp goes back by no merge, fast-forward, move by hand or retry that lost
\* its swap: only by a batch's first attempt, and only to the daemon's own
\* format; or by adopting the head of a peer that did the same.
BranchMovesForward ==
    [][/\ ref.events \subseteq ref'.events
       /\ remote.events \subseteq remote'.events
       /\ ref'.stamp < ref.stamp =>
             \/ ref'.stamp = Ours /\ FlushesStaged
             \/ world.overwrites /\ commits' = commits]_vars

\* "Highest version wins": the branch's stamp never goes back.
HighestStampWins == [][ref.stamp <= ref'.stamp]_vars

Calm == ~ (world.fails \/ world.crashes \/ world.moves)

\* When nothing fails and nothing new is written, machine and remote settle on
\* one head that holds every event, the pages show all of it unless a newer
\* generator owns them, and reads do too.
Settles ==
    <>[](Calm => /\ ref = remote
                 /\ ref.stamp <= Ours =>
                        ref.pages = Pages(ref.events, ref.leases)
                 /\ memo = Render(ref.events, ref.leases)
                 /\ batcher.pending = {})

\* A head moved from outside is noticed "within a cycle": in the end, reads
\* show what is on the branch.
MemoCatchesUp == <>[](ref.events \subseteq memo.events)
=============================================================================
