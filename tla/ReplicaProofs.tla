--------------------------- MODULE ReplicaProofs ---------------------------
(***************************************************************************)
(* What holds of one machine's way to the data branch, whatever the writes *)
(* and failures: proofs about Replica.                                     *)
(*                                                                         *)
(* The invariant has four parts.  Lineage is about the heads the machine   *)
(* knows: each has a commit of its own, and whoever has that commit in its *)
(* history has all that the head has.  Mirrored is about the store: the    *)
(* tree is the head's, and an index that is not stale is the tree's.       *)
(* Threads says what the records of the threads look like at each stage,   *)
(* and Waiting where the events are that are neither lost nor landed.      *)
(* Stamped, which needs all four, says which way format stamps go.         *)
(***************************************************************************)
EXTENDS Replica, TLAPS

Below(h, g) ==
    /\ h.seen \subseteq g.seen
    /\ h.events \subseteq g.events
    /\ h.leases \subseteq g.leases

\* A well-formed head: lease first, and pages that show no more than it has.
IsWhole(h, n) ==
    /\ h.seen \subseteq 1 .. n
    /\ h.events \subseteq Events
    /\ h.leases \subseteq Claims
    /\ h.pages.of.events \subseteq h.events
    /\ h.events \cap Claims \subseteq h.leases
    /\ h.stamp \in Int

\* Head h has a commit of its own among the heads S.
Anchored(h, S) == \E c \in h.seen : \A g \in S : c \in g.seen => Below(h, g)

LineageOf(S, n) == \A h \in S : IsWhole(h, n) /\ Anchored(h, S)

Compared(s) ==
    IF s.pc \in {"reconcile", "merge"} THEN {s.theirs, s.base} ELSE {}

Known == {ref, remote, store.head} \cup Compared(sync)

Lineage ==
    /\ world \in Worlds
    /\ commits \in Nat \ {0}
    /\ LineageOf(Known, commits)

Mirrored ==
    /\ store = [head |-> store.head, tree |-> store.tree,
                index |-> store.index, stale |-> store.stale]
    /\ store.tree = Tree(store.head)
    /\ store.stale \in BOOLEAN
    /\ ~ store.stale => store.index = store.tree
    /\ Below(store.head, ref)

\* Staged files: a stamp among them is the daemon's.
IsFiles(f) ==
    f = [pages |-> f.pages, stamp |-> f.stamp] /\ f.stamp \in {NoStamp, Ours}

\* An append; one that tries again has let go of its files.
IsAppend(a) ==
    /\ a = [pc |-> a.pc, events |-> a.events, leases |-> a.leases,
            files |-> a.files, tries |-> a.tries]
    /\ IsFiles(a.files) /\ (a.tries > 0 => a.files = NoFiles)
    /\ a.pc \in {"lease", "flush", "timer"}
    /\ a.tries \in Nat /\ a.tries < MaxCASRetries
    /\ a.leases \subseteq Claims

IsOp(o) ==
    /\ o = [pc |-> o.pc, events |-> o.events]
    /\ o.pc \in {"lease", "stage", "replay", "render", "flush", "flushing"}
    /\ o.events \subseteq Notes \cup Claims

IsSync(s) ==
    /\ s.pc \in {"idle", "fetch", "push", "refresh", "refreshing",
                 "reconcile", "merge"}
    /\ s.pc \in {"idle", "fetch", "push"} => s = [pc |-> s.pc]
    /\ s.pc \in {"refresh", "refreshing"} =>
          /\ s = [pc |-> s.pc, next |-> s.next]
          /\ s.next \in {[pc |-> "fetch"], [pc |-> "push"], Idle}
    /\ s.pc \in {"reconcile", "merge"} =>
          s = [pc |-> s.pc, theirs |-> s.theirs, base |-> s.base]

IsBatcher(b) ==
    /\ b = [pending |-> b.pending, files |-> b.files, armed |-> b.armed]
    /\ IsFiles(b.files)

Threads ==
    /\ IsBatcher(batcher)
    /\ append = Idle \/ IsAppend(append)
    /\ op = Idle \/ IsOp(op)
    /\ IsSync(sync)
    /\ (append.pc = "lease") <=> (op.pc = "lease")
    /\ (append.pc = "flush") <=> (op.pc = "flushing")
    /\ append.pc = "lease" => /\ append.events = {} /\ append.files = NoFiles
                              /\ append.leases = op.events
    /\ append.pc \in {"flush", "timer"} =>
          /\ append.events = batcher.pending /\ append.leases = {}
          /\ append.files \in {NoFiles, batcher.files}

\* Where events are.  "Safe" are those on the branch or about to be flushed.
Waiting ==
    LET safe  == store.tree.events \cup batcher.pending
        shown == store.tree.events \cup written
    IN  /\ written \cup batcher.pending \cup acked \subseteq Notes \cup Claims
        /\ written \subseteq safe
        /\ memo.events \subseteq safe
        /\ batcher.files.pages.of.events \subseteq safe
        /\ batcher.pending \cap Claims \subseteq store.tree.leases
        /\ op.pc = "stage" => op.events \subseteq store.tree.leases
        /\ op.pc \in {"replay", "render", "flush", "flushing"} =>
              op.events \subseteq safe \cap shown
        /\ op.pc \in {"render", "flush", "flushing"} =>
              op.events \subseteq memo.events
        /\ acked \subseteq ref.events \cup batcher.pending
        /\ acked \cap Claims \subseteq ref.events
        /\ acked \subseteq shown
        /\ op.pc # "replay" => acked \subseteq memo.events

IInv == Lineage /\ Mirrored /\ Threads /\ Waiting

\* What a step may do to the two branches.
Forward == Below(ref, ref') /\ Below(remote, remote')
-----------------------------------------------------------------------------
LEMMA Comparable ==
    ASSUME NEW S, NEW n, LineageOf(S, n), NEW h \in S, NEW g \in S,
           h.seen \subseteq g.seen
    PROVE  Below(h, g)
  <1>1. Anchored(h, S)
    BY DEF LineageOf
  <1>2. PICK c \in h.seen : \A k \in S : c \in k.seen => Below(h, k)
    BY <1>1 DEF Anchored
  <1> QED BY <1>2

LEMMA BelowItself ==
    ASSUME NEW h
    PROVE  Below(h, h)
  BY DEF Below

LEMMA BelowAgain ==
    ASSUME NEW h, NEW g, NEW k, Below(h, g), Below(g, k)
    PROVE  Below(h, k)
  BY DEF Below

LEMMA FewerHeads ==
    ASSUME NEW S, NEW n, LineageOf(S, n), NEW T \in SUBSET S
    PROVE  LineageOf(T, n)
  <1> SUFFICES ASSUME NEW h \in T
               PROVE  IsWhole(h, n) /\ Anchored(h, T)
    BY DEF LineageOf
  <1>1. IsWhole(h, n) /\ Anchored(h, S)
    BY DEF LineageOf
  <1>2. PICK c \in h.seen : \A g \in S : c \in g.seen => Below(h, g)
    BY <1>1 DEF Anchored
  <1>3. \A g \in T : c \in g.seen => Below(h, g)
    BY <1>2
  <1> QED BY <1>1, <1>2, <1>3 DEF Anchored

LEMMA OneMoreHead ==
    ASSUME NEW S, NEW n \in Nat, LineageOf(S, n), NEW p \in S, NEW q \in S,
           NEW x, IsWhole(x, n + 1), x.seen = p.seen \cup q.seen \cup {n + 1},
           Below(p, x), Below(q, x)
    PROVE  LineageOf(S \cup {x}, n + 1)
  <1>1. \A h \in S : IsWhole(h, n)
    BY DEF LineageOf
  <1>2. \A h \in S : IsWhole(h, n + 1) /\ n + 1 \notin h.seen
    <2>1. 1 .. n \subseteq 1 .. (n + 1) /\ n + 1 \notin 1 .. n
      OBVIOUS
    <2> QED BY <1>1, <2>1 DEF IsWhole
  <1>3. Anchored(x, S \cup {x})
    <2>1. Below(x, x)
      BY BelowItself
    <2>2. \A g \in S \cup {x} : n + 1 \in g.seen => Below(x, g)
      BY <1>2, <2>1
    <2> QED BY <2>2 DEF Anchored
  <1>4. ASSUME NEW h \in S
        PROVE  Anchored(h, S \cup {x})
    <2>1. PICK c \in h.seen : \A g \in S : c \in g.seen => Below(h, g)
      BY DEF LineageOf, Anchored
    <2>2. c # n + 1
      BY <1>2
    <2>3. c \in x.seen => Below(h, p) \/ Below(h, q)
      BY <2>1, <2>2
    <2>4. Below(h, p) \/ Below(h, q) => Below(h, x)
      BY BelowAgain
    <2>5. \A g \in S \cup {x} : c \in g.seen => Below(h, g)
      BY <2>1, <2>3, <2>4
    <2> QED BY <2>5 DEF Anchored
  <1> QED BY <1>2, <1>3, <1>4 DEF LineageOf

\* No step but a commit changes the set of heads other than by forgetting.
LEMMA HeadsKept ==
    ASSUME Lineage, UNCHANGED <<world, commits>>, ref' \in Known,
           remote' \in Known, store'.head \in Known,
           Compared(sync') \subseteq Known
    PROVE  Lineage'
  <1>1. Known' \subseteq Known
    BY DEF Known, Compared
  <1>2. LineageOf(Known', commits)
    BY <1>1, FewerHeads DEF Lineage
  <1>3. LineageOf(Known, commits)' <=> LineageOf(Known', commits')
    BY DEF LineageOf, Anchored
  <1> QED BY <1>2, <1>3 DEF Lineage

LEMMA KnownHeads ==
    ASSUME Lineage
    PROVE  /\ \A h \in Known : IsWhole(h, commits) /\ Below(h, h)
           /\ \A h, g \in Known : h.seen \subseteq g.seen => Below(h, g)
           /\ ref \in Known /\ remote \in Known /\ store.head \in Known
           /\ sync.pc \in {"reconcile", "merge"} =>
                 sync.theirs \in Known /\ sync.base \in Known
  <1>1. LineageOf(Known, commits)
    BY DEF Lineage
  <1>2. \A h \in Known : IsWhole(h, commits)
    BY <1>1 DEF LineageOf
  <1>3. \A h \in Known : Below(h, h)
    BY <1>2, BelowItself
  <1>4. \A h, g \in Known : h.seen \subseteq g.seen => Below(h, g)
    BY <1>1, Comparable
  <1>5. /\ ref \in Known /\ remote \in Known /\ store.head \in Known
        /\ sync.pc \in {"reconcile", "merge"} =>
              sync.theirs \in Known /\ sync.base \in Known
    BY DEF Known, Compared
  <1> QED BY <1>2, <1>3, <1>4, <1>5
-----------------------------------------------------------------------------
LEMMA MirrorKept ==
    ASSUME Mirrored, store' = store, Below(store.head, ref')
    PROVE  Mirrored'
  BY DEF Mirrored, Tree

LEMMA MirrorAbandoned ==
    ASSUME Mirrored, NEW to, store' = Abandoned(store, to),
           Below(store.head, ref')
    PROVE  Mirrored' /\ store'.head = store.head /\ store'.tree = store.tree
  BY DEF Mirrored, Tree, Abandoned

LEMMA MirrorLoaded ==
    ASSUME Mirrored, NEW to,
           \/ store' = Loaded(store, ref')
           \/ store' = Loaded(Abandoned(store, to), ref'),
           Below(ref', ref')
    PROVE  Mirrored' /\ store'.head = ref' /\ store'.tree = Tree(ref')
  BY DEF Mirrored, Tree, Abandoned, Loaded

\* Waiting survives a branch, and a replica of it, that only gained.
LEMMA WaitingKept ==
    ASSUME Waiting, store.tree.events \subseteq store'.tree.events,
           store.tree.leases \subseteq store'.tree.leases,
           ref.events \subseteq ref'.events,
           UNCHANGED <<batcher, memo, written, op, acked>>
    PROVE  Waiting'
  BY DEF Waiting

LEMMA BuiltIsWhatWasMeant ==
    ASSUME Mirrored, NEW to,
           to = [events |-> to.events, leases |-> to.leases,
                 pages |-> to.pages, stamp |-> to.stamp],
           store.tree.events \subseteq to.events,
           store.tree.leases \subseteq to.leases
    PROVE  Built(to) = to
  BY DEF Mirrored, Built, Fed, Tree

\* A commit of a whole tree with all that its parents have is a new head.
LEMMA LandsAsNewHead ==
    ASSUME Lineage, Mirrored, NEW to, NEW q \in Known,
           ref = store.head, Lands(to, ref.seen \cup q.seen),
           to = [events |-> to.events, leases |-> to.leases,
                 pages |-> to.pages, stamp |-> to.stamp],
           ref.events \cup q.events \subseteq to.events,
           ref.leases \cup q.leases \subseteq to.leases,
           to.events \subseteq Events, to.leases \subseteq Claims,
           to.events \cap Claims \subseteq to.leases,
           to.pages.of.events \subseteq to.events,
           to.stamp \in Int, UNCHANGED <<world, remote>>,
           Compared(sync') \subseteq Known
    PROVE  /\ Lineage' /\ Mirrored' /\ Forward
           /\ store'.tree = to /\ ref'.events = to.events
           /\ store'.head = ref' /\ ref'.stamp = to.stamp
           /\ commits' \in ref'.seen /\ commits' = commits + 1
  <1> DEFINE x == Commit(to, ref.seen \cup q.seen)
  <1>1. Built(to) = to
    BY BuiltIsWhatWasMeant DEF Mirrored, Tree
  <1>2. /\ commits' = commits + 1
        /\ ref' = x
        /\ store' = [head |-> x, tree |-> to, index |-> to, stale |-> FALSE]
    BY <1>1 DEF Lands
  <1>3. world' \in Worlds /\ commits \in Nat /\ commits' \in Nat \ {0}
    BY <1>2 DEF Lineage
  <1>4. /\ x.seen = ref.seen \cup q.seen \cup {commits + 1}
        /\ x.events = to.events /\ x.leases = to.leases
        /\ x.pages = to.pages /\ x.stamp = to.stamp
    BY DEF Commit
  <1> HIDE DEF x
  <1>5. IsWhole(ref, commits) /\ IsWhole(q, commits) /\ Below(remote, remote)
    BY KnownHeads
  <1>6. IsWhole(x, commits + 1)
    <2>1. 1 .. commits \subseteq 1 .. (commits + 1)
          /\ commits + 1 \in 1 .. (commits + 1)
      BY <1>3
    <2>2. x.seen \subseteq 1 .. (commits + 1)
      BY <1>4, <1>5, <2>1 DEF IsWhole
    <2> QED BY <1>4, <2>2 DEF IsWhole
  <1>7. Below(ref, x) /\ Below(q, x)
    BY <1>4 DEF Below
  <1>8. LineageOf(Known \cup {x}, commits + 1)
    BY <1>3, <1>4, <1>6, <1>7, OneMoreHead, KnownHeads DEF Lineage
  <1>9. Lineage'
    <2>1. Known' \subseteq Known \cup {x}
      BY <1>2 DEF Known, Compared
    <2>2. LineageOf(Known', commits')
      BY <1>2, <1>8, <2>1, FewerHeads
    <2>3. LineageOf(Known, commits)' <=> LineageOf(Known', commits')
      BY DEF LineageOf, Anchored
    <2> QED BY <1>3, <2>2, <2>3 DEF Lineage
  <1>10. Below(x, x)
    BY <1>6, BelowItself
  <1>11. to = Tree(x)
    BY <1>4 DEF Tree
  <1>12. Mirrored'
    BY <1>2, <1>10, <1>11 DEF Mirrored, Tree
  <1> QED BY <1>2, <1>4, <1>5, <1>7, <1>9, <1>12 DEF Forward
-----------------------------------------------------------------------------
\* Steps of threads that leave git and the replica alone: what is left to
\* show of each is Threads and Waiting.
LEMMA GitLeftAlone ==
    ASSUME Lineage, Mirrored, UNCHANGED <<world, ref, remote, commits, store>>,
           Compared(sync') \subseteq Known
    PROVE  Lineage' /\ Mirrored' /\ Forward
  <1>1. Lineage'
    BY HeadsKept, KnownHeads
  <1>2. Mirrored'
    BY MirrorKept DEF Mirrored
  <1>3. Forward
    BY KnownHeads DEF Forward
  <1> QED BY <1>1, <1>2, <1>3

LEMMA SameSync ==
    ASSUME sync' = sync
    PROVE  Compared(sync') \subseteq Known
  BY DEF Compared, Known

LEMMA NoteStep ==
    ASSUME IInv, NEW e \in Events, Note(e)
    PROVE  IInv' /\ Forward
  <1>1. Lineage' /\ Mirrored' /\ Forward
    BY GitLeftAlone, SameSync DEF Note, IInv
  <1>2. Threads'
    <2>1. batcher' = [pending |-> batcher.pending \cup {e},
                      files |-> batcher.files, armed |-> TRUE]
      BY DEF Note, IInv, Threads, IsBatcher
    <2>2. IsBatcher(batcher')
      BY <2>1 DEF IInv, Threads, IsBatcher
    <2>3. append = Idle
      BY DEF Note, IInv, Threads, BatcherFree, Idle
    <2>4. IsOp(op') /\ op'.pc = "replay"
      BY DEF Note, IsOp
    <2> QED BY <2>2, <2>3, <2>4 DEF Note, IInv, Threads, Idle, IsSync
  <1>3. Waiting'
    BY ReplicaAssumption DEF Note, IInv, Threads, Waiting, Idle
  <1> QED BY <1>1, <1>2, <1>3 DEF IInv

LEMMA ClaimStep ==
    ASSUME IInv, NEW e \in Events, Claim(e)
    PROVE  IInv' /\ Forward
  <1>1. Lineage' /\ Mirrored' /\ Forward
    BY GitLeftAlone, SameSync DEF Claim, IInv
  <1>2. Threads'
    BY ReplicaAssumption
       DEF Claim, IInv, Threads, IsAppend, IsFiles, IsOp, IsSync, StoreFree,
           NoFiles, Idle
  <1>3. Waiting'
    BY DEF Claim, IInv, Waiting, Idle
  <1> QED BY <1>1, <1>2, <1>3 DEF IInv

LEMMA StageClaimStep ==
    ASSUME IInv, StageClaim
    PROVE  IInv' /\ Forward
  <1>1. Lineage' /\ Mirrored' /\ Forward
    BY GitLeftAlone, SameSync DEF StageClaim, IInv
  <1>2. Threads'
    <2>1. batcher' = [pending |-> batcher.pending \cup op.events,
                      files |-> batcher.files, armed |-> TRUE]
      BY DEF StageClaim, IInv, Threads, IsBatcher
    <2>2. IsBatcher(batcher')
      BY <2>1 DEF IInv, Threads, IsBatcher
    <2>3. append = Idle
      BY DEF StageClaim, IInv, Threads, BatcherFree, Idle
    <2>4. op' = [pc |-> "replay", events |-> op.events] /\ IsOp(op)
      BY DEF StageClaim, IInv, Threads, IsOp, Idle
    <2>5. IsOp(op')
      BY <2>4 DEF IsOp
    <2> QED BY <2>2, <2>3, <2>4, <2>5
            DEF StageClaim, IInv, Threads, Idle, IsSync
  <1>3. Waiting'
    BY DEF StageClaim, IInv, Threads, IsOp, Waiting, Idle
  <1> QED BY <1>1, <1>2, <1>3 DEF IInv

LEMMA OpReplayStep ==
    ASSUME IInv, OpReplay
    PROVE  IInv' /\ Forward
  <1>1. Lineage' /\ Mirrored' /\ Forward
    BY GitLeftAlone, SameSync DEF OpReplay, IInv
  <1>2. Threads'
    BY DEF OpReplay, IInv, Threads, IsAppend, IsOp, IsSync, StoreFree, Idle
  <1>3. Waiting'
    BY DEF OpReplay, IInv, Threads, IsOp, Waiting, Idle, Render
  <1> QED BY <1>1, <1>2, <1>3 DEF IInv

LEMMA OpRenderStep ==
    ASSUME IInv, OpRender
    PROVE  IInv' /\ Forward
  <1>1. Lineage' /\ Mirrored' /\ Forward
    BY GitLeftAlone, SameSync DEF OpRender, IInv
  <1>4. /\ IsBatcher(batcher')
        /\ batcher'.pending = batcher.pending
        /\ batcher'.files.pages \in {NoPages, [by |-> Ours, of |-> memo]}
    <2>1. IsFiles(Staged)
          /\ Staged.pages \in {NoPages, [by |-> Ours, of |-> memo]}
      BY DEF Staged, Changed, NoFiles, IsFiles
    <2> QED BY <2>1 DEF OpRender, IInv, Threads, IsBatcher
  <1>2. Threads'
    <2>1. append = Idle /\ append' = append /\ sync' = sync
      BY DEF OpRender, StoreFree
    <2>2. IsOp(op)
      BY DEF OpRender, IInv, Threads, Idle
    <2>3. op' \in {Idle, [pc |-> "flush", events |-> op.events]}
      BY <2>2 DEF OpRender, IsOp
    <2>4. op' = Idle \/ IsOp(op')
      BY <2>2, <2>3 DEF IsOp
    <2> QED BY <1>4, <2>1, <2>3, <2>4 DEF IInv, Threads, Idle, IsSync
  <1>3. Waiting'
    <2>1. /\ batcher'.pending = batcher.pending
          /\ batcher'.files.pages.of.events \subseteq memo.events
      BY <1>4 DEF NoPages, Render
    <2>2. /\ op = [pc |-> "render", events |-> op.events]
          /\ op.events \subseteq Notes \cup Claims
      BY DEF OpRender, IInv, Threads, Idle, IsOp
    <2>3. \/ op' = [pc |-> "flush", events |-> op.events] /\ acked' = acked
          \/ op' = Idle /\ acked' = acked \cup op.events
             /\ op.events \cap Claims = {}
      BY <2>2 DEF OpRender, Answered
    <2>4. UNCHANGED <<store, memo, written, ref>>
      BY DEF OpRender
    <2>5. store.tree.events \subseteq ref.events
      BY DEF IInv, Mirrored, Below, Tree
    <2>6. op.pc = "render"
      BY DEF OpRender
    <2>7. Waiting
      BY DEF IInv
    <2> QED BY <2>1, <2>2, <2>3, <2>4, <2>5, <2>6, <2>7 DEF Waiting, Idle
  <1> QED BY <1>1, <1>2, <1>3 DEF IInv

LEMMA OpFlushStep ==
    ASSUME IInv, OpFlush
    PROVE  IInv' /\ Forward
  <1>1. Lineage' /\ Mirrored' /\ Forward
    BY GitLeftAlone, SameSync DEF OpFlush, IInv
  <1>4. /\ IsBatcher(batcher')
        /\ batcher'.pending = batcher.pending
        /\ batcher'.files = batcher.files
    BY DEF OpFlush, IInv, Threads, IsBatcher
  <1>2. Threads'
    <2>1. IsOp(op) /\ op.pc = "flush" /\ append = Idle /\ sync' = sync
      BY DEF OpFlush, IInv, Threads, StoreFree, Idle
    <2>2. \/ /\ append' = [pc |-> "flush", events |-> batcher.pending,
                           leases |-> {}, files |-> batcher.files, tries |-> 0]
             /\ op' = [pc |-> "flushing", events |-> op.events]
          \/ append' = append /\ op' = Idle
      BY <2>1 DEF OpFlush, Batch, IsOp
    <2>3. (append' = Idle \/ IsAppend(append')) /\ (op' = Idle \/ IsOp(op'))
      BY <2>1, <2>2, ReplicaAssumption
         DEF IInv, Threads, IsBatcher, IsAppend, IsOp
    <2> QED BY <1>4, <2>1, <2>2, <2>3 DEF IInv, Threads, Idle, IsSync
  <1>3. Waiting'
    <2>1. IsOp(op) /\ op.pc = "flush" /\ op.events \subseteq Notes \cup Claims
      BY DEF OpFlush, IInv, Threads, Idle, IsOp
    <2>2. UNCHANGED <<store, memo, written, ref>>
      BY DEF OpFlush
    <2>3. \/ /\ op' = [pc |-> "flushing", events |-> op.events]
             /\ acked' = acked
          \/ /\ op' = Idle /\ acked' = acked \cup op.events
             /\ batcher.pending = {}
      BY <2>1 DEF OpFlush, IsOp, Answered, HasBatch
    <2>4. store.tree.events \subseteq ref.events
      BY DEF IInv, Mirrored, Below, Tree
    <2>5. Waiting
      BY DEF IInv
    <2> QED BY <1>4, <2>1, <2>2, <2>3, <2>4, <2>5 DEF Waiting, Idle
  <1> QED BY <1>1, <1>2, <1>3 DEF IInv

LEMMA TimerStep ==
    ASSUME IInv, Timer
    PROVE  IInv' /\ Forward
  <1>1. Lineage' /\ Mirrored' /\ Forward
    BY GitLeftAlone, SameSync DEF Timer, IInv
  <1>4. /\ IsBatcher(batcher')
        /\ batcher'.pending = batcher.pending
        /\ batcher'.files = batcher.files
    BY DEF Timer, IInv, Threads, IsBatcher
  <1>2. Threads'
    <2>1. append = Idle /\ sync' = sync /\ op' = op
      BY DEF Timer, StoreFree
    <2>2. append' \in {Idle,
             [pc |-> "timer", events |-> batcher.pending,
              leases |-> {}, files |-> batcher.files, tries |-> 0]}
      BY DEF Timer, Batch
    <2>3. append' = Idle \/ IsAppend(append')
      BY <2>2, ReplicaAssumption DEF IInv, Threads, IsBatcher, IsAppend
    <2> QED BY <1>4, <2>1, <2>2, <2>3 DEF IInv, Threads, Idle, IsSync
  <1>3. Waiting'
    <2>1. UNCHANGED <<store, memo, written, ref, op, acked>>
      BY DEF Timer
    <2> QED BY <1>4, <2>1 DEF IInv, Waiting
  <1> QED BY <1>1, <1>2, <1>3 DEF IInv

LEMMA FetchStep ==
    ASSUME IInv, Fetch
    PROVE  IInv' /\ Forward
  <1>1. Lineage' /\ Mirrored' /\ Forward
    BY GitLeftAlone DEF Fetch, IInv, Compared, Known
  <1>2. Threads'
    BY DEF Fetch, IInv, Threads, IsAppend, IsOp, IsSync
  <1>3. Waiting'
    BY WaitingKept DEF Fetch, IInv
  <1> QED BY <1>1, <1>2, <1>3 DEF IInv

LEMMA ReconcileStep ==
    ASSUME IInv, Reconcile
    PROVE  IInv' /\ Forward
  <1>4. sync = [pc |-> "reconcile", theirs |-> sync.theirs, base |-> sync.base]
    BY DEF Reconcile, IInv, Threads, IsSync
  <1>5. sync' \in {[pc |-> "push"], [pc |-> "merge", theirs |-> sync.theirs,
                                    base |-> store.head]}
    BY <1>4 DEF Reconcile
  <1>6. Compared(sync') \subseteq Known
    BY <1>4, <1>5 DEF Compared, Known
  <1>1. Lineage' /\ Mirrored' /\ Forward
    BY <1>6, GitLeftAlone DEF Reconcile, IInv
  <1>2. Threads'
    <2>1. IsSync(sync')
      BY <1>5 DEF IsSync
    <2>2. UNCHANGED <<batcher, append, op>>
      BY DEF Reconcile
    <2> QED BY <2>1, <2>2 DEF IInv, Threads, IsAppend, IsOp
  <1>3. Waiting'
    BY WaitingKept DEF Reconcile, IInv
  <1> QED BY <1>1, <1>2, <1>3 DEF IInv

LEMMA RefreshStep ==
    ASSUME IInv, Refresh
    PROVE  IInv' /\ Forward
  <1>1. Lineage' /\ Mirrored' /\ Forward
    BY GitLeftAlone DEF Refresh, IInv, Compared, Known, Threads, IsSync
  <1>2. Threads'
    BY DEF Refresh, IInv, Threads, IsAppend, IsOp, IsSync, Idle
  <1>3. Waiting'
    BY DEF Refresh, IInv, Waiting, Idle
  <1> QED BY <1>1, <1>2, <1>3 DEF IInv

LEMMA RefreshedStep ==
    ASSUME IInv, Refreshed
    PROVE  IInv' /\ Forward
  <1>1. Lineage' /\ Mirrored' /\ Forward
    BY GitLeftAlone DEF Refreshed, IInv, Compared, Known, Threads, IsSync, Idle
  <1>2. Threads'
    BY DEF Refreshed, IInv, Threads, IsAppend, IsOp, IsSync, Idle
  <1>3. Waiting'
    BY WaitingKept DEF Refreshed, IInv
  <1> QED BY <1>1, <1>2, <1>3 DEF IInv
-----------------------------------------------------------------------------
\* The append under way, once it has failed.
LEMMA GivesUpKeeps ==
    ASSUME Threads, append # Idle, GivesUp, sync' = sync
    PROVE  Threads' /\ op' \in {op, Idle} /\ (op' = op => op.pc # "lease")
  <1>1. op' \in {op, Idle} /\ append' = Idle /\ batcher' = batcher
    BY DEF GivesUp
  <1>2. append.pc = "timer" \/ op' = Idle
    BY DEF GivesUp
  <1>3. op' = op => op.pc \notin {"lease", "flushing"}
    BY <1>2 DEF Threads, IsAppend, Idle
  <1> QED BY <1>1, <1>3 DEF Threads, Idle, IsSync, IsBatcher

LEMMA AppendFailsStep ==
    ASSUME IInv, AppendFails
    PROVE  IInv' /\ Forward
  <1>1. Below(store.head, ref') /\ ref' = ref
    BY DEF AppendFails, IInv, Mirrored
  <1>2. Mirrored' /\ store'.head = store.head /\ store'.tree = store.tree
    BY <1>1, MirrorKept, MirrorAbandoned DEF AppendFails, IInv
  <1>3. Lineage' /\ Forward
    BY <1>2, HeadsKept, KnownHeads, SameSync DEF AppendFails, IInv, Forward
  <1>4. Threads' /\ op' \in {op, Idle}
    BY GivesUpKeeps DEF AppendFails, IInv
  <1>5. Waiting'
    <2>1. UNCHANGED <<ref, batcher, memo, written, acked>>
      BY DEF AppendFails, GivesUp
    <2>2. Waiting /\ (op' = Idle => op.pc # "replay")
      BY DEF AppendFails, GivesUp, IInv, Threads, IsAppend, Idle
    <2> QED BY <1>2, <1>4, <2>1, <2>2 DEF Waiting, Idle
  <1> QED BY <1>2, <1>3, <1>4, <1>5 DEF IInv

LEMMA AppendLosesStep ==
    ASSUME IInv, AppendLoses
    PROVE  IInv' /\ Forward
  <1>1. UNCHANGED <<world, ref, remote, commits, sync>>
    BY DEF AppendLoses
  <1>2. ref \in Known /\ Below(ref', ref')
    BY <1>1, KnownHeads DEF IInv
  <1>3. Mirrored' /\ store'.head = ref' /\ store'.tree = Tree(ref')
    BY <1>2, MirrorLoaded DEF AppendLoses, IInv
  <1>4. Lineage' /\ Forward
    BY <1>1, <1>2, <1>3, HeadsKept, KnownHeads, SameSync DEF IInv, Forward
  <1>5. CASE append.tries + 1 >= MaxCASRetries
    <2>1. GivesUp
      BY <1>5 DEF AppendLoses
    <2>2. Threads' /\ op' \in {op, Idle}
      BY <1>1, <2>1, GivesUpKeeps DEF AppendLoses, IInv
    <2>3. UNCHANGED <<ref, batcher, memo, written, acked>>
      BY <2>1 DEF AppendLoses, GivesUp
    <2>4. Waiting /\ (op' = Idle => op.pc # "replay")
      BY <2>1 DEF AppendLoses, GivesUp, IInv, Threads, IsAppend, Idle
    <2>5. /\ store.tree.events \subseteq store'.tree.events
          /\ store.tree.leases \subseteq store'.tree.leases
      BY <1>1, <1>3 DEF IInv, Mirrored, Below, Tree
    <2>6. Waiting'
      BY <2>2, <2>3, <2>4, <2>5 DEF Waiting, Idle
    <2> QED BY <1>3, <1>4, <2>2, <2>6 DEF IInv
  <1>6. CASE ~ append.tries + 1 >= MaxCASRetries
    <2>1. IsAppend(append)
      BY DEF AppendLoses, IInv, Threads
    <2>2. append' = [pc |-> append.pc, events |-> append.events,
                     leases |-> append.leases, files |-> NoFiles,
                     tries |-> append.tries + 1]
      BY <1>6, <2>1 DEF AppendLoses, IsAppend
    <2>3. UNCHANGED <<op, batcher>>
      BY <1>6 DEF AppendLoses
    <2>4. IsAppend(append')
      BY <1>6, <2>1, <2>2, ReplicaAssumption DEF IsAppend, IsFiles, NoFiles
    <2>5. Threads'
      BY <1>1, <2>2, <2>3, <2>4 DEF IInv, Threads, IsSync, IsOp, IsBatcher
    <2>6. /\ store.tree.events \subseteq store'.tree.events
          /\ store.tree.leases \subseteq store'.tree.leases
      BY <1>1, <1>3 DEF IInv, Mirrored, Below, Tree
    <2>7. Waiting'
      BY <1>1, <2>3, <2>6, WaitingKept DEF IInv, AppendLoses
    <2> QED BY <1>3, <1>4, <2>5, <2>7 DEF IInv
  <1> QED BY <1>5, <1>6

LEMMA AppendLandsStep ==
    ASSUME IInv, AppendLands
    PROVE  IInv' /\ Forward
  <1> DEFINE to == Applied(append)
  <1>1. /\ ref = store.head /\ Lands(to, ref.seen)
        /\ UNCHANGED <<world, remote, memo, written, sync>> /\ append' = Idle
    BY DEF AppendLands
  <1>2. IsAppend(append) /\ IsWhole(ref, commits) /\ Below(ref, ref)
    BY KnownHeads DEF AppendLands, IInv, Threads
  <1>3. store.tree = Tree(ref)
    BY <1>1 DEF IInv, Mirrored
  <1>4. /\ to = [events |-> to.events, leases |-> to.leases,
                 pages |-> to.pages, stamp |-> to.stamp]
        /\ to.events = ref.events \cup append.events
        /\ to.leases = ref.leases \cup append.leases
        /\ to.pages \in {ref.pages, append.files.pages}
        /\ to.stamp \in {ref.stamp, append.files.stamp}
    BY <1>3 DEF Applied, Tree
  <1> HIDE DEF to
  <1>5. \/ /\ append.pc = "lease" /\ append.events = {}
           /\ append.files = NoFiles /\ append.leases = op.events
        \/ /\ append.pc \in {"flush", "timer"}
           /\ append.events = batcher.pending /\ append.leases = {}
           /\ append.files \in {NoFiles, batcher.files}
    BY <1>2 DEF IInv, Threads, IsAppend
  <1>6. /\ to.events \subseteq Events /\ to.leases \subseteq Claims
        /\ to.events \cap Claims \subseteq to.leases
        /\ to.pages.of.events \subseteq to.events
        /\ to.stamp \in Int
    <2>1. append.events \cap Claims \subseteq ref.leases
          /\ append.events \subseteq Notes \cup Claims
      BY <1>3, <1>5 DEF IInv, Waiting, Tree
    <2>2. append.files = NoFiles \/ append.files = batcher.files
      BY <1>5
    <2>3. append.files.pages.of.events \subseteq to.events
      <3>1. CASE append.files = NoFiles
        BY <3>1 DEF NoFiles, NoPages, Render
      <3>2. CASE append.files = batcher.files /\ append.pc # "lease"
        BY <1>3, <1>4, <1>5, <3>2 DEF IInv, Waiting, Tree
      <3> QED BY <1>5, <3>1, <3>2
    <2>4. append.files.stamp \in Int
      BY <1>2 DEF IsAppend, IsFiles, NoStamp, Ours
    <2>5. to.pages.of.events \subseteq to.events
      BY <1>2, <1>4, <2>3 DEF IsWhole
    <2> QED BY <1>2, <1>4, <2>1, <2>4, <2>5 DEF IsWhole, IsAppend, Events
  <1>7. ref.seen = ref.seen \cup ref.seen
    OBVIOUS
  <1>8. /\ Lineage' /\ Mirrored' /\ Forward
        /\ store'.tree = to /\ ref'.events = to.events
    <2>1. /\ ref.events \cup ref.events \subseteq to.events
          /\ ref.leases \cup ref.leases \subseteq to.leases
      BY <1>4
    <2>2. Lands(to, ref.seen \cup ref.seen) /\ ref \in Known
      BY <1>1, <1>7, KnownHeads DEF IInv
    <2>3. Lineage /\ Mirrored
      BY DEF IInv
    <2> QED BY <1>1, <1>4, <1>6, <2>1, <2>2, <2>3, LandsAsNewHead, SameSync
  <1>9. /\ append.pc = "lease" => batcher' = batcher
        /\ append.pc # "lease" =>
              batcher' = [pending |-> {}, files |-> NoFiles,
                          armed |-> batcher.armed]
    BY DEF AppendLands, IInv, Threads, IsBatcher
  <1>10. IsBatcher(batcher')
    BY <1>9 DEF IInv, Threads, IsBatcher, IsFiles, NoFiles
  <1>11. \/ /\ append.pc = "lease" /\ acked' = acked /\ op.pc = "lease"
            /\ IsOp(op) /\ op' = [pc |-> "stage", events |-> op.events]
         \/ /\ append.pc = "flush" /\ acked' = acked \cup op.events
            /\ IsOp(op) /\ op' = Idle /\ op.pc = "flushing"
         \/ /\ append.pc = "timer" /\ acked' = acked /\ op' = op
            /\ op.pc \notin {"lease", "flushing"}
    BY <1>2 DEF AppendLands, IInv, Threads, IsAppend, IsOp, Answered, Idle
  <1>12. Threads'
    <2>1. op' = Idle \/ IsOp(op')
      BY <1>11 DEF IInv, Threads, IsOp
    <2> QED BY <1>1, <1>10, <1>11, <2>1 DEF IInv, Threads, IsSync, Idle
  <1>13. Waiting'
    <2>1. Waiting
      BY DEF IInv
    <2>2. /\ store'.tree.events = store.tree.events \cup append.events
          /\ store'.tree.leases = store.tree.leases \cup append.leases
          /\ ref'.events = store'.tree.events
          /\ ref.events = store.tree.events
      BY <1>3, <1>4, <1>8 DEF Tree
    <2>3. IsOp(op) => op.events \subseteq Notes \cup Claims
      BY DEF IsOp
    <2>4. NoFiles.pages.of.events = {}
      BY DEF NoFiles, NoPages, Render
    <2>5. CASE append.pc = "lease"
      BY <1>1, <1>5, <1>9, <1>11, <2>1, <2>2, <2>3, <2>5 DEF Waiting, Idle
    <2>6. CASE append.pc = "flush"
      BY <1>1, <1>5, <1>9, <1>11, <2>1, <2>2, <2>3, <2>4, <2>6
         DEF Waiting, Idle
    <2>7. CASE append.pc = "timer"
      BY <1>1, <1>5, <1>9, <1>11, <2>1, <2>2, <2>4, <2>7 DEF Waiting, Idle
    <2> QED BY <1>5, <2>5, <2>6, <2>7
  <1> QED BY <1>8, <1>12, <1>13 DEF IInv
-----------------------------------------------------------------------------
LEMMA NoticeStep ==
    ASSUME IInv, Notice
    PROVE  IInv' /\ Forward
  <1>1. UNCHANGED <<world, ref, remote, commits, append, batcher, memo,
                    written, op, acked>> /\ sync = Idle
    BY DEF Notice
  <1>2. ref \in Known /\ Below(ref', ref') /\ Below(store.head, ref')
    BY <1>1, KnownHeads DEF IInv, Mirrored
  <1>3. store' = store \/ store' = Loaded(store, ref')
    BY <1>1 DEF Notice
  <1>4. /\ Mirrored' /\ store'.head \in Known
        /\ store.tree.events \subseteq store'.tree.events
        /\ store.tree.leases \subseteq store'.tree.leases
    <2>1. CASE store' = store
      BY <1>2, <2>1, MirrorKept, KnownHeads DEF IInv
    <2>2. CASE store' = Loaded(store, ref')
      BY <1>1, <1>2, <2>2, MirrorLoaded DEF IInv, Mirrored, Below, Tree
    <2> QED BY <1>3, <2>1, <2>2
  <1>5. IsSync(sync') /\ Compared(sync') \subseteq Known
    BY DEF Notice, IsSync, Compared
  <1>6. Lineage' /\ Forward
    BY <1>1, <1>2, <1>4, <1>5, HeadsKept, KnownHeads DEF IInv, Forward
  <1>7. Threads'
    BY <1>1, <1>5 DEF IInv, Threads, IsAppend, IsOp, IsBatcher
  <1>8. Waiting'
    BY <1>1, <1>4, WaitingKept DEF IInv
  <1> QED BY <1>4, <1>6, <1>7, <1>8 DEF IInv

LEMMA FastForwardStep ==
    ASSUME IInv, FastForward
    PROVE  IInv' /\ Forward
  <1>1. UNCHANGED <<world, remote, commits, append, batcher, memo, written, op,
                    acked>>
        /\ sync.pc = "reconcile"
    BY DEF FastForward
  <1>2. /\ {ref, sync.theirs, sync.base, store.head} \subseteq Known
        /\ \A h \in Known : Below(h, h)
        /\ Below(sync.base, sync.theirs)
    BY <1>1, KnownHeads DEF IInv, FastForward
  <1>3. \/ /\ ref' = sync.theirs /\ store' = Loaded(store, ref')
           /\ sync.base = ref
        \/ ref' = ref /\ store' = Loaded(store, ref')
        \/ ref' = ref /\ store' = store
    BY DEF FastForward
  <1>4. ref' \in Known /\ Below(ref, ref') /\ Below(ref', ref')
    BY <1>2, <1>3
  <1>5. /\ Mirrored' /\ store'.head \in Known
        /\ store.tree.events \subseteq store'.tree.events
        /\ store.tree.leases \subseteq store'.tree.leases
    <2>1. CASE store' = store
      BY <1>2, <1>3, <2>1, MirrorKept DEF IInv, Mirrored, Loaded
    <2>2. CASE store' = Loaded(store, ref')
      <3>1. Mirrored' /\ store'.head = ref' /\ store'.tree = Tree(ref')
        BY <1>4, <2>2, MirrorLoaded DEF IInv
      <3>2. /\ store.head.events \subseteq ref.events
            /\ store.head.leases \subseteq ref.leases
            /\ ref.events \subseteq ref'.events
            /\ ref.leases \subseteq ref'.leases
        BY <1>4 DEF IInv, Mirrored, Below
      <3> QED BY <1>4, <3>1, <3>2 DEF IInv, Mirrored, Tree
    <2> QED BY <1>3, <2>1, <2>2
  <1>6. IsSync(sync') /\ Compared(sync') \subseteq Known
    <2>1. sync' \in {[pc |-> "refresh", next |-> [pc |-> "push"]],
                     [pc |-> "fetch"], Idle}
      BY DEF FastForward, AfterMerge, Again
    <2> QED BY <2>1 DEF IsSync, Compared, Idle
  <1>7. Lineage' /\ Forward
    BY <1>1, <1>4, <1>5, <1>6, HeadsKept, KnownHeads DEF IInv, Forward
  <1>8. Threads'
    BY <1>1, <1>6 DEF IInv, Threads, IsAppend, IsOp, IsBatcher
  <1>9. Waiting'
    BY <1>1, <1>4, <1>5, WaitingKept DEF IInv, Below
  <1> QED BY <1>5, <1>7, <1>8, <1>9 DEF IInv

\* What a merge makes of two whole heads is whole, and has what both have.
LEMMA MergedIsWhole ==
    ASSUME NEW h, NEW g, NEW n, IsWhole(h, n), IsWhole(g, n), NEW to,
           to = Merged(Tree(h), Tree(g))
    PROVE  /\ to = [events |-> to.events, leases |-> to.leases,
                    pages |-> to.pages, stamp |-> to.stamp]
           /\ to.events = h.events \cup g.events
           /\ to.leases = h.leases \cup g.leases
           /\ to.events \subseteq Events /\ to.leases \subseteq Claims
           /\ to.events \cap Claims \subseteq to.leases
           /\ to.pages.of.events \subseteq to.events
           /\ to.stamp \in Int /\ h.stamp <= to.stamp /\ g.stamp <= to.stamp
  <1> DEFINE owner == IF g.stamp > h.stamp THEN Tree(g) ELSE Tree(h)
             events == h.events \cup g.events
             leases == h.leases \cup g.leases
             pages == IF owner.stamp <= Ours THEN Pages(events, leases)
                      ELSE owner.pages
             stamp == IF owner.stamp <= Ours THEN Ours ELSE owner.stamp
  <1>1. to = [events |-> events, leases |-> leases, pages |-> pages,
              stamp |-> stamp]
    BY DEF Merged, Tree
  <1>2. stamp \in Int /\ h.stamp <= stamp /\ g.stamp <= stamp
    BY DEF IsWhole, Tree, Ours
  <1>3. pages.of.events \subseteq events
    BY DEF IsWhole, Tree, Pages, Render
  <1>4. /\ events \subseteq Events /\ leases \subseteq Claims
        /\ events \cap Claims \subseteq leases
    BY DEF IsWhole
  <1> HIDE DEF events, leases, pages, stamp
  <1>5. /\ to = [events |-> to.events, leases |-> to.leases,
                 pages |-> to.pages, stamp |-> to.stamp]
        /\ to.events = events /\ to.leases = leases
        /\ to.pages = pages /\ to.stamp = stamp
    BY <1>1
  <1> QED BY <1>2, <1>3, <1>4, <1>5 DEF events, leases

LEMMA MergeStep ==
    ASSUME IInv, Merge
    PROVE  IInv' /\ Forward
  <1> DEFINE to == Merged(Tree(sync.base), Tree(sync.theirs))
  <1>1. UNCHANGED <<world, remote, append, batcher, memo, written, op, acked>>
        /\ sync.pc = "merge"
    BY DEF Merge
  <1>2. /\ {ref, sync.theirs, sync.base, store.head} \subseteq Known
        /\ \A h \in Known : Below(h, h) /\ IsWhole(h, commits)
    BY <1>1, KnownHeads DEF IInv
  <1>3. IsSync(sync') /\ Compared(sync') \subseteq Known
    <2>1. sync' \in {[pc |-> "refresh", next |-> [pc |-> "push"]],
                     [pc |-> "fetch"], Idle}
      BY DEF Merge, AfterMerge, Again
    <2> QED BY <2>1 DEF IsSync, Compared, Idle
  <1>4. /\ Lineage' /\ Mirrored' /\ Forward
        /\ store.tree.events \subseteq store'.tree.events
        /\ store.tree.leases \subseteq store'.tree.leases
    <2>1. CASE sync.base = store.head /\ ref = store.head
      <3>1. /\ to = [events |-> to.events, leases |-> to.leases,
                     pages |-> to.pages, stamp |-> to.stamp]
            /\ to.events = ref.events \cup sync.theirs.events
            /\ to.leases = ref.leases \cup sync.theirs.leases
            /\ to.events \subseteq Events /\ to.leases \subseteq Claims
            /\ to.events \cap Claims \subseteq to.leases
            /\ to.pages.of.events \subseteq to.events
            /\ to.stamp \in Int /\ ref.stamp <= to.stamp
            /\ sync.theirs.stamp <= to.stamp
        <4>1. IsWhole(ref, commits) /\ IsWhole(sync.theirs, commits)
          BY <1>2
        <4>2. to = Merged(Tree(ref), Tree(sync.theirs))
          BY <2>1
        <4> HIDE DEF to
        <4> QED BY <4>1, <4>2, MergedIsWhole
      <3>2. Lands(to, ref.seen \cup sync.theirs.seen)
        BY <2>1 DEF Merge
      <3> HIDE DEF to
      <3>3. /\ Lineage' /\ Mirrored' /\ Forward /\ store'.tree = to
        BY <1>1, <1>2, <1>3, <2>1, <3>1, <3>2, LandsAsNewHead DEF IInv
      <3> QED BY <2>1, <3>1, <3>3 DEF IInv, Mirrored, Tree
    <2>2. CASE ~ (sync.base = store.head /\ ref = store.head)
      <3>1. ref' = ref /\ commits' = commits
            /\ (\/ store' = Loaded(Abandoned(store, to), ref')
                \/ store' = store)
        BY <2>2 DEF Merge
      <3> HIDE DEF to
      <3>2. /\ Mirrored' /\ store'.head \in Known
            /\ store.tree.events \subseteq store'.tree.events
            /\ store.tree.leases \subseteq store'.tree.leases
        <4>1. CASE store' = store
          BY <1>2, <3>1, <4>1, MirrorKept DEF IInv, Mirrored
        <4>2. CASE store' = Loaded(Abandoned(store, to), ref')
          BY <1>2, <3>1, <4>2, MirrorLoaded DEF IInv, Mirrored, Below, Tree
        <4> QED BY <3>1, <4>1, <4>2
      <3>3. Lineage' /\ Forward
        BY <1>1, <1>2, <1>3, <3>1, <3>2, HeadsKept, KnownHeads
           DEF IInv, Forward
      <3> QED BY <3>2, <3>3
    <2> QED BY <2>1, <2>2
  <1>5. Threads'
    BY <1>1, <1>3 DEF IInv, Threads, IsAppend, IsOp, IsBatcher
  <1>6. Waiting'
    BY <1>1, <1>4, WaitingKept DEF IInv, Forward, Below
  <1> QED BY <1>4, <1>5, <1>6 DEF IInv

LEMMA PushStep ==
    ASSUME IInv, Push
    PROVE  IInv' /\ Forward
  <1>1. UNCHANGED <<world, ref, commits, store, append, batcher, memo, written,
                    op, acked>>
    BY DEF Push
  <1>2. /\ \A h \in Known : Below(h, h)
        /\ \A h, g \in Known : h.seen \subseteq g.seen => Below(h, g)
        /\ {ref, remote, store.head} \subseteq Known
    BY KnownHeads DEF IInv
  <1>3. remote' \in Known /\ Below(remote, remote')
    BY <1>2 DEF Push
  <1>4. sync' \in {[pc |-> "fetch"], Idle}
    BY DEF Push, Again
  <1>5. IsSync(sync') /\ Compared(sync') \subseteq Known
    BY <1>4 DEF IsSync, Compared, Idle
  <1>6. Lineage' /\ Forward
    BY <1>1, <1>2, <1>3, <1>5, HeadsKept DEF IInv, Forward
  <1>7. Mirrored'
    BY <1>1, MirrorKept DEF IInv, Mirrored
  <1>8. Threads'
    BY <1>1, <1>5 DEF IInv, Threads, IsAppend, IsOp, IsBatcher
  <1>9. Waiting'
    BY <1>1, WaitingKept DEF IInv
  <1> QED BY <1>6, <1>7, <1>8, <1>9 DEF IInv

LEMMA SyncFailsStep ==
    ASSUME IInv, SyncFails
    PROVE  IInv' /\ Forward
  <1>1. UNCHANGED <<world, remote, commits, append, batcher, memo, written, op,
                    acked>>
        /\ sync' = Idle
    BY DEF SyncFails
  <1>2. /\ \A h \in Known : Below(h, h)
        /\ \A h, g \in Known : h.seen \subseteq g.seen => Below(h, g)
        /\ {ref, remote, store.head} \subseteq Known
        /\ sync.pc \in {"reconcile", "merge"} =>
              sync.theirs \in Known /\ sync.base \in Known
    BY KnownHeads DEF IInv
  <1>3. ref' \in Known /\ Below(ref, ref')
    BY <1>2 DEF SyncFails
  <1>4. Below(store.head, ref')
    <2>1. ref' = ref \/ ref = store.head
      BY DEF SyncFails
    <2> QED BY <1>3, <2>1 DEF IInv, Mirrored
  <1>5. Mirrored' /\ store'.head = store.head /\ store'.tree = store.tree
    <2>1. \/ store' = store
          \/ store' = Abandoned(store,
                         Merged(Tree(sync.base), Tree(sync.theirs)))
      BY DEF SyncFails
    <2> QED BY <1>4, <2>1, MirrorKept, MirrorAbandoned DEF IInv
  <1>6. IsSync(sync') /\ Compared(sync') \subseteq Known
    BY <1>1 DEF IsSync, Compared, Idle
  <1>7. Lineage' /\ Forward
    BY <1>1, <1>2, <1>3, <1>5, <1>6, HeadsKept DEF IInv, Forward
  <1>8. Threads'
    BY <1>1, <1>6 DEF IInv, Threads, IsAppend, IsOp, IsBatcher
  <1>9. Waiting'
    BY <1>1, <1>3, <1>5, WaitingKept DEF IInv, Below
  <1> QED BY <1>5, <1>7, <1>8, <1>9 DEF IInv
-----------------------------------------------------------------------------
LEMMA PeerStep ==
    ASSUME IInv, NEW e \in Foreign, NEW format \in Nat, Peer(e, format)
    PROVE  IInv' /\ Forward
  <1>1. UNCHANGED <<world, ref, store, append, batcher, memo, written, op,
                    sync, acked>>
        /\ commits' = commits + 1
    BY DEF Peer
  <1>2. world' \in Worlds /\ commits \in Nat /\ commits' \in Nat \ {0}
    BY <1>1 DEF IInv, Lineage
  <1>3. /\ remote'.seen = remote.seen \cup remote.seen \cup {commits + 1}
        /\ remote'.events = remote.events \cup {e}
        /\ remote'.leases = remote.leases
        /\ \/ /\ remote'.pages = remote.pages
              /\ remote'.stamp = remote.stamp
           \/ /\ remote'.stamp = format
              /\ remote'.pages.of.events = remote'.events
    BY DEF Peer, Render
  <1>4. IsWhole(remote, commits) /\ remote \in Known /\ Below(ref, ref)
    BY KnownHeads DEF IInv
  <1>5. e \in Events \ Claims /\ format \in Int
    BY ReplicaAssumption DEF Events
  <1>6. IsWhole(remote', commits + 1)
    <2>1. remote'.seen \subseteq 1 .. (commits + 1)
      BY <1>2, <1>3, <1>4 DEF IsWhole
    <2>2. remote'.pages.of.events \subseteq remote'.events
      BY <1>3, <1>4 DEF IsWhole
    <2>3. remote'.stamp \in Int
      BY <1>3, <1>4, <1>5 DEF IsWhole
    <2> QED BY <1>3, <1>4, <1>5, <2>1, <2>2, <2>3 DEF IsWhole
  <1>7. Below(remote, remote')
    BY <1>3, <1>4, <1>5 DEF Below, IsWhole
  <1>8. LineageOf(Known \cup {remote'}, commits + 1)
    <2>1. LineageOf(Known, commits)
      BY DEF IInv, Lineage
    <2> QED BY <1>2, <1>3, <1>4, <1>6, <1>7, <2>1, OneMoreHead
  <1>9. Lineage'
    <2>1. Known' \subseteq Known \cup {remote'}
      BY <1>1 DEF Known, Compared
    <2>2. LineageOf(Known', commits')
      BY <1>1, <1>8, <2>1, FewerHeads
    <2>3. LineageOf(Known, commits)' <=> LineageOf(Known', commits')
      BY DEF LineageOf, Anchored
    <2> QED BY <1>2, <2>2, <2>3 DEF Lineage
  <1>10. Mirrored'
    BY <1>1, MirrorKept DEF IInv, Mirrored
  <1>11. Threads'
    BY <1>1 DEF IInv, Threads, IsAppend, IsOp, IsBatcher, IsSync
  <1>12. Waiting'
    BY <1>1, WaitingKept DEF IInv
  <1> QED BY <1>1, <1>4, <1>7, <1>9, <1>10, <1>11, <1>12 DEF IInv, Forward

LEMMA OutsideStep ==
    ASSUME IInv, Outside
    PROVE  IInv' /\ Forward
  <1>1. UNCHANGED <<world, remote, commits, store, append, batcher, memo,
                    written, op, sync, acked>> /\ ref' = remote
    BY DEF Outside
  <1>2. /\ {ref, remote, store.head} \subseteq Known
        /\ Below(ref, remote) /\ Below(remote, remote)
        /\ \A h \in Known : IsWhole(h, commits)
    BY KnownHeads DEF IInv, Outside
  <1>3. Below(store.head, ref')
    <2>1. Below(store.head, ref)
      BY DEF IInv, Mirrored
    <2> QED BY <1>1, <1>2, <2>1, BelowAgain
  <1>4. Mirrored'
    BY <1>1, <1>3, MirrorKept DEF IInv
  <1>5. Lineage' /\ Forward
    BY <1>1, <1>2, SameSync, HeadsKept DEF IInv, Forward
  <1>6. Threads'
    BY <1>1 DEF IInv, Threads, IsAppend, IsOp, IsBatcher, IsSync
  <1>7. Waiting'
    BY <1>1, <1>2, WaitingKept DEF IInv, Below
  <1> QED BY <1>4, <1>5, <1>6, <1>7 DEF IInv

LEMMA CrashStep ==
    ASSUME IInv, Crash
    PROVE  IInv' /\ Forward
  <1>1. /\ UNCHANGED <<world, ref, remote, commits>>
        /\ append' = Idle /\ sync' = AfterLoading /\ written' = {}
        /\ batcher' = [pending |-> {}, files |-> NoFiles, armed |-> FALSE]
        /\ memo' = Render({}, {})
        /\ op' = Loading
        /\ acked' = acked \ (batcher.pending \cap Notes)
    BY DEF Crash
  <1>2. {ref, remote} \subseteq Known /\ Below(ref', ref') /\ Forward
    BY <1>1, KnownHeads DEF IInv, Forward
  <1>3. Mirrored' /\ store'.head = ref' /\ store'.tree = Tree(ref')
    <2>1. \/ store' = Loaded(store, ref')
          \/ store' = Loaded(Abandoned(store, Applied(append)), ref')
      BY <1>1 DEF Crash
    <2> QED BY <1>2, <2>1, MirrorLoaded DEF IInv
  <1>4. IsSync(sync') /\ Compared(sync') \subseteq Known
    BY <1>1 DEF IsSync, Compared, AfterLoading
  <1>5. Lineage'
    BY <1>1, <1>2, <1>3, <1>4, HeadsKept DEF IInv
  <1>6. Threads'
    BY <1>1, <1>4 DEF Threads, IsOp, IsBatcher, IsFiles, NoFiles, Idle, Loading
  <1>7. Waiting'
    <2>1. acked' \subseteq ref'.events /\ acked' \subseteq Notes \cup Claims
      BY <1>1 DEF IInv, Waiting
    <2>2. store'.tree.events = ref'.events
      BY <1>3 DEF Tree
    <2> QED BY <1>1, <2>1, <2>2
           DEF Waiting, Render, NoFiles, NoPages, Loading
  <1> QED BY <1>2, <1>3, <1>5, <1>6, <1>7 DEF IInv
-----------------------------------------------------------------------------
LEMMA InitHolds ==
    ASSUME Init
    PROVE  IInv
  <1>1. ref.seen = {1} /\ ref.events = {} /\ ref.leases = {}
        /\ ref.stamp = NoStamp /\ ref.pages = NoPages
    BY DEF Init
  <1>2. IsWhole(ref, 1)
    BY <1>1 DEF IsWhole, NoPages, Render, NoStamp
  <1>3. Below(ref, ref)
    BY <1>2, BelowItself
  <1>4. Known = {ref} /\ commits = 1
    BY DEF Init, Known, Compared, AfterLoading
  <1>5. Anchored(ref, {ref})
    BY <1>1, <1>3 DEF Anchored
  <1>6. Lineage
    BY <1>2, <1>4, <1>5 DEF Init, Lineage, LineageOf
  <1>7. Mirrored
    BY <1>3 DEF Init, Mirrored, Tree
  <1>8. Threads
    BY DEF Init, Threads, IsBatcher, IsFiles, IsSync, IsOp, NoFiles, Idle,
           Loading, AfterLoading
  <1>9. Waiting
    BY DEF Init, Waiting, Render, NoFiles, NoPages, Loading
  <1> QED BY <1>6, <1>7, <1>8, <1>9 DEF IInv

LEMMA NextKeeps ==
    ASSUME IInv, [Next]_vars
    PROVE  IInv' /\ Forward
  <1>1. CASE Work
    <2>1. world.peers \subseteq Foreign /\ world.formats \subseteq Nat
      BY ReplicaAssumption DEF IInv, Lineage
    <2> QED BY <1>1, <2>1, NoteStep, ClaimStep, PeerStep DEF Work
  <1>2. CASE OpStep
    BY <1>2, StageClaimStep, OpReplayStep, OpRenderStep, OpFlushStep DEF OpStep
  <1>3. CASE Timer
    BY <1>3, TimerStep
  <1>4. CASE AppendStep \/ AppendFails
    BY <1>4, AppendLandsStep, AppendLosesStep, AppendFailsStep DEF AppendStep
  <1>5. CASE SyncStep
    BY <1>5, NoticeStep, FetchStep, ReconcileStep, FastForwardStep, MergeStep,
       RefreshStep, RefreshedStep, PushStep DEF SyncStep
  <1>6. CASE SyncFails
    BY <1>6, SyncFailsStep
  <1>7. CASE Outside \/ Crash
    BY <1>7, OutsideStep, CrashStep
  <1>8. CASE UNCHANGED vars
    <2>1. UNCHANGED <<world, ref, remote, commits, store, append, batcher,
                      memo, written, op, sync, acked>>
      BY <1>8 DEF vars
    <2>2. Lineage' /\ Mirrored' /\ Forward
      BY <2>1, GitLeftAlone, SameSync DEF IInv
    <2>3. Waiting'
      BY <2>1, WaitingKept DEF IInv
    <2>4. Threads'
      BY <2>1 DEF IInv, Threads, IsAppend, IsOp, IsBatcher, IsSync
    <2> QED BY <2>2, <2>3, <2>4 DEF IInv
  <1> QED BY <1>1, <1>2, <1>3, <1>4, <1>5, <1>6, <1>7, <1>8 DEF Next

-----------------------------------------------------------------------------
\* Which way stamps go.  A head whose history holds another's has no older
\* stamp than that one, for the pairs of heads that a step puts one in the
\* place of the other: a commit of the daemon starts a history of its own, and
\* what a peer publishes is not older than what it builds on.  Where peers may
\* put their pages over newer ones it is enough that adopting is no commit.
Rises(h, g) == h.seen \subseteq g.seen => h.stamp <= g.stamp

Comparing(s) == s.pc \in {"reconcile", "merge"}

Stamped ==
    ~ world.overwrites =>
       /\ Rises(ref, remote)
       /\ Comparing(sync) =>
             /\ Rises(ref, sync.theirs) /\ Rises(remote, sync.theirs)
             /\ sync.theirs.stamp <= remote.stamp

StampKept ==
    ref'.stamp < ref.stamp =>
       \/ ref'.stamp = Ours /\ FlushesStaged
       \/ world.overwrites /\ commits' = commits

LEMMA Stamps ==
    ASSUME IInv
    PROVE  /\ \A h \in Known : h.stamp \in Int /\ h.seen \subseteq 1 .. commits
           /\ commits \in Nat /\ commits + 1 \notin 1 .. commits
           /\ {ref, remote, store.head} \subseteq Known
           /\ Comparing(sync) => {sync.theirs, sync.base} \subseteq Known
  <1>1. \A h \in Known : h.stamp \in Int /\ h.seen \subseteq 1 .. commits
    BY KnownHeads DEF IInv, IsWhole
  <1>2. commits \in Nat /\ commits + 1 \notin 1 .. commits
    BY DEF IInv, Lineage
  <1> QED BY <1>1, <1>2, KnownHeads DEF IInv, Comparing

LEMMA HeadsLeftAlone ==
    ASSUME IInv, Stamped, UNCHANGED <<world, ref, remote>>,
           \/ ~ Comparing(sync')
           \/ Comparing(sync) /\ sync'.theirs = sync.theirs
           \/ sync'.theirs = remote
    PROVE  Stamped' /\ StampKept
  <1>1. ref.stamp \in Int /\ remote.stamp \in Int
    BY Stamps
  <1> QED BY <1>1 DEF Stamped, StampKept, Rises, Comparing

LEMMA LandsWithStamp ==
    ASSUME IInv, Stamped, NEW to, NEW ps, Lands(to, ps),
           UNCHANGED <<world, remote>>, sync' = sync \/ ~ Comparing(sync')
    PROVE  Stamped' /\ ref'.stamp = to.stamp
  <1>1. ref'.stamp = to.stamp /\ commits + 1 \in ref'.seen
    BY DEF IInv, Mirrored, Lands, Built, Fed, Tree, Commit
  <1>2. Rises(ref', remote')
    BY <1>1, Stamps DEF Rises
  <1>3. ASSUME Comparing(sync), sync' = sync
        PROVE  Rises(ref', sync.theirs)
    BY <1>1, <1>3, Stamps DEF Rises
  <1> QED BY <1>1, <1>2, <1>3 DEF Stamped, Rises, Comparing

LEMMA AppendLandsStamp ==
    ASSUME IInv, Stamped, AppendLands
    PROVE  Stamped' /\ StampKept
  <1>1. Stamped' /\ ref'.stamp = Applied(append).stamp
    BY LandsWithStamp DEF AppendLands
  <1>2. IsAppend(append) /\ store.tree.stamp = ref.stamp
    BY DEF AppendLands, IInv, Threads, Mirrored, Tree
  <1>3. append.files.stamp # NoStamp =>
           append.files.stamp = Ours /\ append.files # NoFiles
    BY <1>2 DEF IsAppend, IsFiles, NoFiles
  <1>4. append.files # NoFiles => FlushesStaged
    BY <1>2 DEF IInv, Threads, IsAppend, FlushesStaged
  <1>5. ref.stamp \in Int
    BY Stamps
  <1> QED BY <1>1, <1>2, <1>3, <1>4, <1>5 DEF Applied, StampKept

LEMMA MergeStamp ==
    ASSUME IInv, Stamped, Merge
    PROVE  Stamped' /\ StampKept
  <1> DEFINE to == Merged(Tree(sync.base), Tree(sync.theirs))
  <1>1. ~ Comparing(sync') /\ remote' = remote /\ world' = world
    <2>1. sync' \in {[pc |-> "refresh", next |-> [pc |-> "push"]],
                     [pc |-> "fetch"], Idle}
      BY DEF Merge, AfterMerge, Again
    <2> QED BY <2>1 DEF Merge, Comparing, Idle
  <1>2. CASE ref' = ref
    BY <1>1, <1>2, HeadsLeftAlone
  <1>3. CASE sync.base = store.head /\ ref = store.head
    <2>1. Lands(to, ref.seen \cup sync.theirs.seen)
      BY <1>3 DEF Merge
    <2>2. ref.stamp \in Int /\ sync.theirs.stamp \in Int
      BY Stamps DEF Merge, Comparing
    <2>3. ref.stamp <= to.stamp /\ to.stamp \in Int
      BY <1>3, <2>2 DEF Merged, Tree, Ours
    <2> HIDE DEF to
    <2>4. Stamped' /\ ref'.stamp = to.stamp
      BY <1>1, <2>1, LandsWithStamp
    <2> QED BY <2>2, <2>3, <2>4 DEF StampKept
  <1> QED BY <1>2, <1>3 DEF Merge

LEMMA FastForwardStamp ==
    ASSUME IInv, Stamped, FastForward \/ SyncFails
    PROVE  Stamped' /\ StampKept
  <1>1. ~ Comparing(sync') /\ remote' = remote /\ world' = world
    <2>1. sync' \in {[pc |-> "refresh", next |-> [pc |-> "push"]],
                     [pc |-> "fetch"], Idle}
      BY DEF FastForward, SyncFails, AfterMerge, Again
    <2> QED BY <2>1 DEF FastForward, SyncFails, Comparing, Idle
  <1>2. CASE ref' = ref
    BY <1>1, <1>2, HeadsLeftAlone
  <1>3. CASE /\ sync.pc = "reconcile" /\ ref' = sync.theirs
             /\ sync.base = ref /\ sync.base.seen \subseteq sync.theirs.seen
    <2>1. ~ world.overwrites => /\ ref.stamp <= sync.theirs.stamp
                                /\ sync.theirs.stamp <= remote.stamp
      BY <1>3 DEF Stamped, Comparing, Rises
    <2>2. ref.stamp \in Int /\ sync.theirs.stamp \in Int
      BY <1>3, Stamps DEF Comparing
    <2>3. commits' = commits /\ world.overwrites \in BOOLEAN
      BY ReplicaAssumption DEF FastForward, SyncFails, IInv, Lineage
    <2> QED BY <1>1, <1>3, <2>1, <2>2, <2>3 DEF Stamped, Rises, StampKept
  <1> QED BY <1>2, <1>3 DEF FastForward, SyncFails

LEMMA PushStamp ==
    ASSUME IInv, Stamped, Push
    PROVE  Stamped' /\ StampKept
  <1>1. ref' = ref /\ ref.stamp \in Int /\ world' = world
    BY Stamps DEF Push
  <1>2. ~ Comparing(sync')
    BY DEF Push, Again, Comparing, Idle
  <1>3. remote' = remote \/ remote' = ref
    BY DEF Push
  <1> QED BY <1>1, <1>2, <1>3 DEF Stamped, Rises, StampKept

LEMMA PeerStamp ==
    ASSUME IInv, Stamped, NEW e \in Foreign, NEW format \in Nat,
           Peer(e, format)
    PROVE  Stamped' /\ StampKept
  <1>1. /\ ref' = ref /\ sync' = sync /\ world' = world
        /\ remote'.seen = remote.seen \cup {commits + 1}
        /\ \/ remote'.stamp = remote.stamp /\ remote.stamp > format
           \/ /\ remote'.stamp = format
              /\ remote.stamp <= format \/ world.overwrites
    BY DEF Peer
  <1>2. ref.stamp \in Int /\ remote.stamp \in Int
    BY Stamps
  <1> SUFFICES ASSUME ~ world.overwrites
               PROVE  Stamped' /\ StampKept
    BY <1>1, <1>2 DEF Stamped, StampKept
  <1>3. remote.stamp <= remote'.stamp /\ remote'.stamp \in Int
    BY <1>1, <1>2
  <1>4. Rises(ref, remote')
    <2>1. ref.seen \subseteq remote'.seen => ref.seen \subseteq remote.seen
      BY <1>1, Stamps
    <2> QED BY <1>2, <1>3, <2>1 DEF Stamped, Rises
  <1>5. ASSUME Comparing(sync)
        PROVE  /\ Rises(remote', sync.theirs)
               /\ sync.theirs.stamp <= remote'.stamp
    <2>1. commits + 1 \notin sync.theirs.seen /\ sync.theirs.stamp \in Int
      BY <1>5, Stamps
    <2> QED BY <1>1, <1>2, <1>3, <1>5, <2>1 DEF Stamped, Rises
  <1> QED BY <1>1, <1>2, <1>4, <1>5 DEF Stamped, StampKept, Rises, Comparing

LEMMA OutsideStamp ==
    ASSUME IInv, Stamped, Outside
    PROVE  Stamped' /\ StampKept
  <1>1. /\ ref' = remote /\ ref.seen \subseteq remote.seen
        /\ UNCHANGED <<world, remote, sync, commits>>
    BY DEF Outside
  <1>2. /\ ref.stamp \in Int /\ remote.stamp \in Int
        /\ world.overwrites \in BOOLEAN
    BY Stamps, ReplicaAssumption DEF IInv, Lineage
  <1> QED BY <1>1, <1>2 DEF Stamped, StampKept, Rises, Comparing

LEMMA StampsKept ==
    ASSUME IInv, Stamped, [Next]_vars
    PROVE  Stamped' /\ StampKept
  <1>1. ASSUME UNCHANGED <<world, ref, remote, sync>>
        PROVE  Stamped' /\ StampKept
    BY <1>1, HeadsLeftAlone DEF Comparing
  <1>2. CASE Work
    <2>1. world.peers \subseteq Foreign /\ world.formats \subseteq Nat
      BY ReplicaAssumption DEF IInv, Lineage
    <2>2. CASE \E e \in Events : Note(e) \/ Claim(e)
      BY <1>1, <2>2 DEF Note, Claim
    <2> QED BY <1>2, <2>1, <2>2, PeerStamp DEF Work
  <1>3. CASE OpStep \/ Timer \/ AppendFails \/ AppendLoses \/ UNCHANGED vars
    BY <1>1, <1>3 DEF OpStep, StageClaim, OpReplay, OpRender, OpFlush, Timer,
       AppendFails, AppendLoses, vars
  <1>4. CASE Notice \/ Refresh \/ Refreshed \/ Crash
    <2>1. UNCHANGED <<world, ref, remote>>
      BY <1>4 DEF Notice, Refresh, Refreshed, Crash
    <2>2. CASE Notice \/ Crash
      BY <2>1, <2>2, HeadsLeftAlone DEF Notice, Crash, AfterLoading, Comparing
    <2>3. CASE Refresh \/ Refreshed
      <3>1. /\ sync = [pc |-> sync.pc, next |-> sync.next]
            /\ sync.next \in {[pc |-> "fetch"], [pc |-> "push"], Idle}
        BY <2>3 DEF Refresh, Refreshed, IInv, Threads, IsSync
      <3>2. ~ Comparing(sync')
        BY <2>3, <3>1 DEF Refresh, Refreshed, Comparing, Idle
      <3> QED BY <2>1, <3>2, HeadsLeftAlone
    <2> QED BY <1>4, <2>2, <2>3
  <1>5. CASE Fetch \/ Reconcile
    <2>1. UNCHANGED <<world, ref, remote>>
      BY <1>5 DEF Fetch, Reconcile
    <2>2. CASE Fetch
      BY <2>1, <2>2, HeadsLeftAlone DEF Fetch
    <2>3. CASE Reconcile
      <3>1. sync = [pc |-> "reconcile", theirs |-> sync.theirs,
                    base |-> sync.base]
        BY <2>3 DEF Reconcile, IInv, Threads, IsSync
      <3>2. sync' \in {[pc |-> "push"], [pc |-> "merge",
                        theirs |-> sync.theirs, base |-> store.head]}
        BY <2>3, <3>1 DEF Reconcile
      <3> QED BY <2>1, <3>1, <3>2, HeadsLeftAlone DEF Comparing
    <2> QED BY <1>5, <2>2, <2>3
  <1> QED BY <1>2, <1>3, <1>4, <1>5, AppendLandsStamp, MergeStamp,
             FastForwardStamp, PushStamp, OutsideStamp
          DEF Next, AppendStep, SyncStep

\* Whatever is written, fails, crashes or moves the ref: every head the
\* machine knows is whole and has a commit of its own, the store mirrors its
\* head, and every event is on the branch or waits where it is not lost.
THEOREM InvariantHolds == Spec => []IInv
  <1>1. Init => IInv
    BY InitHolds
  <1>2. IInv /\ [Next]_vars => IInv'
    BY NextKeeps
  <1> QED BY <1>1, <1>2, PTL DEF Spec

\* Heads hold what was written, pages never show what their head lacks, and
\* an append (AppendBatch) stays within its attempts.
THEOREM HeadsAreTyped == Spec => []TypeOK
  <1>1. IInv => TypeOK
    <2> SUFFICES ASSUME IInv PROVE TypeOK
      OBVIOUS
    <2>1. IsHead(ref) /\ IsHead(remote) /\ IsHead(store.head)
      BY KnownHeads DEF IInv, IsWhole, IsHead
    <2> QED BY <2>1 DEF IInv, TypeOK, Lineage, Waiting, Threads, IsAppend
  <1> QED BY <1>1, InvariantHolds, PTL

\* The index that commitLocked feeds never carries entries of a commit that
\* failed, and no head shows a claim without the lease that claimTargetLocked
\* appends first.
THEOREM NoHalfCommits == Spec => []CommitsAreWhole
  <1>1. IInv => CommitsAreWhole
    BY KnownHeads DEF IInv, Mirrored, CommitsAreWhole, IsWhole
  <1> QED BY <1>1, InvariantHolds, PTL

\* An operation that was answered without an error is on the branch or with
\* the batcher, a claim is on the branch, and between operations reads show all
\* of it: whatever swaps were lost, merges made, and appends given up.
THEOREM AcceptedIsKept == Spec => []NothingForgotten
  <1>1. IInv => NothingForgotten
    BY DEF IInv, Waiting, NothingForgotten, Idle
  <1> QED BY <1>1, InvariantHolds, PTL

\* No commit, merge, fast-forward, push or manual fetch takes an event off
\* either branch.  The local branch's stamp goes back by the first attempt of a
\* batch only, which lands files staged before (AppendBatch), and then to the
\* daemon's own format: never by reconcile's fast-forward, merge, a move by
\* hand or an attempt that lost a swap before, unless the head that was adopted
\* is of a peer that had taken it back.
THEOREM BranchesOnlyGain == Spec => BranchMovesForward
  <1>1. Init => Stamped
    BY DEF Init, Stamped, Rises, Comparing, AfterLoading, NoStamp
  <1>2. IInv /\ Stamped /\ [Next]_vars => Stamped'
    BY StampsKept
  <1>3. IInv /\ Stamped /\ [Next]_vars =>
           [/\ ref.events \subseteq ref'.events
            /\ remote.events \subseteq remote'.events
            /\ ref'.stamp < ref.stamp =>
                  \/ ref'.stamp = Ours /\ FlushesStaged
                  \/ world.overwrites /\ commits' = commits]_vars
    BY NextKeeps, StampsKept DEF Forward, Below, StampKept
  <1> QED BY <1>1, <1>2, <1>3, InvariantHolds, PTL DEF Spec, BranchMovesForward
=============================================================================
