------------------------------- MODULE Merge -------------------------------
(***************************************************************************)
(* The app-level merge of two heads of the data branch:                    *)
(* internal/syncer/merge.go as pure operators.                             *)
(*                                                                         *)
(* A head is what a commit of the data branch holds, and what it descends  *)
(* from:                                                                   *)
(*   events  the event files (immutable, named by id),                     *)
(*   leases  the lease record of every claim,                              *)
(*   seen    the operations in its history, so that git's ancestor         *)
(*           relation is set inclusion.                                    *)
(* An absent lease file is a plain record that lapsed before every         *)
(* instant: every record written later beats it.  The rendered views are   *)
(* left out: they are a function of the rest.                              *)
(***************************************************************************)
EXTENDS Replay

Lease    == [exp : Instants, released : BOOLEAN]
NoRecord == [exp |-> NoLease, released |-> FALSE]

Expiries(head) == [c \in Ids |-> head.leases[c].exp]

Ancestor(a, b) == a.seen \subseteq b.seen

\* A tombstone beats a plain record; of two tombstones the earlier wins, of
\* two plain records the later.
Beats(x, y) ==
    \/ x.released /\ ~ y.released
    \/ x.released /\ y.released /\ x.exp < y.exp
    \/ ~ x.released /\ ~ y.released /\ x.exp > y.exp

PickLease(x, y) == IF Beats(y, x) THEN y ELSE x

-----------------------------------------------------------------------------
LatestId(events) ==
    CHOOSE n \in Ids \cup {0} :
        /\ \A e \in events : e.id <= n
        /\ n = 0 \/ \E e \in events : e.id = n

\* replayTreeFrozen: the clock stands at the head's own latest event.
Frozen(head) ==
    ReplayOf(head.events, Expiries(head), IDTime(LatestId(head.events)))

OneSidedConfirmations(own, other) ==
    {e \in own.events \ other.events : e.type = "claim.confirmed"}

\* The confirmations of own that compete with an earlier one by which
\* another claim holds the task in state s of the other head.
Competing(own, other, s) ==
    {e \in OneSidedConfirmations(own, other) :
        \E c \in ActiveClaims(s, e.task) :
            /\ c # e.claim
            /\ s.claims[c].confirmation # None
            /\ s.claims[c].confirmation < e.id}

\* Mutant: any other active claim refuses a confirmation.
RefusedBoth(ours, theirs) ==
    LET Rivals(own, other) ==
          {e \in OneSidedConfirmations(own, other) :
              \E c \in ActiveClaims(Frozen(other), e.task) : c # e.claim}
    IN Rivals(ours, theirs) \cup Rivals(theirs, ours)

\* confirmGuard.  A side that cannot be replayed switches it off.
Refused(ours, theirs) ==
    LET os == Frozen(ours)
        ts == Frozen(theirs)
    IN  IF /\ OneSidedConfirmations(ours, theirs) = {}
           /\ OneSidedConfirmations(theirs, ours) = {}
        THEN {}
        ELSE IF os.error \/ ts.error THEN {}
        ELSE Competing(ours, theirs, ts) \cup Competing(theirs, ours, os)

\* Mutant: the merge commit forgets its second parent.
MergeTreesOneParent(ours, theirs) ==
    [events |-> (ours.events \cup theirs.events) \ Refused(ours, theirs),
     leases |-> [c \in Ids |-> PickLease(ours.leases[c], theirs.leases[c])],
     seen   |-> ours.seen]

MergeTrees(ours, theirs) ==
    [events |-> (ours.events \cup theirs.events) \ Refused(ours, theirs),
     leases |-> [c \in Ids |-> PickLease(ours.leases[c], theirs.leases[c])],
     seen   |-> ours.seen \cup theirs.seen]

\* reconcile: what the local head becomes when the remote head comes in.
Reconciled(local, remote) ==
    IF Ancestor(remote, local) THEN local
    ELSE IF Ancestor(local, remote) THEN remote
    ELSE MergeTrees(local, remote)

-----------------------------------------------------------------------------
\* e is the first confirmation of its task on head h.
First(e, h) ==
    /\ e \in h.events /\ e.type = "claim.confirmed"
    /\ \A f \in h.events :
          f.type = "claim.confirmed" /\ f.task = e.task => e.id <= f.id

\* Claim c is the one that e confirms, or was made after the actor of that one
\* had given the task back, or reported on it, as head h tells.
ClaimedAfter(c, e, h) ==
    \/ e.claim = c
    \/ \E x \in h.events :
          /\ x.type \in {"claim.released", "run.finished"}
          /\ x.task = e.task /\ x.actor = e.actor
          /\ x.id \in e.claim .. c
=============================================================================
