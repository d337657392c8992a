--------------------------- MODULE MCReplayLoop ---------------------------
(* Small instances of the replay loop. *)
EXTENDS ReplayLoop, TLC

MCNoDeps == {{}}
MCLeaseTimes == {NoLease, 2, 4}

\* Actors are only ever compared for equality.
MCSymmetry == Permutations(Actors)
=============================================================================
