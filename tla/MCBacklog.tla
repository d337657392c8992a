----------------------------- MODULE MCBacklog -----------------------------
(* Small instances of the backlog. *)
EXTENDS Backlog, TLC

\* The clocks of the machines agree; the first machine's is ahead.
MCAgree == [m \in Machines |-> 0]
MCAhead == [m \in Machines |->
               IF m = CHOOSE x \in Machines : TRUE THEN 2 ELSE 0]

\* Edits to the edges of n tasks that everybody has from the start.
Edits(n, fields, last) ==
    [shared |-> n, room |-> n, births |-> {"open"}, maxDeps |-> 1,
     maxFields |-> fields, last |-> last, works |-> FALSE]

\* Work on two tasks, one of them created on the way.
Work == [shared |-> 1, room |-> 2, births |-> {"open", "held"}, maxDeps |-> 1,
         maxFields |-> 1, last |-> 4, works |-> TRUE]

MCWorlds ==
    {Edits(3, 1, 5), [Edits(3, 1, 4) EXCEPT !.maxDeps = 2],
     Edits(2, 1, 5), Edits(2, 2, 4), Work}

\* Two tasks created and edited from scratch.
MCFresh == {[Edits(0, 1, 5) EXCEPT !.room = 2]}

MCSymmetry == Permutations(Tasks) \cup Permutations(Machines)
=============================================================================
