----------------------------- MODULE MCReplica -----------------------------
(* Small instances of one machine's write path. *)
EXTENDS Replica

OneEvent == {CHOOSE e \in Foreign : TRUE}

Calmly(formats) ==
    [fails |-> FALSE, crashes |-> FALSE, moves |-> FALSE,
     peers |-> OneEvent, formats |-> formats, overwrites |-> FALSE,
     last |-> 14]

\* Everything goes wrong; the ref is moved by hand twice in a row, to heads of
\* peers that heed no stamp; or nothing goes wrong, and everything settles.
MCWorlds ==
    {[fails |-> TRUE, crashes |-> TRUE, moves |-> TRUE,
      peers |-> OneEvent, formats |-> {Ours, Ours + 1},
      overwrites |-> FALSE, last |-> 6],
     [fails |-> FALSE, crashes |-> FALSE, moves |-> TRUE,
      peers |-> Foreign, formats |-> {Ours, Ours + 1},
      overwrites |-> TRUE, last |-> 6],
     Calmly({Ours - 1, Ours, Ours + 1})}

MCMovedByHand == {[Calmly({Ours}) EXCEPT !.moves = TRUE]}

MCNewerPeers == {Calmly({Ours + 1})}
=============================================================================
