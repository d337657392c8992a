----------------------------- MODULE MCLifecycle -----------------------------
(* Commands that race, over what a dead daemon left; two daemons that are    *)
(* killed, one of them signalled, too; two in a clone whose pointer file     *)
(* comes and goes; and one that meets everything at once.                    *)
EXTENDS Lifecycle

CONSTANTS c1, c2, c3

World(commands, stale, pointers, happens) ==
    [commands |-> commands, stale |-> stale, carries |-> ~ stale,
     pointers |-> pointers, config |-> "unset",
     signals |-> IF "signals" \in happens THEN {c1} ELSE {},
     kills |-> "kills" \in happens,
     faults |-> "faults" \in happens, slow |-> "slow" \in happens,
     writes |-> "writes" \in happens]

MCWorlds ==
    {World({c1, c2, c3}, TRUE, {"absent"}, {}),
     World({c1, c2}, FALSE, {"absent"}, {"signals", "kills"}),
     World({c1, c2}, TRUE, {"absent", "home", "broken"}, {"kills"}),
     World({c1}, FALSE, {"absent", "home"},
           {"signals", "kills", "faults", "slow", "writes"})}
=============================================================================
