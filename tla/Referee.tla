------------------------------ MODULE Referee ------------------------------
(***************************************************************************)
(* What replay promises about claims, without events, leases or clocks.    *)
(*                                                                         *)
(* Each task runs one contest at a time: it opens when a claim takes the   *)
(* free task, later claims join it and lose, and it ends when the hold     *)
(* ends, or when a newcomer finds the holder's lease lapsed and opens the  *)
(* next one.  A contest is settled in favour of one of its claims at most  *)
(* once.  The settled claim holds the task; before that the earliest does. *)
(***************************************************************************)
EXTENDS Integers

CONSTANTS Tasks, Claims

VARIABLES
    contest,  \* the claims in the present contest for each task
    settled,  \* the claim it is settled for: an empty set or a singleton
    holder    \* who holds the task, 0 if nobody does
vars == <<contest, settled, holder>>

Winner(in, final) ==
    IF final # {} THEN CHOOSE c \in final : TRUE
    ELSE IF in # {} THEN CHOOSE c \in in : \A d \in in : c <= d
    ELSE 0

Set(t, in, final) ==
    /\ contest' = [contest EXCEPT ![t] = in]
    /\ settled' = [settled EXCEPT ![t] = final]
    /\ holder'  = [holder  EXCEPT ![t] = Winner(in, final)]

Init ==
    /\ contest = [t \in Tasks |-> {}]
    /\ settled = [t \in Tasks |-> {}]
    /\ holder  = [t \in Tasks |-> 0]

\* A claim takes the free task, or takes over from a holder that lapsed.
Open(t, c) ==
    /\ \A d \in contest[t] : d < c
    /\ Set(t, {c}, {})

Join(t, c) ==
    /\ contest[t] # {}
    /\ \A d \in contest[t] : d < c
    /\ Set(t, contest[t] \cup {c}, settled[t])

\* The confirmed claim is usually in the present contest; a loser of an
\* earlier one may also be confirmed, and takes the present hold.
Settle(t, c) ==
    /\ contest[t] # {}
    /\ settled[t] = {}
    /\ Set(t, contest[t] \cup {c}, {c})

End(t) ==
    /\ contest[t] # {}
    /\ Set(t, {}, {})

Next ==
    \E t \in Tasks :
        \/ \E c \in Claims : Open(t, c) \/ Join(t, c) \/ Settle(t, c)
        \/ End(t)

Spec == Init /\ [][Next]_vars
=============================================================================
