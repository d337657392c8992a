------------------------------ MODULE MCFleet ------------------------------
(* Small instances of the fleet. *)
EXTENDS Fleet

\* One actor on each machine; all of them on one.
Apart    == [a \in Actors |-> IF a = "a" THEN "m1" ELSE "m2"]
Together == [a \in Actors |-> "m1"]

Shared(ttl, mayAbandon, mayRenew, last) ==
    [home |-> Apart, hasRemote |-> TRUE, ttl |-> ttl,
     mayAbandon |-> mayAbandon, mayRenew |-> mayRenew, last |-> last]

Alone == [home |-> Together, hasRemote |-> FALSE, ttl |-> 3,
          mayAbandon |-> TRUE, mayRenew |-> TRUE, last |-> 7]

\* Attempts that end in a done run or a loss, under leases that outlast them;
\* one machine without a remote, where anything goes; and two machines with
\* releases, failures, lapses and renewals, for fewer instants.
MCContests == {Shared(9, FALSE, FALSE, 8), Alone, Shared(2, TRUE, TRUE, 6)}
MCWorking  == {Shared(9, FALSE, FALSE, 5)}

\* Releases and failures under leases that do not lapse.
MCAbandoning == {Shared(9, TRUE, FALSE, 7)}
=============================================================================
