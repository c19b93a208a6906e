------------------------------ MODULE MCPairing ------------------------------
(* Instances of Pairing for TLC: two nodes, with the bounds on users and on
   the environment each run needs.                                           *)
EXTENDS Pairing

CONSTANTS a, b

Nobody == [n \in Node |-> {}]

(* a's Syncthing may be introduced to b. *)
IntroducedToA == [n \in Node |-> IF n = a THEN {b} ELSE {}]

NoEvents == [k \in Kind |-> 0]

(* Requests while a node restarts, calls to Syncthing fail and a
   reconciliation runs.                                                      *)
Failures == [NoEvents EXCEPT !["pair"] = 1, !["unpair"] = 1, !["dismiss"] = 1,
                             !["stop"] = 1, !["pipeline"] = 1, !["fault"] = 1]

(* Both users pair, one removes, and the wire is interrupted once. *)
Interrupted == [NoEvents EXCEPT !["pair"] = 2, !["unpair"] = 1, !["cut"] = 1]

=============================================================================
