---------------------------- MODULE MCPeerConns ----------------------------
(* Instances of PeerConns for TLC. *)
EXTENDS PeerConns, TLC

CONSTANTS Old, New, Dev, A, B

MCDeviceOf == [s \in Process |-> Dev]
MCHome     == [a \in Addr |-> Dev]

Start(at, vanish, appear, modes, hide, hellos, calls, losses) ==
  [host |-> at, mode |-> [s \in Process |-> "announcing"],
   left |-> [vanish |-> vanish, appear |-> appear, mode |-> modes, hide |-> hide,
             hello |-> hellos, call |-> calls,
             loss |-> losses]]

(* The device at one address or at both. *)
AtOne  == A :> Old @@ B :> Nobody
AtBoth == A :> Old @@ B :> Old

MCStarts ==
  {Start(AtOne, 2, 1, 0, 0, 0, 0, 0), Start(AtOne, 1, 1, 0, 0, 1, 0, 0),
   Start(AtOne, 0, 0, 1, 1, 0, 1, 1), Start(AtBoth, 1, 0, 0, 0, 1, 0, 0),
   Start(AtBoth, 0, 0, 0, 1, 0, 1, 0)}
=============================================================================
