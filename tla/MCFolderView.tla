---------------------------- MODULE MCFolderView ----------------------------
(* Instances of FolderView for TLC. *)
EXTENDS FolderView

(* Acts of the peer, changes of the data, requests of the user and failed calls. *)
Cost(peers, data, users, faults) ==
  [peer |-> peers, data |-> data, user |-> users, fault |-> faults]

MCBudgets == {Cost(0, 0, 2, 0), Cost(2, 0, 1, 0), Cost(1, 1, 0, 1), Cost(0, 2, 0, 0), Cost(1, 0, 1, 1)}

=============================================================================
