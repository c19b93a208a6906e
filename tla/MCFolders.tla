----------------------------- MODULE MCFolders -----------------------------
(* Instances of Folders for TLC. *)
EXTENDS Folders

CONSTANTS A, B, C

(* All three share the folder; A and C share it with B; A has it alone. *)
Mesh  == [n \in Node |-> Node]
Star  == [n \in Node |-> IF n = B THEN Node ELSE {n, B}]
Alone == [n \in Node |-> IF n = A THEN {A} ELSE {}]

(* Requests, failed calls and lost messages. *)
Start(folder, users, faults, losses) ==
  [devices |-> folder, left |-> [user |-> users, fault |-> faults, loss |-> losses]]

MCGroup ==
  {Start(Alone, 4, 0, 0), Start(Mesh, 2, 0, 0), Start(Star, 2, 0, 0),
   Start(Mesh, 1, 1, 1), Start(Star, 1, 1, 1), Start(Alone, 2, 1, 0)}

MCKick == {Start(Mesh, 1, 0, 0)}

=============================================================================
