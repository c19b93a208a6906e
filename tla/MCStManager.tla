---------------------------- MODULE MCStManager ----------------------------
(* Instances of StManager for TLC. *)
EXTENDS StManager, TLC

(* Two Starts may overlap a Stop, and another Start follows; one crash. *)
MCBudget == [start |-> 3, stop |-> 2, crash |-> 1]

=============================================================================
