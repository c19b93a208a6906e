---------------------------- MODULE MCOwnership ----------------------------
(* Instances of Ownership for TLC. *)
EXTENDS Ownership

CONSTANTS B1, B2

MCMode == {"on_change_poll", "scheduled"}

(* The user's doings, wake-ups, stopped workers, faults and deaths of the process. *)
Cost(users, wakes, stops, faults, deaths) ==
  [user |-> users, wake |-> wakes, stop |-> stops, fault |-> faults, death |-> deaths]

MCBudgets ==
  {Cost(1, 1, 1, 0, 0), Cost(2, 0, 0, 1, 0), Cost(2, 0, 0, 0, 1), Cost(0, 2, 1, 0, 0),
   Cost(0, 2, 0, 1, 0), Cost(0, 2, 0, 0, 1)}

=============================================================================
