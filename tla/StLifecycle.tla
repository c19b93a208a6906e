---------------------------- MODULE StLifecycle ----------------------------
(***************************************************************************)
(* What internal/stmanager promises its callers about `running`, the flag  *)
(* that IsRunning() returns and by which the power gate decides whether to *)
(* start or stop Syncthing:                                                *)
(*   - it becomes TRUE only in a Start, of which one at a time proceeds;   *)
(*   - it becomes FALSE in a Stop, in a Start that gives up, or because    *)
(*     the process has exited;                                             *)
(*   - a Stop does not return before it has made it FALSE.                 *)
(* Module StManager implements this specification; module Gate calls it.   *)
(***************************************************************************)
CONSTANT Thread

VARIABLES
  running,  \* stmanager.running
  op        \* op[t]: what thread t is doing in the manager

vars == <<running, op>>

Op == {"none", "starting", "stopping"}

TypeOK == running \in BOOLEAN /\ op \in [Thread -> Op]

Init == running = FALSE /\ op = [t \in Thread |-> "none"]

Latched == \E t \in Thread : op[t] = "starting"

(* A Start that finds Syncthing running, or starting, returns at once: no step. *)
BeginStart(t) ==
  /\ op[t] = "none" /\ ~running /\ ~Latched
  /\ op' = [op EXCEPT ![t] = "starting"]
  /\ UNCHANGED running

SetRunning(t) ==
  /\ op[t] = "starting" /\ ~running
  /\ running' = TRUE
  /\ UNCHANGED op

(* Start gives up waiting for Syncthing to be ready, and stops it. *)
Withdraw(t) ==
  /\ op[t] = "starting"
  /\ running' = FALSE
  /\ UNCHANGED op

EndStart(t) ==
  /\ op[t] = "starting"
  /\ op' = [op EXCEPT ![t] = "none"]
  /\ UNCHANGED running

(* The first step of a Stop clears the flag; killing takes longer. *)
BeginStop(t) ==
  /\ op[t] = "none"
  /\ op' = [op EXCEPT ![t] = "stopping"]
  /\ running' = FALSE

EndStop(t) ==
  /\ op[t] = "stopping"
  /\ op' = [op EXCEPT ![t] = "none"]
  /\ UNCHANGED running

(* The process has exited and was reaped. *)
Exit == running /\ running' = FALSE /\ UNCHANGED op

Next ==
  \/ \E t \in Thread :
       \/ BeginStart(t) \/ SetRunning(t) \/ Withdraw(t) \/ EndStart(t)
       \/ BeginStop(t) \/ EndStop(t)
  \/ Exit

Spec == Init /\ [][Next]_vars
=============================================================================
