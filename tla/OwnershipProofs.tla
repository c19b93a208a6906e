-------------------------- MODULE OwnershipProofs --------------------------
(***************************************************************************)
(* Theorems about Ownership, for any modes, goroutines and bounds: type    *)
(* correctness, and, as long as no fault is injected and nothing overlaps  *)
(* that the code does not serialise: the UI's claim, the backend that the  *)
(* owners are served by and that is gone after them, and the plan that     *)
(* WorkManager's queue follows.                                            *)
(***************************************************************************)
EXTENDS Ownership, TLAPS

USE DEF ui, schedule, settings, backend, history

UiPc == {"idle", "claim", "start", "remove", "ask", "cancel", "mark", "end"}
Releasing == {"remove", "ask", "cancel", "mark"}

(* While the main thread is in a callback there is a service; onDestroy has no timer
   left, and the service of a destroyed instance is not armed again before its end.  *)
UiType ==
  /\ pc["ui"] \in UiPc
  /\ pc["ui"] # "idle" => service # "none"
  /\ pc["ui"] = "end" => service = "up"
  /\ service = "dying" /\ pc["ui"] \in Releasing => ~timer /\ ~armed

(* WorkManager and a worker agree on the run, unless the run was replaced. *)
RunInv ==
  \A w \in Work :
    /\ fate[w] # "live" => pc[w] # "idle"
    /\ fate[w] = "replaced" => job[w] # "running"
    /\ pc[w] # "idle" /\ fate[w] # "replaced" => job[w] = "running"

TypeInv == TypeOK /\ UiType /\ RunInv

LEMMA SpendType ==
  ASSUME left \in [Kind -> Nat], NEW kind \in Kind, Spend(kind)
  PROVE  left' \in [Kind -> Nat]
BY DEF Spend

LEMMA GotoEffect ==
  ASSUME pc \in [Caller -> Pc], NEW c \in Caller, NEW to \in Pc, Goto(c, to)
  PROVE  /\ pc' \in [Caller -> Pc] /\ pc'[c] = to
         /\ \A d \in Caller \ {c} : pc'[d] = pc[d]
BY DEF Goto

(* The main thread is not a worker. *)
LEMMA WorkIsNotUi ==
  /\ Work \subseteq Caller /\ "ui" \in Caller /\ "ui" \notin Work
  /\ \A c \in Caller : c \in Work \/ c = "ui"
BY DEF Work, Caller

(* A step of the main thread leaves the workers alone, and the other way round. *)
LEMMA UiMoves ==
  ASSUME TypeInv, \A w \in Work : pc'[w] = pc[w], UNCHANGED <<job, fate>>
  PROVE  RunInv'
BY DEF TypeInv, RunInv

LEMMA WorkerMoves ==
  ASSUME TypeInv, pc'["ui"] = pc["ui"], UNCHANGED ui
  PROVE  UiType'
BY DEF TypeInv, UiType

(* What the parts of acquire and release do to the types. *)
CoreType ==
  /\ owners \subseteq Caller /\ pc \in [Caller -> Pc]
  /\ boot \in [Boot -> {"idle", "boot", "run"}]
  /\ cancelled \subseteq Boot /\ holder \in Boot \cup {NoBoot}
  /\ able \in BOOLEAN /\ session \in BOOLEAN
  /\ left \in [Kind -> Nat]
  /\ resident \in BOOLEAN /\ excused \in BOOLEAN

ShownType ==
  /\ visible \in BOOLEAN /\ believed \in BOOLEAN /\ timer \in BOOLEAN /\ armed \in BOOLEAN
  /\ hold \in {"no", "old", "new"} /\ service \in {"none", "up", "dying"}
  /\ (armed \/ timer) => service # "none"

QueueType ==
  /\ job \in [Work -> {"none", "queued", "running"}]
  /\ fate \in [Work -> {"live", "preempted", "replaced"}]
  /\ \A w \in Work : job[w] = "running" => pc[w] # "idle"
  /\ reapply \in {"none", "queued", "enqueue"}
  /\ plan \in [Work \cup {"reapply"} -> Mode \cup {""}]
  /\ setting \in Mode /\ mode \in Mode \cup {""}

LEMMA TypeParts == (TypeOK <=> CoreType /\ ShownType /\ QueueType)
                   /\ (CoreType' /\ ShownType' /\ QueueType' => TypeOK')
BY DEF TypeOK, CoreType, ShownType, QueueType

LEMMA StartBackendType ==
  ASSUME CoreType, NEW c \in Caller, NEW next \in Pc, StartBackend(c, next)
  PROVE  /\ CoreType' /\ pc'[c] = next
         /\ \A d \in Caller \ {c} : pc'[d] = pc[d]
<1>1. pc' \in [Caller -> Pc] /\ pc'[c] = next /\ \A d \in Caller \ {c} : pc'[d] = pc[d]
  BY GotoEffect DEF StartBackend, CoreType
<1>2. CASE UNCHANGED <<boot, holder>>
  <2>1. left' \in [Kind -> Nat] /\ excused' \in BOOLEAN
    BY <1>2, SpendType DEF StartBackend, Fault, Kind, CoreType
  <2>2. QED
    BY <1>1, <1>2, <2>1 DEF StartBackend, CoreType
<1>3. CASE ~UNCHANGED <<boot, holder>>
  <2>1. PICK b \in Boot : boot' = [boot EXCEPT ![b] = "boot"] /\ holder' = b
    BY <1>3 DEF StartBackend
  <2>2. UNCHANGED left /\ excused' \in BOOLEAN
    BY <1>3 DEF StartBackend, CoreType
  <2>3. QED
    BY <1>1, <2>1, <2>2 DEF StartBackend, CoreType
<1>4. QED
  BY <1>2, <1>3

LEMMA ReleaseType ==
  ASSUME CoreType, NEW c \in Caller, NEW next \in Pc, Claim(c) \/ Release(c, next)
  PROVE  /\ CoreType'
         /\ \A d \in Caller \ {c} : pc'[d] = pc[d]
         /\ pc[c] \in {"claim"} \cup Releasing
         /\ pc'[c] = next \/ pc'[c] \in {"start", "ask", "cancel", "mark"}
<1> USE DEF CoreType, Pc
<1>1. CASE Claim(c)
  BY <1>1, GotoEffect DEF Claim
<1>2. CASE Remove(c, next)
  <2>1. PICK to \in {"ask", next} : Goto(c, to)
    BY <1>2 DEF Remove
  <2>2. QED
    BY <1>2, <2>1, GotoEffect DEF Remove, Releasing
<1>3. CASE Ask(c, next)
  <2>1. PICK to \in {"cancel", next} : Goto(c, to)
    BY <1>3 DEF Ask
  <2>2. QED
    BY <1>3, <2>1, GotoEffect DEF Ask, Releasing
<1>4. CASE Cancel(c)
  <2>1. cancelled' \subseteq Boot
    BY <1>4 DEF Cancel
  <2>2. QED
    BY <1>4, <2>1, GotoEffect DEF Cancel, Releasing
<1>5. CASE Mark(c, next)
  BY <1>5, GotoEffect DEF Mark, Releasing
<1>6. QED
  BY <1>1, <1>2, <1>3, <1>4, <1>5 DEF Release

LEMMA UiTypes ==
  ASSUME TypeInv, UiStep \/ Resume \/ Pause \/ ChangeSetting
  PROVE  TypeInv'
<1>0. TypeOK /\ CoreType /\ UiType /\ RunInv
  BY DEF TypeInv, TypeOK, CoreType
<1>1. "ui" \in Caller /\ "ui" \notin Work /\ Work \subseteq Caller
  BY WorkIsNotUi
<1>2. {"idle", "claim", "remove", "end"} \subseteq Pc
  BY DEF Pc
<1>3. ASSUME CoreType', UiType', UNCHANGED <<job, fate, plan, settings>>,
             \A d \in Caller \ {"ui"} : pc'[d] = pc[d],
             visible' \in BOOLEAN, believed' \in BOOLEAN, timer' \in BOOLEAN,
             armed' \in BOOLEAN, hold' \in {"no", "old", "new"},
             service' \in {"none", "up", "dying"}, armed' \/ timer' => service' # "none",
             reapply' \in {"none", "queued", "enqueue"}
      PROVE  TypeInv'
  <2>1. \A w \in Work : pc'[w] = pc[w]
    BY <1>1, <1>3
  <2>2. RunInv'
    BY <1>3, <2>1, UiMoves
  <2>3. QED
    BY <1>0, <1>3, <2>1, <2>2 DEF TypeInv, TypeOK, CoreType
<1>4. CASE HoldUi
  <2>1. CoreType' /\ pc'["ui"] = "claim" /\ \A d \in Caller \ {"ui"} : pc'[d] = pc[d]
    BY <1>0, <1>1, <1>2, <1>4, GotoEffect DEF HoldUi, CoreType
  <2>2. timer' = FALSE /\ service' # "none" /\ service' \in {"none", "up", "dying"}
    BY <1>0, <1>4 DEF HoldUi, TimerAfterHold, TypeOK
  <2>3. QED
    BY <1>0, <1>3, <1>4, <2>1, <2>2 DEF HoldUi, UiType, UiPc, Releasing, TypeOK
<1>5. CASE HoldUiStart
  <2>1. CoreType' /\ pc'["ui"] = "idle" /\ \A d \in Caller \ {"ui"} : pc'[d] = pc[d]
    BY <1>0, <1>1, <1>2, <1>5, StartBackendType DEF HoldUiStart
  <2>2. service # "none" /\ armed' = TRUE /\ reapply' \in {"none", "queued", "enqueue"}
    BY <1>0, <1>5 DEF HoldUiStart, StartBackend, UiType, TypeOK
  <2>3. UNCHANGED <<visible, believed, timer, hold, service, job, fate, plan, settings>>
    BY <1>5 DEF HoldUiStart
  <2>4. QED
    BY <1>0, <1>3, <2>1, <2>2, <2>3 DEF UiType, UiPc, Releasing, TypeOK
<1>6. CASE UiReleases
  <2>1. /\ CoreType' /\ \A d \in Caller \ {"ui"} : pc'[d] = pc[d]
        /\ pc["ui"] \in {"claim"} \cup Releasing
        /\ \/ pc'["ui"] = (IF service = "dying" THEN "idle" ELSE "end")
           \/ pc'["ui"] \in {"start", "ask", "cancel", "mark"}
    BY <1>0, <1>1, <1>2, <1>6, ReleaseType DEF UiReleases
  <2>2. pc["ui"] \in Releasing /\ pc'["ui"] # "start"
    BY <1>0, <1>1, <1>6, GotoEffect
       DEF UiReleases, Release, Remove, Ask, Cancel, Mark, Releasing, Goto, CoreType
  <2>3. /\ service' = IF service = "dying" /\ pc'["ui"] = "idle" THEN "none" ELSE service
        /\ UNCHANGED <<visible, believed, timer, hold, armed, schedule, settings>>
    BY <1>6 DEF UiReleases
  <2>4. service \in {"up", "dying"} /\ (service = "dying" => ~timer /\ ~armed)
    BY <1>0, <2>2 DEF UiType, Releasing, TypeOK
  <2>5. UiType'
    BY <2>1, <2>2, <2>3, <2>4 DEF UiType, UiPc, Releasing
  <2>6. QED
    BY <1>0, <1>3, <2>1, <2>3, <2>4, <2>5 DEF TypeOK
<1>7. CASE StopSelf
  <2>1. CoreType' /\ pc'["ui"] = "idle" /\ \A d \in Caller \ {"ui"} : pc'[d] = pc[d]
    BY <1>0, <1>1, <1>2, <1>7, GotoEffect DEF StopSelf, CoreType
  <2>2. QED
    BY <1>0, <1>3, <1>7, <2>1 DEF StopSelf, UiType, UiPc, Releasing, TypeOK
<1>8. CASE OnDestroy
  <2>1. CoreType' /\ pc'["ui"] = "remove" /\ \A d \in Caller \ {"ui"} : pc'[d] = pc[d]
    BY <1>0, <1>1, <1>2, <1>8, GotoEffect DEF OnDestroy, CoreType
  <2>2. QED
    BY <1>0, <1>3, <1>8, <2>1 DEF OnDestroy, UiType, UiPc, Releasing, TypeOK
<1>9. CASE GraceElapses
  <2>1. CoreType' /\ pc'["ui"] = "remove" /\ \A d \in Caller \ {"ui"} : pc'[d] = pc[d]
    BY <1>0, <1>1, <1>2, <1>9, GotoEffect DEF GraceElapses, CoreType
  <2>2. QED
    BY <1>0, <1>3, <1>9, <2>1 DEF GraceElapses, UiType, UiPc, Releasing, TypeOK
<1>10. CASE Claim("ui") /\ UNCHANGED <<ui, schedule, settings>>
  <2>1. /\ CoreType' /\ pc["ui"] = "claim" /\ pc'["ui"] = "start"
        /\ \A d \in Caller \ {"ui"} : pc'[d] = pc[d]
    <3>1. CoreType' /\ \A d \in Caller \ {"ui"} : pc'[d] = pc[d]
      BY <1>0, <1>1, <1>2, <1>10, ReleaseType
    <3>2. "start" \in Pc
      BY DEF Pc
    <3>3. QED
      BY <1>0, <1>1, <1>10, <3>1, <3>2, GotoEffect DEF Claim, CoreType
  <2>2. QED
    BY <1>0, <1>3, <1>10, <2>1 DEF UiType, UiPc, Releasing, TypeOK
<1>11. CASE Resume
  <2>1. CoreType'
    BY <1>0, <1>11, SpendType DEF Resume, CoreType, Kind
  <2>2. QED
    BY <1>0, <1>3, <1>11, <2>1 DEF Resume, UiType, TypeOK
<1>12. CASE Pause
  <2>1. CoreType'
    BY <1>0, <1>12 DEF Pause, CoreType
  <2>2. QED
    BY <1>0, <1>3, <1>12, <2>1 DEF Pause, Main, UiType, UiPc, Releasing, TypeOK
<1>13. CASE ChangeSetting
  <2>1. CoreType' /\ UNCHANGED <<pc, ui, job, fate, plan, mode>>
    BY <1>0, <1>13, SpendType DEF ChangeSetting, CoreType, Kind
  <2>2. UiType' /\ RunInv'
    BY <1>0, <2>1 DEF UiType, RunInv
  <2>3. setting' \in Mode /\ reapply' = "queued"
    BY <1>13 DEF ChangeSetting
  <2>4. QED
    BY <1>0, <2>1, <2>2, <2>3 DEF TypeInv, TypeOK, CoreType
<1>14. QED
  BY <1>4, <1>5, <1>6, <1>7, <1>8, <1>9, <1>10, <1>11, <1>12, <1>13 DEF UiStep

LEMMA EnqueueType ==
  ASSUME TypeInv, NEW m, EnqueueFromPlan(m)
  PROVE  /\ job' \in [Work -> {"none", "queued", "running"}]
         /\ fate' \in [Work -> {"live", "preempted", "replaced"}]
         /\ \A w \in Work :
              /\ job'[w] = "running" => job[w] = "running" /\ fate'[w] = fate[w]
              /\ fate'[w] = fate[w] \/ (fate'[w] = "replaced" /\ job[w] = "running")
              /\ fate'[w] = "replaced" \/ job[w] # "running" \/ job'[w] = "running"
              /\ fate'[w] = "replaced" /\ fate[w] # "replaced" => job'[w] # "running"
<1>1. /\ job \in [Work -> {"none", "queued", "running"}]
      /\ fate \in [Work -> {"live", "preempted", "replaced"}]
  BY DEF TypeInv, TypeOK
<1>2. QED
  BY <1>1 DEF EnqueueFromPlan

LEMMA EnqueueRuns ==
  ASSUME TypeInv, NEW m, EnqueueFromPlan(m)
  PROVE  \A w \in Work :
           /\ fate'[w] # "live" => pc[w] # "idle"
           /\ fate'[w] = "replaced" => job'[w] # "running"
           /\ job'[w] = "running" => pc[w] # "idle"
           /\ pc[w] # "idle" /\ fate'[w] # "replaced" => job'[w] = "running"
<1>1. \A w \in Work : job[w] = "running" => pc[w] # "idle"
  BY DEF TypeInv, TypeOK
<1>2. QED
  BY <1>1, EnqueueType DEF TypeInv, RunInv

LEMMA ReapplyTypes ==
  ASSUME TypeInv, ReapplyStep
  PROVE  TypeInv'
<1>0. TypeOK /\ UiType /\ RunInv
  BY DEF TypeInv
<1>1. CASE ReapplyReads
  <2>1. CoreType' /\ ShownType' /\ QueueType'
    <3>1. CoreType' /\ ShownType'
      BY ZenonT(60), <1>0, <1>1, TypeParts DEF ReapplyReads, CoreType, ShownType
    <3>2. plan' \in [Work \cup {"reapply"} -> Mode \cup {""}]
      BY <1>0, <1>1, TypeParts DEF ReapplyReads, QueueType
    <3>3. QueueType'
      BY <1>0, <1>1, <3>2, TypeParts DEF ReapplyReads, QueueType
    <3>4. QED
      BY <3>1, <3>3
  <2>2. RunInv' /\ UiType'
    BY <1>1, UiMoves, WorkerMoves DEF ReapplyReads
  <2>3. QED
    BY <2>1, <2>2, TypeParts DEF TypeInv
<1>2. CASE ReapplyEnqueues
  <2>1. /\ UNCHANGED <<owners, pc, ui, settings, backend, left, history>>
        /\ reapply' = "none" /\ EnqueueFromPlan(plan["reapply"])
        /\ plan' = [plan EXCEPT !["reapply"] = ""]
    BY <1>2 DEF ReapplyEnqueues
  <2>2. RunInv' /\ \A w \in Work : job'[w] = "running" => pc'[w] # "idle"
    BY <2>1, EnqueueRuns DEF RunInv
  <2>3. /\ job' \in [Work -> {"none", "queued", "running"}]
        /\ fate' \in [Work -> {"live", "preempted", "replaced"}]
    BY <2>1, EnqueueType
  <2>4. UiType'
    BY <2>1, WorkerMoves
  <2>5. CoreType' /\ ShownType'
    BY ZenonT(60), <1>0, <2>1, TypeParts DEF CoreType, ShownType
  <2>6. QueueType'
    BY <1>0, <2>1, <2>2, <2>3, TypeParts DEF QueueType
  <2>7. QED
    BY <2>2, <2>4, <2>5, <2>6, TypeParts DEF TypeInv
<1>3. CASE ReapplyGivesUp
  <2>1. left' \in [Kind -> Nat] /\ excused' \in BOOLEAN
    BY <1>0, <1>3, SpendType DEF ReapplyGivesUp, Fault, Kind, TypeOK
  <2>2. QED
    <3>1. CoreType' /\ ShownType' /\ QueueType'
      <4>1. CoreType' /\ ShownType'
        BY <1>0, <1>3, <2>1, TypeParts DEF ReapplyGivesUp, CoreType, ShownType
      <4>2. QueueType'
        BY <1>0, <1>3, TypeParts DEF ReapplyGivesUp, QueueType
      <4>3. QED
        BY <4>1, <4>2
    <3>2. RunInv' /\ UiType'
      BY <1>3, UiMoves, WorkerMoves DEF ReapplyGivesUp
    <3>3. QED
      BY <3>1, <3>2, TypeParts DEF TypeInv
<1>4. QED
  BY <1>1, <1>2, <1>3 DEF ReapplyStep

LEMMA WorkerTypes ==
  ASSUME TypeInv, NEW w \in Work, WorkerStep(w) \/ Wake(w) \/ Preempt(w)
  PROVE  TypeInv'
<1>0. TypeOK /\ CoreType /\ UiType /\ RunInv
  BY DEF TypeInv, TypeOK, CoreType
<1>1. w \in Caller /\ w # "ui" /\ "ui" \in Caller /\ Work \subseteq Caller
  BY WorkIsNotUi
<1>2. {"idle", "claim", "ready", "seed", "hold", "remove", "rearm", "enqueue", "end"} \subseteq Pc
  BY DEF Pc
<1>3. UNCHANGED <<ui, settings>>
  BY DEF WorkerStep, WorkerOnly, WorkerStarts, AwaitReady, Trigger, AwaitClose, WorkerReleases,
     Rearm, RearmEnqueues, WorkerEnds, Wake, Preempt
<1>4. ASSUME CoreType', \A d \in Caller \ {w} : pc'[d] = pc[d],
             pc[w] # "idle", pc'[w] # "idle", UNCHANGED <<job, fate, reapply>>,
             plan' \in [Work \cup {"reapply"} -> Mode \cup {""}]
      PROVE  TypeInv'
  <2>1. UiType'
    BY <1>1, <1>3, <1>4, WorkerMoves
  <2>2. RunInv' /\ \A v \in Work : job'[v] = "running" => pc'[v] # "idle"
    BY <1>0, <1>1, <1>4 DEF RunInv, TypeOK
  <2>3. QED
    BY <1>0, <1>3, <1>4, <2>1, <2>2 DEF TypeInv, TypeOK, CoreType
<1>5. CASE Claim(w) /\ UNCHANGED schedule
  BY <1>0, <1>1, <1>2, <1>4, <1>5, ReleaseType, GotoEffect DEF Claim, TypeOK, Releasing
<1>6. CASE WorkerStarts(w)
  BY <1>0, <1>1, <1>2, <1>4, <1>6, StartBackendType DEF WorkerStarts, StartBackend, TypeOK
<1>7. CASE AwaitReady(w)
  <2>1. PICK to \in {"seed", "remove"} : Goto(w, to)
    BY <1>7 DEF AwaitReady, Finally
  <2>2. pc[w] = "ready" /\ UNCHANGED <<owners, schedule, backend, left, history>>
    BY <1>7 DEF AwaitReady
  <2>3. CoreType' /\ pc'[w] = to /\ \A d \in Caller \ {w} : pc'[d] = pc[d]
    BY <1>0, <1>1, <1>2, <2>1, <2>2, GotoEffect DEF CoreType
  <2>4. QED
    BY <1>0, <1>4, <2>2, <2>3 DEF TypeOK
<1>8. CASE Trigger(w)
  <2>1. PICK to \in {"hold", "remove"} : Goto(w, to)
    BY <1>8 DEF Trigger, Finally
  <2>2. /\ pc[w] = "seed" /\ session' \in BOOLEAN
        /\ UNCHANGED <<owners, schedule, boot, cancelled, holder, able, left, history>>
    BY <1>0, <1>8 DEF Trigger, CoreType
  <2>3. CoreType' /\ pc'[w] = to /\ \A d \in Caller \ {w} : pc'[d] = pc[d]
    BY <1>0, <1>1, <1>2, <2>1, <2>2, GotoEffect DEF CoreType
  <2>4. QED
    BY <1>0, <1>4, <2>2, <2>3 DEF TypeOK
<1>9. CASE AwaitClose(w)
  <2>1. /\ pc[w] = "hold" /\ Goto(w, "remove") /\ left' \in [Kind -> Nat]
        /\ UNCHANGED <<owners, schedule, backend, history>>
    BY <1>0, <1>9, SpendType DEF AwaitClose, Finally, CoreType, Kind
  <2>2. CoreType' /\ pc'[w] = "remove" /\ \A d \in Caller \ {w} : pc'[d] = pc[d]
    BY <1>0, <1>1, <1>2, <2>1, GotoEffect DEF CoreType
  <2>3. QED
    BY <1>0, <1>4, <2>1, <2>2 DEF TypeOK
<1>10. CASE WorkerReleases(w)
  <2>1. PICK next \in {"rearm", "end"} : Release(w, next)
    BY <1>10 DEF WorkerReleases
  <2>2. /\ CoreType' /\ \A d \in Caller \ {w} : pc'[d] = pc[d]
        /\ pc[w] # "idle" /\ pc'[w] # "idle"
    BY <1>0, <1>1, <1>2, <2>1, ReleaseType DEF Releasing
  <2>3. QED
    BY <1>0, <1>4, <1>10, <2>2 DEF WorkerReleases, TypeOK
<1>11. CASE Rearm(w)
  <2>1. PICK to \in {"enqueue", "end"} : Goto(w, to)
    BY <1>11 DEF Rearm
  <2>2. /\ pc[w] = "rearm" /\ UNCHANGED <<owners, job, fate, reapply, backend, left, history>>
        /\ plan' \in [Work \cup {"reapply"} -> Mode \cup {""}]
    BY <1>0, <1>11 DEF Rearm, TypeOK
  <2>3. CoreType' /\ pc'[w] = to /\ \A d \in Caller \ {w} : pc'[d] = pc[d]
    BY <1>0, <1>1, <1>2, <2>1, <2>2, GotoEffect DEF CoreType
  <2>4. QED
    BY <1>0, <1>4, <2>2, <2>3 DEF TypeOK
<1>12. CASE RearmEnqueues(w)
  <2>1. /\ pc[w] = "enqueue" /\ Goto(w, "end") /\ EnqueueFromPlan(plan[w])
        /\ plan' = [plan EXCEPT ![w] = ""] /\ excused' \in BOOLEAN
        /\ UNCHANGED <<owners, reapply, backend, left, resident>>
    BY <1>0, <1>12 DEF RearmEnqueues, CoreType
  <2>2. CoreType' /\ pc'[w] = "end" /\ \A d \in Caller \ {w} : pc'[d] = pc[d]
    BY <1>0, <1>1, <1>2, <2>1, GotoEffect DEF CoreType
  <2>3. \A v \in Work : pc'[v] = "idle" <=> pc[v] = "idle"
    BY <1>1, <2>1, <2>2
  <2>4. RunInv' /\ \A v \in Work : job'[v] = "running" => pc'[v] # "idle"
    BY <2>1, <2>3, EnqueueRuns DEF RunInv
  <2>5. UiType'
    BY <1>1, <1>3, <2>2, WorkerMoves
  <2>6. /\ job' \in [Work -> {"none", "queued", "running"}]
        /\ fate' \in [Work -> {"live", "preempted", "replaced"}]
    BY <2>1, EnqueueType
  <2>7. QED
    BY <1>0, <1>3, <2>1, <2>2, <2>4, <2>5, <2>6 DEF TypeInv, TypeOK, CoreType
<1>13. CASE WorkerEnds(w)
  <2>1. /\ Goto(w, "idle") /\ job' = [job EXCEPT ![w] = AfterRun(w)]
        /\ fate' = [fate EXCEPT ![w] = "live"] /\ pc[w] = "end"
        /\ UNCHANGED <<owners, reapply, plan, backend, left, history>>
    BY <1>13 DEF WorkerEnds
  <2>2. CoreType' /\ pc'[w] = "idle" /\ \A d \in Caller \ {w} : pc'[d] = pc[d]
    BY <1>0, <1>1, <1>2, <2>1, GotoEffect DEF CoreType
  <2>3. AfterRun(w) \in {"none", "queued"}
    BY <1>0, <2>1 DEF AfterRun, RunInv, TypeOK
  <2>4. /\ job' \in [Work -> {"none", "queued", "running"}]
        /\ fate' \in [Work -> {"live", "preempted", "replaced"}]
    BY <1>0, <2>1, <2>3 DEF TypeOK
  <2>5. RunInv' /\ \A v \in Work : job'[v] = "running" => pc'[v] # "idle"
    <3>1. /\ job'[w] # "running" /\ fate'[w] = "live"
          /\ \A v \in Work \ {w} : /\ job'[v] = job[v] /\ fate'[v] = fate[v]
                                 /\ pc'[v] = pc[v]
      BY <1>0, <1>1, <2>1, <2>2, <2>3 DEF TypeOK
    <3>2. \A v \in Work : v # w =>
            /\ fate'[v] # "live" => pc'[v] # "idle"
            /\ fate'[v] = "replaced" => job'[v] # "running"
            /\ pc'[v] # "idle" /\ fate'[v] # "replaced" => job'[v] = "running"
            /\ job'[v] = "running" => pc'[v] # "idle"
      <4>1. \A v \in Work : job[v] = "running" => pc[v] # "idle"
        BY <1>0 DEF TypeOK
      <4>2. QED
        BY <1>0, <3>1, <4>1 DEF RunInv
    <3>3. QED
      BY <2>2, <3>1, <3>2 DEF RunInv
  <2>6. UiType'
    BY <1>1, <1>3, <2>2, WorkerMoves
  <2>7. QED
    BY <1>0, <1>3, <2>1, <2>2, <2>4, <2>5, <2>6 DEF TypeInv, TypeOK, CoreType
<1>14. CASE Wake(w)
  <2>1. /\ pc[w] = "idle" /\ Goto(w, "claim") /\ job' = [job EXCEPT ![w] = "running"]
        /\ left' \in [Kind -> Nat]
        /\ UNCHANGED <<owners, fate, reapply, plan, backend, history>>
    BY <1>0, <1>14, SpendType DEF Wake, CoreType, Kind
  <2>2. CoreType' /\ pc'[w] = "claim" /\ \A d \in Caller \ {w} : pc'[d] = pc[d]
    BY <1>0, <1>1, <1>2, <2>1, GotoEffect DEF CoreType
  <2>3. RunInv' /\ \A v \in Work : job'[v] = "running" => pc'[v] # "idle"
    <3>1. /\ job'[w] = "running" /\ fate'[w] = "live" /\ UNCHANGED fate
          /\ \A v \in Work \ {w} : job'[v] = job[v] /\ pc'[v] = pc[v]
      BY <1>0, <1>1, <2>1, <2>2 DEF RunInv, TypeOK
    <3>2. \A v \in Work : v # w =>
            /\ fate'[v] # "live" => pc'[v] # "idle"
            /\ fate'[v] = "replaced" => job'[v] # "running"
            /\ pc'[v] # "idle" /\ fate'[v] # "replaced" => job'[v] = "running"
            /\ job'[v] = "running" => pc'[v] # "idle"
      <4>1. \A v \in Work : job[v] = "running" => pc[v] # "idle"
        BY <1>0 DEF TypeOK
      <4>2. QED
        BY <1>0, <3>1, <4>1 DEF RunInv
    <3>3. QED
      BY <2>2, <3>1, <3>2 DEF RunInv
  <2>4. UiType'
    BY <1>1, <1>3, <2>2, WorkerMoves
  <2>5. job' \in [Work -> {"none", "queued", "running"}]
    BY <1>0, <2>1 DEF TypeOK
  <2>6. QED
    BY <1>0, <1>3, <2>1, <2>2, <2>3, <2>4, <2>5 DEF TypeInv, TypeOK, CoreType
<1>15. CASE Preempt(w)
  <2>1. /\ job[w] = "running" /\ fate' = [fate EXCEPT ![w] = "preempted"]
        /\ left' \in [Kind -> Nat]
        /\ UNCHANGED <<owners, pc, job, reapply, plan, backend, history>>
    BY <1>0, <1>15, SpendType DEF Preempt, CoreType, Kind
  <2>2. RunInv'
    BY <1>0, <2>1 DEF RunInv, TypeOK
  <2>3. UiType'
    BY <1>3, <2>1, WorkerMoves
  <2>4. fate' \in [Work -> {"live", "preempted", "replaced"}]
    BY <1>0, <2>1 DEF TypeOK
  <2>0. CoreType /\ ShownType /\ QueueType
    BY <1>0, TypeParts
  <2>5. CoreType' /\ ShownType' /\ QueueType'
    <3>1. CoreType'
      BY <2>0, <2>1 DEF CoreType
    <3>2. ShownType'
      BY <1>3, <2>0 DEF ShownType
    <3>3. QueueType'
      BY <1>3, <2>0, <2>1, <2>4 DEF QueueType
    <3>4. QED
      BY <3>1, <3>2, <3>3
  <2>6. QED
    BY <2>2, <2>3, <2>5, TypeParts DEF TypeInv
<1>16. QED
  BY <1>5, <1>6, <1>7, <1>8, <1>9, <1>10, <1>11, <1>12, <1>13, <1>14, <1>15 DEF WorkerStep

LEMMA BackendTypes ==
  ASSUME TypeInv,
         \/ \E b \in Boot : BackendStep(b)
         \/ SessionOpens \/ SessionLapses
  PROVE  TypeInv'
<1>0. TypeOK /\ CoreType
  BY DEF TypeInv, TypeOK, CoreType
<1>1. /\ UNCHANGED <<owners, pc, ui, schedule, setting>>
      /\ mode' = mode \/ mode' = setting
  BY DEF BackendStep, Boots, BootFails, RunReturns, SessionOpens, SessionLapses
<1>2. UiType' /\ RunInv'
  BY <1>1, UiMoves, WorkerMoves
<1>3. left' \in [Kind -> Nat] /\ excused' \in BOOLEAN /\ resident' \in BOOLEAN
  BY <1>0, SpendType DEF BackendStep, Boots, BootFails, RunReturns, SessionOpens, SessionLapses,
     Fault, CoreType, Kind
<1>4. /\ boot' \in [Boot -> {"idle", "boot", "run"}]
      /\ cancelled' \subseteq Boot /\ holder' \in Boot \cup {NoBoot}
      /\ able' \in BOOLEAN /\ session' \in BOOLEAN
  BY <1>0 DEF BackendStep, Boots, BootFails, RunReturns, SessionOpens, SessionLapses, CoreType
<1>5. QED
  BY <1>0, <1>1, <1>2, <1>3, <1>4 DEF TypeInv, TypeOK

LEMMA DeathTypes ==
  ASSUME TypeInv, Dies
  PROVE  TypeInv'
<1>0. TypeOK
  BY DEF TypeInv
<1>1. left' \in [Kind -> Nat] /\ excused' \in BOOLEAN
  BY <1>0, SpendType DEF Dies, TypeOK, Kind
<1>2. pc' = [c \in Caller |-> "idle"] /\ pc' \in [Caller -> Pc]
  BY DEF Dies, Pc
<1>3. /\ \A w \in Work : fate'[w] = "live" /\ job'[w] # "running"
      /\ job' \in [Work -> {"none", "queued", "running"}]
      /\ fate' \in [Work -> {"live", "preempted", "replaced"}]
  BY <1>0 DEF Dies, TypeOK
<1>4. RunInv' /\ UiType'
  BY <1>2, <1>3, WorkIsNotUi DEF RunInv, UiType, UiPc, Releasing
<1>5. plan' \in [Work \cup {"reapply"} -> Mode \cup {""}] /\ boot' \in [Boot -> {"idle", "boot", "run"}]
  BY <1>0 DEF Dies, TypeOK
<1>6. QED
  BY <1>0, <1>1, <1>2, <1>3, <1>4, <1>5 DEF Dies, TypeInv, TypeOK

LEMMA TypeInit == Init => TypeInv
<1> SUFFICES ASSUME Init PROVE TypeInv
  OBVIOUS
<1>1. pc = [c \in Caller |-> "idle"] /\ pc \in [Caller -> Pc]
  BY DEF Init, Pc
<1>2. /\ \A w \in Work : fate[w] = "live" /\ job[w] # "running"
      /\ job \in [Work -> {"none", "queued", "running"}]
      /\ fate \in [Work -> {"live", "preempted", "replaced"}]
  BY DEF Init
<1>3. RunInv /\ UiType
  BY <1>1, <1>2, WorkIsNotUi DEF RunInv, UiType, UiPc, Releasing
<1>4. plan \in [Work \cup {"reapply"} -> Mode \cup {""}] /\ boot \in [Boot -> {"idle", "boot", "run"}]
      /\ left \in [Kind -> Nat]
  BY OwnershipAssumption DEF Init
<1>5. QED
  BY <1>1, <1>2, <1>3, <1>4 DEF Init, TypeInv, TypeOK

LEMMA TypeStep ==
  ASSUME TypeInv, [Next]_vars
  PROVE  TypeInv'
<1>1. CASE UNCHANGED vars
  <2>0. CoreType /\ ShownType /\ QueueType
    BY TypeParts DEF TypeInv
  <2>1. CoreType' /\ ShownType' /\ QueueType'
    <3>1. CoreType'
      BY <1>1, <2>0 DEF vars, CoreType
    <3>2. ShownType'
      BY <1>1, <2>0 DEF vars, ShownType
    <3>3. QueueType'
      BY <1>1, <2>0 DEF vars, QueueType
    <3>4. QED
      BY <3>1, <3>2, <3>3
  <2>2. RunInv' /\ UiType'
    BY <1>1, UiMoves, WorkerMoves DEF vars
  <2>3. QED
    BY <2>1, <2>2, TypeParts DEF TypeInv
<1>2. QED
  BY <1>1, UiTypes, ReapplyTypes, WorkerTypes, BackendTypes, DeathTypes DEF Next

(* Every variable keeps its type. *)
THEOREM TypeCorrect == Spec => []TypeOK
<1>1. TypeInv => TypeOK
  BY DEF TypeInv
<1>2. QED
  BY <1>1, TypeInit, TypeStep, PTL DEF Spec

(***************************************************************************)
(* The claim of the UI.  It is made in HOLD_UI, and released after a grace *)
(* that HOLD_UI calls off: while the timer runs, or a release is under way,*)
(* the activity is hidden or a HOLD_UI is on its way; a service that has   *)
(* called stopSelf has released already.                                   *)
(***************************************************************************)
UiInv ==
  ~excused =>
    /\ pc["ui"] = "idle" /\ hold = "no" /\ service # "dying"
         => ("ui" \in owners <=> visible \/ timer)
    /\ hold # "no" => visible
    /\ visible /\ timer => hold # "no"
    /\ pc["ui"] \in {"claim", "start"} => visible /\ ~timer /\ hold = "no" /\ service = "up"
    /\ pc["ui"] = "start" => "ui" \in owners
    /\ pc["ui"] \in Releasing \cup {"end"} /\ service = "up" => ~visible /\ ~timer /\ hold = "no"
    /\ pc["ui"] \in {"ask", "cancel", "mark", "end"} => "ui" \notin owners
    /\ service = "dying" => /\ "ui" \notin owners /\ ~timer /\ hold # "old"
                            /\ visible => hold = "new"

(* A fault or an overlap is never forgotten. *)
LEMMA ExcusedStays ==
  ASSUME [Next]_vars, excused
  PROVE  excused'
<1>1. ASSUME NEW c \in Caller, NEW next,
             StartBackend(c, next) \/ Claim(c) \/ Release(c, next) PROVE excused'
  BY <1>1 DEF StartBackend, Fault, Claim, Release, Remove, Ask, Cancel, Mark
<1>2. CASE UiStep
  BY <1>1, <1>2, WorkIsNotUi DEF UiStep, HoldUi, HoldUiStart, UiReleases, StopSelf, OnDestroy,
     GraceElapses
<1>3. ASSUME NEW w \in Work, WorkerStep(w) \/ Wake(w) \/ Preempt(w) PROVE excused'
  BY <1>1, <1>3, WorkIsNotUi DEF WorkerStep, WorkerStarts, AwaitReady, Trigger, AwaitClose,
     WorkerReleases, Rearm, RearmEnqueues, WorkerEnds, Wake, Preempt
<1>4. QED
  BY <1>2, <1>3 DEF Next, vars, Resume, Pause, ChangeSetting, ReapplyStep, ReapplyReads,
     ReapplyEnqueues, ReapplyGivesUp, BackendStep, Boots, BootFails, RunReturns, SessionOpens,
     SessionLapses, Dies, Fault

LEMMA UiInvStep ==
  ASSUME TypeInv, UiInv, [Next]_vars
  PROVE  UiInv'
<1> SUFFICES ASSUME ~excused' PROVE UiInv'
  BY DEF UiInv
<1>0. TypeOK /\ CoreType /\ UiType
  BY TypeParts DEF TypeInv
<1>1. ~excused
  BY ExcusedStays
<1>2. CASE /\ UNCHANGED <<visible, timer, hold, service>>
           /\ pc'["ui"] = pc["ui"] /\ ("ui" \in owners' <=> "ui" \in owners)
  BY <1>1, <1>2 DEF UiInv
<1>3. "ui" \in Caller /\ Work \subseteq Caller /\ "ui" \notin Work
      /\ {"idle", "claim", "start", "remove", "end"} \subseteq Pc
  BY WorkIsNotUi DEF Pc
<1>4. ASSUME NEW c \in Caller, NEW next \in Pc, Release(c, next)
      PROVE  /\ owners' = owners \/ owners' = owners \ {c}
             /\ pc[c] = "remove" => owners' = owners \ {c} /\ pc'[c] \in {"ask", next}
             /\ pc[c] # "remove" => owners' = owners
  <2>1. Remove(c, next) => pc'[c] \in {"ask", next}
    BY <1>0 DEF Remove, Goto, CoreType
  <2>2. QED
    BY <1>4, <2>1 DEF Release, Remove, Ask, Cancel, Mark
<1>5. CASE HoldUi
  <2>1. pc'["ui"] = "claim" /\ visible' /\ ~timer' /\ hold' = "no" /\ UNCHANGED owners
    BY <1>0, <1>1, <1>3, <1>5, GotoEffect DEF HoldUi, TimerAfterHold, UiInv, CoreType
  <2>2. service' = "up"
    BY <1>0, <1>1, <1>5 DEF HoldUi, UiInv, TypeOK
  <2>3. QED
    BY <2>1, <2>2 DEF UiInv, Releasing
<1>6. CASE Claim("ui") /\ UNCHANGED <<ui, schedule, settings>>
  <2>1. /\ pc["ui"] = "claim" /\ pc'["ui"] = "start" /\ owners' = owners \cup {"ui"}
    BY <1>0, <1>3, <1>6, GotoEffect DEF Claim, CoreType
  <2>2. QED
    BY <1>1, <1>6, <2>1 DEF UiInv, Releasing
<1>7. CASE HoldUiStart
  <2>1. /\ pc["ui"] = "start" /\ pc'["ui"] = "idle"
        /\ UNCHANGED <<owners, visible, timer, hold, service>>
    BY <1>0, <1>3, <1>7, GotoEffect DEF HoldUiStart, StartBackend, CoreType
  <2>2. QED
    BY <1>1, <2>1 DEF UiInv, Releasing
<1>8. CASE UiReleases
  <2>1. PICK next \in {"idle", "end"} :
          Release("ui", next) /\ next = IF service = "dying" THEN "idle" ELSE "end"
    BY <1>8 DEF UiReleases
  <2>2. /\ pc["ui"] \in Releasing
        /\ pc'["ui"] \in {"ask", "cancel", "mark", next}
    BY <1>0, <1>3, <2>1, GotoEffect
       DEF Release, Remove, Ask, Cancel, Mark, Releasing, Goto, CoreType
  <2>3. /\ "ui" \notin owners' 
        /\ owners' = owners \/ owners' = owners \ {"ui"}
    BY <1>1, <1>3, <1>4, <2>1, <2>2 DEF UiInv, Releasing
  <2>4. /\ service' = IF service = "dying" /\ pc'["ui"] = "idle" THEN "none" ELSE service
        /\ UNCHANGED <<visible, timer, hold>>
    BY <1>8 DEF UiReleases
  <2>5. service \in {"up", "dying"}
    BY <1>0, <2>2 DEF UiType, Releasing, TypeOK
  <2>6. QED
    BY <1>1, <2>1, <2>2, <2>3, <2>4, <2>5 DEF UiInv, Releasing
<1>9. CASE StopSelf
  <2>1. pc["ui"] = "end" /\ pc'["ui"] = "idle" /\ service' = "dying" /\ service = "up"
    BY <1>0, <1>3, <1>9, GotoEffect DEF StopSelf, CoreType, UiType
  <2>2. QED
    BY <1>1, <1>9, <2>1 DEF StopSelf, UiInv, Releasing
<1>10. CASE OnDestroy
  <2>1. pc["ui"] = "idle" /\ pc'["ui"] = "remove" /\ service' = "dying"
    BY <1>0, <1>3, <1>10, GotoEffect DEF OnDestroy, CoreType, Main
  <2>2. QED
    BY <1>1, <1>10, <2>1 DEF OnDestroy, UiInv, Releasing
<1>11. CASE GraceElapses
  <2>1. /\ pc["ui"] = "idle" /\ pc'["ui"] = "remove" /\ timer /\ hold = "no"
        /\ UNCHANGED <<owners, visible, hold, service>> /\ ~timer' /\ service = "up"
    BY <1>0, <1>3, <1>11, GotoEffect DEF GraceElapses, CoreType, Main
  <2>2. QED
    BY <1>1, <2>1 DEF UiInv, Releasing
<1>12. CASE Resume
  BY <1>1, <1>12 DEF Resume, Main, UiInv, Releasing
<1>13. CASE Pause
  BY <1>1, <1>13 DEF Pause, Main, UiInv, Releasing
<1>14. CASE ChangeSetting \/ ReapplyStep
  BY <1>2, <1>14 DEF ChangeSetting, ReapplyStep, ReapplyReads, ReapplyEnqueues, ReapplyGivesUp
<1>15. ASSUME NEW w \in Work, WorkerStep(w) \/ Wake(w) \/ Preempt(w) PROVE UiInv'
  <2>1. UNCHANGED <<visible, timer, hold, service>>
    BY <1>15 DEF WorkerStep, WorkerOnly, WorkerStarts, AwaitReady, Trigger, AwaitClose,
       WorkerReleases, Rearm, RearmEnqueues, WorkerEnds, Wake, Preempt
  <2>2. ASSUME NEW to, Goto(w, to) PROVE pc'["ui"] = pc["ui"]
    BY <1>0, <1>3, <2>2 DEF Goto, CoreType
  <2>3. ASSUME NEW next, Release(w, next) PROVE pc'["ui"] = pc["ui"]
    BY <2>2, <2>3 DEF Release, Remove, Ask, Cancel, Mark
  <2>4. pc'["ui"] = pc["ui"]
    BY <1>15, <2>2, <2>3 DEF WorkerStep, Claim, WorkerStarts, StartBackend, AwaitReady, Trigger,
       AwaitClose, WorkerReleases, Rearm, RearmEnqueues, WorkerEnds, Wake, Preempt
  <2>5. owners' = owners \/ owners' = owners \cup {w} \/ owners' = owners \ {w}
    BY <1>15 DEF WorkerStep, Claim, WorkerStarts, StartBackend, AwaitReady, Trigger, AwaitClose,
       WorkerReleases, Release, Remove, Ask, Cancel, Mark, Rearm, RearmEnqueues, WorkerEnds,
       Wake, Preempt
  <2>6. QED
    BY <1>2, <1>3, <2>1, <2>4, <2>5
<1>16. CASE (\E b \in Boot : BackendStep(b)) \/ SessionOpens \/ SessionLapses
  BY <1>2, <1>16 DEF BackendStep, Boots, BootFails, RunReturns, SessionOpens, SessionLapses
<1>17. CASE Dies
  BY <1>1, <1>3, <1>17 DEF Dies, UiInv, Releasing
<1>18. CASE UNCHANGED vars
  BY <1>2, <1>18 DEF vars
<1>19. QED
  BY <1>5, <1>6, <1>7, <1>8, <1>9, <1>10, <1>11, <1>12, <1>13, <1>14, <1>15, <1>16, <1>17,
     <1>18 DEF Next, UiStep

LEMMA UiInit == Init => UiInv
BY WorkIsNotUi DEF Init, UiInv, Releasing

(* The UI owns the backend exactly while it is visible and in the grace afterwards. *)
THEOREM UiHoldsWhileShown == Spec => []UiHolds
<1>1. TypeInv /\ UiInv => UiHolds
  <2> SUFFICES ASSUME TypeInv, UiInv, Settled, ~excused
               PROVE  "ui" \in owners <=> visible \/ timer
    BY DEF UiHolds
  <2>1. pc["ui"] = "idle"
    BY WorkIsNotUi DEF Settled, TypeInv, UiType, UiPc
  <2>2. QED
    BY <2>1 DEF UiInv, Settled
<1>2. QED
  BY <1>1, TypeInit, TypeStep, UiInit, UiInvStep, PTL DEF Spec

(***************************************************************************)
(* The backend and its owners.  Without a fault there is one goroutine of  *)
(* mobile.Start at most, and whoever has claimed and passed the start has  *)
(* it; it is taken away only when there is no owner, and then by somebody  *)
(* who goes on to stop it.                                                 *)
(***************************************************************************)
Held == {"start", "ready", "seed", "hold"}

Claimed ==
  /\ \A c \in Caller : pc[c] \in Held => c \in owners
  /\ ~excused /\ Stopping => owners = {}

Started ==
  ~excused =>
    /\ \A b, c \in Boot : boot[b] # "idle" /\ boot[c] # "idle" => b = c
    /\ \A b \in Boot : boot[b] # "idle" <=> holder = b \/ b \in cancelled
    /\ holder \notin cancelled
    /\ \A c \in Caller : c \in owners => pc[c] = "start" \/ holder # NoBoot
    /\ \A c \in Caller : pc[c] = "mark" => holder = NoBoot
    /\ \A b \in Boot : holder = b /\ boot[b] = "run" => able /\ mode # ""
    /\ owners = {} => resident \/ Stopping \/ holder = NoBoot

BackendInv == Claimed /\ Started

Decisive == {"start", "ask", "cancel", "mark"}

(* A step that concerns neither the backend nor who owns it. *)
LEMMA AsideBackend ==
  ASSUME BackendInv, UNCHANGED <<owners, boot, cancelled, holder, able, resident>>,
         excused => excused', mode # "" => mode' # "",
         \A c \in Caller :
           \/ pc'[c] = pc[c]
           \/ /\ pc[c] \notin Decisive /\ pc'[c] \notin Decisive
              /\ pc'[c] \in Held => pc[c] \in Held
  PROVE  BackendInv'
<1>1. UNCHANGED Stopping
  BY DEF Stopping, Decisive
<1>2. Claimed'
  BY <1>1 DEF BackendInv, Claimed
<1>3. Started'
  BY <1>1 DEF BackendInv, Started, Decisive
<1>4. QED
  BY <1>2, <1>3 DEF BackendInv

LEMMA ClaimKeeps ==
  ASSUME TypeInv, BackendInv, NEW c \in Caller, Claim(c), UNCHANGED mode
  PROVE  BackendInv'
<1>0. CoreType
  BY TypeParts DEF TypeInv
<1>1. /\ pc[c] = "claim" /\ pc'[c] = "start" /\ \A d \in Caller \ {c} : pc'[d] = pc[d]
      /\ owners' = owners \cup {c} /\ UNCHANGED <<boot, cancelled, holder, able>>
      /\ excused' = (excused \/ Stopping)
  BY <1>0 DEF Claim, Goto, CoreType
<1>2. ~excused' => ~excused /\ ~Stopping /\ ~Stopping'
  BY <1>1 DEF Stopping
<1>3. Claimed'
  BY <1>1, <1>2 DEF BackendInv, Claimed, Held
<1>4. Started'
  BY <1>1, <1>2 DEF BackendInv, Started
<1>5. QED
  BY <1>3, <1>4 DEF BackendInv

LEMMA StartKeeps ==
  ASSUME TypeInv, BackendInv, NEW c \in Caller, NEW next \in {"idle", "ready"},
         StartBackend(c, next), UNCHANGED mode
  PROVE  BackendInv'
<1>0. CoreType
  BY TypeParts DEF TypeInv
<1>1. /\ pc[c] = "start" /\ pc'[c] = next /\ \A d \in Caller \ {c} : pc'[d] = pc[d]
      /\ UNCHANGED <<owners, cancelled, able>> /\ (excused => excused')
  BY <1>0 DEF StartBackend, Fault, Goto, CoreType
<1>2. c \in owners
  BY <1>1 DEF BackendInv, Claimed, Held
<1>3. ~excused' => ~excused /\ ~Stopping /\ ~Stopping'
  BY <1>1, <1>2 DEF BackendInv, Claimed, Stopping
<1>4. Claimed'
  BY <1>1, <1>3 DEF BackendInv, Claimed, Held
<1>5. ASSUME ~excused' PROVE Started'
  <2>1. \A d \in Caller : pc'[d] # "mark"
    BY <1>3, <1>5 DEF Stopping
  <2>2. CASE IsRunning
    <3>1. UNCHANGED <<boot, holder>>
      BY <1>5, <2>2 DEF StartBackend, Fault
    <3>2. holder # NoBoot
      BY <2>2 DEF IsRunning
    <3>3. QED
      BY <1>1, <1>2, <1>3, <1>5, <2>1, <3>1, <3>2 DEF BackendInv, Started
  <2>3. CASE ~IsRunning
    <3>1. PICK b \in Boot : boot' = [boot EXCEPT ![b] = "boot"] /\ holder' = b
      BY <1>5, <2>3 DEF StartBackend, Fault
    <3>2. \A d \in Boot : boot[d] = "idle"
      BY <1>5, <2>3 DEF StartBackend, Fault
    <3>3. \A d \in Boot : d \notin cancelled
      BY <1>3, <1>5, <3>2 DEF BackendInv, Started
    <3>4. /\ boot'[b] = "boot" /\ \A d \in Boot \ {b} : boot'[d] = "idle"
      BY <1>0, <3>1, <3>2 DEF CoreType
    <3>5. b # NoBoot
      BY OwnershipAssumption
    <3>6. QED
      BY <1>1, <1>2, <2>1, <3>1, <3>3, <3>4, <3>5 DEF Started
  <2>4. QED
    BY <2>2, <2>3
<1>6. QED
  BY <1>4, <1>5 DEF BackendInv, Started

LEMMA ReleaseKeeps ==
  ASSUME TypeInv, BackendInv, NEW c \in Caller, NEW next \in {"idle", "end", "rearm"},
         Release(c, next), UNCHANGED mode
  PROVE  BackendInv'
<1>0. CoreType
  BY TypeParts DEF TypeInv
<1>1. UNCHANGED <<boot, excused>>
  BY DEF Release, Remove, Ask, Cancel, Mark
<1>2. CASE Remove(c, next)
  <2>1. /\ pc[c] = "remove" /\ \A d \in Caller \ {c} : pc'[d] = pc[d]
        /\ pc'[c] = IF owners' = {} THEN "ask" ELSE next
        /\ owners' = owners \ {c} /\ UNCHANGED <<cancelled, holder, able, resident>>
    BY <1>0, <1>2 DEF Remove, Goto, CoreType, Last
  <2>2. owners' = {} => Stopping'
    BY <2>1 DEF Stopping
  <2>3. Stopping' => Stopping \/ owners' = {}
    BY <2>1 DEF Stopping
  <2>4. Claimed'
    BY <1>1, <2>1, <2>3 DEF BackendInv, Claimed, Held
  <2>5. Started'
    BY <1>1, <2>1, <2>2 DEF BackendInv, Started
  <2>6. QED
    BY <2>4, <2>5 DEF BackendInv
<1>3. CASE Ask(c, next)
  <2>1. /\ pc[c] = "ask" /\ \A d \in Caller \ {c} : pc'[d] = pc[d]
        /\ pc'[c] = IF session THEN next ELSE "cancel"
        /\ resident' = session /\ UNCHANGED <<owners, cancelled, holder, able>>
    BY <1>0, <1>3 DEF Ask, Goto, CoreType, ShouldStayResident
  <2>2. Stopping /\ (Stopping' \/ resident')
    BY <1>0, <2>1 DEF Stopping, CoreType
  <2>3. Claimed'
    BY <1>1, <2>1, <2>2 DEF BackendInv, Claimed, Held
  <2>4. Started'
    BY <1>1, <2>1, <2>2 DEF BackendInv, Started
  <2>5. QED
    BY <2>3, <2>4 DEF BackendInv
<1>4. CASE Cancel(c)
  <2>1. /\ pc[c] = "cancel" /\ pc'[c] = "mark" /\ \A d \in Caller \ {c} : pc'[d] = pc[d]
        /\ cancelled' = cancelled \cup ({holder} \ {NoBoot}) /\ holder' = NoBoot
        /\ UNCHANGED <<owners, able, resident>>
    BY <1>0, <1>4 DEF Cancel, Goto, CoreType
  <2>2. Stopping
    BY <2>1 DEF Stopping
  <2>3. Claimed'
    BY <1>1, <2>1, <2>2 DEF BackendInv, Claimed, Held
  <2>4. Started'
    <3>1. NoBoot \notin Boot /\ cancelled \subseteq Boot
      BY <1>0, OwnershipAssumption DEF CoreType
    <3>2. ~excused => owners = {}
      BY <2>2 DEF BackendInv, Claimed
    <3>3. QED
      BY <1>1, <2>1, <3>1, <3>2 DEF BackendInv, Started
  <2>5. QED
    BY <2>3, <2>4 DEF BackendInv
<1>5. CASE Mark(c, next)
  <2>1. /\ pc[c] = "mark" /\ pc'[c] = next /\ \A d \in Caller \ {c} : pc'[d] = pc[d]
        /\ UNCHANGED <<owners, cancelled, holder, resident>>
    BY <1>0, <1>5 DEF Mark, Goto, CoreType
  <2>2. Stopping
    BY <2>1 DEF Stopping
  <2>3. Claimed'
    BY <1>1, <2>1, <2>2 DEF BackendInv, Claimed, Held
  <2>4. ~excused => owners = {} /\ holder = NoBoot
    BY <2>1, <2>2 DEF BackendInv, Claimed, Started
  <2>5. NoBoot \notin Boot
    BY OwnershipAssumption
  <2>6. Started'
    BY <1>1, <2>1, <2>4, <2>5 DEF BackendInv, Started
  <2>7. QED
    BY <2>3, <2>6 DEF BackendInv
<1>6. QED
  BY <1>2, <1>3, <1>4, <1>5 DEF Release

LEMMA GoroutineKeeps ==
  ASSUME TypeInv, BackendInv, NEW b \in Boot, BackendStep(b)
  PROVE  BackendInv'
<1>0. CoreType /\ QueueType
  BY TypeParts DEF TypeInv
<1>1. UNCHANGED <<owners, pc, resident>> /\ (excused => excused') /\ UNCHANGED Stopping
  BY DEF BackendStep, Boots, BootFails, RunReturns, Fault, Stopping
<1>2. Claimed'
  BY <1>1 DEF BackendInv, Claimed
<1>3. CASE Boots(b)
  <2>1. setting # ""
    BY <1>0, OwnershipAssumption DEF QueueType
  <2>2. /\ boot[b] = "boot" /\ boot'[b] = "run" /\ \A d \in Boot \ {b} : boot'[d] = boot[d]
        /\ able' /\ mode' # "" /\ UNCHANGED <<cancelled, holder>>
    BY <1>0, <1>3, <2>1 DEF Boots, CoreType
  <2>3. QED
    BY <1>1, <1>2, <2>2 DEF BackendInv, Started
<1>4. CASE BootFails(b)
  BY <1>2, <1>4 DEF BootFails, Fault, BackendInv, Started
<1>5. CASE RunReturns(b)
  <2>1. /\ boot[b] = "run" /\ boot'[b] = "idle" /\ \A d \in Boot \ {b} : boot'[d] = boot[d]
        /\ cancelled' = cancelled \ {b} /\ holder' = NoBoot /\ UNCHANGED <<able, mode>>
        /\ ~excused' => b \in cancelled
    BY <1>0, <1>5 DEF RunReturns, Fault, CoreType
  <2>2. ~excused' => holder = NoBoot
    BY <1>0, <1>1, <2>1 DEF BackendInv, Started, CoreType
  <2>3. NoBoot \notin Boot /\ cancelled \subseteq Boot
    BY <1>0, OwnershipAssumption DEF CoreType
  <2>4. QED
    BY <1>1, <1>2, <2>1, <2>2, <2>3 DEF BackendInv, Started
<1>6. QED
  BY <1>3, <1>4, <1>5 DEF BackendStep

LEMMA BackendInvStep ==
  ASSUME TypeInv, BackendInv, [Next]_vars
  PROVE  BackendInv'
<1>0. CoreType /\ QueueType /\ (excused => excused')
  BY TypeParts, ExcusedStays DEF TypeInv
<1>1. "ui" \in Caller /\ Work \subseteq Caller
  BY WorkIsNotUi
<1>2. ASSUME UNCHANGED <<owners, pc, boot, cancelled, holder, able, resident>>,
             mode # "" => mode' # ""
      PROVE  BackendInv'
  BY <1>0, <1>2, AsideBackend
<1>3. ASSUME NEW c \in Caller, NEW to, Goto(c, to), pc[c] \notin Decisive, to \notin Decisive,
             to \in Held => pc[c] \in Held,
             UNCHANGED <<owners, boot, cancelled, holder, able, resident, mode>>
      PROVE  BackendInv'
  <2>1. pc'[c] = to /\ \A d \in Caller \ {c} : pc'[d] = pc[d]
    BY <1>0, <1>3 DEF Goto, CoreType
  <2>2. QED
    BY <1>0, <1>3, <2>1, AsideBackend
<1>4. CASE UiStep
  <2>1. CASE HoldUi \/ StopSelf \/ OnDestroy \/ GraceElapses
    BY <1>1, <1>3, <2>1 DEF HoldUi, StopSelf, OnDestroy, GraceElapses, Main, Decisive, Held
  <2>2. CASE HoldUiStart
    BY <1>1, <2>2, StartKeeps DEF HoldUiStart
  <2>3. CASE UiReleases
    BY <1>1, <2>3, ReleaseKeeps DEF UiReleases
  <2>4. CASE Claim("ui") /\ UNCHANGED <<ui, schedule, settings>>
    BY <1>1, <2>4, ClaimKeeps
  <2>5. QED
    BY <1>4, <2>1, <2>2, <2>3, <2>4 DEF UiStep
<1>5. CASE Resume \/ Pause \/ ChangeSetting
  BY <1>2, <1>5 DEF Resume, Pause, ChangeSetting
<1>6. CASE ReapplyStep
  <2>1. mode # "" => mode' # ""
    BY <1>0, <1>6, OwnershipAssumption DEF ReapplyStep, ReapplyReads, ReapplyEnqueues,
       ReapplyGivesUp, QueueType
  <2>2. QED
    BY <1>2, <1>6, <2>1 DEF ReapplyStep, ReapplyReads, ReapplyEnqueues, ReapplyGivesUp
<1>7. ASSUME NEW w \in Work, WorkerStep(w) \/ Wake(w) \/ Preempt(w) PROVE BackendInv'
  <2>1. CASE Claim(w) /\ UNCHANGED <<ui, schedule, settings>>
    BY <1>1, <2>1, ClaimKeeps
  <2>2. CASE WorkerStarts(w)
    BY <1>1, <2>2, StartKeeps DEF WorkerStarts, WorkerOnly
  <2>3. CASE WorkerReleases(w)
    BY <1>1, <2>3, ReleaseKeeps DEF WorkerReleases, WorkerOnly
  <2>4. CASE AwaitReady(w) \/ Trigger(w) \/ AwaitClose(w)
    BY <1>1, <1>3, <2>4 DEF AwaitReady, Trigger, AwaitClose, WorkerOnly, Decisive, Held, Finally
  <2>5. CASE Rearm(w) \/ RearmEnqueues(w) \/ WorkerEnds(w) \/ Wake(w)
    BY <1>1, <1>3, <2>5 DEF Rearm, RearmEnqueues, WorkerEnds, Wake, WorkerOnly, Decisive, Held
  <2>6. CASE Preempt(w)
    BY <1>2, <2>6 DEF Preempt, WorkerOnly
  <2>7. QED
    BY <1>7, <2>1, <2>2, <2>3, <2>4, <2>5, <2>6 DEF WorkerStep
<1>8. CASE \E b \in Boot : BackendStep(b)
  BY <1>8, GoroutineKeeps
<1>9. CASE SessionOpens \/ SessionLapses \/ UNCHANGED vars
  BY <1>2, <1>9 DEF SessionOpens, SessionLapses, vars
<1>10. CASE Dies
  <2>1. /\ \A c \in Caller : pc'[c] = "idle"
        /\ \A b \in Boot : boot'[b] = "idle"
        /\ owners' = {} /\ holder' = NoBoot /\ cancelled' = {}
    BY <1>10 DEF Dies
  <2>2. Claimed'
    BY <2>1 DEF Claimed, Held
  <2>3. NoBoot \notin Boot
    BY OwnershipAssumption
  <2>4. Started'
    BY <2>1, <2>3 DEF Started
  <2>5. QED
    BY <2>2, <2>4 DEF BackendInv
<1>11. QED
  BY <1>4, <1>5, <1>6, <1>7, <1>8, <1>9, <1>10 DEF Next

LEMMA BackendInit == Init => BackendInv
<1> SUFFICES ASSUME Init PROVE BackendInv
  OBVIOUS
<1>1. /\ \A c \in Caller : pc[c] = "idle"
      /\ \A b \in Boot : boot[b] = "idle"
      /\ owners = {} /\ holder = NoBoot /\ cancelled = {} /\ NoBoot \notin Boot
  BY OwnershipAssumption DEF Init
<1>2. Claimed
  BY <1>1 DEF Claimed, Held
<1>3. Started
  BY <1>1 DEF Started
<1>4. QED
  BY <1>2, <1>3 DEF BackendInv

(* Whoever owns the backend has one, with Syncthing under the gate's control. *)
THEOREM OwnersAreServed == Spec => []OwnersServed
<1>1. TypeInv /\ BackendInv => OwnersServed
  <2> SUFFICES ASSUME TypeInv, BackendInv, Settled, ~excused, owners # {}
               PROVE  \E b \in Boot : Serves(b)
    BY DEF OwnersServed
  <2>0. CoreType
    BY TypeParts DEF TypeInv
  <2>1. PICK c \in Caller : c \in owners
    BY <2>0 DEF CoreType
  <2>2. holder # NoBoot
    BY <2>1 DEF BackendInv, Started, Settled
  <2>3. holder \in Boot /\ boot[holder] \notin {"idle", "boot"}
    BY <2>0, <2>2 DEF BackendInv, Started, Settled, CoreType
  <2>4. boot[holder] = "run"
    BY <2>0, <2>3 DEF CoreType
  <2>5. QED
    BY <2>3, <2>4 DEF BackendInv, Started, Serves
<1>2. QED
  BY <1>1, TypeInit, TypeStep, BackendInit, BackendInvStep, PTL DEF Spec

(* A backend that nobody owns is gone, to the last goroutine, unless at the last
   release a sync had not finished.                                               *)
THEOREM NobodyLeftBehind == Spec => []NoneLeftBehind
<1>1. TypeInv /\ BackendInv => NoneLeftBehind
  <2> SUFFICES ASSUME TypeInv, BackendInv, Settled, ~excused, owners = {}, ~resident
               PROVE  holder = NoBoot /\ \A b \in Boot : boot[b] = "idle"
    BY DEF NoneLeftBehind
  <2>1. ~Stopping
    BY DEF Settled, Stopping
  <2>2. holder = NoBoot
    BY <2>1 DEF BackendInv, Started
  <2>3. QED
    BY <2>2, OwnershipAssumption DEF BackendInv, Started, Settled
<1>2. QED
  BY <1>1, TypeInit, TypeStep, BackendInit, BackendInvStep, PTL DEF Spec

(***************************************************************************)
(* The plan.  A run that was not stopped early has waited for its backend, *)
(* and so for the gate to load its settings; what is enqueued then follows *)
(* the mode in force, unless a reapply is due that will put it right.      *)
(***************************************************************************)
Known ==
  ~excused =>
    \A w \in Work :
      /\ pc[w] = "hold" /\ mode = "" => session
      /\ fate[w] = "live" /\ pc[w] \in Releasing \cup {"rearm"} => mode # ""

Paths ==
  /\ \A w \in Work : pc[w] \in {"rearm", "enqueue"} => w = "scheduled"
  /\ \A w \in Work : pc[w] = "enqueue" => plan[w] = "scheduled"
  /\ reapply # "queued" /\ mode # "" => mode = setting

Queued ==
  /\ \A w \in Work : job[w] # "none" <=> w \in PlanWorks(setting)
  /\ pc["scheduled"] = "end" => fate["scheduled"] # "live"

Planned ==
  ~excused => /\ reapply = "enqueue" => plan["reapply"] = setting
              /\ reapply = "none" => Queued

(* Once no goroutine boots, an owner's backend has loaded the settings. *)
LEMMA OwnersKnow ==
  ASSUME TypeInv, BackendInv, ~excused, NEW w \in Work, w \in owners, pc[w] # "start",
         ~Booting
  PROVE  mode # ""
<1>1. CoreType /\ w \in Caller
  BY TypeParts, WorkIsNotUi DEF TypeInv
<1>2. holder \in Boot
  BY <1>1 DEF BackendInv, Started, CoreType
<1>3. boot[holder] = "run"
  BY <1>1, <1>2 DEF BackendInv, Started, CoreType, Booting
<1>4. QED
  BY <1>2, <1>3 DEF BackendInv, Started

(* Where a release leads, and what it changes. *)
LEMMA ReleaseEffect ==
  ASSUME CoreType, NEW c \in Caller, NEW next \in Pc, Release(c, next)
  PROVE  /\ \A d \in Caller \ {c} : pc'[d] = pc[d]
         /\ pc[c] \in Releasing
         /\ pc'[c] = next \/ pc'[c] \in {"ask", "cancel", "mark"}
         /\ session' = session \/ (session' = FALSE /\ Stopping)
<1>1. CASE Remove(c, next)
  BY <1>1 DEF Remove, Goto, CoreType, Releasing
<1>2. CASE Ask(c, next)
  BY <1>2 DEF Ask, Goto, CoreType, Releasing
<1>3. CASE Cancel(c)
  BY <1>3 DEF Cancel, Goto, CoreType, Releasing
<1>4. CASE Mark(c, next)
  BY <1>4 DEF Mark, Goto, CoreType, Releasing, Stopping
<1>5. QED
  BY <1>1, <1>2, <1>3, <1>4 DEF Release

LEMMA KnownStep ==
  ASSUME TypeInv, BackendInv, Known, [Next]_vars
  PROVE  Known'
<1> SUFFICES ASSUME ~excused' PROVE Known'
  BY DEF Known
<1>0. CoreType /\ QueueType /\ ~excused
  BY TypeParts, ExcusedStays DEF TypeInv
<1>1. "ui" \in Caller /\ Work \subseteq Caller /\ "ui" \notin Work
      /\ {"idle", "end", "rearm"} \subseteq Pc
  BY WorkIsNotUi DEF Pc
<1>2. CASE /\ session => session'
           /\ mode # "" => mode' # ""
           /\ \A w \in Work :
                /\ pc'[w] = pc[w] \/ pc'[w] \notin Releasing \cup {"hold", "rearm"}
                /\ fate'[w] = "live" => fate[w] = "live" \/ pc'[w] = "idle"
  BY <1>0, <1>2 DEF Known, Releasing
<1>3. ASSUME NEW c \in Caller, NEW next \in {"idle", "end", "rearm"}, Release(c, next),
             UNCHANGED <<fate, mode>>
      PROVE  Known'
  <2>1. session' = session \/ \A w \in Work : pc[w] # "hold"
    BY <1>0, <1>1, <1>3, ReleaseEffect DEF BackendInv, Claimed, Held
  <2>2. /\ \A d \in Caller \ {c} : pc'[d] = pc[d] 
        /\ pc[c] \in Releasing /\ pc'[c] \in {next, "ask", "cancel", "mark"}
    BY <1>0, <1>1, <1>3, ReleaseEffect
  <2>3. ASSUME NEW w \in Work
        PROVE  /\ pc'[w] = "hold" /\ mode' = "" => session'
               /\ fate'[w] = "live" /\ pc'[w] \in Releasing \cup {"rearm"} => mode' # ""
    <3>1. /\ pc[w] = "hold" /\ mode = "" => session
          /\ fate[w] = "live" /\ pc[w] \in Releasing \cup {"rearm"} => mode # ""
      BY <1>0, <2>3 DEF Known
    <3>2. fate'[w] = fate[w] /\ mode' = mode
      BY <1>3
    <3>3. CASE w = c
      BY <1>3, <2>2, <3>1, <3>2, <3>3 DEF Releasing
    <3>4. CASE w # c
      <4>1. pc'[w] = pc[w]
        BY <1>1, <2>2, <2>3, <3>4
      <4>2. QED
        BY <2>1, <2>3, <3>1, <3>2, <4>1
    <3>5. QED
      BY <3>3, <3>4
  <2>4. QED
    BY <2>3 DEF Known
<1>4. ASSUME NEW c \in Caller, NEW to, Goto(c, to), to \notin Releasing \cup {"hold", "rearm"},
             session => session', UNCHANGED mode,
             \A w \in Work : fate'[w] = "live" => fate[w] = "live" \/ (w = c /\ to = "idle")
      PROVE  Known'
  <2>1. pc'[c] = to /\ \A d \in Caller \ {c} : pc'[d] = pc[d]
    BY <1>0, <1>4 DEF Goto, CoreType
  <2>2. QED
    BY <1>1, <1>2, <1>4, <2>1
<1>5. CASE UiStep
  <2>1. CASE HoldUi \/ StopSelf \/ (Claim("ui") /\ UNCHANGED <<ui, schedule, settings>>)
    BY <1>1, <1>4, <2>1 DEF HoldUi, StopSelf, Claim, Releasing
  <2>2. CASE HoldUiStart
    BY <1>1, <1>4, <2>2 DEF HoldUiStart, StartBackend, Releasing
  <2>3. CASE UiReleases
    BY <1>1, <1>3, <2>3 DEF UiReleases
  <2>4. CASE OnDestroy \/ GraceElapses
    <3>1. \A w \in Work : pc'[w] = pc[w]
      BY <1>0, <1>1, <2>4 DEF OnDestroy, GraceElapses, Goto, CoreType
    <3>2. QED
      BY <1>2, <2>4, <3>1 DEF OnDestroy, GraceElapses
  <2>5. QED
    BY <1>5, <2>1, <2>2, <2>3, <2>4 DEF UiStep
<1>6. CASE Resume \/ Pause \/ ChangeSetting
  BY <1>2, <1>6 DEF Resume, Pause, ChangeSetting
<1>7. CASE ReapplyStep
  <2>1. mode # "" => mode' # ""
    BY <1>0, <1>7, OwnershipAssumption DEF ReapplyStep, ReapplyReads, ReapplyEnqueues,
       ReapplyGivesUp, QueueType
  <2>2. \A w \in Work : fate'[w] = "live" => fate[w] = "live"
    BY <1>7, EnqueueType DEF ReapplyStep, ReapplyReads, ReapplyEnqueues, ReapplyGivesUp
  <2>3. UNCHANGED <<pc, session>>
    BY <1>7 DEF ReapplyStep, ReapplyReads, ReapplyEnqueues, ReapplyGivesUp
  <2>4. QED
    BY <1>2, <2>1, <2>2, <2>3
<1>8. ASSUME NEW w \in Work, WorkerStep(w) \/ Wake(w) \/ Preempt(w) PROVE Known'
  <2>1. CASE \/ Claim(w) /\ UNCHANGED <<ui, schedule, settings>>
             \/ WorkerStarts(w) \/ Wake(w)
    BY <1>1, <1>4, <2>1 DEF Claim, WorkerStarts, StartBackend, Wake, WorkerOnly, Releasing
  <2>2. CASE AwaitReady(w)
    <3>1. CASE Goto(w, "seed")
      BY <1>1, <1>4, <2>2, <3>1 DEF AwaitReady, WorkerOnly, Releasing
    <3>2. CASE Goto(w, "remove") /\ fate[w] # "live"
      <4>1. pc'[w] = "remove" /\ \A d \in Caller \ {w} : pc'[d] = pc[d]
        BY <1>0, <1>1, <3>2 DEF Goto, CoreType
      <4>2. UNCHANGED <<session, mode, fate>>
        BY <2>2 DEF AwaitReady, WorkerOnly
      <4>3. QED
        BY <1>0, <1>1, <3>2, <4>1, <4>2 DEF Known
    <3>3. IsRunning
      BY <1>0, <1>1, <2>2 DEF AwaitReady, BackendInv, Claimed, Started, Held, IsRunning
    <3>4. QED
      BY <2>2, <3>1, <3>2, <3>3 DEF AwaitReady, Finally
  <2>3. CASE Trigger(w)
    <3>1. /\ pc'[w] = "hold" \/ (pc'[w] = "remove" /\ fate[w] # "live")
          /\ \A d \in Caller \ {w} : pc'[d] = pc[d]
      BY <1>0, <1>1, <2>3 DEF Trigger, Goto, CoreType, Finally
    <3>2. /\ session => session' 
          /\ pc'[w] = "hold" /\ mode = "" => session'
          /\ UNCHANGED <<mode, fate>>
      BY <1>0, <1>1, <2>3 DEF Trigger, WorkerOnly, Goto, CoreType, Finally
    <3>3. QED
      BY <1>0, <1>1, <3>1, <3>2 DEF Known, Releasing
  <2>4. CASE AwaitClose(w)
    <3>1. /\ pc[w] = "hold" /\ pc'[w] = "remove" /\ \A d \in Caller \ {w} : pc'[d] = pc[d]
          /\ UNCHANGED <<session, mode, fate>>
      BY <1>0, <1>1, <2>4 DEF AwaitClose, WorkerOnly, Goto, CoreType, Finally
    <3>2. w \in owners
      BY <1>1, <3>1 DEF BackendInv, Claimed, Held
    <3>3. fate[w] = "live" => mode # ""
      BY <1>0, <2>4, <3>1, <3>2, OwnersKnow DEF AwaitClose, ShouldStayResident, Known
    <3>4. QED
      BY <1>0, <1>1, <3>1, <3>3 DEF Known
  <2>5. CASE WorkerReleases(w)
    BY <1>1, <1>3, <2>5 DEF WorkerReleases, WorkerOnly
  <2>6. CASE Rearm(w)
    BY <1>1, <1>4, <2>6 DEF Rearm, WorkerOnly, Releasing
  <2>7. CASE RearmEnqueues(w)
    <3>1. \A v \in Work : fate'[v] = "live" => fate[v] = "live"
      BY <2>7, EnqueueType DEF RearmEnqueues
    <3>2. QED
      BY <1>1, <1>4, <2>7, <3>1 DEF RearmEnqueues, WorkerOnly, Releasing
  <2>8. CASE WorkerEnds(w)
    <3>1. \A v \in Work : fate'[v] = "live" => fate[v] = "live" \/ v = w
      BY <1>0, <2>8 DEF WorkerEnds, QueueType
    <3>2. QED
      BY <1>1, <1>4, <2>8, <3>1 DEF WorkerEnds, WorkerOnly, Releasing
  <2>9. CASE Preempt(w)
    <3>1. \A v \in Work : fate'[v] = "live" => fate[v] = "live"
      BY <1>0, <2>9 DEF Preempt, QueueType
    <3>2. QED
      BY <1>2, <2>9, <3>1 DEF Preempt, WorkerOnly
  <2>10. QED
    BY <1>8, <2>1, <2>2, <2>3, <2>4, <2>5, <2>6, <2>7, <2>8, <2>9 DEF WorkerStep
<1>9. CASE \E b \in Boot : BackendStep(b)
  <2>1. mode # "" => mode' # ""
    BY <1>0, <1>9, OwnershipAssumption DEF BackendStep, Boots, BootFails, RunReturns, QueueType
  <2>2. UNCHANGED <<pc, fate, session>>
    BY <1>9 DEF BackendStep, Boots, BootFails, RunReturns
  <2>3. QED
    BY <1>2, <2>1, <2>2
<1>10. CASE SessionLapses
  <2>1. \A w \in Work : pc[w] = "hold" => mode # ""
    BY <1>0, <1>1, <1>10, OwnersKnow DEF SessionLapses, BackendInv, Claimed, Held
  <2>2. QED
    BY <1>0, <1>10, <2>1 DEF SessionLapses, Known
<1>11. CASE SessionOpens \/ UNCHANGED vars
  <2>1. UNCHANGED <<pc, fate, mode>> /\ (session => session')
    BY <1>11 DEF SessionOpens, vars
  <2>2. QED
    BY <1>2, <2>1
<1>12. CASE Dies
  <2>1. \A w \in Work : pc'[w] = "idle"
    BY <1>1, <1>12 DEF Dies
  <2>2. QED
    BY <2>1 DEF Known, Releasing
<1>13. QED
  BY <1>5, <1>6, <1>7, <1>8, <1>9, <1>10, <1>11, <1>12 DEF Next

(* Only the scheduled worker re-arms, and it enqueues a scheduled plan. *)
LEMMA PathsStep ==
  ASSUME TypeInv, Paths, [Next]_vars
  PROVE  Paths'
<1>0. CoreType /\ QueueType
  BY TypeParts DEF TypeInv
<1>1. "ui" \in Caller /\ Work \subseteq Caller /\ "ui" \notin Work
      /\ {"idle", "end", "rearm"} \subseteq Pc /\ "reapply" \notin Work
  BY WorkIsNotUi DEF Pc, Work
<1>2. CASE /\ \A w \in Work : /\ pc'[w] = pc[w] \/ pc'[w] \notin {"rearm", "enqueue"}
                             /\ plan'[w] = plan[w]
           /\ reapply' # "queued" /\ mode' # "" => mode' = setting'
  BY <1>2 DEF Paths
<1>3. CASE UNCHANGED <<reapply, mode, setting>>
           /\ \A w \in Work : /\ pc'[w] = pc[w] \/ pc'[w] \notin {"rearm", "enqueue"}
                             /\ plan'[w] = plan[w]
  BY <1>2, <1>3 DEF Paths
<1>4. ASSUME NEW c \in Caller, NEW to, Goto(c, to), to \notin {"rearm", "enqueue"},
             UNCHANGED plan
      PROVE  \A w \in Work : /\ pc'[w] = pc[w] \/ pc'[w] \notin {"rearm", "enqueue"}
                            /\ plan'[w] = plan[w]
  BY <1>0, <1>1, <1>4 DEF Goto, CoreType
<1>5. CASE UiStep
  <2>1. CASE \/ HoldUi \/ StopSelf \/ OnDestroy \/ GraceElapses
             \/ Claim("ui") /\ UNCHANGED <<ui, schedule, settings>>
    BY <1>1, <1>3, <1>4, <2>1 DEF HoldUi, StopSelf, OnDestroy, GraceElapses, Claim
  <2>2. CASE HoldUiStart
    <3>1. Goto("ui", "idle") /\ UNCHANGED <<plan, mode, setting>> /\ reapply' \in {reapply, "queued"}
      BY <2>2 DEF HoldUiStart, StartBackend
    <3>2. reapply' # "queued" /\ mode' # "" => mode' = setting'
      BY <3>1 DEF Paths
    <3>3. QED
      BY <1>1, <1>2, <1>4, <3>1, <3>2
  <2>3. CASE UiReleases
    <3>1. \A w \in Work : pc'[w] = pc[w]
      BY <1>0, <1>1, <2>3, ReleaseEffect DEF UiReleases
    <3>2. QED
      BY <1>3, <2>3, <3>1 DEF UiReleases
  <2>4. QED
    BY <1>5, <2>1, <2>2, <2>3 DEF UiStep
<1>6. CASE Resume \/ Pause \/ ChangeSetting \/ UNCHANGED vars
  BY <1>2, <1>6 DEF Resume, Pause, ChangeSetting, vars, Paths
<1>7. CASE ReapplyStep
  <2>1. UNCHANGED pc /\ \A w \in Work : plan'[w] = plan[w]
    BY <1>0, <1>1, <1>7 DEF ReapplyStep, ReapplyReads, ReapplyEnqueues, ReapplyGivesUp, QueueType
  <2>2. reapply' # "queued" /\ mode' # "" => mode' = setting'
    BY <1>7 DEF ReapplyStep, ReapplyReads, ReapplyEnqueues, ReapplyGivesUp, Paths
  <2>3. QED
    BY <1>2, <2>1, <2>2
<1>8. ASSUME NEW w \in Work, WorkerStep(w) \/ Wake(w) \/ Preempt(w) PROVE Paths'
  <2>0. UNCHANGED <<mode, setting>>
    BY <1>8 DEF WorkerStep, WorkerStarts, AwaitReady, Trigger, AwaitClose, WorkerReleases,
       Rearm, RearmEnqueues, WorkerEnds, Wake, Preempt, WorkerOnly
  <2>1. CASE \/ Claim(w) /\ UNCHANGED <<ui, schedule, settings>>
             \/ WorkerStarts(w) \/ AwaitReady(w) \/ Trigger(w) \/ AwaitClose(w)
             \/ WorkerEnds(w) \/ Wake(w)
    <3>1. UNCHANGED <<reapply, plan>>
      BY <2>1 DEF WorkerStarts, AwaitReady, Trigger, AwaitClose, WorkerEnds, Wake
    <3>2. \E to : Goto(w, to) /\ to \notin {"rearm", "enqueue"}
      <4>1. CASE Claim(w)
        BY <4>1 DEF Claim
      <4>2. CASE WorkerStarts(w)
        BY <4>2 DEF WorkerStarts, StartBackend
      <4>3. CASE AwaitReady(w)
        BY <4>3 DEF AwaitReady, Finally
      <4>4. CASE Trigger(w)
        <5>1. Goto(w, "hold") \/ Goto(w, "remove")
          BY <4>4 DEF Trigger, Finally
        <5>2. QED
          BY <5>1
      <4>5. CASE AwaitClose(w)
        BY <4>5 DEF AwaitClose, Finally
      <4>6. CASE WorkerEnds(w) \/ Wake(w)
        BY <4>6 DEF WorkerEnds, Wake
      <4>7. QED
        BY <2>1, <4>1, <4>2, <4>3, <4>4, <4>5, <4>6
    <3>3. QED
      BY <1>1, <1>3, <1>4, <2>0, <3>1, <3>2
  <2>2. CASE WorkerReleases(w)
    <3>1. PICK next \in {"end", "rearm"} :
            Release(w, next) /\ (next = "rearm" => w = "scheduled")
      BY <2>2 DEF WorkerReleases
    <3>2. /\ \A d \in Caller \ {w} : pc'[d] = pc[d]
          /\ pc'[w] = next \/ pc'[w] \in {"ask", "cancel", "mark"}
      <4>1. w \in Caller /\ next \in Pc
        BY <1>1
      <4>2. QED
        BY <1>0, <3>1, <4>1, ReleaseEffect
    <3>3. UNCHANGED <<plan, reapply>>
      BY <2>2 DEF WorkerReleases
    <3>4. ASSUME NEW v \in Work, pc'[v] \in {"rearm", "enqueue"}
          PROVE  v = "scheduled" /\ (pc'[v] = "enqueue" => plan[v] = "scheduled")
      <4>1. CASE v = w
        BY <3>1, <3>2, <3>4, <4>1
      <4>2. CASE v # w
        <5>1. pc'[v] = pc[v]
          BY <1>1, <3>2, <3>4, <4>2
        <5>2. QED
          BY <3>4, <5>1 DEF Paths
      <4>3. QED
        BY <4>1, <4>2
    <3>5. QED
      BY <2>0, <3>3, <3>4 DEF Paths
  <2>3. CASE Rearm(w)
    <3>1. /\ \A d \in Caller \ {w} : pc'[d] = pc[d]
          /\ pc[w] = "rearm" /\ UNCHANGED reapply
          /\ \/ pc'[w] = "end" /\ UNCHANGED plan
             \/ pc'[w] = "enqueue" /\ plan' = [plan EXCEPT ![w] = "scheduled"]
      BY <1>0, <1>1, <2>3 DEF Rearm, Goto, CoreType
    <3>2. /\ \A v \in Work \ {w} : plan'[v] = plan[v]
          /\ pc'[w] = "enqueue" => plan'[w] = "scheduled"
      BY <1>0, <3>1 DEF QueueType
    <3>3. ASSUME NEW v \in Work, pc'[v] \in {"rearm", "enqueue"}
          PROVE  v = "scheduled" /\ (pc'[v] = "enqueue" => plan'[v] = "scheduled")
      <4>1. CASE v = w
        BY <3>1, <3>2, <4>1 DEF Paths
      <4>2. CASE v # w
        <5>1. pc'[v] = pc[v] /\ plan'[v] = plan[v]
          BY <1>1, <3>1, <3>2, <3>3, <4>2
        <5>2. QED
          BY <3>3, <5>1 DEF Paths
      <4>3. QED
        BY <4>1, <4>2
    <3>4. QED
      BY <2>0, <3>1, <3>3 DEF Paths
  <2>4. CASE RearmEnqueues(w)
    <3>1. /\ \A d \in Caller \ {w} : pc'[d] = pc[d]
          /\ pc'[w] = "end" /\ UNCHANGED reapply
          /\ plan' = [plan EXCEPT ![w] = ""]
      BY <1>0, <1>1, <2>4 DEF RearmEnqueues, Goto, CoreType
    <3>2. \A v \in Work \ {w} : plan'[v] = plan[v]
      BY <1>0, <3>1 DEF QueueType
    <3>3. ASSUME NEW v \in Work, pc'[v] \in {"rearm", "enqueue"}
          PROVE  pc'[v] = pc[v] /\ plan'[v] = plan[v]
      BY <1>1, <3>1, <3>2, <3>3
    <3>4. QED
      BY <2>0, <3>1, <3>3 DEF Paths
  <2>5. CASE Preempt(w)
    BY <1>3, <2>5 DEF Preempt, WorkerOnly
  <2>6. QED
    BY <1>8, <2>1, <2>2, <2>3, <2>4, <2>5 DEF WorkerStep
<1>9. CASE \E b \in Boot : BackendStep(b)
  <2>1. UNCHANGED <<pc, plan, reapply, setting>> /\ mode' \in {mode, setting}
    BY <1>9 DEF BackendStep, Boots, BootFails, RunReturns
  <2>2. QED
    BY <2>1 DEF Paths
<1>10. CASE SessionOpens \/ SessionLapses
  BY <1>3, <1>10 DEF SessionOpens, SessionLapses
<1>11. CASE Dies
  <2>1. mode' = "" /\ \A w \in Work : pc'[w] = "idle"
    BY <1>1, <1>11 DEF Dies
  <2>2. QED
    BY <2>1 DEF Paths
<1>12. QED
  BY <1>5, <1>6, <1>7, <1>8, <1>9, <1>10, <1>11 DEF Next

(* What enqueueFromPlan leaves in the queue. *)
LEMMA PlanEnqueued ==
  ASSUME TypeInv, NEW m \in Mode, EnqueueFromPlan(m), setting' = m,
         pc'["scheduled"] # "idle" => pc["scheduled"] # "idle"
  PROVE  Queued'
<1>0. QueueType /\ RunInv /\ "scheduled" \in Work
  BY TypeParts DEF TypeInv, Work
<1>1. ASSUME NEW w \in Work PROVE job'[w] # "none" <=> w \in PlanWorks(m)
  BY <1>0 DEF EnqueueFromPlan, Unplanned, QueueType
<1>2. job["scheduled"] = "running" => fate'["scheduled"] = "replaced"
  BY <1>0 DEF EnqueueFromPlan, Unplanned, QueueType
<1>3. pc["scheduled"] # "idle" => fate'["scheduled"] # "live"
  BY <1>0, <1>2, EnqueueType DEF RunInv
<1>4. QED
  BY <1>1, <1>3 DEF Queued

LEMMA PlannedStep ==
  ASSUME TypeInv, Known, Paths, Planned, [Next]_vars
  PROVE  Planned'
<1> SUFFICES ASSUME ~excused' PROVE Planned'
  BY DEF Planned
<1>0. CoreType /\ QueueType /\ RunInv /\ ~excused
  BY TypeParts, ExcusedStays DEF TypeInv
<1>1. /\ "ui" \in Caller /\ Work \subseteq Caller /\ "ui" \notin Work
      /\ {"idle", "end", "rearm"} \subseteq Pc
      /\ "reapply" \notin Work /\ "scheduled" \in Work
  BY WorkIsNotUi DEF Pc, Work
<1>2. CASE /\ \A w \in Work : job'[w] # "none" <=> job[w] # "none"
           /\ pc'["scheduled"] = "end" => pc["scheduled"] = "end"
           /\ fate'["scheduled"] = fate["scheduled"] \/ pc'["scheduled"] # "end"
           /\ plan'["reapply"] = plan["reapply"] /\ UNCHANGED setting
           /\ reapply' = reapply \/ reapply' = "queued"
  BY <1>0, <1>2 DEF Planned, Queued
<1>3. ASSUME UNCHANGED schedule, UNCHANGED setting,
             pc'["scheduled"] = "end" => pc["scheduled"] = "end"
      PROVE  Planned'
  BY <1>2, <1>3
<1>4. CASE UiStep
  <2>1. CASE HoldUiStart
    <3>1. /\ UNCHANGED <<job, fate, plan, setting>>
          /\ reapply' \in {reapply, "queued"}
          /\ Goto("ui", "idle")
      BY <2>1 DEF HoldUiStart, StartBackend
    <3>2. pc'["scheduled"] = pc["scheduled"]
      BY <1>0, <1>1, <3>1 DEF Goto, CoreType
    <3>3. QED
      BY <1>2, <3>1, <3>2
  <2>2. CASE ~HoldUiStart
    <3>1. UNCHANGED <<schedule, setting>>
      BY <1>4, <2>2 DEF UiStep, HoldUi, UiReleases, StopSelf, OnDestroy, GraceElapses
    <3>2. pc'["scheduled"] = pc["scheduled"]
      <4>1. CASE UiReleases
        BY <1>0, <1>1, <4>1, ReleaseEffect DEF UiReleases
      <4>2. CASE ~UiReleases
        BY <1>0, <1>1, <1>4, <2>2, <4>2
           DEF UiStep, HoldUi, StopSelf, OnDestroy, GraceElapses, Claim, Goto, CoreType
      <4>3. QED
        BY <4>1, <4>2
    <3>3. QED
      BY <1>3, <3>1, <3>2
  <2>3. QED
    BY <2>1, <2>2
<1>5. CASE Resume \/ Pause \/ UNCHANGED vars
  BY <1>3, <1>5 DEF Resume, Pause, vars
<1>6. CASE ChangeSetting
  BY <1>6 DEF ChangeSetting, Planned
<1>7. CASE ReapplyStep
  <2>1. CASE ReapplyReads
    BY <1>0, <2>1 DEF ReapplyReads, Planned, QueueType
  <2>2. CASE ReapplyEnqueues
    <3>1. /\ EnqueueFromPlan(plan["reapply"]) /\ plan["reapply"] = setting
          /\ UNCHANGED <<pc, setting>> /\ reapply' = "none"
      BY <1>0, <2>2 DEF ReapplyEnqueues, Planned
    <3>2. Queued'
      BY <1>0, <3>1, PlanEnqueued DEF QueueType
    <3>3. QED
      BY <3>1, <3>2 DEF Planned
  <2>3. CASE ReapplyGivesUp
    BY <2>3 DEF ReapplyGivesUp, Fault
  <2>4. QED
    BY <1>7, <2>1, <2>2, <2>3 DEF ReapplyStep
<1>8. ASSUME NEW w \in Work, WorkerStep(w) \/ Wake(w) \/ Preempt(w) PROVE Planned'
  <2>1. CASE \/ Claim(w) /\ UNCHANGED <<ui, schedule, settings>>
             \/ WorkerStarts(w) \/ AwaitReady(w) \/ Trigger(w) \/ AwaitClose(w)
    <3>1. \E to : Goto(w, to) /\ to # "end"
      <4>1. CASE Claim(w)
        BY <4>1 DEF Claim
      <4>2. CASE WorkerStarts(w)
        BY <4>2 DEF WorkerStarts, StartBackend
      <4>3. CASE AwaitReady(w)
        BY <4>3 DEF AwaitReady, Finally
      <4>4. CASE Trigger(w)
        <5>1. Goto(w, "hold") \/ Goto(w, "remove")
          BY <4>4 DEF Trigger, Finally
        <5>2. QED
          BY <5>1
      <4>5. CASE AwaitClose(w)
        BY <4>5 DEF AwaitClose, Finally
      <4>6. QED
        BY <2>1, <4>1, <4>2, <4>3, <4>4, <4>5
    <3>2. pc'["scheduled"] = "end" => pc["scheduled"] = "end"
      BY <1>0, <1>1, <3>1 DEF Goto, CoreType
    <3>3. UNCHANGED schedule /\ UNCHANGED setting
      BY <2>1 DEF WorkerStarts, AwaitReady, Trigger, AwaitClose, WorkerOnly
    <3>4. QED
      BY <1>3, <3>2, <3>3
  <2>2. CASE WorkerReleases(w)
    <3>1. PICK next \in {"end", "rearm"} :
            Release(w, next) /\ (w = "scheduled" => next = "rearm")
      BY <2>2 DEF WorkerReleases
    <3>2. /\ \A d \in Caller \ {w} : pc'[d] = pc[d]
          /\ pc'[w] = next \/ pc'[w] \in {"ask", "cancel", "mark"}
      <4>1. w \in Caller /\ next \in Pc
        BY <1>1
      <4>2. QED
        BY <1>0, <3>1, <4>1, ReleaseEffect
    <3>3. pc'["scheduled"] = "end" => pc["scheduled"] = "end"
      <4>1. CASE w = "scheduled"
        BY <3>1, <3>2, <4>1
      <4>2. CASE w # "scheduled"
        BY <1>1, <3>2, <4>2
      <4>3. QED
        BY <4>1, <4>2
    <3>4. QED
      BY <1>3, <2>2, <3>3 DEF WorkerReleases, WorkerOnly
  <2>3. CASE Rearm(w)
    <3>1. pc[w] = "rearm" /\ w = "scheduled" /\ UNCHANGED <<job, fate, reapply, setting>>
      BY <1>1, <2>3 DEF Rearm, Paths, WorkerOnly
    <3>2. plan'["reapply"] = plan["reapply"]
      BY <1>0, <1>1, <2>3 DEF Rearm, QueueType
    <3>3. CASE mode = "scheduled"
      <4>1. pc'["scheduled"] = "enqueue"
        BY <1>0, <1>1, <2>3, <3>1, <3>3 DEF Rearm, Goto, CoreType
      <4>2. QED
        BY <1>2, <3>1, <3>2, <4>1
    <3>4. CASE mode # "scheduled" /\ reapply = "none"
      <4>1. setting = "scheduled" => fate["scheduled"] # "live"
        BY <1>0, <1>1, <3>1, <3>4 DEF Known, Paths
      <4>2. fate["scheduled"] = "live" => "scheduled" \in PlanWorks(setting)
        BY <1>0, <1>1, <3>1, <3>4 DEF RunInv, Planned, Queued
      <4>3. fate["scheduled"] # "live"
        BY <1>0, <4>1, <4>2, OwnershipAssumption DEF PlanWorks, QueueType
      <4>4. QED
        BY <1>0, <3>1, <3>4, <4>3 DEF Planned, Queued
    <3>5. CASE reapply # "none"
      BY <1>0, <3>1, <3>2, <3>5 DEF Planned
    <3>6. QED
      BY <3>3, <3>4, <3>5
  <2>4. CASE RearmEnqueues(w)
    <3>1. /\ pc[w] = "enqueue" /\ w = "scheduled" /\ UNCHANGED <<reapply, setting, mode>>
          /\ EnqueueFromPlan(plan[w]) /\ plan[w] = "scheduled" /\ mode = plan[w]
      BY <1>1, <2>4 DEF RearmEnqueues, Paths, WorkerOnly
    <3>2. plan'["reapply"] = plan["reapply"]
      BY <1>0, <1>1, <2>4 DEF RearmEnqueues, QueueType
    <3>3. CASE reapply = "none"
      <4>1. plan[w] = setting /\ setting \in Mode
        BY <1>0, <3>1, <3>3 DEF Paths, QueueType
      <4>2. Queued'
        BY <3>1, <4>1, PlanEnqueued
      <4>3. QED
        BY <3>1, <3>3, <4>2 DEF Planned
    <3>4. CASE reapply # "none"
      BY <1>0, <3>1, <3>2, <3>4 DEF Planned
    <3>5. QED
      BY <3>3, <3>4
  <2>5. CASE WorkerEnds(w)
    <3>1. /\ pc[w] = "end" /\ UNCHANGED <<reapply, plan, setting>>
          /\ pc'[w] = "idle" /\ \A d \in Caller \ {w} : pc'[d] = pc[d]
      BY <1>0, <1>1, <2>5 DEF WorkerEnds, WorkerOnly, Goto, CoreType
    <3>2. /\ job'[w] = AfterRun(w) /\ \A v \in Work \ {w} : job'[v] = job[v]
          /\ \A v \in Work \ {w} : fate'[v] = fate[v]
      BY <1>0, <2>5 DEF WorkerEnds, QueueType
    <3>3. CASE reapply = "none"
      <4>1. w = "scheduled" => fate[w] # "live"
        BY <1>0, <3>1, <3>3 DEF Planned, Queued
      <4>2. job[w] # "none" <=> AfterRun(w) # "none"
        BY <1>0, <3>1, <4>1 DEF AfterRun, RunInv
      <4>3. QED
        BY <1>1, <1>2, <3>1, <3>2, <4>2
    <3>4. CASE reapply # "none"
      BY <1>0, <3>1, <3>4 DEF Planned
    <3>5. QED
      BY <3>3, <3>4
  <2>6. CASE Wake(w)
    <3>1. /\ \A v \in Work : job'[v] # "none" <=> job[v] # "none"
          /\ UNCHANGED <<fate, plan, reapply, setting>>
      BY <1>0, <2>6 DEF Wake, WorkerOnly, QueueType
    <3>2. pc'["scheduled"] = "end" => pc["scheduled"] = "end"
      BY <1>0, <1>1, <2>6 DEF Wake, Goto, CoreType
    <3>3. QED
      BY <1>2, <3>1, <3>2
  <2>7. CASE Preempt(w)
    <3>1. UNCHANGED <<job, plan, reapply, setting, pc>>
      BY <2>7 DEF Preempt, WorkerOnly
    <3>2. fate'["scheduled"] = fate["scheduled"] \/ fate'["scheduled"] = "preempted"
      BY <1>0, <1>1, <2>7 DEF Preempt, QueueType
    <3>3. QED
      BY <1>0, <3>1, <3>2 DEF Planned, Queued
  <2>8. QED
    BY <1>8, <2>1, <2>2, <2>3, <2>4, <2>5, <2>6, <2>7 DEF WorkerStep
<1>9. CASE (\E b \in Boot : BackendStep(b)) \/ SessionOpens \/ SessionLapses
  <2>1. UNCHANGED <<schedule, setting, pc>>
    BY <1>9 DEF BackendStep, Boots, BootFails, RunReturns, SessionOpens, SessionLapses
  <2>2. QED
    BY <1>3, <2>1
<1>10. CASE Dies
  <2>1. /\ \A w \in Work : job'[w] # "none" <=> job[w] # "none"
        /\ pc'["scheduled"] = "idle" /\ UNCHANGED setting
        /\ reapply' = IF reapply = "none" THEN "none" ELSE "queued"
    BY <1>0, <1>1, <1>10 DEF Dies, QueueType
  <2>2. QED
    BY <1>0, <2>1 DEF Planned, Queued
<1>11. QED
  BY <1>4, <1>5, <1>6, <1>7, <1>8, <1>9, <1>10 DEF Next

LEMMA PlanInit == Init => Known /\ Paths /\ Planned
<1> SUFFICES ASSUME Init PROVE Known /\ Paths /\ Planned
  OBVIOUS
<1>1. /\ \A w \in Work : pc[w] = "idle"
      /\ \A w \in Work : job[w] # "none" <=> w \in PlanWorks(setting)
      /\ mode = "" /\ reapply = "none" /\ "scheduled" \in Work
  BY DEF Init, Work, Caller
<1>2. QED
  BY <1>1 DEF Known, Paths, Planned, Queued, Releasing

(* WorkManager has the works of the user's mode, and no others, across changes of the
   mode, stopped workers and dead processes.                                         *)
THEOREM PlanIsFollowed == Spec => []PlanFollowed
<1>1. Planned => PlanFollowed
  BY DEF Planned, Queued, PlanFollowed, Settled, PlanWorks, Work
<1>2. QED
  BY <1>1, TypeInit, TypeStep, BackendInit, BackendInvStep, PlanInit, KnownStep, PathsStep,
     PlannedStep, PTL DEF Spec

=============================================================================
