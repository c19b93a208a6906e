----------------------------- MODULE Ownership -----------------------------
(***************************************************************************)
(* Who keeps the backend alive on Android: BackendOwnership counts the UI's *)
(* service and WorkManager's workers, starts the backend for the first and *)
(* stops it after the last, and SyncScheduler keeps WorkManager's queue as *)
(* the gate's wake plan wants it.                                          *)
(*                                                                         *)
(* A step is one callback of the main thread, one synchronized section, or *)
(* one call of the Go side.  The backend is abstract here: module Gate has *)
(* mobile.Start, mobile.Stop and the gate in detail.  Of time only this is *)
(* kept: a session, and six hours, outlast the start of a backend.         *)
(***************************************************************************)
EXTENDS Naturals, FiniteSets

CONSTANTS
  Mode,     \* modes of the wake plan the user chooses from
  Boot,     \* goroutines of mobile.Start; one that has ended is used again
  NoBoot,   \* cancel is nil
  Budgets   \* bound: how many events of each kind a behaviour may have

Kind == {"user", "wake", "stop", "fault", "death"}

ASSUME OwnershipAssumption ==
  /\ Mode \subseteq {"periodic", "on_change_poll", "scheduled"}
  /\ NoBoot \notin Boot
  /\ Budgets \subseteq [Kind -> Nat]

Work   == {"periodic", "poll", "safety", "scheduled"}
Caller == Work \cup {"ui"}

VARIABLES
  owners,    \* BackendOwnership.owners
  pc,        \* pc[c]: what the main thread or a worker is doing
  visible,   \* the activity is resumed
  believed,  \* gate.appForeground
  timer,     \* releaseUiRunnable is posted
  hold,      \* a HOLD_UI that was sent: "no", to the "old" instance or to a "new" one
  service,   \* the service: "none", "up" or, after stopSelf, "dying"
  armed,     \* powerStarted of the service
  job,       \* job[w]: of WorkManager: "none", "queued" or "running"
  fate,      \* fate[w]: a run of w is "live", "preempted", or "replaced" by another
  reapply,   \* the ReapplyScheduleWorker: "none", "queued" or "enqueue"
  plan,      \* plan[t]: the wake plan that t has read
  setting,   \* the mode in the settings store
  mode,      \* the mode the gate has loaded, or ""
  boot,      \* boot[b]: goroutine b of mobile.Start: "idle", "boot" or "run"
  cancelled, \* goroutines whose context is cancelled
  holder,    \* the goroutine whose cancel function mobile keeps
  able,      \* the gate may run Syncthing (gate.stExePath is set)
  session,   \* the gate has a session on a network and a battery that allow it
  left,      \* what is left of the budget
  resident,  \* history: the last release found a sync that had not finished
  excused    \* history: a fault, or two actors overlapped where the code does not
             \* serialise them

ui       == <<visible, believed, timer, hold, service, armed>>
schedule == <<job, fate, reapply, plan>>
settings == <<setting, mode>>
backend  == <<boot, cancelled, holder, able, session>>
history  == <<resident, excused>>
vars     == <<owners, pc, ui, schedule, settings, backend, left, history>>

Pc == {"idle", "claim", "start", "ready", "seed", "hold", "remove", "ask", "cancel",
       "mark", "rearm", "enqueue", "end"}

TypeOK ==
  /\ owners \subseteq Caller
  /\ pc \in [Caller -> Pc]
  /\ visible \in BOOLEAN /\ believed \in BOOLEAN /\ timer \in BOOLEAN /\ armed \in BOOLEAN
  /\ hold \in {"no", "old", "new"} /\ service \in {"none", "up", "dying"}
  /\ (armed \/ timer) => service # "none"
  /\ job \in [Work -> {"none", "queued", "running"}]
  /\ fate \in [Work -> {"live", "preempted", "replaced"}]
  /\ \A w \in Work : job[w] = "running" => pc[w] # "idle"
  /\ reapply \in {"none", "queued", "enqueue"}
  /\ plan \in [Work \cup {"reapply"} -> Mode \cup {""}]
  /\ setting \in Mode /\ mode \in Mode \cup {""}
  /\ boot \in [Boot -> {"idle", "boot", "run"}]
  /\ cancelled \subseteq Boot /\ holder \in Boot \cup {NoBoot}
  /\ able \in BOOLEAN /\ session \in BOOLEAN
  /\ left \in [Kind -> Nat]
  /\ resident \in BOOLEAN /\ excused \in BOOLEAN

(* PowerLogic.planWorks. *)
PlanWorks(m) ==
  CASE m = "periodic" -> {"periodic"}
    [] m = "on_change_poll" -> {"poll", "safety"}
    [] m = "scheduled" -> {"scheduled"}
    [] OTHER -> {}

(* The app was set up earlier; its process does not run. *)
Init ==
  /\ owners = {} /\ pc = [c \in Caller |-> "idle"]
  /\ visible = FALSE /\ believed = FALSE /\ timer = FALSE
  /\ hold = "no" /\ service = "none" /\ armed = FALSE
  /\ setting \in Mode /\ mode = ""
  /\ job = [w \in Work |-> IF w \in PlanWorks(setting) THEN "queued" ELSE "none"]
  /\ fate = [w \in Work |-> "live"] /\ reapply = "none"
  /\ plan = [t \in Work \cup {"reapply"} |-> ""]
  /\ boot = [b \in Boot |-> "idle"] /\ cancelled = {} /\ holder = NoBoot
  /\ able = FALSE /\ session = FALSE
  /\ left \in Budgets
  /\ resident = FALSE /\ excused = FALSE

Spend(kind) == left[kind] > 0 /\ left' = [left EXCEPT ![kind] = @ - 1]

Fault == Spend("fault") /\ excused' = TRUE

Goto(c, to) == pc' = [pc EXCEPT ![c] = to]

(***************************************************************************)
(* mobile.Start, mobile.Stop, and the gate as Android sees it.             *)
(***************************************************************************)
IsRunning == holder # NoBoot

Booting == \E b \in Boot : boot[b] = "boot"

(* startBackendIfReady; nothing is started without the permission or the binary. *)
StartBackend(c, next) ==
  /\ pc[c] = "start" /\ Goto(c, next)
  /\ \/ IsRunning /\ UNCHANGED <<boot, holder, left, excused>>
     \/ /\ ~IsRunning /\ UNCHANGED left
        /\ \E b \in Boot :
             /\ boot[b] = "idle"
             /\ boot' = [boot EXCEPT ![b] = "boot"] /\ holder' = b
        /\ excused' = (excused \/ \E b \in Boot : boot[b] # "idle")
     \/ ~IsRunning /\ Fault /\ UNCHANGED <<boot, holder>>
  /\ UNCHANGED <<owners, cancelled, able, session, resident>>

(* Syncthing is up and the gate initialised: it reads its settings. *)
Boots(b) ==
  /\ boot[b] = "boot" /\ boot' = [boot EXCEPT ![b] = "run"]
  /\ able' = TRUE /\ mode' = setting
  /\ UNCHANGED <<owners, pc, ui, schedule, setting, cancelled, holder, session, left, history>>

(* EnsureReady or the start of Syncthing fails: the cancel function stays. *)
BootFails(b) ==
  /\ boot[b] = "boot" /\ boot' = [boot EXCEPT ![b] = "idle"]
  /\ cancelled' = cancelled \ {b}
  /\ Fault
  /\ UNCHANGED <<owners, pc, ui, schedule, settings, holder, able, session, resident>>

(* backend.Run returns; whoever has the cancel function by now loses it. *)
RunReturns(b) ==
  /\ boot[b] = "run" /\ boot' = [boot EXCEPT ![b] = "idle"]
  /\ \/ b \in cancelled /\ UNCHANGED <<left, excused>>
     \/ b \notin cancelled /\ Fault
  /\ cancelled' = cancelled \ {b} /\ holder' = NoBoot
  /\ UNCHANGED <<owners, pc, ui, schedule, settings, able, session, resident>>

(* "Sync now", or a network that has come back, opens a session; it lapses in time. *)
SessionOpens ==
  /\ Spend("wake") /\ IsRunning /\ session' = TRUE
  /\ UNCHANGED <<owners, pc, ui, schedule, settings, boot, cancelled, holder, able, history>>

SessionLapses ==
  /\ session /\ ~Booting /\ session' = FALSE
  /\ UNCHANGED <<owners, pc, ui, schedule, settings, boot, cancelled, holder, able, left,
                 history>>

(* Mutant: the foreground flag counts. *)
ResidentOrBelieved == session \/ believed

(* ShouldStayResident. *)
ShouldStayResident == session

(***************************************************************************)
(* acquire and release.                                                    *)
(***************************************************************************)
(* Somebody has found no owner and is about to stop the backend. *)
Stopping == \E c \in Caller : pc[c] \in {"ask", "cancel", "mark"}

Claim(c) ==
  /\ pc[c] = "claim" /\ Goto(c, "start")
  /\ owners' = owners \cup {c}
  /\ resident' = FALSE /\ excused' = (excused \/ Stopping)
  /\ UNCHANGED <<backend, left>>

(* Mutant: a release stops the backend whoever else owns it. *)
AlwaysLast(rest) == TRUE

(* Nobody owns the backend any more. *)
Last(rest) == rest = {}

Remove(c, next) ==
  /\ pc[c] = "remove" /\ owners' = owners \ {c}
  /\ Goto(c, IF Last(owners') THEN "ask" ELSE next)
  /\ UNCHANGED <<backend, left, history>>

Ask(c, next) ==
  /\ pc[c] = "ask" /\ Goto(c, IF ShouldStayResident THEN next ELSE "cancel")
  /\ resident' = session
  /\ UNCHANGED <<owners, backend, left, excused>>

(* stopBackend and mobile.Stop: the cancel function first, then the gate's authority. *)
Cancel(c) ==
  /\ pc[c] = "cancel" /\ Goto(c, "mark")
  /\ cancelled' = cancelled \cup ({holder} \ {NoBoot}) /\ holder' = NoBoot
  /\ UNCHANGED <<owners, boot, able, session, left, history>>

Mark(c, next) ==
  /\ pc[c] = "mark" /\ Goto(c, next)
  /\ able' = FALSE /\ session' = FALSE
  /\ UNCHANGED <<owners, boot, cancelled, holder, left, history>>

Release(c, next) == Remove(c, next) \/ Ask(c, next) \/ Cancel(c) \/ Mark(c, next)

(***************************************************************************)
(* The UI and its service: the callbacks of the main thread.               *)
(***************************************************************************)
Main == pc["ui"] = "idle"

(* onResume sends HOLD_UI: a service that has called stopSelf does not get it. *)
Resume ==
  /\ Main /\ ~visible /\ Spend("user")
  /\ visible' = TRUE /\ believed' = TRUE
  /\ hold' = IF service = "dying" THEN "new" ELSE "old"
  /\ UNCHANGED <<owners, pc, timer, service, armed, schedule, settings, backend, history>>

(* Mutant: a pending release is not called off. *)
TimerKept == timer

(* holdUi: main.removeCallbacks. *)
TimerAfterHold == FALSE

(* onStartCommand with HOLD_UI. *)
HoldUi ==
  /\ Main /\ hold # "no" /\ (hold = "new" => service # "dying")
  /\ hold' = "no" /\ timer' = TimerAfterHold /\ Goto("ui", "claim")
  /\ service' = IF service = "none" THEN "up" ELSE service
  /\ UNCHANGED <<owners, visible, believed, armed, schedule, settings, backend, left, history>>

(* Arms the schedule once per instance of the service. *)
HoldUiStart ==
  /\ StartBackend("ui", "idle")
  /\ armed' = TRUE /\ reapply' = IF armed THEN reapply ELSE "queued"
  /\ UNCHANGED <<visible, believed, timer, hold, service, job, fate, plan, settings>>

(* onPause sends RELEASE_UI, and onTaskRemoved posts the same; a skin of Android that
   skips onPause leaves the gate to believe in the UI.                                 *)
Pause ==
  /\ Main /\ visible /\ hold = "no" /\ service # "dying"
  /\ visible' = FALSE /\ believed' \in {FALSE, believed}
  /\ timer' = TRUE /\ service' = "up"
  /\ UNCHANGED <<owners, pc, hold, armed, schedule, settings, backend, left, history>>

(* releaseUiRunnable after the grace, and onDestroy after its stopSelf: both release. *)
GraceElapses ==
  /\ Main /\ timer /\ service = "up"
  /\ timer' = FALSE /\ Goto("ui", "remove")
  /\ excused' = (excused \/ hold # "no")
  /\ UNCHANGED <<owners, visible, believed, hold, service, armed, schedule, settings,
                 backend, left, resident>>

UiReleases ==
  /\ Release("ui", IF service = "dying" THEN "idle" ELSE "end")
  /\ UNCHANGED <<visible, believed, timer, hold, armed, schedule, settings>>
  /\ service' = IF service = "dying" /\ pc'["ui"] = "idle" THEN "none" ELSE service

StopSelf ==
  /\ pc["ui"] = "end" /\ Goto("ui", "idle") /\ service' = "dying"
  /\ UNCHANGED <<owners, visible, believed, timer, hold, armed, schedule, settings, backend,
                 left, history>>

OnDestroy ==
  /\ Main /\ service = "dying" /\ hold # "old"
  /\ timer' = FALSE /\ armed' = FALSE /\ Goto("ui", "remove")
  /\ UNCHANGED <<owners, visible, believed, hold, service, schedule, settings, backend,
                 left, history>>

(* The user picks another mode, and the bridge asks for a reapply. *)
ChangeSetting ==
  /\ visible /\ Spend("user")
  /\ setting' \in Mode \ {setting}
  /\ reapply' = "queued" /\ excused' = (excused \/ reapply = "enqueue")
  /\ UNCHANGED <<owners, pc, ui, job, fate, plan, mode, backend, resident>>

(***************************************************************************)
(* SyncScheduler.                                                          *)
(***************************************************************************)
(* Mutant: the works of other modes stay. *)
UnplannedStay(m) == {}

(* The works that are not in the plan are cancelled. *)
Unplanned(m) == Work \ PlanWorks(m)

(* enqueueFromPlan: a periodic work that is there is kept, the scheduled one replaced. *)
EnqueueFromPlan(m) ==
  LET fresh == {w \in PlanWorks(m) : job[w] = "none" \/ w = "scheduled"}
      ended == Unplanned(m) \cup fresh
  IN  /\ job' = [w \in Work |-> IF w \in fresh THEN "queued"
                                ELSE IF w \in Unplanned(m) THEN "none" ELSE job[w]]
      /\ fate' = [w \in Work |-> IF w \in ended /\ job[w] = "running" THEN "replaced"
                                 ELSE fate[w]]

(* ReapplyScheduleWorker: RefreshPowerSettings does nothing before the gate has its
   store, nor is there a plan then; after 60 s it gives up.                         *)
ReapplyReads ==
  /\ reapply = "queued" /\ mode # ""
  /\ mode' = setting /\ plan' = [plan EXCEPT !["reapply"] = setting]
  /\ reapply' = "enqueue"
  /\ UNCHANGED <<owners, pc, ui, job, fate, setting, backend, left, history>>

ReapplyEnqueues ==
  /\ reapply = "enqueue" /\ reapply' = "none"
  /\ EnqueueFromPlan(plan["reapply"]) /\ plan' = [plan EXCEPT !["reapply"] = ""]
  /\ UNCHANGED <<owners, pc, ui, settings, backend, left, history>>

ReapplyGivesUp ==
  /\ reapply = "queued" /\ mode = "" /\ reapply' = "none" /\ Fault
  /\ UNCHANGED <<owners, pc, ui, job, fate, plan, settings, backend, resident>>

(***************************************************************************)
(* SyncWorker.                                                             *)
(***************************************************************************)
WorkerOnly == UNCHANGED <<ui, settings>>

Wake(w) ==
  /\ job[w] = "queued" /\ pc[w] = "idle" /\ Spend("wake")
  /\ job' = [job EXCEPT ![w] = "running"]
  /\ Goto(w, "claim")
  /\ WorkerOnly /\ UNCHANGED <<owners, fate, reapply, plan, backend, history>>

WorkerStarts(w) == StartBackend(w, "ready") /\ WorkerOnly /\ UNCHANGED schedule

(* Mutant: a wake-up without a backend returns without its release. *)
ReturnAtOnce == "end"

(* The finally block. *)
Finally == "remove"

(* awaitBackendReady: not longer than 60 s, and not after the worker was stopped. *)
AwaitReady(w) ==
  /\ pc[w] = "ready"
  /\ \/ IsRunning /\ Goto(w, "seed")
     \/ (~IsRunning \/ fate[w] # "live") /\ Goto(w, Finally)
  /\ WorkerOnly /\ UNCHANGED <<owners, schedule, backend, left, history>>

(* OnTriggerAlarm or OnTriggerPollAlarm; a gate without its settings allows anything. *)
Trigger(w) ==
  /\ pc[w] = "seed"
  /\ \/ session' \in {session, TRUE} /\ (mode = "" => session') /\ Goto(w, "hold")
     \/ fate[w] # "live" /\ Goto(w, Finally) /\ UNCHANGED session
  /\ WorkerOnly /\ UNCHANGED <<owners, schedule, boot, cancelled, holder, able, left, history>>

(* awaitSessionClose: not longer than 6 h, and not after the worker was stopped. *)
AwaitClose(w) ==
  /\ pc[w] = "hold" /\ Goto(w, Finally)
  /\ \/ (~ShouldStayResident \/ fate[w] # "live") /\ UNCHANGED left
     \/ ~Booting /\ Spend("stop")
  /\ WorkerOnly /\ UNCHANGED <<owners, schedule, backend, history>>

WorkerReleases(w) ==
  /\ Release(w, IF w = "scheduled" THEN "rearm" ELSE "end")
  /\ WorkerOnly /\ UNCHANGED schedule

(* enqueueNextScheduled: the plan is read, and then enqueued. *)
Rearm(w) ==
  /\ pc[w] = "rearm"
  /\ \/ mode = "scheduled" /\ Goto(w, "enqueue") /\ plan' = [plan EXCEPT ![w] = mode]
     \/ mode # "scheduled" /\ Goto(w, "end") /\ UNCHANGED plan
  /\ WorkerOnly /\ UNCHANGED <<owners, job, fate, reapply, backend, left, history>>

RearmEnqueues(w) ==
  /\ pc[w] = "enqueue" /\ Goto(w, "end")
  /\ EnqueueFromPlan(plan[w]) /\ plan' = [plan EXCEPT ![w] = ""]
  /\ excused' = (excused \/ plan[w] # mode)
  /\ WorkerOnly /\ UNCHANGED <<owners, reapply, backend, left, resident>>

(* Mutant: a run that was preempted is lost. *)
AfterLiveRun(w) == IF fate[w] # "live" THEN job[w]
                   ELSE IF w = "scheduled" THEN "none" ELSE "queued"

(* A periodic work and one that was preempted run again, a replaced run leaves the
   queue as it is.                                                                *)
AfterRun(w) == IF fate[w] = "replaced" THEN job[w]
               ELSE IF w = "scheduled" /\ fate[w] = "live" THEN "none" ELSE "queued"

WorkerEnds(w) ==
  /\ pc[w] = "end" /\ Goto(w, "idle")
  /\ job' = [job EXCEPT ![w] = AfterRun(w)]
  /\ fate' = [fate EXCEPT ![w] = "live"]
  /\ WorkerOnly /\ UNCHANGED <<owners, reapply, plan, backend, left, history>>

(* WorkManager stops a worker. *)
Preempt(w) ==
  /\ job[w] = "running" /\ fate[w] = "live" /\ Spend("stop")
  /\ fate' = [fate EXCEPT ![w] = "preempted"]
  /\ WorkerOnly /\ UNCHANGED <<owners, pc, job, reapply, plan, backend, history>>

(***************************************************************************)
(* The process dies: WorkManager runs again what was running, and Android  *)
(* starts a sticky service again, which holds the backend for the UI.      *)
(***************************************************************************)
Dies ==
  /\ Spend("death")
  /\ owners' = {} /\ pc' = [c \in Caller |-> "idle"]
  /\ visible' = FALSE /\ believed' = FALSE /\ timer' = FALSE /\ armed' = FALSE
  /\ service' = "none"
  /\ \/ hold' = "no" /\ UNCHANGED excused
     \/ service # "none" /\ hold' = "new" /\ excused' = TRUE
  /\ job' = [w \in Work |-> IF job[w] = "running" THEN "queued" ELSE job[w]]
  /\ fate' = [w \in Work |-> "live"]
  /\ reapply' = IF reapply = "none" THEN "none" ELSE "queued"
  /\ plan' = [t \in DOMAIN plan |-> ""]
  /\ mode' = "" /\ boot' = [b \in Boot |-> "idle"] /\ cancelled' = {} /\ holder' = NoBoot
  /\ able' = FALSE /\ session' = FALSE /\ resident' = FALSE
  /\ UNCHANGED setting

(***************************************************************************)
(* The specification.                                                      *)
(***************************************************************************)
UiStep ==
  \/ HoldUi \/ HoldUiStart \/ UiReleases \/ StopSelf \/ OnDestroy \/ GraceElapses
  \/ Claim("ui") /\ UNCHANGED <<ui, schedule, settings>>

WorkerStep(w) ==
  \/ Claim(w) /\ UNCHANGED <<ui, schedule, settings>>
  \/ WorkerStarts(w) \/ AwaitReady(w) \/ Trigger(w) \/ AwaitClose(w)
  \/ WorkerReleases(w) \/ Rearm(w) \/ RearmEnqueues(w) \/ WorkerEnds(w)

ReapplyStep == ReapplyReads \/ ReapplyEnqueues \/ ReapplyGivesUp

BackendStep(b) == Boots(b) \/ BootFails(b) \/ RunReturns(b)

Next ==
  \/ UiStep \/ Resume \/ Pause \/ ChangeSetting
  \/ ReapplyStep
  \/ \E w \in Work : WorkerStep(w) \/ Wake(w) \/ Preempt(w)
  \/ \E b \in Boot : BackendStep(b)
  \/ SessionOpens \/ SessionLapses
  \/ Dies

Spec == Init /\ [][Next]_vars

(* Threads run, timers elapse, a backend that was started starts or fails, and the
   gate ends its sessions (SessionEnds of module Gate).                             *)
FairSpec ==
  /\ Spec
  /\ WF_vars(UiStep) /\ \A w \in Work : WF_vars(WorkerStep(w))
  /\ WF_vars(ReapplyStep)
  /\ \A b \in Boot : WF_vars(BackendStep(b))
  /\ WF_vars(SessionLapses)

(***************************************************************************)
(* Properties.                                                             *)
(***************************************************************************)
(* Nothing is under way but workers that wait for their session to close. *)
Settled ==
  /\ \A c \in Caller : pc[c] \in {"idle", "hold"}
  /\ reapply = "none" /\ hold = "no" /\ service # "dying"
  /\ \A b \in Boot : boot[b] # "boot" /\ b \notin cancelled

Serves(b) == holder = b /\ boot[b] = "run" /\ able

(* Whoever owns the backend has one, with Syncthing under the gate's control. *)
OwnersServed == Settled /\ ~excused /\ owners # {} => \E b \in Boot : Serves(b)

(* The UI owns the backend exactly while it is visible and in the grace afterwards. *)
UiHolds == Settled /\ ~excused => ("ui" \in owners <=> visible \/ timer)

(* A backend that nobody owns is gone, to the last goroutine, unless at the last
   release a sync had not finished.                                               *)
NoneLeftBehind ==
  Settled /\ ~excused /\ owners = {} =>
    resident \/ (holder = NoBoot /\ \A b \in Boot : boot[b] = "idle")

(* WorkManager has the works of the user's mode, and no others, across changes of the
   mode, stopped workers and dead processes.                                         *)
PlanFollowed ==
  Settled /\ ~excused => {w \in Work : job[w] # "none"} = PlanWorks(setting)

(* No worker keeps its claim for ever. *)
ClaimsEnd == []<>(owners \subseteq {"ui"})

=============================================================================
