-------------------------------- MODULE Gate --------------------------------
(***************************************************************************)
(* The power gate of the Android host (mobile/): the inputs it observes,   *)
(* the sessions triggers open, the loop that starts and stops Syncthing to *)
(* follow its one decision, and mobile.Start and mobile.Stop, which bring  *)
(* the whole backend up and down.  Syncthing is managed by StLifecycle,    *)
(* which module StManager implements.                                      *)
(*                                                                         *)
(* A step is one critical section of gate.mu or of mobile.mu, one blocking *)
(* call, or one call of the host.  The threads are the loop, the goroutines*)
(* of mobile.Start, the caller of mobile.Stop and, one step each, whoever  *)
(* reports an event.                                                       *)
(*                                                                         *)
(* Time is counted in intervals of the loop's poll; a deadline is the time *)
(* that is left until it.  A pass of the loop may last MaxLag intervals.   *)
(***************************************************************************)
EXTENDS Naturals, FiniteSets

CONSTANTS
  Ssid,             \* names of WiFi networks
  NoSsid,           \* not on WiFi, or its name is not known
  Net,              \* states of the network reported by Android, a set of records
  Settings,         \* power settings the user chooses from, a set of records
  Boot,             \* goroutines of mobile.Start; one that has ended is used again
  NoBoot,           \* cancel is nil
  ConnectGrace,     \* connectGrace, in intervals
  ActiveSyncExtend, \* activeSyncExtend
  ForegroundGrace,  \* foregroundGrace
  MaxLag,           \* bound: intervals that pass during a pass of the loop
  Budgets           \* bound: how many events of each kind a behaviour may have

Kind == {"event", "work", "fault", "start", "stop"}

ASSUME GateAssumption ==
  /\ Net \subseteq [ssid : Ssid \cup {NoSsid}, hasWifi : BOOLEAN, metered : BOOLEAN,
                    roaming : BOOLEAN, activeWifi : BOOLEAN]
  /\ Settings \subseteq [mode : {"any", "any_wifi", "trusted_wifi"},
                         trusted : SUBSET Ssid, block : BOOLEAN, pauseLow : BOOLEAN]
  /\ NoSsid \notin Ssid
  /\ {"loop", "stop", NoBoot} \cap Boot = {}
  /\ MaxLag \in Nat /\ ForegroundGrace \in Nat
  /\ ConnectGrace \in Nat /\ MaxLag + 1 < ConnectGrace
  /\ ActiveSyncExtend \in Nat /\ ConnectGrace <= ActiveSyncExtend
  /\ Budgets \subseteq [Kind -> Nat]

GateThread == {"loop", "stop"} \cup Boot

VARIABLES
  exe,       \* gate.stExePath is not empty: the gate may start Syncthing
  fg,        \* gate.appForeground
  net,       \* the network as last reported
  low,       \* gate.batteryLow
  settings,  \* gate.settings
  session,   \* what is left until gate.sessionEndsAt
  connect,   \* what is left until gate.sessionStartedAt + connectGrace
  grace,     \* what is left until gate.foregroundUntil
  looping,   \* gate.kick is not nil: the loop runs
  kick,      \* gate.kick holds a signal
  ticker,    \* the loop has a poll ticker
  tickDue,   \* the ticker's channel holds a tick
  loop,      \* the pass of the loop in progress
  late,      \* intervals that passed while the loop had something to do
  opening,   \* events that have yet to open a session
  boot,      \* boot[b]: what goroutine b is doing
  cancelled, \* goroutines whose context is cancelled
  holder,    \* the goroutine whose cancel function mobile keeps
  stop,      \* what the caller of mobile.Stop is doing
  lastSync,  \* gate.lastSyncActive
  saying,    \* saying[t]: what thread t is about to tell the host
  told,      \* what the host was told last
  running,   \* of the manager: IsRunning()
  op,        \* of the manager: what each thread is doing in it
  work,      \* a folder is busy or a connected peer is behind
  peer,      \* a peer is connected
  left,      \* what is left of the budget
  lapsed,    \* history: a deadline has passed since the loop last decided
  lost,      \* history: Syncthing was lost or failed to start since then
  busy,      \* history: the last probe of an armed gate's session found work
  crossed    \* history: two threads told the host at the same time, or a Stop told
             \* it after the gate was armed again

inputs   == <<fg, net, low, settings>>
sessions == <<session, connect, grace>>
wakes    == <<looping, kick, ticker, tickDue>>
mobile   == <<boot, cancelled, holder, stop>>
host     == <<lastSync, saying, told, crossed>>
manager  == <<running, op>>
env      == <<work, peer>>
history  == <<lapsed, lost, busy>>
vars     == <<exe, inputs, sessions, wakes, loop, late, opening, mobile, host,
              manager, env, left, history>>

(* On the host's side BackendOwnership registers before it starts the backend. *)
Manager == INSTANCE StLifecycle WITH Thread <- GateThread

LoopPc == {"select", "look", "probe", "extend", "again", "act", "notify", "say", "repoll"}
(* A pass: whether it began with a tick, its decision, and the result of its probe. *)
Pass == [pc : LoopPc, poll : BOOLEAN, want : BOOLEAN, path : BOOLEAN,
         busy : BOOLEAN, peer : BOOLEAN]

BootPc == {"idle", "start", "wait", "init", "load", "run"}
StopPc == {"idle", "mark", "tell", "say", "kill"}

(* The zero values: no network, and a mode of the settings that allows any. *)
NoNet == [ssid |-> NoSsid, hasWifi |-> FALSE, metered |-> FALSE, roaming |-> FALSE,
          activeWifi |-> FALSE]
Unset == [mode |-> "", trusted |-> {}, block |-> FALSE, pauseLow |-> FALSE]

(* No deadline lies further ahead than the longest that is ever set. *)
TypeOK ==
  /\ exe \in BOOLEAN /\ fg \in BOOLEAN /\ low \in BOOLEAN
  /\ net \in Net \cup {NoNet} /\ settings \in Settings \cup {Unset}
  /\ session \in 0..ActiveSyncExtend
  /\ connect \in 0..ConnectGrace /\ grace \in 0..ForegroundGrace
  /\ looping \in BOOLEAN /\ kick \in BOOLEAN
  /\ ticker \in BOOLEAN /\ tickDue \in BOOLEAN /\ (tickDue => ticker)
  /\ loop \in Pass
  /\ late \in 0..MaxLag
  /\ opening \subseteq {"check", "open"}
  /\ boot \in [Boot -> BootPc] /\ cancelled \subseteq Boot
  /\ holder \in Boot \cup {NoBoot} /\ stop \in StopPc
  /\ lastSync \in BOOLEAN /\ told \in BOOLEAN
  /\ saying \in [{"loop", "stop"} -> {"nothing", "active", "inactive"}]
  /\ Manager!TypeOK
  /\ work \in BOOLEAN /\ peer \in BOOLEAN
  /\ left \in [Kind -> Nat]
  /\ lapsed \in BOOLEAN /\ lost \in BOOLEAN /\ busy \in BOOLEAN /\ crossed \in BOOLEAN

NoPass == [pc |-> "select", poll |-> FALSE, want |-> FALSE, path |-> FALSE,
           busy |-> FALSE, peer |-> FALSE]

Init ==
  /\ exe = FALSE /\ fg = FALSE /\ low = FALSE
  /\ net = NoNet /\ settings = Unset
  /\ session = 0 /\ connect = 0 /\ grace = 0
  /\ looping = FALSE /\ kick = FALSE /\ ticker = FALSE /\ tickDue = FALSE
  /\ loop = NoPass /\ late = 0 /\ opening = {}
  /\ boot = [b \in Boot |-> "idle"] /\ cancelled = {}
  /\ holder = NoBoot /\ stop = "idle"
  /\ lastSync = FALSE /\ told = FALSE
  /\ saying = [t \in {"loop", "stop"} |-> "nothing"]
  /\ Manager!Init
  /\ work = FALSE /\ peer = FALSE
  /\ left \in Budgets
  /\ lapsed = FALSE /\ lost = FALSE /\ busy = FALSE /\ crossed = FALSE

Spend(kind) == left[kind] > 0 /\ left' = [left EXCEPT ![kind] = @ - 1]

(***************************************************************************)
(* The decision (gate_decision.go).                                        *)
(***************************************************************************)
NetworkAllowed(n, s) ==
  /\ ~(s.block /\ (n.roaming \/ (n.metered /\ n.activeWifi)))
  /\ s.mode = "any_wifi" => n.hasWifi
  /\ s.mode = "trusted_wifi" => n.hasWifi /\ n.ssid # NoSsid /\ n.ssid \in s.trusted

BatteryAllowed == ~settings.pauseLow \/ ~low

DesiredRunning ==
  \/ fg \/ grace > 0
  \/ NetworkAllowed(net, settings) /\ BatteryAllowed /\ session > 0

(* Mutant: a session without a peer is held open from now, not from its start. *)
NextSessionEndFromNow(isBusy, connected) ==
  IF isBusy THEN ActiveSyncExtend
  ELSE IF ~connected THEN ConnectGrace
  ELSE session

(* The deadline after a probe. *)
NextSessionEnd(isBusy, connected) ==
  IF isBusy THEN ActiveSyncExtend
  ELSE IF ~connected /\ connect > 0 THEN connect
  ELSE session

(***************************************************************************)
(* Events (events.go).  Each changes its inputs and kicks the loop; before *)
(* the first initGate there is no channel to kick.  An event that reports  *)
(* what is known already has no effect.                                    *)
(***************************************************************************)
Kick == kick' = looping

OnAppForeground ==
  /\ Spend("event")
  /\ fg' = ~fg
  /\ grace' = IF fg' THEN 0 ELSE ForegroundGrace
  /\ Kick
  /\ UNCHANGED <<exe, net, low, settings, session, connect, looping, ticker, tickDue,
                 loop, late, opening, mobile, host, manager, env, history>>

(* Mutant: the loop is kicked only when the network becomes usable. *)
KickIfReachable(was, now) == kick' = (looping /\ (kick \/ (~was /\ now)))

KickNetwork(was, now) == Kick

(* The network has become usable: a session is to be opened, unless one is open. *)
OnNetworkState(n) ==
  LET was == NetworkAllowed(net, settings)
      now == NetworkAllowed(n, settings)
  IN  /\ n # net /\ Spend("event")
      /\ net' = n
      /\ KickNetwork(was, now)
      /\ opening' = IF ~was /\ now THEN opening \cup {"check"} ELSE opening
      /\ UNCHANGED <<exe, fg, low, settings, sessions, looping, ticker, tickDue, loop,
                     late, mobile, host, manager, env, history>>

CheckSession ==
  /\ "check" \in opening
  /\ opening' = IF session > 0 THEN opening \ {"check"}
                ELSE (opening \ {"check"}) \cup {"open"}
  /\ UNCHANGED <<exe, inputs, sessions, wakes, loop, late, mobile, host, manager, env,
                 left, history>>

OnBatteryLow ==
  /\ Spend("event")
  /\ low' = ~low
  /\ Kick
  /\ UNCHANGED <<exe, fg, net, settings, sessions, looping, ticker, tickDue, loop, late,
                 opening, mobile, host, manager, env, history>>

(* Before the gate is armed for the first time there is no database to read. *)
RefreshPowerSettings(s) ==
  /\ looping /\ s # settings /\ Spend("event")
  /\ settings' = s
  /\ Kick
  /\ UNCHANGED <<exe, fg, net, low, sessions, looping, ticker, tickDue, loop, late,
                 opening, mobile, host, manager, env, history>>

(* An alarm opens a session if the conditions hold; so does the poll alarm, when
   a folder has changed.  Otherwise neither has an effect.                      *)
OnTriggerAlarm ==
  /\ NetworkAllowed(net, settings) /\ BatteryAllowed
  /\ Spend("event")
  /\ opening' = opening \cup {"open"}
  /\ UNCHANGED <<exe, inputs, sessions, wakes, loop, late, mobile, host, manager, env,
                 history>>

(* "Sync now" in the UI asks for no condition. *)
SyncNow ==
  /\ Spend("event")
  /\ opening' = opening \cup {"open"}
  /\ UNCHANGED <<exe, inputs, sessions, wakes, loop, late, mobile, host, manager, env,
                 history>>

OpenSyncSession ==
  /\ "open" \in opening
  /\ opening' = opening \ {"open"}
  /\ connect' = IF session > 0 THEN connect ELSE ConnectGrace
  /\ session' = ConnectGrace
  /\ Kick
  /\ busy' = (busy /\ session > 0)
  /\ UNCHANGED <<exe, inputs, grace, looping, ticker, tickDue, loop, late, mobile, host,
                 manager, env, left, lapsed, lost>>

(***************************************************************************)
(* The loop (gate_reconcile.go).                                           *)
(***************************************************************************)
At(pc) == loop.pc = pc

Goto(pc) == loop' = [loop EXCEPT !.pc = pc]

(* Mutant: a kick starts the ticker's interval anew, and its tick is lost. *)
TickAfterKickRearmed == FALSE

TickAfterKick == tickDue

Select ==
  /\ At("select")
  /\ \/ /\ kick /\ kick' = FALSE /\ tickDue' = TickAfterKick
        /\ loop' = [loop EXCEPT !.pc = "look", !.poll = FALSE]
     \/ /\ tickDue /\ tickDue' = FALSE /\ UNCHANGED kick
        /\ loop' = [loop EXCEPT !.pc = "look", !.poll = TRUE]
  /\ UNCHANGED <<exe, inputs, sessions, looping, ticker, late, opening, mobile, host,
                 manager, env, left, history>>

(* Snapshot and decision; what the decision rests on may change before it is
   acted on.                                                                *)
Decide ==
  /\ loop' = [NoPass EXCEPT !.pc = "act", !.want = DesiredRunning, !.path = exe]
  /\ lapsed' = FALSE /\ lost' = FALSE

Look ==
  /\ At("look")
  /\ \/ ~exe /\ Goto("repoll") /\ busy' = FALSE /\ UNCHANGED <<lapsed, lost>>
     \/ exe /\ loop.poll /\ session > 0 /\ Goto("probe") /\ UNCHANGED history
     \/ exe /\ ~(loop.poll /\ session > 0) /\ Decide /\ UNCHANGED busy
  /\ UNCHANGED <<exe, inputs, sessions, wakes, late, opening, mobile, host, manager, env,
                 left>>

(* probeST: what cannot be learned counts as work. *)
Probe ==
  /\ At("probe")
  /\ \/ /\ running
        /\ loop' = [loop EXCEPT !.pc = "extend", !.busy = work, !.peer = peer]
        /\ UNCHANGED left
     \/ /\ \/ running /\ Spend("fault")
           \/ ~running /\ UNCHANGED left
        /\ loop' = [loop EXCEPT !.pc = "extend", !.busy = TRUE, !.peer = FALSE]
  /\ UNCHANGED <<exe, inputs, sessions, wakes, late, opening, mobile, host, manager, env,
                 history>>

Extend ==
  /\ At("extend")
  /\ session' = NextSessionEnd(loop.busy, loop.peer)
  /\ busy' = loop.busy
  /\ Goto("again")
  /\ UNCHANGED <<exe, inputs, connect, grace, wakes, late, opening, mobile, host, manager,
                 env, left, lapsed, lost>>

(* The second snapshot; whether the gate may still start Syncthing is not asked. *)
LookAgain ==
  /\ At("again")
  /\ Decide
  /\ UNCHANGED <<exe, inputs, sessions, wakes, late, opening, mobile, host, manager, env,
                 left, busy>>

(* Starting without a path fails; a Start beside another returns at once. *)
Act ==
  /\ At("act")
  /\ \/ /\ loop.want /\ ~running /\ loop.path
        /\ \/ Manager!BeginStart("loop")
           \/ Manager!Latched /\ UNCHANGED manager
        /\ UNCHANGED lost
     \/ loop.want /\ ~running /\ ~loop.path /\ lost' = TRUE /\ UNCHANGED manager
     \/ ~loop.want /\ running /\ Manager!BeginStop("loop") /\ UNCHANGED lost
     \/ loop.want = running /\ UNCHANGED <<manager, lost>>
  /\ Goto("notify")
  /\ UNCHANGED <<exe, inputs, sessions, wakes, late, opening, mobile, host, env, left,
                 lapsed, busy>>

(* Mutant: only an activity is remembered. *)
RemembersActivity(active) == lastSync \/ active

Remembers(active) == active

(* notifyHost, its part under the lock: an edge is recorded, and told later. *)
Notify(t, active) ==
  LET others == \E u \in {"loop", "stop"} \ {t} : saying[u] # "nothing"
  IN  /\ lastSync' = Remembers(active)
      /\ saying' = [saying EXCEPT ![t] =
                      IF lastSync = active THEN "nothing"
                      ELSE IF active THEN "active" ELSE "inactive"]
      /\ crossed' = IF lastSync = active THEN crossed
                    ELSE others \/ (t = "stop" /\ exe)
      /\ UNCHANGED told

Tell(t) ==
  /\ told' = IF saying[t] = "nothing" THEN told ELSE saying[t] = "active"
  /\ saying' = [saying EXCEPT ![t] = "nothing"]
  /\ UNCHANGED <<lastSync, crossed>>

NotifyHost ==
  /\ At("notify") /\ op["loop"] = "none"
  /\ Notify("loop", loop.want)
  /\ Goto("say")
  /\ UNCHANGED <<exe, inputs, sessions, wakes, late, opening, mobile, manager, env, left,
                 history>>

TellHost ==
  /\ At("say")
  /\ Tell("loop")
  /\ Goto("repoll")
  /\ UNCHANGED <<exe, inputs, sessions, wakes, late, opening, mobile, manager, env, left,
                 history>>

(* Mutant: only a session keeps the ticker running. *)
KeepPollingForSessions == session > 0

KeepPolling == session > 0 \/ grace > 0

(* Mutant: the loop still listens to a ticker that it has stopped. *)
TickPendingAnyway == tickDue

TickPending == tickDue /\ KeepPolling

(* After a pass the ticker is created, kept or stopped. *)
Repoll ==
  /\ At("repoll")
  /\ ticker' = KeepPolling
  /\ tickDue' = TickPending
  /\ loop' = NoPass
  /\ late' = IF kick \/ tickDue' THEN late ELSE 0
  /\ UNCHANGED <<exe, inputs, sessions, looping, kick, opening, mobile, host, manager, env,
                 left, history>>

LoopStep ==
  Select \/ Look \/ Probe \/ Extend \/ LookAgain \/ Act \/ NotifyHost \/ TellHost
  \/ Repoll

(***************************************************************************)
(* mobile.Start and mobile.Stop (wesync.go), initGate and markStopped.     *)
(***************************************************************************)
GotoBoot(b, pc) == boot' = [boot EXCEPT ![b] = pc]

(* Without a cancel function a goroutine is started; with one, nothing happens. *)
Start ==
  /\ holder = NoBoot /\ Spend("start")
  /\ \E b \in Boot : boot[b] = "idle"
  /\ LET free == CHOOSE b \in Boot : boot[b] = "idle"
     IN  GotoBoot(free, "start") /\ holder' = free /\ cancelled' = cancelled \ {free}
  /\ UNCHANGED <<exe, inputs, sessions, wakes, loop, late, opening, stop, host, manager,
                 env, history>>

(* EnsureReady, whose failure ends the goroutine and leaves cancel in place, and the
   call of the manager's Start.                                                    *)
BootStart(b) ==
  /\ boot[b] = "start"
  /\ \/ Manager!BeginStart(b) /\ GotoBoot(b, "wait") /\ UNCHANGED left
     \/ (running \/ Manager!Latched) /\ GotoBoot(b, "init") /\ UNCHANGED <<manager, left>>
     \/ Spend("fault") /\ GotoBoot(b, "idle") /\ UNCHANGED manager
  /\ UNCHANGED <<exe, inputs, sessions, wakes, loop, late, opening, cancelled, holder,
                 stop, host, env, history>>

(* A Start that fails has not left Syncthing running. *)
BootStarted(b) ==
  /\ boot[b] = "wait" /\ op[b] = "none"
  /\ \/ GotoBoot(b, "init")
     \/ ~running /\ GotoBoot(b, "idle")
  /\ UNCHANGED <<exe, inputs, sessions, wakes, loop, late, opening, cancelled, holder,
                 stop, host, manager, env, left, history>>

(* initGate: the gate is armed, and its loop started unless it is there already;
   then the settings are loaded, from a database that opens, and the loop kicked.
   They change while the backend is up only, and every change is followed by a
   RefreshPowerSettings.                                                          *)
InitGate(b) ==
  /\ boot[b] = "init"
  /\ exe' = TRUE /\ looping' = TRUE
  /\ GotoBoot(b, "load")
  /\ UNCHANGED <<inputs, sessions, kick, ticker, tickDue, loop, late, opening, cancelled,
                 holder, stop, host, manager, env, left, history>>

LoadSettings(b) ==
  /\ boot[b] = "load"
  /\ settings' \in IF settings = Unset THEN Settings ELSE {settings}
  /\ Kick
  /\ GotoBoot(b, "run")
  /\ UNCHANGED <<exe, fg, net, low, sessions, looping, ticker, tickDue, loop, late, opening,
                 cancelled, holder, stop, host, manager, env, left, history>>

(* backend.Run returns when it is cancelled or fails; cancel is cleared, whosoever
   it is.                                                                        *)
BootReturn(b) ==
  /\ boot[b] = "run"
  /\ \/ b \in cancelled /\ UNCHANGED left
     \/ b \notin cancelled /\ Spend("fault")
  /\ holder' = NoBoot /\ cancelled' = cancelled \ {b}
  /\ GotoBoot(b, "idle")
  /\ UNCHANGED <<exe, inputs, sessions, wakes, loop, late, opening, stop, host, manager,
                 env, history>>

Stop ==
  /\ stop = "idle" /\ op["stop"] = "none" /\ Spend("stop")
  /\ cancelled' = IF holder = NoBoot THEN cancelled ELSE cancelled \cup {holder}
  /\ holder' = NoBoot
  /\ stop' = "mark"
  /\ UNCHANGED <<exe, inputs, sessions, wakes, loop, late, opening, boot, host, manager,
                 env, history>>

MarkStopped ==
  /\ stop = "mark"
  /\ exe' = FALSE /\ session' = 0 /\ connect' = 0 /\ grace' = 0
  /\ Kick
  /\ busy' = FALSE
  /\ stop' = "tell"
  /\ UNCHANGED <<inputs, looping, ticker, tickDue, loop, late, opening, boot, cancelled,
                 holder, host, manager, env, left, lapsed, lost>>

StopNotify ==
  /\ stop = "tell"
  /\ Notify("stop", FALSE)
  /\ stop' = "say"
  /\ UNCHANGED <<exe, inputs, sessions, wakes, loop, late, opening, boot, cancelled,
                 holder, manager, env, left, history>>

StopTell ==
  /\ stop = "say"
  /\ Tell("stop")
  /\ stop' = "kill"
  /\ UNCHANGED <<exe, inputs, sessions, wakes, loop, late, opening, boot, cancelled,
                 holder, manager, env, left, history>>

StopKill ==
  /\ stop = "kill"
  /\ Manager!BeginStop("stop")
  /\ lost' = TRUE
  /\ stop' = "idle"
  /\ UNCHANGED <<exe, inputs, sessions, wakes, loop, late, opening, boot, cancelled,
                 holder, host, env, left, lapsed, busy>>

StopStep == MarkStopped \/ StopNotify \/ StopTell \/ StopKill

BootStep(b) ==
  BootStart(b) \/ BootStarted(b) \/ InitGate(b) \/ LoadSettings(b) \/ BootReturn(b)

(***************************************************************************)
(* The manager, Syncthing and time.                                        *)
(***************************************************************************)
ManagerSucceeds(t) ==
  /\ Manager!SetRunning(t)
  /\ UNCHANGED <<exe, inputs, sessions, wakes, loop, late, opening, mobile, host, env,
                 left, history>>

(* A Start fails before it has Syncthing running, or gives up waiting for it. *)
ManagerFails(t) ==
  /\ Spend("fault")
  /\ \/ Manager!Withdraw(t)
     \/ Manager!EndStart(t) /\ ~running
  /\ lost' = TRUE
  /\ UNCHANGED <<exe, inputs, sessions, wakes, loop, late, opening, mobile, host, env,
                 lapsed, busy>>

(* A Start also returns when a Stop or an exit has undone it. *)
ManagerReturns(t) ==
  /\ \/ Manager!EndStart(t) /\ (running \/ lost)
     \/ Manager!EndStop(t)
  /\ UNCHANGED <<exe, inputs, sessions, wakes, loop, late, opening, mobile, host, env,
                 left, history>>

SyncthingExits ==
  /\ Manager!Exit /\ Spend("fault")
  /\ lost' = TRUE
  /\ UNCHANGED <<exe, inputs, sessions, wakes, loop, late, opening, mobile, host, env,
                 lapsed, busy>>

(* Syncthing finds work or finishes it, a peer connects or leaves. *)
Progress ==
  /\ Spend("work")
  /\ \/ work' = ~work /\ UNCHANGED peer
     \/ peer' = ~peer /\ UNCHANGED work
  /\ UNCHANGED <<exe, inputs, sessions, wakes, loop, late, opening, mobile, host, manager,
                 history>>

CaughtUp == At("select") /\ ~kick /\ ~tickDue

Less(n) == IF n > 0 THEN n - 1 ELSE 0

(* An interval passes.  A pass of the loop takes no longer than MaxLag of them:
   Start waits for 30 s, the shortest session lasts 120 s.                     *)
Tick ==
  /\ session > 0 \/ grace > 0 \/ ticker
  /\ CaughtUp \/ late < MaxLag
  /\ late' = IF CaughtUp THEN late ELSE late + 1
  /\ session' = Less(session) /\ connect' = Less(connect) /\ grace' = Less(grace)
  /\ tickDue' = ticker
  /\ lapsed' = (lapsed \/ session = 1 \/ grace = 1)
  /\ busy' = (busy /\ session > 1)
  /\ UNCHANGED <<exe, inputs, looping, kick, ticker, loop, opening, mobile, host, manager,
                 env, left, lost>>

(***************************************************************************)
(* The specification.                                                      *)
(***************************************************************************)
Event ==
  \/ OnAppForeground \/ OnBatteryLow \/ OnTriggerAlarm \/ SyncNow
  \/ \E n \in Net : OnNetworkState(n)
  \/ \E s \in Settings : RefreshPowerSettings(s)

Next ==
  \/ Event \/ CheckSession \/ OpenSyncSession
  \/ LoopStep
  \/ Start \/ Stop \/ StopStep
  \/ \E b \in Boot : BootStep(b)
  \/ \E t \in GateThread : ManagerSucceeds(t) \/ ManagerFails(t) \/ ManagerReturns(t)
  \/ SyncthingExits \/ Progress \/ Tick

Spec == Init /\ [][Next]_vars

(* Goroutines run, calls of the manager return, and time passes. *)
Fairness ==
  /\ WF_vars(LoopStep) /\ WF_vars(CheckSession) /\ WF_vars(OpenSyncSession)
  /\ WF_vars(StopStep) /\ \A b \in Boot : WF_vars(BootStep(b))
  /\ \A t \in GateThread : WF_vars(ManagerSucceeds(t)) /\ WF_vars(ManagerReturns(t))
  /\ WF_vars(Tick)

FairSpec == Spec /\ Fairness

(***************************************************************************)
(* Properties.                                                             *)
(***************************************************************************)
(* Nothing is in progress, and no deadline has passed that the loop has yet to
   learn of.                                                                  *)
Settled ==
  /\ CaughtUp /\ opening = {} /\ ~lapsed
  /\ stop = "idle" /\ \A b \in Boot : boot[b] \in {"idle", "run"}
  /\ \A t \in GateThread : op[t] = "none"

(* What docs/power-gate.md asks for: the UI needs Syncthing, or a session is open on
   a network and a battery that allow it.                                           *)
Permitted ==
  \/ fg \/ grace > 0
  \/ /\ session > 0
     /\ settings.block => ~net.roaming /\ ~(net.metered /\ net.activeWifi)
     /\ settings.mode = "any_wifi" => net.hasWifi
     /\ settings.mode = "trusted_wifi" => net.hasWifi /\ net.ssid \in settings.trusted
     /\ ~(settings.pauseLow /\ low)

(* Whenever an armed gate has settled, Syncthing runs exactly if it is permitted,
   whatever events overlapped; it may be missing only after it was lost.         *)
DecisionObeyed ==
  Settled /\ exe => (running => Permitted) /\ (Permitted => running \/ lost)

(* While a deadline is pending the idle loop has a ticker, so that nobody needs to
   kick it when the deadline passes.                                              *)
DeadlinesAreWatched ==
  CaughtUp /\ looping /\ (\A b \in Boot : boot[b] # "load")
  /\ (session > 0 \/ grace > 0) => ticker

(* A settled host holds the radio and the CPU exactly while Syncthing is wanted,
   unless loop and Stop have told it at the same time.                          *)
HostFollows ==
  Settled /\ exe /\ ~crossed => told = Permitted

(* A sync is not interrupted: a session whose last probe found work never lapses,
   however the events fall between the polls.                                    *)
NeverInterrupted == [][Tick /\ exe /\ session > 0 /\ session' = 0 => ~busy]_vars

(* With nothing to do and nobody to wait for, a session ends. *)
SessionEnds == []<>(session = 0 \/ work \/ ~running)

(* "A kick racing this teardown can't bring ST back up": after mobile.Stop, and until
   the next mobile.Start, Syncthing is not running.  Violated: a pass of the loop that
   has made its decision starts it.                                                  *)
StoppedStaysDown ==
  looping /\ ~exe /\ stop = "idle" /\ op["stop"] = "none" /\ holder = NoBoot
  /\ (\A b \in Boot : boot[b] = "idle") => ~running
=============================================================================
