----------------------------- MODULE GateProofs -----------------------------
(***************************************************************************)
(* Theorems about Gate, for any networks, settings, durations and bounds:  *)
(* type correctness; the watch that the loop keeps over deadlines; that the*)
(* settled gate has done what its decision asks for, and the host knows;   *)
(* and that the polls of a session come in time to keep a sync going.      *)
(***************************************************************************)
EXTENDS Gate, TLAPS

USE DEF inputs, sessions, wakes, mobile, host, manager, env, history

(* The manager's steps keep the manager's types. *)
LEMMA ManagerTypes ==
  ASSUME Manager!TypeOK, NEW t \in GateThread,
         \/ Manager!BeginStart(t) \/ Manager!SetRunning(t) \/ Manager!Withdraw(t)
         \/ Manager!EndStart(t) \/ Manager!BeginStop(t) \/ Manager!EndStop(t)
         \/ Manager!Exit \/ UNCHANGED <<running, op>>
  PROVE  Manager!TypeOK'
BY DEF Manager!TypeOK, Manager!Op, Manager!BeginStart, Manager!SetRunning,
       Manager!Withdraw, Manager!EndStart, Manager!BeginStop, Manager!EndStop, Manager!Exit

LEMMA SpendType ==
  ASSUME left \in [Kind -> Nat], NEW kind \in Kind, Spend(kind)
  PROVE  left' \in [Kind -> Nat]
BY DEF Spend

LEMMA GotoType ==
  ASSUME loop \in Pass, NEW pc \in LoopPc, Goto(pc)
  PROVE  loop' \in Pass
BY DEF Pass, Goto

LEMMA NoPassType == NoPass \in Pass
BY DEF NoPass, Pass, LoopPc

LEMMA EventTypes ==
  ASSUME TypeOK, Event \/ CheckSession \/ OpenSyncSession \/ Progress
  PROVE  TypeOK'
<1> USE GateAssumption DEF TypeOK
<1>1. {"event", "work"} \subseteq Kind
  BY DEF Kind
<1>2. Manager!TypeOK'
  BY ManagerTypes DEF GateThread, Event, OnAppForeground, OnBatteryLow, OnTriggerAlarm, SyncNow, OnNetworkState,
     RefreshPowerSettings, CheckSession, OpenSyncSession, Progress
<1>3. left' \in [Kind -> Nat]
  BY SpendType, <1>1 DEF Event, OnAppForeground, OnBatteryLow, OnTriggerAlarm, SyncNow,
     OnNetworkState, RefreshPowerSettings, CheckSession, OpenSyncSession, Progress
<1>4. CASE OnAppForeground
  BY <1>2, <1>3, <1>4 DEF OnAppForeground, Kick
<1>5. CASE OnBatteryLow
  BY <1>2, <1>3, <1>5 DEF OnBatteryLow, Kick
<1>6. CASE OnTriggerAlarm \/ SyncNow
  <2>1. opening' = opening \cup {"open"}
    BY <1>6 DEF OnTriggerAlarm, SyncNow
  <2>2. opening' \subseteq {"check", "open"}
    BY <2>1
  <2>3. UNCHANGED <<exe, inputs, sessions, wakes, loop, late, mobile, host, manager, env,
                    history>>
    BY <1>6 DEF OnTriggerAlarm, SyncNow
  <2>4. QED
    BY <1>3, <2>2, <2>3, <1>2
<1>7. CASE \E n \in Net : OnNetworkState(n)
  BY <1>2, <1>3, <1>7 DEF OnNetworkState, KickNetwork, Kick
<1>8. CASE \E s \in Settings : RefreshPowerSettings(s)
  BY <1>2, <1>3, <1>8 DEF RefreshPowerSettings, Kick
<1>9. CASE CheckSession
  BY <1>2, <1>3, <1>9 DEF CheckSession
<1>10. CASE OpenSyncSession
  BY <1>2, <1>3, <1>10 DEF OpenSyncSession, Kick
<1>11. CASE Progress
  <2>1. work' \in BOOLEAN /\ peer' \in BOOLEAN
    BY <1>11 DEF Progress
  <2>2. UNCHANGED <<exe, inputs, sessions, wakes, loop, late, opening, mobile, host,
                    manager, history>>
    BY <1>11 DEF Progress
  <2>3. QED
    BY <1>2, <1>3, <2>1, <2>2
<1>12. QED
  BY <1>4, <1>5, <1>6, <1>7, <1>8, <1>9, <1>10, <1>11 DEF Event

LEMMA LoopTypes ==
  ASSUME TypeOK, LoopStep
  PROVE  TypeOK'
<1> USE DEF TypeOK
<1>1. /\ loop \in Pass /\ "loop" \in GateThread
      /\ UNCHANGED manager => Manager!TypeOK'
  BY ManagerTypes DEF GateThread
<1>2. ASSUME Decide PROVE loop' \in Pass
  <2>1. DesiredRunning \in BOOLEAN
    BY DEF DesiredRunning
  <2>2. QED
    BY <1>2, <2>1, NoPassType DEF Decide, Pass, LoopPc
<1>3. ASSUME NEW active \in BOOLEAN, NEW t \in {"loop", "stop"}, Notify(t, active)
      PROVE  /\ lastSync' \in BOOLEAN /\ told' \in BOOLEAN /\ crossed' \in BOOLEAN
             /\ saying' \in [{"loop", "stop"} -> {"nothing", "active", "inactive"}]
  BY <1>3 DEF Notify, Remembers
<1>4. CASE Select
  <2>1. loop' \in Pass
    BY ZenonT(60), <1>1, <1>4 DEF Select, Pass, LoopPc
  <2>2. kick' \in BOOLEAN /\ tickDue' \in BOOLEAN /\ (tickDue' => ticker)
    <3>1. CASE kick' = FALSE /\ tickDue' = tickDue /\ UNCHANGED ticker
      BY <3>1
    <3>2. CASE tickDue' = FALSE /\ UNCHANGED kick
      BY <3>2
    <3>3. QED
      BY <1>4, <3>1, <3>2 DEF Select, TickAfterKick
  <2>3. QED
    BY <1>1, <1>4, <2>1, <2>2 DEF Select
<1>5. CASE Look
  <2>1. loop' \in Pass
    BY <1>1, <1>2, <1>5, GotoType DEF Look, LoopPc
  <2>2. lapsed' \in BOOLEAN /\ lost' \in BOOLEAN /\ busy' \in BOOLEAN
    BY <1>5 DEF Look, Decide
  <2>3. QED
    BY <1>1, <1>5, <2>1, <2>2 DEF Look
<1>6. CASE Probe
  <2>1. loop' \in Pass
    BY ZenonT(60), <1>1, <1>6 DEF Probe, Pass, LoopPc
  <2>2. left' \in [Kind -> Nat]
    BY <1>6, SpendType DEF Probe, Kind
  <2>3. QED
    BY <1>1, <1>6, <2>1, <2>2 DEF Probe
<1>7. CASE Extend
  <2>1. loop' \in Pass
    BY <1>1, <1>7, GotoType DEF Extend, LoopPc
  <2>2. session' \in 0..ActiveSyncExtend
    BY <1>7, GateAssumption DEF Extend, NextSessionEnd
  <2>3. busy' \in BOOLEAN
    BY <1>1, <1>7 DEF Extend, Pass
  <2>4. QED
    BY <1>1, <1>7, <2>1, <2>2, <2>3 DEF Extend
<1>8. CASE LookAgain
  <2>1. loop' \in Pass /\ lapsed' \in BOOLEAN /\ lost' \in BOOLEAN
    BY <1>2, <1>8 DEF LookAgain, Decide
  <2>2. QED
    BY <1>1, <1>8, <2>1 DEF LookAgain
<1>9. CASE Act
  <2>1. loop' \in Pass
    BY <1>1, <1>9, GotoType DEF Act, LoopPc
  <2>2. Manager!TypeOK' /\ lost' \in BOOLEAN
    BY <1>1, <1>9, ManagerTypes DEF Act
  <2>3. QED
    BY <1>9, <2>1, <2>2 DEF Act
<1>10. CASE NotifyHost
  <2>1. loop' \in Pass
    BY <1>1, <1>10, GotoType DEF NotifyHost, LoopPc
  <2>2. loop.want \in BOOLEAN
    BY <1>1 DEF Pass
  <2>3. /\ lastSync' \in BOOLEAN /\ told' \in BOOLEAN /\ crossed' \in BOOLEAN
        /\ saying' \in [{"loop", "stop"} -> {"nothing", "active", "inactive"}]
    BY <1>3, <1>10, <2>2 DEF NotifyHost
  <2>4. QED
    BY <1>1, <1>10, <2>1, <2>3 DEF NotifyHost
<1>11. CASE TellHost
  <2>1. loop' \in Pass
    BY <1>1, <1>11, GotoType DEF TellHost, LoopPc
  <2>2. told' \in BOOLEAN
        /\ saying' \in [{"loop", "stop"} -> {"nothing", "active", "inactive"}]
    BY <1>11 DEF TellHost, Tell
  <2>3. QED
    BY <1>1, <1>11, <2>1, <2>2 DEF TellHost, Tell
<1>12. CASE Repoll
  <2>1. KeepPolling \in BOOLEAN
    BY DEF KeepPolling
  <2>2. late' \in 0..MaxLag
    BY <1>12, GateAssumption DEF Repoll
  <2>3. ticker' \in BOOLEAN /\ tickDue' \in BOOLEAN /\ (tickDue' => ticker')
    BY <1>12, <2>1 DEF Repoll, TickPending
  <2>4. loop' \in Pass
    BY <1>12, NoPassType DEF Repoll
  <2>5. QED
    BY <1>1, <1>12, <2>2, <2>3, <2>4 DEF Repoll
<1>13. QED
  BY <1>4, <1>5, <1>6, <1>7, <1>8, <1>9, <1>10, <1>11, <1>12 DEF LoopStep

LEMMA BackendTypes ==
  ASSUME TypeOK, Start \/ Stop \/ StopStep \/ \E b \in Boot : BootStep(b)
  PROVE  TypeOK'
<1> USE DEF TypeOK
<1>1. /\ Boot \subseteq GateThread /\ "stop" \in GateThread
      /\ UNCHANGED manager => Manager!TypeOK'
  <2>1. Boot \subseteq GateThread /\ {"loop", "stop"} \subseteq GateThread
    BY DEF GateThread
  <2>2. QED
    BY <2>1, ManagerTypes
<1>2. ASSUME NEW b \in Boot, NEW pc \in BootPc, GotoBoot(b, pc)
      PROVE  boot' \in [Boot -> BootPc]
  BY <1>2 DEF GotoBoot
<1>3. CASE Start
  <2>1. PICK b \in Boot : GotoBoot(b, "start") /\ holder' = b /\ cancelled' = cancelled \ {b}
    BY <1>3 DEF Start
  <2>2. boot' \in [Boot -> BootPc]
    BY <1>2, <2>1 DEF BootPc
  <2>3. left' \in [Kind -> Nat]
    BY <1>3, SpendType DEF Start, Kind
  <2>4. QED
    BY <1>1, <1>3, <2>1, <2>2, <2>3 DEF Start
<1>4. ASSUME NEW b \in Boot, BootStart(b)
      PROVE  TypeOK'
  <2>1. boot' \in [Boot -> BootPc]
    BY <1>2, <1>4 DEF BootStart, BootPc
  <2>2. left' \in [Kind -> Nat]
    BY <1>4, SpendType DEF BootStart, Kind
  <2>3. Manager!TypeOK'
    BY <1>1, <1>4, ManagerTypes DEF BootStart
  <2>4. QED
    BY <1>4, <2>1, <2>2, <2>3 DEF BootStart
<1>5. ASSUME NEW b \in Boot, BootStarted(b)
      PROVE  TypeOK'
  <2>1. boot' \in [Boot -> BootPc]
    BY <1>2, <1>5 DEF BootStarted, BootPc
  <2>2. QED
    BY <1>1, <1>5, <2>1 DEF BootStarted
<1>6. ASSUME NEW b \in Boot, InitGate(b)
      PROVE  TypeOK'
  <2>1. boot' \in [Boot -> BootPc]
    BY <1>2, <1>6 DEF InitGate, BootPc
  <2>2. QED
    BY <1>1, <1>6, <2>1 DEF InitGate
<1>7. ASSUME NEW b \in Boot, LoadSettings(b)
      PROVE  TypeOK'
  <2>1. boot' \in [Boot -> BootPc]
    BY <1>2, <1>7 DEF LoadSettings, BootPc
  <2>2. QED
    BY <1>1, <1>7, <2>1 DEF LoadSettings, Kick
<1>8. ASSUME NEW b \in Boot, BootReturn(b)
      PROVE  TypeOK'
  <2>1. boot' \in [Boot -> BootPc]
    BY <1>2, <1>8 DEF BootReturn, BootPc
  <2>2. left' \in [Kind -> Nat]
    BY <1>8, SpendType DEF BootReturn, Kind
  <2>3. QED
    BY <1>1, <1>8, <2>1, <2>2 DEF BootReturn
<1>9. CASE Stop
  <2>1. left' \in [Kind -> Nat]
    BY <1>9, SpendType DEF Stop, Kind
  <2>2. cancelled' \subseteq Boot
    BY <1>9 DEF Stop
  <2>3. QED
    BY <1>1, <1>9, <2>1, <2>2 DEF Stop, StopPc
<1>10. CASE MarkStopped
  <2>1. 0 \in 0..ActiveSyncExtend /\ 0 \in 0..ConnectGrace /\ 0 \in 0..ForegroundGrace
    BY GateAssumption
  <2>2. kick' \in BOOLEAN
    BY <1>10 DEF MarkStopped, Kick
  <2>3. /\ session' \in 0..ActiveSyncExtend /\ connect' \in 0..ConnectGrace
        /\ grace' \in 0..ForegroundGrace
        /\ exe' \in BOOLEAN /\ busy' \in BOOLEAN /\ stop' \in StopPc
    BY <1>10, <2>1 DEF MarkStopped, StopPc
  <2>4. UNCHANGED <<inputs, looping, ticker, tickDue, loop, late, opening, boot, cancelled,
                    holder, host, manager, env, left, lapsed, lost>>
    BY <1>10 DEF MarkStopped
  <2>5. QED
    BY <1>1, <2>2, <2>3, <2>4
<1>11. CASE StopNotify
  <2>1. /\ lastSync' \in BOOLEAN /\ told' \in BOOLEAN /\ crossed' \in BOOLEAN
        /\ saying' \in [{"loop", "stop"} -> {"nothing", "active", "inactive"}]
    BY <1>11 DEF StopNotify, Notify, Remembers
  <2>2. QED
    BY <1>1, <1>11, <2>1 DEF StopNotify, StopPc
<1>12. CASE StopTell
  <2>1. /\ told' \in BOOLEAN
        /\ saying' \in [{"loop", "stop"} -> {"nothing", "active", "inactive"}]
    BY <1>12 DEF StopTell, Tell
  <2>2. QED
    BY <1>1, <1>12, <2>1 DEF StopTell, Tell, StopPc
<1>13. CASE StopKill
  <2>1. Manager!TypeOK'
    BY <1>1, <1>13, ManagerTypes DEF StopKill
  <2>2. QED
    BY <1>13, <2>1 DEF StopKill, StopPc
<1>14. QED
  BY <1>3, <1>4, <1>5, <1>6, <1>7, <1>8, <1>9, <1>10, <1>11, <1>12, <1>13
     DEF BootStep, StopStep

LEMMA WorldTypes ==
  ASSUME TypeOK,
         \/ SyncthingExits \/ Tick
         \/ \E t \in GateThread : ManagerSucceeds(t) \/ ManagerFails(t) \/ ManagerReturns(t)
  PROVE  TypeOK'
<1> USE DEF TypeOK
<1>1. UNCHANGED manager => Manager!TypeOK'
  BY ManagerTypes DEF GateThread
<1>2. ASSUME NEW t \in GateThread, ManagerSucceeds(t) PROVE TypeOK'
  <2>1. Manager!TypeOK'
    BY <1>2, ManagerTypes DEF ManagerSucceeds
  <2>2. QED
    BY <1>2, <2>1 DEF ManagerSucceeds
<1>3. ASSUME NEW t \in GateThread, ManagerFails(t) PROVE TypeOK'
  <2>1. Manager!TypeOK'
    BY <1>3, ManagerTypes DEF ManagerFails
  <2>2. left' \in [Kind -> Nat]
    BY <1>3, SpendType DEF ManagerFails, Kind
  <2>3. QED
    BY <1>3, <2>1, <2>2 DEF ManagerFails
<1>4. ASSUME NEW t \in GateThread, ManagerReturns(t) PROVE TypeOK'
  <2>1. Manager!TypeOK'
    BY <1>4, ManagerTypes DEF ManagerReturns
  <2>2. QED
    BY <1>4, <2>1 DEF ManagerReturns
<1>5. CASE SyncthingExits
  <2>1. Manager!TypeOK'
    BY <1>5, ManagerTypes DEF SyncthingExits, GateThread
  <2>2. left' \in [Kind -> Nat]
    BY <1>5, SpendType DEF SyncthingExits, Kind
  <2>3. QED
    BY <1>5, <2>1, <2>2 DEF SyncthingExits
<1>6. CASE Tick
  <2>1. /\ session' \in 0..ActiveSyncExtend
        /\ connect' \in 0..ConnectGrace /\ grace' \in 0..ForegroundGrace
    BY <1>6, GateAssumption DEF Tick, Less
  <2>2. late' \in 0..MaxLag
    BY <1>6, GateAssumption DEF Tick
  <2>3. lapsed' \in BOOLEAN /\ busy' \in BOOLEAN
    BY <1>6 DEF Tick
  <2>4. QED
    BY <1>1, <1>6, <2>1, <2>2, <2>3 DEF Tick
<1>7. QED
  BY <1>2, <1>3, <1>4, <1>5, <1>6

(* Every variable keeps its type, and no deadline is further ahead than the code's
   durations allow.                                                               *)
THEOREM TypeCorrect == Spec => []TypeOK
<1>1. Init => TypeOK
  <2>1. Manager!Init => Manager!TypeOK
    BY DEF Manager!Init, Manager!TypeOK, Manager!Op
  <2>2. /\ 0 \in 0..ActiveSyncExtend /\ 0 \in 0..ConnectGrace
        /\ 0 \in 0..ForegroundGrace /\ 0 \in 0..MaxLag
    BY GateAssumption
  <2>3. Init => boot \in [Boot -> BootPc] /\ left \in [Kind -> Nat]
    BY GateAssumption DEF Init, BootPc
  <2>4. Init => saying \in [{"loop", "stop"} -> {"nothing", "active", "inactive"}]
    BY DEF Init
  <2>5. QED
    BY <2>1, <2>2, <2>3, <2>4, NoPassType DEF Init, TypeOK, StopPc
<1>2. TypeOK /\ [Next]_vars => TypeOK'
  <2> SUFFICES ASSUME TypeOK, [Next]_vars PROVE TypeOK'
    OBVIOUS
  <2>1. CASE Next
    BY <2>1, EventTypes, LoopTypes, BackendTypes, WorldTypes DEF Next
  <2>2. CASE UNCHANGED vars
    <3>1. Manager!TypeOK'
      BY <2>2, ManagerTypes DEF vars, TypeOK, GateThread
    <3>2. QED
      BY <2>2, <3>1 DEF vars, TypeOK
  <2>3. QED
    BY <2>1, <2>2
<1>3. QED
  BY <1>1, <1>2, PTL DEF Spec

(***************************************************************************)
(* The watch over deadlines.  A step either leaves the deadlines and the   *)
(* loop alone, or kicks the loop, or is a step of the loop; and a pass ends*)
(* with a look at the deadlines.                                           *)
(***************************************************************************)
(* A step that kicks leaves the loop something to do. *)
LEMMA KickedIsWatched ==
  ASSUME TypeOK, Kick, UNCHANGED looping
  PROVE  DeadlinesAreWatched'
BY DEF TypeOK, Kick, DeadlinesAreWatched, CaughtUp

(* A step that concerns none of this, and leaves no goroutine about to kick. *)
LEMMA AsideIsWatched ==
  ASSUME TypeOK, DeadlinesAreWatched, UNCHANGED <<session, grace, wakes, loop>>,
         \A b \in Boot : boot[b] = "load" => boot'[b] = "load"
  PROVE  DeadlinesAreWatched'
BY DEF DeadlinesAreWatched, CaughtUp, At

LEMMA LoopWatches ==
  ASSUME TypeOK, DeadlinesAreWatched, LoopStep
  PROVE  DeadlinesAreWatched'
<1>1. loop \in Pass
  BY DEF TypeOK
<1>2. ASSUME loop'.pc # "select" PROVE DeadlinesAreWatched'
  BY <1>2 DEF DeadlinesAreWatched, CaughtUp, At
<1>3. CASE Repoll
  <2>1. ticker' = (session' > 0 \/ grace' > 0)
    BY <1>3 DEF Repoll, KeepPolling
  <2>2. QED
    BY <2>1 DEF DeadlinesAreWatched
<1>4. CASE Select \/ Look \/ Probe \/ Extend \/ LookAgain \/ Act \/ NotifyHost \/ TellHost
  <2>1. ASSUME NEW pc \in LoopPc, Goto(pc), pc # "select" PROVE loop'.pc # "select"
    BY <1>1, <2>1 DEF Goto, Pass
  <2>2. ASSUME Decide PROVE loop'.pc # "select"
    BY <2>2 DEF Decide, NoPass
  <2>3. loop'.pc # "select"
    BY <1>1, <1>4, <2>1, <2>2
       DEF Select, Look, Probe, Extend, LookAgain, Act, NotifyHost, TellHost, Pass, LoopPc
  <2>4. QED
    BY <1>2, <2>3
<1>5. QED
  BY <1>3, <1>4 DEF LoopStep

LEMMA BackendWatches ==
  ASSUME TypeOK, DeadlinesAreWatched, NEW b \in Boot, BootStep(b)
  PROVE  DeadlinesAreWatched'
<1>1. boot \in [Boot -> BootPc]
  BY DEF TypeOK
<1>2. ASSUME NEW pc \in BootPc, GotoBoot(b, pc), boot[b] # "load"
      PROVE  \A c \in Boot : boot[c] = "load" => boot'[c] = "load"
  BY <1>1, <1>2 DEF GotoBoot
<1>3. CASE BootStart(b)
  BY <1>2, <1>3, AsideIsWatched DEF BootStart, BootPc
<1>4. CASE BootStarted(b)
  BY <1>2, <1>4, AsideIsWatched DEF BootStarted, BootPc
<1>5. CASE InitGate(b)
  BY <1>1, <1>5 DEF InitGate, GotoBoot, DeadlinesAreWatched
<1>6. CASE LoadSettings(b)
  BY <1>6, KickedIsWatched DEF LoadSettings
<1>7. CASE BootReturn(b)
  BY <1>2, <1>7, AsideIsWatched DEF BootReturn, BootPc
<1>8. QED
  BY <1>3, <1>4, <1>5, <1>6, <1>7 DEF BootStep

LEMMA TimeIsWatched ==
  ASSUME TypeOK, DeadlinesAreWatched, Tick
  PROVE  DeadlinesAreWatched'
<1>1. /\ session' > 0 => session > 0
      /\ grace' > 0 => grace > 0
  BY GateAssumption DEF TypeOK, Tick, Less
<1>2. tickDue' = ticker /\ UNCHANGED <<looping, kick, ticker, loop, boot>>
  BY DEF Tick
<1>3. CASE CaughtUp
  BY <1>1, <1>2, <1>3 DEF DeadlinesAreWatched, CaughtUp, At
<1>4. CASE ~CaughtUp
  BY <1>1, <1>2, <1>4 DEF DeadlinesAreWatched, CaughtUp, At, TypeOK
<1>5. QED
  BY <1>3, <1>4

(* While a deadline is pending the idle loop has a ticker, whatever the events, the
   passes of the loop and the restarts of the backend.                            *)
THEOREM WatchIsKept == Spec => []DeadlinesAreWatched
<1>1. Init => DeadlinesAreWatched
  BY DEF Init, DeadlinesAreWatched
<1>2. TypeOK /\ DeadlinesAreWatched /\ [Next]_vars => DeadlinesAreWatched'
  <2> SUFFICES ASSUME TypeOK, DeadlinesAreWatched, [Next]_vars
               PROVE  DeadlinesAreWatched'
    OBVIOUS
  <2>1. CASE Event \/ CheckSession \/ OpenSyncSession
    BY <2>1, KickedIsWatched, AsideIsWatched
       DEF Event, OnAppForeground, OnBatteryLow, OnTriggerAlarm, SyncNow, OnNetworkState,
           KickNetwork, RefreshPowerSettings, CheckSession, OpenSyncSession
  <2>2. CASE LoopStep
    BY <2>2, LoopWatches
  <2>3. CASE Start
    <3>1. PICK b \in Boot : boot[b] = "idle" /\ GotoBoot(b, "start")
      BY <2>3 DEF Start
    <3>2. \A c \in Boot : boot[c] = "load" => boot'[c] = "load"
      BY <3>1 DEF GotoBoot, TypeOK
    <3>3. QED
      BY <2>3, <3>2, AsideIsWatched DEF Start
  <2>4. CASE Stop \/ StopStep
    BY <2>4, KickedIsWatched, AsideIsWatched
       DEF Stop, StopStep, MarkStopped, StopNotify, StopTell, StopKill
  <2>5. CASE \E b \in Boot : BootStep(b)
    BY <2>5, BackendWatches
  <2>6. CASE \/ SyncthingExits \/ Progress \/ UNCHANGED vars
             \/ \E t \in GateThread :
                   ManagerSucceeds(t) \/ ManagerFails(t) \/ ManagerReturns(t)
    BY <2>6, AsideIsWatched
       DEF SyncthingExits, Progress, vars, ManagerSucceeds, ManagerFails, ManagerReturns
  <2>7. CASE Tick
    BY <2>7, TimeIsWatched
  <2>8. QED
    BY <2>1, <2>2, <2>3, <2>4, <2>5, <2>6, <2>7 DEF Next
<1>3. QED
  BY <1>1, <1>2, TypeCorrect, PTL DEF Spec

(***************************************************************************)
(* The decision.  It is fresh while the gate is armed, no kick is waiting, *)
(* no deadline has passed unnoticed and no goroutine is about to kick: what*)
(* it rests on has then not changed since it was made.                     *)
(***************************************************************************)
Fresh == exe /\ ~kick /\ ~lapsed /\ \A b \in Boot : boot[b] # "load"

Booting == \E b \in Boot : boot[b] \in {"wait", "init"}

Armed == (exe \/ \E b \in Boot : boot[b] = "load") => looping

Callers ==
  /\ op["loop"] = "starting" => loop.pc = "notify" /\ loop.want
  /\ op["stop"] # "starting"
  /\ \A b \in Boot : op[b] = "starting" => boot[b] = "wait"

Wanted == Fresh /\ loop.pc \in {"act", "notify", "say"} => loop.want = DesiredRunning

(* A goroutine of mobile.Start may have started Syncthing against the decision: it
   kicks the loop when it is done.                                                *)
Followed ==
  Fresh /\ loop.pc \in {"notify", "say", "repoll", "select"} =>
    /\ running => DesiredRunning \/ Booting
    /\ DesiredRunning => running \/ lost \/ Manager!Latched

DecisionInv == Armed /\ Callers /\ Wanted /\ Followed

(* The decision is what docs/power-gate.md asks for. *)
LEMMA DesiredIsPermitted ==
  ASSUME TypeOK
  PROVE  DesiredRunning = Permitted
<1>1. settings.trusted \subseteq Ssid /\ NoSsid \notin Ssid
  <2>1. \A s \in Settings : s.trusted \in SUBSET Ssid
    BY GateAssumption
  <2>2. Unset.trusted = {}
    BY DEF Unset
  <2>3. QED
    BY <2>1, <2>2, GateAssumption DEF TypeOK
<1>2. NetworkAllowed(net, settings) =
        (/\ settings.block => ~net.roaming /\ ~(net.metered /\ net.activeWifi)
         /\ settings.mode = "any_wifi" => net.hasWifi
         /\ settings.mode = "trusted_wifi" => net.hasWifi /\ net.ssid \in settings.trusted)
  BY <1>1 DEF NetworkAllowed
<1>3. QED
  BY <1>2 DEF DesiredRunning, BatteryAllowed, Permitted

(* The decision depends on the inputs, and on which deadlines lie ahead. *)
LEMMA DesiredStays ==
  ASSUME UNCHANGED inputs, (session > 0)' = (session > 0), (grace > 0)' = (grace > 0)
  PROVE  DesiredRunning' = DesiredRunning
BY DEF DesiredRunning, NetworkAllowed, BatteryAllowed

LEMMA GotoBootEffect ==
  ASSUME boot \in [Boot -> BootPc], NEW b \in Boot, NEW pc, GotoBoot(b, pc)
  PROVE  boot'[b] = pc /\ \A c \in Boot \ {b} : boot'[c] = boot[c]
BY DEF GotoBoot

(* The effect of a step of the loop on its pass. *)
LEMMA GotoEffect ==
  ASSUME loop \in Pass, NEW pc, Goto(pc)
  PROVE  loop'.pc = pc /\ loop'.want = loop.want /\ loop'.poll = loop.poll
BY DEF Goto, Pass

LEMMA DecideEffect ==
  ASSUME Decide
  PROVE  loop'.pc = "act" /\ loop'.want = DesiredRunning /\ loop'.poll = FALSE
BY DEF Decide, NoPass

(* Steps of the loop that come before the decision, or make it. *)
Deciding == Select \/ Look \/ Probe \/ Extend \/ LookAgain

(* The other steps leave the decision fresh only if nothing it rests on changed. *)
LEMMA FreshStays ==
  ASSUME TypeOK, Armed, [Next]_vars, ~Deciding, Fresh'
  PROVE  Fresh /\ DesiredRunning' = DesiredRunning
<1>1. CASE /\ UNCHANGED <<exe, inputs, session, grace, kick, lapsed>>
           /\ \A b \in Boot : boot[b] = "load" => boot'[b] = "load"
  BY <1>1, DesiredStays DEF Fresh
<1>2. ASSUME Kick, UNCHANGED looping, exe' => exe \/ \E b \in Boot : boot[b] = "load"
      PROVE  FALSE
  BY <1>2 DEF Armed, Fresh, Kick
<1>3. CASE Event \/ CheckSession \/ OpenSyncSession
  BY <1>1, <1>2, <1>3 DEF Event, OnAppForeground, OnBatteryLow, OnTriggerAlarm, SyncNow,
     OnNetworkState, KickNetwork, RefreshPowerSettings, CheckSession, OpenSyncSession
<1>4. CASE LoopStep
  BY <1>1, <1>4 DEF LoopStep, Deciding, Act, NotifyHost, TellHost, Repoll
<1>5. CASE Start
  <2>1. PICK b \in Boot : boot[b] = "idle" /\ GotoBoot(b, "start")
    BY <1>5 DEF Start
  <2>2. QED
    BY <1>1, <1>5, <2>1, GotoBootEffect DEF Start, TypeOK
<1>6. CASE Stop \/ StopStep
  BY <1>1, <1>6 DEF Stop, StopStep, MarkStopped, StopNotify, StopTell, StopKill, Fresh
<1>7. ASSUME NEW b \in Boot, BootStep(b)
      PROVE  Fresh /\ DesiredRunning' = DesiredRunning
  <2>1. ASSUME NEW pc, GotoBoot(b, pc), boot[b] # "load"
        PROVE  \A c \in Boot : boot[c] = "load" => boot'[c] = "load"
    BY <2>1, GotoBootEffect DEF TypeOK
  <2>2. CASE BootStart(b)
    BY <1>1, <2>1, <2>2 DEF BootStart
  <2>3. CASE BootStarted(b)
    BY <1>1, <2>1, <2>3 DEF BootStarted
  <2>4. CASE InitGate(b)
    BY <2>4, GotoBootEffect DEF InitGate, Fresh, TypeOK
  <2>5. CASE LoadSettings(b)
    BY <1>2, <2>5 DEF LoadSettings
  <2>6. CASE BootReturn(b)
    BY <1>1, <2>1, <2>6 DEF BootReturn
  <2>7. QED
    BY <1>7, <2>2, <2>3, <2>4, <2>5, <2>6 DEF BootStep
<1>8. CASE \/ SyncthingExits \/ Progress \/ UNCHANGED vars
           \/ \E t \in GateThread :
                 ManagerSucceeds(t) \/ ManagerFails(t) \/ ManagerReturns(t)
  BY <1>1, <1>8
     DEF SyncthingExits, Progress, vars, ManagerSucceeds, ManagerFails, ManagerReturns
<1>9. CASE Tick
  <2>1. ~lapsed /\ session # 1 /\ grace # 1
    BY <1>9 DEF Tick, Fresh
  <2>2. session \in Nat /\ grace \in Nat
    BY GateAssumption DEF TypeOK
  <2>3. (session > 0)' = (session > 0) /\ (grace > 0)' = (grace > 0)
    BY <1>9, <2>1, <2>2 DEF Tick, Less
  <2>4. UNCHANGED <<exe, inputs, kick, boot>>
    BY <1>9 DEF Tick
  <2>5. QED
    BY <2>1, <2>3, <2>4, DesiredStays DEF Fresh
<1>10. QED
  BY <1>3, <1>4, <1>5, <1>6, <1>7, <1>8, <1>9 DEF Next

(* Only the loop changes its pass. *)
LEMMA PassIsOurs ==
  ASSUME [Next]_vars, ~LoopStep
  PROVE  UNCHANGED loop
BY DEF Next, vars, Event, OnAppForeground, OnBatteryLow, OnTriggerAlarm, SyncNow,
   OnNetworkState, RefreshPowerSettings, CheckSession, OpenSyncSession, Start, Stop, StopStep,
   MarkStopped, StopNotify, StopTell, StopKill, BootStep, BootStart, BootStarted, InitGate,
   LoadSettings, BootReturn, ManagerSucceeds, ManagerFails, ManagerReturns, SyncthingExits,
   Progress, Tick

LEMMA DecidingEffect ==
  ASSUME TypeOK, Deciding
  PROVE  /\ loop'.pc \in {"look", "probe", "extend", "again", "act", "repoll"}
         /\ loop'.pc = "repoll" => ~exe'
         /\ loop'.pc = "act" => loop'.want = DesiredRunning'
         /\ UNCHANGED <<running, op, lastSync, saying, told, crossed, stop, boot>>
<1>1. loop \in Pass
  BY DEF TypeOK
<1>2. UNCHANGED <<running, op, lastSync, saying, told, crossed, stop, boot>>
  BY DEF Deciding, Select, Look, Probe, Extend, LookAgain
<1>3. CASE Select \/ Probe
  BY <1>1, <1>2, <1>3 DEF Select, Probe, Pass
<1>4. CASE Extend
  BY <1>1, <1>2, <1>4, GotoEffect DEF Extend
<1>5. ASSUME Decide, UNCHANGED <<inputs, sessions>>
      PROVE  loop'.pc = "act" /\ loop'.want = DesiredRunning'
  BY <1>5, DecideEffect, DesiredStays
<1>6. CASE Look
  BY <1>1, <1>2, <1>5, <1>6, GotoEffect DEF Look
<1>7. CASE LookAgain
  BY <1>2, <1>5, <1>7 DEF LookAgain
<1>8. QED
  BY <1>3, <1>4, <1>6, <1>7 DEF Deciding

LEMMA ArmedStep ==
  ASSUME TypeOK, Armed, [Next]_vars
  PROVE  Armed'
<1>1. CASE UNCHANGED <<exe, looping, boot>>
  BY <1>1 DEF Armed
<1>2. ASSUME UNCHANGED <<exe, looping>>, NEW b \in Boot, NEW pc, GotoBoot(b, pc), pc # "load"
      PROVE  Armed'
  BY <1>2, GotoBootEffect DEF Armed, TypeOK
<1>3. CASE Start
  BY <1>2, <1>3 DEF Start
<1>4. CASE StopStep
  BY <1>1, <1>4 DEF StopStep, MarkStopped, StopNotify, StopTell, StopKill, Armed
<1>5. ASSUME NEW b \in Boot, BootStep(b) PROVE Armed'
  <2>1. CASE InitGate(b)
    BY <2>1 DEF InitGate, Armed
  <2>2. QED
    BY <1>2, <1>5, <2>1 DEF BootStep, BootStart, BootStarted, LoadSettings, BootReturn
<1>6. CASE Next /\ ~(Start \/ StopStep \/ \E b \in Boot : BootStep(b))
  BY <1>1, <1>6 DEF Next, Event, OnAppForeground, OnBatteryLow, OnTriggerAlarm, SyncNow,
     OnNetworkState, RefreshPowerSettings, CheckSession, OpenSyncSession, LoopStep, Select,
     Look, Probe, Extend, LookAgain, Act, NotifyHost, TellHost, Repoll, Stop, ManagerSucceeds,
     ManagerFails, ManagerReturns, SyncthingExits, Progress, Tick
<1>7. QED
  BY <1>1, <1>3, <1>4, <1>5, <1>6 DEF vars

LEMMA CallersStep ==
  ASSUME TypeOK, Callers, [Next]_vars
  PROVE  Callers'
<1>1. /\ loop \in Pass /\ boot \in [Boot -> BootPc]
      /\ op \in [GateThread -> Manager!Op]
      /\ Boot \subseteq GateThread /\ {"loop", "stop"} \subseteq GateThread
      /\ "loop" \notin Boot /\ "stop" \notin Boot
  BY GateAssumption DEF TypeOK, Manager!TypeOK, GateThread
<1>2. CASE UNCHANGED <<op, loop, boot>>
  BY <1>2 DEF Callers
<1>3. ASSUME NEW t \in GateThread, UNCHANGED <<loop, boot>>,
             \A u \in GateThread : op'[u] = "starting" => op[u] = "starting"
      PROVE  Callers'
  BY <1>1, <1>3 DEF Callers
<1>4. ASSUME NEW b \in Boot, NEW pc, GotoBoot(b, pc), UNCHANGED <<op, loop>>,
             boot[b] # "wait" \/ op[b] = "none"
      PROVE  Callers'
  BY <1>1, <1>4, GotoBootEffect DEF Callers
<1>5. ASSUME NEW t \in GateThread,
             \/ Manager!SetRunning(t) \/ Manager!Withdraw(t) \/ Manager!EndStart(t)
             \/ Manager!BeginStop(t) \/ Manager!EndStop(t)
      PROVE  \A u \in GateThread : op'[u] = "starting" => op[u] = "starting"
  BY <1>1, <1>5 DEF Manager!SetRunning, Manager!Withdraw, Manager!EndStart,
     Manager!BeginStop, Manager!EndStop
<1>6. CASE LoopStep
  <2>1. CASE Act
    <3>1. loop.pc = "act" /\ loop'.pc = "notify" /\ loop'.want = loop.want
      BY <1>1, <2>1, GotoEffect DEF Act, At
    <3>2. \A u \in GateThread :
            op'[u] = "starting" => op[u] = "starting" \/ (u = "loop" /\ loop.want)
      BY <1>1, <1>5, <2>1 DEF Act, Manager!BeginStart
    <3>3. QED
      BY <1>1, <2>1, <3>1, <3>2 DEF Act, Callers
  <2>2. CASE Deciding
    <3>1. loop.pc # "notify"
      BY <2>2 DEF Deciding, Select, Look, Probe, Extend, LookAgain, At
    <3>2. QED
      BY <2>2, <3>1, DecidingEffect DEF Callers
  <2>3. CASE NotifyHost \/ TellHost \/ Repoll
    <3>1. op["loop"] # "starting" /\ UNCHANGED <<op, boot>>
      BY <2>3 DEF NotifyHost, TellHost, Repoll, At, Callers
    <3>2. QED
      BY <3>1 DEF Callers
  <2>4. QED
    BY <1>6, <2>1, <2>2, <2>3 DEF LoopStep, Deciding
<1>7. CASE Start
  <2>1. PICK b \in Boot : boot[b] = "idle" /\ GotoBoot(b, "start")
    BY <1>7 DEF Start
  <2>2. QED
    BY <1>4, <1>7, <2>1 DEF Start
<1>8. ASSUME NEW b \in Boot, BootStep(b) PROVE Callers'
  <2>1. CASE BootStart(b)
    <3>1. CASE Manager!BeginStart(b) /\ GotoBoot(b, "wait")
      BY <1>1, <2>1, <3>1, GotoBootEffect DEF BootStart, Manager!BeginStart, Callers
    <3>2. QED
      BY <1>4, <2>1, <3>1 DEF BootStart
  <2>2. CASE BootStarted(b)
    BY <1>4, <2>2 DEF BootStarted
  <2>3. CASE InitGate(b)
    BY <1>4, <2>3 DEF InitGate
  <2>4. CASE LoadSettings(b)
    BY <1>4, <2>4 DEF LoadSettings
  <2>5. CASE BootReturn(b)
    BY <1>4, <2>5 DEF BootReturn
  <2>6. QED
    BY <1>8, <2>1, <2>2, <2>3, <2>4, <2>5 DEF BootStep
<1>9. CASE StopKill
  BY <1>1, <1>3, <1>5, <1>9 DEF StopKill
<1>10. ASSUME NEW t \in GateThread, ManagerSucceeds(t) \/ ManagerFails(t) \/ ManagerReturns(t)
       PROVE  Callers'
  BY <1>3, <1>5, <1>10 DEF ManagerSucceeds, ManagerFails, ManagerReturns
<1>11. CASE \/ Event \/ CheckSession \/ OpenSyncSession
            \/ Stop \/ MarkStopped \/ StopNotify \/ StopTell
            \/ SyncthingExits \/ Progress \/ Tick
  BY <1>2, <1>11 DEF Event, OnAppForeground, OnBatteryLow, OnTriggerAlarm, SyncNow,
     OnNetworkState, RefreshPowerSettings, CheckSession, OpenSyncSession, Stop, MarkStopped,
     StopNotify, StopTell, SyncthingExits, Manager!Exit, Progress, Tick
<1>12. QED
  BY <1>2, <1>6, <1>7, <1>8, <1>9, <1>10, <1>11 DEF Next, StopStep, vars

LEMMA WantedStep ==
  ASSUME TypeOK, Armed, Wanted, [Next]_vars
  PROVE  Wanted'
<1> SUFFICES ASSUME Fresh', loop'.pc \in {"act", "notify", "say"}
             PROVE  loop'.want = DesiredRunning'
  BY DEF Wanted
<1>1. CASE Deciding
  BY <1>1, DecidingEffect
<1>2. CASE LoopStep /\ ~Deciding
  <2>1. loop.pc \in {"act", "notify", "say"} /\ loop'.want = loop.want
    <3>1. Repoll => loop'.pc = "select"
      BY DEF Repoll, NoPass
    <3>2. TellHost => loop'.pc = "repoll"
      BY GotoEffect DEF TellHost, TypeOK
    <3>3. QED
      BY <1>2, <3>1, <3>2, GotoEffect
         DEF LoopStep, Deciding, Act, NotifyHost, At, TypeOK
  <2>2. QED
    BY <1>2, <2>1, FreshStays DEF Wanted
<1>3. CASE ~LoopStep
  <2>1. UNCHANGED loop /\ ~Deciding
    BY <1>3, PassIsOurs DEF LoopStep, Deciding
  <2>2. QED
    BY <2>1, FreshStays DEF Wanted
<1>4. QED
  BY <1>1, <1>2, <1>3

LEMMA FollowedStep ==
  ASSUME TypeOK, Armed, Callers, Wanted, Followed, [Next]_vars
  PROVE  Followed'
<1> DEFINE Following == loop.pc \in {"notify", "say", "repoll", "select"}
<1> SUFFICES ASSUME Fresh', Following'
             PROVE  /\ running' => DesiredRunning' \/ Booting'
                    /\ DesiredRunning' => running' \/ lost' \/ (Manager!Latched)'
  BY DEF Followed
<1> HIDE DEF Following
<1>1. /\ loop \in Pass /\ boot \in [Boot -> BootPc] /\ op \in [GateThread -> Manager!Op]
      /\ Boot \subseteq GateThread /\ {"loop", "stop"} \subseteq GateThread
      /\ running \in BOOLEAN
  BY DEF TypeOK, Manager!TypeOK, GateThread
<1>2. ~Deciding
  BY DecidingEffect DEF Following, Fresh
<1>3. Fresh /\ DesiredRunning' = DesiredRunning
  BY <1>2, FreshStays
<1>4. CASE Act
  <2>1. loop.want = DesiredRunning
    BY <1>3, <1>4 DEF Act, At, Wanted
  <2>2. Manager!BeginStart("loop") => (Manager!Latched)'
    BY <1>1 DEF Manager!BeginStart, Manager!Latched
  <2>3. Manager!BeginStop("loop") => ~running'
    BY DEF Manager!BeginStop
  <2>4. Manager!Latched /\ UNCHANGED op => (Manager!Latched)'
    BY DEF Manager!Latched
  <2>5. Manager!BeginStart("loop") => ~running'
    BY DEF Manager!BeginStart
  <2>6. QED
    BY <1>1, <1>3, <1>4, <2>1, <2>2, <2>3, <2>4, <2>5 DEF Act
<1>5. ASSUME ~Act PROVE Following
  <2>1. CASE LoopStep
    BY <1>2, <1>5, <2>1 DEF LoopStep, Deciding, NotifyHost, TellHost, Repoll, At, Following
  <2>2. CASE ~LoopStep
    BY <2>2, PassIsOurs DEF Following
  <2>3. QED
    BY <2>1, <2>2
<1> DEFINE Kept == /\ running => DesiredRunning \/ Booting
                   /\ DesiredRunning => running \/ lost \/ Manager!Latched
<1>6. CASE ~Act
  <2>1. Kept
    BY <1>3, <1>5, <1>6 DEF Followed, Following
  <2>2. CASE UNCHANGED <<running, op, lost, boot>>
    BY <1>3, <2>1, <2>2 DEF Booting, Manager!Latched
  <2>3. ASSUME UNCHANGED <<running, op, lost>>, NEW b \in Boot, NEW pc, GotoBoot(b, pc),
               boot[b] \in {"wait", "init"} => pc \in {"wait", "init"} \/ ~running
        PROVE  Kept'
    <3>1. running /\ Booting => Booting'
      BY <1>1, <2>3, GotoBootEffect DEF Booting
    <3>2. UNCHANGED Manager!Latched
      BY <2>3 DEF Manager!Latched
    <3>3. QED
      BY <1>3, <2>1, <2>3, <3>1, <3>2
  <2>4. CASE LoopStep
    BY <1>2, <1>6, <2>2, <2>4 DEF LoopStep, Deciding, NotifyHost, TellHost, Repoll
  <2>5. CASE Start
    <3>1. PICK b \in Boot : boot[b] = "idle" /\ GotoBoot(b, "start")
      BY <2>5 DEF Start
    <3>2. QED
      BY <2>3, <2>5, <3>1 DEF Start
  <2>6. ASSUME NEW b \in Boot, BootStep(b) PROVE Kept'
    <3>1. CASE BootStart(b)
      <4>1. Manager!BeginStart(b) => ~running' /\ (Manager!Latched)'
        BY <1>1 DEF Manager!BeginStart, Manager!Latched
      <4>2. boot[b] = "start"
        BY <3>1 DEF BootStart
      <4>3. CASE Manager!BeginStart(b)
        BY <4>1, <4>3
      <4>4. CASE UNCHANGED manager
        BY <2>3, <3>1, <4>2, <4>4 DEF BootStart
      <4>5. QED
        BY <3>1, <4>3, <4>4 DEF BootStart
    <3>2. CASE BootStarted(b)
      BY <2>3, <3>2 DEF BootStarted
    <3>3. CASE InitGate(b)
      BY <3>3, GotoBootEffect, <1>1 DEF InitGate, Fresh
    <3>4. CASE LoadSettings(b)
      BY <1>3, <3>4 DEF LoadSettings, Fresh
    <3>5. CASE BootReturn(b)
      BY <2>3, <3>5 DEF BootReturn
    <3>6. QED
      BY <2>6, <3>1, <3>2, <3>3, <3>4, <3>5 DEF BootStep
  <2>7. CASE StopStep
    BY <2>2, <2>7 DEF StopStep, MarkStopped, StopNotify, StopTell, StopKill,
       Manager!BeginStop
  <2>8. ASSUME NEW t \in GateThread, ManagerSucceeds(t) PROVE Kept'
    <3>1. op[t] = "starting" /\ UNCHANGED <<boot, loop>> /\ running'
      BY <2>8 DEF ManagerSucceeds, Manager!SetRunning
    <3>2. t = "loop" => DesiredRunning
      BY <1>3, <3>1 DEF Callers, Wanted
    <3>3. t \in Boot => Booting
      BY <3>1 DEF Callers, Booting
    <3>4. t # "stop"
      BY <3>1 DEF Callers
    <3>5. QED
      BY <1>3, <3>1, <3>2, <3>3, <3>4 DEF GateThread, Booting
  <2>9. ASSUME NEW t \in GateThread, ManagerFails(t) PROVE Kept'
    BY <2>9 DEF ManagerFails, Manager!Withdraw, Manager!EndStart
  <2>10. ASSUME NEW t \in GateThread, ManagerReturns(t) PROVE Kept'
    <3>1. UNCHANGED <<running, lost, boot>>
      BY <2>10 DEF ManagerReturns, Manager!EndStart, Manager!EndStop
    <3>2. Manager!EndStop(t) /\ Manager!Latched => (Manager!Latched)'
      BY <1>1 DEF Manager!EndStop, Manager!Latched
    <3>3. QED
      BY <1>3, <2>1, <2>10, <3>1, <3>2 DEF ManagerReturns, Booting
  <2>11. CASE SyncthingExits
    BY <2>11 DEF SyncthingExits, Manager!Exit
  <2>12. CASE Event \/ CheckSession \/ OpenSyncSession \/ Stop \/ Progress \/ Tick
    BY <2>2, <2>12 DEF Event, OnAppForeground, OnBatteryLow, OnTriggerAlarm, SyncNow,
       OnNetworkState, RefreshPowerSettings, CheckSession, OpenSyncSession, Stop, Progress, Tick
  <2>13. QED
    BY <2>2, <2>4, <2>5, <2>6, <2>7, <2>8, <2>9, <2>10, <2>11, <2>12 DEF Next, vars
<1>7. QED
  BY <1>4, <1>6

LEMMA DecisionInit == Init => DecisionInv
BY GateAssumption DEF Init, NoPass, DecisionInv, Armed, Callers, Wanted, Followed, Fresh,
   Manager!Init, GateThread

LEMMA DecisionStep ==
  ASSUME TypeOK, DecisionInv, [Next]_vars
  PROVE  DecisionInv'
BY ArmedStep, CallersStep, WantedStep, FollowedStep DEF DecisionInv

(* Whenever an armed gate has settled, Syncthing runs exactly if docs/power-gate.md
   permits it, or is missing because it was lost, whatever overlapped.            *)
THEOREM DecisionIsObeyed == Spec => []DecisionObeyed
<1>1. TypeOK /\ DecisionInv => DecisionObeyed
  <2> SUFFICES ASSUME TypeOK, DecisionInv, Settled, exe
               PROVE  (running => Permitted) /\ (Permitted => running \/ lost)
    BY DEF DecisionObeyed
  <2>1. Fresh /\ ~Booting /\ ~Manager!Latched /\ loop.pc = "select"
    BY DEF Settled, CaughtUp, At, Fresh, Booting, Manager!Latched
  <2>2. QED
    BY <2>1, DesiredIsPermitted DEF DecisionInv, Followed
<1>2. QED
  BY <1>1, DecisionInit, DecisionStep, TypeCorrect, PTL DEF Spec

(***************************************************************************)
(* What the host is told.  An edge is recorded under the lock and told     *)
(* later; unless two edges crossed, what the host was told last is what is *)
(* recorded, or about to be.                                               *)
(***************************************************************************)
Speakers ==
  /\ saying["loop"] # "nothing" => loop.pc = "say"
  /\ saying["stop"] # "nothing" => stop = "say"

Edge(active) == IF active THEN "active" ELSE "inactive"

Silent(t) == saying[t] = "nothing"

Heard ==
  ~crossed =>
    \/ Silent("loop") /\ Silent("stop") /\ told = lastSync
    \/ Silent("loop") /\ saying["stop"] = Edge(lastSync)
    \/ Silent("stop") /\ saying["loop"] = Edge(lastSync)

Remembered ==
  Fresh /\ ~crossed /\ loop.pc \in {"say", "repoll", "select"} => lastSync = DesiredRunning

HostInv == Speakers /\ Heard /\ Remembered

LEMMA HostIsOurs ==
  ASSUME [Next]_vars, ~NotifyHost, ~TellHost, ~StopNotify, ~StopTell
  PROVE  UNCHANGED <<lastSync, saying, told, crossed>>
BY DEF Next, vars, Event, OnAppForeground, OnBatteryLow, OnTriggerAlarm, SyncNow,
   OnNetworkState, RefreshPowerSettings, CheckSession, OpenSyncSession, LoopStep, Select, Look,
   Probe, Extend, LookAgain, Act, Repoll, Start, Stop, StopStep, MarkStopped, StopKill,
   BootStep, BootStart, BootStarted, InitGate, LoadSettings, BootReturn, ManagerSucceeds,
   ManagerFails, ManagerReturns, SyncthingExits, Progress, Tick

LEMMA NotifyEffect ==
  ASSUME TypeOK, NEW t \in {"loop", "stop"}, NEW active \in BOOLEAN, Notify(t, active)
  PROVE  /\ lastSync' = active /\ told' = told
         /\ saying'[t] = IF lastSync = active THEN "nothing" ELSE Edge(active)
         /\ \A u \in {"loop", "stop"} \ {t} : saying'[u] = saying[u]
         /\ crossed' = IF lastSync = active THEN crossed
                       ELSE \/ \E u \in {"loop", "stop"} \ {t} : ~Silent(u)
                            \/ t = "stop" /\ exe
BY DEF TypeOK, Notify, Remembers, Edge, Silent

LEMMA TellEffect ==
  ASSUME TypeOK, NEW t \in {"loop", "stop"}, Tell(t)
  PROVE  /\ told' = IF Silent(t) THEN told ELSE saying[t] = "active"
         /\ saying'[t] = "nothing"
         /\ \A u \in {"loop", "stop"} \ {t} : saying'[u] = saying[u]
         /\ UNCHANGED <<lastSync, crossed>>
BY DEF TypeOK, Tell, Silent

LEMMA SpeakersStep ==
  ASSUME TypeOK, Speakers, [Next]_vars
  PROVE  Speakers'
<1>1. CASE NotifyHost
  <2>1. loop.want \in BOOLEAN /\ Notify("loop", loop.want) /\ loop'.pc = "say" /\ UNCHANGED stop
    BY <1>1, GotoEffect DEF NotifyHost, TypeOK, Pass
  <2>2. QED
    BY <2>1, NotifyEffect DEF Speakers
<1>2. CASE TellHost
  BY <1>2, TellEffect DEF TellHost, Speakers
<1>3. CASE StopNotify
  BY <1>3, NotifyEffect DEF StopNotify, Speakers
<1>4. CASE StopTell
  BY <1>4, TellEffect DEF StopTell, Speakers
<1>5. CASE ~NotifyHost /\ ~TellHost /\ ~StopNotify /\ ~StopTell
  <2>1. UNCHANGED saying
    BY <1>5, HostIsOurs
  <2>2. loop.pc = "say" => loop'.pc = "say"
    <3>1. loop.pc = "say" => ~LoopStep
      BY <1>5 DEF LoopStep, Select, Look, Probe, Extend, LookAgain, Act, Repoll, At
    <3>2. QED
      BY <3>1, PassIsOurs
  <2>3. stop = "say" => stop' = "say"
    BY <1>5 DEF Next, vars, Event, OnAppForeground, OnBatteryLow, OnTriggerAlarm, SyncNow,
       OnNetworkState, RefreshPowerSettings, CheckSession, OpenSyncSession, LoopStep, Select,
       Look, Probe, Extend, LookAgain, Act, Repoll, Start, Stop, StopStep, MarkStopped,
       StopKill, BootStep, BootStart, BootStarted, InitGate, LoadSettings, BootReturn,
       ManagerSucceeds, ManagerFails, ManagerReturns, SyncthingExits, Progress, Tick
  <2>4. QED
    BY <2>1, <2>2, <2>3 DEF Speakers
<1>6. QED
  BY <1>1, <1>2, <1>3, <1>4, <1>5

LEMMA HeardStep ==
  ASSUME TypeOK, Speakers, Heard, [Next]_vars
  PROVE  Heard'
<1>1. lastSync \in BOOLEAN /\ told \in BOOLEAN
  BY DEF TypeOK
<1>2. ASSUME NEW active \in BOOLEAN, Notify("loop", active), Silent("loop")
      PROVE  Heard'
  BY <1>1, <1>2, NotifyEffect DEF Heard, Silent, Edge
<1>3. ASSUME NEW active \in BOOLEAN, Notify("stop", active), Silent("stop")
      PROVE  Heard'
  <2>1. CASE lastSync = active
    <3>1. lastSync' = lastSync /\ UNCHANGED <<told, crossed>>
      BY <1>3, <2>1, NotifyEffect
    <3>2. saying'["stop"] = "nothing" /\ saying'["loop"] = saying["loop"]
      BY <1>3, <2>1, NotifyEffect
    <3>3. QED
      BY <1>3, <3>1, <3>2 DEF Heard, Silent, Edge
  <2>2. CASE lastSync # active
    <3>1. saying'["stop"] = Edge(active) /\ saying'["loop"] = saying["loop"]
      BY <1>3, <2>2, NotifyEffect
    <3>2. ~crossed' => Silent("loop")
      BY <1>3, <2>2, NotifyEffect
    <3>3. QED
      BY <1>3, <3>1, <3>2, NotifyEffect DEF Heard, Silent
  <2>3. QED
    BY <2>1, <2>2
<1>4. CASE NotifyHost
  <2>1. loop.want \in BOOLEAN /\ Notify("loop", loop.want) /\ Silent("loop")
    BY <1>4 DEF NotifyHost, TypeOK, Pass, Speakers, Silent, At
  <2>2. QED
    BY <1>2, <2>1
<1>5. CASE StopNotify
  BY <1>3, <1>5 DEF StopNotify, Speakers, Silent
<1>6. CASE TellHost
  BY <1>1, <1>6, TellEffect DEF TellHost, Heard, Silent, Edge
<1>7. CASE StopTell
  BY <1>1, <1>7, TellEffect DEF StopTell, Heard, Silent, Edge
<1>8. CASE ~NotifyHost /\ ~TellHost /\ ~StopNotify /\ ~StopTell
  BY <1>8, HostIsOurs DEF Heard, Silent
<1>9. QED
  BY <1>4, <1>5, <1>6, <1>7, <1>8

LEMMA RememberedStep ==
  ASSUME TypeOK, Armed, Wanted, Remembered, [Next]_vars
  PROVE  Remembered'
<1> DEFINE Late == loop.pc \in {"say", "repoll", "select"}
<1> SUFFICES ASSUME Fresh', ~crossed', Late' PROVE lastSync' = DesiredRunning'
  BY DEF Remembered
<1>1. ~Deciding
  BY DecidingEffect DEF Fresh
<1>2. Fresh /\ DesiredRunning' = DesiredRunning
  BY <1>1, FreshStays
<1>3. CASE NotifyHost
  <2>1. Notify("loop", loop.want) /\ loop.want \in BOOLEAN /\ loop.want = DesiredRunning
    BY <1>2, <1>3 DEF NotifyHost, At, Wanted, TypeOK, Pass
  <2>2. QED
    BY <1>2, <2>1, NotifyEffect
<1>4. ASSUME ~NotifyHost PROVE Late
  <2>1. CASE LoopStep
    <3>1. ~Act
      BY GotoEffect DEF Act, TypeOK
    <3>2. QED
      BY <1>1, <1>4, <2>1, <3>1 DEF LoopStep, Deciding, TellHost, Repoll, At
  <2>2. CASE ~LoopStep
    BY <2>2, PassIsOurs
  <2>3. QED
    BY <2>1, <2>2
<1>5. CASE StopNotify
  <2>1. exe /\ ~NotifyHost
    BY <1>2, <1>5 DEF Fresh, StopNotify, NotifyHost
  <2>2. lastSync = FALSE /\ ~crossed /\ lastSync' = FALSE
    BY <1>5, <2>1, NotifyEffect DEF StopNotify
  <2>3. QED
    BY <1>2, <1>4, <2>1, <2>2 DEF Remembered
<1>6. CASE ~NotifyHost /\ ~StopNotify
  <2>1. UNCHANGED <<lastSync, crossed>>
    BY <1>6, HostIsOurs, TellEffect DEF TellHost, StopTell
  <2>2. QED
    BY <1>2, <1>4, <1>6, <2>1 DEF Remembered
<1>7. QED
  BY <1>3, <1>5, <1>6

LEMMA HostInit == Init => HostInv
BY DEF Init, HostInv, Speakers, Heard, Silent, Remembered, Fresh

LEMMA HostStep ==
  ASSUME TypeOK, DecisionInv, HostInv, [Next]_vars
  PROVE  HostInv'
BY SpeakersStep, HeardStep, RememberedStep DEF DecisionInv, HostInv

(* A settled host holds the radio and the CPU exactly while Syncthing is wanted, unless
   loop and Stop have told it at the same time.                                      *)
THEOREM HostIsTold == Spec => []HostFollows
<1>1. TypeOK /\ HostInv => HostFollows
  <2> SUFFICES ASSUME TypeOK, HostInv, Settled, exe, ~crossed
               PROVE  told = Permitted
    BY DEF HostFollows
  <2>1. Fresh /\ loop.pc = "select" /\ stop = "idle"
    BY DEF Settled, CaughtUp, At, Fresh
  <2>2. Silent("loop") /\ Silent("stop")
    BY <2>1 DEF HostInv, Speakers, Silent
  <2>3. told = lastSync
    BY <2>2 DEF HostInv, Heard, Silent, Edge
  <2>4. QED
    BY <2>1, <2>3, DesiredIsPermitted DEF HostInv, Remembered
<1>2. QED
  BY <1>1, DecisionInit, DecisionStep, HostInit, HostStep, TypeCorrect, PTL DEF Spec

(***************************************************************************)
(* The polls of a session.  The loop falls behind by at most MaxLag        *)
(* intervals before it has caught up; until a tick is due, a session that  *)
(* was found busy has more than that left, and one interval for the tick.  *)
(***************************************************************************)
InPoll == loop.poll /\ loop.pc \in {"look", "probe", "extend"}

Attended ==
  /\ loop.pc \in {"probe", "extend"} => loop.poll
  /\ InPoll => ticker
  /\ busy => /\ session > 0 /\ ticker
             /\ IF tickDue \/ InPoll THEN session + late > MaxLag ELSE session > MaxLag + 1

LEMMA AttendedStep ==
  ASSUME TypeOK, Attended, [Next]_vars
  PROVE  Attended'
<1>1. /\ loop \in Pass /\ session \in Nat /\ late \in Nat /\ MaxLag \in Nat
      /\ ConnectGrace \in Nat /\ MaxLag + 1 < ConnectGrace
      /\ ActiveSyncExtend \in Nat /\ ConnectGrace <= ActiveSyncExtend
      /\ tickDue => ticker
  BY GateAssumption DEF TypeOK
<1>2. CASE /\ UNCHANGED <<loop, ticker, tickDue, late>>
           /\ busy' => busy /\ session' = session
  BY <1>1, <1>2 DEF Attended, InPoll
<1>3. CASE Event \/ CheckSession \/ Stop \/ Start
           \/ StopStep \/ SyncthingExits \/ Progress
  <2>1. CASE MarkStopped
    BY <1>2, <2>1 DEF MarkStopped
  <2>2. CASE ~MarkStopped
    <3>1. UNCHANGED <<loop, ticker, tickDue, late, busy, session>>
      BY <1>3, <2>2 DEF Event, OnAppForeground, OnBatteryLow, OnTriggerAlarm, SyncNow,
         OnNetworkState, RefreshPowerSettings, CheckSession, Stop, Start, StopStep, StopNotify,
         StopTell, StopKill, SyncthingExits, Progress
    <3>2. QED
      BY <1>2, <3>1
  <2>3. QED
    BY <2>1, <2>2
<1>4. CASE \/ \E b \in Boot : BootStep(b)
           \/ \E t \in GateThread : ManagerSucceeds(t) \/ ManagerFails(t) \/ ManagerReturns(t)
  <2>1. UNCHANGED <<loop, ticker, tickDue, late, busy, session>>
    BY <1>4 DEF BootStep, BootStart, BootStarted, InitGate, LoadSettings, BootReturn,
       ManagerSucceeds, ManagerFails, ManagerReturns
  <2>2. QED
    BY <1>1, <1>2, <2>1
<1>5. CASE OpenSyncSession
  <2>1. UNCHANGED <<loop, ticker, tickDue, late>> /\ session' = ConnectGrace /\ (busy' => busy)
    BY <1>5 DEF OpenSyncSession
  <2>2. QED
    BY <1>1, <2>1 DEF Attended, InPoll
<1>6. CASE Select
  <2>1. UNCHANGED <<ticker, late, busy, session>> /\ loop'.pc = "look"
    BY <1>1, <1>6 DEF Select, Pass
  <2>2. \/ loop'.poll = FALSE /\ UNCHANGED tickDue
        \/ loop'.poll = TRUE /\ tickDue
    BY <1>1, <1>6 DEF Select, Pass, TickAfterKick
  <2>3. ~InPoll
    BY <1>6 DEF Select, At, InPoll
  <2>4. QED
    BY <1>1, <2>1, <2>2, <2>3 DEF Attended, InPoll
<1>7. CASE Look
  <2>1. UNCHANGED <<ticker, tickDue, late, session>>
    BY <1>7 DEF Look
  <2>2. CASE ~exe
    BY <1>1, <1>7, <2>1, <2>2, GotoEffect DEF Look, Attended, InPoll
  <2>3. CASE exe /\ loop.poll /\ session > 0
    <3>1. loop.pc = "look" /\ loop'.pc = "probe" /\ loop'.poll = loop.poll /\ UNCHANGED busy
      BY <1>1, <1>7, <2>3, GotoEffect DEF Look, At
    <3>2. QED
      BY <1>1, <2>1, <2>3, <3>1 DEF Attended, InPoll
  <2>4. CASE exe /\ ~(loop.poll /\ session > 0)
    <3>1. loop'.pc = "act" /\ UNCHANGED busy
      BY <1>7, <2>4, DecideEffect DEF Look
    <3>2. busy => ~InPoll
      BY <1>1, <2>4 DEF Attended, InPoll
    <3>3. QED
      BY <1>1, <2>1, <3>1, <3>2 DEF Attended, InPoll
  <2>5. QED
    BY <2>2, <2>3, <2>4
<1>8. CASE Probe
  <2>1. loop.pc = "probe" /\ loop'.pc = "extend" /\ loop'.poll = loop.poll
    BY <1>1, <1>8 DEF Probe, At, Pass
  <2>2. UNCHANGED <<ticker, tickDue, late, session, busy>>
    BY <1>8 DEF Probe
  <2>3. QED
    BY <1>1, <2>1, <2>2 DEF Attended, InPoll
<1>9. CASE Extend
  <2>1. loop'.pc = "again" /\ ticker' /\ busy' = loop.busy
    BY <1>1, <1>9, GotoEffect DEF Extend, At, Attended, InPoll
  <2>2. loop.busy => session' = ActiveSyncExtend
    BY <1>9 DEF Extend, NextSessionEnd
  <2>3. UNCHANGED late
    BY <1>9 DEF Extend
  <2>4. QED
    BY <1>1, <2>1, <2>2, <2>3 DEF Attended, InPoll
<1>10. CASE LookAgain \/ Act \/ NotifyHost \/ TellHost
  <2>1. UNCHANGED <<ticker, tickDue, late, session, busy>>
    BY <1>10 DEF LookAgain, Act, NotifyHost, TellHost
  <2>2. loop.pc \notin {"look", "probe", "extend"} /\ loop'.pc \notin {"look", "probe", "extend"}
    <3>1. CASE LookAgain
      BY <3>1, DecideEffect DEF LookAgain, At
    <3>2. CASE Act \/ NotifyHost \/ TellHost
      BY <1>1, <3>2, GotoEffect DEF Act, NotifyHost, TellHost, At
    <3>3. QED
      BY <1>10, <3>1, <3>2
  <2>3. QED
    BY <1>1, <2>1, <2>2 DEF Attended, InPoll
<1>11. CASE Repoll
  <2>1. UNCHANGED <<session, busy>> /\ loop.pc = "repoll" /\ loop'.pc = "select"
    BY <1>11 DEF Repoll, At, NoPass
  <2>2. busy => ticker' /\ tickDue' = tickDue
    <3>1. ASSUME busy PROVE KeepPolling
      BY <3>1 DEF Attended, KeepPolling
    <3>2. ticker' = KeepPolling /\ tickDue' = (tickDue /\ KeepPolling)
      BY <1>11 DEF Repoll, TickPending
    <3>3. tickDue \in BOOLEAN
      BY DEF TypeOK
    <3>4. QED
      BY <3>1, <3>2, <3>3
  <2>3. tickDue' => late' = late
    BY <1>11 DEF Repoll
  <2>4. QED
    BY <1>1, <2>1, <2>2, <2>3 DEF Attended, InPoll
<1>12. CASE Tick
  <2>1. /\ session' = Less(session) /\ tickDue' = ticker /\ UNCHANGED <<loop, ticker>>
        /\ busy' = (busy /\ session > 1)
    BY <1>12 DEF Tick
  <2>2. (late' = late /\ CaughtUp) \/ (late' = late + 1 /\ late < MaxLag)
    BY <1>12 DEF Tick
  <2>3. CaughtUp => ~tickDue /\ ~InPoll
    BY DEF CaughtUp, At, InPoll
  <2>4. ASSUME busy' PROVE session' > 0 /\ session' + late' > MaxLag
    <3>1. busy /\ session > 1 /\ session' = session - 1
      <4>1. busy /\ session > 1
        BY <2>1, <2>4
      <4>2. QED
        BY <1>1, <2>1, <4>1 DEF Less
    <3>2. CASE late' = late /\ CaughtUp
      BY <1>1, <2>3, <3>1, <3>2 DEF Attended
    <3>3. CASE late' = late + 1 /\ late < MaxLag
      BY <1>1, <3>1, <3>3 DEF Attended
    <3>4. QED
      BY <2>2, <3>2, <3>3
  <2>5. QED
    BY <2>1, <2>4 DEF Attended, InPoll
<1>13. QED
  BY <1>1, <1>2, <1>3, <1>4, <1>5, <1>6, <1>7, <1>8, <1>9, <1>10, <1>11, <1>12
     DEF Next, LoopStep, vars

(* A session whose last probe found work never lapses, however events, passes of the
   loop and the poll's ticks interleave: the next poll always comes in time.       *)
THEOREM SyncIsNotInterrupted == Spec => NeverInterrupted
<1>1. Init => Attended
  BY DEF Init, NoPass, Attended, InPoll
<1>2. TypeOK /\ Attended /\ [Next]_vars
        => [Tick /\ exe /\ session > 0 /\ session' = 0 => ~busy]_vars
  <2> SUFFICES ASSUME TypeOK, Attended, Tick, session > 0, session' = 0, busy
               PROVE  FALSE
    OBVIOUS
  <2>1. session = 1 /\ late \in Nat /\ MaxLag \in Nat
    BY GateAssumption DEF TypeOK, Tick, Less
  <2>2. CaughtUp => ~tickDue /\ ~InPoll
    BY DEF CaughtUp, At, InPoll
  <2>3. CaughtUp \/ late < MaxLag
    BY DEF Tick
  <2>4. QED
    BY <2>1, <2>2, <2>3 DEF Attended
<1>3. QED
  BY <1>1, <1>2, AttendedStep, TypeCorrect, PTL DEF Spec, NeverInterrupted
=============================================================================
