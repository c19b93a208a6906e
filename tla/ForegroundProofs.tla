--------------------------- MODULE ForegroundProofs ---------------------------
(***************************************************************************)
(* Proofs about Foreground, for any number of UIs, requests, timers and    *)
(* signals: type correctness, the agreement of overlapping signals, and    *)
(* the silence that only a signal ends.                                    *)
(***************************************************************************)
EXTENDS Foreground, TLAPS

LEMMA GotoType ==
  ASSUME TypeOK, NEW t \in Caller, NEW pc \in CallPc, Goto(t, pc)
  PROVE  call' \in [Caller -> [pc : CallPc, value : BOOLEAN]]
<1>1. call[t] \in [pc : CallPc, value : BOOLEAN]
  BY DEF TypeOK
<1>2. [call[t] EXCEPT !.pc = pc] \in [pc : CallPc, value : BOOLEAN]
  BY <1>1
<1>3. call' = [call EXCEPT ![t] = [call[t] EXCEPT !.pc = pc]]
  BY DEF Goto, TypeOK
<1>4. QED
  BY <1>2, <1>3 DEF TypeOK

LEMMA SignalType ==
  ASSUME TypeOK, NEW t \in Caller, NEW v \in BOOLEAN, Signal(t, v)
  PROVE  /\ call' \in [Caller -> [pc : CallPc, value : BOOLEAN]]
         /\ signals' \in Nat
         /\ since' \subseteq BOOLEAN
<1>1. call' \in [Caller -> [pc : CallPc, value : BOOLEAN]]
  BY DEF TypeOK, Signal, CallPc
<1>2. signals' \in Nat
  BY DEF TypeOK, Signal
<1>3. since' \subseteq BOOLEAN
  BY DEF TypeOK, Signal
<1>4. QED
  BY <1>1, <1>2, <1>3

(* The part of TypeOK about the debounce: fgTimer names a timer that is armed
   or in its callback.                                                       *)
DebounceType ==
  /\ ready \in BOOLEAN
  /\ handle \in Timer \cup {NoTimer}
  /\ timer \in [Timer -> {"idle", "armed", "fired", "cleared"}]
  /\ handle # NoTimer => timer[handle] \in {"armed", "fired"}

LEMMA DebounceKeepsType ==
  ASSUME DebounceType, NEW v \in BOOLEAN, Debounce(v)
  PROVE  DebounceType'
<1>1. StopTimer \in [Timer -> {"idle", "armed", "fired", "cleared"}]
  BY DEF DebounceType, StopTimer
<1>2. ASSUME NEW t \in Timer, Arm(t), UNCHANGED ready PROVE DebounceType'
  BY <1>1, <1>2, ForegroundAssumption DEF DebounceType, Arm
<1>3. CASE ready' = FALSE /\ timer' = StopTimer /\ handle' = NoTimer
  BY <1>1, <1>3 DEF DebounceType
<1>4. QED
  BY <1>2, <1>3 DEF Debounce

LEMMA TimerStepType ==
  ASSUME DebounceType, NEW t \in Timer, TimerStep(t)
  PROVE  DebounceType'
<1>1. CASE TimerFire(t)
  BY <1>1, ForegroundAssumption DEF DebounceType, TimerFire
<1>2. CASE TimerClear(t)
  BY <1>2 DEF DebounceType, TimerClear
<1>3. CASE TimerReady(t)
  <2>1. handle # t
    BY <1>3, ForegroundAssumption DEF DebounceType, TimerReady
  <2>2. QED
    BY <1>3, <2>1 DEF DebounceType, TimerReady
<1>4. QED
  BY <1>1, <1>2, <1>3 DEF TimerStep

LEMMA TypeStep ==
  ASSUME TypeOK, [Next]_vars
  PROVE  TypeOK'
<1>1. DebounceType
  BY DEF TypeOK, DebounceType
<1>2. CASE UNCHANGED vars
  BY <1>2 DEF vars, switches, debounce, network, TypeOK
<1>3. ASSUME NEW c \in Client, UiConnect(c) \/ UiLeave(c) PROVE TypeOK'
  <2>1. c \in Caller /\ TRUE \in BOOLEAN /\ FALSE \in BOOLEAN
    BY DEF Caller
  <2>2. clients' \subseteq Client
    BY <1>3 DEF UiConnect, UiLeave, TypeOK
  <2>3. UNCHANGED <<switches, debounce, network>>
    BY <1>3 DEF UiConnect, UiLeave
  <2>4. CASE Signal(c, TRUE) \/ Signal(c, FALSE)
    BY <2>1, <2>2, <2>3, <2>4, SignalType
       DEF TypeOK, switches, debounce, network
  <2>5. CASE UNCHANGED <<call, signals, since>>
    BY <2>2, <2>3, <2>5 DEF TypeOK, switches, debounce, network
  <2>6. QED
    BY <1>3, <2>4, <2>5 DEF UiConnect, UiLeave
<1>4. ASSUME NEW r \in Request, PutActive(r) PROVE TypeOK'
  <2>1. r \in Caller
    BY DEF Caller
  <2>2. QED
    BY <1>4, <2>1, SignalType DEF PutActive, TypeOK, switches, debounce, network
<1>5. ASSUME NEW t \in Caller, CallStep(t) PROVE TypeOK'
  <2>1. call[t].value \in BOOLEAN
    BY DEF TypeOK
  <2>2. call' \in [Caller -> [pc : CallPc, value : BOOLEAN]]
    BY <1>5, GotoType
       DEF CallStep, StoreListening, SetTimer, StoreActive, StoreAccepting,
           CloseInbound, DisconnectAll, AfterListen, CallPc
  <2>3. DebounceType'
    <3>1. CASE SetTimer(t)
      BY <1>1, <2>1, <3>1, DebounceKeepsType DEF SetTimer
    <3>2. CASE ~SetTimer(t)
      BY <1>1, <1>5, <3>2
         DEF CallStep, StoreListening, StoreActive, StoreAccepting, CloseInbound,
             DisconnectAll, debounce, DebounceType
    <3>3. QED
      BY <3>1, <3>2
  <2>4. /\ listening' \in BOOLEAN /\ active' \in BOOLEAN /\ accepting' \in BOOLEAN
        /\ inb' \in BOOLEAN /\ out' \in BOOLEAN
        /\ UNCHANGED <<clients, passed, signals, since>>
    BY <1>5, <2>1
       DEF CallStep, StoreListening, SetTimer, StoreActive, StoreAccepting,
           CloseInbound, DisconnectAll, TypeOK, switches, network
  <2>5. QED
    BY <2>2, <2>3, <2>4 DEF TypeOK, DebounceType
<1>6. ASSUME NEW t \in Timer, TimerStep(t) PROVE TypeOK'
  <2>1. DebounceType'
    BY <1>1, <1>6, TimerStepType
  <2>2. UNCHANGED <<clients, call, switches, network, signals, since>>
    BY <1>6 DEF TimerStep, TimerFire, TimerClear, TimerReady
  <2>3. QED
    BY <2>1, <2>2 DEF TypeOK, DebounceType, switches, network
<1>7. ASSUME NEW s \in Source, Pass(s) \/ Open(s) PROVE TypeOK'
  BY <1>7 DEF Pass, Open, TypeOK, switches, debounce
<1>8. CASE PeerLeaves
  BY <1>8 DEF PeerLeaves, TypeOK, switches, debounce
<1>9. QED
  BY <1>2, <1>3, <1>4, <1>5, <1>6, <1>7, <1>8 DEF Next

(* Every step keeps the types, and fgTimer never names a timer that is done. *)
THEOREM TypeCorrect == Spec => []TypeOK
<1>1. ASSUME Init PROVE TypeOK
  <2>1. call \in [Caller -> [pc : CallPc, value : BOOLEAN]]
    BY <1>1 DEF Init, CallPc
  <2>2. timer \in [Timer -> {"idle", "armed", "fired", "cleared"}]
    BY <1>1 DEF Init
  <2>3. clients \subseteq Client /\ passed \subseteq Source /\ since \subseteq BOOLEAN
    BY <1>1 DEF Init
  <2>4. QED
    BY <1>1, <2>1, <2>2, <2>3, ForegroundAssumption DEF Init, TypeOK
<1>2. QED
  BY <1>1, TypeStep, PTL DEF Spec

-----------------------------------------------------------------------------
(***************************************************************************)
(* Agreement.  Calls in progress only carry values of since, and while all *)
(* of them carry v, a switch that does not stand at v is still to be set   *)
(* by one of them.                                                         *)
(***************************************************************************)
ToStore(pcs) == \E t \in Caller : call[t].pc \in pcs

AgreementInv ==
  /\ \A t \in Caller : ~At(t, "idle") => call[t].value \in since
  /\ \A v \in BOOLEAN :
       since = {v} =>
         /\ ToStore({"listen"}) \/ listening = v
         /\ ToStore({"listen", "timer", "active"}) \/ active = v
         /\ ToStore({"listen", "timer", "active", "accept"}) \/ accepting = v

LEMMA AgreementSignal ==
  ASSUME TypeOK, AgreementInv, NEW t \in Caller, NEW v \in BOOLEAN, Signal(t, v),
         At(t, "idle"), UNCHANGED switches
  PROVE  AgreementInv'
<1>1. call'[t] = [pc |-> "listen", value |-> v]
  BY DEF Signal, TypeOK
<1>2. \A u \in Caller \ {t} : call'[u] = call[u]
  BY DEF Signal, TypeOK
<1>3. v \in since' /\ (NoCalls \/ since \subseteq since')
  BY DEF Signal
<1>4. \A u \in Caller : ~At(u, "idle")' => call'[u].value \in since'
  BY <1>1, <1>2, <1>3 DEF AgreementInv, At, NoCalls
<1>5. ToStore({"listen"})' /\ ToStore({"listen", "timer", "active"})'
        /\ ToStore({"listen", "timer", "active", "accept"})'
  BY <1>1 DEF ToStore
<1>6. QED
  BY <1>4, <1>5 DEF AgreementInv

(* A step of the call of thread t that moves it to pc. *)
LEMMA AgreementGoto ==
  ASSUME TypeOK, AgreementInv, NEW t \in Caller, NEW pc \in CallPc, Goto(t, pc),
         ~At(t, "idle"), UNCHANGED since,
         NEW v \in BOOLEAN, since = {v}
  PROVE  /\ call[t].value = v
         /\ call'[t].pc = pc
         /\ \A u \in Caller \ {t} : call'[u] = call[u]
  BY DEF TypeOK, AgreementInv, Goto

LEMMA AgreementValues ==
  ASSUME TypeOK, AgreementInv, NEW t \in Caller, NEW pc \in CallPc, Goto(t, pc),
         ~At(t, "idle"), UNCHANGED since
  PROVE  \A u \in Caller : ~At(u, "idle")' => call'[u].value \in since'
<1>1. \A u \in Caller : call'[u].value = call[u].value
  BY DEF TypeOK, Goto
<1>2. \A u \in Caller \ {t} : call'[u].pc = call[u].pc
  BY DEF TypeOK, Goto
<1>3. QED
  BY <1>1, <1>2 DEF AgreementInv, At

LEMMA AgreementCallStep ==
  ASSUME TypeOK, AgreementInv, NEW t \in Caller, CallStep(t)
  PROVE  AgreementInv'
<1>1. UNCHANGED since /\ ~At(t, "idle") /\ \E pc \in CallPc : Goto(t, pc)
  BY DEF CallStep, StoreListening, SetTimer, StoreActive, StoreAccepting,
         CloseInbound, DisconnectAll, AfterListen, CallPc, At
<1>2. \A u \in Caller : ~At(u, "idle")' => call'[u].value \in since'
  BY <1>1, AgreementValues
<1>3. SUFFICES ASSUME NEW v \in BOOLEAN, since = {v}
      PROVE  /\ ToStore({"listen"})' \/ listening' = v
             /\ ToStore({"listen", "timer", "active"})' \/ active' = v
             /\ ToStore({"listen", "timer", "active", "accept"})' \/ accepting' = v
  BY <1>1, <1>2 DEF AgreementInv
<1>4. call[t].value = v /\ \A u \in Caller \ {t} : call'[u] = call[u]
  BY <1>1, <1>3, AgreementGoto
<1>5. /\ ToStore({"listen"}) \/ listening = v
      /\ ToStore({"listen", "timer", "active"}) \/ active = v
      /\ ToStore({"listen", "timer", "active", "accept"}) \/ accepting = v
  BY <1>3 DEF AgreementInv
<1>6. CASE StoreListening(t)
  <2>1. call'[t].pc = "timer" /\ listening' = v /\ UNCHANGED <<active, accepting>>
    BY <1>4, <1>6 DEF StoreListening, AfterListen, Goto, TypeOK
  <2>2. QED
    BY <2>1 DEF ToStore
<1>7. CASE SetTimer(t)
  <2>1. call'[t].pc = "active" /\ call[t].pc = "timer" /\ UNCHANGED switches
    BY <1>7 DEF SetTimer, Goto, TypeOK, At
  <2>2. ToStore({"listen"})' \/ listening' = v
    BY <1>4, <1>5, <2>1 DEF ToStore, switches
  <2>3. QED
    BY <2>1, <2>2 DEF ToStore
<1>8. CASE StoreActive(t)
  <2>1. /\ call'[t].pc = "accept" /\ call[t].pc = "active"
        /\ active' = v /\ UNCHANGED <<listening, accepting>>
    BY <1>4, <1>8 DEF StoreActive, Goto, TypeOK, At
  <2>2. ToStore({"listen"})' \/ listening' = v
    BY <1>4, <1>5, <2>1 DEF ToStore
  <2>3. QED
    BY <2>1, <2>2 DEF ToStore
<1>9. CASE StoreAccepting(t) \/ CloseInbound(t) \/ DisconnectAll(t)
  <2>1. /\ call[t].pc \in {"accept", "closeIn", "closeOut"}
        /\ UNCHANGED <<listening, active>>
        /\ \/ call[t].pc = "accept" /\ accepting' = v
           \/ call[t].pc # "accept" /\ UNCHANGED accepting
    BY <1>4, <1>9 DEF StoreAccepting, CloseInbound, DisconnectAll, At, switches
  <2>2. QED
    BY <1>4, <1>5, <2>1 DEF ToStore
<1>10. QED
  BY <1>6, <1>7, <1>8, <1>9 DEF CallStep

LEMMA AgreementStep ==
  ASSUME TypeOK, AgreementInv, [Next]_vars
  PROVE  AgreementInv'
<1>1. CASE UNCHANGED <<call, switches, since>>
  BY <1>1 DEF AgreementInv, ToStore, At, switches
<1>2. ASSUME NEW c \in Client, UiConnect(c) \/ UiLeave(c) PROVE AgreementInv'
  BY <1>1, <1>2, AgreementSignal DEF UiConnect, UiLeave, At, Caller
<1>3. ASSUME NEW r \in Request, PutActive(r) PROVE AgreementInv'
  BY <1>3, AgreementSignal DEF PutActive, At, Caller
<1>4. ASSUME NEW t \in Caller, CallStep(t) PROVE AgreementInv'
  BY <1>4, AgreementCallStep
<1>5. ASSUME NEW t \in Timer, TimerStep(t) PROVE AgreementInv'
  BY <1>1, <1>5 DEF TimerStep, TimerFire, TimerClear, TimerReady
<1>6. ASSUME NEW s \in Source, Pass(s) \/ Open(s) PROVE AgreementInv'
  BY <1>1, <1>6 DEF Pass, Open
<1>7. CASE PeerLeaves
  BY <1>1, <1>7 DEF PeerLeaves
<1>8. QED
  BY <1>1, <1>2, <1>3, <1>4, <1>5, <1>6, <1>7 DEF Next, vars

(* When overlapping calls of SetForeground that all asked for the same are done,
   the three switches agree with them, whatever the order of their stores.    *)
THEOREM SignalsAgree == Spec => []OverlappingSignalsAgree
<1>1. ASSUME Init PROVE AgreementInv
  <2>1. \A v \in BOOLEAN : since # {v}
    BY <1>1 DEF Init
  <2>2. \A t \in Caller : At(t, "idle")
    BY <1>1 DEF Init, At
  <2>3. QED
    BY <2>1, <2>2 DEF AgreementInv
<1>2. AgreementInv => OverlappingSignalsAgree
  BY DEF AgreementInv, OverlappingSignalsAgree, NoCalls, ToStore
<1>3. QED
  BY <1>1, <1>2, AgreementStep, TypeCorrect, PTL DEF Spec

-----------------------------------------------------------------------------
LEMMA QuietStep ==
  ASSUME TypeOK, Quiet, Next
  PROVE  Quiet' \/ ~NoCalls'
<1>1. ASSUME NEW t \in Caller, NEW v \in BOOLEAN, Signal(t, v) PROVE ~NoCalls'
  BY <1>1 DEF Signal, NoCalls, TypeOK
<1>2. ASSUME NEW c \in Client, UiConnect(c) \/ UiLeave(c) PROVE Quiet' \/ ~NoCalls'
  <2>1. c \in Caller
    BY DEF Caller
  <2>2. CASE UNCHANGED <<call, switches, debounce, network>>
    BY <2>2 DEF Quiet, NoCalls, switches, debounce, network
  <2>3. QED
    BY <1>1, <1>2, <2>1, <2>2 DEF UiConnect, UiLeave
<1>3. ASSUME NEW r \in Request, PutActive(r) PROVE ~NoCalls'
  BY <1>1, <1>3 DEF PutActive, Caller
<1>4. \A t \in Caller : ~CallStep(t)
  BY DEF Quiet, NoCalls, CallStep, StoreListening, SetTimer, StoreActive,
         StoreAccepting, CloseInbound, DisconnectAll, At
<1>5. \A t \in Timer : ~TimerStep(t)
  BY DEF Quiet, TimerStep, TimerFire, TimerClear, TimerReady
<1>6. \A s \in Source : ~Pass(s) /\ ~Open(s)
  BY DEF Quiet, Pass, Open, MayPass
<1>7. ~PeerLeaves
  BY DEF Quiet, PeerLeaves
<1>8. QED
  BY <1>2, <1>3, <1>4, <1>5, <1>6, <1>7 DEF Next

(* Once a node is silent, with nothing in progress, only a call of SetForeground
   can end its silence: no announce, ticker, Hello or inbound connection does. *)
THEOREM SilenceLasts == Spec => OnlyTheUiWakes
<1>1. TypeOK /\ [Next]_vars => [Quiet => Quiet' \/ ~NoCalls']_vars
  BY QuietStep
<1>2. QED
  BY <1>1, TypeCorrect, PTL DEF Spec, OnlyTheUiWakes
=============================================================================
