------------------------------ MODULE Foreground ------------------------------
(***************************************************************************)
(* The switch of one node between foreground (its UI is visible) and       *)
(* background (it is hidden, discovery and wire are off).                  *)
(*                                                                         *)
(* Handlers.SetForeground is called without a lock by the goroutine of     *)
(* every UI WebSocket (internal/api/hub.go: true when it connects, false   *)
(* when the last one leaves) and by every PUT /api/active of the desktop   *)
(* window, whose requests may overlap (cmd/app/app.go).  It sets, one      *)
(* after the other, Service.foreground and the debounce of announces       *)
(* (internal/discovery/service.go), Handlers.active                        *)
(* (internal/api/handlers.go), Hub.accepting and the tables of connections *)
(* (internal/peerwire/hub.go).  Announces, the maintenance of connections  *)
(* and peers read those switches and act on what they read later.          *)
(*                                                                         *)
(* The user wants to be discoverable (wantAnnounce) and one peer is known; *)
(* what is sent on its connections is the subject of module Pairing.       *)
(***************************************************************************)
EXTENDS Naturals

CONSTANTS
  Client,      \* UI WebSockets; one that has left may connect again
  Request,     \* threads serving PUT /api/active
  Timer,       \* debounce timers armed or still in their callback
  NoTimer,     \* no timer: fgTimer is nil
  MaxSignals   \* bound: calls of SetForeground

ASSUME ForegroundAssumption ==
  /\ Client \cap Request = {}
  /\ NoTimer \notin Timer
  /\ MaxSignals \in Nat

Caller == Client \cup Request

(* What may open a connection, once it has passed its check: a round of
   MaintainConnections, a peer heard by discovery, an inbound connection
   admitted by ServeWS, and a Hello read from an inbound connection.       *)
Source == {"maintain", "announce", "inbound", "hello"}

VARIABLES
  clients,    \* Hub.clients of the UI hub
  call,       \* call[t]: the SetForeground call in progress in thread t
  listening,  \* Service.foreground
  ready,      \* Service.announceReady
  handle,     \* Service.fgTimer
  timer,      \* timer[t]: armed, in its callback (fired, cleared), or idle
  active,     \* Handlers.active
  accepting,  \* Hub.accepting of the wire
  inb,        \* a connection of the peer is in Hub.inbound
  out,        \* a connection to the peer is in Hub.conns
  passed,     \* sources that passed their check and have yet to act on it
  signals,    \* calls of SetForeground left
  since       \* history: values signalled since no call was in progress

switches == <<listening, active, accepting>>
debounce == <<ready, handle, timer>>
network  == <<inb, out, passed>>
vars     == <<clients, call, switches, debounce, network, signals, since>>

CallPc == {"idle", "listen", "timer", "active", "accept", "closeIn", "closeOut"}

NoCalls == \A t \in Caller : call[t].pc = "idle"

(* Thread t starts SetForeground(v). *)
Signal(t, v) ==
  /\ signals > 0 /\ signals' = signals - 1
  /\ call' = [call EXCEPT ![t] = [pc |-> "listen", value |-> v]]
  /\ since' = IF NoCalls THEN {v} ELSE since \cup {v}

(***************************************************************************)
(* The threads that signal.                                                *)
(***************************************************************************)
(* A UI connects: it signals every time, not only when it is the first. *)
UiConnect(c) ==
  /\ c \notin clients /\ call[c].pc = "idle"
  /\ clients' = clients \cup {c}
  /\ Signal(c, TRUE)
  /\ UNCHANGED <<switches, debounce, network>>

(* A UI leaves.  Whether it was the last is decided under the hub's lock, the
   signal comes after.                                                       *)
UiLeave(c) ==
  /\ c \in clients /\ call[c].pc = "idle"
  /\ clients' = clients \ {c}
  /\ \/ clients = {c} /\ Signal(c, FALSE)
     \/ clients # {c} /\ UNCHANGED <<call, signals, since>>
  /\ UNCHANGED <<switches, debounce, network>>

PutActive(r) ==
  /\ call[r].pc = "idle"
  /\ \E v \in BOOLEAN : Signal(r, v)
  /\ UNCHANGED <<clients, switches, debounce, network>>

(***************************************************************************)
(* SetForeground, step by step.                                            *)
(***************************************************************************)
At(t, pc) == call[t].pc = pc

Goto(t, pc) == call' = [call EXCEPT ![t].pc = pc]

(* Mutant: a call that would change nothing is skipped. *)
AfterListenIfChanged(v) == IF listening = v THEN "idle" ELSE "timer"

AfterListen(v) == "timer"

StoreListening(t) ==
  /\ At(t, "listen")
  /\ listening' = call[t].value
  /\ Goto(t, AfterListen(call[t].value))
  /\ UNCHANGED <<clients, active, accepting, debounce, network, signals, since>>

(* Stop has no effect on a timer that is already in its callback. *)
StopTimer ==
  [t \in Timer |-> IF t = handle /\ timer[t] = "armed" THEN "idle" ELSE timer[t]]

Arm(t) ==
  /\ StopTimer[t] = "idle"
  /\ timer' = [StopTimer EXCEPT ![t] = "armed"]
  /\ handle' = t

(* Mutant: the stopped timer is not forgotten, and is taken for an armed one. *)
DebounceKeepingTimer(v) ==
  IF v
  THEN /\ \/ handle = NoTimer /\ \E t \in Timer : Arm(t)
          \/ handle # NoTimer /\ timer' = StopTimer /\ UNCHANGED handle
       /\ UNCHANGED ready
  ELSE ready' = FALSE /\ timer' = StopTimer /\ UNCHANGED handle

(* The part of Service.SetForeground under fgMu. *)
Debounce(v) ==
  IF v
  THEN (\E t \in Timer : Arm(t)) /\ UNCHANGED ready
  ELSE ready' = FALSE /\ timer' = StopTimer /\ handle' = NoTimer

SetTimer(t) ==
  /\ At(t, "timer")
  /\ Debounce(call[t].value)
  /\ Goto(t, "active")
  /\ UNCHANGED <<clients, switches, network, signals, since>>

StoreActive(t) ==
  /\ At(t, "active")
  /\ active' = call[t].value
  /\ Goto(t, "accept")
  /\ UNCHANGED <<clients, listening, accepting, debounce, network, signals, since>>

(* The round of MaintainConnections started here is not told apart from those
   of its ticker.                                                            *)
StoreAccepting(t) ==
  /\ At(t, "accept")
  /\ accepting' = call[t].value
  /\ Goto(t, IF call[t].value THEN "idle" ELSE "closeIn")
  /\ UNCHANGED <<clients, listening, active, debounce, network, signals, since>>

CloseInbound(t) ==
  /\ At(t, "closeIn")
  /\ inb' = FALSE
  /\ Goto(t, "closeOut")
  /\ UNCHANGED <<clients, switches, debounce, out, passed, signals, since>>

DisconnectAll(t) ==
  /\ At(t, "closeOut")
  /\ out' = FALSE
  /\ Goto(t, "idle")
  /\ UNCHANGED <<clients, switches, debounce, inb, passed, signals, since>>

(***************************************************************************)
(* The callback of the debounce timer.                                     *)
(***************************************************************************)
TimerFire(t) ==
  /\ timer[t] = "armed"
  /\ timer' = [timer EXCEPT ![t] = "fired"]
  /\ UNCHANGED <<clients, call, switches, ready, handle, network, signals, since>>

(* Under fgMu: clears fgTimer, whichever timer it is by now. *)
TimerClear(t) ==
  /\ timer[t] = "fired"
  /\ timer' = [timer EXCEPT ![t] = "cleared"]
  /\ handle' = NoTimer
  /\ UNCHANGED <<clients, call, switches, ready, network, signals, since>>

TimerReady(t) ==
  /\ timer[t] = "cleared"
  /\ timer' = [timer EXCEPT ![t] = "idle"]
  /\ ready' = TRUE
  /\ UNCHANGED <<clients, call, switches, handle, network, signals, since>>

(***************************************************************************)
(* Discovery, maintenance and peers.                                       *)
(***************************************************************************)
(* Mutant: connections are maintained in the background too. *)
MayPassAlwaysMaintaining(s) ==
  \/ s = "maintain"
  \/ s = "announce" /\ listening
  \/ s = "inbound" /\ accepting
  \/ s = "hello" /\ inb

(* The check each source makes before it opens a connection. *)
MayPass(s) ==
  \/ s = "maintain" /\ active
  \/ s = "announce" /\ listening
  \/ s = "inbound" /\ accepting
  \/ s = "hello" /\ inb

Pass(s) ==
  /\ s \notin passed /\ MayPass(s)
  /\ passed' = passed \cup {s}
  /\ UNCHANGED <<clients, call, switches, debounce, inb, out, signals, since>>

(* ... and what it does afterwards: Hub.Connect, or readInbound's entry. *)
Open(s) ==
  /\ s \in passed
  /\ passed' = passed \ {s}
  /\ IF s = "inbound" THEN inb' = TRUE /\ UNCHANGED out
                      ELSE out' = TRUE /\ UNCHANGED inb
  /\ UNCHANGED <<clients, call, switches, debounce, signals, since>>

(* The peer closes its connection, or stops announcing and is dropped. *)
PeerLeaves ==
  /\ \/ inb /\ inb' = FALSE /\ UNCHANGED out
     \/ out /\ out' = FALSE /\ UNCHANGED inb
  /\ UNCHANGED <<clients, call, switches, debounce, passed, signals, since>>

-----------------------------------------------------------------------------
(* A node boots silent towards discovery, but its wire accepts (NewHub). *)
Init ==
  /\ clients = {}
  /\ call = [t \in Caller |-> [pc |-> "idle", value |-> FALSE]]
  /\ listening = FALSE /\ active = FALSE /\ accepting = TRUE
  /\ ready = FALSE
  /\ handle = NoTimer
  /\ timer = [t \in Timer |-> "idle"]
  /\ inb = FALSE /\ out = FALSE /\ passed = {}
  /\ signals = MaxSignals
  /\ since = {}

CallStep(t) ==
  \/ StoreListening(t) \/ SetTimer(t) \/ StoreActive(t)
  \/ StoreAccepting(t) \/ CloseInbound(t) \/ DisconnectAll(t)

TimerStep(t) == TimerFire(t) \/ TimerClear(t) \/ TimerReady(t)

Next ==
  \/ \E c \in Client : UiConnect(c) \/ UiLeave(c)
  \/ \E r \in Request : PutActive(r)
  \/ \E t \in Caller : CallStep(t)
  \/ \E t \in Timer : TimerStep(t)
  \/ \E s \in Source : Pass(s) \/ Open(s)
  \/ PeerLeaves

Spec == Init /\ [][Next]_vars

(* Goroutines run and timers fire; UIs, windows and peers owe nothing. *)
Fairness ==
  /\ \A t \in Caller : WF_vars(CallStep(t))
  /\ \A t \in Timer : WF_vars(TimerStep(t))

FairSpec == Spec /\ Fairness
-----------------------------------------------------------------------------
(* Every variable has its type, and fgTimer never names a timer that is done. *)
TypeOK ==
  /\ clients \subseteq Client
  /\ call \in [Caller -> [pc : CallPc, value : BOOLEAN]]
  /\ listening \in BOOLEAN /\ active \in BOOLEAN /\ accepting \in BOOLEAN
  /\ ready \in BOOLEAN
  /\ handle \in Timer \cup {NoTimer}
  /\ timer \in [Timer -> {"idle", "armed", "fired", "cleared"}]
  /\ handle # NoTimer => timer[handle] \in {"armed", "fired"}
  /\ inb \in BOOLEAN /\ out \in BOOLEAN
  /\ passed \subseteq Source
  /\ signals \in Nat
  /\ since \subseteq BOOLEAN

(* "UDP announce+listen and peerwire all on or all off": when overlapping calls
   all asked for the same and are done, every switch stands where they put it,
   whatever order their stores came in and wherever the switches stood before. *)
OverlappingSignalsAgree ==
  \A v \in BOOLEAN :
    (NoCalls /\ since = {v}) => listening = v /\ active = v /\ accepting = v

(* Nothing is open, and nothing in progress can open anything. *)
Quiet ==
  /\ NoCalls /\ passed = {}
  /\ ~listening /\ ~active /\ ~accepting /\ ~ready /\ ~inb /\ ~out
  /\ \A t \in Timer : timer[t] = "idle"

(* A silent node stays silent whatever its peers and its tickers do: only a UI
   or a window that calls SetForeground ends the silence.                    *)
OnlyTheUiWakes == [][Quiet => Quiet' \/ ~NoCalls']_vars

(* When the last calls all said foreground, announces eventually start, however
   often the debounce was armed again and whichever timer's callback cleared
   fgTimer.                                                                  *)
AnnouncesAgain == (<>[](NoCalls /\ since = {TRUE})) => <>[]ready

(* "Any UI connect -> foreground ... always brings the node back": while a UI is
   connected and no window said otherwise, the node is in the foreground once
   the calls in progress are done.  For instances with no Request.           *)
ConnectedUiIsForeground ==
  (NoCalls /\ clients # {}) => listening /\ active /\ accepting

=============================================================================
