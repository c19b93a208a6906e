--------------------------- MODULE StManagerProofs ---------------------------
(***************************************************************************)
(* Proofs about StManager, for any number of threads and processes: type   *)
(* correctness; that one Start at a time proceeds (LatchInv); from it, who *)
(* knows of a Syncthing that no Stop is about to kill (ProcInv), and what  *)
(* a Stop leaves (GoneInv); and that the manager implements StLifecycle.   *)
(***************************************************************************)
EXTENDS StManager, FiniteSetTheorems, TLAPS

Pc == {"idle"} \cup StartPc \cup StopPc

LEMMA IdleType == Idle \in Call
BY StManagerAssumption DEF Idle, Call

LEMMA GotoType ==
  ASSUME call \in [Thread -> Call], NEW t \in Thread, NEW pc \in Pc, Goto(t, pc)
  PROVE  call' \in [Thread -> Call]
<1>1. call[t] \in Call
  OBVIOUS
<1>2. [call[t] EXCEPT !.pc = pc] \in Call
  BY <1>1 DEF Call, Pc
<1>3. call' = [call EXCEPT ![t] = [call[t] EXCEPT !.pc = pc]]
  BY DEF Goto
<1>4. QED
  BY <1>2, <1>3

(* The steps that change more of a call than its pc. *)
LEMMA CallType ==
  ASSUME TypeOK, Next
  PROVE  call' \in [Thread -> Call]
<1>1. call \in [Thread -> Call]
  BY DEF TypeOK
<1>2. ASSUME NEW t \in Thread, StartClaim(t) PROVE call' \in [Thread -> Call]
  <2>1. CASE UNCHANGED call
    BY <1>1, <2>1
  <2>2. CASE call' = [u \in Thread |-> IF u = t THEN [Idle EXCEPT !.pc = "probe"]
                                       ELSE [call[u] EXCEPT !.alone = FALSE]]
    <3>1. [Idle EXCEPT !.pc = "probe"] \in Call
      BY IdleType DEF Call, StartPc
    <3>2. \A u \in Thread : [call[u] EXCEPT !.alone = FALSE] \in Call
      BY <1>1 DEF Call
    <3>3. QED
      BY <2>2, <3>1, <3>2
  <2>3. QED
    BY <1>2, <2>1, <2>2 DEF StartClaim
<1>3. ASSUME NEW t \in Thread, NEW inner \in BOOLEAN, Take(t, inner)
      PROVE  call' \in [Thread -> Call]
  <2>1. current \in Proc \cup {NoProc}
    BY DEF TypeOK
  <2>2. [Idle EXCEPT !.pc = AfterTake(current), !.cmd = current,
                     !.inner = inner, !.alone = ~starting] \in Call
    BY <2>1, IdleType DEF Call, AfterTake, StopPc
  <2>3. QED
    BY <1>1, <1>3, <2>2 DEF Take
<1>4. ASSUME NEW t \in Thread, InCall(t) PROVE call' \in [Thread -> Call]
  <2>1. call[t] \in Call
    BY <1>1
  <2>2. CASE StartTimeout(t)
    BY <1>3, <2>2 DEF StartTimeout
  <2>3. CASE Launch(t)
    <3>1. PICK p \in Proc : call' = [call EXCEPT ![t].pc = "record", ![t].cmd = p]
      BY <2>3 DEF Launch
    <3>2. [call[t] EXCEPT !.pc = "record", !.cmd = p] \in Call
      BY <2>1 DEF Call, StartPc
    <3>3. QED
      BY <1>1, <3>1, <3>2
  <2>4. CASE Record(t)
    <3>1. [call[t] EXCEPT !.pc = "await", !.polls = MaxPolls] \in Call
      <4>1. MaxPolls \in 0..MaxPolls
        BY StManagerAssumption
      <4>2. QED
        BY <2>1, <4>1 DEF Call, StartPc
    <3>2. QED
      BY <1>1, <2>4, <3>1 DEF Record
  <2>5. CASE Answer(t)
    <3>1. ASSUME call[t].polls > 0
          PROVE  [call[t] EXCEPT !.pc = "await", !.polls = @ - 1] \in Call
      <4>1. call[t].polls - 1 \in 0..MaxPolls
        BY <2>1, <3>1, StManagerAssumption DEF Call
      <4>2. QED
        BY <2>1, <4>1 DEF Call, StartPc
    <3>2. CASE /\ call[t].polls > 0
               /\ call' = [call EXCEPT ![t].pc = "await", ![t].polls = @ - 1]
      BY <1>1, <3>1, <3>2
    <3>3. CASE Goto(t, "unlatch") \/ Goto(t, "timeout")
      BY <1>1, <3>3, GotoType DEF Pc, StartPc
    <3>4. QED
      BY <2>5, <3>2, <3>3 DEF Answer
  <2>6. CASE Sweep(t)
    <3>1. [call[t] EXCEPT !.pc = "strike", !.prey = Live \cap own] \in Call
      BY <2>1 DEF Call, StopPc, Live
    <3>2. QED
      BY <1>1, <2>6, <3>1 DEF Sweep
  <2>7. CASE Unlatch(t)
    BY <1>1, <2>7, IdleType DEF Unlatch
  <2>8. CASE StopReturn(t)
    <3>1. [Idle EXCEPT !.pc = "unlatch"] \in Call
      BY IdleType DEF Call, StartPc
    <3>2. QED
      BY <1>1, <2>8, <3>1, IdleType DEF StopReturn
  <2>9. CASE Probe(t) \/ Verify(t) \/ Adopt(t) \/ ClearPort(t) \/ LaunchError(t)
             \/ Await(t) \/ KillHandle(t) \/ Strike(t)
    <3>1. \E pc \in Pc : Goto(t, pc)
      BY <2>9
         DEF Probe, Verify, Adopt, ClearPort, LaunchError, Await, KillHandle, Strike,
             AfterLaunchError, Pc, StartPc, StopPc
    <3>2. QED
      BY <1>1, <3>1, GotoType
  <2>10. QED
    BY <1>4, <2>2, <2>3, <2>4, <2>5, <2>6, <2>7, <2>8, <2>9 DEF InCall
<1>5. ASSUME NEW t \in Thread, Stop(t) PROVE call' \in [Thread -> Call]
  BY <1>3, <1>5 DEF Stop
<1>6. ASSUME NEW p \in Proc, BecomeReady(p) \/ ProcessExit(p) \/ Reap(p)
      PROVE  call' \in [Thread -> Call]
  BY <1>1, <1>6 DEF BecomeReady, ProcessExit, Reap
<1>7. QED
  BY <1>2, <1>4, <1>5, <1>6 DEF Next

LEMMA KillType ==
  ASSUME TypeOK, NEW victims, Kill(victims)
  PROVE  proc' \in [Proc -> {"free", "booting", "up", "exited"}]
BY DEF TypeOK, Kill

LEMMA ProcessType ==
  ASSUME TypeOK, Next
  PROVE  /\ proc' \in [Proc -> {"free", "booting", "up", "exited"}]
         /\ own' \subseteq Proc
         /\ reapers' \subseteq Proc
         /\ current' \in reapers' \cup {NoProc}
<1>1. UNCHANGED proc \/ proc' \in [Proc -> {"free", "booting", "up", "exited"}]
  BY KillType
     DEF TypeOK, Next, InCall, process, state, StartClaim, Stop, Probe, Verify, Adopt,
         ClearPort, Launch, LaunchError, Record, Await, Answer, Unlatch, StartTimeout,
         Take, KillHandle, Sweep, Strike, StopReturn, BecomeReady, ProcessExit, Reap
<1>2. own' \subseteq Proc
  BY DEF TypeOK, Next, InCall, process, StartClaim, Stop, Probe, Verify, Adopt,
         ClearPort, Launch, LaunchError, Record, Await, Answer, Unlatch, StartTimeout,
         Take, KillHandle, Sweep, Strike, StopReturn, BecomeReady, ProcessExit, Reap
<1>3. ASSUME NEW t \in Thread, StartClaim(t) \/ Stop(t) \/ InCall(t)
      PROVE  reapers' \subseteq Proc /\ current' \in reapers' \cup {NoProc}
  <2>1. CASE Record(t)
    <3>1. call[t].cmd \in Proc
      BY <2>1 DEF TypeOK, Record, At
    <3>2. QED
      BY <2>1, <3>1 DEF TypeOK, Record
  <2>2. CASE ~Record(t)
    BY <1>3, <2>2
       DEF TypeOK, InCall, process, state, StartClaim, Stop, Probe, Verify, Adopt,
           ClearPort, Launch, LaunchError, Await, Answer, Unlatch, StartTimeout,
           Take, KillHandle, Sweep, Strike, StopReturn
  <2>3. QED
    BY <2>1, <2>2
<1>4. ASSUME NEW p \in Proc, BecomeReady(p) \/ ProcessExit(p) \/ Reap(p)
      PROVE  reapers' \subseteq Proc /\ current' \in reapers' \cup {NoProc}
  BY <1>4 DEF TypeOK, state, BecomeReady, ProcessExit, Reap, ClearState
<1>5. QED
  BY <1>1, <1>2, <1>3, <1>4 DEF TypeOK, Next

LEMMA StateType ==
  ASSUME TypeOK, Next
  PROVE  /\ running' \in BOOLEAN /\ starting' \in BOOLEAN
         /\ left' \in [{"start", "stop", "crash"} -> Nat]
         /\ touched' \in BOOLEAN /\ gone' \in BOOLEAN
<1>1. ASSUME NEW kind \in {"start", "stop", "crash"}, Spend(kind)
      PROVE  left' \in [{"start", "stop", "crash"} -> Nat]
  BY <1>1 DEF Spend, TypeOK
<1>2. left' \in [{"start", "stop", "crash"} -> Nat]
  BY <1>1
     DEF TypeOK, Next, InCall, history, StartClaim, Stop, Probe, Verify, Adopt,
         ClearPort, Launch, LaunchError, Record, Await, Answer, Unlatch, StartTimeout,
         KillHandle, Sweep, Strike, StopReturn, BecomeReady, ProcessExit, Reap
<1>3. /\ running' \in BOOLEAN /\ starting' \in BOOLEAN
  BY DEF TypeOK, Next, InCall, state, StartClaim, Stop, Probe, Verify, Adopt,
         ClearPort, Launch, LaunchError, Record, Await, Answer, Unlatch, StartTimeout,
         Take, StopsRunning, KillHandle, Sweep, Strike, StopReturn,
         BecomeReady, ProcessExit, Reap, ClearState
<1>4. touched' \in BOOLEAN /\ gone' \in BOOLEAN
  <2>1. \A t \in Thread : call[t].alone \in BOOLEAN
    BY DEF TypeOK, Call
  <2>2. QED
    BY <2>1
       DEF TypeOK, Next, InCall, history, StartClaim, Stop, Probe, Verify, Adopt,
           ClearPort, Launch, LaunchError, Record, Await, Answer, Unlatch, StartTimeout,
           Take, KillHandle, Sweep, Strike, StopReturn, BecomeReady, ProcessExit, Reap
<1>5. QED
  BY <1>2, <1>3, <1>4

(* What a step of thread t leaves of the other threads. *)
Same(u) ==
  /\ call'[u].pc = call[u].pc /\ call'[u].cmd = call[u].cmd
  /\ call'[u].prey = call[u].prey /\ call'[u].inner = call[u].inner
  /\ call'[u].alone => call[u].alone

LEMMA OthersKeep ==
  ASSUME TypeOK, NEW t \in Thread, StartClaim(t) \/ Stop(t) \/ InCall(t)
  PROVE  \A u \in Thread \ {t} : Same(u)
<1>1. call \in [Thread -> Call]
  BY DEF TypeOK
<1>2. CASE StartClaim(t)
  <2>1. ASSUME NEW u \in Thread \ {t}, call'[u] = [call[u] EXCEPT !.alone = FALSE]
        PROVE  Same(u)
    <3>1. call[u] \in Call
      BY <1>1
    <3>2. QED
      BY <2>1, <3>1 DEF Same, Call
  <2>2. QED
    BY <1>2, <2>1 DEF StartClaim, Same
<1>3. CASE Stop(t) \/ InCall(t)
  <2>1. \A u \in Thread \ {t} : call'[u] = call[u]
    BY <1>1, <1>3
       DEF InCall, Stop, Probe, Verify, Adopt, Goto, ClearPort, Launch, LaunchError,
           Record, Await, Answer, Unlatch, StartTimeout, Take, KillHandle, Sweep,
           Strike, StopReturn
  <2>2. QED
    BY <2>1 DEF Same
<1>4. QED
  BY <1>2, <1>3

LEMMA HandleType ==
  ASSUME TypeOK, Next
  PROVE  \A t \in Thread : call'[t].pc = "record" => call'[t].cmd \in Proc
<1>1. ASSUME NEW t \in Thread, StartClaim(t) \/ Stop(t) \/ InCall(t), call'[t].pc = "record"
      PROVE  call'[t].cmd \in Proc
  <2>1. call \in [Thread -> Call] /\ call[t] \in Call
    BY DEF TypeOK
  <2>2. CASE StartClaim(t)
    BY <1>1, <2>1, <2>2 DEF StartClaim, TypeOK, Idle
  <2>3. CASE Stop(t) \/ StartTimeout(t)
    BY <1>1, <2>1, <2>3 DEF Stop, StartTimeout, Take, AfterTake, Idle
  <2>4. CASE Launch(t)
    BY <2>1, <2>4 DEF Launch, Call
  <2>5. CASE Record(t) \/ Answer(t) \/ Sweep(t)
    BY <1>1, <2>1, <2>5 DEF Record, Answer, Sweep, Goto, Call
  <2>6. CASE Unlatch(t) \/ StopReturn(t)
    BY <1>1, <2>1, <2>6 DEF Unlatch, StopReturn, Idle
  <2>7. CASE Probe(t) \/ Verify(t) \/ Adopt(t) \/ ClearPort(t) \/ LaunchError(t)
             \/ Await(t) \/ KillHandle(t) \/ Strike(t)
    <3>1. \E pc \in Pc \ {"record"} : Goto(t, pc)
      BY <2>7
         DEF Probe, Verify, Adopt, ClearPort, LaunchError, Await, KillHandle, Strike,
             AfterLaunchError, Pc, StartPc, StopPc
    <3>2. QED
      BY <1>1, <2>1, <3>1 DEF Goto
  <2>8. QED
    BY <1>1, <2>2, <2>3, <2>4, <2>5, <2>6, <2>7 DEF InCall
<1>2. ASSUME NEW p \in Proc, BecomeReady(p) \/ ProcessExit(p) \/ Reap(p)
      PROVE  UNCHANGED call
  BY <1>2 DEF BecomeReady, ProcessExit, Reap
<1>3. QED
  BY <1>1, <1>2, OthersKeep DEF Next, TypeOK, Same

LEMMA TypeStep ==
  ASSUME TypeOK, [Next]_vars
  PROVE  TypeOK'
<1>1. CASE UNCHANGED vars
  BY <1>1 DEF vars, process, state, history, TypeOK
<1>2. CASE Next
  BY <1>2, CallType, ProcessType, StateType, HandleType DEF TypeOK
<1>3. QED
  BY <1>1, <1>2

LEMMA TypeInit == Init => TypeOK
<1>1. ASSUME Init PROVE proc \in [Proc -> {"free", "booting", "up", "exited"}]
  BY <1>1 DEF Init
<1>2. ASSUME Init PROVE own \subseteq Proc
  BY <1>2 DEF Init
<1>3. Idle.pc # "record"
  BY DEF Idle
<1>4. QED
  BY ZenonT(60), <1>1, <1>2, <1>3, IdleType, StManagerAssumption DEF Init, TypeOK

(* Type correctness; in particular a recorded process always has a reaper. *)
THEOREM TypeCorrect == Spec => []TypeOK
BY TypeInit, TypeStep, PTL DEF Spec

(***************************************************************************)
(* The latch.                                                              *)
(***************************************************************************)
Starting(t) == OpOf(t) = "starting"

(* Before a Start has adopted or recorded a process. *)
UnsetPc == {"probe", "verify", "adopt", "clear", "launch", "record"}

LatchInv ==
  /\ \A t \in Thread : Starting(t) => starting
  /\ \A t, u \in Thread : Starting(t) /\ Starting(u) => t = u
  /\ \A t \in Thread : call[t].pc \in UnsetPc => ~running
  /\ \A t \in Thread : call[t].inner => call[t].pc \in StopPc

(* Thread t moves from one abstract operation to another. *)
Moves(t, from, to) == OpOf(t) = from /\ OpOf(t)' = to

(* What a step inside a call means for `running`, the latch and OpOf. *)
InCallMeans(t) ==
  /\ call'[t].inner => call'[t].pc \in StopPc
  /\ \/ /\ UNCHANGED <<running, starting>>
        /\ Moves(t, "starting", "starting")
        /\ call'[t].pc \in UnsetPc => call[t].pc \in UnsetPc
     \/ /\ Moves(t, "starting", "starting")
        /\ running' = TRUE /\ UNCHANGED starting
        /\ call[t].pc \in UnsetPc /\ call'[t].pc \notin UnsetPc
     \/ /\ Moves(t, "starting", "starting")
        /\ running' = FALSE /\ UNCHANGED starting
        /\ call'[t].pc \notin UnsetPc
     \/ /\ Moves(t, "starting", "none")
        /\ starting' = FALSE /\ UNCHANGED running
        /\ call'[t].pc \notin UnsetPc
     \/ /\ \E to \in {"stopping", "none"} : Moves(t, "stopping", to)
        /\ UNCHANGED <<running, starting>>
        /\ call'[t].pc \notin UnsetPc

LEMMA InCallEffect ==
  ASSUME TypeOK, LatchInv, NEW t \in Thread, InCall(t)
  PROVE  InCallMeans(t)
<1>1. call \in [Thread -> Call] /\ call[t] \in Call
  BY DEF TypeOK
<1>2. call[t].inner => call[t].pc \in StopPc
  BY DEF LatchInv
<1>3. ASSUME NEW pc \in Pc, Goto(t, pc)
      PROVE  call'[t].pc = pc /\ call'[t].inner = call[t].inner
  BY <1>1, <1>3 DEF Goto, Call
<1>4. CASE Probe(t) \/ Verify(t) \/ ClearPort(t) \/ LaunchError(t) \/ Await(t)
  <2>1. PICK pc \in StartPc : /\ Goto(t, pc)
                              /\ pc \in UnsetPc => call[t].pc \in UnsetPc
                              /\ call[t].pc \in StartPc
                              /\ UNCHANGED <<running, starting>>
    BY <1>4
       DEF Probe, Verify, ClearPort, LaunchError, Await, AfterLaunchError, At, state,
           StartPc, UnsetPc
  <2>2. call'[t].pc = pc /\ call'[t].inner = call[t].inner
    BY <1>3, <2>1 DEF Pc
  <2>3. call'[t].inner = FALSE
    BY <1>1, <1>2, <2>1, <2>2 DEF StartPc, StopPc, Call
  <2>4. QED
    BY <2>1, <2>2, <2>3 DEF InCallMeans, Moves, OpOf
<1>5. CASE Launch(t) \/ Answer(t)
  <2>1. call'[t].inner = call[t].inner /\ call'[t].pc \in StartPc
    BY <1>1, <1>3, <1>5 DEF Launch, Answer, Call, Pc, StartPc
  <2>2. call'[t].pc \in UnsetPc => call[t].pc \in UnsetPc
    BY <1>1, <1>3, <1>5 DEF Launch, Answer, Call, Pc, StartPc, UnsetPc, At
  <2>3. call[t].pc \in StartPc /\ UNCHANGED <<running, starting>>
    BY <1>5 DEF Launch, Answer, At, state, StartPc
  <2>4. call'[t].inner = FALSE
    BY <1>1, <1>2, <2>1, <2>3 DEF StartPc, StopPc, Call
  <2>5. QED
    BY <2>1, <2>2, <2>3, <2>4 DEF InCallMeans, Moves, OpOf
<1>6. CASE Adopt(t) \/ Record(t)
  <2>1. call'[t].inner = call[t].inner /\ call'[t].pc \in StartPc \ UnsetPc
    BY <1>1, <1>3, <1>6 DEF Adopt, Record, Call, Pc, StartPc, UnsetPc
  <2>2. call[t].pc \in StartPc \cap UnsetPc /\ running' = TRUE /\ UNCHANGED starting
    BY <1>6 DEF Adopt, Record, At, StartPc, UnsetPc
  <2>3. call'[t].inner = FALSE
    BY <1>1, <1>2, <2>1, <2>2 DEF StartPc, StopPc, Call
  <2>4. QED
    BY <2>1, <2>2, <2>3 DEF InCallMeans, Moves, OpOf
<1>7. CASE Unlatch(t)
  <2>1. call'[t] = Idle /\ starting' = FALSE /\ UNCHANGED running
    BY <1>1, <1>7 DEF Unlatch
  <2>2. call[t].pc \in StartPc
    BY <1>7 DEF Unlatch, At, StartPc
  <2>3. QED
    BY <2>1, <2>2 DEF InCallMeans, Moves, OpOf, Idle, StartPc, StopPc, UnsetPc
<1>8. CASE StartTimeout(t)
  <2>1. call'[t].inner /\ call'[t].pc = "kill"
    BY <1>1, <1>8 DEF StartTimeout, Take, AfterTake, Idle
  <2>2. call[t].pc \in StartPc /\ running' = FALSE /\ UNCHANGED starting
    BY <1>8 DEF StartTimeout, Take, StopsRunning, At, StartPc
  <2>3. QED
    BY <2>1, <2>2 DEF InCallMeans, Moves, OpOf, StartPc, StopPc, UnsetPc
<1>9. CASE KillHandle(t) \/ Sweep(t) \/ Strike(t)
  <2>1. call'[t].inner = call[t].inner /\ call'[t].pc \in StopPc
    BY <1>1, <1>3, <1>9 DEF KillHandle, Sweep, Strike, Call, Pc, StopPc
  <2>2. call[t].pc \in StopPc /\ UNCHANGED <<running, starting>>
    BY <1>9 DEF KillHandle, Sweep, Strike, At, state, StopPc
  <2>3. QED
    BY <2>1, <2>2 DEF InCallMeans, Moves, OpOf, StartPc, StopPc, UnsetPc
<1>10. CASE StopReturn(t)
  <2>1. call[t].pc \in StopPc /\ UNCHANGED <<running, starting>>
    BY <1>10 DEF StopReturn, At, state, StopPc
  <2>2. CASE call[t].inner
    <3>1. call'[t].pc = "unlatch" /\ call'[t].inner = FALSE
      BY <1>1, <1>10, <2>2 DEF StopReturn, Idle
    <3>2. QED
      BY <2>1, <2>2, <3>1 DEF InCallMeans, Moves, OpOf, StartPc, StopPc, UnsetPc
  <2>3. CASE ~call[t].inner
    <3>1. call'[t] = Idle
      BY <1>1, <1>10, <2>3 DEF StopReturn
    <3>2. QED
      BY <2>1, <2>3, <3>1 DEF InCallMeans, Moves, OpOf, Idle, StartPc, StopPc, UnsetPc
  <2>4. QED
    BY <2>2, <2>3
<1>11. QED
  BY <1>4, <1>5, <1>6, <1>7, <1>8, <1>9, <1>10 DEF InCall

LEMMA SameOp ==
  ASSUME NEW u \in Thread, Same(u)
  PROVE  OpOf(u)' = OpOf(u)
BY DEF Same, OpOf

LEMMA LatchStep ==
  ASSUME TypeOK, LatchInv, [Next]_vars
  PROVE  LatchInv'
<1>1. call \in [Thread -> Call]
  BY DEF TypeOK
<1>2. CASE UNCHANGED vars
  BY <1>2 DEF vars, state, LatchInv, Starting, OpOf
<1>3. ASSUME NEW t \in Thread, InCall(t) PROVE LatchInv'
  <2>1. InCallMeans(t)
    BY <1>3, InCallEffect
  <2>2. \A u \in Thread \ {t} : Same(u) /\ OpOf(u)' = OpOf(u)
    BY <1>3, OthersKeep, SameOp
  <2>3. \A u \in Thread : Starting(u)' => Starting(u)
    BY <2>1, <2>2 DEF InCallMeans, Moves, Starting
  <2>4. \A u \in Thread : Starting(u)' => starting'
    BY <2>1, <2>2, <2>3 DEF InCallMeans, Moves, Starting, LatchInv
  <2>5. \A u, w \in Thread : Starting(u)' /\ Starting(w)' => u = w
    BY <2>3 DEF LatchInv
  <2>6. \A u \in Thread : call'[u].pc \in UnsetPc => ~running'
    <3>1. \A u \in Thread : call[u].pc \in UnsetPc => Starting(u)
      BY DEF UnsetPc, StartPc, Starting, OpOf
    <3>2. ASSUME NEW u \in Thread, call'[u].pc \in UnsetPc PROVE ~running'
      <4>1. CASE u = t
        BY <2>1, <3>2, <4>1 DEF InCallMeans, LatchInv
      <4>2. CASE u # t
        <5>1. call[u].pc \in UnsetPc
          BY <2>2, <3>2, <4>2 DEF Same
        <5>2. ~Starting(t)
          BY <3>1, <4>2, <5>1 DEF LatchInv
        <5>3. UNCHANGED running
          BY <2>1, <5>2 DEF InCallMeans, Moves, Starting
        <5>4. QED
          BY <5>1, <5>3 DEF LatchInv
      <4>3. QED
        BY <4>1, <4>2
    <3>3. QED
      BY <3>2
  <2>7. \A u \in Thread : call'[u].inner => call'[u].pc \in StopPc
    BY <2>1, <2>2 DEF InCallMeans, Same, LatchInv
  <2>8. QED
    BY <2>4, <2>5, <2>6, <2>7 DEF LatchInv
<1>4. ASSUME NEW t \in Thread, StartClaim(t) PROVE LatchInv'
  <2>1. CASE Taken
    BY <1>4, <2>1 DEF StartClaim, LatchInv, Starting, OpOf
  <2>2. CASE ~Taken
    <3>1. starting' = TRUE /\ ~running' /\ \A u \in Thread : ~Starting(u)
      BY <1>4, <2>2 DEF StartClaim, Taken, LatchInv
    <3>2. call'[t].pc = "probe" /\ call'[t].inner = FALSE
      BY <1>1, <1>4, <2>2 DEF StartClaim, Idle
    <3>3. \A u \in Thread \ {t} : Same(u) /\ OpOf(u)' = OpOf(u)
      BY <1>4, OthersKeep, SameOp
    <3>4. \A u \in Thread : Starting(u)' => u = t
      BY <3>1, <3>3 DEF Starting
    <3>5. \A u \in Thread : call'[u].inner => call'[u].pc \in StopPc
      BY <3>2, <3>3 DEF Same, LatchInv
    <3>6. QED
      BY <3>1, <3>4, <3>5 DEF LatchInv
  <2>3. QED
    BY <2>1, <2>2
<1>5. ASSUME NEW t \in Thread, Stop(t) PROVE LatchInv'
  <2>1. call'[t].pc = "kill" /\ call'[t].inner = FALSE
    BY <1>1, <1>5 DEF Stop, Take, AfterTake, Idle
  <2>2. running' = FALSE /\ UNCHANGED starting
    BY <1>5 DEF Stop, Take, StopsRunning
  <2>3. \A u \in Thread \ {t} : Same(u) /\ OpOf(u)' = OpOf(u)
    BY <1>5, OthersKeep, SameOp
  <2>4. ~Starting(t)'
    BY <2>1 DEF Starting, OpOf, StartPc, StopPc
  <2>5. \A u \in Thread : Starting(u)' => Starting(u)
    BY <2>3, <2>4 DEF Starting
  <2>6. \A u \in Thread : call'[u].inner => call'[u].pc \in StopPc
    BY <2>1, <2>3 DEF Same, LatchInv
  <2>7. QED
    BY <2>2, <2>5, <2>6 DEF LatchInv
<1>6. ASSUME NEW p \in Proc, BecomeReady(p) \/ ProcessExit(p) \/ Reap(p) PROVE LatchInv'
  <2>1. UNCHANGED <<call, starting>>
    BY <1>6 DEF BecomeReady, ProcessExit, Reap, state
  <2>2. ~running => ~running'
    BY <1>6 DEF BecomeReady, ProcessExit, Reap, ClearState, state
  <2>3. QED
    BY <2>1, <2>2 DEF LatchInv, Starting, OpOf
<1>7. QED
  BY <1>2, <1>3, <1>4, <1>5, <1>6 DEF Next

LEMMA LatchInit == Init => LatchInv
BY DEF Init, LatchInv, Starting, OpOf, Idle, StartPc, StopPc, UnsetPc

(***************************************************************************)
(* One Syncthing.  A process is doomed if a Stop in progress will kill it; *)
(* of the others there is at most one, and who knows it is settled.        *)
(***************************************************************************)
Dooms(t, p) ==
  \/ At(t, "kill") /\ (call[t].cmd = p \/ p \in own)
  \/ At(t, "sweep") /\ p \in own
  \/ At(t, "strike") /\ p \in call[t].prey

Spared == {p \in Live : \A t \in Thread : ~Dooms(t, p)}

(* Launched, and about to be recorded. *)
Recorded(p) == \E t \in Thread : At(t, "record") /\ call[t].cmd = p

(* A call that has dealt with whatever survived an earlier host. *)
SettledPc == {"launch", "record", "await", "answer", "timeout", "unlatch"} \cup StopPc

Settled == touched \/ \E t \in Thread : call[t].pc \in SettledPc

ProcInv ==
  /\ current # NoProc => running
  /\ \A p \in Spared : proc[p] = "booting" => current = p \/ Recorded(p)
  /\ \A t \in Thread : At(t, "launch") => Spared = {}
  /\ \A t \in Thread : At(t, "record") => Spared \subseteq {call[t].cmd}
  /\ current # NoProc => Spared \subseteq {current}
  /\ \A p, q \in Spared : p = q
  /\ Settled /\ ~running => \A p \in Spared \cap own : Recorded(p)

LEMMA GotoEffect ==
  ASSUME TypeOK, NEW t \in Thread, NEW pc, Goto(t, pc)
  PROVE  call'[t].pc = pc /\ call'[t].prey = call[t].prey /\ call'[t].alone = call[t].alone
<1>1. call \in [Thread -> Call] /\ call[t] \in Call
  BY DEF TypeOK
<1>2. call' = [call EXCEPT ![t] = [call[t] EXCEPT !.pc = pc]]
  BY DEF Goto
<1>3. QED
  BY <1>1, <1>2 DEF Call

LEMMA AnswerEffect ==
  ASSUME TypeOK, NEW t \in Thread, Answer(t)
  PROVE  call'[t].pc \in {"unlatch", "timeout", "await"} /\ call'[t].alone = call[t].alone
<1>1. CASE Goto(t, "unlatch") \/ Goto(t, "timeout")
  BY <1>1, GotoEffect
<1>2. CASE call' = [call EXCEPT ![t].pc = "await", ![t].polls = @ - 1]
  BY <1>2 DEF TypeOK, Call
<1>3. QED
  BY <1>1, <1>2 DEF Answer

LEMMA KillLive ==
  ASSUME TypeOK, NEW victims, Kill(victims)
  PROVE  /\ Live' = Live \ victims
         /\ \A p \in Live' : proc'[p] = proc[p]
BY DEF TypeOK, Kill, Live

(* What is live after a step of a thread: what was, unless it was launched. *)
LEMMA LiveStep ==
  ASSUME TypeOK, NEW t \in Thread, StartClaim(t) \/ Stop(t) \/ InCall(t)
  PROVE  /\ ~Launch(t) => Live' \subseteq Live /\ own' = own
                          /\ \A p \in Live' : proc'[p] = proc[p]
         /\ own \subseteq own'
<1>1. CASE ClearPort(t) \/ KillHandle(t) \/ Strike(t)
  <2>1. own' = own
    BY <1>1 DEF ClearPort, KillHandle, Strike
  <2>2. PICK victims \in SUBSET Proc : Kill(victims)
    <3>1. call[t] \in Call
      BY DEF TypeOK
    <3>2. call[t].prey \in SUBSET Proc
      BY <3>1 DEF Call
    <3>3. QED
      BY <1>1, <3>2 DEF ClearPort, KillHandle, Strike
  <2>3. QED
    BY <2>1, <2>2, KillLive
<1>2. CASE Launch(t)
  BY <1>2 DEF Launch
<1>3. CASE ~(ClearPort(t) \/ KillHandle(t) \/ Strike(t) \/ Launch(t))
  <2>1. UNCHANGED <<proc, own>>
    BY <1>3
       DEF InCall, process, StartClaim, Stop, Probe, Verify, Adopt, LaunchError, Record,
           Await, Answer, Unlatch, StartTimeout, Take, Sweep, StopReturn
  <2>2. QED
    BY <2>1 DEF Live
<1>4. QED
  BY <1>1, <1>2, <1>3

(* A process that a Stop was to kill stays so until it is dead. *)
LEMMA DoomStays ==
  ASSUME TypeOK, NEW t \in Thread, StartClaim(t) \/ Stop(t) \/ InCall(t),
         NEW u \in Thread, NEW p \in Live', Dooms(u, p), p \in Live
  PROVE  Dooms(u, p)'
<1>1. own \subseteq own'
  BY LiveStep
<1>2. CASE u # t
  <2>1. Same(u)
    BY <1>2, OthersKeep
  <2>2. QED
    BY <1>1, <2>1 DEF Same, Dooms, At
<1>3. CASE u = t
  <2>1. call \in [Thread -> Call] /\ call[t] \in Call
    BY DEF TypeOK
  <2>2. KillHandle(t) \/ Sweep(t) \/ Strike(t)
    BY <1>3
       DEF Dooms, At, InCall, StartClaim, Stop, Probe, Verify, Adopt, ClearPort, Launch,
           LaunchError, Record, Await, Answer, Unlatch, StartTimeout, StopReturn
  <2>3. CASE KillHandle(t)
    <3>1. p \notin {call[t].cmd} \cap Proc
      BY <2>3, KillLive DEF KillHandle
    <3>2. p \in own
      BY <1>3, <2>3, <3>1 DEF Dooms, At, KillHandle, Live
    <3>3. call'[t].pc = "sweep"
      BY <2>1, <2>3 DEF KillHandle, Goto
    <3>4. QED
      BY <1>1, <1>3, <3>2, <3>3 DEF Dooms, At
  <2>4. CASE Sweep(t)
    <3>1. p \in own
      BY <1>3, <2>4 DEF Dooms, At, Sweep
    <3>2. call'[t].pc = "strike" /\ call'[t].prey = Live \cap own
      BY <2>1, <2>4 DEF Sweep
    <3>3. QED
      BY <1>3, <3>1, <3>2 DEF Dooms, At
  <2>5. CASE Strike(t)
    BY <1>3, <2>5, KillLive DEF Dooms, At, Strike
  <2>6. QED
    BY <2>2, <2>3, <2>4, <2>5
<1>4. QED
  BY <1>2, <1>3

(* Only a launch adds to what is spared. *)
LEMMA SparedStays ==
  ASSUME TypeOK, NEW t \in Thread, StartClaim(t) \/ Stop(t) \/ InCall(t), ~Launch(t)
  PROVE  Spared' \subseteq Spared /\ own' = own /\ \A p \in Spared' : proc'[p] = proc[p]
<1>1. Live' \subseteq Live /\ own' = own /\ \A p \in Live' : proc'[p] = proc[p]
  BY LiveStep
<1>2. ASSUME NEW p \in Spared' PROVE p \in Spared
  <2>1. p \in Live' /\ p \in Live
    BY <1>1, <1>2 DEF Spared
  <2>2. \A u \in Thread : ~Dooms(u, p)
    BY <1>2, <2>1, DoomStays DEF Spared
  <2>3. QED
    BY <2>1, <2>2 DEF Spared
<1>3. QED
  BY <1>1, <1>2 DEF Spared

(* A step that spares nothing new, keeps the handle and does not clear the flag. *)
LEMMA CalmStep ==
  ASSUME ProcInv, Spared' \subseteq Spared, own' = own,
         \A p \in Spared' : proc'[p] = "booting" => proc[p] = "booting",
         current' = current, running => running',
         \A p \in Spared : Recorded(p) => Recorded(p)',
         \A t \in Thread : At(t, "launch")' => At(t, "launch") \/ Spared' = {},
         \A t \in Thread : At(t, "record")' => At(t, "record") /\ call'[t].cmd = call[t].cmd,
         Settled' => Settled \/ Spared' = {} \/ running'
  PROVE  ProcInv'
<1>1. (current # NoProc => running)'
  BY DEF ProcInv
<1>2. (\A p \in Spared : proc[p] = "booting" => current = p \/ Recorded(p))'
  BY DEF ProcInv
<1>3. (\A t \in Thread : At(t, "launch") => Spared = {})'
  BY DEF ProcInv
<1>4. (\A t \in Thread : At(t, "record") => Spared \subseteq {call[t].cmd})'
  BY DEF ProcInv
<1>5. (current # NoProc => Spared \subseteq {current})'
  BY DEF ProcInv
<1>6. (\A p, q \in Spared : p = q)'
  BY DEF ProcInv
<1>7. (Settled /\ ~running => \A p \in Spared \cap own : Recorded(p))'
  BY DEF ProcInv
<1>8. QED
  BY <1>1, <1>2, <1>3, <1>4, <1>5, <1>6, <1>7 DEF ProcInv

LEMMA NoneSpared ==
  ASSUME Spared' = {}, (current # NoProc => running)'
  PROVE  ProcInv'
BY DEF ProcInv

(* A step of thread t to pc, from elsewhere than a launch. *)
LEMMA CalmThread ==
  ASSUME TypeOK, ProcInv, NEW t \in Thread, StartClaim(t) \/ InCall(t), ~Launch(t),
         ~At(t, "record"), call'[t].pc # "record",
         call'[t].pc = "launch" => At(t, "launch") \/ Spared' = {},
         current' = current, running => running',
         call'[t].pc \in SettledPc => call[t].pc \in SettledPc \/ Spared' = {} \/ running',
         call[t].pc \in SettledPc => call'[t].pc \in SettledPc \/ touched',
         touched => touched',
         touched' => Settled
  PROVE  ProcInv'
<1>1. \A u \in Thread \ {t} : Same(u)
  BY OthersKeep
<1>2. Spared' \subseteq Spared /\ own' = own /\ \A p \in Spared' : proc'[p] = proc[p]
  BY SparedStays
<1>3. \A p \in Spared : Recorded(p) => Recorded(p)'
  BY <1>1 DEF Recorded, At, Same
<1>4. \A u \in Thread : At(u, "launch")' => At(u, "launch") \/ Spared' = {}
  BY <1>1 DEF At, Same
<1>5. \A u \in Thread : At(u, "record")' => At(u, "record") /\ call'[u].cmd = call[u].cmd
  BY <1>1 DEF At, Same
<1>6. Settled' => Settled \/ Spared' = {} \/ running'
  BY <1>1 DEF Settled, Same
<1>7. QED
  BY <1>2, <1>3, <1>4, <1>5, <1>6, CalmStep

LEMMA TakeStep ==
  ASSUME TypeOK, ProcInv, NEW t \in Thread, NEW inner \in BOOLEAN, Take(t, inner),
         Stop(t) \/ InCall(t), ~At(t, "record"), ~Launch(t)
  PROVE  ProcInv'
<1>1. call'[t].pc = "kill" /\ call'[t].cmd = current
  BY DEF TypeOK, Take, AfterTake, Idle
<1>2. current' = NoProc /\ running' = FALSE
  BY DEF Take, StopsRunning
<1>3. \A u \in Thread \ {t} : Same(u)
  BY OthersKeep
<1>4. Spared' \subseteq Spared /\ own' = own /\ \A p \in Spared' : proc'[p] = proc[p]
  BY SparedStays
<1>5. \A p \in Spared' : p \notin own /\ p # current
  BY <1>1, <1>4 DEF Spared, Dooms, At
<1>6. \A p \in Spared : Recorded(p) => Recorded(p)'
  BY <1>3 DEF Recorded, At, Same
<1>7. (\A p \in Spared : proc[p] = "booting" => current = p \/ Recorded(p))'
  BY <1>4, <1>5, <1>6 DEF ProcInv
<1>8. (\A u \in Thread : At(u, "launch") => Spared = {})'
  BY <1>1, <1>3, <1>4 DEF ProcInv, At, Same
<1>9. (\A u \in Thread : At(u, "record") => Spared \subseteq {call[u].cmd})'
  BY <1>1, <1>3, <1>4 DEF ProcInv, At, Same
<1>10. (\A p, q \in Spared : p = q)'
  BY <1>4 DEF ProcInv
<1>11. (Settled /\ ~running => \A p \in Spared \cap own : Recorded(p))'
  BY <1>4, <1>5
<1>12. QED
  BY <1>2, <1>7, <1>8, <1>9, <1>10, <1>11 DEF ProcInv

(* A Start looks at the port, or clears it, before it launches: either way nothing
   is spared by then.                                                              *)
LEMMA BeforeLaunch ==
  ASSUME TypeOK, LatchInv, ProcInv, NEW t \in Thread, Probe(t) \/ ClearPort(t)
  PROVE  call'[t].pc = "launch" => Spared' = {}
<1>1. Spared' \subseteq Spared
  BY SparedStays DEF InCall, Launch, Probe, ClearPort, At
<1>2. CASE Probe(t)
  <2>1. SUFFICES ASSUME call'[t].pc = "launch", NEW p \in Spared
                 PROVE  FALSE
    BY <1>1
  <2>2. ~PortOpen
    BY <1>2, <2>1 DEF Probe, Goto, TypeOK
  <2>3. proc[p] = "booting"
    BY <2>2 DEF PortOpen, Spared, Live
  <2>4. ~running
    BY <1>2 DEF Probe, At, LatchInv, UnsetPc
  <2>5. ASSUME NEW u \in Thread, At(u, "record") PROVE u = t
    BY <1>2, <2>5 DEF Probe, At, LatchInv, Starting, OpOf, StartPc
  <2>6. ~Recorded(p)
    BY <1>2, <2>5 DEF Recorded, At, Probe
  <2>7. QED
    BY <2>3, <2>4, <2>6, StManagerAssumption DEF ProcInv, Spared, Live
<1>3. CASE ClearPort(t)
  <2>1. Live' = {}
    BY <1>3, KillLive DEF ClearPort, Live
  <2>2. QED
    BY <2>1 DEF Spared
<1>4. QED
  BY <1>2, <1>3

LEMMA LaunchStep ==
  ASSUME TypeOK, LatchInv, ProcInv, NEW t \in Thread, Launch(t)
  PROVE  ProcInv'
<1>1. PICK p \in Proc \ Named :
        /\ proc' = [proc EXCEPT ![p] = "booting"] /\ own' = own \cup {p}
        /\ call' = [call EXCEPT ![t].pc = "record", ![t].cmd = p]
  BY DEF Launch
<1>2. UNCHANGED state /\ At(t, "launch")
  BY DEF Launch
<1>3. call'[t].pc = "record" /\ call'[t].cmd = p
  BY <1>1 DEF TypeOK, Call
<1>4. \A u \in Thread \ {t} : Same(u)
  BY OthersKeep DEF InCall
<1>5. Live' = Live \cup {p}
  BY <1>1 DEF Live, TypeOK
<1>6. Spared = {}
  BY <1>2 DEF ProcInv
<1>7. Spared' \subseteq {p}
  <2>1. SUFFICES ASSUME NEW q \in Spared', q # p PROVE FALSE
    OBVIOUS
  <2>2. q \in Live /\ q \in Live'
    BY <1>5, <2>1 DEF Spared
  <2>3. PICK u \in Thread : Dooms(u, q)
    BY <1>6, <2>2 DEF Spared
  <2>4. Dooms(u, q)'
    BY <2>2, <2>3, DoomStays DEF InCall
  <2>5. QED
    BY <2>1, <2>4 DEF Spared
<1>8. ~running
  BY <1>2 DEF At, LatchInv, UnsetPc
<1>9. \A u \in Thread : At(u, "launch")' \/ At(u, "record")' => u = t
  BY <1>2, <1>4 DEF At, Same, LatchInv, Starting, OpOf, StartPc
<1>10. (current # NoProc => running)' /\ ~(current # NoProc)'
  BY <1>2, <1>8 DEF ProcInv, state
<1>11. \A q \in Spared' : Recorded(q)'
  BY <1>3, <1>7 DEF Recorded, At
<1>12. QED
  BY <1>3, <1>7, <1>9, <1>10, <1>11 DEF ProcInv, At

LEMMA RecordStep ==
  ASSUME TypeOK, LatchInv, ProcInv, NEW t \in Thread, Record(t)
  PROVE  ProcInv'
<1>1. current' = call[t].cmd /\ running' = TRUE
  BY DEF Record
<1>2. call'[t].pc = "await"
  BY DEF Record, TypeOK, Call
<1>3. Spared' \subseteq Spared
  BY SparedStays DEF InCall, Record, Launch, At
<1>4. Spared' \subseteq {current'}
  BY <1>1, <1>3 DEF ProcInv, Record
<1>5. \A u \in Thread \ {t} : Same(u)
  BY OthersKeep DEF InCall
<1>6. \A u \in Thread : ~At(u, "launch")' /\ ~At(u, "record")'
  <2>1. ASSUME NEW u \in Thread, At(u, "launch") \/ At(u, "record") PROVE u = t
    BY <2>1 DEF Record, At, LatchInv, Starting, OpOf, StartPc
  <2>2. QED
    BY <1>2, <1>5, <2>1 DEF At, Same
<1>7. QED
  BY <1>1, <1>4, <1>6 DEF ProcInv

LEMMA InCallProc ==
  ASSUME TypeOK, LatchInv, ProcInv, NEW t \in Thread, InCall(t)
  PROVE  ProcInv'
<1>1. call \in [Thread -> Call] /\ call[t] \in Call
  BY DEF TypeOK
<1>2. CASE Probe(t) \/ ClearPort(t)
  <2>1. ~Launch(t) /\ ~At(t, "record")
    BY <1>2 DEF Probe, ClearPort, Launch, At
  <2>2. call'[t].pc \in {"verify", "launch"}
    BY <1>2, GotoEffect DEF Probe, ClearPort
  <2>3. call'[t].pc = "launch" => Spared' = {}
    BY <1>2, BeforeLaunch
  <2>4. UNCHANGED <<current, running, touched>> /\ call[t].pc \notin SettledPc
    BY <1>2 DEF Probe, ClearPort, state, history, At, SettledPc, StopPc
  <2>5. QED
    BY <2>1, <2>2, <2>3, <2>4, CalmThread DEF SettledPc, StopPc, Settled
<1>3. CASE Verify(t) \/ Adopt(t)
  <2>1. ~Launch(t) /\ ~At(t, "record")
    BY <1>3 DEF Verify, Adopt, Launch, At
  <2>2. call'[t].pc \in {"adopt", "clear"} \/ (call'[t].pc = "unlatch" /\ running')
    <3>1. CASE Verify(t)
      BY <3>1, GotoEffect DEF Verify
    <3>2. CASE Adopt(t)
      BY <3>2, GotoEffect DEF Adopt
    <3>3. QED
      BY <1>3, <3>1, <3>2
  <2>3. UNCHANGED <<current, touched>> /\ (running => running') /\ call[t].pc \notin SettledPc
    BY <1>3 DEF Verify, Adopt, state, history, At, SettledPc, StopPc
  <2>4. QED
    BY <2>1, <2>2, <2>3, CalmThread DEF SettledPc, StopPc, Settled
<1>4. CASE LaunchError(t) \/ Await(t) \/ Answer(t) \/ KillHandle(t) \/ Sweep(t) \/ Strike(t)
  <2>1. ~At(t, "record") /\ call[t].pc \in SettledPc
    BY <1>4
       DEF LaunchError, Await, Answer, KillHandle, Sweep, Strike, At, SettledPc, StopPc
  <2>2. call'[t].pc \in SettledPc \ {"launch", "record"}
    <3>1. CASE Sweep(t) \/ Answer(t)
      BY <1>1, <3>1, AnswerEffect DEF Sweep, Call, SettledPc, StopPc
    <3>2. CASE LaunchError(t) \/ Await(t) \/ KillHandle(t) \/ Strike(t)
      BY <3>2, GotoEffect
         DEF LaunchError, AfterLaunchError, Await, KillHandle, Strike, SettledPc, StopPc
    <3>3. QED
      BY <1>4, <3>1, <3>2
  <2>3. UNCHANGED <<current, running, touched>>
    BY <1>4 DEF LaunchError, Await, Answer, KillHandle, Sweep, Strike, state, history
  <2>4. CASE Launch(t)
    BY <2>4, LaunchStep
  <2>5. QED
    BY <2>1, <2>2, <2>3, <2>4, CalmThread DEF Settled
<1>5. CASE Unlatch(t) \/ StopReturn(t)
  <2>1. ~Launch(t) /\ ~At(t, "record") /\ call[t].pc \in SettledPc
    BY <1>5 DEF Unlatch, StopReturn, Launch, At, SettledPc, StopPc
  <2>2. call'[t].pc \in {"idle", "unlatch"} /\ touched'
    BY <1>1, <1>5 DEF Unlatch, StopReturn, Idle
  <2>3. UNCHANGED <<current, running>>
    BY <1>5 DEF Unlatch, StopReturn, state
  <2>4. QED
    BY <2>1, <2>2, <2>3, CalmThread DEF SettledPc, Settled
<1>6. CASE StartTimeout(t)
  BY <1>6, TakeStep DEF StartTimeout, At, Launch
<1>7. QED
  BY <1>2, <1>3, <1>4, <1>5, <1>6, LaunchStep, RecordStep DEF InCall

LEMMA ProcStep ==
  ASSUME TypeOK, LatchInv, ProcInv, [Next]_vars
  PROVE  ProcInv'
<1>1. CASE UNCHANGED vars
  BY <1>1
     DEF vars, process, state, history, ProcInv, Spared, Live, Dooms, At, Recorded, Settled
<1>2. ASSUME NEW t \in Thread, StartClaim(t) PROVE ProcInv'
  <2>1. ~Launch(t) /\ ~At(t, "record") /\ call[t].pc \notin SettledPc
    BY <1>2 DEF StartClaim, Launch, At, SettledPc, StopPc
  <2>2. call'[t].pc \in {"idle", "probe"}
    BY <1>2 DEF StartClaim, At, Idle, TypeOK
  <2>3. UNCHANGED <<current, running, touched>>
    BY <1>2 DEF StartClaim
  <2>4. QED
    BY <1>2, <2>1, <2>2, <2>3, CalmThread DEF SettledPc, StopPc, Settled
<1>3. ASSUME NEW t \in Thread, Stop(t) PROVE ProcInv'
  BY <1>3, TakeStep DEF Stop, At, Launch
<1>4. ASSUME NEW p \in Proc, BecomeReady(p) \/ ProcessExit(p) PROVE ProcInv'
  <2>1. UNCHANGED <<own, state, call, touched>>
    BY <1>4 DEF BecomeReady, ProcessExit, history
  <2>2. Live' \subseteq Live /\ \A q \in Live' : proc'[q] = "booting" => proc[q] = "booting"
    <3>1. CASE BecomeReady(p)
      BY <3>1 DEF BecomeReady, Live, TypeOK
    <3>2. CASE ProcessExit(p)
      BY <3>2, KillLive DEF ProcessExit
    <3>3. QED
      BY <1>4, <3>1, <3>2
  <2>3. Spared' \subseteq Spared
    BY <2>1, <2>2 DEF Spared, Dooms, At
  <2>4. \A q \in Spared' : proc'[q] = "booting" => proc[q] = "booting"
    BY <2>2 DEF Spared
  <2>5. QED
    BY <2>1, <2>3, <2>4, CalmStep DEF state, Recorded, At, Settled
<1>5. ASSUME NEW p \in Proc, Reap(p) PROVE ProcInv'
  <2>1. UNCHANGED <<own, call, touched>> /\ proc[p] = "exited"
    BY <1>5 DEF Reap, history
  <2>2. Live' = Live /\ p \notin Live /\ \A q \in Live : proc'[q] = proc[q]
    BY <1>5 DEF Reap, Live, TypeOK
  <2>3. Spared' = Spared /\ p \notin Spared
    BY <2>1, <2>2 DEF Spared, Dooms, At
  <2>4. CASE current = p
    <3>1. Spared' = {}
      BY <2>3, <2>4, StManagerAssumption DEF ProcInv
    <3>2. current' = NoProc
      BY <1>5, <2>4 DEF Reap, ClearState
    <3>3. QED
      BY <3>1, <3>2, NoneSpared
  <2>5. CASE current # p
    <3>1. UNCHANGED <<current, running>>
      BY <1>5, <2>5 DEF Reap, ClearState
    <3>2. \A q \in Spared' : proc'[q] = "booting" => proc[q] = "booting"
      BY <2>2, <2>3 DEF Spared
    <3>3. QED
      BY <2>1, <2>3, <3>1, <3>2, CalmStep DEF Recorded, At, Settled
  <2>6. QED
    BY <2>4, <2>5
<1>6. QED
  BY <1>1, <1>2, <1>3, <1>4, <1>5, InCallProc DEF Next

LEMMA ProcInit == Init => ProcInv
<1>1. SUFFICES ASSUME Init PROVE ProcInv
  OBVIOUS
<1>2. current = NoProc /\ \A t \in Thread : call[t].pc = "idle"
  <2>1. current = NoProc /\ \A t \in Thread : call[t] = Idle
    BY <1>1 DEF Init
  <2>2. QED
    BY <2>1 DEF Idle
<1>3. ~Settled
  BY <1>1, <1>2 DEF Init, Settled, SettledPc, StopPc
<1>4. PICK s : \A p \in Live : p = s /\ proc[p] = "up"
  <2>1. CASE proc = [p \in Proc |-> "free"]
    BY <2>1 DEF Live
  <2>2. ASSUME NEW s \in Proc, proc = [p \in Proc |-> IF p = s THEN "up" ELSE "free"]
        PROVE  \A p \in Live : p = s /\ proc[p] = "up"
    BY <2>2 DEF Live
  <2>3. QED
    BY <1>1, <2>1, <2>2 DEF Init
<1>5. \A p \in Spared : p = s /\ proc[p] = "up"
  BY <1>4 DEF Spared
<1>6. QED
  BY <1>2, <1>3, <1>5 DEF ProcInv, At

LEMMA ProcAlways == Spec => [](TypeOK /\ LatchInv /\ ProcInv)
<1>1. TypeOK /\ LatchInv /\ ProcInv /\ [Next]_vars => (TypeOK /\ LatchInv /\ ProcInv)'
  BY TypeStep, LatchStep, ProcStep
<1>2. Init => TypeOK /\ LatchInv /\ ProcInv
  BY TypeInit, LatchInit, ProcInit
<1>3. QED
  BY <1>1, <1>2, PTL DEF Spec

(* At most one Syncthing is alive unless a Stop is about to kill the others. *)
THEOREM OneProcess == Spec => []OneSyncthing
<1>1. ProcInv => OneSyncthing
  <2>1. SUFFICES ASSUME ProcInv, \A t \in Thread : call[t].pc \notin {"kill", "sweep", "strike"}
                 PROVE  Cardinality(Live) <= 1
    BY DEF OneSyncthing
  <2>2. Spared = Live
    BY <2>1 DEF Spared, Dooms, At
  <2>3. CASE Live = {}
    BY <2>3, FS_EmptySet
  <2>4. ASSUME NEW p \in Live PROVE Cardinality(Live) <= 1
    <3>1. Live = {p}
      BY <2>1, <2>2 DEF ProcInv
    <3>2. QED
      BY <3>1, FS_Singleton
  <2>5. QED
    BY <2>3, <2>4
<1>2. QED
  BY <1>1, ProcAlways, PTL

(* When all calls have returned, IsRunning() knows of every Syncthing of ours. *)
THEOREM NothingOrphaned == Spec => []NoOrphan
<1>1. ProcInv => NoOrphan
  <2>1. SUFFICES ASSUME ProcInv, Quiescent, touched, ~running, NEW p \in Live \cap own
                 PROVE  FALSE
    BY DEF NoOrphan
  <2>2. p \in Spared
    BY <2>1 DEF Quiescent, Spared, Dooms, At
  <2>3. ~Recorded(p)
    BY <2>1 DEF Quiescent, Recorded, At
  <2>4. QED
    BY <2>1, <2>2, <2>3 DEF ProcInv, Settled
<1>2. QED
  BY <1>1, ProcAlways, PTL

(***************************************************************************)
(* Stop.                                                                   *)
(***************************************************************************)
(* A Stop that meets no Start narrows down what of ours is alive to nothing. *)
GoneInv ==
  /\ \A t \in Thread : call[t].alone => ~starting /\ call[t].pc \in StopPc
  /\ \A t \in Thread : call[t].alone /\ At(t, "strike") => Live \cap own \subseteq call[t].prey
  /\ \A t \in Thread : call[t].alone /\ At(t, "stopped") => Live \cap own = {}
  /\ gone => ~starting /\ Live \cap own = {}

(* Without a Start nothing of ours comes to life. *)
LEMMA OwnShrinks ==
  ASSUME TypeOK, NEW t \in Thread, Stop(t) \/ InCall(t), ~Launch(t)
  PROVE  (Live \cap own)' \subseteq Live \cap own
BY LiveStep

LEMMA GoneThread ==
  ASSUME TypeOK, LatchInv, GoneInv, NEW t \in Thread, Stop(t) \/ InCall(t)
  PROVE  GoneInv'
<1>1. call \in [Thread -> Call] /\ call[t] \in Call
  BY DEF TypeOK
<1>2. \A u \in Thread \ {t} : Same(u)
  BY OthersKeep
<1>3. CASE Stop(t) \/ StartTimeout(t)
  <2>1. call'[t].pc = "kill" /\ UNCHANGED <<starting, gone>> /\ call'[t].alone = ~starting
    BY <1>1, <1>3 DEF Stop, StartTimeout, Take, AfterTake, Idle
  <2>2. (Live \cap own)' \subseteq Live \cap own
    BY <1>3, OwnShrinks DEF Stop, StartTimeout, Launch, At
  <2>3. QED
    BY <1>2, <2>1, <2>2 DEF GoneInv, Same, At, StopPc
<1>4. CASE call[t].pc \in StartPc /\ ~StartTimeout(t)
  <2>1. starting /\ call[t].alone = FALSE
    <3>1. starting
      BY <1>4 DEF LatchInv, Starting, OpOf
    <3>2. QED
      BY <1>1, <3>1 DEF GoneInv, Call
  <2>2. \A u \in Thread : call[u].alone = FALSE
    <3>1. \A u \in Thread : call[u].alone \in BOOLEAN
      BY DEF TypeOK, Call
    <3>2. QED
      BY <2>1, <3>1 DEF GoneInv
  <2>3. call'[t].alone = FALSE
    <3>1. CASE Launch(t) \/ Record(t)
      <4>1. \A p : [call[t] EXCEPT !.pc = "record", !.cmd = p].alone = FALSE
        BY <1>1, <2>1 DEF Call
      <4>2. [call[t] EXCEPT !.pc = "await", !.polls = MaxPolls].alone = FALSE
        BY <1>1, <2>1 DEF Call
      <4>3. QED
        BY <1>1, <3>1, <4>1, <4>2 DEF Launch, Record
    <3>2. CASE Answer(t) \/ Unlatch(t)
      BY <1>1, <2>1, <3>2, AnswerEffect DEF Unlatch, Idle
    <3>3. CASE Probe(t) \/ Verify(t) \/ Adopt(t) \/ ClearPort(t) \/ LaunchError(t) \/ Await(t)
      BY <2>1, <3>3, GotoEffect DEF Probe, Verify, Adopt, ClearPort, LaunchError, Await
    <3>4. QED
      BY <1>4, <3>1, <3>2, <3>3
         DEF InCall, Stop, KillHandle, Sweep, Strike, StopReturn, At, StartPc
  <2>4. \A u \in Thread : ~call'[u].alone
    BY <1>2, <2>2, <2>3 DEF Same
  <2>5. gone = FALSE /\ UNCHANGED gone
    BY <1>3, <1>4, <2>1
       DEF TypeOK, GoneInv, InCall, history, Stop, Probe, Verify, Adopt, ClearPort,
           Launch, LaunchError, Record, Await, Answer, Unlatch, KillHandle, Sweep, Strike,
           StopReturn, At, StartPc
  <2>6. QED
    BY <2>4, <2>5 DEF GoneInv
<1>5. CASE KillHandle(t) \/ Sweep(t) \/ Strike(t)
  <2>1. (Live \cap own)' \subseteq Live \cap own /\ UNCHANGED <<starting, gone>>
    BY <1>5, OwnShrinks DEF KillHandle, Sweep, Strike, Launch, At, state, history
  <2>2. call'[t].alone = call[t].alone /\ call'[t].pc \in StopPc
    BY <1>1, <1>5 DEF KillHandle, Sweep, Strike, Goto, Call, StopPc
  <2>3. At(t, "strike")' => (Live \cap own)' \subseteq call'[t].prey
    BY <1>1, <1>5, <2>1 DEF KillHandle, Sweep, Strike, Goto, At, Call
  <2>4. call[t].alone /\ At(t, "stopped")' => (Live \cap own)' = {}
    <3>1. SUFFICES ASSUME call[t].alone, At(t, "stopped")' PROVE (Live \cap own)' = {}
      OBVIOUS
    <3>2. Strike(t)
      <4>1. CASE KillHandle(t)
        BY <3>1, <4>1, GotoEffect DEF KillHandle, At
      <4>2. CASE Sweep(t)
        BY <1>1, <3>1, <4>2 DEF Sweep, At
      <4>3. QED
        BY <1>5, <4>1, <4>2
    <3>3. Live' = Live \ call[t].prey
      BY <3>2, KillLive DEF Strike
    <3>4. QED
      BY <2>1, <3>1, <3>2, <3>3 DEF GoneInv, Strike
  <2>5. QED
    BY <1>2, <2>1, <2>2, <2>3, <2>4 DEF GoneInv, Same, At
<1>6. CASE StopReturn(t)
  <2>1. (Live \cap own)' \subseteq Live \cap own /\ UNCHANGED starting
    BY <1>6, OwnShrinks DEF StopReturn, Launch, At, state
  <2>2. call'[t].alone = FALSE /\ gone' = (gone \/ call[t].alone)
    BY <1>1, <1>6 DEF StopReturn, Idle
  <2>3. QED
    BY <1>2, <1>6, <2>1, <2>2 DEF GoneInv, Same, At, StopReturn
<1>7. QED
  BY <1>3, <1>4, <1>5, <1>6
     DEF InCall, Probe, Verify, Adopt, ClearPort, Launch, LaunchError, Record, Await,
         Answer, Unlatch, At, StartPc

LEMMA GoneStep ==
  ASSUME TypeOK, LatchInv, GoneInv, [Next]_vars
  PROVE  GoneInv'
<1>1. CASE UNCHANGED vars
  BY <1>1 DEF vars, process, state, history, GoneInv, Live, At
<1>2. ASSUME NEW t \in Thread, StartClaim(t) PROVE GoneInv'
  <2>1. CASE Taken
    BY <1>2, <2>1 DEF StartClaim, GoneInv, process, Live, At
  <2>2. CASE ~Taken
    <3>1. \A u \in Thread : call'[u].alone = FALSE
      BY <1>2, <2>2 DEF StartClaim, Idle, TypeOK, Call
    <3>2. gone' = FALSE
      BY <1>2, <2>2 DEF StartClaim
    <3>3. QED
      BY <3>1, <3>2 DEF GoneInv
  <2>3. QED
    BY <2>1, <2>2
<1>3. ASSUME NEW p \in Proc, BecomeReady(p) \/ ProcessExit(p) \/ Reap(p) PROVE GoneInv'
  <2>1. UNCHANGED <<own, starting, call, gone>>
    BY <1>3 DEF BecomeReady, ProcessExit, Reap, state, history
  <2>2. Live' \subseteq Live
    <3>1. CASE BecomeReady(p) \/ Reap(p)
      BY <3>1 DEF BecomeReady, Reap, Live, TypeOK
    <3>2. CASE ProcessExit(p)
      BY <3>2, KillLive DEF ProcessExit
    <3>3. QED
      BY <1>3, <3>1, <3>2
  <2>3. QED
    BY <2>1, <2>2 DEF GoneInv, At
<1>4. QED
  BY <1>1, <1>2, <1>3, GoneThread DEF Next

LEMMA GoneInit == Init => GoneInv
BY DEF Init, GoneInv, Idle

(* A Stop that no Start has overlapped leaves no Syncthing of ours alive. *)
THEOREM StoppedIsGone == Spec => []StopMeansGone
<1>1. TypeOK /\ LatchInv /\ GoneInv /\ [Next]_vars => (TypeOK /\ LatchInv /\ GoneInv)'
  BY TypeStep, LatchStep, GoneStep
<1>2. Init => TypeOK /\ LatchInv /\ GoneInv
  BY TypeInit, LatchInit, GoneInit
<1>3. GoneInv => StopMeansGone
  BY DEF GoneInv, StopMeansGone
<1>4. QED
  BY <1>1, <1>2, <1>3, PTL DEF Spec

(***************************************************************************)
(* The refinement.                                                         *)
(***************************************************************************)
AbstractOp == [t \in Thread |-> OpOf(t)]

LEMMA OpMove ==
  ASSUME NEW t \in Thread, \A u \in Thread \ {t} : OpOf(u)' = OpOf(u)
  PROVE  AbstractOp' = [AbstractOp EXCEPT ![t] = OpOf(t)']
BY DEF AbstractOp

LEMMA LifecycleStep ==
  ASSUME TypeOK, LatchInv, [Next]_vars
  PROVE  [Lifecycle!Next]_(Lifecycle!vars)
<1>1. call \in [Thread -> Call]
  BY DEF TypeOK
<1>2. SUFFICES ASSUME ~UNCHANGED <<running, AbstractOp>>
               PROVE  Lifecycle!Next
  BY DEF Lifecycle!vars, AbstractOp
<1>3. Next
  BY <1>2 DEF vars, state, AbstractOp, OpOf
<1>4. ASSUME NEW t \in Thread, InCall(t) PROVE Lifecycle!Next
  <2>1. InCallMeans(t)
    BY <1>4, InCallEffect
  <2>2. AbstractOp' = [AbstractOp EXCEPT ![t] = OpOf(t)']
    BY <1>4, OthersKeep, SameOp, OpMove
  <2>3. AbstractOp[t] = OpOf(t)
    BY DEF AbstractOp
  <2>4. OpOf(t)' = OpOf(t) => UNCHANGED AbstractOp
    BY <2>2, <2>3 DEF AbstractOp
  <2>5. CASE Moves(t, "starting", "starting") /\ running' = TRUE /\ call[t].pc \in UnsetPc
    <3>1. ~running
      BY <2>5 DEF LatchInv
    <3>2. Lifecycle!SetRunning(t)
      BY <2>3, <2>4, <2>5, <3>1 DEF Lifecycle!SetRunning, Moves, AbstractOp
    <3>3. QED
      BY <3>2 DEF Lifecycle!Next
  <2>6. CASE Moves(t, "starting", "starting") /\ running' = FALSE
    <3>1. Lifecycle!Withdraw(t)
      BY <2>3, <2>4, <2>6 DEF Lifecycle!Withdraw, Moves, AbstractOp
    <3>2. QED
      BY <3>1 DEF Lifecycle!Next
  <2>7. CASE Moves(t, "starting", "none") /\ UNCHANGED running
    <3>1. Lifecycle!EndStart(t)
      BY <2>2, <2>3, <2>7 DEF Lifecycle!EndStart, Moves, AbstractOp
    <3>2. QED
      BY <3>1 DEF Lifecycle!Next
  <2>8. CASE Moves(t, "stopping", "none") /\ UNCHANGED running
    <3>1. Lifecycle!EndStop(t)
      BY <2>2, <2>3, <2>8 DEF Lifecycle!EndStop, Moves, AbstractOp
    <3>2. QED
      BY <3>1 DEF Lifecycle!Next
  <2>9. CASE UNCHANGED running /\ OpOf(t)' = OpOf(t)
    BY <1>2, <2>4, <2>9
  <2>10. QED
    BY <2>1, <2>5, <2>6, <2>7, <2>8, <2>9 DEF InCallMeans, Moves
<1>5. ASSUME NEW t \in Thread, StartClaim(t) PROVE Lifecycle!Next
  <2>1. ~Taken
    BY <1>2, <1>5 DEF StartClaim, AbstractOp, OpOf
  <2>2. \A u \in Thread : AbstractOp[u] # "starting"
    BY <2>1 DEF Taken, LatchInv, Starting, AbstractOp
  <2>3. AbstractOp' = [AbstractOp EXCEPT ![t] = "starting"]
    <3>1. call'[t].pc = "probe"
      BY <1>1, <1>5, <2>1 DEF StartClaim, Idle
    <3>2. OpOf(t)' = "starting"
      BY <3>1 DEF OpOf, StartPc
    <3>3. QED
      BY <1>5, <3>2, OthersKeep, SameOp, OpMove
  <2>4. AbstractOp[t] = "none"
    BY <1>5 DEF StartClaim, At, AbstractOp, OpOf, LatchInv, StartPc, StopPc
  <2>5. Lifecycle!BeginStart(t)
    BY <1>5, <2>1, <2>2, <2>3, <2>4
       DEF Lifecycle!BeginStart, Lifecycle!Latched, StartClaim, Taken, AbstractOp
  <2>6. QED
    BY <2>5 DEF Lifecycle!Next
<1>6. ASSUME NEW t \in Thread, Stop(t) PROVE Lifecycle!Next
  <2>1. call'[t].pc = "kill" /\ call'[t].inner = FALSE /\ running' = FALSE
    BY <1>1, <1>6 DEF Stop, Take, AfterTake, StopsRunning, Idle
  <2>2. OpOf(t)' = "stopping"
    BY <2>1 DEF OpOf, StartPc, StopPc
  <2>3. AbstractOp' = [AbstractOp EXCEPT ![t] = "stopping"]
    BY <1>6, <2>2, OthersKeep, SameOp, OpMove
  <2>4. AbstractOp[t] = "none"
    BY <1>6 DEF Stop, At, AbstractOp, OpOf, LatchInv, StartPc, StopPc
  <2>5. Lifecycle!BeginStop(t)
    BY <2>1, <2>3, <2>4 DEF Lifecycle!BeginStop, AbstractOp
  <2>6. QED
    BY <2>5 DEF Lifecycle!Next
<1>7. ASSUME NEW p \in Proc, BecomeReady(p) \/ ProcessExit(p) \/ Reap(p)
      PROVE  Lifecycle!Next
  <2>1. UNCHANGED AbstractOp
    BY <1>7 DEF BecomeReady, ProcessExit, Reap, AbstractOp, OpOf
  <2>2. running' # running
    BY <1>2, <2>1
  <2>3. Lifecycle!Exit
    BY <1>7, <2>1, <2>2
       DEF TypeOK, BecomeReady, ProcessExit, Reap, ClearState, state, Lifecycle!Exit,
           AbstractOp
  <2>4. QED
    BY <2>3 DEF Lifecycle!Next
<1>8. QED
  BY <1>3, <1>4, <1>5, <1>6, <1>7 DEF Next

LEMMA LifecycleInit == Init => Lifecycle!Init
BY DEF Init, Idle, OpOf, StartPc, StopPc, Lifecycle!Init

(* The manager implements StLifecycle: one Start at a time, and `running` as its
   callers are promised.                                                       *)
THEOREM Implements == Spec => ImplementsLifecycle
<1>1. TypeOK /\ LatchInv /\ [Next]_vars => (TypeOK /\ LatchInv)'
  BY TypeStep, LatchStep
<1>2. Init => TypeOK /\ LatchInv
  BY TypeInit, LatchInit
<1>3. TypeOK /\ LatchInv /\ [Next]_vars => [Lifecycle!Next]_(Lifecycle!vars)
  BY LifecycleStep
<1>4. QED
  BY <1>1, <1>2, <1>3, LifecycleInit, PTL DEF Spec, ImplementsLifecycle, Lifecycle!Spec
=============================================================================
