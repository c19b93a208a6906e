------------------------------ MODULE StManager ------------------------------
(***************************************************************************)
(* internal/stmanager: one Syncthing process, started and stopped by any   *)
(* thread of the host.  On Android these are the goroutine of mobile.Start,*)
(* the gate's reconcile loop and the caller of mobile.Stop; on the desktop *)
(* there is one.                                                           *)
(*                                                                         *)
(* A step is one critical section of stmanager.mu, one probe of the port,  *)
(* one spawn, or one signal.  Start, awaitReady and Stop are sequences of  *)
(* such steps, and a reaper waits for every process that was launched.     *)
(***************************************************************************)
EXTENDS Naturals, FiniteSets

CONSTANTS
  Thread,    \* threads that call Start and Stop
  Proc,      \* process handles (exec.Cmd); one is reused once nothing names it
  NoProc,    \* nil
  MaxPolls,  \* probes of the port in awaitReady before startDeadline
  Budget     \* bound: calls of Start and of Stop, and crashes of a process

ASSUME StManagerAssumption ==
  /\ NoProc \notin Proc
  /\ MaxPolls \in Nat
  /\ Budget \in [{"start", "stop", "crash"} -> Nat]

VARIABLES
  proc,      \* proc[p]: free, booting, up (the port is open), exited (not reaped)
  own,       \* processes that use our home and answer to our key
  reapers,   \* processes a reaper waits for
  current,   \* the handle of the running process
  running,   \* what IsRunning() returns
  starting,  \* the start latch
  call,      \* call[t]: the Start or Stop in progress in t
  left,      \* what is left of Budget
  touched,   \* history: a Start or a Stop has returned
  gone       \* history: a Stop that met no Start has returned, and none began since

process == <<proc, own, reapers>>
state   == <<current, running, starting>>
history == <<left, touched, gone>>
vars    == <<process, state, call, history>>

StartPc == {"probe", "verify", "adopt", "clear", "launch", "record", "await",
            "answer", "timeout", "unlatch"}
StopPc  == {"kill", "sweep", "strike", "stopped"}

(* cmd is the handle launched or taken; prey what the sweep has found; polls
   counts down to the deadline; inner is TRUE in the Stop of a Start that timed
   out; alone is TRUE in a Stop that has met no Start.                         *)
Call ==
  [pc : {"idle"} \cup StartPc \cup StopPc, cmd : Proc \cup {NoProc},
   prey : SUBSET Proc, polls : 0..MaxPolls, inner : BOOLEAN, alone : BOOLEAN]

Idle ==
  [pc |-> "idle", cmd |-> NoProc, prey |-> {}, polls |-> 0,
   inner |-> FALSE, alone |-> FALSE]

(* A launched process has a handle, and what is recorded has a reaper. *)
TypeOK ==
  /\ proc \in [Proc -> {"free", "booting", "up", "exited"}]
  /\ own \subseteq Proc /\ reapers \subseteq Proc
  /\ current \in reapers \cup {NoProc}
  /\ running \in BOOLEAN /\ starting \in BOOLEAN
  /\ call \in [Thread -> Call]
  /\ \A t \in Thread : call[t].pc = "record" => call[t].cmd \in Proc
  /\ left \in [{"start", "stop", "crash"} -> Nat]
  /\ touched \in BOOLEAN /\ gone \in BOOLEAN

(* A Syncthing may have survived its host: ours, or one with another home or key. *)
Init ==
  /\ \/ proc = [p \in Proc |-> "free"] /\ own = {}
     \/ \E p \in Proc :
          /\ proc = [q \in Proc |-> IF q = p THEN "up" ELSE "free"]
          /\ own \in {{}, {p}}
  /\ reapers = {}
  /\ current = NoProc /\ running = FALSE /\ starting = FALSE
  /\ call = [t \in Thread |-> Idle]
  /\ left = Budget /\ touched = FALSE /\ gone = FALSE

Live == {p \in Proc : proc[p] \in {"booting", "up"}}

PortOpen == \E p \in Proc : proc[p] = "up"

At(t, pc) == call[t].pc = pc

Goto(t, pc) == call' = [call EXCEPT ![t].pc = pc]

Spend(kind) == left[kind] > 0 /\ left' = [left EXCEPT ![kind] = @ - 1]

(* The exit of a process nobody waits for leaves no trace. *)
Kill(victims) ==
  proc' = [p \in Proc |->
             IF p \notin victims \cap Live THEN proc[p]
             ELSE IF p \in reapers \/ \E t \in Thread : At(t, "record") /\ call[t].cmd = p
                  THEN "exited" ELSE "free"]

(***************************************************************************)
(* Start.                                                                  *)
(***************************************************************************)
(* Mutant: a Start in flight is not noticed. *)
TakenIfRunning == running

(* Another Start, or Syncthing itself, makes this Start superfluous. *)
Taken == running \/ starting

StartClaim(t) ==
  /\ At(t, "idle") /\ Spend("start")
  /\ \/ Taken /\ UNCHANGED <<starting, call, touched, gone>>
     \/ /\ ~Taken
        /\ starting' = TRUE
        /\ call' = [u \in Thread |->
                      IF u = t THEN [Idle EXCEPT !.pc = "probe"]
                      ELSE [call[u] EXCEPT !.alone = FALSE]]
        /\ gone' = FALSE /\ UNCHANGED touched
  /\ UNCHANGED <<process, current, running>>

Probe(t) ==
  /\ At(t, "probe")
  /\ Goto(t, IF PortOpen THEN "verify" ELSE "launch")
  /\ UNCHANGED <<process, state, history>>

(* apiKeyValid: a Syncthing of ours answers, unless it is too slow. *)
Verify(t) ==
  /\ At(t, "verify")
  /\ \/ (\E p \in own : proc[p] = "up") /\ Goto(t, "adopt")
     \/ Goto(t, "clear")
  /\ UNCHANGED <<process, state, history>>

Adopt(t) ==
  /\ At(t, "adopt")
  /\ running' = TRUE
  /\ Goto(t, "unlatch")
  /\ UNCHANGED <<process, current, starting, history>>

(* killOurSyncthing matches by path, so it finds every Syncthing; waitPortFree
   then has nothing to wait for.                                             *)
ClearPort(t) ==
  /\ At(t, "clear")
  /\ Kill(Proc)
  /\ Goto(t, "launch")
  /\ UNCHANGED <<own, reapers, state, history>>

Named == {current} \cup UNION {{call[t].cmd} \cup call[t].prey : t \in Thread}

Launch(t) ==
  /\ At(t, "launch")
  /\ \E p \in Proc \ Named :
       /\ proc[p] = "free"
       /\ proc' = [proc EXCEPT ![p] = "booting"]
       /\ own' = own \cup {p}
       /\ call' = [call EXCEPT ![t].pc = "record", ![t].cmd = p]
  /\ UNCHANGED <<reapers, state, history>>

(* Mutant: the latch stays claimed when the process cannot be launched. *)
AfterLaunchErrorForgetting == "idle"

AfterLaunchError == "unlatch"

LaunchError(t) ==
  /\ At(t, "launch")
  /\ Goto(t, AfterLaunchError)
  /\ UNCHANGED <<process, state, history>>

(* The rest of launch: the state is recorded and the reaper started. *)
Record(t) ==
  /\ At(t, "record")
  /\ current' = call[t].cmd /\ running' = TRUE
  /\ reapers' = reapers \cup {call[t].cmd}
  /\ call' = [call EXCEPT ![t].pc = "await", ![t].polls = MaxPolls]
  /\ UNCHANGED <<proc, own, starting, history>>

(* awaitReady looks at the state and then at the port; what happens in between
   is noticed in the next round, if there is one.                            *)
Await(t) ==
  /\ At(t, "await")
  /\ Goto(t, IF running /\ current = call[t].cmd THEN "answer" ELSE "unlatch")
  /\ UNCHANGED <<process, state, history>>

Answer(t) ==
  /\ At(t, "answer")
  /\ \/ PortOpen /\ Goto(t, "unlatch")
     \/ ~PortOpen /\ call[t].polls = 0 /\ Goto(t, "timeout")
     \/ /\ ~PortOpen /\ call[t].polls > 0
        /\ call' = [call EXCEPT ![t].pc = "await", ![t].polls = @ - 1]
  /\ UNCHANGED <<process, state, history>>

(* The deferred release of the latch, on every way out. *)
Unlatch(t) ==
  /\ At(t, "unlatch")
  /\ starting' = FALSE
  /\ call' = [call EXCEPT ![t] = Idle]
  /\ touched' = TRUE
  /\ UNCHANGED <<process, current, running, left, gone>>

(***************************************************************************)
(* Stop, called by a thread or by the Start that has timed out.            *)
(***************************************************************************)
(* Mutant: without a handle there is nothing to stop. *)
AfterTakeEarlyReturn(cmd) == IF cmd = NoProc THEN "stopped" ELSE "kill"

AfterTake(cmd) == "kill"

(* Mutant: a Stop without a handle leaves the flag. *)
StopsRunningIfHandled == running /\ current = NoProc

(* What `running` becomes when a Stop takes the handle. *)
StopsRunning == FALSE

Take(t, inner) ==
  /\ current' = NoProc /\ running' = StopsRunning
  /\ call' = [call EXCEPT ![t] =
                [Idle EXCEPT !.pc = AfterTake(current), !.cmd = current,
                             !.inner = inner, !.alone = ~starting]]
  /\ UNCHANGED <<process, starting, touched, gone>>

Stop(t) == At(t, "idle") /\ Spend("stop") /\ Take(t, FALSE)

StartTimeout(t) == At(t, "timeout") /\ Take(t, TRUE) /\ UNCHANGED left

KillHandle(t) ==
  /\ At(t, "kill")
  /\ Kill({call[t].cmd} \cap Proc)
  /\ Goto(t, "sweep")
  /\ UNCHANGED <<own, reapers, state, history>>

(* killSyncthingByHome first lists the processes with our home ... *)
Sweep(t) ==
  /\ At(t, "sweep")
  /\ call' = [call EXCEPT ![t].pc = "strike", ![t].prey = Live \cap own]
  /\ UNCHANGED <<process, state, history>>

(* ... and then kills what it has listed. *)
Strike(t) ==
  /\ At(t, "strike")
  /\ Kill(call[t].prey)
  /\ Goto(t, "stopped")
  /\ UNCHANGED <<own, reapers, state, history>>

StopReturn(t) ==
  /\ At(t, "stopped")
  /\ call' = [call EXCEPT ![t] =
                IF call[t].inner THEN [Idle EXCEPT !.pc = "unlatch"] ELSE Idle]
  /\ gone' = (gone \/ call[t].alone)
  /\ touched' = TRUE
  /\ UNCHANGED <<process, state, left>>

(***************************************************************************)
(* Processes.                                                              *)
(***************************************************************************)
(* Syncthing opens its port, which only one process can. *)
BecomeReady(p) ==
  /\ proc[p] = "booting" /\ ~PortOpen
  /\ proc' = [proc EXCEPT ![p] = "up"]
  /\ UNCHANGED <<own, reapers, state, call, history>>

(* It exits: for want of the port or of its home, or of a crash. *)
ProcessExit(p) ==
  /\ p \in Live
  /\ \/ proc[p] = "booting" /\ Live # {p} /\ UNCHANGED left
     \/ Spend("crash")
  /\ Kill({p})
  /\ UNCHANGED <<own, reapers, state, call, touched, gone>>

(* Mutant: whatever process has exited, none is running. *)
ClearStateAlways(p) == current' = NoProc /\ running' = FALSE

(* Mutant: the handle of a process that has exited is kept. *)
ClearStateKeepingHandle(p) ==
  IF current = p THEN running' = FALSE /\ UNCHANGED current
  ELSE UNCHANGED <<current, running>>

(* The reaper clears the state unless another process has been recorded. *)
ClearState(p) ==
  IF current = p THEN current' = NoProc /\ running' = FALSE
  ELSE UNCHANGED <<current, running>>

Reap(p) ==
  /\ p \in reapers /\ proc[p] = "exited"
  /\ reapers' = reapers \ {p}
  /\ proc' = [proc EXCEPT ![p] = "free"]
  /\ ClearState(p)
  /\ UNCHANGED <<own, starting, call, history>>

(***************************************************************************)
(* The specification.                                                      *)
(***************************************************************************)
InCall(t) ==
  \/ Probe(t) \/ Verify(t) \/ Adopt(t) \/ ClearPort(t) \/ Launch(t) \/ LaunchError(t)
  \/ Record(t) \/ Await(t) \/ Answer(t) \/ Unlatch(t) \/ StartTimeout(t)
  \/ KillHandle(t) \/ Sweep(t) \/ Strike(t) \/ StopReturn(t)

Next ==
  \/ \E t \in Thread : StartClaim(t) \/ Stop(t) \/ InCall(t)
  \/ \E p \in Proc : BecomeReady(p) \/ ProcessExit(p) \/ Reap(p)

(* The threads and reapers of the host run. *)
Fairness ==
  /\ \A t \in Thread : WF_vars(InCall(t))
  /\ \A p \in Proc : WF_vars(Reap(p))

Spec == Init /\ [][Next]_vars /\ Fairness

(***************************************************************************)
(* Properties.                                                             *)
(***************************************************************************)
Quiescent == \A t \in Thread : At(t, "idle")

(* After a Stop that no Start has overlapped, no Syncthing of ours is alive, also
   none that was adopted or survived a host: "Stop() means our Syncthing is gone". *)
StopMeansGone == gone => Live \cap own = {}

(* Two processes are alive only while one of them is about to be killed: Starts
   never launch a second Syncthing beside the first.                           *)
OneSyncthing ==
  \/ Cardinality(Live) <= 1
  \/ \E t \in Thread : call[t].pc \in {"kill", "sweep", "strike"}

(* No Syncthing of ours runs on while IsRunning() denies it, so that nobody would
   stop it: when all calls have returned, what is alive is known to be.           *)
NoOrphan == Quiescent /\ touched /\ ~running => Live \cap own = {}

(* The latch is never left claimed: every call returns, and Start is possible again. *)
LatchReleased == starting ~> ~starting

(* The manager implements StLifecycle. *)
OpOf(t) ==
  IF call[t].inner \/ call[t].pc \in StartPc THEN "starting"
  ELSE IF call[t].pc \in StopPc THEN "stopping" ELSE "none"

Lifecycle == INSTANCE StLifecycle WITH op <- [t \in Thread |-> OpOf(t)]

ImplementsLifecycle == Lifecycle!Spec
=============================================================================
