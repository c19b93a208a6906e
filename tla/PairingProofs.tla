---------------------------- MODULE PairingProofs ----------------------------
(***************************************************************************)
(* Proofs about Pairing, for any set of nodes and any bounds: type         *)
(* correctness, and what every interleaving of users, readers, notices and *)
(* reconciliations keeps: a removed device is not trusted, a trusted one   *)
(* has been consented to, and a trust ends by the request of a user.       *)
(***************************************************************************)
EXTENDS Pairing, TLAPS

-----------------------------------------------------------------------------
(***************************************************************************)
(* What the operators the actions are built from do to the types.          *)
(***************************************************************************)
LEMMA SpendType ==
  ASSUME LifeType, NEW k \in Kind, Spend(k)
  PROVE  left' \in [Kind -> Nat]
  BY DEF LifeType, Spend

LEMMA StAddType ==
  ASSUME LifeType, NEW n \in Node, NEW p \in Node, StAddDevice(n, p)
  PROVE  stDevices' \in [Node -> SUBSET Node] /\ left' \in [Kind -> Nat]
  BY SpendType DEF LifeType, StAddDevice, Kind

LEMMA StRemoveType ==
  ASSUME LifeType, NEW n \in Node, NEW p \in Node, StRemoveDevice(n, p)
  PROVE  stDevices' \in [Node -> SUBSET Node] /\ left' \in [Kind -> Nat]
  BY SpendType DEF LifeType, StRemoveDevice, Kind

LEMMA TrustType ==
  ASSUME MemoryType, NEW n \in Node, NEW p \in Node, p # n, Trust(n, p)
  PROVE  MemoryType'
<1>1. trusted' \in [Node -> SUBSET Node]
  BY DEF MemoryType, Trust
<1>2. theyTrustUs' \in [Node -> SUBSET Node]
  BY DEF MemoryType, Trust
<1>3. removed' \in [Node -> SUBSET Node]
  BY DEF MemoryType, Trust
<1>4. \A m \in Node : m \notin trusted'[m]
  BY DEF MemoryType, Trust
<1>5. QED
  BY <1>1, <1>2, <1>3, <1>4 DEF MemoryType

LEMMA UntrustType ==
  ASSUME MemoryType, NEW n \in Node, NEW p \in Node, Untrust(n, p)
  PROVE  MemoryType'
  BY DEF MemoryType, Untrust

LEMMA ForgetType ==
  ASSUME MemoryType, NEW n \in Node, NEW p \in Node, ForgetTheirTrust(n, p)
  PROVE  MemoryType'
  BY DEF MemoryType, ForgetTheirTrust

LEMMA ReconcileType ==
  ASSUME MemoryType, NEW n \in Node, NEW S \in SUBSET Node, ReconcileTrust(n, S)
  PROVE  MemoryType'
  BY DEF MemoryType, ReconcileTrust, NewlyListed

LEMMA WriteType ==
  ASSUME WireType, NEW n \in Node, NEW p \in Node, NEW f \in Frame, Write(n, p, f)
  PROVE  chan' \in [Node -> [Node -> Seq(Frame)]]
<1>1. Append(chan[n][p], f) \in Seq(Frame)
  BY DEF WireType
<1>2. QED
  BY <1>1 DEF WireType, Write

LEMMA ReadsType ==
  ASSUME WireType, NEW n \in Node, NEW p \in Node, NEW f, Reads(n, p, f)
  PROVE  chan' \in [Node -> [Node -> Seq(Frame)]]
<1>1. Tail(chan[p][n]) \in Seq(Frame)
  BY DEF WireType, Reads
<1>2. QED
  BY <1>1 DEF WireType, Reads

LEMMA NotifyType ==
  ASSUME WireType, NEW n \in Node, NEW p \in Node, Notify(n, p)
  PROVE  notices' \in [Node -> [Node -> 0 .. MaxNotices]]
<1>1. notices[n][p] + 1 \in 0 .. MaxNotices
  BY PairingAssumption DEF WireType, Notify
<1>2. QED
  BY <1>1 DEF WireType, Notify

LEMMA ConnectBackType ==
  ASSUME WireType, NEW n \in Node, NEW p \in Node, ConnectBack(n, p)
  PROVE  conn' \in [Node -> [Node -> ConnState]]
  BY DEF WireType, ConnectBack, ConnState

(* CutOff empties and closes whole connections. *)
LEMMA CutOffType ==
  ASSUME WireType, NEW n \in Node, CutOff(n)
  PROVE  /\ conn' \in [Node -> [Node -> ConnState]]
         /\ chan' \in [Node -> [Node -> Seq(Frame)]]
<1>1. conn' \in [Node -> [Node -> ConnState]]
  BY DEF WireType, CutOff, ConnState
<1>2. <<>> \in Seq(Frame)
  OBVIOUS
<1>3. chan' \in [Node -> [Node -> Seq(Frame)]]
  BY <1>2 DEF WireType, CutOff
<1>4. QED
  BY <1>1, <1>3

(* A request in progress keeps its peer while its program counter moves. *)
ApiType ==
  /\ api \in [Node -> [pc : ApiPc, peer : Node]]
  /\ \A n \in Node : At(n, "idle") \/ api[n].peer # n

LEMMA GotoType ==
  ASSUME ThreadType, NEW n \in Node, NEW pc \in ApiPc, Goto(n, pc), ~At(n, "idle")
  PROVE  ApiType'
<1>1. api[n] \in [pc : ApiPc, peer : Node]
  BY DEF ThreadType
<1>2. [api[n] EXCEPT !.pc = pc] \in [pc : ApiPc, peer : Node]
  BY <1>1
<1>3. api' = [api EXCEPT ![n] = [api[n] EXCEPT !.pc = pc]]
  BY DEF Goto, ThreadType
<1>4. api' \in [Node -> [pc : ApiPc, peer : Node]]
  BY <1>2, <1>3 DEF ThreadType
<1>5. \A m \in Node : m # n => api'[m] = api[m]
  BY <1>3 DEF ThreadType
<1>6. api'[n].peer # n
  BY <1>1, <1>3 DEF ThreadType, At
<1>7. QED
  BY <1>4, <1>5, <1>6 DEF ThreadType, ApiType, At

LEMMA AnswerType ==
  ASSUME ThreadType, NEW n \in Node, Answer(n)
  PROVE  ApiType'
  BY DEF ThreadType, ApiType, Answer, NoApi, At, ApiPc

-----------------------------------------------------------------------------
(***************************************************************************)
(* Every step keeps the types, one part of the state at a time.            *)
(***************************************************************************)
LEMMA LifeTypeStep ==
  ASSUME TypeOK, [Next]_vars
  PROVE  LifeType'
<1> USE DEF TypeOK, LifeType, Kind
<1>1. ASSUME NEW n \in Node, UserRequest(n) PROVE LifeType'
  BY <1>1, SpendType DEF UserRequest, Pair, Unpair, DismissIncoming
<1>2. ASSUME NEW n \in Node, ApiStep(n) PROVE LifeType'
  BY <1>2, StAddType, StRemoveType
     DEF ApiStep, PairAdd, PairTrust, PairHello, UnpairRemove, UnpairUntrust,
         ApiSend, ApiGiveUp, ThreadType
<1>3. ASSUME NEW n \in Node, PipelineStep(n) PROVE LifeType'
  BY <1>3, SpendType DEF PipelineStep, PipelineRead, PipelineReconcile
<1>4. ASSUME NEW n \in Node, LifeCycle(n) PROVE LifeType'
  BY <1>4, SpendType DEF LifeCycle, Stop, Boot, Foreground, Background
<1>5. ASSUME NEW n \in Node, NEW p \in Node, ReaderStep(n, p) PROVE LifeType'
  BY <1>5, StRemoveType
     DEF ReaderStep, ReceivePlain, ReceiveTrusted, ReceiveUntrusted,
         ReceiveCancelled, CascadeRemove, CascadeUntrust
<1>6. ASSUME NEW n \in Node, NEW p \in Node, NoticeStep(n, p) PROVE LifeType'
  BY <1>6 DEF NoticeStep, NoticeSend, NoticeGiveUp
<1>7. ASSUME NEW n \in Node, NEW p \in Node, ConnStep(n, p) PROVE LifeType'
  BY <1>7 DEF ConnStep, Connect, Dial, Greet
<1>8. ASSUME NEW n \in Node, NEW p \in Node, Drop(n, p) PROVE LifeType'
  BY <1>8, SpendType DEF Drop
<1>9. ASSUME NEW n \in Node, NEW p \in Node, StIntroduce(n, p) PROVE LifeType'
  BY <1>9 DEF StIntroduce
<1>10. CASE UNCHANGED vars
  BY <1>10 DEF vars
<1>11. QED
  BY <1>1, <1>2, <1>3, <1>4, <1>5, <1>6, <1>7, <1>8, <1>9, <1>10 DEF Next

LEMMA MemoryTypeStep ==
  ASSUME TypeOK, [Next]_vars
  PROVE  MemoryType'
<1>1. CASE UNCHANGED memory
  BY <1>1 DEF TypeOK, MemoryType, memory
<1>2. ASSUME NEW n \in Node, UserRequest(n) PROVE MemoryType'
  BY <1>1, <1>2, ForgetType DEF TypeOK, UserRequest, Pair, Unpair, DismissIncoming
<1>3. ASSUME NEW n \in Node, ApiStep(n) PROVE MemoryType'
  <2>1. api[n].peer \in Node
    BY DEF TypeOK, ThreadType
  <2>2. CASE PairTrust(n)
    <3>1. api[n].peer # n
      BY <2>2 DEF TypeOK, ThreadType, PairTrust, At
    <3>2. QED
      BY <2>1, <2>2, <3>1, TrustType DEF TypeOK, PairTrust
  <2>3. CASE UnpairUntrust(n)
    BY <2>1, <2>3, UntrustType DEF TypeOK, UnpairUntrust
  <2>4. QED
    BY <1>1, <1>3, <2>2, <2>3
       DEF ApiStep, PairAdd, PairHello, UnpairRemove, ApiSend, ApiGiveUp
<1>4. ASSUME NEW n \in Node, PipelineStep(n) PROVE MemoryType'
  <2>1. pipe[n].seen \in SUBSET Node
    BY DEF TypeOK, ThreadType
  <2>2. QED
    BY <1>1, <1>4, <2>1, ReconcileType
       DEF TypeOK, PipelineStep, PipelineRead, PipelineReconcile
<1>5. ASSUME NEW n \in Node, LifeCycle(n) PROVE MemoryType'
  <2>1. CASE Stop(n)
    BY <2>1 DEF TypeOK, MemoryType, Stop
  <2>2. CASE Boot(n)
    BY <2>2 DEF TypeOK, MemoryType, LifeType, Boot
  <2>3. QED
    BY <1>1, <1>5, <2>1, <2>2 DEF LifeCycle, Foreground, Background
<1>6. ASSUME NEW n \in Node, NEW p \in Node, ReaderStep(n, p) PROVE MemoryType'
  <2>1. CASE ReceiveTrusted(n, p)
    BY <2>1 DEF TypeOK, MemoryType, ReceiveTrusted
  <2>2. CASE ReceiveUntrusted(n, p)
    BY <2>2, ForgetType DEF TypeOK, ReceiveUntrusted
  <2>3. CASE ReceiveCancelled(n, p)
    BY <1>1, <2>3, ForgetType DEF TypeOK, ReceiveCancelled
  <2>4. CASE CascadeUntrust(n, p)
    BY <2>4, UntrustType DEF TypeOK, CascadeUntrust
  <2>5. QED
    BY <1>1, <1>6, <2>1, <2>2, <2>3, <2>4 DEF ReaderStep, ReceivePlain, CascadeRemove
<1>7. ASSUME NEW n \in Node, NEW p \in Node,
             NoticeStep(n, p) \/ ConnStep(n, p) \/ Drop(n, p) \/ StIntroduce(n, p)
      PROVE  MemoryType'
  BY <1>1, <1>7 DEF NoticeStep, NoticeSend, NoticeGiveUp, ConnStep, Connect, Dial,
                    Greet, Drop, StIntroduce
<1>8. QED
  BY <1>1, <1>2, <1>3, <1>4, <1>5, <1>6, <1>7 DEF Next, vars

LEMMA WireTypeStep ==
  ASSUME TypeOK, [Next]_vars
  PROVE  WireType'
<1>0. WireType
  BY DEF TypeOK
<1>1. CASE UNCHANGED <<conn, chan, notices>>
  BY <1>0, <1>1 DEF WireType
<1>2. ASSUME NEW n \in Node, ApiStep(n) PROVE WireType'
  <2>1. api[n].peer \in Node
    BY DEF TypeOK, ThreadType
  <2>2. CASE UnpairUntrust(n)
    BY <1>0, <2>1, <2>2, NotifyType DEF UnpairUntrust, WireType, wire
  <2>3. CASE ApiSend(n)
    <3>1. FrameOf(api[n].pc) \in Frame
      BY <2>3 DEF ApiSend, FrameOf, Frame, Greeting
    <3>2. QED
      BY <1>0, <2>1, <2>3, <3>1, WriteType DEF ApiSend, WireType
  <2>4. QED
    BY <1>1, <1>2, <2>2, <2>3
       DEF ApiStep, PairAdd, PairTrust, PairHello, UnpairRemove, ApiGiveUp, wire
<1>3. ASSUME NEW n \in Node, LifeCycle(n) PROVE WireType'
  <2>1. CASE Stop(n)
    <3>1. notices' \in [Node -> [Node -> 0 .. MaxNotices]]
      BY <1>0, <2>1, PairingAssumption DEF Stop, WireType
    <3>2. QED
      BY <1>0, <2>1, <3>1, CutOffType DEF Stop, WireType
  <2>2. CASE Background(n)
    BY <1>0, <2>2, CutOffType DEF Background, WireType
  <2>3. QED
    BY <1>1, <1>3, <2>1, <2>2 DEF LifeCycle, Boot, Foreground, wire
<1>4. ASSUME NEW n \in Node, NEW p \in Node, ReaderStep(n, p) PROVE WireType'
  <2>1. CASE ReceivePlain(n, p)
    BY <1>0, <2>1, ReadsType, ConnectBackType DEF ReceivePlain, WireType
  <2>2. CASE ReceiveTrusted(n, p)
    <3>1. notices' \in [Node -> [Node -> 0 .. MaxNotices]]
      BY <1>0, <2>2, NotifyType DEF ReceiveTrusted, WireType
    <3>2. QED
      BY <1>0, <2>2, <3>1, ReadsType, ConnectBackType DEF ReceiveTrusted, WireType
  <2>3. CASE ReceiveUntrusted(n, p)
    BY <1>0, <2>3, ReadsType, ConnectBackType DEF ReceiveUntrusted, WireType
  <2>4. CASE ReceiveCancelled(n, p)
    BY <1>0, <2>4, ReadsType DEF ReceiveCancelled, WireType
  <2>5. CASE CascadeUntrust(n, p)
    BY <1>0, <2>5, NotifyType DEF CascadeUntrust, WireType, wire
  <2>6. QED
    BY <1>1, <1>4, <2>1, <2>2, <2>3, <2>4, <2>5 DEF ReaderStep, CascadeRemove, wire
<1>5. ASSUME NEW n \in Node, NEW p \in Node, NoticeStep(n, p) PROVE WireType'
  <2>1. ASSUME notices[n][p] > 0, notices' = [notices EXCEPT ![n][p] = @ - 1]
        PROVE  notices' \in [Node -> [Node -> 0 .. MaxNotices]]
    <3>1. notices[n][p] - 1 \in 0 .. MaxNotices
      BY <1>0, <2>1, PairingAssumption DEF WireType
    <3>2. QED
      BY <1>0, <2>1, <3>1 DEF WireType
  <2>2. "untrusted" \in Frame
    BY DEF Frame, Greeting
  <2>3. QED
    BY <1>0, <1>5, <2>1, <2>2, WriteType
       DEF NoticeStep, NoticeSend, NoticeGiveUp, WireType, wire
<1>6. ASSUME NEW n \in Node, NEW p \in Node, ConnStep(n, p) PROVE WireType'
  <2>1. CASE Connect(n, p) \/ Dial(n, p)
    <3>1. Hello(n, p) \in ConnState /\ "dialing" \in ConnState
      BY DEF Hello, ConnState, Greeting
    <3>2. \E c \in ConnState : conn' = [conn EXCEPT ![n][p] = c]
      BY <2>1, <3>1 DEF Connect, Dial
    <3>3. conn' \in [Node -> [Node -> ConnState]]
      BY <1>0, <3>2 DEF WireType
    <3>4. QED
      BY <1>0, <2>1, <3>3 DEF Connect, Dial, WireType
  <2>2. CASE Greet(n, p)
    BY <1>0, <2>2, WriteType DEF Greet, WireType, ConnState, Frame
  <2>3. QED
    BY <1>6, <2>1, <2>2 DEF ConnStep
<1>7. ASSUME NEW n \in Node, NEW p \in Node, Drop(n, p) PROVE WireType'
  <2>1. conn' \in [Node -> [Node -> ConnState]]
    BY <1>0, <1>7 DEF Drop, WireType, ConnState
  <2>2. PICK k \in 0 .. Len(chan[n][p]) :
          chan' = [chan EXCEPT ![n][p] = SubSeq(@, 1, k)]
    BY <1>7 DEF Drop
  <2>3. SubSeq(chan[n][p], 1, k) \in Seq(Frame)
    BY <1>0, <2>2 DEF WireType
  <2>4. chan' \in [Node -> [Node -> Seq(Frame)]]
    BY <1>0, <2>2, <2>3 DEF WireType
  <2>5. QED
    BY <1>0, <1>7, <2>1, <2>4 DEF Drop, WireType
<1>8. ASSUME NEW n \in Node, UserRequest(n) \/ PipelineStep(n) PROVE WireType'
  BY <1>1, <1>8 DEF UserRequest, Pair, Unpair, DismissIncoming, PipelineStep,
                    PipelineRead, PipelineReconcile, wire
<1>9. ASSUME NEW n \in Node, NEW p \in Node, StIntroduce(n, p) PROVE WireType'
  BY <1>1, <1>9 DEF StIntroduce, wire
<1>10. QED
  BY <1>1, <1>2, <1>3, <1>4, <1>5, <1>6, <1>7, <1>8, <1>9 DEF Next, vars, wire

LEMMA ThreadTypeStep ==
  ASSUME TypeOK, [Next]_vars
  PROVE  ThreadType'
<1>0. ThreadType /\ ApiType
  BY DEF TypeOK, ThreadType, ApiType
<1>1. CASE UNCHANGED <<api, rx, pipe>>
  BY <1>0, <1>1 DEF ThreadType, At
<1>2. ASSUME NEW n \in Node, UserRequest(n) PROVE ThreadType'
  <2>1. ASSUME NEW p \in Node, Pair(n, p) PROVE ThreadType'
    BY <1>0, <2>1 DEF Pair, ThreadType, ApiPc, At
  <2>2. ASSUME NEW p \in Node, Unpair(n, p) PROVE ThreadType'
    BY <1>0, <2>2 DEF Unpair, ThreadType, ApiPc, At
  <2>3. QED
    BY <1>1, <1>2, <2>1, <2>2 DEF UserRequest, DismissIncoming
<1>3. ASSUME NEW n \in Node, ApiStep(n) PROVE ThreadType'
  <2>1. ASSUME NEW pc \in ApiPc, Goto(n, pc), ~At(n, "idle") PROVE ApiType'
    BY <1>0, <2>1, GotoType
  <2>2. /\ {"pairTrust", "pairHello", "sendTrusted", "sendUntrusted",
            "unpairUntrust", "sendCancelled"} \subseteq ApiPc
        /\ UNCHANGED <<rx, pipe>>
    BY <1>3 DEF ApiPc, ApiStep, PairAdd, PairTrust, PairHello, UnpairRemove,
                UnpairUntrust, ApiSend, ApiGiveUp
  <2>3. ApiType'
    BY <1>0, <1>3, <2>1, <2>2, AnswerType
       DEF ApiStep, PairAdd, PairTrust, PairHello, UnpairRemove, UnpairUntrust,
           ApiSend, ApiGiveUp, At
  <2>4. QED
    BY <1>0, <2>2, <2>3 DEF ThreadType, ApiType
<1>4. ASSUME NEW n \in Node, PipelineStep(n) PROVE ThreadType'
  <2>1. NoPipe \in [busy : BOOLEAN, seen : SUBSET Node]
    BY DEF NoPipe
  <2>2. [busy |-> TRUE, seen |-> stDevices[n]] \in [busy : BOOLEAN, seen : SUBSET Node]
    BY DEF TypeOK, LifeType
  <2>3. UNCHANGED <<api, rx>>
    BY <1>4 DEF PipelineStep, PipelineRead, PipelineReconcile
  <2>4. pipe' \in [Node -> [busy : BOOLEAN, seen : SUBSET Node]]
    <3>1. CASE PipelineRead(n)
      BY <1>0, <2>2, <3>1 DEF PipelineRead, ThreadType
    <3>2. CASE PipelineReconcile(n)
      BY <1>0, <2>1, <3>2 DEF PipelineReconcile, ThreadType
    <3>3. QED
      BY <1>4, <3>1, <3>2 DEF PipelineStep
  <2>5. QED
    BY <1>0, <2>3, <2>4 DEF ThreadType, At
<1>5. ASSUME NEW n \in Node, LifeCycle(n) PROVE ThreadType'
  <2>1. CASE Stop(n)
    <3>1. ApiType'
      BY <1>0, <2>1, AnswerType DEF Stop, Answer
    <3>2. rx' \in [Node -> [Node -> RxPc]]
      BY <1>0, <2>1 DEF Stop, NoReader, RxPc, ThreadType
    <3>3. pipe' \in [Node -> [busy : BOOLEAN, seen : SUBSET Node]]
      BY <1>0, <2>1 DEF Stop, NoPipe, ThreadType
    <3>4. QED
      BY <3>1, <3>2, <3>3 DEF ThreadType, ApiType
  <2>2. QED
    BY <1>1, <1>5, <2>1 DEF LifeCycle, Boot, Foreground, Background
<1>6. ASSUME NEW n \in Node, NEW p \in Node, ReaderStep(n, p) PROVE ThreadType'
  <2>1. UNCHANGED <<api, pipe>>
    BY <1>6 DEF ReaderStep, ReceivePlain, ReceiveTrusted, ReceiveUntrusted,
                ReceiveCancelled, CascadeRemove, CascadeUntrust
  <2>2. \/ UNCHANGED rx
        \/ \E pc \in RxPc : rx' = [rx EXCEPT ![n][p] = pc]
    BY <1>6 DEF ReaderStep, ReceivePlain, ReceiveTrusted, ReceiveUntrusted,
                ReceiveCancelled, CascadeRemove, CascadeUntrust, RxPc
  <2>3. ASSUME NEW pc \in RxPc, rx' = [rx EXCEPT ![n][p] = pc]
        PROVE  rx' \in [Node -> [Node -> RxPc]]
    BY <1>0, <2>3 DEF ThreadType
  <2>4. QED
    BY <1>0, <2>1, <2>2, <2>3 DEF ThreadType, At
<1>7. ASSUME NEW n \in Node, NEW p \in Node,
             NoticeStep(n, p) \/ ConnStep(n, p) \/ Drop(n, p) \/ StIntroduce(n, p)
      PROVE  ThreadType'
  BY <1>1, <1>7 DEF NoticeStep, NoticeSend, NoticeGiveUp, ConnStep, Connect, Dial,
                    Greet, Drop, StIntroduce
<1>8. QED
  BY <1>1, <1>2, <1>3, <1>4, <1>5, <1>6, <1>7 DEF Next, vars

LEMMA HistoryTypeStep ==
  ASSUME TypeOK, [Next]_vars
  PROVE  HistoryType'
<1>1. CASE UNCHANGED <<asked, withdrew>>
  BY <1>1 DEF TypeOK, HistoryType
<1>2. ASSUME NEW n \in Node, UserRequest(n) PROVE HistoryType'
  BY <1>2 DEF TypeOK, HistoryType, UserRequest, Pair, Unpair, DismissIncoming
<1>3. ASSUME NEW n \in Node, ApiStep(n) \/ PipelineStep(n) \/ LifeCycle(n)
      PROVE  HistoryType'
  BY <1>1, <1>3 DEF ApiStep, PairAdd, PairTrust, PairHello, UnpairRemove,
     UnpairUntrust, ApiSend, ApiGiveUp, PipelineStep, PipelineRead,
     PipelineReconcile, LifeCycle, Stop, Boot, Foreground, Background
<1>4. ASSUME NEW n \in Node, NEW p \in Node,
             \/ ReaderStep(n, p) \/ NoticeStep(n, p) \/ ConnStep(n, p)
             \/ Drop(n, p)
      PROVE  HistoryType'
  BY <1>1, <1>4 DEF ReaderStep, ReceivePlain, ReceiveTrusted, ReceiveUntrusted,
     ReceiveCancelled, CascadeRemove, CascadeUntrust, NoticeStep, NoticeSend,
     NoticeGiveUp, ConnStep, Connect, Dial, Greet, Drop
<1>5. ASSUME NEW n \in Node, NEW p \in Node, StIntroduce(n, p) PROVE HistoryType'
  BY <1>5 DEF TypeOK, HistoryType, StIntroduce
<1>6. QED
  BY <1>1, <1>2, <1>3, <1>4, <1>5 DEF Next, vars

LEMMA TypeInit == Init => TypeOK
<1> SUFFICES ASSUME Init PROVE TypeOK
  OBVIOUS
<1> USE PairingAssumption DEF Init
<1>1. LifeType
  BY DEF LifeType
<1>2. MemoryType
  BY DEF MemoryType
<1>3. WireType
  <2>1. <<>> \in Seq(Frame)
    OBVIOUS
  <2>2. QED
    BY <2>1 DEF WireType, ConnState
<1>4. ThreadType
  BY DEF ThreadType, NoApi, NoReader, NoPipe, ApiPc, RxPc, At
<1>5. HistoryType
  BY DEF HistoryType
<1>6. QED
  BY <1>1, <1>2, <1>3, <1>4, <1>5 DEF TypeOK

(* The state variables keep their types, no node comes to trust itself, and no
   request of a user is ever about the node itself.                           *)
THEOREM TypeCorrect == Spec => []TypeOK
<1>1. TypeOK /\ [Next]_vars => TypeOK'
  BY LifeTypeStep, MemoryTypeStep, WireTypeStep, ThreadTypeStep, HistoryTypeStep
     DEF TypeOK
<1>2. QED
  BY TypeInit, <1>1, PTL DEF Spec

-----------------------------------------------------------------------------
(***************************************************************************)
(* A removed device is not trusted.  The invariant is not inductive alone: *)
(* Boot trusts whatever Syncthing lists, so nothing may be left of the     *)
(* node's earlier run, neither a removal nor a thread that could add one.  *)
(***************************************************************************)
DownIsIdle ==
  \A n \in Node :
    ~Up(n) => /\ removed[n] = {} /\ At(n, "idle") /\ ~pipe[n].busy
              /\ \A p \in Node : rx[n][p] = "idle"

LEMMA DownIsIdleStep ==
  ASSUME TypeOK, DownIsIdle, [Next]_vars
  PROVE  DownIsIdle'
<1>1. CASE UNCHANGED <<mode, removed, api, rx, pipe>>
  BY <1>1 DEF DownIsIdle, Up, At
<1>2. ASSUME NEW n \in Node, UNCHANGED mode, Up(n),
             \A m \in Node \ {n} : /\ removed'[m] = removed[m] /\ api'[m] = api[m]
                                  /\ rx'[m] = rx[m] /\ pipe'[m] = pipe[m]
      PROVE  DownIsIdle'
  BY <1>2 DEF DownIsIdle, Up, At
<1>3. ASSUME NEW n \in Node, UserRequest(n) PROVE DownIsIdle'
  BY <1>2, <1>3 DEF TypeOK, MemoryType, ThreadType, UserRequest, Pair, Unpair,
                    DismissIncoming, ForgetTheirTrust, memory
<1>4. ASSUME NEW n \in Node, ApiStep(n) PROVE DownIsIdle'
  <2>1. Up(n)
    BY <1>4 DEF DownIsIdle, At, ApiStep, PairAdd, PairTrust, PairHello, UnpairRemove,
                UnpairUntrust, ApiSend, ApiGiveUp
  <2>2. UNCHANGED <<mode, rx, pipe>>
    BY <1>4 DEF ApiStep, PairAdd, PairTrust, PairHello, UnpairRemove,
                UnpairUntrust, ApiSend, ApiGiveUp
  <2>3. \A m \in Node \ {n} : api'[m] = api[m]
    BY <1>4 DEF TypeOK, ThreadType, ApiStep, PairAdd, PairTrust, PairHello,
                UnpairRemove, UnpairUntrust, ApiSend, ApiGiveUp, Goto, Answer
  <2>4. \A m \in Node \ {n} : removed'[m] = removed[m]
    BY <1>4 DEF TypeOK, MemoryType, ApiStep, PairAdd, PairTrust, PairHello,
                UnpairRemove, UnpairUntrust, ApiSend, ApiGiveUp, Trust, Untrust,
                memory
  <2>5. QED
    BY <1>2, <2>1, <2>2, <2>3, <2>4
<1>5. ASSUME NEW n \in Node, PipelineStep(n) PROVE DownIsIdle'
  <2>1. Up(n)
    BY <1>5 DEF DownIsIdle, PipelineStep, PipelineRead, PipelineReconcile
  <2>2. UNCHANGED <<mode, removed, api, rx>>
    BY <1>5 DEF PipelineStep, PipelineRead, PipelineReconcile, ReconcileTrust, memory
  <2>3. \A m \in Node \ {n} : pipe'[m] = pipe[m]
    BY <1>5 DEF TypeOK, ThreadType, PipelineStep, PipelineRead, PipelineReconcile
  <2>4. QED
    BY <1>2, <2>1, <2>2, <2>3
<1>6. ASSUME NEW n \in Node, LifeCycle(n) PROVE DownIsIdle'
  <2>1. CASE Stop(n)
    BY <2>1 DEF Stop, NoApi, NoReader, NoPipe, DownIsIdle, Up, At, TypeOK, LifeType,
                MemoryType, ThreadType
  <2>2. CASE Boot(n) \/ Foreground(n) \/ Background(n)
    <3>1. mode'[n] # "down" /\ \A m \in Node \ {n} : mode'[m] = mode[m]
      BY <2>2 DEF Boot, Foreground, Background, TypeOK, LifeType
    <3>2. UNCHANGED <<removed, api, rx, pipe>>
      BY <2>2 DEF Boot, Foreground, Background, memory
    <3>3. QED
      BY <3>1, <3>2 DEF DownIsIdle, Up, At
  <2>3. QED
    BY <1>6, <2>1, <2>2 DEF LifeCycle
<1>7. ASSUME NEW n \in Node, NEW p \in Node, ReaderStep(n, p) PROVE DownIsIdle'
  <2>1. Up(n)
    BY <1>7 DEF DownIsIdle, Up, ReaderStep, ReceivePlain, ReceiveTrusted,
                ReceiveUntrusted, ReceiveCancelled, CascadeRemove, CascadeUntrust,
                Reads, Accepting
  <2>2. UNCHANGED <<mode, api, pipe>>
    BY <1>7 DEF ReaderStep, ReceivePlain, ReceiveTrusted, ReceiveUntrusted,
                ReceiveCancelled, CascadeRemove, CascadeUntrust
  <2>3. \A m \in Node \ {n} : rx'[m] = rx[m]
    BY <1>7 DEF TypeOK, ThreadType, ReaderStep, ReceivePlain, ReceiveTrusted,
                ReceiveUntrusted, ReceiveCancelled, CascadeRemove, CascadeUntrust
  <2>4. \A m \in Node \ {n} : removed'[m] = removed[m]
    BY <1>7 DEF TypeOK, MemoryType, ReaderStep, ReceivePlain, ReceiveTrusted,
                ReceiveUntrusted, ReceiveCancelled, CascadeRemove, CascadeUntrust,
                Untrust, ForgetTheirTrust, memory
  <2>5. QED
    BY <1>2, <2>1, <2>2, <2>3, <2>4
<1>8. ASSUME NEW n \in Node, NEW p \in Node,
             NoticeStep(n, p) \/ ConnStep(n, p) \/ Drop(n, p) \/ StIntroduce(n, p)
      PROVE  DownIsIdle'
  BY <1>1, <1>8 DEF NoticeStep, NoticeSend, NoticeGiveUp, ConnStep, Connect, Dial,
                    Greet, Drop, StIntroduce, memory
<1>9. QED
  BY <1>1, <1>3, <1>4, <1>5, <1>6, <1>7, <1>8 DEF Next, vars, memory

(* Only the two sets and what Boot reads decide the property: a step either
   leaves both alone, trusts, untrusts, reconciles, or starts a node anew.   *)
LEMMA RemovedStep ==
  ASSUME TypeOK, DownIsIdle, RemovedNotTrusted, [Next]_vars
  PROVE  RemovedNotTrusted'
<1>1. CASE UNCHANGED <<trusted, removed>>
  BY <1>1 DEF RemovedNotTrusted
<1>2. ASSUME NEW n \in Node, NEW p \in Node, Trust(n, p) PROVE RemovedNotTrusted'
  BY <1>2 DEF Trust, RemovedNotTrusted, TypeOK, MemoryType
<1>3. ASSUME NEW n \in Node, NEW p \in Node, Untrust(n, p) PROVE RemovedNotTrusted'
  BY <1>3 DEF Untrust, RemovedNotTrusted, TypeOK, MemoryType
<1>4. ASSUME NEW n \in Node, UserRequest(n) PROVE RemovedNotTrusted'
  BY <1>1, <1>4 DEF UserRequest, Pair, Unpair, DismissIncoming, ForgetTheirTrust,
                    memory
<1>5. ASSUME NEW n \in Node, ApiStep(n) PROVE RemovedNotTrusted'
  <2>1. api[n].peer \in Node
    BY DEF TypeOK, ThreadType
  <2>2. QED
    BY <1>1, <1>2, <1>3, <1>5, <2>1
       DEF ApiStep, PairAdd, PairTrust, PairHello, UnpairRemove, UnpairUntrust,
           ApiSend, ApiGiveUp, memory
<1>6. ASSUME NEW n \in Node, PipelineStep(n) PROVE RemovedNotTrusted'
  <2>1. ASSUME NEW S, ReconcileTrust(n, S) PROVE RemovedNotTrusted'
    BY <2>1 DEF ReconcileTrust, NewlyListed, RemovedNotTrusted, TypeOK, MemoryType
  <2>2. QED
    BY <1>1, <1>6, <2>1 DEF PipelineStep, PipelineRead, PipelineReconcile, memory
<1>7. ASSUME NEW n \in Node, LifeCycle(n) PROVE RemovedNotTrusted'
  <2>1. CASE Stop(n)
    BY <2>1 DEF Stop, RemovedNotTrusted, TypeOK, MemoryType
  <2>2. CASE Boot(n)
    <3>1. removed[n] = {} /\ UNCHANGED removed
      BY <2>2 DEF Boot, DownIsIdle, Up
    <3>2. \A m \in Node \ {n} : trusted'[m] = trusted[m]
      BY <2>2 DEF Boot, TypeOK, MemoryType
    <3>3. QED
      BY <3>1, <3>2 DEF RemovedNotTrusted
  <2>3. QED
    BY <1>1, <1>7, <2>1, <2>2 DEF LifeCycle, Foreground, Background, memory
<1>8. ASSUME NEW n \in Node, NEW p \in Node, ReaderStep(n, p) PROVE RemovedNotTrusted'
  BY <1>1, <1>3, <1>8
     DEF ReaderStep, ReceivePlain, ReceiveTrusted, ReceiveUntrusted,
         ReceiveCancelled, CascadeRemove, CascadeUntrust, ForgetTheirTrust, memory
<1>9. ASSUME NEW n \in Node, NEW p \in Node,
             NoticeStep(n, p) \/ ConnStep(n, p) \/ Drop(n, p) \/ StIntroduce(n, p)
      PROVE  RemovedNotTrusted'
  BY <1>1, <1>9 DEF NoticeStep, NoticeSend, NoticeGiveUp, ConnStep, Connect, Dial,
                    Greet, Drop, StIntroduce, memory
<1>10. QED
  BY <1>1, <1>4, <1>5, <1>6, <1>7, <1>8, <1>9 DEF Next, vars, memory

(* A device that the node has removed is not trusted, in any interleaving of
   requests, messages and reconciliations, across restarts.                   *)
THEOREM RemovedIsNotTrusted == Spec => []RemovedNotTrusted
<1>1. Init => DownIsIdle /\ RemovedNotTrusted
  BY DEF Init, DownIsIdle, RemovedNotTrusted, Up
<1>2. TypeOK /\ DownIsIdle /\ RemovedNotTrusted /\ [Next]_vars
        => DownIsIdle' /\ RemovedNotTrusted'
  BY DownIsIdleStep, RemovedStep
<1>3. QED
  BY <1>1, <1>2, TypeCorrect, PTL DEF Spec

-----------------------------------------------------------------------------
(***************************************************************************)
(* Consent.  Whatever may make a node trust a device, or be taken for a    *)
(* peer's trust, was added by that node's user or Introducer: what         *)
(* Syncthing lists, what a reconciliation has read of it, a request to     *)
(* pair, a Hello about to be written and every frame on its way.           *)
(***************************************************************************)
ListingConsent ==
  \A n, p \in Node :
    p \in stDevices[n] \cup pipe[n].seen => p = n \/ MayTrust(n, p)

RequestConsent ==
  \A n \in Node :
    api[n].pc \in {"pairAdd", "pairTrust", "sendTrusted"} => MayTrust(n, api[n].peer)

ConnConsent == \A n, p \in Node : conn[n][p] = "trusted" => MayTrust(n, p)

Carries(n, p) == {chan[n][p][i] : i \in 1 .. Len(chan[n][p])}

ChanConsent == \A n, p \in Node : "trusted" \in Carries(n, p) => MayTrust(n, p)

ConsentInv ==
  ListingConsent /\ TrustNeedsConsent /\ RequestConsent /\ ConnConsent /\ ChanConsent

(* What was asked for stays asked for. *)
LEMMA ConsentStays ==
  ASSUME [Next]_vars
  PROVE  asked \subseteq asked'
<1>1. CASE UNCHANGED asked
  BY <1>1
<1>2. ASSUME NEW n \in Node, UserRequest(n) PROVE asked \subseteq asked'
  BY <1>2 DEF UserRequest, Pair, Unpair, DismissIncoming
<1>3. ASSUME NEW n \in Node, ApiStep(n) \/ PipelineStep(n) \/ LifeCycle(n)
      PROVE  UNCHANGED asked
  BY <1>3 DEF ApiStep, PairAdd, PairTrust, PairHello, UnpairRemove,
     UnpairUntrust, ApiSend, ApiGiveUp, PipelineStep, PipelineRead,
     PipelineReconcile, LifeCycle, Stop, Boot, Foreground, Background
<1>4. ASSUME NEW n \in Node, NEW p \in Node,
             ReaderStep(n, p) \/ NoticeStep(n, p) \/ ConnStep(n, p) \/ Drop(n, p)
      PROVE  UNCHANGED asked
  BY <1>4 DEF ReaderStep, ReceivePlain, ReceiveTrusted, ReceiveUntrusted,
     ReceiveCancelled, CascadeRemove, CascadeUntrust, NoticeStep, NoticeSend,
     NoticeGiveUp, ConnStep, Connect, Dial, Greet, Drop
<1>5. ASSUME NEW n \in Node, NEW p \in Node, StIntroduce(n, p) PROVE asked \subseteq asked'
  BY <1>5 DEF StIntroduce
<1>6. QED
  BY <1>1, <1>2, <1>3, <1>4, <1>5 DEF Next, vars

LEMMA ListingConsentStep ==
  ASSUME TypeOK, ConsentInv, [Next]_vars
  PROVE  ListingConsent'
<1> USE DEF MayTrust
<1>0. asked \subseteq asked'
  BY ConsentStays
<1>1. CASE UNCHANGED <<stDevices, pipe>>
  BY <1>0, <1>1 DEF ConsentInv, ListingConsent
<1>2. ASSUME NEW n \in Node, UserRequest(n) PROVE UNCHANGED <<stDevices, pipe>>
  BY <1>2 DEF UserRequest, Pair, Unpair, DismissIncoming
<1>3. ASSUME NEW n \in Node, ApiStep(n) PROVE ListingConsent'
  <2>1. api[n].peer \in Node
    BY DEF TypeOK, ThreadType
  <2>2. CASE PairAdd(n)
    <3>1. MayTrust(n, api[n].peer)
      BY <2>2 DEF PairAdd, At, ConsentInv, RequestConsent
    <3>2. UNCHANGED <<pipe, asked>>
      BY <2>2 DEF PairAdd
    <3>3. stDevices' = stDevices
            \/ stDevices' = [stDevices EXCEPT ![n] = @ \cup {api[n].peer}]
      BY <2>2 DEF PairAdd, StAddDevice
    <3>4. QED
      BY <3>1, <3>2, <3>3 DEF ConsentInv, ListingConsent, TypeOK, LifeType
  <2>3. CASE UnpairRemove(n)
    BY <1>0, <2>3 DEF UnpairRemove, StRemoveDevice, ConsentInv, ListingConsent,
                      TypeOK, LifeType
  <2>4. QED
    BY <1>1, <1>3, <2>2, <2>3
       DEF ApiStep, PairTrust, PairHello, UnpairUntrust, ApiSend, ApiGiveUp
<1>4. ASSUME NEW n \in Node, PipelineStep(n) PROVE ListingConsent'
  BY <1>0, <1>4 DEF PipelineStep, PipelineRead, PipelineReconcile, NoPipe,
                    ConsentInv, ListingConsent, TypeOK, ThreadType
<1>5. ASSUME NEW n \in Node, LifeCycle(n) PROVE ListingConsent'
  <2>1. CASE Stop(n)
    BY <1>0, <2>1 DEF Stop, NoPipe, ConsentInv, ListingConsent, TypeOK, ThreadType
  <2>2. QED
    BY <1>1, <1>5, <2>1 DEF LifeCycle, Boot, Foreground, Background
<1>6. ASSUME NEW n \in Node, NEW p \in Node, ReaderStep(n, p) PROVE ListingConsent'
  <2>1. CASE CascadeRemove(n, p)
    BY <1>0, <2>1 DEF CascadeRemove, StRemoveDevice, ConsentInv, ListingConsent,
                      TypeOK, LifeType
  <2>2. QED
    BY <1>1, <1>6, <2>1 DEF ReaderStep, ReceivePlain, ReceiveTrusted,
       ReceiveUntrusted, ReceiveCancelled, CascadeUntrust
<1>7. ASSUME NEW n \in Node, NEW p \in Node,
             NoticeStep(n, p) \/ ConnStep(n, p) \/ Drop(n, p)
      PROVE  UNCHANGED <<stDevices, pipe>>
  BY <1>7 DEF NoticeStep, NoticeSend, NoticeGiveUp, ConnStep, Connect, Dial,
              Greet, Drop
<1>8. ASSUME NEW n \in Node, NEW p \in Node, StIntroduce(n, p) PROVE ListingConsent'
  BY <1>8 DEF StIntroduce, ConsentInv, ListingConsent, TypeOK, LifeType
<1>9. QED
  BY <1>1, <1>2, <1>3, <1>4, <1>5, <1>6, <1>7, <1>8 DEF Next, vars

LEMMA RequestConsentStep ==
  ASSUME TypeOK, ConsentInv, [Next]_vars
  PROVE  RequestConsent'
<1> USE DEF MayTrust
<1>0. asked \subseteq asked'
  BY ConsentStays
<1>1. CASE UNCHANGED api
  BY <1>0, <1>1 DEF ConsentInv, RequestConsent
<1>2. ASSUME NEW n \in Node, UserRequest(n) PROVE RequestConsent'
  <2>1. ASSUME NEW p \in Node, Pair(n, p) PROVE RequestConsent'
    BY <1>0, <2>1 DEF Pair, ConsentInv, RequestConsent, TypeOK, ThreadType
  <2>2. ASSUME NEW p \in Node, Unpair(n, p) PROVE RequestConsent'
    BY <1>0, <2>2 DEF Unpair, ConsentInv, RequestConsent, TypeOK, ThreadType
  <2>3. QED
    BY <1>1, <1>2, <2>1, <2>2 DEF UserRequest, DismissIncoming
<1>3. ASSUME NEW n \in Node, ApiStep(n) PROVE RequestConsent'
  <2>1. /\ api[n] \in [pc : ApiPc, peer : Node]
        /\ \A m \in Node \ {n} : api'[m] = api[m]
        /\ UNCHANGED asked
    BY <1>3 DEF TypeOK, ThreadType, ApiStep, PairAdd, PairTrust, PairHello,
       UnpairRemove, UnpairUntrust, ApiSend, ApiGiveUp, Goto, Answer
  <2>2. /\ api'[n].pc \in {"pairTrust", "sendTrusted"}
             => api'[n].peer = api[n].peer /\ MayTrust(n, api[n].peer)
        /\ api'[n].pc # "pairAdd"
    <3>1. CASE PairAdd(n) \/ PairTrust(n)
      BY <2>1, <3>1 DEF PairAdd, PairTrust, Goto, At, ConsentInv, RequestConsent,
                        TypeOK, ThreadType
    <3>2. CASE PairHello(n)
      BY <2>1, <3>2 DEF PairHello, Goto, ConsentInv, TrustNeedsConsent, TypeOK,
                        ThreadType
    <3>3. CASE UnpairRemove(n) \/ UnpairUntrust(n)
      BY <2>1, <3>3 DEF UnpairRemove, UnpairUntrust, Goto, TypeOK, ThreadType
    <3>4. CASE ApiSend(n) \/ ApiGiveUp(n)
      BY <2>1, <3>4 DEF ApiSend, ApiGiveUp, Answer, NoApi, TypeOK, ThreadType
    <3>5. QED
      BY <1>3, <3>1, <3>2, <3>3, <3>4 DEF ApiStep
  <2>3. QED
    BY <2>1, <2>2 DEF ConsentInv, RequestConsent
<1>4. ASSUME NEW n \in Node, PipelineStep(n) PROVE UNCHANGED api
  BY <1>4 DEF PipelineStep, PipelineRead, PipelineReconcile
<1>5. ASSUME NEW n \in Node, LifeCycle(n) PROVE RequestConsent'
  <2>1. CASE Stop(n)
    BY <1>0, <2>1 DEF Stop, NoApi, ConsentInv, RequestConsent, TypeOK, ThreadType
  <2>2. QED
    BY <1>1, <1>5, <2>1 DEF LifeCycle, Boot, Foreground, Background
<1>6. ASSUME NEW n \in Node, NEW p \in Node,
             \/ ReaderStep(n, p) \/ NoticeStep(n, p) \/ ConnStep(n, p)
             \/ Drop(n, p) \/ StIntroduce(n, p)
      PROVE  UNCHANGED api
  BY <1>6 DEF ReaderStep, ReceivePlain, ReceiveTrusted, ReceiveUntrusted,
     ReceiveCancelled, CascadeRemove, CascadeUntrust, NoticeStep, NoticeSend,
     NoticeGiveUp, ConnStep, Connect, Dial, Greet, Drop, StIntroduce
<1>7. QED
  BY <1>1, <1>2, <1>3, <1>4, <1>5, <1>6 DEF Next, vars

LEMMA ConnConsentStep ==
  ASSUME TypeOK, ConsentInv, [Next]_vars
  PROVE  ConnConsent'
<1> USE DEF MayTrust
<1>0. asked \subseteq asked'
  BY ConsentStays
<1>1. CASE UNCHANGED conn
  BY <1>0, <1>1 DEF ConsentInv, ConnConsent
<1>2. ASSUME NEW n \in Node,
             UserRequest(n) \/ ApiStep(n) \/ PipelineStep(n)
      PROVE  UNCHANGED conn
  BY <1>2 DEF UserRequest, Pair, Unpair, DismissIncoming, ApiStep, PairAdd,
     PairTrust, PairHello, UnpairRemove, UnpairUntrust, ApiSend, ApiGiveUp,
     PipelineStep, PipelineRead, PipelineReconcile, wire
<1>3. ASSUME NEW n \in Node, CutOff(n) PROVE ConnConsent'
  BY <1>0, <1>3 DEF CutOff, ConsentInv, ConnConsent
<1>4. ASSUME NEW n \in Node, LifeCycle(n) PROVE ConnConsent'
  BY <1>1, <1>3, <1>4 DEF LifeCycle, Stop, Boot, Foreground, Background, wire
<1>5. ASSUME NEW n \in Node, NEW p \in Node, ConnectBack(n, p) PROVE ConnConsent'
  BY <1>0, <1>5 DEF ConnectBack, ConsentInv, ConnConsent, TypeOK, WireType
<1>6. ASSUME NEW n \in Node, NEW p \in Node, ReaderStep(n, p) PROVE ConnConsent'
  BY <1>1, <1>5, <1>6 DEF ReaderStep, ReceivePlain, ReceiveTrusted,
     ReceiveUntrusted, ReceiveCancelled, CascadeRemove, CascadeUntrust, wire
<1>7. ASSUME NEW n \in Node, NEW p \in Node, ConnStep(n, p) \/ Drop(n, p)
      PROVE  ConnConsent'
  <2>1. CASE Dial(n, p)
    <3>1. conn' = [conn EXCEPT ![n][p] = Hello(n, p)]
      BY <2>1 DEF Dial
    <3>2. Hello(n, p) = "trusted" => MayTrust(n, p)
      BY DEF Hello, ConsentInv, TrustNeedsConsent
    <3>3. QED
      BY <1>0, <3>1, <3>2 DEF ConsentInv, ConnConsent, TypeOK, WireType
  <2>2. CASE Connect(n, p) \/ Greet(n, p) \/ Drop(n, p)
    <3>1. PICK c \in {"dialing", "up"} : conn' = [conn EXCEPT ![n][p] = c]
      BY <2>2 DEF Connect, Greet, Drop
    <3>2. \A m, q \in Node : conn'[m][q] = conn[m][q] \/ conn'[m][q] = c
      BY <3>1 DEF TypeOK, WireType
    <3>3. QED
      BY <1>0, <3>2 DEF ConsentInv, ConnConsent
  <2>3. QED
    BY <1>7, <2>1, <2>2 DEF ConnStep
<1>8. ASSUME NEW n \in Node, NEW p \in Node, NoticeStep(n, p) \/ StIntroduce(n, p)
      PROVE  UNCHANGED conn
  BY <1>8 DEF NoticeStep, NoticeSend, NoticeGiveUp, StIntroduce, wire
<1>9. QED
  BY <1>1, <1>2, <1>4, <1>6, <1>7, <1>8 DEF Next, vars, wire

(***************************************************************************)
(* What is on its way from n to p, and where a frame may come from.        *)
(***************************************************************************)
LEMMA WriteCarries ==
  ASSUME TypeOK, NEW n \in Node, NEW p \in Node, NEW f \in Frame, Write(n, p, f)
  PROVE  /\ Carries(n, p)' \subseteq Carries(n, p) \cup {f}
         /\ \A m, q \in Node : <<m, q>> # <<n, p>> => Carries(m, q)' = Carries(m, q)
<1> DEFINE s == chan[n][p]
<1>1. s \in Seq(Frame)
  BY DEF TypeOK, WireType
<1>2. chan'[n][p] = Append(s, f)
  BY DEF Write, TypeOK, WireType
<1>3. \A m, q \in Node : <<m, q>> # <<n, p>> => chan'[m][q] = chan[m][q]
  BY DEF Write, TypeOK, WireType
<1>4. \A i \in 1 .. Len(Append(s, f)) :
        \/ i \in 1 .. Len(s) /\ Append(s, f)[i] = s[i]
        \/ Append(s, f)[i] = f
  BY <1>1
<1>5. Carries(n, p)' \subseteq Carries(n, p) \cup {f}
  BY <1>2, <1>4 DEF Carries
<1>6. ASSUME NEW m \in Node, NEW q \in Node, <<m, q>> # <<n, p>>
      PROVE  Carries(m, q)' = Carries(m, q)
  <2>1. chan'[m][q] = chan[m][q]
    BY <1>3, <1>6
  <2>2. QED
    BY <2>1 DEF Carries
<1>7. QED
  BY <1>5, <1>6

(* Frames that were read or lost take nothing but themselves away. *)
LEMMA LossCarries ==
  ASSUME TypeOK, NEW n \in Node, NEW p \in Node,
         \/ chan'[n][p] = chan[n][p]
         \/ chan'[n][p] = <<>>
         \/ chan[n][p] # <<>> /\ chan'[n][p] = Tail(chan[n][p])
         \/ \E k \in 0 .. Len(chan[n][p]) : chan'[n][p] = SubSeq(chan[n][p], 1, k)
  PROVE  Carries(n, p)' \subseteq Carries(n, p)
<1> DEFINE s == chan[n][p]
<1>1. s \in Seq(Frame)
  BY DEF TypeOK, WireType
<1>2. SUFFICES ASSUME NEW i \in 1 .. Len(chan'[n][p])
               PROVE  \E j \in 1 .. Len(s) : s[j] = chan'[n][p][i]
  BY DEF Carries
<1>3. CASE chan'[n][p] = s
  BY <1>2, <1>3
<1>4. CASE chan'[n][p] = <<>>
  BY <1>2, <1>4
<1>5. CASE s # <<>> /\ chan'[n][p] = Tail(s)
  <2>1. i + 1 \in 1 .. Len(s) /\ s[i + 1] = Tail(s)[i]
    BY <1>1, <1>2, <1>5
  <2>2. QED
    BY <1>5, <2>1
<1>6. ASSUME NEW k \in 0 .. Len(s), chan'[n][p] = SubSeq(s, 1, k)
      PROVE  \E j \in 1 .. Len(s) : s[j] = chan'[n][p][i]
  <2>1. i \in 1 .. Len(s) /\ s[i] = SubSeq(s, 1, k)[i]
    BY <1>1, <1>2, <1>6
  <2>2. QED
    BY <1>6, <2>1
<1>7. QED
  BY <1>3, <1>4, <1>5, <1>6

LEMMA ReadsCarried ==
  ASSUME TypeOK, NEW n \in Node, NEW p \in Node, NEW f, Reads(n, p, f)
  PROVE  f \in Carries(p, n)
<1>1. chan[p][n][1] = f /\ 1 \in 1 .. Len(chan[p][n])
  BY DEF Reads, TypeOK, WireType
<1>2. QED
  BY <1>1 DEF Carries

(* A frame is the Hello of a connection, a notice, or the message of a request. *)
Source(n, p, f) ==
  \/ f \in Carries(n, p)
  \/ f = conn[n][p]
  \/ f = "untrusted" /\ notices[n][p] > 0
  \/ /\ api[n].pc \in {"sendTrusted", "sendUntrusted", "sendCancelled"}
     /\ api[n].peer = p /\ f = FrameOf(api[n].pc)

LEMMA FrameSource ==
  ASSUME TypeOK, [Next]_vars
  PROVE  \A n, p \in Node : \A f \in Carries(n, p)' : Source(n, p, f)
<1> USE DEF Source
<1> DEFINE Sourced == \A n, p \in Node : \A f \in Carries(n, p)' : Source(n, p, f)
<1>1. CASE UNCHANGED chan
  BY <1>1 DEF Carries
<1>2. ASSUME NEW n \in Node, UserRequest(n) \/ PipelineStep(n) PROVE UNCHANGED chan
  BY <1>2 DEF UserRequest, Pair, Unpair, DismissIncoming, PipelineStep,
     PipelineRead, PipelineReconcile, wire
<1>3. ASSUME NEW n \in Node, ApiStep(n) PROVE Sourced
  <2>1. CASE ApiSend(n)
    <3>1. api[n].peer \in Node
      BY DEF TypeOK, ThreadType
    <3>2. FrameOf(api[n].pc) \in Frame
      BY <2>1 DEF ApiSend, FrameOf, Frame, Greeting
    <3>3. Write(n, api[n].peer, FrameOf(api[n].pc))
      BY <2>1 DEF ApiSend
    <3>4. QED
      BY <2>1, <3>1, <3>2, <3>3, WriteCarries DEF ApiSend
  <2>2. QED
    BY <1>1, <1>3, <2>1 DEF ApiStep, PairAdd, PairTrust, PairHello,
       UnpairRemove, UnpairUntrust, ApiGiveUp, wire
<1>4. ASSUME NEW n \in Node, LifeCycle(n) PROVE Sourced
  <2>1. CASE CutOff(n)
    BY <2>1, LossCarries DEF CutOff
  <2>2. QED
    BY <1>1, <1>4, <2>1 DEF LifeCycle, Stop, Boot, Foreground, Background, wire
<1>5. ASSUME NEW n \in Node, NEW p \in Node, ReaderStep(n, p) PROVE Sourced
  <2>1. ASSUME NEW f, Reads(n, p, f) PROVE Sourced
    <3>1. /\ chan[p][n] # <<>> /\ chan'[p][n] = Tail(chan[p][n])
          /\ \A m, q \in Node : <<m, q>> # <<p, n>> => chan'[m][q] = chan[m][q]
      BY <2>1 DEF Reads, TypeOK, WireType
    <3>2. QED
      BY <3>1, LossCarries
  <2>2. QED
    BY <1>1, <1>5, <2>1 DEF ReaderStep, ReceivePlain, ReceiveTrusted,
       ReceiveUntrusted, ReceiveCancelled, CascadeRemove, CascadeUntrust, wire
<1>6. ASSUME NEW n \in Node, NEW p \in Node, NoticeStep(n, p) PROVE Sourced
  <2>1. CASE NoticeSend(n, p)
    BY <2>1, WriteCarries DEF NoticeSend, Frame, Greeting
  <2>2. QED
    BY <1>1, <1>6, <2>1 DEF NoticeStep, NoticeGiveUp, wire
<1>7. ASSUME NEW n \in Node, NEW p \in Node, ConnStep(n, p) PROVE Sourced
  <2>1. CASE Greet(n, p)
    <3>1. conn[n][p] \in Frame /\ Write(n, p, conn[n][p])
      BY <2>1 DEF Greet, Frame
    <3>2. QED
      BY <3>1, WriteCarries
  <2>2. QED
    BY <1>1, <1>7, <2>1 DEF ConnStep, Connect, Dial
<1>8. ASSUME NEW n \in Node, NEW p \in Node, Drop(n, p) PROVE Sourced
  <2>1. PICK k \in 0 .. Len(chan[n][p]) :
          chan' = [chan EXCEPT ![n][p] = SubSeq(@, 1, k)]
    BY <1>8 DEF Drop
  <2>2. chan'[n][p] = SubSeq(chan[n][p], 1, k)
    BY <2>1 DEF TypeOK, WireType
  <2>3. \A m, q \in Node : <<m, q>> # <<n, p>> => chan'[m][q] = chan[m][q]
    BY <2>1 DEF TypeOK, WireType
  <2>4. QED
    BY <2>2, <2>3, LossCarries
<1>9. ASSUME NEW n \in Node, NEW p \in Node, StIntroduce(n, p) PROVE UNCHANGED chan
  BY <1>9 DEF StIntroduce, wire
<1>10. QED
  BY <1>1, <1>2, <1>3, <1>4, <1>5, <1>6, <1>7, <1>8, <1>9 DEF Next, vars, wire

LEMMA ChanConsentStep ==
  ASSUME TypeOK, ConsentInv, [Next]_vars
  PROVE  ChanConsent'
<1>1. SUFFICES ASSUME NEW n \in Node, NEW p \in Node, Source(n, p, "trusted")
               PROVE  MayTrust(n, p)
  BY ConsentStays, FrameSource DEF ChanConsent, MayTrust
<1>2. ASSUME api[n].pc \in {"sendTrusted", "sendUntrusted", "sendCancelled"},
             FrameOf(api[n].pc) = "trusted"
      PROVE  api[n].pc = "sendTrusted"
  BY <1>2 DEF FrameOf
<1>3. QED
  BY <1>1, <1>2 DEF Source, ConsentInv, ChanConsent, ConnConsent, RequestConsent

LEMMA MemoryConsentStep ==
  ASSUME TypeOK, ConsentInv, [Next]_vars
  PROVE  TrustNeedsConsent'
<1> USE DEF MayTrust
<1>0. asked \subseteq asked'
  BY ConsentStays
<1>1. CASE UNCHANGED <<trusted, theyTrustUs>>
  BY <1>0, <1>1 DEF ConsentInv, TrustNeedsConsent
<1>2. ASSUME \A n \in Node : trusted'[n] \subseteq trusted[n],
             \A n \in Node : theyTrustUs'[n] \subseteq theyTrustUs[n]
      PROVE  TrustNeedsConsent'
  BY <1>0, <1>2 DEF ConsentInv, TrustNeedsConsent
<1>3. ASSUME NEW n \in Node, NEW p \in Node, Untrust(n, p) \/ ForgetTheirTrust(n, p)
      PROVE  TrustNeedsConsent'
  BY <1>2, <1>3 DEF Untrust, ForgetTheirTrust, TypeOK, MemoryType
<1>4. ASSUME NEW n \in Node, UserRequest(n) PROVE TrustNeedsConsent'
  BY <1>1, <1>3, <1>4 DEF UserRequest, Pair, Unpair, DismissIncoming, memory
<1>5. ASSUME NEW n \in Node, ApiStep(n) PROVE TrustNeedsConsent'
  <2>1. api[n].peer \in Node
    BY DEF TypeOK, ThreadType
  <2>2. CASE PairTrust(n)
    <3>1. MayTrust(n, api[n].peer)
      BY <2>2 DEF PairTrust, At, ConsentInv, RequestConsent
    <3>2. /\ trusted' = [trusted EXCEPT ![n] = @ \cup {api[n].peer}]
          /\ UNCHANGED theyTrustUs
      BY <2>2 DEF PairTrust, Trust
    <3>3. QED
      BY <1>0, <3>1, <3>2 DEF ConsentInv, TrustNeedsConsent, TypeOK, MemoryType
  <2>3. QED
    BY <1>1, <1>3, <1>5, <2>1, <2>2
       DEF ApiStep, PairAdd, PairHello, UnpairRemove, UnpairUntrust, ApiSend,
           ApiGiveUp, memory
<1>6. ASSUME NEW n \in Node, PipelineStep(n) PROVE TrustNeedsConsent'
  <2>1. CASE PipelineReconcile(n)
    <3> DEFINE S == NewlyListed(n, pipe[n].seen)
    <3>1. \A p \in S \cap Node : MayTrust(n, p)
      BY DEF NewlyListed, ConsentInv, ListingConsent
    <3>2. /\ trusted' = [trusted EXCEPT ![n] = @ \cup S]
          /\ theyTrustUs' = [theyTrustUs EXCEPT ![n] = @ \cup (S \cap Introduced[n])]
      BY <2>1 DEF PipelineReconcile, ReconcileTrust
    <3> HIDE DEF S
    <3>3. QED
      BY <1>0, <3>1, <3>2 DEF ConsentInv, TrustNeedsConsent, TypeOK, MemoryType
  <2>2. QED
    BY <1>1, <1>6, <2>1 DEF PipelineStep, PipelineRead, memory
<1>7. ASSUME NEW n \in Node, LifeCycle(n) PROVE TrustNeedsConsent'
  <2>1. CASE Stop(n)
    BY <1>2, <2>1 DEF Stop, TypeOK, MemoryType
  <2>2. CASE Boot(n)
    <3>1. /\ \/ trusted' = [trusted EXCEPT ![n] = stDevices[n] \ {n}]
             \/ UNCHANGED trusted
          /\ UNCHANGED theyTrustUs
      BY <2>2 DEF Boot
    <3>2. \A p \in Node : p \in stDevices[n] \ {n} => MayTrust(n, p)
      BY DEF ConsentInv, ListingConsent
    <3>3. QED
      BY <1>0, <3>1, <3>2 DEF ConsentInv, TrustNeedsConsent, TypeOK, MemoryType
  <2>3. QED
    BY <1>1, <1>7, <2>1, <2>2 DEF LifeCycle, Foreground, Background, memory
<1>8. ASSUME NEW n \in Node, NEW p \in Node, ReaderStep(n, p) PROVE TrustNeedsConsent'
  <2>1. CASE ReceiveTrusted(n, p)
    <3>1. /\ theyTrustUs' = [theyTrustUs EXCEPT ![n] = @ \cup {p}]
          /\ UNCHANGED trusted
      BY <2>1 DEF ReceiveTrusted
    <3>2. Reads(n, p, "trusted")
      BY <2>1 DEF ReceiveTrusted
    <3>3. MayTrust(p, n)
      BY <3>2, ReadsCarried DEF ConsentInv, ChanConsent
    <3>4. QED
      BY <1>0, <3>1, <3>3 DEF ConsentInv, TrustNeedsConsent, TypeOK, MemoryType
  <2>2. CASE ReceiveUntrusted(n, p) \/ ReceiveCancelled(n, p) \/ CascadeUntrust(n, p)
    BY <1>1, <1>3, <2>2 DEF ReceiveUntrusted, ReceiveCancelled, CascadeUntrust, memory
  <2>3. QED
    BY <1>1, <1>8, <2>1, <2>2 DEF ReaderStep, ReceivePlain, CascadeRemove, memory
<1>9. ASSUME NEW n \in Node, NEW p \in Node,
             NoticeStep(n, p) \/ ConnStep(n, p) \/ Drop(n, p) \/ StIntroduce(n, p)
      PROVE  UNCHANGED <<trusted, theyTrustUs>>
  BY <1>9 DEF NoticeStep, NoticeSend, NoticeGiveUp, ConnStep, Connect, Dial,
              Greet, Drop, StIntroduce, memory
<1>10. QED
  BY <1>1, <1>4, <1>5, <1>6, <1>7, <1>8, <1>9 DEF Next, vars, memory

LEMMA ConsentInit == Init => ConsentInv
<1> SUFFICES ASSUME Init PROVE ConsentInv
  OBVIOUS
<1> USE DEF Init
<1>1. ListingConsent
  BY DEF ListingConsent, NoPipe
<1>2. TrustNeedsConsent
  BY DEF TrustNeedsConsent
<1>3. RequestConsent
  BY DEF RequestConsent, NoApi
<1>4. ConnConsent
  BY DEF ConnConsent
<1>5. ChanConsent
  BY DEF ChanConsent, Carries
<1>6. QED
  BY <1>1, <1>2, <1>3, <1>4, <1>5 DEF ConsentInv

(* A node trusts a device, or takes it for one that trusts it, only if a user or
   an Introducer said so: no frame, restart, failed call or reconciliation with
   an old listing makes trust out of nothing.                                 *)
THEOREM TrustIsConsented == Spec => []TrustNeedsConsent
<1>1. TypeOK /\ ConsentInv /\ [Next]_vars => ConsentInv'
  BY ListingConsentStep, MemoryConsentStep, RequestConsentStep, ConnConsentStep,
     ChanConsentStep DEF ConsentInv
<1>2. ConsentInv => TrustNeedsConsent
  BY DEF ConsentInv
<1>3. QED
  BY <1>1, <1>2, ConsentInit, TypeCorrect, PTL DEF Spec

-----------------------------------------------------------------------------
(***************************************************************************)
(* Unpairing.  Whatever can end a trust follows the request of one of the  *)
(* two users: a removal in memory, a request of the user of n, a reader    *)
(* that cascades a removal, a notice, a Hello and every frame on its way.  *)
(***************************************************************************)
MemoryOut ==
  \A n \in Node : /\ \A p \in Node : p \in removed[n] => FellOut(n, p)
                  /\ ~Up(n) => trusted[n] = {}

RequestOut ==
  \A n \in Node :
    /\ api[n].pc \in {"unpairRemove", "unpairUntrust", "sendCancelled", "sendUntrusted"}
         => FellOut(n, api[n].peer)
    /\ At(n, "pairHello") => api[n].peer \in trusted[n] \/ FellOut(n, api[n].peer)

ReaderOut == \A n, p \in Node : rx[n][p] # "idle" => FellOut(n, p)

NoticeOut == \A n, p \in Node : notices[n][p] > 0 => FellOut(n, p)

ConnOut == \A n, p \in Node : conn[n][p] = "untrusted" => FellOut(n, p)

ChanOut ==
  \A n, p \in Node : {"untrusted", "cancelled"} \cap Carries(n, p) # {} => FellOut(n, p)

OutInv == MemoryOut /\ RequestOut /\ ReaderOut /\ NoticeOut /\ ConnOut /\ ChanOut

(* What a user has withdrawn stays withdrawn. *)
LEMMA FellOutStays ==
  ASSUME [Next]_vars
  PROVE  \A n, p \in Node : FellOut(n, p) => FellOut(n, p)'
<1>1. withdrew \subseteq withdrew'
  BY DEF Next, vars, UserRequest, Pair, Unpair, DismissIncoming, ApiStep, PairAdd,
     PairTrust, PairHello, UnpairRemove, UnpairUntrust, ApiSend, ApiGiveUp, PipelineStep,
     PipelineRead, PipelineReconcile, LifeCycle, Stop, Boot, Foreground, Background,
     ReaderStep, ReceivePlain, ReceiveTrusted, ReceiveUntrusted, ReceiveCancelled,
     CascadeRemove, CascadeUntrust, NoticeStep, NoticeSend, NoticeGiveUp, ConnStep,
     Connect, Dial, Greet, Drop, StIntroduce
<1>2. QED
  BY <1>1 DEF FellOut

LEMMA MemoryOutStep ==
  ASSUME TypeOK, DownIsIdle, OutInv, [Next]_vars
  PROVE  MemoryOut'
<1>0. \A n, p \in Node : FellOut(n, p) => FellOut(n, p)'
  BY FellOutStays
<1> HIDE DEF FellOut
<1>1. CASE UNCHANGED <<mode, trusted, removed>>
  BY <1>0, <1>1 DEF OutInv, MemoryOut, TypeOK, MemoryType, Up
<1>2. ASSUME NEW n \in Node, Up(n), UNCHANGED mode,
             \A m \in Node \ {n} : trusted'[m] = trusted[m] /\ removed'[m] = removed[m],
             \A p \in Node : p \in removed'[n] => p \in removed[n] \/ FellOut(n, p)
      PROVE  MemoryOut'
  BY <1>0, <1>2 DEF OutInv, MemoryOut, TypeOK, MemoryType, Up
<1>3. ASSUME NEW n \in Node, UserRequest(n) PROVE MemoryOut'
  BY <1>1, <1>3 DEF UserRequest, Pair, Unpair, DismissIncoming, ForgetTheirTrust, memory
<1>4. ASSUME NEW n \in Node, ApiStep(n) PROVE MemoryOut'
  <2>1. Up(n)
    BY <1>4 DEF DownIsIdle, At, ApiStep, PairAdd, PairTrust, PairHello, UnpairRemove,
                UnpairUntrust, ApiSend, ApiGiveUp
  <2>2. api[n].peer \in Node
    BY DEF TypeOK, ThreadType
  <2>3. CASE PairTrust(n)
    BY <1>2, <2>1, <2>2, <2>3 DEF PairTrust, Trust, TypeOK, MemoryType
  <2>4. CASE UnpairUntrust(n)
    <3>1. FellOut(n, api[n].peer)
      BY <2>4 DEF UnpairUntrust, At, OutInv, RequestOut
    <3>2. QED
      BY <1>2, <2>1, <2>2, <2>4, <3>1 DEF UnpairUntrust, Untrust, TypeOK, MemoryType
  <2>5. QED
    BY <1>1, <1>4, <2>3, <2>4
       DEF ApiStep, PairAdd, PairHello, UnpairRemove, ApiSend, ApiGiveUp, memory
<1>5. ASSUME NEW n \in Node, PipelineStep(n) PROVE MemoryOut'
  <2>1. CASE PipelineReconcile(n)
    <3>1. Up(n)
      BY <2>1 DEF DownIsIdle, PipelineReconcile
    <3>2. /\ \A m \in Node \ {n} : trusted'[m] = trusted[m]
          /\ UNCHANGED <<mode, removed>>
      BY <2>1 DEF PipelineReconcile, ReconcileTrust, TypeOK, MemoryType
    <3>3. QED
      BY <1>2, <3>1, <3>2
  <2>2. QED
    BY <1>1, <1>5, <2>1 DEF PipelineStep, PipelineRead, memory
<1>6. ASSUME NEW n \in Node, LifeCycle(n) PROVE MemoryOut'
  <2>1. CASE Stop(n)
    BY <1>0, <2>1 DEF Stop, OutInv, MemoryOut, TypeOK, MemoryType, LifeType, Up
  <2>2. CASE Boot(n)
    <3>1. mode'[n] # "down" /\ UNCHANGED removed
      BY <2>2 DEF Boot, TypeOK, LifeType
    <3>2. \A m \in Node \ {n} : mode'[m] = mode[m] /\ trusted'[m] = trusted[m]
      BY <2>2 DEF Boot, TypeOK, LifeType, MemoryType
    <3>3. QED
      BY <1>0, <3>1, <3>2 DEF OutInv, MemoryOut, Up, TypeOK, MemoryType
  <2>3. CASE Foreground(n) \/ Background(n)
    <3>1. \A m \in Node : ~Up(m)' => ~Up(m)
      BY <2>3 DEF Foreground, Background, Up, TypeOK, LifeType
    <3>2. UNCHANGED <<trusted, removed>>
      BY <2>3 DEF Foreground, Background, memory
    <3>3. QED
      BY <1>0, <3>1, <3>2 DEF OutInv, MemoryOut, TypeOK, MemoryType
  <2>4. QED
    BY <1>6, <2>1, <2>2, <2>3 DEF LifeCycle
<1>7. ASSUME NEW n \in Node, NEW p \in Node, ReaderStep(n, p) PROVE MemoryOut'
  <2>1. CASE CascadeUntrust(n, p)
    <3>1. Up(n) /\ FellOut(n, p)
      BY <2>1 DEF CascadeUntrust, DownIsIdle, OutInv, ReaderOut
    <3>2. QED
      BY <1>2, <2>1, <3>1 DEF CascadeUntrust, Untrust, TypeOK, MemoryType
  <2>2. QED
    BY <1>1, <1>7, <2>1 DEF ReaderStep, ReceivePlain, ReceiveTrusted, ReceiveUntrusted,
       ReceiveCancelled, ForgetTheirTrust, CascadeRemove, memory
<1>8. ASSUME NEW n \in Node, NEW p \in Node,
             NoticeStep(n, p) \/ ConnStep(n, p) \/ Drop(n, p) \/ StIntroduce(n, p)
      PROVE  MemoryOut'
  BY <1>1, <1>8 DEF NoticeStep, NoticeSend, NoticeGiveUp, ConnStep, Connect, Dial,
                    Greet, Drop, StIntroduce, memory
<1>9. QED
  BY <1>1, <1>3, <1>4, <1>5, <1>6, <1>7, <1>8 DEF Next, vars, memory

(* Who leaves the trusted set, and why: this is the action property, and what the
   Hello of a request to pair rests on.                                          *)
LEMMA LeavesTrust ==
  ASSUME TypeOK, DownIsIdle, OutInv, [Next]_vars,
         NEW n \in Node, NEW p \in Node, p \in trusted[n], p \notin trusted'[n]
  PROVE  FellOut(n, p) \/ Stop(n)
<1>1. trusted' # trusted
  OBVIOUS
<1>2. ASSUME NEW m \in Node, UserRequest(m) PROVE FALSE
  BY <1>1, <1>2 DEF UserRequest, Pair, Unpair, DismissIncoming, ForgetTheirTrust, memory
<1>3. ASSUME NEW m \in Node, ApiStep(m) PROVE FellOut(n, p)
  <2>1. api[m].peer \in Node
    BY DEF TypeOK, ThreadType
  <2>2. CASE PairTrust(m)
    BY <2>2 DEF PairTrust, Trust, TypeOK, MemoryType
  <2>3. CASE UnpairUntrust(m)
    <3>1. m = n /\ p = api[n].peer
      BY <2>1, <2>3 DEF UnpairUntrust, Untrust, TypeOK, MemoryType
    <3>2. QED
      BY <2>3, <3>1 DEF UnpairUntrust, At, OutInv, RequestOut
  <2>4. QED
    BY <1>1, <1>3, <2>2, <2>3
       DEF ApiStep, PairAdd, PairHello, UnpairRemove, ApiSend, ApiGiveUp, memory
<1>4. ASSUME NEW m \in Node, PipelineStep(m) PROVE FALSE
  BY <1>1, <1>4 DEF PipelineStep, PipelineRead, PipelineReconcile, ReconcileTrust, memory,
                    TypeOK, MemoryType
<1>5. ASSUME NEW m \in Node, LifeCycle(m) PROVE Stop(n)
  <2>1. CASE Boot(m)
    <3>1. ~Up(m) /\ \A k \in Node \ {m} : trusted'[k] = trusted[k]
      BY <2>1 DEF Boot, Up, TypeOK, MemoryType
    <3>2. QED
      BY <3>1 DEF OutInv, MemoryOut
  <2>2. CASE Stop(m)
    <3>1. m = n
      BY <2>2 DEF Stop, TypeOK, MemoryType
    <3>2. QED
      BY <2>2, <3>1
  <2>3. QED
    BY <1>1, <1>5, <2>1, <2>2 DEF LifeCycle, Foreground, Background, memory
<1>6. ASSUME NEW m \in Node, NEW q \in Node, ReaderStep(m, q) PROVE FellOut(n, p)
  <2>1. CASE CascadeUntrust(m, q)
    <3>1. m = n /\ p = q
      BY <2>1 DEF CascadeUntrust, Untrust, TypeOK, MemoryType
    <3>2. QED
      BY <2>1, <3>1 DEF CascadeUntrust, OutInv, ReaderOut
  <2>2. QED
    BY <1>1, <1>6, <2>1 DEF ReaderStep, ReceivePlain, ReceiveTrusted, ReceiveUntrusted,
       ReceiveCancelled, ForgetTheirTrust, CascadeRemove, memory
<1>7. ASSUME NEW m \in Node, NEW q \in Node,
             NoticeStep(m, q) \/ ConnStep(m, q) \/ Drop(m, q) \/ StIntroduce(m, q)
      PROVE  FALSE
  BY <1>1, <1>7 DEF NoticeStep, NoticeSend, NoticeGiveUp, ConnStep, Connect, Dial,
                    Greet, Drop, StIntroduce, memory
<1>8. QED
  BY <1>1, <1>2, <1>3, <1>4, <1>5, <1>6, <1>7 DEF Next, vars, memory

LEMMA RequestOutStep ==
  ASSUME TypeOK, DownIsIdle, OutInv, [Next]_vars
  PROVE  RequestOut'
<1> DEFINE OutPc == {"unpairRemove", "unpairUntrust", "sendCancelled", "sendUntrusted"}
<1>0. \A n, p \in Node : FellOut(n, p) => FellOut(n, p)'
  BY FellOutStays
<1>1. \A n \in Node : api[n] \in [pc : ApiPc, peer : Node]
  BY DEF TypeOK, ThreadType
<1>2. ASSUME NEW n \in Node,
             \/ api'[n] = api[n]
             \/ api'[n].pc \notin OutPc \cup {"pairHello"}
             \/ api'[n].pc \in OutPc /\ api'[n].peer \in Node /\ FellOut(n, api[n].peer)'
      PROVE  /\ api'[n].pc \in OutPc => FellOut(n, api[n].peer)'
             /\ At(n, "pairHello")' => api'[n].peer \in trusted'[n] \/ FellOut(n, api[n].peer)'
  <2>1. CASE api'[n] = api[n]
    <3>1. ASSUME At(n, "pairHello") PROVE api[n].peer \in trusted'[n] \/ FellOut(n, api[n].peer)
      <4>1. CASE Stop(n)
        BY <2>1, <3>1, <4>1 DEF Stop, NoApi, At, TypeOK, ThreadType
      <4>2. CASE ~Stop(n)
        BY <1>1, <3>1, <4>2, LeavesTrust DEF OutInv, RequestOut
      <4>3. QED
        BY <4>1, <4>2
    <3>2. QED
      BY <1>0, <1>1, <2>1, <3>1 DEF OutInv, RequestOut, At
  <2>2. CASE api'[n].pc \notin OutPc \cup {"pairHello"}
    BY <2>2 DEF At
  <2>3. CASE api'[n].pc \in OutPc /\ FellOut(n, api[n].peer)'
    BY <2>3 DEF At
  <2>4. QED
    BY <1>2, <2>1, <2>2, <2>3
<1>3. ASSUME NEW n \in Node, NEW m \in Node, api'[n] # api[n], UserRequest(m)
      PROVE  \/ api'[n].pc \notin OutPc \cup {"pairHello"}
             \/ /\ api'[n].pc \in OutPc /\ api'[n].peer \in Node
                /\ FellOut(n, api[n].peer)'
  <2>1. ASSUME NEW p \in Node, Pair(m, p) PROVE api'[n].pc = "pairAdd"
    BY <1>3, <2>1 DEF Pair, TypeOK, ThreadType
  <2>2. ASSUME NEW p \in Node, Unpair(m, p)
        PROVE  api'[n].pc = "unpairRemove" /\ api'[n].peer = p /\ FellOut(n, p)'
    BY <1>3, <2>2 DEF Unpair, TypeOK, ThreadType, FellOut
  <2>3. ASSUME NEW p \in Node, DismissIncoming(m, p) PROVE FALSE
    BY <1>3, <2>3 DEF DismissIncoming
  <2>4. QED
    BY <1>3, <2>1, <2>2, <2>3 DEF UserRequest
<1>4. ASSUME NEW n \in Node, ApiStep(n) PROVE RequestOut'
  <2>1. \A m \in Node \ {n} : api'[m] = api[m]
    BY <1>4 DEF TypeOK, ThreadType, ApiStep, PairAdd, PairTrust, PairHello, UnpairRemove,
                UnpairUntrust, ApiSend, ApiGiveUp, Goto, Answer
  <2>2. api[n].peer \in Node
    BY <1>1
  <2>3. \/ api'[n].pc \notin OutPc \cup {"pairHello"}
        \/ api'[n].pc \in OutPc /\ api'[n].peer \in Node /\ FellOut(n, api[n].peer)'
        \/ api'[n].pc = "pairHello" /\ api'[n].peer \in trusted'[n]
    <3>1. ASSUME NEW pc \in ApiPc, Goto(n, pc)
          PROVE  api'[n].pc = pc /\ api'[n].peer = api[n].peer
      BY <1>1, <3>1 DEF Goto, TypeOK, ThreadType
    <3>2. CASE PairAdd(n)
      BY <3>1, <3>2 DEF PairAdd, ApiPc
    <3>3. CASE PairTrust(n)
      <4>1. api'[n].pc = "pairHello" /\ api'[n].peer = api[n].peer
        BY <3>1, <3>3 DEF PairTrust, ApiPc
      <4>2. QED
        BY <2>2, <3>3, <4>1 DEF PairTrust, Trust, TypeOK, MemoryType
    <3>4. CASE PairHello(n)
      <4>1. CASE api[n].peer \in trusted[n]
        BY <3>1, <3>4, <4>1 DEF PairHello, ApiPc
      <4>2. CASE api[n].peer \notin trusted[n]
        <5>1. FellOut(n, api[n].peer)
          BY <3>4, <4>2 DEF PairHello, OutInv, RequestOut
        <5>2. api'[n].pc = "sendUntrusted" /\ api'[n].peer = api[n].peer
          BY <3>1, <3>4, <4>2 DEF PairHello, ApiPc
        <5>3. QED
          BY <1>0, <2>2, <5>1, <5>2
      <4>3. QED
        BY <4>1, <4>2
    <3>5. CASE UnpairRemove(n) \/ UnpairUntrust(n)
      <4>1. FellOut(n, api[n].peer)
        BY <3>5 DEF UnpairRemove, UnpairUntrust, At, OutInv, RequestOut
      <4>2. api'[n].pc \in OutPc /\ api'[n].peer = api[n].peer
        BY <3>1, <3>5 DEF UnpairRemove, UnpairUntrust, ApiPc
      <4>3. QED
        BY <1>0, <2>2, <4>1, <4>2
    <3>6. CASE ApiSend(n) \/ ApiGiveUp(n)
      BY <3>6 DEF ApiSend, ApiGiveUp, Answer, NoApi, TypeOK, ThreadType
    <3>7. QED
      BY <1>4, <3>2, <3>3, <3>4, <3>5, <3>6 DEF ApiStep
  <2>4. QED
    BY <1>2, <2>1, <2>3 DEF RequestOut, At
<1>5. ASSUME NEW n \in Node, NEW m \in Node, api'[n] # api[n], LifeCycle(m)
      PROVE  api'[n].pc = "idle"
  BY <1>5 DEF LifeCycle, Stop, Boot, Foreground, Background, NoApi, TypeOK, ThreadType
<1>6. ASSUME NEW n \in Node, PipelineStep(n) PROVE UNCHANGED api
  BY <1>6 DEF PipelineStep, PipelineRead, PipelineReconcile
<1>7. ASSUME NEW n \in Node, NEW p \in Node,
             \/ ReaderStep(n, p) \/ NoticeStep(n, p) \/ ConnStep(n, p)
             \/ Drop(n, p) \/ StIntroduce(n, p)
      PROVE  UNCHANGED api
  BY <1>7 DEF ReaderStep, ReceivePlain, ReceiveTrusted, ReceiveUntrusted,
     ReceiveCancelled, CascadeRemove, CascadeUntrust, NoticeStep, NoticeSend,
     NoticeGiveUp, ConnStep, Connect, Dial, Greet, Drop, StIntroduce
<1>8. ASSUME UNCHANGED api \/ \E n \in Node : UserRequest(n) \/ LifeCycle(n)
      PROVE  RequestOut'
  BY <1>2, <1>3, <1>5, <1>8 DEF RequestOut, At
<1>9. QED
  BY <1>4, <1>6, <1>7, <1>8 DEF Next, vars

LEMMA ReaderOutStep ==
  ASSUME TypeOK, OutInv, [Next]_vars
  PROVE  ReaderOut'
<1>0. \A n, p \in Node : FellOut(n, p) => FellOut(n, p)'
  BY FellOutStays
<1>1. CASE UNCHANGED rx
  BY <1>0, <1>1 DEF OutInv, ReaderOut
<1>2. ASSUME NEW n \in Node,
             UserRequest(n) \/ ApiStep(n) \/ PipelineStep(n)
      PROVE  UNCHANGED rx
  BY <1>2 DEF UserRequest, Pair, Unpair, DismissIncoming, ApiStep, PairAdd, PairTrust,
     PairHello, UnpairRemove, UnpairUntrust, ApiSend, ApiGiveUp, PipelineStep,
     PipelineRead, PipelineReconcile
<1>3. ASSUME NEW n \in Node, LifeCycle(n) PROVE ReaderOut'
  <2>1. CASE Stop(n)
    <3>1. \A m, p \in Node : rx'[m][p] = rx[m][p] \/ rx'[m][p] = "idle"
      BY <2>1 DEF Stop, NoReader, TypeOK, ThreadType
    <3>2. QED
      BY <1>0, <3>1 DEF OutInv, ReaderOut
  <2>2. QED
    BY <1>1, <1>3, <2>1 DEF LifeCycle, Boot, Foreground, Background
<1>4. ASSUME NEW n \in Node, NEW p \in Node, ReaderStep(n, p) PROVE ReaderOut'
  <2>1. ASSUME NEW pc, rx' = [rx EXCEPT ![n][p] = pc], FellOut(n, p) PROVE ReaderOut'
    <3>1. \A m, q \in Node : rx'[m][q] = rx[m][q] \/ (m = n /\ q = p)
      BY <2>1 DEF TypeOK, ThreadType
    <3>2. QED
      BY <1>0, <2>1, <3>1 DEF OutInv, ReaderOut
  <2>2. CASE ReceiveUntrusted(n, p) \/ ReceiveCancelled(n, p)
    <3>1. "untrusted" \in Carries(p, n) \/ "cancelled" \in Carries(p, n)
      BY <2>2, ReadsCarried DEF ReceiveUntrusted, ReceiveCancelled
    <3>2. FellOut(n, p)
      BY <3>1 DEF OutInv, ChanOut, FellOut
    <3>3. QED
      BY <1>1, <2>1, <2>2, <3>2 DEF ReceiveUntrusted, ReceiveCancelled
  <2>3. CASE CascadeRemove(n, p) \/ CascadeUntrust(n, p)
    <3>1. FellOut(n, p)
      BY <2>3 DEF CascadeRemove, CascadeUntrust, OutInv, ReaderOut
    <3>2. QED
      BY <2>1, <2>3, <3>1 DEF CascadeRemove, CascadeUntrust
  <2>4. QED
    BY <1>1, <1>4, <2>2, <2>3 DEF ReaderStep, ReceivePlain, ReceiveTrusted
<1>5. ASSUME NEW n \in Node, NEW p \in Node,
             NoticeStep(n, p) \/ ConnStep(n, p) \/ Drop(n, p) \/ StIntroduce(n, p)
      PROVE  UNCHANGED rx
  BY <1>5 DEF NoticeStep, NoticeSend, NoticeGiveUp, ConnStep, Connect, Dial, Greet, Drop,
     StIntroduce
<1>6. QED
  BY <1>1, <1>2, <1>3, <1>4, <1>5 DEF Next, vars

LEMMA NoticeOutStep ==
  ASSUME TypeOK, OutInv, [Next]_vars
  PROVE  NoticeOut'
<1>0. \A n, p \in Node : FellOut(n, p) => FellOut(n, p)'
  BY FellOutStays
<1>1. CASE \A n, p \in Node : notices'[n][p] > 0 => notices[n][p] > 0
  BY <1>0, <1>1 DEF OutInv, NoticeOut
<1>2. CASE UNCHANGED notices
  BY <1>1, <1>2
<1>3. ASSUME NEW n \in Node, NEW p \in Node, Notify(n, p), FellOut(n, p) PROVE NoticeOut'
  <2>1. \A m, q \in Node : notices'[m][q] = notices[m][q] \/ (m = n /\ q = p)
    BY <1>3 DEF Notify, TypeOK, WireType
  <2>2. QED
    BY <1>0, <1>3, <2>1 DEF OutInv, NoticeOut
<1>4. ASSUME NEW n \in Node, UserRequest(n) \/ PipelineStep(n) PROVE UNCHANGED notices
  BY <1>4 DEF UserRequest, Pair, Unpair, DismissIncoming, PipelineStep, PipelineRead,
     PipelineReconcile
<1>5. ASSUME NEW n \in Node, ApiStep(n) PROVE NoticeOut'
  <2>1. CASE UnpairUntrust(n)
    <3>1. api[n].peer \in Node
      BY DEF TypeOK, ThreadType
    <3>2. FellOut(n, api[n].peer)
      BY <2>1 DEF UnpairUntrust, At, OutInv, RequestOut
    <3>3. QED
      BY <1>3, <2>1, <3>1, <3>2 DEF UnpairUntrust
  <2>2. QED
    BY <1>2, <1>5, <2>1
       DEF ApiStep, PairAdd, PairTrust, PairHello, UnpairRemove, ApiSend, ApiGiveUp
<1>6. ASSUME NEW n \in Node, LifeCycle(n) PROVE NoticeOut'
  <2>1. CASE Stop(n)
    BY <1>1, <2>1 DEF Stop, TypeOK, WireType
  <2>2. QED
    BY <1>2, <1>6, <2>1 DEF LifeCycle, Boot, Foreground, Background
<1>7. ASSUME NEW n \in Node, NEW p \in Node, ReaderStep(n, p) PROVE NoticeOut'
  <2>1. CASE ReceiveTrusted(n, p)
    <3>1. p \in removed[n] => FellOut(n, p)
      BY DEF OutInv, MemoryOut
    <3>2. QED
      BY <1>2, <1>3, <2>1, <3>1 DEF ReceiveTrusted
  <2>2. CASE CascadeUntrust(n, p)
    <3>1. FellOut(n, p)
      BY <2>2 DEF CascadeUntrust, OutInv, ReaderOut
    <3>2. QED
      BY <1>3, <2>2, <3>1 DEF CascadeUntrust
  <2>3. QED
    BY <1>2, <1>7, <2>1, <2>2
       DEF ReaderStep, ReceivePlain, ReceiveUntrusted, ReceiveCancelled, CascadeRemove
<1>8. ASSUME NEW n \in Node, NEW p \in Node, NoticeStep(n, p) PROVE NoticeOut'
  <2>1. notices' = [notices EXCEPT ![n][p] = @ - 1]
    BY <1>8 DEF NoticeStep, NoticeSend, NoticeGiveUp
  <2>2. \A m, q \in Node : notices'[m][q] = notices[m][q]
                           \/ notices'[m][q] = notices[m][q] - 1
    BY <2>1 DEF TypeOK, WireType
  <2>3. \A m, q \in Node : notices[m][q] \in Nat
    BY DEF TypeOK, WireType
  <2>4. QED
    BY <1>1, <2>2, <2>3
<1>9. ASSUME NEW n \in Node, NEW p \in Node,
             ConnStep(n, p) \/ Drop(n, p) \/ StIntroduce(n, p)
      PROVE  UNCHANGED notices
  BY <1>9 DEF ConnStep, Connect, Dial, Greet, Drop, StIntroduce
<1>10. QED
  BY <1>2, <1>4, <1>5, <1>6, <1>7, <1>8, <1>9 DEF Next, vars

LEMMA ConnOutStep ==
  ASSUME TypeOK, OutInv, [Next]_vars
  PROVE  ConnOut'
<1>0. \A n, p \in Node : FellOut(n, p) => FellOut(n, p)'
  BY FellOutStays
<1>1. CASE \A n, p \in Node : conn'[n][p] = conn[n][p] \/ conn'[n][p] # "untrusted"
  BY <1>0, <1>1 DEF OutInv, ConnOut
<1>2. CASE UNCHANGED conn
  BY <1>1, <1>2
<1>3. ASSUME NEW n \in Node, UserRequest(n) \/ ApiStep(n) \/ PipelineStep(n)
      PROVE  UNCHANGED conn
  BY <1>3 DEF UserRequest, Pair, Unpair, DismissIncoming, ApiStep, PairAdd,
     PairTrust, PairHello, UnpairRemove, UnpairUntrust, ApiSend, ApiGiveUp,
     PipelineStep, PipelineRead, PipelineReconcile, wire
<1>4. ASSUME NEW n \in Node, LifeCycle(n) PROVE ConnOut'
  <2>1. CASE CutOff(n)
    BY <1>1, <2>1 DEF CutOff
  <2>2. QED
    BY <1>2, <1>4, <2>1 DEF LifeCycle, Stop, Boot, Foreground, Background, wire
<1>5. ASSUME NEW n \in Node, NEW p \in Node, ReaderStep(n, p) PROVE ConnOut'
  <2>1. CASE ConnectBack(n, p)
    BY <1>1, <2>1 DEF ConnectBack, TypeOK, WireType
  <2>2. QED
    BY <1>2, <1>5, <2>1 DEF ReaderStep, ReceivePlain, ReceiveTrusted,
       ReceiveUntrusted, ReceiveCancelled, CascadeRemove, CascadeUntrust, wire
<1>6. ASSUME NEW n \in Node, NEW p \in Node, ConnStep(n, p) \/ Drop(n, p) PROVE ConnOut'
  <2>1. CASE Dial(n, p)
    <3>1. conn' = [conn EXCEPT ![n][p] = Hello(n, p)]
      BY <2>1 DEF Dial
    <3>2. Hello(n, p) = "untrusted" => FellOut(n, p)
      BY DEF Hello, OutInv, MemoryOut
    <3>3. \A m, q \in Node : conn'[m][q] = conn[m][q]
                             \/ (m = n /\ q = p /\ conn'[m][q] = Hello(n, p))
      BY <3>1 DEF TypeOK, WireType
    <3>4. QED
      BY <1>0, <3>2, <3>3 DEF OutInv, ConnOut
  <2>2. CASE Connect(n, p) \/ Greet(n, p) \/ Drop(n, p)
    <3>1. PICK c \in {"dialing", "up"} : conn' = [conn EXCEPT ![n][p] = c]
      BY <2>2 DEF Connect, Greet, Drop
    <3>2. \A m, q \in Node : conn'[m][q] = conn[m][q] \/ conn'[m][q] = c
      BY <3>1 DEF TypeOK, WireType
    <3>3. QED
      BY <1>1, <3>2
  <2>3. QED
    BY <1>6, <2>1, <2>2 DEF ConnStep
<1>7. ASSUME NEW n \in Node, NEW p \in Node, NoticeStep(n, p) \/ StIntroduce(n, p)
      PROVE  UNCHANGED conn
  BY <1>7 DEF NoticeStep, NoticeSend, NoticeGiveUp, StIntroduce, wire
<1>8. QED
  BY <1>2, <1>3, <1>4, <1>5, <1>6, <1>7 DEF Next, vars, wire

LEMMA ChanOutStep ==
  ASSUME TypeOK, OutInv, [Next]_vars
  PROVE  ChanOut'
<1>1. SUFFICES ASSUME NEW n \in Node, NEW p \in Node,
                      NEW f \in {"untrusted", "cancelled"}, Source(n, p, f)
               PROVE  FellOut(n, p)
  BY FellOutStays, FrameSource DEF ChanOut
<1>2. CASE f \in Carries(n, p)
  BY <1>2 DEF OutInv, ChanOut
<1>3. CASE f = conn[n][p]
  <2>1. conn[n][p] # "cancelled"
    BY DEF TypeOK, WireType, ConnState, Greeting
  <2>2. QED
    BY <1>3, <2>1 DEF OutInv, ConnOut
<1>4. CASE notices[n][p] > 0
  BY <1>4 DEF OutInv, NoticeOut
<1>5. CASE /\ api[n].pc \in {"sendTrusted", "sendUntrusted", "sendCancelled"}
           /\ api[n].peer = p /\ f = FrameOf(api[n].pc)
  <2>1. api[n].pc # "sendTrusted"
    BY <1>5 DEF FrameOf
  <2>2. QED
    BY <1>5, <2>1 DEF OutInv, RequestOut
<1>6. QED
  BY <1>1, <1>2, <1>3, <1>4, <1>5 DEF Source

LEMMA OutInit == Init => OutInv
<1> SUFFICES ASSUME Init PROVE OutInv
  OBVIOUS
<1> USE DEF Init
<1>1. MemoryOut
  BY DEF MemoryOut
<1>2. RequestOut
  BY DEF RequestOut, NoApi, At
<1>3. ReaderOut
  BY DEF ReaderOut, NoReader
<1>4. NoticeOut /\ ConnOut
  BY DEF NoticeOut, ConnOut
<1>5. ChanOut
  BY DEF ChanOut, Carries
<1>6. QED
  BY <1>1, <1>2, <1>3, <1>4, <1>5 DEF OutInv

(* No connection, Hello or notice unpairs two devices by itself: who leaves the
   trusted set was removed by a user, or the node has stopped.                  *)
THEOREM UnpairingIsRequested == Spec => UnpairNeedsRequest
<1> DEFINE Requested ==
      \A n, p \in Node : (p \in trusted[n] /\ p \notin trusted'[n]) =>
                           FellOut(n, p) \/ mode'[n] = "down"
<1>1. TypeOK /\ DownIsIdle /\ OutInv /\ [Next]_vars => (DownIsIdle /\ OutInv)'
  BY DownIsIdleStep, MemoryOutStep, RequestOutStep, ReaderOutStep, NoticeOutStep,
     ConnOutStep, ChanOutStep DEF OutInv
<1>2. Init => DownIsIdle /\ OutInv
  BY OutInit DEF Init, DownIsIdle, Up
<1>3. TypeOK /\ DownIsIdle /\ OutInv /\ [Next]_vars => [Requested]_vars
  <2>1. SUFFICES ASSUME TypeOK, DownIsIdle, OutInv, [Next]_vars,
                        NEW n \in Node, NEW p \in Node, p \in trusted[n], p \notin trusted'[n]
                 PROVE  FellOut(n, p) \/ mode'[n] = "down"
    OBVIOUS
  <2>2. Stop(n) => mode'[n] = "down"
    BY <2>1 DEF Stop, TypeOK, LifeType
  <2>3. QED
    BY <2>1, <2>2, LeavesTrust
<1>4. QED
  BY <1>1, <1>2, <1>3, TypeCorrect, PTL DEF Spec, UnpairNeedsRequest
=============================================================================
