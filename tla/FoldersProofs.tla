--------------------------- MODULE FoldersProofs ---------------------------
(***************************************************************************)
(* Theorems about Folders, for any nodes and any bounds: type correctness; *)
(* a removal, a leave and a decline are forgotten by all who were told,    *)
(* in whatever order the notices arrive and beside whatever else is asked; *)
(* and nobody is left to list a node that knows nothing of it.             *)
(***************************************************************************)
EXTENDS Folders, TLAPS

USE DEF cluster, history

(* Whom a notice tells its receiver to drop. *)
Dropped(msg) == IF msg.type = "remove" THEN msg.target ELSE msg.from

(* Nobody offers a folder to itself. *)
ClusterType ==
  /\ devices \in [Node -> SUBSET Node] /\ \A n \in Node : devices[n] # {} => n \in devices[n]
  /\ offers \in [Node -> SUBSET Node]
  /\ pending \in [Node -> SUBSET Node]
  /\ \A n \in Node : n \notin offers[n] /\ n \notin pending[n]
  /\ wireAcc \in [Node -> SUBSET Node]
  /\ refresh \subseteq Node \X Node

BoundType == left \in [Kind -> Nat] /\ excused \in BOOLEAN

(* No notice asks a node to drop itself; a removed node, and one that has gone, is out. *)
WireType ==
  /\ wire \subseteq Message
  /\ \A msg \in wire :
       msg.type # "accept" =>
         /\ Dropped(msg) # msg.to
         /\ IF msg.type = "kick" THEN msg.to \in out ELSE Dropped(msg) \in out
  /\ forget \subseteq Node \X Node /\ \A r \in forget : r[1] # r[2]
  /\ out \subseteq Node

(* A call is never about its own node, unless that is to leave, and what is to be written
   has the node in it.                                                                   *)
WellFormed(n, c) ==
  /\ c.op \notin {"none", "leave", "edit"} => c.peer \in Node \ {n}
  /\ c.op = "accept" => n \notin c.others /\ c.rest \subseteq c.others
  /\ c.pc = "begin" => c.others = {}
  /\ c.pc = "write" /\ (c.op = "accept" => c.rest # {}) => n \in c.seen
  /\ c.op = "kicked" => n \in out
  /\ c.op = "drop" => c.peer \in out
  /\ c.pc = "leave" => c.op \in {"leave", "kicked"} /\ (n \in out \/ excused)

CallType ==
  /\ call \in [Node -> [Slot -> Call]]
  /\ \A n \in Node, s \in Slot : WellFormed(n, call[n][s])

TypeInv == ClusterType /\ BoundType /\ WireType /\ CallType

(* What a step of one call leaves alone. *)
OtherCalls(n, s) == \A m \in Node, t \in Slot : m # n \/ t # s => call'[m][t] = call[m][t]

LEMMA TypeParts == TypeInv => TypeOK
BY DEF TypeInv, TypeOK, ClusterType, BoundType, WireType, CallType

LEMMA SpendType ==
  ASSUME left \in [Kind -> Nat], NEW kind \in Kind, Spend(kind)
  PROVE  left' \in [Kind -> Nat]
BY DEF Spend

LEMMA FaultType ==
  ASSUME BoundType, Fault \/ NoFault
  PROVE  BoundType' /\ (excused => excused')
<1>1. CASE Fault
  BY <1>1, SpendType DEF Fault, Kind, BoundType
<1>2. CASE NoFault
  BY <1>2 DEF NoFault, BoundType
<1>3. QED
  BY <1>1, <1>2

LEMMA NoCallType == NoCall \in Call
BY DEF NoCall, Call, Pc

(* One call is replaced. *)
LEMMA CallSet ==
  ASSUME call \in [Node -> [Slot -> Call]], NEW n \in Node, NEW s \in Slot, NEW r \in Call,
         call' = [call EXCEPT ![n][s] = r]
  PROVE  /\ call' \in [Node -> [Slot -> Call]]
         /\ call'[n][s] = r /\ OtherCalls(n, s)
BY DEF OtherCalls

LEMMA GotoSet ==
  ASSUME call \in [Node -> [Slot -> Call]], NEW n \in Node, NEW s \in Slot, NEW pc \in Pc,
         Goto(n, s, pc)
  PROVE  /\ call' \in [Node -> [Slot -> Call]]
         /\ call'[n][s] = [call[n][s] EXCEPT !.pc = pc] /\ OtherCalls(n, s)
<1>0. call[n][s] \in Call
  OBVIOUS
<1>1. [call[n][s] EXCEPT !.pc = pc] \in Call
  BY <1>0 DEF Call
<1>2. call' = [call EXCEPT ![n][s] = [call[n][s] EXCEPT !.pc = pc]]
  BY DEF Goto
<1>3. QED
  BY <1>1, <1>2, CallSet

LEMMA EndSet ==
  ASSUME call \in [Node -> [Slot -> Call]], NEW n \in Node, NEW s \in Slot, End(n, s)
  PROVE  /\ call' \in [Node -> [Slot -> Call]]
         /\ call'[n][s] = NoCall /\ OtherCalls(n, s)
BY NoCallType, CallSet DEF End

(* The calls stay well formed when one of them changes. *)
LEMMA CallsKeep ==
  ASSUME CallType, NEW n \in Node, NEW s \in Slot, OtherCalls(n, s),
         call' \in [Node -> [Slot -> Call]], out \subseteq out', excused => excused',
         WellFormed(n, call[n][s])'
  PROVE  CallType'
<1> SUFFICES ASSUME NEW m \in Node, NEW t \in Slot PROVE WellFormed(m, call[m][t])'
  BY DEF CallType
<1>1. CASE m = n /\ t = s
  BY <1>1
<1>2. CASE m # n \/ t # s
  <2>1. call'[m][t] = call[m][t] /\ WellFormed(m, call[m][t])
    BY <1>2 DEF OtherCalls, CallType
  <2>2. QED
    BY <2>1 DEF WellFormed
<1>3. QED
  BY <1>1, <1>2

LEMMA CallsStay ==
  ASSUME CallType, UNCHANGED call, out \subseteq out', excused => excused'
  PROVE  CallType'
BY DEF CallType, WellFormed

LEMMA EndKeeps ==
  ASSUME CallType, NEW n \in Node, NEW s \in Slot, End(n, s), out \subseteq out',
         excused => excused'
  PROVE  CallType'
<1>1. /\ call' \in [Node -> [Slot -> Call]]
      /\ call'[n][s] = NoCall /\ OtherCalls(n, s)
  BY EndSet DEF CallType
<1>2. WellFormed(n, call[n][s])'
  BY <1>1 DEF WellFormed, NoCall
<1>3. QED
  BY <1>1, <1>2, CallsKeep

LEMMA GotoKeeps ==
  ASSUME CallType, NEW n \in Node, NEW s \in Slot, NEW pc \in {"list", "tell", "look", "leave"},
         Goto(n, s, pc), out \subseteq out', excused => excused',
         pc = "leave" => call[n][s].op \in {"leave", "kicked"} /\ (n \in out' \/ excused')
  PROVE  CallType'
<1>0. pc \in Pc /\ call[n][s] \in Call
  BY DEF Pc, CallType
<1>1. /\ call' \in [Node -> [Slot -> Call]]
      /\ call'[n][s] = [call[n][s] EXCEPT !.pc = pc] /\ OtherCalls(n, s)
  BY <1>0, GotoSet DEF CallType
<1>2. WellFormed(n, call[n][s])'
  <2>1. /\ call'[n][s].op = call[n][s].op /\ call'[n][s].peer = call[n][s].peer
        /\ call'[n][s].others = call[n][s].others /\ call'[n][s].rest = call[n][s].rest
        /\ call'[n][s].pc = pc
    BY <1>0, <1>1 DEF Call
  <2>2. WellFormed(n, call[n][s])
    BY DEF CallType
  <2>3. QED
    BY <2>1, <2>2 DEF WellFormed
<1>3. QED
  BY <1>1, <1>2, CallsKeep

(***************************************************************************)
(* Types, action by action.                                                *)
(***************************************************************************)
LEMMA MessageParts ==
  ASSUME NEW msg \in Message
  PROVE  /\ msg.type \in {"accept", "decline", "kick", "remove"}
         /\ msg.from \in Node /\ msg.to \in Node
         /\ msg.type = "remove" => msg.target \in Node
BY DEF Message

LEMMA NoticeEffect ==
  ASSUME NEW type \in {"accept", "decline", "kick"}, NEW n \in Node, NEW m \in Node
  PROVE  /\ Notice(type, n, m) \in Message
         /\ Notice(type, n, m).type = type /\ Notice(type, n, m).to = m
         /\ Dropped(Notice(type, n, m)) = n
BY DEF Notice, Message, Dropped

LEMMA RemoveNoticeEffect ==
  ASSUME NEW n \in Node, NEW m \in Node, NEW p \in Node
  PROVE  /\ RemoveNotice(n, m, p) \in Message
         /\ RemoveNotice(n, m, p).type = "remove" /\ RemoveNotice(n, m, p).to = m
         /\ Dropped(RemoveNotice(n, m, p)) = p
BY DEF RemoveNotice, Message, Dropped

(* What a removal tells. *)
LEMMA ToldEffect ==
  ASSUME NEW n \in Node, NEW c \in Call, c.op = "remove" => c.peer \in Node \ {n}
  PROVE  /\ \A msg \in Told(n, c) :
              /\ msg \in Message /\ msg.type # "accept" /\ Dropped(msg) # msg.to
              /\ c.op = "remove" /\ c.peer \in Node
              /\ IF msg.type = "kick" THEN msg.to = c.peer ELSE Dropped(msg) = c.peer
         /\ c.op = "remove" =>
              /\ \E msg \in Told(n, c) :
                   msg.type # "accept" /\ msg.to = c.peer /\ Dropped(msg) = n
              /\ \A m \in c.others \ {c.peer} : \E msg \in Told(n, c) :
                   msg.type # "accept" /\ msg.to = m /\ Dropped(msg) = c.peer
<1>1. CASE c.op # "remove"
  BY <1>1 DEF Told
<1>2. CASE c.op = "remove"
  <2>1. c.peer \in Node \ {n} /\ c.others \subseteq Node
    BY <1>2 DEF Call
  <2>2. Told(n, c) = {Notice("kick", n, c.peer)}
                     \cup {RemoveNotice(n, m, c.peer) : m \in c.others \ {c.peer}}
    BY <1>2 DEF Told, RemovalNotices
  <2>3. /\ Notice("kick", n, c.peer) \in Message
        /\ Notice("kick", n, c.peer).type = "kick" /\ Notice("kick", n, c.peer).to = c.peer
        /\ Dropped(Notice("kick", n, c.peer)) = n
    BY <2>1, NoticeEffect
  <2>4. \A m \in c.others \ {c.peer} :
          /\ RemoveNotice(n, m, c.peer) \in Message
          /\ RemoveNotice(n, m, c.peer).type = "remove"
          /\ RemoveNotice(n, m, c.peer).to = m
          /\ Dropped(RemoveNotice(n, m, c.peer)) = c.peer
    BY <2>1, RemoveNoticeEffect
  <2>5. QED
    BY <1>2, <2>1, <2>2, <2>3, <2>4
<1>3. QED
  BY <1>1, <1>2

(* What the next parts of the types need of a step. *)
Grown == /\ out \subseteq out' /\ (excused => excused')

LEMMA ClusterStays ==
  ASSUME ClusterType, UNCHANGED <<cluster, pending, wireAcc, refresh>>
  PROVE  ClusterType'
BY DEF ClusterType

LEMMA WireStays ==
  ASSUME WireType, UNCHANGED <<wire, history>>
  PROVE  WireType'
BY DEF WireType

LEMMA WireShrinks ==
  ASSUME WireType, wire' \subseteq wire, forget' \subseteq forget, UNCHANGED out
  PROVE  WireType'
BY DEF WireType

LEMMA BoundStays ==
  ASSUME BoundType, UNCHANGED <<left, excused>>
  PROVE  BoundType' /\ (excused => excused')
BY DEF BoundType

LEMMA WriteType ==
  ASSUME ClusterType, BoundType, NEW n \in Node, NEW old, NEW new \in SUBSET Node,
         n \in new, Write(n, old, new), UNCHANGED left
  PROVE  /\ devices' \in [Node -> SUBSET Node]
         /\ \A m \in Node : devices'[m] # {} => m \in devices'[m]
         /\ BoundType' /\ (excused => excused')
BY DEF Write, ClusterType, BoundType

(* What a write leaves behind if it does not write back an old copy. *)
LEMMA WriteEffect ==
  ASSUME ClusterType, NEW n \in Node, NEW old, NEW new, Write(n, old, new), ~excused'
  PROVE  /\ ~excused /\ devices[n] = old
         /\ \A m \in Node \ {n} : devices'[m] = devices[m]
         /\ devices'[n] = IF Has(n) THEN new ELSE {}
BY DEF Write, ClusterType, Has

(* A write that has failed, or that was done. *)
LEMMA RefreshPendingType ==
  ASSUME ClusterType, BoundType, NEW n \in Node, RefreshPending(n)
  PROVE  /\ pending' \in [Node -> SUBSET Node] /\ \A m \in Node : m \notin pending'[m]
         /\ BoundType' /\ (excused => excused')
<1>1. BoundType' /\ (excused => excused')
  BY FaultType DEF RefreshPending
<1>2. \E p \in {pending[n], Invites(n), offers[n]} : pending' = [pending EXCEPT ![n] = p]
  BY DEF RefreshPending, ClusterType
<1>3. QED
  BY <1>1, <1>2 DEF ClusterType, Invites

LEMMA BeginTypes ==
  ASSUME TypeInv, NEW n \in Node, NEW op \in UiOp, NEW p \in Node,
         NEW pc \in {"begin", "list", "look"}, Begin(n, op, p, pc),
         op \notin {"leave", "edit"} => p # n
  PROVE  TypeInv'
<1>1. ClusterType' /\ WireType'
  BY ClusterStays, WireStays DEF TypeInv, Begin
<1>2. BoundType' /\ (excused => excused')
  BY SpendType DEF TypeInv, BoundType, Begin, Kind
<1>3. CallType'
  <2> DEFINE r == [NoCall EXCEPT !.op = op, !.peer = p, !.pc = pc]
  <2>1. r \in Call
    BY DEF NoCall, Call, Pc, UiOp
  <2>2. /\ call' \in [Node -> [Slot -> Call]]
        /\ call'[n]["ui"] = r /\ OtherCalls(n, "ui")
    <3> HIDE DEF r
    <3>1. call' = [call EXCEPT ![n]["ui"] = r]
      BY DEF Begin, r
    <3>2. QED
      BY <2>1, <3>1, CallSet DEF TypeInv, CallType, Slot
  <2>3. WellFormed(n, call[n]["ui"])'
    <3>1. /\ r.op = op /\ r.peer = p /\ r.pc = pc /\ r.others = {} /\ r.rest = {}
      BY DEF NoCall
    <3>2. QED
      BY <2>2, <3>1 DEF WellFormed, UiOp
  <2>4. QED
    BY <1>2, <2>2, <2>3, CallsKeep DEF TypeInv, Begin, Slot
<1>4. QED
  BY <1>1, <1>2, <1>3 DEF TypeInv

LEMMA RequestTypes ==
  ASSUME TypeInv, NEW n \in Node, Request(n)
  PROVE  TypeInv'
<1>1. pending[n] \subseteq Node \ {n} /\ devices[n] \subseteq Node
  BY DEF TypeInv, ClusterType
<1>2. QED
  BY <1>1, BeginTypes DEF Request, UiOp

(* Syncthing, the pipeline and the loss of a message. *)
LEMMA OutsideTypes ==
  ASSUME TypeInv,
         \/ \E n, m \in Node : Exchange(n, m) \/ RefreshFails(n, m)
         \/ \E n \in Node : Pipeline(n)
         \/ \E msg \in wire : Lose(msg)
  PROVE  TypeInv'
<1>0. ClusterType /\ BoundType /\ WireType /\ CallType
  BY DEF TypeInv
<1>1. CASE \E n, m \in Node : Exchange(n, m)
  <2>1. PICK n \in Node, m \in Node : Exchange(n, m)
    BY <1>1
  <2>2. /\ UNCHANGED <<devices, pending, wireAcc, wire, call, left, history, excused>>
        /\ refresh' \subseteq refresh
        /\ offers' = [offers EXCEPT ![n] = Offered(n, m), ![m] = Offered(m, n)]
    BY <2>1 DEF Exchange
  <2>3. /\ offers' \in [Node -> SUBSET Node] /\ \A k \in Node : k \notin offers'[k]
    <3>1. /\ Offered(n, m) \in SUBSET Node /\ n \notin Offered(n, m)
          /\ Offered(m, n) \in SUBSET Node /\ m \notin Offered(m, n)
      BY <1>0 DEF ClusterType, Offered
    <3>2. QED
      BY <1>0, <2>2, <3>1 DEF ClusterType
  <2>4. ClusterType'
    BY <1>0, <2>2, <2>3 DEF ClusterType
  <2>5. BoundType' /\ WireType' /\ CallType'
    BY <1>0, <2>2, BoundStays, WireStays, CallsStay
  <2>6. QED
    BY <2>4, <2>5 DEF TypeInv
<1>2. CASE \E n, m \in Node : RefreshFails(n, m)
  <2>1. /\ UNCHANGED <<cluster, pending, wireAcc, wire, call, history>>
        /\ refresh' \subseteq refresh /\ Fault
    BY <1>2 DEF RefreshFails
  <2>2. BoundType' /\ (excused => excused')
    BY <1>0, <2>1, FaultType
  <2>3. ClusterType'
    BY <1>0, <2>1 DEF ClusterType
  <2>4. WireType' /\ CallType'
    BY <1>0, <2>1, <2>2, WireStays, CallsStay
  <2>5. QED
    BY <2>2, <2>3, <2>4 DEF TypeInv
<1>3. CASE \E n \in Node : Pipeline(n)
  <2>1. PICK n \in Node : Pipeline(n)
    BY <1>3
  <2>2. ClusterType'
    BY <1>0, <2>1 DEF Pipeline, ClusterType, Invites
  <2>3. WireType' /\ CallType' /\ BoundType'
    BY <1>0, <2>1, WireStays, CallsStay, BoundStays DEF Pipeline
  <2>4. QED
    BY <2>2, <2>3 DEF TypeInv
<1>4. CASE \E msg \in wire : Lose(msg)
  <2>1. BoundType' /\ (excused => excused')
    BY <1>0, <1>4, SpendType DEF Lose, BoundType, Kind
  <2>2. /\ UNCHANGED <<cluster, pending, wireAcc, refresh, call, history>>
        /\ wire' \subseteq wire
    BY <1>4 DEF Lose
  <2>3. ClusterType' /\ WireType' /\ CallType'
    BY <1>0, <2>1, <2>2, WireShrinks, ClusterStays, CallsStay
  <2>4. QED
    BY <2>1, <2>3 DEF TypeInv
<1>5. QED
  BY <1>1, <1>2, <1>3, <1>4

(* The listings of a share and of an edit. *)
LEMMA ListTypes ==
  ASSUME TypeInv, NEW n \in Node, ShareLists(n) \/ EditLists(n)
  PROVE  TypeInv'
<1>0. ClusterType /\ BoundType /\ WireType /\ CallType /\ "ui" \in Slot
  BY DEF TypeInv, Slot
<1>1. BoundType' /\ (excused => excused')
  BY <1>0, FaultType DEF ShareLists, EditLists
<1>2. WireType'
  BY <1>0, WireStays DEF ShareLists, EditLists
<1>3. ClusterType'
  <2>1. /\ UNCHANGED <<cluster, pending, refresh>>
        /\ wireAcc' \in {wireAcc, [wireAcc EXCEPT ![n] = @ \ {call[n]["ui"].peer}]}
    BY DEF ShareLists, EditLists
  <2>2. QED
    BY <1>0, <2>1 DEF ClusterType
<1>4. CASE End(n, "ui")
  <2>1. CallType'
    BY <1>0, <1>1, <1>4, EndKeeps DEF ShareLists, EditLists
  <2>2. QED
    BY <1>1, <1>2, <1>3, <2>1 DEF TypeInv
<1>5. CASE ~End(n, "ui")
  <2> DEFINE r == [call[n]["ui"] EXCEPT !.pc = "write", !.seen = devices[n]]
  <2>1. /\ call' = [call EXCEPT ![n]["ui"] = r]
        /\ Has(n) /\ UNCHANGED out /\ call[n]["ui"].op \in {"share", "edit"}
    BY <1>0, <1>5 DEF ShareLists, EditLists, At, CallType
  <2>2. /\ call[n]["ui"] \in Call /\ devices[n] \in SUBSET Node /\ n \in devices[n]
        /\ WellFormed(n, call[n]["ui"])
    BY <1>0, <2>1 DEF CallType, ClusterType, Has
  <2>3. /\ r \in Call /\ r.op = call[n]["ui"].op /\ r.peer = call[n]["ui"].peer
        /\ r.pc = "write" /\ r.seen = devices[n]
    BY <2>2 DEF Call, Pc
  <2>4. call' \in [Node -> [Slot -> Call]] /\ call'[n]["ui"] = r /\ OtherCalls(n, "ui")
    <3> HIDE DEF r
    <3> QED
      BY <1>0, <2>1, <2>3, CallSet DEF CallType
  <2>5. WellFormed(n, call[n]["ui"])'
    <3> HIDE DEF r
    <3> QED
      BY <2>1, <2>2, <2>3, <2>4 DEF WellFormed
  <2>6. CallType'
    BY <1>0, <1>1, <2>1, <2>4, <2>5, CallsKeep
  <2>7. QED
    BY <1>1, <1>2, <1>3, <2>6 DEF TypeInv
<1>6. QED
  BY <1>4, <1>5

(* The writes of a share and of an edit. *)
LEMMA ShareTypes ==
  ASSUME TypeInv, NEW n \in Node, ShareWrites(n) \/ EditWrites(n)
  PROVE  TypeInv'
<1>0. ClusterType /\ BoundType /\ WireType /\ CallType /\ "ui" \in Slot
  BY DEF TypeInv, Slot
<1> DEFINE c == call[n]["ui"]
<1>1. /\ c \in Call /\ WellFormed(n, c)
      /\ c.op \in {"share", "edit"} /\ c.pc = "write"
  BY <1>0 DEF ShareWrites, EditWrites, At, CallType
<1>2. /\ n \in c.seen /\ c.seen \in SUBSET Node /\ (c.op = "share" => c.peer \in Node)
  BY <1>1 DEF WellFormed, Call
<1>3. PICK new \in SUBSET Node :
        n \in new /\ ((Write(n, c.seen, new) /\ UNCHANGED left) \/ (Fault /\ UNCHANGED devices))
  BY <1>2 DEF ShareWrites, EditWrites, At
<1>4. /\ devices' \in [Node -> SUBSET Node]
      /\ \A m \in Node : devices'[m] # {} => m \in devices'[m]
      /\ BoundType' /\ (excused => excused')
  <2>1. CASE Fault /\ UNCHANGED devices
    BY <1>0, <2>1, FaultType DEF ClusterType
  <2>2. CASE Write(n, c.seen, new) /\ UNCHANGED left
    BY <1>0, <1>3, <2>2, WriteType
  <2>3. QED
    BY <1>3, <2>1, <2>2
<1>5. /\ UNCHANGED <<offers, pending, wireAcc, wire, out>> /\ forget' \subseteq forget
      /\ End(n, "ui")
  BY DEF ShareWrites, EditWrites
<1>6. refresh' \subseteq Node \X Node
  <2>1. CASE EditWrites(n)
    BY <1>0, <2>1 DEF EditWrites, ClusterType
  <2>2. CASE ShareWrites(n)
    <3>1. c.op = "share"
      BY <2>2 DEF ShareWrites, At
    <3>2. RefreshAll(n, c.peer, c.seen) \subseteq Node \X Node
      BY <1>2, <3>1 DEF RefreshAll
    <3>3. refresh' = refresh \/ refresh' = refresh \cup RefreshAll(n, c.peer, c.seen)
      BY <2>2 DEF ShareWrites
    <3>4. QED
      BY <1>0, <3>2, <3>3 DEF ClusterType
  <2>3. QED
    BY <2>1, <2>2
<1>7. ClusterType'
  BY <1>0, <1>4, <1>5, <1>6 DEF ClusterType
<1>8. WireType' /\ CallType'
  BY <1>0, <1>4, <1>5, WireShrinks, EndKeeps
<1>9. QED
  BY <1>4, <1>7, <1>8 DEF TypeInv

(* FolderAccept: the calls it goes through keep their offerers. *)
LEMMA AcceptMoves ==
  ASSUME CallType, NEW n \in Node, NEW r \in Call, r.op = "accept",
         call' = [call EXCEPT ![n]["ui"] = r],
         n \notin r.others, r.rest \subseteq r.others, r.peer \in Node \ {n},
         r.pc \in {"list", "write", "tell"},
         r.pc = "write" /\ r.rest # {} => n \in r.seen,
         out \subseteq out', excused => excused'
  PROVE  CallType' /\ call'[n]["ui"] = r /\ OtherCalls(n, "ui")
<1>1. /\ call' \in [Node -> [Slot -> Call]]
      /\ call'[n]["ui"] = r /\ OtherCalls(n, "ui") /\ "ui" \in Slot
  BY CallSet DEF CallType, Slot
<1>2. WellFormed(n, call[n]["ui"])'
  BY <1>1 DEF WellFormed
<1>3. QED
  BY <1>1, <1>2, CallsKeep

(* What is true of an accept whenever it goes on. *)
LEMMA AcceptCall ==
  ASSUME TypeInv, NEW n \in Node, call[n]["ui"].op = "accept"
  PROVE  LET c == call[n]["ui"]
         IN  /\ c \in Call /\ c.peer \in Node \ {n} /\ c.rest \subseteq c.others
             /\ n \notin c.others /\ c.others \subseteq Node /\ c.seen \subseteq Node
             /\ (c.pc = "write" /\ c.rest # {} => n \in c.seen)
             /\ (c.pc = "begin" => c.others = {})
BY DEF TypeInv, CallType, WellFormed, Slot, Call

LEMMA AcceptListTypes ==
  ASSUME TypeInv, NEW n \in Node,
         AcceptLists(n) \/ \E p \in Node : AcceptAddLists(n, p)
  PROVE  TypeInv'
<1>0. ClusterType /\ BoundType /\ WireType /\ CallType /\ "ui" \in Slot
  BY SMTT(60) DEF TypeInv, Slot
<1> DEFINE c == call[n]["ui"]
<1>1. BoundType' /\ (excused => excused')
  BY <1>0, FaultType DEF AcceptLists, AcceptAddLists
<1>2. ClusterType' /\ WireType' /\ UNCHANGED out
  BY <1>0, ClusterStays, WireStays DEF AcceptLists, AcceptAddLists
<1>3. c.op = "accept"
  BY DEF AcceptLists, AcceptAddLists, At
<1>4. /\ c \in Call /\ c.peer \in Node \ {n} /\ c.rest \subseteq c.others
      /\ n \notin c.others /\ c.others \subseteq Node /\ c.seen \subseteq Node
      /\ (c.pc = "write" /\ c.rest # {} => n \in c.seen)
  BY <1>3, AcceptCall
<1>5. CASE End(n, "ui")
  BY <1>0, <1>1, <1>2, <1>5, EndKeeps DEF TypeInv
<1>6. CASE AcceptLists(n) /\ ~End(n, "ui")
  <2> DEFINE all == {c.peer} \cup pending[n]
             r == [c EXCEPT !.pc = IF Has(n) THEN "list" ELSE "write", !.others = all,
                            !.rest = IF Has(n) THEN all ELSE {}]
  <2>1. all \subseteq Node /\ n \notin all
    BY <1>0, <1>4 DEF ClusterType
  <2>2. call' = [call EXCEPT ![n]["ui"] = r]
    BY <1>6 DEF AcceptLists
  <2>3. /\ r \in Call /\ r.op = "accept" /\ r.others = all /\ r.rest \subseteq all
        /\ r.peer = c.peer /\ r.pc \in {"list", "write"} /\ (r.pc = "write" => r.rest = {})
    <3> HIDE DEF all
    <3> QED
      BY <1>3, <1>4, <2>1 DEF Call, Pc
  <2>4. CallType'
    <3> HIDE DEF r, all
    <3> QED
      BY <1>0, <1>1, <1>2, <1>4, <2>1, <2>2, <2>3, AcceptMoves
  <2>5. QED
    BY <1>1, <1>2, <2>4 DEF TypeInv
<1>7. CASE \E p \in Node : AcceptAddLists(n, p) /\ ~End(n, "ui")
  <2>1. PICK p \in Node : AcceptAddLists(n, p)
    BY SMTT(60), <1>7
  <2> DEFINE q == [c EXCEPT !.pc = "write", !.peer = p, !.seen = devices[n]]
             r == [c EXCEPT !.pc = Added(n, p), !.rest = @ \ {p}]
  <2>2. /\ p \in c.rest
        /\ \/ Has(n) /\ call' = [call EXCEPT ![n]["ui"] = q]
           \/ call' = [call EXCEPT ![n]["ui"] = r]
    BY <2>1 DEF AcceptAddLists
  <2>3. CASE Has(n) /\ call' = [call EXCEPT ![n]["ui"] = q]
    <3>1. devices[n] \in SUBSET Node /\ n \in devices[n]
      BY <1>0, <2>3 DEF ClusterType, Has
    <3>2. /\ q \in Call /\ q.op = "accept" /\ q.others = c.others /\ q.rest = c.rest
          /\ q.peer = p /\ q.pc = "write" /\ q.seen = devices[n]
      BY <1>3, <1>4, <3>1 DEF Call, Pc
    <3>3. p \in Node \ {n}
      BY <1>4, <2>2
    <3>4. CallType'
      <4> HIDE DEF q
      <4> QED
        BY <1>0, <1>1, <1>2, <1>4, <2>3, <3>1, <3>2, <3>3, AcceptMoves
    <3>5. QED
      BY <1>1, <1>2, <3>4 DEF TypeInv
  <2>4. CASE call' = [call EXCEPT ![n]["ui"] = r]
    <3>1. /\ r \in Call /\ r.op = "accept" /\ r.others = c.others /\ r.rest \subseteq c.rest
          /\ r.peer = c.peer /\ r.pc \in {"list", "tell"}
      BY <1>3, <1>4 DEF Call, Pc, Added
    <3>2. CallType'
      <4> HIDE DEF r
      <4> QED
        BY <1>0, <1>1, <1>2, <1>4, <2>4, <3>1, AcceptMoves
    <3>3. QED
      BY <1>1, <1>2, <3>2 DEF TypeInv
  <2>5. QED
    BY <2>2, <2>3, <2>4
<1>8. QED
  BY <1>5, <1>6, <1>7

LEMMA AcceptCreateTypes ==
  ASSUME TypeInv, NEW n \in Node, AcceptCreates(n)
  PROVE  TypeInv'
<1>0. ClusterType /\ BoundType /\ WireType /\ CallType /\ "ui" \in Slot
  BY DEF TypeInv, Slot
<1> DEFINE c == call[n]["ui"]
<1>1. c.op = "accept" /\ n \notin c.others /\ c.others \subseteq Node
  BY AcceptCall DEF AcceptCreates, At
<1>2. BoundType' /\ (excused => excused')
  BY <1>0, FaultType DEF AcceptCreates, BoundType
<1>3. ClusterType'
  <2>1. devices' = devices \/ devices' = [devices EXCEPT ![n] = {n} \cup c.others]
    BY DEF AcceptCreates, NewDevices
  <2>2. UNCHANGED <<offers, pending, wireAcc, refresh>>
    BY DEF AcceptCreates
  <2>3. QED
    BY <1>0, <1>1, <2>1, <2>2 DEF ClusterType
<1>4. WireType' /\ UNCHANGED out
  BY <1>0, WireStays DEF AcceptCreates
<1>5. CallType'
  BY <1>0, <1>2, <1>4, EndKeeps, GotoKeeps DEF AcceptCreates
<1>6. QED
  BY <1>2, <1>3, <1>4, <1>5 DEF TypeInv

LEMMA AcceptAddTypes ==
  ASSUME TypeInv, NEW n \in Node, NEW p \in Node, AcceptAdds(n, p)
  PROVE  TypeInv'
<1>0. ClusterType /\ BoundType /\ WireType /\ CallType /\ "ui" \in Slot
  BY DEF TypeInv, Slot
<1> DEFINE c == call[n]["ui"]
<1>1. c.op = "accept" /\ c.pc = "write" /\ p \in c.rest
  BY DEF AcceptAdds, At
<1>2. /\ c \in Call /\ c.peer \in Node \ {n} /\ c.rest \subseteq c.others
      /\ n \notin c.others /\ c.others \subseteq Node /\ c.seen \subseteq Node
      /\ n \in c.seen
  BY <1>1, AcceptCall
<1>3. /\ devices' \in [Node -> SUBSET Node]
      /\ \A m \in Node : devices'[m] # {} => m \in devices'[m]
      /\ BoundType' /\ (excused => excused')
  <2>1. CASE Write(n, c.seen, c.seen \cup {p}) /\ UNCHANGED left
    BY <1>0, <1>2, <2>1, WriteType
  <2>2. CASE Fault /\ UNCHANGED devices
    BY <1>0, <2>2, FaultType DEF ClusterType
  <2>3. QED
    BY <2>1, <2>2 DEF AcceptAdds
<1>4. ClusterType'
  <2>1. /\ UNCHANGED <<offers, pending, refresh>>
        /\ wireAcc' \in {wireAcc, [wireAcc EXCEPT ![n] = @ \ {p}]}
    BY DEF AcceptAdds
  <2>2. QED
    BY <1>0, <1>3, <2>1 DEF ClusterType
<1>5. WireType' /\ UNCHANGED out
  BY <1>0, WireStays DEF AcceptAdds
<1>6. CallType'
  <2> DEFINE r == [c EXCEPT !.pc = Added(n, p), !.rest = c.rest \ {p}, !.seen = {}]
  <2>1. call' = [call EXCEPT ![n]["ui"] = r]
    BY DEF AcceptAdds
  <2>2. /\ r \in Call /\ r.op = "accept" /\ r.others = c.others /\ r.rest \subseteq c.rest
        /\ r.peer = c.peer /\ r.pc \in {"list", "tell"}
    BY <1>1, <1>2 DEF Call, Pc, Added
  <2>3. QED
    <3> HIDE DEF r
    <3> QED
      BY <1>0, <1>2, <1>3, <1>5, <2>1, <2>2, AcceptMoves
<1>7. QED
  BY <1>3, <1>4, <1>5, <1>6 DEF TypeInv

LEMMA AcceptTellTypes ==
  ASSUME TypeInv, NEW n \in Node, AcceptTells(n)
  PROVE  TypeInv'
<1>0. ClusterType /\ BoundType /\ WireType /\ CallType /\ "ui" \in Slot
  BY DEF TypeInv, Slot
<1> DEFINE all == call[n]["ui"].others
<1>1. all \subseteq Node /\ n \notin all
  BY AcceptCall DEF AcceptTells, At
<1>2. /\ pending' \in [Node -> SUBSET Node] /\ \A m \in Node : m \notin pending'[m]
      /\ BoundType' /\ (excused => excused')
  BY <1>0, RefreshPendingType DEF AcceptTells
<1>3. /\ refresh' = refresh \cup {<<n, m>> : m \in all}
      /\ wireAcc' = [wireAcc EXCEPT ![n] = @ \cup all]
      /\ wire' = wire \cup {Notice("accept", n, m) : m \in all}
      /\ forget' \subseteq forget /\ UNCHANGED <<cluster, out>> /\ End(n, "ui")
  BY DEF AcceptTells
<1>4. ClusterType'
  BY <1>0, <1>1, <1>2, <1>3 DEF ClusterType
<1>5. WireType'
  <2>1. \A m \in all : /\ Notice("accept", n, m) \in Message
                       /\ Notice("accept", n, m).type = "accept"
    BY <1>1, NoticeEffect
  <2>2. QED
    BY <1>0, <1>3, <2>1 DEF WireType
<1>6. CallType'
  BY <1>0, <1>2, <1>3, EndKeeps
<1>7. QED
  BY <1>2, <1>4, <1>5, <1>6 DEF TypeInv

(* FolderDecline. *)
LEMMA DeclineTypes ==
  ASSUME TypeInv, NEW n \in Node, Declines(n) \/ DeclineRefreshes(n)
  PROVE  TypeInv'
<1>0. ClusterType /\ BoundType /\ WireType /\ CallType /\ "ui" \in Slot
  BY DEF TypeInv, Slot
<1>1. CASE Declines(n)
  <2> DEFINE p == call[n]["ui"].peer
  <2>1. p \in Node \ {n}
    BY <1>0, <1>1 DEF CallType, WellFormed, Declines, At
  <2>2. /\ wire' = wire \cup {Notice("decline", n, p)}
        /\ forget' = forget \cup {<<p, n>>} /\ out' = out \cup {n}
        /\ Goto(n, "ui", "tell") /\ UNCHANGED <<devices, pending, wireAcc, refresh>>
        /\ offers' \in {offers, [offers EXCEPT ![n] = @ \ {p}]}
    BY <1>1 DEF Declines
  <2>3. BoundType' /\ (excused => excused')
    BY <1>0, <1>1, FaultType DEF Declines
  <2>4. ClusterType'
    BY <1>0, <2>2 DEF ClusterType
  <2>5. WireType'
    <3>1. /\ Notice("decline", n, p) \in Message
          /\ Notice("decline", n, p).type = "decline" /\ Notice("decline", n, p).to = p
          /\ Dropped(Notice("decline", n, p)) = n
      BY <2>1, NoticeEffect
    <3>2. QED
      BY <1>0, <2>1, <2>2, <3>1 DEF WireType
  <2>6. CallType'
    BY <1>0, <2>2, <2>3, GotoKeeps
  <2>7. QED
    BY <2>3, <2>4, <2>5, <2>6 DEF TypeInv
<1>2. CASE DeclineRefreshes(n)
  <2>1. /\ pending' \in [Node -> SUBSET Node] /\ \A m \in Node : m \notin pending'[m]
        /\ BoundType' /\ (excused => excused')
    BY <1>0, <1>2, RefreshPendingType DEF DeclineRefreshes
  <2>2. ClusterType'
    BY <1>0, <1>2, <2>1 DEF DeclineRefreshes, ClusterType
  <2>3. WireType' /\ CallType'
    BY <1>0, <1>2, <2>1, WireStays, EndKeeps DEF DeclineRefreshes
  <2>4. QED
    BY <2>1, <2>2, <2>3 DEF TypeInv
<1>3. QED
  BY <1>1, <1>2

(* FolderRemoveDevice, FolderRemove and the callbacks. *)
LEMMA LookTypes ==
  ASSUME TypeInv, NEW n \in Node, RemoveLooks(n) \/ LeaveLooks(n) \/ KickedLooks(n)
  PROVE  TypeInv'
<1>0. ClusterType /\ BoundType /\ WireType /\ CallType /\ "ui" \in Slot /\ "wire" \in Slot
  BY DEF TypeInv, Slot
<1>1. BoundType' /\ (excused => excused')
  BY <1>0, FaultType DEF RemoveLooks, LeaveLooks, KickedLooks
<1>2. ClusterType'
  BY <1>0, ClusterStays DEF RemoveLooks, LeaveLooks, KickedLooks
<1>3. CASE RemoveLooks(n)
  <2>1. WireType' /\ UNCHANGED out
    BY <1>0, <1>3, WireStays DEF RemoveLooks
  <2>2. CASE Goto(n, "ui", "list")
    <3>1. CallType'
      BY <1>0, <1>1, <2>1, <2>2, GotoKeeps
    <3>2. QED
      BY <1>1, <1>2, <2>1, <3>1 DEF TypeInv
  <2>3. CASE ~Goto(n, "ui", "list")
    <3> DEFINE r == [call[n]["ui"] EXCEPT !.pc = "list", !.others = Participants(n)]
    <3>1. call[n]["ui"] \in Call /\ WellFormed(n, call[n]["ui"]) /\ call[n]["ui"].op = "remove"
      BY <1>0, <1>3 DEF CallType, RemoveLooks, At
    <3>2. call' = [call EXCEPT ![n]["ui"] = r]
      BY <1>0, <1>3, <2>3 DEF RemoveLooks, CallType
    <3>3. /\ r \in Call /\ r.op = "remove" /\ r.peer = call[n]["ui"].peer
          /\ r.pc = "list"
      BY <1>0, <3>1 DEF Call, Pc, Participants, ClusterType
    <3>4. call' \in [Node -> [Slot -> Call]] /\ call'[n]["ui"] = r /\ OtherCalls(n, "ui")
      <4> HIDE DEF r
      <4> QED
        BY <1>0, <3>2, <3>3, CallSet DEF CallType
    <3>5. WellFormed(n, call[n]["ui"])'
      <4> HIDE DEF r
      <4> QED
        BY <3>1, <3>3, <3>4 DEF WellFormed
    <3>6. CallType'
      BY <1>0, <1>1, <2>1, <3>4, <3>5, CallsKeep
    <3>7. QED
      BY <1>1, <1>2, <2>1, <3>6 DEF TypeInv
  <2>4. QED
    BY <2>2, <2>3
<1>4. CASE LeaveLooks(n)
  <2>1. Goto(n, "ui", "leave") /\ call[n]["ui"].op = "leave"
    BY <1>4 DEF LeaveLooks, At
  <2>2. WireType' /\ out \subseteq out' /\ (n \in out' \/ excused')
    <3>1. CASE Fault /\ UNCHANGED <<wire, history>>
      BY <1>0, <3>1, WireStays DEF Fault
    <3>2. CASE ~(Fault /\ UNCHANGED <<wire, history>>)
      <4>1. /\ wire' = wire \cup {RemoveNotice(n, m, n) : m \in Participants(n)}
            /\ forget' = forget \cup (Participants(n) \X {n}) /\ out' = out \cup {n}
        BY <1>4, <3>2 DEF LeaveLooks
      <4>2. Participants(n) \subseteq Node \ {n}
        BY <1>0 DEF Participants, ClusterType
      <4>3. \A m \in Participants(n) :
              /\ RemoveNotice(n, m, n) \in Message /\ RemoveNotice(n, m, n).type = "remove"
              /\ Dropped(RemoveNotice(n, m, n)) = n /\ RemoveNotice(n, m, n).to = m
        BY <4>2, RemoveNoticeEffect
      <4>4. QED
        BY <1>0, <4>1, <4>2, <4>3 DEF WireType
    <3>3. QED
      BY <3>1, <3>2
  <2>3. CallType'
    BY <1>0, <1>1, <2>1, <2>2, GotoKeeps
  <2>4. QED
    BY <1>1, <1>2, <2>2, <2>3 DEF TypeInv
<1>5. CASE KickedLooks(n)
  <2>1. WireType' /\ UNCHANGED out
    BY <1>0, <1>5, WireStays DEF KickedLooks
  <2>2. n \in out /\ call[n]["wire"].op = "kicked"
    BY <1>0, <1>5 DEF KickedLooks, At, CallType, WellFormed
  <2>3. CallType'
    BY <1>0, <1>1, <1>5, <2>1, <2>2, GotoKeeps, EndKeeps DEF KickedLooks
  <2>4. QED
    BY <1>1, <1>2, <2>1, <2>3 DEF TypeInv
<1>6. QED
  BY <1>3, <1>4, <1>5

LEMMA RemovesFolderTypes ==
  ASSUME TypeInv, NEW n \in Node, NEW s \in Slot, RemovesFolder(n, s)
  PROVE  TypeInv'
<1>0. ClusterType /\ BoundType /\ WireType /\ CallType
  BY DEF TypeInv
<1>1. BoundType' /\ (excused => excused')
  BY <1>0, FaultType DEF RemovesFolder
<1>2. ClusterType'
  <2>1. /\ UNCHANGED <<offers, pending, wireAcc, refresh>>
        /\ devices' = devices \/ devices' = [devices EXCEPT ![n] = {}]
    BY DEF RemovesFolder
  <2>2. QED
    BY <1>0, <2>1 DEF ClusterType
<1>3. WireType' /\ CallType'
  BY <1>0, <1>1, WireStays, EndKeeps DEF RemovesFolder
<1>4. QED
  BY <1>1, <1>2, <1>3 DEF TypeInv

(* A call that is about to remove a device. *)
LEMMA RemovingCall ==
  ASSUME TypeInv, NEW n \in Node, NEW s \in Slot, NEW pc, Removing(n, s, pc)
  PROVE  LET c == call[n][s]
         IN  /\ c \in Call /\ WellFormed(n, c) /\ c.peer \in Node \ {n} /\ c.pc = pc
             /\ c.op \in {"remove", "kicked", "drop"}
BY DEF TypeInv, CallType, WellFormed, Removing

LEMMA AfterTypes ==
  ASSUME TypeInv, NEW n \in Node, NEW s \in Slot, NEW pc, Removing(n, s, pc), After(n, s),
         BoundType', excused => excused', ClusterType'
  PROVE  TypeInv' /\ out \subseteq out'
<1>0. ClusterType /\ BoundType /\ WireType /\ CallType
  BY DEF TypeInv
<1> DEFINE c == call[n][s]
<1>1. /\ c \in Call /\ WellFormed(n, c) /\ c.peer \in Node \ {n} /\ c.others \subseteq Node
      /\ c.op \in {"remove", "kicked", "drop"}
  BY RemovingCall DEF Call
<1>2. /\ wire' = wire \cup Told(n, c)
      /\ c.op = "remove" =>
           /\ forget' = forget \cup {<<c.peer, n>>}
                               \cup (({n} \cup c.others) \ {c.peer}) \X {c.peer}
           /\ out' = out \cup {c.peer}
      /\ c.op # "remove" => UNCHANGED history
  BY DEF After
<1>3. \A msg \in Told(n, c) :
        /\ msg \in Message /\ msg.type # "accept" /\ Dropped(msg) # msg.to
        /\ c.op = "remove"
        /\ IF msg.type = "kick" THEN msg.to = c.peer ELSE Dropped(msg) = c.peer
  BY <1>1, ToldEffect
<1>4. /\ out \subseteq out' /\ out' \subseteq Node
      /\ forget' \subseteq Node \X Node /\ \A r \in forget' : r[1] # r[2]
  <2>1. CASE c.op = "remove"
    BY <1>0, <1>1, <1>2, <2>1 DEF WireType
  <2>2. CASE c.op # "remove"
    BY <1>0, <1>2, <2>2 DEF WireType
  <2>3. QED
    BY <2>1, <2>2
<1>5. WireType'
  <2>1. wire' \subseteq Message
    BY <1>0, <1>2, <1>3 DEF WireType
  <2>2. ASSUME NEW msg \in wire', msg.type # "accept"
        PROVE  /\ Dropped(msg) # msg.to
               /\ IF msg.type = "kick" THEN msg.to \in out' ELSE Dropped(msg) \in out'
    <3>1. CASE msg \in wire
      BY <1>0, <1>4, <2>2, <3>1 DEF WireType
    <3>2. CASE msg \in Told(n, c)
      BY <1>2, <1>3, <2>2, <3>2
    <3>3. QED
      BY <1>2, <3>1, <3>2
  <2>3. QED
    BY <1>4, <2>1, <2>2 DEF WireType, Dropped
<1>6. CallType'
  BY <1>0, <1>4, EndKeeps, GotoKeeps DEF After
<1>7. QED
  BY <1>4, <1>5, <1>6 DEF TypeInv

LEMMA RemovalTypes ==
  ASSUME TypeInv, NEW n \in Node, NEW s \in Slot, RemovalLists(n, s) \/ RemovalWrites(n, s)
  PROVE  TypeInv'
<1>0. ClusterType /\ BoundType /\ WireType /\ CallType
  BY DEF TypeInv
<1> DEFINE c == call[n][s]
<1>1. CASE RemovalLists(n, s)
  <2>1. /\ BoundType' /\ (excused => excused') /\ ClusterType' /\ Removing(n, s, "list")
    BY <1>0, <1>1, FaultType, ClusterStays DEF RemovalLists
  <2>2. CASE After(n, s)
    BY <2>1, <2>2, AfterTypes
  <2>3. CASE ~After(n, s)
    <3> DEFINE r == [c EXCEPT !.pc = "write", !.seen = devices[n]]
    <3>1. /\ Has(n) /\ call' = [call EXCEPT ![n][s] = r] /\ UNCHANGED <<wire, history>>
      BY <1>1, <2>3 DEF RemovalLists
    <3>2. /\ c \in Call /\ WellFormed(n, c) /\ c.op \in {"remove", "kicked", "drop"}
      BY <2>1, RemovingCall
    <3>3. devices[n] \subseteq Node /\ n \in devices[n]
      BY <1>0, <3>1 DEF ClusterType, Has
    <3>4. /\ r \in Call /\ r.op = c.op /\ r.peer = c.peer /\ r.pc = "write"
          /\ r.seen = devices[n]
      BY <3>2, <3>3 DEF Call, Pc
    <3>5. call' \in [Node -> [Slot -> Call]] /\ call'[n][s] = r /\ OtherCalls(n, s)
      <4> HIDE DEF r
      <4> QED
        BY <1>0, <3>1, <3>4, CallSet DEF CallType
    <3>6. WellFormed(n, call[n][s])'
      <4> HIDE DEF r
      <4> QED
        BY <3>1, <3>2, <3>3, <3>4, <3>5 DEF WellFormed
    <3>7. CallType' /\ WireType'
      BY <1>0, <2>1, <3>1, <3>5, <3>6, CallsKeep, WireStays
    <3>8. QED
      BY <2>1, <3>7 DEF TypeInv
  <2>4. QED
    BY <2>2, <2>3
<1>2. CASE RemovalWrites(n, s)
  <2>1. /\ Removing(n, s, "write") /\ After(n, s)
        /\ UNCHANGED <<offers, pending, wireAcc, refresh>>
        /\ \/ Write(n, c.seen, c.seen \ {c.peer}) /\ UNCHANGED left
           \/ Fault /\ UNCHANGED devices
    BY <1>2 DEF RemovalWrites
  <2>2. c \in Call /\ WellFormed(n, c) /\ c.peer # n /\ c.pc = "write" /\ c.op # "accept"
    BY <2>1, RemovingCall
  <2>3. n \in c.seen \ {c.peer} /\ c.seen \ {c.peer} \in SUBSET Node
    BY <2>2 DEF WellFormed, Call
  <2>4. /\ devices' \in [Node -> SUBSET Node]
        /\ \A m \in Node : devices'[m] # {} => m \in devices'[m]
        /\ BoundType' /\ (excused => excused')
    <3>1. CASE Write(n, c.seen, c.seen \ {c.peer}) /\ UNCHANGED left
      BY <1>0, <2>3, <3>1, WriteType
    <3>2. CASE Fault /\ UNCHANGED devices
      BY <1>0, <3>2, FaultType DEF ClusterType
    <3>3. QED
      BY <2>1, <3>1, <3>2
  <2>5. ClusterType'
    BY <1>0, <2>1, <2>4 DEF ClusterType
  <2>6. QED
    BY <2>1, <2>4, <2>5, AfterTypes
<1>3. QED
  BY <1>1, <1>2

LEMMA ReceiveTypes ==
  ASSUME TypeInv, NEW msg \in wire, Receive(msg)
  PROVE  TypeInv'
<1>0. ClusterType /\ BoundType /\ WireType /\ CallType
  BY DEF TypeInv
<1>1. /\ msg \in Message /\ msg.from \in Node /\ msg.to \in Node
      /\ msg.type \in {"accept", "decline", "kick", "remove"}
      /\ msg.type = "remove" => msg.target \in Node
      /\ "wire" \in Slot
  BY <1>0, MessageParts DEF WireType, Slot
<1> DEFINE n == msg.to
<1>2. /\ wire' \subseteq wire /\ UNCHANGED <<cluster, pending, refresh, left, history, excused>>
      /\ wireAcc' \in {wireAcc, [wireAcc EXCEPT ![n] = @ \cup {msg.from}]}
  BY DEF Receive
<1>3. ClusterType'
  BY <1>0, <1>1, <1>2 DEF ClusterType
<1>4. WireType' /\ BoundType' /\ (excused => excused')
  BY <1>0, <1>2, WireShrinks, BoundStays
<1>5. CallType'
  <2>1. CASE msg.type = "accept"
    BY <1>0, <1>2, <2>1, CallsStay DEF Receive
  <2>2. CASE msg.type # "accept"
    <3>1. PICK op \in {"kicked", "drop"} :
            StartCall(n, op, Dropped(msg)) /\ (op = "kicked" <=> msg.type = "kick")
      BY <1>1, <2>2 DEF Receive, Dropped
    <3> DEFINE p == Dropped(msg)
               r == [NoCall EXCEPT !.op = op, !.peer = p, !.pc = "list"]
    <3>2. /\ p \in Node \ {n}
          /\ IF msg.type = "kick" THEN n \in out ELSE p \in out
      BY <1>0, <1>1, <2>2 DEF WireType, Dropped
    <3>3. /\ r \in Call /\ r.op = op /\ r.peer = p /\ r.pc = "list"
      <4> HIDE DEF p
      <4> QED
        BY <3>2 DEF NoCall, Call, Pc, WireOp
    <3>4. call' \in [Node -> [Slot -> Call]] /\ call'[n]["wire"] = r /\ OtherCalls(n, "wire")
      <4>1. call' = [call EXCEPT ![n]["wire"] = r]
        BY <3>1 DEF StartCall
      <4> HIDE DEF r, p
      <4> QED
        BY <1>0, <1>1, <3>3, <4>1, CallSet DEF CallType
    <3>5. WellFormed(n, call[n]["wire"])'
      <4> HIDE DEF r, p
      <4> QED
        BY <1>2, <3>1, <3>2, <3>3, <3>4 DEF WellFormed
    <3>6. QED
      BY <1>0, <1>1, <1>2, <3>4, <3>5, CallsKeep
  <2>3. QED
    BY <2>1, <2>2
<1>6. QED
  BY <1>3, <1>4, <1>5 DEF TypeInv

LEMMA TypeInit == Init => TypeInv
<1> SUFFICES ASSUME Init PROVE TypeInv
  OBVIOUS
<1>1. ClusterType /\ BoundType
  BY FoldersAssumption DEF Init, ClusterType, BoundType
<1>2. WireType
  BY DEF Init, WireType
<1>3. CallType
  <2>1. call \in [Node -> [Slot -> Call]] /\ \A n \in Node, s \in Slot : call[n][s] = NoCall
    BY NoCallType DEF Init
  <2>2. QED
    BY <2>1 DEF CallType, WellFormed, NoCall
<1>4. QED
  BY <1>1, <1>2, <1>3 DEF TypeInv

LEMMA TypeStep ==
  ASSUME TypeInv, [Next]_vars
  PROVE  TypeInv'
<1>1. CASE UNCHANGED vars
  BY <1>1, ClusterStays, BoundStays, WireStays, CallsStay DEF vars, TypeInv
<1>2. ASSUME NEW n \in Node, UiStep(n) \/ WireStep(n) PROVE TypeInv'
  BY <1>2, ListTypes, ShareTypes, AcceptListTypes, AcceptCreateTypes, AcceptAddTypes,
     AcceptTellTypes, DeclineTypes, LookTypes, RemovesFolderTypes, RemovalTypes
     DEF UiStep, WireStep, Slot
<1>3. QED
  BY <1>1, <1>2, RequestTypes, OutsideTypes, ReceiveTypes DEF Next, System

(* Every variable keeps its type: no message and no call is about no node, and a folder
   that is configured on a node has the node among its devices.                        *)
THEOREM TypeCorrect == Spec => []TypeOK
BY TypeInit, TypeStep, TypeParts, PTL DEF Spec

(***************************************************************************)
(* What is to be forgotten.  As long as no call has failed, no message was *)
(* lost and no folder was written from an old copy, whoever is still       *)
(* listed after a removal is about to be dropped: a notice is on its way,  *)
(* or its callback has not written yet; or the user has meanwhile accepted *)
(* an offer of it.                                                         *)
(***************************************************************************)
DropCalls == {"kicked", "drop"}
DropPc    == {"list", "write"}

Dropping(n, m) ==
  \/ \E msg \in wire : msg.type # "accept" /\ msg.to = n /\ Dropped(msg) = m
  \/ /\ call[n]["wire"].op \in DropCalls /\ call[n]["wire"].pc \in DropPc
     /\ call[n]["wire"].peer = m

Accepting(n, m) == call[n]["ui"].op = "accept" /\ m \in call[n]["ui"].others

Forgetting ==
  ~excused =>
    \A r \in forget : r[2] \in devices[r[1]] => Dropping(r[1], r[2]) \/ Accepting(r[1], r[2])

LEMMA FaultStays ==
  ASSUME [Next]_vars, ~excused'
  PROVE  ~excused
<1>1. ASSUME NEW n \in Node, UiStep(n) PROVE ~excused
  <2>1. CASE \/ ShareLists(n) \/ ShareWrites(n) \/ EditLists(n) \/ EditWrites(n)
             \/ RemoveLooks(n) \/ LeaveLooks(n) \/ RemovesFolder(n, "ui")
    BY <2>1 DEF ShareLists, ShareWrites, EditLists, EditWrites, RemoveLooks, LeaveLooks,
       RemovesFolder, Write, Fault, NoFault
  <2>2. CASE RemovalLists(n, "ui") \/ RemovalWrites(n, "ui")
    BY <2>2 DEF RemovalLists, RemovalWrites, Write, Fault, NoFault
  <2>3. CASE \/ AcceptLists(n) \/ AcceptCreates(n) \/ AcceptTells(n)
             \/ \E p \in Node : AcceptAddLists(n, p) \/ AcceptAdds(n, p)
    BY <2>3 DEF AcceptLists, AcceptCreates, AcceptTells, AcceptAddLists, AcceptAdds,
       RefreshPending, Write, Fault, NoFault
  <2>4. CASE Declines(n) \/ DeclineRefreshes(n)
    BY <2>4 DEF Declines, DeclineRefreshes, RefreshPending, Fault, NoFault
  <2>5. QED
    BY <1>1, <2>1, <2>2, <2>3, <2>4 DEF UiStep
<1>2. ASSUME NEW n \in Node, WireStep(n) PROVE ~excused
  BY <1>2 DEF WireStep, RemovalLists, RemovalWrites, KickedLooks, RemovesFolder, Write, Fault,
     NoFault
<1>3. CASE UNCHANGED vars \/ \E n \in Node : Request(n) \/ Pipeline(n)
  BY <1>3 DEF vars, Request, Begin, Pipeline
<1>4. CASE \E n, m \in Node : Exchange(n, m) \/ RefreshFails(n, m)
  BY <1>4 DEF Exchange, RefreshFails, Fault
<1>5. CASE \E msg \in wire : Receive(msg) \/ Lose(msg)
  BY <1>5 DEF Receive, Lose
<1>6. QED
  BY <1>1, <1>2, <1>3, <1>4, <1>5 DEF Next, System

(* The calls go on with what they are to drop and to accept. *)
AcceptGoesOn(n) ==
  call[n]["ui"].op = "accept" =>
    call'[n]["ui"].op = "accept" /\ call[n]["ui"].others \subseteq call'[n]["ui"].others

DropGoesOn(n) ==
  call[n]["wire"].op \in DropCalls /\ call[n]["wire"].pc \in DropPc =>
    /\ call'[n]["wire"].op \in DropCalls /\ call'[n]["wire"].pc \in DropPc
    /\ call'[n]["wire"].peer = call[n]["wire"].peer

GoesOn == \A n \in Node : AcceptGoesOn(n) /\ DropGoesOn(n)

(* A step that adds no device, and nothing to be forgotten. *)
LEMMA ForgettingAside ==
  ASSUME TypeInv, Forgetting, ~excused, GoesOn, wire \subseteq wire', forget' \subseteq forget,
         \A n \in Node : devices'[n] \subseteq devices[n]
  PROVE  Forgetting'
<1> SUFFICES ASSUME NEW r \in forget', r[2] \in devices'[r[1]]
             PROVE  Dropping(r[1], r[2])' \/ Accepting(r[1], r[2])'
  BY DEF Forgetting
<1>1. r[1] \in Node /\ r[2] \in Node
  BY DEF TypeInv, WireType
<1>2. Dropping(r[1], r[2]) \/ Accepting(r[1], r[2])
  BY <1>1 DEF Forgetting
<1>3. AcceptGoesOn(r[1]) /\ DropGoesOn(r[1])
  BY <1>1 DEF GoesOn
<1>4. QED
  BY <1>2, <1>3 DEF Dropping, Accepting, AcceptGoesOn, DropGoesOn

(* A step of one call: the other calls go on. *)
LEMMA OthersGoOn ==
  ASSUME NEW n \in Node, NEW s \in Slot, OtherCalls(n, s)
  PROVE  /\ \A m \in Node \ {n} : AcceptGoesOn(m) /\ DropGoesOn(m)
         /\ s = "ui" => DropGoesOn(n) /\ (AcceptGoesOn(n) => GoesOn)
         /\ s = "wire" => AcceptGoesOn(n) /\ (DropGoesOn(n) => GoesOn)
<1>1. \A m \in Node \ {n} : AcceptGoesOn(m) /\ DropGoesOn(m)
  BY DEF OtherCalls, AcceptGoesOn, DropGoesOn, Slot
<1>2. s = "ui" => DropGoesOn(n)
  BY DEF OtherCalls, DropGoesOn, Slot
<1>3. s = "wire" => AcceptGoesOn(n)
  BY DEF OtherCalls, AcceptGoesOn, Slot
<1>4. QED
  BY <1>1, <1>2, <1>3 DEF GoesOn

(* What a step does to its own call. *)
LEMMA UiCall ==
  ASSUME TypeInv, NEW n \in Node, UiStep(n) \/ Request(n), ~excused'
  PROVE  /\ OtherCalls(n, "ui")
         /\ ~AcceptTells(n) => AcceptGoesOn(n)
<1>0. /\ call \in [Node -> [Slot -> Call]] /\ "ui" \in Slot /\ call[n]["ui"] \in Call
      /\ WellFormed(n, call[n]["ui"])
  BY DEF TypeInv, CallType, Slot
<1> DEFINE c == call[n]["ui"]
<1>1. CASE End(n, "ui") /\ c.op # "accept"
  BY <1>0, <1>1, EndSet DEF AcceptGoesOn
<1>2. ASSUME NEW pc \in Pc, Goto(n, "ui", pc)
      PROVE  OtherCalls(n, "ui") /\ AcceptGoesOn(n)
  <2>1. /\ call'[n]["ui"] = [c EXCEPT !.pc = pc] /\ OtherCalls(n, "ui")
    BY <1>0, <1>2, GotoSet
  <2>2. QED
    BY <1>0, <2>1 DEF AcceptGoesOn, Call
<1>3. ASSUME NEW r, call' = [call EXCEPT ![n]["ui"] = r],
             c.op = "accept" => r.op = "accept" /\ c.others \subseteq r.others
      PROVE  OtherCalls(n, "ui") /\ AcceptGoesOn(n)
  <2>1. call'[n]["ui"] = r /\ OtherCalls(n, "ui")
    BY <1>0, <1>3 DEF OtherCalls
  <2>2. QED
    BY <1>3, <2>1 DEF AcceptGoesOn
<1>4. CASE Request(n)
  <2>1. PICK op \in UiOp, p \in Node, pc \in Pc : Begin(n, op, p, pc)
    <3>1. pending[n] \subseteq Node /\ devices[n] \subseteq Node
      BY DEF TypeInv, ClusterType
    <3>2. QED
      BY <1>4, <3>1 DEF Request, UiOp, Pc
  <2> DEFINE r == [NoCall EXCEPT !.op = op, !.peer = p, !.pc = pc]
  <2>2. call' = [call EXCEPT ![n]["ui"] = r] /\ c = NoCall
    BY <2>1 DEF Begin
  <2>3. c.op # "accept"
    BY <2>2 DEF NoCall
  <2>4. QED
    <3> HIDE DEF r
    <3> QED
      BY <1>3, <2>2, <2>3
<1>5. CASE ShareLists(n) \/ EditLists(n)
  <2>1. c.op # "accept"
    BY <1>5 DEF ShareLists, EditLists, At
  <2>2. CASE End(n, "ui")
    BY <1>1, <2>1, <2>2, <1>0, EndSet, <1>5 DEF ShareLists, EditLists, AcceptTells, At
  <2>3. CASE ~End(n, "ui")
    <3> DEFINE r == [c EXCEPT !.pc = "write", !.seen = devices[n]]
    <3>1. call' = [call EXCEPT ![n]["ui"] = r]
      BY <1>0, <1>5, <2>3 DEF ShareLists, EditLists
    <3>2. QED
      BY <1>3, <2>1, <3>1
  <2>4. QED
    BY <2>2, <2>3
<1>6. CASE ShareWrites(n) \/ EditWrites(n) \/ DeclineRefreshes(n)
  <2>1. c.op # "accept" /\ End(n, "ui")
    BY <1>6 DEF ShareWrites, EditWrites, DeclineRefreshes, At
  <2>2. QED
    BY <1>0, <1>1, <2>1, EndSet
<1>7. CASE AcceptLists(n)
  <2> DEFINE all == {c.peer} \cup pending[n]
             r == [c EXCEPT !.pc = IF Has(n) THEN "list" ELSE "write", !.others = all,
                            !.rest = IF Has(n) THEN all ELSE {}]
  <2>1. call' = [call EXCEPT ![n]["ui"] = r] /\ c.op = "accept" /\ c.pc = "begin"
    BY <1>7 DEF AcceptLists, At, Fault
  <2>2. c.others = {}
    BY <1>0, <2>1 DEF WellFormed
  <2>3. r.op = "accept"
    BY <1>0, <2>1 DEF Call
  <2>4. QED
    <3> HIDE DEF r
    <3> QED
      BY <1>3, <2>1, <2>2, <2>3
<1>8. CASE AcceptCreates(n)
  BY <1>2, <1>8 DEF AcceptCreates, Fault, Pc
<1>9. CASE \E p \in Node : AcceptAddLists(n, p)
  <2>1. PICK p \in Node : AcceptAddLists(n, p)
    BY <1>9
  <2> DEFINE q == [c EXCEPT !.pc = "write", !.peer = p, !.seen = devices[n]]
             r == [c EXCEPT !.pc = Added(n, p), !.rest = @ \ {p}]
  <2>2. call' = [call EXCEPT ![n]["ui"] = q] \/ call' = [call EXCEPT ![n]["ui"] = r]
    BY <2>1 DEF AcceptAddLists
  <2>3. /\ q.op = c.op /\ q.others = c.others /\ r.op = c.op /\ r.others = c.others
    BY <1>0 DEF Call
  <2>4. QED
    <3> HIDE DEF q, r
    <3> QED
      BY <1>3, <2>2, <2>3
<1>10. CASE \E p \in Node : AcceptAdds(n, p)
  <2>1. PICK p \in Node : AcceptAdds(n, p)
    BY <1>10
  <2> DEFINE r == [c EXCEPT !.pc = Added(n, p), !.rest = @ \ {p}, !.seen = {}]
  <2>2. call' = [call EXCEPT ![n]["ui"] = r]
    BY <2>1 DEF AcceptAdds
  <2>3. r.op = c.op /\ r.others = c.others
    BY <1>0 DEF Call
  <2>4. QED
    <3> HIDE DEF r
    <3> QED
      BY <1>3, <2>2, <2>3
<1>11. CASE AcceptTells(n)
  BY <1>0, <1>11, EndSet DEF AcceptTells
<1>12. CASE Declines(n) \/ LeaveLooks(n)
  BY <1>2, <1>12 DEF Declines, LeaveLooks, Pc
<1>13. CASE RemoveLooks(n)
  <2>1. c.op = "remove"
    BY <1>13 DEF RemoveLooks, At
  <2>2. CASE Goto(n, "ui", "list")
    BY <1>2, <2>2 DEF Pc
  <2>3. CASE ~Goto(n, "ui", "list")
    <3> DEFINE r == [c EXCEPT !.pc = "list", !.others = Participants(n)]
    <3>1. call' = [call EXCEPT ![n]["ui"] = r]
      BY <1>0, <1>13, <2>3 DEF RemoveLooks
    <3>2. QED
      BY <1>3, <2>1, <3>1
  <2>4. QED
    BY <2>2, <2>3
<1>14. CASE RemovesFolder(n, "ui")
  <2>1. End(n, "ui") /\ c.op # "accept"
    BY <1>0, <1>14 DEF RemovesFolder, WellFormed
  <2>2. QED
    BY <1>0, <2>1, EndSet DEF AcceptGoesOn
<1>15. CASE RemovalLists(n, "ui") \/ RemovalWrites(n, "ui")
  <2>1. c.op \in {"remove", "kicked", "drop"}
    BY <1>15 DEF RemovalLists, RemovalWrites, Removing
  <2>2. CASE After(n, "ui")
    BY <1>0, <1>1, <1>2, <2>1, <2>2, EndSet DEF After, Pc
  <2>3. CASE ~After(n, "ui")
    <3> DEFINE r == [c EXCEPT !.pc = "write", !.seen = devices[n]]
    <3>1. call' = [call EXCEPT ![n]["ui"] = r]
      BY <1>0, <1>15, <2>3 DEF RemovalLists, RemovalWrites
    <3>2. QED
      BY <1>3, <2>1, <3>1
  <2>4. QED
    BY <2>2, <2>3
<1>16. QED
  BY <1>4, <1>5, <1>6, <1>7, <1>8, <1>9, <1>10, <1>11, <1>12, <1>13, <1>14, <1>15 DEF UiStep

LEMMA WireCall ==
  ASSUME TypeInv, NEW n \in Node, WireStep(n), ~excused'
  PROVE  /\ OtherCalls(n, "wire")
         /\ KickedLooks(n) \/ RemovesFolder(n, "wire") \/ ~After(n, "wire") => DropGoesOn(n)
<1>0. /\ call \in [Node -> [Slot -> Call]] /\ "wire" \in Slot /\ call[n]["wire"] \in Call
  BY DEF TypeInv, CallType, Slot
<1> DEFINE c == call[n]["wire"]
<1>1. CASE End(n, "wire")
  <2>1. OtherCalls(n, "wire")
    BY <1>0, <1>1, EndSet
  <2>2. CASE RemovesFolder(n, "wire") \/ KickedLooks(n)
    BY <2>1, <2>2 DEF RemovesFolder, KickedLooks, At, DropGoesOn, DropPc
  <2>3. CASE /\ RemovalLists(n, "wire") \/ RemovalWrites(n, "wire")
             /\ ~KickedLooks(n) /\ ~RemovesFolder(n, "wire")
    <3>1. After(n, "wire")
      <4>1. CASE RemovalWrites(n, "wire")
        BY <4>1 DEF RemovalWrites
      <4>2. CASE RemovalLists(n, "wire") /\ ~After(n, "wire")
        <5> DEFINE r == [c EXCEPT !.pc = "write", !.seen = devices[n]]
        <5>1. /\ call' = [call EXCEPT ![n]["wire"] = r] /\ c.op # "none"
          BY <1>0, <4>2 DEF RemovalLists, Removing
        <5>2. r.op = c.op
          BY <1>0 DEF Call
        <5>3. call'[n]["wire"] = r /\ call'[n]["wire"] = NoCall
          <6> HIDE DEF r
          <6> QED
            BY <1>0, <1>1, <5>1, EndSet
        <5>4. QED
          <6> HIDE DEF r
          <6> QED
            BY <5>1, <5>2, <5>3 DEF NoCall
      <4>3. QED
        BY <2>3, <4>1, <4>2
    <3>2. QED
      BY <2>1, <2>3, <3>1
  <2>4. QED
    BY <2>2, <2>3 DEF WireStep
<1>2. ASSUME NEW pc \in Pc, Goto(n, "wire", pc)
      PROVE  OtherCalls(n, "wire")
  BY <1>0, <1>2, GotoSet
<1>3. CASE ~End(n, "wire") /\ (KickedLooks(n) \/ RemovesFolder(n, "wire"))
  <2>1. Goto(n, "wire", "leave") /\ c.pc = "look"
    BY <1>3 DEF KickedLooks, RemovesFolder, At
  <2>2. QED
    BY <1>2, <2>1 DEF Pc, DropGoesOn, DropPc
<1>4. CASE ~End(n, "wire") /\ After(n, "wire") /\ ~KickedLooks(n) /\ ~RemovesFolder(n, "wire")
  BY <1>2, <1>4 DEF After, Pc
<1>5. CASE ~After(n, "wire") /\ (RemovalLists(n, "wire") \/ RemovalWrites(n, "wire"))
  <2> DEFINE r == [c EXCEPT !.pc = "write", !.seen = devices[n]]
  <2>1. call' = [call EXCEPT ![n]["wire"] = r]
    BY <1>0, <1>5 DEF RemovalLists, RemovalWrites
  <2>2. /\ r.op = c.op /\ r.pc = "write" /\ r.peer = c.peer
    BY <1>0 DEF Call
  <2>3. call'[n]["wire"] = r /\ OtherCalls(n, "wire")
    <3> HIDE DEF r
    <3> QED
      BY <1>0, <2>1 DEF OtherCalls
  <2>4. QED
    <3> HIDE DEF r
    <3> QED
      BY <2>2, <2>3 DEF DropGoesOn, DropPc
<1>6. QED
  BY <1>1, <1>3, <1>4, <1>5 DEF WireStep

(* What a removal writes, and whose notice it sends. *)
LEMMA RemovalEffect ==
  ASSUME TypeInv, NEW n \in Node, NEW s \in Slot, RemovalLists(n, s) \/ RemovalWrites(n, s),
         After(n, s), ~excused'
  PROVE  LET c == call[n][s]
         IN  /\ c \in Call /\ c.peer \in Node \ {n} /\ c.others \subseteq Node
             /\ c.op \in {"remove", "kicked", "drop"}
             /\ c.op = "kicked" => n \in out
             /\ c.op = "drop" => c.peer \in out
             /\ \A m \in Node \ {n} : devices'[m] = devices[m]
             /\ devices'[n] = devices[n] \ {c.peer}
             /\ OtherCalls(n, s) /\ UNCHANGED <<offers, refresh>>
<1>0. ClusterType /\ call \in [Node -> [Slot -> Call]]
  BY DEF TypeInv, CallType
<1> DEFINE c == call[n][s]
<1>1. /\ c \in Call /\ WellFormed(n, c) /\ c.peer \in Node \ {n} /\ c.others \subseteq Node
      /\ c.op \in {"remove", "kicked", "drop"}
  BY RemovingCall DEF RemovalLists, RemovalWrites, Call
<1>2. OtherCalls(n, s)
  BY <1>0, EndSet, GotoSet DEF After, Pc
<1>3. CASE RemovalLists(n, s)
  <2>1. UNCHANGED cluster
    BY <1>3 DEF RemovalLists
  <2>2. CASE ~Has(n)
    BY <1>1, <1>2, <1>3, <2>1, <2>2 DEF RemovalLists, Has, WellFormed
  <2>3. CASE Has(n)
    <3> DEFINE r == [c EXCEPT !.pc = "write", !.seen = devices[n]]
    <3>1. call' = [call EXCEPT ![n][s] = r] /\ c.pc = "list"
      BY <1>0, <1>3, <2>3 DEF RemovalLists, Fault, Removing
    <3>2. r.pc = "write" /\ call'[n][s] = r
      BY <1>0, <1>1, <3>1 DEF Call
    <3>3. call'[n][s].pc \in {"look", "idle"}
      <4>1. CASE End(n, s)
        BY <1>0, <4>1, EndSet DEF NoCall
      <4>2. CASE Goto(n, s, "look")
        <5>1. call'[n][s] = [c EXCEPT !.pc = "look"]
          BY <1>0, <4>2, GotoSet DEF Pc
        <5>2. QED
          BY <1>1, <5>1 DEF Call
      <4>3. QED
        BY <4>1, <4>2 DEF After
    <3>4. QED
      BY <3>2, <3>3
  <2>4. QED
    BY <2>2, <2>3
<1>4. CASE RemovalWrites(n, s)
  <2>1. Write(n, c.seen, c.seen \ {c.peer}) /\ UNCHANGED <<offers, refresh>>
    BY <1>4 DEF RemovalWrites, Fault
  <2>2. /\ devices[n] = c.seen /\ \A m \in Node \ {n} : devices'[m] = devices[m]
        /\ devices'[n] = IF Has(n) THEN c.seen \ {c.peer} ELSE {}
    BY <1>0, <2>1, WriteEffect
  <2>3. devices'[n] = devices[n] \ {c.peer}
    BY <2>2 DEF Has
  <2>4. QED
    BY <1>1, <1>2, <2>1, <2>2, <2>3 DEF WellFormed
<1>5. QED
  BY <1>3, <1>4

LEMMA ForgettingAfterRemoval ==
  ASSUME TypeInv, Forgetting, NEW n \in Node, NEW s \in Slot,
         RemovalLists(n, s) \/ RemovalWrites(n, s), After(n, s), ~excused, ~excused'
  PROVE  Forgetting'
<1> DEFINE c == call[n][s]
<1>1. /\ c \in Call /\ c.peer \in Node \ {n} /\ c.others \subseteq Node
      /\ c.op \in {"remove", "kicked", "drop"}
      /\ \A m \in Node \ {n} : devices'[m] = devices[m]
      /\ devices'[n] = devices[n] \ {c.peer} /\ OtherCalls(n, s)
  BY RemovalEffect
<1>2. /\ wire' = wire \cup Told(n, c)
      /\ c.op = "remove" =>
           forget' = forget \cup {<<c.peer, n>>}
                            \cup (({n} \cup c.others) \ {c.peer}) \X {c.peer}
      /\ c.op # "remove" => forget' = forget
  BY DEF After
<1>3. c.op = "remove" =>
        /\ \E msg \in Told(n, c) : msg.type # "accept" /\ msg.to = c.peer /\ Dropped(msg) = n
        /\ \A m \in c.others \ {c.peer} : \E msg \in Told(n, c) :
             msg.type # "accept" /\ msg.to = m /\ Dropped(msg) = c.peer
  BY <1>1, ToldEffect
<1> SUFFICES ASSUME NEW r \in forget', r[2] \in devices'[r[1]]
             PROVE  Dropping(r[1], r[2])' \/ Accepting(r[1], r[2])'
  BY DEF Forgetting
<1>4. CASE r \in forget
  <2>1. r[1] \in Node /\ r[2] \in Node
    BY <1>4 DEF TypeInv, WireType
  <2>2. r[2] \in devices[r[1]] /\ (r[1] = n => r[2] # c.peer)
    BY <1>1, <2>1
  <2>3. Dropping(r[1], r[2]) \/ Accepting(r[1], r[2])
    BY <1>4, <2>2 DEF Forgetting
  <2>4. CASE Accepting(r[1], r[2])
    <3>1. r[1] # n \/ s # "ui"
      BY <1>1, <2>4 DEF Accepting
    <3>2. call'[r[1]]["ui"] = call[r[1]]["ui"]
      BY <1>1, <2>1, <3>1 DEF OtherCalls, Slot
    <3>3. QED
      BY <2>4, <3>2 DEF Accepting
  <2>5. CASE Dropping(r[1], r[2])
    <3>1. CASE \E msg \in wire : msg.type # "accept" /\ msg.to = r[1] /\ Dropped(msg) = r[2]
      BY <1>2, <3>1 DEF Dropping
    <3>2. CASE call[r[1]]["wire"].op \in DropCalls /\ call[r[1]]["wire"].pc \in DropPc
               /\ call[r[1]]["wire"].peer = r[2]
      <4>1. r[1] # n \/ s # "wire"
        BY <2>2, <3>2
      <4>2. call'[r[1]]["wire"] = call[r[1]]["wire"]
        BY <1>1, <2>1, <4>1 DEF OtherCalls, Slot
      <4>3. QED
        BY <3>2, <4>2 DEF Dropping
    <3>3. QED
      BY <2>5, <3>1, <3>2 DEF Dropping
  <2>6. QED
    BY <2>3, <2>4, <2>5
<1>5. CASE r \notin forget
  <2>1. /\ c.op = "remove"
        /\ r = <<c.peer, n>>
           \/ (r[2] = c.peer /\ r[1] \in ({n} \cup c.others) \ {c.peer})
    BY <1>2, <1>5
  <2>2. r[2] = c.peer => r[1] # n
    BY <1>1
  <2>3. \E msg \in Told(n, c) : msg.type # "accept" /\ msg.to = r[1] /\ Dropped(msg) = r[2]
    BY <1>1, <1>3, <2>1, <2>2
  <2>4. QED
    BY <1>2, <2>3 DEF Dropping
<1>6. QED
  BY <1>4, <1>5

(* Neither slot of a node stops to drop, or to accept, what it has begun with. *)
LEMMA UiGoesOn ==
  ASSUME TypeInv, NEW n \in Node, UiStep(n) \/ Request(n), ~AcceptTells(n), ~excused'
  PROVE  GoesOn
BY UiCall, OthersGoOn DEF Slot

LEMMA WireGoesOn ==
  ASSUME TypeInv, NEW n \in Node, WireStep(n), ~excused',
         KickedLooks(n) \/ RemovesFolder(n, "wire") \/ ~After(n, "wire")
  PROVE  GoesOn
BY WireCall, OthersGoOn DEF Slot

(* What a share, an edit and an accept do to the folder. *)
LEMMA FolderWritten ==
  ASSUME TypeInv, NEW n \in Node, ~excused'
  PROVE  /\ ShareWrites(n) =>
              \E p \in Node \ {n} :
                /\ forget' = forget \ {<<n, p>>}
                /\ \A m \in Node \ {n} : devices'[m] = devices[m]
                /\ \/ ~Has(n) /\ devices'[n] = {}
                   \/ Has(n) /\ devices'[n] = devices[n] \cup {p}
                /\ p \notin devices[n] /\ Has(n)
                   => \A m \in devices'[n] \ {n} : <<n, m>> \in refresh'
         /\ EditWrites(n) => \A m \in Node : devices'[m] = devices[m]
         /\ \A p \in Node : AcceptAdds(n, p) =>
              /\ p \in call[n]["ui"].others
              /\ \A m \in Node \ {n} : devices'[m] = devices[m]
              /\ \/ ~Has(n) /\ devices'[n] = {}
                 \/ Has(n) /\ devices'[n] = devices[n] \cup {p}
         /\ AcceptCreates(n) =>
              /\ ~Has(n) /\ devices'[n] = {n} \cup call[n]["ui"].others
              /\ \A m \in Node \ {n} : devices'[m] = devices[m]
<1>0. ClusterType /\ CallType /\ call[n]["ui"] \in Call /\ WellFormed(n, call[n]["ui"])
  BY DEF TypeInv, CallType, Slot
<1> DEFINE c == call[n]["ui"]
<1>1. ASSUME ShareWrites(n)
      PROVE  \E p \in Node \ {n} :
                /\ forget' = forget \ {<<n, p>>}
                /\ \A m \in Node \ {n} : devices'[m] = devices[m]
                /\ \/ ~Has(n) /\ devices'[n] = {}
                   \/ Has(n) /\ devices'[n] = devices[n] \cup {p}
                /\ p \notin devices[n] /\ Has(n)
                   => \A m \in devices'[n] \ {n} : <<n, m>> \in refresh'
  <2>1. /\ Write(n, c.seen, c.seen \cup {c.peer}) /\ forget' = forget \ {<<n, c.peer>>}
        /\ refresh' = refresh \cup RefreshAll(n, c.peer, c.seen)
        /\ c.op = "share"
    BY <1>1 DEF ShareWrites, Fault, At
  <2>2. c.peer \in Node \ {n}
    BY <1>0, <2>1 DEF WellFormed
  <2>3. /\ devices[n] = c.seen /\ \A m \in Node \ {n} : devices'[m] = devices[m]
        /\ devices'[n] = IF Has(n) THEN c.seen \cup {c.peer} ELSE {}
    BY <1>0, <2>1, WriteEffect
  <2>4. c.peer \notin devices[n] /\ Has(n) => \A m \in devices'[n] \ {n} : <<n, m>> \in refresh'
    BY <2>1, <2>3 DEF RefreshAll
  <2>5. QED
    BY <2>1, <2>2, <2>3, <2>4
<1>2. ASSUME EditWrites(n) PROVE \A m \in Node : devices'[m] = devices[m]
  <2>1. Write(n, c.seen, c.seen)
    BY <1>2 DEF EditWrites, Fault
  <2>2. QED
    BY <1>0, <2>1, WriteEffect DEF Has
<1>3. ASSUME NEW p \in Node, AcceptAdds(n, p)
      PROVE  /\ p \in call[n]["ui"].others
             /\ \A m \in Node \ {n} : devices'[m] = devices[m]
             /\ \/ ~Has(n) /\ devices'[n] = {}
                \/ Has(n) /\ devices'[n] = devices[n] \cup {p}
  <2>1. /\ Write(n, c.seen, c.seen \cup {p}) /\ p \in c.rest /\ c.op = "accept"
    BY <1>3 DEF AcceptAdds, Fault, At
  <2>2. /\ devices[n] = c.seen /\ \A m \in Node \ {n} : devices'[m] = devices[m]
        /\ devices'[n] = IF Has(n) THEN c.seen \cup {p} ELSE {}
    BY <1>0, <2>1, WriteEffect
  <2>3. QED
    BY <1>0, <2>1, <2>2 DEF WellFormed
<1>4. ASSUME AcceptCreates(n)
      PROVE  /\ ~Has(n) /\ devices'[n] = {n} \cup call[n]["ui"].others
             /\ \A m \in Node \ {n} : devices'[m] = devices[m]
  BY <1>0, <1>4 DEF AcceptCreates, NewDevices, Fault, ClusterType
<1>5. QED
  BY <1>1, <1>2, <1>3, <1>4

LEMMA ForgettingReceive ==
  ASSUME TypeInv, Forgetting, NEW msg \in wire, Receive(msg), ~excused
  PROVE  Forgetting'
<1>1. /\ msg.to \in Node /\ msg.type \in {"accept", "decline", "kick", "remove"}
      /\ "wire" \in Slot /\ call \in [Node -> [Slot -> Call]]
  BY MessageParts DEF TypeInv, WireType, CallType, Slot
<1> DEFINE n == msg.to
<1>2. /\ wire' = wire \ {msg} /\ UNCHANGED <<devices, forget>> /\ call[n]["wire"] = NoCall
  BY DEF Receive
<1> SUFFICES ASSUME NEW r \in forget', r[2] \in devices'[r[1]]
             PROVE  Dropping(r[1], r[2])' \/ Accepting(r[1], r[2])'
  BY DEF Forgetting
<1>3. r[1] \in Node /\ (Dropping(r[1], r[2]) \/ Accepting(r[1], r[2]))
  BY <1>2 DEF TypeInv, WireType, Forgetting
<1>4. CASE msg.type = "accept"
  BY <1>2, <1>3, <1>4 DEF Receive, Dropping, Accepting
<1>5. CASE msg.type # "accept"
  <2>1. PICK op \in DropCalls : StartCall(n, op, Dropped(msg))
    BY <1>1, <1>5 DEF Receive, Dropped, DropCalls
  <2> DEFINE q == [NoCall EXCEPT !.op = op, !.peer = Dropped(msg), !.pc = "list"]
  <2>2. q.op \in DropCalls /\ q.pc \in DropPc /\ q.peer = Dropped(msg)
    BY DEF NoCall, DropPc
  <2>3. call'[n]["wire"] = q /\ OtherCalls(n, "wire")
    <3>1. call' = [call EXCEPT ![n]["wire"] = q]
      BY <2>1 DEF StartCall
    <3> HIDE DEF q
    <3> QED
      BY <1>1, <3>1 DEF OtherCalls
  <2> HIDE DEF q
  <2>4. CASE Accepting(r[1], r[2])
    <3>1. call'[r[1]]["ui"] = call[r[1]]["ui"]
      BY <1>3, <2>3 DEF OtherCalls, Slot
    <3>2. QED
      BY <2>4, <3>1 DEF Accepting
  <2>5. CASE Dropping(r[1], r[2])
    <3>1. CASE r[1] = n /\ r[2] = Dropped(msg)
      BY <2>2, <2>3, <3>1 DEF Dropping
    <3>2. CASE r[1] # n
      <4>1. call'[r[1]]["wire"] = call[r[1]]["wire"]
        BY <1>1, <1>3, <2>3, <3>2 DEF OtherCalls
      <4>2. QED
        BY <1>2, <2>5, <3>2, <4>1 DEF Dropping
    <3>3. CASE r[1] = n /\ r[2] # Dropped(msg)
      <4>1. \E other \in wire : other.type # "accept" /\ other.to = r[1] /\ Dropped(other) = r[2]
        BY <1>2, <2>5, <3>3 DEF Dropping, NoCall, DropCalls
      <4>2. QED
        BY <1>2, <3>3, <4>1 DEF Dropping
    <3>4. QED
      BY <3>1, <3>2, <3>3
  <2>6. QED
    BY <1>3, <2>4, <2>5
<1>6. QED
  BY <1>4, <1>5

LEMMA ForgettingStep ==
  ASSUME TypeInv, Forgetting, [Next]_vars
  PROVE  Forgetting'
<1> SUFFICES ASSUME ~excused' PROVE Forgetting'
  BY DEF Forgetting
<1>0. ~excused /\ ClusterType /\ "ui" \in Slot /\ "wire" \in Slot
      /\ forget \subseteq Node \X Node
  BY FaultStays DEF TypeInv, WireType, Slot
<1>1. CASE \/ UNCHANGED vars \/ \E n \in Node : Pipeline(n)
           \/ \E n, m \in Node : Exchange(n, m) \/ RefreshFails(n, m)
  <2>1. UNCHANGED <<call, wire, forget, devices>>
    BY <1>1 DEF vars, Pipeline, Exchange, RefreshFails
  <2>2. GoesOn
    BY <2>1 DEF GoesOn, AcceptGoesOn, DropGoesOn
  <2>3. QED
    BY <1>0, <2>1, <2>2, ForgettingAside
<1>2. CASE \E msg \in wire : Receive(msg) \/ Lose(msg)
  BY <1>0, <1>2, ForgettingReceive DEF Lose
<1>3. ASSUME NEW n \in Node, Request(n) PROVE Forgetting'
  <2>1. UNCHANGED <<wire, forget, devices>>
    BY <1>3 DEF Request, Begin
  <2>2. call[n]["ui"] = NoCall
    BY <1>3 DEF Request, Begin
  <2>3. ~AcceptTells(n)
    BY <2>2 DEF AcceptTells, At, NoCall
  <2>4. GoesOn
    BY <1>3, <2>3, UiGoesOn
  <2>5. QED
    BY <1>0, <2>1, <2>4, ForgettingAside
<1>4. ASSUME NEW n \in Node, UiStep(n) PROVE Forgetting'
  <2>1. CASE \/ ShareLists(n) \/ EditLists(n) \/ EditWrites(n) \/ AcceptLists(n)
             \/ \E p \in Node : AcceptAddLists(n, p)
             \/ DeclineRefreshes(n) \/ RemoveLooks(n) \/ RemovesFolder(n, "ui")
             \/ (RemovalLists(n, "ui") /\ ~After(n, "ui"))
    <3>1. UNCHANGED <<wire, forget>>
      BY <2>1 DEF ShareLists, EditLists, EditWrites, AcceptLists, AcceptAddLists,
         DeclineRefreshes, RemoveLooks, RemovesFolder, RemovalLists
    <3>2. \A m \in Node : devices'[m] \subseteq devices[m]
      <4>1. CASE EditWrites(n)
        BY <1>0, <4>1, FolderWritten
      <4>2. CASE RemovesFolder(n, "ui")
        BY SMTT(60), <1>0, <4>2 DEF RemovesFolder, ClusterType
      <4>3. CASE ~EditWrites(n) /\ ~RemovesFolder(n, "ui")
        BY <2>1, <4>3 DEF ShareLists, EditLists, AcceptLists, AcceptAddLists,
           DeclineRefreshes, RemoveLooks, RemovalLists
      <4>4. QED
        BY <4>1, <4>2, <4>3
    <3>3. ~AcceptTells(n)
      BY <2>1 DEF ShareLists, EditLists, EditWrites, AcceptLists, AcceptAddLists,
         DeclineRefreshes, RemoveLooks, RemovesFolder, RemovalLists, Removing, AcceptTells, At
    <3>4. GoesOn
      BY <1>4, <3>3, UiGoesOn
    <3>5. QED
      BY SMTT(60), <1>0, <3>1, <3>2, <3>4, ForgettingAside
  <2>2. CASE (RemovalLists(n, "ui") /\ After(n, "ui")) \/ RemovalWrites(n, "ui")
    BY <1>0, <2>2, ForgettingAfterRemoval DEF RemovalWrites
  <2>3. CASE ShareWrites(n)
    <3>1. PICK p \in Node \ {n} :
            /\ forget' = forget \ {<<n, p>>}
            /\ \A m \in Node \ {n} : devices'[m] = devices[m]
            /\ devices'[n] \subseteq devices[n] \cup {p}
      BY <2>3, FolderWritten
    <3>2. UNCHANGED wire /\ GoesOn
      BY <1>4, <2>3, UiGoesOn DEF ShareWrites, AcceptTells, At
    <3>3. ASSUME NEW r \in forget', r[2] \in devices'[r[1]]
          PROVE  Dropping(r[1], r[2])' \/ Accepting(r[1], r[2])'
      <4>1. r \in forget /\ r[1] \in Node /\ r[2] \in Node /\ (r[1] = n => r[2] # p)
        BY <1>0, <3>1, <3>3
      <4>2. Dropping(r[1], r[2]) \/ Accepting(r[1], r[2])
        BY <1>0, <3>1, <3>3, <4>1 DEF Forgetting
      <4>3. QED
        BY <3>2, <4>1, <4>2
           DEF Dropping, Accepting, GoesOn, AcceptGoesOn, DropGoesOn
    <3>4. QED
      BY <3>3 DEF Forgetting
  <2>4. CASE AcceptCreates(n) \/ \E p \in Node : AcceptAdds(n, p)
    <3>1. /\ UNCHANGED <<wire, forget>> /\ GoesOn /\ call[n]["ui"].op = "accept"
      BY <1>4, <2>4, UiGoesOn DEF AcceptCreates, AcceptAdds, AcceptTells, At
    <3>2. /\ \A m \in Node \ {n} : devices'[m] = devices[m]
          /\ devices'[n] \subseteq devices[n] \cup {n} \cup call[n]["ui"].others
      BY <2>4, FolderWritten
    <3>3. ASSUME NEW r \in forget', r[2] \in devices'[r[1]]
          PROVE  Dropping(r[1], r[2])' \/ Accepting(r[1], r[2])'
      <4>1. r \in forget /\ r[1] \in Node /\ r[2] \in Node /\ r[1] # r[2]
        BY <1>0, <3>1, <3>3 DEF TypeInv, WireType
      <4>2. Dropping(r[1], r[2]) \/ Accepting(r[1], r[2])
        BY <1>0, <3>1, <3>2, <3>3, <4>1 DEF Forgetting, Accepting
      <4>3. QED
        BY <3>1, <4>1, <4>2
           DEF Dropping, Accepting, GoesOn, AcceptGoesOn, DropGoesOn
    <3>4. QED
      BY <3>3 DEF Forgetting
  <2>5. CASE AcceptTells(n)
    <3>1. /\ wire \subseteq wire' /\ forget' = forget \ ({n} \X call[n]["ui"].others)
          /\ UNCHANGED devices /\ OtherCalls(n, "ui")
      BY <1>4, <2>5, UiCall DEF AcceptTells
    <3>2. ASSUME NEW r \in forget', r[2] \in devices'[r[1]]
          PROVE  Dropping(r[1], r[2])' \/ Accepting(r[1], r[2])'
      <4>1. /\ r \in forget /\ r[1] \in Node /\ r[2] \in Node
            /\ r[1] = n => r[2] \notin call[n]["ui"].others
        BY <1>0, <3>1, <3>2
      <4>2. Dropping(r[1], r[2]) \/ (r[1] # n /\ Accepting(r[1], r[2]))
        BY <1>0, <3>1, <3>2, <4>1 DEF Forgetting, Accepting
      <4>3. DropGoesOn(r[1]) /\ (r[1] # n => AcceptGoesOn(r[1]))
        BY <1>0, <3>1, <4>1, OthersGoOn
      <4>4. QED
        BY <3>1, <4>2, <4>3 DEF Dropping, Accepting, AcceptGoesOn, DropGoesOn
    <3>3. QED
      BY <3>2 DEF Forgetting
  <2>6. CASE Declines(n) \/ LeaveLooks(n)
    <3>1. GoesOn /\ UNCHANGED devices
      BY <1>4, <2>6, UiGoesOn DEF Declines, LeaveLooks, AcceptTells, At
    <3>2. /\ wire \subseteq wire'
          /\ \A r \in forget' \ forget : \E msg \in wire' :
               msg.type # "accept" /\ msg.to = r[1] /\ Dropped(msg) = r[2]
      <4>1. CASE Declines(n)
        <5> DEFINE p == call[n]["ui"].peer
        <5>1. p \in Node
          BY <1>0, <4>1 DEF TypeInv, CallType, WellFormed, Declines, At
        <5>2. /\ wire' = wire \cup {Notice("decline", n, p)}
              /\ forget' = forget \cup {<<p, n>>}
          BY <4>1 DEF Declines
        <5>3. QED
          BY <5>1, <5>2, NoticeEffect
      <4>2. CASE LeaveLooks(n)
        <5>1. /\ wire' = wire \cup {RemoveNotice(n, m, n) : m \in Participants(n)}
              /\ forget' = forget \cup (Participants(n) \X {n})
          BY <4>2 DEF LeaveLooks, Fault
        <5>2. \A m \in Participants(n) :
                /\ RemoveNotice(n, m, n).type = "remove" /\ RemoveNotice(n, m, n).to = m
                /\ Dropped(RemoveNotice(n, m, n)) = n
          BY <1>0, RemoveNoticeEffect DEF Participants, ClusterType
        <5>3. QED
          BY <5>1, <5>2
      <4>3. QED
        BY <2>6, <4>1, <4>2
    <3>3. ASSUME NEW r \in forget', r[2] \in devices'[r[1]]
          PROVE  Dropping(r[1], r[2])' \/ Accepting(r[1], r[2])'
      <4>1. CASE r \in forget
        <5>1. r[1] \in Node /\ (Dropping(r[1], r[2]) \/ Accepting(r[1], r[2]))
          BY <1>0, <3>1, <3>3, <4>1 DEF Forgetting
        <5>2. QED
          BY <3>1, <3>2, <5>1 DEF Dropping, Accepting, GoesOn, AcceptGoesOn, DropGoesOn
      <4>2. CASE r \notin forget
        BY <3>2, <4>2 DEF Dropping
      <4>3. QED
        BY <4>1, <4>2
    <3>4. QED
      BY <3>3 DEF Forgetting
  <2>7. QED
    BY <1>4, <2>1, <2>2, <2>3, <2>4, <2>5, <2>6 DEF UiStep
<1>5. ASSUME NEW n \in Node, WireStep(n) PROVE Forgetting'
  <2>1. CASE (RemovalLists(n, "wire") \/ RemovalWrites(n, "wire")) /\ After(n, "wire")
    BY <1>0, <2>1, ForgettingAfterRemoval
  <2>2. CASE KickedLooks(n) \/ RemovesFolder(n, "wire") \/ ~After(n, "wire")
    <3>1. GoesOn
      BY <1>5, <2>2, WireGoesOn
    <3>2. UNCHANGED <<wire, forget>> /\ \A m \in Node : devices'[m] \subseteq devices[m]
      <4>1. CASE RemovesFolder(n, "wire")
        BY <1>0, <4>1 DEF RemovesFolder, ClusterType
      <4>2. CASE KickedLooks(n)
        BY <4>2 DEF KickedLooks
      <4>3. CASE (RemovalLists(n, "wire") \/ RemovalWrites(n, "wire")) /\ ~After(n, "wire")
        BY <4>3 DEF RemovalLists, RemovalWrites
      <4>4. QED
        BY <1>5, <2>2, <4>1, <4>2, <4>3 DEF WireStep
    <3>3. QED
      BY <1>0, <3>1, <3>2, ForgettingAside
  <2>3. QED
    BY <1>5, <2>1, <2>2 DEF WireStep
<1>6. QED
  BY <1>1, <1>2, <1>3, <1>4, <1>5 DEF Next, System

LEMMA ForgettingInit == Init => Forgetting
BY DEF Init, Forgetting

(* FolderRemoveDevice and FolderRemove: when the messages have arrived, in whatever
   order and beside whatever other requests, all who were told have dropped the device. *)
THEOREM TheGroupForgets == Spec => []GroupForgets
<1>1. TypeInv /\ Forgetting => GroupForgets
  <2> SUFFICES ASSUME TypeInv, Forgetting, Quiet, ~excused, NEW r \in forget
               PROVE  r[2] \notin devices[r[1]]
    BY DEF GroupForgets
  <2>1. r[1] \in Node
    BY DEF TypeInv, WireType
  <2>2. call[r[1]]["ui"] = NoCall /\ call[r[1]]["wire"] = NoCall /\ wire = {}
    BY <2>1 DEF Quiet, Slot
  <2>3. ~Dropping(r[1], r[2]) /\ ~Accepting(r[1], r[2])
    BY <2>2 DEF Dropping, Accepting, NoCall, DropCalls
  <2>4. QED
    BY <2>3 DEF Forgetting
<1>2. QED
  BY <1>1, TypeInit, TypeStep, ForgettingInit, ForgettingStep, PTL DEF Spec

(***************************************************************************)
(* Who lists whom.  A node that is listed lists the other, or is offered   *)
(* the folder, or it soon will be, when the two are paused and resumed; or *)
(* one of the two has been removed or has gone.                            *)
(***************************************************************************)
Knows(n, m) == n \in devices[m] \/ n \in offers[m] \/ <<n, m>> \in refresh \/ Accepting(n, m)

Linked ==
  ~excused => \A n \in Node \ out : \A m \in Participants(n) \ out : Knows(n, m)

(* A step in which nobody forgets anybody, but for a node that goes out. *)
LEMMA LinkedAside ==
  ASSUME TypeInv, Linked, ~excused, GoesOn, out \subseteq out', refresh \subseteq refresh',
         \A n \in Node : /\ devices'[n] \ out' \subseteq devices[n]
                         /\ n \notin out' => devices[n] \ out' \subseteq devices'[n]
                         /\ n \notin out' => offers[n] \ out' \subseteq offers'[n]
  PROVE  Linked'
<1> SUFFICES ASSUME NEW n \in Node \ out', NEW m \in Participants(n)' \ out'
             PROVE  Knows(n, m)'
  BY DEF Linked
<1>1. m \in Node /\ m \in Participants(n) \ out /\ n \notin out
  BY DEF Participants, TypeInv, ClusterType
<1>2. Knows(n, m) /\ AcceptGoesOn(n)
  BY <1>1 DEF Linked, GoesOn
<1>3. QED
  BY <1>1, <1>2 DEF Knows, Accepting, AcceptGoesOn

LEMMA LinkedExchange ==
  ASSUME TypeInv, Linked, NEW k \in Node, NEW l \in Node, Exchange(k, l), ~excused
  PROVE  Linked'
<1>1. /\ UNCHANGED <<devices, call, out>> /\ refresh' = refresh \ {<<k, l>>}
      /\ offers' = [offers EXCEPT ![k] = Offered(k, l), ![l] = Offered(l, k)]
  BY DEF Exchange
<1>2. offers \in [Node -> SUBSET Node]
  BY DEF TypeInv, ClusterType
<1> SUFFICES ASSUME NEW n \in Node \ out', NEW m \in Participants(n)' \ out'
             PROVE  Knows(n, m)'
  BY DEF Linked
<1>3. /\ n \in Node \ out /\ m \in Participants(n) \ out /\ m \in Node /\ m \in devices[n]
      /\ m # n
  BY <1>1 DEF Participants, TypeInv, ClusterType
<1>4. Knows(n, m)
  BY <1>1, <1>3 DEF Linked
<1>5. CASE {n, m} = {k, l}
  <2>1. n \in devices[m] \/ n \in offers'[m]
    <3>1. offers'[m] = Offered(m, n)
      BY <1>1, <1>2, <1>3, <1>5
    <3>2. QED
      BY <1>3, <3>1 DEF Offered
  <2>2. QED
    BY <1>1, <2>1 DEF Knows
<1>6. CASE {n, m} # {k, l}
  <2>1. n \in offers[m] => n \in offers'[m]
    <3>1. (m = l => n # k) /\ (m = k => n # l)
      BY <1>6
    <3>2. offers'[m] \in {offers[m], Offered(k, l), Offered(l, k)}
      BY <1>1, <1>2, <1>3
    <3>3. CASE m \notin {k, l}
      BY <1>1, <1>2, <1>3, <3>3
    <3>4. CASE m = l /\ n # k
      BY <1>1, <1>2, <1>3, <3>4 DEF Offered
    <3>5. CASE m = k /\ n # l /\ m # l
      BY <1>1, <1>2, <1>3, <3>5 DEF Offered
    <3>6. QED
      BY <3>1, <3>3, <3>4, <3>5
  <2>2. <<n, m>> \in refresh => <<n, m>> \in refresh'
    BY <1>1, <1>6
  <2>3. QED
    BY <1>1, <1>4, <2>1, <2>2 DEF Knows, Accepting
<1>7. QED
  BY <1>5, <1>6

LEMMA LinkedStep ==
  ASSUME TypeInv, Linked, [Next]_vars
  PROVE  Linked'
<1> SUFFICES ASSUME ~excused' PROVE Linked'
  BY DEF Linked
<1>0. /\ ~excused /\ ClusterType /\ CallType /\ WireType /\ "ui" \in Slot /\ "wire" \in Slot
  BY FaultStays DEF TypeInv, Slot
<1>1. ASSUME UNCHANGED <<devices, offers>>, out \subseteq out', refresh \subseteq refresh', GoesOn
      PROVE  Linked'
  BY <1>0, <1>1, LinkedAside
<1>2. CASE UNCHANGED vars \/ \E n \in Node : Pipeline(n)
  <2>1. UNCHANGED <<call, out, refresh, devices, offers>>
    BY <1>2 DEF vars, Pipeline
  <2>2. GoesOn
    BY <2>1 DEF GoesOn, AcceptGoesOn, DropGoesOn
  <2>3. QED
    BY <1>1, <2>1, <2>2
<1>3. CASE \E n, m \in Node : Exchange(n, m) \/ RefreshFails(n, m)
  BY <1>0, <1>3, LinkedExchange DEF RefreshFails, Fault
<1>4. CASE \E msg \in wire : Receive(msg) \/ Lose(msg)
  <2>1. PICK msg \in wire : Receive(msg)
    BY <1>4 DEF Lose
  <2>2. /\ msg.to \in Node /\ UNCHANGED <<devices, offers, out, refresh>>
        /\ call[msg.to]["wire"] = NoCall
    BY <1>0, <2>1, MessageParts DEF Receive, WireType
  <2>3. OtherCalls(msg.to, "wire")
    <3>1. CASE UNCHANGED call
      BY <3>1 DEF OtherCalls
    <3>2. ASSUME NEW op, NEW p, StartCall(msg.to, op, p) PROVE OtherCalls(msg.to, "wire")
      <4> DEFINE r == [NoCall EXCEPT !.op = op, !.peer = p, !.pc = "list"]
      <4>1. call' = [call EXCEPT ![msg.to]["wire"] = r]
        BY <3>2 DEF StartCall
      <4> HIDE DEF r
      <4>2. QED
        BY <1>0, <2>2, <4>1 DEF OtherCalls, CallType
    <3>3. QED
      BY <2>1, <3>1, <3>2 DEF Receive
  <2>4. GoesOn
    BY <1>0, <2>2, <2>3, OthersGoOn DEF DropGoesOn, NoCall, DropCalls
  <2>5. QED
    BY <1>1, <2>2, <2>4
<1>5. ASSUME NEW n \in Node, Request(n) PROVE Linked'
  <2>1. UNCHANGED <<devices, offers, out, refresh>> /\ call[n]["ui"] = NoCall
    BY <1>5 DEF Request, Begin
  <2>2. ~AcceptTells(n)
    BY <2>1 DEF AcceptTells, At, NoCall
  <2>3. QED
    BY SMTT(60), <1>1, <1>5, <2>1, <2>2, UiGoesOn
<1>6. ASSUME NEW n \in Node, NEW s \in Slot, RemovalLists(n, s) \/ RemovalWrites(n, s),
             After(n, s)
      PROVE  Linked'
  <2> DEFINE c == call[n][s]
  <2>1. /\ c \in Call /\ c.peer \in Node \ {n}
        /\ c.op \in {"remove", "kicked", "drop"}
        /\ c.op = "kicked" => n \in out
        /\ c.op = "drop" => c.peer \in out
        /\ \A m \in Node \ {n} : devices'[m] = devices[m]
        /\ devices'[n] = devices[n] \ {c.peer}
        /\ OtherCalls(n, s) /\ UNCHANGED <<offers, refresh>>
    BY <1>6, RemovalEffect
  <2>2. out \subseteq out' /\ (c.op = "remove" => c.peer \in out')
    BY <1>6 DEF After
  <2>3. n \in out' \/ c.peer \in out'
    BY <2>1, <2>2
  <2>4. ASSUME NEW k \in Node \ out', NEW m \in Participants(k)' \ out'
        PROVE  Knows(k, m)'
    <3>1. k \notin out /\ m \in Participants(k) \ out /\ m \in Node
      BY <1>0, <2>1, <2>2, <2>4 DEF Participants, ClusterType
    <3>2. Knows(k, m)
      BY <1>0, <3>1 DEF Linked
    <3>3. k \in devices[m] => k \in devices'[m]
      BY <2>1, <2>3, <2>4, <3>1
    <3>4. Accepting(k, m) => Accepting(k, m)'
      <4>1. CASE k # n \/ s # "ui"
        BY <2>1, <2>4, <4>1 DEF OtherCalls, Accepting, Slot
      <4>2. CASE k = n /\ s = "ui"
        BY <2>1, <4>2 DEF Accepting
      <4>3. QED
        BY <4>1, <4>2
    <3>5. QED
      BY <2>1, <3>2, <3>3, <3>4 DEF Knows
  <2>5. QED
    BY <2>4 DEF Linked
<1>7. ASSUME NEW n \in Node, NEW s \in Slot, RemovesFolder(n, s), GoesOn
      PROVE  Linked'
  <2>1. /\ UNCHANGED <<offers, refresh, out>>
        /\ devices' = devices \/ devices' = [devices EXCEPT ![n] = {}]
    BY <1>7 DEF RemovesFolder
  <2>2. n \in out
    BY <1>0, <1>7 DEF RemovesFolder, CallType, WellFormed
  <2>3. \A m \in Node : /\ devices'[m] \ out' \subseteq devices[m]
                        /\ m \notin out' => devices[m] \ out' \subseteq devices'[m]
    BY <1>0, <2>1, <2>2 DEF ClusterType
  <2>4. QED
    BY <1>0, <1>7, <2>1, <2>3, LinkedAside
<1>8. ASSUME NEW n \in Node, UiStep(n) PROVE Linked'
  <2>1. CASE \/ ShareLists(n) \/ EditLists(n) \/ AcceptLists(n)
             \/ \E p \in Node : AcceptAddLists(n, p)
             \/ DeclineRefreshes(n) \/ RemoveLooks(n) \/ LeaveLooks(n)
             \/ (RemovalLists(n, "ui") /\ ~After(n, "ui"))
    <3>1. UNCHANGED <<devices, offers, refresh>> /\ out \subseteq out'
      BY <2>1 DEF ShareLists, EditLists, AcceptLists, AcceptAddLists,
         DeclineRefreshes, RemoveLooks, LeaveLooks, RemovalLists
    <3>2. ~AcceptTells(n)
      BY <2>1 DEF ShareLists, EditLists, AcceptLists, AcceptAddLists,
         DeclineRefreshes, RemoveLooks, LeaveLooks, RemovalLists, Removing, AcceptTells, At
    <3>3. QED
      BY SMTT(60), <1>1, <1>8, <3>1, <3>2, UiGoesOn
  <2>2. CASE (RemovalLists(n, "ui") /\ After(n, "ui")) \/ RemovalWrites(n, "ui")
    BY <1>0, <1>6, <2>2 DEF RemovalWrites
  <2>3. CASE RemovesFolder(n, "ui")
    <3>1. ~AcceptTells(n)
      BY <2>3 DEF RemovesFolder, AcceptTells, At
    <3>2. QED
      BY <1>0, <1>7, <1>8, <2>3, <3>1, UiGoesOn
  <2>4. CASE EditWrites(n)
    <3>1. /\ UNCHANGED <<offers, refresh, out>> /\ GoesOn
          /\ \A m \in Node : devices'[m] = devices[m]
      BY <1>8, <2>4, UiGoesOn, FolderWritten DEF EditWrites, AcceptTells, At
    <3>2. QED
      BY <1>0, <3>1, LinkedAside
  <2>5. CASE Declines(n)
    <3>1. /\ UNCHANGED <<devices, refresh>> /\ out' = out \cup {n} /\ GoesOn
          /\ offers' = [offers EXCEPT ![n] = @ \ {call[n]["ui"].peer}]
      BY <1>8, <2>5, UiGoesOn DEF Declines, AcceptTells, At, Fault
    <3>2. \A m \in Node : m \notin out' => offers'[m] = offers[m]
      BY <1>0, <3>1 DEF ClusterType
    <3>3. QED
      BY <1>0, <3>1, <3>2, LinkedAside
  <2>6. ASSUME UNCHANGED <<offers, out>>, refresh \subseteq refresh', OtherCalls(n, "ui"),
               \A m \in Node \ {n} : devices'[m] = devices[m],
               devices[n] \subseteq devices'[n],
               \A m \in Participants(n)' : Knows(n, m) => Knows(n, m)',
               \A m \in Participants(n)' \ devices[n] : Knows(n, m)'
        PROVE  Linked'
    <3>1. ASSUME NEW k \in Node \ out', NEW m \in Participants(k)' \ out'
          PROVE  Knows(k, m)'
      <4>1. CASE k = n
        <5>1. CASE m \in devices[n]
          BY <1>0, <2>6, <3>1, <4>1, <5>1 DEF Linked, Participants
        <5>2. CASE m \notin devices[n]
          BY <2>6, <3>1, <4>1, <5>2
        <5>3. QED
          BY <5>1, <5>2
      <4>2. CASE k # n
        <5>1. m \in Participants(k) \ out /\ m \in Node /\ Knows(k, m)
          BY <1>0, <2>6, <3>1, <4>2 DEF Linked, Participants, ClusterType
        <5>2. call'[k]["ui"] = call[k]["ui"] /\ devices[m] \subseteq devices'[m]
          BY <1>0, <2>6, <4>2, <5>1 DEF OtherCalls
        <5>3. QED
          BY <2>6, <5>1, <5>2 DEF Knows, Accepting
      <4>3. QED
        BY <4>1, <4>2
    <3>2. QED
      BY <3>1 DEF Linked
  <2>7. CASE ShareWrites(n)
    <3>1. PICK p \in Node \ {n} :
            /\ \A m \in Node \ {n} : devices'[m] = devices[m]
            /\ \/ ~Has(n) /\ devices'[n] = {}
               \/ Has(n) /\ devices'[n] = devices[n] \cup {p}
            /\ p \notin devices[n] /\ Has(n)
               => \A m \in devices'[n] \ {n} : <<n, m>> \in refresh'
      BY <2>7, FolderWritten
    <3>2. /\ UNCHANGED <<offers, out>> /\ refresh \subseteq refresh' /\ GoesOn
          /\ OtherCalls(n, "ui")
      BY <1>8, <2>7, UiGoesOn, UiCall DEF ShareWrites, AcceptTells, At
    <3>3. devices[n] \subseteq devices'[n]
      BY <3>1 DEF Has
    <3>4. ASSUME NEW m \in Participants(n)' PROVE (Knows(n, m) => Knows(n, m)')
      <4>1. m \in Node /\ m # n
        BY <1>0, <3>1 DEF Participants, ClusterType
      <4>2. QED
        BY <3>1, <3>2, <4>1 DEF Knows, Accepting, GoesOn, AcceptGoesOn
    <3>5. ASSUME NEW m \in Participants(n)' \ devices[n] PROVE Knows(n, m)'
      BY <3>1, <3>5 DEF Knows, Participants
    <3>6. QED
      BY <2>6, <3>1, <3>2, <3>3, <3>4, <3>5
  <2>8. CASE AcceptCreates(n) \/ \E p \in Node : AcceptAdds(n, p)
    <3>1. /\ UNCHANGED <<offers, out, refresh>> /\ GoesOn /\ call[n]["ui"].op = "accept"
          /\ OtherCalls(n, "ui")
      BY <1>8, <2>8, UiGoesOn, UiCall DEF AcceptCreates, AcceptAdds, AcceptTells, At
    <3>2. /\ \A m \in Node \ {n} : devices'[m] = devices[m]
          /\ devices[n] \subseteq devices'[n]
          /\ devices'[n] \subseteq devices[n] \cup {n} \cup call[n]["ui"].others
      BY <2>8, FolderWritten DEF Has
    <3>3. call[n]["ui"].others \subseteq Node
      BY <1>0 DEF CallType, Call
    <3>4. ASSUME NEW m \in Participants(n)' PROVE (Knows(n, m) => Knows(n, m)')
      <4>1. m \in Node /\ m # n
        BY <1>0, <3>2, <3>3 DEF Participants, ClusterType
      <4>2. QED
        BY <3>1, <3>2, <4>1 DEF Knows, Accepting, GoesOn, AcceptGoesOn
    <3>5. ASSUME NEW m \in Participants(n)' \ devices[n] PROVE Knows(n, m)'
      BY <3>1, <3>2, <3>5 DEF Knows, Participants, Accepting, GoesOn, AcceptGoesOn
    <3>6. QED
      BY <2>6, <3>1, <3>2, <3>4, <3>5
  <2>9. CASE AcceptTells(n)
    <3>1. /\ refresh' = refresh \cup {<<n, m>> : m \in call[n]["ui"].others}
          /\ UNCHANGED <<devices, offers, out>> /\ OtherCalls(n, "ui")
      BY <1>8, <2>9, UiCall DEF AcceptTells
    <3>2. \A m : Knows(n, m) => Knows(n, m)'
      BY <3>1 DEF Knows, Accepting
    <3>3. QED
      BY <1>0, <2>6, <3>1, <3>2 DEF Participants
  <2>10. QED
    BY <1>8, <2>1, <2>2, <2>3, <2>4, <2>5, <2>7, <2>8, <2>9 DEF UiStep
<1>9. ASSUME NEW n \in Node, WireStep(n) PROVE Linked'
  <2>1. CASE (RemovalLists(n, "wire") \/ RemovalWrites(n, "wire")) /\ After(n, "wire")
    BY <1>0, <1>6, <2>1
  <2>2. CASE RemovesFolder(n, "wire")
    BY <1>0, <1>7, <1>9, <2>2, WireGoesOn
  <2>3. CASE \/ KickedLooks(n)
             \/ (RemovalLists(n, "wire") \/ RemovalWrites(n, "wire")) /\ ~After(n, "wire")
    <3>1. UNCHANGED <<devices, offers, refresh, out>>
      BY <2>3 DEF KickedLooks, RemovalLists, RemovalWrites
    <3>2. QED
      BY <1>1, <1>9, <2>3, <3>1, WireGoesOn
  <2>4. QED
    BY <1>9, <2>1, <2>2, <2>3 DEF WireStep
<1>10. QED
  BY <1>2, <1>3, <1>4, <1>5, <1>8, <1>9 DEF Next, System

LEMMA LinkedInit == Init => Linked
<1> SUFFICES ASSUME Init, NEW n \in Node, NEW m \in devices[n] PROVE n \in devices[m]
  BY DEF Linked, Knows, Participants
<1>1. PICK start \in Starts : devices = start.devices
  BY DEF Init
<1>2. m \in Node
  BY <1>1, FoldersAssumption
<1>3. QED
  BY <1>1, <1>2, MutualAssumption

(* Nobody is left to know nothing of a node that lists it, be it without the folder or
   in it with others; unless either has been removed, or has gone of its own accord.   *)
THEOREM NobodyDangles == Spec => []NoDangling
<1>1. TypeInv /\ Linked => NoDangling
  <2> SUFFICES ASSUME TypeInv, Linked, Quiet, ~excused,
                      NEW n \in Node \ out, NEW m \in Participants(n) \ out
               PROVE  Mutual(n, m)
    BY DEF NoDangling
  <2>1. m \in Node /\ m # n
    BY DEF Participants, TypeInv, ClusterType
  <2>2. call[n]["ui"] = NoCall /\ refresh = {} /\ pending[m] = Invites(m)
    BY <2>1 DEF Quiet, Slot
  <2>3. Knows(n, m) /\ ~Accepting(n, m)
    BY <2>2 DEF Linked, Accepting, NoCall
  <2>4. QED
    BY <2>2, <2>3 DEF Knows, Mutual, Invites
<1>2. QED
  BY <1>1, TypeInit, TypeStep, LinkedInit, LinkedStep, PTL DEF Spec
====
