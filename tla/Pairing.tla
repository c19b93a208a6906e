------------------------------- MODULE Pairing -------------------------------
(***************************************************************************)
(* Pairing, unpairing and removal between WeSync nodes.                    *)
(*                                                                         *)
(* A node keeps three sets in memory (internal/node/state.go): the devices *)
(* it trusts, the devices that said they trust it, and the devices it has  *)
(* removed.  The list of devices in Syncthing's configuration is the only  *)
(* part that survives a restart.  Four kinds of threads touch them: the    *)
(* HTTP handler of a user's request (internal/api/pairing.go), one reader  *)
(* per inbound wire connection (internal/api/peers.go), the goroutines     *)
(* that deliver notices with retries, and the pipeline worker              *)
(* (internal/api/pipeline.go).  Every step below is one atomic access of   *)
(* one such thread: a call to Syncthing, a call on node.State under its    *)
(* lock, or a write on a connection.                                       *)
(*                                                                         *)
(* What node n writes for p travels on n's own outbound connection; chan   *)
(* holds the frames written by n that p has not read.                      *)
(***************************************************************************)
EXTENDS Naturals, Sequences

CONSTANTS
  Node,        \* device IDs
  Introduced,  \* Introduced[n]: devices n's Syncthing may add by itself (Introducer)
  MaxFrames,   \* bound: unread frames from one node to another
  MaxNotices,  \* bound: undelivered notices from one node to another
  Budget       \* bounds on what users and the environment do, by kind

(* "cut": the app goes out of sight, or a connection breaks. *)
Kind == {"pair", "unpair", "stray", "dismiss", "stop", "cut", "fault", "pipeline"}

ASSUME PairingAssumption ==
  /\ Introduced \in [Node -> SUBSET Node]
  /\ MaxFrames \in Nat \ {0}
  /\ MaxNotices \in Nat \ {0}
  /\ Budget \in [Kind -> Nat]

VARIABLES
  mode,         \* "down", "booted" (no UI seen yet), "fg", "bg"
  stDevices,    \* Syncthing's configured devices, itself too: survives a restart
  trusted,      \* State.trustedIDs
  theyTrustUs,  \* State.theyTrustUs
  removed,      \* State.explicitlyRemoved
  conn,         \* conn[n][p]: n's entry for p in peerwire.Hub.conns
  chan,         \* chan[n][p]: frames n wrote for p, not yet read
  notices,      \* notices[n][p]: goroutines of n retrying Hello{trusted:false} to p
  api,          \* the user's HTTP request in progress at n
  rx,           \* rx[n][p]: n's reader of the frames of p
  pipe,         \* the pipeline run in progress at n
  left,         \* what remains of Budget
  asked,        \* history: <<n, p>> when n's user, or Introducer, has added p
  withdrew      \* history: <<n, p>> when the user of n has removed p

memory == <<trusted, theyTrustUs, removed>>
wire   == <<conn, chan>>
vars   == <<mode, stDevices, memory, wire, notices, api, rx, pipe, left,
            asked, withdrew>>

Greeting == {"trusted", "untrusted", "plain"}   \* the Trusted field of a Hello
Frame    == Greeting \cup {"cancelled"}
ConnState == {"none", "dialing", "up"} \cup Greeting

ApiPc == {"idle", "pairAdd", "pairTrust", "pairHello", "sendTrusted",
          "sendUntrusted", "unpairRemove", "unpairUntrust", "sendCancelled"}
RxPc  == {"idle", "cascadeRemove", "cascadeUntrust"}

(* A connection whose Hello is evaluated but not yet written is live: SendSync
   finds its socket and may write before the Hello does.                      *)
Live(n, p) == conn[n][p] \in {"up"} \cup Greeting

Up(n) == mode[n] # "down"

Accepting(n) == mode[n] \in {"booted", "fg"}

NoApi(n)  == [pc |-> "idle", peer |-> n]
NoPipe    == [busy |-> FALSE, seen |-> {}]
NoReader  == [p \in Node |-> "idle"]

Spend(k) == left[k] > 0 /\ left' = [left EXCEPT ![k] = @ - 1]

(***************************************************************************)
(* node.State, one operator per method that changes the sets.              *)
(***************************************************************************)
Trust(n, p) ==
  /\ trusted' = [trusted EXCEPT ![n] = @ \cup {p}]
  /\ removed' = [removed EXCEPT ![n] = @ \ {p}]
  /\ UNCHANGED theyTrustUs

Untrust(n, p) ==
  /\ trusted' = [trusted EXCEPT ![n] = @ \ {p}]
  /\ theyTrustUs' = [theyTrustUs EXCEPT ![n] = @ \ {p}]
  /\ removed' = [removed EXCEPT ![n] = @ \cup {p}]

ForgetTheirTrust(n, p) ==
  /\ theyTrustUs' = [theyTrustUs EXCEPT ![n] = @ \ {p}]
  /\ UNCHANGED <<trusted, removed>>

(* Mutants: a reconciliation that forgets removals, or forgets itself. *)
NewlyListedDespiteRemoval(n, seen) == (seen \ trusted[n]) \ {n}

NewlyListedWithSelf(n, seen) == (seen \ trusted[n]) \ removed[n]

(* Devices of a Syncthing listing that reconciliation starts to trust: never
   one that was explicitly removed.                                          *)
NewlyListed(n, seen) == (seen \ trusted[n]) \ (removed[n] \cup {n})

ReconcileTrust(n, seen) ==
  /\ trusted' = [trusted EXCEPT ![n] = @ \cup NewlyListed(n, seen)]
  /\ theyTrustUs' = [theyTrustUs EXCEPT
                       ![n] = @ \cup (NewlyListed(n, seen) \cap Introduced[n])]
  /\ UNCHANGED removed

(***************************************************************************)
(* Syncthing's configuration API.  A failed call is logged and ignored by  *)
(* trustDevice and untrustDevice alike.                                    *)
(***************************************************************************)
StAddDevice(n, p) ==
  \/ /\ stDevices' = [stDevices EXCEPT ![n] = @ \cup {p}]
     /\ UNCHANGED left
  \/ /\ Spend("fault")
     /\ UNCHANGED stDevices

StRemoveDevice(n, p) ==
  \/ /\ stDevices' = [stDevices EXCEPT ![n] = @ \ {p}]
     /\ UNCHANGED left
  \/ /\ Spend("fault")
     /\ UNCHANGED stDevices

(***************************************************************************)
(* The wire.                                                               *)
(***************************************************************************)
Write(n, p, frame) ==
  /\ Len(chan[n][p]) < MaxFrames
  /\ chan' = [chan EXCEPT ![n][p] = Append(@, frame)]

(* Mutants: the Hello answers trust with trust, denies whoever is not trusted
   ("both devices reset to new"), forgets trust, or forgets removals.        *)
HelloEchoes(n, p) == IF p \in theyTrustUs[n] THEN "trusted" ELSE "plain"

HelloDenies(n, p) == IF p \in trusted[n] THEN "trusted" ELSE "untrusted"

HelloWithoutTrust(n, p) == IF p \in removed[n] THEN "untrusted" ELSE "plain"

HelloWithoutRemoval(n, p) == IF p \in trusted[n] THEN "trusted" ELSE "plain"

(* The Trusted field of the Hello that opens a connection: false only for a
   device that was explicitly removed.                                       *)
Hello(n, p) ==
  IF p \in trusted[n] THEN "trusted"
  ELSE IF p \in removed[n] THEN "untrusted" ELSE "plain"

Notify(n, p) ==
  /\ notices[n][p] < MaxNotices
  /\ notices' = [notices EXCEPT ![n][p] = @ + 1]

(* A UDP announcement or MaintainConnections registers a connection. *)
Connect(n, p) ==
  /\ mode[n] = "fg" /\ p # n
  /\ conn[n][p] = "none"
  /\ conn' = [conn EXCEPT ![n][p] = "dialing"]
  /\ UNCHANGED <<mode, stDevices, memory, chan, notices, api, rx, pipe, left,
                 asked, withdrew>>

(* The dial succeeds: the socket is published, the Hello's trust is read. *)
Dial(n, p) ==
  /\ conn[n][p] = "dialing"
  /\ Accepting(p)
  /\ conn' = [conn EXCEPT ![n][p] = Hello(n, p)]
  /\ UNCHANGED <<mode, stDevices, memory, chan, notices, api, rx, pipe, left,
                 asked, withdrew>>

(* ... and the Hello is written. *)
Greet(n, p) ==
  /\ conn[n][p] \in Greeting
  /\ Write(n, p, conn[n][p])
  /\ conn' = [conn EXCEPT ![n][p] = "up"]
  /\ UNCHANGED <<mode, stDevices, memory, notices, api, rx, pipe, left,
                 asked, withdrew>>

(* A connection breaks: the frames in flight after some point are lost and the
   connection goes back to dialing.                                           *)
Drop(n, p) ==
  /\ Live(n, p)
  /\ Spend("cut")
  /\ conn' = [conn EXCEPT ![n][p] = "dialing"]
  /\ \E k \in 0 .. Len(chan[n][p]) :
       chan' = [chan EXCEPT ![n][p] = SubSeq(@, 1, k)]
  /\ UNCHANGED <<mode, stDevices, memory, notices, api, rx, pipe, asked,
                 withdrew>>

(* A notice goroutine finds the connection live and writes the message it was
   given when it was started.                                                *)
NoticeSend(n, p) ==
  /\ notices[n][p] > 0
  /\ Live(n, p)
  /\ Write(n, p, "untrusted")
  /\ notices' = [notices EXCEPT ![n][p] = @ - 1]
  /\ UNCHANGED <<mode, stDevices, memory, conn, api, rx, pipe, left, asked,
                 withdrew>>

(* No entry for p, or the retries run out while it is dialing. *)
NoticeGiveUp(n, p) ==
  /\ notices[n][p] > 0
  /\ ~Live(n, p)
  /\ notices' = [notices EXCEPT ![n][p] = @ - 1]
  /\ UNCHANGED <<mode, stDevices, memory, wire, api, rx, pipe, left, asked,
                 withdrew>>

(***************************************************************************)
(* POST /api/pair: trustDevice (Syncthing, then memory), then a Hello whose *)
(* trust bit is read when SendHelloTo starts and written when it succeeds. *)
(***************************************************************************)
At(n, pc) == api[n].pc = pc

Goto(n, pc) == api' = [api EXCEPT ![n].pc = pc]

Answer(n) == api' = [api EXCEPT ![n] = NoApi(n)]

Pair(n, p) ==
  /\ Up(n) /\ p # n /\ At(n, "idle")
  /\ p \notin trusted[n]
  /\ Spend("pair")
  /\ api' = [api EXCEPT ![n] = [pc |-> "pairAdd", peer |-> p]]
  /\ asked' = asked \cup {<<n, p>>}
  /\ UNCHANGED <<mode, stDevices, memory, wire, notices, rx, pipe, withdrew>>

PairAdd(n) ==
  /\ At(n, "pairAdd")
  /\ StAddDevice(n, api[n].peer)
  /\ Goto(n, "pairTrust")
  /\ UNCHANGED <<mode, memory, wire, notices, rx, pipe, asked, withdrew>>

PairTrust(n) ==
  /\ At(n, "pairTrust")
  /\ Trust(n, api[n].peer)
  /\ Goto(n, "pairHello")
  /\ UNCHANGED <<mode, stDevices, wire, notices, rx, pipe, left, asked, withdrew>>

PairHello(n) ==
  /\ At(n, "pairHello")
  /\ Goto(n, IF api[n].peer \in trusted[n] THEN "sendTrusted" ELSE "sendUntrusted")
  /\ UNCHANGED <<mode, stDevices, memory, wire, notices, rx, pipe, left, asked,
                 withdrew>>

FrameOf(pc) ==
  CASE pc = "sendTrusted" -> "trusted"
    [] pc = "sendUntrusted" -> "untrusted"
    [] pc = "sendCancelled" -> "cancelled"

(* SendSync of the request's last message: written on a live connection ... *)
ApiSend(n) ==
  LET p == api[n].peer IN
  /\ api[n].pc \in {"sendTrusted", "sendUntrusted", "sendCancelled"}
  /\ Live(n, p)
  /\ Write(n, p, FrameOf(api[n].pc))
  /\ Answer(n)
  /\ UNCHANGED <<mode, stDevices, memory, conn, notices, rx, pipe, left, asked,
                 withdrew>>

(* ... or given up: no connection, or none came up in time. *)
ApiGiveUp(n) ==
  /\ api[n].pc \in {"sendTrusted", "sendUntrusted", "sendCancelled"}
  /\ ~Live(n, api[n].peer)
  /\ Answer(n)
  /\ UNCHANGED <<mode, stDevices, memory, wire, notices, rx, pipe, left, asked,
                 withdrew>>

(***************************************************************************)
(* DELETE /api/devices: untrustDevice (Syncthing, then memory and a        *)
(* notice), then Cancelled.  The handler accepts any device, trusted or    *)
(* not (kind "stray"): a second tab may still show one that has gone.      *)
(***************************************************************************)
Unpair(n, p) ==
  /\ Up(n) /\ p # n /\ At(n, "idle")
  /\ Spend(IF p \in trusted[n] THEN "unpair" ELSE "stray")
  /\ api' = [api EXCEPT ![n] = [pc |-> "unpairRemove", peer |-> p]]
  /\ withdrew' = withdrew \cup {<<n, p>>}
  /\ UNCHANGED <<mode, stDevices, memory, wire, notices, rx, pipe, asked>>

UnpairRemove(n) ==
  /\ At(n, "unpairRemove")
  /\ StRemoveDevice(n, api[n].peer)
  /\ Goto(n, "unpairUntrust")
  /\ UNCHANGED <<mode, memory, wire, notices, rx, pipe, asked, withdrew>>

UnpairUntrust(n) ==
  /\ At(n, "unpairUntrust")
  /\ Untrust(n, api[n].peer)
  /\ Notify(n, api[n].peer)
  /\ Goto(n, "sendCancelled")
  /\ UNCHANGED <<mode, stDevices, wire, rx, pipe, left, asked, withdrew>>

(* DELETE /api/incoming: dismisses a device that said it trusts us. *)
DismissIncoming(n, p) ==
  /\ Up(n) /\ At(n, "idle")
  /\ p \in theyTrustUs[n]
  /\ Spend("dismiss")
  /\ ForgetTheirTrust(n, p)
  /\ UNCHANGED <<mode, stDevices, wire, notices, api, rx, pipe, asked, withdrew>>

(***************************************************************************)
(* The reader at n of the frames of p.                                     *)
(***************************************************************************)
Reads(n, p, frame) ==
  /\ Accepting(n) /\ rx[n][p] = "idle"
  /\ chan[p][n] # <<>> /\ Head(chan[p][n]) = frame
  /\ chan' = [chan EXCEPT ![p][n] = Tail(@)]

(* onHello connects back to the sender of any Hello. *)
ConnectBack(n, p) ==
  conn' = [conn EXCEPT ![n][p] = IF @ = "none" THEN "dialing" ELSE @]

ReceivePlain(n, p) ==
  /\ Reads(n, p, "plain")
  /\ ConnectBack(n, p)
  /\ UNCHANGED <<mode, stDevices, memory, notices, api, rx, pipe, left, asked,
                 withdrew>>

ReceiveTrusted(n, p) ==
  /\ Reads(n, p, "trusted")
  /\ ConnectBack(n, p)
  /\ theyTrustUs' = [theyTrustUs EXCEPT ![n] = @ \cup {p}]
  /\ \/ p \in removed[n] /\ Notify(n, p)
     \/ p \notin removed[n] /\ UNCHANGED notices
  /\ UNCHANGED <<mode, stDevices, trusted, removed, api, rx, pipe, left, asked,
                 withdrew>>

(* The removal cascades only if p had told us that it trusts us.  The Hello of
   a notice carries no port, the one that opens a connection does: only the
   latter is connected back to.                                              *)
ReceiveUntrusted(n, p) ==
  /\ Reads(n, p, "untrusted")
  /\ ConnectBack(n, p) \/ UNCHANGED conn
  /\ ForgetTheirTrust(n, p)
  /\ rx' = [rx EXCEPT ![n][p] =
              IF p \in theyTrustUs[n] \cap trusted[n] THEN "cascadeRemove" ELSE "idle"]
  /\ UNCHANGED <<mode, stDevices, notices, api, pipe, left, asked, withdrew>>

ReceiveCancelled(n, p) ==
  /\ Reads(n, p, "cancelled")
  /\ \/ /\ p \in trusted[n]
        /\ rx' = [rx EXCEPT ![n][p] = "cascadeRemove"]
        /\ UNCHANGED memory
     \/ /\ p \notin trusted[n]
        /\ ForgetTheirTrust(n, p)
        /\ UNCHANGED rx
  /\ UNCHANGED <<mode, stDevices, conn, notices, api, pipe, left, asked, withdrew>>

(* untrustDevice called by the reader. *)
CascadeRemove(n, p) ==
  /\ rx[n][p] = "cascadeRemove"
  /\ StRemoveDevice(n, p)
  /\ rx' = [rx EXCEPT ![n][p] = "cascadeUntrust"]
  /\ UNCHANGED <<mode, memory, wire, notices, api, pipe, asked, withdrew>>

CascadeUntrust(n, p) ==
  /\ rx[n][p] = "cascadeUntrust"
  /\ Untrust(n, p)
  /\ Notify(n, p)
  /\ rx' = [rx EXCEPT ![n][p] = "idle"]
  /\ UNCHANGED <<mode, stDevices, wire, api, pipe, left, asked, withdrew>>

(***************************************************************************)
(* The pipeline worker: updateTrust lists Syncthing's devices, then        *)
(* reconciles the sets with what it read.                                  *)
(***************************************************************************)
PipelineRead(n) ==
  /\ Up(n) /\ ~pipe[n].busy
  /\ Spend("pipeline")
  /\ pipe' = [pipe EXCEPT ![n] = [busy |-> TRUE, seen |-> stDevices[n]]]
  /\ UNCHANGED <<mode, stDevices, memory, wire, notices, api, rx, asked, withdrew>>

PipelineReconcile(n) ==
  /\ pipe[n].busy
  /\ ReconcileTrust(n, pipe[n].seen)
  /\ pipe' = [pipe EXCEPT ![n] = NoPipe]
  /\ UNCHANGED <<mode, stDevices, wire, notices, api, rx, left, asked, withdrew>>

(* Syncthing's Introducer adds a device on its own. *)
StIntroduce(n, p) ==
  /\ Up(n) /\ p \in Introduced[n] \ (stDevices[n] \cup {n})
  /\ stDevices' = [stDevices EXCEPT ![n] = @ \cup {p}]
  /\ asked' = asked \cup {<<n, p>>}
  /\ UNCHANGED <<mode, memory, wire, notices, api, rx, pipe, left, withdrew>>

(***************************************************************************)
(* Life cycle of a node.                                                   *)
(***************************************************************************)
(* Every connection to n breaks and the frames it has not read are lost. *)
CutOff(n) ==
  /\ conn' = [m \in Node |-> [p \in Node |->
                IF m = n THEN "none"
                ELSE IF p = n /\ conn[m][p] # "none" THEN "dialing" ELSE conn[m][p]]]
  /\ chan' = [m \in Node |-> [p \in Node |->
                IF p = n THEN <<>> ELSE chan[m][p]]]

Stop(n) ==
  /\ Up(n) /\ Spend("stop")
  /\ mode' = [mode EXCEPT ![n] = "down"]
  /\ trusted' = [trusted EXCEPT ![n] = {}]
  /\ theyTrustUs' = [theyTrustUs EXCEPT ![n] = {}]
  /\ removed' = [removed EXCEPT ![n] = {}]
  /\ CutOff(n)
  /\ notices' = [notices EXCEPT ![n] = [p \in Node |-> 0]]
  /\ api' = [api EXCEPT ![n] = NoApi(n)]
  /\ rx' = [rx EXCEPT ![n] = NoReader]
  /\ pipe' = [pipe EXCEPT ![n] = NoPipe]
  /\ UNCHANGED <<stDevices, asked, withdrew>>

(* NewHandlers trusts every device Syncthing lists, if it answers. *)
Boot(n) ==
  /\ mode[n] = "down"
  /\ mode' = [mode EXCEPT ![n] = "booted"]
  /\ \/ /\ trusted' = [trusted EXCEPT ![n] = stDevices[n] \ {n}]
        /\ UNCHANGED left
     \/ Spend("fault") /\ UNCHANGED trusted
  /\ UNCHANGED <<stDevices, theyTrustUs, removed, wire, notices, api, rx, pipe,
                 asked, withdrew>>

Foreground(n) ==
  /\ mode[n] \in {"booted", "bg"}
  /\ mode' = [mode EXCEPT ![n] = "fg"]
  /\ UNCHANGED <<stDevices, memory, wire, notices, api, rx, pipe, left, asked,
                 withdrew>>

Background(n) ==
  /\ mode[n] = "fg" /\ Spend("cut")
  /\ mode' = [mode EXCEPT ![n] = "bg"]
  /\ CutOff(n)
  /\ UNCHANGED <<stDevices, memory, notices, api, rx, pipe, asked, withdrew>>

-----------------------------------------------------------------------------
Init ==
  /\ mode = [n \in Node |-> "fg"]
  /\ stDevices = [n \in Node |-> {n}]
  /\ trusted = [n \in Node |-> {}]
  /\ theyTrustUs = [n \in Node |-> {}]
  /\ removed = [n \in Node |-> {}]
  /\ conn = [n \in Node |-> [p \in Node |-> "none"]]
  /\ chan = [n \in Node |-> [p \in Node |-> <<>>]]
  /\ notices = [n \in Node |-> [p \in Node |-> 0]]
  /\ api = [n \in Node |-> NoApi(n)]
  /\ rx = [n \in Node |-> NoReader]
  /\ pipe = [n \in Node |-> NoPipe]
  /\ left = Budget
  /\ asked = {}
  /\ withdrew = {}

UserRequest(n) == \E p \in Node : Pair(n, p) \/ Unpair(n, p) \/ DismissIncoming(n, p)

ApiStep(n) ==
  \/ PairAdd(n) \/ PairTrust(n) \/ PairHello(n)
  \/ UnpairRemove(n) \/ UnpairUntrust(n)
  \/ ApiSend(n) \/ ApiGiveUp(n)

ReaderStep(n, p) ==
  \/ ReceivePlain(n, p) \/ ReceiveTrusted(n, p)
  \/ ReceiveUntrusted(n, p) \/ ReceiveCancelled(n, p)
  \/ CascadeRemove(n, p) \/ CascadeUntrust(n, p)

NoticeStep(n, p) == NoticeSend(n, p) \/ NoticeGiveUp(n, p)

ConnStep(n, p) == Connect(n, p) \/ Dial(n, p) \/ Greet(n, p)

PipelineStep(n) == PipelineRead(n) \/ PipelineReconcile(n)

LifeCycle(n) == Stop(n) \/ Boot(n) \/ Foreground(n) \/ Background(n)

Next ==
  \E n \in Node :
    \/ UserRequest(n) \/ ApiStep(n) \/ PipelineStep(n) \/ LifeCycle(n)
    \/ \E p \in Node : \/ ReaderStep(n, p) \/ NoticeStep(n, p) \/ ConnStep(n, p)
                       \/ Drop(n, p) \/ StIntroduce(n, p)

Spec == Init /\ [][Next]_vars

(* The program's own threads keep running; users, restarts, breaks and
   Syncthing's Introducer owe nothing.                                       *)
Fairness ==
  \A n \in Node :
    /\ WF_vars(ApiStep(n)) /\ WF_vars(PipelineReconcile(n))
    /\ \A p \in Node : /\ WF_vars(ReaderStep(n, p)) /\ WF_vars(NoticeStep(n, p))
                       /\ WF_vars(ConnStep(n, p))

FairSpec == Spec /\ Fairness
-----------------------------------------------------------------------------
(* Every variable has its type, and no node trusts or pairs with itself. *)
LifeType ==
  /\ mode \in [Node -> {"down", "booted", "fg", "bg"}]
  /\ stDevices \in [Node -> SUBSET Node]
  /\ left \in [Kind -> Nat]

MemoryType ==
  /\ trusted \in [Node -> SUBSET Node]
  /\ theyTrustUs \in [Node -> SUBSET Node]
  /\ removed \in [Node -> SUBSET Node]
  /\ \A n \in Node : n \notin trusted[n]

WireType ==
  /\ conn \in [Node -> [Node -> ConnState]]
  /\ chan \in [Node -> [Node -> Seq(Frame)]]
  /\ notices \in [Node -> [Node -> 0 .. MaxNotices]]

ThreadType ==
  /\ api \in [Node -> [pc : ApiPc, peer : Node]]
  /\ \A n \in Node : At(n, "idle") \/ api[n].peer # n
  /\ rx \in [Node -> [Node -> RxPc]]
  /\ pipe \in [Node -> [busy : BOOLEAN, seen : SUBSET Node]]

HistoryType ==
  /\ asked \subseteq Node \X Node
  /\ withdrew \subseteq Node \X Node

TypeOK == LifeType /\ MemoryType /\ WireType /\ ThreadType /\ HistoryType

(* A device the node has removed is never trusted, whatever order the user's
   requests, the peer's messages and reconciliations with a stale Syncthing
   listing come in (state.go: explicitlyRemoved suppresses the re-add).       *)
RemovedNotTrusted == \A n \in Node : trusted[n] \cap removed[n] = {}

(* p may be trusted by n: the user of n asked, or n's Introducer added it. *)
MayTrust(n, p) == <<n, p>> \in asked

(* No message, restart or reconciliation makes a node trust a device its user
   never paired with, or show as an incoming request or as accepted a device
   whose user never paired with it.  A device that the Introducer has added is
   taken to trust us (state.go, ReconcileTrust).                             *)
TrustNeedsConsent ==
  \A n, p \in Node :
    /\ p \in trusted[n] => MayTrust(n, p)
    /\ p \in theyTrustUs[n] =>
         MayTrust(p, n) \/ (p \in Introduced[n] /\ MayTrust(n, p))

(* n and p fell out on the request of one of their users. *)
FellOut(n, p) == <<n, p>> \in withdrew \/ <<p, n>> \in withdrew

(* A trusted device leaves the trusted set only because one of the two users
   removed the other device, or because the node stops: a dropped, re-dialed or
   half-identified connection never unpairs ("both devices reset to new",
   conn.go).                                                                 *)
UnpairNeedsRequest ==
  [][\A n, p \in Node :
       (p \in trusted[n] /\ p \notin trusted'[n]) =>
         FellOut(n, p) \/ mode'[n] = "down"]_vars

Mutual(n, p) == p \in trusted[n] /\ n \in trusted[p]

(* Once both nodes stay in the foreground and both users stay paired, both
   devices see each other as accepted for good: no Hello is needed that the
   program does not send.                                                    *)
PairingConverges ==
  \A n, p \in Node :
    n # p =>
      ((<>[](mode[n] = "fg" /\ mode[p] = "fg" /\ Mutual(n, p)))
        => <>[](p \in theyTrustUs[n] /\ n \in theyTrustUs[p]))

(* A removal that the peer did not hear of because the wire was down reaches it
   when n connects again: if p is removed at n, p still sees n as accepted and
   no connection of n to p is up, then p eventually stops trusting n, unless one
   of them leaves the foreground or n pairs again.                            *)
RemovalReachesPeer ==
  \A n, p \in Node :
    n # p =>
      []((p \in removed[n] /\ n \in trusted[p] /\ n \in theyTrustUs[p]
            /\ ~Live(n, p) /\ chan[n][p] = <<>>)
           => <>(\/ n \notin trusted[p] \/ p \notin removed[n]
                 \/ mode[n] # "fg" \/ mode[p] # "fg"))

=============================================================================
