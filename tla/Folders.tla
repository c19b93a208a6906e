------------------------------ MODULE Folders ------------------------------
(***************************************************************************)
(* One shared folder on several nodes: the user's requests (folders.go),   *)
(* what the wire tells the others (handlers.go), Syncthing's configuration *)
(* of the folder on every node, and the offers Syncthing makes.            *)
(*                                                                         *)
(* A node's Syncthing lists the folder's devices.  It offers the folder to *)
(* a listed device when the two exchange their cluster configurations,     *)
(* which a change alone does not cause: the node pauses and resumes the    *)
(* device for it.  A step is one REST call and what the program does until *)
(* the next one, or one message.  A change of the folder writes the whole  *)
(* folder as it was listed before.  The two reads of                       *)
(* RefreshPendingFolders count as one.                                     *)
(*                                                                         *)
(* All nodes have paired with each other (module Pairing), so that no      *)
(* request and no message is refused, and do not use Syncthing's           *)
(* Introducer.                                                             *)
(***************************************************************************)
EXTENDS Naturals, FiniteSets

CONSTANTS
  Node,
  NoNode,    \* a call is about no device
  Starts     \* where a behaviour may start: the folder's devices on every node, and
             \* as bounds how many events of each kind there may be

Kind == {"user", "fault", "loss"}

(* The folder is configured on a node if the node is one of its devices there. *)
ASSUME FoldersAssumption ==
  /\ NoNode \notin Node
  /\ Starts \subseteq [devices : [Node -> SUBSET Node], left : [Kind -> Nat]]
  /\ \A start \in Starts, n \in Node :
       start.devices[n] # {} => n \in start.devices[n]

(* The participants of a folder at rest list each other. *)
ASSUME MutualAssumption ==
  \A start \in Starts, n, m \in Node : m \in start.devices[n] => n \in start.devices[m]

VARIABLES
  devices,   \* devices[n]: of Syncthing: the folder's devices; without the folder none
  offers,    \* offers[n]: of Syncthing: who offers the folder to n
  pending,   \* pending[n]: pendingFolders: who is shown to offer the folder
  wireAcc,   \* wireAcc[n]: state.wireAccepted: who has told n of an acceptance
  refresh,   \* pairs <<n, m>>: n is about to pause and resume m
  wire,      \* messages that have been sent and not yet arrived
  call,      \* call[n][s]: what a request of the UI or a callback of the wire is doing
  left,      \* what is left of the budget
  forget,    \* history: pairs <<n, m>>: a removal, or m's own leave or decline, was to
             \* take m out of the folder of n, and n has not added m since
  out,       \* history: who was to be removed, has left or has declined
  excused    \* history: a call has failed, a message was lost, or a folder was written
             \* as it no longer was

cluster == <<devices, offers>>
history == <<forget, out>>
vars    == <<cluster, pending, wireAcc, refresh, wire, call, left, history, excused>>

Slot == {"ui", "wire"}
UiOp   == {"share", "accept", "decline", "remove", "leave", "edit"}
WireOp == {"kicked", "drop"}
Pc == {"idle", "begin", "list", "write", "tell", "look", "leave"}

(* peer: the device a call is about, seen: the folder as listed, others: the devices
   to be told, rest: the offerers still to be added.                                *)
Call == [op : UiOp \cup WireOp \cup {"none"}, pc : Pc, peer : Node \cup {NoNode},
         seen : SUBSET Node, others : SUBSET Node, rest : SUBSET Node]

NoCall == [op |-> "none", pc |-> "idle", peer |-> NoNode, seen |-> {}, others |-> {},
           rest |-> {}]

(* A FolderRemove without a target tells its receiver to go. *)
Message == [type : {"accept", "decline", "kick"}, from : Node, to : Node]
           \cup [type : {"remove"}, from : Node, to : Node, target : Node]

TypeOK ==
  /\ devices \in [Node -> SUBSET Node] /\ \A n \in Node : devices[n] # {} => n \in devices[n]
  /\ offers \in [Node -> SUBSET Node]
  /\ pending \in [Node -> SUBSET Node]
  /\ wireAcc \in [Node -> SUBSET Node]
  /\ refresh \subseteq Node \X Node
  /\ wire \subseteq Message
  /\ call \in [Node -> [Slot -> Call]]
  /\ left \in [Kind -> Nat]
  /\ forget \subseteq Node \X Node
  /\ out \subseteq Node
  /\ excused \in BOOLEAN

Init ==
  /\ \E start \in Starts : devices = start.devices /\ left = start.left
  /\ offers = [n \in Node |-> {}] /\ pending = [n \in Node |-> {}]
  /\ wireAcc = [n \in Node |-> {}]
  /\ refresh = {} /\ wire = {}
  /\ call = [n \in Node |-> [s \in Slot |-> NoCall]]
  /\ forget = {} /\ out = {} /\ excused = FALSE

Has(n) == devices[n] # {}

Spend(kind) == left[kind] > 0 /\ left' = [left EXCEPT ![kind] = @ - 1]

Fault == Spend("fault") /\ excused' = TRUE

NoFault == UNCHANGED <<left, excused>>

At(n, s, op, pc) == call[n][s].op = op /\ call[n][s].pc = pc

Goto(n, s, pc) == call' = [call EXCEPT ![n][s].pc = pc]

End(n, s) == call' = [call EXCEPT ![n][s] = NoCall]

(***************************************************************************)
(* Syncthing.                                                              *)
(***************************************************************************)
(* UpdateFolder: the devices become those of the copy, changed by the caller; a
   folder that has gone is not found.                                           *)
Write(n, old, new) ==
  /\ devices' = IF Has(n) THEN [devices EXCEPT ![n] = new] ELSE devices
  /\ excused' = (excused \/ devices[n] # old)

(* The cluster configurations of two nodes are exchanged. *)
Offered(n, m) ==
  IF n \in devices[m] /\ m \notin devices[n] THEN offers[n] \cup {m} ELSE offers[n] \ {m}

Exchange(n, m) ==
  /\ <<n, m>> \in refresh
  /\ refresh' = refresh \ {<<n, m>>}
  /\ offers' = [offers EXCEPT ![n] = Offered(n, m), ![m] = Offered(m, n)]
  /\ UNCHANGED <<devices, pending, wireAcc, wire, call, left, history, excused>>

(* PauseDevice or ResumeDevice fails, which nobody notices. *)
RefreshFails(n, m) ==
  /\ <<n, m>> \in refresh /\ Fault
  /\ refresh' = refresh \ {<<n, m>>}
  /\ UNCHANGED <<cluster, pending, wireAcc, wire, call, history>>

(* Mutant: an offer of a folder that is configured is taken for a phantom. *)
InvitesUnlessHad(n) == IF Has(n) THEN {} ELSE offers[n]

(* An offerer that is a participant already is a phantom. *)
Invites(n) == offers[n] \ devices[n]

(* RefreshPendingFolders; without the list of folders nothing is filtered. *)
RefreshPending(n) ==
  \/ pending' = [pending EXCEPT ![n] = Invites(n)] /\ NoFault
  \/ Fault /\ pending' \in {pending, [pending EXCEPT ![n] = offers[n]]}

(* The pipeline runs on every event of Syncthing and every 30 s. *)
Pipeline(n) ==
  /\ pending[n] # Invites(n)
  /\ pending' = [pending EXCEPT ![n] = Invites(n)]
  /\ UNCHANGED <<cluster, wireAcc, refresh, wire, call, left, history, excused>>

(***************************************************************************)
(* The messages.  Each is sent by a goroutine of its own: they arrive in   *)
(* any order, and are lost if there is no connection for 5 s.              *)
(***************************************************************************)
Notice(type, n, m) == [type |-> type, from |-> n, to |-> m]

RemoveNotice(n, m, target) == [type |-> "remove", from |-> n, to |-> m, target |-> target]

Lose(msg) ==
  /\ Spend("loss") /\ excused' = TRUE
  /\ wire' = wire \ {msg}
  /\ UNCHANGED <<cluster, pending, wireAcc, refresh, call, history>>

(***************************************************************************)
(* Requests of the user.                                                   *)
(***************************************************************************)
Begin(n, op, p, pc) ==
  /\ call[n]["ui"] = NoCall /\ Spend("user")
  /\ call' = [call EXCEPT ![n]["ui"] = [NoCall EXCEPT !.op = op, !.peer = p, !.pc = pc]]
  /\ UNCHANGED <<cluster, pending, wireAcc, refresh, wire, history, excused>>

(* The devices a request may be about: the UI shows the participants, and the offers. *)
Request(n) ==
  \/ \E p \in Node \ {n} : Begin(n, "share", p, "list")
  \/ \E p \in pending[n] : Begin(n, "accept", p, "begin") \/ Begin(n, "decline", p, "begin")
  \/ \E p \in devices[n] \ {n} : Begin(n, "remove", p, "look")
  \/ Has(n) /\ (Begin(n, "leave", n, "look") \/ Begin(n, "edit", n, "list"))

(* FolderShare, FolderUpdateLabel and FolderUpdateDirection: the listing.  A share
   that adds a device resets what is known of its acceptance.  Without the folder a
   share creates another one, and an edit finds none.                              *)
ShareLists(n) ==
  /\ At(n, "ui", "share", "list")
  /\ LET p == call[n]["ui"].peer
     IN  \/ /\ Has(n) /\ NoFault
            /\ call' = [call EXCEPT ![n]["ui"].pc = "write", ![n]["ui"].seen = devices[n]]
            /\ wireAcc' = IF p \in devices[n] THEN wireAcc
                          ELSE [wireAcc EXCEPT ![n] = @ \ {p}]
         \/ ~Has(n) /\ End(n, "ui") /\ NoFault /\ UNCHANGED wireAcc
         \/ Fault /\ End(n, "ui") /\ UNCHANGED wireAcc
  /\ UNCHANGED <<cluster, pending, refresh, wire, history>>

EditLists(n) ==
  /\ At(n, "ui", "edit", "list")
  /\ \/ /\ Has(n) /\ NoFault
        /\ call' = [call EXCEPT ![n]["ui"].pc = "write", ![n]["ui"].seen = devices[n]]
     \/ ~Has(n) /\ End(n, "ui") /\ NoFault
     \/ Fault /\ End(n, "ui")
  /\ UNCHANGED <<cluster, pending, wireAcc, refresh, wire, history>>

(* Mutant: the devices are not paused and resumed. *)
RefreshNone(n, p, seen) == {}

(* After a device was added all the others are to learn of it. *)
RefreshAll(n, p, seen) ==
  IF p \in seen \/ ~Has(n) THEN {} ELSE {<<n, m>> : m \in (seen \cup {p}) \ {n}}

ShareWrites(n) ==
  /\ At(n, "ui", "share", "write")
  /\ LET p == call[n]["ui"].peer
         seen == call[n]["ui"].seen
     IN  \/ /\ Write(n, seen, seen \cup {p}) /\ UNCHANGED left
            /\ refresh' = refresh \cup RefreshAll(n, p, seen)
            /\ forget' = forget \ {<<n, p>>}
         \/ Fault /\ UNCHANGED <<devices, refresh, forget>>
  /\ End(n, "ui")
  /\ UNCHANGED <<offers, pending, wireAcc, wire, out>>

EditWrites(n) ==
  /\ At(n, "ui", "edit", "write")
  /\ \/ Write(n, call[n]["ui"].seen, call[n]["ui"].seen) /\ UNCHANGED left
     \/ Fault /\ UNCHANGED devices
  /\ End(n, "ui")
  /\ UNCHANGED <<offers, pending, wireAcc, refresh, wire, history>>

(* FolderAccept: all who offer the folder are taken in.  A folder that is had gets
   them one after another; otherwise it is added with all of them, which replaces
   whatever there is by then.                                                      *)
AcceptLists(n) ==
  /\ At(n, "ui", "accept", "begin")
  /\ LET all == {call[n]["ui"].peer} \cup pending[n]
     IN  \/ /\ NoFault
            /\ call' = [call EXCEPT ![n]["ui"] =
                 [@ EXCEPT !.pc = IF Has(n) THEN "list" ELSE "write", !.others = all,
                           !.rest = IF Has(n) THEN all ELSE {}]]
         \/ Fault /\ End(n, "ui")
  /\ UNCHANGED <<cluster, pending, wireAcc, refresh, wire, history>>

(* Mutant: a new folder is configured with those who offer it only. *)
OfferersOnly(n, others) == others

(* The devices of a folder that is taken over. *)
NewDevices(n, others) == {n} \cup others

AcceptCreates(n) ==
  /\ At(n, "ui", "accept", "write") /\ call[n]["ui"].rest = {}
  /\ \/ /\ devices' = [devices EXCEPT ![n] = NewDevices(n, call[n]["ui"].others)]
        /\ excused' = (excused \/ Has(n)) /\ UNCHANGED left
        /\ Goto(n, "ui", "tell")
     \/ Fault /\ End(n, "ui") /\ UNCHANGED devices
  /\ UNCHANGED <<offers, pending, wireAcc, refresh, wire, history>>

(* addDeviceToFolderInST, for an offerer that is left: a failure is only logged. *)
Added(n, p) == IF call[n]["ui"].rest = {p} THEN "tell" ELSE "list"

AcceptAddLists(n, p) ==
  /\ At(n, "ui", "accept", "list") /\ p \in call[n]["ui"].rest
  /\ LET next == [call[n]["ui"] EXCEPT !.pc = Added(n, p), !.rest = @ \ {p}]
     IN  \/ /\ Has(n) /\ p \notin devices[n] /\ NoFault
            /\ call' = [call EXCEPT ![n]["ui"] =
                 [@ EXCEPT !.pc = "write", !.peer = p, !.seen = devices[n]]]
         \/ /\ Has(n) => p \in devices[n]
            /\ call' = [call EXCEPT ![n]["ui"] = next] /\ NoFault
         \/ Fault /\ call' = [call EXCEPT ![n]["ui"] = next]
  /\ UNCHANGED <<cluster, pending, wireAcc, refresh, wire, history>>

AcceptAdds(n, p) ==
  /\ At(n, "ui", "accept", "write") /\ p \in call[n]["ui"].rest /\ p = call[n]["ui"].peer
  /\ \/ /\ Write(n, call[n]["ui"].seen, call[n]["ui"].seen \cup {p}) /\ UNCHANGED left
        /\ wireAcc' = IF Has(n) THEN [wireAcc EXCEPT ![n] = @ \ {p}] ELSE wireAcc
     \/ Fault /\ UNCHANGED <<devices, wireAcc>>
  /\ call' = [call EXCEPT ![n]["ui"] =
       [call[n]["ui"] EXCEPT !.pc = Added(n, p), !.rest = @ \ {p}, !.seen = {}]]
  /\ UNCHANGED <<offers, pending, refresh, wire, history>>

(* They have accepted, as it is their folder, and are told that so has this node. *)
AcceptTells(n) ==
  /\ At(n, "ui", "accept", "tell")
  /\ LET all == call[n]["ui"].others
     IN  /\ refresh' = refresh \cup {<<n, m>> : m \in all}
         /\ wireAcc' = [wireAcc EXCEPT ![n] = @ \cup all]
         /\ wire' = wire \cup {Notice("accept", n, m) : m \in all}
         /\ forget' = forget \ ({n} \X all)
  /\ RefreshPending(n)
  /\ End(n, "ui")
  /\ UNCHANGED <<cluster, out>>

(* FolderDecline. *)
Declines(n) ==
  /\ At(n, "ui", "decline", "begin")
  /\ \/ /\ offers' = [offers EXCEPT ![n] = @ \ {call[n]["ui"].peer}]
        /\ NoFault
     \/ Fault /\ UNCHANGED offers
  /\ wire' = wire \cup {Notice("decline", n, call[n]["ui"].peer)}
  /\ forget' = forget \cup {<<call[n]["ui"].peer, n>>} /\ out' = out \cup {n}
  /\ Goto(n, "ui", "tell")
  /\ UNCHANGED <<devices, pending, wireAcc, refresh>>

DeclineRefreshes(n) ==
  /\ At(n, "ui", "decline", "tell")
  /\ RefreshPending(n)
  /\ End(n, "ui")
  /\ UNCHANGED <<cluster, wireAcc, refresh, wire, history>>

(* FolderRemoveDevice and FolderRemove: those who are told are looked up first. *)
Participants(n) == devices[n] \ {n}

RemoveLooks(n) ==
  /\ At(n, "ui", "remove", "look")
  /\ \/ /\ call' = [call EXCEPT ![n]["ui"].pc = "list", ![n]["ui"].others = Participants(n)]
        /\ NoFault
     \/ Fault /\ Goto(n, "ui", "list")
  /\ UNCHANGED <<cluster, pending, wireAcc, refresh, wire, history>>

LeaveLooks(n) ==
  /\ At(n, "ui", "leave", "look")
  /\ \/ /\ wire' = wire \cup {RemoveNotice(n, m, n) : m \in Participants(n)}
        /\ forget' = forget \cup (Participants(n) \X {n}) /\ out' = out \cup {n}
        /\ NoFault
     \/ Fault /\ UNCHANGED <<wire, history>>
  /\ Goto(n, "ui", "leave")
  /\ UNCHANGED <<cluster, pending, wireAcc, refresh>>

(* RemoveFolder, at the end of a leave or of a kick. *)
RemovesFolder(n, s) ==
  /\ call[n][s].pc = "leave"
  /\ \/ devices' = [devices EXCEPT ![n] = {}] /\ NoFault
     \/ Fault /\ UNCHANGED devices
  /\ End(n, s)
  /\ UNCHANGED <<offers, pending, wireAcc, refresh, wire, history>>

(***************************************************************************)
(* removeDeviceFromFolderInST, in a request and in the callbacks.          *)
(***************************************************************************)
Removing(n, s, pc) == call[n][s].op \in {"remove", "kicked", "drop"} /\ call[n][s].pc = pc

(* Mutant: only the removed device is told. *)
NoticesToRemovedOnly(n, p, others) == {Notice("kick", n, p)}

(* What a removal tells: its device to go, and the others that it has gone. *)
RemovalNotices(n, p, others) ==
  {Notice("kick", n, p)} \cup {RemoveNotice(n, m, p) : m \in others \ {p}}

(* Mutant: whoever is told of a removal passes it on. *)
ToldOn(n, c) ==
  RemovalNotices(n, c.peer, IF c.op = "drop" THEN Participants(n) ELSE c.others)

(* Only a removal the user asked for is told. *)
Told(n, c) == IF c.op = "remove" THEN RemovalNotices(n, c.peer, c.others) ELSE {}

(* What follows a removal. *)
After(n, s) ==
  LET c == call[n][s]
  IN  /\ wire' = wire \cup Told(n, c)
      /\ IF c.op = "kicked" THEN Goto(n, s, "look") ELSE End(n, s)
      /\ IF c.op = "remove"
         THEN /\ forget' = forget \cup {<<c.peer, n>>}
                            \cup (({n} \cup c.others) \ {c.peer}) \X {c.peer}
              /\ out' = out \cup {c.peer}
         ELSE UNCHANGED history

RemovalLists(n, s) ==
  /\ Removing(n, s, "list")
  /\ \/ /\ Has(n) /\ NoFault
        /\ call' = [call EXCEPT ![n][s].pc = "write", ![n][s].seen = devices[n]]
        /\ UNCHANGED <<wire, history>>
     \/ ~Has(n) /\ After(n, s) /\ NoFault
     \/ Fault /\ After(n, s)
  /\ UNCHANGED <<cluster, pending, wireAcc, refresh>>

RemovalWrites(n, s) ==
  /\ Removing(n, s, "write")
  /\ \/ /\ Write(n, call[n][s].seen, call[n][s].seen \ {call[n][s].peer})
        /\ UNCHANGED left
     \/ Fault /\ UNCHANGED devices
  /\ After(n, s)
  /\ UNCHANGED <<offers, pending, wireAcc, refresh>>

(* A kicked node gives the folder up if nobody else is in it, or if it cannot tell. *)
KickedLooks(n) ==
  /\ At(n, "wire", "kicked", "look")
  /\ \/ Participants(n) = {} /\ Goto(n, "wire", "leave") /\ NoFault
     \/ Participants(n) # {} /\ End(n, "wire") /\ NoFault
     \/ Fault /\ Goto(n, "wire", "leave")
  /\ UNCHANGED <<cluster, pending, wireAcc, refresh, wire, history>>

(***************************************************************************)
(* Callbacks of the wire.                                                  *)
(***************************************************************************)
StartCall(n, op, p) ==
  call' = [call EXCEPT ![n]["wire"] = [NoCall EXCEPT !.op = op, !.peer = p, !.pc = "list"]]

Receive(msg) ==
  LET n == msg.to
  IN  /\ call[n]["wire"] = NoCall
      /\ wire' = wire \ {msg}
      /\ \/ /\ msg.type = "accept"
            /\ wireAcc' = [wireAcc EXCEPT ![n] = @ \cup {msg.from}]
            /\ UNCHANGED call
         \/ /\ UNCHANGED wireAcc
            /\ \/ msg.type = "kick" /\ StartCall(n, "kicked", msg.from)
               \/ msg.type = "remove" /\ StartCall(n, "drop", msg.target)
               \/ msg.type = "decline" /\ StartCall(n, "drop", msg.from)
      /\ UNCHANGED <<cluster, pending, refresh, left, history, excused>>

(***************************************************************************)
(* The specification.                                                      *)
(***************************************************************************)
UiStep(n) ==
  \/ ShareLists(n) \/ ShareWrites(n) \/ EditLists(n) \/ EditWrites(n)
  \/ AcceptLists(n) \/ AcceptCreates(n) \/ AcceptTells(n)
  \/ \E p \in Node : AcceptAddLists(n, p) \/ AcceptAdds(n, p)
  \/ Declines(n) \/ DeclineRefreshes(n)
  \/ RemoveLooks(n) \/ LeaveLooks(n)
  \/ RemovesFolder(n, "ui") \/ RemovalLists(n, "ui") \/ RemovalWrites(n, "ui")

WireStep(n) ==
  RemovalLists(n, "wire") \/ RemovalWrites(n, "wire") \/ KickedLooks(n)
  \/ RemovesFolder(n, "wire")

(* Calls run to their end, messages arrive or are lost, paused devices resume. *)
System ==
  \/ \E n, m \in Node : Exchange(n, m) \/ RefreshFails(n, m)
  \/ \E n \in Node : UiStep(n) \/ WireStep(n) \/ Pipeline(n)
  \/ \E msg \in wire : Receive(msg) \/ Lose(msg)

Next == System \/ \E n \in Node : Request(n)

Spec == Init /\ [][Next]_vars

FairSpec == Spec /\ WF_vars(System)

(***************************************************************************)
(* Properties.                                                             *)
(***************************************************************************)
(* Nothing is under way. *)
Quiet ==
  /\ wire = {} /\ refresh = {}
  /\ \A n \in Node : call[n] = [s \in Slot |-> NoCall] /\ pending[n] = Invites(n)

(* FolderRemoveDevice and FolderRemove: when the messages have arrived, in whatever
   order and beside whatever other requests, all who were told have dropped the device. *)
GroupForgets == Quiet /\ ~excused => \A r \in forget : r[2] \notin devices[r[1]]

(* A participant lists the node by which it is listed, or is shown its invitation. *)
Mutual(n, m) == n \in devices[m] \/ n \in pending[m]

(* Nobody is left to know nothing of a node that lists it, be it without the folder or
   in it with others; unless either has been removed, or has gone of its own accord.   *)
NoDangling ==
  Quiet /\ ~excused =>
    \A n \in Node \ out : \A m \in Participants(n) \ out : Mutual(n, m)

(* Whatever is asked of whom: the calls end, no notice is answered for ever, and what
   is shown as an invitation becomes what is offered.                                 *)
ComesToRest == <>[]Quiet

(* handlers.go:173: in a mesh the folder of a node that was kicked "keeps syncing with
   the remaining peers".                                                              *)
RemainingPeersSync ==
  Quiet /\ ~excused => \A n \in Node : \A m \in Participants(n) : Mutual(n, m)

=============================================================================
