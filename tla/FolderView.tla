----------------------------- MODULE FolderView -----------------------------
(***************************************************************************)
(* What the UI shows of one folder and one peer: the derivation of         *)
(* node/derive.go and the machinery that keeps its result up to date.  The *)
(* pipeline worker sweeps Syncthing into two caches and pushes what they   *)
(* say; the push worker pushes without a sweep; the wire and the user      *)
(* change the caches in between.                                           *)
(*                                                                         *)
(* Syncthing and the peer are external.  A step is one REST call, one      *)
(* critical section of node.State or one operation of a channel.  Time is  *)
(* counted in intervals of the 30 s ticker; what passes during a sweep is  *)
(* counted after it, as the sweep reads the clock once, at its start.      *)
(***************************************************************************)
EXTENDS Naturals

CONSTANTS
  StallAfter,  \* stallAfter, in intervals of the ticker
  MaxBytes,    \* bound: how many bytes the peer may need
  Budgets      \* bound: how many events of each kind a behaviour may have

Kind == {"peer", "data", "user", "fault"}

ASSUME FolderViewAssumption ==
  /\ StallAfter \in Nat \ {0}
  /\ MaxBytes \in Nat \ {0}
  /\ Budgets \subseteq [Kind -> Nat]

VARIABLES
  member,     \* Syncthing: the peer is in the folder's device list
  joined,     \* the peer has configured the folder
  remoteSeq,  \* Syncthing: the peer is a key of the folder's RemoteSequence
  connected,  \* Syncthing: the peer is connected
  paused,     \* Syncthing: the peer has paused the folder
  owes,       \* Syncthing: the peer's completion, [items, bytes]
  event,      \* Syncthing has events WatchEvents has not fetched
  flight,     \* a FolderAccept of the peer is on the wire
  wireAcc,    \* state.wireAccepted
  accepted,   \* state.folderAccepted
  info,       \* state.folderPeer
  progress,   \* Handlers.folderPeerProgress
  pipelineCh, \* pipelineCh holds a request
  retry,      \* a retry of the pipeline is due in pipelineRetryDelay
  pushCh,     \* pushCh holds a request
  sweep,      \* what the pipeline worker is doing, and what it has read
  snap,       \* snap[w]: what worker w is doing in Push, and what it has read
  share,      \* what the user's request is doing
  view,       \* the state shown by the UI
  left,       \* what is left of the budget
  excused     \* history: since a sweep last found the peer to have accepted, it was
              \* removed or invited anew, or a sweep could not read the folder's status

st     == <<member, joined, remoteSeq, connected, paused, owes>>
caches == <<wireAcc, accepted, info, progress>>
queues == <<event, pipelineCh, retry, pushCh>>
vars   == <<st, flight, caches, queues, sweep, snap, share, view, left, excused>>

Worker == {"push", "pipeline"}

(* A folder's completion for the peer, FolderPeerInfo without its counters, and
   peerProgress with the age of lastProgress.                                  *)
Completion == [items : BOOLEAN, bytes : 0..MaxBytes]
Info       == [need : BOOLEAN, stalled : BOOLEAN, paused : BOOLEAN]
Progress   == [bytes : 0..MaxBytes, age : 0..StallAfter]

(* A device without an entry: the zero FolderPeerInfo, and no progress. *)
NoInfo     == [need |-> FALSE, stalled |-> FALSE, paused |-> FALSE]
NoProgress == [bytes |-> 0, age |-> StallAfter + 1]

Known(p) == p # NoProgress

SweepPc == {"idle", "ready", "list", "conn", "status", "completion", "accepted", "info"}
Sweep == [pc : SweepPc, member : BOOLEAN, conn : BOOLEAN, acc : BOOLEAN, info : Info,
          progress : Progress \cup {NoProgress}]

SnapPc == {"idle", "list", "conn", "derive", "send"}
RelationState ==
  {"not-member", "invited", "accepted-paused-local", "accepted-paused-remote",
   "accepted-syncing", "accepted-sending", "accepted-stalled", "accepted-idle",
   "accepted-behind-offline", "accepted-offline"}
Snapshot == [pc : SnapPc, member : BOOLEAN, conn : BOOLEAN, state : RelationState]

SyncthingType ==
  /\ member \in BOOLEAN /\ joined \in BOOLEAN /\ remoteSeq \in BOOLEAN
  /\ connected \in BOOLEAN /\ paused \in BOOLEAN /\ owes \in Completion
  /\ event \in BOOLEAN /\ flight \in BOOLEAN

CacheType ==
  /\ wireAcc \in BOOLEAN /\ accepted \in BOOLEAN /\ info \in Info
  /\ progress \in Progress \cup {NoProgress}
  /\ excused \in BOOLEAN

QueueType ==
  /\ pipelineCh \in BOOLEAN /\ retry \in BOOLEAN /\ pushCh \in BOOLEAN
  /\ share \in {"idle", "reset", "add", "remove"}
  /\ left \in [Kind -> Nat]

WorkerType ==
  /\ sweep \in Sweep
  /\ snap \in [Worker -> Snapshot]
  /\ view \in RelationState

TypeOK == SyncthingType /\ CacheType /\ QueueType /\ WorkerType

NoSweep == [pc |-> "idle", member |-> FALSE, conn |-> FALSE, acc |-> FALSE,
            info |-> NoInfo, progress |-> NoProgress]
NoSnap  == [pc |-> "idle", member |-> FALSE, conn |-> FALSE, state |-> "not-member"]

(* The node starts: its caches are empty, and a sweep is requested.  Syncthing
   knows the peer already.                                                     *)
Init ==
  /\ member \in BOOLEAN /\ joined = member /\ remoteSeq = member
  /\ connected = TRUE /\ paused = FALSE
  /\ owes = [items |-> FALSE, bytes |-> 0]
  /\ flight = FALSE
  /\ wireAcc = FALSE /\ accepted = FALSE /\ info = NoInfo /\ progress = NoProgress
  /\ event = FALSE /\ pipelineCh = TRUE /\ retry = FALSE /\ pushCh = FALSE
  /\ sweep = NoSweep /\ snap = [w \in Worker |-> NoSnap]
  /\ share = "idle" /\ view = "not-member"
  /\ left \in Budgets
  /\ excused = TRUE

Spend(kind) == left[kind] > 0 /\ left' = [left EXCEPT ![kind] = @ - 1]

(* A REST call fails. *)
Fault == Spend("fault")

(***************************************************************************)
(* The derivation (node/derive.go).                                        *)
(***************************************************************************)
(* Mutant: an accepted peer is only accepted, as before the states were split. *)
DeriveUnsplit(d) ==
  IF ~d.inDeviceList THEN "not-member"
  ELSE IF ~(d.inRemoteSequence \/ d.wireAccepted) THEN "invited"
  ELSE "accepted"

DeriveFolderRelationState(d) ==
  IF ~d.inDeviceList THEN "not-member"
  ELSE IF ~(d.inRemoteSequence \/ d.wireAccepted) THEN "invited"
  ELSE IF d.folderPausedLocally THEN "accepted-paused-local"
  ELSE IF d.remoteStatePaused THEN "accepted-paused-remote"
  ELSE IF ~d.bepLive /\ d.peerNeed THEN "accepted-behind-offline"
  ELSE IF ~d.bepLive THEN "accepted-offline"
  ELSE IF d.folderState \in {"syncing", "scanning"} THEN "accepted-syncing"
  ELSE IF d.peerNeed /\ d.peerStalled THEN "accepted-stalled"
  ELSE IF d.peerNeed THEN "accepted-sending"
  ELSE "accepted-idle"

(* What listFolders hands over: our own pause and folder state are left at zero. *)
Dimensions(inList, conn, acc, wire, i) ==
  [inDeviceList |-> inList, inRemoteSequence |-> acc, wireAccepted |-> wire,
   bepLive |-> conn, folderState |-> "", folderPausedLocally |-> FALSE,
   remoteStatePaused |-> i.paused, peerNeed |-> i.need, peerStalled |-> i.stalled]

(***************************************************************************)
(* The peer and Syncthing.  Of these changes Syncthing reports those of its*)
(* configuration and of its connections.                                   *)
(***************************************************************************)
PeerAccepts ==
  /\ member /\ ~joined /\ Spend("peer")
  /\ joined' = TRUE
  /\ flight' \in {flight, TRUE}
  /\ UNCHANGED <<member, remoteSeq, connected, paused, owes, caches, queues, sweep, snap,
                 share, view, excused>>

(* The peer's cluster configuration arrives. *)
ClusterConfig ==
  /\ member /\ joined /\ connected /\ ~remoteSeq
  /\ remoteSeq' = TRUE
  /\ UNCHANGED <<member, joined, connected, paused, owes, flight, caches, queues, sweep,
                 snap, share, view, left, excused>>

PeerConnects ==
  /\ ~connected
  /\ connected' = TRUE /\ event' = TRUE
  /\ UNCHANGED <<member, joined, remoteSeq, paused, owes, flight, caches, pipelineCh,
                 retry, pushCh, sweep, snap, share, view, left, excused>>

PeerDisconnects ==
  /\ connected /\ Spend("peer")
  /\ connected' = FALSE /\ event' = TRUE
  /\ UNCHANGED <<member, joined, remoteSeq, paused, owes, flight, caches, pipelineCh,
                 retry, pushCh, sweep, snap, share, view, excused>>

PeerPauses ==
  /\ remoteSeq /\ connected /\ Spend("peer")
  /\ paused' = ~paused
  /\ UNCHANGED <<member, joined, remoteSeq, connected, owes, flight, caches, queues,
                 sweep, snap, share, view, excused>>

(* A file or, without bytes to send, a deletion is added to what the peer needs. *)
NewData ==
  /\ member /\ Spend("data")
  /\ \E more \in {0, 1} :
       /\ owes.bytes + more <= MaxBytes
       /\ owes' = [items |-> TRUE, bytes |-> owes.bytes + more]
  /\ UNCHANGED <<member, joined, remoteSeq, connected, paused, flight, caches, queues,
                 sweep, snap, share, view, excused>>

Transfer ==
  /\ remoteSeq /\ connected /\ ~paused /\ owes.items /\ Spend("data")
  /\ owes' = IF owes.bytes > 1 THEN [owes EXCEPT !.bytes = @ - 1]
             ELSE [items |-> FALSE, bytes |-> 0]
  /\ UNCHANGED <<member, joined, remoteSeq, connected, paused, flight, caches, queues,
                 sweep, snap, share, view, excused>>

Environment ==
  PeerAccepts \/ ClusterConfig \/ PeerConnects \/ PeerDisconnects \/ PeerPauses
  \/ NewData \/ Transfer

(***************************************************************************)
(* The wire (OnFolderAccept, handlers.go) and its loss.                    *)
(***************************************************************************)
OnFolderAccept ==
  /\ flight /\ flight' = FALSE
  /\ wireAcc' = TRUE
  /\ pushCh' = TRUE
  /\ UNCHANGED <<st, accepted, info, progress, event, pipelineCh, retry, sweep, snap,
                 share, view, left, excused>>

LoseAccept ==
  /\ flight /\ flight' = FALSE
  /\ UNCHANGED <<st, caches, queues, sweep, snap, share, view, left, excused>>

(***************************************************************************)
(* The user's requests: FolderShare of a folder that exists, which resets  *)
(* the acceptance before it adds the peer, and FolderRemoveDevice.  What   *)
(* was listed may have changed when it is acted on.                        *)
(***************************************************************************)
Request ==
  /\ share = "idle" /\ Spend("user")
  /\ share' = IF member THEN "remove" ELSE "reset"
  /\ UNCHANGED <<st, flight, caches, queues, sweep, snap, view, excused>>

(* resetAccepted. *)
ResetAccepted == wireAcc' = FALSE /\ accepted' = FALSE /\ UNCHANGED <<info, progress>>

ShareResets ==
  /\ share = "reset"
  /\ ResetAccepted
  /\ share' = "add" /\ excused' = TRUE
  /\ UNCHANGED <<st, flight, queues, sweep, snap, view, left>>

ShareAdds ==
  /\ share = "add" /\ share' = "idle"
  /\ \/ /\ member' = TRUE /\ event' = TRUE /\ pushCh' = TRUE
        /\ UNCHANGED left
     \/ Fault /\ UNCHANGED <<member, event, pushCh>>
  /\ UNCHANGED <<joined, remoteSeq, connected, paused, owes, flight, caches, pipelineCh,
                 retry, sweep, snap, view, excused>>

(* Syncthing forgets a device that has left the folder; the device may keep it. *)
RemovesDevice ==
  /\ share = "remove" /\ share' = "idle"
  /\ pushCh' = TRUE /\ excused' = TRUE
  /\ \/ /\ member' = FALSE /\ remoteSeq' = FALSE /\ paused' = FALSE
        /\ joined' \in {joined, FALSE}
        /\ owes' = [items |-> FALSE, bytes |-> 0]
        /\ event' = TRUE
        /\ UNCHANGED left
     \/ /\ Spend("fault")
        /\ UNCHANGED <<member, remoteSeq, paused, joined, owes, event>>
  /\ UNCHANGED <<connected, flight, caches, pipelineCh, retry, sweep, snap, view>>

User == Request \/ ShareResets \/ ShareAdds \/ RemovesDevice

(***************************************************************************)
(* Requests for the pipeline: Syncthing's events, the ticker, the retry.   *)
(* A request that finds one queued is dropped.                             *)
(***************************************************************************)
WatchEvents ==
  /\ event /\ event' = FALSE
  /\ pipelineCh' = TRUE
  /\ UNCHANGED <<st, flight, caches, retry, pushCh, sweep, snap, share, view, left,
                 excused>>

Retry ==
  /\ retry /\ retry' = FALSE
  /\ pipelineCh' = TRUE
  /\ UNCHANGED <<st, flight, caches, event, pushCh, sweep, snap, share, view, left,
                 excused>>

(* Mutant: nothing but events asks for a sweep. *)
TickRequestsNothing == pipelineCh

TickRequests == TRUE

Older(p) == IF Known(p) /\ p.age < StallAfter THEN [p EXCEPT !.age = @ + 1] ELSE p

(* An interval passes, and the ticker fires. *)
Tick ==
  /\ sweep.pc = "idle"
  /\ pipelineCh' = TickRequests
  /\ progress' = Older(progress)
  /\ UNCHANGED <<st, flight, wireAcc, accepted, info, event, retry, pushCh, sweep, snap,
                 share, view, left, excused>>

(***************************************************************************)
(* The pipeline worker: stReady, the sweep of RefreshFolderCompletion, and *)
(* Push.  The worker is the only one to sweep, so that completionRefreshing*)
(* is free whenever it asks for it.                                        *)
(***************************************************************************)
At(pc) == sweep.pc = pc

Goto(pc) == sweep' = [sweep EXCEPT !.pc = pc]

GotoSnap(w, pc) == snap' = [snap EXCEPT ![w].pc = pc]

PipelinePushes == sweep' = NoSweep /\ GotoSnap("pipeline", "list")

TakePipeline ==
  /\ At("idle") /\ snap["pipeline"].pc = "idle"
  /\ pipelineCh /\ pipelineCh' = FALSE
  /\ Goto("ready")
  /\ UNCHANGED <<st, flight, caches, event, retry, pushCh, snap, share, view, left,
                 excused>>

StReady ==
  /\ At("ready")
  /\ \/ Goto("list") /\ UNCHANGED <<retry, left>>
     \/ Fault /\ Goto("idle") /\ retry' = TRUE
  /\ UNCHANGED <<st, flight, caches, event, pipelineCh, pushCh, snap, share, view, excused>>

(* Without a list the caches stay as they are, and are pushed. *)
SweepLists ==
  /\ At("list")
  /\ \/ /\ sweep' = [sweep EXCEPT !.pc = "conn", !.member = member, !.progress = progress]
        /\ UNCHANGED <<snap, left>>
     \/ Fault /\ PipelinePushes
  /\ UNCHANGED <<st, flight, caches, queues, share, view, excused>>

SweepConnections ==
  /\ At("conn")
  /\ LET next == IF sweep.member THEN "status" ELSE "accepted"
     IN  \/ /\ sweep' = [sweep EXCEPT !.pc = next, !.conn = connected]
            /\ UNCHANGED left
         \/ Fault /\ Goto(next)
  /\ UNCHANGED <<st, flight, caches, queues, snap, share, view, excused>>

(* Mutant: the peer counts as having accepted while it is connected. *)
InRemoteSequenceLive == remoteSeq /\ connected

InRemoteSequence == remoteSeq

(* A status that cannot be read counts as no acceptance. *)
SweepStatus ==
  /\ At("status")
  /\ \/ /\ sweep' = [sweep EXCEPT !.pc = "completion", !.acc = InRemoteSequence]
        /\ UNCHANGED <<left, excused>>
     \/ Fault /\ excused' = TRUE /\ Goto("completion")
  /\ UNCHANGED <<st, flight, caches, queues, snap, share, view>>

(* The age of lastProgress after a sweep that finds the peer to need some bytes. *)
Age(prev, bytes) == IF ~Known(prev) \/ bytes < prev.bytes THEN 0 ELSE prev.age

(* Of a peer that is offline Syncthing does not know. *)
RemotePaused == paused /\ connected

Stalled(bytes, conn, age) == bytes > 0 /\ conn /\ age >= StallAfter

(* Without a completion the peer has no entry in either map. *)
SweepCompletion ==
  /\ At("completion")
  /\ \/ LET age == Age(sweep.progress, owes.bytes)
        IN  /\ sweep' = [sweep EXCEPT
                 !.pc = "accepted", !.conn = FALSE,
                 !.progress = [bytes |-> owes.bytes, age |-> age],
                 !.info = [need |-> owes.items, paused |-> RemotePaused,
                           stalled |-> Stalled(owes.bytes, sweep.conn, age)]]
            /\ UNCHANGED left
     \/ Fault /\ sweep' = [sweep EXCEPT !.pc = "accepted", !.conn = FALSE,
                                             !.progress = NoProgress]
  /\ UNCHANGED <<st, flight, caches, queues, snap, share, view, excused>>

ReplaceFolderAccepted ==
  /\ At("accepted")
  /\ accepted' = sweep.acc
  /\ progress' = IF sweep.member THEN sweep.progress ELSE NoProgress
  /\ sweep' = [NoSweep EXCEPT !.pc = "info", !.info = sweep.info]
  /\ excused' = (excused /\ ~(accepted' /\ remoteSeq))
  /\ UNCHANGED <<st, flight, wireAcc, info, queues, snap, share, view, left>>

ReplaceFolderPeerInfo ==
  /\ At("info")
  /\ info' = sweep.info
  /\ PipelinePushes
  /\ UNCHANGED <<st, flight, wireAcc, accepted, progress, queues, share, view, left,
                 excused>>

(***************************************************************************)
(* Push: a snapshot, and its broadcast.  The two workers push beside each  *)
(* other, and what was put together first may be sent last.                *)
(***************************************************************************)
TakePush ==
  /\ snap["push"].pc = "idle"
  /\ pushCh /\ pushCh' = FALSE
  /\ GotoSnap("push", "list")
  /\ UNCHANGED <<st, flight, caches, event, pipelineCh, retry, sweep, share, view, left,
                 excused>>

(* listFolders, whose list is empty if Syncthing does not answer. *)
SnapLists(w) ==
  /\ snap[w].pc = "list"
  /\ \/ /\ snap' = [snap EXCEPT ![w].pc = "conn", ![w].member = member]
        /\ UNCHANGED left
     \/ Fault /\ GotoSnap(w, "send")
  /\ UNCHANGED <<st, flight, caches, queues, sweep, share, view, excused>>

SnapConnections(w) ==
  /\ snap[w].pc = "conn"
  /\ \/ /\ snap' = [snap EXCEPT ![w].pc = "derive", ![w].conn = connected]
        /\ UNCHANGED left
     \/ Fault /\ GotoSnap(w, "derive")
  /\ UNCHANGED <<st, flight, caches, queues, sweep, share, view, excused>>

SnapDerives(w) ==
  /\ snap[w].pc = "derive"
  /\ snap' = [snap EXCEPT ![w] = [NoSnap EXCEPT
       !.pc = "send",
       !.state = DeriveFolderRelationState(
                   Dimensions(snap[w].member, snap[w].conn, accepted, wireAcc, info))]]
  /\ UNCHANGED <<st, flight, caches, queues, sweep, share, view, left, excused>>

Broadcast(w) ==
  /\ snap[w].pc = "send"
  /\ view' = snap[w].state
  /\ snap' = [snap EXCEPT ![w] = NoSnap]
  /\ UNCHANGED <<st, flight, caches, queues, sweep, share, left, excused>>

SweepStep ==
  TakePipeline \/ StReady \/ SweepLists \/ SweepConnections \/ SweepStatus
  \/ SweepCompletion \/ ReplaceFolderAccepted \/ ReplaceFolderPeerInfo

PushStep(w) == SnapLists(w) \/ SnapConnections(w) \/ SnapDerives(w) \/ Broadcast(w)

Next ==
  \/ Environment \/ OnFolderAccept \/ LoseAccept \/ User
  \/ WatchEvents \/ Retry \/ Tick
  \/ SweepStep \/ TakePush \/ \E w \in Worker : PushStep(w)

Spec == Init /\ [][Next]_vars

(* The workers run, timers fire, a request of the user ends, events are fetched and
   a peer that has accepted announces it.  Nobody has to act, and a message of the
   wire may be lost.                                                               *)
FairSpec ==
  /\ Spec
  /\ WF_vars(SweepStep)
  /\ WF_vars(TakePush) /\ \A w \in Worker : WF_vars(PushStep(w))
  /\ WF_vars(ShareResets \/ ShareAdds \/ RemovesDevice)
  /\ WF_vars(WatchEvents) /\ WF_vars(Retry) /\ SF_vars(Tick)
  /\ WF_vars(OnFolderAccept \/ LoseAccept)

(***************************************************************************)
(* Properties.                                                             *)
(***************************************************************************)
(* The state the UI ought to show: an acceptance known to Syncthing or told by the
   wire, and the peer stalled if it is connected, needs bytes and gets none.      *)
Truth ==
  DeriveFolderRelationState(
    Dimensions(member, connected, remoteSeq, wireAcc,
               [need |-> owes.items, paused |-> RemotePaused,
                stalled |-> Stalled(owes.bytes, connected, StallAfter)]))

(* Whatever was dropped, overwritten, sent out of order or could not be read, the UI
   ends up with the truth once nothing changes any more.                            *)
Settles == <>[](view = Truth)

(* docs/state-model.md: a peer known to have accepted is not taken for invited again
   unless it was removed or invited anew, or the folder's status could not be read.
   Neither its going offline nor a sweep that has read less than the wire has said
   meanwhile takes the acceptance back.                                             *)
AcceptedStays ==
  [][(accepted \/ wireAcc) /\ ~(accepted' \/ wireAcc') => excused']_vars

=============================================================================
