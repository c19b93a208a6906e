-------------------------- MODULE FolderViewProofs --------------------------
(***************************************************************************)
(* Proofs about FolderView, for any durations, numbers of bytes and        *)
(* budgets: type correctness, the range of the derivation, and that an     *)
(* acceptance is kept.                                                     *)
(***************************************************************************)
EXTENDS FolderView, TLAPS

USE DEF st, caches, queues

LEMMA SpendType ==
  ASSUME QueueType, NEW k \in Kind, Spend(k)
  PROVE  left' \in [Kind -> Nat]
  BY DEF QueueType, Spend

(* DeriveFolderRelationState is total: whatever has been read, the result is one of the
   ten states of docs/state-model.md.                                                  *)
LEMMA DerivesState ==
  ASSUME NEW i \in BOOLEAN, NEW c \in BOOLEAN, NEW a \in BOOLEAN, NEW w \in BOOLEAN,
         NEW f \in Info
  PROVE  DeriveFolderRelationState(Dimensions(i, c, a, w, f)) \in RelationState
  BY DEF DeriveFolderRelationState, Dimensions, RelationState, Info

(* Who is not listed is shown as no member, and who has accepted is never shown as
   invited.                                                                            *)
LEMMA DerivesMember ==
  ASSUME NEW i \in BOOLEAN, NEW c \in BOOLEAN, NEW a \in BOOLEAN, NEW w \in BOOLEAN,
         NEW f \in Info,
         NEW s, s = DeriveFolderRelationState(Dimensions(i, c, a, w, f))
  PROVE  (s = "not-member" <=> ~i) /\ (s = "invited" <=> i /\ ~a /\ ~w)
  BY DEF DeriveFolderRelationState, Dimensions, Info

LEMMA NoInfoType == NoInfo \in Info
  BY DEF NoInfo, Info

LEMMA NoSweepType == NoSweep \in Sweep
  BY NoInfoType DEF NoSweep, Sweep, SweepPc

LEMMA NoSnapType == NoSnap \in Snapshot
  BY DEF NoSnap, Snapshot, SnapPc, RelationState

LEMMA NothingOwedType == [items |-> FALSE, bytes |-> 0] \in Completion
  BY FolderViewAssumption DEF Completion

LEMMA InitTypes == Init => TypeOK
<1> SUFFICES ASSUME Init PROVE TypeOK
  OBVIOUS
<1>1. SyncthingType
  BY NothingOwedType DEF Init, SyncthingType
<1>2. CacheType
  BY NoInfoType DEF Init, CacheType
<1>3. QueueType
  BY FolderViewAssumption DEF Init, QueueType
<1>4. WorkerType
  BY NoSweepType, NoSnapType DEF Init, WorkerType, RelationState
<1>5. QED
  BY <1>1, <1>2, <1>3, <1>4 DEF TypeOK

LEMMA SyncthingTypeStep ==
  ASSUME TypeOK, [Next]_vars
  PROVE  SyncthingType'
<1> USE DEF TypeOK
<1>1. CASE UNCHANGED <<st, event, flight>>
  BY <1>1 DEF SyncthingType
<1>2. CASE PeerAccepts
  BY <1>2 DEF PeerAccepts, SyncthingType
<1>3. CASE ClusterConfig
  BY <1>3 DEF ClusterConfig, SyncthingType
<1>4. CASE PeerConnects \/ PeerDisconnects
  BY <1>4 DEF PeerConnects, PeerDisconnects, SyncthingType
<1>5. CASE PeerPauses
  BY <1>5 DEF PeerPauses, SyncthingType
<1>6. CASE NewData
  <2>1. owes' \in Completion
    BY <1>6, FolderViewAssumption DEF NewData, SyncthingType, Completion
  <2>2. QED
    BY <1>6, <2>1 DEF NewData, SyncthingType
<1>7. CASE Transfer
  <2>1. owes' \in Completion
    BY <1>7, FolderViewAssumption DEF Transfer, SyncthingType, Completion
  <2>2. QED
    BY <1>7, <2>1 DEF Transfer, SyncthingType
<1>8. CASE OnFolderAccept \/ LoseAccept
  BY <1>8 DEF OnFolderAccept, LoseAccept, SyncthingType
<1>9. CASE ShareAdds
  BY <1>9 DEF ShareAdds, SyncthingType
<1>10. CASE RemovesDevice
  <2>1. owes' \in Completion
    BY <1>10, NothingOwedType DEF RemovesDevice, SyncthingType
  <2>2. QED
    BY <1>10, <2>1 DEF RemovesDevice, SyncthingType
<1>11. CASE WatchEvents
  BY <1>11 DEF WatchEvents, SyncthingType
<1>12. CASE Request \/ ShareResets \/ Retry \/ Tick \/ TakePush
  BY <1>1, <1>12 DEF Request, ShareResets, Retry, Tick, TakePush
<1>13. CASE SweepStep
  BY <1>1, <1>13 DEF SweepStep, TakePipeline, StReady, SweepLists, SweepConnections,
     SweepStatus, SweepCompletion, ReplaceFolderAccepted, ReplaceFolderPeerInfo
<1>14. ASSUME NEW w \in Worker, PushStep(w) PROVE SyncthingType'
  BY <1>1, <1>14 DEF PushStep, SnapLists, SnapConnections, SnapDerives, Broadcast
<1>15. QED
  BY <1>1, <1>2, <1>3, <1>4, <1>5, <1>6, <1>7, <1>8, <1>9, <1>10, <1>11, <1>12, <1>13,
     <1>14 DEF Next, Environment, User, vars

LEMMA CacheTypeStep ==
  ASSUME TypeOK, [Next]_vars
  PROVE  CacheType'
<1> USE DEF TypeOK
<1>1. CASE UNCHANGED <<caches, excused>>
  BY <1>1 DEF CacheType
<1>2. CASE Environment \/ LoseAccept \/ WatchEvents \/ Retry \/ TakePush
  BY <1>1, <1>2 DEF Environment, PeerAccepts, ClusterConfig, PeerConnects,
     PeerDisconnects, PeerPauses, NewData, Transfer, LoseAccept, WatchEvents, Retry,
     TakePush
<1>3. CASE OnFolderAccept
  BY <1>3 DEF OnFolderAccept, CacheType
<1>4. CASE User
  BY <1>4 DEF User, Request, ShareResets, ResetAccepted, ShareAdds, RemovesDevice,
     CacheType
<1>5. CASE Tick
  <2>1. progress' \in Progress \cup {NoProgress}
    BY <1>5, FolderViewAssumption DEF Tick, Older, Known, CacheType, Progress, NoProgress
  <2>2. QED
    BY <1>5, <2>1 DEF Tick, CacheType
<1>6. CASE TakePipeline \/ StReady \/ SweepLists \/ SweepConnections \/ SweepCompletion
  BY <1>1, <1>6 DEF TakePipeline, StReady, SweepLists, SweepConnections, SweepCompletion
<1>7. CASE SweepStatus
  BY <1>7 DEF SweepStatus, CacheType
<1>8. CASE ReplaceFolderAccepted
  BY <1>8 DEF ReplaceFolderAccepted, CacheType, WorkerType, Sweep
<1>9. CASE ReplaceFolderPeerInfo
  BY <1>9 DEF ReplaceFolderPeerInfo, CacheType, WorkerType, Sweep
<1>10. ASSUME NEW w \in Worker, PushStep(w) PROVE CacheType'
  BY <1>1, <1>10 DEF PushStep, SnapLists, SnapConnections, SnapDerives, Broadcast
<1>11. QED
  BY <1>1, <1>2, <1>3, <1>4, <1>5, <1>6, <1>7, <1>8, <1>9, <1>10 DEF Next, SweepStep, vars

LEMMA QueueTypeStep ==
  ASSUME TypeOK, [Next]_vars
  PROVE  QueueType'
<1> USE DEF TypeOK
<1>1. CASE UNCHANGED <<pipelineCh, retry, pushCh, share, left>>
  BY <1>1 DEF QueueType
<1>2. CASE Environment
  <2>1. UNCHANGED <<pipelineCh, retry, pushCh, share>>
    BY <1>2 DEF Environment, PeerAccepts, ClusterConfig, PeerConnects, PeerDisconnects,
       PeerPauses, NewData, Transfer
  <2>2. UNCHANGED left \/ \E k \in Kind : Spend(k)
    BY <1>2 DEF Environment, PeerAccepts, ClusterConfig, PeerConnects, PeerDisconnects,
       PeerPauses, NewData, Transfer, Kind
  <2>3. QED
    BY <2>1, <2>2, SpendType DEF QueueType
<1>3. CASE OnFolderAccept \/ LoseAccept \/ WatchEvents \/ Retry \/ Tick \/ TakePush
  BY <1>3 DEF OnFolderAccept, LoseAccept, WatchEvents, Retry, Tick, TickRequests, TakePush,
     QueueType
<1>4. CASE User
  <2>1. pushCh' \in BOOLEAN /\ UNCHANGED <<pipelineCh, retry>>
    BY <1>4 DEF User, Request, ShareResets, ShareAdds, RemovesDevice, QueueType
  <2>2. share' \in {"idle", "reset", "add", "remove"}
    BY <1>4 DEF User, Request, ShareResets, ShareAdds, RemovesDevice
  <2>3. UNCHANGED left \/ \E k \in Kind : Spend(k)
    BY <1>4 DEF User, Request, ShareResets, ShareAdds, RemovesDevice, Fault, Kind
  <2>4. QED
    BY <2>1, <2>2, <2>3, SpendType DEF QueueType
<1>5. CASE SweepStep
  <2>1. pipelineCh' \in BOOLEAN /\ retry' \in BOOLEAN /\ UNCHANGED <<pushCh, share>>
    BY <1>5 DEF SweepStep, TakePipeline, StReady, SweepLists, SweepConnections,
       SweepStatus, SweepCompletion, ReplaceFolderAccepted, ReplaceFolderPeerInfo,
       QueueType
  <2>2. UNCHANGED left \/ \E k \in Kind : Spend(k)
    BY <1>5 DEF SweepStep, TakePipeline, StReady, SweepLists, SweepConnections,
       SweepStatus, SweepCompletion, ReplaceFolderAccepted, ReplaceFolderPeerInfo,
       Fault, Kind
  <2>3. QED
    BY <2>1, <2>2, SpendType DEF QueueType
<1>6. ASSUME NEW w \in Worker, PushStep(w) PROVE QueueType'
  <2>1. UNCHANGED <<pipelineCh, retry, pushCh, share>>
    BY <1>6 DEF PushStep, SnapLists, SnapConnections, SnapDerives, Broadcast
  <2>2. UNCHANGED left \/ \E k \in Kind : Spend(k)
    BY <1>6 DEF PushStep, SnapLists, SnapConnections, SnapDerives, Broadcast, Fault, Kind
  <2>3. QED
    BY <2>1, <2>2, SpendType DEF QueueType
<1>7. QED
  BY <1>1, <1>2, <1>3, <1>4, <1>5, <1>6 DEF Next, vars

LEMMA GotoType ==
  ASSUME WorkerType, NEW pc \in SweepPc, Goto(pc)
  PROVE  sweep' \in Sweep
  BY DEF WorkerType, Goto, Sweep

LEMMA GotoSnapType ==
  ASSUME WorkerType, NEW w \in Worker, NEW pc \in SnapPc, GotoSnap(w, pc)
  PROVE  snap' \in [Worker -> Snapshot]
<1>1. [snap[w] EXCEPT !.pc = pc] \in Snapshot
  BY DEF WorkerType, Snapshot
<1>2. snap' = [snap EXCEPT ![w] = [snap[w] EXCEPT !.pc = pc]]
  BY DEF GotoSnap, WorkerType
<1>3. QED
  BY <1>1, <1>2 DEF WorkerType

LEMMA PipelinePushesType ==
  ASSUME WorkerType, PipelinePushes
  PROVE  sweep' \in Sweep /\ snap' \in [Worker -> Snapshot]
  BY GotoSnapType, NoSweepType DEF PipelinePushes, Worker, SnapPc

(* A sweep's copy of the completion, with the age of the progress. *)
LEMMA SweepCompletionType ==
  ASSUME TypeOK, SweepCompletion
  PROVE  sweep' \in Sweep
<1> USE DEF TypeOK
<1>1. CASE Fault /\ sweep' = [sweep EXCEPT !.pc = "accepted", !.conn = FALSE,
                                          !.progress = NoProgress]
  BY <1>1 DEF WorkerType, Sweep, SweepPc
<1>2. ASSUME NEW age, age = Age(sweep.progress, owes.bytes),
             sweep' = [sweep EXCEPT
                 !.pc = "accepted", !.conn = FALSE,
                 !.progress = [bytes |-> owes.bytes, age |-> age],
                 !.info = [need |-> owes.items, paused |-> RemotePaused,
                           stalled |-> Stalled(owes.bytes, sweep.conn, age)]]
      PROVE  sweep' \in Sweep
  <2>1. age \in 0..StallAfter
    BY <1>2, FolderViewAssumption DEF Age, Known, WorkerType, Sweep, Progress, SyncthingType
  <2>2. [bytes |-> owes.bytes, age |-> age] \in Progress
    BY <2>1 DEF Progress, SyncthingType, Completion
  <2>3. [need |-> owes.items, paused |-> RemotePaused,
         stalled |-> Stalled(owes.bytes, sweep.conn, age)] \in Info
    BY DEF Info, SyncthingType, Completion, RemotePaused, Stalled
  <2>4. QED
    BY <1>2, <2>2, <2>3 DEF WorkerType, Sweep, SweepPc
<1>3. QED
  BY <1>1, <1>2 DEF SweepCompletion

LEMMA WorkerTypeStep ==
  ASSUME TypeOK, [Next]_vars
  PROVE  WorkerType'
<1> USE DEF TypeOK
<1>1. CASE UNCHANGED <<sweep, snap, view>>
  BY <1>1 DEF WorkerType
<1>2. CASE Environment \/ OnFolderAccept \/ LoseAccept \/ User \/ WatchEvents \/ Retry \/ Tick
  BY <1>1, <1>2 DEF Environment, PeerAccepts, ClusterConfig, PeerConnects,
     PeerDisconnects, PeerPauses, NewData, Transfer, OnFolderAccept, LoseAccept, User,
     Request, ShareResets, ShareAdds, RemovesDevice, WatchEvents, Retry, Tick
<1>3. CASE TakePush
  BY <1>3, GotoSnapType DEF TakePush, Worker, SnapPc, WorkerType
<1>4. CASE TakePipeline
  BY <1>4, GotoType DEF TakePipeline, SweepPc, WorkerType
<1>5. CASE StReady
  BY <1>5, GotoType DEF StReady, SweepPc, WorkerType
<1>6. CASE SweepLists
  <2>1. CASE PipelinePushes
    BY <1>6, <2>1, PipelinePushesType DEF SweepLists, WorkerType
  <2>2. CASE sweep' = [sweep EXCEPT !.pc = "conn", !.member = member, !.progress = progress]
             /\ UNCHANGED snap
    <3>1. sweep' \in Sweep
      BY <2>2 DEF WorkerType, SyncthingType, CacheType, Sweep, SweepPc
    <3>2. QED
      BY <1>6, <2>2, <3>1 DEF SweepLists, WorkerType
  <2>3. QED
    BY <1>6, <2>1, <2>2 DEF SweepLists
<1>7. CASE SweepConnections
  <2> DEFINE next == IF sweep.member THEN "status" ELSE "accepted"
  <2>1. next \in SweepPc
    BY DEF SweepPc
  <2>2. CASE Goto(next)
    BY <1>7, <2>1, <2>2, GotoType DEF SweepConnections, WorkerType
  <2>3. CASE sweep' = [sweep EXCEPT !.pc = next, !.conn = connected]
    <3>1. sweep' \in Sweep
      BY <2>1, <2>3 DEF WorkerType, SyncthingType, Sweep
    <3>2. QED
      BY <1>7, <3>1 DEF SweepConnections, WorkerType
  <2>4. QED
    BY <1>7, <2>2, <2>3 DEF SweepConnections
<1>8. CASE SweepStatus
  <2>1. sweep' \in Sweep
    BY <1>8 DEF SweepStatus, Goto, InRemoteSequence, WorkerType, SyncthingType, Sweep, SweepPc
  <2>2. QED
    BY <1>8, <2>1 DEF SweepStatus, WorkerType
<1>9. CASE SweepCompletion
  BY <1>9, SweepCompletionType DEF SweepCompletion, WorkerType
<1>10. CASE ReplaceFolderAccepted
  <2>1. sweep' \in Sweep
    BY <1>10, NoSweepType DEF ReplaceFolderAccepted, WorkerType, Sweep, SweepPc
  <2>2. QED
    BY <1>10, <2>1 DEF ReplaceFolderAccepted, WorkerType
<1>11. CASE ReplaceFolderPeerInfo
  BY <1>11, PipelinePushesType DEF ReplaceFolderPeerInfo, WorkerType
<1>12. ASSUME NEW w \in Worker, SnapLists(w) PROVE WorkerType'
  <2>1. CASE GotoSnap(w, "send")
    BY <1>12, <2>1, GotoSnapType DEF SnapLists, SnapPc, WorkerType
  <2>2. CASE snap' = [snap EXCEPT ![w].pc = "conn", ![w].member = member]
    <3>1. snap' \in [Worker -> Snapshot]
      BY <2>2 DEF WorkerType, SyncthingType, Snapshot, SnapPc
    <3>2. QED
      BY <1>12, <3>1 DEF SnapLists, WorkerType
  <2>3. QED
    BY <1>12, <2>1, <2>2 DEF SnapLists
<1>13. ASSUME NEW w \in Worker, SnapConnections(w) PROVE WorkerType'
  <2>1. CASE GotoSnap(w, "derive")
    BY <1>13, <2>1, GotoSnapType DEF SnapConnections, SnapPc, WorkerType
  <2>2. CASE snap' = [snap EXCEPT ![w].pc = "derive", ![w].conn = connected]
    <3>1. snap' \in [Worker -> Snapshot]
      BY <2>2 DEF WorkerType, SyncthingType, Snapshot, SnapPc
    <3>2. QED
      BY <1>13, <3>1 DEF SnapConnections, WorkerType
  <2>3. QED
    BY <1>13, <2>1, <2>2 DEF SnapConnections
<1>14. ASSUME NEW w \in Worker, SnapDerives(w) PROVE WorkerType'
  <2> DEFINE s == DeriveFolderRelationState(
                    Dimensions(snap[w].member, snap[w].conn, accepted, wireAcc, info))
  <2>1. s \in RelationState
    <3>1. snap[w].member \in BOOLEAN /\ snap[w].conn \in BOOLEAN
      BY DEF WorkerType, Snapshot
    <3>2. accepted \in BOOLEAN /\ wireAcc \in BOOLEAN /\ info \in Info
      BY DEF CacheType
    <3>3. QED
      BY <3>1, <3>2, DerivesState
  <2>2. snap' = [snap EXCEPT ![w] = [NoSnap EXCEPT !.pc = "send", !.state = s]]
    BY <1>14 DEF SnapDerives
  <2>3. [NoSnap EXCEPT !.pc = "send", !.state = s] \in Snapshot
    BY <2>1, NoSnapType DEF Snapshot, SnapPc
  <2>4. QED
    BY <1>14, <2>2, <2>3 DEF SnapDerives, WorkerType
<1>15. ASSUME NEW w \in Worker, Broadcast(w) PROVE WorkerType'
  <2>1. snap[w].state \in RelationState
    BY DEF WorkerType, Snapshot
  <2>2. QED
    BY <1>15, <2>1, NoSnapType DEF Broadcast, WorkerType
<1>16. QED
  BY <1>1, <1>2, <1>3, <1>4, <1>5, <1>6, <1>7, <1>8, <1>9, <1>10, <1>11, <1>12, <1>13,
     <1>14, <1>15 DEF Next, SweepStep, PushStep, vars

(* Every step preserves the types, and what is shown is one of the ten states. *)
THEOREM TypeCorrect == Spec => []TypeOK
<1>1. TypeOK /\ [Next]_vars => TypeOK'
  BY SyncthingTypeStep, CacheTypeStep, QueueTypeStep, WorkerTypeStep DEF TypeOK
<1>2. QED
  BY <1>1, InitTypes, PTL DEF Spec

(* Only members are known to Syncthing's peers, and while an acceptance must stay,
   whatever the sweep in progress has read says so.                                *)
AcceptanceInv ==
  /\ remoteSeq => member
  /\ ~excused =>
       /\ remoteSeq
       /\ sweep.pc \in {"conn", "status", "completion", "accepted"} => sweep.member
       /\ sweep.pc \in {"completion", "accepted"} => sweep.acc

LEMMA InitAcceptance == Init => AcceptanceInv
  BY DEF Init, AcceptanceInv

LEMMA AcceptanceStep ==
  ASSUME TypeOK, AcceptanceInv, [Next]_vars
  PROVE  AcceptanceInv'
<1> USE DEF TypeOK
<1>1. CASE UNCHANGED <<member, remoteSeq, sweep, excused>>
  BY <1>1 DEF AcceptanceInv
<1>2. CASE Environment
  <2>1. CASE ClusterConfig
    BY <2>1 DEF ClusterConfig, AcceptanceInv
  <2>2. CASE UNCHANGED <<member, remoteSeq, sweep, excused>>
    BY <1>1, <2>2
  <2>3. QED
    BY <1>2, <2>1, <2>2 DEF Environment, PeerAccepts, PeerConnects, PeerDisconnects,
       PeerPauses, NewData, Transfer
<1>3. CASE OnFolderAccept \/ LoseAccept \/ WatchEvents \/ Retry \/ Tick \/ TakePush
  BY <1>1, <1>3 DEF OnFolderAccept, LoseAccept, WatchEvents, Retry, Tick, TakePush
<1>4. CASE Request
  BY <1>1, <1>4 DEF Request
<1>5. CASE ShareResets
  BY <1>5 DEF ShareResets, AcceptanceInv
<1>6. CASE ShareAdds
  BY <1>6 DEF ShareAdds, AcceptanceInv
<1>7. CASE RemovesDevice
  <2>1. (remoteSeq' = FALSE) \/ UNCHANGED <<member, remoteSeq>>
    BY <1>7 DEF RemovesDevice
  <2>2. excused' = TRUE
    BY <1>7 DEF RemovesDevice
  <2>3. QED
    BY <2>1, <2>2 DEF AcceptanceInv
<1>8. CASE TakePipeline \/ StReady
  <2>1. sweep'.pc \notin {"conn", "status", "completion", "accepted"}
    BY <1>8 DEF TakePipeline, StReady, Goto, WorkerType, Sweep
  <2>2. UNCHANGED <<member, remoteSeq, excused>>
    BY <1>8 DEF TakePipeline, StReady
  <2>3. QED
    BY <2>1, <2>2 DEF AcceptanceInv
<1>9. CASE SweepLists
  <2>1. UNCHANGED <<member, remoteSeq, excused>>
    BY <1>9 DEF SweepLists
  <2>2. \/ sweep'.pc \notin {"conn", "status", "completion", "accepted"}
        \/ sweep'.pc = "conn" /\ sweep'.member = member
    <3>1. CASE PipelinePushes
      BY <3>1 DEF PipelinePushes, NoSweep
    <3>2. CASE sweep' = [sweep EXCEPT !.pc = "conn", !.member = member, !.progress = progress]
      BY <3>2 DEF WorkerType, Sweep
    <3>3. QED
      BY <1>9, <3>1, <3>2 DEF SweepLists
  <2>3. QED
    BY <2>1, <2>2 DEF AcceptanceInv
<1>10. CASE SweepConnections
  <2>1. UNCHANGED <<member, remoteSeq, excused>>
    BY <1>10 DEF SweepConnections
  <2>2. /\ sweep.pc = "conn" /\ sweep'.member = sweep.member
        /\ sweep'.pc = IF sweep.member THEN "status" ELSE "accepted"
    BY <1>10 DEF SweepConnections, At, Goto, WorkerType, Sweep
  <2>3. QED
    BY <2>1, <2>2 DEF AcceptanceInv
<1>11. CASE SweepStatus
  <2>1. UNCHANGED <<member, remoteSeq>>
    BY <1>11 DEF SweepStatus
  <2>2. sweep.pc = "status" /\ sweep'.member = sweep.member /\ sweep'.pc = "completion"
    BY <1>11 DEF SweepStatus, At, Goto, WorkerType, Sweep
  <2>3. excused' \/ (sweep'.acc = remoteSeq /\ UNCHANGED excused)
    BY <1>11 DEF SweepStatus, InRemoteSequence, WorkerType, Sweep
  <2>4. QED
    BY <2>1, <2>2, <2>3 DEF AcceptanceInv
<1>12. CASE SweepCompletion
  <2>1. UNCHANGED <<member, remoteSeq, excused>>
    BY <1>12 DEF SweepCompletion
  <2>2. /\ sweep.pc = "completion" /\ sweep'.pc = "accepted"
        /\ sweep'.member = sweep.member /\ sweep'.acc = sweep.acc
    BY <1>12 DEF SweepCompletion, At, WorkerType, Sweep
  <2>3. QED
    BY <2>1, <2>2 DEF AcceptanceInv
<1>13. CASE ReplaceFolderAccepted
  <2>1. UNCHANGED <<member, remoteSeq>> /\ sweep'.pc = "info"
    BY <1>13, NoSweepType DEF ReplaceFolderAccepted, Sweep
  <2>2. excused' \/ ~excused \/ remoteSeq
    BY <1>13 DEF ReplaceFolderAccepted
  <2>3. QED
    BY <2>1, <2>2 DEF AcceptanceInv
<1>14. CASE ReplaceFolderPeerInfo
  <2>1. UNCHANGED <<member, remoteSeq, excused>> /\ sweep'.pc = "idle"
    BY <1>14 DEF ReplaceFolderPeerInfo, PipelinePushes, NoSweep
  <2>2. QED
    BY <2>1 DEF AcceptanceInv
<1>15. ASSUME NEW w \in Worker, PushStep(w) PROVE AcceptanceInv'
  BY <1>1, <1>15 DEF PushStep, SnapLists, SnapConnections, SnapDerives, Broadcast
<1>16. QED
  BY <1>1, <1>2, <1>3, <1>4, <1>5, <1>6, <1>7, <1>8, <1>9, <1>10, <1>11, <1>12, <1>13,
     <1>14, <1>15 DEF Next, User, SweepStep, vars

(* Only a request of the user and the end of a sweep change an acceptance, and a sweep
   that must not take it back has not read anything else.                              *)
LEMMA AcceptedStaysStep ==
  ASSUME TypeOK, AcceptanceInv, [Next]_vars, accepted \/ wireAcc, ~(accepted' \/ wireAcc')
  PROVE  excused'
<1> USE DEF TypeOK
<1>1. CASE UNCHANGED <<accepted, wireAcc>>
  BY <1>1
<1>2. CASE Environment \/ LoseAccept \/ WatchEvents \/ Retry \/ Tick \/ TakePush
  BY <1>1, <1>2 DEF Environment, PeerAccepts, ClusterConfig, PeerConnects,
     PeerDisconnects, PeerPauses, NewData, Transfer, LoseAccept, WatchEvents, Retry, Tick,
     TakePush
<1>3. CASE OnFolderAccept
  BY <1>3 DEF OnFolderAccept
<1>4. CASE ShareResets
  BY <1>4 DEF ShareResets
<1>5. CASE Request \/ ShareAdds \/ RemovesDevice
  BY <1>1, <1>5 DEF Request, ShareAdds, RemovesDevice
<1>6. CASE TakePipeline \/ StReady \/ SweepLists \/ SweepConnections \/ SweepStatus
           \/ SweepCompletion \/ ReplaceFolderPeerInfo
  BY <1>1, <1>6 DEF TakePipeline, StReady, SweepLists, SweepConnections, SweepStatus,
     SweepCompletion, ReplaceFolderPeerInfo
<1>7. CASE ReplaceFolderAccepted
  <2>1. sweep.pc = "accepted" /\ accepted' = sweep.acc /\ ~accepted'
    BY <1>7 DEF ReplaceFolderAccepted, At
  <2>2. excused
    BY <2>1 DEF AcceptanceInv, WorkerType, Sweep, CacheType
  <2>3. QED
    BY <1>7, <2>1, <2>2 DEF ReplaceFolderAccepted
<1>8. ASSUME NEW w \in Worker, PushStep(w) PROVE UNCHANGED <<accepted, wireAcc>>
  BY <1>8 DEF PushStep, SnapLists, SnapConnections, SnapDerives, Broadcast
<1>9. QED
  BY <1>1, <1>2, <1>3, <1>4, <1>5, <1>6, <1>7, <1>8 DEF Next, User, SweepStep, vars

(* A known acceptance is taken back by nothing but its user, a removal, or a sweep that
   could not read Syncthing's status.                                                   *)
THEOREM AcceptanceIsKept == Spec => AcceptedStays
<1>1. TypeOK /\ AcceptanceInv /\ [Next]_vars =>
        [(accepted \/ wireAcc) /\ ~(accepted' \/ wireAcc') => excused']_vars
  BY AcceptedStaysStep
<1>2. QED
  BY <1>1, InitAcceptance, AcceptanceStep, TypeCorrect, PTL DEF Spec, AcceptedStays

=============================================================================
