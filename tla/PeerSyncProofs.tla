--------------------------- MODULE PeerSyncProofs ---------------------------
(***************************************************************************)
(* Proofs about PeerSync for every number of nodes, peers, configurations  *)
(* and concurrent requests, and every bound.                               *)
(***************************************************************************)
EXTENDS PeerSync, TLAPS

USE DEF boot, net, history, counts

\* A request that is past its first check has the fields of ActiveReq.
LEMMA ActiveFields ==
    ASSUME TypeOK, NEW r \in Request, req[r].pc \in ReqPc
    PROVE  /\ req[r] \in ActiveReq
           /\ Active(r)
           /\ req[r].node \in Node /\ req[r].peer \in Peer /\ req[r].row \in PeerRow
           /\ req[r].event \in Event /\ req[r].announce \in BOOLEAN
           /\ req[r].rekey \in SUBSET Peer /\ req[r].iface \in Iface
  <1>1. req[r] \in ActiveReq \cup {IdleReq}
    BY DEF TypeOK
  <1>2. req[r] # IdleReq
    BY DEF IdleReq, ReqPc
  <1>3. req[r] \in ActiveReq
    BY <1>1, <1>2
  <1> QED
    BY <1>2, <1>3 DEF ActiveReq, Active

\* One interface after a save.
LEMMA MergeType ==
    ASSUME NEW d \in DevPeer, NEW row \in Row
    PROVE  Merge(d, row) \in DevPeer
  <1>1. CASE row.disabled
    BY <1>1 DEF Merge, DevPeer
  <1>2. CASE ~row.disabled
    BY <1>2 DEF Merge, DevPeer, Row
  <1> QED
    BY <1>1, <1>2

\* Saves, removals and restores leave something a device can hold.
LEMMA DeviceType ==
    ASSUME NEW d \in Place, NEW row \in PeerRow
    PROVE  /\ OnDevice(d, row) \in Place
           /\ Restored(d, row) \in Place
           /\ Nowhere \in Place
  <1>1. Off \in DevPeer /\ Nowhere \in Place
    BY DEF DevPeer, Nowhere, Place
  <1>2. CASE row = None
    BY <1>1, <1>2 DEF OnDevice, Restored, Place
  <1>3. CASE row # None
    <2>1. row \in Row /\ row.iface \in Iface
      BY <1>3 DEF PeerRow, Row
    <2>2. \A i \in Iface : Merge(d[i], row) \in DevPeer
      BY <2>1, MergeType DEF Place
    <2> QED
      BY <1>1, <1>3, <2>1, <2>2 DEF OnDevice, Restored, Place
  <1> QED
    BY <1>2, <1>3

\* Nothing anywhere is a place, whatever the rows are.
LEMMA NowhereType == Nowhere \in Place /\ Off \in DevPeer
  BY DEF Nowhere, Place, DevPeer

\* AfterPublish is idle or the second half of a change of key.
LEMMA AfterPublishType ==
    ASSUME NEW q \in ActiveReq
    PROVE  AfterPublish(q) \in ActiveReq \cup {IdleReq}
  <1>1. CASE q.rekey = {}
    BY <1>1 DEF AfterPublish
  <1>2. CASE q.rekey # {}
    <2>1. (CHOOSE p \in q.rekey : TRUE) \in Peer
      BY <1>2 DEF ActiveReq
    <2> QED
      BY <1>2, <2>1 DEF AfterPublish, ActiveReq, ReqPc, Event
  <1> QED
    BY <1>1, <1>2

-----------------------------------------------------------------------------
(* Type correctness *)

LEMMA InitType == Init => TypeOK
  <1> SUFFICES ASSUME Init PROVE TypeOK
    OBVIOUS
  <1>1. None \in PeerRow
    BY DEF PeerRow
  <1>2. queue \in [Node -> [Topic -> Seq(Peer)]]
    BY DEF Init
  <1>3. db \in [Peer -> PeerRow]
    BY RowAssumption DEF Init, PeerRow
  <1>4. dev \in [Node -> [Peer -> Place]]
    BY <1>3, NowhereType, DeviceType DEF Init
  <1> QED
    BY <1>1, <1>2, <1>3, <1>4 DEF Init, TypeOK

\* The record a request starts with.
LEMMA BeginType ==
    ASSUME TypeOK, NEW r \in Request, NEW n \in Node, NEW new \in ActiveReq,
           Begin(r, n, new), moved' \in SUBSET Peer
    PROVE  TypeOK'
  <1>1. req' \in [Request -> ActiveReq \cup {IdleReq}]
    BY DEF TypeOK, Begin
  <1>2. wrote' \in SUBSET (Node \X Peer)
    BY DEF TypeOK, Begin, ActiveReq
  <1>3. ops' \in Nat /\ pace' \in {"settled", "serial", "any"}
    BY DEF TypeOK, Begin, Pacing
  <1> QED
    BY <1>1, <1>2, <1>3 DEF TypeOK, Begin

LEMMA RequestStartType == TypeOK /\ RequestStart => TypeOK'
  <1> SUFFICES ASSUME TypeOK, RequestStart PROVE TypeOK'
    OBVIOUS
  <1>1. PICK r \in Request, n \in Node, p \in Peer :
           \/ \E row \in Row : CreatePeer(r, n, p, row)
           \/ \E row \in Row : UpdatePeer(r, n, p, row)
           \/ \E q \in Peer, row \in Row : RekeyPeer(r, n, p, q, row)
           \/ DeletePeer(r, n, p)
    BY RowAssumption DEF RequestStart
  <1>a. db[p] # None => db[p].iface \in Iface
    BY DEF TypeOK, PeerRow, Row
  <1>2. CASE \E row \in Row : CreatePeer(r, n, p, row)
    BY <1>2, BeginType DEF CreatePeer, ActiveReq, ReqPc, Event, PeerRow, Row, TypeOK
  <1>3. CASE \E row \in Row : UpdatePeer(r, n, p, row)
    <2>1. PICK row \in Row : UpdatePeer(r, n, p, row)
      BY <1>3
    <2>2. moved' \in SUBSET Peer
      BY <2>1 DEF UpdatePeer, TypeOK
    <2> QED
      BY <2>1, <2>2, BeginType
         DEF UpdatePeer, ActiveReq, ReqPc, Event, PeerRow, Row, HasMeaningfulChanges
  <1>4. CASE \E q \in Peer, row \in Row : RekeyPeer(r, n, p, q, row)
    BY <1>4, <1>a, BeginType DEF RekeyPeer, ActiveReq, ReqPc, Event, PeerRow, TypeOK
  <1>5. CASE DeletePeer(r, n, p)
    BY <1>5, <1>a, BeginType DEF DeletePeer, ActiveReq, ReqPc, Event, PeerRow, TypeOK
  <1> QED
    BY <1>1, <1>2, <1>3, <1>4, <1>5

LEMMA RequestStepType ==
    ASSUME TypeOK, NEW r \in Request,
           RequestStep(r) \/ AbortSave(r) \/ AbortDelete(r)
    PROVE  TypeOK'
  <1>1. CASE SaveDevice(r)
    <2>1. /\ req[r] \in ActiveReq /\ req[r].row \in PeerRow
          /\ req[r].node \in Node /\ req[r].peer \in Peer
      BY <1>1, ActiveFields DEF SaveDevice, ReqPc
    <2>2. [req[r] EXCEPT !.pc = "commit"] \in ActiveReq
      BY <2>1 DEF ActiveReq, ReqPc
    <2>3. req' \in [Request -> ActiveReq \cup {IdleReq}]
      BY <1>1, <2>2 DEF SaveDevice, TypeOK
    <2>4. dev' \in [Node -> [Peer -> Place]]
      BY <1>1, <2>1, DeviceType DEF SaveDevice, TypeOK
    <2> QED
      BY <1>1, <2>3, <2>4 DEF SaveDevice, TypeOK
  <1>2. CASE CommitSave(r)
    <2>1. /\ req[r] \in ActiveReq /\ req[r].row \in PeerRow
          /\ req[r].node \in Node /\ req[r].peer \in Peer
      BY <1>2, ActiveFields DEF CommitSave, ReqPc
    <2>2. [req[r] EXCEPT !.pc = "publish"] \in ActiveReq
      BY <2>1 DEF ActiveReq, ReqPc
    <2>3. req' \in [Request -> ActiveReq \cup {IdleReq}]
      BY <1>2, <2>2 DEF CommitSave, TypeOK
    <2>4. /\ db' \in [Peer -> PeerRow]
          /\ lost' \in SUBSET (Node \X Peer)
          /\ silent' \in SUBSET Peer
      BY <1>2, <2>1 DEF CommitSave, Commit, TypeOK
    <2> QED
      BY <1>2, <2>3, <2>4 DEF CommitSave, TypeOK
  <1>3. CASE DeleteDevice(r)
    <2>1. /\ req[r] \in ActiveReq
          /\ req[r].node \in Node /\ req[r].peer \in Peer /\ req[r].iface \in Iface
      BY <1>3, ActiveFields DEF DeleteDevice, ReqPc
    <2>2. [req[r] EXCEPT !.pc = "dbdel"] \in ActiveReq
      BY <2>1 DEF ActiveReq, ReqPc
    <2>3. req' \in [Request -> ActiveReq \cup {IdleReq}]
      BY <1>3, <2>2 DEF DeleteDevice, TypeOK
    <2>4. \A d \in Place : [d EXCEPT ![req[r].iface] = Off] \in Place
      BY <2>1, NowhereType DEF Place
    <2>5. dev' \in [Node -> [Peer -> Place]]
      BY <1>3, <2>1, <2>4 DEF DeleteDevice, TypeOK
    <2> QED
      BY <1>3, <2>3, <2>5 DEF DeleteDevice, TypeOK
  <1>4. CASE CommitDelete(r)
    <2>1. /\ req[r] \in ActiveReq
          /\ req[r].node \in Node /\ req[r].peer \in Peer
      BY <1>4, ActiveFields DEF CommitDelete, ReqPc
    <2>2. [req[r] EXCEPT !.pc = "publish"] \in ActiveReq
      BY <2>1 DEF ActiveReq, ReqPc
    <2>3. req' \in [Request -> ActiveReq \cup {IdleReq}]
      BY <1>4, <2>2 DEF CommitDelete, TypeOK
    <2>4. /\ db' \in [Peer -> PeerRow]
          /\ lost' \in SUBSET (Node \X Peer)
          /\ silent' \in SUBSET Peer
      BY <1>4, <2>1 DEF CommitDelete, Commit, TypeOK, PeerRow
    <2> QED
      BY <1>4, <2>3, <2>4 DEF CommitDelete, TypeOK
  <1>5. CASE Publish(r)
    <2>1. /\ req[r] \in ActiveReq /\ req[r].event \in Topic
          /\ req[r].node \in Node /\ req[r].peer \in Peer
      BY <1>5, ActiveFields DEF Publish, ReqPc, Topic
    <2>2. req' \in [Request -> ActiveReq \cup {IdleReq}]
      BY <1>5, <2>1, AfterPublishType DEF Publish, TypeOK
    <2>3. Append(queue[req[r].node][req[r].event], req[r].peer) \in Seq(Peer)
      BY <2>1 DEF TypeOK
    <2>4. queue' \in [Node -> [Topic -> Seq(Peer)]]
      BY <1>5, <2>1, <2>3 DEF Publish, TypeOK
    <2>5. http' \in [Msg -> Nat]
      BY <1>5 DEF Publish, TypeOK
    <2> QED
      BY <1>5, <2>2, <2>4, <2>5 DEF Publish, TypeOK
  <1>6. CASE AbortSave(r)
    BY <1>6 DEF AbortSave, TypeOK
  <1>7. CASE AbortDelete(r)
    BY <1>7 DEF AbortDelete, TypeOK
  <1> QED
    BY <1>1, <1>2, <1>3, <1>4, <1>5, <1>6, <1>7 DEF RequestStep

\* Taking from a queue leaves a queue and yields a peer.
LEMMA TakeType ==
    ASSUME TypeOK, NEW n \in Node, NEW t \in Topic, Take(n, t)
    PROVE  /\ queue' \in [Node -> [Topic -> Seq(Peer)]]
           /\ Head(queue[n][t]) \in Peer
  <1>1. queue[n][t] \in Seq(Peer) /\ queue[n][t] # <<>>
    BY DEF TypeOK, Take
  <1>2. Tail(queue[n][t]) \in Seq(Peer) /\ Head(queue[n][t]) \in Peer
    BY <1>1
  <1> QED
    BY <1>2 DEF TypeOK, Take

LEMMA HandlerStepType ==
    ASSUME TypeOK, NEW n \in Node, HandlerStep(n)
    PROVE  TypeOK'
  <1>1. ASSUME NEW t \in Topic, ReadForSync(n, t)
        PROVE  TypeOK'
    <2>1. Take(n, t)
      BY <1>1 DEF ReadForSync
    <2>2. /\ queue' \in [Node -> [Topic -> Seq(Peer)]]
          /\ Head(queue[n][t]) \in Peer
      BY <2>1, TakeType
    <2>3. hnd' \in [Node -> [Topic -> Holding \cup {IdleHnd}]]
      BY <1>1, <2>2 DEF ReadForSync, TypeOK, Holding
    <2> QED
      BY <1>1, <2>2, <2>3 DEF ReadForSync, TypeOK
  <1>2. ASSUME NEW t \in Topic, ApplyRead(n, t)
        PROVE  TypeOK'
    <2>1. hnd[n][t] \in Holding
      BY <1>2 DEF ApplyRead, Busy, TypeOK
    <2>2. hnd[n][t].peer \in Peer /\ hnd[n][t].row \in PeerRow
      BY <2>1 DEF Holding
    <2>3. dev' \in [Node -> [Peer -> Place]]
      BY <1>2, <2>2, DeviceType DEF ApplyRead, TypeOK
    <2>4. hnd' \in [Node -> [Topic -> Holding \cup {IdleHnd}]]
      BY <1>2 DEF ApplyRead, TypeOK
    <2> QED
      BY <1>2, <2>3, <2>4 DEF ApplyRead, TypeOK
  <1>3. CASE ReadForLocal(n)
    <2>1. "local" \in Topic /\ Take(n, "local")
      BY <1>3 DEF ReadForLocal, Topic
    <2>2. /\ queue' \in [Node -> [Topic -> Seq(Peer)]]
          /\ Head(queue[n]["local"]) \in Peer
      BY <2>1, TakeType
    <2>3. hnd' \in [Node -> [Topic -> Holding \cup {IdleHnd}]]
      BY <1>3, <2>1, <2>2 DEF ReadForLocal, TypeOK, Holding
    <2>4. lost' \in SUBSET (Node \X Peer)
      BY <1>3 DEF ReadForLocal, TypeOK
    <2> QED
      BY <1>3, <2>2, <2>3, <2>4 DEF ReadForLocal, TypeOK
  <1>4. CASE HandleDeleted(n)
    <2>1. "deleted" \in Topic /\ Take(n, "deleted")
      BY <1>4 DEF HandleDeleted, Topic, Event
    <2>2. /\ queue' \in [Node -> [Topic -> Seq(Peer)]]
          /\ Head(queue[n]["deleted"]) \in Peer
      BY <2>1, TakeType
    <2>3. dev' \in [Node -> [Peer -> Place]]
      BY <1>4, <2>2, NowhereType DEF HandleDeleted, TypeOK
    <2> QED
      BY <1>4, <2>2, <2>3 DEF HandleDeleted, TypeOK
  <1>5. ASSUME NEW t \in Topic, ReadFails(n, t)
        PROVE  TypeOK'
    <2>1. Take(n, t)
      BY <1>5 DEF ReadFails
    <2>2. /\ queue' \in [Node -> [Topic -> Seq(Peer)]]
          /\ Head(queue[n][t]) \in Peer
      BY <2>1, TakeType
    <2>a. [peer |-> Head(queue[n][t]), row |-> None] \in Holding
      BY <2>2 DEF Holding, PeerRow
    <2>b. \A h \in Holding : [hnd EXCEPT ![n][t] = h] \in [Node -> [Topic -> Holding \cup {IdleHnd}]]
      BY DEF TypeOK
    <2>c. hnd' = hnd \/ hnd' = [hnd EXCEPT ![n][t] = [peer |-> Head(queue[n][t]), row |-> None]]
      BY <1>5 DEF ReadFails
    <2>3. hnd' \in [Node -> [Topic -> Holding \cup {IdleHnd}]]
      BY <2>a, <2>b, <2>c DEF TypeOK
    <2>4. lost' \in SUBSET (Node \X Peer) /\ faults' \in Nat
      BY <1>5, <2>2 DEF ReadFails, TypeOK
    <2> QED
      BY <1>5, <2>2, <2>3, <2>4 DEF ReadFails, TypeOK
  <1> QED
    BY <1>1, <1>2, <1>3, <1>4, <1>5 DEF HandlerStep

LEMMA DeliverType ==
    ASSUME TypeOK, NEW m \in Msg, Deliver(m) \/ Answered(m)
    PROVE  TypeOK'
  <1>1. m.to \in Node /\ m.peer \in Peer /\ "local" \in Topic
    BY DEF Msg, Topic
  <1>2. HandleSyncPost(m) => queue' \in [Node -> [Topic -> Seq(Peer)]]
    <2>1. Append(queue[m.to]["local"], m.peer) \in Seq(Peer)
      BY <1>1 DEF TypeOK
    <2>2. \A q \in Seq(Peer) : [queue EXCEPT ![m.to]["local"] = q]
                                 \in [Node -> [Topic -> Seq(Peer)]]
      BY <1>1 DEF TypeOK
    <2>3. queue \in [Node -> [Topic -> Seq(Peer)]]
      BY DEF TypeOK
    <2> QED
      BY <2>1, <2>2, <2>3 DEF HandleSyncPost
  <1>3. ASSUME NEW f \in [Msg -> Nat], f[m] > 0
        PROVE  [f EXCEPT ![m] = @ - 1] \in [Msg -> Nat]
    BY <1>3
  <1>4. CASE HandleSyncPost(m)
    BY <1>2, <1>3, <1>4 DEF HandleSyncPost, TypeOK
  <1>8. CASE HandleSyncPostUnread(m)
    <2>1. http' \in [Msg -> Nat] /\ answer' \in [Msg -> Nat]
      BY <1>3, <1>8 DEF HandleSyncPostUnread, TypeOK
    <2>2. lost' \in SUBSET (Node \X Peer) /\ faults' \in Nat
      BY <1>1, <1>8 DEF HandleSyncPostUnread, TypeOK
    <2> QED
      BY <1>8, <2>1, <2>2 DEF HandleSyncPostUnread, TypeOK
  <1>5. CASE SendFail(m)
    BY <1>1, <1>3, <1>5 DEF SendFail, Fault, TypeOK
  <1>6. CASE SendSkip(m)
    <2>1. http' \in [Msg -> Nat]
      BY <1>3, <1>6 DEF SendSkip, TypeOK
    <2> QED
      BY <1>1, <1>6, <2>1 DEF SendSkip, TypeOK
  <1>7. CASE AnswerOk(m) \/ AnswerLost(m)
    <2>1. answer' \in [Msg -> Nat]
      BY <1>3, <1>7 DEF AnswerOk, AnswerLost, TypeOK
    <2>2. failed' \in SUBSET Msg /\ faults' \in Nat
      BY <1>7 DEF AnswerOk, AnswerLost, Fault, TypeOK
    <2> QED
      BY <1>7, <2>1, <2>2 DEF AnswerOk, AnswerLost, TypeOK
  <1> QED
    BY <1>4, <1>5, <1>6, <1>7, <1>8 DEF Deliver, Answered

LEMMA CrashRestartType ==
    ASSUME TypeOK, NEW n \in Node, Crash(n) \/ Restart(n) \/ BackgroundRestore(n)
    PROVE  TypeOK'
  <1>1. CASE Crash(n)
    <2>1. queue' \in [Node -> [Topic -> Seq(Peer)]]
      BY <1>1 DEF Crash, TypeOK
    <2>2. lost' \in SUBSET (Node \X Peer) /\ wrote' \in SUBSET (Node \X Peer)
      BY <1>1 DEF Crash, Unsent, Unapplied, TypeOK
    <2>4. /\ snap' \in [Node -> [Peer -> PeerRow]]
          /\ due' \in SUBSET Node /\ todo' \in SUBSET (Node \X Peer)
          /\ crashes' \in Nat
      BY <1>1 DEF Crash, TypeOK, PeerRow
    <2>3. /\ hnd' \in [Node -> [Topic -> Holding \cup {IdleHnd}]]
          /\ req' \in [Request -> ActiveReq \cup {IdleReq}]
          /\ http' \in [Msg -> Nat] /\ answer' \in [Msg -> Nat] /\ failed' \in SUBSET Msg
          /\ up' \in [Node -> {"up", "down", "restoring"}]
      BY <1>1 DEF Crash, TypeOK
    <2> QED
      BY <1>1, <2>1, <2>2, <2>3, <2>4 DEF Crash, TypeOK
  <1>2. CASE StartRestore(n)
    BY <1>2 DEF StartRestore, TypeOK
  <1>3. CASE FinishRestore(n)
    <2>1. \A p \in Peer : Restored(dev[n][p], snap[n][p]) \in Place
      BY DeviceType DEF TypeOK
    <2>2. dev' \in [Node -> [Peer -> Place]]
      BY <1>3, <2>1 DEF FinishRestore, TypeOK
    <2>3. snap' \in [Node -> [Peer -> PeerRow]]
      BY <1>3 DEF FinishRestore, TypeOK, PeerRow
    <2>4. up' \in [Node -> {"up", "down", "restoring"}] /\ due' \in SUBSET Node
      BY <1>3 DEF FinishRestore, Serve, TypeOK
    <2> QED
      BY <1>3, <2>2, <2>3, <2>4 DEF FinishRestore, TypeOK
  <1>4. CASE BootPlain(n)
    <2>1. up' \in [Node -> {"up", "down", "restoring"}] /\ due' \in SUBSET Node
      BY <1>4 DEF BootPlain, Serve, TypeOK
    <2> QED
      BY <1>4, <2>1 DEF BootPlain, TypeOK
  <1>5. CASE StartSync(n)
    BY <1>5 DEF StartSync, TypeOK
  <1>6. ASSUME NEW p \in Peer, SyncPeer(n, p)
        PROVE  TypeOK'
    <2>1. Restored(dev[n][p], snap[n][p]) \in Place
      BY DeviceType DEF TypeOK
    <2>2. dev' \in [Node -> [Peer -> Place]]
      BY <1>6, <2>1 DEF SyncPeer, TypeOK
    <2>3. snap' \in [Node -> [Peer -> PeerRow]]
      BY <1>6 DEF SyncPeer, TypeOK, PeerRow
    <2>4. lost' \in SUBSET (Node \X Peer) /\ todo' \in SUBSET (Node \X Peer)
      BY <1>6 DEF SyncPeer, TypeOK
    <2> QED
      BY <1>6, <2>2, <2>3, <2>4 DEF SyncPeer, TypeOK
  <1> QED
    BY <1>1, <1>2, <1>3, <1>4, <1>5, <1>6 DEF Restart, BackgroundRestore

LEMMA NextType == TypeOK /\ [Next]_vars => TypeOK'
  <1> SUFFICES ASSUME TypeOK, [Next]_vars PROVE TypeOK'
    OBVIOUS
  <1>1. CASE RequestStart
    BY <1>1, RequestStartType
  <1>2. CASE \E r \in Request : RequestStep(r) \/ AbortSave(r) \/ AbortDelete(r)
    BY <1>2, RequestStepType
  <1>3. CASE \E n \in Node : HandlerStep(n)
    BY <1>3, HandlerStepType
  <1>4. CASE \E m \in Msg : Deliver(m) \/ Answered(m)
    BY <1>4, DeliverType
  <1>5. CASE \E n \in Node : Crash(n) \/ Restart(n) \/ BackgroundRestore(n)
    BY <1>5, CrashRestartType
  <1>6. CASE UNCHANGED vars
    BY <1>6 DEF vars, TypeOK
  <1> QED
    BY <1>1, <1>2, <1>3, <1>4, <1>5, <1>6 DEF Next, Environment

\* Every variable keeps the shape TypeOK gives it: a request never carries a
\* half-built record, queues hold peer identifiers only, counters stay natural.
THEOREM TypeCorrect == Spec => []TypeOK
  <1>1. Init => TypeOK
    BY InitType
  <1>2. TypeOK /\ [Next]_vars => TypeOK'
    BY NextType
  <1> QED
    BY <1>1, <1>2, PTL DEF Spec

-----------------------------------------------------------------------------
(* Membership in a bus queue *)

LEMMA QueuedEmpty ==
    ASSUME NEW p PROVE ~Queued(<<>>, p)
  BY DEF Queued

LEMMA QueuedAppend ==
    ASSUME NEW q \in Seq(Peer), NEW x \in Peer, NEW p
    PROVE  Queued(Append(q, x), p) <=> Queued(q, p) \/ p = x
  <1>1. /\ Len(Append(q, x)) = Len(q) + 1
        /\ \A i \in 1..Len(q) : Append(q, x)[i] = q[i]
        /\ Append(q, x)[Len(q) + 1] = x
    OBVIOUS
  <1>2. Len(q) \in Nat
    OBVIOUS
  <1> QED
    BY <1>1, <1>2 DEF Queued

LEMMA QueuedTail ==
    ASSUME NEW q \in Seq(Peer), q # <<>>, NEW p
    PROVE  /\ Queued(q, p) => p = Head(q) \/ Queued(Tail(q), p)
           /\ Queued(Tail(q), p) => Queued(q, p)
           /\ Queued(q, Head(q))
  <1>1. /\ Len(q) \in Nat /\ Len(q) > 0
        /\ Head(q) = q[1]
        /\ Len(Tail(q)) = Len(q) - 1
        /\ \A i \in 1..(Len(q) - 1) : Tail(q)[i] = q[i + 1]
    OBVIOUS
  <1>2. ASSUME Queued(q, p), p # Head(q)
        PROVE  Queued(Tail(q), p)
    <2>1. PICK i \in 1..Len(q) : q[i] = p
      BY <1>2 DEF Queued
    <2>2. i # 1 /\ i - 1 \in 1..Len(Tail(q)) /\ Tail(q)[i - 1] = q[(i - 1) + 1]
      BY <1>1, <1>2, <2>1
    <2> QED
      BY <2>1, <2>2 DEF Queued
  <1>3. ASSUME Queued(Tail(q), p)
        PROVE  Queued(q, p)
    <2>1. PICK i \in 1..Len(Tail(q)) : Tail(q)[i] = p
      BY <1>3 DEF Queued
    <2>2. i + 1 \in 1..Len(q) /\ q[i + 1] = p
      BY <1>1, <2>1
    <2> QED
      BY <2>2 DEF Queued
  <1>4. Queued(q, Head(q))
    BY <1>1 DEF Queued
  <1> QED
    BY <1>2, <1>3, <1>4

-----------------------------------------------------------------------------
(* The supporting invariants *)

Support == TypeOK /\ RequestShape /\ OwnTopics /\ DownQuiet

\* One request as RequestShape wants it, in terms of its record.
Shaped(q, u, w) ==
    q # IdleReq =>
        /\ u[q.node] = "up"
        /\ <<q.node, q.peer>> \in w
        /\ \A x \in q.rekey : <<q.node, x>> \in w
        /\ q.pc \in {"device", "commit"} \/ q.rekey # {} => q.row # None
        /\ q.pc \in {"devdel", "dbdel"} => q.event = "deleted"

LEMMA ShapeEquiv == RequestShape <=> \A r \in Request : Shaped(req[r], up, wrote)
  BY DEF RequestShape, Shaped, Active

LEMMA ShapeEquivPrime == RequestShape' <=> \A r \in Request : Shaped(req'[r], up', wrote')
  BY DEF RequestShape, Shaped, Active

LEMMA ShapeBegin ==
    ASSUME Support, NEW r \in Request, NEW n \in Node, NEW new \in ActiveReq,
           Begin(r, n, new), new.node = n,
           new.pc \in {"device", "commit"} \/ new.rekey # {} => new.row # None,
           new.pc \in {"devdel", "dbdel"} => new.event = "deleted"
    PROVE  RequestShape'
  <1>1. \A s \in Request : Shaped(req[s], up, wrote)
    BY ShapeEquiv DEF Support
  <1>2. /\ up' = up /\ wrote \subseteq wrote' /\ up[n] = "up"
        /\ wrote' = wrote \cup ({n} \X ({new.peer} \cup new.rekey))
        /\ \A s \in Request : req'[s] = IF s = r THEN new ELSE req[s]
    BY DEF Begin, Support, TypeOK
  <1>3. Shaped(new, up', wrote')
    BY <1>2 DEF Shaped
  <1>4. \A s \in Request \ {r} : Shaped(req'[s], up', wrote')
    BY <1>1, <1>2 DEF Shaped
  <1> QED
    BY <1>2, <1>3, <1>4, ShapeEquivPrime

LEMMA ShapeStart == Support /\ RequestStart => RequestShape'
  <1> SUFFICES ASSUME Support, RequestStart PROVE RequestShape'
    OBVIOUS
  <1>1. PICK r \in Request, n \in Node, p \in Peer :
           \/ \E row \in Row : CreatePeer(r, n, p, row)
           \/ \E row \in Row : UpdatePeer(r, n, p, row)
           \/ \E q \in Peer, row \in Row : RekeyPeer(r, n, p, q, row)
           \/ DeletePeer(r, n, p)
    BY RowAssumption DEF RequestStart
  <1>a. TypeOK /\ (db[p] # None => db[p].iface \in Iface)
    BY DEF Support, TypeOK, PeerRow, Row
  <1>2. \A row \in Row : row # None
    BY DEF Row, None
  <1>3. CASE \E row \in Row : CreatePeer(r, n, p, row)
    BY <1>2, <1>3, ShapeBegin DEF CreatePeer, ActiveReq, ReqPc, Event, PeerRow, Row
  <1>4. CASE \E row \in Row : UpdatePeer(r, n, p, row)
    BY <1>2, <1>4, ShapeBegin
       DEF UpdatePeer, ActiveReq, ReqPc, Event, PeerRow, Row, HasMeaningfulChanges
  <1>5. CASE \E q \in Peer, row \in Row : RekeyPeer(r, n, p, q, row)
    BY <1>2, <1>5, <1>a, ShapeBegin DEF RekeyPeer, ActiveReq, ReqPc, Event, PeerRow
  <1>6. CASE DeletePeer(r, n, p)
    BY <1>6, <1>a, ShapeBegin DEF DeletePeer, ActiveReq, ReqPc, Event, PeerRow
  <1> QED
    BY <1>1, <1>3, <1>4, <1>5, <1>6

\* A request that moves on without touching up and wrote stays in shape.
LEMMA ShapeMove ==
    ASSUME Support, NEW r \in Request, NEW q, UNCHANGED <<up, wrote>>,
           req' = [req EXCEPT ![r] = q], Shaped(q, up, wrote)
    PROVE  RequestShape'
  <1>1. \A s \in Request : Shaped(req[s], up, wrote)
    BY ShapeEquiv DEF Support
  <1>2. \A s \in Request : req'[s] = IF s = r THEN q ELSE req[s]
    BY DEF Support, TypeOK
  <1> QED
    BY <1>1, <1>2, ShapeEquivPrime

LEMMA ShapeStep ==
    ASSUME Support, NEW r \in Request,
           RequestStep(r) \/ AbortSave(r) \/ AbortDelete(r)
    PROVE  RequestShape'
  <1>1. Shaped(req[r], up, wrote) /\ Shaped(IdleReq, up, wrote)
    BY ShapeEquiv DEF Support, Shaped
  <1>2. TypeOK
    BY DEF Support
  <1>3. CASE SaveDevice(r)
    <2>1. req[r] \in ActiveReq /\ req[r] # IdleReq
      BY <1>2, <1>3, ActiveFields DEF SaveDevice, ReqPc, Active
    <2>2. Shaped([req[r] EXCEPT !.pc = "commit"], up, wrote)
      BY <1>1, <1>3, <2>1 DEF Shaped, SaveDevice, ActiveReq
    <2> QED
      BY <1>3, <2>2, ShapeMove DEF SaveDevice
  <1>4. CASE CommitSave(r)
    <2>1. req[r] \in ActiveReq /\ req[r] # IdleReq
      BY <1>2, <1>4, ActiveFields DEF CommitSave, ReqPc, Active
    <2>2. Shaped([req[r] EXCEPT !.pc = "publish"], up, wrote)
      BY <1>1, <1>4, <2>1 DEF Shaped, CommitSave, ActiveReq
    <2> QED
      BY <1>1, <1>4, <2>2, ShapeMove DEF CommitSave
  <1>5. CASE DeleteDevice(r)
    <2>1. req[r] \in ActiveReq /\ req[r] # IdleReq
      BY <1>2, <1>5, ActiveFields DEF DeleteDevice, ReqPc, Active
    <2>2. Shaped([req[r] EXCEPT !.pc = "dbdel"], up, wrote)
      BY <1>1, <1>5, <2>1 DEF Shaped, DeleteDevice, ActiveReq
    <2> QED
      BY <1>5, <2>2, ShapeMove DEF DeleteDevice
  <1>6. CASE CommitDelete(r)
    <2>1. req[r] \in ActiveReq /\ req[r] # IdleReq
      BY <1>2, <1>6, ActiveFields DEF CommitDelete, ReqPc, Active
    <2>2. Shaped([req[r] EXCEPT !.pc = "publish"], up, wrote)
      BY <1>1, <1>6, <2>1 DEF Shaped, CommitDelete, ActiveReq
    <2> QED
      BY <1>6, <2>2, ShapeMove DEF CommitDelete
  <1>7. CASE Publish(r)
    <2>1. req[r] \in ActiveReq /\ req[r] # IdleReq
      BY <1>2, <1>7, ActiveFields DEF Publish, ReqPc, Active
    <2>2. Shaped(AfterPublish(req[r]), up, wrote)
      <3>1. CASE req[r].rekey = {}
        BY <1>1, <3>1 DEF AfterPublish
      <3>2. CASE req[r].rekey # {}
        <4>1. (CHOOSE p \in req[r].rekey : TRUE) \in req[r].rekey
          BY <3>2
        <4> QED
          BY <1>1, <2>1, <3>2, <4>1 DEF AfterPublish, Shaped
      <3> QED
        BY <3>1, <3>2
    <2> QED
      BY <1>7, <2>2, ShapeMove DEF Publish
  <1>8. CASE AbortSave(r)
    BY <1>1, <1>8, ShapeMove DEF AbortSave
  <1>9. CASE AbortDelete(r)
    BY <1>1, <1>9, ShapeMove DEF AbortDelete
  <1> QED
    BY <1>3, <1>4, <1>5, <1>6, <1>7, <1>8, <1>9 DEF RequestStep

LEMMA ShapeRest ==
    ASSUME Support,
           \/ \E n \in Node : HandlerStep(n) \/ Restart(n) \/ BackgroundRestore(n) \/ Crash(n)
           \/ \E m \in Msg : Deliver(m) \/ Answered(m)
           \/ UNCHANGED vars
    PROVE  RequestShape'
  <1>1. \A s \in Request : Shaped(req[s], up, wrote)
    BY ShapeEquiv DEF Support
  <1>2. CASE UNCHANGED <<req, up, wrote>>
    BY <1>1, <1>2, ShapeEquivPrime
  <1>3. ASSUME NEW n \in Node, HandlerStep(n)
        PROVE  UNCHANGED <<req, up, wrote>>
    BY <1>3 DEF HandlerStep, ReadForSync, ReadFails, ApplyRead, ReadForLocal, HandleDeleted
  <1>8. ASSUME NEW n \in Node, BackgroundRestore(n)
        PROVE  UNCHANGED <<req, up, wrote>>
    BY <1>8 DEF BackgroundRestore, StartSync, SyncPeer
  <1>4. ASSUME NEW m \in Msg, Deliver(m) \/ Answered(m)
        PROVE  UNCHANGED <<req, up, wrote>>
    BY <1>4 DEF Deliver, Answered, HandleSyncPost, HandleSyncPostUnread, SendFail, SendSkip,
                AnswerOk, AnswerLost
  <1>5. ASSUME NEW n \in Node, Crash(n)
        PROVE  RequestShape'
    <2>1. \A s \in Request : req'[s] = IF req[s] # IdleReq /\ req[s].node = n THEN IdleReq ELSE req[s]
      BY <1>5 DEF Crash, Support, TypeOK, Active
    <2>2. wrote \subseteq wrote' /\ \A x \in Node : up'[x] = IF x = n THEN "down" ELSE up[x]
      BY <1>5 DEF Crash, Support, TypeOK
    <2>3. \A s \in Request : req[s] # IdleReq => req[s].node \in Node
      BY DEF Support, TypeOK, ActiveReq
    <2>4. \A s \in Request : Shaped(req'[s], up', wrote')
      BY <1>1, <2>1, <2>2, <2>3 DEF Shaped
    <2> QED
      BY <2>4, ShapeEquivPrime
  <1>6. ASSUME NEW n \in Node, StartRestore(n)
        PROVE  RequestShape'
    <2>1. req' = req /\ up[n] = "down" /\ wrote' = wrote \ ({n} \X Peer)
      BY <1>6 DEF StartRestore
    <2>2. \A x \in Node : x # n => up'[x] = up[x]
      BY <1>6 DEF StartRestore, Support, TypeOK
    <2>3. \A s \in Request : req[s] # IdleReq => req[s].node \in Node /\ req[s].node # n
      BY <1>1, <2>1 DEF Support, TypeOK, ActiveReq, Shaped
    <2>4. \A s \in Request : Shaped(req'[s], up', wrote')
      BY <1>1, <2>1, <2>2, <2>3 DEF Shaped
    <2> QED
      BY <2>4, ShapeEquivPrime
  <1>7. ASSUME NEW n \in Node, FinishRestore(n) \/ BootPlain(n)
        PROVE  RequestShape'
    <2>1. req' = req /\ wrote' = wrote /\ \A x \in Node : up[x] = "up" => up'[x] = "up"
      BY <1>7 DEF FinishRestore, BootPlain, Serve, Support, TypeOK
    <2>2. \A s \in Request : req[s] # IdleReq => req[s].node \in Node
      BY DEF Support, TypeOK, ActiveReq
    <2>3. \A s \in Request : Shaped(req'[s], up', wrote')
      BY <1>1, <2>1, <2>2 DEF Shaped
    <2> QED
      BY <2>3, ShapeEquivPrime
  <1> QED
    BY <1>2, <1>3, <1>4, <1>5, <1>6, <1>7, <1>8 DEF Restart, vars

\* Steps that leave queues, handlers, restores and phases alone keep the other two.
LEMMA BusUnchanged ==
    ASSUME Support, UNCHANGED <<queue, hnd, up, due, todo>>, wrote \subseteq wrote'
    PROVE  OwnTopics' /\ DownQuiet'
  BY DEF Support, OwnTopics, DownQuiet, Busy

\* What the start of a request leaves alone.
LEMMA StartFrame ==
    ASSUME RequestStart
    PROVE  /\ UNCHANGED <<db, dev, queue, hnd, net, boot, lost, silent, faults, crashes>>
           /\ wrote \subseteq wrote'
  <1>1. PICK r \in Request, n \in Node, p \in Peer :
           \/ \E row \in Asked : CreatePeer(r, n, p, row)
           \/ \E row \in Asked : UpdatePeer(r, n, p, row)
           \/ \E q \in Peer, row \in Asked : RekeyPeer(r, n, p, q, row)
           \/ DeletePeer(r, n, p)
    BY DEF RequestStart
  <1>2. ASSUME NEW new, Begin(r, n, new)
        PROVE  /\ UNCHANGED <<db, dev, queue, hnd, net, boot, lost, silent, faults, crashes>>
               /\ wrote \subseteq wrote'
    BY <1>2 DEF Begin
  <1>3. CASE \E row \in Asked : CreatePeer(r, n, p, row)
    BY <1>2, <1>3 DEF CreatePeer
  <1>4. CASE \E row \in Asked : UpdatePeer(r, n, p, row)
    BY <1>2, <1>4 DEF UpdatePeer
  <1>5. CASE \E q \in Peer, row \in Asked : RekeyPeer(r, n, p, q, row)
    BY <1>2, <1>5 DEF RekeyPeer
  <1>6. CASE DeletePeer(r, n, p)
    BY <1>2, <1>6 DEF DeletePeer
  <1> QED
    BY <1>1, <1>3, <1>4, <1>5, <1>6

LEMMA BusRequest ==
    ASSUME Support,
           RequestStart \/ \E r \in Request : RequestStep(r) \/ AbortSave(r) \/ AbortDelete(r)
    PROVE  OwnTopics' /\ DownQuiet'
  <1>1. CASE RequestStart
    <2>1. UNCHANGED <<queue, hnd, up, due, todo>> /\ wrote \subseteq wrote'
      BY <1>1, StartFrame
    <2> QED
      BY <2>1, BusUnchanged
  <1>2. ASSUME NEW r \in Request,
               \/ SaveDevice(r) \/ CommitSave(r) \/ DeleteDevice(r) \/ CommitDelete(r)
               \/ AbortSave(r) \/ AbortDelete(r)
        PROVE  OwnTopics' /\ DownQuiet'
    <2>1. UNCHANGED <<queue, hnd, up, due, todo, wrote>>
      BY <1>2 DEF SaveDevice, CommitSave, DeleteDevice, CommitDelete, AbortSave, AbortDelete
    <2> QED
      BY <2>1, BusUnchanged
  <1>3. ASSUME NEW r \in Request, Publish(r)
        PROVE  OwnTopics' /\ DownQuiet'
    <2> DEFINE n == req[r].node
               p == req[r].peer
               e == req[r].event
    <2>1. n \in Node /\ p \in Peer /\ e \in Event /\ e \in Topic /\ Active(r)
      BY <1>3, ActiveFields DEF Publish, ReqPc, Support, Topic
    <2>2. up[n] = "up" /\ <<n, p>> \in wrote
      BY <2>1 DEF Support, RequestShape
    <2>3. /\ UNCHANGED <<hnd, up, due, todo, wrote>>
          /\ queue' = [queue EXCEPT ![n][e] = Append(@, p)]
      BY <1>3 DEF Publish
    <2>4. \A x \in Node, t \in Topic :
             queue'[x][t] = IF x = n /\ t = e THEN Append(queue[n][e], p) ELSE queue[x][t]
      BY <2>1, <2>3 DEF Support, TypeOK
    <2>5. \A q \in Peer : Queued(Append(queue[n][e], p), q) <=> Queued(queue[n][e], q) \/ q = p
      <3>1. queue[n][e] \in Seq(Peer)
        BY <2>1 DEF Support, TypeOK
      <3> QED
        BY <2>1, <3>1, QueuedAppend
    <2> HIDE DEF n, p, e
    <2>6. ASSUME NEW x \in Node, NEW t \in Event, NEW q \in Peer,
                 Queued(queue'[x][t], q) \/ (Busy(x, t)' /\ hnd'[x][t].peer = q)
          PROVE  <<x, q>> \in wrote'
      <3>1. Busy(x, t)' <=> Busy(x, t)
        BY <2>3 DEF Busy
      <3>2. t \in Topic
        BY DEF Topic
      <3> QED
        BY <2>2, <2>3, <2>4, <2>5, <2>6, <3>1, <3>2 DEF Support, OwnTopics
    <2>7. DownQuiet'
      BY <2>2, <2>3, <2>4 DEF Support, DownQuiet, Busy
    <2> QED
      BY <2>6, <2>7 DEF OwnTopics
  <1> QED
    BY <1>1, <1>2, <1>3 DEF RequestStep

\* A handler takes from its own queue only; what it holds was queued there.
LEMMA BusTake ==
    ASSUME Support, NEW n \in Node, NEW t \in Topic, Take(n, t),
           UNCHANGED <<up, due, todo, wrote>>, NEW h,
           hnd' = [hnd EXCEPT ![n][t] = h],
           h = IdleHnd \/ h.peer = Head(queue[n][t])
    PROVE  OwnTopics' /\ DownQuiet'
  <1>1. up[n] = "up" /\ queue[n][t] \in Seq(Peer) /\ queue[n][t] # <<>>
    BY DEF Support, TypeOK, Take
  <1>2. \A x \in Node, s \in Topic :
           /\ queue'[x][s] = IF x = n /\ s = t THEN Tail(queue[n][t]) ELSE queue[x][s]
           /\ hnd'[x][s] = IF x = n /\ s = t THEN h ELSE hnd[x][s]
    BY DEF Support, TypeOK, Take
  <1>3. \A q \in Peer : Queued(Tail(queue[n][t]), q) => Queued(queue[n][t], q)
    BY <1>1, QueuedTail
  <1>4. Queued(queue[n][t], Head(queue[n][t]))
    BY <1>1, QueuedTail
  <1>5. ASSUME NEW x \in Node, NEW s \in Event, NEW q \in Peer,
               Queued(queue'[x][s], q) \/ (hnd'[x][s] # IdleHnd /\ hnd'[x][s].peer = q)
        PROVE  <<x, q>> \in wrote
    <2>1. s \in Topic
      BY DEF Topic
    <2> QED
      BY <1>2, <1>3, <1>4, <1>5, <2>1 DEF Support, OwnTopics, Busy
  <1>6. OwnTopics'
    BY <1>5 DEF OwnTopics, Busy
  <1>7. DownQuiet'
    BY <1>1, <1>2 DEF Support, DownQuiet, Busy
  <1> QED
    BY <1>6, <1>7

LEMMA BusHandler ==
    ASSUME Support, NEW n \in Node, HandlerStep(n)
    PROVE  OwnTopics' /\ DownQuiet'
  <1>1. ASSUME NEW t \in Topic, ReadForSync(n, t)
        PROVE  OwnTopics' /\ DownQuiet'
    BY <1>1, BusTake DEF ReadForSync
  <1>2. ASSUME NEW t \in Topic, ApplyRead(n, t)
        PROVE  OwnTopics' /\ DownQuiet'
    <2>1. UNCHANGED <<queue, up, due, todo, wrote>>
      BY <1>2 DEF ApplyRead
    <2>2. \A x \in Node, s \in Topic :
             hnd'[x][s] = IF x = n /\ s = t THEN IdleHnd ELSE hnd[x][s]
      BY <1>2 DEF ApplyRead, Support, TypeOK
    <2>3. OwnTopics'
      BY <2>1, <2>2 DEF OwnTopics, Support, Busy, Topic
    <2>4. DownQuiet'
      BY <2>1, <2>2 DEF DownQuiet, Support, Busy
    <2> QED
      BY <2>3, <2>4
  <1>3. CASE ReadForLocal(n)
    BY <1>3, BusTake DEF ReadForLocal, Topic
  <1>4. CASE HandleDeleted(n)
    <2>1. /\ Take(n, "deleted") /\ "deleted" \in Topic
          /\ UNCHANGED <<hnd, up, due, todo, wrote>> /\ ~Busy(n, "deleted")
      BY <1>4 DEF HandleDeleted, Take, Topic, Event
    <2>2. hnd' = [hnd EXCEPT ![n]["deleted"] = IdleHnd]
      BY <2>1 DEF Busy, Support, TypeOK
    <2> QED
      BY <2>1, <2>2, BusTake
  <1>5. ASSUME NEW t \in Topic, ReadFails(n, t)
        PROVE  OwnTopics' /\ DownQuiet'
    <2>1. /\ Take(n, t) /\ UNCHANGED <<up, due, todo, wrote>>
          /\ ~Busy(n, t)
          /\ \/ hnd' = hnd
             \/ hnd' = [hnd EXCEPT ![n][t] = [peer |-> Head(queue[n][t]), row |-> None]]
      BY <1>5 DEF ReadFails, Take
    <2>2. [hnd EXCEPT ![n][t] = IdleHnd] = hnd
      BY <2>1 DEF Busy, Support, TypeOK
    <2> QED
      BY <2>1, <2>2, BusTake
  <1> QED
    BY <1>1, <1>2, <1>3, <1>4, <1>5 DEF HandlerStep

LEMMA BusDeliver ==
    ASSUME Support, NEW m \in Msg, Deliver(m) \/ Answered(m)
    PROVE  OwnTopics' /\ DownQuiet'
  <1>1. m.to \in Node /\ m.peer \in Peer /\ "local" \in Topic /\ "local" \notin Event
    BY DEF Msg, Topic, Event
  <1>2. UNCHANGED <<hnd, up, due, todo, wrote>>
    BY DEF Deliver, Answered, HandleSyncPost, HandleSyncPostUnread, SendFail, SendSkip, AnswerOk, AnswerLost
  <1>3. CASE UNCHANGED queue
    BY <1>2, <1>3, BusUnchanged
  <1>4. CASE /\ up[m.to] = "up"
             /\ queue' = [queue EXCEPT ![m.to]["local"] = Append(@, m.peer)]
    <2>1. \A x \in Node, t \in Topic : x # m.to \/ t # "local" => queue'[x][t] = queue[x][t]
      BY <1>1, <1>4 DEF Support, TypeOK
    <2>2. OwnTopics'
      BY <1>1, <1>2, <2>1 DEF OwnTopics, Support, Busy, Topic
    <2>3. DownQuiet'
      BY <1>2, <1>4, <2>1 DEF DownQuiet, Support, Busy
    <2> QED
      BY <2>2, <2>3
  <1> QED
    BY <1>3, <1>4 DEF Deliver, Answered, HandleSyncPost, HandleSyncPostUnread, SendFail,
                      SendSkip, AnswerOk, AnswerLost

LEMMA BusCrashRestart ==
    ASSUME Support, NEW n \in Node, Crash(n) \/ Restart(n) \/ BackgroundRestore(n)
    PROVE  OwnTopics' /\ DownQuiet'
  <1>1. CASE Crash(n)
    <2>1. \A x \in Node, t \in Topic :
             /\ queue'[x][t] = IF x = n THEN <<>> ELSE queue[x][t]
             /\ hnd'[x][t] = IF x = n THEN IdleHnd ELSE hnd[x][t]
      BY <1>1 DEF Crash, Support, TypeOK
    <2>2. /\ wrote \subseteq wrote' /\ \A x \in Node : x # n => up'[x] = up[x]
          /\ due' = due \ {n} /\ todo' = todo \ ({n} \X Peer)
      BY <1>1 DEF Crash, Support, TypeOK
    <2>3. OwnTopics'
      BY <2>1, <2>2, QueuedEmpty DEF OwnTopics, Support, Busy, Topic
    <2>4. DownQuiet'
      BY <2>1, <2>2 DEF DownQuiet, Support, Busy
    <2> QED
      BY <2>3, <2>4
  <1>2. CASE StartRestore(n)
    <2>1. /\ UNCHANGED <<queue, hnd>> /\ up[n] = "down"
          /\ wrote' = wrote \ ({n} \X Peer) /\ UNCHANGED <<due, todo>>
          /\ \A x \in Node : x # n => up'[x] = up[x]
      BY <1>2 DEF StartRestore, Support, TypeOK
    <2>2. /\ \A t \in Topic : queue[n][t] = <<>> /\ ~Busy(n, t)
          /\ n \notin due /\ \A p \in Peer : <<n, p>> \notin todo
      BY <2>1 DEF Support, DownQuiet
    <2>3. OwnTopics'
      <3> SUFFICES ASSUME NEW x \in Node, NEW t \in Event, NEW q \in Peer,
                          Queued(queue[x][t], q) \/ (Busy(x, t) /\ hnd[x][t].peer = q)
                   PROVE  <<x, q>> \in wrote'
        BY <2>1 DEF OwnTopics, Busy
      <3>1. t \in Topic /\ <<x, q>> \in wrote
        BY DEF Support, OwnTopics, Topic
      <3>2. x # n
        BY <2>2, <3>1, QueuedEmpty
      <3> QED
        BY <2>1, <3>1, <3>2
    <2>4. DownQuiet'
      BY <2>1, <2>2 DEF DownQuiet, Support, Busy
    <2> QED
      BY <2>3, <2>4
  <1>3. CASE FinishRestore(n) \/ BootPlain(n)
    <2>1. /\ UNCHANGED <<queue, hnd, wrote, todo>>
          /\ \A x \in Node : x # n => up'[x] = up[x]
          /\ up'[n] = "up" /\ due' \in {due, due \cup {n}}
      BY <1>3 DEF FinishRestore, BootPlain, Serve, Support, TypeOK
    <2>2. OwnTopics'
      BY <2>1 DEF OwnTopics, Support, Busy
    <2>3. DownQuiet'
      BY <2>1 DEF DownQuiet, Support, Busy
    <2> QED
      BY <2>2, <2>3
  <1>4. CASE BackgroundRestore(n)
    <2>1. /\ UNCHANGED <<queue, hnd, wrote, up>> /\ due' \subseteq due
          /\ todo' \subseteq todo \/ (n \in due /\ todo' = todo \cup ({n} \X Peer))
      BY <1>4 DEF BackgroundRestore, StartSync, SyncPeer
    <2>2. OwnTopics'
      BY <2>1 DEF OwnTopics, Support, Busy
    <2>3. DownQuiet'
      BY <2>1 DEF DownQuiet, Support, Busy
    <2> QED
      BY <2>2, <2>3
  <1> QED
    BY <1>1, <1>2, <1>3, <1>4 DEF Restart

\* The supporting invariants hold initially and every step preserves them.
LEMMA InitSupport == Init => Support
  <1> SUFFICES ASSUME Init PROVE Support
    OBVIOUS
  <1>1. RequestShape
    BY DEF Init, RequestShape, Active
  <1>2. \A n \in Node, t \in Topic : queue[n][t] = <<>> /\ hnd[n][t] = IdleHnd
    BY DEF Init
  <1>3. OwnTopics /\ DownQuiet
    BY <1>2, QueuedEmpty DEF OwnTopics, DownQuiet, Busy, Topic, Init
  <1> QED
    BY <1>1, <1>3, InitType DEF Support

LEMMA NextSupport == Support /\ [Next]_vars => Support'
  <1> SUFFICES ASSUME Support, [Next]_vars PROVE Support'
    OBVIOUS
  <1>1. TypeOK'
    BY NextType DEF Support
  <1>2. CASE RequestStart
    BY <1>1, <1>2, ShapeStart, BusRequest DEF Support
  <1>3. CASE \E r \in Request : RequestStep(r) \/ AbortSave(r) \/ AbortDelete(r)
    BY <1>1, <1>3, ShapeStep, BusRequest DEF Support
  <1>4. CASE \E n \in Node : HandlerStep(n)
    BY <1>1, <1>4, ShapeRest, BusHandler DEF Support
  <1>5. CASE \E m \in Msg : Deliver(m) \/ Answered(m)
    BY <1>1, <1>5, ShapeRest, BusDeliver DEF Support
  <1>6. CASE \E n \in Node : Crash(n) \/ Restart(n) \/ BackgroundRestore(n)
    BY <1>1, <1>6, ShapeRest, BusCrashRestart DEF Support
  <1>7. CASE UNCHANGED vars
    BY <1>1, <1>7, ShapeRest, BusUnchanged DEF Support, vars
  <1> QED
    BY <1>2, <1>3, <1>4, <1>5, <1>6, <1>7 DEF Next, Environment

-----------------------------------------------------------------------------
(* Agreement of the nodes that only receive a peer *)

\* A step that changes neither what is known about <<n, p>> nor what is on its
\* way keeps it in sync.
LEMMA SyncUnchanged ==
    ASSUME NEW n \in Node, NEW p \in Peer, InSync(n, p),
           up'[n] = up[n], up[n] = "restoring" => snap'[n][p] = snap[n][p], db'[p] = db[p],
           hnd'[n]["local"] = hnd[n]["local"],
           dev'[n][p] = dev[n][p],
           <<n, p>> \in wrote \cup lost => <<n, p>> \in wrote' \cup lost',
           p \in silent => p \in silent',
           Announced(n, p) => Announced(n, p)' \/ <<n, p>> \in lost'
    PROVE  InSync(n, p)'
  <1>1. Fresh(n, p) => Fresh(n, p)'
    BY DEF Fresh, Busy
  <1> QED
    BY <1>1 DEF InSync

\* What a device shows after a save, a removal or a restore.
LEMMA ShowsSaved ==
    ASSUME NEW d \in Place, NEW row \in PeerRow
    PROVE  Shows(OnDevice(d, row), row) /\ Shows(Restored(d, row), row)
  <1>1. CASE row = None
    BY <1>1 DEF OnDevice, Restored, Shows, Nowhere
  <1>2. CASE row # None
    <2>1. row \in Row /\ row.iface \in Iface /\ d[row.iface] \in DevPeer
      BY <1>2 DEF PeerRow, Row, Place
    <2>2. Holds(Merge(d[row.iface], row), row)
      <3>1. CASE row.disabled
        BY <3>1 DEF Merge, Holds
      <3>2. CASE ~row.disabled
        BY <3>2 DEF Merge, Holds, Off
      <3> QED
        BY <3>1, <3>2
    <2>3. /\ OnDevice(d, row)[row.iface] = Merge(d[row.iface], row)
          /\ Restored(d, row)[row.iface] = Merge(d[row.iface], row)
      BY <1>2, <2>1 DEF OnDevice, Restored, Place
    <2> QED
      BY <1>2, <2>2, <2>3 DEF Shows
  <1> QED
    BY <1>1, <1>2

LEMMA SyncBegin ==
    ASSUME Support, NEW r \in Request, NEW x \in Node, NEW new,
           Begin(r, x, new), NEW n \in Node, NEW p \in Peer, InSync(n, p)
    PROVE  InSync(n, p)'
  <1>1. \A s \in Request : s # r => req'[s] = req[s]
    BY DEF Begin, Support, TypeOK
  <1>2. req[r].pc # "publish"
    BY DEF Begin, Active, IdleReq
  <1>3. UNCHANGED <<db, http, queue>>
    BY DEF Begin
  <1>4. Announced(n, p) => Announced(n, p)'
    BY <1>1, <1>2, <1>3 DEF Announced, Accepts
  <1> QED
    BY <1>4, SyncUnchanged DEF Begin

LEMMA SyncStart ==
    ASSUME Support, RequestStart, NEW n \in Node, NEW p \in Peer, InSync(n, p)
    PROVE  InSync(n, p)'
  <1>1. PICK r \in Request, x \in Node, q \in Peer :
           \/ \E row \in Asked : CreatePeer(r, x, q, row)
           \/ \E row \in Asked : UpdatePeer(r, x, q, row)
           \/ \E k \in Peer, row \in Asked : RekeyPeer(r, x, q, k, row)
           \/ DeletePeer(r, x, q)
    BY DEF RequestStart
  <1>2. CASE \E row \in Asked : CreatePeer(r, x, q, row)
    BY <1>2, SyncBegin DEF CreatePeer
  <1>3. CASE \E row \in Asked : UpdatePeer(r, x, q, row)
    BY <1>3, SyncBegin DEF UpdatePeer
  <1>4. CASE \E k \in Peer, row \in Asked : RekeyPeer(r, x, q, k, row)
    BY <1>4, SyncBegin DEF RekeyPeer
  <1>5. CASE DeletePeer(r, x, q)
    BY <1>5, SyncBegin DEF DeletePeer
  <1> QED
    BY <1>1, <1>2, <1>3, <1>4, <1>5

\* The request's own node is excused; a commit announces the change to others.
LEMMA SyncRequestStep ==
    ASSUME Support, NEW r \in Request,
           RequestStep(r) \/ AbortSave(r) \/ AbortDelete(r),
           NEW n \in Node, NEW p \in Peer, InSync(n, p)
    PROVE  InSync(n, p)'
  <1>1. TypeOK
    BY DEF Support
  <1>2. CASE SaveDevice(r) \/ DeleteDevice(r)
    <2>1. Active(r) /\ req[r].node \in Node /\ req[r].peer \in Peer
      BY <1>1, <1>2, ActiveFields DEF SaveDevice, DeleteDevice, ReqPc
    <2>2. <<req[r].node, req[r].peer>> \in wrote
      BY <2>1 DEF Support, RequestShape
    <2>3. \A s \in Request : s # r => req'[s] = req[s]
      BY <1>1, <1>2 DEF SaveDevice, DeleteDevice, TypeOK
    <2>4. Announced(n, p) => Announced(n, p)'
      BY <1>2, <2>3 DEF Announced, Accepts, SaveDevice, DeleteDevice
    <2>5. CASE n = req[r].node /\ p = req[r].peer
      BY <1>2, <2>2, <2>5 DEF InSync, SaveDevice, DeleteDevice
    <2>6. CASE ~(n = req[r].node /\ p = req[r].peer)
      <3>1. dev'[n][p] = dev[n][p]
        BY <1>1, <1>2, <2>1, <2>6 DEF SaveDevice, DeleteDevice, TypeOK
      <3> QED
        BY <1>2, <2>4, <3>1, SyncUnchanged DEF SaveDevice, DeleteDevice
    <2> QED
      BY <2>5, <2>6
  <1>3. CASE CommitSave(r)
    <2>1. Active(r) /\ req[r] \in ActiveReq /\ req[r].node \in Node /\ req[r].peer \in Peer
      BY <1>1, <1>3, ActiveFields DEF CommitSave, ReqPc
    <2>2. <<req[r].node, req[r].peer>> \in wrote /\ req[r].row # None
      BY <1>3, <2>1 DEF Support, RequestShape, CommitSave
    <2>3. \A s \in Request : s # r => req'[s] = req[s]
      BY <1>1, <1>3 DEF CommitSave, TypeOK
    <2>4. /\ \A q \in Peer : db'[q] = IF q = req[r].peer THEN req[r].row ELSE db[q]
          /\ UNCHANGED <<dev, queue, hnd, http, up, snap, wrote>>
      BY <1>1, <1>3, <2>1 DEF CommitSave, Commit, TypeOK
    <2>5. req[r].pc = "commit"
      BY <1>3 DEF CommitSave
    <2>6. Announced(n, p) => Announced(n, p)'
      <3>1. \A m \in Msg : m.peer \in Peer
        BY DEF Msg
      <3>2. \A m \in Msg : Accepts(m) => Accepts(m)'
        BY <2>2, <2>4, <3>1 DEF Accepts
      <3> QED
        BY <2>2, <2>3, <2>4, <2>5, <3>2 DEF Announced
    <2>7. CASE p # req[r].peer
      <3>1. /\ <<n, p>> \in lost => <<n, p>> \in lost'
            /\ p \in silent => p \in silent'
        BY <1>3, <2>7 DEF CommitSave, Commit
      <3> QED
        BY <2>4, <2>6, <2>7, <3>1, SyncUnchanged
    <2>8. CASE p = req[r].peer /\ n = req[r].node
      BY <2>2, <2>4, <2>8 DEF InSync
    <2>9. CASE p = req[r].peer /\ n # req[r].node /\ req[r].announce
      <3>1. req'[r] = [req[r] EXCEPT !.pc = "publish"]
        BY <1>1, <1>3, <2>9 DEF CommitSave, TypeOK
      <3>2. /\ req'[r].pc = "publish" /\ req'[r].node = req[r].node
            /\ req'[r].peer = req[r].peer
        BY <2>1, <3>1 DEF ActiveReq
      <3>3. db'[p] # None
        BY <2>2, <2>4, <2>9
      <3>4. Announced(n, p)'
        BY <2>9, <3>2, <3>3 DEF Announced
      <3> QED
        BY <3>4 DEF InSync
    <2>10. CASE p = req[r].peer /\ ~req[r].announce
      <3>1. CASE db'[p] # db[p]
        <4>1. p \in silent'
          BY <1>3, <2>4, <2>10, <3>1 DEF CommitSave, Commit
        <4> QED
          BY <4>1 DEF InSync
      <3>2. CASE db'[p] = db[p]
        <4>1. UNCHANGED lost /\ silent \subseteq silent'
          BY <1>3, <2>10 DEF CommitSave, Commit
        <4> QED
          BY <2>4, <2>6, <3>2, <4>1, SyncUnchanged
      <3> QED
        BY <3>1, <3>2
    <2> QED
      BY <2>7, <2>8, <2>9, <2>10
  <1>4. CASE CommitDelete(r)
    <2>1. Active(r) /\ req[r] \in ActiveReq /\ req[r].node \in Node /\ req[r].peer \in Peer
      BY <1>1, <1>4, ActiveFields DEF CommitDelete, ReqPc
    <2>2. <<req[r].node, req[r].peer>> \in wrote /\ req[r].event = "deleted"
      BY <1>4, <2>1 DEF Support, RequestShape, CommitDelete
    <2>3. \A s \in Request : s # r => req'[s] = req[s]
      BY <1>1, <1>4 DEF CommitDelete, TypeOK
    <2>4. /\ \A q \in Peer : q # req[r].peer => db'[q] = db[q]
          /\ UNCHANGED <<dev, queue, hnd, http, up, snap, wrote>>
      BY <1>1, <1>4, <2>1 DEF CommitDelete, Commit, TypeOK
    <2>5. CASE p # req[r].peer
      <3>1. /\ <<n, p>> \in lost => <<n, p>> \in lost'
            /\ p \in silent => p \in silent'
        BY <1>4, <2>5 DEF CommitDelete, Commit
      <3>2. Announced(n, p) => Announced(n, p)'
        BY <1>4, <2>3, <2>4, <2>5 DEF Announced, Accepts, CommitDelete
      <3> QED
        BY <2>4, <2>5, <3>1, <3>2, SyncUnchanged
    <2>6. CASE p = req[r].peer /\ n = req[r].node
      BY <2>2, <2>4, <2>6 DEF InSync
    <2>7. CASE p = req[r].peer /\ n # req[r].node
      <3>1. req'[r] = [req[r] EXCEPT !.pc = "publish"]
        BY <1>1, <1>4 DEF CommitDelete, TypeOK
      <3>2. /\ req'[r].pc = "publish" /\ req'[r].node = req[r].node
            /\ req'[r].peer = req[r].peer /\ req'[r].event = "deleted"
        BY <2>1, <2>2, <3>1 DEF ActiveReq
      <3>3. Announced(n, p)'
        BY <2>7, <3>2 DEF Announced
      <3> QED
        BY <3>3 DEF InSync
    <2> QED
      BY <2>5, <2>6, <2>7
  <1>5. CASE Publish(r)
    <2>1. /\ req[r].node \in Node /\ req[r].peer \in Peer /\ req[r].event \in Event
      BY <1>1, <1>5, ActiveFields DEF Publish, ReqPc
    <2>2. /\ \A s \in Request : s # r => req'[s] = req[s]
          /\ UNCHANGED <<db, dev, hnd, up, snap, wrote, lost, silent>>
      BY <1>1, <1>5 DEF Publish, TypeOK
    <2>3. \A m \in Msg : http'[m] = IF /\ m.from = req[r].node
                                       /\ m.peer = req[r].peer
                                       /\ m.event = req[r].event
                                      THEN http[m] + 1 ELSE http[m]
      BY <1>5 DEF Publish
    <2>4. \A m \in Msg : http[m] \in Nat
      BY <1>1 DEF TypeOK
    <2>5. \A m \in Msg : http[m] > 0 => http'[m] > 0
      BY <2>3, <2>4
    <2>6. queue'[n]["local"] = queue[n]["local"]
      <3>1. req[r].event # "local"
        BY <2>1 DEF Event
      <3>2. queue' = [queue EXCEPT ![req[r].node][req[r].event] = Append(@, req[r].peer)]
        BY <1>5 DEF Publish
      <3>3. queue \in [Node -> [Topic -> Seq(Peer)]] /\ "local" \in Topic
        BY <1>1 DEF TypeOK, Topic
      <3> QED
        BY <2>1, <3>1, <3>2, <3>3
    <2>7. ASSUME req[r].node # n, req[r].peer = p, db[p] # None \/ req[r].event = "deleted"
          PROVE  Announced(n, p)'
      <3>1. PICK m \in Msg : /\ m.to = n /\ m.peer = p
                             /\ m.event = req[r].event /\ m.from = req[r].node
        <4>1. [from |-> req[r].node, to |-> n, peer |-> p, event |-> req[r].event] \in Msg
          BY <2>1, <2>7 DEF Msg
        <4> QED
          BY <4>1
      <3>2. http'[m] > 0
        BY <2>3, <2>4, <2>7, <3>1
      <3>3. Accepts(m)'
        BY <2>2, <2>7, <3>1 DEF Accepts
      <3> QED
        BY <3>1, <3>2, <3>3 DEF Announced
    <2>8. Announced(n, p) => Announced(n, p)'
      <3>1. CASE \E s \in Request : /\ req[s].pc = "publish" /\ req[s].node # n
                                    /\ req[s].peer = p
                                    /\ db[p] # None \/ req[s].event = "deleted"
        BY <2>2, <2>7, <3>1 DEF Announced
      <3>2. CASE \E m \in Msg : m.to = n /\ m.peer = p /\ http[m] > 0 /\ Accepts(m)
        BY <2>2, <2>5, <3>2 DEF Announced, Accepts
      <3>3. CASE Queued(queue[n]["local"], p)
        BY <2>6, <3>3 DEF Announced
      <3> QED
        BY <3>1, <3>2, <3>3 DEF Announced
    <2> QED
      BY <2>2, <2>8, SyncUnchanged
  <1>6. CASE AbortSave(r) \/ AbortDelete(r)
    <2>1. \A s \in Request : s # r => req'[s] = req[s]
      BY <1>1, <1>6 DEF AbortSave, AbortDelete, TypeOK
    <2>2. Announced(n, p) => Announced(n, p)'
      BY <1>6, <2>1 DEF Announced, Accepts, AbortSave, AbortDelete
    <2> QED
      BY <1>6, <2>2, SyncUnchanged DEF AbortSave, AbortDelete
  <1> QED
    BY <1>2, <1>3, <1>4, <1>5, <1>6 DEF RequestStep

\* A notification on its way survives a step that keeps requests and database,
\* loses no message and does not shorten the local queue.
LEMMA AnnouncedKept ==
    ASSUME NEW n \in Node, NEW p \in Peer, UNCHANGED <<db, req>>,
           \A m \in Msg : m.to = n /\ m.peer = p /\ http[m] > 0 => http'[m] > 0,
           Queued(queue[n]["local"], p) => Queued(queue'[n]["local"], p)
    PROVE  Announced(n, p) => Announced(n, p)'
  BY DEF Announced, Accepts

\* The handlers of the sync topics touch only peers their node has served; the
\* local handler moves its peer from the queue through hnd to the device.
LEMMA SyncHandler ==
    ASSUME Support, NEW x \in Node, HandlerStep(x),
           NEW n \in Node, NEW p \in Peer, InSync(n, p)
    PROVE  InSync(n, p)'
  <1>1. TypeOK /\ OwnTopics /\ DownQuiet
    BY DEF Support
  <1>2. /\ UNCHANGED <<db, req, http, up, snap, wrote, silent>>
        /\ "local" \in Topic /\ "local" \notin Event
    BY DEF HandlerStep, ReadForSync, ReadFails, ApplyRead, ReadForLocal, HandleDeleted, Topic, Event
  <1>3. CASE <<n, p>> \in wrote
    BY <1>2, <1>3 DEF InSync
  <1>4. ASSUME NEW t \in Topic, ReadForSync(x, t), <<n, p>> \notin wrote
        PROVE  InSync(n, p)'
    <2>1. t # "local" /\ UNCHANGED <<dev, lost>>
      BY <1>4 DEF ReadForSync
    <2>2. /\ queue'[n]["local"] = queue[n]["local"]
          /\ hnd'[n]["local"] = hnd[n]["local"]
      BY <1>1, <1>2, <1>4, <2>1 DEF ReadForSync, Take, TypeOK
    <2>3. Announced(n, p) => Announced(n, p)'
      BY <1>2, <2>2, AnnouncedKept
    <2> QED
      BY <1>2, <2>1, <2>2, <2>3, SyncUnchanged
  <1>5. ASSUME NEW t \in Topic, ApplyRead(x, t), <<n, p>> \notin wrote
        PROVE  InSync(n, p)'
    <2>1. /\ UNCHANGED <<queue, lost>> /\ Busy(x, t)
          /\ hnd[x][t].peer \in Peer /\ hnd[x][t].row \in PeerRow
      BY <1>1, <1>5 DEF ApplyRead, Busy, TypeOK, Holding
    <2>2. up[x] = "up"
      BY <1>1, <2>1 DEF DownQuiet
    <2>3. Announced(n, p) => Announced(n, p)'
      BY <1>2, <2>1, AnnouncedKept
    <2>4. \A y \in Node, s \in Topic : hnd'[y][s] = IF y = x /\ s = t THEN IdleHnd ELSE hnd[y][s]
      BY <1>1, <1>5 DEF ApplyRead, TypeOK
    <2>5. \A y \in Node, q \in Peer :
             dev'[y][q] = IF y = x /\ q = hnd[x][t].peer THEN OnDevice(dev[y][q], hnd[x][t].row)
                                                         ELSE dev[y][q]
      BY <1>1, <1>5, <2>1 DEF ApplyRead, TypeOK
    <2>6. CASE t \in Event
      <3>1. ~(n = x /\ p = hnd[x][t].peer)
        BY <1>1, <1>5, <2>1, <2>6 DEF OwnTopics
      <3>2. dev'[n][p] = dev[n][p] /\ hnd'[n]["local"] = hnd[n]["local"]
        BY <1>2, <2>4, <2>5, <2>6, <3>1
      <3> QED
        BY <1>2, <2>1, <2>3, <3>2, SyncUnchanged
    <2>7. CASE t = "local"
      <3>1. CASE n = x /\ p = hnd[x][t].peer
        <4>1. hnd'[n]["local"] = IdleHnd /\ dev'[n][p] = OnDevice(dev[n][p], hnd[x][t].row)
          BY <1>2, <2>4, <2>5, <2>7, <3>1
        <4>2. dev[n][p] \in Place
          BY <1>1 DEF TypeOK
        <4>3. Shows(dev'[n][p], hnd[x][t].row)
          BY <2>1, <4>1, <4>2, ShowsSaved
        <4>4. Fresh(n, p) => hnd[x][t].row = db[p]
          BY <2>1, <2>2, <2>7, <3>1 DEF Fresh
        <4>5. Fresh(n, p) => Fresh(n, p)'
          BY <1>2, <2>2, <3>1, <4>1, <4>3, <4>4 DEF Fresh, Busy
        <4> QED
          BY <1>2, <2>1, <2>3, <4>5 DEF InSync
      <3>2. CASE ~(n = x /\ p = hnd[x][t].peer)
        <4>1. dev'[n][p] = dev[n][p]
          BY <2>5, <3>2
        <4>2. hnd'[n]["local"] = IF n = x THEN IdleHnd ELSE hnd[n]["local"]
          BY <1>2, <2>4, <2>7
        <4>3. Fresh(n, p) => Fresh(n, p)'
          BY <1>2, <2>2, <2>7, <3>2, <4>1, <4>2 DEF Fresh, Busy
        <4> QED
          BY <1>2, <2>1, <2>3, <4>3 DEF InSync
      <3> QED
        BY <3>1, <3>2
    <2> QED
      BY <2>6, <2>7 DEF Topic
  <1>6. ASSUME ReadForLocal(x), <<n, p>> \notin wrote
        PROVE  InSync(n, p)'
    <2> DEFINE q == queue[x]["local"]
    <2>1. q \in Seq(Peer) /\ q # <<>> /\ up[x] = "up" /\ ~Busy(x, "local") /\ UNCHANGED dev
      BY <1>1, <1>2, <1>6 DEF ReadForLocal, Take, TypeOK
    <2>2. Head(q) \in Peer
      BY <2>1
    <2>3. \A y \in Node, s \in Topic :
             /\ queue'[y][s] = IF y = x /\ s = "local" THEN Tail(q) ELSE queue[y][s]
             /\ hnd'[y][s] = IF y = x /\ s = "local" THEN [peer |-> Head(q), row |-> db[Head(q)]]
                                                     ELSE hnd[y][s]
      BY <1>1, <1>2, <1>6 DEF ReadForLocal, Take, TypeOK
    <2>7. lost' = lost \ {<<x, Head(q)>>}
      BY <1>6 DEF ReadForLocal
    <2>4. CASE n # x
      <3>1. queue'[n]["local"] = queue[n]["local"] /\ hnd'[n]["local"] = hnd[n]["local"]
        BY <1>2, <2>3, <2>4
      <3>2. Announced(n, p) => Announced(n, p)'
        BY <1>2, <3>1, AnnouncedKept
      <3> QED
        BY <1>2, <2>1, <2>4, <2>7, <3>1, <3>2, SyncUnchanged
    <2>5. CASE n = x /\ p = Head(q)
      <3>1. hnd'[n]["local"] = [peer |-> p, row |-> db[p]]
        BY <1>2, <2>3, <2>5
      <3>2. Busy(n, "local")' /\ hnd'[n]["local"].peer = p /\ hnd'[n]["local"].row = db[p]
        BY <3>1 DEF Busy, IdleHnd
      <3>3. Fresh(n, p)'
        BY <1>2, <2>1, <2>5, <3>2 DEF Fresh
      <3> QED
        BY <3>3 DEF InSync
    <2>6. CASE n = x /\ p # Head(q)
      <3>1. queue'[n]["local"] = Tail(q) /\ hnd'[n]["local"].peer # p
        BY <1>2, <2>3, <2>6
      <3>2. Queued(q, p) => Queued(Tail(q), p)
        BY <2>1, <2>6, QueuedTail
      <3>3. Announced(n, p) => Announced(n, p)'
        BY <1>2, <2>6, <3>1, <3>2, AnnouncedKept
      <3>4. Fresh(n, p) => Fresh(n, p)'
        BY <1>2, <2>1, <2>6, <3>1 DEF Fresh
      <3> QED
        BY <1>2, <2>6, <2>7, <3>3, <3>4 DEF InSync
    <2> QED
      BY <2>4, <2>5, <2>6
  <1>7. ASSUME HandleDeleted(x), <<n, p>> \notin wrote
        PROVE  InSync(n, p)'
    <2>1. /\ queue[x]["deleted"] \in Seq(Peer) /\ queue[x]["deleted"] # <<>>
          /\ "deleted" \in Topic /\ "deleted" \in Event
      BY <1>1, <1>7 DEF HandleDeleted, Take, TypeOK, Topic, Event
    <2>2. Head(queue[x]["deleted"]) \in Peer /\ Queued(queue[x]["deleted"], Head(queue[x]["deleted"]))
      BY <2>1, QueuedTail
    <2>3. ~(n = x /\ p = Head(queue[x]["deleted"]))
      BY <1>1, <1>7, <2>1, <2>2 DEF OwnTopics
    <2>4. /\ dev'[n][p] = dev[n][p] /\ UNCHANGED <<hnd, lost>>
          /\ queue'[n]["local"] = queue[n]["local"]
      BY <1>1, <1>2, <1>7, <2>2, <2>3 DEF HandleDeleted, Take, TypeOK
    <2>5. Announced(n, p) => Announced(n, p)'
      BY <1>2, <2>4, AnnouncedKept
    <2> QED
      BY <1>2, <2>4, <2>5, SyncUnchanged
  <1>8. ASSUME NEW t \in Topic, ReadFails(x, t), <<n, p>> \notin wrote
        PROVE  InSync(n, p)'
    <2>1. UNCHANGED dev /\ up[x] = "up" /\ ~Busy(x, t) /\ lost \subseteq lost'
      BY <1>8 DEF ReadFails, Take
    <2>2. CASE n # x \/ t # "local"
      <3>1. /\ queue'[n]["local"] = queue[n]["local"]
            /\ hnd'[n]["local"] = hnd[n]["local"]
        BY <1>1, <1>2, <1>8, <2>2 DEF ReadFails, Take, TypeOK
      <3>2. Announced(n, p) => Announced(n, p)'
        BY <1>2, <3>1, AnnouncedKept
      <3> QED
        BY <1>2, <2>1, <3>1, <3>2, SyncUnchanged
    <2>3. CASE n = x /\ t = "local"
      <3> DEFINE q == queue[x]["local"]
      <3>1. q \in Seq(Peer) /\ q # <<>>
        BY <1>1, <1>2, <1>8, <2>3 DEF ReadFails, Take, TypeOK
      <3>2. CASE p = Head(q)
        BY <1>8, <2>3, <3>2 DEF ReadFails, InSync
      <3>3. CASE p # Head(q)
        <4>1. queue'[n]["local"] = Tail(q)
          BY <1>1, <1>2, <1>8, <2>3 DEF ReadFails, Take, TypeOK
        <4>2. Busy(n, "local")' => hnd'[n]["local"].peer # p
          <5>1. \/ hnd' = hnd
                \/ hnd' = [hnd EXCEPT ![x]["local"] = [peer |-> Head(q), row |-> None]]
            BY <1>8, <2>3 DEF ReadFails
          <5>2. \/ hnd'[n]["local"] = IdleHnd
                \/ hnd'[n]["local"] = [peer |-> Head(q), row |-> None]
            BY <1>1, <1>2, <2>1, <2>3, <5>1 DEF TypeOK, Busy
          <5> QED
            BY <3>3, <5>2 DEF Busy
        <4>3. Queued(q, p) => Queued(Tail(q), p)
          BY <3>1, <3>3, QueuedTail
        <4>4. Announced(n, p) => Announced(n, p)'
          BY <1>2, <2>3, <4>1, <4>3, AnnouncedKept
        <4>5. Fresh(n, p) => Fresh(n, p)'
          BY <1>2, <2>1, <2>3, <4>2 DEF Fresh
        <4> QED
          BY <1>2, <2>1, <4>4, <4>5 DEF InSync
      <3> QED
        BY <3>2, <3>3
    <2> QED
      BY <2>2, <2>3
  <1> QED
    BY <1>3, <1>4, <1>5, <1>6, <1>7, <1>8 DEF HandlerStep

\* A POST that is handled becomes an entry of the receiver's local queue, unless
\* the endpoint discards it; one that is not handled is recorded as lost.
LEMMA SyncDeliver ==
    ASSUME Support, NEW m \in Msg, Deliver(m) \/ Answered(m),
           NEW n \in Node, NEW p \in Peer, InSync(n, p)
    PROVE  InSync(n, p)'
  <1>1. TypeOK /\ m.to \in Node /\ m.peer \in Peer /\ "local" \in Topic
    BY DEF Support, Msg, Topic
  <1>2. UNCHANGED <<db, dev, req, hnd, up, snap, wrote, silent>> /\ lost \subseteq lost'
    BY DEF Deliver, Answered, HandleSyncPost, HandleSyncPostUnread, SendFail, SendSkip,
           AnswerOk, AnswerLost
  <1>3. \A k \in Msg : k # m => http'[k] = http[k]
    BY <1>1 DEF Deliver, Answered, HandleSyncPost, HandleSyncPostUnread, SendFail, SendSkip,
                AnswerOk, AnswerLost, TypeOK
  <1>4. CASE SendFail(m) \/ SendSkip(m) \/ HandleSyncPostUnread(m)
    <2>1. UNCHANGED queue /\ <<m.to, m.peer>> \in lost'
      BY <1>4 DEF SendFail, SendSkip, HandleSyncPostUnread
    <2>2. CASE n = m.to /\ p = m.peer
      BY <2>1, <2>2 DEF InSync
    <2>3. CASE ~(n = m.to /\ p = m.peer)
      <3>1. Announced(n, p) => Announced(n, p)'
        BY <1>2, <1>3, <2>1, <2>3, AnnouncedKept
      <3> QED
        BY <1>2, <3>1, SyncUnchanged
    <2> QED
      BY <2>2, <2>3
  <1>5. CASE HandleSyncPost(m)
    <2>1. HandleSyncPost(m)
      BY <1>5
    <2> DEFINE q == queue[m.to]["local"]
    <2>2. /\ q \in Seq(Peer)
          /\ Queued(Append(q, m.peer), p) <=> Queued(q, p) \/ p = m.peer
      <3>1. q \in Seq(Peer)
        BY <1>1 DEF TypeOK
      <3> HIDE DEF q
      <3> QED
        BY <1>1, <3>1, QueuedAppend
    <2>3. queue'[n]["local"] = IF n = m.to /\ Accepts(m) THEN Append(q, m.peer)
                                                        ELSE queue[n]["local"]
      <3>1. CASE Accepts(m)
        <4>1. queue' = [queue EXCEPT ![m.to]["local"] = Append(q, m.peer)]
          BY <2>1, <3>1 DEF HandleSyncPost
        <4> HIDE DEF q
        <4> QED
          BY <1>1, <3>1, <4>1 DEF TypeOK
      <3>2. CASE ~Accepts(m)
        BY <2>1, <3>2 DEF HandleSyncPost
      <3> QED
        BY <3>1, <3>2
    <2>4. /\ Queued(queue[n]["local"], p) => Queued(queue'[n]["local"], p)
          /\ n = m.to /\ p = m.peer /\ Accepts(m) => Queued(queue'[n]["local"], p)
      BY <2>2, <2>3
    <2>5. Announced(n, p) => Announced(n, p)'
      BY <1>2, <1>3, <2>4 DEF Announced, Accepts
    <2> QED
      BY <1>2, <2>5, SyncUnchanged
  <1>6. CASE Answered(m)
    <2>1. UNCHANGED <<http, queue, lost>>
      BY <1>6 DEF Answered, AnswerOk, AnswerLost
    <2>2. Announced(n, p) => Announced(n, p)'
      BY <1>2, <2>1, AnnouncedKept
    <2> QED
      BY <1>2, <2>1, <2>2, SyncUnchanged
  <1> QED
    BY <1>4, <1>5, <1>6 DEF Deliver

\* What a crashing node had not sent is recorded as lost; a restarting node ends
\* with the rows it read, and is notified of what is committed afterwards.
LEMMA SyncCrashRestart ==
    ASSUME Support, NEW x \in Node, Crash(x) \/ Restart(x) \/ BackgroundRestore(x),
           NEW n \in Node, NEW p \in Peer, InSync(n, p)
    PROVE  InSync(n, p)'
  <1>1. TypeOK /\ DownQuiet /\ "local" \in Topic
    BY DEF Support, Topic
  <1>2. CASE Crash(x) /\ n = x
    <2>1. /\ UNCHANGED <<db, dev, silent>> /\ wrote \subseteq wrote'
          /\ lost' = lost \cup Unsent(x) \cup Unapplied(x)
          /\ up'[n] = "down" /\ hnd'[n]["local"] = IdleHnd /\ up[n] # "down"
      BY <1>1, <1>2 DEF Crash, TypeOK
    <2>2. \A r \in Request : req'[r] = IF Active(r) /\ req[r].node = x THEN IdleReq ELSE req[r]
      BY <1>2 DEF Crash
    <2>3. \A m \in Msg : m.to = n => http'[m] = http[m]
      BY <1>2 DEF Crash, Msg
    <2>4. CASE up[n] = "restoring"
      BY <1>2, <2>4 DEF Crash, InSync
    <2>5. CASE Queued(queue[n]["local"], p) \/ (Busy(n, "local") /\ hnd[n]["local"].peer = p)
      BY <1>2, <2>1, <2>5 DEF Unapplied, InSync
    <2>6. CASE /\ up[n] # "restoring"
               /\ ~Queued(queue[n]["local"], p)
               /\ ~(Busy(n, "local") /\ hnd[n]["local"].peer = p)
      <3>1. Fresh(n, p) => Fresh(n, p)'
        BY <2>1, <2>6 DEF Fresh, Busy
      <3>2. Announced(n, p) => Announced(n, p)'
        BY <1>2, <2>1, <2>2, <2>3, <2>6 DEF Announced, Accepts
      <3> QED
        BY <2>1, <3>1, <3>2 DEF InSync
    <2> QED
      BY <2>4, <2>5, <2>6
  <1>3. CASE Crash(x) /\ n # x
    <2>1. /\ UNCHANGED <<db, dev, silent>> /\ wrote \subseteq wrote'
          /\ lost' = lost \cup Unsent(x) \cup Unapplied(x)
          /\ up'[n] = up[n] /\ snap'[n] = snap[n]
          /\ queue'[n] = queue[n] /\ hnd'[n] = hnd[n]
      BY <1>1, <1>3 DEF Crash, TypeOK
    <2>2. \A r \in Request : req'[r] = IF Active(r) /\ req[r].node = x THEN IdleReq ELSE req[r]
      BY <1>3 DEF Crash
    <2>3. \A m \in Msg : http'[m] = IF m.from = x THEN 0 ELSE http[m]
      BY <1>3 DEF Crash
    <2>4. CASE Queued(queue[n]["local"], p)
      <3>1. Announced(n, p)'
        BY <2>1, <2>4 DEF Announced
      <3> QED
        BY <3>1 DEF InSync
    <2>5. ASSUME NEW m \in Msg, m.to = n, m.peer = p, http[m] > 0, Accepts(m)
          PROVE  InSync(n, p)'
      <3>1. CASE m.from = x
        <4>1. <<n, p>> \in Unsent(x)
          BY <1>3, <2>5, <3>1 DEF Unsent
        <4> QED
          BY <2>1, <4>1 DEF InSync
      <3>2. CASE m.from # x
        <4>1. Announced(n, p)'
          BY <2>1, <2>3, <2>5, <3>2 DEF Announced, Accepts
        <4> QED
          BY <4>1 DEF InSync
      <3> QED
        BY <3>1, <3>2
    <2>6. ASSUME NEW r \in Request, req[r].pc = "publish", req[r].node # n, req[r].peer = p,
                 db[p] # None \/ req[r].event = "deleted"
          PROVE  InSync(n, p)'
      <3>1. Active(r)
        BY <2>6 DEF Active, IdleReq
      <3>2. CASE req[r].node = x
        <4>1. <<n, p>> \in Unsent(x)
          BY <1>3, <2>6, <3>1, <3>2 DEF Unsent
        <4> QED
          BY <2>1, <4>1 DEF InSync
      <3>3. CASE req[r].node # x
        <4>1. Announced(n, p)'
          BY <2>1, <2>2, <2>6, <3>3 DEF Announced
        <4> QED
          BY <4>1 DEF InSync
      <3> QED
        BY <3>2, <3>3
    <2>7. CASE ~Announced(n, p)
      BY <2>1, <2>7, SyncUnchanged
    <2> QED
      BY <2>4, <2>5, <2>6, <2>7 DEF Announced
  <1>4. CASE Restart(x) /\ n # x
    <2>1. /\ UNCHANGED <<db, req, http, queue, hnd, silent>>
          /\ up'[n] = up[n] /\ dev'[n] = dev[n] /\ snap'[n] = snap[n]
          /\ <<n, p>> \in wrote \cup lost => <<n, p>> \in wrote' \cup lost'
      BY <1>1, <1>4 DEF Restart, StartRestore, FinishRestore, BootPlain, Serve, TypeOK
    <2>2. Announced(n, p) => Announced(n, p)'
      BY <2>1, AnnouncedKept
    <2> QED
      BY <2>1, <2>2, SyncUnchanged
  <1>5. CASE StartRestore(x) /\ n = x
    <2>1. UNCHANGED db /\ up'[n] = "restoring" /\ snap'[n][p] = db[p]
      BY <1>1, <1>5 DEF StartRestore, TypeOK
    <2>2. Fresh(n, p)'
      BY <2>1 DEF Fresh
    <2> QED
      BY <2>2 DEF InSync
  <1>6. CASE FinishRestore(x) /\ n = x
    <2>1. /\ UNCHANGED <<db, req, http, queue, hnd, wrote, lost, silent>>
          /\ up[n] = "restoring" /\ up'[n] = "up"
          /\ dev'[n][p] = Restored(dev[n][p], snap[n][p])
          /\ dev[n][p] \in Place /\ snap[n][p] \in PeerRow
      BY <1>1, <1>6 DEF FinishRestore, Serve, TypeOK
    <2>2. ~Busy(n, "local")'
      BY <1>1, <2>1 DEF DownQuiet, Busy
    <2>5. Shows(dev'[n][p], snap[n][p])
      BY <2>1, ShowsSaved
    <2>3. Fresh(n, p) => Fresh(n, p)'
      BY <2>1, <2>2, <2>5 DEF Fresh
    <2>4. Announced(n, p) => Announced(n, p)'
      BY <2>1, AnnouncedKept
    <2> QED
      BY <2>1, <2>3, <2>4 DEF InSync
  <1>7. CASE BootPlain(x) /\ n = x
    <2>1. /\ UNCHANGED <<db, dev, req, http, queue, hnd, wrote, lost, silent>>
          /\ up[n] = "down" /\ up'[n] = "up"
      BY <1>1, <1>7 DEF BootPlain, Serve, TypeOK
    <2>2. ~Busy(n, "local") /\ ~Busy(n, "local")'
      BY <1>1, <2>1 DEF DownQuiet, Busy
    <2>3. Fresh(n, p) => Fresh(n, p)'
      BY <2>1, <2>2 DEF Fresh
    <2>4. Announced(n, p) => Announced(n, p)'
      BY <2>1, AnnouncedKept
    <2> QED
      BY <2>1, <2>3, <2>4 DEF InSync
  <1>8. CASE StartSync(x)
    <2>1. /\ UNCHANGED <<db, dev, req, http, queue, hnd, up, wrote, lost, silent>>
          /\ n # x => snap'[n] = snap[n]
          /\ up[x] = "up"
      BY <1>1, <1>8 DEF StartSync, TypeOK, DownQuiet
    <2>2. Announced(n, p) => Announced(n, p)'
      BY <2>1, AnnouncedKept
    <2> QED
      BY <2>1, <2>2, SyncUnchanged
  <1>9. ASSUME NEW q \in Peer, SyncPeer(x, q)
        PROVE  InSync(n, p)'
    <2>1. /\ UNCHANGED <<db, req, http, queue, hnd, up, wrote, silent>>
          /\ lost \subseteq lost'
          /\ up[x] = "up"
      BY <1>1, <1>9 DEF SyncPeer, TypeOK, DownQuiet
    <2>2. Announced(n, p) => Announced(n, p)'
      BY <2>1, AnnouncedKept
    <2>3. CASE n # x \/ p # q
      <3>1. dev'[n][p] = dev[n][p] /\ snap'[n][p] = snap[n][p]
        BY <1>1, <1>9, <2>3 DEF SyncPeer, TypeOK
      <3> QED
        BY <2>1, <2>2, <3>1, SyncUnchanged
    <2>4. CASE n = x /\ p = q /\ snap[n][p] # db[p]
      BY <1>9, <2>4 DEF SyncPeer, InSync
    <2>5. CASE n = x /\ p = q /\ snap[n][p] = db[p]
      <3>1. dev'[n][p] = Restored(dev[n][p], db[p]) /\ dev[n][p] \in Place /\ db[p] \in PeerRow
        BY <1>1, <1>9, <2>5 DEF SyncPeer, TypeOK
      <3>2. Shows(dev'[n][p], db[p])
        BY <3>1, ShowsSaved
      <3>3. Fresh(n, p) => Fresh(n, p)'
        BY <2>1, <2>5, <3>2 DEF Fresh, Busy
      <3> QED
        BY <2>1, <2>2, <3>3 DEF InSync
    <2> QED
      BY <2>3, <2>4, <2>5
  <1> QED
    BY <1>2, <1>3, <1>4, <1>5, <1>6, <1>7, <1>8, <1>9 DEF Restart, BackgroundRestore

\* IInv is inductive.
LEMMA InitAgreement == Init => IInv
  <1> SUFFICES ASSUME Init PROVE IInv
    OBVIOUS
  <1>1. Support
    BY InitSupport
  <1>2. ASSUME NEW n \in Node, NEW p \in Peer
        PROVE  InSync(n, p)
    <2>1. /\ up[n] = "up" /\ dev[n][p] = OnDevice(Nowhere, db[p])
          /\ "local" \in Topic /\ ~Busy(n, "local")
      BY DEF Init, Busy, Topic
    <2>3. db[p] \in PeerRow
      BY InitType DEF TypeOK
    <2>2. Fresh(n, p)
      BY <2>1, <2>3, NowhereType, ShowsSaved DEF Fresh
    <2> QED
      BY <2>2 DEF InSync
  <1> QED
    BY <1>1, <1>2 DEF IInv, RemoteAgreement, Support

LEMMA NextAgreement == IInv /\ [Next]_vars => IInv'
  <1> SUFFICES ASSUME IInv, [Next]_vars PROVE IInv'
    OBVIOUS
  <1>1. Support
    BY DEF IInv, Support
  <1>2. Support'
    BY <1>1, NextSupport
  <1>3. ASSUME NEW n \in Node, NEW p \in Peer
        PROVE  InSync(n, p)'
    <2>1. InSync(n, p)
      BY DEF IInv, RemoteAgreement
    <2>2. CASE RequestStart
      BY <1>1, <2>1, <2>2, SyncStart
    <2>3. CASE \E r \in Request : RequestStep(r) \/ AbortSave(r) \/ AbortDelete(r)
      BY <1>1, <2>1, <2>3, SyncRequestStep
    <2>4. CASE \E x \in Node : HandlerStep(x)
      BY <1>1, <2>1, <2>4, SyncHandler
    <2>5. CASE \E m \in Msg : Deliver(m) \/ Answered(m)
      BY <1>1, <2>1, <2>5, SyncDeliver
    <2>6. CASE \E x \in Node : Crash(x) \/ Restart(x) \/ BackgroundRestore(x)
      BY <1>1, <2>1, <2>6, SyncCrashRestart
    <2>7. CASE UNCHANGED vars
      <3>1. Announced(n, p) => Announced(n, p)'
        BY <2>7, AnnouncedKept DEF vars
      <3> QED
        BY <2>1, <2>7, <3>1, SyncUnchanged DEF vars
    <2> QED
      BY <2>2, <2>3, <2>4, <2>5, <2>6, <2>7 DEF Next, Environment
  <1> QED
    BY <1>2, <1>3 DEF IInv, RemoteAgreement, Support

\* For every cluster, every set of peers and any number of requests, failures and
\* crashes: the inductive invariant, which ties each row of the database, each
\* device and each notification in flight to the request that put it there.
THEOREM IInvHolds == Spec => []IInv
  BY InitAgreement, NextAgreement, PTL DEF Spec

\* For every cluster, every set of peers and any number of requests, failures and
\* crashes: a node that only receives a peer agrees with the database about it,
\* or is about to be told, or the notification was dropped or never made.
THEOREM RemoteAgreementHolds == Spec => []RemoteAgreement
  <1>1. IInv => RemoteAgreement
    BY DEF IInv
  <1> QED
    BY <1>1, IInvHolds, PTL

-----------------------------------------------------------------------------
(* Serial requests: hasMeaningfulChanges hides changes of the interface only *)

\* What SerialInv asks of a request that will not announce its commit.
Kept(q, d, mv) == d[q.peer] # None /\ (q.row = d[q.peer] \/ q.peer \in mv)

\* Steps that neither start a request nor change a row.
LEMMA SerialKept ==
    ASSUME SerialInv, UNCHANGED <<db, silent>>, moved \subseteq moved',
           \A r \in Request : \/ req'[r] = req[r]
                              \/ req'[r] = IdleReq
    PROVE  SerialInv'
  <1>1. \A r \in Request : Active(r)' => Active(r) /\ req'[r] = req[r]
    BY DEF Active
  <1> QED
    BY <1>1 DEF SerialInv, OwnPeers

\* A new request is disjoint from the ones in progress, and what it will not
\* announce is what the table holds.
LEMMA SerialBegin ==
    ASSUME pace' # "any", TypeOK, SerialInv, NEW r \in Request, NEW n \in Node, NEW new,
           new \in ActiveReq, Begin(r, n, new), moved \subseteq moved',
           new.pc \in {"device", "commit"} /\ ~new.announce => Kept(new, db, moved')
    PROVE  SerialInv'
  <1>1. /\ req'[r] = new
        /\ \A s \in Request : s # r => req'[s] = req[s]
        /\ UNCHANGED <<db, silent>>
    BY DEF Begin, TypeOK
  <1>2. \A s \in Request : Active(s) => OwnPeers(s) \cap ({new.peer} \cup new.rekey) = {}
    BY DEF Begin, Pacing
  <1>3. \A s \in Request : s # r => (Active(s)' <=> Active(s))
    BY <1>1 DEF Active
  <1>4. ASSUME NEW s \in Request, NEW t \in Request, Active(s)', Active(t)', s # t
        PROVE  OwnPeers(s)' \cap OwnPeers(t)' = {}
    <2>1. CASE s = r
      BY <1>1, <1>2, <1>3, <1>4, <2>1 DEF OwnPeers
    <2>2. CASE t = r
      BY <1>1, <1>2, <1>3, <1>4, <2>2 DEF OwnPeers
    <2>3. CASE s # r /\ t # r
      BY <1>1, <1>3, <1>4, <2>3 DEF OwnPeers, SerialInv
    <2> QED
      BY <2>1, <2>2, <2>3
  <1>5. ASSUME NEW s \in Request, Active(s)', req'[s].pc \in {"device", "commit"}, ~req'[s].announce
        PROVE  Kept(req'[s], db', moved')
    <2>1. CASE s = r
      BY <1>1, <1>5, <2>1
    <2>2. CASE s # r
      BY <1>1, <1>3, <1>5, <2>2 DEF SerialInv, Kept
    <2> QED
      BY <2>1, <2>2
  <1>6. silent' \subseteq moved'
    BY <1>1 DEF SerialInv
  <1> QED
    BY <1>4, <1>5, <1>6 DEF SerialInv, Kept

LEMMA SerialStart ==
    ASSUME pace' # "any", TypeOK, SerialInv, RequestStart
    PROVE  SerialInv'
  <1>1. PICK r \in Request, n \in Node, p \in Peer :
           \/ \E row \in Row : CreatePeer(r, n, p, row)
           \/ \E row \in Row : UpdatePeer(r, n, p, row)
           \/ \E q \in Peer, row \in Row : RekeyPeer(r, n, p, q, row)
           \/ DeletePeer(r, n, p)
    BY RowAssumption DEF RequestStart
  <1>a. db[p] # None => db[p] \in Row
    BY DEF TypeOK, PeerRow
  <1>2. ASSUME NEW row \in Row, CreatePeer(r, n, p, row)
        PROVE  SerialInv'
    <2> DEFINE new == [pc |-> "device", node |-> n, peer |-> p, row |-> row,
                       iface |-> row.iface, event |-> "created", announce |-> TRUE, rekey |-> {}]
    <2>1. new \in ActiveReq /\ new.announce
      BY DEF ActiveReq, ReqPc, PeerRow, Event, Row
    <2>2. Begin(r, n, new) /\ UNCHANGED moved
      BY <1>2 DEF CreatePeer
    <2> HIDE DEF new
    <2> QED
      BY <2>1, <2>2, SerialBegin
  <1>3. ASSUME NEW row \in Row, UpdatePeer(r, n, p, row)
        PROVE  SerialInv'
    <2> DEFINE new == [pc |-> "device", node |-> n, peer |-> p, row |-> row,
                       iface |-> row.iface, event |-> "updated",
                       announce |-> HasMeaningfulChanges(db[p], row), rekey |-> {}]
    <2>1. /\ new \in ActiveReq /\ new.peer = p /\ new.row = row
          /\ new.announce = HasMeaningfulChanges(db[p], row)
      BY DEF ActiveReq, ReqPc, PeerRow, Event, HasMeaningfulChanges, Row
    <2>2. /\ Begin(r, n, new) /\ moved \subseteq moved' /\ db[p] # None
          /\ row.iface # db[p].iface => p \in moved'
      BY <1>3 DEF UpdatePeer
    <2>3. db[p] \in Row
      BY <1>a, <2>2
    <2>4. ~HasMeaningfulChanges(db[p], row) /\ row.iface = db[p].iface => row = db[p]
      BY <2>3 DEF HasMeaningfulChanges, Row
    <2>5. ~new.announce => Kept(new, db, moved')
      BY <2>1, <2>2, <2>4 DEF Kept
    <2> HIDE DEF new
    <2> QED
      BY <2>1, <2>2, <2>5, SerialBegin
  <1>4. ASSUME NEW q \in Peer, NEW row \in Row, RekeyPeer(r, n, p, q, row)
        PROVE  SerialInv'
    <2> DEFINE new == [pc |-> "devdel", node |-> n, peer |-> p, row |-> row,
                       iface |-> db[p].iface, event |-> "deleted", announce |-> TRUE,
                       rekey |-> {q}]
    <2>1. new \in ActiveReq /\ new.announce
      BY <1>4, <1>a DEF RekeyPeer, ActiveReq, ReqPc, PeerRow, Event, Row
    <2>2. Begin(r, n, new) /\ UNCHANGED moved
      BY <1>4 DEF RekeyPeer
    <2> HIDE DEF new
    <2> QED
      BY <2>1, <2>2, SerialBegin
  <1>5. CASE DeletePeer(r, n, p)
    <2> DEFINE new == [pc |-> "devdel", node |-> n, peer |-> p, row |-> None,
                       iface |-> db[p].iface, event |-> "deleted", announce |-> TRUE,
                       rekey |-> {}]
    <2>1. new \in ActiveReq /\ new.announce
      BY <1>5, <1>a DEF DeletePeer, ActiveReq, ReqPc, PeerRow, Event, Row
    <2>2. Begin(r, n, new) /\ UNCHANGED moved
      BY <1>5 DEF DeletePeer
    <2> HIDE DEF new
    <2> QED
      BY <2>1, <2>2, SerialBegin
  <1> QED
    BY <1>1, <1>2, <1>3, <1>4, <1>5

\* A step of request r that keeps r on its own peers, changes no other request
\* and changes the table at most at r's peer.
LEMMA SerialMove ==
    ASSUME SerialInv, NEW r \in Request, Active(r),
           \A s \in Request : s # r => req'[s] = req[s],
           Active(r)' => OwnPeers(r)' \subseteq OwnPeers(r),
           Active(r)' /\ req'[r].pc \in {"device", "commit"} /\ ~req'[r].announce
              => Kept(req'[r], db', moved'),
           \A p \in Peer : p \notin OwnPeers(r) => db'[p] = db[p],
           \A s \in Request : Active(s) => req[s].peer \in Peer,
           moved \subseteq moved', silent' \subseteq moved'
    PROVE  SerialInv'
  <1>1. \A s \in Request : s # r => (Active(s)' <=> Active(s)) /\ OwnPeers(s)' = OwnPeers(s)
    BY DEF Active, OwnPeers
  <1>2. ASSUME NEW s \in Request, NEW t \in Request, Active(s)', Active(t)', s # t
        PROVE  OwnPeers(s)' \cap OwnPeers(t)' = {}
    <2>1. CASE s = r
      BY <1>1, <1>2, <2>1 DEF SerialInv
    <2>2. CASE t = r
      BY <1>1, <1>2, <2>2 DEF SerialInv
    <2>3. CASE s # r /\ t # r
      BY <1>1, <1>2, <2>3 DEF SerialInv
    <2> QED
      BY <2>1, <2>2, <2>3
  <1>3. ASSUME NEW s \in Request, Active(s)', req'[s].pc \in {"device", "commit"}, ~req'[s].announce
        PROVE  Kept(req'[s], db', moved')
    <2>1. CASE s = r
      BY <1>3, <2>1
    <2>2. CASE s # r
      <3>1. Active(s) /\ req'[s] = req[s] /\ req[s].peer \in Peer
        BY <1>1, <1>3, <2>2
      <3>2. req[s].peer \notin OwnPeers(r)
        BY <2>2, <3>1 DEF SerialInv, OwnPeers
      <3> QED
        BY <1>3, <3>1, <3>2 DEF SerialInv, Kept
    <2> QED
      BY <2>1, <2>2
  <1> QED
    BY <1>2, <1>3 DEF SerialInv, Kept

LEMMA SerialStep ==
    ASSUME Support, SerialInv, NEW r \in Request,
           RequestStep(r) \/ AbortSave(r) \/ AbortDelete(r)
    PROVE  SerialInv'
  <1>1. TypeOK
    BY DEF Support
  <1>2. /\ Active(r) /\ req[r] \in ActiveReq /\ req[r].peer \in Peer
        /\ \A s \in Request : Active(s) => req[s].peer \in Peer
    BY <1>1, ActiveFields DEF RequestStep, SaveDevice, CommitSave, DeleteDevice, CommitDelete,
       Publish, AbortSave, AbortDelete, ReqPc, Active, TypeOK, ActiveReq
  <1>3. \A s \in Request : s # r => req'[s] = req[s]
    BY <1>1 DEF RequestStep, SaveDevice, CommitSave, DeleteDevice, CommitDelete,
       Publish, AbortSave, AbortDelete, TypeOK
  <1>4. CASE SaveDevice(r) \/ DeleteDevice(r)
    <2>1. UNCHANGED <<db, silent, moved>>
      BY <1>4 DEF SaveDevice, DeleteDevice
    <2>2. /\ req'[r].peer = req[r].peer /\ req'[r].rekey = req[r].rekey
          /\ req'[r].row = req[r].row /\ req'[r].announce = req[r].announce
          /\ req'[r].pc \in {"device", "commit"} => req[r].pc \in {"device", "commit"}
      BY <1>1, <1>2, <1>4 DEF SaveDevice, DeleteDevice, TypeOK, ActiveReq
    <2>3. OwnPeers(r)' = OwnPeers(r)
      BY <2>2 DEF OwnPeers
    <2>4. req'[r].pc \in {"device", "commit"} /\ ~req'[r].announce => Kept(req'[r], db', moved')
      BY <1>2, <2>1, <2>2 DEF SerialInv, Kept
    <2>5. silent' \subseteq moved'
      BY <2>1 DEF SerialInv
    <2> QED
      BY <1>2, <1>3, <2>1, <2>3, <2>4, <2>5, SerialMove
  <1>5. CASE CommitSave(r)
    <2>1. moved' = moved /\ \A p \in Peer : p # req[r].peer => db'[p] = db[p]
      BY <1>1, <1>5 DEF CommitSave, Commit, TypeOK
    <2>2. \/ req'[r] = IdleReq
          \/ req'[r] = [req[r] EXCEPT !.pc = "publish"]
      BY <1>1, <1>5 DEF CommitSave, TypeOK
    <2>3. Active(r)' => /\ req'[r].pc = "publish"
                        /\ req'[r].peer = req[r].peer /\ req'[r].rekey = req[r].rekey
      BY <1>2, <2>2 DEF Active, ActiveReq
    <2>4. Active(r)' => OwnPeers(r)' = OwnPeers(r)
      BY <2>3 DEF OwnPeers
    <2>5. silent' \subseteq moved'
      <3>1. ~req[r].announce => req[r].row = db[req[r].peer] \/ req[r].peer \in moved
        BY <1>2, <1>5 DEF SerialInv, CommitSave
      <3> QED
        BY <1>5, <3>1 DEF CommitSave, Commit, SerialInv
    <2>6. req[r].peer \in OwnPeers(r)
      BY DEF OwnPeers
    <2> QED
      BY <1>2, <1>3, <2>1, <2>3, <2>4, <2>5, <2>6, SerialMove
  <1>6. CASE CommitDelete(r)
    <2>1. moved' = moved /\ \A p \in Peer : p # req[r].peer => db'[p] = db[p]
      BY <1>1, <1>6 DEF CommitDelete, Commit, TypeOK
    <2>2. /\ req'[r].pc = "publish"
          /\ req'[r].peer = req[r].peer /\ req'[r].rekey = req[r].rekey
      BY <1>1, <1>2, <1>6 DEF CommitDelete, TypeOK, ActiveReq
    <2>3. OwnPeers(r)' = OwnPeers(r) /\ req[r].peer \in OwnPeers(r)
      BY <2>2 DEF OwnPeers
    <2>4. silent' \subseteq moved'
      BY <1>6 DEF CommitDelete, Commit, SerialInv
    <2> QED
      BY <1>2, <1>3, <2>1, <2>2, <2>3, <2>4, SerialMove
  <1>7. CASE Publish(r)
    <2>1. UNCHANGED <<db, silent, moved>> /\ req'[r] = AfterPublish(req[r])
      BY <1>1, <1>7 DEF Publish, TypeOK
    <2>2. CASE req[r].rekey = {}
      <3>1. req'[r] = IdleReq
        BY <2>1, <2>2 DEF AfterPublish
      <3> QED
        BY <1>3, <2>1, <3>1, SerialKept
    <2>3. CASE req[r].rekey # {}
      <3>1. /\ req'[r].peer \in req[r].rekey /\ req'[r].rekey = {}
            /\ req'[r].announce = TRUE
        BY <2>1, <2>3 DEF AfterPublish
      <3>2. OwnPeers(r)' \subseteq OwnPeers(r)
        BY <3>1 DEF OwnPeers
      <3>3. silent' \subseteq moved'
        BY <2>1 DEF SerialInv
      <3> QED
        BY <1>2, <1>3, <2>1, <3>1, <3>2, <3>3, SerialMove
    <2> QED
      BY <2>2, <2>3
  <1>8. CASE AbortSave(r) \/ AbortDelete(r)
    <2>1. UNCHANGED <<db, silent, moved>> /\ req'[r] = IdleReq
      BY <1>1, <1>8 DEF AbortSave, AbortDelete, TypeOK
    <2> QED
      BY <1>3, <2>1, SerialKept
  <1> QED
    BY <1>4, <1>5, <1>6, <1>7, <1>8 DEF RequestStep

LEMMA NextSerial ==
    ASSUME pace' # "any", Support, SerialInv, [Next]_vars
    PROVE  SerialInv'
  <1>1. TypeOK
    BY DEF Support
  <1>2. CASE RequestStart
    BY <1>1, <1>2, SerialStart
  <1>3. CASE \E r \in Request : RequestStep(r) \/ AbortSave(r) \/ AbortDelete(r)
    BY <1>3, SerialStep
  <1>4. CASE \E n \in Node : HandlerStep(n)
    <2>1. UNCHANGED <<db, silent, moved, req>>
      BY <1>4 DEF HandlerStep, ReadForSync, ReadFails, ApplyRead, ReadForLocal, HandleDeleted
    <2> QED
      BY <2>1, SerialKept
  <1>5. CASE \E m \in Msg : Deliver(m) \/ Answered(m)
    <2>1. UNCHANGED <<db, silent, moved, req>>
      BY <1>5 DEF Deliver, Answered, HandleSyncPost, HandleSyncPostUnread, SendFail, SendSkip,
                  AnswerOk, AnswerLost
    <2> QED
      BY <2>1, SerialKept
  <1>6. CASE \E n \in Node : Crash(n) \/ Restart(n) \/ BackgroundRestore(n)
    <2>1. /\ UNCHANGED <<db, silent, moved>>
          /\ \A r \in Request : req'[r] = req[r] \/ req'[r] = IdleReq
      BY <1>6 DEF Crash, Restart, StartRestore, FinishRestore, BootPlain, BackgroundRestore,
                  StartSync, SyncPeer
    <2> QED
      BY <2>1, SerialKept
  <1>7. CASE UNCHANGED vars
    BY <1>7, SerialKept DEF vars
  <1> QED
    BY <1>2, <1>3, <1>4, <1>5, <1>6, <1>7 DEF Next, Environment

LEMMA InitSerial == Init => SerialInv
  BY DEF Init, SerialInv, Active

\* Requests that have overlapped once have overlapped for good.
LEMMA PaceKept ==
    ASSUME [Next]_vars
    PROVE  pace = "any" => pace' = "any"
  <1>1. CASE RequestStart
    <2>1. PICK r \in Request, n \in Node, p \in Peer :
             \/ \E row \in Asked : CreatePeer(r, n, p, row)
             \/ \E row \in Asked : UpdatePeer(r, n, p, row)
             \/ \E q \in Peer, row \in Asked : RekeyPeer(r, n, p, q, row)
             \/ DeletePeer(r, n, p)
      BY <1>1 DEF RequestStart
    <2>2. ASSUME NEW new, Begin(r, n, new), pace = "any"
          PROVE  pace' = "any"
      BY <2>2 DEF Begin, Pacing
    <2>3. CASE \E row \in Asked : CreatePeer(r, n, p, row)
      BY <2>2, <2>3 DEF CreatePeer
    <2>4. CASE \E row \in Asked : UpdatePeer(r, n, p, row)
      BY <2>2, <2>4 DEF UpdatePeer
    <2>5. CASE \E q \in Peer, row \in Asked : RekeyPeer(r, n, p, q, row)
      BY <2>2, <2>5 DEF RekeyPeer
    <2>6. CASE DeletePeer(r, n, p)
      BY <2>2, <2>6 DEF DeletePeer
    <2> QED
      BY <2>1, <2>3, <2>4, <2>5, <2>6
  <1>2. CASE \E r \in Request : RequestStep(r) \/ AbortSave(r) \/ AbortDelete(r)
    BY <1>2 DEF RequestStep, SaveDevice, CommitSave, DeleteDevice, CommitDelete, Publish,
                AbortSave, AbortDelete
  <1>3. CASE \E n \in Node : HandlerStep(n)
    BY <1>3 DEF HandlerStep, ReadForSync, ReadFails, ApplyRead, ReadForLocal, HandleDeleted
  <1>4. CASE \E m \in Msg : Deliver(m) \/ Answered(m)
    BY <1>4 DEF Deliver, Answered, HandleSyncPost, HandleSyncPostUnread, SendFail, SendSkip,
                AnswerOk, AnswerLost
  <1>5. CASE \E n \in Node : Crash(n) \/ Restart(n) \/ BackgroundRestore(n)
    BY <1>5 DEF Crash, Restart, StartRestore, FinishRestore, BootPlain, BackgroundRestore,
                StartSync, SyncPeer
  <1>6. CASE UNCHANGED vars
    BY <1>6 DEF vars
  <1> QED
    BY <1>1, <1>2, <1>3, <1>4, <1>5, <1>6 DEF Next, Environment

\* As long as requests for one peer have not overlapped, SerialInv holds.
Serially == Support /\ (pace # "any" => SerialInv)

LEMMA SeriallyInductive ==
    /\ Init => Serially
    /\ Serially /\ [Next]_vars => Serially'
  <1>1. Init => Serially
    BY InitSupport, InitSerial DEF Serially
  <1>2. ASSUME Serially, [Next]_vars
        PROVE  Serially'
    <2>1. Support'
      BY <1>2, NextSupport DEF Serially
    <2>2. ASSUME pace' # "any"
          PROVE  SerialInv'
      BY <1>2, <2>2, PaceKept, NextSerial DEF Serially
    <2> QED
      BY <2>1, <2>2 DEF Serially
  <1> QED
    BY <1>1, <1>2

\* For every cluster, as long as requests for one peer do not overlap: UpdatePeer's
\* shortcut hides no change but one of the interface, whatever fails or crashes.
THEOREM NeverSilentHolds == Spec => []NeverSilent
  <1>1. Serially => NeverSilent
    BY DEF Serially, SerialInv, NeverSilent
  <1> QED
    BY <1>1, SeriallyInductive, PTL DEF Spec

\* For every cluster, as long as requests for one peer do not overlap: no deleted peer
\* comes back without an announcement, SavePeer's FirstOrCreate cannot resurrect a row
\* behind the cluster's back.
THEOREM RowsAppearAnnouncedHolds == Spec => RowsAppearAnnounced
  <1>1. Serially /\ [Next]_vars => [pace' # "any" => AppearsAnnounced]_vars
    <2> SUFFICES ASSUME Serially, Next, pace' # "any" PROVE AppearsAnnounced
      OBVIOUS
    <2>a. Support /\ SerialInv
      BY PaceKept DEF Serially
    <2>1. TypeOK
      BY <2>a DEF Support
    <2>2. CASE UNCHANGED db
      BY <2>2 DEF AppearsAnnounced
    <2>3. ASSUME NEW r \in Request, CommitSave(r)
          PROVE  AppearsAnnounced
      <3>1. Active(r) /\ req[r] \in ActiveReq /\ req[r].pc = "commit"
        BY <2>1, <2>3, ActiveFields DEF CommitSave, ReqPc
      <3>2. \A p \in Peer : p # req[r].peer => db'[p] = db[p]
        BY <2>1, <2>3 DEF CommitSave, Commit, TypeOK
      <3>3. CASE req[r].announce
        <4>1. req'[r] = [req[r] EXCEPT !.pc = "publish"]
          BY <2>1, <2>3, <3>3 DEF CommitSave, TypeOK
        <4>2. req'[r].pc = "publish" /\ req'[r].peer = req[r].peer
          BY <3>1, <4>1 DEF ActiveReq
        <4> QED
          BY <3>2, <4>2 DEF AppearsAnnounced
      <3>4. CASE ~req[r].announce
        <4>1. db[req[r].peer] # None
          BY <2>a, <3>1, <3>4 DEF SerialInv
        <4> QED
          BY <3>2, <4>1 DEF AppearsAnnounced
      <3> QED
        BY <3>3, <3>4
    <2>4. ASSUME NEW r \in Request, CommitDelete(r)
          PROVE  AppearsAnnounced
      <3>1. \A p \in Peer : db'[p] = db[p] \/ db'[p] = None
        BY <2>1, <2>4 DEF CommitDelete, Commit, TypeOK
      <3> QED
        BY <3>1 DEF AppearsAnnounced
    <2>5. CASE RequestStart
      BY <2>2, <2>5, StartFrame
    <2>6. CASE \E r \in Request : SaveDevice(r) \/ DeleteDevice(r) \/ Publish(r)
                                  \/ AbortSave(r) \/ AbortDelete(r)
      BY <2>2, <2>6 DEF SaveDevice, DeleteDevice, Publish, AbortSave, AbortDelete
    <2>7. CASE \E n \in Node : HandlerStep(n)
      BY <2>2, <2>7 DEF HandlerStep, ReadForSync, ReadFails, ApplyRead, ReadForLocal, HandleDeleted
    <2>8. CASE \E m \in Msg : Deliver(m) \/ Answered(m)
      BY <2>2, <2>8 DEF Deliver, Answered, HandleSyncPost, HandleSyncPostUnread, SendFail,
                        SendSkip, AnswerOk, AnswerLost
    <2>9. CASE \E n \in Node : Crash(n) \/ Restart(n) \/ BackgroundRestore(n)
      BY <2>2, <2>9 DEF Crash, Restart, StartRestore, FinishRestore, BootPlain, BackgroundRestore,
                        StartSync, SyncPeer
    <2> QED
      BY <2>3, <2>4, <2>5, <2>6, <2>7, <2>8, <2>9 DEF Next, Environment, RequestStep
  <1> QED
    BY <1>1, SeriallyInductive, PTL DEF Spec, RowsAppearAnnounced

-----------------------------------------------------------------------------
(* Settled requests: the whole cluster agrees when nothing is left to do *)

\* Requests have been settled only if they have always been.
LEMMA PaceSettled ==
    ASSUME TypeOK, [Next]_vars
    PROVE  pace' = "settled" => pace = "settled"
  <1>1. CASE RequestStart
    <2>1. PICK r \in Request, n \in Node, p \in Peer :
             \/ \E row \in Asked : CreatePeer(r, n, p, row)
             \/ \E row \in Asked : UpdatePeer(r, n, p, row)
             \/ \E q \in Peer, row \in Asked : RekeyPeer(r, n, p, q, row)
             \/ DeletePeer(r, n, p)
      BY <1>1 DEF RequestStart
    <2>2. ASSUME NEW new, Begin(r, n, new), pace' = "settled"
          PROVE  pace = "settled"
      BY <2>2 DEF Begin, Pacing, TypeOK
    <2>3. CASE \E row \in Asked : CreatePeer(r, n, p, row)
      BY <2>2, <2>3 DEF CreatePeer
    <2>4. CASE \E row \in Asked : UpdatePeer(r, n, p, row)
      BY <2>2, <2>4 DEF UpdatePeer
    <2>5. CASE \E q \in Peer, row \in Asked : RekeyPeer(r, n, p, q, row)
      BY <2>2, <2>5 DEF RekeyPeer
    <2>6. CASE DeletePeer(r, n, p)
      BY <2>2, <2>6 DEF DeletePeer
    <2> QED
      BY <2>1, <2>3, <2>4, <2>5, <2>6
  <1>2. CASE \E r \in Request : RequestStep(r) \/ AbortSave(r) \/ AbortDelete(r)
    BY <1>2 DEF RequestStep, SaveDevice, CommitSave, DeleteDevice, CommitDelete, Publish,
                AbortSave, AbortDelete
  <1>3. CASE \E n \in Node : HandlerStep(n)
    BY <1>3 DEF HandlerStep, ReadForSync, ReadFails, ApplyRead, ReadForLocal, HandleDeleted
  <1>4. CASE \E m \in Msg : Deliver(m) \/ Answered(m)
    BY <1>4 DEF Deliver, Answered, HandleSyncPost, HandleSyncPostUnread, SendFail, SendSkip,
                AnswerOk, AnswerLost
  <1>5. CASE \E n \in Node : Crash(n) \/ Restart(n) \/ BackgroundRestore(n)
    BY <1>5 DEF Crash, Restart, StartRestore, FinishRestore, BootPlain, BackgroundRestore,
                StartSync, SyncPeer
  <1>6. CASE UNCHANGED vars
    BY <1>6 DEF vars
  <1> QED
    BY <1>1, <1>2, <1>3, <1>4, <1>5, <1>6 DEF Next, Environment

\* The work outstanding for a peer is what bus, fan-outs and restores hold for it.
LEMMA OutstandingKept ==
    ASSUME UNCHANGED <<queue, hnd, http, answer, due, todo>>, NEW p
    PROVE  Outstanding(p)' <=> Outstanding(p)
  BY DEF Outstanding, Busy, Queued

\* A step of no request, which leaves the table alone, adds no work and touches
\* the device only for peers somebody works for, disturbs no request.
LEMMA AloneKept ==
    ASSUME TypeOK, AloneOnPeers, UNCHANGED <<req, db, moved>>,
           \A p \in Peer : Outstanding(p)' => Outstanding(p),
           \A n \in Node, p \in Peer : dev'[n][p] = dev[n][p] \/ Outstanding(p)
    PROVE  AloneOnPeers'
  <1> SUFFICES ASSUME NEW r \in Request, Active(r)' PROVE Alone(r)'
    BY DEF AloneOnPeers
  <1>1. Active(r) /\ Alone(r) /\ req'[r] = req[r] /\ OwnPeers(r)' = OwnPeers(r)
    BY DEF Active, AloneOnPeers, OwnPeers
  <1>2. req[r].node \in Node /\ req[r].peer \in Peer /\ OwnPeers(r) \subseteq Peer
    BY <1>1 DEF Active, TypeOK, ActiveReq, OwnPeers
  <1>3. \A p \in OwnPeers(r) : ~Outstanding(p)
    BY <1>1 DEF Alone
  <1>4. req[r].peer \in OwnPeers(r)
    BY DEF OwnPeers
  <1>5. dev'[req[r].node][req[r].peer] = dev[req[r].node][req[r].peer]
    BY <1>2, <1>3, <1>4
  <1>6. \A p \in OwnPeers(r) : ~Outstanding(p)'
    BY <1>2, <1>3
  <1> QED
    BY <1>1, <1>5, <1>6 DEF Alone

\* A step of request r that stays with r's peers disturbs no other request.
LEMMA AloneStep ==
    ASSUME TypeOK, SerialInv, AloneOnPeers, NEW r \in Request, Active(r), UNCHANGED moved,
           \A s \in Request : s # r => req'[s] = req[s],
           \A p \in Peer : p \notin OwnPeers(r) =>
              /\ db'[p] = db[p]
              /\ Outstanding(p)' => Outstanding(p)
              /\ \A n \in Node : dev'[n][p] = dev[n][p],
           Active(r)' => Alone(r)'
    PROVE  AloneOnPeers'
  <1> SUFFICES ASSUME NEW s \in Request, Active(s)' PROVE Alone(s)'
    BY DEF AloneOnPeers
  <1>1. CASE s = r
    BY <1>1
  <1>2. CASE s # r
    <2>1. Active(s) /\ Alone(s) /\ req'[s] = req[s] /\ OwnPeers(s)' = OwnPeers(s)
      BY <1>2 DEF Active, AloneOnPeers, OwnPeers
    <2>2. /\ req[s].node \in Node /\ req[s].peer \in OwnPeers(s) /\ OwnPeers(s) \subseteq Peer
          /\ req[s].rekey \subseteq OwnPeers(s)
      BY <2>1 DEF Active, TypeOK, ActiveReq, OwnPeers
    <2>3. \A p \in OwnPeers(s) : p \notin OwnPeers(r)
      BY <1>2, <2>1 DEF SerialInv
    <2>4. /\ dev'[req[s].node][req[s].peer] = dev[req[s].node][req[s].peer]
          /\ \A q \in OwnPeers(s) : db'[q] = db[q]
      BY <2>2, <2>3
    <2>5. \A p \in OwnPeers(s) : ~Outstanding(p)'
      BY <2>1, <2>2, <2>3 DEF Alone
    <2> QED
      BY <2>1, <2>2, <2>4, <2>5 DEF Alone
  <1> QED
    BY <1>1, <1>2

\* A request begins alone on its peers: the pace says that it has waited for the rest.
LEMMA SettledBegin ==
    ASSUME pace' = "settled", TypeOK, Settled, moved \subseteq moved',
           NEW r \in Request, NEW n \in Node, NEW new \in ActiveReq, Begin(r, n, new),
           new.pc \in {"device", "devdel"}, new.peer \notin new.rekey,
           \A q \in new.rekey : db[q] = None,
           new.pc = "device" => /\ new.event # "deleted"
                                /\ db[new.peer] # None /\ new.peer \notin moved'
                                      => new.row.iface = db[new.peer].iface,
           new.pc = "devdel" => db[new.peer] # None /\ new.iface = db[new.peer].iface
    PROVE  Settled'
  <1>1. /\ UNCHANGED <<db, dev, queue, hnd, http, answer, failed, up, due, todo, silent>>
        /\ req'[r] = new /\ req[r] = IdleReq
        /\ \A s \in Request : s # r => req'[s] = req[s]
    BY DEF Begin, TypeOK, Active
  <1>2. \A p : Outstanding(p)' <=> Outstanding(p)
    BY <1>1, OutstandingKept
  <1>3. AloneOnPeers'
    <2> SUFFICES ASSUME NEW s \in Request, Active(s)' PROVE Alone(s)'
      BY DEF AloneOnPeers
    <2>1. CASE s = r
      <3>1. \A p \in {new.peer} \cup new.rekey : ~Outstanding(p)
        BY DEF Begin, Pacing
      <3>2. OwnPeers(s)' = {new.peer} \cup new.rekey
        BY <1>1, <2>1 DEF OwnPeers
      <3>3. \A p \in OwnPeers(s)' : ~Outstanding(p)'
        BY <1>2, <3>1, <3>2
      <3> QED
        BY <1>1, <2>1, <3>3 DEF Alone
    <2>2. CASE s # r
      <3>1. Active(s) /\ Alone(s) /\ req'[s] = req[s] /\ OwnPeers(s)' = OwnPeers(s)
        BY <1>1, <2>2 DEF Active, Settled, AloneOnPeers, OwnPeers
      <3> QED
        BY <1>1, <1>2, <3>1 DEF Alone
    <2> QED
      BY <2>1, <2>2
  <1>4. HandlersFresh'
    BY <1>1 DEF Settled, HandlersFresh, Busy
  <1>5. \A s \in Request : req[s].pc \in {"commit", "dbdel", "publish"} => s # r
    BY <1>1 DEF IdleReq
  <1>6. ASSUME NEW x \in Node, NEW p \in Peer PROVE Placed(x, p)' /\ OneInterface(x, p)'
    <2>1. Placed(x, p) /\ OneInterface(x, p)
      BY DEF Settled
    <2>2. Ahead(x, p) => Ahead(x, p)'
      BY <1>1, <1>5 DEF Ahead
    <2>3. Announced(x, p) => Announced(x, p)'
      BY <1>1, <1>5 DEF Announced, Accepts
    <2>4. Removing(x, p) => Removing(x, p)'
      BY <1>1, <1>5 DEF Removing
    <2>5. Placed(x, p)'
      BY <1>1, <2>1, <2>2, <2>3, <2>4 DEF Placed, Busy
    <2>6. OneInterface(x, p)'
      BY <1>1, <2>1, <2>2 DEF OneInterface, Elsewhere
    <2> QED
      BY <2>5, <2>6
  <1> QED
    BY <1>1, <1>3, <1>4, <1>6 DEF Settled

\* The four kinds of request begin like that.
LEMMA SettledStart ==
    ASSUME pace' = "settled", TypeOK, Settled, RequestStart
    PROVE  Settled'
  <1>1. PICK r \in Request, n \in Node, p \in Peer :
           \/ \E row \in Row : CreatePeer(r, n, p, row)
           \/ \E row \in Row : UpdatePeer(r, n, p, row)
           \/ \E q \in Peer, row \in Row : RekeyPeer(r, n, p, q, row)
           \/ DeletePeer(r, n, p)
    BY RowAssumption DEF RequestStart
  <1>a. db[p] # None => db[p].iface \in Iface
    BY DEF TypeOK, PeerRow, Row
  <1>2. ASSUME NEW row \in Row, CreatePeer(r, n, p, row)
        PROVE  Settled'
    <2> DEFINE new == [pc |-> "device", node |-> n, peer |-> p, row |-> row,
                       iface |-> row.iface, event |-> "created", announce |-> TRUE, rekey |-> {}]
    <2>1. /\ new \in ActiveReq /\ new.pc = "device" /\ new.event # "deleted" /\ new.peer = p
          /\ new.rekey = {}
      BY DEF ActiveReq, ReqPc, PeerRow, Event, Row
    <2>2. Begin(r, n, new) /\ UNCHANGED moved /\ db[p] = None
      BY <1>2 DEF CreatePeer
    <2> HIDE DEF new
    <2> QED
      BY <2>1, <2>2, SettledBegin
  <1>3. ASSUME NEW row \in Row, UpdatePeer(r, n, p, row)
        PROVE  Settled'
    <2> DEFINE new == [pc |-> "device", node |-> n, peer |-> p, row |-> row,
                       iface |-> row.iface, event |-> "updated",
                       announce |-> HasMeaningfulChanges(db[p], row), rekey |-> {}]
    <2>1. /\ new \in ActiveReq /\ new.pc = "device" /\ new.event # "deleted" /\ new.peer = p
          /\ new.rekey = {} /\ new.row = row
      BY DEF ActiveReq, ReqPc, PeerRow, Event, HasMeaningfulChanges, Row
    <2>2. Begin(r, n, new) /\ moved \subseteq moved' /\ (row.iface # db[p].iface => p \in moved')
      BY <1>3 DEF UpdatePeer
    <2> HIDE DEF new
    <2> QED
      BY <2>1, <2>2, SettledBegin
  <1>4. ASSUME NEW q \in Peer, NEW row \in Row, RekeyPeer(r, n, p, q, row)
        PROVE  Settled'
    <2> DEFINE new == [pc |-> "devdel", node |-> n, peer |-> p, row |-> row,
                       iface |-> db[p].iface, event |-> "deleted", announce |-> TRUE,
                       rekey |-> {q}]
    <2>1. p # q /\ db[p] # None /\ db[q] = None
      BY <1>4 DEF RekeyPeer
    <2>2. /\ new \in ActiveReq /\ new.pc = "devdel" /\ new.peer = p /\ new.rekey = {q}
          /\ new.iface = db[p].iface
      BY <1>a, <2>1 DEF ActiveReq, ReqPc, PeerRow, Event
    <2>3. Begin(r, n, new) /\ UNCHANGED moved
      BY <1>4 DEF RekeyPeer
    <2> HIDE DEF new
    <2> QED
      BY <2>1, <2>2, <2>3, SettledBegin
  <1>5. CASE DeletePeer(r, n, p)
    <2> DEFINE new == [pc |-> "devdel", node |-> n, peer |-> p, row |-> None,
                       iface |-> db[p].iface, event |-> "deleted", announce |-> TRUE,
                       rekey |-> {}]
    <2>1. db[p] # None /\ Begin(r, n, new) /\ UNCHANGED moved
      BY <1>5 DEF DeletePeer
    <2>2. /\ new \in ActiveReq /\ new.pc = "devdel" /\ new.peer = p /\ new.rekey = {}
          /\ new.iface = db[p].iface
      BY <1>a, <2>1 DEF ActiveReq, ReqPc, PeerRow, Event
    <2> HIDE DEF new
    <2> QED
      BY <2>1, <2>2, SettledBegin
  <1> QED
    BY <1>1, <1>2, <1>3, <1>4, <1>5

\* No other request works on the peer of r, nor has anybody anything to do for it.
LEMMA AloneMeans ==
    ASSUME TypeOK, SerialInv, AloneOnPeers, NEW r \in Request, Active(r)
    PROVE  /\ \A s \in Request : s # r /\ req[s].pc \in ReqPc => req[s].peer # req[r].peer
           /\ \A x \in Node, t \in Topic :
                 /\ ~Queued(queue[x][t], req[r].peer)
                 /\ ~(Busy(x, t) /\ hnd[x][t].peer = req[r].peer)
           /\ \A m \in Msg : m.peer = req[r].peer => ~(http[m] > 0) /\ ~(answer[m] > 0)
  <1>1. req[r].peer \in OwnPeers(r) /\ ~Outstanding(req[r].peer)
    BY DEF AloneOnPeers, Alone, OwnPeers
  <1>2. ASSUME NEW s \in Request, s # r, req[s].pc \in ReqPc
        PROVE  req[s].peer # req[r].peer
    <2>1. Active(s)
      BY <1>2, ActiveFields
    <2> QED
      BY <1>1, <1>2, <2>1 DEF SerialInv, OwnPeers
  <1> QED
    BY <1>1, <1>2 DEF Outstanding

\* Before it has reached the device, a request finds the device as the table says, or
\* the peer has been moved.
LEMMA AloneShows ==
    ASSUME Support, SerialInv, Settled, NEW r \in Request, Active(r),
           req[r].pc \in {"device", "devdel"}, NEW x \in Node
    PROVE  \/ req[r].peer \in moved
           \/ Shows(dev[x][req[r].peer], db[req[r].peer]) /\ Elsewhere(x, req[r].peer)
  <1> DEFINE p == req[r].peer
  <1>1. TypeOK /\ AloneOnPeers /\ "local" \in Topic /\ "deleted" \in Topic
    BY DEF Support, Settled, Topic, Event
  <1>2. p \in Peer
    BY <1>1, ActiveFields DEF ReqPc
  <1>3. \A s \in Request : req[s].peer = p => ~(req[s].pc \in {"commit", "dbdel", "publish"})
    BY <1>1, AloneMeans DEF ReqPc
  <1>4. ~Ahead(x, p) /\ ~Removing(x, p) /\ ~Announced(x, p)
    BY <1>1, <1>3, AloneMeans DEF Ahead, Removing, Announced
  <1>5. ~(Busy(x, "local") /\ hnd[x]["local"].peer = p)
    BY <1>1, AloneMeans
  <1> QED
    BY <1>2, <1>4, <1>5 DEF Settled, Placed, OneInterface, SerialInv

\* The same of the nodes that the request does not run on, until it commits.
LEMMA AloneElsewhere ==
    ASSUME Support, SerialInv, Settled, NEW r \in Request, Active(r),
           req[r].pc \in {"commit", "dbdel"}, NEW x \in Node, x # req[r].node
    PROVE  /\ req[r].peer \in silent \/ Shows(dev[x][req[r].peer], db[req[r].peer])
           /\ req[r].peer \in moved \/ Elsewhere(x, req[r].peer)
  <1> DEFINE p == req[r].peer
  <1>1. TypeOK /\ AloneOnPeers /\ "local" \in Topic /\ "deleted" \in Topic
    BY DEF Support, Settled, Topic, Event
  <1>2. p \in Peer
    BY <1>1, ActiveFields DEF ReqPc
  <1>3. \A s \in Request : req[s].peer = p /\ req[s].pc \in {"commit", "dbdel", "publish"} => s = r
    BY <1>1, AloneMeans DEF ReqPc
  <1>4. ~Ahead(x, p) /\ ~Removing(x, p) /\ ~Announced(x, p)
    BY <1>1, <1>3, AloneMeans DEF Ahead, Removing, Announced
  <1>5. ~(Busy(x, "local") /\ hnd[x]["local"].peer = p)
    BY <1>1, AloneMeans
  <1> QED
    BY <1>2, <1>4, <1>5 DEF Settled, Placed, OneInterface

\* The device of the request's own node is written before the table: that node is
\* ahead, and nothing else has changed.
LEMMA SettledDevice ==
    ASSUME Support, SerialInv, Settled, NEW r \in Request, SaveDevice(r) \/ DeleteDevice(r)
    PROVE  Settled'
  <1> DEFINE n == req[r].node
             p == req[r].peer
             row == req[r].row
  <1>1. TypeOK /\ AloneOnPeers /\ HandlersFresh
    BY DEF Support, Settled
  <1>2. /\ Active(r) /\ req[r] \in ActiveReq /\ n \in Node /\ p \in Peer /\ row \in PeerRow
        /\ req[r].iface \in Iface
    BY <1>1, ActiveFields DEF SaveDevice, DeleteDevice, ReqPc
  <1>3. /\ UNCHANGED <<db, queue, hnd, http, answer, failed, up, due, todo, silent, moved>>
        /\ \A s \in Request : s # r => req'[s] = req[s]
        /\ \A x \in Node, q \in Peer : ~(x = n /\ q = p) => dev'[x][q] = dev[x][q]
    BY <1>1, <1>2 DEF SaveDevice, DeleteDevice, TypeOK
  <1>4. /\ req'[r].node = n /\ req'[r].peer = p /\ req'[r].row = row
        /\ req'[r].rekey = req[r].rekey /\ req'[r].event = req[r].event
        /\ req'[r].iface = req[r].iface
    BY <1>1, <1>2 DEF SaveDevice, DeleteDevice, TypeOK, ActiveReq
  <1>a. dev[n][p] \in Place
    BY <1>1, <1>2 DEF TypeOK
  <1>b. \/ /\ req[r].pc = "device" /\ req'[r].pc = "commit"
           /\ dev'[n][p] = OnDevice(dev[n][p], row)
        \/ /\ req[r].pc = "devdel" /\ req'[r].pc = "dbdel"
           /\ dev'[n][p] = [dev[n][p] EXCEPT ![req[r].iface] = Off]
    <2>1. CASE SaveDevice(r)
      <3>1. req'[r].pc = "commit" /\ req[r].pc = "device"
        BY <1>1, <1>2, <2>1 DEF SaveDevice, TypeOK, ActiveReq
      <3>2. dev' = [dev EXCEPT ![n][p] = OnDevice(@, row)]
        BY <2>1 DEF SaveDevice
      <3> QED
        BY <1>1, <1>2, <3>1, <3>2 DEF TypeOK
    <2>2. CASE DeleteDevice(r)
      <3>1. req'[r].pc = "dbdel" /\ req[r].pc = "devdel"
        BY <1>1, <1>2, <2>2 DEF DeleteDevice, TypeOK, ActiveReq
      <3>2. dev' = [dev EXCEPT ![n][p][req[r].iface] = Off]
        BY <2>2 DEF DeleteDevice
      <3> QED
        BY <1>1, <1>2, <3>1, <3>2 DEF TypeOK
    <2> QED
      BY <2>1, <2>2
  <1>5. OwnPeers(r)' = OwnPeers(r) /\ p \in OwnPeers(r)
    BY <1>4 DEF OwnPeers
  <1>6. \A q : Outstanding(q)' <=> Outstanding(q)
    BY <1>3, OutstandingKept
  <1>7. Alone(r)'
    <2>1. Alone(r)
      BY <1>1, <1>2 DEF AloneOnPeers
    <2>2. \A q \in OwnPeers(r)' : ~Outstanding(q)'
      BY <1>5, <1>6, <2>1 DEF Alone
    <2>3. \/ p \in moved
          \/ Shows(dev[n][p], db[p]) /\ Elsewhere(n, p)
      BY <1>2, <1>b, AloneShows
    <2>4. CASE req'[r].pc = "commit"
      <3>1. /\ req[r].pc = "device" /\ dev'[n][p] = OnDevice(dev[n][p], row)
            /\ row # None /\ row \in Row /\ row.iface \in Iface
        BY <1>2, <1>b, <2>4 DEF Support, RequestShape, PeerRow, Row
      <3>2. Shows(dev'[n][p], row)
        BY <1>2, <1>a, <3>1, ShowsSaved
      <3>3. \A i \in Iface \ {row.iface} : dev'[n][p][i] = dev[n][p][i]
        BY <1>a, <3>1 DEF OnDevice, Place
      <3>4. p \in moved \/ \A i \in Iface \ {row.iface} : dev[n][p][i] = Off
        <4>1. CASE db[p] = None
          BY <2>3, <4>1 DEF Shows, Nowhere
        <4>2. CASE db[p] # None
          BY <2>1, <2>3, <3>1, <4>2 DEF Elsewhere, Alone
        <4> QED
          BY <4>1, <4>2
      <3> QED
        BY <1>3, <1>4, <2>1, <2>2, <2>4, <3>1, <3>2, <3>3, <3>4 DEF Alone
    <2>5. CASE req'[r].pc = "dbdel"
      <3>1. /\ req[r].pc = "devdel" /\ db[p] # None /\ req[r].iface = db[p].iface
            /\ dev'[n][p] = [dev[n][p] EXCEPT ![req[r].iface] = Off]
        BY <1>b, <2>1, <2>5 DEF Alone
      <3>2. dev'[n][p] \in [Iface -> DevPeer]
        BY <1>1, <1>2, <1>a, <3>1, NowhereType DEF Place
      <3>3. p \in moved \/ \A i \in Iface : dev'[n][p][i] = Off
        BY <1>2, <1>a, <2>3, <3>1 DEF Elsewhere, Place
      <3>4. p \in moved \/ dev'[n][p] = Nowhere
        BY <3>2, <3>3 DEF Nowhere
      <3> QED
        BY <1>3, <1>4, <2>1, <2>2, <2>5, <3>1, <3>4 DEF Alone
    <2> QED
      BY <1>b, <2>4, <2>5
  <1>8. AloneOnPeers'
    BY <1>1, <1>2, <1>3, <1>5, <1>6, <1>7, AloneStep
  <1>9. HandlersFresh'
    BY <1>1, <1>3 DEF HandlersFresh, Busy
  <1>10. ASSUME NEW x \in Node, NEW q \in Peer PROVE Placed(x, q)' /\ OneInterface(x, q)'
    <2>1. CASE x = n /\ q = p
      <3>1. Ahead(x, q)'
        BY <1>4, <1>b, <2>1 DEF Ahead
      <3> QED
        BY <3>1 DEF Placed, OneInterface
    <2>2. CASE ~(x = n /\ q = p)
      <3>1. Placed(x, q) /\ OneInterface(x, q) /\ dev'[x][q] = dev[x][q]
        BY <1>3, <2>2 DEF Settled
      <3>2. Ahead(x, q) => Ahead(x, q)'
        BY <1>3, <1>4, <1>b DEF Ahead
      <3>3. Announced(x, q) => Announced(x, q)'
        BY <1>3, <1>4, <1>b DEF Announced, Accepts
      <3>4. Removing(x, q) => Removing(x, q)'
        BY <1>3, <1>4, <1>b DEF Removing
      <3>5. Placed(x, q)'
        BY <1>3, <3>1, <3>2, <3>3, <3>4 DEF Placed, Busy
      <3>6. OneInterface(x, q)'
        BY <1>3, <3>1, <3>2 DEF OneInterface, Elsewhere
      <3> QED
        BY <3>5, <3>6
    <2> QED
      BY <2>1, <2>2
  <1> QED
    BY <1>3, <1>8, <1>9, <1>10 DEF Settled

\* The commit: the request's node was ahead and now agrees, or is about to remove what
\* a move has left, the others will be told, and an update that is not announced has
\* changed nothing but the interface.
LEMMA SettledCommit ==
    ASSUME Support, SerialInv, Settled, NEW r \in Request, CommitSave(r) \/ CommitDelete(r)
    PROVE  Settled'
  <1> DEFINE n == req[r].node
             p == req[r].peer
             row == req[r].row
  <1>1. TypeOK /\ AloneOnPeers /\ HandlersFresh
    BY DEF Support, Settled
  <1>2. /\ Active(r) /\ req[r] \in ActiveReq /\ n \in Node /\ p \in Peer
        /\ req[r].pc \in {"commit", "dbdel"}
    BY <1>1, ActiveFields DEF CommitSave, CommitDelete, ReqPc
  <1>3. /\ UNCHANGED <<dev, queue, hnd, http, answer, failed, up, due, todo, moved>>
        /\ \A s \in Request : s # r => req'[s] = req[s]
        /\ \A q \in Peer : q # p => db'[q] = db[q] /\ (q \in silent => q \in silent')
    BY <1>1, <1>2 DEF CommitSave, CommitDelete, Commit, TypeOK
  <1>4. Alone(r) /\ p \in OwnPeers(r) /\ ~Outstanding(p) /\ p \notin req[r].rekey
    BY <1>1, <1>2 DEF AloneOnPeers, Alone, OwnPeers
  <1>5. /\ Shows(dev[n][p], db'[p]) \/ (CommitDelete(r) /\ p \in moved)
        /\ \/ p \in moved
           \/ db'[p] # None => \A i \in Iface \ {db'[p].iface} : dev[n][p][i] = Off
    <2>1. CASE CommitSave(r)
      <3>1. db'[p] = row /\ req[r].pc = "commit"
        BY <1>1, <1>2, <2>1 DEF CommitSave, Commit, TypeOK
      <3> QED
        BY <1>4, <3>1 DEF Alone
    <2>2. CASE CommitDelete(r)
      <3>1. db'[p] = None /\ req[r].pc = "dbdel"
        BY <1>1, <1>2, <2>2 DEF CommitDelete, Commit, TypeOK
      <3> QED
        BY <1>4, <2>2, <3>1 DEF Alone, Shows
    <2> QED
      BY <2>1, <2>2
  <1>6. \/ /\ req'[r] = IdleReq
           /\ db'[p] = db[p] \/ (p \in moved /\ p \in silent')
           /\ p \in silent => p \in silent'
        \/ /\ req'[r] = [req[r] EXCEPT !.pc = "publish"]
           /\ req[r].event = "deleted" <=> db'[p] = None
    <2>1. CASE CommitSave(r)
      <3>1. db'[p] = row /\ req[r].pc = "commit" /\ row # None /\ req[r].event # "deleted"
        BY <1>1, <1>2, <1>4, <2>1 DEF CommitSave, Commit, TypeOK, Support, RequestShape, Alone
      <3>2. ~req[r].announce => row = db[p] \/ p \in moved
        BY <1>2, <3>1 DEF SerialInv
      <3>3. req'[r] = IF req[r].announce THEN [req[r] EXCEPT !.pc = "publish"] ELSE IdleReq
        BY <1>1, <2>1 DEF CommitSave, TypeOK
      <3>4. ~req[r].announce => silent' = IF row = db[p] THEN silent ELSE silent \cup {p}
        BY <2>1 DEF CommitSave, Commit
      <3> QED
        BY <3>1, <3>2, <3>3, <3>4
    <2>2. CASE CommitDelete(r)
      <3>1. db'[p] = None /\ req[r].event = "deleted"
        BY <1>1, <1>2, <2>2 DEF CommitDelete, Commit, TypeOK, Support, RequestShape
      <3>2. req'[r] = [req[r] EXCEPT !.pc = "publish"]
        BY <1>1, <2>2 DEF CommitDelete, TypeOK
      <3> QED
        BY <3>1, <3>2
    <2> QED
      BY <2>1, <2>2
  <1>7. Active(r)' =>
          /\ req'[r].pc = "publish" /\ req'[r].node = n /\ req'[r].peer = p
          /\ req'[r].rekey = req[r].rekey /\ req'[r].event = req[r].event
          /\ req'[r].event = "deleted" <=> db'[p] = None
    BY <1>2, <1>6 DEF Active, ActiveReq
  <1>8. \A q : Outstanding(q)' <=> Outstanding(q)
    BY <1>3, OutstandingKept
  <1>9. AloneOnPeers'
    <2>1. ASSUME Active(r)' PROVE Alone(r)'
      <3>1. OwnPeers(r)' = OwnPeers(r)
        BY <1>7, <2>1 DEF OwnPeers
      <3>2. \A q \in OwnPeers(r)' : ~Outstanding(q)'
        BY <1>4, <1>8, <3>1 DEF Alone
      <3>3. \A q \in req[r].rekey : db'[q] = None
        <4>1. req[r].rekey \subseteq Peer /\ \A q \in req[r].rekey : db[q] = None
          BY <1>2, <1>4 DEF ActiveReq, Alone
        <4> QED
          BY <1>3, <1>4, <4>1
      <3> QED
        BY <1>4, <1>7, <2>1, <3>2, <3>3 DEF Alone
    <2> QED
      BY <1>1, <1>2, <1>3, <1>4, <1>8, <2>1, AloneStep
  <1>10. HandlersFresh'
    <2> SUFFICES ASSUME NEW x \in Node
                 PROVE  /\ \A t \in Topic : Busy(x, t)' => hnd'[x][t].row = db'[hnd'[x][t].peer]
                        /\ \A q \in Peer : Queued(queue'[x]["deleted"], q) => db'[q] = None
      BY DEF HandlersFresh
    <2>1. ASSUME NEW t \in Topic, Busy(x, t)'
          PROVE  hnd'[x][t].row = db'[hnd'[x][t].peer]
      <3>1. Busy(x, t) /\ hnd[x][t].peer \in Peer
        BY <1>1, <1>3, <2>1 DEF Busy, TypeOK, Holding
      <3>2. hnd[x][t].peer # p
        BY <1>4, <3>1 DEF Outstanding
      <3> QED
        BY <1>1, <1>3, <3>1, <3>2 DEF HandlersFresh
    <2>2. ASSUME NEW q \in Peer, Queued(queue'[x]["deleted"], q)
          PROVE  db'[q] = None
      <3>1. Queued(queue[x]["deleted"], q) /\ "deleted" \in Topic
        BY <1>3, <2>2 DEF Topic, Event
      <3>2. q # p
        BY <1>4, <3>1 DEF Outstanding
      <3> QED
        BY <1>1, <1>3, <3>1, <3>2 DEF HandlersFresh
    <2> QED
      BY <2>1, <2>2
  <1>11. ASSUME NEW x \in Node, NEW q \in Peer PROVE Placed(x, q)' /\ OneInterface(x, q)'
    <2>1. Placed(x, q) /\ OneInterface(x, q)
      BY DEF Settled
    <2>3. CASE q # p
      <3>1. Ahead(x, q) => Ahead(x, q)'
        BY <1>3, <2>3 DEF Ahead
      <3>2. Announced(x, q) => Announced(x, q)'
        BY <1>3, <2>3 DEF Announced, Accepts
      <3>3. Removing(x, q) => Removing(x, q)'
        BY <1>3, <2>3 DEF Removing
      <3>4. Placed(x, q)'
        BY <1>3, <2>1, <2>3, <3>1, <3>2, <3>3 DEF Placed, Busy
      <3>5. OneInterface(x, q)'
        BY <1>3, <2>1, <2>3, <3>1 DEF OneInterface, Elsewhere
      <3> QED
        BY <3>4, <3>5
    <2>4. CASE q = p /\ x = n
      <3>1. ASSUME Shows(dev[n][p], db'[p]) PROVE Placed(x, q)'
        BY <1>3, <2>4, <3>1 DEF Placed
      <3>2. ASSUME CommitDelete(r) PROVE Placed(x, q)'
        <4>1. req[r].event = "deleted" /\ req'[r] = [req[r] EXCEPT !.pc = "publish"]
          BY <1>1, <1>2, <3>2 DEF Support, RequestShape, CommitDelete, TypeOK
        <4>2. /\ req'[r].pc = "publish" /\ req'[r].node = n /\ req'[r].peer = p
              /\ req'[r].event = "deleted"
          BY <1>2, <4>1 DEF ActiveReq
        <4> QED
          BY <2>4, <4>2 DEF Placed, Removing
      <3>3. Placed(x, q)'
        BY <1>5, <3>1, <3>2
      <3>4. OneInterface(x, q)'
        BY <1>3, <1>5, <2>4 DEF OneInterface, Elsewhere
      <3> QED
        BY <3>3, <3>4
    <2>5. CASE q = p /\ x # n
      <3>1. /\ p \in silent \/ Shows(dev[x][p], db[p])
            /\ p \in moved \/ Elsewhere(x, p)
        BY <1>2, <2>5, AloneElsewhere
      <3>2. ASSUME req'[r] # IdleReq PROVE Placed(x, q)'
        <4>1. Announced(x, q)'
          BY <1>7, <2>5, <3>2 DEF Announced, Active
        <4> QED
          BY <2>5, <4>1 DEF Placed
      <3>3. ASSUME req'[r] = IdleReq PROVE Placed(x, q)'
        <4>1. /\ db'[p] = db[p] \/ p \in silent'
              /\ p \in silent => p \in silent'
          BY <1>2, <1>6, <3>3 DEF ActiveReq, IdleReq
        <4> QED
          BY <1>3, <2>5, <3>1, <4>1 DEF Placed
      <3>4. OneInterface(x, q)'
        <4>1. CASE p \in moved
          BY <1>3, <2>5, <4>1 DEF OneInterface
        <4>2. CASE p \notin moved /\ db[p] # None /\ CommitSave(r)
          <5>1. db'[p] = row /\ row.iface = db[p].iface
            BY <1>1, <1>2, <1>4, <4>2 DEF CommitSave, Commit, TypeOK, Alone
          <5> QED
            BY <1>3, <2>5, <3>1, <4>2, <5>1 DEF OneInterface, Elsewhere
        <4>3. CASE p \notin moved /\ db[p] = None
          <5>1. Shows(dev[x][p], db[p])
            BY <3>1, <4>3 DEF SerialInv
          <5>2. \A i \in Iface : dev[x][p][i] = Off
            BY <4>3, <5>1 DEF Shows, Nowhere
          <5> QED
            BY <1>3, <2>5, <5>2 DEF OneInterface, Elsewhere
        <4>4. CASE CommitDelete(r)
          <5>1. db'[p] = None
            BY <1>1, <1>2, <4>4 DEF CommitDelete, Commit, TypeOK
          <5> QED
            BY <2>5, <5>1 DEF OneInterface, Elsewhere
        <4> QED
          BY <4>1, <4>2, <4>3, <4>4
      <3> QED
        BY <3>2, <3>3, <3>4
    <2> QED
      BY <2>3, <2>4, <2>5
  <1> QED
    BY <1>3, <1>9, <1>10, <1>11 DEF Settled

\* The announcement: one POST for every other node and the own queue.  The peer is
\* no longer the request's, so the work that begins for it disturbs nobody.
LEMMA SettledPublish ==
    ASSUME Support, SerialInv, Settled, NEW r \in Request, Publish(r)
    PROVE  Settled'
  <1> DEFINE n == req[r].node
             p == req[r].peer
             e == req[r].event
  <1>1. TypeOK /\ AloneOnPeers /\ HandlersFresh
    BY DEF Support, Settled
  <1>2. /\ Active(r) /\ req[r] \in ActiveReq /\ req[r].pc = "publish"
        /\ n \in Node /\ p \in Peer /\ e \in Event /\ e \in Topic /\ e # "local"
        /\ req[r].rekey \in SUBSET Peer
    BY <1>1, ActiveFields DEF Publish, ReqPc, Topic, Event
  <1>3. /\ UNCHANGED <<db, dev, hnd, answer, failed, up, due, todo, silent, moved>>
        /\ \A s \in Request : s # r => req'[s] = req[s]
        /\ req'[r] = AfterPublish(req[r])
    BY <1>1 DEF Publish, TypeOK
  <1>4. \A x \in Node, t \in Topic :
           queue'[x][t] = IF x = n /\ t = e THEN Append(queue[n][e], p) ELSE queue[x][t]
    BY <1>1, <1>2 DEF Publish, TypeOK
  <1>5. \A x \in Node, t \in Topic : \A q :
           Queued(queue'[x][t], q) <=> \/ Queued(queue[x][t], q)
                                       \/ x = n /\ t = e /\ q = p
    <2>1. queue[n][e] \in Seq(Peer)
      BY <1>1, <1>2 DEF TypeOK
    <2>2. \A q : Queued(Append(queue[n][e], p), q) <=> Queued(queue[n][e], q) \/ q = p
      BY <1>2, <2>1, QueuedAppend
    <2> QED
      BY <1>4, <2>2
  <1>6. \A m \in Msg : http'[m] = IF m.from = n /\ m.peer = p /\ m.event = e
                                    THEN http[m] + 1 ELSE http[m]
    BY DEF Publish
  <1>7. \A m \in Msg : http[m] \in Nat
    BY <1>1 DEF TypeOK
  <1>8. \A q : q # p => (Outstanding(q)' => Outstanding(q))
    BY <1>3, <1>5, <1>6 DEF Outstanding, Busy
  <1>9. Alone(r) /\ p \in OwnPeers(r) /\ (e = "deleted" <=> db[p] = None)
    BY <1>1, <1>2 DEF AloneOnPeers, Alone, OwnPeers
  <1>10. AloneOnPeers'
    <2>1. ASSUME Active(r)' PROVE Alone(r)'
      <3>1. /\ req'[r].pc = "device" /\ req'[r].event = "updated"
            /\ req'[r].peer \in req[r].rekey /\ req'[r].rekey = {}
        BY <1>3, <2>1 DEF Active, AfterPublish
      <3>2. OwnPeers(r)' = {req'[r].peer} /\ req'[r].peer # p /\ req'[r].peer \in OwnPeers(r)
        BY <1>9, <3>1 DEF OwnPeers, Alone
      <3>3. \A q \in OwnPeers(r)' : ~Outstanding(q)'
        BY <1>8, <1>9, <3>2 DEF Alone
      <3>4. db'[req'[r].peer] = None
        BY <1>3, <1>9, <3>1 DEF Alone
      <3> QED
        BY <3>1, <3>3, <3>4 DEF Alone
    <2> QED
      BY <1>1, <1>2, <1>3, <1>8, <1>9, <2>1, AloneStep
  <1>11. HandlersFresh'
    <2>1. \A x \in Node, t \in Topic : Busy(x, t)' => hnd'[x][t].row = db'[hnd'[x][t].peer]
      BY <1>1, <1>3 DEF HandlersFresh, Busy
    <2>2. \A x \in Node, q \in Peer : Queued(queue'[x]["deleted"], q) => db'[q] = None
      BY <1>1, <1>3, <1>5, <1>9 DEF HandlersFresh, Topic, Event
    <2> QED
      BY <2>1, <2>2 DEF HandlersFresh
  <1>12. ASSUME NEW x \in Node, NEW q \in Peer PROVE Placed(x, q)' /\ OneInterface(x, q)'
    <2>1. Placed(x, q) /\ OneInterface(x, q)
      BY DEF Settled
    <2>2. Ahead(x, q) => Ahead(x, q)'
      BY <1>2, <1>3 DEF Ahead
    <2>3. Announced(x, q) => Announced(x, q)'
      <3>1. CASE x # n /\ q = p
        <4>1. PICK m \in Msg : m.from = n /\ m.to = x /\ m.peer = p /\ m.event = e
          <5>1. [from |-> n, to |-> x, peer |-> p, event |-> e] \in Msg
            BY <1>2, <3>1 DEF Msg
          <5> QED
            BY <5>1
        <4>2. http'[m] > 0
          BY <1>6, <1>7, <4>1
        <4>3. Accepts(m)'
          BY <1>3, <1>9, <4>1 DEF Accepts
        <4> QED
          BY <3>1, <4>1, <4>2, <4>3 DEF Announced
      <3>2. CASE ~(x # n /\ q = p)
        <4>1. \A s \in Request : req[s].pc = "publish" /\ req[s].node # x /\ req[s].peer = q => s # r
          BY <3>2
        <4>2. \A m \in Msg : http[m] > 0 => http'[m] > 0
          BY <1>6, <1>7
        <4>3. Queued(queue[x]["local"], q) => Queued(queue'[x]["local"], q)
          BY <1>5 DEF Topic
        <4> QED
          BY <1>3, <4>1, <4>2, <4>3 DEF Announced, Accepts
      <3> QED
        BY <3>1, <3>2
    <2>4. Removing(x, q) => Removing(x, q)'
      <3>1. "deleted" \in Topic
        BY DEF Topic, Event
      <3>2. Queued(queue[x]["deleted"], q) => Queued(queue'[x]["deleted"], q)
        BY <1>5, <3>1
      <3>3. CASE x = n /\ q = p /\ e = "deleted"
        BY <1>5, <3>1, <3>3 DEF Removing
      <3>4. CASE ~(x = n /\ q = p /\ e = "deleted")
        BY <1>3, <3>2, <3>4 DEF Removing
      <3> QED
        BY <3>3, <3>4
    <2>5. Placed(x, q)'
      BY <1>3, <2>1, <2>2, <2>3, <2>4 DEF Placed, Busy
    <2>6. OneInterface(x, q)'
      BY <1>3, <2>1, <2>2 DEF OneInterface, Elsewhere
    <2> QED
      BY <2>5, <2>6
  <1> QED
    BY <1>3, <1>10, <1>11, <1>12 DEF Settled

\* Handlers take work, never add any; what they have read is still the row, so what
\* they write is right.
LEMMA SettledHandler ==
    ASSUME Support, Settled, Calm', NEW x \in Node, HandlerStep(x)
    PROVE  Settled'
  <1>1. TypeOK /\ AloneOnPeers /\ HandlersFresh
    BY DEF Support, Settled
  <1>2. /\ UNCHANGED <<db, req, http, answer, failed, up, due, todo, silent, moved>>
        /\ "local" \in Topic /\ "deleted" \in Topic
    BY DEF HandlerStep, ReadForSync, ReadFails, ApplyRead, ReadForLocal, HandleDeleted, Topic, Event
  <1>3. \A n \in Node, p \in Peer : Ahead(n, p) => Ahead(n, p)'
    BY <1>2 DEF Ahead
  <1>4. ASSUME NEW t \in Topic, Take(x, t), UNCHANGED dev, t # "deleted",
               \/ hnd' = [hnd EXCEPT ![x][t] = [peer |-> Head(queue[x][t]), row |-> db[Head(queue[x][t])]]]
               \/ /\ t # "local"
                  /\ hnd' = [hnd EXCEPT ![x][t] = IdleHnd]
        PROVE  Settled'
    <2> DEFINE q == queue[x][t]
               h == Head(q)
    <2>1. q \in Seq(Peer) /\ q # <<>> /\ ~Busy(x, t)
      BY <1>1, <1>4 DEF Take, TypeOK
    <2>2. h \in Peer /\ Queued(q, h)
      BY <2>1, QueuedTail
    <2>3. \A y \in Node, s \in Topic : queue'[y][s] = IF y = x /\ s = t THEN Tail(q) ELSE queue[y][s]
      BY <1>1, <1>4 DEF Take, TypeOK
    <2>4. \A p : /\ Queued(q, p) => p = h \/ Queued(Tail(q), p)
                 /\ Queued(Tail(q), p) => Queued(q, p)
      BY <2>1, QueuedTail
    <2>5. \A y \in Node, s \in Topic :
             /\ ~(y = x /\ s = t) => hnd'[y][s] = hnd[y][s]
             /\ y = x /\ s = t => \/ hnd'[y][s] = [peer |-> h, row |-> db[h]]
                                  \/ hnd'[y][s] = IdleHnd /\ t # "local"
      BY <1>1, <1>4 DEF TypeOK
    <2> HIDE DEF q, h
    <2>6. \A y \in Node, s \in Topic : Busy(y, s)' =>
             \/ Busy(y, s) /\ hnd'[y][s] = hnd[y][s]
             \/ y = x /\ s = t /\ hnd'[y][s].peer = h /\ hnd'[y][s].row = db[h]
      BY <2>5 DEF Busy
    <2>7. \A p \in Peer : Outstanding(p)' => Outstanding(p)
      <3>1. \A y \in Node, s \in Topic : \A p : Queued(queue'[y][s], p) => Queued(queue[y][s], p)
        BY <2>3, <2>4 DEF q
      <3>2. Outstanding(h)
        BY <2>2 DEF Outstanding, q
      <3>3. ASSUME NEW p \in Peer, p # h, Outstanding(p)'
            PROVE  Outstanding(p)
        <4>1. ASSUME NEW y \in Node, NEW s \in Topic,
                     Queued(queue'[y][s], p) \/ (Busy(y, s)' /\ hnd'[y][s].peer = p)
              PROVE  Queued(queue[y][s], p) \/ (Busy(y, s) /\ hnd[y][s].peer = p)
          BY <2>6, <3>1, <3>3, <4>1
        <4>2. ASSUME NEW m \in Msg, m.peer = p, http'[m] > 0 \/ answer'[m] > 0
              PROVE  Outstanding(p)
          BY <1>2, <4>2 DEF Outstanding
        <4> QED
          BY <1>2, <3>3, <4>1, <4>2 DEF Outstanding
      <3> QED
        BY <3>2, <3>3
    <2>8. AloneOnPeers'
      BY <1>1, <1>2, <1>4, <2>7, AloneKept
    <2>9. HandlersFresh'
      <3>1. \A y \in Node, s \in Topic : Busy(y, s)' => hnd'[y][s].row = db'[hnd'[y][s].peer]
        BY <1>1, <1>2, <2>6 DEF HandlersFresh
      <3>2. \A y \in Node, p \in Peer : Queued(queue'[y]["deleted"], p) => db'[p] = None
        BY <1>1, <1>2, <2>3, <2>4 DEF HandlersFresh, q
      <3> QED
        BY <3>1, <3>2 DEF HandlersFresh
    <2>10. ASSUME NEW n \in Node, NEW p \in Peer PROVE Placed(n, p)'
      <3>1. Placed(n, p)
        BY DEF Settled
      <3>a. Removing(n, p) => Removing(n, p)'
        BY <1>2, <1>4, <2>3 DEF Removing
      <3>2. CASE n = x /\ t = "local" /\ p = h
        <4>1. hnd'[n]["local"] = [peer |-> p, row |-> db[p]]
          BY <1>2, <2>5, <3>2
        <4>2. Busy(n, "local")' /\ hnd'[n]["local"].peer = p
          BY <4>1 DEF Busy, IdleHnd
        <4> QED
          BY <4>2 DEF Placed
      <3>3. CASE ~(n = x /\ t = "local" /\ p = h)
        <4>1. Queued(queue[n]["local"], p) => Queued(queue'[n]["local"], p)
          BY <1>2, <2>3, <2>4, <3>3 DEF q
        <4>2. Announced(n, p) => Announced(n, p)'
          BY <1>2, <4>1, AnnouncedKept
        <4>3. Busy(n, "local") => hnd'[n]["local"] = hnd[n]["local"]
          BY <1>2, <2>1, <2>5
        <4> QED
          BY <1>2, <1>3, <1>4, <3>1, <3>a, <4>2, <4>3 DEF Placed, Busy
      <3> QED
        BY <3>2, <3>3
    <2>11. ASSUME NEW n \in Node, NEW p \in Peer PROVE OneInterface(n, p)'
      <3>1. OneInterface(n, p)
        BY DEF Settled
      <3> QED
        BY <1>2, <1>3, <1>4, <3>1 DEF OneInterface, Elsewhere
    <2> QED
      BY <1>2, <2>8, <2>9, <2>10, <2>11 DEF Settled
  <1>5. ASSUME NEW t \in Topic, ReadForSync(x, t)
        PROVE  Settled'
    <2>1. Take(x, t) /\ UNCHANGED dev /\ t # "local" /\ t # "deleted"
      BY <1>5 DEF ReadForSync
    <2>2. \/ hnd' = [hnd EXCEPT ![x][t] = [peer |-> Head(queue[x][t]), row |-> db[Head(queue[x][t])]]]
          \/ hnd' = [hnd EXCEPT ![x][t] = IdleHnd]
      BY <1>5 DEF ReadForSync
    <2> QED
      BY <1>4, <2>1, <2>2
  <1>6. CASE ReadForLocal(x)
    <2>1. /\ Take(x, "local") /\ UNCHANGED dev
          /\ hnd' = [hnd EXCEPT ![x]["local"] = [peer |-> Head(queue[x]["local"]),
                                                 row |-> db[Head(queue[x]["local"])]]]
      BY <1>6 DEF ReadForLocal
    <2> QED
      BY <1>2, <1>4, <2>1
  <1>7. ASSUME NEW t \in Topic, ApplyRead(x, t)
        PROVE  Settled'
    <2> DEFINE h == hnd[x][t].peer
    <2>1. UNCHANGED queue /\ Busy(x, t) /\ h \in Peer
      BY <1>1, <1>7 DEF ApplyRead, Busy, TypeOK, Holding
    <2>2. Outstanding(h)
      BY <2>1 DEF Outstanding
    <2>3. hnd[x][t].row = db[h]
      BY <1>1, <2>1 DEF HandlersFresh
    <2>4. \A y \in Node, s \in Topic : hnd'[y][s] = IF y = x /\ s = t THEN IdleHnd ELSE hnd[y][s]
      BY <1>1, <1>7 DEF ApplyRead, TypeOK
    <2>5. \A y \in Node, q \in Peer :
             dev'[y][q] = IF y = x /\ q = h THEN OnDevice(dev[y][q], db[h]) ELSE dev[y][q]
      BY <1>1, <1>7, <2>1, <2>3 DEF ApplyRead, TypeOK
    <2>6. \A y \in Node, s \in Topic : Busy(y, s)' => Busy(y, s) /\ hnd'[y][s] = hnd[y][s]
      BY <2>4 DEF Busy
    <2>7. \A p \in Peer : Outstanding(p)' => Outstanding(p)
      BY <1>2, <2>1, <2>6 DEF Outstanding
    <2>8. AloneOnPeers'
      BY <1>1, <1>2, <2>2, <2>5, <2>7, AloneKept
    <2>9. HandlersFresh'
      BY <1>1, <1>2, <2>1, <2>6 DEF HandlersFresh
    <2>10. ASSUME NEW n \in Node, NEW p \in Peer PROVE Placed(n, p)'
      <3>1. Placed(n, p)
        BY DEF Settled
      <3>2. CASE n = x /\ p = h
        <4>1. dev[n][p] \in Place /\ db[p] \in PeerRow
          BY <1>1 DEF TypeOK
        <4>2. Shows(dev'[n][p], db[p])
          BY <2>5, <3>2, <4>1, ShowsSaved
        <4> QED
          BY <1>2, <4>2 DEF Placed
      <3>3. CASE ~(n = x /\ p = h)
        <4>1. Announced(n, p) => Announced(n, p)'
          BY <1>2, <2>1, AnnouncedKept
        <4>2. Busy(n, "local") /\ hnd[n]["local"].peer = p => hnd'[n]["local"] = hnd[n]["local"]
          BY <1>2, <2>4, <3>3
        <4>3. Removing(n, p) => Removing(n, p)'
          BY <1>2, <2>1 DEF Removing
        <4> QED
          BY <1>2, <1>3, <2>5, <3>1, <3>3, <4>1, <4>2, <4>3 DEF Placed, Busy
      <3> QED
        BY <3>2, <3>3
    <2>11. ASSUME NEW n \in Node, NEW p \in Peer PROVE OneInterface(n, p)'
      <3>1. OneInterface(n, p)
        BY DEF Settled
      <3>2. \A i \in Iface : db[p] # None /\ i # db[p].iface => dev'[n][p][i] = dev[n][p][i]
        <4> SUFFICES ASSUME NEW i \in Iface, db[p] # None, i # db[p].iface, n = x, p = h
                     PROVE  dev'[n][p][i] = dev[n][p][i]
          BY <2>5
        <4>1. dev[n][p] \in [Iface -> DevPeer]
          BY <1>1 DEF TypeOK, Place
        <4>2. dev'[n][p] = [dev[n][p] EXCEPT ![db[p].iface] = Merge(@, db[p])]
          BY <2>5 DEF OnDevice
        <4> QED
          BY <4>1, <4>2
      <3> QED
        BY <1>2, <1>3, <3>1, <3>2 DEF OneInterface, Elsewhere
    <2> QED
      BY <1>2, <2>8, <2>9, <2>10, <2>11 DEF Settled
  <1>8. CASE HandleDeleted(x)
    <2> DEFINE q == queue[x]["deleted"]
               h == Head(q)
    <2>1. q \in Seq(Peer) /\ q # <<>> /\ UNCHANGED hnd
      BY <1>1, <1>2, <1>8 DEF HandleDeleted, Take, TypeOK
    <2>2. h \in Peer /\ Queued(q, h)
      BY <2>1, QueuedTail
    <2>3. \A y \in Node, s \in Topic :
             queue'[y][s] = IF y = x /\ s = "deleted" THEN Tail(q) ELSE queue[y][s]
      BY <1>1, <1>2, <1>8 DEF HandleDeleted, Take, TypeOK
    <2>4. \A p : /\ Queued(Tail(q), p) => Queued(q, p)
                 /\ Queued(q, p) => p = h \/ Queued(Tail(q), p)
      BY <2>1, QueuedTail
    <2>5. Outstanding(h) /\ db[h] = None
      BY <1>1, <1>2, <2>2 DEF Outstanding, HandlersFresh
    <2>6. \A y \in Node, p \in Peer : dev'[y][p] = IF y = x /\ p = h THEN Nowhere ELSE dev[y][p]
      BY <1>1, <1>8, <2>2 DEF HandleDeleted, TypeOK
    <2> HIDE DEF q, h
    <2>7. \A y \in Node, s \in Topic : \A p : Queued(queue'[y][s], p) => Queued(queue[y][s], p)
      BY <2>3, <2>4 DEF q
    <2>8. \A p \in Peer : Outstanding(p)' => Outstanding(p)
      BY <1>2, <2>1, <2>7 DEF Outstanding, Busy
    <2>9. AloneOnPeers'
      BY <1>1, <1>2, <2>5, <2>6, <2>8, AloneKept
    <2>10. HandlersFresh'
      BY <1>1, <1>2, <2>1, <2>7 DEF HandlersFresh, Busy
    <2>11. ASSUME NEW n \in Node, NEW p \in Peer PROVE Placed(n, p)' /\ OneInterface(n, p)'
      <3>1. Placed(n, p) /\ OneInterface(n, p)
        BY DEF Settled
      <3>2. CASE n = x /\ p = h
        <4>1. Shows(dev'[n][p], db'[p])
          BY <1>2, <2>5, <2>6, <3>2 DEF Shows
        <4>2. db'[p] = None
          BY <1>2, <2>5, <3>2
        <4> QED
          BY <4>1, <4>2 DEF Placed, OneInterface, Elsewhere
      <3>3. CASE ~(n = x /\ p = h)
        <4>1. queue'[n]["local"] = queue[n]["local"]
          BY <1>2, <2>3
        <4>2. Announced(n, p) => Announced(n, p)'
          BY <1>2, <4>1, AnnouncedKept
        <4>3. Removing(n, p) => Removing(n, p)'
          BY <1>2, <2>3, <2>4, <3>3 DEF Removing, q
        <4>4. dev'[n][p] = dev[n][p]
          BY <2>6, <3>3
        <4>5. Placed(n, p)'
          BY <1>2, <1>3, <2>1, <3>1, <4>2, <4>3, <4>4 DEF Placed, Busy
        <4>6. OneInterface(n, p)'
          BY <1>2, <1>3, <3>1, <4>4 DEF OneInterface, Elsewhere
        <4> QED
          BY <4>5, <4>6
      <3> QED
        BY <3>2, <3>3
    <2> QED
      BY <1>2, <2>9, <2>10, <2>11 DEF Settled
  <1>9. ~\E t \in Topic : ReadFails(x, t)
    BY <1>1 DEF ReadFails, Calm, TypeOK
  <1> QED
    BY <1>5, <1>6, <1>7, <1>8, <1>9 DEF HandlerStep

\* A handled POST becomes an entry of the receiver's local queue.  As long as nothing
\* fails no POST is dropped and no answer lost.
LEMMA SettledDeliver ==
    ASSUME Support, Settled, Calm', NEW m \in Msg, Deliver(m) \/ Answered(m)
    PROVE  Settled'
  <1>1. /\ TypeOK /\ AloneOnPeers /\ HandlersFresh
        /\ m.to \in Node /\ m.peer \in Peer /\ "local" \in Topic /\ up[m.to] = "up" /\ failed = {}
    BY DEF Support, Settled, Msg, Topic
  <1>2. HandleSyncPost(m) \/ AnswerOk(m)
    <2>1. ~Fault(m)
      BY <1>1 DEF Fault, Calm, TypeOK
    <2>2. ~HandleSyncPostUnread(m)
      BY <1>1 DEF HandleSyncPostUnread, Calm, TypeOK
    <2> QED
      BY <1>1, <2>1, <2>2 DEF Deliver, Answered, SendFail, SendSkip, AnswerLost
  <1>3. /\ UNCHANGED <<db, dev, req, hnd, up, due, todo, silent, moved>> /\ failed' = {}
    BY <1>1, <1>2 DEF HandleSyncPost, AnswerOk
  <1>4. \A n \in Node, p \in Peer :
           /\ Ahead(n, p) => Ahead(n, p)'
           /\ OneInterface(n, p)'
    BY <1>3 DEF Ahead, OneInterface, Elsewhere, Settled
  <1>5. CASE HandleSyncPost(m)
    <2> DEFINE q == queue[m.to]["local"]
    <2>1. q \in Seq(Peer)
      BY <1>1 DEF TypeOK
    <2>2. \A p : Queued(Append(q, m.peer), p) <=> Queued(q, p) \/ p = m.peer
      <3> HIDE DEF q
      <3> QED
        BY <1>1, <2>1, QueuedAppend
    <2>3. \A n \in Node, t \in Topic :
             queue'[n][t] = IF n = m.to /\ t = "local" /\ Accepts(m)
                              THEN Append(q, m.peer) ELSE queue[n][t]
      <3>1. CASE Accepts(m)
        <4>1. queue' = [queue EXCEPT ![m.to]["local"] = Append(q, m.peer)]
          BY <1>5, <3>1 DEF HandleSyncPost
        <4> HIDE DEF q
        <4> QED
          BY <1>1, <3>1, <4>1 DEF TypeOK
      <3>2. CASE ~Accepts(m)
        BY <1>5, <3>2 DEF HandleSyncPost
      <3> QED
        BY <3>1, <3>2
    <2>4. /\ http[m] > 0
          /\ \A k \in Msg : k # m => http'[k] = http[k] /\ answer'[k] = answer[k]
      BY <1>1, <1>5 DEF HandleSyncPost, TypeOK
    <2>5. \A n \in Node, t \in Topic : \A p :
             Queued(queue'[n][t], p) <=> \/ Queued(queue[n][t], p)
                                         \/ n = m.to /\ t = "local" /\ Accepts(m) /\ p = m.peer
      BY <2>2, <2>3
    <2>6. \A p \in Peer : Outstanding(p)' => Outstanding(p)
      <3>1. Outstanding(m.peer)
        BY <2>4 DEF Outstanding
      <3>2. ASSUME NEW p \in Peer, p # m.peer, Outstanding(p)'
            PROVE  Outstanding(p)
        BY <1>3, <2>4, <2>5, <3>2 DEF Outstanding, Busy
      <3> QED
        BY <3>1, <3>2
    <2>7. AloneOnPeers'
      BY <1>1, <1>3, <2>6, AloneKept
    <2>8. HandlersFresh'
      BY <1>1, <1>3, <2>5 DEF HandlersFresh, Busy, Topic, Event
    <2>9. ASSUME NEW n \in Node, NEW p \in Peer PROVE Placed(n, p)'
      <3>1. Placed(n, p)
        BY DEF Settled
      <3>2. Announced(n, p) => Announced(n, p)'
        BY <1>1, <1>3, <2>4, <2>5 DEF Announced, Accepts
      <3>3. Removing(n, p) => Removing(n, p)'
        BY <1>3, <2>5 DEF Removing, Topic, Event
      <3> QED
        BY <1>3, <1>4, <3>1, <3>2, <3>3 DEF Placed, Busy
    <2> QED
      BY <1>3, <1>4, <2>7, <2>8, <2>9 DEF Settled
  <1>6. CASE AnswerOk(m)
    <2>1. UNCHANGED <<queue, http>> /\ \A k \in Msg : answer'[k] > 0 => answer[k] > 0
      BY <1>1, <1>6 DEF AnswerOk, TypeOK
    <2>2. \A p \in Peer : Outstanding(p)' => Outstanding(p)
      BY <1>3, <2>1 DEF Outstanding, Busy
    <2>3. AloneOnPeers'
      BY <1>1, <1>3, <2>2, AloneKept
    <2>4. HandlersFresh'
      BY <1>1, <1>3, <2>1 DEF HandlersFresh, Busy
    <2>5. \A n \in Node, p \in Peer : Placed(n, p)'
      <3>1. \A n \in Node, p \in Peer : /\ Announced(n, p) => Announced(n, p)'
                                        /\ Removing(n, p) => Removing(n, p)'
        BY <1>3, <2>1, AnnouncedKept DEF Removing
      <3> QED
        BY <1>3, <1>4, <3>1 DEF Placed, Busy, Settled
    <2> QED
      BY <1>3, <1>4, <2>3, <2>4, <2>5 DEF Settled
  <1> QED
    BY <1>2, <1>5, <1>6

\* Nothing is under way at the start and every device shows the table.
LEMMA InitSettled == Init => SettledInv
  <1> SUFFICES ASSUME Init PROVE Settled
    BY DEF SettledInv
  <1>1. /\ \A r \in Request : ~Active(r)
        /\ \A n \in Node, t \in Topic : ~Busy(n, t) /\ queue[n][t] = <<>>
        /\ \A n \in Node, p \in Peer : dev[n][p] = OnDevice(Nowhere, db[p])
    BY DEF Init, Active, Busy
  <1>2. HandlersFresh
    BY <1>1, QueuedEmpty DEF HandlersFresh, Topic, Event
  <1>3. ASSUME NEW n \in Node, NEW p \in Peer PROVE Placed(n, p) /\ OneInterface(n, p)
    <2>1. db[p] \in PeerRow
      BY InitType DEF TypeOK
    <2>2. Shows(dev[n][p], db[p])
      BY <1>1, <2>1, NowhereType, ShowsSaved
    <2>3. Elsewhere(n, p)
      <3> SUFFICES ASSUME db[p] # None, NEW i \in Iface, i # db[p].iface
                   PROVE  dev[n][p][i] = Off
        BY DEF Elsewhere
      <3>1. dev[n][p] = [Nowhere EXCEPT ![db[p].iface] = Merge(@, db[p])]
        BY <1>1 DEF OnDevice
      <3> QED
        BY <3>1 DEF Nowhere
    <2> QED
      BY <2>2, <2>3 DEF Placed, OneInterface
  <1> QED
    BY <1>1, <1>2, <1>3 DEF Init, Settled, AloneOnPeers

\* A step after which nothing has failed comes after a state in which nothing had.
LEMMA NextCalm ==
    ASSUME TypeOK, [Next]_vars, Calm'
    PROVE  Calm
  <1>1. /\ faults \in Nat /\ crashes \in Nat /\ faults' = 0 /\ crashes' = 0
    BY DEF TypeOK, Calm
  <1>2. faults' >= faults /\ crashes' >= crashes
    <2>1. CASE RequestStart
      BY <1>1, <2>1, StartFrame
    <2>2. CASE \E r \in Request : RequestStep(r) \/ AbortSave(r) \/ AbortDelete(r)
      <3>1. PICK r \in Request : RequestStep(r) \/ AbortSave(r) \/ AbortDelete(r)
        BY <2>2
      <3>2. CASE AbortSave(r) \/ AbortDelete(r)
        BY <1>1, <3>2 DEF AbortSave, AbortDelete
      <3>3. CASE RequestStep(r)
        <4>1. UNCHANGED <<faults, crashes>>
          BY <3>3 DEF RequestStep, SaveDevice, CommitSave, DeleteDevice, CommitDelete, Publish
        <4> QED
          BY <1>1, <4>1
      <3> QED
        BY <3>1, <3>2, <3>3
    <2>3. CASE \E n \in Node : HandlerStep(n)
      BY <1>1, <2>3 DEF HandlerStep, ReadForSync, ReadFails, ApplyRead, ReadForLocal, HandleDeleted
    <2>4. CASE \E m \in Msg : Deliver(m) \/ Answered(m)
      BY <1>1, <2>4 DEF Deliver, Answered, HandleSyncPost, HandleSyncPostUnread, SendFail,
                        SendSkip, AnswerOk, AnswerLost, Fault
    <2>5. CASE \E n \in Node : Crash(n)
      BY <1>1, <2>5 DEF Crash
    <2>6. CASE \E n \in Node : Restart(n) \/ BackgroundRestore(n)
      <3>1. UNCHANGED <<faults, crashes>>
        BY <2>6 DEF Restart, StartRestore, FinishRestore, BootPlain, BackgroundRestore,
                    StartSync, SyncPeer
      <3> QED
        BY <1>1, <3>1
    <2>7. CASE UNCHANGED vars
      BY <1>1, <2>7 DEF vars
    <2> QED
      BY <2>1, <2>2, <2>3, <2>4, <2>5, <2>6, <2>7 DEF Next, Environment
  <1> QED
    BY <1>1, <1>2 DEF Calm

LEMMA NextSettled ==
    ASSUME Serially, SettledInv, [Next]_vars
    PROVE  SettledInv'
  <1> SUFFICES ASSUME Calm', pace' = "settled" PROVE Settled'
    BY DEF SettledInv
  <1>1. Support /\ TypeOK /\ SerialInv /\ Settled
    <2>1. Support /\ TypeOK
      BY DEF Serially, Support
    <2>2. Calm /\ pace = "settled"
      BY <2>1, NextCalm, PaceSettled
    <2> QED
      BY <2>1, <2>2 DEF Serially, SettledInv
  <1>2. CASE RequestStart
    BY <1>1, <1>2, SettledStart
  <1>3. CASE \E r \in Request : RequestStep(r)
    BY <1>1, <1>3, SettledDevice, SettledCommit, SettledPublish DEF RequestStep
  <1>4. CASE \E n \in Node : HandlerStep(n)
    BY <1>1, <1>4, SettledHandler
  <1>5. CASE \E m \in Msg : Deliver(m) \/ Answered(m)
    BY <1>1, <1>5, SettledDeliver
  <1>6. ~\E r \in Request : AbortSave(r) \/ AbortDelete(r)
    BY <1>1 DEF AbortSave, AbortDelete, Calm, TypeOK
  <1>7. ~\E n \in Node : Crash(n)
    BY <1>1 DEF Crash, Calm, TypeOK
  <1>8. ~\E n \in Node : Restart(n) \/ BackgroundRestore(n)
    BY <1>1 DEF Settled, Restart, StartRestore, FinishRestore, BootPlain, BackgroundRestore,
                StartSync, SyncPeer
  <1>9. CASE UNCHANGED vars
    <2>1. \A p : Outstanding(p)' <=> Outstanding(p)
      BY <1>9, OutstandingKept DEF vars
    <2>2. AloneOnPeers'
      BY <1>1, <1>9, <2>1, AloneKept DEF vars, Settled
    <2> QED
      BY <1>1, <1>9, <2>2 DEF vars, Settled, HandlersFresh, Busy, Placed, Ahead, Announced,
         Accepts, Removing, OneInterface, Elsewhere
  <1> QED
    BY <1>2, <1>3, <1>4, <1>5, <1>6, <1>7, <1>8, <1>9 DEF Next, Environment

\* For every cluster: if every change waits until the last one of its peers is handled
\* everywhere, then as long as no send, read, transaction or node has failed, a cluster
\* with nothing left to do has the rows of the database on every device, also on those
\* of the nodes that served the requests: event-driven synchronisation needs no periodic
\* full one, except for a peer that was moved to another interface.
THEOREM AgreeWhenQuietHolds == Spec => []AgreeWhenQuiet
  <1>1. Init => Serially /\ SettledInv
    BY SeriallyInductive, InitSettled
  <1>2. Serially /\ SettledInv /\ [Next]_vars => (Serially /\ SettledInv)'
    BY SeriallyInductive, NextSettled
  <1>3. Serially /\ SettledInv => AgreeWhenQuiet
    <2> SUFFICES ASSUME Support, SerialInv, Settled, Quiescent, NEW n \in Node, NEW p \in Peer
                 PROVE  /\ p \in silent \cap moved \/ Shows(dev[n][p], db[p])
                        /\ p \in moved \/ Elsewhere(n, p)
      BY DEF Serially, SettledInv, AgreeWhenQuiet
    <2>1. \A r \in Request : req[r] = IdleReq
      BY DEF Quiescent, Active
    <2>2. ~Outstanding(p) /\ "local" \in Topic /\ "deleted" \in Topic
      BY DEF Quiescent, Topic, Event
    <2>3. ~Ahead(n, p)
      BY <2>1 DEF Ahead, IdleReq
    <2>4. ~Announced(n, p) /\ ~Removing(n, p)
      BY <2>1, <2>2 DEF Announced, Removing, Outstanding, IdleReq
    <2>5. ~(Busy(n, "local") /\ hnd[n]["local"].peer = p)
      BY <2>2 DEF Outstanding
    <2> QED
      BY <2>3, <2>4, <2>5 DEF Settled, Placed, OneInterface, SerialInv
  <1> QED
    BY <1>1, <1>2, <1>3, PTL DEF Spec

=============================================================================
