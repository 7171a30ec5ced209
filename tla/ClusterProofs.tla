---------------------------- MODULE ClusterProofs ----------------------------
(***************************************************************************)
(* Proofs about the two protocols by which the portal servers of a cluster *)
(* share one row of the database: the lease lock of the synchronisation,   *)
(* and the connection status of a peer.                                    *)
(***************************************************************************)
EXTENDS SyncLock, PeerStatus, TLAPS

----------------------------------------------------------------------------
(* The connection status, for any set of nodes and without bounds on       *)
(* moves, deletions and faults.                                            *)

USE NobodyAssumption, BoundsAssumption

\* A row of peer_status is not its absence.
LEMMA StatusNotNone == \A s \in Status : s # NoStatus
<1> SUFFICES ASSUME NEW s \in Status, s = NoStatus PROVE FALSE
  OBVIOUS
<1>1. DOMAIN s = {"connected", "owner"}
  BY DEF Status
<1>2. DOMAIN NoStatus = {"row"}
  BY DEF NoStatus
<1>3. "connected" # "row"
  OBVIOUS
<1>4. QED
  BY <1>1, <1>2, <1>3

\* Work in progress is not idleness.
LEMMA WorkNotIdle == \A j \in Job \cup PingJob : j # Idle
<1> SUFFICES ASSUME NEW j \in Job \cup PingJob, j = Idle PROVE FALSE
  OBVIOUS
<1>1. DOMAIN j = {"do", "valid"}
  BY DEF Job, PingJob
<1>2. DOMAIN Idle = {"do"}
  BY DEF Idle
<1>3. "valid" # "do"
  OBVIOUS
<1>4. QED
  BY <1>1, <1>2, <1>3

\* A collector that claims, updates or marks is at work.
LEMMA Busy == \A n \in Node : job[n].do \in {"claim", "update", "mark"} => job[n] # Idle
<1>1. Idle.do = "idle"
  BY DEF Idle
<1>2. QED
  BY <1>1

\* The row getOrCreatePeerStatus works on.
LEMMA CurrentType == TypeOK => Current \in Status
BY StatusNotNone DEF TypeOK, Current, Offline, Status

\* What UpdatePeerStatus makes of a row: it stays a row; a connected row of another
\* node is left alone; every other row gets the requested state, and without
\* connection it loses its owner.
LEMMA UpdateEffect ==
  ASSUME NEW n \in Node, NEW old \in Status, NEW c,
         NEW new, new = UpdatePeerStatus(n, old, c)
  PROVE  /\ new \in Status
         /\ old.connected /\ old.owner \notin {Nobody, n} => new = old
         /\ ~(old.connected /\ old.owner \notin {Nobody, n}) =>
              IF c THEN new.connected /\ new.owner = old.owner ELSE new = Offline
<1>1. CASE old.connected /\ old.owner \notin {Nobody, n}
  BY <1>1 DEF UpdatePeerStatus
<1>2. CASE ~(old.connected /\ old.owner \notin {Nobody, n}) /\ c
  <2>1. new = [old EXCEPT !.connected = TRUE]
    BY <1>2 DEF UpdatePeerStatus
  <2>2. QED
    BY <1>2, <2>1 DEF Status
<1>3. CASE ~(old.connected /\ old.owner \notin {Nobody, n}) /\ ~c
  <2>1. new = Offline
    BY <1>3 DEF UpdatePeerStatus
  <2>2. Offline \in Status
    BY DEF Status, Offline
  <2>3. QED
    BY <1>3, <2>1, <2>2
<1>4. QED
  BY <1>1, <1>2, <1>3

\* The work on a handshake that has grown old is still work.
LEMMA ExpiredType ==
  ASSUME NEW j, j \in Job \cup PingJob \cup {Idle}
  PROVE  /\ j \in Job \cup {Idle} => Expired(j) \in Job \cup {Idle}
         /\ j \in PingJob \cup {Idle} => Expired(j) \in PingJob \cup {Idle}
         /\ Expired(j) # Idle => j # Idle /\ Expired(j).do = j.do
<1>1. CASE j = Idle
  BY <1>1 DEF Expired
<1>2. CASE j # Idle
  <2>1. j \in Job \cup PingJob
    BY <1>2
  <2>2. Expired(j) = [j EXCEPT !.valid = FALSE]
    BY <1>2 DEF Expired
  <2>3. QED
    BY <1>2, <2>1, <2>2 DEF Job, PingJob
<1>3. QED
  BY <1>1, <1>2

\* The initial state satisfies the invariant.
LEMMA InitStatusInv == Init => StatusInv
<1> SUFFICES ASSUME Init PROVE StatusInv
  OBVIOUS
<1>1. Offline \in Status /\ Offline.owner = Nobody /\ ~Offline.connected
  BY DEF Offline, Status
<1>2. TypeOK
  BY <1>1 DEF Init, TypeOK
<1>3. StatusHasPeer /\ OwnerWatches
  BY <1>1 DEF Init, StatusHasPeer, OwnerWatches
<1>4. WorkInv
  BY DEF Init, WorkInv
<1>5. QED
  BY <1>2, <1>3, <1>4 DEF StatusInv

\* The transaction of UpdatePeerStatus writes a row, for an existing peer only.
LEMMA WriteEffect ==
  ASSUME TypeOK, NEW n \in Node, NEW c, WriteStatus(n, c)
  PROVE  /\ status' \in Status \cup {NoStatus}
         /\ exists => status' = UpdatePeerStatus(n, Current, c)
         /\ ~exists => status' = status
<1>1. Current \in Status
  BY CurrentType
<1>2. UpdatePeerStatus(n, Current, c) \in Status
  BY <1>1, UpdateEffect
<1>3. QED
  BY <1>2 DEF WriteStatus, TypeOK

\* Every step keeps the type of the state.
LEMMA TypeStep == TypeOK /\ [Next]_vars => TypeOK'
<1> SUFFICES ASSUME TypeOK, [Next]_vars PROVE TypeOK'
  OBVIOUS
<1>1. CASE UNCHANGED vars
  BY <1>1 DEF vars, TypeOK
<1>2. CASE Disconnect
  BY <1>2 DEF Disconnect, TypeOK
<1>3. CASE CreatePeer
  BY <1>3, CurrentType DEF CreatePeer, TypeOK
<1>4. ASSUME NEW n \in Node, Connect(n) PROVE TypeOK'
  BY <1>4 DEF Connect, TypeOK
<1>5. ASSUME NEW n \in Node, DeletePeer(n) \/ DeletePeersByIDs(n) PROVE TypeOK'
  <2>1. exists' \in BOOLEAN /\ usePing' \in BOOLEAN /\ disturbed' \in BOOLEAN
    BY <1>5 DEF DeletePeer, DeletePeersByIDs, TypeOK
  <2>2. fresh' \in SUBSET Node /\ purge' \in SUBSET Node /\ forget' \in SUBSET Node
    BY <1>5 DEF DeletePeer, DeletePeersByIDs, TypeOK
  <2>3. QED
    BY <1>5, <2>1, <2>2 DEF DeletePeer, DeletePeersByIDs, TypeOK
<1>6. ASSUME NEW n \in Node, HandlePeerDeleteEvent(n) \/ HandlePeersExpiredRemovedLocal(n)
      PROVE  TypeOK'
  BY <1>6 DEF HandlePeerDeleteEvent, HandlePeersExpiredRemovedLocal, TypeOK
<1>7. ASSUME NEW n \in Node, StatusUpdateFails(n) \/ PingUpdateFails(n) \/ RestartNode(n)
      PROVE  TypeOK'
  <2>1. CASE StatusUpdateFails(n)
    BY <2>1 DEF StatusUpdateFails, Finish, TypeOK
  <2>2. CASE PingUpdateFails(n)
    BY <2>2 DEF PingUpdateFails, TypeOK
  <2>3. CASE RestartNode(n)
    BY <2>3 DEF RestartNode, TypeOK
  <2>4. QED
    BY <1>7, <2>1, <2>2, <2>3
<1>8. ASSUME NEW n \in Node, Age(n) PROVE TypeOK'
  <2>1. Expired(job[n]) \in Job \cup {Idle} /\ Expired(ping[n]) \in PingJob \cup {Idle}
    BY ExpiredType DEF TypeOK
  <2>2. QED
    BY <1>8, <2>1 DEF Age, TypeOK
<1>9. ASSUME NEW n \in Node, CollectPeerData(n) PROVE TypeOK'
  <2>1. job' \in [Node -> Job \cup {Idle}]
    <3>1. PICK j : j = [do |-> IF n \notin fresh THEN "mark"
                               ELSE IF n \in cache THEN "update" ELSE "claim",
                        valid |-> n \in fresh]
      OBVIOUS
    <3>2. j \in Job
      <4>1. PICK d : d = IF n \notin fresh THEN "mark"
                         ELSE IF n \in cache THEN "update" ELSE "claim"
        OBVIOUS
      <4>2. PICK v : v = (n \in fresh)
        OBVIOUS
      <4>3. d \in {"claim", "update", "mark"}
        BY <4>1
      <4>4. v \in BOOLEAN
        BY <4>2, SMT
      <4>5. j = [do |-> d, valid |-> v]
        BY <3>1, <4>1, <4>2, Zenon
      <4>6. QED
        BY <4>3, <4>4, <4>5 DEF Job
    <3>3. exists => job' = [job EXCEPT ![n] = j]
      BY <1>9, <3>1 DEF CollectPeerData
    <3>4. ~exists => job' = job
      BY <1>9 DEF CollectPeerData
    <3>5. QED
      BY <3>2, <3>3, <3>4 DEF TypeOK
  <2>2. cache' \in SUBSET Node
    BY <1>9 DEF CollectPeerData, TypeOK
  <2>3. QED
    BY <1>9, <2>1, <2>2 DEF CollectPeerData, TypeOK
<1>10. ASSUME NEW n \in Node,
              ClaimPeerStatus(n) \/ UpdateFromWireGuard(n) \/ MarkPeerDisconnected(n)
       PROVE  TypeOK'
  <2>1. job' \in [Node -> Job \cup {Idle}] /\ cache' \in SUBSET Node
    BY <1>10 DEF ClaimPeerStatus, UpdateFromWireGuard, MarkPeerDisconnected, Finish, TypeOK
  <2>2. status' \in Status \cup {NoStatus}
    <3>1. CASE ClaimPeerStatus(n)
      <4>1. job[n] \in Job
        BY <3>1 DEF ClaimPeerStatus, TypeOK, Idle
      <4>2. [connected |-> job[n].valid, owner |-> n] \in Status
        BY <4>1 DEF Job, Status
      <4>3. QED
        BY <3>1, <4>2 DEF ClaimPeerStatus, TypeOK
    <3>2. CASE UpdateFromWireGuard(n) \/ MarkPeerDisconnected(n)
      BY <3>2, WriteEffect DEF UpdateFromWireGuard, MarkPeerDisconnected
    <3>3. QED
      BY <1>10, <3>1, <3>2
  <2>3. disturbed' \in BOOLEAN
    BY <1>10 DEF ClaimPeerStatus, UpdateFromWireGuard, MarkPeerDisconnected, TypeOK
  <2>4. QED
    BY <1>10, <2>1, <2>2, <2>3
       DEF ClaimPeerStatus, UpdateFromWireGuard, MarkPeerDisconnected, Finish, TypeOK
<1>11. ASSUME NEW n \in Node, EnqueuePingCheck(n) PROVE TypeOK'
  <2>1. ping' \in [Node -> PingJob \cup {Idle}]
    BY <1>11 DEF EnqueuePingCheck, TypeOK, PingJob
  <2>2. QED
    BY <1>11, <2>1 DEF EnqueuePingCheck, TypeOK
<1>12. ASSUME NEW n \in Node, PingWorker(n) PROVE TypeOK'
  <2>1. status' \in Status \cup {NoStatus}
    BY <1>12, WriteEffect DEF PingWorker
  <2>2. QED
    BY <1>12, <2>1 DEF PingWorker, TypeOK
<1>13. ASSUME NEW n \in Node, UpdatePeerMetrics(n) PROVE TypeOK'
  <2>1. status' \in Status \cup {NoStatus}
    BY <1>13, WriteEffect DEF UpdatePeerMetrics
  <2>2. QED
    BY <1>13, <2>1 DEF UpdatePeerMetrics, TypeOK
<1>14. QED
  BY <1>1, <1>2, <1>3, <1>4, <1>5, <1>6, <1>7, <1>8, <1>9, <1>10, <1>11, <1>12, <1>13
     DEF Next, Environment, CollectorStep, PingStep

\* A status keeps its peer: rows are written for existing peers or replace a row,
\* and every deletion of the peer takes the row with it.
LEMMA PeerStep ==
  ASSUME TypeOK, StatusHasPeer, [Next]_vars
  PROVE  StatusHasPeer'
<1>1. CASE UNCHANGED vars
  BY <1>1 DEF vars, StatusHasPeer
<1>2. CASE Disconnect \/ CreatePeer
  BY <1>2 DEF Disconnect, CreatePeer, StatusHasPeer
<1>3. ASSUME NEW n \in Node,
             \/ Connect(n) \/ Age(n) \/ StatusUpdateFails(n) \/ PingUpdateFails(n)
             \/ RestartNode(n) \/ HandlePeersExpiredRemovedLocal(n)
             \/ CollectPeerData(n) \/ EnqueuePingCheck(n)
      PROVE  StatusHasPeer'
  BY <1>3 DEF Connect, Age, StatusUpdateFails, Finish, PingUpdateFails, RestartNode,
     HandlePeersExpiredRemovedLocal, CollectPeerData, EnqueuePingCheck, StatusHasPeer
<1>4. ASSUME NEW n \in Node,
             DeletePeer(n) \/ DeletePeersByIDs(n) \/ HandlePeerDeleteEvent(n)
      PROVE  StatusHasPeer'
  BY <1>4 DEF DeletePeer, DeletePeersByIDs, HandlePeerDeleteEvent, StatusHasPeer
<1>5. ASSUME NEW n \in Node, ClaimPeerStatus(n) PROVE StatusHasPeer'
  BY <1>5 DEF ClaimPeerStatus, Finish, StatusHasPeer
<1>6. ASSUME NEW n \in Node,
             \/ UpdateFromWireGuard(n) \/ MarkPeerDisconnected(n)
             \/ PingWorker(n) \/ UpdatePeerMetrics(n)
      PROVE  StatusHasPeer'
  BY <1>6 DEF UpdateFromWireGuard, MarkPeerDisconnected, PingWorker, UpdatePeerMetrics,
     WriteStatus, Finish, StatusHasPeer
<1>7. QED
  BY <1>1, <1>2, <1>3, <1>4, <1>5, <1>6 DEF Next, Environment, CollectorStep, PingStep

\* Ping jobs need ping checks, collector jobs and the cache their absence, and claims
\* in calm times a young handshake.
LEMMA WorkStep ==
  ASSUME TypeOK, WorkInv, [Next]_vars
  PROVE  WorkInv'
<1> DEFINE Work(m) ==
       /\ ping[m] # Idle => usePing
       /\ usePing => job[m] = Idle /\ m \notin cache
       /\ Calm /\ job[m] # Idle => (job[m].do = "claim" => job[m].valid)
<1> SUFFICES ASSUME NEW m \in Node PROVE Work(m)'
  BY DEF WorkInv
<1> USE DEF Calm
<1>1. CASE UNCHANGED vars
  BY <1>1 DEF vars, WorkInv
<1>2. CASE Disconnect \/ CreatePeer
  BY <1>2 DEF Disconnect, CreatePeer, WorkInv
<1>3. ASSUME NEW n \in Node, Connect(n) \/ DeletePeer(n) \/ DeletePeersByIDs(n)
      PROVE  Work(m)'
  BY <1>3 DEF Connect, DeletePeer, DeletePeersByIDs, WorkInv, TypeOK
<1>4. ASSUME NEW n \in Node, HandlePeerDeleteEvent(n) \/ HandlePeersExpiredRemovedLocal(n)
      PROVE  Work(m)'
  BY <1>4 DEF HandlePeerDeleteEvent, HandlePeersExpiredRemovedLocal, WorkInv, TypeOK
<1>5. ASSUME NEW n \in Node, StatusUpdateFails(n) \/ PingUpdateFails(n) \/ RestartNode(n)
      PROVE  Work(m)'
  BY <1>5 DEF StatusUpdateFails, Finish, PingUpdateFails, RestartNode, WorkInv, TypeOK
<1>6. ASSUME NEW n \in Node, Age(n)
      PROVE  Work(m)'
  <2>1. /\ job'[m] = IF m = n THEN Expired(job[n]) ELSE job[m]
        /\ ping'[m] = IF m = n THEN Expired(ping[n]) ELSE ping[m]
    BY <1>6 DEF Age, TypeOK
  <2>2. /\ Expired(job[n]) # Idle => job[n] # Idle /\ Expired(job[n]).do = job[n].do
        /\ Expired(ping[n]) # Idle => ping[n] # Idle
    BY ExpiredType DEF TypeOK
  <2>3. /\ Calm' => Calm /\ (job[n] # Idle => job[n].do # "claim")
        /\ usePing' = usePing
    BY <1>6 DEF Age, TypeOK
  <2>5. (usePing => job[n] = Idle) /\ (job[n] = Idle => Expired(job[n]) = Idle) /\ cache' = cache
    BY <1>6 DEF Age, WorkInv, Expired
  <2>4. QED
    BY <2>1, <2>2, <2>3, <2>5 DEF WorkInv
<1>7. ASSUME NEW n \in Node, CollectPeerData(n)
      PROVE  Work(m)'
  <2>1. ping' = ping /\ usePing' = usePing /\ disturbed' = disturbed /\ ~usePing
    BY <1>7 DEF CollectPeerData
  <2>2. CASE exists /\ m = n
    <3>1. PICK j : j = [do |-> IF n \notin fresh THEN "mark"
                               ELSE IF n \in cache THEN "update" ELSE "claim",
                        valid |-> n \in fresh]
      OBVIOUS
    <3>2. job'[m] = j
      BY <1>7, <2>2, <3>1 DEF CollectPeerData, TypeOK
    <3>3. j.do = "claim" => n \in fresh
      BY <3>1
    <3>4. n \in fresh => j.valid
      BY <3>1, Zenon
    <3>5. job'[m].do = "claim" => job'[m].valid
      BY <3>2, <3>3, <3>4
    <3>6. QED
      BY <2>1, <3>5 DEF WorkInv
  <2>3. CASE ~exists \/ m # n
    <3>1. job'[m] = job[m]
      BY <1>7, <2>3 DEF CollectPeerData, TypeOK
    <3>2. QED
      BY <2>1, <3>1 DEF WorkInv
  <2>4. QED
    BY <2>2, <2>3
<1>8. ASSUME NEW n \in Node,
             ClaimPeerStatus(n) \/ UpdateFromWireGuard(n) \/ MarkPeerDisconnected(n)
      PROVE  Work(m)'
  <2>1. /\ job'[m] = Idle \/ job'[m] = job[m]
        /\ ping' = ping /\ usePing' = usePing
        /\ Calm' => Calm
    BY <1>8 DEF ClaimPeerStatus, UpdateFromWireGuard, MarkPeerDisconnected, Finish, TypeOK
  <2>2. job[n] # Idle
    BY <1>8, Busy DEF ClaimPeerStatus, UpdateFromWireGuard, MarkPeerDisconnected
  <2>3. QED
    BY <2>1, <2>2 DEF WorkInv
<1>9. ASSUME NEW n \in Node, EnqueuePingCheck(n) \/ PingWorker(n) \/ UpdatePeerMetrics(n)
      PROVE  Work(m)'
  <2>1. /\ job' = job /\ cache' = cache /\ disturbed' = disturbed /\ usePing' = usePing
        /\ usePing \/ ping'[m] = Idle \/ ping'[m] = ping[m]
    BY <1>9 DEF EnqueuePingCheck, PingWorker, UpdatePeerMetrics, TypeOK
  <2>2. QED
    BY <2>1 DEF WorkInv
<1>10. QED
  BY <1>1, <1>2, <1>3, <1>4, <1>5, <1>6, <1>7, <1>8, <1>9
     DEF Next, Environment, CollectorStep, PingStep

\* UpdatePeerStatus keeps what OwnerWatches says of a row without ping checks, as long
\* as the owner does not leave the cache unless it is the node that clears the row,
\* and no row turns connected: W holds the nodes that watch the peer.
LEMMA UpdateWatched ==
  ASSUME NEW n \in Node, NEW old \in Status, NEW c, NEW W, NEW V, NEW new,
         new = UpdatePeerStatus(n, old, c),
         IF old.connected THEN old.owner \in W ELSE old.owner = Nobody,
         \A w \in W : w \in V \/ (w = n /\ ~c),
         c => old.connected
  PROVE  IF new.connected THEN new.owner \in V ELSE new.owner = Nobody
<1>1. Offline.owner = Nobody /\ ~Offline.connected
  BY DEF Offline
<1>2. CASE old.connected /\ old.owner \notin {Nobody, n}
  BY <1>2, UpdateEffect
<1>3. CASE ~(old.connected /\ old.owner \notin {Nobody, n})
  <2>1. IF c THEN new.connected /\ new.owner = old.owner ELSE new = Offline
    BY <1>3, UpdateEffect
  <2>2. CASE c
    BY <2>1, <2>2
  <2>3. CASE ~c
    BY <1>1, <2>1, <2>3
  <2>4. QED
    BY <2>2, <2>3
<1>4. QED
  BY <1>2, <1>3

\* UpdatePeerStatus gives no row an owner.
LEMMA UpdateUnowned ==
  ASSUME NEW n \in Node, NEW old \in Status, NEW c, NEW new,
         new = UpdatePeerStatus(n, old, c), old.owner = Nobody
  PROVE  new.owner = Nobody
<1>1. Offline.owner = Nobody
  BY DEF Offline
<1>2. IF c THEN new.owner = old.owner ELSE new = Offline
  BY UpdateEffect
<1>3. QED
  BY <1>1, <1>2

\* With ping checks no row gets an owner, because nobody claims.
LEMMA UnownedStep ==
  ASSUME StatusInv, usePing, [Next]_vars
  PROVE  OwnerWatches'
<1>0. /\ TypeOK /\ StatusHasPeer /\ (status # NoStatus => status.owner = Nobody)
      /\ \A n \in Node : job[n] = Idle
  BY DEF StatusInv, OwnerWatches, WorkInv
<1> SUFFICES ASSUME status' # NoStatus PROVE usePing' /\ status'.owner = Nobody
  BY DEF OwnerWatches
<1>c. Current \in Status /\ Current.owner = Nobody
  BY <1>0, CurrentType DEF Current, Offline
<1>1. CASE UNCHANGED vars \/ Disconnect \/ CreatePeer
  BY <1>0, <1>c, <1>1 DEF vars, Disconnect, CreatePeer
<1>2. ASSUME NEW n \in Node,
             \/ Connect(n) \/ Age(n) \/ HandlePeersExpiredRemovedLocal(n)
             \/ PingUpdateFails(n) \/ RestartNode(n) \/ EnqueuePingCheck(n)
      PROVE  usePing' /\ status'.owner = Nobody
  BY <1>0, <1>2 DEF Connect, Age, HandlePeersExpiredRemovedLocal, PingUpdateFails, RestartNode,
     EnqueuePingCheck
<1>3. ASSUME NEW n \in Node,
             DeletePeer(n) \/ DeletePeersByIDs(n) \/ HandlePeerDeleteEvent(n)
      PROVE  FALSE
  BY <1>3 DEF DeletePeer, DeletePeersByIDs, HandlePeerDeleteEvent
<1>4. ASSUME NEW n \in Node, NEW c, WriteStatus(n, c), usePing' = usePing
      PROVE  usePing' /\ status'.owner = Nobody
  <2>1. CASE exists
    <3>1. status' = UpdatePeerStatus(n, Current, c)
      BY <1>0, <1>4, <2>1, WriteEffect
    <3>2. PICK old, new : old = Current /\ new = status'
      OBVIOUS
    <3>3. new.owner = Nobody
      BY <1>c, <3>1, <3>2, UpdateUnowned
    <3>4. QED
      BY <1>4, <3>2, <3>3
  <2>2. CASE ~exists
    BY <1>0, <1>4, <2>2, WriteEffect
  <2>3. QED
    BY <2>1, <2>2
<1>5. ASSUME NEW n \in Node, PingWorker(n) \/ UpdatePeerMetrics(n)
      PROVE  usePing' /\ status'.owner = Nobody
  <2>1. usePing' = usePing
    BY <1>5 DEF PingWorker, UpdatePeerMetrics
  <2>2. CASE PingWorker(n)
    BY <1>4, <2>1, <2>2 DEF PingWorker
  <2>3. CASE UpdatePeerMetrics(n)
    BY <1>4, <2>1, <2>3 DEF UpdatePeerMetrics
  <2>4. QED
    BY <1>5, <2>2, <2>3
<1>6. ASSUME NEW n \in Node, CollectorStep(n) \/ StatusUpdateFails(n)
      PROVE  FALSE
  BY <1>0, <1>6, Busy DEF CollectorStep, CollectPeerData, ClaimPeerStatus, UpdateFromWireGuard,
     MarkPeerDisconnected, StatusUpdateFails
<1>7. QED
  BY <1>1, <1>2, <1>3, <1>5, <1>6 DEF Next, Environment, PingStep

\* Without ping checks every connected row has a watcher in calm times.
LEMMA WatchedStep ==
  ASSUME StatusInv, ~usePing, [Next]_vars
  PROVE  OwnerWatches'
<1>0. /\ TypeOK /\ StatusHasPeer /\ OwnerWatches /\ WorkInv
      /\ \A n \in Node : ping[n] = Idle
  BY DEF StatusInv, WorkInv
<1> USE DEF Calm
<1>1. CASE UNCHANGED vars
  BY <1>0, <1>1 DEF vars, OwnerWatches
<1>2. CASE Disconnect
  BY <1>0, <1>2 DEF Disconnect, OwnerWatches
<1>3. CASE CreatePeer
  <2>1. Offline.owner = Nobody /\ ~Offline.connected
    BY DEF Offline
  <2>2. QED
    BY <1>0, <1>3, <2>1 DEF CreatePeer, Current, StatusHasPeer, OwnerWatches
<1>4. ASSUME NEW n \in Node, Connect(n) \/ Age(n)
      PROVE  OwnerWatches'
  BY <1>0, <1>4 DEF Connect, Age, OwnerWatches, TypeOK
<1>5. ASSUME NEW n \in Node,
             DeletePeer(n) \/ DeletePeersByIDs(n) \/ HandlePeerDeleteEvent(n)
      PROVE  OwnerWatches'
  BY <1>5 DEF DeletePeer, DeletePeersByIDs, HandlePeerDeleteEvent, OwnerWatches
<1>6. ASSUME NEW n \in Node, HandlePeersExpiredRemovedLocal(n)
      PROVE  OwnerWatches'
  BY <1>0, <1>6 DEF HandlePeersExpiredRemovedLocal, Connected, OwnerWatches, TypeOK
<1>7. ASSUME NEW n \in Node, StatusUpdateFails(n) \/ RestartNode(n)
      PROVE  OwnerWatches'
  BY <1>7 DEF StatusUpdateFails, Finish, RestartNode, OwnerWatches
<1>8. ASSUME NEW n \in Node,
             PingUpdateFails(n) \/ EnqueuePingCheck(n) \/ PingWorker(n) \/ UpdatePeerMetrics(n)
      PROVE  FALSE
  BY <1>0, <1>8 DEF PingUpdateFails, EnqueuePingCheck, PingWorker, UpdatePeerMetrics
<1>9. ASSUME NEW n \in Node, CollectPeerData(n)
      PROVE  OwnerWatches'
  BY <1>0, <1>9 DEF CollectPeerData, StatusHasPeer, OwnerWatches
<1>10. ASSUME NEW n \in Node, ClaimPeerStatus(n)
       PROVE  OwnerWatches'
  <2>0. ~usePing'
    BY <1>10 DEF ClaimPeerStatus, Finish
  <2> SUFFICES ASSUME Calm', status' # NoStatus
               PROVE  status'.connected /\ status'.owner \in cache'
    BY <2>0 DEF OwnerWatches
  <2>1. job[n] # Idle /\ job[n].do = "claim" /\ Calm
    <3>1. job[n].do = "claim" /\ Calm
      BY <1>10, Zenon DEF ClaimPeerStatus
    <3>2. QED
      BY <3>1, Busy
  <2>2. job[n].valid
    BY <1>0, <2>1 DEF WorkInv
  <2>3. exists \/ status # NoStatus
    BY <1>10 DEF ClaimPeerStatus
  <2>4. status' = [connected |-> job[n].valid, owner |-> n]
    BY <1>10, <2>3 DEF ClaimPeerStatus
  <2>5. status'.connected
    BY <2>2, <2>4
  <2>6. status'.owner = n
    BY <2>4
  <2>7. n \in cache'
    BY <1>10, <2>1 DEF ClaimPeerStatus, Finish
  <2>8. QED
    BY <2>5, <2>6, <2>7
<1>11. ASSUME NEW n \in Node, NEW c, WriteStatus(n, c),
              exists' = exists, usePing' = usePing, Calm' => Calm,
              \A w \in cache : w \in cache' \/ (w = n /\ ~c),
              c => Current.connected
       PROVE  OwnerWatches'
  <2> SUFFICES ASSUME Calm', status' # NoStatus
               PROVE  IF status'.connected THEN status'.owner \in cache'
                                           ELSE status'.owner = Nobody
    BY <1>11 DEF OwnerWatches
  <2>1. exists /\ status' = UpdatePeerStatus(n, Current, c)
    BY <1>0, <1>11, WriteEffect DEF StatusHasPeer
  <2>2. Current \in Status
    BY <1>0, CurrentType
  <2>3. IF Current.connected THEN Current.owner \in cache ELSE Current.owner = Nobody
    BY <1>0, <1>11 DEF Current, Offline, OwnerWatches
  <2>4. PICK old, new, V : old = Current /\ new = status' /\ V = cache'
    OBVIOUS
  <2>5. /\ new = UpdatePeerStatus(n, old, c)
        /\ old \in Status
        /\ \A w \in cache : w \in V \/ (w = n /\ ~c)
        /\ c => old.connected
    BY <1>11, <2>1, <2>2, <2>4
  <2>6. IF old.connected THEN old.owner \in cache ELSE old.owner = Nobody
    BY <2>3, <2>4
  <2>7. IF new.connected THEN new.owner \in V ELSE new.owner = Nobody
    BY <2>5, <2>6, UpdateWatched
  <2>8. QED
    BY <2>4, <2>7
<1>12. ASSUME NEW n \in Node, UpdateFromWireGuard(n)
       PROVE  OwnerWatches'
  <2>1. cache \subseteq cache'
    BY <1>12 DEF UpdateFromWireGuard, Finish
  <2>2. /\ WriteStatus(n, Current.connected)
        /\ exists' = exists /\ usePing' = usePing /\ (Calm' => Calm)
    BY <1>12 DEF UpdateFromWireGuard, Finish
  <2>3. QED
    BY <1>11, <2>1, <2>2
<1>13. ASSUME NEW n \in Node, MarkPeerDisconnected(n)
       PROVE  OwnerWatches'
  <2>1. \A w \in cache : w \in cache' \/ w = n
    BY <1>13 DEF MarkPeerDisconnected, Finish
  <2>2. WriteStatus(n, FALSE) /\ exists' = exists /\ usePing' = usePing /\ (Calm' => Calm)
    BY <1>13 DEF MarkPeerDisconnected, Finish
  <2>3. QED
    BY <1>11, <2>1, <2>2
<1>14. QED
  BY <1>1, <1>2, <1>3, <1>4, <1>5, <1>6, <1>7, <1>8, <1>9, <1>10, <1>12, <1>13
     DEF Next, Environment, CollectorStep, PingStep

\* Every step keeps the owner right.
LEMMA OwnerStep == ASSUME StatusInv, [Next]_vars PROVE OwnerWatches'
BY UnownedStep, WatchedStep

\* The invariant is inductive.
THEOREM StatusInvHolds == Spec => []StatusInv
<1>1. StatusInv /\ [Next]_vars => StatusInv'
  BY TypeStep, PeerStep, WorkStep, OwnerStep DEF StatusInv
<1>2. QED
  BY InitStatusInv, <1>1, PTL DEF Spec

\* No order of deletions, late events, updates and claims leaves a row of
\* peer_status behind without its peer: the checks of UpdatePeerStatus and
\* getOrCreatePeerStatus suffice.
THEOREM StatusHasPeerHolds == Spec => []StatusHasPeer
<1>1. StatusInv => StatusHasPeer
  BY DEF StatusInv
<1>2. QED
  BY StatusInvHolds, <1>1, PTL

\* Without ping checks a connected row belongs, in calm times, to a node that will
\* notice when the client goes; with them it belongs to nobody and every worker looks
\* after it.
THEOREM OwnerWatchesHolds == Spec => []OwnerWatches
<1>1. StatusInv => OwnerWatches
  BY DEF StatusInv
<1>2. QED
  BY StatusInvHolds, <1>1, PTL

----------------------------------------------------------------------------
(* The lease lock, for any number of sessions, whatever names they share,  *)
(* and any lease that is not shorter than the deadline of AcquireLock.     *)

USE OriginAssumption, TimeAssumption

\* A row is not the absence of a row.
LEMMA RowNotFree == \A r \in Row : r # Free
<1> SUFFICES ASSUME NEW r \in Row, r = Free PROVE FALSE
  OBVIOUS
<1>1. DOMAIN r = {"id", "left", "by"}
  BY DEF Row
<1>2. DOMAIN Free = {"free"}
  BY DEF Free
<1>3. "id" # "free"
  OBVIOUS
<1>4. QED
  BY <1>1, <1>2, <1>3

\* The empty table satisfies the invariant.
LEMMA InitLockInv == LockInit => LockInv
<1>1. ASSUME LockInit PROVE LockTypeOK
  <2>1. failed \in BOOLEAN /\ late \in BOOLEAN
    BY <1>1, Zenon DEF LockInit
  <2>2. pc \in [Session -> Pc] /\ age \in [Session -> 0..(Lease + 1)]
    BY <1>1 DEF LockInit, Pc
  <2>3. lock \in Row \cup {Free} /\ cleaners \in SUBSET Session
    BY <1>1, Zenon DEF LockInit
  <2>4. QED
    BY <2>1, <2>2, <2>3, Zenon DEF LockTypeOK
<1>2. LockInit => RowBelongs /\ CleanedRow /\ HolderOwnsRow
  BY DEF LockInit, RowBelongs, CleanedRow, HolderOwnsRow, Inside
<1>3. QED
  BY <1>1, <1>2 DEF LockInv, SafeLock

\* Every step keeps the type of the state.
LEMMA LockTypeStep == LockTypeOK /\ [LockNext]_lockVars => LockTypeOK'
<1> SUFFICES ASSUME LockTypeOK, [LockNext]_lockVars PROVE LockTypeOK'
  OBVIOUS
<1> USE DEF LockTypeOK, Pc, Row, Goto, LongAgo
<1>1. CASE UNCHANGED lockVars
  BY <1>1 DEF lockVars
<1>2. CASE Tick
  <2>1. lock' \in Row \cup {Free}
    BY <1>2 DEF Tick
  <2>2. QED
    BY <1>2, <2>1 DEF Tick
<1>3. ASSUME NEW s \in Session, Begin(s) \/ Step(s) \/ Crash(s) PROVE LockTypeOK'
  <2>1. CASE Begin(s)
    BY <2>1 DEF Begin
  <2>2. CASE Clean(s) \/ CleanFail(s)
    BY <2>2 DEF Clean, CleanFail
  <2>3. CASE Insert(s) \/ InsertUnanswered(s)
    <3>1. NewRow(s) \in Row
      BY <2>3 DEF NewRow, Insert, InsertUnanswered, InTime
    <3>2. QED
      BY <3>1, <2>3 DEF Insert, InsertUnanswered
  <2>4. CASE Check(s) \/ Drop(s) \/ GiveUp(s)
    BY <2>4 DEF Check, Drop, GiveUp
  <2>5. CASE Release(s) \/ CleanupExpiredLocks(s) \/ Crash(s)
    <3>1. CASE Release(s)
      <4>1. late' \in BOOLEAN
        BY <3>1, Zenon DEF Release
      <4>2. lock' \in Row \cup {Free}
        BY <3>1, Zenon DEF Release
      <4>3. QED
        BY <3>1, <4>1, <4>2 DEF Release
    <3>2. CASE CleanupExpiredLocks(s) \/ Crash(s)
      BY <3>2 DEF CleanupExpiredLocks, Crash
    <3>3. QED
      BY <2>5, <3>1, <3>2
  <2>6. QED
    BY <1>3, <2>1, <2>2, <2>3, <2>4, <2>5 DEF Step
<1>4. QED
  BY <1>1, <1>2, <1>3 DEF LockNext

\* A release that leaves the lock orderly is one of a session inside its lease.
LEMMA ReleaseInTime ==
  ASSUME LockTypeOK, Orderly', NEW s \in Session, Release(s)
  PROVE  Inside(s)
<1>1. ~(age[s] > Lease)
  BY Zenon DEF Release, Orderly
<1>2. age[s] \in Nat
  BY DEF LockTypeOK
<1>3. age[s] <= Lease
  BY <1>1, <1>2
<1>4. QED
  BY <1>3, Zenon DEF Inside, Release

\* As long as no first DELETE fails and no session releases after its lease: time
\* moves the row and the sessions alike; a row in force is taken away by nobody but
\* the session that inserted it, whoever shares its name, because a session that
\* releases in time owns the row; and an INSERT adds a row only where there is none.
LEMMA SafeLockStep ==
  ASSUME Orderly', SafeLock, [LockNext]_lockVars
  PROVE  SafeLock'
<1> USE DEF SafeLock
<1>0. LockTypeOK /\ LockTypeOK'
  BY LockTypeStep
<1>1. CASE UNCHANGED lockVars
  BY <1>0, <1>1 DEF lockVars, RowBelongs, CleanedRow, HolderOwnsRow, Inside, InForce, InTime
<1>2. CASE Tick
  <2>1. RowBelongs'
    BY <1>0, <1>2, RowNotFree DEF Tick, RowBelongs, LockTypeOK, Row, LongAgo
  <2>2. CleanedRow'
    <3>1. ASSUME NEW s \in Session, pc[s] \in {"insert", "check"}, InTime(s)', lock' # Free
          PROVE  InForce(age[s])'
      BY <1>0, <1>2, <3>1
         DEF Tick, CleanedRow, LockTypeOK, Row, Free, InTime, InForce, LongAgo
    <3>2. QED
      BY <1>2, <3>1 DEF Tick, CleanedRow
  <2>3. HolderOwnsRow'
    BY <1>0, <1>2 DEF Tick, HolderOwnsRow, Inside, LockTypeOK, Row, Free, LongAgo
  <2>4. QED
    BY <1>0, <2>1, <2>2, <2>3
<1>3. ASSUME NEW s \in Session, Begin(s) \/ Crash(s) \/ GiveUp(s) \/ Check(s)
      PROVE  SafeLock'
  <2>1. RowBelongs'
    BY <1>0, <1>3 DEF Begin, Crash, GiveUp, Check, RowBelongs, LockTypeOK, Row, Goto
  <2>2. CleanedRow'
    BY <1>0, <1>3
       DEF Begin, Crash, GiveUp, Check, CleanedRow, Goto, LockTypeOK, InTime, InForce
  <2>3. HolderOwnsRow'
    BY <1>0, <1>3 DEF Begin, Crash, GiveUp, Check, HolderOwnsRow, Inside, Goto, LockTypeOK
  <2>4. QED
    BY <1>0, <2>1, <2>2, <2>3
<1>4. ASSUME NEW s \in Session, Clean(s)
      PROVE  SafeLock'
  <2>1. RowBelongs'
    BY <1>0, <1>4 DEF Clean, RowBelongs, LockTypeOK, Row, Goto
  <2>2. CleanedRow'
    BY <1>0, <1>4 DEF Clean, CleanedRow, Goto, LockTypeOK, InTime, InForce
  <2>3. HolderOwnsRow'
    BY <1>0, <1>4 DEF Clean, HolderOwnsRow, Inside, Goto, LockTypeOK, InForce
  <2>4. QED
    BY <1>0, <2>1, <2>2, <2>3
<1>5. ASSUME NEW s \in Session, Insert(s) \/ InsertUnanswered(s)
      PROVE  SafeLock'
  <2>0. PICK r : r = NewRow(s)
    OBVIOUS
  <2>1. r \in Row /\ r.id = Origin[s] /\ r.by = s /\ r.left = Lease - age[s] /\ r # Free
    <3>1. r \in Row /\ r.id = Origin[s] /\ r.by = s /\ r.left = Lease - age[s]
      BY <1>0, <1>5, <2>0 DEF NewRow, Row, Insert, InsertUnanswered, InTime, LockTypeOK, LongAgo
    <3>2. QED
      BY <3>1, RowNotFree
  <2>2. CASE lock = Free /\ lock' = r
    <3>1. RowBelongs'
      BY <1>0, <1>5, <2>1, <2>2 DEF RowBelongs, Insert, InsertUnanswered, LockTypeOK, Row, Goto
    <3>2. CleanedRow'
      BY <1>0, <1>5, <2>1, <2>2
         DEF Insert, InsertUnanswered, CleanedRow, Goto, LockTypeOK, InTime, InForce
    <3>3. HolderOwnsRow'
      <4>1. \A t \in Session : ~Inside(t)
        BY <2>2 DEF HolderOwnsRow
      <4>2. QED
        BY <1>0, <1>5, <2>1, <2>2, <4>1
           DEF Insert, InsertUnanswered, HolderOwnsRow, Inside, Goto, LockTypeOK
    <3>4. QED
      BY <1>0, <3>1, <3>2, <3>3
  <2>3. CASE lock # Free /\ lock' = lock /\ Insert(s)
    <3>1. RowBelongs'
      BY <1>0, <2>3 DEF RowBelongs, Insert, LockTypeOK, Row, Goto
    <3>2. CleanedRow'
      BY <1>0, <2>3 DEF Insert, CleanedRow, Goto, LockTypeOK, InTime, InForce
    <3>3. HolderOwnsRow'
      BY <1>0, <2>3 DEF Insert, HolderOwnsRow, Inside, Goto, LockTypeOK
    <3>4. QED
      BY <1>0, <3>1, <3>2, <3>3
  <2>4. QED
    BY <1>5, <2>0, <2>2, <2>3 DEF Insert, InsertUnanswered
<1>6. ASSUME NEW s \in Session, Release(s)
      PROVE  SafeLock'
  <2>1. RowBelongs'
    BY <1>0, <1>6 DEF Release, RowBelongs, LockTypeOK, Row, Goto
  <2>2. CleanedRow'
    BY <1>0, <1>6 DEF Release, CleanedRow, Goto, LockTypeOK, InTime, InForce
  <2>3. HolderOwnsRow'
    <3>1. Inside(s)
      BY <1>6, ReleaseInTime
    <3>2. ASSUME NEW t \in Session, Inside(t)' PROVE FALSE
      <4>1. t # s /\ Inside(t)
        BY <1>0, <1>6, <3>2 DEF Release, Inside, Goto, LockTypeOK
      <4>2. QED
        BY <3>1, <4>1 DEF HolderOwnsRow
    <3>3. QED
      BY <3>2 DEF HolderOwnsRow
  <2>4. QED
    BY <1>0, <2>1, <2>2, <2>3
<1>7. ASSUME NEW s \in Session, CleanupExpiredLocks(s)
      PROVE  SafeLock'
  <2>1. RowBelongs'
    BY <1>0, <1>7 DEF CleanupExpiredLocks, RowBelongs, LockTypeOK, Row
  <2>2. CleanedRow'
    BY <1>0, <1>7 DEF CleanupExpiredLocks, CleanedRow, LockTypeOK, InTime, InForce
  <2>3. HolderOwnsRow'
    BY <1>0, <1>7 DEF CleanupExpiredLocks, HolderOwnsRow, Inside, LockTypeOK, InForce
  <2>4. QED
    BY <1>0, <2>1, <2>2, <2>3
<1>8. \A s \in Session : ~CleanFail(s) /\ ~Drop(s)
  BY DEF CleanFail, Drop, CleanedRow, Orderly
<1>9. QED
  BY <1>1, <1>2, <1>3, <1>4, <1>5, <1>6, <1>7, <1>8 DEF LockNext, Step

\* What spoiled the lock once has spoiled it for good.
LEMMA DisorderStays == ASSUME LockTypeOK, [LockNext]_lockVars, Orderly' PROVE Orderly
<1> USE DEF LockTypeOK, Orderly
<1>1. CASE UNCHANGED lockVars
  BY <1>1 DEF lockVars
<1>2. CASE Tick
  BY <1>2 DEF Tick
<1>3. ASSUME NEW s \in Session, Begin(s) \/ Step(s) \/ Crash(s) PROVE Orderly
  BY <1>3 DEF Begin, Step, Crash, Clean, CleanFail, Insert, InsertUnanswered, Check, Drop, GiveUp,
              Release, CleanupExpiredLocks
<1>4. QED
  BY <1>1, <1>2, <1>3 DEF LockNext

\* Every step keeps the invariant.
LEMMA LockInvStep ==
  ASSUME LockInv, [LockNext]_lockVars
  PROVE  LockInv'
<1>1. LockTypeOK'
  BY LockTypeStep DEF LockInv
<1>2. CASE ~Orderly'
  BY <1>1, <1>2 DEF LockInv
<1>3. CASE Orderly'
  <2>1. Orderly
    BY <1>3, DisorderStays DEF LockInv
  <2>2. SafeLock'
    BY <1>3, <2>1, SafeLockStep DEF LockInv
  <2>3. QED
    BY <1>1, <2>2 DEF LockInv
<1>4. QED
  BY <1>2, <1>3

\* The inductive invariant of AcquireLock, ReleaseLock and CleanupExpiredLocks:
\* a session inside its lease owns the row.
THEOREM LockInvHolds == LockSpec => []LockInv
<1>1. LockInit => LockInv
  BY InitLockInv
<1>2. LockInv /\ [LockNext]_lockVars => LockInv'
  BY LockInvStep
<1>3. QED
  BY <1>1, <1>2, PTL DEF LockSpec

\* "Only one node can hold the lock at a time", for any number of sessions under
\* whatever names, as long as none of them releases after its lease and no
\* AcquireLock goes on after a failed DELETE.
THEOREM LeaseExclusiveHolds == LockSpec => []LeaseExclusive
<1>1. LockInv => LeaseExclusive
  BY DEF LockInv, SafeLock, HolderOwnsRow, LeaseExclusive, OneHolder
<1>2. QED
  BY <1>1, LockInvHolds, PTL

\* The abstract state under the refinement mapping.
Holder == IF Orderly /\ InForce(0) THEN lock.by ELSE Free
InsideSet == {s \in Session : Orderly /\ Inside(s)}

\* A step of a session or of the clock is a step of the lease or leaves it alone.
LEMMA SafeLeaseStep ==
  ASSUME Orderly, Orderly', SafeLock, SafeLock', [LockNext]_lockVars
  PROVE  [LL!Next]_(LL!lvars)
<1> USE DEF SafeLock, LL!lvars
<1>0. LockTypeOK /\ LockTypeOK' /\ HolderOwnsRow /\ HolderOwnsRow'
  OBVIOUS
<1>s. ASSUME Holder' = Holder, InsideSet' = InsideSet
      PROVE  [LL!Next]_(LL!lvars)
  BY <1>s DEF Holder, InsideSet
<1>1. CASE UNCHANGED lockVars
  BY <1>1, <1>s DEF lockVars, Holder, InsideSet, InForce, Inside
<1>2. CASE Tick
  <2>1. CASE InForce(0) /\ ~InForce(0)'
    <3>1. Holder \in Session /\ Holder' = Free
      BY <1>0, <2>1 DEF Holder, InForce, LockTypeOK, Row
    <3>2. InsideSet' = {}
      BY <1>0, <2>1 DEF InsideSet, HolderOwnsRow, InForce, Inside, LockTypeOK
    <3>3. LL!Expire
      BY <3>1, <3>2, FreeAssumption DEF LL!Expire, Holder, InsideSet
    <3>4. QED
      BY <3>3 DEF LL!Next
  <2>2. CASE ~(InForce(0) /\ ~InForce(0)')
    <3>1. Holder' = Holder
      BY <1>0, <1>2, <2>2, RowNotFree DEF Tick, Holder, InForce, LockTypeOK, Row, LongAgo
    <3>2. \A s \in Session : Inside(s)' <=> Inside(s)
      BY <1>0, <1>2, <2>2, RowNotFree
         DEF Tick, InForce, Inside, LockTypeOK, Row, LongAgo, HolderOwnsRow
    <3>3. QED
      BY <3>1, <3>2, <1>s DEF InsideSet
  <2>3. QED
    BY <2>1, <2>2
<1>3. ASSUME NEW s \in Session, Begin(s) \/ Clean(s) \/ GiveUp(s) \/ Check(s) \/ CleanupExpiredLocks(s)
      PROVE  [LL!Next]_(LL!lvars)
  <2>1. Holder' = Holder
    BY <1>0, <1>3
       DEF Begin, Clean, GiveUp, Check, CleanupExpiredLocks, Holder, InForce, LockTypeOK, Row
  <2>2. \A t \in Session : Inside(t)' <=> Inside(t)
    BY <1>0, <1>3 DEF Begin, Clean, GiveUp, Check, CleanupExpiredLocks, Inside, Goto, LockTypeOK
  <2>3. QED
    BY <2>1, <2>2, <1>s DEF InsideSet
<1>4. ASSUME NEW s \in Session, Insert(s) \/ InsertUnanswered(s)
      PROVE  [LL!Next]_(LL!lvars)
  <2>1. CASE lock = Free
    <3>1. lock' = NewRow(s) /\ lock' \in Row /\ lock' # Free
      <4>1. lock' = NewRow(s)
        BY <1>4, <2>1 DEF Insert, InsertUnanswered
      <4>2. NewRow(s) \in Row
        BY <1>0, <1>4 DEF NewRow, Row, Insert, InsertUnanswered, InTime, LockTypeOK, LongAgo
      <4>3. QED
        BY <4>1, <4>2, RowNotFree
    <3>2. Holder = Free /\ Holder' = s
      BY <1>0, <1>4, <2>1, <3>1
         DEF Holder, InForce, NewRow, Insert, InsertUnanswered, InTime, LockTypeOK
    <3>3. \A t \in Session : ~Inside(t)
      BY <2>1 DEF HolderOwnsRow
    <3>4. \A t \in Session : Inside(t)' => t = s
      BY <1>0, <1>4, <3>3 DEF Insert, InsertUnanswered, Inside, Goto, LockTypeOK
    <3>5. InsideSet' \in {{}, {s}}
      BY <3>4 DEF InsideSet
    <3>6. LL!Grant(s)
      BY <3>2, <3>5 DEF LL!Grant, Holder, InsideSet
    <3>7. QED
      BY <3>6 DEF LL!Next
  <2>2. CASE lock # Free
    <3>1. lock' = lock /\ Insert(s)
      BY <1>4, <2>2 DEF Insert, InsertUnanswered
    <3>2. Holder' = Holder
      BY <3>1 DEF Holder, InForce
    <3>3. \A t \in Session : Inside(t)' <=> Inside(t)
      BY <1>0, <2>2, <3>1 DEF Insert, Inside, Goto, LockTypeOK
    <3>4. QED
      BY <3>2, <3>3, <1>s DEF InsideSet
  <2>3. QED
    BY <2>1, <2>2
<1>5. ASSUME NEW s \in Session, Release(s) \/ Crash(s)
      PROVE  [LL!Next]_(LL!lvars)
  <2>1. \A t \in Session : Inside(t)' <=> Inside(t) /\ t # s
    BY <1>0, <1>5 DEF Release, Crash, Inside, Goto, LockTypeOK
  <2>2. InsideSet' = InsideSet \ {s}
    BY <2>1 DEF InsideSet
  <2>3. CASE Inside(s)
    <3>1. Holder' \in {Holder, Free}
      BY <1>0, <1>5 DEF Release, Crash, Holder, InForce
    <3>2. LL!Leave(s)
      BY <2>2, <2>3, <3>1 DEF LL!Leave, Holder, InsideSet
    <3>3. QED
      BY <3>2 DEF LL!Next
  <2>4. CASE ~Inside(s)
    <3>1. Holder' = Holder
      <4>1. lock' = lock
        BY <1>5, <2>4, ReleaseInTime DEF Crash
      <4>2. QED
        BY <4>1 DEF Holder, InForce
    <3>2. QED
      BY <2>2, <2>4, <3>1, <1>s DEF InsideSet
  <2>5. QED
    BY <2>3, <2>4
<1>6. \A s \in Session : ~CleanFail(s) /\ ~Drop(s)
  BY DEF CleanFail, Drop, CleanedRow, Orderly
<1>7. QED
  BY <1>1, <1>2, <1>3, <1>4, <1>5, <1>6 DEF LockNext, Step

\* A failed DELETE or a late release ends the lease, if there was one.
LEMMA LeaseStep ==
  ASSUME LockInv, LockInv', [LockNext]_lockVars
  PROVE  [LL!Next]_(LL!lvars)
<1>0. LockTypeOK
  BY DEF LockInv
<1>1. CASE Orderly'
  BY <1>1, DisorderStays, SafeLeaseStep DEF LockInv
<1>2. CASE ~Orderly'
  <2>1. Holder' = Free /\ InsideSet' = {}
    BY <1>2 DEF Holder, InsideSet
  <2>2. CASE Holder = Free
    <3>1. InsideSet = {}
      <4>1. CASE ~Orderly
        BY <4>1 DEF InsideSet
      <4>2. CASE Orderly
        <5>1. ASSUME NEW s \in Session, Inside(s) PROVE FALSE
          <6>1. lock # Free /\ lock \in Row /\ lock.by = s /\ lock.left = Lease - age[s]
            BY <1>0, <4>2, <5>1 DEF LockInv, SafeLock, HolderOwnsRow, LockTypeOK
          <6>2. InForce(0)
            BY <1>0, <5>1, <6>1 DEF InForce, Inside, LockTypeOK
          <6>3. QED
            BY <2>2, <4>2, <5>1, <6>1, <6>2, FreeAssumption DEF Holder
        <5>2. QED
          BY <5>1 DEF InsideSet
      <4>3. QED
        BY <4>1, <4>2
    <3>2. QED
      BY <2>1, <2>2, <3>1 DEF LL!lvars, Holder, InsideSet
  <2>3. CASE Holder # Free
    <3>1. LL!Expire
      BY <2>1, <2>3 DEF LL!Expire, Holder, InsideSet
    <3>2. QED
      BY <3>1 DEF LL!Next
  <2>4. QED
    BY <2>2, <2>3
<1>3. QED
  BY <1>1, <1>2

\* The table row, its conditional DELETEs and the INSERT implement the lease up to
\* the first failed DELETE or late release.
THEOREM SyncLockImplementsLease == LockSpec => ImplementsLease
<1>1. LockInit => LL!Init
  BY DEF LockInit, LL!Init, InForce, Inside
<1>2. LockInv /\ LockInv' /\ [LockNext]_lockVars => [LL!Next]_(LL!lvars)
  BY LeaseStep
<1>3. QED
  BY <1>1, <1>2, LockInvHolds, PTL DEF LockSpec, ImplementsLease, LL!Spec
=============================================================================
