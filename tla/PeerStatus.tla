------------------------------ MODULE PeerStatus ------------------------------
(***************************************************************************)
(* Connection status of a peer in the cluster.                             *)
(*                                                                         *)
(* Every node's StatisticsCollector looks at its own WireGuard device at   *)
(* intervals and writes what it sees to the peer's one row of the table    *)
(* peer_status.  To keep nodes from overwriting each other, the node that  *)
(* sees a new connection claims the row; the others may then not change    *)
(* its connection state until the owner has marked it offline.  With       *)
(* statistics.use_ping_checks nobody claims: ping workers write the state  *)
(* instead of the collector, and a second job keeps the counters.          *)
(*                                                                         *)
(* Rows of different peers do not interact: the module follows one peer.   *)
(* A status transaction is one step (the database serialises it).  IsPing- *)
(* able is left out: nothing in the program sets it.  All nodes have the   *)
(* same configuration.                                                     *)
(*                                                                         *)
(* Sources: internal/app/wireguard/statistics.go, internal/domain/         *)
(* statistics.go, internal/adapters/database.go.                           *)
(***************************************************************************)
EXTENDS Naturals, FiniteSets

CONSTANTS
    Node,         \* portal servers
    Nobody,       \* no node
    MaxMoves,     \* bound: the client connects or leaves
    MaxDeletes,   \* bound: deletions of the peer
    MaxFaults     \* bound: failed transactions and restarts of a node

ASSUME NobodyAssumption == Nobody \notin Node
ASSUME BoundsAssumption == MaxMoves \in Nat /\ MaxDeletes \in Nat /\ MaxFaults \in Nat

VARIABLES
    usePing,  \* configuration: statistics.use_ping_checks
    exists,   \* the peer has a row in the table of peers
    status,   \* its row in peer_status, or NoStatus
    at,       \* the node the client talks to, or Nobody
    fresh,    \* nodes whose device saw a handshake in the last two minutes
    cache,    \* nodes whose activeConnectedPeers contains the peer
    job,      \* per node: the collector's work on the peer in progress
    ping,     \* per node: the ping worker's work on the peer in progress
    purge,    \* nodes that have not yet handled TopicPeerDeleted
    forget,   \* nodes that have not yet handled TopicPeersExpiredRemoved
    disturbed,\* history: see Calm
    moves, deletes, faults

vars == <<usePing, exists, status, at, fresh, cache, job, ping, purge, forget, disturbed,
          moves, deletes, faults>>

-----------------------------------------------------------------------------
NoStatus == [row |-> "none"]
Status == [connected : BOOLEAN, owner : Node \cup {Nobody}]

\* A new row of peer_status.
Offline == [connected |-> FALSE, owner |-> Nobody]

Connected == status # NoStatus /\ status.connected

\* Work in progress carries the handshake that was read from the device: is it
\* still younger than two minutes?
Idle == [do |-> "idle"]
Job == [do : {"claim", "update", "mark"}, valid : BOOLEAN]
PingJob == [do : {"ping"}, valid : BOOLEAN]

TypeOK ==
    /\ usePing \in BOOLEAN
    /\ exists \in BOOLEAN
    /\ status \in Status \cup {NoStatus}
    /\ at \in Node \cup {Nobody}
    /\ fresh \in SUBSET Node
    /\ cache \in SUBSET Node
    /\ job \in [Node -> Job \cup {Idle}]
    /\ ping \in [Node -> PingJob \cup {Idle}]
    /\ purge \in SUBSET Node /\ forget \in SUBSET Node
    /\ disturbed \in BOOLEAN
    /\ moves \in Nat /\ deletes \in Nat /\ faults \in Nat

Init ==
    /\ usePing \in BOOLEAN
    /\ exists = TRUE
    /\ status = Offline
    /\ at = Nobody
    /\ fresh = {} /\ cache = {} /\ purge = {} /\ forget = {}
    /\ job = [n \in Node |-> Idle]
    /\ ping = [n \in Node |-> Idle]
    /\ disturbed = FALSE
    /\ moves = 0 /\ deletes = 0 /\ faults = 0

-----------------------------------------------------------------------------
(* The client and the devices *)

\* Node n has forgotten an earlier connection of the client.
Noticed(n) == n \notin cache /\ job[n] = Idle

\* The client completes a handshake with node n.
Connect(n) ==
    /\ exists
    /\ at # n
    /\ moves < MaxMoves
    /\ moves' = moves + 1
    /\ at' = n
    /\ fresh' = fresh \cup {n}
    /\ disturbed' = (disturbed \/ ~Noticed(n))
    /\ UNCHANGED <<usePing, exists, status, cache, job, ping, purge, forget, deletes, faults>>

\* The client goes away.
Disconnect ==
    /\ at # Nobody
    /\ moves < MaxMoves
    /\ moves' = moves + 1
    /\ at' = Nobody
    /\ UNCHANGED <<usePing, exists, status, fresh, cache, job, ping, purge, forget, disturbed,
                   deletes, faults>>

Expired(j) == IF j = Idle THEN Idle ELSE [j EXCEPT !.valid = FALSE]

\* Two minutes have passed since the last handshake with node n.  (A client that
\* stays keeps its handshake young.)
Age(n) ==
    /\ n \in fresh
    /\ at # n
    /\ fresh' = fresh \ {n}
    /\ job' = [job EXCEPT ![n] = Expired(@)]
    /\ ping' = [ping EXCEPT ![n] = Expired(@)]
    /\ disturbed' = (disturbed \/ (job[n] # Idle /\ job[n].do = "claim"))
    /\ UNCHANGED <<usePing, exists, status, at, cache, purge, forget,
                   moves, deletes, faults>>

-----------------------------------------------------------------------------
(* The repository *)

\* Mutant: rows of other owners are overwritten.
UpdatePeerStatusAny(n, old, connected) ==
    IF connected THEN [old EXCEPT !.connected = TRUE] ELSE Offline

\* UpdatePeerStatus by node n, which wants to write connected: a connected row
\* that belongs to another node keeps its connection state, and a row that is
\* offline in the end loses its owner.
UpdatePeerStatus(n, old, connected) ==
    IF old.connected /\ old.owner \notin {Nobody, n} THEN old
    ELSE IF connected THEN [old EXCEPT !.connected = TRUE]
    ELSE Offline

\* getOrCreatePeerStatus.
Current == IF status = NoStatus THEN Offline ELSE status

\* Mutant: the row is created without looking for the peer.
WriteStatusAlways(n, connected) == status' = UpdatePeerStatus(n, Current, connected)

\* The transaction of UpdatePeerStatus: nothing is written for a deleted peer.
WriteStatus(n, connected) ==
    status' = IF exists THEN UpdatePeerStatus(n, Current, connected) ELSE status

\* DeletePeer on node n: row and status go in one transaction; TopicPeerDeleted
\* is published.  The device of n forgets the peer.
DeletePeer(n) ==
    /\ exists
    /\ deletes < MaxDeletes
    /\ deletes' = deletes + 1
    /\ exists' = FALSE
    /\ status' = NoStatus
    /\ at' = Nobody
    /\ fresh' = fresh \ {n}
    /\ purge' = purge \cup {n}
    /\ UNCHANGED <<usePing, forget, cache, job, ping, disturbed, moves, faults>>

\* DeletePeersByIDs on the master node n, for a peer that has expired: the rows
\* go in one transaction and TopicPeersExpiredRemoved is published.  The devices
\* forget the peer later.
DeletePeersByIDs(n) ==
    /\ exists
    /\ deletes < MaxDeletes
    /\ deletes' = deletes + 1
    /\ exists' = FALSE
    /\ status' = NoStatus
    /\ at' = Nobody
    /\ forget' = forget \cup {n}
    /\ UNCHANGED <<usePing, fresh, purge, cache, job, ping, disturbed, moves, faults>>

\* SavePeer of a peer with the same public key: a missing status is created.
CreatePeer ==
    /\ ~exists
    /\ exists' = TRUE
    /\ status' = Current
    /\ UNCHANGED <<usePing, at, fresh, cache, job, ping, purge, forget, disturbed,
                   moves, deletes, faults>>

\* handlePeerDeleteEvent deletes the status once more, whatever it is by now.
HandlePeerDeleteEvent(n) ==
    /\ n \in purge
    /\ purge' = purge \ {n}
    /\ status' = NoStatus
    /\ disturbed' = (disturbed \/ status # NoStatus)
    /\ UNCHANGED <<usePing, exists, at, fresh, cache, job, ping, forget, moves, deletes,
                   faults>>

\* handlePeersExpiredRemovedLocal, which waits for the end of the cycle, drops the
\* peer from the cache, even when it was created anew and is watched again.
HandlePeersExpiredRemovedLocal(n) ==
    /\ n \in forget
    /\ job[n] = Idle
    /\ forget' = forget \ {n}
    /\ cache' = cache \ {n}
    /\ disturbed' = (disturbed \/ (Connected /\ n \in cache))
    /\ UNCHANGED <<usePing, exists, status, at, fresh, job, ping, purge, moves, deletes,
                   faults>>

-----------------------------------------------------------------------------
(* The collector, which runs only without ping checks: one cycle of collect-  *)
(* PeerData, as far as it concerns the peer                                    *)

\* The device is read.  A peer in use is claimed if the cache does not know it and
\* updated if it does; a cached peer that is no longer in use is marked.  A peer
\* without row is skipped, but the cache follows the device all the same.
CollectPeerData(n) ==
    /\ ~usePing
    /\ job[n] = Idle
    /\ n \in fresh \cup cache
    /\ IF exists
         THEN /\ job' = [job EXCEPT ![n] =
                           [do |-> IF n \notin fresh THEN "mark"
                                   ELSE IF n \in cache THEN "update" ELSE "claim",
                            valid |-> n \in fresh]]
              /\ UNCHANGED cache
         ELSE /\ cache' = IF n \in fresh THEN cache \cup {n} ELSE cache \ {n}
              /\ UNCHANGED job
    /\ UNCHANGED <<usePing, exists, status, at, fresh, ping, purge, forget, disturbed,
                   moves, deletes, faults>>

\* End of the cycle: the cache holds the peers that were in use at its start.
Finish(n) ==
    /\ job' = [job EXCEPT ![n] = Idle]
    /\ cache' = IF job[n].do = "mark" THEN cache \ {n} ELSE cache \cup {n}
    /\ UNCHANGED <<usePing, exists, at, fresh, ping, purge, forget, moves, deletes>>

\* Mutant: the owner is recorded only when the row is new.
ClaimPeerStatusOnce(n) ==
    /\ job[n].do = "claim"
    /\ status' = IF exists THEN [Current EXCEPT !.connected = job[n].valid] ELSE status
    /\ Finish(n)
    /\ disturbed' = (disturbed \/ at \notin {n, Nobody})
    /\ UNCHANGED faults

\* updatePeerFromWireGuard for a new connection: ClaimPeerStatus with
\* CalcConnected, whoever owned the row.  getOrCreatePeerStatus refuses to create
\* the row of a deleted peer; an existing row is not checked for its peer.
ClaimPeerStatus(n) ==
    /\ job[n].do = "claim"
    /\ status' = IF exists \/ status # NoStatus
                   THEN [connected |-> job[n].valid, owner |-> n] ELSE status
    /\ Finish(n)
    /\ disturbed' = (disturbed \/ at \notin {n, Nobody})
    /\ UNCHANGED faults

\* updatePeerFromWireGuard for a known connection: the counters are written, the
\* connection state stays what it is (CalcConnected is not called).
UpdateFromWireGuard(n) ==
    /\ job[n].do = "update"
    /\ WriteStatus(n, Current.connected)
    /\ Finish(n)
    /\ UNCHANGED <<disturbed, faults>>

\* markPeerDisconnected.
MarkPeerDisconnected(n) ==
    /\ job[n].do = "mark"
    /\ WriteStatus(n, FALSE)
    /\ Finish(n)
    /\ UNCHANGED <<disturbed, faults>>

\* The transaction fails for good (the ten retries, or another error): a warning
\* is logged and the cache is brought up to date as if it had succeeded.
StatusUpdateFails(n) ==
    /\ job[n] # Idle
    /\ faults < MaxFaults
    /\ faults' = faults + 1
    /\ disturbed' = TRUE
    /\ Finish(n)
    /\ UNCHANGED status

-----------------------------------------------------------------------------
(* With ping checks: the workers, which compute the state from the handshake   *)
(* that the node's own device saw, and the updater of the counters             *)

EnqueuePingCheck(n) ==
    /\ usePing
    /\ exists
    /\ ping[n] = Idle
    /\ ping' = [ping EXCEPT ![n] = [do |-> "ping", valid |-> n \in fresh]]
    /\ UNCHANGED <<usePing, exists, status, at, fresh, cache, job, purge, forget, disturbed,
                   moves, deletes, faults>>

\* Mutant: the worker sets the flag and never clears it.
PingWorkerSets(n) ==
    /\ ping[n] # Idle
    /\ WriteStatus(n, ping[n].valid \/ Current.connected)
    /\ ping' = [ping EXCEPT ![n] = Idle]
    /\ UNCHANGED <<usePing, exists, at, fresh, cache, job, purge, forget, disturbed,
                   moves, deletes, faults>>

PingWorker(n) ==
    /\ ping[n] # Idle
    /\ WriteStatus(n, ping[n].valid)
    /\ ping' = [ping EXCEPT ![n] = Idle]
    /\ UNCHANGED <<usePing, exists, at, fresh, cache, job, purge, forget, disturbed,
                   moves, deletes, faults>>

\* updatePeerMetricsFromWireGuard: the counters are written, the connection state
\* stays what it is; a missing row is created.
UpdatePeerMetrics(n) ==
    /\ usePing
    /\ exists
    /\ WriteStatus(n, Current.connected)
    /\ UNCHANGED <<usePing, exists, at, fresh, cache, job, ping, purge, forget, disturbed,
                   moves, deletes, faults>>

\* The worker's transaction fails: a warning is logged.
PingUpdateFails(n) ==
    /\ ping[n] # Idle
    /\ faults < MaxFaults
    /\ faults' = faults + 1
    /\ ping' = [ping EXCEPT ![n] = Idle]
    /\ UNCHANGED <<usePing, exists, status, at, fresh, cache, job, purge, forget, disturbed,
                   moves, deletes>>

\* The process of node n dies and is started again: cache, work in progress and
\* undelivered events are gone; the device keeps its handshakes.
RestartNode(n) ==
    /\ faults < MaxFaults
    /\ faults' = faults + 1
    /\ disturbed' = TRUE
    /\ cache' = cache \ {n}
    /\ job' = [job EXCEPT ![n] = Idle]
    /\ ping' = [ping EXCEPT ![n] = Idle]
    /\ purge' = purge \ {n} /\ forget' = forget \ {n}
    /\ UNCHANGED <<usePing, exists, status, at, fresh, moves, deletes>>

-----------------------------------------------------------------------------
CollectorStep(n) ==
    \/ CollectPeerData(n)
    \/ ClaimPeerStatus(n) \/ UpdateFromWireGuard(n) \/ MarkPeerDisconnected(n)

PingStep(n) == EnqueuePingCheck(n) \/ PingWorker(n)

Environment ==
    \/ Disconnect
    \/ CreatePeer
    \/ \E n \in Node :
          \/ Connect(n) \/ DeletePeer(n) \/ DeletePeersByIDs(n)
          \/ StatusUpdateFails(n) \/ PingUpdateFails(n) \/ RestartNode(n)

Next ==
    \/ Environment
    \/ \E n \in Node :
          \/ Age(n) \/ HandlePeerDeleteEvent(n) \/ HandlePeersExpiredRemovedLocal(n)
          \/ CollectorStep(n) \/ PingStep(n) \/ UpdatePeerMetrics(n)

\* Tickers and workers run, events are handled, time passes.
Fairness ==
    \A n \in Node :
        /\ WF_vars(Age(n))
        /\ WF_vars(HandlePeerDeleteEvent(n))
        /\ SF_vars(HandlePeersExpiredRemovedLocal(n))
        /\ WF_vars(CollectorStep(n))
        /\ WF_vars(PingStep(n))

Spec == Init /\ [][Next]_vars
FairSpec == Spec /\ Fairness

-----------------------------------------------------------------------------
(* Properties *)

\* No status without peer: UpdatePeerStatus must not recreate "orphaned records",
\* in whatever order deletions, updates, claims and the second deletion by
\* handlePeerDeleteEvent come.
StatusHasPeer == status # NoStatus => exists

\* Nothing unusual has happened so far: no failed transaction of a collector, no
\* restart, no return of the client to a node that has not noticed its absence, no
\* handshake that grew too old between the reading of the device and the claim, no
\* claim by a node the client has already left for another, and no late event of a deletion that hit the peer created anew.
Calm == ~disturbed

\* Without ping checks a connected row is owned by a node that has the peer in its
\* cache and so will see it go and call markPeerDisconnected: nobody else may.  A
\* row that is offline has no owner.  With ping checks no row has an owner, so that
\* every worker may change it.
OwnerWatches ==
    status # NoStatus =>
        IF usePing THEN status.owner = Nobody
        ELSE Calm => IF status.connected THEN status.owner \in cache
                                         ELSE status.owner = Nobody

\* Only one of the two strategies is at work, and in calm times a claim is made with
\* a young handshake.
WorkInv ==
    \A n \in Node :
        /\ ping[n] # Idle => usePing
        /\ usePing => job[n] = Idle /\ n \notin cache
        /\ Calm /\ job[n] # Idle => (job[n].do = "claim" => job[n].valid)

\* The inductive invariant.
StatusInv == TypeOK /\ StatusHasPeer /\ OwnerWatches /\ WorkInv

\* A client that stays with a node is reported connected from some time on.  With
\* ping checks it is only reported connected again and again: a row without owner is
\* set by the worker of the node the client talks to and cleared by the workers of
\* the other nodes.
OnlineReported ==
    <>[](Calm /\ exists /\ at # Nobody) => IF usePing THEN []<>Connected ELSE <>[]Connected

\* A client that has left for good is reported offline from some time on, by the node
\* that owns the row or, with ping checks, by any worker: they see to that even after
\* failures and restarts, which the collector does not.
OfflineReported == <>[](at = Nobody /\ (Calm \/ usePing)) => <>[]~Connected

=============================================================================
