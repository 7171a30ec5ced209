------------------------------ MODULE PeerSync ------------------------------
(***************************************************************************)
(* Peer synchronisation in a cluster of portal nodes.                      *)
(*                                                                         *)
(* Every node runs the same server against one shared database and drives  *)
(* its own WireGuard device.  An API request that creates, updates or      *)
(* deletes a peer changes the device of the node it runs on, commits the   *)
(* row, and publishes a sync topic on the node's in-process bus.  Each     *)
(* (topic, subscriber) pair of that bus is one FIFO queue with one worker. *)
(* The node's own manager handles the topic, and the fan-out sends one     *)
(* HTTP POST per other node; the receiver publishes TopicPeerSyncedLocal,  *)
(* whose handler copies the row of the database to the receiver's device.  *)
(*                                                                         *)
(* A read that fails is taken for a missing row by the receiver, twice.    *)
(* A node that starts restores its device from the database before it      *)
(* serves (restore_state), or a second time beside the requests it already *)
(* serves (sync_on_startup), or both, or not at all.                       *)
(*                                                                         *)
(* Sources: internal/app/wireguard/{wireguard,wireguard_peers}.go,         *)
(* internal/app/fanout/fanout.go, api/v1/handlers/endpoint_peer.go,        *)
(* internal/adapters/{database,wgcontroller/local}.go, app.go, main.go.    *)
(***************************************************************************)
EXTENDS Naturals, Sequences, FiniteSets

CONSTANTS
    Node,       \* portal servers of the cluster
    Peer,       \* peer identifiers (public keys)
    Iface,      \* WireGuard interfaces; every node has all of them
    Cfg,        \* what a device takes from a row as it is (allowed addresses)
    Opt,        \* values of the preshared key, the endpoint and the keepalive
    Unset,      \* the empty one
    Asked,      \* bound: the rows that users ask for
    Existing,   \* bound: the rows in the table when the cluster starts
    Request,    \* slots for API requests being served at the same time
    QueueSize,  \* capacity of one bus queue (main.go passes 100)
    MaxOps,     \* bound: API requests started in a behaviour
    MaxFaults,  \* bound: failed sends, reads and transactions
    MaxCrashes  \* bound: crashes of nodes

\* The part of domain.Peer that devices and hasMeaningfulChanges look at.
Row == [cfg : Cfg, opt : Opt, iface : Iface, disabled : BOOLEAN]

ASSUME RowAssumption == Unset \in Opt /\ Asked \subseteq Row /\ Existing \subseteq Row
ASSUME BoundsAssumption ==
    /\ QueueSize \in Nat \ {0}
    /\ MaxOps \in Nat
    /\ MaxFaults \in Nat
    /\ MaxCrashes \in Nat

VARIABLES
    db,       \* the peers table
    dev,      \* per node and peer: what the device has of it on each interface
    req,      \* API requests in progress
    queue,    \* per node and topic: the manager's bus queue
    hnd,      \* per node and topic: the row a handler has read and not yet applied
    http,     \* fan-out goroutines whose POST has not been handled, per URL
    answer,   \* fan-out goroutines waiting for the answer of a handled POST, per URL
    failed,   \* failedHosts of the fan-outs: the URLs that have an entry
    up,       \* phase of each node
    snap,     \* per node: the peers RestoreInterfaceState has read
    due,      \* nodes whose background restore has not read its peers yet
    todo,     \* <<n, p>>: the background restore of n has still to place p
    wrote,    \* history: <<n, p>>: n served a request for p since it was restored, or
              \* died while it was
    lost,     \* history: <<n, p>>: a notification of p for n was dropped or met a failed
              \* read, or n has placed an old row of p, and n has not read p since
    silent,   \* history: peers whose last change was not announced
    moved,    \* history: peers that were asked to change their interface
    pace,     \* history: how requests for one peer have overlapped so far
    ops, faults, crashes

boot == <<up, snap, due, todo>>
net == <<http, answer, failed>>
history == <<wrote, lost, silent, moved, pace>>
counts == <<ops, faults, crashes>>
vars == <<db, dev, req, queue, hnd, net, boot, history, counts>>

-----------------------------------------------------------------------------
(* Data *)

None == [none |-> "none"]
PeerRow == Row \cup {None}

\* What the kernel holds of a peer on one interface, and on all of them.
Off == [off |-> "off"]
DevPeer == [cfg : Cfg, opt : Opt] \cup {Off}
Place == [Iface -> DevPeer]
Nowhere == [i \in Iface |-> Off]

Event == {"created", "updated", "deleted"}
Topic == Event \cup {"local"}

\* One URL of the fan-out: sender, receiver, peer_id and event parameters.
Msg == {m \in [from : Node, to : Node, peer : Peer, event : Event] : m.from # m.to}

IdleHnd == [busy |-> "idle"]
Holding == [peer : Peer, row : PeerRow]

ReqPc == {"device", "commit", "devdel", "dbdel", "publish"}
IdleReq == [pc |-> "idle"]
ActiveReq == [pc : ReqPc, node : Node, peer : Peer, row : PeerRow, iface : Iface,
              event : Event, announce : BOOLEAN, rekey : SUBSET Peer]

TypeOK ==
    /\ db \in [Peer -> PeerRow]
    /\ dev \in [Node -> [Peer -> Place]]
    /\ req \in [Request -> ActiveReq \cup {IdleReq}]
    /\ queue \in [Node -> [Topic -> Seq(Peer)]]
    /\ hnd \in [Node -> [Topic -> Holding \cup {IdleHnd}]]
    /\ http \in [Msg -> Nat]
    /\ answer \in [Msg -> Nat]
    /\ failed \in SUBSET Msg
    /\ up \in [Node -> {"up", "down", "restoring"}]
    /\ snap \in [Node -> [Peer -> PeerRow]]
    /\ due \in SUBSET Node
    /\ todo \in SUBSET (Node \X Peer)
    /\ wrote \in SUBSET (Node \X Peer)
    /\ lost \in SUBSET (Node \X Peer)
    /\ silent \in SUBSET Peer
    /\ moved \in SUBSET Peer
    /\ pace \in {"settled", "serial", "any"}
    /\ ops \in Nat /\ faults \in Nat /\ crashes \in Nat

\* MergeToPhysicalPeer and LocalController.SavePeer on one interface.  A disabled peer
\* is removed; an empty key or endpoint, or a zero keepalive, is passed as nil, so that
\* the kernel keeps what it has.
Merge(d, row) ==
    IF row.disabled THEN Off
    ELSE [cfg |-> row.cfg, opt |-> IF row.opt = Unset /\ d # Off THEN d.opt ELSE row.opt]

\* SavePeer writes to the interface of the row and to no other; a missing peer is
\* removed from all.
OnDevice(d, row) ==
    IF row = None THEN Nowhere ELSE [d EXCEPT ![row.iface] = Merge(@, row)]

\* RestoreInterfaceState saves the peers of an interface and removes all others from it.
Restored(d, row) ==
    [i \in Iface |-> IF row # None /\ row.iface = i THEN Merge(d[i], row) ELSE Off]

\* Mutant: a comparison that forgets the disabled flag.
HasMeaningfulChangesCfgOnly(old, new) == old.cfg # new.cfg \/ old.opt # new.opt

\* hasMeaningfulChanges compares everything a device takes, except the interface.
HasMeaningfulChanges(old, new) ==
    old.cfg # new.cfg \/ old.opt # new.opt \/ old.disabled # new.disabled

Active(r) == req[r] # IdleReq
Busy(n, t) == hnd[n][t] # IdleHnd
Queued(q, p) == \E i \in 1..Len(q) : q[i] = p

\* Some part of the cluster still has work to do for peer p.
Outstanding(p) ==
    \/ \E n \in Node, t \in Topic :
          \/ Queued(queue[n][t], p)
          \/ Busy(n, t) /\ hnd[n][t].peer = p
    \/ \E m \in Msg : m.peer = p /\ (http[m] > 0 \/ answer[m] > 0)
    \/ due # {} \/ \E n \in Node : <<n, p>> \in todo

\* The peers an active request works on.
OwnPeers(r) == {req[r].peer} \cup req[r].rekey

\* What a new request for the peers ps makes of the pace.  Requests for one peer have
\* overlapped ("any"), have run one after the other ("serial"), or have waited until
\* the previous change was handled everywhere ("settled").  The code enforces none.
Pacing(ps) ==
    IF pace = "any" \/ \E r \in Request : Active(r) /\ ps \cap OwnPeers(r) # {} THEN "any"
    ELSE IF pace = "serial" \/ \E p \in ps : Outstanding(p) THEN "serial"
    ELSE "settled"

-----------------------------------------------------------------------------
\* The cluster has started with some peers in the table and restored them everywhere.
Init ==
    /\ db \in [Peer -> Existing \cup {None}]
    /\ dev = [n \in Node |-> [p \in Peer |-> OnDevice(Nowhere, db[p])]]
    /\ req = [r \in Request |-> IdleReq]
    /\ queue = [n \in Node |-> [t \in Topic |-> <<>>]]
    /\ hnd = [n \in Node |-> [t \in Topic |-> IdleHnd]]
    /\ http = [m \in Msg |-> 0]
    /\ answer = [m \in Msg |-> 0]
    /\ failed = {}
    /\ up = [n \in Node |-> "up"]
    /\ snap = [n \in Node |-> [p \in Peer |-> None]]
    /\ due = {} /\ todo = {}
    /\ wrote = {} /\ lost = {} /\ silent = {} /\ moved = {}
    /\ pace = "settled"
    /\ ops = 0 /\ faults = 0 /\ crashes = 0

-----------------------------------------------------------------------------
(* API requests of the manager *)

\* A request enters the manager of node n and passes its checks.
Begin(r, n, new) ==
    /\ ~Active(r)
    /\ up[n] = "up"
    /\ ops < MaxOps
    /\ req' = [req EXCEPT ![r] = new]
    /\ wrote' = wrote \cup ({n} \X ({new.peer} \cup new.rekey))
    /\ pace' = Pacing({new.peer} \cup new.rekey)
    /\ ops' = ops + 1
    /\ UNCHANGED <<db, dev, queue, hnd, net, boot, lost, silent, faults, crashes>>

\* Mutant: CreatePeer saves the peer and forgets to publish its sync topic.
CreatePeerUnannounced(r, n, p, row) ==
    /\ db[p] = None
    /\ Begin(r, n, [pc |-> "device", node |-> n, peer |-> p, row |-> row, iface |-> row.iface,
                    event |-> "created", announce |-> FALSE, rekey |-> {}])
    /\ UNCHANGED moved

\* CreatePeer: refused with ErrDuplicateEntry when the row exists.
CreatePeer(r, n, p, row) ==
    /\ db[p] = None
    /\ Begin(r, n, [pc |-> "device", node |-> n, peer |-> p, row |-> row, iface |-> row.iface,
                    event |-> "created", announce |-> TRUE, rekey |-> {}])
    /\ UNCHANGED moved

\* UpdatePeer with an unchanged public key.  The row read here decides later
\* whether the update is announced; the payload, interface included, is the caller's.
UpdatePeer(r, n, p, row) ==
    /\ db[p] # None
    /\ Begin(r, n, [pc |-> "device", node |-> n, peer |-> p, row |-> row, iface |-> row.iface,
                    event |-> "updated",
                    announce |-> HasMeaningfulChanges(db[p], row), rekey |-> {}])
    /\ moved' = IF row.iface = db[p].iface THEN moved ELSE moved \cup {p}

\* UpdatePeer with a new public key q: DeletePeer(p), then savePeers(q).
RekeyPeer(r, n, p, q, row) ==
    /\ p # q
    /\ db[p] # None
    /\ db[q] = None
    /\ Begin(r, n, [pc |-> "devdel", node |-> n, peer |-> p, row |-> row, iface |-> db[p].iface,
                    event |-> "deleted", announce |-> TRUE, rekey |-> {q}])
    /\ UNCHANGED moved

\* DeletePeer: fails when the row does not exist.
DeletePeer(r, n, p) ==
    /\ db[p] # None
    /\ Begin(r, n, [pc |-> "devdel", node |-> n, peer |-> p, row |-> None, iface |-> db[p].iface,
                    event |-> "deleted", announce |-> TRUE, rekey |-> {}])
    /\ UNCHANGED moved

\* savePeers, inside the transaction: the device is written before the commit.
SaveDevice(r) ==
    /\ req[r].pc = "device"
    /\ dev' = [dev EXCEPT ![req[r].node][req[r].peer] = OnDevice(@, req[r].row)]
    /\ req' = [req EXCEPT ![r].pc = "commit"]
    /\ UNCHANGED <<db, queue, hnd, net, boot, history, counts>>

\* History of a commit of row to peer p: an announced write supersedes what was
\* dropped before it, an unannounced one that changes the row is remembered.
Commit(p, row, node, announced) ==
    /\ db' = [db EXCEPT ![p] = row]
    /\ IF announced
         THEN /\ lost' = lost \ ((Node \ {node}) \X {p})
              /\ silent' = silent \ {p}
         ELSE /\ silent' = IF row = db[p] THEN silent ELSE silent \cup {p}
              /\ UNCHANGED lost

\* SqlRepo.SavePeer commits.  FirstOrCreate and Save insert a missing row, so
\* an update recreates a row that another request has deleted meanwhile.  The
\* duplicate-key retry of CreatePeer finds the row and overwrites it.
CommitSave(r) ==
    /\ req[r].pc = "commit"
    /\ Commit(req[r].peer, req[r].row, req[r].node, req[r].announce)
    /\ req' = [req EXCEPT ![r] = IF req[r].announce
                                   THEN [req[r] EXCEPT !.pc = "publish"]
                                   ELSE IdleReq]
    /\ UNCHANGED <<dev, queue, hnd, net, boot, wrote, moved, pace, counts>>

\* The transaction fails after the device was written: the error is returned
\* and the device keeps what it was given.
AbortSave(r) ==
    /\ req[r].pc = "commit"
    /\ faults < MaxFaults
    /\ faults' = faults + 1
    /\ req' = [req EXCEPT ![r] = IdleReq]
    /\ UNCHANGED <<db, dev, queue, hnd, net, boot, history, ops, crashes>>

\* DeletePeer removes the peer from the local device first, from the interface of the
\* row it has read ...
DeleteDevice(r) ==
    /\ req[r].pc = "devdel"
    /\ dev' = [dev EXCEPT ![req[r].node][req[r].peer][req[r].iface] = Off]
    /\ req' = [req EXCEPT ![r].pc = "dbdel"]
    /\ UNCHANGED <<db, queue, hnd, net, boot, history, counts>>

\* ... and then from the database.
CommitDelete(r) ==
    /\ req[r].pc = "dbdel"
    /\ Commit(req[r].peer, None, req[r].node, TRUE)
    /\ req' = [req EXCEPT ![r].pc = "publish"]
    /\ UNCHANGED <<dev, queue, hnd, net, boot, wrote, moved, pace, counts>>

AbortDelete(r) ==
    /\ req[r].pc = "dbdel"
    /\ faults < MaxFaults
    /\ faults' = faults + 1
    /\ req' = [req EXCEPT ![r] = IdleReq]
    /\ UNCHANGED <<db, dev, queue, hnd, net, boot, history, ops, crashes>>

\* Mutant: after a change of public key the new peer is not announced.
AfterPublishQuiet(q) ==
    IF q.rekey = {} THEN IdleReq
    ELSE [q EXCEPT !.pc = "device", !.peer = CHOOSE p \in q.rekey : TRUE,
                   !.event = "updated", !.rekey = {}, !.announce = FALSE]

\* The request after it has published its sync topic: done, unless the delete
\* was the first half of a change of public key.
AfterPublish(q) ==
    IF q.rekey = {} THEN IdleReq
    ELSE [q EXCEPT !.pc = "device", !.peer = CHOOSE p \in q.rekey : TRUE,
                   !.event = "updated", !.rekey = {}, !.announce = TRUE]

\* Publish on TopicPeer{Created,Updated,Deleted}Sync: the manager's queue gets
\* the identifier and the fan-out starts fireForPeerEvent, one POST per other
\* node.  Publish blocks while the queue is full.
Publish(r) ==
    LET n == req[r].node
        p == req[r].peer
        e == req[r].event
    IN  /\ req[r].pc = "publish"
        /\ Len(queue[n][e]) < QueueSize
        /\ queue' = [queue EXCEPT ![n][e] = Append(@, p)]
        /\ http' = [m \in Msg |-> IF m.from = n /\ m.peer = p /\ m.event = e
                                    THEN http[m] + 1 ELSE http[m]]
        /\ req' = [req EXCEPT ![r] = AfterPublish(req[r])]
        /\ UNCHANGED <<db, dev, hnd, answer, failed, boot, history, counts>>

-----------------------------------------------------------------------------
(* Handlers of the manager, one worker per topic *)

\* The worker of topic t takes the next identifier of its queue.
Take(n, t) ==
    /\ up[n] = "up"
    /\ ~Busy(n, t)
    /\ queue[n][t] # <<>>
    /\ queue' = [queue EXCEPT ![n][t] = Tail(@)]

\* handlePeerCreatedSyncEvent and handlePeerUpdatedSyncEvent, first half: the
\* row is read; nothing is done when it does not exist.
ReadForSync(n, t) ==
    LET p == Head(queue[n][t]) IN
    /\ t \in {"created", "updated"}
    /\ Take(n, t)
    /\ hnd' = [hnd EXCEPT ![n][t] = IF db[p] = None THEN IdleHnd
                                    ELSE [peer |-> p, row |-> db[p]]]
    /\ UNCHANGED <<db, dev, req, net, boot, history, counts>>

\* Mutant: the local handler ignores a peer whose row is gone, as the handlers of
\* the created and updated topics do.
ReadForLocalExisting(n) ==
    LET p == Head(queue[n]["local"]) IN
    /\ Take(n, "local")
    /\ hnd' = [hnd EXCEPT ![n]["local"] = IF db[p] = None THEN IdleHnd
                                          ELSE [peer |-> p, row |-> db[p]]]
    /\ lost' = lost \ {<<n, p>>}
    /\ UNCHANGED <<db, dev, req, net, boot, wrote, silent, moved, pace, counts>>

\* handlePeerSyncedLocalEvent, first half.  What n has missed of p before is made up.
ReadForLocal(n) ==
    LET p == Head(queue[n]["local"]) IN
    /\ Take(n, "local")
    /\ hnd' = [hnd EXCEPT ![n]["local"] = [peer |-> p, row |-> db[p]]]
    /\ lost' = lost \ {<<n, p>>}
    /\ UNCHANGED <<db, dev, req, net, boot, wrote, silent, moved, pace, counts>>

\* The database does not answer a handler.  The three of the sync topics give up; the
\* local one takes any error of GetPeer for a missing row and removes the peer, unless
\* GetAllInterfaces fails as well.
ReadFails(n, t) ==
    LET p == Head(queue[n][t]) IN
    /\ Take(n, t)
    /\ faults < MaxFaults
    /\ faults' = faults + 1
    /\ IF t = "local"
         THEN /\ hnd' \in {hnd, [hnd EXCEPT ![n][t] = [peer |-> p, row |-> None]]}
              /\ lost' = lost \cup {<<n, p>>}
         ELSE UNCHANGED <<hnd, lost>>
    /\ UNCHANGED <<db, dev, req, net, boot, wrote, silent, moved, pace, ops, crashes>>

\* Second half of the three handlers: the row that was read reaches the device
\* (a missing row, held by the local handler only, removes the peer).
ApplyRead(n, t) ==
    /\ Busy(n, t)
    /\ dev' = [dev EXCEPT ![n][hnd[n][t].peer] = OnDevice(@, hnd[n][t].row)]
    /\ hnd' = [hnd EXCEPT ![n][t] = IdleHnd]
    /\ UNCHANGED <<db, req, queue, net, boot, history, counts>>

\* handlePeerDeletedSyncEvent: removes the peer from all interfaces, without asking the
\* database for it.
HandleDeleted(n) ==
    /\ Take(n, "deleted")
    /\ dev' = [dev EXCEPT ![n][Head(queue[n]["deleted"])] = Nowhere]
    /\ UNCHANGED <<db, req, hnd, net, boot, history, counts>>

-----------------------------------------------------------------------------
(* Fan-out and the receiving endpoint *)

\* Mutant: every notification of a missing peer is discarded, deletions too.
AcceptsExisting(m) == db[m.peer] # None

\* handleSyncPost with a peer_id: the topic TopicPeerSyncedLocal is published
\* when the row exists or the event is a deletion.
Accepts(m) == db[m.peer] # None \/ m.event = "deleted"

\* Mutant: the endpoint publishes the query parameters, not the identifier.
HandleSyncPostWhole(m) ==
    /\ http[m] > 0
    /\ up[m.to] = "up"
    /\ Accepts(m)
    /\ Len(queue[m.to]["local"]) < QueueSize
    /\ queue' = [queue EXCEPT ![m.to]["local"] = Append(@, m)]
    /\ http' = [http EXCEPT ![m] = @ - 1]
    /\ answer' = [answer EXCEPT ![m] = @ + 1]
    /\ UNCHANGED <<db, dev, req, hnd, failed, boot, history, counts>>

\* Mutant: the endpoint publishes a sync topic, which is fanned out again.
HandleSyncPostEcho(m) ==
    /\ http[m] > 0
    /\ up[m.to] = "up"
    /\ http' = [k \in Msg |-> CASE k = m -> http[k] - 1
                               [] k.from = m.to /\ k.peer = m.peer /\ k.event = m.event
                                    -> http[k] + 1
                               [] OTHER -> http[k]]
    /\ answer' = [answer EXCEPT ![m] = @ + 1]
    /\ UNCHANGED <<db, dev, req, queue, hnd, failed, boot, history, counts>>

\* A fan-out goroutine whose POST reaches the endpoint of the receiver.
HandleSyncPost(m) ==
    /\ http[m] > 0
    /\ up[m.to] = "up"
    /\ IF Accepts(m)
         THEN /\ Len(queue[m.to]["local"]) < QueueSize
              /\ queue' = [queue EXCEPT ![m.to]["local"] = Append(@, m.peer)]
         ELSE UNCHANGED queue
    /\ http' = [http EXCEPT ![m] = @ - 1]
    /\ answer' = [answer EXCEPT ![m] = @ + 1]
    /\ UNCHANGED <<db, dev, req, hnd, failed, boot, history, counts>>

\* GetById fails: the endpoint takes the row for missing, drops the notification unless
\* it is of a deletion, and answers 204, which the sender counts as a success.
HandleSyncPostUnread(m) ==
    /\ http[m] > 0
    /\ up[m.to] = "up"
    /\ m.event # "deleted"
    /\ faults < MaxFaults
    /\ faults' = faults + 1
    /\ http' = [http EXCEPT ![m] = @ - 1]
    /\ answer' = [answer EXCEPT ![m] = @ + 1]
    /\ lost' = lost \cup {<<m.to, m.peer>>}
    /\ UNCHANGED <<db, dev, req, queue, hnd, failed, boot, wrote, silent, moved, pace,
                   ops, crashes>>

\* The answer arrives: clearHostFailed.
AnswerOk(m) ==
    /\ answer[m] > 0
    /\ answer' = [answer EXCEPT ![m] = @ - 1]
    /\ failed' = failed \ {m}
    /\ UNCHANGED <<db, dev, req, queue, hnd, http, boot, history, counts>>

\* A failure of the exchange m: for free when the receiver is not running.
Fault(m) ==
    IF up[m.to] = "up" THEN faults < MaxFaults /\ faults' = faults + 1
                       ELSE UNCHANGED faults

\* The answer is lost or late: markHostFailed, although the POST was handled.
AnswerLost(m) ==
    /\ answer[m] > 0
    /\ Fault(m)
    /\ answer' = [answer EXCEPT ![m] = @ - 1]
    /\ failed' = failed \cup {m}
    /\ UNCHANGED <<db, dev, req, queue, hnd, http, boot, history, ops, crashes>>

\* The POST never reaches the receiver: markHostFailed, and it is not repeated.
SendFail(m) ==
    /\ http[m] > 0
    /\ Fault(m)
    /\ http' = [http EXCEPT ![m] = @ - 1]
    /\ failed' = failed \cup {m}
    /\ lost' = lost \cup {<<m.to, m.peer>>}
    /\ UNCHANGED <<db, dev, req, queue, hnd, answer, boot, wrote, silent, moved, pace,
                   ops, crashes>>

\* hostCanRetry refuses a URL that has an entry in failedHosts and whose backoff
\* has not passed: the notification is dropped without an attempt.  (The retry
\* count is left out: with an entry the URL may be skipped and, since the count
\* is read before other goroutines change it, may be tried.)
SendSkip(m) ==
    /\ http[m] > 0
    /\ m \in failed
    /\ http' = [http EXCEPT ![m] = @ - 1]
    /\ lost' = lost \cup {<<m.to, m.peer>>}
    /\ UNCHANGED <<db, dev, req, queue, hnd, answer, failed, boot, wrote, silent, moved, pace,
                   counts>>

-----------------------------------------------------------------------------
(* Crash and restart *)

\* What dies with node n unsent: its requests' announcements and its POSTs ...
Unsent(n) ==
    {x \in (Node \ {n}) \X Peer :
        \/ \E r \in Request : /\ Active(r)
                              /\ req[r].node = n
                              /\ req[r].pc = "publish"
                              /\ req[r].peer = x[2]
        \/ \E m \in Msg : m.from = n /\ http[m] > 0 /\ m.to = x[1] /\ m.peer = x[2]}

\* ... and what it has received and not applied.
Unapplied(n) ==
    {n} \X {p \in Peer : \/ Queued(queue[n]["local"], p)
                         \/ Busy(n, "local") /\ hnd[n]["local"].peer = p}

\* The process dies: bus, handlers, requests, restores and failedHosts are memory only;
\* the kernel keeps its device.  The interrupted transactions roll back.
Crash(n) ==
    /\ up[n] # "down"
    /\ crashes < MaxCrashes
    /\ crashes' = crashes + 1
    /\ up' = [up EXCEPT ![n] = "down"]
    /\ snap' = [snap EXCEPT ![n] = [p \in Peer |-> None]]
    /\ due' = due \ {n}
    /\ todo' = todo \ ({n} \X Peer)
    /\ queue' = [queue EXCEPT ![n] = [t \in Topic |-> <<>>]]
    /\ hnd' = [hnd EXCEPT ![n] = [t \in Topic |-> IdleHnd]]
    /\ req' = [r \in Request |-> IF Active(r) /\ req[r].node = n THEN IdleReq ELSE req[r]]
    /\ http' = [m \in Msg |-> IF m.from = n THEN 0 ELSE http[m]]
    /\ answer' = [m \in Msg |-> IF m.from = n THEN 0 ELSE answer[m]]
    /\ failed' = {m \in failed : m.from # n}
    /\ lost' = lost \cup Unsent(n) \cup Unapplied(n)
    /\ wrote' = IF up[n] = "restoring" THEN wrote \cup ({n} \X Peer) ELSE wrote
    /\ UNCHANGED <<db, dev, silent, moved, pace, ops, faults>>

\* With restore_state app.Initialize runs RestoreInterfaceState, which reads all peers ...
StartRestore(n) ==
    /\ up[n] = "down"
    /\ up' = [up EXCEPT ![n] = "restoring"]
    /\ snap' = [snap EXCEPT ![n] = db]
    /\ wrote' = wrote \ ({n} \X Peer)
    /\ lost' = lost \ ({n} \X Peer)
    /\ UNCHANGED <<db, dev, req, queue, hnd, net, due, todo, silent, moved, pace, counts>>

\* The node serves; with sync_on_startup main has started a second restore.
Serve(n) ==
    /\ up' = [up EXCEPT ![n] = "up"]
    /\ due' \in {due, due \cup {n}}

\* Mutant: the restore adds peers and does not remove the ones without a row.
FinishRestoreAddOnly(n) ==
    /\ up[n] = "restoring"
    /\ dev' = [dev EXCEPT ![n] = [p \in Peer |-> IF snap[n][p] = None THEN @[p]
                                                 ELSE Restored(@[p], snap[n][p])]]
    /\ snap' = [snap EXCEPT ![n] = [p \in Peer |-> None]]
    /\ Serve(n)
    /\ UNCHANGED <<db, req, queue, hnd, net, todo, history, counts>>

\* ... saves them on the device, removes every other peer from it, and only
\* afterwards main starts the web server.
FinishRestore(n) ==
    /\ up[n] = "restoring"
    /\ dev' = [dev EXCEPT ![n] = [p \in Peer |-> Restored(@[p], snap[n][p])]]
    /\ snap' = [snap EXCEPT ![n] = [p \in Peer |-> None]]
    /\ Serve(n)
    /\ UNCHANGED <<db, req, queue, hnd, net, todo, history, counts>>

\* Without restore_state the device stays as the kernel has it.
BootPlain(n) ==
    /\ up[n] = "down"
    /\ Serve(n)
    /\ UNCHANGED <<db, dev, req, queue, hnd, net, snap, todo, history, counts>>

\* RestoreInterfaceState of sync_on_startup, in a goroutine of its own: the peers are
\* read (the goroutine ends when that fails) ...
StartSync(n) ==
    /\ n \in due
    /\ due' = due \ {n}
    /\ snap' = [snap EXCEPT ![n] = db]
    /\ todo' = todo \cup ({n} \X Peer)
    /\ UNCHANGED <<db, dev, req, queue, hnd, net, up, history, counts>>

\* ... and placed one after the other while the node serves, old rows as well.
SyncPeer(n, p) ==
    /\ <<n, p>> \in todo
    /\ todo' = todo \ {<<n, p>>}
    /\ dev' = [dev EXCEPT ![n][p] = Restored(@, snap[n][p])]
    /\ snap' = [snap EXCEPT ![n][p] = None]
    /\ lost' = IF snap[n][p] = db[p] THEN lost ELSE lost \cup {<<n, p>>}
    /\ UNCHANGED <<db, req, queue, hnd, net, up, due, wrote, silent, moved, pace, counts>>

-----------------------------------------------------------------------------
RequestStart ==
    \E r \in Request, n \in Node, p \in Peer :
        \/ \E row \in Asked : CreatePeer(r, n, p, row)
        \/ \E row \in Asked : UpdatePeer(r, n, p, row)
        \/ \E q \in Peer, row \in Asked : RekeyPeer(r, n, p, q, row)
        \/ DeletePeer(r, n, p)

RequestStep(r) ==
    \/ SaveDevice(r)
    \/ CommitSave(r)
    \/ DeleteDevice(r)
    \/ CommitDelete(r)
    \/ Publish(r)

HandlerStep(n) ==
    \/ \E t \in Topic : ReadForSync(n, t) \/ ReadFails(n, t) \/ ApplyRead(n, t)
    \/ ReadForLocal(n)
    \/ HandleDeleted(n)

Deliver(m) == HandleSyncPost(m) \/ HandleSyncPostUnread(m) \/ SendFail(m) \/ SendSkip(m)

Answered(m) == AnswerOk(m) \/ AnswerLost(m)

Restart(n) == StartRestore(n) \/ FinishRestore(n) \/ BootPlain(n)

BackgroundRestore(n) == StartSync(n) \/ \E p \in Peer : SyncPeer(n, p)

Environment ==
    \/ RequestStart
    \/ \E r \in Request : AbortSave(r) \/ AbortDelete(r)
    \/ \E n \in Node : Crash(n)

Next ==
    \/ Environment
    \/ \E r \in Request : RequestStep(r)
    \/ \E n \in Node : HandlerStep(n)
    \/ \E m \in Msg : Deliver(m) \/ Answered(m)
    \/ \E n \in Node : Restart(n) \/ BackgroundRestore(n)

\* Every goroutine that can run does run, and a node that went down comes back.
Fairness ==
    /\ \A r \in Request : WF_vars(RequestStep(r))
    /\ \A n \in Node :
          /\ \A t \in Topic : WF_vars(ReadForSync(n, t)) /\ WF_vars(ApplyRead(n, t))
          /\ WF_vars(ReadForLocal(n))
          /\ WF_vars(HandleDeleted(n))
          /\ WF_vars(Restart(n))
          /\ WF_vars(BackgroundRestore(n))
    /\ \A m \in Msg : WF_vars(Deliver(m)) /\ WF_vars(Answered(m))

Spec == Init /\ [][Next]_vars
FairSpec == Spec /\ Fairness

-----------------------------------------------------------------------------
(* Properties *)

\* Nothing is left to do anywhere and every node is running.
Quiescent ==
    /\ \A r \in Request : ~Active(r)
    /\ \A n \in Node : up[n] = "up"
    /\ \A p \in Peer : ~Outstanding(p)

\* A notification of peer p is still on its way to node n, and the endpoint of
\* n will not discard it.
Announced(n, p) ==
    \/ \E r \in Request : /\ req[r].pc = "publish"
                          /\ req[r].node # n
                          /\ req[r].peer = p
                          /\ db[p] # None \/ req[r].event = "deleted"
    \/ \E m \in Msg : m.to = n /\ m.peer = p /\ http[m] > 0 /\ Accepts(m)
    \/ Queued(queue[n]["local"], p)

\* One interface of a device has what a row asks of it.  What the row leaves empty may
\* be anything: nobody ever clears it.
Holds(d, row) ==
    IF row.disabled THEN d = Off
    ELSE d # Off /\ d.cfg = row.cfg /\ (row.opt # Unset => d.opt = row.opt)

\* A device shows a row: a missing one on no interface, another one on its own.
Shows(d, row) == IF row = None THEN d = Nowhere ELSE Holds(d[row.iface], row)

\* The device of n shows the row of p, or will as soon as the restore that n waits for,
\* or its local handler, is finished.
Fresh(n, p) ==
    IF up[n] = "restoring" THEN snap[n][p] = db[p]
    ELSE IF Busy(n, "local") /\ hnd[n]["local"].peer = p THEN hnd[n]["local"].row = db[p]
    ELSE Shows(dev[n][p], db[p])

\* Node n is excused for peer p, or agrees with the database, or soon will.
InSync(n, p) ==
    \/ <<n, p>> \in wrote \cup lost
    \/ p \in silent
    \/ Announced(n, p)
    \/ Fresh(n, p)

\* Agreement of nodes that only receive a peer.  For a node, running or not, that has
\* not itself served a request for p since its device was restored, the device matches
\* the database, or the notification that will repair it is still on its way - or the
\* last notification was dropped or met a failed read, or a background restore has
\* undone it (lost), or UpdatePeer skipped it (silent).  fireForPeerEvent,
\* handleSyncPost, handlePeerSyncedLocalEvent and the restores together must keep this,
\* in every interleaving.
RemoteAgreement == \A n \in Node, p \in Peer : InSync(n, p)

\* What makes RemoteAgreement inductive.  A request in progress runs on a running
\* node, is recorded in wrote, and carries a row where it will need one ...
RequestShape ==
    \A r \in Request : Active(r) =>
        /\ up[req[r].node] = "up"
        /\ <<req[r].node, req[r].peer>> \in wrote
        /\ \A q \in req[r].rekey : <<req[r].node, q>> \in wrote
        /\ req[r].pc \in {"device", "commit"} \/ req[r].rekey # {} => req[r].row # None
        /\ req[r].pc \in {"devdel", "dbdel"} => req[r].event = "deleted"

\* ... the three sync topics of a node mention only peers it has served ...
OwnTopics ==
    \A n \in Node, t \in Event, p \in Peer :
        Queued(queue[n][t], p) \/ (Busy(n, t) /\ hnd[n][t].peer = p) => <<n, p>> \in wrote

\* ... and a node that is not running has neither handlers nor a background restore.
DownQuiet ==
    \A n \in Node : up[n] # "up" =>
        /\ \A t \in Topic : queue[n][t] = <<>> /\ ~Busy(n, t)
        /\ n \notin due /\ \A p \in Peer : <<n, p>> \notin todo

IInv == TypeOK /\ RequestShape /\ OwnTopics /\ DownQuiet /\ RemoteAgreement

\* What serial requests add: two requests never work on the same peer, so what
\* UpdatePeer read is still the row when it skips the announcement.
SerialInv ==
    /\ \A r, s \in Request : Active(r) /\ Active(s) /\ r # s => OwnPeers(r) \cap OwnPeers(s) = {}
    /\ \A r \in Request : Active(r) /\ req[r].pc \in {"device", "commit"} /\ ~req[r].announce
                           => /\ db[req[r].peer] # None
                              /\ req[r].row = db[req[r].peer] \/ req[r].peer \in moved
    /\ silent \subseteq moved

\* When requests for one peer do not overlap, hasMeaningfulChanges hides one kind of
\* change and no other: that of the interface, which decides the device.
NeverSilent == pace # "any" => silent \subseteq moved

\* When requests for one peer do not overlap, a row that (re)appears in the database is
\* about to be announced on the bus: SavePeer's FirstOrCreate never brings a deleted peer
\* back unnoticed.
AppearsAnnounced ==
    \A p \in Peer : db[p] = None /\ db'[p] # None =>
        \E r \in Request : req'[r].pc = "publish" /\ req'[r].peer = p
RowsAppearAnnounced == [][pace' # "any" => AppearsAnnounced]_vars

\* Nothing has failed and no node has crashed.
Calm == faults = 0 /\ crashes = 0

\* On the interfaces that the row of p does not name, node n has nothing.
Elsewhere(n, p) == db[p] # None => \A i \in Iface \ {db[p].iface} : dev[n][p][i] = Off

\* When each change waited for the last one to be handled everywhere, and nothing failed,
\* then once all work is done every device shows the rows of the database, those of the
\* nodes that served the requests as well: what "event-driven sync handles peer
\* synchronization across nodes - NO periodic full syncs needed" promises.  Two things
\* are left out since the code does not do them: a change of the interface alone reaches
\* nobody (silent), and a peer that was moved stays on its old interface.
AgreeWhenQuiet ==
    pace = "settled" /\ Calm /\ Quiescent =>
        \A n \in Node, p \in Peer :
            /\ p \in silent \cap moved \/ Shows(dev[n][p], db[p])
            /\ p \in moved \/ Elsewhere(n, p)

\* What settled requests add as long as nothing fails, so that the nodes that write
\* agree as well.  Nobody else has work for the peers of a request; between device
\* and commit its node is ahead of the table, and what it publishes is what the
\* table holds ...
Alone(r) ==
    LET n == req[r].node
        p == req[r].peer
        row == req[r].row
    IN  /\ p \notin req[r].rekey
        /\ \A q \in req[r].rekey : db[q] = None
        /\ \A q \in OwnPeers(r) : ~Outstanding(q)
        /\ req[r].pc \in {"device", "commit"} =>
              /\ req[r].event # "deleted"
              /\ db[p] # None /\ p \notin moved => row.iface = db[p].iface
        /\ req[r].pc = "commit" =>
              /\ Shows(dev[n][p], row)
              /\ p \in moved \/ \A i \in Iface \ {row.iface} : dev[n][p][i] = Off
        /\ req[r].pc \in {"devdel", "dbdel"} => db[p] # None /\ req[r].iface = db[p].iface
        /\ req[r].pc = "dbdel" => p \in moved \/ dev[n][p] = Nowhere
        /\ req[r].pc = "publish" => (req[r].event = "deleted" <=> db[p] = None)
AloneOnPeers == \A r \in Request : Active(r) => Alone(r)

\* ... no handler works with an old row, and only deleted peers await removal ...
HandlersFresh ==
    \A n \in Node :
        /\ \A t \in Topic : Busy(n, t) => hnd[n][t].row = db[hnd[n][t].peer]
        /\ \A p \in Peer : Queued(queue[n]["deleted"], p) => db[p] = None

\* ... and a device that differs from the table belongs to the request's own node,
\* or will be told, or will be swept clean of a deleted peer, or its local handler is at
\* work.
Ahead(n, p) ==
    \E r \in Request : req[r].pc \in {"commit", "dbdel"} /\ req[r].node = n /\ req[r].peer = p
Removing(n, p) ==
    \/ Queued(queue[n]["deleted"], p)
    \/ \E r \in Request : /\ req[r].pc = "publish" /\ req[r].event = "deleted"
                          /\ req[r].node = n /\ req[r].peer = p
Placed(n, p) ==
    \/ Ahead(n, p)
    \/ Announced(n, p)
    \/ Removing(n, p)
    \/ Busy(n, "local") /\ hnd[n]["local"].peer = p
    \/ p \in silent
    \/ Shows(dev[n][p], db[p])

\* A peer that was never asked to move is on one interface only.
OneInterface(n, p) == p \in moved \/ Ahead(n, p) \/ Elsewhere(n, p)

Settled ==
    /\ failed = {} /\ due = {} /\ todo = {} /\ \A n \in Node : up[n] = "up"
    /\ AloneOnPeers
    /\ HandlersFresh
    /\ \A n \in Node, p \in Peer : Placed(n, p) /\ OneInterface(n, p)
SettledInv == Calm /\ pace = "settled" => Settled

\* A deleted peer is on no device once all work is done, the purpose of
\* handlePeerDeletedSyncEvent ("removes a deleted peer from local WireGuard").
DeletedLeaveDevices ==
    pace # "any" /\ Quiescent => \A n \in Node, p \in Peer : db[p] = None => dev[n][p] = Nowhere

\* The cluster comes to rest: handling a notification never causes another one
\* ("8. fanout does NOT re-fanout", "9. Result: No loop").
EventuallyQuiet == <>[]Quiescent

=============================================================================
