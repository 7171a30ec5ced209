------------------------------ MODULE PeerExpiry ------------------------------
(***************************************************************************)
(* Expiry of a peer: the time to live (TTL) that activity renews, the lock *)
(* that keeps activity from touching it, and the cleanup by the master.    *)
(*                                                                         *)
(* The collector or, with statistics.use_ping_checks, the ping workers     *)
(* publish TopicPeerStateChanged with a copy of the peer's row; the        *)
(* manager's handler writes that copy back with a new ExpiresAt.  The      *)
(* master looks for expired rows at intervals and deletes them.  All this  *)
(* runs concurrently with edits through the API.                           *)
(*                                                                         *)
(* Rows of different peers do not interact: the module follows one peer    *)
(* and the node its client uses.  Updates of peer_status succeed: they are *)
(* retried ten times, and PeerStatus has their failures.  (PeerStatus also *)
(* shows what the ping workers of other nodes do to the status.)           *)
(* Time is relative: a row knows how many ticks are left.  A tick is much  *)
(* longer than a handler or the 30 seconds of a cleanup, so time passes    *)
(* only when neither is at work.                                           *)
(*                                                                         *)
(* Sources: internal/app/wireguard/wireguard.go, wireguard_peers.go and    *)
(* statistics.go, internal/adapters/database.go, internal/app/api/v1.      *)
(***************************************************************************)
EXTENDS Naturals, Sequences

CONSTANTS
    TTL,          \* default_user_ttl
    Hour,         \* an offline peer with more time left is not touched
    Period,       \* data_collection_interval or ping_check_interval
    Dates,        \* expiry dates users ask for
    MaxQueue,     \* bound: events of the topic that wait
    MaxCreates,   \* bound: creations of the peer
    MaxEdits,     \* bound: edits of the peer
    MaxRestarts   \* bound: restarts of the node

ASSUME TimeAssumption == /\ TTL \in Nat /\ Hour \in Nat /\ Period \in Nat
                         /\ 0 < Period /\ Period <= Hour /\ Hour < TTL
ASSUME DatesAssumption == Dates \subseteq Nat
ASSUME BoundsAssumption == /\ MaxQueue \in Nat /\ MaxCreates \in Nat /\ MaxEdits \in Nat
                           /\ MaxRestarts \in Nat

VARIABLES
    deleteExpired, \* configuration: delete_expired_peers
    usePing,       \* configuration: statistics.use_ping_checks
    row,           \* the peer's row, or NoRow
    wish,          \* history: what was asked for when the peer was created
    present,       \* the client is connected
    reported,      \* IsConnected in peer_status
    active,        \* the collector's cache has the peer
    since,         \* ticks since the last cycle of the collector or the ping checks
    job,           \* the ping check that waits for a worker, or Idle
    gone,          \* announcements of a deletion the collector has not handled
    queue,         \* events the topic's handler has not taken yet
    upd,           \* per writer: the row it is about to save, or Idle
    form,          \* the peer as it was read by a user who edits it, or Idle
    found,         \* the master has found the peer expired and will delete it
    edited,        \* history: a user has saved an edit
    creates, edits, restarts

config == <<deleteExpired, usePing>>
user == <<wish, form, creates, edits>>
collector == <<reported, active, since, job, gone>>
vars == <<config, row, present, queue, upd, found, edited, restarts, user, collector>>

-----------------------------------------------------------------------------
\* Who saves the peer: the handler of the topic, or a request of a user.
Writer == {"ttl", "api"}

NoRow == [row |-> "none"]
Idle == [row |-> "idle"]

\* ExpiresAt (nil, or a number of ticks from now; 0 is the past) and TTLLocked.
Row == [expires : BOOLEAN, left : Nat, locked : BOOLEAN]

\* How a peer is created: without date, with a date in the portal or through the API
\* of peers, or provisioned with the default TTL, a date of its own or DoNotExpire.
Wish == {"none", "open", "default", "date", "never"}

\* An event carries IsConnected of a status and a copy of the row.
Event == [on : BOOLEAN, peer : Row]

TypeOK ==
    /\ deleteExpired \in BOOLEAN /\ usePing \in BOOLEAN
    /\ row \in Row \cup {NoRow}
    /\ wish \in Wish
    /\ present \in BOOLEAN /\ reported \in BOOLEAN
    /\ active \in BOOLEAN
    /\ since \in Nat
    /\ job \in Event \cup {Idle}
    /\ gone \subseteq {"deleted", "expired"}
    /\ queue \in Seq(Event)
    /\ upd \in [Writer -> Row \cup {Idle}]
    /\ form \in Row \cup {Idle}
    /\ found \in BOOLEAN /\ edited \in BOOLEAN
    /\ creates \in Nat /\ edits \in Nat /\ restarts \in Nat

Init ==
    /\ deleteExpired \in BOOLEAN /\ usePing \in BOOLEAN
    /\ row = NoRow /\ wish = "none"
    /\ present = FALSE /\ reported = FALSE /\ active = FALSE
    /\ since = 0
    /\ job = Idle /\ gone = {}
    /\ queue = <<>>
    /\ upd = [w \in Writer |-> Idle]
    /\ form = Idle
    /\ found = FALSE /\ edited = FALSE
    /\ creates = 0 /\ edits = 0 /\ restarts = 0

-----------------------------------------------------------------------------
(* Time *)

Older(r) == [r EXCEPT !.left = IF @ = 0 THEN 0 ELSE @ - 1]

\* A tick: the next cycle is due after Period ticks; nothing is at work.
Tick ==
    /\ since < Period
    /\ queue = <<>> /\ job = Idle /\ gone = {}
    /\ \A w \in Writer : upd[w] = Idle
    /\ ~found
    /\ since' = since + 1
    /\ row' = IF row = NoRow THEN NoRow ELSE Older(row)
    /\ form' = IF form = Idle THEN Idle ELSE Older(form)
    /\ UNCHANGED <<config, wish, present, reported, active, job, gone, queue, upd, found,
                   edited, creates, edits, restarts>>

\* The node's process dies: its queues, caches and requests are lost.
Restart ==
    /\ restarts < MaxRestarts
    /\ restarts' = restarts + 1
    /\ queue' = <<>> /\ job' = Idle /\ gone' = {}
    /\ upd' = [w \in Writer |-> Idle]
    /\ active' = FALSE /\ found' = FALSE
    /\ since' = 0
    /\ UNCHANGED <<config, row, present, reported, edited, user>>

-----------------------------------------------------------------------------
(* Users *)

\* The rows of a new peer.  Only provisioning locks a date.
NewPeer(how, d) ==
    CASE how = "none"    -> [expires |-> FALSE, left |-> 0,   locked |-> FALSE]
      [] how = "open"    -> [expires |-> TRUE,  left |-> d,   locked |-> FALSE]
      [] how = "default" -> [expires |-> TRUE,  left |-> TTL, locked |-> FALSE]
      [] how = "date"    -> [expires |-> TRUE,  left |-> d,   locked |-> TRUE]
      [] how = "never"   -> [expires |-> FALSE, left |-> 0,   locked |-> TRUE]

CreatePeer(how, d) ==
    /\ row = NoRow
    /\ creates < MaxCreates
    /\ creates' = creates + 1
    /\ row' = NewPeer(how, d)
    /\ wish' = how
    /\ UNCHANGED <<config, present, queue, upd, form, found, edited, edits, restarts,
                   collector>>

\* A user opens the peer.
OpenForm ==
    /\ row # NoRow
    /\ form = Idle
    /\ edits < MaxEdits
    /\ edits' = edits + 1
    /\ form' = row
    /\ UNCHANGED <<config, row, wish, present, queue, upd, found, edited, creates,
                   restarts, collector>>

\* UpdatePeer with the peer of an administrator's form, which has no TTLLocked, or
\* with the row of this moment and the ExpiresAt of a user's form.
SubmitForm(admin) ==
    /\ form # Idle
    /\ upd["api"] = Idle
    /\ form' = Idle
    /\ upd' = IF row = NoRow THEN upd
              ELSE [upd EXCEPT !["api"] =
                      [form EXCEPT !.locked = IF admin THEN FALSE ELSE row.locked]]
    /\ UNCHANGED <<config, row, wish, present, queue, found, edited, creates, edits,
                   restarts, collector>>

\* The row goes with its status; the collector's handler runs later.
DeletePeer ==
    /\ row # NoRow
    /\ row' = NoRow
    /\ present' = FALSE /\ reported' = FALSE
    /\ gone' = gone \cup {"deleted"}
    /\ UNCHANGED <<config, active, since, job, queue, upd, found, edited, restarts, user>>

Connect ==
    /\ row # NoRow
    /\ ~present
    /\ present' = TRUE
    /\ UNCHANGED <<config, row, queue, upd, found, edited, restarts, user, collector>>

Disconnect ==
    /\ present
    /\ present' = FALSE
    /\ UNCHANGED <<config, row, queue, upd, found, edited, restarts, user, collector>>

-----------------------------------------------------------------------------
(* The collector, or the ping checks *)

Publish(on, peer) ==
    /\ Len(queue) < MaxQueue
    /\ queue' = Append(queue, [on |-> on, peer |-> peer])

\* Mutant: only changes of state are published.
CollectChanges ==
    /\ ~usePing
    /\ since' = 0
    /\ active' = present
    /\ reported' = IF present THEN reported \/ (~active /\ row # NoRow)
                   ELSE reported /\ ~active
    /\ IF present /\ row # NoRow /\ reported' /\ ~reported
         THEN Publish(TRUE, row)
         ELSE UNCHANGED queue
    /\ UNCHANGED <<config, row, present, job, gone, upd, found, edited, restarts, user>>

\* A cycle of collectPeerData.  A peer in use that is new in the cache is claimed and
\* reported; one that is known keeps what is reported.  If it is reported an event is
\* published, with the zero status unless that was news.  A peer the cache loses is
\* marked offline without event.
Collect ==
    /\ ~usePing
    /\ since' = 0
    /\ active' = present
    /\ reported' = IF present THEN reported \/ (~active /\ row # NoRow)
                   ELSE reported /\ ~active
    /\ IF present /\ row # NoRow /\ reported'
         THEN Publish(~reported, row)
         ELSE UNCHANGED queue
    /\ UNCHANGED <<config, row, present, job, gone, upd, found, edited, restarts, user>>

\* A cycle of enqueuePingChecks, which runs instead of the collector.
EnqueuePingCheck ==
    /\ usePing
    /\ job = Idle
    /\ since' = 0
    /\ job' = IF row # NoRow THEN [on |-> present, peer |-> row] ELSE Idle
    /\ UNCHANGED <<config, row, present, reported, active, gone, queue, upd, found,
                   edited, restarts, user>>

\* A worker reports what the device said when the check was enqueued, and publishes a
\* change, and nothing but a change, with the row of that time.
PingWorker ==
    /\ job # Idle
    /\ job' = Idle
    /\ IF row # NoRow /\ job.on # reported
         THEN Publish(job.on, job.peer) /\ reported' = job.on
         ELSE UNCHANGED <<queue, reported>>
    /\ UNCHANGED <<config, row, present, active, since, gone, upd, found, edited,
                   restarts, user>>

\* handlePeerDeleteEvent deletes the status (of a new peer by now, perhaps),
\* handlePeersExpiredRemovedLocal the entry of the cache.
HandlePeerGone(g) ==
    /\ g \in gone
    /\ gone' = gone \ {g}
    /\ reported' = (reported /\ g # "deleted")
    /\ active' = (active /\ g # "expired")
    /\ UNCHANGED <<config, row, present, since, job, queue, upd, found, edited, restarts,
                   user>>

-----------------------------------------------------------------------------
(* The handler of TopicPeerStateChanged *)

\* Mutant: the lock is not looked at.
SkippedUnlocked(e) ==
    \/ ~deleteExpired
    \/ ~e.on /\ e.peer.expires /\ e.peer.left > Hour

\* Early returns of handlePeerStateChangeEvent: they look at the copy of the row.
Skipped(e) ==
    \/ ~deleteExpired
    \/ e.peer.locked
    \/ ~e.on /\ e.peer.expires /\ e.peer.left > Hour

\* The copy with a new ExpiresAt goes to UpdatePeer, which fails without row.
HandlePeerStateChange ==
    /\ queue # <<>>
    /\ upd["ttl"] = Idle
    /\ queue' = Tail(queue)
    /\ upd' = IF Skipped(Head(queue)) \/ row = NoRow THEN upd
              ELSE [upd EXCEPT !["ttl"] =
                      [expires |-> TRUE, left |-> TTL, locked |-> Head(queue).peer.locked]]
    /\ UNCHANGED <<config, row, present, found, edited, restarts, user, collector>>

\* savePeers: the whole row is written, and created if it is gone by now.
SavePeer(w) ==
    /\ upd[w] # Idle
    /\ row' = upd[w]
    /\ upd' = [upd EXCEPT ![w] = Idle]
    /\ edited' = (edited \/ w = "api")
    /\ UNCHANGED <<config, present, queue, found, restarts, user, collector>>

-----------------------------------------------------------------------------
(* The master *)

Expired(r) == r.expires /\ r.left = 0

\* Mutant: locked peers are not looked for.
FindUnlocked ==
    /\ row # NoRow /\ Expired(row) /\ ~row.locked
    /\ ~found
    /\ found' = TRUE
    /\ UNCHANGED <<config, row, present, queue, upd, edited, restarts, user, collector>>

\* GetExpiredPeers, whatever delete_expired_peers says.
Find ==
    /\ row # NoRow /\ Expired(row)
    /\ ~found
    /\ found' = TRUE
    /\ UNCHANGED <<config, row, present, queue, upd, edited, restarts, user, collector>>

\* DeletePeersByIDs with the status; the devices lose the peer later.
DeleteFound ==
    /\ found
    /\ found' = FALSE
    /\ row' = NoRow
    /\ reported' = FALSE
    /\ gone' = gone \cup {"expired"}
    /\ UNCHANGED <<config, present, active, since, job, queue, upd, edited, restarts,
                   user>>

\* The database refuses, or the 30 seconds are over: the next cycle tries again.
DeleteDeferred ==
    /\ found
    /\ found' = FALSE
    /\ UNCHANGED <<config, row, present, queue, upd, edited, restarts, user, collector>>

-----------------------------------------------------------------------------
User ==
    \/ \E how \in {"none", "default", "never"} : CreatePeer(how, 0)
    \/ \E how \in {"open", "date"}, d \in Dates : CreatePeer(how, d)
    \/ Connect \/ Disconnect
    \/ OpenForm \/ \E admin \in BOOLEAN : SubmitForm(admin)
    \/ DeletePeer

Next ==
    \/ Tick \/ Restart
    \/ User
    \/ Collect \/ EnqueuePingCheck \/ PingWorker
    \/ \E g \in {"deleted", "expired"} : HandlePeerGone(g)
    \/ HandlePeerStateChange
    \/ \E w \in Writer : SavePeer(w)
    \/ Find \/ DeleteFound \/ DeleteDeferred

\* Time passes, the tickers fire, handlers end, and the database does not refuse
\* every time.
Fairness ==
    /\ SF_vars(Tick)
    /\ WF_vars(Collect /\ since = Period) /\ WF_vars(EnqueuePingCheck /\ since = Period)
    /\ WF_vars(PingWorker) /\ WF_vars(HandlePeerStateChange)
    /\ \A g \in {"deleted", "expired"} : WF_vars(HandlePeerGone(g))
    /\ \A w \in Writer : WF_vars(SavePeer(w))
    /\ SF_vars(Find) /\ WF_vars(DeleteFound \/ DeleteDeferred) /\ SF_vars(DeleteFound)

Spec == Init /\ [][Next]_vars
FairSpec == Spec /\ Fairness

-----------------------------------------------------------------------------
(* Properties *)

\* No event waits and the handler is not saving.
Settled == queue = <<>> /\ upd["ttl"] = Idle

\* "Online peers must keep TTL renewed or they'll be deleted while still connected":
\* without ping checks a client that cache and status know to be connected never has
\* an expired row, unless its date was chosen or edited by a user.  The events of a
\* lasting connection look like those of an offline peer, so this rests on the hour
\* being longer than a cycle of the collector.
OnlineNotExpired ==
    /\ ~usePing /\ deleteExpired /\ ~edited /\ Settled /\ active /\ reported
    /\ row # NoRow /\ ~row.locked
    => ~Expired(row)

\* The same claim with ping checks: the row of a client whose connection has been
\* reported does not expire while it stays.  The code does not keep it: nothing is
\* published between two changes of the state.
PingedNotExpired ==
    /\ usePing /\ deleteExpired /\ ~edited /\ Settled /\ job = Idle /\ present /\ reported
    /\ row # NoRow /\ ~row.locked
    => ~Expired(row)

\* "If true, ExpiresAt should not be changed by activity tracking": a locked row only
\* grows older or is deleted, unless a user edits it.
LockHonoured ==
    [][~edited' /\ creates' <= 1 /\ row # NoRow /\ row.locked
         => row' \in {row, Older(row), NoRow}]_vars

\* A peer whose client stays away is removed when its time is over, whoever set the
\* date and however updates and cleanup overlap; and whatever delete_expired_peers
\* says, although the comment of the option has such peers disabled instead.
AwayRemoved == <>[]~present => <>[](row = NoRow \/ ~row.expires)

\* Why OnlineNotExpired holds: without row nothing is reported, and a row that activity
\* may renew has more time left than the next cycle needs, or its renewal is being
\* saved or waits in the queue.
RenewalInv ==
    /\ since <= Period
    /\ upd["ttl"] # Idle => upd["ttl"].expires /\ upd["ttl"].left = TTL
    /\ ~usePing => job = Idle
    /\ row = NoRow => ~reported
    /\ /\ ~usePing /\ deleteExpired /\ ~edited /\ active /\ reported
       /\ row # NoRow /\ ~row.locked /\ row.expires
       => \/ row.left + since > Hour
          \/ upd["ttl"] # Idle
          \/ \E i \in 1 .. Len(queue) : ~Skipped(queue[i])

\* Why LockHonoured holds: all copies of a peer that was created once and never edited
\* are locked if the peer was created so, and the handler saves none of them.
LineageInv ==
    /\ creates = 0 => /\ row = NoRow /\ queue = <<>> /\ form = Idle /\ job = Idle
                      /\ \A w \in Writer : upd[w] = Idle
    /\ upd["ttl"] # Idle => ~upd["ttl"].locked
    /\ ~edited /\ creates <= 1 =>
        /\ row # NoRow => (row.locked <=> wish \in {"date", "never"})
        /\ wish \in {"date", "never"} =>
             /\ upd["ttl"] = Idle
             /\ job # Idle => job.peer.locked
             /\ \A i \in 1 .. Len(queue) : queue[i].peer.locked

\* The inductive invariant.
ExpiryInv == TypeOK /\ RenewalInv /\ LineageInv

=============================================================================
