------------------------------- MODULE Accounts -------------------------------
(***************************************************************************)
(* A user, the LDAP directory the user comes from, and the user's peers.   *)
(*                                                                         *)
(* Requests of administrators, logins and the LDAP synchronisation of      *)
(* every node create, update, disable, enable and delete the user's row.   *)
(* Each of them reads the row, decides which topic it will publish, writes *)
(* the row and publishes.  The WireGuard manager of the same node handles  *)
(* the topics, one worker each, and makes the user's peers follow: default *)
(* peers for a new user, no active peer for a disabled or deleted one.     *)
(*                                                                         *)
(* Users do not interact, nor do interfaces: the module follows one user   *)
(* and one server interface.  A row's attributes are told apart only for   *)
(* users from LDAP.  A locked user is one who does not log in.  An update  *)
(* of one peer is one step (PeerSync has its inside).                      *)
(*                                                                         *)
(* Sources: internal/app/users, internal/app/auth/auth.go,                 *)
(* internal/app/wireguard/{wireguard,wireguard_peers}.go.                  *)
(***************************************************************************)
EXTENDS Naturals

CONSTANTS
    Node,       \* portal servers
    Request,    \* slots for requests served at the same time
    Peer,       \* public keys of the user's peers
    Attr,       \* attributes of an LDAP entry (names, mail, groups)
    NoEntry,    \* no LDAP entry; the attributes of users from elsewhere
    On,         \* options that are on in every instance
    MaxOps,     \* bound: requests of users and administrators
    MaxMoves,   \* bound: changes of the directory
    MaxFaults   \* bound: failed updates of peers and crashes

\* Configuration: create_default_peer_on_creation, create_default_peer,
\* re_enable_peer_after_user_enable, delete_peer_after_user_deleted, and of the LDAP
\* provider disable_missing, auto_re_enable, registration_enabled.
Option == {"peerOnCreation", "peerOnLogin", "reEnablePeers", "deletePeers",
           "disableMissing", "autoReEnable", "register"}

ASSUME SlotAssumption == Node \cap Request = {}
ASSUME EntryAssumption == NoEntry \notin Attr
ASSUME OptionAssumption == On \subseteq Option
ASSUME BoundsAssumption == MaxOps \in Nat /\ MaxMoves \in Nat /\ MaxFaults \in Nat

VARIABLES
    conf,     \* options that are on
    dir,      \* the user's LDAP entry
    row,      \* the user's row, or NoUser
    peers,    \* the rows of the peers
    job,      \* requests and LDAP synchronisations in progress
    queue,    \* per node and topic: events that wait for the handler
    hnd,      \* per node and topic: what the handler is doing
    astray,   \* history: peers excused from following the user, see PeersFollow
    tangled,  \* history: two nodes handled the arrival of the user at a time, or the
              \* user was deleted
    ops, moves, faults

vars == <<conf, dir, row, peers, job, queue, hnd, astray, tangled, ops, moves, faults>>

-----------------------------------------------------------------------------
NoUser == [row |-> "none"]
User == [source : {"db", "ldap", "oauth"}, attrs : Attr \cup {NoEntry},
         disabled : {"no", "admin", "missing"}]

Enabled(u) == u # NoUser /\ u.disabled = "no"
Status(u) == IF Enabled(u) THEN "enabled" ELSE "other"

\* A peer may be linked to the user, may have been created for the user by default,
\* and is active or disabled for a reason.
NoPeer == [row |-> "none"]
PeerRow == [linked : BOOLEAN, auto : BOOLEAN, off : {"no", "user", "deleted", "other"}]

Linked(p) == peers[p] # NoPeer /\ peers[p].linked
Active(p) == Linked(p) /\ peers[p].off = "no"
OffByUser(p) == Linked(p) /\ peers[p].off = "user"

Topic == {"created", "login", "disabled", "enabled", "deleted"}

\* Work in progress: where it is, on which node, the row it will write, the LDAP entry
\* it has fetched, what it has seen of the row, the event it will publish, what is next.
Idle == [pc |-> "idle"]
Pc == {"process", "create", "check", "save", "delete", "ldap", "scan", "disable", "publish"}
Job == [pc : Pc, node : Node, new : User \cup {NoUser}, raw : Attr \cup {NoEntry},
        seen : {"enabled", "other"}, event : Topic \cup {"none"},
        next : {"end", "login", "scan"}]
Slot == Request \cup Node

\* A handler works on a set of peers it has read, or is about to read or to create.
Rest == [do |-> "rest"]
Task == [do : {"peers", "read", "save"}, todo : SUBSET Peer]

TypeOK ==
    /\ conf \in SUBSET Option
    /\ dir \in Attr \cup {NoEntry}
    /\ row \in User \cup {NoUser}
    /\ peers \in [Peer -> PeerRow \cup {NoPeer}]
    /\ job \in [Slot -> Job \cup {Idle}]
    /\ queue \in [Node -> [Topic -> Nat]]
    /\ hnd \in [Node -> [Topic -> Task \cup {Rest}]]
    /\ astray \in SUBSET Peer
    /\ tangled \in BOOLEAN
    /\ ops \in Nat /\ moves \in Nat /\ faults \in Nat

Init ==
    /\ conf \in {c \in SUBSET Option : On \subseteq c}
    /\ dir \in Attr \cup {NoEntry}
    /\ row = NoUser
    /\ peers = [p \in Peer |-> NoPeer]
    /\ job = [s \in Slot |-> Idle]
    /\ queue = [n \in Node |-> [t \in Topic |-> 0]]
    /\ hnd = [n \in Node |-> [t \in Topic |-> Rest]]
    /\ astray = {} /\ tangled = FALSE
    /\ ops = 0 /\ moves = 0 /\ faults = 0

-----------------------------------------------------------------------------
(* Requests: their first steps *)

\* The directory changes.
ChangeDirectory(e) ==
    /\ e # dir
    /\ moves < MaxMoves
    /\ moves' = moves + 1
    /\ dir' = e
    /\ UNCHANGED <<conf, row, peers, job, queue, hnd, astray, tangled, ops, faults>>

Begin(r, j) ==
    /\ job[r] = Idle
    /\ ops < MaxOps
    /\ ops' = ops + 1
    /\ job' = [job EXCEPT ![r] = j]
    /\ UNCHANGED <<conf, dir, row, peers, queue, hnd, astray, tangled, moves, faults>>

Work(pc, n, new, event, next) ==
    [pc |-> pc, node |-> n, new |-> new, raw |-> NoEntry, seen |-> "other", event |-> event,
     next |-> next]

\* An administrator creates the user, active or not.
AdminCreatesUser(r, n, d) ==
    Begin(r, Work("create", n, [source |-> "db", attrs |-> NoEntry, disabled |-> d],
                  "none", "end"))

\* A form that was filled from the row is submitted; the reason of a disabling comes with
\* it.
AdminUpdatesUser(r, n, d) ==
    /\ row # NoUser
    /\ Begin(r, Work("check", n, [row EXCEPT !.disabled = d], "none", "end"))

AdminDeletesUser(r, n) ==
    /\ row # NoUser
    /\ Begin(r, Work("delete", n, NoUser, "deleted", "end"))

\* ActivateApi, DeactivateApi: users change their API token; the rest of the row is written
\* as it was read, and nobody compares.
UserChangesToken(r, n) ==
    /\ Enabled(row)
    /\ Begin(r, [Work("save", n, row, "none", "end") EXCEPT !.seen = Status(row)])

\* A known user logs in, with a password or a passkey.
Login(r, n) ==
    /\ Enabled(row)
    /\ Begin(r, Work("publish", n, NoUser, "login", "end"))

\* passwordAuthentication finds an unknown user in LDAP, or OauthLoginStep2 has fetched
\* somebody's data: processUserInfo will look for the row.
ExternalLogin(r, n, source) ==
    /\ source = "ldap" => row = NoUser /\ dir # NoEntry /\ "register" \in conf
    /\ Begin(r, Work("process", n,
                     [source |-> source, attrs |-> IF source = "ldap" THEN dir ELSE NoEntry,
                      disabled |-> "no"], "none", "login"))

-----------------------------------------------------------------------------
(* The user manager *)

Goto(s, j) ==
    /\ job' = [job EXCEPT ![s] = j]
    /\ UNCHANGED <<conf, dir, peers, queue, hnd, tangled, ops, moves, faults>>

\* processUserInfo: registerNewUser if there is no row, else updateExternalUser, which
\* leaves disabled users alone and others too unless something has changed.  After that
\* only an OAuth login asks whether the user is disabled.
ProcessUserInfo(s, changed) ==
    LET new == job[s].new
        publish == [job[s] EXCEPT !.pc = "publish", !.event = "login", !.next = "end"]
    IN  /\ job[s].pc = "process"
        /\ row # NoUser /\ (row.source # new.source \/ row.attrs # new.attrs) => changed
        /\ changed => row # NoUser /\ (new.source = "oauth" \/ row.source # new.source
                                                        \/ row.attrs # new.attrs)
        /\ Goto(s, IF row = NoUser
                     THEN IF "register" \in conf THEN [job[s] EXCEPT !.pc = "create"] ELSE Idle
                   ELSE IF ~Enabled(row)
                     THEN IF new.source = "ldap" THEN publish ELSE Idle
                   ELSE IF changed THEN [job[s] EXCEPT !.pc = "check"] ELSE publish)
        /\ UNCHANGED <<row, astray>>

\* CreateUser: refused if the user exists, which also ends an LDAP synchronisation.
CheckCreate(s) ==
    /\ job[s].pc = "create"
    /\ Goto(s, IF row # NoUser THEN Idle
               ELSE [job[s] EXCEPT !.pc = "save", !.event = "created"])
    /\ UNCHANGED <<row, astray>>

\* Mutant: an update announces that the user is enabled, never that he is disabled.
ChangeEventEnableOnly(old, new) ==
    IF old.disabled # "no" /\ new.disabled = "no" THEN "enabled" ELSE "none"

\* The topic an update publishes, by comparison with the row it has read.
ChangeEvent(old, new) ==
    CASE old.disabled = "no" /\ new.disabled # "no" -> "disabled"
      [] old.disabled # "no" /\ new.disabled = "no" -> "enabled"
      [] OTHER -> "none"

\* UpdateUser: the row is read again and validateModifications compares: the source must
\* be the same, and in forms the attributes of users from LDAP (EditAllowed).
CheckUpdate(s) ==
    /\ job[s].pc = "check"
    /\ Goto(s, IF \/ row = NoUser
                  \/ row.source # job[s].new.source
                  \/ job[s].next # "login" /\ row.attrs # job[s].new.attrs
               THEN Idle
               ELSE [job[s] EXCEPT !.pc = "save", !.seen = Status(row),
                                     !.event = ChangeEvent(row, job[s].new)])
    /\ UNCHANGED <<row, astray>>

\* What follows the work of a job: the rest of an LDAP synchronisation, or the topic
\* TopicAuthLogin.
Following(j) ==
    CASE j.next = "end"   -> Idle
      [] j.next = "scan"  -> [j EXCEPT !.pc = "scan", !.event = "none", !.next = "end"]
      [] j.next = "login" -> [j EXCEPT !.pc = "publish", !.event = "login", !.next = "end"]

Announcing(j) ==
    LET k == [j EXCEPT !.seen = "other"]
    IN  IF j.event = "none" THEN Following(k) ELSE [k EXCEPT !.pc = "publish"]

\* Does event e tell the manager that the user is now u?
Tells(e, u) ==
    \/ e = "enabled" /\ Enabled(u)
    \/ e \in {"disabled", "deleted"} /\ ~Enabled(u)

\* The row is written.  History: an announced change makes all peers follow again.
Commit(u, e, excused) ==
    /\ row' = u
    /\ astray' = IF Tells(e, u) THEN {}
                 ELSE IF excused /\ Enabled(u) # Enabled(row) THEN Peer ELSE astray

\* SaveUser writes the whole row of the job, and creates it if it is gone.  History: the
\* changes nobody announces are the creation of a user, LDAP's update of a user somebody
\* had disabled, and an update that has overtaken another.
SaveUser(s) ==
    /\ job[s].pc = "save"
    /\ Commit(job[s].new, job[s].event,
              \/ job[s].event = "created"
              \/ s \in Node
              \/ job[s].seen # Status(row))
    /\ Goto(s, Announcing(job[s]))

DeleteUser(s) ==
    /\ job[s].pc = "delete"
    /\ Commit(NoUser, "deleted", FALSE)
    /\ job' = [job EXCEPT ![s] = Announcing(job[s])]
    /\ tangled' = TRUE
    /\ UNCHANGED <<conf, dir, peers, queue, hnd, ops, moves, faults>>

Arrivals == {"created", "login"}

\* The arrival of the user is being handled on node n, or will be.
Arriving(n) == \E t \in Arrivals : queue[n][t] > 0 \/ hnd[n][t] # Rest

Publish(s) ==
    LET n == job[s].node
        e == job[s].event
    IN  /\ job[s].pc = "publish"
        /\ queue' = [queue EXCEPT ![n][e] = @ + 1]
        /\ job' = [job EXCEPT ![s] = Following(job[s])]
        /\ tangled' = (tangled \/ (e \in Arrivals /\ \E m \in Node \ {n} : Arriving(m)))
        /\ UNCHANGED <<conf, dir, row, peers, hnd, astray, ops, moves, faults>>

-----------------------------------------------------------------------------
(* LDAP synchronisation of node n *)

\* Mutant: the source is not filled in.
LdapUserNoSource(e) == [source |-> "none", attrs |-> e, disabled |-> "no"]

LdapUser(e) == [source |-> "ldap", attrs |-> e, disabled |-> "no"]

\* synchronizeLdapUsers fetches the entries.
FetchLdapUsers(n) ==
    /\ job[n] = Idle
    /\ Goto(n, [Work(IF dir = NoEntry THEN "scan" ELSE "ldap", n, NoUser, "none", "end")
                  EXCEPT !.raw = dir])
    /\ UNCHANGED <<row, astray>>

\* Will the synchronisation enable a user it has found?
ReEnabled(old) == "autoReEnable" \in conf /\ old.disabled = "missing"

\* Mutant: whether the user is disabled is not compared.
UserChangedInLdapAttrs(old, raw) == old.attrs # raw

\* userChangedInLdap, asked after the user to be enabled again was made active in the copy.
UserChangedInLdap(old, raw) == old.attrs # raw \/ ReEnabled(old)

\* updateLdapUsers reads the row.  A user who is missing is created.  A user from LDAP
\* with other attributes, or who is to be enabled again, is written: active in any case.
UpdateLdapUsers(n) ==
    LET known == row # NoUser
        update == known /\ row.source = "ldap" /\ UserChangedInLdap(row, job[n].raw)
    IN  /\ job[n].pc = "ldap"
        /\ Goto(n, [job[n] EXCEPT
                      !.pc = IF ~known THEN "create" ELSE IF update THEN "save" ELSE "scan",
                      !.new = LdapUser(job[n].raw),
                      !.event = IF update /\ ReEnabled(row) THEN "enabled" ELSE "none",
                      !.next = IF ~known \/ update THEN "scan" ELSE "end"])
        /\ UNCHANGED <<row, astray>>

\* Mutant: the users of other sources are looked for.
ScanMissingOthers(n) ==
    /\ job[n].pc = "scan"
    /\ Goto(n, IF /\ "disableMissing" \in conf
                  /\ job[n].raw = NoEntry
                  /\ Enabled(row) /\ row.source # "ldap"
               THEN [job[n] EXCEPT !.pc = "disable", !.event = "disabled"]
               ELSE Idle)
    /\ UNCHANGED <<row, astray>>

\* disableMissingLdapUsers reads the rows again and looks for them in the old list.
ScanMissing(n) ==
    /\ job[n].pc = "scan"
    /\ Goto(n, IF /\ "disableMissing" \in conf
                  /\ job[n].raw = NoEntry
                  /\ Enabled(row) /\ row.source = "ldap"
               THEN [job[n] EXCEPT !.pc = "disable", !.event = "disabled"]
               ELSE Idle)
    /\ UNCHANGED <<row, astray>>

\* SaveUser with the row of this moment; a row that is gone is created with defaults.
DisableMissing(n) ==
    /\ job[n].pc = "disable"
    /\ Commit(IF row = NoUser
                THEN [source |-> "db", attrs |-> NoEntry, disabled |-> "missing"]
                ELSE [row EXCEPT !.disabled = "missing"],
              "disabled", FALSE)
    /\ Goto(n, Announcing(job[n]))

-----------------------------------------------------------------------------
(* Peers *)

\* A peer is linked to the user and active from now on.  History: a peer that is given
\* to a user who is not enabled is excused.
Give(p, auto) ==
    /\ peers' = [peers EXCEPT ![p] = [linked |-> TRUE, auto |-> auto, off |-> "no"]]
    /\ astray' = IF Enabled(row) THEN astray \ {p} ELSE astray \cup {p}

\* An administrator creates a peer for the user; nobody asks whether there is such a user.
AdminCreatesPeer(p) ==
    /\ peers[p] = NoPeer
    /\ ops < MaxOps
    /\ ops' = ops + 1
    /\ Give(p, FALSE)
    /\ UNCHANGED <<conf, dir, row, job, queue, hnd, tangled, moves, faults>>

\* An administrator disables or enables a peer of the user, or deletes it.
AdminChangesPeer(p, new) ==
    /\ peers[p] # NoPeer
    /\ ops < MaxOps
    /\ ops' = ops + 1
    /\ peers' = [peers EXCEPT ![p] = IF new = "gone" THEN NoPeer ELSE [@ EXCEPT !.off = new]]
    /\ astray' = IF new = "no" /\ ~Enabled(row) THEN astray \cup {p} ELSE astray
    /\ UNCHANGED <<conf, dir, row, job, queue, hnd, tangled, moves, faults>>

-----------------------------------------------------------------------------
(* Handlers of the WireGuard manager *)

\* The worker of topic t takes an event and continues with w.
Take(n, t, w) ==
    /\ queue[n][t] > 0
    /\ hnd[n][t] = Rest
    /\ queue' = [queue EXCEPT ![n][t] = @ - 1]
    /\ hnd' = [hnd EXCEPT ![n][t] = w]
    /\ UNCHANGED <<conf, dir, row, peers, job, astray, tangled, ops, moves, faults>>

Continue(n, t, w) ==
    /\ hnd' = [hnd EXCEPT ![n][t] = w]
    /\ UNCHANGED <<conf, dir, row, job, queue, tangled, ops, moves, faults>>

\* The peers a handler reads and decides to update.
ToDo(t) ==
    CASE t = "enabled" -> IF "reEnablePeers" \in conf THEN {p \in Peer : OffByUser(p)} ELSE {}
      [] OTHER -> {p \in Peer : Active(p)}

Working(t) == IF t = {} THEN Rest ELSE [do |-> "peers", todo |-> t]

\* handleUserDisabledEvent, handleUserEnabledEvent, handleUserDeletedEvent.
TakeChange(n, t) ==
    /\ t \notin Arrivals
    /\ Take(n, t, Working(ToDo(t)))

\* What they make of a peer: the copy they read, changed.
Changed(t, p) ==
    CASE t = "disabled" -> [linked |-> TRUE, auto |-> peers[p].auto, off |-> "user"]
      [] t = "enabled"  -> [linked |-> TRUE, auto |-> peers[p].auto, off |-> "no"]
      [] t = "deleted"  -> IF "deletePeers" \in conf THEN NoPeer
                           ELSE [linked |-> FALSE, auto |-> peers[p].auto, off |-> "deleted"]

\* One of their updates; it fails if the peer is gone.  History: a peer that is changed
\* against the user's present state is excused.
ChangePeer(n, t, p) ==
    /\ hnd[n][t].do = "peers"
    /\ p \in hnd[n][t].todo
    /\ Continue(n, t, Working(hnd[n][t].todo \ {p}))
    /\ peers' = IF peers[p] = NoPeer THEN peers ELSE [peers EXCEPT ![p] = Changed(t, p)]
    /\ astray' = IF \/ t = "disabled" /\ Enabled(row)
                    \/ t = "enabled" /\ ~Enabled(row)
                 THEN astray \cup {p} ELSE astray

\* The update fails; an error is logged.
ChangePeerFails(n, t, p) ==
    /\ faults < MaxFaults
    /\ faults' = faults + 1
    /\ hnd[n][t].do = "peers"
    /\ p \in hnd[n][t].todo
    /\ hnd' = [hnd EXCEPT ![n][t] = Working(hnd[n][t].todo \ {p})]
    /\ astray' = astray \cup {p}
    /\ UNCHANGED <<conf, dir, row, peers, job, queue, tangled, ops, moves>>

\* Mutant: the two handlers do not know of each other.
BusyNever(n, t) == FALSE

\* userLockMap: the other handler of the user's arrival is at work on this node.
Busy(n, t) == \E u \in Arrivals \ {t} : hnd[n][u] # Rest

\* handleUserCreationEvent, handleUserLoginEvent: nothing to do, somebody else at it, or
\* (at a login) the user has peers; otherwise CreateDefaultPeer.
TakeArrival(n, t) ==
    /\ t \in Arrivals
    /\ Take(n, t, IF \/ (IF t = "login" THEN "peerOnLogin" ELSE "peerOnCreation") \notin conf
                     \/ Busy(n, t)
                     \/ t = "login" /\ \E p \in Peer : Linked(p)
                  THEN Rest ELSE [do |-> "read", todo |-> {}])

\* CreateDefaultPeer reads the user's peers and prepares one if there is none ...
PrepareDefaultPeer(n, t) ==
    /\ hnd[n][t].do = "read"
    /\ Continue(n, t, IF \E p \in Peer : Linked(p) THEN Rest ELSE [do |-> "save", todo |-> {}])
    /\ UNCHANGED <<peers, astray>>

\* ... and creates it, whatever has become of the user.
CreateDefaultPeer(n, t, p) ==
    /\ hnd[n][t].do = "save"
    /\ peers[p] = NoPeer
    /\ Continue(n, t, Rest)
    /\ Give(p, TRUE)

\* No address is left, or the database refuses.
CreateDefaultPeerFails(n, t) ==
    /\ hnd[n][t].do = "save"
    /\ Continue(n, t, Rest)
    /\ UNCHANGED <<peers, astray>>

\* The process of node n dies and is started again: its events are lost.
Crash(n) ==
    /\ faults < MaxFaults
    /\ faults' = faults + 1
    /\ queue' = [queue EXCEPT ![n] = [t \in Topic |-> 0]]
    /\ hnd' = [hnd EXCEPT ![n] = [t \in Topic |-> Rest]]
    /\ job' = [s \in Slot |-> IF job[s] # Idle /\ job[s].node = n THEN Idle ELSE job[s]]
    /\ astray' = Peer
    /\ UNCHANGED <<conf, dir, row, peers, tangled, ops, moves>>

-----------------------------------------------------------------------------
Environment ==
    \/ \E e \in Attr \cup {NoEntry} : ChangeDirectory(e)
    \/ \E r \in Request, n \in Node :
          \/ \E d \in {"no", "admin"} : AdminCreatesUser(r, n, d)
          \/ \E d \in {"no", "admin", "missing"} : AdminUpdatesUser(r, n, d)
          \/ AdminDeletesUser(r, n)
          \/ UserChangesToken(r, n)
          \/ Login(r, n)
          \/ \E source \in {"ldap", "oauth"} : ExternalLogin(r, n, source)
    \/ \E p \in Peer :
          \/ AdminCreatesPeer(p)
          \/ \E new \in {"no", "other", "gone"} : AdminChangesPeer(p, new)
    \/ \E n \in Node :
          \/ Crash(n)
          \/ \E t \in Topic, p \in Peer : ChangePeerFails(n, t, p)

JobStep(s) ==
    \/ \E changed \in BOOLEAN : ProcessUserInfo(s, changed)
    \/ CheckCreate(s) \/ CheckUpdate(s) \/ SaveUser(s) \/ DeleteUser(s) \/ Publish(s)

SyncStep(n) ==
    FetchLdapUsers(n) \/ UpdateLdapUsers(n) \/ ScanMissing(n) \/ DisableMissing(n)

HandlerStep(n, t) ==
    \/ TakeChange(n, t) \/ TakeArrival(n, t)
    \/ PrepareDefaultPeer(n, t) \/ CreateDefaultPeerFails(n, t)
    \/ \E p \in Peer : ChangePeer(n, t, p) \/ CreateDefaultPeer(n, t, p)

Next ==
    \/ Environment
    \/ \E s \in Slot : JobStep(s)
    \/ \E n \in Node : SyncStep(n)
    \/ \E n \in Node, t \in Topic : HandlerStep(n, t)

\* Requests come to their ends and the LDAP synchronisation runs at intervals.  What is
\* said of handlers needs no fairness.
Fairness ==
    /\ \A s \in Slot : WF_vars(JobStep(s))
    /\ \A n \in Node : WF_vars(SyncStep(n))

Spec == Init /\ [][Next]_vars
FairSpec == Spec /\ Fairness

-----------------------------------------------------------------------------
(* Properties *)

\* A handler of topic t has yet to come to peer p.
Coming(t, p) ==
    \/ \E s \in Slot : job[s] # Idle /\ job[s].pc = "publish" /\ job[s].event = t
    \/ \E n \in Node : queue[n][t] > 0 \/ (hnd[n][t] # Rest /\ p \in hnd[n][t].todo)

\* "If this field is set, the user is disabled (WireGuard peers are disabled as well)",
\* and "if a user is deleted, remove all linked peers, otherwise they are disabled": an
\* active peer of a user who is not enabled is about to be stopped; a peer that was
\* stopped with its user is about to be enabled again when the user is.  This must hold
\* however requests, logins, the LDAP synchronisation and the five handlers interleave.
\* Excused are peers that somebody gave to a disabled user, that a handler changed too
\* late, against the present state of the user, or could not change, and all peers after
\* a change that nobody announces (see SaveUser) or whose announcement a crash has lost.
PeersFollow ==
    \A p \in Peer \ astray :
        /\ Active(p) /\ ~Enabled(row) => Coming("disabled", p) \/ Coming("deleted", p)
        /\ OffByUser(p) /\ Enabled(row) /\ "reEnablePeers" \in conf => Coming("enabled", p)

\* What makes PeersFollow inductive: work in progress announces what it has compared ...
Consistent(s, j) ==
    /\ j.pc \in {"process", "check"} => j.new \in User
    /\ j.pc = "delete" => j.event = "deleted"
    /\ j.pc = "disable" => j.event = "disabled"
    /\ j.pc = "save" => j.event # "deleted"
    /\ j.pc = "save" =>
          \/ s \in Node
          \/ j.event = "created"
          \/ j.event = "none" /\ j.seen = Status(j.new)
          \/ Tells(j.event, j.new)
JobShape == \A s \in Slot : Consistent(s, job[s])

\* ... and each handler does its own work.
HandlerShape ==
    \A n \in Node, t \in Topic :
        /\ hnd[n][t].do = "peers" => t \notin Arrivals
        /\ hnd[n][t].do \in {"read", "save"} => t \in Arrivals

PeersInv == TypeOK /\ JobShape /\ HandlerShape /\ PeersFollow

\* The creation of a user and the first login, handled by one node at any one time, never
\* give the user two default peers (userLockMap), as long as the user is not deleted:
\* late handlers may link peers to the next user of that name.
OneDefaultPeer ==
    ~tangled => \A p, q \in Peer :
        Linked(p) /\ Linked(q) /\ peers[p].auto /\ peers[q].auto => p = q

\* What makes OneDefaultPeer inductive.  As long as the user is not deleted no peer is
\* unlinked ...
NoDeletion ==
    /\ \A s \in Slot : ~(job[s].pc = "publish" /\ job[s].event = "deleted")
    /\ \A n \in Node : queue[n]["deleted"] = 0 /\ hnd[n]["deleted"] = Rest
AllLinked == \A p \in Peer : peers[p] # NoPeer => peers[p].linked

\* ... at most one handler of an arrival is at work in the cluster ...
OneArrival ==
    /\ \A m, n \in Node : Arriving(m) /\ Arriving(n) => m = n
    /\ \A n \in Node : hnd[n]["created"] = Rest \/ hnd[n]["login"] = Rest

\* ... and one that is about to create a default peer has found none and still would.
NoneYet ==
    \A n \in Node, t \in Arrivals, p \in Peer :
        hnd[n][t].do = "save" /\ peers[p] # NoPeer => ~peers[p].auto

ArrivalInv == ~tangled => NoDeletion /\ AllLinked /\ OneArrival /\ NoneYet

\* "Any user that is not found in LDAP during synchronization will be disabled": a user
\* who has left the directory for good is disabled in the end, whatever lists the
\* synchronisations still work on.
MissingDisabled ==
    "disableMissing" \in conf /\ <>[](dir = NoEntry)
    => <>[](Enabled(row) => row.source # "ldap")

\* A user who is in the directory for good exists in the end and, with auto_re_enable,
\* is not left disabled for having been missing.
FoundEnabled ==
    <>[](dir # NoEntry)
    => <>[](/\ row # NoUser
            /\ "autoReEnable" \in conf /\ row.source = "ldap" => row.disabled # "missing")

=============================================================================
