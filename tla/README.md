# Formal models of wg-portal-2

TLA+ models, TLC runs and TLAPS proofs for wg-portal-2, a web portal that manages
WireGuard servers as a cluster: several identical Go processes (nodes) share one SQL
database, each node drives the WireGuard device of its own host, and people use them through
a single-page web interface (Vue) that runs in their browsers.

Contents: [1 the system](#1-the-system), [2 plan](#2-plan),
[3 modules](#3-modules-and-the-code), [4 runs](#4-what-tlc-checks),
[5 disagreements found](#5-disagreements-between-code-and-comments),
[6 proofs](#6-what-is-proved), [7 limits](#7-what-is-not-modelled).

## 1. The system

### Components, their state and operations

| component | code | state it keeps | operations |
|---|---|---|---|
| WireGuard manager | `internal/app/wireguard` | the device; a lock per user in memory | create, update, re-key, delete peers and interfaces; handlers of bus topics |
| database | `internal/adapters/database.go` | tables peers, interfaces, users, peer_status, interface_status, audit, node_sync_locks | transactions, lease locks, address queries, expiry queries |
| local controller | `internal/adapters/wgcontroller/local.go` | kernel device: interfaces and their peers | save, delete, list, hooks |
| MikroTik controller | `internal/adapters/wgcontroller/mikrotik.go` | a remote router | the same operations, several HTTP calls each |
| bus | vardius/message-bus (external) | one FIFO queue and one goroutine per (topic, subscriber), capacity 100 | publish (blocks when full), deliver |
| fan-out | `internal/app/fanout` | failedHosts, debounce timer | one POST per node and peer event; debounced full sync |
| sync endpoint | `internal/app/api/v1/handlers/endpoint_peer.go` | none | turns a POST with peer_id into a local topic, one without into a full sync |
| lease lock | `AcquireLock`, `ReleaseLock`, `CleanupExpiredLocks` | one row of node_sync_locks | acquire, release, clean up |
| statistics collector | `internal/app/wireguard/statistics.go` | activeConnectedPeers (cache), ping queue | a cycle per interval, ping workers, handlers of deletions |
| expiry | `wireguard.go`, `wireguard_peers.go`, `database.go` | ExpiresAt and TTLLocked of a row | renewal by activity, cleanup by the master |
| address allocation | `GetNextAvailableIPs`, `domain/ip.go` | none | next free address or subnet |
| user manager, LDAP sync | `internal/app/users` | users table | register, create, update, delete, disable and enable by LDAP |
| authentication | `internal/app/auth`, `api/v0/handlers` | sessions, provider state | login by password, LDAP, OAuth, OIDC, passkey |
| route manager | `internal/app/route` | kernel rules and routes | synchronise after interface and peer changes |
| config files, mail, webhooks, audit, metrics | their packages | none that is read back | react to topics |
| API v0, API v1, server, configuration | `internal/app/api`, `internal/config` | sessions with their CSRF tokens | translate requests into calls of the managers |
| web session and routing | `frontend/src/stores/auth.js`, `security.js`, `router`, `App.vue`, `LoginView.vue` | user, CSRF token, return URL, page | load, log in by password, passkey or provider, navigate, log out |
| edit dialogs | `PeerEditModal.vue`, `UserPeerEditModal.vue`, `InterfaceEditModal.vue`, `helpers/datetime.js` | a form, the inputs of the expiry | open, fill, type, save, delete, close |
| interface page | `InterfaceView.vue`, `PeerViewModal.vue`, `InterfaceViewModal.vue`, `PeerMultiCreateModal.vue`, `stores/peers.js`, `stores/interfaces.js` | lists, selection, statistics, configuration, paging | select, page, view, download, create, change, delete |
| user, audit, profile and settings pages | `UserView.vue`, `AuditView.vue`, `ProfileView.vue`, `SettingsView.vue` and their stores | lists, API token, passkeys, "fetching" flags, paging | visit, page, view, save, delete, enable the API, register passkeys |
| key generator, translations, layout, API documentation viewer | `KeyGeneraterView.vue`, `lang`, `Modal.vue`, RapiDoc | none that is read elsewhere | display |

### How they interact

* **Calls.** An HTTP handler calls a manager; the manager changes the device through a
  controller and the database through the repository, often the device inside the
  database transaction.
* **Topics.** After the commit the manager publishes topics on the in-process bus. Each
  subscription has its own queue and goroutine: events of one topic are ordered, events of
  two topics are not.
* **Notifications.** The fan-out subscribes to the sync topics and POSTs the peer's
  identifier to every other node, one goroutine each, once. The receiver publishes
  `TopicPeerSyncedLocal`, which the fan-out does not subscribe to, and its handler copies
  the row of the database to the receiver's device.
* **The browser.** Every page talks to one node by asynchronous calls. The components of a
  page come and go, their stores stay, and an answer is applied when it comes: to the store,
  the dialog and the page as they are by then. Nothing cancels or orders calls.
* **Shared state.** Nodes share the database only. The `peer_status` row of a peer is
  written by all nodes, with an owner column to keep them apart; `node_sync_locks` is a
  lock with a lease; the master (a configuration flag) deletes expired peers.

### What is hard

| behaviour | where |
|---|---|
| a row is read, something else runs, the row is used | the sync handlers, `UpdatePeer`, the TTL handler, the forms |
| device, commit and announcement are separate steps | `savePeers`, `DeletePeer`, change of public key |
| notifications are lost, overtake each other, are refused after failures | `fireForPeerEvent`, `hostCanRetry` |
| crash and restart with part of the work done | every node; `RestoreInterfaceState` |
| a database error that is taken for a missing row | `handlePeerSyncedLocalEvent`, `handleSyncPost` |
| a restore that runs beside the requests the node already serves | `sync_on_startup` in `main.go` |
| leases that expire while their holder works; answers that never come | `AcquireLock`, `ReleaseLock` |
| several nodes write one status row from different points of view | `ClaimPeerStatus`, `UpdatePeerStatus`, ping workers |
| requests, logins and LDAP synchronisations write one user row, handlers follow later | `user_manager.go`, the handlers of user topics |
| deadlines set by activity, by users and by the passing of time | TTL handler, cleanup |
| answers that come late, twice out of order, or not at all | every store of the web interface |
| a form that shares objects with the list it was filled from | `PeerEditModal.vue`, `UserPeerEditModal.vue` |
| several parts of the page sign in, fetch tokens and redirect at the same time | `App.vue`, `router/index.js`, `LoginView.vue` |
| local time, UTC and two inputs for one instant | `helpers/datetime.js` |

`PROJECT.json` lists the hazards that the properties are about, each at the line where it
bites. Hazards of the parts that are still to be modelled are in section 7.

### What makes each part correct

* *Synchronisation:* a change of a peer reaches the device of every node; a deleted peer
  stays on none; notifications die out.
* *Lock:* one holder at a time; never stuck for good.
* *Status:* follows the client; never outlives its peer; its owner is able to clear it.
* *Expiry:* a connected peer is not deleted; an abandoned one is; a locked date stays.
* *Addresses:* unique, inside the subnet, found when one is free. *(planned)*
* *Accounts:* a disabled or deleted user keeps no active peer; enabling the user restores
  what disabling took; one default peer per interface; the LDAP synchronisation disables who
  has left, enables who has come back, and nobody an administrator has disabled.
* *Web session:* browser and server agree on who is signed in; nobody is left on a page he may
  not see; a logout always arrives; an external login leads to the page it was meant for.
* *Dialogs:* what is stored for a record was typed for that record; an expiry nobody edited
  does not move.
* *Lists and settings:* once the answers are there, the page shows what the server has; no
  button stays disabled; page links lead to pages that exist.
* *Interfaces, routes, MikroTik:* the device follows the database after any failure that a
  retry follows. *(planned)*

## 2. Plan

Order: what only a cluster can get wrong first, then the web interface, whose calls overlap
on every page, then what a single node can get wrong.

| module | part | state |
|---|---|---|
| `PeerSync` | requests, bus, fan-out, endpoint, handlers, crash and restore | modelled, checked, proved |
| `LeaseLock`, `SyncLock` | abstract lease; the row that implements it | modelled, checked, refinement proved |
| `PeerStatus` | ownership of peer_status | modelled, checked, proved |
| `PeerExpiry` | TTL, lock, cleanup | modelled, checked, proved |
| `Accounts` | users, LDAP sync, login, and the manager's reaction to created, disabled, enabled and deleted users | modelled, checked, proved |
| `WebForm` | the three edit dialogs, dates, late answers | modelled, checked, proved |
| `WebSession` | login, logout, CSRF token, routing | modelled, checked, proved |
| `WebTable`, `WebPeers` | paging; the interface page and its two stores | modelled, checked, proved |
| `WebUsers` | user, audit, profile and settings pages | modelled, checked, proved |
| `Interfaces` | create, update, delete, import, restore of interfaces, hooks, configuration files; deletion against creation of peers | next |
| `Routes` | rules and routes against interface and peer events | then |
| `Mikrotik` | operations of several HTTP calls, each of which may fail | then |
| `Fanout` | debouncer and its timer, full sync, a full bus queue | then |
| `IpAlloc` | next address and next subnet against a reference definition; two allocations at a time; the limit of peers per user | last |

Worth stating abstractly: `LeaseLock` (done); "device = f(database)" for `Interfaces`. Worth
proving next: that deleting an interface leaves no peer of it, and that an allocated address
lies in its subnet and was free. New
questions should join an existing run of their module where the instance fits, as
`AgreeWhenQuiet` and `NeverSilent` share one.

## 3. Modules and the code

`PROJECT.json` ("map") gives the lines of every definition. Definitions keep the names of
the code. Operators introduced as a mutant are wrong versions of the definition that
follows them. Each property is known to be violated when its mutant takes the place of the
correct definition, which shows that it does depend on that piece of code.

### PeerSync: synchronisation of peers

State: the peers table `db`, the device of each node `dev`, the requests in progress `req`,
one queue per node and topic `queue` with the row its handler has read `hnd`, the POSTs not
yet handled `http` and not yet answered `answer` as bags of URLs (a URL is sender,
receiver, peer and event), `failed` (failedHosts), the phase of each node `up`, and the rows
a restore has read `snap`, the background restores that have not read (`due`) or not placed
(`todo`) their peers. A row is what a device takes of a peer: an opaque configuration `cfg`, the
disabled flag, the interface, and one value `opt` for the preshared key, the endpoint and the
keepalive, which may be empty. The device of a node holds a peer per interface: `SavePeer` writes
to the interface of the row and touches no other, and passes an empty `opt` as nil, so that the
kernel keeps what it has (`Merge`, `OnDevice`). `HasMeaningfulChanges` compares everything but the
interface, as the code does.

| action | code |
|---|---|
| `CreatePeer`, `UpdatePeer`, `RekeyPeer`, `DeletePeer` | the checks at the start of the manager's operations, with the row they read |
| `SaveDevice`, `CommitSave`, `AbortSave` | `savePeers`: the device is written inside the transaction, which may fail afterwards |
| `DeleteDevice`, `CommitDelete`, `AbortDelete` | `DeletePeer` |
| `Publish` | the sync topic: the manager's own queue and one POST per other node |
| `ReadForSync`, `ReadForLocal`, `ApplyRead`, `HandleDeleted` | the four handlers, cut between reading the row and writing the device |
| `ReadFails` | the database does not answer a handler: those of the sync topics give up, the local one takes any error for a deletion and removes the peer from the device |
| `HandleSyncPost`, `AnswerOk`, `AnswerLost`, `SendFail`, `SendSkip` | the endpoint and the fan-out's success, timeout, failure and backoff |
| `HandleSyncPostUnread` | `GetById` fails: the notification is dropped and answered 204, which the sender counts as a success |
| `Crash` | loss of a process's memory |
| `StartRestore`, `FinishRestore`, `BootPlain` | a start with `restore_state`, which restores before the web server starts, or without |
| `StartSync`, `SyncPeer` | the goroutine of `sync_on_startup`: the rows are read at once and placed peer by peer while the node serves, the old ones as well |

The number of retries in failedHosts is left out: a URL with an entry may be skipped or
tried. The history variables `wrote`, `lost`, `silent`, `moved` and `pace` are written and never
read by a guard. The first three say which nodes are excused from agreement: they served
a request for the peer themselves, a notification was dropped, met a failed read or was undone by a
background restore, or the change was never announced. `moved` has the peers that were asked to
change their interface. `pace` is how requests have come so far: for some peer they overlapped
(`any`), they followed each other (`serial`), or each waited until the change before was handled
everywhere (`settled`). Nothing in the code enforces the calmer two, and no behaviour is
excluded; the properties say at which pace they hold.

### SyncLock and LeaseLock: the lease of the full synchronisation

State: the row `lock` with the time its lease has left, the program counter `pc` of each
session of `SyncAllPeersFromDBWithLock`, the time `age` since a session read the clock, and
`cleaners` (background cleanups). Every SQL statement is a step: `Clean`, `Insert`,
`Check`, `Drop`, `Release`, `CleanupExpiredLocks`; `CleanFail` and `InsertUnanswered` are
their failures (a release fails wherever `NOW()` is no SQL), `GiveUp` the deadline of lockCtx, `Crash` the death of the node, `Tick` the
clock. `Origin` is the name a session locks under: the X-WGP-Origin of the *sender*, so the
sessions that one node asked for share a name on all receivers. Nothing is assumed about the
names, and the instance has two sessions of one name and one of another.
`LeaseLock` is what the comments promise, a lease with at most one holder; `SyncLock`
implements it, with the session of the row in force as the holder, until one of two things
has happened, which the history variables record. `late`: a session has run ReleaseLock after the
end of its lease, which deletes the row of whichever session of the same name works by then.
`failed`: the first DELETE of an AcquireLock has failed, after which it may drop any session's row
by its key. `LeaseExclusive` says that nothing else lets two sessions into their leases
(`OneHolder`); `NeverStuck` is claimed in any case.

### PeerStatus: who may say that a peer is connected

One peer, several nodes. State: whether the peer exists, its `status` row (connected,
owner), where the client is (`at`), the nodes whose device saw a handshake in the last two
minutes (`fresh`), each collector's cache and its work in progress (`job`), ping checks in
progress (`ping`), and deletion events not yet handled (`purge`, `forget`).
A node runs one of two strategies (`statistics.go:133-151`, the configuration `usePing`).
Without ping checks `CollectPeerData` reads the device and decides, and `ClaimPeerStatus`,
`UpdateFromWireGuard` and `MarkPeerDisconnected` are the transactions that follow. With ping checks
`EnqueuePingCheck` and `PingWorker` write the state, and `UpdatePeerMetrics` the counters; nobody
claims then, so no row has an owner. `DeletePeer`, `DeletePeersByIDs`, `CreatePeer`, the late handlers, failing transactions and
`RestartNode` interfere.

### PeerExpiry: time to live

One peer and the node its client uses. State: the row's ExpiresAt (as ticks left) and
TTLLocked, what is reported and cached about the client, an event queue with *copies* of the
row, the ping check in progress, what each of the two writers (`ttl`: the handler, `api`: a
request) is about to save, a user's form, and whether the master has found the peer
expired. Events come from `Collect` or, with ping checks, from `EnqueuePingCheck` and
`PingWorker`, never from both: a cycle of the collector publishes for every reported peer in
use, a ping worker only when the state changes. `HandlePeerStateChange` decides on the copy; `SavePeer` writes a whole row, recreating it if it is gone; `Find`,
`DeleteFound`, `DeleteDeferred` are the cleanup; `OpenForm` and `SubmitForm` an edit, which
for an administrator loses TTLLocked. A form keeps the date it shows. A peer is created in one of
five ways (`Wish`): a date given in the portal or through the API of peers is stored unlocked, only
provisioning locks a date.

### Accounts: a user, the LDAP directory and the user's peers

One user, one server interface. State: the options `conf`, the user's entry in the directory
`dir`, the `row`, the `peers` (linked, created by default, disabled and why), the requests and
synchronisations in progress `job`, and per node and topic a `queue` and what the handler is
doing, `hnd`. A job carries the row it will write, the entry it has fetched, the status it saw
and the event it will publish, so that everything it read stays as old as it is.

| action | code |
|---|---|
| `AdminCreatesUser`, `AdminUpdatesUser`, `AdminDeletesUser`, `UserChangesToken` | the requests that reach the user manager; a form carries the row it was filled from |
| `Login`, `ExternalLogin`, `ProcessUserInfo` | logins; registration and update of users from LDAP and OAuth |
| `CheckCreate`, `CheckUpdate`, `SaveUser`, `DeleteUser`, `Publish` | the user manager: read and compare, commit, publish |
| `FetchLdapUsers`, `UpdateLdapUsers`, `ScanMissing`, `DisableMissing` | the LDAP synchronisation, cut at each access to directory and database |
| `TakeChange`, `ChangePeer`, `ChangePeerFails` | the handlers of disabled, enabled and deleted users: peers read once, updated one by one |
| `TakeArrival`, `PrepareDefaultPeer`, `CreateDefaultPeer`, `CreateDefaultPeerFails` | the handlers of creation and login with userLockMap |
| `AdminCreatesPeer`, `AdminChangesPeer`, `Crash` | what interferes |

The user's attributes are one value, compared by `userChangedInLdap`. An update of a peer is
one step here; its inside is PeerSync's subject. A handler whose first query fails ends at
once in the code; the model's failures are those of the updates. The history variable `astray`
holds the peers that are excused from following the user; the comment on `PeersFollow` lists
the reasons.

### The web modules: calls in flight

`WebForm`, `WebSession`, `WebPeers` and `WebUsers` share a shape. A person acts on what the
page shows; an act may put calls in flight (`calls`, `saves`, `prepares`, `dels`). A call is
handled by the server in one step (`Handle...`), may be lost before or after that (`Lose`),
and its answer, or its failure, is applied in one step to the stores and the page *as they
are by then* (`Apply...`); what the code awaits next is sent by that step. JavaScript runs each of
these pieces without interruption, so nothing is cut finer. The contents of a record is a
version: the number of the call that wrote it, or of the opening of the dialog in which it was typed.

Calls are handled and applied in any order, so nearly everything these pages promise fails
when an older answer overtakes a newer one: the code has no guard against it. The ghost
`orderly` records for which groups of calls (those that write the same part of a store) this
has happened, or a call has failed, since the last load; the agreement properties speak of the
others. What is claimed without that excuse is said so: `SelectedListed`, `PagingSound`,
`ButtonsFree`, `OauthReturns`, `LogoutArrives`, and all of `WebForm`.

### WebForm: the edit dialogs

State: the `server`'s records, the rows of the `list` and of the profile page's `own` store, the
dialog that is `open`, the `form`, the calls in flight, and as history what each opening of a
dialog was for (`opened`). The flat fields of a peer are copied into the form; its
{Value, Overridable} settings are objects the form *shares* with the row (`FormNest`,
`SetNest`), so an edit that is never saved is in the list at once. A reload replaces the rows and leaves the
form with the old objects (`Detached`).

| action | code |
|---|---|
| `OpenPeer`, `OpenOwnPeer`, `OpenNewPeer`, `OpenInterface`, `OpenNewInterface` | the watchers of props.visible |
| `PreparePeer`, `PrepareOwnPeer`, `PrepareInterface` | the answer with the new record, which fills whatever the form shows by then |
| `EditPeer`, `EditSettings`, `EditOwnPeer`, `EditInterface`, `EditPeerDefaults`, `ToggleIgnore`, `ToggleDisabled`, `EditExpiry` | the inputs, with the checks of list inputs and the watchers |
| `SavePeer`, `SaveOwnPeer`, `SaveInterface`, `HandleSave`, `SaveAnswered`, `SaveFailed` | save, the REST handler, and the answer, which closes the dialog that is open by then |
| `DeletePeer`, `DeleteOwnPeer`, `DeleteInterface`, `HandleDelete`, `DeleteAnswered`, `DeleteFailed` | del |
| `UserCloses`, `ListAnswered` | close, and a reload of the list |

`formatRFC3339ToDatetime` and `formatDateTimeToRFC3339` are modelled by what they compute, in
minutes and seconds: the UTC date, the local time without its seconds (`substring(0, 5)`), and both
read back as local with `:00` for the seconds. So an expiry with seconds, which every TTL sets,
loses them when its peer is saved; `TimeOfDayKept` speaks of hour and minute.

### WebSession: who is signed in

State: the user of the auth store with its copy in localStorage, the return URL, the page,
the CSRF token, the cookie, how far App.vue's `onMounted` has come (`boot`), and the server's
sessions. `Load`, `Reload`, `ExternalLogin`, `Navigate`, `ClickLogout`, `SubmitLogin`,
`SubmitWebAuthn` and `Write` are the person's; `HandleCsrf`, `HandleSession`, `HandleLogin`,
`HandleWebAuthn`, `HandleLogout`, `HandleWrite` and `HandleForbidden` the server's, with the
CSRF middleware; `Expire` ends a session. A 401 or 403 makes the wrapper log out by itself
(`AutoLogout`).

### WebTable and WebPeers: the interface page

`WebTable` is the paging all lists share: offset, page size, number of page links.
The click handler of the page size selector resets the offset and does not run for a change
by keyboard; the ghost `click` marks that time. `WebPeers` has the two stores, the
selection, the statistics, the view dialogs and the download, with every call of the page:
`onMounted` (`Revisit`), `Select`, `Page`, the dialogs, saves and deletions, creation of
several peers at once with its half-way failure (`HandlePartly`), peer defaults, and the
deletion of an interface, which selects another one without loading its peers. The ghost
`asked` is the interface whose peers are listed, or `None` once they belong to nobody: after a
deletion, or when `CreatePeer` has pushed a peer of one interface onto the list of another;
`orderly` holds the groups of calls of which none crossed or failed since their last load. A
`filter` of the stores is written with the positions it keeps (`RowsAt`, `Nth`) rather than
with `SelectSeq`, which the provers do not know.

### WebUsers: users, audit, profile, settings

State: the server's users, API token and passkeys, the stores of the four pages, their
dialogs and their `fetching` flags. `Go` shows a page and starts its chain of calls;
`Continued` says what follows an answer, also after the page was left. `setStats` throws when
its call failed, which ends the chain and leaves the flag up: `ButtonsFree` and
`OwnPagesShown` name that exception. `since` is the number of the last call before the page was
shown: the answer of an older save finds its dialog gone. A row has the version of its user and
whether it carries the number of peers, which only the server's list does: the answer to a save
has 0. `UpdateUser` stores a record built from the form, which has neither API token nor passkey
identity, so saving the user one is signed in as (`Self`) wipes his token while the settings page
still shows it (`WipesToken`); `orderly` gives up the API group then. `WithoutRow`, the `filter` of `DeleteUser`,
is written with the positions of the rows it keeps (`Nth`) rather than with `SelectSeq`, which
the provers do not know.

## 4. What TLC checks

`tlc -config <cfg> <module>` in this directory; every run takes at most about two minutes.

| run (cfg) | specification, size | shows |
|---|---|---|
| sync (`PeerSync`) | two peers, one change, a crash and every kind of restart, 252k states | `TypeOK`; `AgreeWhenQuiet`: once all is handled every device shows the rows of the database; `EventuallyQuiet`: the cluster comes to rest |
| sync_overlap (`PeerSyncOverlap`) | two requests, overlapping or not, a failed send, read or transaction, a crash, restores before and beside the server, 1.5M | `RemoteAgreement`: a node that only receives a peer agrees with the database or is about to, with the inductive invariant `IInv` of the proofs; `NeverSilent`, `RowsAppearAnnounced`: without overlap no change but that of the interface and no new row goes unannounced; `AgreeWhenQuiet` |
| sync_zombie | *violation* | see section 5 |
| lock_exclusive (`SyncLock`) | three sessions, two of one name, failing statements, 1.5M | `LeaseExclusive`, the inductive `LockInv`, the refinement `ImplementsLease`, and `NeverStuck`: the row never blocks for good |
| status_ownership (`PeerStatus`) | two nodes with collectors or with ping checks, four moves, two deletions, a fault, 176k | `StatusHasPeer`, `OwnerWatches`, `OnlineReported`, `OfflineReported` |
| expiry_ttl (`PeerExpiry`) | collector or ping checks, two creations, an edit, a restart, 1.2M | `OnlineNotExpired`, `LockHonoured`, `AwayRemoved` |
| accounts (`Accounts`) | one node, two peers, a request, two changes of the directory, a fault, 685k | `PeersFollow`, `OneDefaultPeer`, `MissingDisabled`, `FoundEnabled` |
| web_form (`WebForm`) | two openings, three acts, an expiry with seconds, 895k | `WritesMatchForm`, `EditsReachOwnRecord`: no text or setting of one record is stored in another; `TimeOfDayKept`; `SwitchAgrees` |
| web_expiry | *violation* | see section 5 |
| web_session (`WebSession`) | two acts or faults after the load, 900k | `AgreeWhenQuiet`, `NotStranded`, `OauthReturns`, `LogoutArrives` |
| web_peers (`WebPeers`) | two interfaces, four peers, three acts or faults, 1.2M | `ListAgrees`, `SelectedListed`, `ConfigBelongs`, `PagingSound` |
| web_users (`WebUsers`) | three acts or faults, 228k | `StoresAgree`, `ButtonsFree`, `OwnPagesShown` |

### Bounds

* *PeerSync.* Two nodes: every action concerns one node or a sender and a receiver, and
  agreement is stated per node. Two interfaces: one a peer is on and one it may move to. The
  requests of sync empty a setting or change the interface, with two peers so that a public key
  can change; those of sync_overlap set the disabled flag or change the interface. Two requests are
  enough to overlap, for an update to lose against a delete, and for a change to follow another; one
  fault and one crash put a failed read, a lost notification or a restore between their steps.
  The queue limit (2 instead of 100) is only there to be finite.
* *SyncLock.* Three sessions: two share a name, so that one may release the other's row, and a third has another. Lease 2 and Timeout 1 give each comparison a case before, at and after. Ages
  and expired leases are not told apart beyond the point where a comparison could see them,
  which makes the state space finite without bounding the run's length.
* *PeerStatus.* Four moves let a client leave, come back and go to the other node; two deletions
  let the late event of the first meet the second; one fault. A fault anywhere already makes a state
  not calm. `usePing` takes both values; the inductive invariant holds in the run's instance, too.
* *PeerExpiry.* TTL 2, Hour 1, Period 1 is the tightest timing the assumption
  `Period <= Hour < TTL` allows, where a missed cycle costs the peer. One event waits in the
  queue while a second copy sits in the handler and a third in a ping check. Two
  creations, since the interesting copies are those of an earlier peer. `usePing` and
  `delete_expired_peers` take both values; the inductive invariant was checked on the same instance.
* *Accounts.* One node in TLC, any number in the proofs; the node's LDAP synchronisation, a
  request and five handlers already give every pair of writers. Two changes of the directory
  let a user leave and come back, two attributes let an entry change, two peers let a handler
  stop half way, a fault is a failed update or a crash. The options that are on in the cfg
  are those without which something never happens; the others take both values. The
  invariants of the proofs were also checked with two requests one after the other (2.2M
  states).

* *WebForm.* Two openings: the answer to one meets the dialog of the other. Three acts are an
  edit, a save and one more. One stored peer, one more on each of two interfaces, a free
  interface name; an expiry at 22:00 UTC with an offset of three hours lies on the other side
  of midnight. The inductive invariant `FormInv` was also checked with two acts (157k states).
* *WebSession.* A load already puts the calls of App.vue and of the router in flight; two acts
  (also of faults) add a login and a logout, a reload, or a lost call. The inductive invariant
  `SessionInv` was also checked there (900k states), and with five acts from a page that has
  started and calls in order (258k states).
* *WebPeers, WebUsers.* Three acts: two that race and one that is affected, or a fault. Sizes 1
  and 2 with up to three rows give lists of one, two and three pages, `Width` 2 a window that is
  smaller than them. The inductive invariant `PeersInv` was checked on the same instance before
  it was proved; what takes more acts is left to the proof (section 5 names two such behaviours).

### Fairness

Weak fairness of a goroutine that can continue (request steps, handlers, deliveries,
collector cycles, ping workers), of time, and of the restart of a node that went down:
the Go scheduler, tickers and a service manager give this. Strong fairness is used in
`PeerStatus` for a handler that needs the collector's mutex, which is free again and again
(Go's mutex does not starve a waiter), and in `PeerExpiry` for `Tick`, which in the model
waits for handlers that in reality take no time compared to a tick, and for `Find` and
`DeleteFound`: a database that refuses every single time is excluded. In `Accounts` requests
and synchronisations come to their ends, and the synchronisation starts again and again
(`runLdapSynchronizationService` loops with a timer); handlers need no fairness there. In `WebSession` and
`WebUsers` the server handles and the browser applies what is in flight (an event loop and
requests that end, with an answer or an error); the person owes nothing, not even an end of the passkey dialog. No fairness is
assumed of users, clients, failures or crashes, and in `SyncLock` none at all but of time.

### Deadlock

Deadlock is checked in lock_exclusive, expiry_ttl and accounts. `PeerSync` ends when the bound
of requests is used up, `PeerStatus` when that of moves is, and the web modules when the person
has done what the bound allows and every call is answered: a page may be left as it is.

## 5. Disagreements between code and comments

Two runs end in a counterexample. Each checks what a comment says, and `PROJECT.json`
("findings") quotes it.

1. **sync_zombie.** Created and deleted topics have separate workers. The created handler
   reads the row, a delete removes row and device entry, the created handler then writes the
   peer back to the device: it stays there although its row is gone, until a restart.
2. **web_expiry.** The date input of the dialog gets the UTC date, the time input the local
   time, and both are read back as local: opening and saving the dialog of a peer moves its
   expiry by a day whenever the local date differs from the UTC date.

Seen in the models and left to reading, with the definition that shows it:

* All receivers of one fan-out lock under the sender's name (`endpoint_peer.go:488`), so a session
  that outlived its lease releases the row of another session of that name and a third one enters,
  against `database.go:35` "Only one node can hold the lock at a time". TLC violates `OneHolder` of
  `SyncLock` in 14 states; `LeaseExclusive` and the theorems say that this and a failed first
  DELETE are the only ways. At present nothing is at stake: the synchronisation under the lock does
  nothing, `database.go:1850`.
* With ping checks a lasting connection is never renewed: `wireguard.go:541-542` and 551 say "ALWAYS
  renew TTL", but the workers publish only changes of the state (`statistics.go:779`). A peer that got its
  TTL when it connected is deleted while it is connected, unless its state flaps. TLC violates `PingedNotExpired` of
  `PeerExpiry` in 11 states (with `MaxRestarts = 0`), and `OnlineNotExpired` is therefore about the collector only.
* With ping checks on several nodes the status of a connected peer flaps: no row has an owner, so
  the worker of a node without a handshake clears what that of the client's node has set.
  `OnlineReported` promises no more than "again and again" there.
* Expired peers are deleted whatever `delete_expired_peers` says: `config.go:67` has "Option to delete
  expired peers instead of disabling them", and the repository's `README.md:70` and 222-223 make
  the removal depend on it, but `FindAndDeleteExpiredPeersWithLock` never looks at it, and
  `checkExpiredPeers`, which does, has no caller. The option only turns the renewal by activity off.
  `AwayRemoved` holds for both values, which is what the code does and not what these lines say.
* A peer that is moved to another interface is announced to nobody if nothing else has changed
  (`hasMeaningfulChanges`, whose caller says that then "only internal timestamps changed"), and every
  device, also that of the node which served the request, keeps it on the old interface, too.
  `NeverSilent` and `AgreeWhenQuiet` exempt exactly these (`moved`).
* A preshared key, endpoint or keepalive that is emptied stays on the devices
  (`local.go:510-519` passes nil, which the kernel ignores). `Shows` asks nothing of an empty value.
* A receiver takes any database error for a deleted row: `handlePeerSyncedLocalEvent` removes the peer
  from the device, `handleSyncPost` drops the notification and answers 204. Nothing repeats
  either; `RemoteAgreement` excuses the node (`lost`) until it hears of the peer again.
* With `sync_on_startup` the restore in the background writes the rows it has read over newer ones
  (`SyncPeer`, excused in the same way).
* Saving a user in the browser wipes his API token and passkey identity: `UpdateUser` of the manager stores
  a record made from the form, which has neither. For the person himself the settings page
  still shows the token (`WipesToken`). The answer to a save says that the user has 0 peers (`UsersAgree`).
* Saving a peer drops the seconds of its expiry, which every expiry set from a TTL has
  (`formatDateTimeToRFC3339`).
* A client that goes to another node and comes back before its first node has noticed is not
  claimed again and stays reported offline (`PeerStatus.CollectPeerData`).
* An administrator's edit of a peer created with DoNotExpire drops TTLLocked
  (`PeerExpiry.SubmitForm`).
* The LDAP synchronisation clears Disabled of every user it writes, also of one whom an
  administrator has disabled, and publishes nothing (`Accounts.UpdateLdapUsers`).
* In the browser an answer that is overtaken by an older one, or lost, leaves a list, a token or a dialog
  wrong until the next load (`orderly` in the web modules); an edit that was cancelled stays in
  the listed peer and is stored with its next save (`WebForm.SetNest`); a failed load of the
  statistics leaves the profile page without page links and its buttons disabled
  (`WebUsers.Continued`).
* `CreatePeer` pushes onto the list of whichever interface is shown when it is answered
  (`WebPeers.ApplyCreate`), and `LoadPeers` loads nothing when there is no interface, so that the
  peers of the last one stay in the store and are listed again with the next interface
  (`WebPeers.Fails`). Both take more acts than the run allows: the attempt to prove `ListAgrees`
  found them.

Met on the way, without a sentence of the repository to hold against it: `UpdatePeer` decides
with the row it read at its start whether to announce; if the row was changed or deleted
meanwhile, its commit reverts that and no other node is told. `RemoteAgreement` excuses such
peers (`silent`), and `NeverSilent` shows that nothing else is silent.

## 6. What is proved

`tlapm <module>Proofs.tla` (the proofs about `SyncLock` and `PeerStatus` are in
`ClusterProofs.tla`); every theorem holds for all values of the constants that satisfy
the assumptions of its module.

| theorem | says | argument |
|---|---|---|
| `TypeCorrect` | PeerSync is type correct | one lemma per group of actions |
| `IInvHolds`, `RemoteAgreementHolds` | agreement of receiving nodes in every interleaving, with any number of nodes, peers, requests, failures and crashes | `IInv` |
| `NeverSilentHolds`, `RowsAppearAnnouncedHolds` | no change but that of the interface and no new row goes unannounced as long as requests for a peer have not overlapped (`pace # "any"`) | `IInv` and `SerialInv` |
| `AgreeWhenQuietHolds` (PeerSync) | as long as nothing has failed and changes of a peer have waited for the last one to settle (`pace = "settled"`), a cluster with nothing left to do shows the rows of the database on every device, but for emptied settings and moved peers | `IInv`'s support, `SerialInv` and `SettledInv` |
| `LockInvHolds`, `LeaseExclusiveHolds` | two sessions are never inside their leases together, whatever names they share, until a first DELETE fails or a session releases after the end of its lease | `LockInv` |
| `SyncLockImplementsLease` | the row implements `LeaseLock`, under the same conditions | each step maps to a step or a stutter, by `LockInv` |
| `StatusHasPeerHolds`, `OwnerWatchesHolds` | no orphaned status; a connected row has a watcher in calm times, and with ping checks no row has an owner | `StatusInv` |
| `OnlineNotExpiredHolds` | without ping checks a connected peer has not expired | `ExpiryInv` |
| `LockHonouredHolds` | activity never changes a locked row of a peer created once and not edited | `ExpiryInv` |
| `TypeCorrect` (Accounts) | Accounts is type correct | one lemma per group of actions |
| `PeersFollowHolds` | peers follow their user or are about to, for any number of nodes, requests and peers and every configuration | `PeersInv` |
| `OneDefaultPeerHolds` | one default peer as long as one node at a time handles creation and logins and the user is not deleted | `ArrivalInv` |
| `WritesMatchFormHolds`, `EditsReachOwnRecordHolds` | in every interleaving of dialogs, reloads and late answers nothing typed for one record is stored in another | `FormInv` (theorem `FormInvHolds`) |
| `TimeOfDayKeptHolds`, `SwitchAgreesHolds` | an expiry nobody edited keeps its hour and minute; the switch shows what the form holds | `FormInv` |
| `TypeCorrect` (WebSession) | WebSession is type correct | `SessionInv` (theorem `SessionInvHolds`) |
| `AgreeWhenQuietHolds` (WebSession) | with every call answered, in order and with success, the browser and the server agree on who is signed in and on the CSRF token | `SessionInv` |
| `NotStrandedHolds` | as long as calls are in order, somebody without a user on a page that needs a login is being logged out | `SessionInv` |
| `OauthReturnsHolds` | an external login ends on the page it was meant for, in whatever order the answers came | `SessionInv` |
| `StoresAgreeHolds` | with every call of a store answered, in order and with success, users and their versions, peers of the viewed user, passkeys, and the API token until a save of the own record wiped it, are those of the server, for any number of users, passkeys and calls | `UsersInv` (theorem `UsersInvHolds`) |
| `PeersTypeHolds` | WebPeers is type correct | with `CallsTold` and `Aligned` (theorem `SoundHolds`) |
| `ListAgreesHolds` | with every call answered, in order and with success, the list holds exactly the server's peers of the selected interface, each once and as last saved, with their statistics, for any number of interfaces, peers and calls | `PeersInv` (theorem `PeersInvHolds`) |
| `SelectedListedHolds` | what is selected is listed, whatever answer came last | inductive, with `CallsTold` |
| `ConfigBelongsHolds` | a dialog shows the configuration of its own record, a download that of its name | `PeerConfPending`, `IfaceConfPending` |
| `PagingSoundHolds` | offset and page links are those of the list, for every page size and window | `Aligned`, and arithmetic of `\div` and of the window |
| `ButtonsFreeHolds` | no button stays disabled without a call in flight, unless `setStats` threw | inductive, with `CallsTold` |

Why the properties are not inductive as they stand:

* `RemoteAgreement` says nothing about requests or queues. A commit must be followed by an
  announcement *from another node*, so `RequestShape` records that a request runs on a
  running node which counts as a writer (`wrote`) of its peers; `OwnTopics` that a
  node's sync topics only mention peers it wrote, so that its own stale handlers cannot
  disturb a node that only receives; `DownQuiet` that a node that is down or restoring has neither
  handler nor background restore that could overwrite the restore.
* `NeverSilent` needs that the row `UpdatePeer` compared with is still the row when it
  commits: two active requests share no peer (`SerialInv`).
* `AgreeWhenQuiet` of PeerSync speaks of the nodes that wrote, too, about which
  `RemoteAgreement` says nothing. `SettledInv` adds that nobody else has work for the peers of
  a request (`AloneOnPeers`), so that what a handler has read is still the row
  (`HandlersFresh`), and that a device which differs from the table is that of the request's
  own node between device and commit, or will be told (`Placed`).
* `LeaseExclusive` needs to know whose row it is (`HolderOwnsRow`, `RowBelongs`), and that an
  AcquireLock that has cleaned the table meets no expired row and so never reaches
  `Drop`, which deletes whatever is there (`CleanedRow`).
* `OwnerWatches` needs that claims are made with young handshakes and that only one of the two
  strategies is at work (`WorkInv`).
* `OnlineNotExpired` needs `RenewalInv`: time left plus time since the last cycle exceeds the
  hour, or a renewal is on its way. `LockHonoured` needs `LineageInv`: every copy of a row in
  a queue, a handler or a ping check is locked if the peer was created locked.
* `PeersFollow` needs that a job announces what it has compared (`JobShape`: a job about to
  save carries an event that tells the truth about the row it will write, or saw no
  difference, or is excused) and that each handler does its own work (`HandlerShape`).
* `OneDefaultPeer` needs `ArrivalInv`: no deletion is on its way, so every peer is linked; at
  most one handler of an arrival is at work in the cluster; and one that is about to create a
  default peer has found none and still would find none.
* `WritesMatchForm` and the others of `WebForm`: a form shares objects with a row of the list,
  so what is typed is in two places and, after a reload, in neither. `FormInv` ties the rows,
  the forms, the open dialog and the calls in flight to the openings they come from; `SwitchInv`
  and `SwitchOff` tie the switch to the form, `KeptTimes` the times of day to the records.
* `AgreeWhenQuiet` of WebSession holds at the end of chains of calls and says nothing about
  their middle. `SessionInv` has, in every run: calls are told apart by their numbers and a
  page that was left gets no answers (`CallsTold`), a new cookie is nobody's and a replaced or
  closed session is dead (`CookiesNew`), and what start-up and external login have in flight
  (`BootCalls`, `OauthCalls`). As long as calls are in order it adds `InOrder`, that nobody
  signs in or out before App.vue is done (`WhileBooting`), that the router's load was sent
  before App.vue's (`OauthFirst`) and who may be where (`Stranded`), and then: either the calls
  in flight can no longer all be applied in order and with success (`Doomed`: one is overtaken,
  will be refused, or two tokens are under way), or user and token agree once those in flight are
  applied (`UserAgrees`, `TokenAgrees`).
* `StoresAgree` holds at the end of chains of calls, too, and here the store computes its rows
  itself. `UsersPending` says that while calls are in order there are versions `b` which the list,
  or the last load that was answered, has (`Base`), and from which the answered saves of each
  user lead one by one to what the server has (`Chain`): the oldest creates the user if and only
  if `b` has none, the last is what the server stores. Taking the oldest answer moves `b` one save
  on, so it must be shown that `setUsers` does to the rows what the server did (`ListsSaved`; for
  the deletion, that `Nth` meets every kept position once, `NthPosition`, from the cardinality of
  finite sets). `CredsPending` says which answer brings the list that is stored, and that a failed
  rename finds a newer list on its way, which needs that a row being renamed is listed
  (`RenamedListed`). `CallsTold` keeps the calls apart.
* `ListAgrees` of `WebPeers` holds when nothing is in flight. `ListPending` says for the middle:
  as long as the calls of the lists are in order, none has failed (`Doomed`) and no load is still
  to be handled (`Reloading`), the rows of the newest answered load, or of the list if there is
  none (`Replies`), lead to the server's peers (`Leads`): each is listed once, and the answered
  edits of a peer which no such load has seen (`Pending`) go one by one from its row to what the
  server has (`Chain`). `StatsPending` says that while `onMounted` is under way the statistics are
  still to come, and that otherwise the newest call, or the store, has those of the selected
  interface. `CallsTold` has that answers hold what was written and that two calls never create the
  same peer. In the proof `GoodOf` restates `ListPending` with the calls as a parameter, so that
  a step is a lemma about sets of calls.
* `ConfigBelongs` needs that the newest call for a configuration is that of the open dialog
  (`PeerConfPending`, `IfaceConfPending`).

Assumptions: `OriginAssumption` (every session has some name), `TimeAssumption` (`Timeout <= Lease`, as 2 and 5 minutes),
`RowAssumption` of PeerSync (the rows of the instance are rows),
`TimeAssumption` of PeerExpiry (`0 < Period <= Hour < TTL`; collection interval, one hour,
default_user_ttl: nothing in the code enforces it), `TimeAssumption` of WebForm (stored dates and typed
times are minutes and seconds, the offset whole minutes), `Fields # {}` there, and that sentinels
differ from real values, restricted pages are not public (`SessionAssumption`) and there are
finitely many users (`UsersAssumption`) and peers (`PeersAssumption`, which also has some
configuration style and a smallest page size). All are evaluated by TLC for the instances it runs.

Only model-checked: liveness (`EventuallyQuiet`, `NeverStuck`, `OnlineReported`,
`OfflineReported`, `AwayRemoved`, `MissingDisabled`, `FoundEnabled`, `LogoutArrives`,
`OwnPagesShown`), since TLAPS has no reasoning about fairness, and the two counterexamples. Every
invariant of the runs is proved. TLC cannot check `UsersInv` as it
is written, because `UsersPending` chooses among infinitely many versions.

## 7. What is not modelled

Not yet, see section 2: interfaces, routes, MikroTik, the debouncer and the
full synchronisation, address allocation. The hazards known there:

* Addresses are chosen before the transaction that saves them and no unique index covers them
  (`wireguard_peers.go:327`); the limit of peers per user is checked as early. The address after
  the last one of a subnet is the first of the next (`database.go:1081`).
* DeleteInterface deletes peers created since `deleteInterfacePeers` without their statuses,
  devices and announcements (`database.go:641`).
* A Bump that meets a timer which has fired but not yet reset itself re-arms the old one
  (`fanout.go:583`). The bus holds 100 events per subscription, then publishers block
  (`main.go:90`).
* If the commit of `savePeers` fails the device keeps what has no row
  (`wireguard_peers.go:769`); `PeerSync` has the step (`AbortSave`), no line promises more.

Abstracted in the modules above:

* Transactions of one row are serialised: anomalies of weaker isolation are not considered.
* Clocks of nodes and database agree.
* In `PeerSync`: errors of the kernel in a sync handler; the number of retries in failedHosts; a
  publisher that blocks on a full queue (it waits in the model, too, but no property is about it);
  the peers the master removes when they expire (`PeerExpiry` has them), for which it publishes
  the topic of a deletion. A restore reads the rows of all interfaces at once (the code reads
  one interface after the other), the one before the server is never cut in half by a crash, and
  interfaces themselves are neither missing nor disabled.
* In `Accounts` one user, one interface and one LDAP provider; locks of users, passwords,
  passkeys and sessions; a failing read of the user's peers.
* In `PeerExpiry` updates of peer_status succeed (their failures are in `PeerStatus`).
* In `WebForm`: the fields a non-administrator may not change (`OverwriteUserEditableFields`, in
  `PeerExpiry`), a change of a peer's public key, which makes the save a deletion and a creation
  (in `PeerSync`), summer time (the offset is fixed), and the interface of a new peer is that of the opening.
  A reload of the list is one step, also that of the profile page after its dialog was closed.
* In `WebPeers`: sorting, the check boxes of the rows, mailing a configuration, saving it on the
  server, the clipboard and the display of addresses. None is read by another operation.
* REST calls of the web modules are handled in one step each: two of one session cannot overwrite
  each other's session data, nor two writes of one record (`Accounts` and `PeerSync` cut them finer).
* In `WebUsers`: `fetching` of the auth store, which a login by passkey raises and never lowers
  (`auth.js:244`), so that the passkey buttons start out disabled until a call about passkeys ends;
  the API token in the rows of the list; the fields of a user and their validation; what the filter box selects (it
  resets the page); sorting and check boxes of the profile page.
* In `WebSession`: providers and settings, which are loaded beside, and rights of the user.
* `IsPingable`, traffic counters, interface status and Prometheus metrics.

Left out for good: text (configuration templates, mails, web pages), webhooks and the audit
log (appended or sent once and never read back), request parsing and the middlewares other
than the CSRF check (no state across requests), configuration parsing, the one-time migration
from version 1, encryption of columns, the key generator page, translations and layout, and
the vendored viewer of the API documentation.
