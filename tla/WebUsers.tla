------------------------------ MODULE WebUsers ------------------------------
(***************************************************************************)
(* The pages about users: the user list with its view and edit dialogs     *)
(* (UserView.vue, UserViewModal.vue, UserEditModal.vue, stores/users.js),  *)
(* the audit list (AuditView.vue, stores/audit.js), the profile page       *)
(* (ProfileView.vue, stores/profile.js) and the settings page with the API *)
(* token and the passkeys (SettingsView.vue, stores/auth.js).              *)
(*                                                                         *)
(* The pages come and go, their stores stay: the chain of calls a page     *)
(* starts when it is shown goes on after it was left, and the stores of    *)
(* the profile and the settings page share one "fetching" flag each.       *)
(***************************************************************************)
EXTENDS WebTable, Sequences, FiniteSets

CONSTANTS
    Users, Known,       \* the user names, and the users there are at first
    Self,               \* the person, an admin
    Creds, Owned,       \* passkeys, and those that are registered at first
    None, New,          \* no user, and '#NEW#'
    NPeers, NEntries,   \* how many own peers and audit entries there are
    Sizes,              \* the page sizes on offer
    MaxActs             \* bound: what the person does, and calls that fail

ASSUME UsersAssumption ==
    /\ IsFiniteSet(Users) /\ Known \subseteq Users /\ Self \in Known /\ Owned \subseteq Creds
    /\ None \notin Users /\ New \notin Users /\ None # New
    /\ NPeers \in Nat /\ NEntries \in Nat /\ MaxActs \in Nat
    /\ Sizes \subseteq Nat \ {0} /\ Sizes # {}

VARIABLES
    srvUsers,       \* the server's users: their version, 0 when there is none
    srvApi,         \* the API token of the person: 0 when disabled
    srvCreds,       \* the names of the passkeys: 0 when there is none
    page, since,    \* the page that is shown, and the last call before it was
    users,          \* users.users: rows [id, ver, counted]
    userPeers,      \* whose peers users.userPeers are
    viewed, edit,   \* the users of the view and the edit dialog
    api,            \* profile.user.ApiToken
    own,            \* the number of listed own peers; entries of the audit list
    entries,
    fetching,       \* profile.fetching
    creds, credList,  \* auth.webAuthnCredentials, and the answer that set it
    authFetching,   \* auth.fetching
    tables,         \* the paging of the three lists
    calls, issued,  \* calls in flight, and how many were sent
    acts,           \* how many things the person did, or calls failed
    orderly,        \* ghost: the groups of calls of which none crossed or failed
    failed          \* ghost: the kinds of calls of the profile page that failed

vars == <<srvUsers, srvApi, srvCreds, page, since, users, userPeers, viewed, edit, api, own, entries, fetching,
          creds, credList, authFetching, tables, calls, issued, acts, orderly, failed>>
server == <<srvUsers, srvApi, srvCreds>>
shown == <<page, since>>
userStore == <<users, userPeers, viewed, edit>>
profileStore == <<api, own, fetching, failed>>
authStore == <<creds, credList, authFetching>>

Pages == {"users", "audit", "profile", "settings"}

----------------------------------------------------------------------------
Rng(s) == {s[n] : n \in DOMAIN s}
\* The rows of a load come with the number of peers of each user (PeerCount).
Rows == {[id |-> u, ver |-> srvUsers[u], counted |-> TRUE] : u \in {v \in Users : srvUsers[v] # 0}}
Order(rows) == CHOOSE s \in [1 .. Cardinality(rows) -> rows] : Rng(s) = rows
Nth(S, k) == CHOOSE n \in S : Cardinality({m \in S : m <= n}) = k
NoCreds == [k \in Creds |-> 0]

\* The calls of the edit dialog.
Saves == {"newUser", "updUser", "delUser"}

\* Calls that write the same part of a store.
Group(kind) ==
    CASE kind \in {"users", "newUser", "updUser", "delUser"} -> "users"
      [] kind \in {"user", "enable", "disable"} -> "api"
      [] kind \in {"creds", "regStart", "prompt", "regFinish", "rename", "delCred"} -> "creds"
      [] OTHER -> kind

InFlight(g) == {c \in calls : Group(c.kind) = g}

Ask(kind, of, from) == [kind |-> kind, of |-> of, from |-> from]

Call(ask, no) ==
    [no |-> no, kind |-> ask.kind, of |-> ask.of, from |-> ask.from, st |-> "sent", ok |-> FALSE,
     list |-> credList, rows |-> <<>>, num |-> 0, creds |-> NoCreds]

Send(gone, asks) ==
    /\ calls' = (calls \ gone) \cup {Call(asks[n], issued + n) : n \in DOMAIN asks}
    /\ issued' = issued + Len(asks)

\* A load with nothing of its group in flight makes the group orderly again.
Restored(asks) ==
    orderly \cup {Group(asks[n].kind) : n \in {m \in DOMAIN asks :
        asks[m].kind \in {"users", "userPeers", "user", "creds"} /\ InFlight(Group(asks[m].kind)) = {}}}

Overtakes(c, st) == \E d \in InFlight(Group(c.kind)) : d.no < c.no /\ d.st \in st

Act == acts < MaxActs /\ acts' = acts + 1

Clicks(asks) == Act /\ Send({}, asks) /\ orderly' = Restored(asks) /\ UNCHANGED server

\* Every call of the profile and of the auth store raises the store's flag.
Fetch(asks) ==
    /\ fetching' = (fetching \/ \E n \in DOMAIN asks : Group(asks[n].kind) \in {"api", "peers", "stats", "ifaces"})
    /\ authFetching' = (authFetching \/ \E n \in DOMAIN asks : Group(asks[n].kind) = "creds")

----------------------------------------------------------------------------
(* What the person does.                                                    *)

\* What onMounted of a page sends first; the profile and the settings page
\* go on from answer to answer.
Mounted(p) ==
    CASE p = "users" -> <<Ask("users", None, "user")>>
      [] p = "audit" -> <<Ask("audit", None, "user")>>
      [] OTHER -> <<Ask("user", None, p)>>

SmallestSize == CHOOSE n \in Sizes : \A m \in Sizes : n <= m

Init ==
    /\ srvUsers = [u \in Users |-> IF u \in Known THEN 1 ELSE 0]
    /\ srvApi \in {0, 1} /\ srvCreds = [k \in Creds |-> IF k \in Owned THEN 1 ELSE 0]
    /\ page = "home" /\ since = 1
    /\ users = <<>> /\ userPeers = None /\ viewed = None /\ edit = None
    /\ api = 0 /\ own = 0 /\ entries = 0 /\ fetching = FALSE /\ failed = {}
    /\ creds = NoCreds /\ credList = 0 /\ authFetching = FALSE
    /\ tables = [t \in {"users", "audit", "profile"} |-> freshTable(SmallestSize)]
    /\ calls = {} /\ issued = 1 /\ acts = 0
    /\ orderly = {}

\* Showing another page. The answer of an older call no longer closes a dialog.
Go(p) ==
    /\ p # page /\ page' = p /\ since' = issued /\ viewed' = None /\ edit' = None
    /\ Clicks(Mounted(p)) /\ Fetch(Mounted(p))
    /\ UNCHANGED <<users, userPeers, api, own, entries, failed, creds, credList, tables>>

\* The number of rows of the list that is shown.
Count == CASE page = "users" -> Len(users) [] page = "audit" -> entries [] OTHER -> own

\* The page links, the page size and the filter box of the list.
TurnPage ==
    /\ page \in DOMAIN tables /\ viewed = None /\ edit = None
    /\ LET t == tables[page]
       IN  \E moved \in Moves(t, Count, 1 .. t.pages, Sizes) :
              moved # t /\ tables' = [tables EXCEPT ![page] = moved]
    /\ Clicks(<<>>)
    /\ UNCHANGED <<shown, userStore, profileStore, entries, authStore>>

\* The view dialog of a listed user loads the peers of the user.
ViewUser(u) ==
    /\ page = "users" /\ viewed = None /\ edit = None /\ \E n \in DOMAIN users : users[n].id = u
    /\ viewed' = u
    /\ Clicks(<<Ask("userPeers", u, "user")>>)
    /\ UNCHANGED <<shown, users, userPeers, edit, profileStore, entries, authStore, tables>>

EditUser(u) ==
    /\ page = "users" /\ viewed = None /\ edit = None
    /\ u = New \/ \E n \in DOMAIN users : users[n].id = u
    /\ edit' = u
    /\ UNCHANGED <<server, shown, users, userPeers, viewed, profileStore, entries, authStore, tables,
                   calls, issued, acts, orderly>>

CloseDialog ==
    /\ viewed # None \/ edit # None
    /\ viewed' = None /\ edit' = None
    /\ UNCHANGED <<server, shown, users, userPeers, profileStore, entries, authStore, tables,
                   calls, issued, acts, orderly>>

\* Save and delete of the edit dialog: one at a time, of a listed user.
Press(kind, u) ==
    /\ \A c \in calls : c.kind # kind \/ c.no <= since
    /\ Clicks(<<Ask(kind, u, "user")>>)
    /\ UNCHANGED <<shown, userStore, profileStore, entries, authStore, tables>>

SaveUser ==
    \/ edit \in Users /\ (\E n \in DOMAIN users : users[n].id = edit)
       /\ (\A c \in calls : c.kind # "newUser" \/ c.no <= since) /\ Press("updUser", edit)
    \/ edit = New /\ (\A c \in calls : c.kind # "updUser" \/ c.no <= since) /\ \E u \in Users : Press("newUser", u)

DeleteUser == edit \in Users /\ (\E n \in DOMAIN users : users[n].id = edit) /\ Press("delUser", edit)

\* The edit dialog of the profile page was closed: its list is loaded again.
ClosePeerDialog ==
    /\ page = "profile"
    /\ Clicks(<<Ask("peers", None, "user")>>) /\ Fetch(<<Ask("peers", None, "user")>>)
    /\ UNCHANGED <<shown, userStore, api, own, failed, entries, creds, credList, tables>>

\* The buttons of the settings page, disabled while their store is fetching.
ToggleApi ==
    /\ page = "settings" /\ ~fetching
    /\ LET asks == <<Ask(IF api = 0 THEN "enable" ELSE "disable", None, "user")>>
       IN  Clicks(asks) /\ Fetch(asks)
    /\ UNCHANGED <<shown, userStore, api, own, failed, entries, creds, credList, tables>>

Passkey(kind, k) ==
    /\ page = "settings" /\ ~authFetching
    /\ Clicks(<<Ask(kind, k, "user")>>) /\ Fetch(<<Ask(kind, k, "user")>>)
    /\ UNCHANGED <<shown, userStore, api, own, failed, entries, creds, credList, tables>>

RegisterWebAuthn == Passkey("regStart", None)
saveRename(k) == creds[k] # 0 /\ Passkey("rename", k)
DeleteWebAuthnCredential(k) == creds[k] # 0 /\ Passkey("delCred", k)

----------------------------------------------------------------------------
(* The server.                                                              *)

\* UpdateUser stores a record made from the form, which has no API token.
WipesToken(c) == c.kind = "updUser" /\ c.of = Self /\ srvApi # 0

\* The token that is shown is out of date when a save of the own record wiped it.
Handled(c) ==
    orderly \ ((IF Overtakes(c, {"sent"}) THEN {Group(c.kind)} ELSE {})
               \cup (IF WipesToken(c) THEN {"api"} ELSE {}))

Reply(c, answer) ==
    /\ c \in calls /\ c.st = "sent"
    /\ calls' = (calls \ {c}) \cup {answer} /\ orderly' = Handled(c)
    /\ UNCHANGED <<shown, userStore, profileStore, entries, authStore, tables, issued, acts>>

Done(c) == [c EXCEPT !.st = "replied", !.ok = TRUE]
Refused(c) == [c EXCEPT !.st = "replied", !.ok = FALSE]

\* The lists; what the peers, the statistics and the interfaces are does not matter.
HandleList(c) ==
    /\ c.kind \in {"users", "userPeers", "audit", "peers", "stats", "ifaces", "regStart"}
    /\ Reply(c, [Done(c) EXCEPT !.rows = IF c.kind = "users" THEN Order(Rows) ELSE <<>>])
    /\ UNCHANGED server

\* A user is created once, changed or deleted when there, and nobody deletes
\* himself; a write makes a new version, which is part of the answer.
HandleSave(c) ==
    /\ c.kind \in Saves
    /\ IF (srvUsers[c.of] = 0) # (c.kind = "newUser") \/ (c.kind = "delUser" /\ c.of = Self)
       THEN Reply(c, Refused(c)) /\ UNCHANGED <<srvUsers, srvApi>>
       ELSE /\ Reply(c, [Done(c) EXCEPT !.num = c.no + 1])
            /\ srvUsers' = [srvUsers EXCEPT ![c.of] = IF c.kind = "delUser" THEN 0 ELSE c.no + 1]
            /\ srvApi' = IF WipesToken(c) THEN 0 ELSE srvApi
    /\ UNCHANGED srvCreds

\* Enabling makes a new token; each answers the user as stored.
HandleApi(c) ==
    /\ c.kind \in {"user", "enable", "disable"}
    /\ srvApi' = CASE c.kind = "user" -> srvApi [] c.kind = "enable" -> c.no [] OTHER -> 0
    /\ Reply(c, [Done(c) EXCEPT !.num = srvApi'])
    /\ UNCHANGED <<srvUsers, srvCreds>>

\* Every call about passkeys answers the list as stored.
HandleCreds(c) ==
    /\ c.kind \in {"creds", "rename", "delCred", "regFinish"}
    /\ IF c.kind \in {"rename", "delCred"} /\ srvCreds[c.of] = 0
       THEN Reply(c, Refused(c)) /\ UNCHANGED srvCreds
       ELSE /\ srvCreds' = CASE c.kind = "creds" -> srvCreds
                             [] c.kind = "delCred" -> [srvCreds EXCEPT ![c.of] = 0]
                             [] OTHER -> [srvCreds EXCEPT ![c.of] = c.no]
            /\ Reply(c, [Done(c) EXCEPT !.creds = srvCreds'])
    /\ UNCHANGED <<srvUsers, srvApi>>

Handle(c) == HandleList(c) \/ HandleSave(c) \/ HandleApi(c) \/ HandleCreds(c)

\* A call or its answer is lost.
Lose(c) ==
    /\ c \in calls /\ c.kind # "prompt" /\ (c.st = "sent" \/ c.ok)
    /\ Act
    /\ calls' = (calls \ {c}) \cup {[c EXCEPT !.st = "replied", !.ok = FALSE, !.rows = <<>>, !.num = 0, !.creds = NoCreds]}
    /\ orderly' = orderly \ {Group(c.kind)}
    /\ UNCHANGED <<server, shown, userStore, profileStore, entries, authStore, tables, issued>>

----------------------------------------------------------------------------
(* The answers.                                                             *)

Receive(c, kinds, asks) ==
    /\ c \in calls /\ c.st = "replied" /\ c.kind \in kinds
    /\ Send({c}, asks)
    /\ orderly' = Restored(asks) \ (IF Overtakes(c, {"sent", "replied"}) THEN {Group(c.kind)} ELSE {})
    /\ UNCHANGED <<server, shown, acts>>

\* A mutant: the deleted user stays listed.
KeepsRow(c) == users

\* The list after DeleteUser: the other rows, in their order.
WithoutRow(c) ==
    LET kept == {n \in DOMAIN users : users[n].id # c.of}
    IN  [k \in 1 .. Cardinality(kept) |-> users[Nth(kept, k)]]

\* The answer to a save has no peer count.
SavedRow(c) == [id |-> c.of, ver |-> c.num, counted |-> FALSE]

\* LoadUsers; CreateUser adds, UpdateUser replaces, DeleteUser takes out.
setUsers(c) ==
    CASE c.kind = "users" -> c.rows
      [] c.kind \in Saves /\ ~c.ok -> users
      [] c.kind = "newUser" /\ c.ok -> Append(users, SavedRow(c))
      [] c.kind = "updUser" /\ c.ok -> [n \in DOMAIN users |->
            IF users[n].id = c.of THEN SavedRow(c) ELSE users[n]]
      [] c.kind = "delUser" /\ c.ok -> WithoutRow(c)

\* Only the load of the list counts its pages; a save that went well closes
\* the dialog that is open by then.
ApplyUsers(c) ==
    /\ Receive(c, Saves \cup {"users"}, <<>>)
    /\ users' = setUsers(c)
    /\ tables' = IF c.kind = "users" THEN [tables EXCEPT !["users"] = calculatePages(@, Len(c.rows))] ELSE tables
    /\ edit' = IF c.ok /\ c.kind \in Saves /\ c.no > since THEN None ELSE edit
    /\ UNCHANGED <<userPeers, viewed, profileStore, entries, authStore>>

setUserPeers(c) ==
    /\ Receive(c, {"userPeers"}, <<>>)
    /\ userPeers' = IF c.ok THEN c.of ELSE None
    /\ UNCHANGED <<users, viewed, edit, profileStore, entries, authStore, tables>>

PagesOf(n) == calculatePages(tables["audit"], n)

setEntries(c) ==
    /\ Receive(c, {"audit"}, <<>>)
    /\ entries' = IF c.ok THEN NEntries ELSE 0
    /\ tables' = [tables EXCEPT !["audit"] = PagesOf(entries')]
    /\ UNCHANGED <<userStore, profileStore, authStore>>

\* What the page that waits for the answer calls next. setStats throws for a
\* failed call, and so ends the chain.
Continued(c) ==
    CASE c.from = "settings" /\ c.kind = "user" -> <<Ask("creds", None, "settings")>>
      [] c.from = "profile" /\ c.kind = "user" -> <<Ask("peers", None, "profile")>>
      [] c.from = "profile" /\ c.kind = "peers" -> <<Ask("stats", None, "profile")>>
      [] c.kind = "stats" /\ c.ok -> <<Ask("ifaces", None, "profile")>>
      [] OTHER -> <<>>

\* A failed LoadUser empties the user, a failed enableApi or disableApi leaves it.
setUser(c) == IF c.ok \/ c.kind = "user" THEN c.num ELSE api

\* A mutant: the pages are counted when the page is opened.
CountsTooEarly(c) == IF c.kind = "user" THEN calculatePages(tables["profile"], own) ELSE tables["profile"]

\* The page links are made when the last of the chain's answers is there.
ProfilePages(c) == IF c.kind = "ifaces" THEN calculatePages(tables["profile"], own) ELSE tables["profile"]

\* Every answer but that of LoadStats lowers the flag, the next call of the
\* chain raises it again.
ApplyProfile(c) ==
    /\ Receive(c, {"user", "enable", "disable", "peers", "stats", "ifaces"}, Continued(c))
    /\ api' = IF Group(c.kind) = "api" THEN setUser(c) ELSE api
    /\ own' = CASE c.kind = "peers" /\ c.ok -> NPeers [] c.kind = "peers" /\ ~c.ok -> 0 [] OTHER -> own
    /\ fetching' = ((c.kind = "stats" /\ fetching) \/ (\E n \in DOMAIN Continued(c) : Continued(c)[n].kind # "creds"))
    /\ authFetching' = (authFetching \/ (\E n \in DOMAIN Continued(c) : Continued(c)[n].kind = "creds"))
    /\ tables' = [tables EXCEPT !["profile"] = ProfilePages(c)]
    /\ failed' = IF c.ok THEN failed ELSE failed \cup {c.kind}
    /\ UNCHANGED <<userStore, entries, creds, credList>>

\* A failed load empties the list. A failed rename shows the new name if the
\* row is still that of the list, another failure changes nothing.
setWebAuthnCredentials(c) ==
    CASE c.ok \/ c.kind = "creds" -> c.creds
      [] c.kind = "rename" /\ ~c.ok /\ c.list = credList -> [creds EXCEPT ![c.of] = c.no]
      [] OTHER -> creds

ApplyCreds(c) ==
    /\ Receive(c, {"creds", "rename", "delCred", "regFinish"}, <<>>)
    /\ creds' = setWebAuthnCredentials(c)
    /\ credList' = IF c.ok \/ c.kind = "creds" THEN c.no ELSE credList
    /\ authFetching' = FALSE
    /\ UNCHANGED <<userStore, profileStore, entries, tables>>

\* The answer of the first call of a registration opens the browser's dialog.
\* It ends with a new key or with none.
ApplyRegStart(c) ==
    /\ Receive(c, {"regStart"}, IF c.ok THEN <<Ask("prompt", None, "user")>> ELSE <<>>)
    /\ authFetching' = (authFetching /\ c.ok)
    /\ UNCHANGED <<userStore, profileStore, entries, creds, credList, tables>>

\* A mutant: giving up at the browser's dialog is not noticed.
PromptForgotten(c) ==
    /\ c \in calls /\ c.kind = "prompt" /\ Send({c}, <<>>)
    /\ UNCHANGED <<server, shown, userStore, profileStore, entries, authStore, tables, acts, orderly>>

Prompt(c) ==
    /\ c \in calls /\ c.kind = "prompt"
    /\ \/ /\ \E k \in Creds :
               /\ srvCreds[k] = 0 /\ \A d \in calls : d.kind = "regFinish" => d.of # k
               /\ Send({c}, <<Ask("regFinish", k, "user")>>)
          /\ UNCHANGED authFetching
       \/ Send({c}, <<>>) /\ authFetching' = FALSE
    /\ UNCHANGED <<server, shown, userStore, profileStore, entries, creds, credList, tables, acts, orderly>>

Apply(c) ==
    ApplyUsers(c) \/ setUserPeers(c) \/ setEntries(c) \/ ApplyProfile(c) \/ ApplyCreds(c) \/ ApplyRegStart(c)

----------------------------------------------------------------------------
Person ==
    \/ \E p \in Pages : Go(p)
    \/ \E u \in Users : ViewUser(u) \/ EditUser(u)
    \/ EditUser(New) \/ CloseDialog \/ SaveUser \/ DeleteUser
    \/ TurnPage \/ ClosePeerDialog \/ ToggleApi \/ RegisterWebAuthn
    \/ \E k \in Creds : saveRename(k) \/ DeleteWebAuthnCredential(k)

Next == Person \/ \E c \in calls : Handle(c) \/ Apply(c) \/ Prompt(c) \/ Lose(c)

\* The server answers, or the browser gives up, and the event loop runs what
\* waits for an answer. The person owes nothing, also not to the key's dialog.
Fairness == WF_vars(\E c \in calls : Handle(c) \/ Apply(c))

Spec == Init /\ [][Next]_vars /\ Fairness

----------------------------------------------------------------------------
(* Properties.                                                              *)

\* With no call about users under way, and none that was lost or overtaken
\* since the list was loaded, the list has exactly the server's users, each
\* once and as last saved (users.js changes its rows by itself). The peer
\* count is missing (shown as 0) only for users that were saved from here.
UsersAgree ==
    "users" \in orderly /\ InFlight("users") = {} =>
        /\ Len(users) = Cardinality(Rows)
        /\ \A r \in Rows : \E n \in DOMAIN users :
              users[n].id = r.id /\ users[n].ver = r.ver /\ (users[n].counted \/ r.ver > 1)

\* The view dialog shows the peers of the user it was opened for.
ViewedAgree ==
    viewed # None /\ "userPeers" \in orderly /\ InFlight("userPeers") = {} => userPeers = viewed

\* The token and the passkeys of the settings page are those the server has;
\* the token, unless a save of the own record wiped it since it was loaded.
ApiAgree == "api" \in orderly /\ InFlight("api") = {} => api = srvApi
CredsAgree == "creds" \in orderly /\ InFlight("creds") = {} => creds = srvCreds

\* Whatever pages were visited and whatever was pressed while their calls were
\* under way: a store whose calls are all answered, none lost or overtaken,
\* shows what the server has. The stores never load again after a save, so
\* every answer must be applied to the rows by hand.
StoresAgree == UsersAgree /\ ViewedAgree /\ ApiAgree /\ CredsAgree

\* With no call under way no button stays disabled, unless the statistics of
\* the profile page failed (LoadStats then leaves the flag of the store up).
ButtonsFree ==
    /\ (\A c \in calls : Group(c.kind) \notin {"api", "peers", "stats", "ifaces"}) /\ "stats" \notin failed => ~fetching
    /\ InFlight("creds") = {} => ~authFetching

\* The profile page gets its page links (the last call of its onMounted),
\* unless it is left or a load of its peers or statistics failed.
OwnPagesShown ==
    page = "profile" ~> (page # "profile" \/ tables["profile"].pages > 0 \/ failed \cap {"peers", "stats"} # {})

----------------------------------------------------------------------------
(* What makes StoresAgree and ButtonsFree inductive.                        *)

Kinds == Saves \cup {"users", "userPeers", "audit", "user", "enable", "disable", "peers", "stats", "ifaces",
                     "creds", "regStart", "prompt", "regFinish", "rename", "delCred"}
UserRow == [id : Users, ver : Nat, counted : BOOLEAN]
Calls == [no : Nat, kind : Kinds, of : Users \cup Creds \cup {None}, from : Pages \cup {"user"},
          st : {"sent", "replied"}, ok : BOOLEAN, list : Nat, rows : Seq(UserRow), num : Nat, creds : [Creds -> Nat]]

\* Calls are told apart by their numbers, and the list of passkeys that is
\* shown, or was when a call was sent, came with none of those in flight.
CallsTold ==
    /\ issued \in Nat /\ credList \in 0 .. issued /\ calls \subseteq Calls
    /\ srvUsers \in [Users -> Nat] /\ srvApi \in Nat /\ srvCreds \in [Creds -> Nat] /\ creds \in [Creds -> Nat]
    /\ \A c \in calls :
          /\ c.no \in 1 .. issued /\ c.list <= issued /\ credList # c.no
          /\ c.kind \in Saves \cup {"userPeers"} => c.of \in Users
          /\ c.kind \in {"rename", "delCred", "regFinish"} => c.of \in Creds
          /\ \A d \in calls : d.list # c.no /\ (d.no = c.no => d = c)

\* The server has handled the older calls of a group, the browser none yet.
InOrder(g) == \A c, d \in InFlight(g) : c.st = "replied" /\ d.st = "sent" => c.no < d.no

\* The last call for the peers of a user is that of the dialog.
ViewedPending ==
    "userPeers" \in orderly =>
        /\ viewed # None /\ InFlight("userPeers") = {} => userPeers = viewed
        /\ \A c \in InFlight("userPeers") :
              /\ c.st = "replied" => c.ok
              /\ viewed # None /\ (\A d \in InFlight("userPeers") : d.no <= c.no) => c.of = viewed

\* The last answer about the token brings what the server has.
ApiPending ==
    "api" \in orderly =>
        /\ InOrder("api")
        /\ InFlight("api") = {} => api = srvApi
        /\ \A c \in InFlight("api") : c.st = "replied" =>
              c.ok /\ ((\A d \in InFlight("api") : d.st = "replied" => d.no <= c.no) => c.num = srvApi)

\* Answers that replace the list of passkeys; while the oldest call is a load
\* the list may be anything.
NewLists == {c \in InFlight("creds") : c.st = "replied" /\ c.ok /\ c.kind \notin {"regStart", "prompt"}}
Reloading(g, load) == \E l \in InFlight(g) : l.kind = load /\ \A d \in InFlight(g) : l.no <= d.no
CredsPending ==
    "creds" \in orderly =>
        /\ InOrder("creds")
        /\ NewLists = {} /\ ~Reloading("creds", "creds") => creds = srvCreds
        /\ \A c \in NewLists : (\A d \in NewLists : d.no <= c.no) => c.creds = srvCreds
        /\ \A c \in InFlight("creds") : c.st = "replied" /\ ~c.ok =>
              /\ c.kind \in {"rename", "delCred"}
              /\ c.kind = "rename" /\ c.list = credList => \E d \in NewLists : d.no < c.no

\* A row that is being renamed is there as long as its list is.
RenamedListed == \A c \in calls : c.kind = "rename" /\ c.list = credList => creds[c.of] # 0

\* The sequence s lists the users in the versions b, each once.
Lists(s, b) ==
    /\ s \in Seq(UserRow)
    /\ \A m, n \in DOMAIN s : s[m].id = s[n].id => m = n
    /\ \A n \in DOMAIN s : b[s[n].id] = s[n].ver /\ s[n].ver # 0 /\ (s[n].counted \/ s[n].ver > 1)
    /\ \A u \in Users : b[u] # 0 => \E n \in DOMAIN s : s[n].id = u

\* The answered saves of u that no answered load has seen, and what u is then.
AnsweredLoads == {c \in InFlight("users") : c.kind = "users" /\ c.st = "replied"}
Pending(u) ==
    {c \in InFlight("users") : /\ c.kind \in Saves /\ c.of = u /\ c.st = "replied" /\ c.ok
                               /\ \A l \in AnsweredLoads : l.no < c.no}
Saved(c) == IF c.kind = "delUser" THEN 0 ELSE c.num

\* The list, or the last answered load, has the versions b.
Base(b) ==
    \/ AnsweredLoads = {} /\ Lists(users, b)
    \/ \E l \in AnsweredLoads : Lists(l.rows, b) /\ \A k \in AnsweredLoads : k.no <= l.no

\* From version v the pending saves lead, one by one, to what the server has.
Chain(u, v) ==
    /\ Pending(u) = {} => v = srvUsers[u]
    /\ \A c \in Pending(u) :
          /\ c.kind # "delUser" => c.num > 1
          /\ (\A d \in Pending(u) : d.no <= c.no) => Saved(c) = srvUsers[u]
          /\ (\A d \in Pending(u) : c.no <= d.no) => (c.kind = "newUser" <=> v = 0)
          /\ \A d \in Pending(u) :
                c.no < d.no /\ (\A e \in Pending(u) : e.no <= c.no \/ d.no <= e.no) =>
                    (d.kind = "newUser" <=> Saved(c) = 0)

UsersPending ==
    "users" \in orderly =>
        /\ InOrder("users")
        /\ (\A c \in InFlight("users") : c.kind = "users" => c.st = "replied") =>
              \E b \in [Users -> Nat] : Base(b) /\ \A u \in Users : Chain(u, b[u])

UsersInv == CallsTold /\ ViewedPending /\ ApiPending /\ CredsPending /\ RenamedListed /\ UsersPending
=============================================================================
