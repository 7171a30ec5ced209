------------------------------ MODULE WebPeers ------------------------------
(***************************************************************************)
(* The interface page (InterfaceView.vue, PeerViewModal.vue,               *)
(* InterfaceViewModal.vue, PeerMultiCreateModal.vue) over the stores       *)
(* stores/interfaces.js and stores/peers.js: which interface is selected,  *)
(* which peers and statistics are listed for it, which configuration is    *)
(* shown, and what the server has.                                         *)
(*                                                                         *)
(* Every call is handled by the server, and its answer applied by the      *)
(* browser, in any order: nothing in the stores keeps an older answer from *)
(* overwriting a newer one.  What a record says is its version.            *)
(***************************************************************************)
EXTENDS WebTable, Sequences, FiniteSets

CONSTANTS
    Ifaces,             \* the identifiers, in the server's order
    Peers, Home,        \* identifiers of peers, and the interface of each
    Known,              \* the peers the server has at first
    None,               \* no interface, no peer, no configuration
    Styles,             \* the configuration styles
    Filters,            \* what the filter box can select
    Sizes,              \* the page sizes on offer
    Width,              \* how many page links are shown (10)
    MaxActs             \* bound: what the person does, and calls that fail

IfaceSet == {Ifaces[n] : n \in DOMAIN Ifaces}

ASSUME PeersAssumption ==
    /\ Ifaces \in Seq(IfaceSet) /\ IsFiniteSet(Peers)
    /\ Home \in [Peers -> IfaceSet] /\ Known \subseteq Peers
    /\ None \notin IfaceSet \cup Peers
    /\ IfaceSet \cap Peers = {}
    /\ Filters \subseteq SUBSET Peers /\ Styles # {}
    /\ Sizes \subseteq Nat \ {0} /\ \E n \in Sizes : \A m \in Sizes : n <= m
    /\ Width \in Nat \ {0} /\ MaxActs \in Nat

VARIABLES
    srvIfaces,      \* the server's interfaces
    srv,            \* its peers: their version, 0 when there is none
    interfaces,     \* interfaces.interfaces
    selected,       \* interfaces.selected
    peers,          \* peers.peers: rows [id, ver]
    statsOf,        \* whose statistics peers.stats are
    table, filter,  \* paging of the peer list; the peers that pass the filter
    dialog,         \* the dialog that is shown: [kind, id]
    style,          \* configStyle
    config,         \* peers.configuration and interfaces.configuration
    configString,   \* what the two view dialogs show
    saved,          \* the last download: its content and its file name
    visit,          \* the visits of the page
    calls, issued,  \* calls in flight, and how many were sent
    acts,           \* how many things the person did, or calls failed
    asked,          \* ghost: the interface of the listed peers, if it is one
    orderly         \* ghost: the groups of calls of which none crossed or failed

vars == <<srvIfaces, srv, interfaces, selected, peers, statsOf, table, filter, dialog, style, config,
          configString, saved, visit, calls, issued, acts, asked, orderly>>
server == <<srvIfaces, srv>>
lists == <<interfaces, selected, peers, statsOf, asked>>
views == <<style, config, configString, saved>>

----------------------------------------------------------------------------
Rng(s) == {s[n] : n \in DOMAIN s}

\* The rows of s at the positions kept, in their order.
Nth(S, k) == CHOOSE n \in S : Cardinality({m \in S : m <= n}) = k
RowsAt(s, kept) == [k \in 1 .. Cardinality(kept) |-> s[Nth(kept, k)]]

Listed(S) == RowsAt(Ifaces, {n \in DOMAIN Ifaces : Ifaces[n] \in S})
First(s) == IF s = <<>> THEN None ELSE s[1]

\* The getter of interfaces.js: the selected interface, or the first one.
GetSelected == IF selected \in Rng(interfaces) THEN selected ELSE First(interfaces)

\* The server's rows of an interface.
RowsOf(i) == {[id |-> p, ver |-> srv[p]] : p \in {q \in Peers : srv[q] # 0 /\ Home[q] = i}}

\* Rows of the same version.
Stamped(ids, ver) == {[id |-> p, ver |-> ver] : p \in ids}

\* Some order of the rows.
Order(rows) == CHOOSE s \in [1 .. Cardinality(rows) -> rows] : Rng(s) = rows

Count(rows, f) == Cardinality({n \in DOMAIN rows : rows[n].id \in f})
FilteredCount == Count(peers, filter)

NoConfig == [of |-> None, style |-> None]
Shut == [kind |-> "none", id |-> None]

\* Calls that write the same part of a store.
Group(kind) ==
    IF kind = "stats" THEN "stats" ELSE IF kind = "peerconf" THEN "peerconf"
    ELSE IF kind \in {"ifconf", "download"} THEN "ifconf" ELSE "list"

Loads == {"ifaces", "peers", "stats", "peerconf", "ifconf", "download"}

InFlight(g) == {c \in calls : Group(c.kind) = g}

----------------------------------------------------------------------------
(* Calls.                                                                   *)

Ask(kind, of, ids, from) == [kind |-> kind, of |-> of, ids |-> ids, from |-> from]

Call(a, n) ==
    [no |-> n, kind |-> a.kind, of |-> a.of, ids |-> a.ids, from |-> a.from, style |-> style',
     visit |-> visit', st |-> "sent", ok |-> FALSE, rows |-> <<>>]

Send(gone, asks) ==
    /\ calls' = (calls \ gone) \cup {Call(asks[n], issued + n) : n \in DOMAIN asks}
    /\ issued' = issued + Len(asks)

\* A load with nothing of its group in flight makes the group orderly again.
Restored(asks) ==
    orderly \cup {Group(asks[n].kind) : n \in {m \in DOMAIN asks :
        asks[m].kind \in Loads /\ InFlight(Group(asks[m].kind)) = {}}}

\* A step of c before an older call of its group has made the same step.
Overtakes(c, st) == \E d \in InFlight(Group(c.kind)) : d.no < c.no /\ d.st \in st

Act == acts < MaxActs /\ acts' = acts + 1

Clicks(asks) ==
    /\ Act /\ Send({}, asks) /\ orderly' = Restored(asks)
    /\ UNCHANGED server

\* LoadPeers and LoadStats: of the given or the selected interface, if any.
LoadPeers(i, from) == IF i = None THEN <<>> ELSE <<Ask("peers", i, {}, from)>>

LoadStats(i) == IF i = None THEN <<>> ELSE <<Ask("stats", i, {}, "user")>>

\* onMounted: LoadInterfaces, then LoadPeers, then LoadStats.
LoadInterfaces == <<Ask("ifaces", None, {}, "mount")>>

\* The page when its onMounted is through.
Init ==
    /\ srvIfaces = IfaceSet
    /\ srv = [p \in Peers |-> IF p \in Known THEN 1 ELSE 0]
    /\ interfaces = Ifaces /\ selected = First(Ifaces)
    /\ peers = Order(RowsOf(selected)) /\ statsOf = selected /\ asked = selected
    /\ filter = Peers
    /\ table = calculatePages(freshTable(CHOOSE n \in Sizes : \A m \in Sizes : n <= m), Len(peers))
    /\ dialog = Shut /\ style = CHOOSE x \in Styles : TRUE
    /\ config = [peer |-> NoConfig, iface |-> NoConfig] /\ configString = config
    /\ saved = [text |-> None, name |-> None, asked |-> None]
    /\ visit = 1 /\ acts = 0 /\ issued = 1 /\ calls = {}
    /\ orderly = {"list", "stats", "peerconf", "ifconf"}

----------------------------------------------------------------------------
(* What the person does.                                                    *)

\* To another page and back: the stores stay, the components are new.
Revisit ==
    /\ visit' = visit + 1 /\ dialog' = Shut /\ style' = CHOOSE x \in Styles : TRUE
    /\ configString' = [peer |-> NoConfig, iface |-> NoConfig]
    /\ Clicks(LoadInterfaces)
    /\ UNCHANGED <<lists, table, filter, config, saved>>

\* The interface selector.
Select(i) ==
    /\ dialog = Shut /\ i \in Rng(interfaces) /\ i # selected
    /\ selected' = i
    /\ UNCHANGED <<interfaces, peers, statsOf, asked, table, filter, dialog, views, visit>>
    /\ Clicks(LoadPeers(i, "user") \o LoadStats(i))

\* Paging and the filter box, whose keyup handler resets the page.
Page ==
    /\ dialog = Shut /\ interfaces # <<>>
    /\ \/ /\ table' \in Moves(table, FilteredCount, visiblePages(currentPage(table), table.pages, Width), Sizes)
          /\ filter' = filter
       \/ /\ filter' \in Filters
          /\ table' = afterPageSizeChange(table, Count(peers, filter'))
    /\ table' # table
    /\ UNCHANGED <<lists, dialog, views, visit>>
    /\ Clicks(<<>>)

\* The view dialog of a peer: its watcher loads the configuration.
OpenPeerView(p) ==
    /\ dialog = Shut /\ \E n \in DOMAIN peers : peers[n].id = p
    /\ dialog' = [kind |-> "peer", id |-> p]
    /\ UNCHANGED <<lists, table, filter, views, visit>>
    /\ Clicks(<<Ask("peerconf", p, {}, "user")>>)

\* The style switch loads it again.
SetStyle(x) ==
    /\ dialog.kind = "peer" /\ x # style /\ style' = x
    /\ UNCHANGED <<lists, table, filter, dialog, config, configString, saved, visit>>
    /\ Clicks(<<Ask("peerconf", dialog.id, {}, "user")>>)

OpenInterfaceView ==
    /\ dialog = Shut /\ interfaces # <<>>
    /\ dialog' = [kind |-> "iface", id |-> GetSelected]
    /\ UNCHANGED <<lists, table, filter, views, visit>>
    /\ Clicks(<<Ask("ifconf", GetSelected, {}, "user")>>)

\* The first half of InterfaceView.download.
Download ==
    /\ dialog = Shut /\ interfaces # <<>>
    /\ UNCHANGED <<lists, table, filter, dialog, views, visit>>
    /\ Clicks(<<Ask("download", GetSelected, {}, "user")>>)

\* The edit dialog of the selected interface.
OpenInterfaceEdit ==
    /\ dialog = Shut /\ interfaces # <<>>
    /\ dialog' = [kind |-> "edit", id |-> GetSelected]
    /\ UNCHANGED <<server, lists, table, filter, views, visit, calls, issued, acts, orderly>>

Close ==
    /\ dialog # Shut /\ dialog' = Shut
    /\ UNCHANGED <<server, lists, table, filter, views, visit, calls, issued, acts, orderly>>

\* The buttons of the edit dialog; each waits for its last call.
Press(kind, of, ids) ==
    /\ \A c \in calls : c.kind # kind
    /\ UNCHANGED <<lists, table, filter, dialog, views, visit>>
    /\ Clicks(<<Ask(kind, of, ids, "user")>>)

ApplyPeerDefaults == dialog.kind = "edit" /\ Press("defaults", dialog.id, {})
DeleteInterface == dialog.kind = "edit" /\ Press("delif", dialog.id, {})
CreateInterface(i) == dialog = Shut /\ i \notin srvIfaces /\ Press("newif", i, {})

\* The save and delete of the peer dialogs (WebForm has their forms).
UpdatePeer(p) == dialog = Shut /\ (\E n \in DOMAIN peers : peers[n].id = p) /\ Press("update", p, {})
DeletePeer(p) == dialog = Shut /\ (\E n \in DOMAIN peers : peers[n].id = p) /\ Press("delete", p, {})

\* CreatePeer and CreateMultiplePeers of the selected interface.
CreatePeers(kind, ids) ==
    /\ dialog = Shut /\ interfaces # <<>> /\ ids # {}
    /\ \A p \in ids : srv[p] = 0 /\ Home[p] = GetSelected
    /\ \A c \in calls : c.ids \cap ids = {}
    /\ Press(kind, GetSelected, ids)

CreatePeer(p) == CreatePeers("create", {p})
CreateMultiplePeers(ids) == CreatePeers("multi", ids)

----------------------------------------------------------------------------
(* The server.  The version of a record is the call that wrote it.          *)

Reply(c, ok, rows) ==
    calls' = (calls \ {c}) \cup {[c EXCEPT !.st = "answered", !.ok = ok, !.rows = rows]}

Write(ids, ver) == srv' = [p \in Peers |-> IF p \in ids THEN ver ELSE srv[p]]

HandleLoad(c) ==
    /\ UNCHANGED server
    /\ \/ c.kind = "ifaces" /\ Reply(c, TRUE, Listed(srvIfaces))
       \/ c.kind = "peers" /\ Reply(c, c.of \in srvIfaces, Order(RowsOf(c.of)))
       \/ c.kind \in {"stats", "ifconf", "download"} /\ Reply(c, c.of \in srvIfaces, <<>>)
       \/ c.kind = "peerconf" /\ Reply(c, srv[c.of] # 0, <<>>)

HandlePeer(c) ==
    /\ srvIfaces' = srvIfaces
    /\ \/ /\ c.kind = "update" /\ srv[c.of] # 0 /\ Write({c.of}, c.no)
          /\ Reply(c, TRUE, <<[id |-> c.of, ver |-> c.no]>>)
       \/ c.kind = "delete" /\ srv[c.of] # 0 /\ Write({c.of}, 0) /\ Reply(c, TRUE, <<>>)
       \/ /\ c.kind \in {"create", "multi"} /\ c.of \in srvIfaces /\ Write(c.ids, c.no)
          /\ Reply(c, TRUE, Order(Stamped(c.ids, c.no)))
       \/ /\ c.kind = "defaults" /\ c.of \in srvIfaces /\ Reply(c, TRUE, <<>>)
          /\ Write({p \in Peers : srv[p] # 0 /\ Home[p] = c.of}, c.no)

HandleInterface(c) ==
    \/ /\ c.kind = "newif" /\ srvIfaces' = srvIfaces \cup {c.of} /\ srv' = srv
       /\ Reply(c, TRUE, <<c.of>>)
    \/ /\ c.kind = "delif" /\ c.of \in srvIfaces /\ srvIfaces' = srvIfaces \ {c.of}
       /\ Write({p \in Peers : Home[p] = c.of}, 0) /\ Reply(c, TRUE, <<>>)

\* The record the call is about has been deleted.
HandleMissing(c) ==
    /\ \/ c.kind \in {"update", "delete"} /\ srv[c.of] = 0
       \/ c.kind \in {"create", "multi", "defaults", "delif"} /\ c.of \notin srvIfaces
    /\ UNCHANGED server /\ Reply(c, FALSE, <<>>)

Handle(c) ==
    /\ c \in calls /\ c.st = "sent"
    /\ HandleLoad(c) \/ HandlePeer(c) \/ HandleInterface(c) \/ HandleMissing(c)
    /\ orderly' = IF Overtakes(c, {"sent"}) THEN orderly \ {Group(c.kind)} ELSE orderly
    /\ UNCHANGED <<lists, table, filter, dialog, views, visit, issued, acts>>

\* CreateMultiplePeers fails after some of the peers were created.
HandlePartly(c) ==
    /\ Act /\ c \in calls /\ c.st = "sent" /\ c.kind = "multi" /\ c.of \in srvIfaces
    /\ \E done \in SUBSET c.ids : done # c.ids /\ Write(done, c.no)
    /\ Reply(c, FALSE, <<>>)
    /\ UNCHANGED <<srvIfaces, lists, table, filter, dialog, views, visit, issued, orderly>>

\* A call or its answer is lost.
Lose(c) ==
    /\ Act /\ c \in calls /\ (c.st = "sent" \/ c.ok)
    /\ Reply(c, FALSE, <<>>)
    /\ UNCHANGED <<server, lists, table, filter, dialog, views, visit, issued, orderly>>

----------------------------------------------------------------------------
(* The browser gets an answer.                                              *)

\* Also when there is no interface: then no peers are loaded.
Fails(c) == ~c.ok \/ (c.kind = "ifaces" /\ c.rows = <<>>)

Applies(c, kinds) ==
    /\ c \in calls /\ c.st = "answered" /\ c.kind \in kinds
    /\ orderly' = IF Overtakes(c, {"sent", "answered"}) \/ Fails(c) THEN orderly \ {Group(c.kind)} ELSE orderly
    /\ UNCHANGED <<server, filter, visit, acts>>

\* setInterfaces: the first interface is selected.
ApplyInterfaces(c) ==
    /\ Applies(c, {"ifaces"})
    /\ interfaces' = IF c.ok THEN c.rows ELSE <<>>
    /\ selected' = First(interfaces')
    /\ UNCHANGED <<peers, statsOf, asked, table, dialog, views>>
    /\ Send({c}, LoadPeers(selected', "mount"))

\* setPeers; onMounted goes on to LoadStats of what is selected by then.
ApplyPeers(c) ==
    /\ Applies(c, {"peers"})
    /\ peers' = IF c.ok THEN c.rows ELSE <<>>
    /\ asked' = c.of
    /\ table' = calculatePages(table, Count(peers', filter))
    /\ UNCHANGED <<interfaces, selected, statsOf, dialog, views>>
    /\ Send({c}, IF c.from = "mount" THEN LoadStats(GetSelected) ELSE <<>>)

ApplyStats(c) ==
    /\ Applies(c, {"stats"})
    /\ statsOf' = IF c.ok THEN c.of ELSE None
    /\ UNCHANGED <<interfaces, selected, peers, asked, table, dialog, views>>
    /\ Send({c}, <<>>)

\* A mutant: the row of the answer is appended.
UpdatedAppended(c) ==
    /\ Applies(c, {"update"})
    /\ peers' = IF c.ok THEN peers \o c.rows ELSE peers
    /\ UNCHANGED <<interfaces, selected, statsOf, asked, table, dialog, views>>
    /\ Send({c}, <<>>)

\* UpdatePeer: the row of the answer takes the place of the first such row.
ApplyUpdate(c) ==
    /\ Applies(c, {"update"})
    /\ peers' = IF c.ok THEN [n \in DOMAIN peers |->
                                IF peers[n].id = c.of /\ \A m \in 1 .. n - 1 : peers[m].id # c.of
                                THEN c.rows[1] ELSE peers[n]]
                ELSE peers
    /\ UNCHANGED <<interfaces, selected, statsOf, asked, table, dialog, views>>
    /\ Send({c}, <<>>)

\* CreatePeer and CreateMultiplePeers push, whosever peers are listed; the
\* page links stay as they are.
ApplyCreate(c) ==
    /\ Applies(c, {"create", "multi"})
    /\ peers' = peers \o c.rows
    /\ asked' = IF c.ok /\ c.of # asked THEN None ELSE asked
    /\ UNCHANGED <<interfaces, selected, statsOf, table, dialog, views>>
    /\ Send({c}, <<>>)

ApplyDelete(c) ==
    /\ Applies(c, {"delete"})
    /\ peers' = IF c.ok THEN RowsAt(peers, {n \in DOMAIN peers : peers[n].id # c.of}) ELSE peers
    /\ UNCHANGED <<interfaces, selected, statsOf, asked, table, dialog, views>>
    /\ Send({c}, <<>>)

\* The peers are loaded again while the dialog is open; once it is closed its
\* interface is unknown and the reload fails.
ApplyDefaults(c) ==
    /\ c \in calls /\ c.st = "answered" /\ c.kind = "defaults"
    /\ UNCHANGED <<server, filter, visit, acts, lists, table, dialog, views>>
    /\ LET again == c.ok /\ dialog.kind = "edit"
       IN  /\ Send({c}, IF again THEN LoadPeers(dialog.id, "user") ELSE <<>>)
           /\ orderly' = IF again /\ ~Overtakes(c, {"sent", "answered"}) THEN orderly ELSE orderly \ {"list"}

ApplyNewInterface(c) ==
    /\ Applies(c, {"newif"})
    /\ interfaces' = interfaces \o c.rows
    /\ UNCHANGED <<selected, peers, statsOf, asked, table, dialog, views>>
    /\ Send({c}, <<>>)

Without(i) == RowsAt(interfaces, {n \in DOMAIN interfaces : interfaces[n] # i})

\* A mutant: the deleted interface stays selected.
DeletedStaysSelected(c) ==
    /\ Applies(c, {"delif"})
    /\ interfaces' = IF c.ok THEN Without(c.of) ELSE interfaces
    /\ UNCHANGED <<selected, asked, peers, statsOf, table, dialog, views>>
    /\ Send({c}, <<>>)

\* DeleteInterface selects the first of the others and leaves the peer list.
ApplyDeleteInterface(c) ==
    /\ c \in calls /\ c.st = "answered" /\ c.kind = "delif"
    /\ orderly' = IF c.ok /\ ~Overtakes(c, {"sent", "answered"}) THEN orderly \ {"stats"} ELSE orderly \ {"list", "stats"}
    /\ UNCHANGED <<server, filter, visit, acts>>
    /\ interfaces' = IF c.ok THEN Without(c.of) ELSE interfaces
    /\ selected' = IF c.ok THEN First(interfaces') ELSE selected
    /\ asked' = IF c.ok THEN None ELSE asked
    /\ dialog' = IF c.ok /\ dialog.kind = "edit" THEN Shut ELSE dialog
    /\ UNCHANGED <<peers, statsOf, table, views>>
    /\ Send({c}, <<>>)

Loaded(c) == IF c.ok THEN [of |-> c.of, style |-> c.style] ELSE NoConfig

\* LoadPeerConfig and its watcher, LoadInterfaceConfig and its watcher: the
\* store gets the answer, then the dialog gets what the store has.
ApplyConfig(c) ==
    /\ Applies(c, {"peerconf", "ifconf"})
    /\ LET m == IF c.kind = "peerconf" THEN "peer" ELSE "iface"
       IN  /\ config' = [config EXCEPT ![m] = Loaded(c)]
           /\ configString' = IF c.visit = visit THEN [configString EXCEPT ![m] = config'[m]] ELSE configString
    /\ UNCHANGED <<lists, table, dialog, style, saved>>
    /\ Send({c}, <<>>)

\* A mutant: the store is read before the answer is there.
DownloadTooEarly(c) ==
    /\ Applies(c, {"download"})
    /\ config' = [config EXCEPT !.iface = Loaded(c)]
    /\ saved' = [text |-> config.iface.of, name |-> GetSelected, asked |-> c.of]
    /\ UNCHANGED <<lists, table, dialog, style, configString>>
    /\ Send({c}, <<>>)

\* The second half of download: the content is the answer's, the file name
\* that of the interface selected by now.
ApplyDownload(c) ==
    /\ Applies(c, {"download"})
    /\ config' = [config EXCEPT !.iface = Loaded(c)]
    /\ saved' = [text |-> config'.iface.of, name |-> GetSelected, asked |-> c.of]
    /\ UNCHANGED <<lists, table, dialog, style, configString>>
    /\ Send({c}, <<>>)

Apply(c) ==
    \/ ApplyInterfaces(c) \/ ApplyPeers(c) \/ ApplyStats(c) \/ ApplyUpdate(c) \/ ApplyCreate(c)
    \/ ApplyDelete(c) \/ ApplyDefaults(c) \/ ApplyNewInterface(c) \/ ApplyDeleteInterface(c)
    \/ ApplyConfig(c) \/ ApplyDownload(c)

Person ==
    \/ Revisit \/ Page \/ OpenInterfaceView \/ Download \/ OpenInterfaceEdit \/ Close
    \/ ApplyPeerDefaults \/ DeleteInterface
    \/ \E i \in IfaceSet : Select(i) \/ CreateInterface(i)
    \/ \E x \in Styles : SetStyle(x)
    \/ \E p \in Peers : OpenPeerView(p) \/ UpdatePeer(p) \/ DeletePeer(p) \/ CreatePeer(p)
    \/ \E ids \in SUBSET Peers : CreateMultiplePeers(ids)

Next == Person \/ \E c \in calls : Handle(c) \/ HandlePartly(c) \/ Lose(c) \/ Apply(c)

Spec == Init /\ [][Next]_vars

----------------------------------------------------------------------------
Rows == [id : Peers, ver : Nat]
Configs == [of : Peers \cup IfaceSet \cup {None}, style : Styles \cup {None}]
Groups == {"list", "stats", "peerconf", "ifconf"}
Kinds == {"ifaces", "peers", "stats", "peerconf", "ifconf", "download", "update", "create", "multi",
          "delete", "defaults", "newif", "delif"}

Edits == {"update", "create", "multi", "delete"}
Pushes == {"create", "multi"}
OfPeer == {"update", "delete", "peerconf"}

Calls == [no : Nat, kind : Kinds, of : Peers \cup IfaceSet \cup {None}, ids : SUBSET Peers,
          from : {"mount", "user"}, style : Styles, visit : Nat, st : {"sent", "answered"}, ok : BOOLEAN,
          rows : Seq(Rows) \cup Seq(IfaceSet)]

\* Every variable has its shape.
TypeOK ==
    /\ srvIfaces \subseteq IfaceSet /\ srv \in [Peers -> Nat]
    /\ interfaces \in Seq(IfaceSet) /\ selected \in IfaceSet \cup {None}
    /\ peers \in Seq(Rows) /\ statsOf \in IfaceSet \cup {None} /\ asked \in IfaceSet \cup {None}
    /\ table \in Tables(Sizes) /\ filter \subseteq Peers
    /\ dialog \in {Shut} \cup [kind : {"peer"}, id : Peers] \cup [kind : {"iface", "edit"}, id : IfaceSet]
    /\ style \in Styles /\ config \in [peer : Configs, iface : Configs]
    /\ configString \in [peer : Configs, iface : Configs]
    /\ saved \in [text : IfaceSet \cup {None}, name : IfaceSet \cup {None}, asked : IfaceSet \cup {None}]
    /\ visit \in Nat /\ issued \in Nat /\ acts \in Nat /\ orderly \subseteq Groups /\ calls \subseteq Calls

\* When no call of the lists is in flight, and none crossed another or failed
\* since the last load, the peer list holds exactly the server's peers of the
\* selected interface in their last version, each once, unless a new peer was
\* pushed onto the list of another interface and nothing was loaded since. If
\* the same goes for the statistics they are those of the listed peers, unless
\* an interface was deleted (the later reload of the list does not reload the
\* statistics).
ListAgrees ==
    "list" \in orderly /\ InFlight("list") = {} /\ asked = GetSelected /\ asked # None =>
        /\ Rng(peers) = RowsOf(asked) /\ Len(peers) = Cardinality(RowsOf(asked))
        /\ "stats" \in orderly /\ InFlight("stats") = {} => statsOf = asked

\* What is selected is listed, whatever answer came last: the page never
\* loads or edits an interface the selector does not show.
SelectedListed == selected # None => selected \in Rng(interfaces)

\* The dialog shows the configuration of its own peer in the chosen style, or
\* of its own interface, once the answers are there and came in order.  A
\* downloaded file holds what its name says (or nothing, when the call
\* failed), in whatever order they came, if the selection did not change.
ConfigBelongs ==
    /\ "peerconf" \in orderly /\ InFlight("peerconf") = {} /\ dialog.kind = "peer" =>
           configString.peer = [of |-> dialog.id, style |-> style]
    /\ "ifconf" \in orderly /\ InFlight("ifconf") = {} /\ dialog.kind = "iface" =>
           configString.iface.of = dialog.id
    /\ saved.asked = saved.name => saved.text \in {saved.name, None}

\* Through every mix of page links, filters, page sizes, reloads, saves and
\* deletions the page offset is the start of a page, and the window of page
\* links holds the link of the current page and none to a page that does not
\* exist (peers.js computes the offset, InterfaceView.vue the window).
PagingSound ==
    /\ Aligned(table)
    /\ ~table.click /\ currentPage(table) <= table.pages =>
        LET links == visiblePages(currentPage(table), table.pages, Width)
        IN  currentPage(table) \in links /\ links \subseteq 1 .. table.pages
----------------------------------------------------------------------------
(* What makes these inductive.                                              *)

\* Calls are told apart by their numbers, are about what their kind says and
\* are answered with the rows they wrote.  The peers a call is to create are
\* of its interface, are not there yet and are created by no other call.
CallsTold ==
    \A c \in calls :
        /\ c.no \in 1 .. issued
        /\ c.kind \in OfPeer => c.of \in Peers
        /\ c.kind \notin OfPeer \cup {"ifaces"} => c.of \in IfaceSet
        /\ c.rows \in Seq(IF c.kind \in {"ifaces", "newif"} THEN IfaceSet ELSE Rows)
        /\ c.ok => c.st = "answered" /\ (c.kind = "update" => c.rows = <<[id |-> c.of, ver |-> c.no]>>)
        /\ c.ok /\ c.kind \in Pushes => c.rows = Order(Stamped(c.ids, c.no))
        /\ c.kind \notin Pushes => c.ids = {}
        /\ \A p \in c.ids : Home[p] = c.of /\ (c.st = "sent" => srv[p] = 0)
        /\ \A d \in calls : d # c => d.no # c.no /\ d.ids \cap c.ids = {}

Newest(c, S) == \A d \in S : d.no <= c.no
Oldest(c, S) == \A d \in S : c.no <= d.no

\* The newest call for a configuration is that of the dialog.
PeerConfPending ==
    "peerconf" \in orderly /\ dialog.kind = "peer" =>
        /\ InFlight("peerconf") = {} => configString.peer = [of |-> dialog.id, style |-> style]
        /\ \A c \in InFlight("peerconf") : Newest(c, InFlight("peerconf")) => c.of = dialog.id /\ c.style = style /\ c.visit = visit
IfaceConfPending ==
    "ifconf" \in orderly /\ dialog.kind = "iface" =>
        /\ InFlight("ifconf") = {} => configString.iface.of = dialog.id
        /\ \A c \in InFlight("ifconf") : Newest(c, InFlight("ifconf")) => c.kind = "ifconf" /\ c.of = dialog.id /\ c.visit = visit

\* While onMounted is on its way the statistics are still to be loaded.
Mounting == \E c \in InFlight("list") : c.kind = "ifaces" \/ (c.kind = "peers" /\ c.from = "mount")
StatsPending ==
    {"list", "stats"} \subseteq orderly =>
        /\ interfaces = <<>> => IfaceSet = {} \/ \E c \in InFlight("list") : c.kind = "ifaces"
        /\ ~Mounting /\ GetSelected # None =>
              /\ InFlight("stats") = {} => statsOf = GetSelected
              /\ \A c \in InFlight("stats") : Newest(c, InFlight("stats")) => c.of = GetSelected

\* The server handles the calls of the lists in their order.
InOrder == \A c, d \in InFlight("list") : c.st = "answered" /\ d.st = "sent" => c.no < d.no

\* A call that failed ends the order when its answer is taken; the peers are
\* still to be loaded; the answers that replace the list, or leave it to nobody.
Doomed == \E c \in InFlight("list") : c.st = "answered" /\ ~c.ok
Reloading ==
    \E c \in InFlight("list") : c.kind \in {"ifaces", "defaults"} \/ (c.kind \in {"peers", "delif"} /\ c.st = "sent")
Replies == {c \in InFlight("list") : c.kind \in {"peers", "delif"} /\ c.st = "answered"}

\* The answered calls that wrote p and that no such answer has seen.
Touched(c) == IF c.kind \in Pushes THEN c.ids ELSE {c.of}
Saved(c) == IF c.kind = "delete" THEN 0 ELSE c.no
Wrote == {c \in InFlight("list") : c.kind \in Edits /\ c.st = "answered" /\ \A b \in Replies : b.no < c.no}
Pending(p) == {c \in Wrote : p \in Touched(c)}

\* From version v of p they lead, one by one, to what the server has.
Chain(p, v) ==
    /\ Pending(p) = {} => v = srv[p]
    /\ \A c \in Pending(p) :
          /\ Newest(c, Pending(p)) => Saved(c) = srv[p]
          /\ Oldest(c, Pending(p)) => (c.kind \in Pushes <=> v = 0)
          /\ \A d \in Pending(p) :
                c.no < d.no /\ (\A e \in Pending(p) : e.no <= c.no \/ d.no <= e.no) =>
                    (d.kind \in Pushes <=> Saved(c) = 0)

\* The rows s of the interface i lead to its peers.
Leads(s, i) ==
    i # None /\ (\A c \in Wrote : c.kind \in Pushes => c.of = i) =>
        /\ \A m, n \in DOMAIN s : s[m].id = s[n].id => m = n
        /\ \A n \in DOMAIN s : Home[s[n].id] = i /\ s[n].ver # 0 /\ Chain(s[n].id, s[n].ver)
        /\ \A p \in Peers : Home[p] = i /\ (\A n \in DOMAIN s : s[n].id # p) => Chain(p, 0)

ListPending ==
    "list" \in orderly /\ ~Doomed =>
        /\ InOrder
        /\ ~Reloading =>
              /\ Replies = {} => Leads(peers, asked)
              /\ \A b \in Replies : Newest(b, Replies) => Leads(b.rows, IF b.kind = "peers" THEN b.of ELSE None)

PeersInv ==
    /\ TypeOK /\ CallsTold /\ SelectedListed /\ Aligned(table)
    /\ PeerConfPending /\ IfaceConfPending /\ (saved.asked = saved.name => saved.text \in {saved.name, None})
    /\ StatsPending /\ ListPending
=============================================================================
