------------------------------- MODULE WebForm -------------------------------
(***************************************************************************)
(* The edit dialogs of the web interface: the admin's peer dialog          *)
(* (PeerEditModal.vue), the user's peer dialog on the profile page         *)
(* (UserPeerEditModal.vue) and the interface dialog (InterfaceEditModal    *)
(* .vue), with the rows they are filled from (stores/peers.js, profile.js, *)
(* interfaces.js) and the REST handlers they write to.                     *)
(*                                                                         *)
(* A dialog is filled from a row of a list, or, for a new record, from an  *)
(* answer of the server that may arrive after the dialog was closed and    *)
(* opened for something else.  The flat fields of a peer are copied into   *)
(* the form; the {Value, Overridable} fields are objects that the form     *)
(* SHARES with the list.  Typed text is abstracted to the number of the    *)
(* opening of the dialog in which it was typed (0: never edited).          *)
(***************************************************************************)
EXTENDS Integers, Sequences

CONSTANTS
    Peers, Ifaces,      \* identifiers of peers and interfaces
    Home,               \* the interface of a peer
    Known,              \* the peers and interfaces the server has at first
    Expires,            \* their expiry, in minutes and seconds UTC: {} or {t}
    Disabled,           \* the peers that are disabled at first
    Mixed,              \* the peers with some settings not overridable
    Fields,             \* the {Value, Overridable} settings of a peer
    Offset,             \* the browser's time zone: local time - UTC, in minutes
    Tags, ValidTags,    \* texts typed into a list input, and the well-formed ones
    Picks,              \* what may be typed as expiry: [day, minute of the day] pairs
    NoId, New,          \* the empty identifier, and '#NEW#'
    MaxOpens,           \* bound: how often a dialog is opened
    MaxActs             \* bound: how many inputs are changed and buttons pressed

Things == Peers \cup Ifaces

Time == [min : Int, sec : 0 .. 59]

ASSUME FormAssumption ==
    /\ Home \in [Peers -> Ifaces]
    /\ Known \subseteq Things
    /\ Disabled \subseteq Peers /\ Mixed \subseteq Peers
    /\ NoId \notin Things /\ New \notin Things /\ NoId # New
    /\ Peers \cap Ifaces = {}
    /\ ValidTags \subseteq Tags /\ Fields # {}
    /\ MaxOpens \in Nat /\ MaxActs \in Nat

ASSUME TimeAssumption ==
    /\ Expires \in [Peers -> SUBSET Time]
    /\ Offset \in Int /\ Picks \subseteq [date : Int, time : 0 .. 1439]

VARIABLES
    page,       \* "interfaces" or "profile": where the peer dialog is
    server,     \* the stored records
    list,       \* the rows of the peer and interface stores
    own,        \* the rows of the profile store
    prepared,   \* the shared settings of peers.Prepared
    open,       \* the dialog that is shown: [modal, id, iface, no]
    form,       \* formData and the expiry inputs of each dialog
    prepares,   \* PreparePeer and PrepareInterface calls in flight
    saves,      \* save calls in flight
    dels,       \* delete calls in flight
    opened,     \* history: what each opening of a dialog was for
    acts        \* how many inputs were changed and buttons pressed

vars == <<page, server, list, own, prepared, open, form, prepares, saves, dels, opened, acts>>

----------------------------------------------------------------------------
(* The two conversions of helpers/datetime.js.  The date is the UTC date,   *)
(* the time the local time cut off after its minutes (substring(0, 5));     *)
(* both are read back as local, with ':00' for the seconds.                 *)

formatRFC3339ToDatetime(exp) ==
    {[date |-> e.at.min \div 1440, time |-> (e.at.min + Offset) % 1440, chosen |-> e.chosen] : e \in exp}

\* A mutant: the inputs read as UTC.
ReadAsUTC(inputs) ==
    {[at |-> [min |-> 1440 * i.date + i.time, sec |-> 0], chosen |-> i.chosen] : i \in inputs}

\* What the two inputs stand for.
LocalTime(i) == [min |-> 1440 * i.date + i.time - Offset, sec |-> 0]

formatDateTimeToRFC3339(inputs) ==
    {[at |-> LocalTime(i), chosen |-> i.chosen] : i \in inputs}

----------------------------------------------------------------------------
(* Records.  "chosen" is the moment the user last picked: a ghost.          *)

FreshNest == [of |-> NoId, edit |-> 0, fixed |-> {}]

NoRow == [id |-> NoId, flat |-> 0, nest |-> FreshNest, exp |-> {}, disabled |-> FALSE]

freshPeer == [id |-> NoId, flat |-> 0, nest |-> FreshNest, exp |-> {}, disabled |-> FALSE,
              src |-> "form", ignore |-> FALSE, late |-> FALSE]

freshInterface == [id |-> NoId, flat |-> 0]

Closed == [modal |-> "none", id |-> NoId, iface |-> NoId, no |-> 0]

Has(rows, x) == rows[x].id # NoId

FirstRow(x) ==
    [id |-> x, flat |-> 0,
     nest |-> IF x \in Ifaces THEN FreshNest
              ELSE [of |-> x, edit |-> 0, fixed |-> IF x \in Mixed THEN {CHOOSE f \in Fields : TRUE} ELSE {}],
     exp |-> IF x \in Peers THEN {[at |-> t, chosen |-> t] : t \in Expires[x]} ELSE {},
     disabled |-> x \in Disabled]

\* Find of the peer store, then of the profile store (selectedPeer).
Where(p) == IF Has(list, p) THEN "list" ELSE "own"

Row(id) == IF id \in Ifaces \/ Has(list, id) THEN list[id] ELSE own[id]

Present(id) == Row(id).id # NoId

\* The object behind the settings the peer dialog shows.
FormNest ==
    IF form["peer"].src = "list" THEN list[form["peer"].id].nest
    ELSE IF form["peer"].src = "own" THEN own[form["peer"].id].nest
    ELSE IF form["peer"].src = "prepared" THEN prepared
    ELSE form["peer"].nest

\* Assign to that object, wherever it lives.
SetNest(f, n) ==
    /\ form' = [form EXCEPT !["peer"] = IF f.src = "form" THEN [f EXCEPT !.nest = n] ELSE f]
    /\ list' = IF f.src = "list" THEN [list EXCEPT ![f.id].nest = n] ELSE list
    /\ own' = IF f.src = "own" THEN [own EXCEPT ![f.id].nest = n] ELSE own
    /\ prepared' = IF f.src = "prepared" THEN n ELSE prepared

\* The rows that alias a list are replaced: the form keeps the old object.
Detached == IF form["peer"].src \in {"list", "own"}
            THEN [form EXCEPT !["peer"].src = "form", !["peer"].nest = FormNest]
            ELSE form

Init ==
    /\ page \in {"interfaces", "profile"}
    /\ server = [x \in Things |-> IF x \in Known THEN FirstRow(x) ELSE NoRow]
    /\ list \in {server, [x \in Things |-> NoRow]}
    /\ page = "interfaces" => list = server
    /\ own = IF page = "profile" THEN [p \in Peers |-> server[p]] ELSE [p \in Peers |-> NoRow]
    /\ prepared = FreshNest
    /\ open = Closed
    /\ form = [peer |-> freshPeer, iface |-> freshInterface]
    /\ prepares = {} /\ saves = {} /\ dels = {}
    /\ opened = <<>> /\ acts = 0

----------------------------------------------------------------------------
(* Opening a dialog.                                                        *)

Show(m, id, i) ==
    /\ open = Closed
    /\ Len(opened) < MaxOpens
    /\ open' = [modal |-> m, id |-> id, iface |-> i, no |-> Len(opened) + 1]
    /\ opened' = Append(opened, [id |-> id, iface |-> i])

\* A mutant: the switch is not derived from the row.
FilledNoSwitch(p) ==
    [form["peer"] EXCEPT !.id = p, !.flat = Row(p).flat, !.src = Where(p),
        !.exp = formatRFC3339ToDatetime(Row(p).exp), !.disabled = Row(p).disabled, !.late = FALSE]

\* The form filled from the row of p; the settings are shared with the row.
Filled(p) ==
    [form["peer"] EXCEPT !.id = p, !.flat = Row(p).flat, !.src = Where(p),
        !.exp = formatRFC3339ToDatetime(Row(p).exp), !.disabled = Row(p).disabled,
        !.ignore = @ \/ Row(p).nest.fixed # {}, !.late = FALSE]

\* The watcher of IgnoreGlobalSettings: all settings follow the switch.
IgnoreWatcher(f, n) ==
    IF f.ignore # form["peer"].ignore THEN [n EXCEPT !.fixed = IF f.ignore THEN Fields ELSE {}] ELSE n

\* The admin opens the dialog of a listed peer.
OpenPeer(p) ==
    /\ page = "interfaces" /\ Has(list, p)
    /\ Show("peer", p, Home[p])
    /\ SetNest(Filled(p), IgnoreWatcher(Filled(p), Row(p).nest))
    /\ UNCHANGED <<page, server, prepares, saves, dels, acts>>

\* A user opens the dialog of a peer of the profile page: no watcher there.
OpenOwnPeer(p) ==
    /\ page = "profile" /\ Has(own, p)
    /\ Show("peer", p, Home[p])
    /\ form' = [form EXCEPT !["peer"] = Filled(p)]
    /\ UNCHANGED <<page, server, list, own, prepared, prepares, saves, dels, acts>>

\* '#NEW#': nothing is filled before PreparePeer answers.
OpenNewPeer(i) ==
    /\ page = "interfaces" => Has(list, i)
    /\ Has(server, i)
    /\ Show("peer", New, i)
    /\ prepares' = prepares \cup {[modal |-> "peer", iface |-> i, no |-> open'.no]}
    /\ UNCHANGED <<page, server, list, own, prepared, form, saves, dels, acts>>

\* PreparePeer answered with the new peer p, or failed (NoId: a fresh peer);
\* the form is filled, whatever it shows by now.
FillPrepared(r, p) ==
    /\ prepared' = [of |-> p, edit |-> 0, fixed |-> {}]
    /\ form' = [form EXCEPT !["peer"] =
          [@ EXCEPT !.id = p, !.flat = 0, !.src = "prepared", !.exp = {}, !.disabled = FALSE,
                    !.late = form["peer"].ignore]]
    /\ prepares' = prepares \ {r}
    /\ UNCHANGED <<page, server, list, own, open, saves, dels, opened, acts>>

\* Every prepared peer gets a key pair of its own.
Unused(p) == /\ ~Has(server, p) /\ prepared.of # p /\ form["peer"].id # p
             /\ \A r \in saves : r.body.id # p

Prepared(r) ==
    /\ r \in prepares /\ r.modal = "peer"
    /\ \/ \E p \in Peers : Home[p] = r.iface /\ Unused(p) /\ FillPrepared(r, p)
       \/ FillPrepared(r, NoId)

PreparePeer(r) == page = "interfaces" /\ Prepared(r)
PrepareOwnPeer(r) == page = "profile" /\ Prepared(r)

OpenInterface(i) ==
    /\ page = "interfaces" /\ Has(list, i)
    /\ Show("iface", i, i)
    /\ form' = [form EXCEPT !["iface"].id = i, !["iface"].flat = list[i].flat]
    /\ UNCHANGED <<page, server, list, own, prepared, prepares, saves, dels, acts>>

OpenNewInterface ==
    /\ page = "interfaces"
    /\ Show("iface", New, NoId)
    /\ prepares' = prepares \cup {[modal |-> "iface", iface |-> NoId, no |-> open'.no]}
    /\ UNCHANGED <<page, server, list, own, prepared, form, saves, dels, acts>>

\* PrepareInterface answered with a free name, or failed.
PrepareInterface(r) ==
    /\ r \in prepares /\ r.modal = "iface"
    /\ \E i \in {j \in Ifaces : ~Has(server, j)} \cup {NoId} :
          form' = [form EXCEPT !["iface"].id = i, !["iface"].flat = 0]
    /\ prepares' = prepares \ {r}
    /\ UNCHANGED <<page, server, list, own, prepared, open, saves, dels, opened, acts>>

----------------------------------------------------------------------------
(* Typing into the dialog that is shown.                                    *)

Act == acts < MaxActs /\ acts' = acts + 1

Typing(m) == open.modal = m /\ Act

TypeFlat ==
    /\ form' = [form EXCEPT !["peer"].flat = open.no]
    /\ UNCHANGED <<page, server, list, own, prepared, open, prepares, saves, dels, opened>>

TypeSettings ==
    /\ SetNest(form["peer"], [FormNest EXCEPT !.edit = open.no])
    /\ UNCHANGED <<page, server, open, prepares, saves, dels, opened>>

\* A list input is taken over only if every tag is well-formed; the search
\* domains are taken as they are.
handleChangeTags(input, tags) == input # "DnsSearch" => tags \subseteq ValidTags

\* General and crypto inputs: plain fields of formData.
EditPeer == Typing("peer") /\ page = "interfaces" /\ TypeFlat

\* Network and hook inputs: shared settings, except the two address lists.
EditSettings ==
    /\ Typing("peer") /\ page = "interfaces"
    /\ \E input \in {"Addresses", "Dns", "DnsSearch"}, tags \in SUBSET Tags :
          /\ handleChangeTags(input, tags)
          /\ IF input = "Addresses" THEN TypeFlat ELSE TypeSettings

\* The inputs of the user's dialog: no list among them.
EditOwnPeer == Typing("peer") /\ page = "profile" /\ (TypeFlat \/ TypeSettings)

\* The switch of the admin's dialog, with its watcher.
ToggleIgnore ==
    /\ Typing("peer") /\ page = "interfaces"
    /\ LET f == [form["peer"] EXCEPT !.ignore = ~@, !.late = FALSE]
       IN  SetNest(f, IgnoreWatcher(f, FormNest))
    /\ UNCHANGED <<page, server, open, prepares, saves, dels, opened>>

\* The Disabled switch: enabling the peer clears the expiry inputs.
ToggleDisabled ==
    /\ Typing("peer")
    /\ form' = [form EXCEPT !["peer"].disabled = ~@,
                            !["peer"].exp = IF form["peer"].disabled THEN {} ELSE @]
    /\ UNCHANGED <<page, server, list, own, prepared, open, prepares, saves, dels, opened>>

\* The two expiry inputs, or clearing them.
EditExpiry ==
    /\ Typing("peer")
    /\ \E x \in {{}} \cup {{[date |-> k.date, time |-> k.time, chosen |-> LocalTime(k)]} : k \in Picks} :
          form' = [form EXCEPT !["peer"].exp = x]
    /\ UNCHANGED <<page, server, list, own, prepared, open, prepares, saves, dels, opened>>

TypeInterface(id) ==
    /\ form' = [form EXCEPT !["iface"].id = id, !["iface"].flat = open.no]
    /\ UNCHANGED <<page, server, list, own, prepared, open, prepares, saves, dels, opened>>

handleChangeInterfaceTags(input, tags) ==
    input \notin {"DnsSearch", "PeerDefDnsSearch"} => tags \subseteq ValidTags

\* The interface tab; the identifier is an input of a new interface only.
EditInterface ==
    /\ Typing("iface")
    /\ \E id \in {form["iface"].id} \cup (IF open.id = New THEN Ifaces ELSE {}) : TypeInterface(id)

\* The peer defaults tab and the list inputs of both tabs.
EditPeerDefaults ==
    /\ Typing("iface")
    /\ \E input \in {"PeerDefDns", "PeerDefDnsSearch"}, tags \in SUBSET Tags :
          handleChangeInterfaceTags(input, tags) /\ TypeInterface(form["iface"].id)

----------------------------------------------------------------------------
(* Saving, deleting and closing.                                            *)

\* close(): a fresh form; the profile page reloads its list.
Close(m) ==
    /\ form' = [form EXCEPT ![m] = IF m = "peer" THEN freshPeer ELSE freshInterface]
    /\ open' = IF open.modal = m THEN Closed ELSE open
    /\ own' = IF page = "profile" THEN [p \in Peers |-> server[p]] ELSE own

UserCloses ==
    /\ open # Closed
    /\ Close(open.modal)
    /\ UNCHANGED <<page, server, list, prepared, prepares, saves, dels, opened, acts>>

\* What JSON.stringify puts into the request.
Body(m) ==
    IF m = "iface" THEN [NoRow EXCEPT !.id = form["iface"].id, !.flat = form["iface"].flat]
    ELSE [id |-> form["peer"].id, flat |-> form["peer"].flat, nest |-> FormNest,
          exp |-> formatDateTimeToRFC3339(form["peer"].exp), disabled |-> form["peer"].disabled]

\* save(): refused while a save of this dialog is in flight; a row that has
\* left the list makes it fail before anything is sent.
Save(m) ==
    /\ Act /\ open.modal = m
    /\ \A r \in saves : r.modal # m
    /\ open.id # New => Present(open.id)
    /\ saves' = saves \cup {[modal |-> m, to |-> open.id, iface |-> open.iface, no |-> open.no,
                             body |-> Body(m), st |-> "sent"]}
    /\ UNCHANGED <<page, server, list, own, prepared, open, form, prepares, dels, opened>>

SavePeer == page = "interfaces" /\ Save("peer")
SaveOwnPeer == page = "profile" /\ Save("peer")
SaveInterface == Save("iface")

\* A mutant: the identifiers are not compared.
AcceptsAnyUpdate(r) == Has(server, r.to)

\* The REST handlers: the body must name the record of the path, a new peer
\* the interface of the path, and a new record a free identifier.
AcceptsUpdate(r) == r.body.id = r.to /\ Has(server, r.to)

\* A mutant: the interface of the body is not compared with the path.
AcceptsNewAnywhere(r) == r.body.id # NoId /\ ~Has(server, r.body.id)

AcceptsNew(r) ==
    /\ r.body.id # NoId /\ ~Has(server, r.body.id)
    /\ r.modal = "peer" => Home[r.body.id] = r.iface

Accepts(r) == IF r.to = New THEN AcceptsNew(r) ELSE AcceptsUpdate(r)

Answer(r, st) == saves' = (saves \ {r}) \cup {[r EXCEPT !.st = st]}

\* The server handles a save; the call may also fail, or its answer be lost.
HandleSave(r) ==
    /\ r \in saves /\ r.st = "sent"
    /\ \/ /\ Accepts(r)
          /\ server' = [server EXCEPT ![IF r.to = New THEN r.body.id ELSE r.to] = r.body]
          /\ \E st \in {"ok", "failed"} : Answer(r, st)
       \/ server' = server /\ Answer(r, "failed")
    /\ UNCHANGED <<page, list, own, prepared, open, form, prepares, dels, opened, acts>>

\* UpdatePeer, CreatePeer and their interface twins: the row of the answer
\* replaces the listed one or is appended, then the dialog closes.
SaveAnswered(r) ==
    /\ r \in saves /\ r.st = "ok"
    /\ list' = IF r.to # New /\ ~Has(list, r.to) THEN list
               ELSE [list EXCEPT ![r.body.id] = r.body]
    /\ Close(r.modal)
    /\ saves' = saves \ {r}
    /\ UNCHANGED <<page, server, prepared, prepares, dels, opened, acts>>

SaveFailed(r) ==
    /\ r \in saves /\ r.st = "failed"
    /\ saves' = saves \ {r}
    /\ UNCHANGED <<page, server, list, own, prepared, open, form, prepares, dels, opened, acts>>

\* del(), the same way.
Delete(m) ==
    /\ Act /\ open.modal = m /\ open.id # New /\ Present(open.id)
    /\ \A d \in dels : d.modal # m
    /\ dels' = dels \cup {[modal |-> m, id |-> open.id, st |-> "sent"]}
    /\ UNCHANGED <<page, server, list, own, prepared, open, form, prepares, saves, opened>>

DeletePeer == page = "interfaces" /\ Delete("peer")
DeleteOwnPeer == page = "profile" /\ Delete("peer")
DeleteInterface == Delete("iface")

\* The peers of an interface go with it.
HandleDelete(d) ==
    /\ d \in dels /\ d.st = "sent"
    /\ \/ /\ server' = [x \in Things |->
                IF x = d.id \/ (x \in Peers /\ Home[x] = d.id) THEN NoRow ELSE server[x]]
          /\ \E st \in {"ok", "failed"} : dels' = (dels \ {d}) \cup {[d EXCEPT !.st = st]}
       \/ server' = server /\ dels' = (dels \ {d}) \cup {[d EXCEPT !.st = "failed"]}
    /\ UNCHANGED <<page, list, own, prepared, open, form, prepares, saves, opened, acts>>

DeleteAnswered(d) ==
    /\ d \in dels /\ d.st = "ok"
    /\ list' = [list EXCEPT ![d.id] = NoRow]
    /\ Close(d.modal)
    /\ dels' = dels \ {d}
    /\ UNCHANGED <<page, server, prepared, prepares, saves, opened, acts>>

DeleteFailed(d) ==
    /\ d \in dels /\ d.st = "failed"
    /\ dels' = dels \ {d}
    /\ UNCHANGED <<page, server, list, own, prepared, open, form, prepares, saves, opened, acts>>

\* A list answer (peers of one interface; none when it failed) that arrives
\* while the dialog may be open.
ListAnswered ==
    /\ page = "interfaces"
    /\ \E i \in {h \in Ifaces : Has(list, h)} \cup {NoId} :
          list' = [x \in Things |-> IF x \in Ifaces THEN list[x]
                                    ELSE IF Home[x] = i THEN server[x] ELSE NoRow]
    /\ form' = Detached
    /\ UNCHANGED <<page, server, own, prepared, open, prepares, saves, dels, opened, acts>>

Next ==
    \/ \E p \in Peers : OpenPeer(p) \/ OpenOwnPeer(p)
    \/ \E i \in Ifaces : OpenNewPeer(i) \/ OpenInterface(i)
    \/ OpenNewInterface
    \/ \E r \in prepares : PreparePeer(r) \/ PrepareOwnPeer(r) \/ PrepareInterface(r)
    \/ EditPeer \/ EditSettings \/ EditOwnPeer \/ ToggleIgnore \/ ToggleDisabled \/ EditExpiry
    \/ EditInterface \/ EditPeerDefaults
    \/ SavePeer \/ SaveOwnPeer \/ SaveInterface
    \/ \E r \in saves : HandleSave(r) \/ SaveAnswered(r) \/ SaveFailed(r)
    \/ DeletePeer \/ DeleteOwnPeer \/ DeleteInterface
    \/ \E d \in dels : HandleDelete(d) \/ DeleteAnswered(d) \/ DeleteFailed(d)
    \/ UserCloses
    \/ ListAnswered

Spec == Init /\ [][Next]_vars

----------------------------------------------------------------------------
\* A stored record only ever holds what a form filled for that record said:
\* its identity and the settings that came with it, however late a prepared
\* record or an answer landed in the dialog of another one.
WritesMatchForm ==
    \A x \in Things : Has(server, x) =>
        /\ server[x].id = x
        /\ x \in Peers => server[x].nest.of = x

\* Text typed while the dialog was open for one record is never stored in
\* another, and a peer typed in as new is stored in the interface that was
\* selected then.
TypedInto(h, n, x) ==
    n = 0 \/ h[n].id = x \/ (h[n].id = New /\ (x \in Peers => h[n].iface = Home[x]))

EditsReachOwnRecord ==
    \A x \in Things : Has(server, x) =>
        TypedInto(opened, server[x].flat, x) /\ TypedInto(opened, server[x].nest.edit, x)

\* The same hour and minute, on whatever day; the seconds are kept or gone.
SameTimeOfDay(t, u) == (t.min - u.min) % 1440 = 0 /\ t.sec \in {0, u.sec}

\* An expiry keeps its hour and minute through any number of openings and saves of the
\* dialog, and its seconds until the first save, which drops them.
TimeOfDayKept ==
    \A p \in Peers : \A e \in server[p].exp : SameTimeOfDay(e.at, e.chosen)

\* "Convert RFC3339 to separate date and time fields" and "Convert separate
\* date and time fields back to RFC3339 format": an expiry nobody edited is
\* the one that was picked.
ExpiryKept ==
    \A p \in Peers : \A e \in server[p].exp : e.at = e.chosen

\* In the admin's dialog the "ignore global settings" switch and the flags
\* that will be stored agree, unless a prepared peer landed in the form
\* after the switch was set.
SwitchAgrees ==
    page = "interfaces" /\ open.modal = "peer" /\ ~form["peer"].late =>
        FormNest.fixed = IF form["peer"].ignore THEN Fields ELSE {}

----------------------------------------------------------------------------
(* The inductive invariant: shapes with their times, and who owns a text.    *)

\* What was picked, up to whole days and the seconds; a form has days and minutes.
KeptTimes == {e \in [at : Time, chosen : Time] : SameTimeOfDay(e.at, e.chosen)}
KeptInputs == {i \in [date : Int, time : Int, chosen : Time] :
                 (1440 * i.date + i.time - Offset - i.chosen.min) % 1440 = 0}

Nests == [of : Peers \cup {NoId}, edit : Nat, fixed : SUBSET Fields]
Rows == [id : Things \cup {NoId}, flat : Nat, nest : Nests, exp : SUBSET KeptTimes, disabled : BOOLEAN]
Forms == [id : Peers \cup {NoId}, flat : Nat, nest : Nests, exp : SUBSET KeptInputs, disabled : BOOLEAN,
          src : {"form", "list", "own", "prepared"}, ignore : BOOLEAN, late : BOOLEAN]
IfaceForms == [id : Ifaces \cup {NoId}, flat : Nat]
Modals == {"peer", "iface"}
Dialogs == [modal : Modals \cup {"none"}, id : Things \cup {NoId, New}, iface : Ifaces \cup {NoId}, no : Nat]
Saves == [modal : Modals, to : Things \cup {New}, iface : Ifaces \cup {NoId}, no : Nat, body : Rows,
          st : {"sent", "ok", "failed"}]
Dels == [modal : Modals, id : Things, st : {"sent", "ok", "failed"}]
Openings == [id : Things \cup {New}, iface : Ifaces \cup {NoId}]

\* Every variable has its shape, and no expiry has lost its time of day.
TypeOK ==
    /\ page \in {"interfaces", "profile"}
    /\ server \in [Things -> Rows] /\ list \in [Things -> Rows] /\ own \in [Peers -> Rows]
    /\ prepared \in Nests
    /\ open \in Dialogs
    /\ form \in [peer : Forms, iface : IfaceForms]
    /\ prepares \subseteq [modal : Modals, iface : Ifaces \cup {NoId}, no : Nat]
    /\ saves \subseteq Saves /\ dels \subseteq Dels
    /\ opened \in Seq(Openings)
    /\ acts \in Nat

\* A row is that of its record, with the record's settings and texts.
RowOf(h, row, x) ==
    row.id # NoId =>
        /\ row.id = x
        /\ \A n \in {row.flat, row.nest.edit} : n <= Len(h) /\ TypedInto(h, n, x)
        /\ x \in Peers => row.nest.of = x

RowsOwn ==
    /\ \A x \in Things : RowOf(opened, server[x], x) /\ RowOf(opened, list[x], x)
    /\ \A p \in Peers : RowOf(opened, own[p], p)

\* A text in a form was typed for the form's record or in the open dialog.
TextOf(h, o, n, x, m) == n <= Len(h) /\ (TypedInto(h, n, x) \/ (o.modal = m /\ n = o.no))

\* A form that shares its settings with a row is that of the open dialog.
FormOwns ==
    /\ form["peer"].src \in {"list", "own"} =>
           open.modal = "peer" /\ open.id = form["peer"].id /\ form["peer"].id \in Peers
    /\ form["peer"].src = "list" => Has(list, form["peer"].id)
    /\ form["peer"].src = "own" => Has(own, form["peer"].id)
    /\ FormNest.of = form["peer"].id /\ TextOf(opened, open, FormNest.edit, form["peer"].id, "peer")
    /\ TextOf(opened, open, form["peer"].flat, form["peer"].id, "peer")
    /\ TextOf(opened, open, form["iface"].flat, form["iface"].id, "iface")

\* The dialog is the one of the last opening, for a record of its kind.
OpenOwns ==
    IF open.modal = "none" THEN open = Closed ELSE
        /\ open.no \in DOMAIN opened /\ opened[open.no] = [id |-> open.id, iface |-> open.iface]
        /\ open.id \in {New} \cup (IF open.modal = "peer" THEN Peers ELSE Ifaces)
        /\ page = "profile" => open.modal = "peer"

\* A body that is sent has the settings of its record; its text was typed for
\* the record or in the dialog it was sent from.
SaveOwns(h, pg, r) ==
    /\ r.no \in DOMAIN h /\ h[r.no] = [id |-> r.to, iface |-> r.iface]
    /\ r.body.id \in {NoId} \cup (IF r.modal = "peer" THEN Peers ELSE Ifaces)
    /\ r.modal = "peer" => r.body.nest.of = r.body.id
    /\ \A n \in {r.body.flat, r.body.nest.edit} : n <= Len(h) /\ (TypedInto(h, n, r.body.id) \/ n = r.no)
    /\ pg = "profile" => r.modal = "peer"
    /\ r.st = "ok" => r.body.id # NoId /\ (r.to # New => r.body.id = r.to) /\ RowOf(h, r.body, r.body.id)

\* A delete is of a record of its dialog's kind.
DelOwns(pg, d) ==
    /\ d.id \in IF d.modal = "peer" THEN Peers ELSE Ifaces
    /\ pg = "profile" => d.modal = "peer"

TextsOwn ==
    /\ RowsOwn /\ FormOwns /\ OpenOwns
    /\ (\A r \in saves : SaveOwns(opened, page, r)) /\ (\A d \in dels : DelOwns(page, d))

\* Beside SwitchAgrees: without a peer dialog the switch is off and so are the
\* flags of the form the next one may start from.
SwitchInv ==
    page = "interfaces" /\ (open.modal = "peer" => ~form["peer"].late) =>
        FormNest.fixed = IF open.modal = "peer" /\ form["peer"].ignore THEN Fields ELSE {}

SwitchOff == page = "interfaces" /\ open.modal # "peer" => ~form["peer"].ignore

FormInv == TypeOK /\ TextsOwn /\ SwitchInv /\ SwitchOff
=============================================================================
