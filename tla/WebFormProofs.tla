---------------------------- MODULE WebFormProofs ----------------------------
(***************************************************************************)
(* Proofs about the edit dialogs: for any peers, interfaces, time zone and *)
(* inputs, and without bounds on openings, edits and calls in flight.      *)
(***************************************************************************)
EXTENDS WebForm, TLAPS

USE FormAssumption

\* The inputs of a kept expiry name its time of day.
LEMMA InputsKept ==
  ASSUME NEW exp \in SUBSET KeptTimes
  PROVE  formatRFC3339ToDatetime(exp) \in SUBSET KeptInputs
<1> SUFFICES ASSUME NEW e \in exp
             PROVE  [date |-> e.at.min \div 1440, time |-> (e.at.min + Offset) % 1440,
                     chosen |-> e.chosen] \in KeptInputs
  BY DEF formatRFC3339ToDatetime
<1>1. /\ e.at.min \in Int /\ e.chosen \in Time /\ e.chosen.min \in Int
      /\ (e.at.min - e.chosen.min) % 1440 = 0
  BY DEF KeptTimes, SameTimeOfDay, Time
<1>2. ASSUME NEW a \in Int, NEW c \in Int, NEW o \in Int, (a - c) % 1440 = 0
      PROVE  /\ a \div 1440 \in Int /\ (a + o) % 1440 \in Int
             /\ (1440 * (a \div 1440) + ((a + o) % 1440) - o - c) % 1440 = 0
  BY <1>2, SMT
<1>3. QED
  BY <1>1, <1>2, TimeAssumption, SMT DEF KeptInputs

\* The inputs are read back as a kept expiry, without seconds.
LEMMA TimesKept ==
  ASSUME NEW inputs \in SUBSET KeptInputs
  PROVE  formatDateTimeToRFC3339(inputs) \in SUBSET KeptTimes
<1> SUFFICES ASSUME NEW i \in inputs
             PROVE  [at |-> LocalTime(i), chosen |-> i.chosen] \in KeptTimes
  BY DEF formatDateTimeToRFC3339
<1>1. /\ i.date \in Int /\ i.time \in Int /\ i.chosen \in Time /\ i.chosen.min \in Int
      /\ (1440 * i.date + i.time - Offset - i.chosen.min) % 1440 = 0
  BY DEF KeptInputs, Time
<1> DEFINE m == 1440 * i.date + i.time - Offset
<1>2. m \in Int /\ (m - i.chosen.min) % 1440 = 0
  BY <1>1, TimeAssumption, SMT
<1>3. LocalTime(i) = [min |-> m, sec |-> 0]
  BY DEF LocalTime
<1> HIDE DEF m
<1>4. [min |-> m, sec |-> 0] \in Time
  BY <1>2 DEF Time
<1>5. SameTimeOfDay([min |-> m, sec |-> 0], i.chosen)
  BY <1>2 DEF SameTimeOfDay
<1> QED
  BY <1>1, <1>3, <1>4, <1>5 DEF KeptTimes

\* The empty records have their shape.
LEMMA FreshTypes ==
  /\ FreshNest \in Nests /\ NoRow \in Rows /\ freshPeer \in Forms
  /\ freshInterface \in IfaceForms /\ Closed \in Dialogs
<1>1. FreshNest \in Nests
  BY DEF FreshNest, Nests
<1> QED
  BY <1>1 DEF NoRow, Rows, freshPeer, Forms, freshInterface, IfaceForms, Closed, Dialogs

\* So have the rows of the first load.
LEMMA FirstRowType == \A x \in Things : FirstRow(x) \in Rows
<1> SUFFICES ASSUME NEW x \in Things PROVE FirstRow(x) \in Rows
  OBVIOUS
<1>1. FirstRow(x).nest \in Nests
  <2>1. (CHOOSE f \in Fields : TRUE) \in Fields
    OBVIOUS
  <2>2. QED
   BY <2>1, FreshTypes DEF FirstRow, Nests, Things
<1>2. FirstRow(x).exp \in SUBSET KeptTimes
  <2>1. ASSUME NEW t \in Time PROVE [at |-> t, chosen |-> t] \in KeptTimes
    BY DEF KeptTimes, SameTimeOfDay, Time
  <2>2. QED
    BY <2>1, TimeAssumption DEF FirstRow, Things
<1>3. QED
  BY <1>1, <1>2 DEF FirstRow, Rows


\* The settings behind the form are settings.
LEMMA FormNestType == TypeOK /\ FormOwns => FormNest \in Nests
<1> SUFFICES ASSUME TypeOK, FormOwns PROVE FormNest \in Nests
  OBVIOUS
<1>1. form["peer"] \in Forms
  BY DEF TypeOK
<1>2. CASE form["peer"].src = "list"
  <2>1. form["peer"].id \in Things
    BY <1>2 DEF FormOwns, Things
  <2>2. list[form["peer"].id] \in Rows
    BY <2>1 DEF TypeOK
  <2>3. QED
    BY <1>2, <2>2 DEF FormNest, Rows
<1>3. CASE form["peer"].src = "own"
  <2>1. form["peer"].id \in Peers
    BY <1>3 DEF FormOwns
  <2>2. own[form["peer"].id] \in Rows
    BY <2>1 DEF TypeOK
  <2>3. QED
    BY <1>3, <2>2 DEF FormNest, Rows
<1>4. CASE form["peer"].src = "prepared"
  BY <1>4 DEF FormNest, TypeOK
<1>5. CASE form["peer"].src = "form"
  BY <1>1, <1>5 DEF FormNest, Forms
<1>6. QED
  BY <1>1, <1>2, <1>3, <1>4, <1>5 DEF Forms


-----------------------------------------------------------------------------
(* What was typed where. Openings are only added.                           *)

Extends(g, h) == \E e \in Openings : g \in {h, Append(h, e)}

\* There is something to open a dialog for.
LEMMA SomeOpening == \E e : e \in Openings
<1>1. [id |-> New, iface |-> NoId] \in Openings
  BY DEF Openings
<1>2. QED
  BY <1>1

\* What was recorded about earlier openings stays.
LEMMA Growth ==
  ASSUME NEW h \in Seq(Openings), NEW g, Extends(g, h)
  PROVE  /\ g \in Seq(Openings)
         /\ Len(h) <= Len(g) /\ Len(h) \in Nat /\ Len(g) \in Nat
         /\ DOMAIN h = 1 .. Len(h) /\ DOMAIN g = 1 .. Len(g)
         /\ \A n \in DOMAIN h : n \in DOMAIN g /\ g[n] = h[n]
<1> PICK e \in Openings : g \in {h, Append(h, e)}
  BY DEF Extends
<1>1. CASE g = h
  BY <1>1
<1>2. CASE g = Append(h, e)
  BY <1>2
<1>3. QED
  BY <1>1, <1>2

\* So does what was typed for a record, ...
LEMMA TypedStays ==
  ASSUME NEW h \in Seq(Openings), NEW g, Extends(g, h), NEW n \in Nat, NEW x, n <= Len(h), TypedInto(h, n, x)
  PROVE  n <= Len(g) /\ TypedInto(g, n, x)
<1>1. CASE n = 0
  BY <1>1, Growth DEF TypedInto
<1>2. CASE n # 0
  <2>1. n \in DOMAIN h
    BY <1>2, Growth
  <2>2. g[n] = h[n] /\ n <= Len(g)
    BY <2>1, Growth
  <2>3. QED
    BY <1>2, <2>2 DEF TypedInto
<1>3. QED
  BY <1>1, <1>2

\* ... a row that is that of its record, ...
LEMMA RowStays ==
  ASSUME NEW h \in Seq(Openings), NEW g, Extends(g, h), NEW row \in Rows, NEW x, RowOf(h, row, x)
  PROVE  RowOf(g, row, x)
<1>1. row.flat \in Nat /\ row.nest.edit \in Nat
  BY DEF Rows, Nests
<1>2. QED
  BY <1>1, TypedStays DEF RowOf

\* ... and what is known about a request.
LEMMA SaveStays ==
  ASSUME NEW h \in Seq(Openings), NEW g, Extends(g, h), NEW pg, NEW r \in Saves, SaveOwns(h, pg, r)
  PROVE  SaveOwns(g, pg, r)
<1>1. r.body \in Rows /\ r.body.flat \in Nat /\ r.body.nest.edit \in Nat
  BY DEF Saves, Rows, Nests
<1>2. r.no \in DOMAIN g /\ g[r.no] = [id |-> r.to, iface |-> r.iface]
  BY Growth DEF SaveOwns
<1>3. ASSUME NEW n \in {r.body.flat, r.body.nest.edit}
      PROVE  n <= Len(g) /\ (TypedInto(g, n, r.body.id) \/ n = r.no)
  BY <1>1, Growth, TypedStays DEF SaveOwns
<1>4. r.st = "ok" => RowOf(g, r.body, r.body.id)
  BY <1>1, RowStays DEF SaveOwns
<1>5. QED
  BY <1>2, <1>3, <1>4 DEF SaveOwns

\* The calls that stay in flight.
LEMMA CallsStay ==
  ASSUME FormInv, Extends(opened', opened), page' = page, saves' \subseteq saves, dels' \subseteq dels
  PROVE  /\ saves' \subseteq Saves /\ dels' \subseteq Dels
         /\ (\A r \in saves : SaveOwns(opened, page, r))' /\ (\A d \in dels : DelOwns(page, d))'
<1>1. saves \subseteq Saves /\ dels \subseteq Dels /\ opened \in Seq(Openings)
  BY DEF FormInv, TypeOK
<1>2. ASSUME NEW r \in saves' PROVE SaveOwns(opened', page', r)
  BY <1>1, SaveStays DEF FormInv, TextsOwn
<1>3. ASSUME NEW d \in dels' PROVE DelOwns(page', d)
  BY DEF FormInv, TextsOwn, DelOwns
<1>4. QED
  BY <1>1, <1>2, <1>3

\* The rows that stay.
LEMMA RowsStay ==
  ASSUME FormInv, Extends(opened', opened)
  PROVE  /\ \A x \in Things : RowOf(opened', server[x], x) /\ RowOf(opened', list[x], x)
         /\ \A p \in Peers : RowOf(opened', own[p], p)
<1>1. /\ \A x \in Things : server[x] \in Rows /\ list[x] \in Rows
      /\ \A p \in Peers : own[p] \in Rows
      /\ opened \in Seq(Openings)
  BY DEF FormInv, TypeOK
<1>2. QED
  BY <1>1, RowStays DEF FormInv, TextsOwn, RowsOwn

\* A text that nobody is typing was typed for its record.
LEMMA TextStays ==
  ASSUME NEW h \in Seq(Openings), NEW g, Extends(g, h), NEW n \in Nat, NEW x, NEW m, NEW o, NEW q,
         TextOf(h, o, n, x, m), o.modal # m \/ (q.modal = o.modal /\ q.no = o.no)
  PROVE  TextOf(g, q, n, x, m)
<1>1. CASE TypedInto(h, n, x)
  BY <1>1, TypedStays DEF TextOf
<1>2. CASE o.modal = m /\ n = o.no
  BY <1>2, Growth DEF TextOf
<1>3. QED
  BY <1>1, <1>2 DEF TextOf

\* A text nobody edited belongs everywhere.
LEMMA ZeroTyped ==
  ASSUME NEW h \in Seq(Openings), NEW o, NEW x, NEW m
  PROVE  TextOf(h, o, 0, x, m)
BY DEF TextOf, TypedInto

\* The settings that are assigned are those of the form, and nothing else of
\* a row changes.
LEMMA SetNestEffect ==
  ASSUME TypeOK, NEW f \in Forms, NEW n \in Nests, SetNest(f, n),
         f.src = "list" => f.id \in Peers, f.src = "own" => f.id \in Peers
  PROVE  /\ form' \in [peer : Forms, iface : IfaceForms] /\ prepared' \in Nests
         /\ list' \in [Things -> Rows] /\ own' \in [Peers -> Rows]
         /\ FormNest' = n /\ form'["iface"] = form["iface"]
         /\ form'["peer"] = IF f.src = "form" THEN [f EXCEPT !.nest = n] ELSE f
         /\ \A x \in Things : list'[x] = IF f.src = "list" /\ x = f.id THEN [list[x] EXCEPT !.nest = n] ELSE list[x]
         /\ \A x \in Peers : own'[x] = IF f.src = "own" /\ x = f.id THEN [own[x] EXCEPT !.nest = n] ELSE own[x]
<1>1. form'["peer"] = (IF f.src = "form" THEN [f EXCEPT !.nest = n] ELSE f) /\ form'["iface"] = form["iface"]
  BY DEF SetNest, TypeOK
<1>2. [f EXCEPT !.nest = n] \in Forms
  BY DEF Forms
<1>3. form' \in [peer : Forms, iface : IfaceForms]
  BY <1>2 DEF SetNest, TypeOK
<1>4. prepared' \in Nests
  BY DEF SetNest, TypeOK
<1>5. ASSUME NEW row \in Rows PROVE [row EXCEPT !.nest = n] \in Rows
  BY DEF Rows
<1>6. /\ list' \in [Things -> Rows]
      /\ \A x \in Things : list'[x] = IF f.src = "list" /\ x = f.id THEN [list[x] EXCEPT !.nest = n] ELSE list[x]
  <2>1. CASE f.src = "list"
    <3>1. f.id \in Things
      BY <2>1 DEF Things
    <3>2. list' = [list EXCEPT ![f.id].nest = n]
      BY <2>1 DEF SetNest
    <3>3. list' = [list EXCEPT ![f.id] = [list[f.id] EXCEPT !.nest = n]]
      BY <3>2
    <3>4. QED
      BY <1>5, <2>1, <3>1, <3>3 DEF TypeOK
  <2>2. CASE f.src # "list"
    BY <2>2 DEF SetNest, TypeOK
  <2>3. QED
    BY <2>1, <2>2
<1>7. /\ own' \in [Peers -> Rows]
      /\ \A x \in Peers : own'[x] = IF f.src = "own" /\ x = f.id THEN [own[x] EXCEPT !.nest = n] ELSE own[x]
  <2>1. CASE f.src = "own"
    <3>1. f.id \in Peers
      BY <2>1
    <3>2. own' = [own EXCEPT ![f.id].nest = n]
      BY <2>1 DEF SetNest
    <3>3. own' = [own EXCEPT ![f.id] = [own[f.id] EXCEPT !.nest = n]]
      BY <3>2
    <3>4. QED
      BY <1>5, <2>1, <3>1, <3>3 DEF TypeOK
  <2>2. CASE f.src # "own"
    BY <2>2 DEF SetNest, TypeOK
  <2>3. QED
    BY <2>1, <2>2
<1>8. FormNest' = n
  <2>1. form'["peer"].src = f.src /\ form'["peer"].id = f.id
    BY <1>1, <1>2 DEF Forms
  <2>2. CASE f.src = "list"
    <3>1. f.id \in Things
      BY <2>2 DEF Things
    <3>2. list[f.id] \in Rows /\ list'[f.id] = [list[f.id] EXCEPT !.nest = n]
      BY <1>6, <2>2, <3>1 DEF TypeOK
    <3>3. list'[f.id].nest = n
      BY <3>2 DEF Rows
    <3>4. QED
      BY <2>1, <2>2, <3>3 DEF FormNest
  <2>3. CASE f.src = "own"
    <3>1. own'[f.id].nest = n
      BY <1>7, <2>3 DEF TypeOK, Rows
    <3>2. QED
      BY <2>1, <2>3, <3>1 DEF FormNest
  <2>4. CASE f.src = "prepared"
    BY <2>1, <2>4 DEF FormNest, SetNest
  <2>5. CASE f.src = "form"
    BY <1>1, <2>1, <2>5 DEF FormNest, Forms
  <2>6. QED
    BY <2>2, <2>3, <2>4, <2>5 DEF Forms
<1>9. QED
  BY <1>1, <1>3, <1>4, <1>6, <1>7, <1>8

\* With settings of the record, edited for it, a row stays that of the record.
LEMMA SetNestRows ==
  ASSUME FormInv, Extends(opened', opened), NEW f \in Forms, NEW n \in Nests, SetNest(f, n), server' = server,
         f.src \in {"list", "own"} =>
             f.id \in Peers /\ n.of = f.id /\ n.edit <= Len(opened') /\ TypedInto(opened', n.edit, f.id)
  PROVE  RowsOwn'
<1>1. TypeOK /\ RowsOwn /\ opened \in Seq(Openings)
  BY DEF FormInv, TextsOwn, TypeOK
<1>2. /\ \A x \in Things : list'[x] = IF f.src = "list" /\ x = f.id THEN [list[x] EXCEPT !.nest = n] ELSE list[x]
      /\ \A x \in Peers : own'[x] = IF f.src = "own" /\ x = f.id THEN [own[x] EXCEPT !.nest = n] ELSE own[x]
  BY <1>1, SetNestEffect
<1>3. ASSUME NEW row \in Rows, RowOf(opened', row, f.id), f.src \in {"list", "own"}
      PROVE  RowOf(opened', [row EXCEPT !.nest = n], f.id)
  <2>1. [row EXCEPT !.nest = n].id = row.id /\ [row EXCEPT !.nest = n].flat = row.flat /\ [row EXCEPT !.nest = n].nest = n
    BY DEF Rows
  <2>2. QED
    BY <1>3, <2>1 DEF RowOf
<1>4. ASSUME NEW x \in Things PROVE RowOf(opened', server'[x], x) /\ RowOf(opened', list'[x], x)
  <2>1. list[x] \in Rows /\ RowOf(opened', server[x], x) /\ RowOf(opened', list[x], x)
    BY <1>1, RowsStay DEF TypeOK
  <2>2. QED
    BY <1>2, <1>3, <2>1
<1>5. ASSUME NEW x \in Peers PROVE RowOf(opened', own'[x], x)
  <2>1. own[x] \in Rows /\ RowOf(opened', own[x], x)
    BY <1>1, RowsStay DEF TypeOK
  <2>2. QED
    BY <1>2, <1>3, <2>1
<1>6. QED
  BY <1>4, <1>5 DEF RowsOwn

-----------------------------------------------------------------------------
(* Every step keeps the invariant.                                          *)

\* The invariant holds when the page has loaded.
LEMMA InitInv == Init => FormInv
<1> SUFFICES ASSUME Init PROVE FormInv
  OBVIOUS
<1>1. /\ NoRow \in Rows /\ freshPeer \in Forms /\ freshInterface \in IfaceForms /\ Closed \in Dialogs
      /\ FreshNest \in Nests
  BY FreshTypes
<1>2. server \in [Things -> Rows]
  BY <1>1, FirstRowType DEF Init
<1>3. list \in [Things -> Rows] /\ own \in [Peers -> Rows]
  BY <1>1, <1>2 DEF Init, Things
<1>4. form \in [peer : Forms, iface : IfaceForms]
  BY <1>1 DEF Init
<1>5. TypeOK
  BY <1>1, <1>2, <1>3, <1>4 DEF Init, TypeOK
<1>6. ASSUME NEW x \in Things PROVE RowOf(opened, NoRow, x) /\ RowOf(opened, FirstRow(x), x)
  <2>1. opened = <<>>
    BY DEF Init
  <2>2. RowOf(opened, NoRow, x)
    BY DEF RowOf, NoRow
  <2>3. FirstRow(x).id = x /\ FirstRow(x).flat = 0 /\ FirstRow(x).nest.edit = 0 /\ (x \in Peers => FirstRow(x).nest.of = x)
    BY DEF FirstRow, FreshNest
  <2>4. RowOf(opened, FirstRow(x), x)
    BY <2>1, <2>3 DEF RowOf, TypedInto
  <2>5. QED
    BY <2>2, <2>4
<1>7. RowsOwn
  <2>1. ASSUME NEW x \in Things PROVE RowOf(opened, server[x], x) /\ RowOf(opened, list[x], x)
    BY <1>6 DEF Init
  <2>2. ASSUME NEW p \in Peers PROVE RowOf(opened, own[p], p)
    BY <1>6, <2>1 DEF Init, Things
  <2>3. QED
    BY <2>1, <2>2 DEF RowsOwn
<1>8. /\ form["peer"] = freshPeer /\ form["iface"] = freshInterface /\ open.modal = "none"
      /\ freshPeer.src = "form" /\ freshPeer.id = NoId /\ freshPeer.flat = 0 /\ freshPeer.ignore = FALSE
      /\ freshPeer.nest = FreshNest /\ freshInterface.flat = 0
      /\ FreshNest.of = NoId /\ FreshNest.edit = 0 /\ FreshNest.fixed = {}
  BY DEF Init, freshPeer, freshInterface, Closed, FreshNest
<1>9. FormNest = FreshNest
  BY <1>8 DEF FormNest
<1>10. FormOwns
  BY <1>5, <1>8, <1>9, ZeroTyped DEF FormOwns, TypeOK
<1>11. OpenOwns /\ saves = {} /\ dels = {}
  BY <1>8 DEF OpenOwns, Init
<1>12. SwitchInv /\ SwitchOff
  BY <1>8, <1>9 DEF SwitchInv, SwitchOff
<1>13. QED
  BY <1>5, <1>7, <1>10, <1>11, <1>12 DEF FormInv, TextsOwn

\* A dialog is opened when none is, and its opening is recorded.
LEMMA ShowEffect ==
  ASSUME FormInv, NEW m \in Modals, NEW id \in {New} \cup (IF m = "peer" THEN Peers ELSE Ifaces),
         NEW i \in Ifaces \cup {NoId}, Show(m, id, i), page' = page, page = "profile" => m = "peer"
  PROVE  /\ open.modal = "none" /\ open' \in Dialogs /\ open'.modal = m /\ open'.id = id
         /\ opened \in Seq(Openings) /\ opened' \in Seq(Openings)
         /\ Extends(opened', opened) /\ OpenOwns'
<1>1. opened \in Seq(Openings) /\ open.modal = "none"
  BY DEF FormInv, TypeOK, Show, Closed
<1>2. open' = [modal |-> m, id |-> id, iface |-> i, no |-> Len(opened) + 1]
  BY DEF Show
<1>3. open' \in Dialogs
  BY <1>1, <1>2 DEF Dialogs, Modals, Things
<1>4. PICK e \in Openings : e = [id |-> id, iface |-> i]
  BY DEF Openings, Things, Modals
<1>5. opened' = Append(opened, e)
  BY <1>4 DEF Show
<1>6. opened' \in Seq(Openings) /\ Extends(opened', opened)
  BY <1>1, <1>5 DEF Extends
<1>7. Len(opened) + 1 \in DOMAIN opened' /\ opened'[Len(opened) + 1] = e
  BY <1>1, <1>5
<1>8. OpenOwns'
  BY <1>2, <1>4, <1>7 DEF OpenOwns, Modals
<1>9. QED
  BY <1>1, <1>2, <1>3, <1>6, <1>8

\* The fields of the form.
LEMMA FormFields ==
  ASSUME TypeOK
  PROVE  /\ form["peer"] \in Forms /\ form["iface"] \in IfaceForms
         /\ form["peer"].id \in Peers \cup {NoId} /\ form["peer"].flat \in Nat
         /\ form["iface"].id \in Ifaces \cup {NoId} /\ form["iface"].flat \in Nat
         /\ form["peer"].ignore \in BOOLEAN
BY DEF TypeOK, Forms, IfaceForms

\* The form that is filled from the row of a listed peer.
LEMMA FilledType ==
  ASSUME FormInv, NEW p \in Peers, Has(list, p) \/ Has(own, p)
  PROVE  /\ Filled(p) \in Forms /\ Row(p) \in Rows /\ RowOf(opened, Row(p), p) /\ Row(p).id = p
         /\ Filled(p).id = p /\ Filled(p).flat = Row(p).flat /\ Filled(p).src = Where(p) /\ ~Filled(p).late
         /\ Filled(p).ignore = (form["peer"].ignore \/ Row(p).nest.fixed # {})
         /\ Where(p) = "list" => Row(p) = list[p] /\ Has(list, p)
         /\ Where(p) = "own" => Row(p) = own[p] /\ Has(own, p)
         /\ Where(p) \in {"list", "own"}
<1>1. p \in Things /\ p \notin Ifaces
  BY DEF Things
<1>2. list[p] \in Rows /\ own[p] \in Rows
  BY <1>1 DEF FormInv, TypeOK
<1>3. RowOf(opened, list[p], p) /\ RowOf(opened, own[p], p)
  BY <1>1 DEF FormInv, TextsOwn, RowsOwn
<1>4. Row(p) = IF Has(list, p) THEN list[p] ELSE own[p]
  BY <1>1 DEF Row
<1>5. Row(p) \in Rows /\ RowOf(opened, Row(p), p) /\ Row(p).id # NoId
  BY <1>2, <1>3, <1>4 DEF Has
<1>6. Row(p).id = p
  BY <1>5 DEF RowOf
<1>7. Row(p).flat \in Nat /\ Row(p).exp \in SUBSET KeptTimes /\ Row(p).disabled \in BOOLEAN
  BY <1>5 DEF Rows
<1>8. formatRFC3339ToDatetime(Row(p).exp) \in SUBSET KeptInputs
  BY <1>7, InputsKept
<1>9. form["peer"] \in Forms
  BY DEF FormInv, TypeOK
<1>10. Where(p) \in {"list", "own"}
  BY DEF Where
<1>11. /\ Filled(p) \in Forms
       /\ Filled(p).id = p /\ Filled(p).flat = Row(p).flat /\ Filled(p).src = Where(p) /\ ~Filled(p).late
       /\ Filled(p).ignore = (form["peer"].ignore \/ Row(p).nest.fixed # {})
  BY <1>7, <1>8, <1>9, <1>10 DEF Filled, Forms
<1>12. QED
  BY <1>4, <1>5, <1>6, <1>10, <1>11 DEF Where

\* The watcher changes nothing but the flags.
LEMMA WatcherType ==
  ASSUME NEW f, NEW n \in Nests
  PROVE  /\ IgnoreWatcher(f, n) \in Nests
         /\ IgnoreWatcher(f, n).of = n.of /\ IgnoreWatcher(f, n).edit = n.edit
         /\ IgnoreWatcher(f, n).fixed =
              IF f.ignore # form["peer"].ignore THEN (IF f.ignore THEN Fields ELSE {}) ELSE n.fixed
BY DEF IgnoreWatcher, Nests

\* The admin's dialog is filled from the list and its watcher follows the switch.
LEMMA OpenPeerInv ==
  ASSUME FormInv, NEW p \in Peers, OpenPeer(p)
  PROVE  FormInv'
<1> DEFINE f == Filled(p)
           n == IgnoreWatcher(f, Row(p).nest)
<1>1. page' = page /\ page = "interfaces" /\ Has(list, p) /\ Home[p] \in Ifaces
  BY DEF OpenPeer
<1>2. /\ open.modal = "none" /\ open' \in Dialogs /\ open'.modal = "peer" /\ open'.id = p
      /\ opened \in Seq(Openings) /\ opened' \in Seq(Openings)
      /\ Extends(opened', opened) /\ OpenOwns'
  BY <1>1, ShowEffect DEF OpenPeer, Modals
<1>3. TypeOK /\ f \in Forms /\ Row(p) \in Rows /\ RowOf(opened, Row(p), p) /\ Row(p).id = p /\ Row(p).nest \in Nests
  BY <1>1, FilledType DEF FormInv, Rows
<1>4. /\ f.id = p /\ f.flat = Row(p).flat /\ f.src = "list" /\ ~f.late /\ Row(p) = list[p]
      /\ f.ignore = (form["peer"].ignore \/ Row(p).nest.fixed # {})
  BY <1>1, FilledType DEF Where
<1>5. /\ n \in Nests /\ n.of = Row(p).nest.of /\ n.edit = Row(p).nest.edit
      /\ n.fixed = IF f.ignore # form["peer"].ignore THEN (IF f.ignore THEN Fields ELSE {}) ELSE Row(p).nest.fixed
  BY <1>3, WatcherType
<1>6. SetNest(f, n)
  BY DEF OpenPeer
<1> HIDE DEF f, n
<1>7. RowOf(opened', Row(p), p) /\ Row(p).flat \in Nat /\ Row(p).nest.edit \in Nat
  BY <1>2, <1>3, RowStays DEF Rows, Nests
<1>8. /\ n.of = p /\ n.edit <= Len(opened') /\ TypedInto(opened', n.edit, p)
      /\ f.flat <= Len(opened') /\ TypedInto(opened', f.flat, p)
  BY <1>3, <1>4, <1>5, <1>7 DEF RowOf, Things
<1>9. server' = server /\ prepares' = prepares /\ saves' = saves /\ dels' = dels /\ acts' = acts
  BY DEF OpenPeer
<1>10. RowsOwn'
  BY <1>2, <1>3, <1>4, <1>5, <1>6, <1>8, <1>9, SetNestRows
<1>11. /\ form' \in [peer : Forms, iface : IfaceForms] /\ prepared' \in Nests
       /\ list' \in [Things -> Rows] /\ own' \in [Peers -> Rows]
       /\ FormNest' = n /\ form'["iface"] = form["iface"] /\ form'["peer"] = f
       /\ list'[p] = [list[p] EXCEPT !.nest = n]
  <2>1. p \in Things /\ f.src # "form"
    BY <1>4 DEF Things
  <2>2. /\ form' \in [peer : Forms, iface : IfaceForms] /\ prepared' \in Nests
        /\ list' \in [Things -> Rows] /\ own' \in [Peers -> Rows]
        /\ FormNest' = n /\ form'["iface"] = form["iface"]
        /\ form'["peer"] = IF f.src = "form" THEN [f EXCEPT !.nest = n] ELSE f
        /\ \A x \in Things : list'[x] = IF f.src = "list" /\ x = f.id THEN [list[x] EXCEPT !.nest = n] ELSE list[x]
    BY <1>3, <1>4, <1>5, <1>6, SetNestEffect
  <2>3. QED
    BY <1>4, <2>1, <2>2
<1>12. TypeOK'
  BY <1>1, <1>2, <1>3, <1>9, <1>11 DEF TypeOK
<1>13. Has(list', p)
  BY <1>1, <1>3, <1>4, <1>11 DEF Has, Rows
<1>14. TextOf(opened', open', form["iface"].flat, form["iface"].id, "iface")
  BY <1>2, <1>3, TextStays, FormFields DEF FormInv, TextsOwn, FormOwns
<1>15. FormOwns'
  BY <1>2, <1>4, <1>8, <1>11, <1>13, <1>14 DEF FormOwns, Has, TextOf
<1>16. SwitchInv' /\ SwitchOff'
  <2>1. ~form["peer"].ignore
    BY <1>1, <1>2 DEF FormInv, SwitchOff
  <2>2. n.fixed = IF f.ignore THEN Fields ELSE {}
    BY <1>3, <1>4, <1>5, <2>1, FormFields
  <2>3. QED
    BY <1>2, <1>11, <2>2 DEF SwitchInv, SwitchOff
<1>17. QED
  BY <1>1, <1>2, <1>9, <1>10, <1>12, <1>15, <1>16, CallsStay DEF FormInv, TextsOwn

\* The user's dialog is filled from the profile store.
LEMMA OpenOwnPeerInv ==
  ASSUME FormInv, NEW p \in Peers, OpenOwnPeer(p)
  PROVE  FormInv'
<1> DEFINE f == Filled(p)
<1>1. page' = page /\ page = "profile" /\ Has(own, p) /\ Home[p] \in Ifaces
  BY DEF OpenOwnPeer
<1>2. /\ open.modal = "none" /\ open' \in Dialogs /\ open'.modal = "peer" /\ open'.id = p
      /\ opened \in Seq(Openings) /\ opened' \in Seq(Openings)
      /\ Extends(opened', opened) /\ OpenOwns'
  BY <1>1, ShowEffect DEF OpenOwnPeer, Modals
<1>3. /\ TypeOK /\ f \in Forms /\ Row(p) \in Rows /\ RowOf(opened, Row(p), p) /\ Row(p).id = p
      /\ f.id = p /\ f.flat = Row(p).flat /\ f.src \in {"list", "own"} /\ f.src = Where(p)
      /\ Where(p) = "list" => Row(p) = list[p] /\ Has(list, p)
      /\ Where(p) = "own" => Row(p) = own[p] /\ Has(own, p)
  BY <1>1, FilledType DEF FormInv
<1>4. /\ form' = [form EXCEPT !["peer"] = f]
      /\ server' = server /\ list' = list /\ own' = own /\ prepared' = prepared
      /\ prepares' = prepares /\ saves' = saves /\ dels' = dels /\ acts' = acts
  BY DEF OpenOwnPeer
<1> HIDE DEF f
<1>5. form' \in [peer : Forms, iface : IfaceForms] /\ form'["peer"] = f /\ form'["iface"] = form["iface"]
  BY <1>3, <1>4 DEF TypeOK
<1>6. TypeOK'
  BY <1>1, <1>2, <1>3, <1>4, <1>5 DEF TypeOK
<1>7. RowsOwn'
  BY <1>2, <1>4, RowsStay DEF RowsOwn
<1>8. FormNest' = Row(p).nest
  BY <1>3, <1>4, <1>5 DEF FormNest
<1>9. RowOf(opened', Row(p), p)
  BY <1>2, <1>3, RowStays
<1>10. TextOf(opened', open', form["iface"].flat, form["iface"].id, "iface")
  BY <1>2, <1>3, TextStays, FormFields DEF FormInv, TextsOwn, FormOwns
<1>11. FormOwns'
  BY <1>2, <1>3, <1>4, <1>5, <1>8, <1>9, <1>10 DEF FormOwns, Has, TextOf, RowOf
<1>12. SwitchInv' /\ SwitchOff'
  BY <1>1 DEF SwitchInv, SwitchOff
<1>13. QED
  BY <1>1, <1>2, <1>4, <1>6, <1>7, <1>11, <1>12, CallsStay DEF FormInv, TextsOwn

\* The form's settings stay when the objects behind them do.
LEMMA FormNestStays ==
  ASSUME form'["peer"] = form["peer"], list' = list, own' = own, prepared' = prepared
  PROVE  FormNest' = FormNest
BY DEF FormNest

\* A dialog that opens before anything is filled into its form.
LEMMA OpenEmptyInv ==
  ASSUME FormInv, NEW m \in Modals, NEW i \in Ifaces \cup {NoId}, Show(m, New, i),
         page' = page, page = "profile" => m = "peer",
         prepares' = prepares \cup {[modal |-> m, iface |-> i, no |-> open'.no]},
         UNCHANGED <<server, list, own, prepared, form, saves, dels, acts>>
  PROVE  FormInv'
<1>1. /\ open.modal = "none" /\ open' \in Dialogs /\ open'.modal = m
      /\ opened \in Seq(Openings) /\ opened' \in Seq(Openings)
      /\ Extends(opened', opened) /\ OpenOwns'
  BY ShowEffect
<1>2. TypeOK
  BY DEF FormInv
<1>3. TypeOK'
  BY <1>1, <1>2 DEF TypeOK, Dialogs
<1>4. RowsOwn'
  BY <1>1, RowsStay DEF RowsOwn
<1>5. FormNest' = FormNest /\ FormNest \in Nests
  BY <1>2, FormNestStays, FormNestType DEF FormInv, TextsOwn
<1>6. FormNest.edit \in Nat
  BY <1>5 DEF Nests
<1>7. FormOwns'
  BY <1>1, <1>2, <1>5, <1>6, TextStays, FormFields DEF FormInv, TextsOwn, FormOwns
<1>8. SwitchInv' /\ SwitchOff'
  BY <1>1, <1>5 DEF SwitchInv, SwitchOff, FormInv
<1>9. QED
  BY <1>1, <1>3, <1>4, <1>7, <1>8, CallsStay DEF FormInv, TextsOwn

\* The interface dialog is filled from the list.
LEMMA OpenInterfaceInv ==
  ASSUME FormInv, NEW i \in Ifaces, OpenInterface(i)
  PROVE  FormInv'
<1>1. page' = page /\ page = "interfaces" /\ Has(list, i) /\ i \in Things
  BY DEF OpenInterface, Things
<1>2. /\ open.modal = "none" /\ open' \in Dialogs /\ open'.modal = "iface" /\ open'.id = i
      /\ opened \in Seq(Openings) /\ opened' \in Seq(Openings)
      /\ Extends(opened', opened) /\ OpenOwns'
  BY <1>1, ShowEffect DEF OpenInterface, Modals
<1>3. TypeOK /\ list[i] \in Rows /\ list[i].flat \in Nat
  BY <1>1 DEF FormInv, TypeOK, Rows
<1>4. /\ form' = [form EXCEPT !["iface"].id = i, !["iface"].flat = list[i].flat]
      /\ server' = server /\ list' = list /\ own' = own /\ prepared' = prepared
      /\ prepares' = prepares /\ saves' = saves /\ dels' = dels /\ acts' = acts
  BY DEF OpenInterface
<1>5. /\ form' \in [peer : Forms, iface : IfaceForms] /\ form'["peer"] = form["peer"]
      /\ form'["iface"].id = i /\ form'["iface"].flat = list[i].flat
  BY <1>3, <1>4 DEF TypeOK, IfaceForms
<1>6. TypeOK'
  BY <1>1, <1>2, <1>3, <1>4, <1>5 DEF TypeOK
<1>7. RowsOwn'
  BY <1>2, <1>4, RowsStay DEF RowsOwn
<1>8. FormNest' = FormNest /\ FormNest \in Nests
  BY <1>3, <1>4, <1>5, FormNestStays, FormNestType DEF FormInv, TextsOwn
<1>9. FormNest.edit \in Nat
  BY <1>8 DEF Nests
<1>10. RowOf(opened', list[i], i)
  BY <1>1, <1>2, RowsStay
<1>11. TextOf(opened', open', list[i].flat, i, "iface")
  BY <1>1, <1>10 DEF RowOf, Has, TextOf
<1>12. FormOwns'
  BY <1>2, <1>3, <1>4, <1>5, <1>8, <1>9, <1>11, TextStays, FormFields DEF FormInv, TextsOwn, FormOwns
<1>13. SwitchInv' /\ SwitchOff'
  BY <1>1, <1>2, <1>5, <1>8 DEF SwitchInv, SwitchOff, FormInv
<1>14. QED
  BY <1>1, <1>2, <1>4, <1>6, <1>7, <1>12, <1>13, CallsStay DEF FormInv, TextsOwn

\* A prepared peer replaces whatever the form shows.
LEMMA FillPreparedInv ==
  ASSUME FormInv, NEW r, NEW p \in Peers \cup {NoId}, FillPrepared(r, p)
  PROVE  FormInv'
<1> DEFINE f == [form["peer"] EXCEPT !.id = p, !.flat = 0, !.src = "prepared", !.exp = {}, !.disabled = FALSE,
                                     !.late = form["peer"].ignore]
<1>1. /\ TypeOK /\ opened \in Seq(Openings) /\ opened' = opened /\ page' = page /\ open' = open
      /\ server' = server /\ list' = list /\ own' = own /\ saves' = saves /\ dels' = dels /\ acts' = acts
      /\ prepares' \subseteq prepares /\ prepared' = [of |-> p, edit |-> 0, fixed |-> {}]
      /\ form' = [form EXCEPT !["peer"] = f]
  BY DEF FillPrepared, FormInv, TypeOK
<1>2. /\ f \in Forms /\ f.id = p /\ f.flat = 0 /\ f.src = "prepared"
      /\ f.late = form["peer"].ignore /\ f.ignore = form["peer"].ignore
  BY <1>1, FormFields DEF Forms
<1> HIDE DEF f
<1>3. form' \in [peer : Forms, iface : IfaceForms] /\ form'["peer"] = f /\ form'["iface"] = form["iface"]
  BY <1>1, <1>2 DEF TypeOK
<1>4. prepared' \in Nests
  BY <1>1 DEF Nests
<1>5. TypeOK'
  BY <1>1, <1>3, <1>4 DEF TypeOK
<1>6. Extends(opened', opened)
  BY <1>1, SomeOpening DEF Extends
<1>7. RowsOwn'
  BY <1>1, <1>6, RowsStay DEF RowsOwn
<1>8. FormNest' = [of |-> p, edit |-> 0, fixed |-> {}]
  BY <1>1, <1>2, <1>3 DEF FormNest
<1>9. FormOwns'
  BY <1>1, <1>2, <1>3, <1>8, ZeroTyped DEF FormOwns, FormInv, TextsOwn
<1>10. OpenOwns'
  BY <1>1 DEF OpenOwns, FormInv, TextsOwn
<1>11. SwitchInv' /\ SwitchOff'
  BY <1>1, <1>2, <1>3, <1>8 DEF SwitchInv, SwitchOff, FormInv
<1>12. QED
  BY <1>1, <1>5, <1>6, <1>7, <1>9, <1>10, <1>11, CallsStay DEF FormInv, TextsOwn

\* The text of the open dialog, and of what was typed for the record.
LEMMA OpenTyped ==
  ASSUME FormInv, open.modal # "none"
  PROVE  /\ open.no \in Nat /\ open.no <= Len(opened) /\ opened[open.no].id = open.id
         /\ TypedInto(opened, open.no, open.id)
         /\ \A x : TextOf(opened, open, open.no, x, open.modal)
<1>1. opened \in Seq(Openings) /\ open.no \in DOMAIN opened /\ opened[open.no].id = open.id
  BY DEF FormInv, TypeOK, TextsOwn, OpenOwns
<1>2. QED
  BY <1>1 DEF TypedInto, TextOf

\* A change of the plain fields of the peer form.
LEMMA PlainInv ==
  ASSUME FormInv, NEW f \in Forms, form' = [form EXCEPT !["peer"] = f],
         f.id = form["peer"].id, f.src = form["peer"].src, f.nest = form["peer"].nest,
         f.ignore = form["peer"].ignore, f.late = form["peer"].late,
         TextOf(opened, open, f.flat, f.id, "peer"), acts' \in Nat,
         UNCHANGED <<page, server, list, own, prepared, open, prepares, saves, dels, opened>>
  PROVE  FormInv'
<1>1. TypeOK /\ FormOwns /\ RowsOwn /\ OpenOwns
  BY DEF FormInv, TextsOwn
<1>2. form' \in [peer : Forms, iface : IfaceForms] /\ form'["peer"] = f /\ form'["iface"] = form["iface"]
  BY <1>1 DEF TypeOK
<1>3. TypeOK'
  BY <1>1, <1>2 DEF TypeOK
<1>4. RowsOwn' /\ OpenOwns'
  BY <1>1 DEF RowsOwn, OpenOwns
<1>5. FormNest' = FormNest
  BY <1>2 DEF FormNest
<1>6. FormOwns'
  BY <1>1, <1>2, <1>5 DEF FormOwns, Has
<1>7. SwitchInv' /\ SwitchOff'
  BY <1>2, <1>5 DEF SwitchInv, SwitchOff, FormInv
<1>8. (\A r \in saves : SaveOwns(opened, page, r))' /\ (\A d \in dels : DelOwns(page, d))'
  BY DEF FormInv, TextsOwn
<1>9. QED
  BY <1>3, <1>4, <1>6, <1>7, <1>8 DEF FormInv, TextsOwn

\* An assignment to the settings behind the peer form.
LEMMA NestedInv ==
  ASSUME FormInv, open.modal = "peer", NEW f \in Forms, NEW n \in Nests, SetNest(f, n),
         f.id = form["peer"].id, f.src = form["peer"].src, f.flat = form["peer"].flat,
         n.of = f.id, TextOf(opened, open, n.edit, f.id, "peer"), acts' \in Nat,
         page = "interfaces" /\ ~f.late => n.fixed = IF f.ignore THEN Fields ELSE {},
         UNCHANGED <<page, server, open, prepares, saves, dels, opened>>
  PROVE  FormInv'
<1>1. TypeOK /\ FormOwns /\ RowsOwn /\ OpenOwns /\ opened \in Seq(Openings)
  BY DEF FormInv, TextsOwn, TypeOK
<1>2. Extends(opened', opened)
  BY SomeOpening DEF Extends
<1>3. f.src \in {"list", "own"} => f.id \in Peers /\ open.id = f.id
  BY <1>1 DEF FormOwns
<1>4. f.src \in {"list", "own"} =>
          f.id \in Peers /\ n.of = f.id /\ n.edit <= Len(opened') /\ TypedInto(opened', n.edit, f.id)
  BY <1>3, OpenTyped DEF TextOf
<1>5. RowsOwn'
  BY <1>2, <1>4, SetNestRows
<1>6. /\ form' \in [peer : Forms, iface : IfaceForms] /\ prepared' \in Nests
      /\ list' \in [Things -> Rows] /\ own' \in [Peers -> Rows]
      /\ FormNest' = n /\ form'["iface"] = form["iface"]
      /\ form'["peer"] = IF f.src = "form" THEN [f EXCEPT !.nest = n] ELSE f
      /\ \A x \in Things : list'[x] = IF f.src = "list" /\ x = f.id THEN [list[x] EXCEPT !.nest = n] ELSE list[x]
      /\ \A x \in Peers : own'[x] = IF f.src = "own" /\ x = f.id THEN [own[x] EXCEPT !.nest = n] ELSE own[x]
  BY <1>1, <1>3, SetNestEffect
<1>7. /\ form'["peer"].id = f.id /\ form'["peer"].src = f.src /\ form'["peer"].flat = f.flat
      /\ form'["peer"].late = f.late /\ form'["peer"].ignore = f.ignore
  BY <1>6 DEF Forms
<1>8. TypeOK'
  BY <1>1, <1>6 DEF TypeOK
<1>9. f.src = "list" => Has(list', f.id)
  <2> SUFFICES ASSUME f.src = "list" PROVE list'[f.id].id # NoId
    BY DEF Has
  <2>1. f.id \in Things /\ Has(list, f.id)
    BY <1>1, <1>3 DEF Things, FormOwns
  <2>2. list[f.id] \in Rows /\ list'[f.id] = [list[f.id] EXCEPT !.nest = n]
    BY <1>1, <1>6, <2>1 DEF TypeOK
  <2>3. QED
    BY <2>1, <2>2 DEF Rows, Has
<1>10. f.src = "own" => Has(own', f.id)
  <2> SUFFICES ASSUME f.src = "own" PROVE own'[f.id].id # NoId
    BY DEF Has
  <2>1. f.id \in Peers /\ Has(own, f.id)
    BY <1>1, <1>3 DEF FormOwns
  <2>2. own[f.id] \in Rows /\ own'[f.id] = [own[f.id] EXCEPT !.nest = n]
    BY <1>1, <1>6, <2>1 DEF TypeOK
  <2>3. QED
    BY <2>1, <2>2 DEF Rows, Has
<1>11. FormOwns'
  BY <1>1, <1>3, <1>6, <1>7, <1>9, <1>10 DEF FormOwns, Has
<1>12. OpenOwns'
  BY <1>1 DEF OpenOwns
<1>13. SwitchInv' /\ SwitchOff'
  BY <1>6, <1>7 DEF SwitchInv, SwitchOff
<1>14. (\A r \in saves : SaveOwns(opened, page, r))' /\ (\A d \in dels : DelOwns(page, d))'
  BY DEF FormInv, TextsOwn
<1>15. QED
  BY <1>5, <1>8, <1>11, <1>12, <1>13, <1>14 DEF FormInv, TextsOwn

\* A change of the interface form.
LEMMA InterfaceFormInv ==
  ASSUME FormInv, NEW id \in Ifaces \cup {NoId}, NEW flat \in Nat,
         form' = [form EXCEPT !["iface"].id = id, !["iface"].flat = flat],
         TextOf(opened, open, flat, id, "iface"), acts' \in Nat, prepares' \subseteq prepares,
         UNCHANGED <<page, server, list, own, prepared, open, saves, dels, opened>>
  PROVE  FormInv'
<1>1. TypeOK /\ FormOwns /\ RowsOwn /\ OpenOwns
  BY DEF FormInv, TextsOwn
<1>2. /\ form' \in [peer : Forms, iface : IfaceForms] /\ form'["peer"] = form["peer"]
      /\ form'["iface"].id = id /\ form'["iface"].flat = flat
  BY <1>1 DEF TypeOK, IfaceForms
<1>3. TypeOK'
  BY <1>1, <1>2 DEF TypeOK
<1>4. RowsOwn' /\ OpenOwns'
  BY <1>1 DEF RowsOwn, OpenOwns
<1>5. FormNest' = FormNest
  BY <1>2, FormNestStays
<1>6. FormOwns'
  BY <1>1, <1>2, <1>5 DEF FormOwns, Has
<1>7. SwitchInv' /\ SwitchOff'
  BY <1>2, <1>5 DEF SwitchInv, SwitchOff, FormInv
<1>8. (\A r \in saves : SaveOwns(opened, page, r))' /\ (\A d \in dels : DelOwns(page, d))'
  BY DEF FormInv, TextsOwn
<1>9. QED
  BY <1>3, <1>4, <1>6, <1>7, <1>8 DEF FormInv, TextsOwn

\* Typing into a plain field.
LEMMA TypeFlatInv ==
  ASSUME FormInv, open.modal = "peer", TypeFlat, acts' \in Nat
  PROVE  FormInv'
<1> DEFINE f == [form["peer"] EXCEPT !.flat = open.no]
<1>1. form["peer"] \in Forms /\ open.no \in Nat /\ TextOf(opened, open, open.no, form["peer"].id, "peer")
  BY FormFields, OpenTyped DEF FormInv
<1>2. /\ f \in Forms /\ f.id = form["peer"].id /\ f.src = form["peer"].src /\ f.nest = form["peer"].nest
      /\ f.ignore = form["peer"].ignore /\ f.late = form["peer"].late /\ f.flat = open.no
  BY <1>1 DEF Forms
<1>3. form' = [form EXCEPT !["peer"] = f]
  BY DEF TypeFlat
<1>4. UNCHANGED <<page, server, list, own, prepared, open, prepares, saves, dels, opened>>
  BY DEF TypeFlat
<1> HIDE DEF f
<1>5. QED
  BY <1>1, <1>2, <1>3, <1>4, PlainInv

\* Typing into a shared setting, which may be that of a listed row.
LEMMA TypeSettingsInv ==
  ASSUME FormInv, open.modal = "peer", TypeSettings, acts' \in Nat
  PROVE  FormInv'
<1> DEFINE n == [FormNest EXCEPT !.edit = open.no]
<1>1. /\ form["peer"] \in Forms /\ open.no \in Nat /\ TextOf(opened, open, open.no, form["peer"].id, "peer")
      /\ FormNest \in Nests /\ FormNest.of = form["peer"].id
  BY FormFields, OpenTyped, FormNestType DEF FormInv, TextsOwn, FormOwns
<1>2. n \in Nests /\ n.of = FormNest.of /\ n.fixed = FormNest.fixed /\ n.edit = open.no
  BY <1>1 DEF Nests
<1>3. SetNest(form["peer"], n) /\ UNCHANGED <<page, server, open, prepares, saves, dels, opened>>
  BY DEF TypeSettings
<1> HIDE DEF n
<1>4. page = "interfaces" /\ ~form["peer"].late => n.fixed = IF form["peer"].ignore THEN Fields ELSE {}
  BY <1>2 DEF FormInv, SwitchInv
<1>5. QED
  BY <1>1, <1>2, <1>3, <1>4, NestedInv

\* The switch and its watcher.
LEMMA ToggleIgnoreInv ==
  ASSUME FormInv, ToggleIgnore
  PROVE  FormInv'
<1> DEFINE f == [form["peer"] EXCEPT !.ignore = ~@, !.late = FALSE]
           n == IgnoreWatcher(f, FormNest)
<1>1. /\ form["peer"] \in Forms /\ FormNest \in Nests /\ FormNest.of = form["peer"].id
      /\ TextOf(opened, open, FormNest.edit, form["peer"].id, "peer")
  BY FormFields, FormNestType DEF FormInv, TextsOwn, FormOwns
<1>2. /\ f \in Forms /\ f.id = form["peer"].id /\ f.src = form["peer"].src /\ f.flat = form["peer"].flat
      /\ f.ignore = ~form["peer"].ignore
  BY <1>1 DEF Forms
<1>3. /\ n \in Nests /\ n.of = FormNest.of /\ n.edit = FormNest.edit
      /\ n.fixed = IF f.ignore # form["peer"].ignore THEN (IF f.ignore THEN Fields ELSE {}) ELSE FormNest.fixed
  BY <1>1, WatcherType
<1>4. /\ SetNest(f, n) /\ UNCHANGED <<page, server, open, prepares, saves, dels, opened>>
      /\ open.modal = "peer" /\ acts' \in Nat
  BY DEF ToggleIgnore, Typing, Act, FormInv, TypeOK
<1>5. f.ignore # form["peer"].ignore
  BY <1>2, FormFields DEF FormInv
<1> HIDE DEF f, n
<1>6. n.fixed = IF f.ignore THEN Fields ELSE {}
  BY <1>3, <1>5
<1>7. QED
  BY <1>1, <1>2, <1>3, <1>4, <1>6, NestedInv

\* A picked or cleared expiry, and the Disabled switch.
LEMMA ExpiryInputsInv ==
  ASSUME FormInv, NEW f \in Forms, form' = [form EXCEPT !["peer"] = f],
         \E x \in SUBSET KeptInputs, d \in BOOLEAN : f = [form["peer"] EXCEPT !.exp = x, !.disabled = d],
         acts' \in Nat,
         UNCHANGED <<page, server, list, own, prepared, open, prepares, saves, dels, opened>>
  PROVE  FormInv'
<1>1. form["peer"] \in Forms /\ TextOf(opened, open, form["peer"].flat, form["peer"].id, "peer")
  BY FormFields DEF FormInv, TextsOwn, FormOwns
<1>2. /\ f.id = form["peer"].id /\ f.src = form["peer"].src /\ f.nest = form["peer"].nest
      /\ f.ignore = form["peer"].ignore /\ f.late = form["peer"].late /\ f.flat = form["peer"].flat
  BY <1>1 DEF Forms
<1>3. QED
  BY <1>1, <1>2, PlainInv

\* The Disabled switch clears the expiry or keeps it.
LEMMA ToggleDisabledInv ==
  ASSUME FormInv, ToggleDisabled
  PROVE  FormInv'
<1> DEFINE x == IF form["peer"].disabled THEN {} ELSE form["peer"].exp
           d == ~form["peer"].disabled
           f == [form["peer"] EXCEPT !.exp = x, !.disabled = d]
<1>1. form["peer"] \in Forms /\ form \in [peer : Forms, iface : IfaceForms]
  BY DEF FormInv, TypeOK
<1>2. x \in SUBSET KeptInputs /\ d \in BOOLEAN
  BY <1>1 DEF Forms
<1>3. f \in Forms
  BY <1>1, <1>2 DEF Forms
<1>4. form' = [form EXCEPT !["peer"] = f]
  BY <1>1 DEF ToggleDisabled, Forms
<1>5. /\ acts' \in Nat
      /\ UNCHANGED <<page, server, list, own, prepared, open, prepares, saves, dels, opened>>
  BY DEF ToggleDisabled, Typing, Act, FormInv, TypeOK
<1>6. QED
  BY <1>2, <1>3, <1>4, <1>5, ExpiryInputsInv

\* The expiry that is picked is the chosen one.
LEMMA EditExpiryInv ==
  ASSUME FormInv, EditExpiry
  PROVE  FormInv'
<1>1. PICK x \in {{}} \cup {{[date |-> k.date, time |-> k.time,
                              chosen |-> LocalTime(k)]} : k \in Picks} :
           form' = [form EXCEPT !["peer"].exp = x]
  BY DEF EditExpiry
<1>2. x \in SUBSET KeptInputs
  <2>1. ASSUME NEW k \in Picks
        PROVE  [date |-> k.date, time |-> k.time, chosen |-> LocalTime(k)] \in KeptInputs
    <3>1. k.date \in Int /\ k.time \in Int
      BY TimeAssumption
    <3>2. /\ LocalTime(k) \in Time
          /\ 1440 * k.date + k.time - Offset - LocalTime(k).min = 0
      BY <3>1, TimeAssumption, SMT DEF LocalTime, Time
    <3>3. QED
      BY <3>1, <3>2 DEF KeptInputs
  <2>2. QED
    BY <2>1
<1> DEFINE d == form["peer"].disabled
           f == [form["peer"] EXCEPT !.exp = x, !.disabled = d]
<1>3. form["peer"] \in Forms /\ form \in [peer : Forms, iface : IfaceForms]
  BY DEF FormInv, TypeOK
<1>4. d \in BOOLEAN
  BY <1>3 DEF Forms
<1>5. f \in Forms
  BY <1>2, <1>3, <1>4 DEF Forms
<1>6. form' = [form EXCEPT !["peer"] = f]
  BY <1>1, <1>3 DEF Forms
<1>7. /\ acts' \in Nat
      /\ UNCHANGED <<page, server, list, own, prepared, open, prepares, saves, dels, opened>>
  BY DEF EditExpiry, Typing, Act, FormInv, TypeOK
<1>8. QED
  BY <1>2, <1>4, <1>5, <1>6, <1>7, ExpiryInputsInv

\* Typing into the interface dialog.
LEMMA TypeInterfaceInv ==
  ASSUME FormInv, open.modal = "iface", NEW id \in Ifaces \cup {NoId}, TypeInterface(id), acts' \in Nat
  PROVE  FormInv'
<1>1. open.no \in Nat /\ TextOf(opened, open, open.no, id, "iface")
  BY OpenTyped
<1>2. /\ form' = [form EXCEPT !["iface"].id = id, !["iface"].flat = open.no] /\ prepares' \subseteq prepares
      /\ UNCHANGED <<page, server, list, own, prepared, open, saves, dels, opened>>
  BY DEF TypeInterface
<1>3. QED
  BY <1>1, <1>2, InterfaceFormInv

\* Every input.
LEMMA EditInv ==
  ASSUME FormInv,
         \/ EditPeer \/ EditSettings \/ EditOwnPeer \/ ToggleIgnore \/ ToggleDisabled \/ EditExpiry
         \/ EditInterface \/ EditPeerDefaults
  PROVE  FormInv'
<1>1. ASSUME NEW m, Typing(m) PROVE open.modal = m /\ acts' \in Nat
  BY <1>1 DEF Typing, Act, FormInv, TypeOK
<1>2. form["iface"].id \in Ifaces \cup {NoId}
  BY FormFields DEF FormInv
<1>3. CASE EditPeer
  BY <1>1, <1>3, TypeFlatInv DEF EditPeer
<1>4. CASE EditSettings
  BY <1>1, <1>4, TypeFlatInv, TypeSettingsInv DEF EditSettings
<1>5. CASE EditOwnPeer
  BY <1>1, <1>5, TypeFlatInv, TypeSettingsInv DEF EditOwnPeer
<1>6. CASE ToggleIgnore
  BY <1>6, ToggleIgnoreInv
<1>7. CASE ToggleDisabled
  BY <1>7, ToggleDisabledInv
<1>8. CASE EditExpiry
  BY <1>8, EditExpiryInv
<1>9. CASE EditInterface
  BY <1>1, <1>2, <1>9, TypeInterfaceInv DEF EditInterface
<1>10. CASE EditPeerDefaults
  BY <1>1, <1>2, <1>10, TypeInterfaceInv DEF EditPeerDefaults
<1>11. QED
  BY <1>3, <1>4, <1>5, <1>6, <1>7, <1>8, <1>9, <1>10

\* What a request says of a form: the record of the form, its settings, and
\* texts that were typed for it or in the dialog that sends it.
LEMMA BodyOwns ==
  ASSUME FormInv, NEW m \in Modals, open.modal = m
  PROVE  /\ Body(m) \in Rows /\ Body(m).id \in {NoId} \cup (IF m = "peer" THEN Peers ELSE Ifaces)
         /\ m = "peer" => Body(m).nest.of = Body(m).id
         /\ TextOf(opened, open, Body(m).flat, Body(m).id, m)
         /\ TextOf(opened, open, Body(m).nest.edit, Body(m).id, m)
<1>1. TypeOK /\ FormOwns /\ FormNest \in Nests /\ opened \in Seq(Openings)
  BY FormNestType DEF FormInv, TextsOwn, TypeOK
<1>2. CASE m = "peer"
  <2>1. Body(m) = [id |-> form["peer"].id, flat |-> form["peer"].flat, nest |-> FormNest,
                   exp |-> formatDateTimeToRFC3339(form["peer"].exp), disabled |-> form["peer"].disabled]
    BY <1>2 DEF Body
  <2>2. /\ form["peer"].id \in Peers \cup {NoId} /\ form["peer"].flat \in Nat
        /\ form["peer"].exp \in SUBSET KeptInputs /\ form["peer"].disabled \in BOOLEAN
    BY <1>1 DEF TypeOK, Forms
  <2>3. formatDateTimeToRFC3339(form["peer"].exp) \in SUBSET KeptTimes
    BY <2>2, TimesKept
  <2>4. Body(m) \in Rows
    BY <1>1, <2>1, <2>2, <2>3 DEF Rows, Things
  <2>5. QED
    BY <1>1, <1>2, <2>1, <2>2, <2>4 DEF FormOwns
<1>3. CASE m = "iface"
  <2>1. /\ NoRow \in Rows /\ form["iface"].id \in Ifaces \cup {NoId} /\ form["iface"].flat \in Nat
        /\ NoRow.nest.edit = 0
    BY <1>1, FreshTypes, FormFields DEF NoRow, FreshNest
  <2>2. Body(m) = [NoRow EXCEPT !.id = form["iface"].id, !.flat = form["iface"].flat]
    BY <1>3 DEF Body
  <2>3. /\ Body(m) \in Rows /\ Body(m).id = form["iface"].id /\ Body(m).flat = form["iface"].flat
        /\ Body(m).nest.edit = 0
    BY <2>1, <2>2 DEF Rows, Things
  <2>4. QED
    BY <1>1, <1>3, <2>1, <2>3, ZeroTyped DEF FormOwns
<1>4. QED
  BY <1>2, <1>3 DEF Modals

\* Rows, form and dialog stay while calls change.
LEMMA PageStays ==
  ASSUME FormInv, UNCHANGED <<page, list, own, prepared, open, form, opened>>
  PROVE  FormOwns' /\ OpenOwns' /\ SwitchInv' /\ SwitchOff'
<1>1. FormNest' = FormNest
  BY FormNestStays
<1>2. QED
  BY <1>1 DEF FormOwns, OpenOwns, SwitchInv, SwitchOff, FormInv, TextsOwn, Has

\* A request is sent with what the form says.
LEMMA SaveInv ==
  ASSUME FormInv, NEW m \in Modals, Save(m)
  PROVE  FormInv'
<1> DEFINE r == [modal |-> m, to |-> open.id, iface |-> open.iface, no |-> open.no, body |-> Body(m), st |-> "sent"]
<1>1. /\ open.modal = m /\ saves' = saves \cup {r} /\ acts' \in Nat
      /\ UNCHANGED <<page, server, list, own, prepared, open, form, prepares, dels, opened>>
  BY DEF Save, Act, FormInv, TypeOK
<1>2. TypeOK /\ RowsOwn /\ OpenOwns /\ open \in Dialogs /\ m # "none"
  BY DEF FormInv, TextsOwn, TypeOK, Modals
<1>3. /\ open.no \in DOMAIN opened /\ opened[open.no] = [id |-> open.id, iface |-> open.iface]
      /\ open.id \in Things \cup {New} /\ open.iface \in Ifaces \cup {NoId} /\ open.no \in Nat
      /\ page = "profile" => m = "peer"
  BY <1>1, <1>2 DEF OpenOwns, Dialogs, Things
<1>4. /\ Body(m) \in Rows /\ Body(m).id \in {NoId} \cup (IF m = "peer" THEN Peers ELSE Ifaces)
      /\ m = "peer" => Body(m).nest.of = Body(m).id
      /\ TextOf(opened, open, Body(m).flat, Body(m).id, m)
      /\ TextOf(opened, open, Body(m).nest.edit, Body(m).id, m)
  BY <1>1, BodyOwns
<1>5. r \in Saves
  BY <1>3, <1>4 DEF Saves
<1>6. SaveOwns(opened, page, r)
  BY <1>3, <1>4 DEF SaveOwns, TextOf
<1> HIDE DEF r
<1>7. TypeOK'
  BY <1>1, <1>2, <1>5 DEF TypeOK
<1>8. (\A s \in saves : SaveOwns(opened, page, s))' /\ (\A d \in dels : DelOwns(page, d))'
  BY <1>1, <1>6 DEF FormInv, TextsOwn
<1>9. RowsOwn'
  BY <1>1, <1>2 DEF RowsOwn
<1>10. QED
  BY <1>1, <1>7, <1>8, <1>9, PageStays DEF FormInv, TextsOwn

\* The body of an accepted request makes a row of the record it is stored as.
LEMMA AcceptedOwns ==
  ASSUME FormInv, NEW r \in saves, Accepts(r)
  PROVE  /\ r.body.id \in Things /\ (r.to # New => r.body.id = r.to)
         /\ RowOf(opened, r.body, r.body.id)
<1>1. r \in Saves /\ SaveOwns(opened, page, r)
  BY DEF FormInv, TypeOK, TextsOwn
<1>2. /\ opened[r.no] = [id |-> r.to, iface |-> r.iface] /\ r.no \in Nat
      /\ r.body.id \in {NoId} \cup (IF r.modal = "peer" THEN Peers ELSE Ifaces)
      /\ r.to \in Things \cup {New} /\ r.modal \in Modals /\ r.body \in Rows
  BY <1>1 DEF SaveOwns, Saves
<1>3. r.to # New => r.body.id = r.to
  BY DEF Accepts, AcceptsUpdate
<1>4. r.to = New => r.body.id # NoId /\ (r.modal = "peer" => Home[r.body.id] = r.iface)
  BY DEF Accepts, AcceptsNew
<1>5. r.body.id \in Things
  BY <1>2, <1>3, <1>4 DEF Things
<1>6. TypedInto(opened, r.no, r.body.id)
  <2>1. CASE r.to # New
    BY <1>2, <1>3, <2>1 DEF TypedInto
  <2>2. CASE r.to = New /\ r.modal = "peer"
    BY <1>2, <1>4, <2>2 DEF TypedInto
  <2>3. CASE r.to = New /\ r.modal # "peer"
    <3>1. r.body.id \notin Peers
      BY <1>2, <1>4, <2>3 DEF FormAssumption
    <3>2. QED
      BY <1>2, <2>3, <3>1 DEF TypedInto
  <2>4. QED
    BY <2>1, <2>2, <2>3
<1>7. r.body.id \in Peers => r.body.nest.of = r.body.id
  <2>1. r.body.id \in Peers => r.modal = "peer"
    BY <1>2, <1>5 DEF Modals, FormAssumption, Things
  <2>2. QED
    BY <1>1, <2>1 DEF SaveOwns
<1>8. \A n \in {r.body.flat, r.body.nest.edit} : n <= Len(opened) /\ TypedInto(opened, n, r.body.id)
  BY <1>1, <1>6 DEF SaveOwns
<1>9. QED
  BY <1>3, <1>5, <1>7, <1>8 DEF RowOf

\* The answer to a request is known to be about the same record.
LEMMA AnswerOwns ==
  ASSUME NEW h, NEW pg, NEW r \in Saves, SaveOwns(h, pg, r), NEW st \in {"ok", "failed"},
         st = "ok" => r.body.id # NoId /\ (r.to # New => r.body.id = r.to) /\ RowOf(h, r.body, r.body.id)
  PROVE  [r EXCEPT !.st = st] \in Saves /\ SaveOwns(h, pg, [r EXCEPT !.st = st])
<1> DEFINE s == [r EXCEPT !.st = st]
<1>1. /\ s \in Saves /\ s.modal = r.modal /\ s.to = r.to /\ s.iface = r.iface /\ s.no = r.no
      /\ s.body = r.body /\ s.st = st
  BY DEF Saves
<1> HIDE DEF s
<1>2. SaveOwns(h, pg, s)
  BY <1>1 DEF SaveOwns
<1>3. QED
  BY <1>1, <1>2 DEF s

\* The server stores an accepted body, or nothing.
LEMMA HandleSaveInv ==
  ASSUME FormInv, NEW r \in saves, HandleSave(r)
  PROVE  FormInv'
<1>1. /\ TypeOK /\ RowsOwn /\ saves \subseteq Saves /\ r \in Saves /\ SaveOwns(opened, page, r)
      /\ UNCHANGED <<page, list, own, prepared, open, form, prepares, dels, opened, acts>>
  BY DEF FormInv, TextsOwn, TypeOK, HandleSave
<1>2. CASE /\ Accepts(r)
           /\ server' = [server EXCEPT ![IF r.to = New THEN r.body.id ELSE r.to] = r.body]
           /\ \E st \in {"ok", "failed"} : Answer(r, st)
  <2>1. r.body.id \in Things /\ (r.to # New => r.body.id = r.to) /\ RowOf(opened, r.body, r.body.id) /\ r.body \in Rows
    BY <1>1, <1>2, AcceptedOwns DEF Saves
  <2>2. server' = [server EXCEPT ![r.body.id] = r.body]
    BY <1>2, <2>1
  <2>3. r.body.id # NoId
    BY <2>1 DEF FormAssumption
  <2>4. PICK st \in {"ok", "failed"} : saves' = (saves \ {r}) \cup {[r EXCEPT !.st = st]}
    BY <1>2 DEF Answer
  <2>5. [r EXCEPT !.st = st] \in Saves /\ SaveOwns(opened, page, [r EXCEPT !.st = st])
    BY <1>1, <2>1, <2>3, AnswerOwns
  <2>6. TypeOK'
    BY <1>1, <2>1, <2>2, <2>4, <2>5 DEF TypeOK
  <2>7. RowsOwn'
    BY <1>1, <2>1, <2>2 DEF RowsOwn, TypeOK
  <2>8. (\A s \in saves : SaveOwns(opened, page, s))' /\ (\A d \in dels : DelOwns(page, d))'
    BY <1>1, <2>4, <2>5 DEF FormInv, TextsOwn
  <2>9. QED
    BY <1>1, <2>6, <2>7, <2>8, PageStays DEF FormInv, TextsOwn
<1>3. CASE server' = server /\ Answer(r, "failed")
  <2>1. saves' = (saves \ {r}) \cup {[r EXCEPT !.st = "failed"]}
    BY <1>3 DEF Answer
  <2>2. [r EXCEPT !.st = "failed"] \in Saves /\ SaveOwns(opened, page, [r EXCEPT !.st = "failed"])
    BY <1>1, AnswerOwns
  <2>3. TypeOK'
    BY <1>1, <1>3, <2>1, <2>2 DEF TypeOK
  <2>4. RowsOwn'
    BY <1>1, <1>3 DEF RowsOwn
  <2>5. (\A s \in saves : SaveOwns(opened, page, s))' /\ (\A d \in dels : DelOwns(page, d))'
    BY <1>1, <2>1, <2>2 DEF FormInv, TextsOwn
  <2>6. QED
    BY <1>1, <2>3, <2>4, <2>5, PageStays DEF FormInv, TextsOwn
<1>4. QED
  BY <1>2, <1>3 DEF HandleSave

\* close(): the form of one dialog is fresh, the rows are the server's or stay.
LEMMA CloseInv ==
  ASSUME FormInv, NEW m \in Modals, Close(m), page = "profile" => m = "peer",
         list' \in [Things -> Rows], \A x \in Things : RowOf(opened, list'[x], x),
         m = "iface" => \A p \in Peers : list'[p] = list[p],
         saves' \subseteq saves, dels' \subseteq dels,
         UNCHANGED <<page, server, prepared, prepares, opened, acts>>
  PROVE  FormInv'
<1>1. TypeOK /\ FormOwns /\ RowsOwn /\ OpenOwns /\ opened \in Seq(Openings)
  BY DEF FormInv, TextsOwn, TypeOK
<1>2. Extends(opened', opened)
  BY SomeOpening DEF Extends
<1>3. open' = IF open.modal = m THEN Closed ELSE open
  BY DEF Close
<1>4. open' \in Dialogs
  BY <1>1, <1>3, FreshTypes DEF TypeOK
<1>5. OpenOwns'
  BY <1>1, <1>3 DEF OpenOwns, Closed
<1>6. own' \in [Peers -> Rows] /\ \A p \in Peers : RowOf(opened, own'[p], p)
  BY <1>1 DEF Close, TypeOK, RowsOwn, Things
<1>7. RowsOwn'
  BY <1>1, <1>6 DEF RowsOwn
<1>8. Closed.modal = "none"
  BY DEF Closed
<1>9. CASE m = "peer"
  <2>1. /\ form' \in [peer : Forms, iface : IfaceForms] /\ form'["peer"] = freshPeer
        /\ form'["iface"] = form["iface"]
    BY <1>1, <1>9, FreshTypes DEF Close, TypeOK
  <2>2. /\ freshPeer.src = "form" /\ freshPeer.id = NoId /\ freshPeer.flat = 0 /\ freshPeer.ignore = FALSE
        /\ freshPeer.nest = FreshNest
        /\ FreshNest.of = NoId /\ FreshNest.edit = 0 /\ FreshNest.fixed = {}
    BY DEF freshPeer, FreshNest
  <2>3. FormNest' = FreshNest
    BY <2>1, <2>2 DEF FormNest
  <2>4. TypeOK'
    BY <1>1, <1>4, <1>6, <2>1 DEF TypeOK
  <2>5. TextOf(opened', open', form["iface"].flat, form["iface"].id, "iface")
    BY <1>1, <1>2, <1>3, <1>9, TextStays, FormFields DEF FormOwns
  <2>6. FormOwns'
    BY <1>1, <2>1, <2>2, <2>3, <2>5, ZeroTyped DEF FormOwns
  <2>7. SwitchInv' /\ SwitchOff'
    BY <1>3, <1>8, <1>9, <2>1, <2>2, <2>3 DEF SwitchInv, SwitchOff
  <2>8. QED
    BY <1>2, <1>5, <1>7, <2>4, <2>6, <2>7, CallsStay DEF FormInv, TextsOwn
<1>10. CASE m = "iface"
  <2>1. /\ form' \in [peer : Forms, iface : IfaceForms] /\ form'["iface"] = freshInterface
        /\ form'["peer"] = form["peer"]
    BY <1>1, <1>10, FreshTypes DEF Close, TypeOK
  <2>2. own' = own
    BY <1>1, <1>10 DEF Close
  <2>3. freshInterface.flat = 0
    BY DEF freshInterface
  <2>4. FormNest' = FormNest /\ FormNest \in Nests
    <3>1. form["peer"].src = "list" => form["peer"].id \in Peers
      BY <1>1 DEF FormOwns
    <3>2. QED
      BY <1>1, <1>10, <2>1, <2>2, <3>1, FormNestType DEF FormNest
  <2>5. TypeOK'
    BY <1>1, <1>4, <1>6, <2>1 DEF TypeOK
  <2>6. FormNest.edit \in Nat
    BY <2>4 DEF Nests
  <2>7. /\ TextOf(opened', open', form["peer"].flat, form["peer"].id, "peer")
        /\ TextOf(opened', open', FormNest.edit, form["peer"].id, "peer")
    BY <1>1, <1>2, <1>3, <1>10, <2>6, TextStays, FormFields DEF FormOwns
  <2>8. TextOf(opened', open', freshInterface.flat, form'["iface"].id, "iface")
    BY <1>1, <2>3, ZeroTyped
  <2>9. /\ form["peer"].src \in {"list", "own"} =>
             open'.modal = "peer" /\ open'.id = form["peer"].id /\ form["peer"].id \in Peers
        /\ form["peer"].src = "list" => Has(list', form["peer"].id)
        /\ form["peer"].src = "own" => Has(own', form["peer"].id)
    BY <1>1, <1>3, <1>10, <2>2 DEF FormOwns, Has
  <2>10. FormOwns'
    BY <1>1, <2>1, <2>4, <2>7, <2>8, <2>9 DEF FormOwns, Has
  <2>11. SwitchInv' /\ SwitchOff'
    BY <1>3, <1>8, <1>10, <2>1, <2>4 DEF SwitchInv, SwitchOff, FormInv
  <2>12. QED
    BY <1>2, <1>5, <1>7, <2>5, <2>10, <2>11, CallsStay DEF FormInv, TextsOwn
<1>11. QED
  BY <1>9, <1>10 DEF Modals

\* The person closes the dialog.
LEMMA UserClosesInv ==
  ASSUME FormInv, UserCloses
  PROVE  FormInv'
<1>1. OpenOwns /\ open \in Dialogs /\ open # Closed /\ TypeOK /\ RowsOwn
  BY DEF FormInv, TextsOwn, TypeOK, UserCloses
<1>2. open.modal \in Modals /\ (page = "profile" => open.modal = "peer")
  BY <1>1 DEF OpenOwns, Dialogs
<1>3. /\ Close(open.modal) /\ list' = list /\ saves' = saves /\ dels' = dels
      /\ UNCHANGED <<page, server, prepared, prepares, opened, acts>>
  BY DEF UserCloses
<1>4. list' \in [Things -> Rows] /\ (\A x \in Things : RowOf(opened, list'[x], x)) /\ (\A p \in Peers : list'[p] = list[p])
  BY <1>1, <1>3 DEF TypeOK, RowsOwn
<1>5. saves' \subseteq saves /\ dels' \subseteq dels
  BY <1>3
<1>6. QED
  BY <1>2, <1>3, <1>4, <1>5, CloseInv

\* The answer of a save replaces or appends the listed row.
LEMMA SaveAnsweredInv ==
  ASSUME FormInv, NEW r \in saves, SaveAnswered(r)
  PROVE  FormInv'
<1>1. /\ r \in Saves /\ SaveOwns(opened, page, r) /\ r.st = "ok" /\ TypeOK /\ RowsOwn
      /\ UNCHANGED <<page, server, prepared, prepares, dels, opened, acts>>
      /\ Close(r.modal) /\ saves' = saves \ {r}
  BY DEF FormInv, TextsOwn, TypeOK, SaveAnswered
<1>2. /\ r.body \in Rows /\ r.modal \in Modals /\ r.body.id # NoId /\ RowOf(opened, r.body, r.body.id)
      /\ r.body.id \in IF r.modal = "peer" THEN Peers ELSE Ifaces
      /\ page = "profile" => r.modal = "peer"
  BY <1>1 DEF SaveOwns, Saves
<1>3. r.body.id \in Things
  BY <1>2 DEF Things
<1>4. list' = list \/ list' = [list EXCEPT ![r.body.id] = r.body]
  BY DEF SaveAnswered
<1>5. list' \in [Things -> Rows] /\ \A x \in Things : RowOf(opened, list'[x], x)
  BY <1>1, <1>2, <1>3, <1>4 DEF TypeOK, RowsOwn
<1>6. ASSUME r.modal = "iface", NEW p \in Peers PROVE list'[p] = list[p]
  <2>1. p # r.body.id /\ p \in Things
    BY <1>2, <1>6 DEF Things, FormAssumption
  <2>2. QED
    BY <1>1, <1>3, <1>4, <2>1 DEF TypeOK
<1>7. saves' \subseteq saves /\ dels' \subseteq dels
  BY <1>1
<1>8. QED
  BY <1>1, <1>2, <1>5, <1>6, <1>7, CloseInv

\* The answer of a delete takes the row out of the list.
LEMMA DeleteAnsweredInv ==
  ASSUME FormInv, NEW d \in dels, DeleteAnswered(d)
  PROVE  FormInv'
<1>1. /\ d \in Dels /\ DelOwns(page, d) /\ TypeOK /\ RowsOwn
      /\ UNCHANGED <<page, server, prepared, prepares, saves, opened, acts>>
      /\ Close(d.modal) /\ dels' = dels \ {d} /\ list' = [list EXCEPT ![d.id] = NoRow]
  BY DEF FormInv, TextsOwn, TypeOK, DeleteAnswered
<1>2. /\ d.modal \in Modals /\ d.id \in Things /\ (d.modal = "iface" => d.id \in Ifaces)
      /\ page = "profile" => d.modal = "peer"
  BY <1>1 DEF DelOwns, Dels
<1>3. \A x \in Things : RowOf(opened, NoRow, x)
  BY DEF RowOf, NoRow
<1>4. list' \in [Things -> Rows] /\ \A x \in Things : RowOf(opened, list'[x], x)
  BY <1>1, <1>2, <1>3, FreshTypes DEF TypeOK, RowsOwn
<1>5. ASSUME d.modal = "iface", NEW p \in Peers PROVE list'[p] = list[p]
  <2>1. p # d.id /\ p \in Things
    BY <1>2, <1>5 DEF Things, FormAssumption
  <2>2. QED
    BY <1>1, <1>2, <2>1 DEF TypeOK
<1>6. saves' \subseteq saves /\ dels' \subseteq dels
  BY <1>1
<1>7. QED
  BY <1>1, <1>2, <1>4, <1>5, <1>6, CloseInv

\* Calls that end without effect.
LEMMA CallFailsInv ==
  ASSUME FormInv, saves' \subseteq saves, dels' \subseteq dels,
         UNCHANGED <<page, server, list, own, prepared, open, form, prepares, opened, acts>>
  PROVE  FormInv'
<1>1. Extends(opened', opened)
  BY SomeOpening DEF Extends
<1>2. TypeOK' /\ RowsOwn'
  BY DEF FormInv, TextsOwn, TypeOK, RowsOwn
<1>3. QED
  BY <1>1, <1>2, CallsStay, PageStays DEF FormInv, TextsOwn

\* A delete is sent for the record of the dialog.
LEMMA DeleteInv ==
  ASSUME FormInv, NEW m \in Modals, Delete(m)
  PROVE  FormInv'
<1> DEFINE d == [modal |-> m, id |-> open.id, st |-> "sent"]
<1>1. /\ open.modal = m /\ open.id # New /\ dels' = dels \cup {d} /\ acts' \in Nat
      /\ UNCHANGED <<page, server, list, own, prepared, open, form, prepares, saves, opened>>
  BY DEF Delete, Act, FormInv, TypeOK
<1>2. /\ open.id \in IF m = "peer" THEN Peers ELSE Ifaces
      /\ page = "profile" => m = "peer"
  BY <1>1 DEF FormInv, TextsOwn, OpenOwns, Modals
<1>3. d \in Dels /\ DelOwns(page, d)
  BY <1>2 DEF Dels, DelOwns, Things
<1> HIDE DEF d
<1>4. TypeOK' /\ RowsOwn'
  BY <1>1, <1>3 DEF FormInv, TextsOwn, TypeOK, RowsOwn
<1>5. (\A r \in saves : SaveOwns(opened, page, r))' /\ (\A e \in dels : DelOwns(page, e))'
  BY <1>1, <1>3 DEF FormInv, TextsOwn
<1>6. QED
  BY <1>1, <1>4, <1>5, PageStays DEF FormInv, TextsOwn

\* The server deletes a record, with the peers of an interface.
LEMMA HandleDeleteInv ==
  ASSUME FormInv, NEW d \in dels, HandleDelete(d)
  PROVE  FormInv'
<1>1. /\ d \in Dels /\ DelOwns(page, d) /\ TypeOK /\ RowsOwn
      /\ UNCHANGED <<page, list, own, prepared, open, form, prepares, saves, opened, acts>>
  BY DEF FormInv, TextsOwn, TypeOK, HandleDelete
<1>2. ASSUME NEW st \in {"ok", "failed"}
      PROVE  [d EXCEPT !.st = st] \in Dels /\ DelOwns(page, [d EXCEPT !.st = st])
  BY <1>1 DEF Dels, DelOwns
<1>3. PICK st \in {"ok", "failed"} : dels' = (dels \ {d}) \cup {[d EXCEPT !.st = st]}
  BY DEF HandleDelete
<1>4. server' = server \/ server' = [x \in Things |->
          IF x = d.id \/ (x \in Peers /\ Home[x] = d.id) THEN NoRow ELSE server[x]]
  BY DEF HandleDelete
<1>5. \A x \in Things : RowOf(opened, NoRow, x)
  BY DEF RowOf, NoRow
<1>6. server' \in [Things -> Rows] /\ \A x \in Things : RowOf(opened, server'[x], x)
  BY <1>1, <1>4, <1>5, FreshTypes DEF TypeOK, RowsOwn
<1>7. TypeOK' /\ RowsOwn'
  BY <1>1, <1>2, <1>3, <1>6 DEF TypeOK, RowsOwn
<1>8. (\A r \in saves : SaveOwns(opened, page, r))' /\ (\A e \in dels : DelOwns(page, e))'
  BY <1>1, <1>2, <1>3 DEF FormInv, TextsOwn
<1>9. QED
  BY <1>1, <1>7, <1>8, PageStays DEF FormInv, TextsOwn

\* A reload of the list: the form keeps the settings it shows.
LEMMA ListAnsweredInv ==
  ASSUME FormInv, ListAnswered
  PROVE  FormInv'
<1>1. /\ TypeOK /\ FormOwns /\ RowsOwn /\ OpenOwns /\ FormNest \in Nests /\ form' = Detached
      /\ UNCHANGED <<page, server, own, prepared, open, prepares, saves, dels, opened, acts>>
  BY FormNestType DEF FormInv, TextsOwn, TypeOK, ListAnswered
<1>2. PICK i : list' = [x \in Things |-> IF x \in Ifaces THEN list[x]
                                        ELSE IF Home[x] = i THEN server[x] ELSE NoRow]
  BY DEF ListAnswered
<1>3. \A x \in Things : RowOf(opened, NoRow, x)
  BY DEF RowOf, NoRow
<1>4. list' \in [Things -> Rows] /\ \A x \in Things : RowOf(opened, list'[x], x)
  BY <1>1, <1>2, <1>3, FreshTypes DEF TypeOK, RowsOwn
<1>5. form["peer"] \in Forms
  BY <1>1 DEF TypeOK
<1>6. /\ form' \in [peer : Forms, iface : IfaceForms] /\ form'["iface"] = form["iface"]
      /\ form'["peer"].id = form["peer"].id /\ form'["peer"].flat = form["peer"].flat
      /\ form'["peer"].ignore = form["peer"].ignore /\ form'["peer"].late = form["peer"].late
      /\ form'["peer"].src \in {"form", "prepared"} /\ FormNest' = FormNest
  <2>1. CASE form["peer"].src \in {"list", "own"}
    <3> DEFINE f == [form["peer"] EXCEPT !.src = "form", !.nest = FormNest]
    <3>1. /\ f \in Forms /\ f.id = form["peer"].id /\ f.flat = form["peer"].flat /\ f.ignore = form["peer"].ignore
          /\ f.late = form["peer"].late /\ f.src = "form" /\ f.nest = FormNest
      BY <1>1, <1>5 DEF Forms
    <3>2. form' = [form EXCEPT !["peer"] = f]
      BY <1>1, <2>1 DEF Detached, TypeOK
    <3> HIDE DEF f
    <3>3. form' \in [peer : Forms, iface : IfaceForms] /\ form'["peer"] = f /\ form'["iface"] = form["iface"]
      BY <1>1, <3>1, <3>2 DEF TypeOK
    <3>4. FormNest' = FormNest
      BY <3>1, <3>3 DEF FormNest
    <3>5. QED
      BY <3>1, <3>3, <3>4
  <2>2. CASE form["peer"].src \notin {"list", "own"}
    <3>1. form' = form
      BY <1>1, <2>2 DEF Detached
    <3>2. FormNest' = FormNest
      BY <1>1, <2>2, <3>1 DEF FormNest
    <3>3. QED
      BY <1>1, <1>5, <2>2, <3>1, <3>2 DEF TypeOK, Forms
  <2>3. QED
    BY <2>1, <2>2
<1>7. TypeOK'
  BY <1>1, <1>4, <1>6 DEF TypeOK
<1>8. RowsOwn' /\ OpenOwns'
  BY <1>1, <1>4 DEF RowsOwn, OpenOwns
<1>9. FormOwns'
  BY <1>1, <1>6 DEF FormOwns
<1>10. SwitchInv' /\ SwitchOff'
  BY <1>1, <1>6 DEF SwitchInv, SwitchOff, FormInv
<1>11. (\A r \in saves : SaveOwns(opened, page, r))' /\ (\A e \in dels : DelOwns(page, e))'
  BY <1>1 DEF FormInv, TextsOwn
<1>12. QED
  BY <1>7, <1>8, <1>9, <1>10, <1>11 DEF FormInv, TextsOwn

-----------------------------------------------------------------------------
\* One case per action.
LEMMA NextInv == FormInv /\ [Next]_vars => FormInv'
<1> SUFFICES ASSUME FormInv, [Next]_vars PROVE FormInv'
  OBVIOUS
<1>1. ASSUME NEW p \in Peers, OpenPeer(p) \/ OpenOwnPeer(p) PROVE FormInv'
  BY <1>1, OpenPeerInv, OpenOwnPeerInv
<1>2. ASSUME NEW i \in Ifaces, OpenNewPeer(i) PROVE FormInv'
  <2>1. /\ Show("peer", New, i) /\ prepares' = prepares \cup {[modal |-> "peer", iface |-> i, no |-> open'.no]}
        /\ page' = page /\ UNCHANGED <<server, list, own, prepared, form, saves, dels, acts>>
    BY <1>2 DEF OpenNewPeer
  <2>2. QED
    BY <2>1, OpenEmptyInv DEF Modals
<1>3. ASSUME NEW i \in Ifaces, OpenInterface(i) PROVE FormInv'
  BY <1>3, OpenInterfaceInv
<1>4. CASE OpenNewInterface
  <2>1. /\ Show("iface", New, NoId) /\ prepares' = prepares \cup {[modal |-> "iface", iface |-> NoId, no |-> open'.no]}
        /\ page' = page /\ page = "interfaces" /\ UNCHANGED <<server, list, own, prepared, form, saves, dels, acts>>
    BY <1>4 DEF OpenNewInterface
  <2>2. QED
    BY <2>1, OpenEmptyInv DEF Modals
<1>5. ASSUME NEW r \in prepares, PreparePeer(r) \/ PrepareOwnPeer(r) PROVE FormInv'
  BY <1>5, FillPreparedInv DEF PreparePeer, PrepareOwnPeer, Prepared
<1>6. ASSUME NEW r \in prepares, PrepareInterface(r) PROVE FormInv'
  <2>1. PICK i \in {j \in Ifaces : ~Has(server, j)} \cup {NoId} :
            form' = [form EXCEPT !["iface"].id = i, !["iface"].flat = 0]
    BY <1>6 DEF PrepareInterface
  <2>2. /\ i \in Ifaces \cup {NoId} /\ prepares' \subseteq prepares /\ acts' \in Nat
        /\ UNCHANGED <<page, server, list, own, prepared, open, saves, dels, opened>>
    BY <1>6 DEF PrepareInterface, FormInv, TypeOK
  <2>3. TextOf(opened, open, 0, i, "iface")
    BY ZeroTyped DEF FormInv, TypeOK
  <2>4. QED
    BY <2>1, <2>2, <2>3, InterfaceFormInv
<1>7. CASE \/ EditPeer \/ EditSettings \/ EditOwnPeer \/ ToggleIgnore \/ ToggleDisabled \/ EditExpiry
           \/ EditInterface \/ EditPeerDefaults
  BY <1>7, EditInv
<1>8. CASE SavePeer \/ SaveOwnPeer \/ SaveInterface
  BY <1>8, SaveInv DEF SavePeer, SaveOwnPeer, SaveInterface, Modals
<1>9. ASSUME NEW r \in saves, HandleSave(r) \/ SaveAnswered(r) PROVE FormInv'
  BY <1>9, HandleSaveInv, SaveAnsweredInv
<1>10. ASSUME NEW r \in saves, SaveFailed(r) PROVE FormInv'
  <2>1. /\ saves' \subseteq saves /\ dels' \subseteq dels
        /\ UNCHANGED <<page, server, list, own, prepared, open, form, prepares, opened, acts>>
    BY <1>10 DEF SaveFailed
  <2>2. QED
    BY <2>1, CallFailsInv
<1>11. CASE DeletePeer \/ DeleteOwnPeer \/ DeleteInterface
  BY <1>11, DeleteInv DEF DeletePeer, DeleteOwnPeer, DeleteInterface, Modals
<1>12. ASSUME NEW d \in dels, HandleDelete(d) \/ DeleteAnswered(d) PROVE FormInv'
  BY <1>12, HandleDeleteInv, DeleteAnsweredInv
<1>13. ASSUME NEW d \in dels, DeleteFailed(d) PROVE FormInv'
  <2>1. /\ saves' \subseteq saves /\ dels' \subseteq dels
        /\ UNCHANGED <<page, server, list, own, prepared, open, form, prepares, opened, acts>>
    BY <1>13 DEF DeleteFailed
  <2>2. QED
    BY <2>1, CallFailsInv
<1>14. CASE UserCloses
  BY <1>14, UserClosesInv
<1>15. CASE ListAnswered
  BY <1>15, ListAnsweredInv
<1>16. CASE UNCHANGED vars
  <2>1. /\ saves' \subseteq saves /\ dels' \subseteq dels
        /\ UNCHANGED <<page, server, list, own, prepared, open, form, prepares, opened, acts>>
    BY <1>16 DEF vars
  <2>2. QED
    BY <2>1, CallFailsInv
<1>17. QED
  BY <1>1, <1>2, <1>3, <1>4, <1>5, <1>6, <1>7, <1>8, <1>9, <1>10, <1>11, <1>12, <1>13, <1>14, <1>15, <1>16 DEF Next

\* The invariant holds in every state, for any records, zone and inputs.
THEOREM FormInvHolds == Spec => []FormInv
BY InitInv, NextInv, PTL DEF Spec

\* Every stored record has its own identity and its own settings, although
\* forms share their settings with the lists and prepared records land in
\* whatever dialog is open (PeerEditModal.vue, UserPeerEditModal.vue).
THEOREM WritesMatchFormHolds == Spec => []WritesMatchForm
<1>1. FormInv => WritesMatchForm
  BY DEF FormInv, TextsOwn, RowsOwn, RowOf, WritesMatchForm, Has
<1>2. QED
  BY <1>1, FormInvHolds, PTL

\* What was typed in a dialog is stored in no record but that of the dialog,
\* and in no interface but the one selected when a new peer was typed in.
THEOREM EditsReachOwnRecordHolds == Spec => []EditsReachOwnRecord
<1>1. FormInv => EditsReachOwnRecord
  BY DEF FormInv, TextsOwn, RowsOwn, RowOf, EditsReachOwnRecord, Has
<1>2. QED
  BY <1>1, FormInvHolds, PTL

\* The conversions of helpers/datetime.js keep the hour and the minute of an expiry, in
\* every time zone and through any number of openings and saves; the seconds are kept
\* until a save drops them.
THEOREM TimeOfDayKeptHolds == Spec => []TimeOfDayKept
<1>1. ASSUME FormInv PROVE TimeOfDayKept
  <2>1. ASSUME NEW p \in Peers PROVE server[p].exp \in SUBSET KeptTimes
    <3>1. server[p] \in Rows
      BY <1>1 DEF FormInv, TypeOK, Things
    <3>2. QED
      BY <3>1 DEF Rows
  <2>2. QED
    BY <2>1 DEF TimeOfDayKept, KeptTimes
<1>2. QED
  BY <1>1, FormInvHolds, PTL

\* The "ignore global settings" switch of the admin's dialog says what the
\* flags of the settings are, until a prepared peer lands after the switch.
THEOREM SwitchAgreesHolds == Spec => []SwitchAgrees
<1>1. FormInv => SwitchAgrees
  BY DEF FormInv, SwitchInv, SwitchAgrees
<1>2. QED
  BY <1>1, FormInvHolds, PTL
=============================================================================
