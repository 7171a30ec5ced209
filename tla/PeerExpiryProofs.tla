-------------------------- MODULE PeerExpiryProofs --------------------------
(***************************************************************************)
(* Proofs about the expiry of peers, for every TTL longer than the hour,   *)
(* every collection interval not longer than the hour, and without bounds  *)
(* on events, creations and edits.                                         *)
(***************************************************************************)
EXTENDS PeerExpiry, TLAPS

USE TimeAssumption, DatesAssumption, BoundsAssumption

\* A row is neither the absence of a row nor the absence of work.
LEMMA RowIsRow == \A r \in Row : r # NoRow /\ r # Idle
<1> SUFFICES ASSUME NEW r \in Row, r = NoRow \/ r = Idle PROVE FALSE
  OBVIOUS
<1>1. DOMAIN r = {"expires", "left", "locked"}
  BY DEF Row
<1>2. DOMAIN NoRow = {"row"} /\ DOMAIN Idle = {"row"}
  BY DEF NoRow, Idle
<1>3. "left" # "row"
  OBVIOUS
<1>4. QED
  BY <1>1, <1>2, <1>3

\* A row grows older: only the time left changes, by one or not at all at zero.
LEMMA OlderEffect ==
  ASSUME NEW r \in Row, NEW o, o = Older(r)
  PROVE  /\ o \in Row
         /\ o.expires = r.expires /\ o.locked = r.locked
         /\ o.left = IF r.left = 0 THEN 0 ELSE r.left - 1
BY DEF Older, Row

\* What a new peer looks like.
LEMMA NewPeerEffect ==
  ASSUME NEW how \in Wish, NEW d \in Nat, NEW r, r = NewPeer(how, d)
  PROVE  /\ r \in Row
         /\ r.locked <=> how \in {"date", "never"}
<1>0. CASE how = "open"
  BY <1>0 DEF NewPeer, Row
<1>1. CASE how = "none"
  BY <1>1 DEF NewPeer, Row
<1>2. CASE how = "default"
  BY <1>2 DEF NewPeer, Row
<1>3. CASE how = "date"
  BY <1>3 DEF NewPeer, Row
<1>4. CASE how = "never"
  BY <1>4 DEF NewPeer, Row
<1>5. QED
  BY <1>0, <1>1, <1>2, <1>3, <1>4 DEF Wish

\* The row the handler of the topic is about to save.
LEMMA RenewedEffect ==
  ASSUME NEW b \in BOOLEAN, NEW r, r = [expires |-> TRUE, left |-> TTL, locked |-> b]
  PROVE  r \in Row /\ r.expires /\ r.left = TTL
BY DEF Row

\* The steps of users, by creation and by the rest.
LEMMA UserSteps ==
  ASSUME User
  PROVE  \/ \E how \in Wish, d \in Nat : CreatePeer(how, d)
         \/ OpenForm \/ \E admin \in BOOLEAN : SubmitForm(admin)
         \/ DeletePeer \/ Connect \/ Disconnect
BY DEF User, Wish

\* Every step keeps the type of the state.
LEMMA TypeStep == TypeOK /\ [Next]_vars => TypeOK'
<1> SUFFICES ASSUME TypeOK, [Next]_vars PROVE TypeOK'
  OBVIOUS
<1> USE DEF TypeOK, Writer, config, user, collector
<1>1. CASE UNCHANGED vars
  BY <1>1 DEF vars
<1>2. CASE Tick
  <2>1. row' \in Row \cup {NoRow}
    BY <1>2, OlderEffect DEF Tick
  <2>2. form' \in Row \cup {Idle}
    BY <1>2, OlderEffect DEF Tick
  <2>3. QED
    BY <1>2, <2>1, <2>2 DEF Tick
<1>3. ASSUME NEW how \in Wish, NEW d \in Nat, CreatePeer(how, d)
      PROVE  TypeOK'
  <2>1. row' \in Row
    BY <1>3, NewPeerEffect DEF CreatePeer
  <2>2. wish' \in Wish
    BY <1>3 DEF CreatePeer
  <2>3. creates' \in Nat
    BY <1>3 DEF CreatePeer
  <2>4. QED
    BY <1>3, <2>1, <2>2, <2>3 DEF CreatePeer
<1>4. CASE OpenForm
  BY <1>4 DEF OpenForm
<1>5. ASSUME NEW admin \in BOOLEAN, SubmitForm(admin) PROVE TypeOK'
  <2>1. CASE row = NoRow
    BY <1>5, <2>1 DEF SubmitForm
  <2>2. CASE row # NoRow
    <3>1. PICK b : b = IF admin THEN FALSE ELSE row.locked
      OBVIOUS
    <3>2. b \in BOOLEAN
      BY <2>2, <3>1 DEF Row
    <3>3. [form EXCEPT !.locked = b] \in Row
      BY <1>5, <3>2 DEF SubmitForm, Row
    <3>4. upd' = [upd EXCEPT !["api"] = [form EXCEPT !.locked = b]]
      BY <1>5, <2>2, <3>1 DEF SubmitForm
    <3>5. upd' \in [Writer -> Row \cup {Idle}]
      BY <3>3, <3>4
    <3>6. QED
      BY <1>5, <3>5 DEF SubmitForm
  <2>3. QED
    BY <2>1, <2>2
<1>6. CASE DeletePeer
  BY <1>6 DEF DeletePeer
<1>6a. CASE Connect \/ Disconnect
  BY <1>6a DEF Connect, Disconnect
<1>7. ASSUME NEW b \in BOOLEAN, NEW r \in Row, Publish(b, r) PROVE queue' \in Seq(Event)
  <2>1. [on |-> b, peer |-> r] \in Event
    BY DEF Event
  <2>2. QED
    BY <1>7, <2>1 DEF Publish
<1>7a. CASE Collect
  <2>1. queue' \in Seq(Event)
    <3>1. (~reported) \in BOOLEAN
      OBVIOUS
    <3>2. QED
      BY <1>7, <1>7a, <3>1 DEF Collect
  <2>2. reported' \in BOOLEAN
    <3>1. /\ (reported \/ (~active /\ row # NoRow)) \in BOOLEAN
          /\ (reported /\ ~active) \in BOOLEAN
      OBVIOUS
    <3>2. QED
      BY <1>7a, <3>1 DEF Collect
  <2>3. active' \in BOOLEAN /\ since' \in Nat
    BY <1>7a DEF Collect
  <2>4. QED
    BY <1>7a, <2>1, <2>2, <2>3 DEF Collect
<1>7b. CASE EnqueuePingCheck
  <2>1. job' \in Event \cup {Idle}
    BY <1>7b DEF EnqueuePingCheck, Event
  <2>2. QED
    BY <1>7b, <2>1 DEF EnqueuePingCheck
<1>7c. CASE PingWorker
  <2>1. job \in Event
    BY <1>7c DEF PingWorker
  <2>2. job.on \in BOOLEAN /\ job.peer \in Row
    BY <2>1 DEF Event
  <2>3. queue' \in Seq(Event) /\ reported' \in BOOLEAN
    BY <1>7, <1>7c, <2>2 DEF PingWorker
  <2>4. QED
    BY <1>7c, <2>3 DEF PingWorker
<1>7d. ASSUME NEW g \in {"deleted", "expired"}, HandlePeerGone(g) PROVE TypeOK'
  <2>1. (reported /\ g # "deleted") \in BOOLEAN /\ (active /\ g # "expired") \in BOOLEAN
    OBVIOUS
  <2>2. reported' \in BOOLEAN /\ active' \in BOOLEAN
    BY <1>7d, <2>1 DEF HandlePeerGone
  <2>3. gone' \subseteq {"deleted", "expired"}
    BY <1>7d DEF HandlePeerGone
  <2>4. QED
    BY <1>7d, <2>2, <2>3 DEF HandlePeerGone
<1>7e. CASE Restart
  <2>1. upd' \in [Writer -> Row \cup {Idle}]
    BY <1>7e DEF Restart
  <2>2. queue' \in Seq(Event) /\ job' = Idle /\ gone' = {} /\ since' \in Nat /\ restarts' \in Nat
    BY <1>7e DEF Restart
  <2>3. active' \in BOOLEAN /\ found' \in BOOLEAN
    BY <1>7e DEF Restart
  <2>4. QED
    BY <1>7e, <2>1, <2>2, <2>3 DEF Restart
<1>8. CASE HandlePeerStateChange
  <2>1. Head(queue) \in Event /\ Tail(queue) \in Seq(Event)
    BY <1>8 DEF HandlePeerStateChange
  <2>2. Head(queue).peer.locked \in BOOLEAN
    BY <2>1 DEF Event, Row
  <2>3. PICK r : r = [expires |-> TRUE, left |-> TTL, locked |-> Head(queue).peer.locked]
    OBVIOUS
  <2>4. r \in Row
    BY <2>2, <2>3, RenewedEffect
  <2>5. upd' = upd \/ upd' = [upd EXCEPT !["ttl"] = r]
    BY <1>8, <2>3 DEF HandlePeerStateChange
  <2>6. upd' \in [Writer -> Row \cup {Idle}]
    BY <2>4, <2>5
  <2>7. QED
    BY <1>8, <2>1, <2>6 DEF HandlePeerStateChange
<1>9. ASSUME NEW w \in Writer, SavePeer(w) PROVE TypeOK'
  BY <1>9 DEF SavePeer
<1>10. CASE Find \/ DeleteFound \/ DeleteDeferred
  BY <1>10 DEF Find, DeleteFound, DeleteDeferred
<1>11. QED
  BY <1>1, <1>2, <1>3, <1>4, <1>5, <1>6, <1>6a, <1>7a, <1>7b, <1>7c, <1>7d, <1>7e, <1>8,
     <1>9, <1>10, UserSteps DEF Next

\* The first state satisfies the invariant.
LEMMA InitExpiryInv == Init => ExpiryInv
<1> SUFFICES ASSUME Init PROVE ExpiryInv
  OBVIOUS
<1>1. TypeOK
  <2>1. row \in Row \cup {NoRow} /\ form \in Row \cup {Idle} /\ wish \in Wish
    BY DEF Init, Wish
  <2>2. upd \in [Writer -> Row \cup {Idle}]
    BY DEF Init
  <2>3. /\ queue \in Seq(Event) /\ since \in Nat /\ creates \in Nat /\ edits \in Nat
        /\ restarts \in Nat /\ job \in Event \cup {Idle} /\ gone = {}
    BY DEF Init
  <2>4. /\ deleteExpired \in BOOLEAN /\ usePing \in BOOLEAN /\ present \in BOOLEAN /\ reported \in BOOLEAN
        /\ active \in BOOLEAN /\ found \in BOOLEAN /\ edited \in BOOLEAN
    BY DEF Init
  <2>5. QED
    BY <2>1, <2>2, <2>3, <2>4 DEF TypeOK
<1>2. RenewalInv
  BY DEF Init, RenewalInv, Writer
<1>3. LineageInv
  BY DEF Init, LineageInv, Writer
<1>4. QED
  BY <1>1, <1>2, <1>3 DEF ExpiryInv

\* What the queue holds after an event was published.
LEMMA PublishEffect ==
  ASSUME TypeOK, NEW b \in BOOLEAN, NEW r \in Row, Publish(b, r)
  PROVE  /\ Len(queue') = Len(queue) + 1
         /\ \A i \in 1 .. Len(queue) : queue'[i] = queue[i]
         /\ queue'[Len(queue) + 1] = [on |-> b, peer |-> r]
<1>1. [on |-> b, peer |-> r] \in Event
  BY DEF Event
<1>2. QED
  BY <1>1 DEF Publish, TypeOK

\* What the queue holds after its first event was taken.
LEMMA TailEffect ==
  ASSUME TypeOK, queue # <<>>
  PROVE  /\ Len(Tail(queue)) = Len(queue) - 1 /\ Len(queue) \in Nat \ {0}
         /\ \A i \in 1 .. Len(queue) - 1 : Tail(queue)[i] = queue[i + 1]
         /\ Head(queue) = queue[1]
BY DEF TypeOK

\* Renewal is never late.  Time passes only when nothing is pending, and then the
\* hour covers the wait for the next cycle; a cycle that finds less than the hour
\* puts an event into the queue that the handler does not skip; a row that is saved
\* by the handler, or new, has the whole TTL, which is longer than the hour.
LEMMA RenewalStep ==
  ASSUME TypeOK, RenewalInv, [Next]_vars
  PROVE  RenewalInv'
<1>0. TypeOK'
  BY TypeStep
<1> USE DEF TypeOK, config, user, collector
<1>1. CASE UNCHANGED vars
  BY <1>1 DEF vars, RenewalInv, Skipped
<1>2. CASE Tick
  <2>1. since' <= Period /\ upd' = upd
    BY <1>2 DEF Tick
  <2>2. ASSUME ~usePing, deleteExpired, ~edited, active, reported, row' # NoRow, ~row'.locked, row'.expires
        PROVE  row'.left + since' > Hour
    <3>1. row \in Row /\ row' = Older(row) /\ since' = since + 1
      BY <1>2, <2>2 DEF Tick
    <3>2. ~row.locked /\ row.expires /\ row.left \in Nat
      BY <2>2, <3>1, OlderEffect DEF Row
    <3>3. row.left + since > Hour
      BY <1>2, <2>2, <3>1, <3>2, RowIsRow DEF Tick, RenewalInv, Writer
    <3>4. row'.left = row.left - 1
      BY <1>2, <3>1, <3>2, <3>3, OlderEffect DEF Tick
    <3>5. QED
      BY <3>1, <3>2, <3>3, <3>4
  <2>3. row' = NoRow => row = NoRow
    <3>1. row # NoRow => row' \in Row
      BY <1>2, OlderEffect DEF Tick
    <3>2. QED
      BY <3>1, RowIsRow
  <2>4. QED
    BY <1>2, <2>1, <2>2, <2>3 DEF Tick, RenewalInv
<1>3. ASSUME NEW how \in Wish, NEW d \in Nat, CreatePeer(how, d)
      PROVE  RenewalInv'
  <2>1. ~reported'
    BY <1>3 DEF CreatePeer, RenewalInv
  <2>2. QED
    BY <1>3, <2>1 DEF CreatePeer, RenewalInv
<1>4. CASE OpenForm \/ Connect \/ Disconnect \/ Find \/ DeleteDeferred
  BY <1>4 DEF OpenForm, Connect, Disconnect, Find, DeleteDeferred, RenewalInv, Skipped
<1>5. ASSUME NEW admin \in BOOLEAN, SubmitForm(admin) PROVE RenewalInv'
  <2>1. upd'["ttl"] = upd["ttl"]
    BY <1>5 DEF SubmitForm, Writer
  <2>2. QED
    BY <1>5, <2>1 DEF SubmitForm, RenewalInv, Skipped
<1>6. CASE DeletePeer \/ DeleteFound
  BY <1>6 DEF DeletePeer, DeleteFound, RenewalInv
<1>7. CASE Collect /\ row # NoRow /\ present /\ reported'
  <2>1. /\ since' = 0 /\ row' = row /\ upd' = upd /\ deleteExpired' = deleteExpired
        /\ job' = job /\ edited' = edited /\ usePing' = usePing
    BY <1>7 DEF Collect
  <2>2. PICK b \in BOOLEAN : Publish(b, row)
    <3>1. (~reported) \in BOOLEAN
      OBVIOUS
    <3>2. QED
      BY <1>7, <3>1 DEF Collect
  <2>3. PICK e : e = [on |-> b, peer |-> row]
    OBVIOUS
  <2>4. Len(queue') = Len(queue) + 1 /\ queue'[Len(queue) + 1] = e /\ Len(queue) \in Nat
    <3>1. row \in Row
      BY <1>7
    <3>2. /\ Len(queue') = Len(queue) + 1
          /\ queue'[Len(queue) + 1] = [on |-> b, peer |-> row]
      BY <2>2, <3>1, PublishEffect
    <3>3. Len(queue) \in Nat
      OBVIOUS
    <3>4. QED
      BY <2>3, <3>2, <3>3
  <2>5. CASE Skipped(e)
    <3>1. e.peer = row
      BY <2>3
    <3>2. deleteExpired /\ ~row.locked => row.left > Hour
      BY <2>5, <3>1 DEF Skipped
    <3>3. deleteExpired /\ row # NoRow /\ ~row.locked => row.left + 0 > Hour
      BY <3>2 DEF Row
    <3>4. QED
      BY <1>7, <2>1, <3>3 DEF RenewalInv
  <2>6. CASE ~Skipped(e)
    <3>1. ~Skipped(e)'
      BY <2>1, <2>6 DEF Skipped
    <3>2. \E i \in 1 .. Len(queue') : ~Skipped(queue[i])'
      BY <2>4, <3>1
    <3>3. QED
      BY <1>7, <2>1, <3>2 DEF RenewalInv
  <2>7. QED
    BY <2>5, <2>6
<1>8. CASE Collect /\ ~(row # NoRow /\ present /\ reported')
  <2>1. /\ since' = 0 /\ row' = row /\ upd' = upd /\ job' = job /\ edited' = edited
        /\ active' = present /\ usePing' = usePing
    BY <1>8 DEF Collect
  <2>2. ~(row' # NoRow /\ active' /\ reported')
    BY <1>8, <2>1
  <2>3. row = NoRow => ~reported'
    BY <1>8 DEF Collect, RenewalInv
  <2>4. QED
    BY <2>1, <2>2, <2>3 DEF RenewalInv
<1>9. CASE EnqueuePingCheck
  BY <1>9 DEF EnqueuePingCheck, RenewalInv
<1>9a. CASE PingWorker /\ (row # NoRow /\ job.on # reported)
  <2>1. usePing /\ usePing' = usePing
    BY <1>9a DEF PingWorker, RenewalInv
  <2>2. since' = since /\ row' = row /\ upd' = upd
    BY <1>9a DEF PingWorker
  <2>3. QED
    BY <1>9a, <2>1, <2>2 DEF RenewalInv
<1>9b. CASE PingWorker /\ ~(row # NoRow /\ job.on # reported)
  BY <1>9b DEF PingWorker, RenewalInv, Skipped
<1>9c. ASSUME NEW g \in {"deleted", "expired"}, HandlePeerGone(g) PROVE RenewalInv'
  <2>1. (active' => active) /\ (reported' => reported)
    BY <1>9c DEF HandlePeerGone
  <2>2. QED
    BY <1>9c, <2>1 DEF HandlePeerGone, RenewalInv, Skipped
<1>9d. CASE Restart
  <2>1. upd'["ttl"] = Idle
    BY <1>9d DEF Restart, Writer
  <2>2. QED
    BY <1>9d, <2>1 DEF Restart, RenewalInv
<1>10. CASE HandlePeerStateChange
  <2>1. /\ row' = row /\ since' = since /\ deleteExpired' = deleteExpired
        /\ edited' = edited /\ reported' = reported /\ active' = active
        /\ job' = job /\ queue' = Tail(queue) /\ usePing' = usePing
        /\ queue # <<>> /\ upd["ttl"] = Idle
    BY <1>10 DEF HandlePeerStateChange
  <2>2. PICK r : r = [expires |-> TRUE, left |-> TTL, locked |-> Head(queue).peer.locked]
    OBVIOUS
  <2>3. r \in Row /\ r.expires /\ r.left = TTL /\ r # Idle
    <3>1. Head(queue) \in Event
      BY <2>1
    <3>2. Head(queue).peer.locked \in BOOLEAN
      BY <3>1 DEF Event, Row
    <3>3. QED
      BY <2>2, <3>2, RenewedEffect, RowIsRow
  <2>4. upd'["ttl"] = IF Skipped(Head(queue)) \/ row = NoRow THEN Idle ELSE r
    BY <1>10, <2>1, <2>2 DEF HandlePeerStateChange, Writer
  <2>5. upd'["ttl"] # Idle => upd'["ttl"].expires /\ upd'["ttl"].left = TTL
    BY <2>3, <2>4
  <2>6. ASSUME row # NoRow, NEW i \in 1 .. Len(queue), ~Skipped(queue[i])
        PROVE  \/ upd'["ttl"] # Idle
               \/ \E j \in 1 .. Len(queue') : ~Skipped(queue[j])'
    <3>1. CASE i = 1
      BY <2>1, <2>3, <2>4, <2>6, <3>1, TailEffect
    <3>2. CASE i # 1
      <4>1. i - 1 \in 1 .. Len(queue') /\ queue'[i - 1] = queue[i]
        BY <2>1, <3>2, TailEffect
      <4>2. ~Skipped(queue[i - 1])'
        BY <2>1, <2>6, <4>1 DEF Skipped
      <4>3. QED
        BY <4>1, <4>2
    <3>3. QED
      BY <3>1, <3>2
  <2>7. QED
    BY <2>1, <2>5, <2>6 DEF RenewalInv
<1>11. CASE SavePeer("ttl")
  <2>1. row' = upd["ttl"] /\ upd["ttl"] # Idle /\ upd'["ttl"] = Idle /\ since' = since
    BY <1>11 DEF SavePeer, Writer
  <2>1a. row' # NoRow /\ job' = job /\ usePing' = usePing
    BY <1>11, <2>1, RowIsRow DEF SavePeer, Writer
  <2>2. row'.left = TTL /\ row'.left + since' > Hour
    BY <2>1 DEF RenewalInv
  <2>3. QED
    BY <2>1, <2>1a, <2>2 DEF RenewalInv
<1>12. CASE SavePeer("api")
  <2>1. /\ edited' /\ upd'["ttl"] = upd["ttl"] /\ since' = since
        /\ row' = upd["api"] /\ upd["api"] # Idle /\ job' = job /\ usePing' = usePing
    BY <1>12 DEF SavePeer, Writer
  <2>2. row' # NoRow
    BY <2>1, RowIsRow DEF Writer
  <2>3. QED
    BY <2>1, <2>2 DEF RenewalInv
<1>13. QED
  BY <1>1, <1>2, <1>3, <1>4, <1>5, <1>6, <1>7, <1>8, <1>9, <1>9a, <1>9b, <1>9c,
     <1>9d, <1>10, <1>11, <1>12, UserSteps
     DEF Next, Writer

\* Copies keep the lock.  A peer that was created once has one lineage of copies: its
\* row, the events and the form; only an edit or a second creation may unlock one.
LEMMA LineageStep ==
  ASSUME TypeOK, LineageInv, [Next]_vars
  PROVE  LineageInv'
<1>0. TypeOK'
  BY TypeStep
<1> USE DEF TypeOK, config, user, collector
<1>1. CASE UNCHANGED vars
  BY <1>1 DEF vars, LineageInv
<1>2. CASE Tick
  <2>1. row' # NoRow => row # NoRow /\ row'.locked = row.locked
    BY <1>2, OlderEffect DEF Tick
  <2>2. row = NoRow => row' = NoRow
    BY <1>2 DEF Tick
  <2>3. QED
    BY <1>2, <2>1, <2>2 DEF Tick, LineageInv
<1>3. ASSUME NEW how \in Wish, NEW d \in Nat, CreatePeer(how, d)
      PROVE  LineageInv'
  <2>1. row'.locked <=> how \in {"date", "never"}
    BY <1>3, NewPeerEffect DEF CreatePeer
  <2>2. creates' # 0 /\ (creates' <= 1 => queue = <<>> /\ upd["ttl"] = Idle /\ job = Idle)
    BY <1>3 DEF CreatePeer, LineageInv, Writer
  <2>3. Len(queue) = 0 \/ queue # <<>>
    OBVIOUS
  <2>4. wish' = how /\ queue' = queue /\ upd' = upd /\ job' = job
    BY <1>3 DEF CreatePeer
  <2>5. QED
    BY <2>1, <2>2, <2>3, <2>4 DEF LineageInv
<1>4. CASE OpenForm \/ Connect \/ Disconnect \/ Find \/ DeleteDeferred
  BY <1>4 DEF OpenForm, Connect, Disconnect, Find, DeleteDeferred, LineageInv
<1>5. ASSUME NEW admin \in BOOLEAN, SubmitForm(admin) PROVE LineageInv'
  <2>1. upd'["ttl"] = upd["ttl"] /\ creates # 0
    BY <1>5 DEF SubmitForm, Writer, LineageInv
  <2>2. QED
    BY <1>5, <2>1 DEF SubmitForm, LineageInv
<1>6. CASE DeletePeer \/ DeleteFound
  BY <1>6 DEF DeletePeer, DeleteFound, LineageInv
<1>7. ASSUME NEW b \in BOOLEAN, NEW r \in Row, Publish(b, r),
             creates # 0,
             ~edited /\ creates <= 1 /\ wish \in {"date", "never"} => r.locked,
             job' \in {job, Idle}, UNCHANGED <<row, wish, upd, edited, creates>>
      PROVE  LineageInv'
  <2> USE <1>7
  <2>0. Len(queue) \in Nat
    OBVIOUS
  <2>1. /\ Len(queue') = Len(queue) + 1 /\ Len(queue) \in Nat
        /\ \A i \in 1 .. Len(queue) : queue'[i] = queue[i]
        /\ queue'[Len(queue) + 1] = [on |-> b, peer |-> r]
    BY <2>0, PublishEffect, Zenon
  <2>2. queue'[Len(queue) + 1].peer = r
    BY <2>1
  <2>3. ASSUME ~edited, creates <= 1, wish \in {"date", "never"},
               NEW i \in 1 .. Len(queue')
        PROVE  queue'[i].peer.locked
    <3>1. CASE i = Len(queue) + 1
      BY <2>2, <2>3, <3>1
    <3>2. CASE i # Len(queue) + 1
      <4>1. i \in 1 .. Len(queue)
        BY <2>1, <3>2
      <4>2. QED
        BY <2>1, <2>3, <4>1 DEF LineageInv
    <3>3. QED
      BY <3>1, <3>2
  <2>4. QED
    BY <2>3 DEF LineageInv
<1>8. CASE Collect
  <2>0. UNCHANGED <<row, wish, upd, edited, creates, job, form>>
    BY <1>8 DEF Collect
  <2>1. CASE present /\ row # NoRow /\ reported'
    <3>1. (~reported) \in BOOLEAN
      OBVIOUS
    <3>2. PICK b \in BOOLEAN : Publish(b, row)
      BY <1>8, <2>1, <3>1 DEF Collect
    <3>3. row \in Row /\ creates # 0
      BY <2>1 DEF LineageInv
    <3>4. ~edited /\ creates <= 1 /\ wish \in {"date", "never"} => row.locked
      BY <2>1 DEF LineageInv
    <3>5. QED
      BY <1>7, <2>0, <3>2, <3>3, <3>4
  <2>2. CASE ~(present /\ row # NoRow /\ reported')
    BY <1>8, <2>0, <2>2 DEF Collect, LineageInv
  <2>3. QED
    BY <2>1, <2>2
<1>9. CASE EnqueuePingCheck
  <2>1. \/ job' = Idle
        \/ job'.peer = row /\ row # NoRow /\ creates # 0
    BY <1>9 DEF EnqueuePingCheck, LineageInv
  <2>2. QED
    BY <1>9, <2>1 DEF EnqueuePingCheck, LineageInv
<1>9a. CASE PingWorker
  <2>0. UNCHANGED <<row, wish, upd, edited, creates, form>> /\ job' = Idle /\ job # Idle
    BY <1>9a DEF PingWorker
  <2>1. CASE row # NoRow /\ job.on # reported
    <3>1. job.on \in BOOLEAN /\ job.peer \in Row
      BY <2>0 DEF Event
    <3>2. Publish(job.on, job.peer)
      BY <1>9a, <2>1 DEF PingWorker
    <3>3. creates # 0
      BY <2>0 DEF LineageInv
    <3>4. ~edited /\ creates <= 1 /\ wish \in {"date", "never"} => job.peer.locked
      BY <2>0 DEF LineageInv
    <3>5. QED
      BY <1>7, <2>0, <3>1, <3>2, <3>3, <3>4
  <2>2. CASE ~(row # NoRow /\ job.on # reported)
    BY <1>9a, <2>0, <2>2 DEF PingWorker, LineageInv
  <2>3. QED
    BY <2>1, <2>2
<1>9b. ASSUME NEW g \in {"deleted", "expired"}, HandlePeerGone(g) PROVE LineageInv'
  BY <1>9b DEF HandlePeerGone, LineageInv
<1>9c. CASE Restart
  <2>1. \A w \in Writer : upd'[w] = Idle
    BY <1>9c DEF Restart
  <2>2. queue' = <<>> /\ Len(queue') = 0 /\ job' = Idle
    BY <1>9c DEF Restart
  <2>3. QED
    BY <1>9c, <2>1, <2>2 DEF Restart, LineageInv, Writer
<1>10. CASE HandlePeerStateChange
  <2>1. /\ queue # <<>> /\ queue' = Tail(queue) /\ row' = row /\ wish' = wish /\ job' = job
        /\ edited' = edited /\ creates' = creates /\ upd["ttl"] = Idle
    BY <1>10 DEF HandlePeerStateChange
  <2>2. creates # 0
    BY <2>1 DEF LineageInv
  <2>3. ASSUME ~edited, creates <= 1, wish \in {"date", "never"}
        PROVE  /\ upd'["ttl"] = Idle
               /\ \A i \in 1 .. Len(queue') : queue'[i].peer.locked
    <3>1. \A i \in 1 .. Len(queue) : queue[i].peer.locked
      BY <2>3 DEF LineageInv
    <3>2. Head(queue).peer.locked
      BY <2>1, <3>1, TailEffect
    <3>3. upd' = upd
      BY <1>10, <3>2 DEF HandlePeerStateChange, Skipped
    <3>4. ASSUME NEW i \in 1 .. Len(queue') PROVE queue'[i].peer.locked
      <4>1. i + 1 \in 1 .. Len(queue) /\ queue'[i] = queue[i + 1]
        BY <2>1, TailEffect
      <4>2. QED
        BY <3>1, <4>1
    <3>5. QED
      BY <2>1, <3>3, <3>4
  <2>4. upd'["ttl"] # Idle => ~upd'["ttl"].locked
    <3>1. upd' # upd => ~Head(queue).peer.locked
      BY <1>10 DEF HandlePeerStateChange, Skipped
    <3>2. upd' # upd => upd'["ttl"].locked = Head(queue).peer.locked
      BY <1>10 DEF HandlePeerStateChange, Writer
    <3>3. QED
      BY <2>1, <3>1, <3>2
  <2>5. QED
    BY <2>1, <2>2, <2>3, <2>4 DEF LineageInv
<1>11. CASE SavePeer("ttl")
  <2>1. /\ upd["ttl"] # Idle /\ row' = upd["ttl"] /\ upd'["ttl"] = Idle
        /\ UNCHANGED <<wish, queue, creates, job>> /\ (edited' <=> edited)
    BY <1>11 DEF SavePeer, Writer
  <2>2. creates # 0 /\ ~row'.locked
    BY <2>1 DEF LineageInv, Writer
  <2>3. QED
    BY <2>1, <2>2 DEF LineageInv
<1>12. CASE SavePeer("api")
  <2>1. edited' /\ upd'["ttl"] = upd["ttl"] /\ creates' = creates
    BY <1>12 DEF SavePeer, Writer
  <2>2. creates # 0
    BY <1>12 DEF SavePeer, LineageInv, Writer
  <2>3. QED
    BY <2>1, <2>2 DEF LineageInv
<1>13. QED
  BY <1>1, <1>2, <1>3, <1>4, <1>5, <1>6, <1>8, <1>9, <1>9a, <1>9b, <1>9c, <1>10, <1>11,
     <1>12, UserSteps
     DEF Next, Writer

\* The invariant of the expiry holds in every behaviour.
THEOREM ExpiryInvHolds == Spec => []ExpiryInv
<1>1. Init => ExpiryInv
  BY InitExpiryInv
<1>2. ExpiryInv /\ [Next]_vars => ExpiryInv'
  BY TypeStep, RenewalStep, LineageStep DEF ExpiryInv
<1>3. QED
  BY <1>1, <1>2, PTL DEF Spec

\* A connected client that activity keeps alive never has an expired row: with
\* nothing pending, RenewalInv leaves more than the hour less one cycle.
THEOREM OnlineNotExpiredHolds == Spec => []OnlineNotExpired
<1>1. ExpiryInv => OnlineNotExpired
  <2> SUFFICES ASSUME ExpiryInv, ~usePing, deleteExpired, ~edited, Settled, active, reported,
                      row # NoRow, ~row.locked, row.expires
               PROVE  row.left # 0
    BY DEF OnlineNotExpired, Expired
  <2>1. row.left + since > Hour /\ since <= Period
    BY DEF ExpiryInv, RenewalInv, Settled, TypeOK
  <2>2. since \in Nat /\ row.left \in Nat
    BY DEF ExpiryInv, TypeOK, Row
  <2>3. QED
    BY <2>1, <2>2
<1>2. QED
  BY <1>1, ExpiryInvHolds, PTL

\* Activity never changes a locked row: the only steps that write a row are
\* creation, which finds none, a tick, an edit and the handler, which by LineageInv
\* has nothing to save for a peer that was created locked.
THEOREM LockHonouredHolds == Spec => LockHonoured
<1>1. ExpiryInv /\ [Next]_vars
      => [~edited' /\ creates' <= 1 /\ row # NoRow /\ row.locked
            => row' \in {row, Older(row), NoRow}]_vars
  <2> SUFFICES ASSUME ExpiryInv, Next, ~edited', creates' <= 1, row # NoRow, row.locked
               PROVE  row' \in {row, Older(row), NoRow}
    BY DEF vars
  <2> USE DEF config, user, collector
  <2>1. CASE Tick \/ Restart
    BY <2>1 DEF Tick, Restart
  <2>2. CASE User
    <3>1. CASE \E how \in Wish, d \in Nat : CreatePeer(how, d)
      BY <3>1 DEF CreatePeer
    <3>2. CASE OpenForm \/ DeletePeer \/ Connect \/ Disconnect
      BY <3>2 DEF OpenForm, DeletePeer, Connect, Disconnect
    <3>3. CASE \E admin \in BOOLEAN : SubmitForm(admin)
      BY <3>3 DEF SubmitForm
    <3>4. QED
      BY <2>2, <3>1, <3>2, <3>3, UserSteps
  <2>3. CASE \/ Collect \/ EnqueuePingCheck \/ PingWorker \/ HandlePeerStateChange
             \/ \E g \in {"deleted", "expired"} : HandlePeerGone(g)
    BY <2>3 DEF Collect, EnqueuePingCheck, PingWorker, HandlePeerStateChange, HandlePeerGone
  <2>4. ASSUME NEW w \in Writer, SavePeer(w) PROVE FALSE
    <3>1. w = "ttl" /\ ~edited /\ creates <= 1 /\ upd["ttl"] # Idle
      BY <2>4 DEF SavePeer, Writer
    <3>2. wish \in {"date", "never"}
      BY <3>1 DEF ExpiryInv, LineageInv
    <3>3. QED
      BY <3>1, <3>2 DEF ExpiryInv, LineageInv
  <2>5. CASE Find \/ DeleteFound \/ DeleteDeferred
    BY <2>5 DEF Find, DeleteFound, DeleteDeferred
  <2>6. QED
    BY <2>1, <2>2, <2>3, <2>4, <2>5 DEF Next
<1>2. QED
  BY <1>1, ExpiryInvHolds, PTL DEF Spec, LockHonoured
=============================================================================
