--------------------------- MODULE WebUsersProofs ---------------------------
(***************************************************************************)
(* Proofs about WebUsers for every number of users, passkeys, visits and   *)
(* calls in flight: the stores agree with the server when their calls are  *)
(* answered in order, and no button stays disabled.                        *)
(***************************************************************************)
EXTENDS WebUsers, FiniteSetTheorems, TLAPS

-----------------------------------------------------------------------------
(* Kinds and groups of calls *)

\* Which calls write which store.
LEMMA GroupKinds ==
    ASSUME NEW k \in Kinds
    PROVE  /\ Group(k) = "users" <=> k \in Saves \cup {"users"}
           /\ Group(k) = "api" <=> k \in {"user", "enable", "disable"}
           /\ Group(k) = "creds" <=> k \in {"creds", "regStart", "prompt", "regFinish", "rename", "delCred"}
           /\ k \in {"userPeers", "audit", "peers", "stats", "ifaces"} => Group(k) = k
           /\ Group(k) \in {"users", "api", "creds", "userPeers", "audit", "peers", "stats", "ifaces"}
  <1>1. CASE k \in Saves \cup {"users"}
    BY <1>1 DEF Group, Saves
  <1>2. CASE k \in {"user", "enable", "disable"}
    BY <1>2 DEF Group, Saves
  <1>3. CASE k \in {"creds", "regStart", "prompt", "regFinish", "rename", "delCred"}
    BY <1>3 DEF Group, Saves
  <1>4. CASE k \in {"userPeers", "audit", "peers", "stats", "ifaces"}
    BY <1>4 DEF Group, Saves
  <1> QED
    BY <1>1, <1>2, <1>3, <1>4 DEF Kinds

\* An ask that names what its kind is about.
AskOK(a) ==
    /\ a.kind \in Kinds /\ a.of \in Users \cup Creds \cup {None} /\ a.from \in Pages \cup {"user"}
    /\ a.kind \in Saves \cup {"userPeers"} => a.of \in Users
    /\ a.kind \in {"rename", "delCred", "regFinish"} => a.of \in Creds

\* The call an ask becomes.
LEMMA CallOf ==
    ASSUME CallsTold, NEW a, AskOK(a)
    PROVE  /\ Call(a, issued + 1) \in Calls
           /\ Call(a, issued + 1).no = issued + 1 /\ Call(a, issued + 1).kind = a.kind
           /\ Call(a, issued + 1).of = a.of /\ Call(a, issued + 1).st = "sent"
           /\ Call(a, issued + 1).list = credList
  <1>1. NoCreds \in [Creds -> Nat] /\ <<>> \in Seq(UserRow)
    BY DEF NoCreds
  <1>2. issued + 1 \in Nat /\ credList \in Nat
    BY DEF CallsTold
  <1> QED
    BY <1>1, <1>2 DEF Call, Calls, AskOK

\* Sending no call and sending one.
LEMMA SendNone ==
    ASSUME CallsTold, NEW gone, Send(gone, <<>>)
    PROVE  calls' = calls \ gone /\ issued' = issued
  <1>1. DOMAIN <<>> = {} /\ Len(<<>>) = 0
    OBVIOUS
  <1> QED
    BY <1>1 DEF Send, CallsTold

LEMMA SendOne ==
    ASSUME CallsTold, NEW gone, NEW a, Send(gone, <<a>>)
    PROVE  calls' = (calls \ gone) \cup {Call(a, issued + 1)} /\ issued' = issued + 1
  <1>1. DOMAIN <<a>> = {1} /\ Len(<<a>>) = 1 /\ <<a>>[1] = a
    OBVIOUS
  <1>2. {Call(<<a>>[n], issued + n) : n \in DOMAIN <<a>>} = {Call(a, issued + 1)}
    BY <1>1
  <1> QED
    BY <1>1, <1>2 DEF Send

\* Which groups a step makes orderly again.
LEMMA RestoredNone == Restored(<<>>) = orderly
  <1>1. DOMAIN <<>> = {}
    OBVIOUS
  <1> QED
    BY <1>1 DEF Restored

LEMMA RestoredOne ==
    ASSUME NEW a, NEW g, g \in Restored(<<a>>), g \notin orderly
    PROVE  /\ g = Group(a.kind) /\ InFlight(g) = {}
           /\ a.kind \in {"users", "userPeers", "user", "creds"}
  <1>1. DOMAIN <<a>> = {1} /\ <<a>>[1] = a
    OBVIOUS
  <1> QED
    BY <1>1 DEF Restored

-----------------------------------------------------------------------------
(* Calls are told apart *)

\* Calls go and at most one comes, with a new number.
LEMMA ToldSend ==
    ASSUME CallsTold, NEW gone \in SUBSET calls, NEW a, AskOK(a),
           calls' = (calls \ gone) \cup {Call(a, issued + 1)}, issued' = issued + 1,
           UNCHANGED <<srvUsers, srvApi, srvCreds, creds, credList>>
    PROVE  CallsTold'
  <1> DEFINE k == Call(a, issued + 1)
  <1>1. /\ k \in Calls /\ k.no = issued + 1 /\ k.kind = a.kind /\ k.of = a.of /\ k.list = credList
    BY CallOf
  <1> HIDE DEF k
  <1>2. issued \in Nat /\ credList \in 0 .. issued
    BY DEF CallsTold
  <1>3. \A c \in calls : c.no \in 1 .. issued /\ c.list \in Nat /\ c.list <= issued /\ c.no # k.no
    BY <1>1, <1>2 DEF CallsTold, Calls
  <1>4. calls' \subseteq Calls /\ calls' \subseteq calls \cup {k}
    BY <1>1 DEF CallsTold, k
  <1>5. ASSUME NEW c \in calls'
        PROVE  /\ c.no \in 1 .. issued' /\ c.list <= issued' /\ credList' # c.no
               /\ c.kind \in Saves \cup {"userPeers"} => c.of \in Users
               /\ c.kind \in {"rename", "delCred", "regFinish"} => c.of \in Creds
    <2>1. CASE c = k
      BY <1>1, <1>2, <2>1 DEF AskOK
    <2>2. CASE c \in calls
      BY <1>2, <1>3, <2>2 DEF CallsTold
    <2> QED
      BY <1>4, <2>1, <2>2
  <1>6. ASSUME NEW c \in calls', NEW d \in calls'
        PROVE  d.list # c.no /\ (d.no = c.no => d = c)
    <2>1. CASE c \in calls /\ d \in calls
      BY <2>1 DEF CallsTold
    <2>2. CASE c = k
      BY <1>1, <1>2, <1>3, <1>4, <2>2
    <2>3. CASE c \in calls /\ d = k
      BY <1>1, <1>2, <1>3, <2>3 DEF CallsTold
    <2> QED
      BY <1>4, <2>1, <2>2, <2>3
  <1> QED
    BY <1>2, <1>4, <1>5, <1>6 DEF CallsTold

\* A call is answered and nothing is sent; its answer may be the new list.
LEMMA ToldGone ==
    ASSUME CallsTold, NEW gone \in SUBSET calls, calls' = calls \ gone, issued' = issued,
           UNCHANGED <<srvUsers, srvApi, srvCreds>>, creds' \in [Creds -> Nat],
           credList' = credList \/ \E c \in gone : credList' = c.no
    PROVE  CallsTold'
  <1>1. credList' \in 0 .. issued'
    BY DEF CallsTold
  <1>2. ASSUME NEW d \in calls' PROVE credList' # d.no
    BY DEF CallsTold
  <1> QED
    BY <1>1, <1>2 DEF CallsTold

\* The server answers a call, or it is lost.
LEMMA ToldSwap ==
    ASSUME CallsTold, NEW c \in calls, NEW d \in Calls,
           d.no = c.no, d.kind = c.kind, d.of = c.of, d.list = c.list,
           calls' = (calls \ {c}) \cup {d}, UNCHANGED <<issued, creds, credList>>,
           srvUsers' \in [Users -> Nat], srvApi' \in Nat, srvCreds' \in [Creds -> Nat]
    PROVE  CallsTold'
  <1>1. calls' \subseteq Calls
    BY DEF CallsTold
  <1>2. ASSUME NEW e \in calls'
        PROVE  /\ e.no \in 1 .. issued' /\ e.list <= issued' /\ credList' # e.no
               /\ e.kind \in Saves \cup {"userPeers"} => e.of \in Users
               /\ e.kind \in {"rename", "delCred", "regFinish"} => e.of \in Creds
    <2>1. CASE e = d
      BY <2>1 DEF CallsTold
    <2>2. CASE e # d
      BY <2>2 DEF CallsTold
    <2> QED
      BY <2>1, <2>2
  <1>3. ASSUME NEW e \in calls', NEW f \in calls'
        PROVE  f.list # e.no /\ (f.no = e.no => f = e)
    <2>1. e = d \/ (e \in calls /\ e # c)
      OBVIOUS
    <2>2. f = d \/ (f \in calls /\ f # c)
      OBVIOUS
    <2> QED
      BY <2>1, <2>2 DEF CallsTold
  <1> QED
    BY <1>1, <1>2, <1>3 DEF CallsTold

-----------------------------------------------------------------------------
(* What a step does to the calls of one group *)

Loads == {"users", "userPeers", "user", "creds"}

\* None of the calls of g changes.
Untouched(g) == InFlight(g)' = InFlight(g) /\ (g \in orderly' => g \in orderly)

\* The call k of g is sent.
Joined(g, k) ==
    /\ InFlight(g)' = InFlight(g) \cup {k} /\ k.st = "sent" /\ k.no \in Nat
    /\ \A c \in InFlight(g) : c.no < k.no
    /\ g \in orderly' => g \in orderly \/ (InFlight(g) = {} /\ k.kind \in Loads)

\* The call c of g is handled, which makes it d; no older one waits to be.
Answered(g, c, d) ==
    /\ c \in InFlight(g) /\ c.st = "sent" /\ InFlight(g)' = (InFlight(g) \ {c}) \cup {d}
    /\ g \in orderly' => g \in orderly /\ \A e \in InFlight(g) : e.st = "sent" => c.no <= e.no

\* The answer of c of g is taken; no older call is in flight.
Taken(g, c) ==
    /\ c \in InFlight(g) /\ c.st = "replied" /\ InFlight(g)' = InFlight(g) \ {c}
    /\ g \in orderly' => g \in orderly /\ \A e \in InFlight(g) : c.no <= e.no

\* A call or its answer is lost.
LEMMA LostGroup ==
    ASSUME NEW c \in calls, NEW d, d.kind = c.kind, calls' = (calls \ {c}) \cup {d},
           orderly' = orderly \ {Group(c.kind)}
    PROVE  /\ Group(c.kind) \notin orderly'
           /\ \A g : g # Group(c.kind) => Untouched(g)
  <1>1. ASSUME NEW g, g # Group(c.kind) PROVE InFlight(g)' = InFlight(g)
    BY <1>1 DEF InFlight
  <1> QED
    BY <1>1 DEF Untouched

\* The person, or a page that goes on, sends a call.
LEMMA SentGroup ==
    ASSUME CallsTold, NEW a, AskOK(a), Send({}, <<a>>), orderly' = Restored(<<a>>)
    PROVE  /\ Joined(Group(a.kind), Call(a, issued + 1))
           /\ \A g : g # Group(a.kind) => Untouched(g)
  <1> DEFINE k == Call(a, issued + 1)
  <1>1. k.no = issued + 1 /\ k.kind = a.kind /\ k.st = "sent"
    BY CallOf
  <1>2. calls' = calls \cup {k} /\ issued' = issued + 1
    BY SendOne
  <1> HIDE DEF k
  <1>3. issued \in Nat /\ \A c \in calls : c.no \in 1 .. issued
    BY DEF CallsTold
  <1>4. \A g : g \in orderly' => g \in orderly \/ (g = Group(a.kind) /\ InFlight(g) = {} /\ a.kind \in Loads)
    BY RestoredOne DEF Loads
  <1>5. ASSUME NEW g, g # Group(a.kind) PROVE Untouched(g)
    <2>1. InFlight(g)' = InFlight(g)
      BY <1>1, <1>2, <1>5 DEF InFlight
    <2> QED
      BY <1>4, <1>5, <2>1 DEF Untouched
  <1>6. Joined(Group(a.kind), k)
    <2>1. InFlight(Group(a.kind))' = InFlight(Group(a.kind)) \cup {k}
      BY <1>1, <1>2 DEF InFlight
    <2>2. \A c \in InFlight(Group(a.kind)) : c.no < k.no
      BY <1>1, <1>3 DEF InFlight
    <2> QED
      BY <1>1, <1>3, <1>4, <2>1, <2>2 DEF Joined
  <1> QED
    BY <1>5, <1>6 DEF k

\* The server answers a call.
LEMMA AnsweredGroup ==
    ASSUME CallsTold, NEW c \in calls, c.st = "sent", NEW d, d.kind = c.kind,
           calls' = (calls \ {c}) \cup {d}, orderly' = Handled(c)
    PROVE  /\ Answered(Group(c.kind), c, d)
           /\ \A g : g # Group(c.kind) => Untouched(g)
  <1> DEFINE h == Group(c.kind)
  <1>1. ASSUME NEW g, g # h PROVE Untouched(g)
    <2>1. InFlight(g)' = InFlight(g)
      BY <1>1 DEF InFlight
    <2> QED
      BY <2>1 DEF Untouched, Handled
  <1>2. InFlight(h)' = (InFlight(h) \ {c}) \cup {d} /\ c \in InFlight(h)
    BY DEF InFlight
  <1>3. ASSUME h \in orderly' PROVE h \in orderly /\ \A e \in InFlight(h) : e.st = "sent" => c.no <= e.no
    <2>1. h \in orderly /\ ~Overtakes(c, {"sent"})
      BY <1>3 DEF Handled
    <2>2. \A e \in InFlight(h) : e.no \in Nat /\ c.no \in Nat
      BY DEF CallsTold, InFlight
    <2> QED
      BY <2>1, <2>2 DEF Overtakes
  <1> QED
    BY <1>1, <1>2, <1>3 DEF Answered

\* The answer of a call arrives and nothing follows.
LEMMA TakenGroup ==
    ASSUME CallsTold, NEW c, NEW kinds, Receive(c, kinds, <<>>)
    PROVE  /\ Taken(Group(c.kind), c)
           /\ \A g : g # Group(c.kind) => Untouched(g)
  <1> DEFINE h == Group(c.kind)
  <1>1. c \in calls /\ c.st = "replied" /\ calls' = calls \ {c}
    BY SendNone DEF Receive
  <1>2. orderly' = orderly \ (IF Overtakes(c, {"sent", "replied"}) THEN {h} ELSE {})
    BY RestoredNone DEF Receive
  <1>3. ASSUME NEW g, g # h PROVE Untouched(g)
    <2>1. InFlight(g)' = InFlight(g)
      BY <1>1, <1>3 DEF InFlight
    <2> QED
      BY <1>2, <2>1 DEF Untouched
  <1>4. InFlight(h)' = InFlight(h) \ {c} /\ c \in InFlight(h)
    BY <1>1 DEF InFlight
  <1>5. ASSUME h \in orderly' PROVE h \in orderly /\ \A e \in InFlight(h) : c.no <= e.no
    <2>1. h \in orderly /\ ~Overtakes(c, {"sent", "replied"})
      BY <1>2, <1>5
    <2>2. \A e \in InFlight(h) : e.no \in Nat /\ c.no \in Nat /\ e.st \in {"sent", "replied"}
      BY <1>1 DEF CallsTold, InFlight, Calls
    <2> QED
      BY <2>1, <2>2 DEF Overtakes
  <1> QED
    BY <1>1, <1>3, <1>4, <1>5 DEF Taken

\* The answer of a call arrives and the next call of its chain is sent.
LEMMA TakenSentGroup ==
    ASSUME CallsTold, NEW c, NEW kinds, NEW a, AskOK(a), Receive(c, kinds, <<a>>),
           Group(a.kind) # Group(c.kind)
    PROVE  /\ Taken(Group(c.kind), c)
           /\ Joined(Group(a.kind), Call(a, issued + 1))
           /\ \A g : g # Group(c.kind) /\ g # Group(a.kind) => Untouched(g)
  <1> DEFINE h == Group(c.kind)
             k == Call(a, issued + 1)
  <1>1. k.no = issued + 1 /\ k.kind = a.kind /\ k.st = "sent"
    BY CallOf
  <1>2. c \in calls /\ c.st = "replied" /\ calls' = (calls \ {c}) \cup {k} /\ issued' = issued + 1
    BY SendOne DEF Receive
  <1> HIDE DEF k
  <1>3. orderly' = Restored(<<a>>) \ (IF Overtakes(c, {"sent", "replied"}) THEN {h} ELSE {})
    BY DEF Receive
  <1>4. \A g : g \in orderly' => g \in orderly \/ (g = Group(a.kind) /\ InFlight(g) = {} /\ a.kind \in Loads)
    BY <1>3, RestoredOne DEF Loads
  <1>5. issued \in Nat /\ \A d \in calls : d.no \in 1 .. issued
    BY DEF CallsTold
  <1>6. ASSUME NEW g, g # h, g # Group(a.kind) PROVE Untouched(g)
    <2>1. InFlight(g)' = InFlight(g)
      BY <1>1, <1>2, <1>6 DEF InFlight
    <2> QED
      BY <1>4, <1>6, <2>1 DEF Untouched
  <1>7. Joined(Group(a.kind), k)
    <2>1. InFlight(Group(a.kind))' = InFlight(Group(a.kind)) \cup {k}
      BY <1>1, <1>2 DEF InFlight
    <2>2. \A d \in InFlight(Group(a.kind)) : d.no < k.no
      BY <1>1, <1>5 DEF InFlight
    <2> QED
      BY <1>1, <1>4, <1>5, <2>1, <2>2 DEF Joined
  <1>8. InFlight(h)' = InFlight(h) \ {c} /\ c \in InFlight(h)
    BY <1>1, <1>2 DEF InFlight
  <1>9. ASSUME h \in orderly' PROVE h \in orderly /\ \A e \in InFlight(h) : c.no <= e.no
    <2>1. h \in orderly /\ ~Overtakes(c, {"sent", "replied"})
      BY <1>3, <1>4, <1>9
    <2>2. \A e \in InFlight(h) : e.no \in Nat /\ c.no \in Nat /\ e.st \in {"sent", "replied"}
      BY <1>2 DEF CallsTold, InFlight, Calls
    <2> QED
      BY <2>1, <2>2 DEF Overtakes
  <1> QED
    BY <1>2, <1>6, <1>7, <1>8, <1>9 DEF Taken, k

\* Calls of a group are calls, told apart by their numbers.
LEMMA Numbered ==
    ASSUME CallsTold, NEW g
    PROVE  /\ InFlight(g) \subseteq Calls
           /\ \A c, d \in InFlight(g) : c.no \in Nat /\ c.no >= 1 /\ (c.no = d.no => c = d)
           /\ \A c \in InFlight(g) : c \in calls /\ Group(c.kind) = g
           /\ \A c \in InFlight(g) : c.st \in {"sent", "replied"} /\ (c.st = "replied" => c.st # "sent")
  BY DEF CallsTold, InFlight, Calls

-----------------------------------------------------------------------------
(* Order *)

\* The server stays ahead of the browser in a group: a new call is the last,
\* the oldest that waits is handled, the oldest is taken.
LEMMA OrderJoined ==
    ASSUME CallsTold, NEW g, NEW k, Joined(g, k), g \in orderly', g \in orderly => InOrder(g)
    PROVE  InOrder(g)'
  <1>1. CASE g \in orderly
    BY <1>1, Numbered DEF Joined, InOrder
  <1>2. CASE InFlight(g) = {}
    BY <1>2 DEF Joined, InOrder
  <1> QED
    BY <1>1, <1>2 DEF Joined

LEMMA OrderAnswered ==
    ASSUME CallsTold, NEW g, NEW c, NEW d, Answered(g, c, d), d.no = c.no, g \in orderly', InOrder(g)
    PROVE  /\ d.st = "replied" => InOrder(g)'
           /\ \A e \in InFlight(g) : e.st = "replied" => e.no < c.no
  <1>1. \A e \in InFlight(g) : e.st = "replied" => e.no < c.no
    BY DEF Answered, InOrder
  <1>2. \A e \in InFlight(g) : e.st = "sent" /\ e # c => c.no < e.no
    BY Numbered DEF Answered
  <1>3. ASSUME d.st = "replied" PROVE InOrder(g)'
    BY <1>2, <1>3 DEF InOrder, Answered
  <1> QED
    BY <1>1, <1>3

LEMMA OrderTaken ==
    ASSUME NEW g, NEW c, Taken(g, c), InOrder(g)
    PROVE  InOrder(g)'
  BY DEF Taken, InOrder

-----------------------------------------------------------------------------
(* The peers of a user *)

LEMMA ViewedKept ==
    ASSUME ViewedPending, Untouched("userPeers"), userPeers' = userPeers, viewed' \in {viewed, None}
    PROVE  ViewedPending'
  BY DEF ViewedPending, Untouched

LEMMA ViewedSent ==
    ASSUME CallsTold, ViewedPending, NEW k, Joined("userPeers", k), viewed' = k.of
    PROVE  ViewedPending'
  <1>1. \A c \in InFlight("userPeers") : ~(k.no <= c.no)
    BY Numbered DEF Joined
  <1> QED
    BY <1>1 DEF ViewedPending, Joined

LEMMA ViewedAnswered ==
    ASSUME CallsTold, ViewedPending, NEW c, NEW d, Answered("userPeers", c, d),
           d.no = c.no, d.of = c.of, d.ok, UNCHANGED <<userPeers, viewed>>
    PROVE  ViewedPending'
  <1> SUFFICES ASSUME "userPeers" \in orderly' PROVE ViewedPending'
    BY DEF ViewedPending
  <1>1. /\ "userPeers" \in orderly /\ c \in InFlight("userPeers")
        /\ InFlight("userPeers")' = (InFlight("userPeers") \ {c}) \cup {d}
    BY DEF Answered
  <1>2. ASSUME NEW e \in InFlight("userPeers")', viewed' # None, \A f \in InFlight("userPeers")' : f.no <= e.no
        PROVE  e.of = viewed'
    <2>1. CASE e = d
      <3>1. \A f \in InFlight("userPeers") : f.no <= c.no
        BY <1>1, <1>2, <2>1, Numbered
      <3> QED
        BY <1>1, <1>2, <2>1, <3>1 DEF ViewedPending
    <2>2. CASE e # d
      <3>1. e \in InFlight("userPeers") /\ \A f \in InFlight("userPeers") : f.no <= e.no
        BY <1>1, <1>2, <2>2
      <3> QED
        BY <1>1, <1>2, <3>1 DEF ViewedPending
    <2> QED
      BY <2>1, <2>2
  <1> QED
    BY <1>1, <1>2 DEF ViewedPending

LEMMA ViewedTaken ==
    ASSUME CallsTold, ViewedPending, NEW c, Taken("userPeers", c),
           userPeers' = IF c.ok THEN c.of ELSE None, viewed' = viewed
    PROVE  ViewedPending'
  <1> SUFFICES ASSUME "userPeers" \in orderly' PROVE ViewedPending'
    BY DEF ViewedPending
  <1>1. /\ "userPeers" \in orderly /\ c \in InFlight("userPeers") /\ c.st = "replied"
        /\ InFlight("userPeers")' = InFlight("userPeers") \ {c}
        /\ \A e \in InFlight("userPeers") : c.no <= e.no
    BY DEF Taken
  <1>2. ASSUME viewed' # None, InFlight("userPeers")' = {} PROVE userPeers' = viewed'
    <2>1. \A f \in InFlight("userPeers") : f = c
      BY <1>1, <1>2
    <2>2. c.no <= c.no
      BY <1>1
    <2> QED
      BY <1>1, <1>2, <2>1, <2>2 DEF ViewedPending
  <1>3. ASSUME NEW e \in InFlight("userPeers")', viewed' # None, \A f \in InFlight("userPeers")' : f.no <= e.no
        PROVE  e.of = viewed'
    BY <1>1, <1>3 DEF ViewedPending
  <1> QED
    BY <1>1, <1>2, <1>3 DEF ViewedPending

-----------------------------------------------------------------------------
(* The API token *)

LEMMA ApiKept ==
    ASSUME ApiPending, Untouched("api"), UNCHANGED <<api, srvApi>>
    PROVE  ApiPending'
  <1>1. InOrder("api") => InOrder("api")'
    BY DEF InOrder, Untouched
  <1> QED
    BY <1>1 DEF ApiPending, Untouched

LEMMA ApiSent ==
    ASSUME CallsTold, ApiPending, NEW k, Joined("api", k), UNCHANGED <<api, srvApi>>
    PROVE  ApiPending'
  <1> SUFFICES ASSUME "api" \in orderly' PROVE ApiPending'
    BY DEF ApiPending
  <1>1. InOrder("api")'
    BY OrderJoined DEF ApiPending
  <1>2. InFlight("api")' = InFlight("api") \cup {k} /\ k.st = "sent"
    BY DEF Joined
  <1>3. CASE "api" \in orderly
    BY <1>1, <1>2, <1>3 DEF ApiPending
  <1>4. CASE InFlight("api") = {}
    BY <1>1, <1>2, <1>4 DEF ApiPending
  <1> QED
    BY <1>3, <1>4 DEF Joined

LEMMA ApiAnswered ==
    ASSUME CallsTold, ApiPending, NEW c, NEW d, Answered("api", c, d),
           d.no = c.no, d.st = "replied", d.ok, d.num = srvApi', api' = api
    PROVE  ApiPending'
  <1> SUFFICES ASSUME "api" \in orderly' PROVE ApiPending'
    BY DEF ApiPending
  <1>1. /\ "api" \in orderly /\ c \in InFlight("api") /\ InOrder("api")
        /\ InFlight("api")' = (InFlight("api") \ {c}) \cup {d}
    BY DEF Answered, ApiPending
  <1>2. InOrder("api")' /\ \A e \in InFlight("api") : e.st = "replied" => e.no < c.no
    BY <1>1, OrderAnswered
  <1>3. ASSUME NEW e \in InFlight("api")', e.st = "replied"
        PROVE  /\ e.ok
               /\ (\A f \in InFlight("api")' : f.st = "replied" => f.no <= e.no) => e.num = srvApi'
    <2>1. CASE e = d
      BY <2>1
    <2>2. CASE e \in InFlight("api")
      <3>1. e.no < c.no /\ e.ok /\ e.no \in Nat /\ c.no \in Nat
        BY <1>1, <1>2, <1>3, <2>2, Numbered DEF ApiPending
      <3> QED
        BY <1>1, <3>1
    <2> QED
      BY <1>1, <2>1, <2>2
  <1> QED
    BY <1>1, <1>2, <1>3 DEF ApiPending

LEMMA ApiTaken ==
    ASSUME CallsTold, ApiPending, NEW c, Taken("api", c), api' = setUser(c), srvApi' = srvApi
    PROVE  ApiPending'
  <1> SUFFICES ASSUME "api" \in orderly' PROVE ApiPending'
    BY DEF ApiPending
  <1>1. /\ "api" \in orderly /\ c \in InFlight("api") /\ InOrder("api") /\ c.st = "replied"
        /\ InFlight("api")' = InFlight("api") \ {c}
        /\ \A e \in InFlight("api") : c.no <= e.no
    BY DEF Taken, ApiPending
  <1>2. InOrder("api")'
    BY <1>1, OrderTaken
  <1>3. ASSUME InFlight("api")' = {} PROVE api' = srvApi'
    <2>1. \A f \in InFlight("api") : f.no <= c.no
      BY <1>1, <1>3
    <2> QED
      BY <1>1, <2>1 DEF ApiPending, setUser
  <1>4. ASSUME NEW e \in InFlight("api")', e.st = "replied"
        PROVE  /\ e.ok
               /\ (\A f \in InFlight("api")' : f.st = "replied" => f.no <= e.no) => e.num = srvApi'
    <2>1. e \in InFlight("api") /\ e.ok
      BY <1>1, <1>4 DEF ApiPending
    <2>2. ASSUME \A f \in InFlight("api")' : f.st = "replied" => f.no <= e.no PROVE e.num = srvApi'
      <3>1. \A f \in InFlight("api") : f.st = "replied" => f.no <= e.no
        BY <1>1, <2>1, <2>2
      <3> QED
        BY <1>1, <1>4, <2>1, <3>1 DEF ApiPending
    <2> QED
      BY <2>1, <2>2
  <1> QED
    BY <1>1, <1>2, <1>3, <1>4 DEF ApiPending

-----------------------------------------------------------------------------
(* The passkeys *)

LEMMA CredsKept ==
    ASSUME CredsPending, Untouched("creds"), UNCHANGED <<creds, credList, srvCreds>>
    PROVE  CredsPending'
  <1>1. InOrder("creds") => InOrder("creds")'
    BY DEF InOrder, Untouched
  <1>2. NewLists' = NewLists /\ (Reloading("creds", "creds") => Reloading("creds", "creds")')
    BY DEF NewLists, Reloading, Untouched
  <1> QED
    BY <1>1, <1>2 DEF CredsPending, Untouched

LEMMA CredsSent ==
    ASSUME CallsTold, CredsPending, NEW k, Joined("creds", k), k \in Calls, Group(k.kind) = "creds",
           UNCHANGED <<creds, credList, srvCreds>>
    PROVE  CredsPending'
  <1> SUFFICES ASSUME "creds" \in orderly' PROVE CredsPending'
    BY DEF CredsPending
  <1>1. InOrder("creds")'
    BY OrderJoined DEF CredsPending
  <1>2. InFlight("creds")' = InFlight("creds") \cup {k} /\ k.st = "sent"
    BY DEF Joined
  <1>3. NewLists' = NewLists
    BY <1>2 DEF NewLists
  <1>4. CASE "creds" \in orderly
    <2>1. Reloading("creds", "creds") => Reloading("creds", "creds")'
      BY <1>2, Numbered DEF Reloading, Joined
    <2> QED
      BY <1>1, <1>2, <1>3, <1>4, <2>1 DEF CredsPending
  <1>5. CASE InFlight("creds") = {} /\ k.kind \in Loads
    <2>1. k.kind = "creds" /\ k.no <= k.no
      BY <1>5, GroupKinds DEF Loads, Calls, Saves
    <2>2. Reloading("creds", "creds")' /\ NewLists' = {}
      BY <1>2, <1>5, <2>1 DEF Reloading, NewLists
    <2> QED
      BY <1>1, <1>2, <1>5, <2>2 DEF CredsPending
  <1> QED
    BY <1>4, <1>5 DEF Joined

\* The answers before this one are older, and the list of the oldest load stays.
LEMMA CredsAnswered ==
    ASSUME CallsTold, CredsPending, RenamedListed, NEW c, NEW d, Answered("creds", c, d),
           d.no = c.no, d.kind = c.kind, d.of = c.of, d.list = c.list, d.st = "replied",
           UNCHANGED <<creds, credList>>,
           \/ d.ok /\ c.kind \notin {"regStart", "prompt"} /\ d.creds = srvCreds'
           \/ d.ok /\ c.kind = "regStart" /\ srvCreds' = srvCreds
           \/ ~d.ok /\ c.kind \in {"rename", "delCred"} /\ srvCreds[c.of] = 0 /\ srvCreds' = srvCreds
    PROVE  CredsPending'
  <1> SUFFICES ASSUME "creds" \in orderly' PROVE CredsPending'
    BY DEF CredsPending
  <1>1. /\ "creds" \in orderly /\ c \in InFlight("creds") /\ InOrder("creds") /\ c.st = "sent"
        /\ InFlight("creds")' = (InFlight("creds") \ {c}) \cup {d}
        /\ \A e \in InFlight("creds") : e.st = "sent" => c.no <= e.no
    BY DEF Answered, CredsPending
  <1>2. InOrder("creds")' /\ \A e \in InFlight("creds") : e.st = "replied" => e.no < c.no
    BY <1>1, OrderAnswered
  <1>3. c \notin NewLists /\ NewLists' = NewLists \cup (IF d.ok /\ d.kind \notin {"regStart", "prompt"} THEN {d} ELSE {})
    BY <1>1 DEF NewLists
  <1>4. Reloading("creds", "creds") => Reloading("creds", "creds")'
    BY <1>1 DEF Reloading
  <1>5. \A e \in NewLists : e.no < c.no /\ e.no \in Nat /\ c.no \in Nat
    BY <1>1, <1>2, Numbered DEF NewLists
  <1>6. ASSUME NEW e \in InFlight("creds")', e # d, e.st = "replied", ~e.ok
        PROVE  /\ e.kind \in {"rename", "delCred"}
               /\ e.kind = "rename" /\ e.list = credList' => \E f \in NewLists' : f.no < e.no
    BY <1>1, <1>3, <1>6 DEF CredsPending
  <1>7. CASE d.ok /\ c.kind \notin {"regStart", "prompt"} /\ d.creds = srvCreds'
    <2>1. ASSUME NEW e \in NewLists', \A f \in NewLists' : f.no <= e.no PROVE e.creds = srvCreds'
      BY <1>3, <1>5, <1>7, <2>1
    <2>2. d \in NewLists'
      BY <1>3, <1>7
    <2> QED
      BY <1>2, <1>6, <1>7, <2>1, <2>2 DEF CredsPending
  <1>8. CASE d.ok /\ c.kind = "regStart" /\ srvCreds' = srvCreds
    BY <1>1, <1>2, <1>3, <1>4, <1>6, <1>8 DEF CredsPending
  <1>9. CASE ~d.ok /\ c.kind \in {"rename", "delCred"} /\ srvCreds[c.of] = 0 /\ srvCreds' = srvCreds
    <2>1. NewLists' = NewLists
      BY <1>3, <1>9
    <2>2. ASSUME c.kind = "rename", c.list = credList, NewLists = {} PROVE FALSE
      <3>1. creds[c.of] # 0
        BY <1>1, <2>2 DEF RenamedListed, InFlight
      <3>2. creds # srvCreds
        BY <1>9, <3>1
      <3>3. PICK l \in InFlight("creds") : l.kind = "creds" /\ \A e \in InFlight("creds") : l.no <= e.no
        BY <1>1, <2>2, <3>2 DEF CredsPending, Reloading
      <3>4. CASE l.st = "sent"
        <4>1. l.no = c.no
          BY <1>1, <3>3, <3>4, Numbered
        <4> QED
          BY <1>1, <2>2, <3>3, <4>1, Numbered
      <3>5. CASE l.st = "replied"
        BY <1>1, <2>2, <3>3, <3>5 DEF CredsPending, NewLists
      <3> QED
        BY <3>3, <3>4, <3>5, Numbered
    <2>3. c.kind = "rename" /\ c.list = credList => \E f \in NewLists : f.no < c.no
      BY <1>5, <2>2
    <2> QED
      BY <1>1, <1>2, <1>4, <1>6, <1>9, <2>1, <2>3 DEF CredsPending
  <1> QED
    BY <1>7, <1>8, <1>9

\* A call goes that brings no list: a failed one, or a step of a registration.
LEMMA CredsDropped ==
    ASSUME CallsTold, CredsPending, NEW c \in InFlight("creds"), c.kind # "creds",
           \/ InFlight("creds")' = InFlight("creds") \ {c}
           \/ \E k : /\ InFlight("creds")' = (InFlight("creds") \ {c}) \cup {k}
                     /\ k.st = "sent" /\ k.no \in Nat /\ \A e \in InFlight("creds") : e.no < k.no,
           "creds" \in orderly' => "creds" \in orderly /\ c \notin NewLists,
           UNCHANGED <<creds, credList, srvCreds>>
    PROVE  CredsPending'
  <1> SUFFICES ASSUME "creds" \in orderly' PROVE CredsPending'
    BY DEF CredsPending
  <1> DEFINE Joins(K) ==
        /\ InFlight("creds")' = (InFlight("creds") \ {c}) \cup K
        /\ \A k \in K : k.st = "sent" /\ k.no \in Nat /\ \A e \in InFlight("creds") : e.no < k.no
  <1> PICK K : Joins(K)
    <2>1. CASE InFlight("creds")' = InFlight("creds") \ {c}
      <3>1. Joins({})
        BY <2>1
      <3> HIDE DEF Joins
      <3> QED
        BY <3>1
    <2>2. ASSUME NEW k, InFlight("creds")' = (InFlight("creds") \ {c}) \cup {k},
                 k.st = "sent" /\ k.no \in Nat /\ \A e \in InFlight("creds") : e.no < k.no
          PROVE  \E K : Joins(K)
      <3>1. Joins({k})
        BY <2>2
      <3> HIDE DEF Joins
      <3> QED
        BY <3>1
    <2> QED
      BY <2>1, <2>2
  <1>1. "creds" \in orderly /\ InOrder("creds")
    BY DEF CredsPending
  <1>2. InOrder("creds")'
    BY <1>1, Numbered DEF InOrder
  <1>3. NewLists' = NewLists
    BY DEF NewLists
  <1>4. Reloading("creds", "creds") => Reloading("creds", "creds")'
    BY Numbered DEF Reloading
  <1>5. ASSUME NEW e \in InFlight("creds")', e.st = "replied", ~e.ok
        PROVE  /\ e.kind \in {"rename", "delCred"}
               /\ e.kind = "rename" /\ e.list = credList' => \E f \in NewLists' : f.no < e.no
    BY <1>1, <1>3, <1>5 DEF CredsPending
  <1> QED
    BY <1>1, <1>2, <1>3, <1>4, <1>5 DEF CredsPending

LEMMA CredsTaken ==
    ASSUME CallsTold, CredsPending, NEW c, Taken("creds", c), srvCreds' = srvCreds,
           c.kind \in {"creds", "rename", "delCred", "regFinish"}, creds' = setWebAuthnCredentials(c),
           credList' = IF c.ok \/ c.kind = "creds" THEN c.no ELSE credList
    PROVE  CredsPending'
  <1> SUFFICES ASSUME "creds" \in orderly' PROVE CredsPending'
    BY DEF CredsPending
  <1>1. /\ "creds" \in orderly /\ c \in InFlight("creds") /\ InOrder("creds") /\ c.st = "replied"
        /\ InFlight("creds")' = InFlight("creds") \ {c}
        /\ \A e \in InFlight("creds") : c.no <= e.no
    BY DEF Taken, CredsPending
  <1>2. InOrder("creds")'
    BY <1>1, OrderTaken
  <1>3. CASE c.ok
    <2>1. creds' = c.creds /\ credList' = c.no
      <3>1. c.ok \/ c.kind = "creds"
        BY <1>3
      <3>2. setWebAuthnCredentials(c) = c.creds
        BY <3>1, Zenon DEF setWebAuthnCredentials
      <3> QED
        BY <3>1, <3>2
    <2>2. c \in NewLists /\ NewLists' = NewLists \ {c}
      BY <1>1, <1>3 DEF NewLists
    <2>3. \A e \in InFlight("creds") : e.list # c.no /\ e.no \in Nat /\ c.no \in Nat
      BY <1>1 DEF CallsTold, InFlight
    <2>4. ASSUME NewLists' = {} PROVE creds' = srvCreds'
      BY <1>1, <2>1, <2>2, <2>3, <2>4 DEF CredsPending
    <2>5. ASSUME NEW e \in NewLists', \A f \in NewLists' : f.no <= e.no PROVE e.creds = srvCreds'
      <3>1. e \in NewLists /\ c.no <= e.no
        BY <1>1, <2>2 DEF NewLists
      <3>2. \A f \in NewLists : f.no <= e.no
        BY <2>2, <2>5, <3>1
      <3> QED
        BY <1>1, <3>1, <3>2 DEF CredsPending
    <2> QED
      BY <1>1, <1>2, <2>1, <2>3, <2>4, <2>5 DEF CredsPending
  <1>4. CASE ~c.ok
    <2>1. c.kind \in {"rename", "delCred"}
      BY <1>1, <1>4 DEF CredsPending
    <2>2. ~(c.kind = "rename" /\ c.list = credList)
      <3>1. ASSUME NEW d \in NewLists, d.no < c.no PROVE FALSE
        BY <1>1, <3>1, Numbered DEF NewLists
      <3> QED
        BY <1>1, <1>4, <3>1 DEF CredsPending
    <2>3. creds' = creds /\ credList' = credList
      BY <1>4, <2>1, <2>2 DEF setWebAuthnCredentials
    <2>4. c \notin NewLists
      BY <1>4 DEF NewLists
    <2>5. c.kind # "creds" /\ UNCHANGED <<creds, credList, srvCreds>>
      BY <2>1, <2>3
    <2>6. "creds" \in orderly' => "creds" \in orderly /\ c \notin NewLists
      BY <1>1, <2>4
    <2> QED
      BY <1>1, <2>5, <2>6, CredsDropped
  <1> QED
    BY <1>3, <1>4

\* The rows that are being renamed: calls keep what they are about.
LEMMA RenamedKept ==
    ASSUME RenamedListed, UNCHANGED <<creds, credList>>,
           \A d \in calls' : d.kind = "rename" =>
              \/ \E c \in calls : c.kind = d.kind /\ c.of = d.of /\ c.list = d.list
              \/ creds[d.of] # 0
    PROVE  RenamedListed'
  BY DEF RenamedListed

LEMMA RenamedTaken ==
    ASSUME CallsTold, RenamedListed, NEW c \in calls, calls' \subseteq calls,
           c.kind \in {"creds", "rename", "delCred", "regFinish"}, creds' = setWebAuthnCredentials(c),
           credList' = IF c.ok \/ c.kind = "creds" THEN c.no ELSE credList
    PROVE  RenamedListed' /\ creds' \in [Creds -> Nat]
  <1>1. c.creds \in [Creds -> Nat] /\ c.no \in Nat \ {0} /\ creds \in [Creds -> Nat]
    BY DEF CallsTold, Calls
  <1>2. \A d \in calls : d.list # c.no
    BY DEF CallsTold
  <1>3. CASE c.ok \/ c.kind = "creds"
    BY <1>1, <1>2, <1>3 DEF RenamedListed, setWebAuthnCredentials
  <1>4. CASE ~(c.ok \/ c.kind = "creds") /\ c.kind = "rename" /\ c.list = credList
    <2>1. creds' = [creds EXCEPT ![c.of] = c.no] /\ credList' = credList
      BY <1>4 DEF setWebAuthnCredentials
    <2>2. \A k \in Creds : creds[k] # 0 => creds'[k] # 0
      BY <1>1, <2>1
    <2>3. \A d \in calls : d.kind = "rename" => d.of \in Creds
      BY DEF CallsTold
    <2> QED
      BY <1>1, <2>1, <2>2, <2>3 DEF RenamedListed
  <1>5. CASE ~(c.ok \/ c.kind = "creds") /\ ~(c.kind = "rename" /\ c.list = credList)
    BY <1>1, <1>5 DEF RenamedListed, setWebAuthnCredentials
  <1> QED
    BY <1>3, <1>4, <1>5

-----------------------------------------------------------------------------
(* Lists of users *)

\* The k-th number of a set of positions: each of them comes once.
LEMMA NthPosition ==
    ASSUME NEW L \in Nat, NEW S \in SUBSET (1 .. L)
    PROVE  /\ Cardinality(S) \in Nat
           /\ \A k \in 1 .. Cardinality(S) : Nth(S, k) \in S
           /\ \A j, k \in 1 .. Cardinality(S) : Nth(S, j) = Nth(S, k) => j = k
           /\ \A n \in S : \E k \in 1 .. Cardinality(S) : Nth(S, k) = n
  <1> DEFINE upto(n) == {m \in S : m <= n}
             N == Cardinality(S)
             f == [n \in S |-> Cardinality(upto(n))]
  <1>1. IsFiniteSet(1 .. L)
    BY FS_Interval
  <1>2. IsFiniteSet(S)
    BY <1>1, FS_Subset
  <1>3. N \in Nat
    BY <1>2, FS_CardinalityType
  <1>4. ASSUME NEW n \in S PROVE IsFiniteSet(upto(n)) /\ Cardinality(upto(n)) \in 1 .. N
    <2>1. upto(n) \in SUBSET S /\ n \in upto(n)
      OBVIOUS
    <2>2. IsFiniteSet(upto(n)) /\ Cardinality(upto(n)) <= N
      BY <1>2, <2>1, FS_Subset
    <2>3. Cardinality(upto(n)) \in Nat /\ Cardinality(upto(n)) # 0
      BY <2>1, <2>2, FS_CardinalityType, FS_EmptySet
    <2> QED
      BY <1>3, <2>2, <2>3
  <1>5. ASSUME NEW n \in S, NEW m \in S, m < n PROVE Cardinality(upto(m)) # Cardinality(upto(n))
    <2>1. S \subseteq Nat /\ n <= n /\ ~(n <= m)
      BY <1>5
    <2>2. \A k \in S : k <= m => k <= n
      BY <1>5, <2>1
    <2>3. upto(m) \in SUBSET upto(n) /\ n \in upto(n) /\ n \notin upto(m)
      BY <2>1, <2>2, Zenon
    <2> QED
      BY <1>4, <2>3, FS_Subset
  <1>6. \A n, m \in S : Cardinality(upto(m)) = Cardinality(upto(n)) => m = n
    <2> TAKE n, m \in S
    <2>1. n \in Nat /\ m \in Nat
      OBVIOUS
    <2> QED
      BY <1>5, <2>1
  <1>7. f \in Injection(S, 1 .. N)
    <2>1. f \in [S -> 1 .. N]
      BY <1>4
    <2>2. \A m, n \in S : f[m] = f[n] => m = n
      BY <1>6
    <2> QED
      BY <2>1, <2>2 DEF Injection, IsInjective
  <1>8. IsFiniteSet(1 .. N) /\ Cardinality(1 .. N) = N
    BY <1>3, FS_Interval
  <1>9. f \in Surjection(S, 1 .. N)
    BY <1>7, <1>8, FS_Injection
  <1>10. \A k \in 1 .. N : \E n \in S : Cardinality(upto(n)) = k
    BY <1>9 DEF Surjection
  <1>11. ASSUME NEW k \in 1 .. N PROVE Nth(S, k) \in S /\ Cardinality(upto(Nth(S, k))) = k
    <2>1. \E n \in S : Cardinality({m \in S : m <= n}) = k
      BY <1>10
    <2> QED
      BY <2>1 DEF Nth
  <1>12. ASSUME NEW n \in S PROVE \E k \in 1 .. N : Nth(S, k) = n
    BY <1>4, <1>6, <1>11
  <1> HIDE DEF upto
  <1> QED
    BY <1>3, <1>11, <1>12

\* A list of users as stored has a row for each of the server's, and no other.
LEMMA ListsCounted ==
    ASSUME CallsTold, NEW s, Lists(s, srvUsers)
    PROVE  /\ Len(s) = Cardinality(Rows)
           /\ \A r \in Rows : \E n \in DOMAIN s :
                 s[n].id = r.id /\ s[n].ver = r.ver /\ (s[n].counted \/ r.ver > 1)
  <1> DEFINE t == [n \in 1 .. Len(s) |-> [id |-> s[n].id, ver |-> s[n].ver, counted |-> TRUE]]
  <1>1. /\ s \in Seq(UserRow) /\ Len(s) \in Nat /\ DOMAIN s = 1 .. Len(s)
        /\ \A n \in DOMAIN s : s[n].id \in Users
    <2>1. s \in Seq(UserRow)
      BY DEF Lists
    <2>2. Len(s) \in Nat /\ DOMAIN s = 1 .. Len(s) /\ \A n \in DOMAIN s : s[n] \in UserRow
      BY <2>1
    <2>3. \A r \in UserRow : r.id \in Users
      BY DEF UserRow
    <2> QED
      BY <2>1, <2>2, <2>3
  <1>2. \A n \in 1 .. Len(s) :
           /\ t[n] = [id |-> s[n].id, ver |-> srvUsers[s[n].id], counted |-> TRUE]
           /\ s[n].ver = srvUsers[s[n].id] /\ srvUsers[s[n].id] # 0 /\ s[n].id \in Users
    BY <1>1 DEF Lists
  <1>3. t \in [1 .. Len(s) -> Rows]
    <2>1. \A n \in 1 .. Len(s) : [id |-> s[n].id, ver |-> s[n].ver, counted |-> TRUE] \in Rows
      BY <1>2 DEF Rows
    <2> QED
      BY <2>1
  <1>9. \A n \in 1 .. Len(s) : t[n].id = s[n].id /\ t[n].ver = s[n].ver
    OBVIOUS
  <1> HIDE DEF t
  <1>4. t \in Surjection(1 .. Len(s), Rows)
    <2>1. ASSUME NEW u \in Users, srvUsers[u] # 0
          PROVE  \E n \in 1 .. Len(s) : t[n] = [id |-> u, ver |-> srvUsers[u], counted |-> TRUE]
      <3>1. PICK n \in 1 .. Len(s) : s[n].id = u
        BY <1>1, <2>1 DEF Lists
      <3> QED
        BY <1>2, <3>1
    <2>2. \A r \in Rows : \E n \in 1 .. Len(s) : t[n] = r
      BY <2>1 DEF Rows
    <2> QED
      BY <1>3, <2>2 DEF Surjection
  <1>5. t \in Injection(1 .. Len(s), Rows)
    <2>1. \A m, n \in 1 .. Len(s) : t[m] = t[n] => s[m].id = s[n].id
      BY <1>9
    <2>2. \A m, n \in 1 .. Len(s) : t[m] = t[n] => m = n
      BY <1>1, <2>1 DEF Lists
    <2> QED
      BY <1>3, <2>2 DEF Injection, IsInjective
  <1>6. IsFiniteSet(1 .. Len(s)) /\ Cardinality(1 .. Len(s)) = Len(s)
    <2>1. ASSUME NEW L \in Nat PROVE IsFiniteSet(1 .. L) /\ Cardinality(1 .. L) = L
      BY FS_Interval
    <2> QED
      BY <1>1, <2>1
  <1>7. Cardinality(Rows) = Len(s)
    BY <1>4, <1>5, <1>6, FS_Surjection
  <1>8. ASSUME NEW r \in Rows
        PROVE  \E n \in DOMAIN s : s[n].id = r.id /\ s[n].ver = r.ver /\ (s[n].counted \/ r.ver > 1)
    <2>1. PICK n \in 1 .. Len(s) : t[n] = r
      BY <1>4 DEF Surjection
    <2>2. s[n].id = r.id /\ s[n].ver = r.ver /\ n \in DOMAIN s
      BY <1>1, <1>9, <2>1
    <2> QED
      BY <2>2 DEF Lists
  <1> QED
    BY <1>7, <1>8

\* The answer of the server to LoadUsers.
LEMMA OrderLists ==
    ASSUME CallsTold
    PROVE  Lists(Order(Rows), srvUsers) /\ Order(Rows) \in Seq(UserRow)
  <1> DEFINE S == {v \in Users : srvUsers[v] # 0}
             f == [u \in S |-> [id |-> u, ver |-> srvUsers[u], counted |-> TRUE]]
             N == Cardinality(Rows)
             s == Order(Rows)
  <1>1. IsFiniteSet(S)
    BY FS_Subset, UsersAssumption
  <1>2. f \in Surjection(S, Rows)
    BY DEF Rows, Surjection
  <1>3. IsFiniteSet(Rows)
    BY <1>1, <1>2, FS_Surjection
  <1>4. N \in Nat /\ ExistsBijection(1 .. N, Rows)
    BY <1>3, FS_CardinalityType
  <1>5. \E t \in [1 .. N -> Rows] : Rng(t) = Rows
    <2>1. PICK t : t \in Bijection(1 .. N, Rows)
      BY <1>4 DEF ExistsBijection
    <2>2. t \in [1 .. N -> Rows] /\ \A r \in Rows : \E n \in 1 .. N : t[n] = r
      BY <2>1 DEF Bijection, Surjection
    <2>3. Rng(t) = Rows
      BY <2>2 DEF Rng
    <2> QED
      BY <2>2, <2>3
  <1>6. s \in [1 .. N -> Rows] /\ Rng(s) = Rows
    BY <1>5 DEF Order
  <1> HIDE DEF s
  <1>7. s \in Surjection(1 .. N, Rows)
    BY <1>6 DEF Surjection, Rng
  <1>8. IsFiniteSet(1 .. N) /\ Cardinality(1 .. N) = N
    BY <1>4, FS_Interval
  <1>9. \A m, n \in 1 .. N : s[m] = s[n] => m = n
    <2>1. s \in Injection(1 .. N, Rows)
      BY <1>7, <1>8, FS_Surjection
    <2>2. DOMAIN s = 1 .. N
      BY <1>6
    <2> QED
      BY <2>1, <2>2 DEF Injection, IsInjective
  <1>10. \A n \in 1 .. N : s[n].id \in Users /\ s[n].ver = srvUsers[s[n].id] /\ s[n].ver # 0 /\ s[n] \in UserRow
                           /\ s[n] = [id |-> s[n].id, ver |-> s[n].ver, counted |-> TRUE] /\ s[n].counted
    <2> SUFFICES ASSUME NEW n \in 1 .. N
                 PROVE  s[n].id \in Users /\ s[n].ver = srvUsers[s[n].id] /\ s[n].ver # 0 /\ s[n] \in UserRow
                        /\ s[n] = [id |-> s[n].id, ver |-> s[n].ver, counted |-> TRUE] /\ s[n].counted
      OBVIOUS
    <2>1. PICK u \in S : s[n] = [id |-> u, ver |-> srvUsers[u], counted |-> TRUE]
      BY <1>6 DEF Rows
    <2>2. u \in Users /\ srvUsers[u] # 0 /\ srvUsers[u] \in Nat
      BY DEF CallsTold
    <2>3. s[n] \in UserRow
      BY <2>1, <2>2 DEF UserRow
    <2> QED
      BY <2>1, <2>2, <2>3
  <1>11. s \in Seq(UserRow) /\ DOMAIN s = 1 .. N
    BY <1>4, <1>6, <1>10
  <1>12. \A m, n \in DOMAIN s : s[m].id = s[n].id => m = n
    <2>1. ASSUME NEW m \in 1 .. N, NEW n \in 1 .. N, s[m].id = s[n].id PROVE m = n
      <3>1. \A k \in 1 .. N : s[k] = [id |-> s[k].id, ver |-> srvUsers[s[k].id], counted |-> TRUE]
        BY <1>10
      <3>2. s[m] = s[n]
        BY <2>1, <3>1
      <3> QED
        BY <1>9, <3>2
    <2> QED
      BY <1>11, <2>1
  <1>13. ASSUME NEW u \in Users, srvUsers[u] # 0 PROVE \E n \in DOMAIN s : s[n].id = u
    <2>1. [id |-> u, ver |-> srvUsers[u], counted |-> TRUE] \in Rng(s)
      BY <1>6, <1>13 DEF Rows
    <2> QED
      BY <2>1 DEF Rng
  <1> QED
    BY <1>10, <1>11, <1>12, <1>13 DEF Lists, s

Renewed(c) == c.kind # "delUser" => c.num > 1

\* The store's own change of its rows after a save follows the server's.
LEMMA ListsSaved ==
    ASSUME NEW c \in Calls, c.of \in Users, c.kind \in Saves, c.ok, NEW b \in [Users -> Nat], Lists(users, b),
           c.kind = "newUser" <=> b[c.of] = 0, Renewed(c)
    PROVE  Lists(setUsers(c), [b EXCEPT ![c.of] = Saved(c)])
  <1> DEFINE e == [b EXCEPT ![c.of] = Saved(c)]
             row == SavedRow(c)
             N == Len(users)
  <1>1. users \in Seq(UserRow) /\ N \in Nat /\ DOMAIN users = 1 .. N /\ c.num \in Nat
    BY DEF Lists, Calls
  <1>2. \A n \in 1 .. N : users[n] \in UserRow /\ users[n].id \in Users
    <2>1. \A n \in 1 .. N : users[n] \in UserRow
      BY <1>1
    <2> QED
      BY <2>1 DEF UserRow
  <1>3. /\ \A m, n \in 1 .. N : users[m].id = users[n].id => m = n
        /\ \A n \in 1 .. N : b[users[n].id] = users[n].ver /\ users[n].ver # 0 /\ (users[n].counted \/ users[n].ver > 1)
        /\ \A u \in Users : b[u] # 0 => \E n \in 1 .. N : users[n].id = u
    BY <1>1 DEF Lists
  <1>4. e[c.of] = Saved(c) /\ \A u \in Users : u # c.of => e[u] = b[u]
    OBVIOUS
  <1>5. row \in UserRow /\ row.id = c.of /\ row.ver = c.num
    BY <1>1 DEF UserRow, SavedRow
  <1> HIDE DEF e, row
  <1>6. CASE c.kind = "newUser"
    <2> DEFINE s == Append(users, row)
    <2>1. setUsers(c) = s
      BY <1>6 DEF setUsers, Saves, row
    <2>2. s \in Seq(UserRow) /\ Len(s) = N + 1 /\ DOMAIN s = 1 .. N + 1
      BY <1>1, <1>5
    <2>3. s[N + 1] = row /\ \A n \in 1 .. N : s[n] = users[n]
      BY <1>1
    <2> HIDE DEF s
    <2>4. \A n \in 1 .. N : users[n].id # c.of
      BY <1>2, <1>3, <1>6
    <2>5. Saved(c) = c.num /\ c.num > 1 /\ c.num # 0
      BY <1>1, <1>6 DEF Saved, Renewed
    <2>6. \A n \in 1 .. N + 1 : n \in 1 .. N \/ n = N + 1
      BY <1>1
    <2>7. \A m, n \in 1 .. N + 1 : s[m].id = s[n].id => m = n
      BY <1>3, <1>5, <2>3, <2>4, <2>6
    <2>8. \A n \in 1 .. N + 1 : e[s[n].id] = s[n].ver /\ s[n].ver # 0 /\ (s[n].counted \/ s[n].ver > 1)
      BY <1>2, <1>3, <1>4, <1>5, <2>3, <2>4, <2>5, <2>6
    <2>9. \A u \in Users : e[u] # 0 => \E n \in 1 .. N + 1 : s[n].id = u
      <3>1. 1 .. N \subseteq 1 .. N + 1 /\ N + 1 \in 1 .. N + 1
        BY <1>1
      <3> QED
        BY <1>3, <1>4, <1>5, <2>3, <3>1
    <2>10. Lists(s, e)
      BY <2>2, <2>7, <2>8, <2>9, Zenon DEF Lists
    <2> QED
      BY <2>1, <2>10 DEF e
  <1>7. CASE c.kind = "updUser"
    <2> DEFINE s == [n \in DOMAIN users |-> IF users[n].id = c.of THEN row ELSE users[n]]
    <2>1. setUsers(c) = s
      BY <1>7 DEF setUsers, Saves, row
    <2>2. DOMAIN s = 1 .. N /\ \A n \in 1 .. N : s[n] = IF users[n].id = c.of THEN row ELSE users[n]
      BY <1>1
    <2>3. s \in Seq(UserRow)
      BY <1>1, <1>2, <1>5
    <2> HIDE DEF s
    <2>4. \A n \in 1 .. N : s[n].id = users[n].id
      BY <1>5, <2>2
    <2>5. Saved(c) = c.num /\ c.num > 1 /\ c.num # 0
      BY <1>1, <1>7 DEF Saved, Renewed
    <2>6. \A m, n \in 1 .. N : s[m].id = s[n].id => m = n
      BY <1>3, <2>4
    <2>7. \A n \in 1 .. N : e[s[n].id] = s[n].ver /\ s[n].ver # 0 /\ (s[n].counted \/ s[n].ver > 1)
      BY <1>2, <1>3, <1>4, <1>5, <2>2, <2>5
    <2>8. \A u \in Users : e[u] # 0 => \E n \in 1 .. N : s[n].id = u
      BY <1>3, <1>4, <1>7, <2>4
    <2>9. Lists(s, e)
      BY <2>2, <2>3, <2>6, <2>7, <2>8, Zenon DEF Lists
    <2> QED
      BY <2>1, <2>9 DEF e
  <1>8. CASE c.kind = "delUser"
    <2> DEFINE K == {n \in DOMAIN users : users[n].id # c.of}
               s == [k \in 1 .. Cardinality(K) |-> users[Nth(K, k)]]
    <2>1. setUsers(c) = s
      BY <1>8 DEF setUsers, WithoutRow, Saves
    <2>2. K \in SUBSET (1 .. N) /\ \A n \in 1 .. N : n \in K <=> users[n].id # c.of
      BY <1>1
    <2>3. Saved(c) = 0
      BY <1>8 DEF Saved
    <2> HIDE DEF K
    <2>4. /\ Cardinality(K) \in Nat
          /\ \A k \in 1 .. Cardinality(K) : Nth(K, k) \in K
          /\ \A j, k \in 1 .. Cardinality(K) : Nth(K, j) = Nth(K, k) => j = k
          /\ \A n \in K : \E k \in 1 .. Cardinality(K) : Nth(K, k) = n
      <3>1. N \in Nat /\ K \in SUBSET (1 .. N)
        BY <1>1, <2>2
      <3> HIDE DEF N, s
      <3> QED
        BY <3>1, NthPosition, ZenonT(30)
    <2>5. DOMAIN s = 1 .. Cardinality(K) /\ \A k \in 1 .. Cardinality(K) : s[k] = users[Nth(K, k)]
      OBVIOUS
    <2>6. s \in Seq(UserRow)
      <3>1. \A k \in 1 .. Cardinality(K) : users[Nth(K, k)] \in UserRow
        BY <1>2, <2>2, <2>4
      <3> QED
        BY <2>4, <3>1
    <2> HIDE DEF s
    <2>7. \A j, k \in DOMAIN s : s[j].id = s[k].id => j = k
      <3> TAKE j, k \in DOMAIN s
      <3>1. Nth(K, j) \in 1 .. N /\ Nth(K, k) \in 1 .. N /\ s[j] = users[Nth(K, j)] /\ s[k] = users[Nth(K, k)]
        BY <2>2, <2>4, <2>5
      <3> QED
        BY <1>3, <2>4, <2>5, <3>1
    <2>8. \A k \in DOMAIN s : e[s[k].id] = s[k].ver /\ s[k].ver # 0 /\ (s[k].counted \/ s[k].ver > 1)
      <3> TAKE k \in DOMAIN s
      <3> DEFINE n == Nth(K, k)
      <3>1. n \in K /\ n \in 1 .. N /\ users[n].id # c.of /\ s[k] = users[n]
        BY <2>2, <2>4, <2>5
      <3> HIDE DEF n
      <3> QED
        BY <1>2, <1>3, <1>4, <3>1
    <2>9. ASSUME NEW u \in Users, e[u] # 0 PROVE \E k \in DOMAIN s : s[k].id = u
      <3>1. u # c.of /\ b[u] # 0
        BY <1>4, <2>3, <2>9
      <3>2. PICK n \in 1 .. N : users[n].id = u
        BY <1>3, <3>1
      <3>3. n \in K
        BY <2>2, <3>1, <3>2
      <3>4. PICK k \in 1 .. Cardinality(K) : Nth(K, k) = n
        BY <2>4, <3>3
      <3>5. k \in DOMAIN s /\ s[k] = users[n]
        BY <2>5, <3>4
      <3> QED
        BY <3>2, <3>5
    <2>10. Lists(s, e)
      BY <2>6, <2>7, <2>8, <2>9, Zenon DEF Lists
    <2> QED
      BY <2>1, <2>10 DEF e
  <1> QED
    BY <1>6, <1>7, <1>8 DEF Saves, e

-----------------------------------------------------------------------------
(* The users *)

\* No load waits for the server.
Handed == \A c \in InFlight("users") : c.kind = "users" => c.st = "replied"

\* The same answers are pending for u, and the server has the same version.
LEMMA ChainSame ==
    ASSUME NEW u, NEW v, Pending(u)' = Pending(u), srvUsers'[u] = srvUsers[u], Chain(u, v)
    PROVE  Chain(u, v)'
  BY DEF Chain

LEMMA BaseSame ==
    ASSUME NEW b, AnsweredLoads' = AnsweredLoads, AnsweredLoads = {} => users' = users, Base(b)
    PROVE  Base(b)'
  BY DEF Base

\* What is pending is what it is in flight, and what it is about.
LEMMA PendingIn ==
    ASSUME NEW u, NEW c
    PROVE  c \in Pending(u) <=> /\ c \in InFlight("users") /\ c.kind \in Saves /\ c.of = u
                                /\ c.st = "replied" /\ c.ok /\ \A l \in AnsweredLoads : l.no < c.no
  BY DEF Pending

LEMMA UsersKept ==
    ASSUME UsersPending, Untouched("users"), UNCHANGED <<users, srvUsers>>
    PROVE  UsersPending'
  <1> SUFFICES ASSUME "users" \in orderly' PROVE UsersPending'
    BY DEF UsersPending
  <1>1. "users" \in orderly /\ InFlight("users")' = InFlight("users") /\ InOrder("users")
    BY DEF Untouched, UsersPending
  <1>2. InOrder("users")'
    BY <1>1 DEF InOrder
  <1>3. AnsweredLoads' = AnsweredLoads
    BY <1>1 DEF AnsweredLoads
  <1>4. \A u : Pending(u)' = Pending(u)
    BY <1>1, <1>3 DEF Pending
  <1>5. ASSUME Handed' PROVE \E b \in [Users -> Nat] : Base(b)' /\ \A u \in Users : Chain(u, b[u])'
    <2>1. Handed
      BY <1>1, <1>5 DEF Handed
    <2>2. PICK b \in [Users -> Nat] : Base(b) /\ \A u \in Users : Chain(u, b[u])
      BY <1>1, <2>1 DEF UsersPending, Handed
    <2>3. Base(b)'
      BY <1>3, <2>2, BaseSame
    <2>4. \A u \in Users : Chain(u, b[u])'
      BY <1>4, <2>2, ChainSame
    <2> QED
      BY <2>3, <2>4
  <1> QED
    BY <1>2, <1>5 DEF UsersPending, Handed

LEMMA UsersSent ==
    ASSUME CallsTold, UsersPending, NEW k \in Calls, Joined("users", k), Group(k.kind) = "users",
           UNCHANGED <<users, srvUsers>>
    PROVE  UsersPending'
  <1> SUFFICES ASSUME "users" \in orderly' PROVE UsersPending'
    BY DEF UsersPending
  <1>1. InFlight("users")' = InFlight("users") \cup {k} /\ k.st = "sent"
    BY DEF Joined
  <1>2. InOrder("users")'
    BY OrderJoined DEF UsersPending
  <1>3. CASE k.kind = "users"
    <2>1. ~Handed'
      BY <1>1, <1>3 DEF Handed
    <2> QED
      BY <1>2, <2>1 DEF UsersPending, Handed
  <1>4. CASE k.kind # "users"
    <2>1. "users" \in orderly
      BY <1>4, GroupKinds DEF Joined, Loads, Calls, Saves
    <2>2. AnsweredLoads' = AnsweredLoads
      BY <1>1 DEF AnsweredLoads
    <2>3. \A u : Pending(u)' = Pending(u)
      BY <1>1, <2>2 DEF Pending
    <2>4. ASSUME Handed' PROVE \E b \in [Users -> Nat] : Base(b)' /\ \A u \in Users : Chain(u, b[u])'
      <3>1. Handed
        BY <1>1, <2>4 DEF Handed
      <3>2. PICK b \in [Users -> Nat] : Base(b) /\ \A u \in Users : Chain(u, b[u])
        BY <2>1, <3>1 DEF UsersPending, Handed
      <3>3. Base(b)'
        BY <2>2, <3>2, BaseSame
      <3>4. \A u \in Users : Chain(u, b[u])'
        BY <2>3, <3>2, ChainSame
      <3> QED
        BY <3>3, <3>4
    <2> QED
      BY <1>2, <2>4 DEF UsersPending, Handed
  <1> QED
    BY <1>3, <1>4

\* The answer of the last load has the users as they are now.
LEMMA UsersLoadAnswered ==
    ASSUME CallsTold, UsersPending, NEW c, NEW d, Answered("users", c, d), c.kind = "users",
           d.no = c.no, d.kind = c.kind, d.st = "replied", d.rows = Order(Rows), srvUsers' = srvUsers
    PROVE  UsersPending'
  <1> SUFFICES ASSUME "users" \in orderly' PROVE UsersPending'
    BY DEF UsersPending
  <1>1. /\ "users" \in orderly /\ c \in InFlight("users") /\ InOrder("users") /\ c.st = "sent"
        /\ InFlight("users")' = (InFlight("users") \ {c}) \cup {d}
    BY DEF Answered, UsersPending
  <1>2. InOrder("users")' /\ \A e \in InFlight("users") : e.st = "replied" => e.no < c.no
    BY <1>1, OrderAnswered
  <1>3. d \in AnsweredLoads' /\ AnsweredLoads' = AnsweredLoads \cup {d}
    BY <1>1 DEF AnsweredLoads
  <1>4. \A k \in AnsweredLoads' : k.no <= d.no
    <2>1. \A k \in AnsweredLoads : k.no < c.no /\ k.no \in Nat
      BY <1>2, Numbered DEF AnsweredLoads
    <2>2. c.no \in Nat
      BY <1>1, Numbered
    <2> QED
      BY <1>3, <2>1, <2>2
  <1>5. Base(srvUsers)'
    <2>1. Lists(d.rows, srvUsers')
      BY OrderLists
    <2> QED
      BY <1>3, <1>4, <2>1 DEF Base
  <1>6. ASSUME NEW u \in Users PROVE Pending(u)' = {}
    <2>1. ASSUME NEW e \in Pending(u)' PROVE FALSE
      <3>1. e \in InFlight("users")' /\ e.st = "replied" /\ d.no < e.no
        BY <1>3, <2>1 DEF Pending
      <3>2. e = d \/ (e \in InFlight("users") /\ e.no < c.no)
        BY <1>1, <1>2, <3>1
      <3>3. c.no \in Nat /\ (e \in InFlight("users") => e.no \in Nat)
        BY <1>1, Numbered
      <3> QED
        BY <3>1, <3>2, <3>3
    <2> QED
      BY <2>1
  <1>7. \A u \in Users : Chain(u, srvUsers[u])'
    BY <1>6 DEF Chain
  <1>8. srvUsers' \in [Users -> Nat]
    BY DEF CallsTold
  <1>9. \E b \in [Users -> Nat] : Base(b)' /\ \A u \in Users : Chain(u, b[u])'
    BY <1>5, <1>7, <1>8
  <1> QED
    BY <1>2, <1>9 DEF UsersPending

\* A save that the server carries out comes last among the pending ones, and
\* starts from the version they lead to; one that it refuses changes nothing.
LEMMA UsersSaveAnswered ==
    ASSUME CallsTold, UsersPending, NEW c, NEW d, Answered("users", c, d), c.kind \in Saves,
           d.no = c.no, d.kind = c.kind, d.of = c.of, d.st = "replied", users' = users,
           \/ ~d.ok /\ srvUsers' = srvUsers
           \/ /\ d.ok /\ d.num = c.no + 1 /\ ((srvUsers[c.of] = 0) <=> (c.kind = "newUser"))
              /\ srvUsers' = [srvUsers EXCEPT ![c.of] = IF c.kind = "delUser" THEN 0 ELSE c.no + 1]
    PROVE  UsersPending'
  <1> SUFFICES ASSUME "users" \in orderly' PROVE UsersPending'
    BY DEF UsersPending
  <1>1. /\ "users" \in orderly /\ c \in InFlight("users") /\ InOrder("users") /\ c.st = "sent"
        /\ InFlight("users")' = (InFlight("users") \ {c}) \cup {d}
    BY DEF Answered, UsersPending
  <1>2. InOrder("users")' /\ \A e \in InFlight("users") : e.st = "replied" => e.no < c.no
    BY <1>1, OrderAnswered
  <1>3. c.kind # "users" /\ c.no \in Nat /\ c.no # 0 /\ c.of \in Users
    BY <1>1, Numbered DEF Saves, CallsTold
  <1>4. AnsweredLoads' = AnsweredLoads /\ \A l \in AnsweredLoads : l.no < c.no
    BY <1>1, <1>2, <1>3 DEF AnsweredLoads
  <1>5. ASSUME NEW u
        PROVE  Pending(u)' = IF u = c.of /\ d.ok THEN Pending(u) \cup {d} ELSE Pending(u)
    BY <1>1, <1>4 DEF Pending
  <1>6. \A u : \A e \in Pending(u) : e.no < c.no /\ e.no \in Nat
    BY <1>2, Numbered DEF Pending
  <1>7. ASSUME Handed' PROVE \E b \in [Users -> Nat] : Base(b)' /\ \A u \in Users : Chain(u, b[u])'
    <2>1. Handed
      BY <1>1, <1>3, <1>7 DEF Handed
    <2>2. PICK b \in [Users -> Nat] : Base(b) /\ \A u \in Users : Chain(u, b[u])
      BY <1>1, <2>1 DEF UsersPending, Handed
    <2>3. Base(b)'
      BY <1>4, <2>2, BaseSame
    <2>4. ASSUME NEW u \in Users PROVE Chain(u, b[u])'
      <3>1. CASE u # c.of \/ ~d.ok
        <4>1. srvUsers'[u] = srvUsers[u]
          BY <3>1 DEF CallsTold
        <4> QED
          BY <1>5, <2>2, <3>1, <4>1, ChainSame
      <3>2. CASE u = c.of /\ d.ok
        <4> DEFINE v == b[u]
        <4>1. Pending(u)' = Pending(u) \cup {d} /\ d \notin Pending(u)
          BY <1>3, <1>5, <1>6, <3>2
        <4>2. Chain(u, v)
          BY <2>2
        <4> HIDE DEF v
        <4>3. /\ d.num = c.no + 1 /\ ((srvUsers[u] = 0) <=> (d.kind = "newUser"))
              /\ srvUsers'[u] = IF d.kind = "delUser" THEN 0 ELSE d.num
          BY <3>2 DEF CallsTold
        <4>4. \A e \in Pending(u) : e.no < d.no /\ ~(d.no <= e.no)
          BY <1>3, <1>6
        <4>5. d.kind # "delUser" => d.num > 1
          BY <1>3, <4>3
        <4>6. Saved(d) = srvUsers'[u]
          BY <4>3 DEF Saved
        <4>7. (\A e \in Pending(u)' : d.no <= e.no) => (d.kind = "newUser" <=> v = 0)
          BY <4>1, <4>2, <4>3, <4>4 DEF Chain
        <4>8. ASSUME NEW e \in Pending(u)', e # d
              PROVE  /\ e.kind # "delUser" => e.num > 1
                     /\ (\A f \in Pending(u)' : f.no <= e.no) => Saved(e) = srvUsers'[u]
                     /\ (\A f \in Pending(u)' : e.no <= f.no) => (e.kind = "newUser" <=> v = 0)
          BY <4>1, <4>2, <4>4, <4>8 DEF Chain
        <4>9. ASSUME NEW e \in Pending(u)', NEW f \in Pending(u)', e.no < f.no,
                     \A h \in Pending(u)' : h.no <= e.no \/ f.no <= h.no
              PROVE  f.kind = "newUser" <=> Saved(e) = 0
          <5>1. e \in Pending(u)
            BY <1>3, <1>6, <4>1, <4>9
          <5>2. CASE f = d
            <6>1. \A h \in Pending(u) : h.no <= e.no
              BY <4>1, <4>4, <4>9, <5>2
            <6> QED
              BY <4>2, <4>3, <5>1, <5>2, <6>1 DEF Chain
          <5>3. CASE f # d
            BY <4>1, <4>2, <4>9, <5>1, <5>3 DEF Chain
          <5> QED
            BY <5>2, <5>3
        <4>10. Pending(u)' # {}
          BY <4>1
        <4>11. Chain(u, v)'
          BY <4>5, <4>6, <4>7, <4>8, <4>9, <4>10 DEF Chain
        <4> QED
          BY <4>11 DEF v
      <3> QED
        BY <3>1, <3>2
    <2> QED
      BY <2>3, <2>4
  <1> QED
    BY <1>2, <1>7 DEF UsersPending, Handed

\* The oldest answer is taken. A load replaces the list, the oldest pending
\* save leads it one version on.
LEMMA UsersTaken ==
    ASSUME CallsTold, UsersPending, NEW c, Taken("users", c), users' = setUsers(c), srvUsers' = srvUsers,
           c.kind \in Saves \cup {"users"}
    PROVE  UsersPending'
  <1> SUFFICES ASSUME "users" \in orderly' PROVE UsersPending'
    BY DEF UsersPending
  <1>1. /\ "users" \in orderly /\ c \in InFlight("users") /\ InOrder("users") /\ c.st = "replied"
        /\ InFlight("users")' = InFlight("users") \ {c}
        /\ \A e \in InFlight("users") : c.no <= e.no
    BY DEF Taken, UsersPending
  <1>2. InOrder("users")'
    BY <1>1, OrderTaken
  <1>3. c.no \in Nat /\ \A e \in InFlight("users") : e.no \in Nat /\ (e # c => c.no < e.no)
    BY <1>1, Numbered
  <1>4. AnsweredLoads' = AnsweredLoads \ {c} /\ (c.kind # "users" => c \notin AnsweredLoads)
    BY <1>1 DEF AnsweredLoads
  <1>5. AnsweredLoads \subseteq InFlight("users")
    BY DEF AnsweredLoads
  <1>6. ASSUME Handed' PROVE \E b \in [Users -> Nat] : Base(b)' /\ \A u \in Users : Chain(u, b[u])'
    <2>1. Handed
      BY <1>1, <1>6 DEF Handed
    <2>2. PICK b \in [Users -> Nat] : Base(b) /\ \A u \in Users : Chain(u, b[u])
      BY <1>1, <2>1 DEF UsersPending, Handed
    <2>3. CASE c.kind = "users"
      <3>1. c \in AnsweredLoads /\ users' = c.rows
        BY <1>1, <2>3 DEF AnsweredLoads, setUsers, Saves
      <3>2. \A u : Pending(u)' = Pending(u)
        BY <1>1, <1>3, <1>4, <2>3, <3>1 DEF Pending, Saves
      <3>3. Base(b)'
        <4>1. PICK l \in AnsweredLoads : Lists(l.rows, b) /\ \A k \in AnsweredLoads : k.no <= l.no
          BY <2>2, <3>1 DEF Base
        <4>2. CASE l = c
          <5>1. AnsweredLoads' = {}
            BY <1>3, <1>4, <1>5, <4>1, <4>2
          <5> QED
            BY <3>1, <4>1, <4>2, <5>1 DEF Base
        <4>3. CASE l # c
          BY <1>4, <4>1, <4>3 DEF Base
        <4> QED
          BY <4>2, <4>3
      <3>4. \A u \in Users : Chain(u, b[u])'
        BY <2>2, <3>2, ChainSame
      <3> QED
        BY <3>3, <3>4
    <2>4. CASE c.kind # "users" /\ (~c.ok \/ AnsweredLoads # {})
      <3>1. \A u : c \notin Pending(u)
        BY <1>3, <1>5, <2>4, PendingIn
      <3>2. \A u : Pending(u)' = Pending(u)
        BY <1>1, <1>4, <2>4, <3>1 DEF Pending
      <3>3. ~c.ok => users' = users
        BY <2>4 DEF setUsers, Saves
      <3>4. Base(b)'
        BY <1>4, <2>2, <2>4, <3>3, BaseSame
      <3>5. \A u \in Users : Chain(u, b[u])'
        BY <2>2, <3>2, ChainSame
      <3> QED
        BY <3>4, <3>5
    <2>5. CASE c.kind # "users" /\ c.ok /\ AnsweredLoads = {}
      <3> DEFINE a == [b EXCEPT ![c.of] = Saved(c)]
      <3>1. c \in Calls /\ c.of \in Users /\ c.kind \in Saves
        BY <1>1, <2>5, Numbered DEF CallsTold
      <3>2. c \in Pending(c.of)
        BY <1>1, <2>5, <3>1 DEF Pending
      <3>3. \A e \in Pending(c.of) : c.no <= e.no
        BY <1>1 DEF Pending
      <3>4. (c.kind = "newUser" <=> b[c.of] = 0) /\ Renewed(c)
        BY <2>2, <3>1, <3>2, <3>3 DEF Chain, Renewed
      <3>5. Lists(users, b)
        BY <2>2, <2>5 DEF Base
      <3>6. Lists(users', a)
        BY <2>5, <3>1, <3>4, <3>5, ListsSaved
      <3>7. a \in [Users -> Nat]
        BY <3>1 DEF Saved, Calls
      <3>8. Base(a)'
        BY <1>4, <2>5, <3>6 DEF Base
      <3>9. \A u : Pending(u)' = Pending(u) \ {c}
        BY <1>1, <1>4, <2>5 DEF Pending
      <3>10. ASSUME NEW u \in Users PROVE Chain(u, a[u])'
        <4>1. CASE u # c.of
          <5>1. Pending(u)' = Pending(u) /\ a[u] = b[u]
            BY <3>9, <4>1 DEF Pending
          <5>2. Chain(u, b[u])'
            BY <2>2, <5>1, ChainSame
          <5> QED
            BY <5>1, <5>2
        <4>2. CASE u = c.of
          <5> DEFINE v == b[u]
          <5>1. Chain(u, v) /\ a[u] = Saved(c)
            BY <2>2, <4>2
          <5> HIDE DEF v
          <5>2. /\ c \in Pending(u) /\ Pending(u)' = Pending(u) \ {c}
                /\ \A e \in Pending(u) : e.no \in Nat /\ (e # c => c.no < e.no)
            BY <1>3, <3>2, <3>9, <4>2 DEF Pending
          <5>3. Pending(u)' = {} => Saved(c) = srvUsers'[u]
            BY <1>3, <5>1, <5>2 DEF Chain
          <5>4. ASSUME NEW e \in Pending(u)'
                PROVE  /\ e.kind # "delUser" => e.num > 1
                       /\ (\A f \in Pending(u)' : f.no <= e.no) => Saved(e) = srvUsers'[u]
            <6>1. e \in Pending(u) /\ c.no <= e.no
              BY <1>3, <5>2
            <6> QED
              BY <5>1, <5>2, <6>1 DEF Chain
          <5>5. ASSUME NEW e \in Pending(u)', \A f \in Pending(u)' : e.no <= f.no
                PROVE  e.kind = "newUser" <=> Saved(c) = 0
            <6>1. e \in Pending(u) /\ c.no < e.no
              BY <5>2
            <6>2. \A f \in Pending(u) : f.no <= c.no \/ e.no <= f.no
              BY <1>3, <5>2, <5>5
            <6> QED
              BY <5>1, <5>2, <6>1, <6>2 DEF Chain
          <5>6. ASSUME NEW e \in Pending(u)', NEW f \in Pending(u)', e.no < f.no,
                       \A h \in Pending(u)' : h.no <= e.no \/ f.no <= h.no
                PROVE  f.kind = "newUser" <=> Saved(e) = 0
            <6>1. e \in Pending(u) /\ f \in Pending(u) /\ c.no <= e.no
              BY <1>3, <5>2
            <6>2. \A h \in Pending(u) : h.no <= e.no \/ f.no <= h.no
              BY <5>2, <5>6, <6>1
            <6> QED
              BY <5>1, <5>6, <6>1, <6>2 DEF Chain
          <5>7. Chain(u, Saved(c))'
            BY <5>3, <5>4, <5>5, <5>6 DEF Chain
          <5> QED
            BY <5>1, <5>7
        <4> QED
          BY <4>1, <4>2
      <3> QED
        BY <3>7, <3>8, <3>10
    <2> QED
      BY <2>3, <2>4, <2>5
  <1> QED
    BY <1>2, <1>6 DEF UsersPending, Handed

-----------------------------------------------------------------------------
(* Steps of the person *)

\* Nothing is sent and no store changes; a dialog may be closed.
LEMMA IdleKeeps ==
    ASSUME UsersInv, UNCHANGED <<server, calls, issued, orderly, users, userPeers, api, creds, credList>>,
           viewed' \in {viewed, None}
    PROVE  UsersInv'
  <1>1. \A g : InFlight(g)' = InFlight(g)
    BY DEF InFlight
  <1>2. \A g : Untouched(g)
    BY <1>1 DEF Untouched
  <1>3. UNCHANGED <<srvUsers, srvApi, srvCreds>>
    BY DEF server
  <1>4. CallsTold'
    BY <1>3 DEF UsersInv, CallsTold
  <1>5. ViewedPending'
    BY <1>2, ViewedKept DEF UsersInv
  <1>6. ApiPending'
    BY <1>2, <1>3, ApiKept DEF UsersInv
  <1>7. CredsPending'
    BY <1>2, <1>3, CredsKept DEF UsersInv
  <1>8. RenamedListed'
    BY RenamedKept DEF UsersInv
  <1>9. UsersPending'
    BY <1>2, <1>3, UsersKept DEF UsersInv
  <1> QED
    BY <1>4, <1>5, <1>6, <1>7, <1>8, <1>9 DEF UsersInv

\* One call is sent.
LEMMA ClickKeeps ==
    ASSUME UsersInv, NEW a, AskOK(a), Send({}, <<a>>), orderly' = Restored(<<a>>),
           UNCHANGED <<server, users, userPeers, api, creds, credList>>,
           IF a.kind = "userPeers" THEN viewed' = a.of ELSE viewed' \in {viewed, None},
           a.kind = "rename" => creds[a.of] # 0
    PROVE  UsersInv'
  <1> DEFINE k == Call(a, issued + 1)
             g == Group(a.kind)
  <1>1. CallsTold /\ a.kind \in Kinds
    BY DEF UsersInv, AskOK
  <1>2. /\ k \in Calls /\ k.kind = a.kind /\ k.of = a.of
        /\ Joined(g, k) /\ \A h : h # g => Untouched(h)
        /\ calls' = calls \cup {k} /\ issued' = issued + 1
    BY <1>1, CallOf, SentGroup, SendOne
  <1>3. UNCHANGED <<srvUsers, srvApi, srvCreds>>
    BY DEF server
  <1>4. CallsTold'
    <2>1. {} \in SUBSET calls /\ calls' = (calls \ {}) \cup {Call(a, issued + 1)}
      BY <1>2
    <2> QED
      BY <1>1, <1>2, <1>3, <2>1, ToldSend
  <1> HIDE DEF k, g
  <1>5. ViewedPending'
    <2>1. CASE g = "userPeers"
      <3>1. a.kind = "userPeers"
        BY <1>1, <2>1, GroupKinds DEF g, Kinds, Saves
      <3> QED
        BY <1>1, <1>2, <2>1, <3>1, ViewedSent DEF UsersInv
    <2>2. CASE g # "userPeers"
      <3>1. a.kind # "userPeers"
        BY <1>1, <2>2, GroupKinds DEF g
      <3> QED
        BY <1>2, <2>2, <3>1, ViewedKept DEF UsersInv
    <2> QED
      BY <2>1, <2>2
  <1>6. ApiPending'
    <2>1. CASE g = "api"
      BY <1>1, <1>2, <1>3, <2>1, ApiSent DEF UsersInv
    <2>2. CASE g # "api"
      BY <1>2, <1>3, <2>2, ApiKept DEF UsersInv
    <2> QED
      BY <2>1, <2>2
  <1>7. CredsPending'
    <2>1. CASE g = "creds"
      BY <1>1, <1>2, <1>3, <2>1, CredsSent DEF UsersInv, g
    <2>2. CASE g # "creds"
      BY <1>2, <1>3, <2>2, CredsKept DEF UsersInv
    <2> QED
      BY <2>1, <2>2
  <1>8. RenamedListed'
    BY <1>2, RenamedKept DEF UsersInv
  <1>9. UsersPending'
    <2>1. CASE g = "users"
      BY <1>1, <1>2, <1>3, <2>1, UsersSent DEF UsersInv, g
    <2>2. CASE g # "users"
      BY <1>2, <1>3, <2>2, UsersKept DEF UsersInv
    <2> QED
      BY <2>1, <2>2
  <1> QED
    BY <1>4, <1>5, <1>6, <1>7, <1>8, <1>9 DEF UsersInv

\* Clicks without and with a call.
LEMMA ClicksNone ==
    ASSUME CallsTold, Clicks(<<>>)
    PROVE  UNCHANGED <<server, calls, issued, orderly>>
  <1>1. Send({}, <<>>) /\ orderly' = Restored(<<>>) /\ UNCHANGED server
    BY DEF Clicks
  <1>2. calls' = calls \ {} /\ issued' = issued
    BY <1>1, SendNone
  <1> QED
    BY <1>1, <1>2, RestoredNone

\* An ask has the fields it was made of.
LEMMA AskFields ==
    ASSUME NEW kind \in Kinds, NEW of \in Users \cup Creds \cup {None}, NEW from \in Pages \cup {"user"},
           kind \in Saves \cup {"userPeers"} => of \in Users,
           kind \in {"rename", "delCred", "regFinish"} => of \in Creds
    PROVE  AskOK(Ask(kind, of, from)) /\ Ask(kind, of, from).kind = kind /\ Ask(kind, of, from).of = of
  BY DEF AskOK, Ask

LEMMA PersonKeeps ==
    ASSUME UsersInv, Person
    PROVE  UsersInv'
  <1> USE DEF Kinds, Saves
  <1>0. CallsTold
    BY DEF UsersInv
  <1>1. ASSUME NEW p \in Pages, Go(p) PROVE UsersInv'
    <2>1. PICK a : /\ Mounted(p) = <<a>> /\ AskOK(a) /\ a.kind \in {"users", "audit", "user"}
      <3>1. CASE p = "users"
        BY <3>1, AskFields DEF Mounted
      <3>2. CASE p = "audit"
        BY <3>2, AskFields DEF Mounted
      <3>3. CASE p \in {"profile", "settings"}
        <4>1. Mounted(p) = <<Ask("user", None, p)>>
          BY <3>3 DEF Mounted
        <4> QED
          BY <3>3, <4>1, AskFields
      <3> QED
        BY <3>1, <3>2, <3>3 DEF Pages
    <2>2. Send({}, <<a>>) /\ orderly' = Restored(<<a>>) /\ UNCHANGED <<server, users, userPeers, api, creds, credList>>
      BY <1>1, <2>1 DEF Go, Clicks
    <2>3. viewed' = None
      BY <1>1 DEF Go
    <2> QED
      BY <2>1, <2>2, <2>3, ClickKeeps
  <1>2. ASSUME NEW u \in Users, ViewUser(u) PROVE UsersInv'
    <2> DEFINE a == Ask("userPeers", u, "user")
    <2>1. AskOK(a) /\ a.kind = "userPeers" /\ a.of = u
      BY AskFields
    <2>2. Send({}, <<a>>) /\ orderly' = Restored(<<a>>) /\ UNCHANGED <<server, users, userPeers, api, creds, credList>>
      BY <1>2 DEF ViewUser, Clicks, profileStore, authStore
    <2>3. viewed' = u
      BY <1>2 DEF ViewUser
    <2> HIDE DEF a
    <2> QED
      BY <2>1, <2>2, <2>3, ClickKeeps
  <1>3. ASSUME NEW u, EditUser(u) PROVE UsersInv'
    BY <1>3, IdleKeeps DEF EditUser, profileStore, authStore
  <1>4. CASE CloseDialog
    BY <1>4, IdleKeeps DEF CloseDialog, profileStore, authStore
  <1>5. ASSUME NEW kind \in Saves, NEW u \in Users, Press(kind, u) PROVE UsersInv'
    <2> DEFINE a == Ask(kind, u, "user")
    <2>1. AskOK(a) /\ a.kind = kind /\ a.of = u
      BY AskFields
    <2>2. /\ Send({}, <<a>>) /\ orderly' = Restored(<<a>>)
          /\ UNCHANGED <<server, users, userPeers, viewed, api, creds, credList>>
      BY <1>5 DEF Press, Clicks, userStore, profileStore, authStore
    <2> HIDE DEF a
    <2> QED
      BY <2>1, <2>2, ClickKeeps
  <1>6. CASE SaveUser
    BY <1>5, <1>6 DEF SaveUser
  <1>7. CASE DeleteUser
    BY <1>5, <1>7 DEF DeleteUser
  <1>8. CASE TurnPage
    BY <1>0, <1>8, ClicksNone, IdleKeeps DEF TurnPage, userStore, profileStore, authStore
  <1>9. ASSUME NEW a, AskOK(a), Clicks(<<a>>), UNCHANGED <<userStore, api, creds, credList>>,
               a.kind # "userPeers", a.kind = "rename" => creds[a.of] # 0
        PROVE  UsersInv'
    BY <1>9, ClickKeeps DEF Clicks, userStore
  <1>10. CASE ClosePeerDialog
    <2> DEFINE a == Ask("peers", None, "user")
    <2>1. AskOK(a) /\ a.kind = "peers"
      BY AskFields
    <2>2. Clicks(<<a>>) /\ UNCHANGED <<userStore, api, creds, credList>>
      BY <1>10 DEF ClosePeerDialog
    <2> HIDE DEF a
    <2> QED
      BY <1>9, <2>1, <2>2
  <1>11. CASE ToggleApi
    <2> DEFINE a == Ask(IF api = 0 THEN "enable" ELSE "disable", None, "user")
    <2>1. AskOK(a) /\ a.kind \in {"enable", "disable"}
      BY AskFields
    <2>2. Clicks(<<a>>) /\ UNCHANGED <<userStore, api, creds, credList>>
      BY <1>11 DEF ToggleApi
    <2> HIDE DEF a
    <2> QED
      BY <1>9, <2>1, <2>2
  <1>12. ASSUME NEW kind, NEW k, Passkey(kind, k),
                \/ kind = "regStart" /\ k = None
                \/ kind \in {"rename", "delCred"} /\ k \in Creds /\ creds[k] # 0
         PROVE  UsersInv'
    <2> DEFINE a == Ask(kind, k, "user")
    <2>1. AskOK(a) /\ a.kind = kind /\ a.of = k
      BY <1>12, AskFields
    <2>2. Clicks(<<a>>) /\ UNCHANGED <<userStore, api, creds, credList>>
      BY <1>12 DEF Passkey
    <2> HIDE DEF a
    <2> QED
      BY <1>9, <1>12, <2>1, <2>2
  <1>13. CASE RegisterWebAuthn
    BY <1>12, <1>13 DEF RegisterWebAuthn
  <1>14. ASSUME NEW k \in Creds, saveRename(k) \/ DeleteWebAuthnCredential(k) PROVE UsersInv'
    BY <1>12, <1>14 DEF saveRename, DeleteWebAuthnCredential
  <1> QED
    BY <1>1, <1>2, <1>3, <1>4, <1>6, <1>7, <1>8, <1>10, <1>11, <1>13, <1>14 DEF Person

-----------------------------------------------------------------------------
(* Steps of the server *)

\* The answers to a call, and the call that is lost.
LEMMA DoneFields ==
    ASSUME NEW c \in Calls
    PROVE  /\ Done(c) \in Calls /\ Done(c).no = c.no /\ Done(c).kind = c.kind /\ Done(c).of = c.of
           /\ Done(c).list = c.list /\ Done(c).st = "replied" /\ Done(c).ok = TRUE
           /\ Refused(c) \in Calls /\ Refused(c).no = c.no /\ Refused(c).kind = c.kind /\ Refused(c).of = c.of
           /\ Refused(c).list = c.list /\ Refused(c).st = "replied" /\ Refused(c).ok = FALSE
  BY DEF Done, Refused, Calls

LEMMA ReplyKept ==
    ASSUME UsersInv, NEW c, NEW d \in Calls, Reply(c, d),
           d.no = c.no, d.kind = c.kind, d.of = c.of, d.list = c.list,
           srvUsers' \in [Users -> Nat], srvApi' \in Nat, srvCreds' \in [Creds -> Nat]
    PROVE  /\ CallsTold' /\ RenamedListed' /\ Answered(Group(c.kind), c, d)
           /\ \A g : g # Group(c.kind) => Untouched(g)
           /\ UNCHANGED <<users, userPeers, viewed, api, creds, credList>>
  <1>1. CallsTold /\ RenamedListed
    BY DEF UsersInv
  <1>2. /\ c \in calls /\ c.st = "sent" /\ calls' = (calls \ {c}) \cup {d} /\ orderly' = Handled(c)
        /\ UNCHANGED <<users, userPeers, viewed, api, creds, credList, issued>>
    BY DEF Reply, userStore, profileStore, authStore
  <1>3. CallsTold'
    BY <1>1, <1>2, ToldSwap
  <1>4. RenamedListed'
    BY <1>1, <1>2, RenamedKept
  <1> QED
    BY <1>1, <1>2, <1>3, <1>4, AnsweredGroup

LEMMA HandleKeeps ==
    ASSUME UsersInv, NEW c \in calls, Handle(c)
    PROVE  UsersInv'
  <1>0. CallsTold /\ ViewedPending /\ ApiPending /\ CredsPending /\ RenamedListed /\ UsersPending
    BY DEF UsersInv
  <1>1. /\ c \in Calls /\ c.kind \in Kinds /\ c.no \in Nat
        /\ c.kind \in Saves \cup {"userPeers"} => c.of \in Users
        /\ c.kind \in {"rename", "delCred", "regFinish"} => c.of \in Creds
    BY <1>0 DEF CallsTold, Calls
  <1>2. srvUsers \in [Users -> Nat] /\ srvApi \in Nat /\ srvCreds \in [Creds -> Nat]
    BY <1>0 DEF CallsTold
  <1>3. CASE HandleList(c)
    <2> DEFINE r == IF c.kind = "users" THEN Order(Rows) ELSE <<>>
               d == [Done(c) EXCEPT !.rows = r]
    <2>1. r \in Seq(UserRow)
      BY <1>0, OrderLists
    <2>2. /\ d \in Calls /\ d.no = c.no /\ d.kind = c.kind /\ d.of = c.of /\ d.list = c.list
          /\ d.st = "replied" /\ d.ok = TRUE /\ d.rows = r
      <3> HIDE DEF r
      <3>1. /\ Done(c) \in Calls /\ Done(c).no = c.no /\ Done(c).kind = c.kind /\ Done(c).of = c.of
            /\ Done(c).list = c.list /\ Done(c).st = "replied" /\ Done(c).ok = TRUE
        BY <1>1, DoneFields
      <3> QED
        BY <1>1, <2>1, <3>1 DEF Calls
    <2>3. Reply(c, d) /\ UNCHANGED <<srvUsers, srvApi, srvCreds>>
      BY <1>3 DEF HandleList, server
    <2>4. c.kind = "users" => d.rows = Order(Rows)
      BY <2>2
    <2> HIDE DEF d
    <2>5. /\ CallsTold' /\ RenamedListed' /\ Answered(Group(c.kind), c, d)
          /\ \A g : g # Group(c.kind) => Untouched(g)
          /\ UNCHANGED <<users, userPeers, viewed, api, creds, credList>>
      BY <1>2, <2>2, <2>3, ReplyKept
    <2>6. c.kind \in {"users", "userPeers", "audit", "peers", "stats", "ifaces", "regStart"}
      BY <1>3 DEF HandleList
    <2>7. ApiPending'
      BY <1>0, <1>1, <2>3, <2>5, <2>6, GroupKinds, ApiKept
    <2>8. ViewedPending'
      <3>1. CASE c.kind = "userPeers"
        BY <1>0, <1>1, <2>2, <2>5, <3>1, GroupKinds, ViewedAnswered
      <3>2. CASE c.kind # "userPeers"
        BY <1>0, <1>1, <2>5, <2>6, <3>2, GroupKinds, ViewedKept
      <3> QED
        BY <3>1, <3>2
    <2>9. CredsPending'
      <3>1. CASE c.kind = "regStart"
        BY <1>0, <1>1, <2>2, <2>3, <2>5, <3>1, GroupKinds, CredsAnswered
      <3>2. CASE c.kind # "regStart"
        BY <1>0, <1>1, <2>3, <2>5, <2>6, <3>2, GroupKinds, CredsKept
      <3> QED
        BY <3>1, <3>2
    <2>10. UsersPending'
      <3>1. CASE c.kind = "users"
        BY <1>0, <1>1, <2>2, <2>3, <2>4, <2>5, <3>1, GroupKinds, UsersLoadAnswered
      <3>2. CASE c.kind # "users"
        <4>1. Untouched("users")
          BY <1>1, <2>5, <2>6, <3>2, GroupKinds DEF Saves
        <4> QED
          BY <1>0, <2>3, <2>5, <4>1, UsersKept
      <3> QED
        BY <3>1, <3>2
    <2> QED
      BY <2>5, <2>7, <2>8, <2>9, <2>10 DEF UsersInv
  <1>4. CASE HandleSave(c)
    <2>0. c.kind \in Saves /\ Group(c.kind) = "users"
      BY <1>1, <1>4, GroupKinds DEF HandleSave
    <2>1. ASSUME NEW d \in Calls, Reply(c, d), d.no = c.no, d.kind = c.kind, d.of = c.of, d.list = c.list,
                 d.st = "replied", srvUsers' \in [Users -> Nat], srvApi' \in Nat, srvCreds' = srvCreds,
                 "api" \in orderly' => srvApi' = srvApi,
                 \/ ~d.ok /\ srvUsers' = srvUsers
                 \/ /\ d.ok /\ d.num = c.no + 1 /\ ((srvUsers[c.of] = 0) <=> (c.kind = "newUser"))
                    /\ srvUsers' = [srvUsers EXCEPT ![c.of] = IF c.kind = "delUser" THEN 0 ELSE c.no + 1]
          PROVE  UsersInv'
      <3>1. /\ CallsTold' /\ RenamedListed' /\ Answered("users", c, d)
            /\ \A g : g # "users" => Untouched(g)
            /\ UNCHANGED <<users, userPeers, viewed, api, creds, credList>>
        BY <1>2, <2>0, <2>1, ReplyKept
      <3>2. UsersPending'
        BY <1>0, <2>0, <2>1, <3>1, UsersSaveAnswered
      <3>3. ViewedPending' /\ CredsPending'
        BY <1>0, <2>1, <3>1, ViewedKept, CredsKept
      <3>4. ApiPending'
        BY <1>0, <2>1, <3>1, ApiKept DEF ApiPending
      <3> QED
        BY <3>1, <3>2, <3>3, <3>4 DEF UsersInv
    <2> DEFINE Wrong == (srvUsers[c.of] = 0) # (c.kind = "newUser") \/ (c.kind = "delUser" /\ c.of = Self)
    <2>2. CASE Wrong
      <3>1. Reply(c, Refused(c)) /\ UNCHANGED <<srvUsers, srvApi, srvCreds>>
        BY <1>4, <2>2 DEF HandleSave
      <3> QED
        BY <1>1, <1>2, <2>1, <3>1, DoneFields
    <2>3. CASE ~Wrong
      <3> DEFINE d == [Done(c) EXCEPT !.num = c.no + 1]
      <3>1. /\ Reply(c, d) /\ srvCreds' = srvCreds /\ srvApi' = IF WipesToken(c) THEN 0 ELSE srvApi
            /\ srvUsers' = [srvUsers EXCEPT ![c.of] = IF c.kind = "delUser" THEN 0 ELSE c.no + 1]
        BY <1>4, <2>3 DEF HandleSave
      <3>2. /\ d \in Calls /\ d.no = c.no /\ d.kind = c.kind /\ d.of = c.of /\ d.list = c.list
            /\ d.st = "replied" /\ d.ok = TRUE /\ d.num = c.no + 1
        <4>1. /\ Done(c) \in Calls /\ Done(c).no = c.no /\ Done(c).kind = c.kind /\ Done(c).of = c.of
              /\ Done(c).list = c.list /\ Done(c).st = "replied" /\ Done(c).ok = TRUE
          BY <1>1, DoneFields
        <4>2. c.no + 1 \in Nat
          BY <1>1
        <4> QED
          BY <4>1, <4>2, <1>1 DEF Calls
      <3> HIDE DEF d
      <3>3. srvUsers' \in [Users -> Nat]
        <4>1. (IF c.kind = "delUser" THEN 0 ELSE c.no + 1) \in Nat
          BY <1>1
        <4> QED
          BY <1>2, <3>1, <4>1
      <3>5. (srvUsers[c.of] = 0) <=> (c.kind = "newUser")
        BY <2>3
      <3>4. srvApi' \in Nat /\ ("api" \in orderly' => srvApi' = srvApi)
        BY <1>2, <3>1 DEF Reply, Handled
      <3> QED
        BY <2>1, <3>1, <3>2, <3>3, <3>4, <3>5
    <2> QED
      BY <2>2, <2>3
  <1>5. CASE HandleApi(c)
    <2> DEFINE d == [Done(c) EXCEPT !.num = srvApi']
    <2>1. c.kind \in {"user", "enable", "disable"} /\ Group(c.kind) = "api"
      BY <1>1, <1>5, GroupKinds DEF HandleApi
    <2>2. Reply(c, d) /\ srvApi' \in Nat /\ UNCHANGED <<srvUsers, srvCreds>>
      BY <1>1, <1>2, <1>5 DEF HandleApi
    <2>3. /\ d \in Calls /\ d.no = c.no /\ d.kind = c.kind /\ d.of = c.of /\ d.list = c.list
          /\ d.st = "replied" /\ d.ok = TRUE /\ d.num = srvApi'
      <3>1. /\ Done(c) \in Calls /\ Done(c).no = c.no /\ Done(c).kind = c.kind /\ Done(c).of = c.of
            /\ Done(c).list = c.list /\ Done(c).st = "replied" /\ Done(c).ok = TRUE
        BY <1>1, DoneFields
      <3> QED
        BY <1>1, <1>2, <2>2, <3>1 DEF Calls
    <2> HIDE DEF d
    <2>4. /\ CallsTold' /\ RenamedListed' /\ Answered("api", c, d)
          /\ \A g : g # "api" => Untouched(g)
          /\ UNCHANGED <<users, userPeers, viewed, api, creds, credList>>
      BY <1>2, <2>1, <2>2, <2>3, ReplyKept
    <2>5. ApiPending'
      BY <1>0, <2>3, <2>4, ApiAnswered
    <2>6. ViewedPending' /\ CredsPending' /\ UsersPending'
      BY <1>0, <2>2, <2>4, ViewedKept, CredsKept, UsersKept
    <2> QED
      BY <2>4, <2>5, <2>6 DEF UsersInv
  <1>6. CASE HandleCreds(c)
    <2>0. c.kind \in {"creds", "rename", "delCred", "regFinish"} /\ Group(c.kind) = "creds"
      BY <1>1, <1>6, GroupKinds DEF HandleCreds
    <2>1. ASSUME NEW d \in Calls, Reply(c, d), d.no = c.no, d.kind = c.kind, d.of = c.of, d.list = c.list,
                 d.st = "replied", srvCreds' \in [Creds -> Nat], UNCHANGED <<srvUsers, srvApi>>,
                 \/ d.ok /\ d.creds = srvCreds'
                 \/ ~d.ok /\ c.kind \in {"rename", "delCred"} /\ srvCreds[c.of] = 0 /\ srvCreds' = srvCreds
          PROVE  UsersInv'
      <3>1. /\ CallsTold' /\ RenamedListed' /\ Answered("creds", c, d)
            /\ \A g : g # "creds" => Untouched(g)
            /\ UNCHANGED <<users, userPeers, viewed, api, creds, credList>>
        BY <1>2, <2>0, <2>1, ReplyKept
      <3>2. CredsPending'
        BY <1>0, <2>0, <2>1, <3>1, CredsAnswered
      <3>3. ViewedPending' /\ ApiPending' /\ UsersPending'
        BY <1>0, <2>1, <3>1, ViewedKept, ApiKept, UsersKept
      <3> QED
        BY <3>1, <3>2, <3>3 DEF UsersInv
    <2>2. CASE c.kind \in {"rename", "delCred"} /\ srvCreds[c.of] = 0
      <3>1. Reply(c, Refused(c)) /\ UNCHANGED <<srvUsers, srvApi, srvCreds>>
        BY <1>6, <2>2 DEF HandleCreds
      <3> QED
        BY <1>1, <1>2, <2>1, <2>2, <3>1, DoneFields
    <2>3. CASE ~(c.kind \in {"rename", "delCred"} /\ srvCreds[c.of] = 0)
      <3> DEFINE d == [Done(c) EXCEPT !.creds = srvCreds']
      <3>1. Reply(c, d) /\ UNCHANGED <<srvUsers, srvApi>>
        BY <1>6, <2>3 DEF HandleCreds
      <3>2. srvCreds' \in [Creds -> Nat]
        BY <1>1, <1>2, <1>6, <2>0, <2>3 DEF HandleCreds
      <3>3. /\ d \in Calls /\ d.no = c.no /\ d.kind = c.kind /\ d.of = c.of /\ d.list = c.list
            /\ d.st = "replied" /\ d.ok = TRUE /\ d.creds = srvCreds'
        <4>1. /\ Done(c) \in Calls /\ Done(c).no = c.no /\ Done(c).kind = c.kind /\ Done(c).of = c.of
              /\ Done(c).list = c.list /\ Done(c).st = "replied" /\ Done(c).ok = TRUE
          BY <1>1, DoneFields
        <4> QED
          BY <1>1, <1>2, <3>2, <4>1 DEF Calls
      <3> HIDE DEF d
      <3> QED
        BY <2>1, <3>1, <3>2, <3>3
    <2> QED
      BY <2>2, <2>3
  <1> QED
    BY <1>3, <1>4, <1>5, <1>6 DEF Handle

\* A lost call or answer: its group is no longer orderly.
LEMMA LoseKeeps ==
    ASSUME UsersInv, NEW c \in calls, Lose(c)
    PROVE  UsersInv'
  <1> DEFINE d == [c EXCEPT !.st = "replied", !.ok = FALSE, !.rows = <<>>, !.num = 0, !.creds = NoCreds]
  <1>0. CallsTold /\ ViewedPending /\ ApiPending /\ CredsPending /\ RenamedListed /\ UsersPending
    BY DEF UsersInv
  <1>1. c \in Calls
    BY <1>0 DEF CallsTold
  <1>2. d \in Calls /\ d.no = c.no /\ d.kind = c.kind /\ d.of = c.of /\ d.list = c.list
    <2>1. NoCreds \in [Creds -> Nat] /\ <<>> \in Seq(UserRow)
      BY DEF NoCreds
    <2> QED
      BY <1>1, <2>1 DEF Calls
  <1>3. /\ calls' = (calls \ {c}) \cup {d} /\ orderly' = orderly \ {Group(c.kind)}
        /\ UNCHANGED <<srvUsers, srvApi, srvCreds, users, userPeers, viewed, api, creds, credList, issued>>
    BY DEF Lose, server, userStore, profileStore, authStore
  <1> HIDE DEF d
  <1>4. CallsTold'
    BY <1>0, <1>2, <1>3, ToldSwap DEF CallsTold
  <1>5. RenamedListed'
    BY <1>0, <1>2, <1>3, RenamedKept
  <1>6. Group(c.kind) \notin orderly' /\ \A g : g # Group(c.kind) => Untouched(g)
    BY <1>2, <1>3, LostGroup
  <1>7. ViewedPending'
    <2>1. CASE Group(c.kind) = "userPeers"
      BY <1>6, <2>1 DEF ViewedPending
    <2>2. CASE Group(c.kind) # "userPeers"
      BY <1>0, <1>3, <1>6, <2>2, ViewedKept
    <2> QED
      BY <2>1, <2>2
  <1>8. ApiPending'
    <2>1. CASE Group(c.kind) = "api"
      BY <1>6, <2>1 DEF ApiPending
    <2>2. CASE Group(c.kind) # "api"
      BY <1>0, <1>3, <1>6, <2>2, ApiKept
    <2> QED
      BY <2>1, <2>2
  <1>9. CredsPending'
    <2>1. CASE Group(c.kind) = "creds"
      BY <1>6, <2>1 DEF CredsPending
    <2>2. CASE Group(c.kind) # "creds"
      BY <1>0, <1>3, <1>6, <2>2, CredsKept
    <2> QED
      BY <2>1, <2>2
  <1>10. UsersPending'
    <2>1. CASE Group(c.kind) = "users"
      BY <1>6, <2>1 DEF UsersPending
    <2>2. CASE Group(c.kind) # "users"
      BY <1>0, <1>3, <1>6, <2>2, UsersKept
    <2> QED
      BY <2>1, <2>2
  <1> QED
    BY <1>4, <1>5, <1>7, <1>8, <1>9, <1>10 DEF UsersInv

-----------------------------------------------------------------------------
(* Answers *)

LEMMA ReceivedNone ==
    ASSUME CallsTold, NEW c, NEW kinds, Receive(c, kinds, <<>>)
    PROVE  /\ c \in calls /\ c.kind \in kinds /\ c.kind \in Kinds /\ c.st = "replied"
           /\ calls' = calls \ {c} /\ issued' = issued /\ UNCHANGED <<srvUsers, srvApi, srvCreds>>
  <1>1. c \in calls /\ c.kind \in kinds /\ c.st = "replied" /\ Send({c}, <<>>) /\ UNCHANGED server
    BY DEF Receive
  <1>2. c.kind \in Kinds
    BY <1>1 DEF CallsTold, Calls
  <1> QED
    BY <1>1, <1>2, SendNone DEF server

LEMMA ReceivedOne ==
    ASSUME CallsTold, NEW c, NEW kinds, NEW a, Receive(c, kinds, <<a>>)
    PROVE  /\ c \in calls /\ c.kind \in kinds /\ c.kind \in Kinds /\ c.st = "replied"
           /\ calls' = (calls \ {c}) \cup {Call(a, issued + 1)} /\ issued' = issued + 1
           /\ UNCHANGED <<srvUsers, srvApi, srvCreds>>
  <1>1. c \in calls /\ c.kind \in kinds /\ c.st = "replied" /\ Send({c}, <<a>>) /\ UNCHANGED server
    BY DEF Receive
  <1>2. c.kind \in Kinds
    BY <1>1 DEF CallsTold, Calls
  <1> QED
    BY <1>1, <1>2, SendOne DEF server

\* What a page goes on with belongs to another store.
LEMMA ContinuedOne ==
    ASSUME NEW c, c.kind \in {"user", "enable", "disable", "peers", "stats", "ifaces"}
    PROVE  \/ Continued(c) = <<>> /\ ~(c.kind = "stats" /\ c.ok)
           \/ \E a : /\ Continued(c) = <<a>> /\ AskOK(a) /\ Group(a.kind) # Group(c.kind)
                     /\ a.kind \in {"creds", "peers", "stats", "ifaces"}
  <1> USE DEF Kinds, Saves, Pages
  <1>1. CASE c.from = "settings" /\ c.kind = "user"
    <2>1. Continued(c) = <<Ask("creds", None, "settings")>>
      BY <1>1 DEF Continued
    <2> QED
      BY <1>1, <2>1, AskFields, GroupKinds
  <1>2. CASE c.from = "profile" /\ c.kind = "user"
    <2>1. Continued(c) = <<Ask("peers", None, "profile")>>
      BY <1>2 DEF Continued
    <2> QED
      BY <1>2, <2>1, AskFields, GroupKinds
  <1>3. CASE c.from = "profile" /\ c.kind = "peers"
    <2>1. Continued(c) = <<Ask("stats", None, "profile")>>
      BY <1>3 DEF Continued
    <2> QED
      BY <1>3, <2>1, AskFields, GroupKinds
  <1>4. CASE c.kind = "stats" /\ c.ok
    <2>1. Continued(c) = <<Ask("ifaces", None, "profile")>>
      BY <1>4 DEF Continued
    <2> QED
      BY <1>4, <2>1, AskFields, GroupKinds
  <1>5. CASE /\ ~(c.from = "settings" /\ c.kind = "user")
             /\ ~(c.from = "profile" /\ c.kind \in {"user", "peers"})
             /\ ~(c.kind = "stats" /\ c.ok)
    BY <1>5 DEF Continued
  <1> QED
    BY <1>1, <1>2, <1>3, <1>4, <1>5

LEMMA ApplyUsersKeeps ==
    ASSUME UsersInv, NEW c, ApplyUsers(c)
    PROVE  UsersInv'
  <1>0. CallsTold /\ ViewedPending /\ ApiPending /\ CredsPending /\ RenamedListed /\ UsersPending
    BY DEF UsersInv
  <1>1. /\ Receive(c, Saves \cup {"users"}, <<>>) /\ users' = setUsers(c)
        /\ UNCHANGED <<userPeers, viewed, api, creds, credList>>
    BY DEF ApplyUsers, profileStore, authStore
  <1>2. /\ c \in calls /\ c.kind \in Saves \cup {"users"} /\ Group(c.kind) = "users"
        /\ calls' = calls \ {c} /\ issued' = issued /\ UNCHANGED <<srvUsers, srvApi, srvCreds>>
    BY <1>0, <1>1, ReceivedNone, GroupKinds
  <1>3. Taken("users", c) /\ \A g : g # "users" => Untouched(g)
    BY <1>0, <1>1, <1>2, TakenGroup
  <1>4. CallsTold'
    BY <1>0, <1>1, <1>2, ToldGone DEF CallsTold
  <1>5. RenamedListed'
    BY <1>0, <1>1, <1>2, RenamedKept
  <1>6. UsersPending'
    BY <1>0, <1>1, <1>2, <1>3, UsersTaken
  <1>7. ViewedPending' /\ ApiPending' /\ CredsPending'
    BY <1>0, <1>1, <1>2, <1>3, ViewedKept, ApiKept, CredsKept
  <1> QED
    BY <1>4, <1>5, <1>6, <1>7 DEF UsersInv

LEMMA SetUserPeersKeeps ==
    ASSUME UsersInv, NEW c, setUserPeers(c)
    PROVE  UsersInv'
  <1>0. CallsTold /\ ViewedPending /\ ApiPending /\ CredsPending /\ RenamedListed /\ UsersPending
    BY DEF UsersInv
  <1>1. /\ Receive(c, {"userPeers"}, <<>>) /\ userPeers' = IF c.ok THEN c.of ELSE None
        /\ UNCHANGED <<users, viewed, api, creds, credList>>
    BY DEF setUserPeers, profileStore, authStore
  <1>2. /\ c \in calls /\ Group(c.kind) = "userPeers"
        /\ calls' = calls \ {c} /\ issued' = issued /\ UNCHANGED <<srvUsers, srvApi, srvCreds>>
    BY <1>0, <1>1, ReceivedNone, GroupKinds
  <1>3. Taken("userPeers", c) /\ \A g : g # "userPeers" => Untouched(g)
    BY <1>0, <1>1, <1>2, TakenGroup
  <1>4. CallsTold'
    BY <1>0, <1>1, <1>2, ToldGone DEF CallsTold
  <1>5. RenamedListed'
    BY <1>0, <1>1, <1>2, RenamedKept
  <1>6. ViewedPending'
    BY <1>0, <1>1, <1>2, <1>3, ViewedTaken
  <1>7. UsersPending' /\ ApiPending' /\ CredsPending'
    BY <1>0, <1>1, <1>2, <1>3, UsersKept, ApiKept, CredsKept
  <1> QED
    BY <1>4, <1>5, <1>6, <1>7 DEF UsersInv

LEMMA SetEntriesKeeps ==
    ASSUME UsersInv, NEW c, setEntries(c)
    PROVE  UsersInv'
  <1>0. CallsTold /\ ViewedPending /\ ApiPending /\ CredsPending /\ RenamedListed /\ UsersPending
    BY DEF UsersInv
  <1>1. Receive(c, {"audit"}, <<>>) /\ UNCHANGED <<users, userPeers, viewed, api, creds, credList>>
    BY DEF setEntries, userStore, profileStore, authStore
  <1>2. /\ c \in calls /\ Group(c.kind) = "audit"
        /\ calls' = calls \ {c} /\ issued' = issued /\ UNCHANGED <<srvUsers, srvApi, srvCreds>>
    BY <1>0, <1>1, ReceivedNone, GroupKinds
  <1>3. \A g : g # "audit" => Untouched(g)
    BY <1>0, <1>1, <1>2, TakenGroup
  <1>4. CallsTold'
    BY <1>0, <1>1, <1>2, ToldGone DEF CallsTold
  <1>5. RenamedListed'
    BY <1>0, <1>1, <1>2, RenamedKept
  <1>6. UsersPending' /\ ViewedPending' /\ ApiPending' /\ CredsPending'
    BY <1>0, <1>1, <1>2, <1>3, UsersKept, ViewedKept, ApiKept, CredsKept
  <1> QED
    BY <1>4, <1>5, <1>6 DEF UsersInv

LEMMA ApplyProfileKeeps ==
    ASSUME UsersInv, NEW c, ApplyProfile(c)
    PROVE  UsersInv'
  <1> DEFINE kinds == {"user", "enable", "disable", "peers", "stats", "ifaces"}
  <1>0. CallsTold /\ ViewedPending /\ ApiPending /\ CredsPending /\ RenamedListed /\ UsersPending
    BY DEF UsersInv
  <1>1. /\ Receive(c, kinds, Continued(c)) /\ api' = IF Group(c.kind) = "api" THEN setUser(c) ELSE api
        /\ UNCHANGED <<users, userPeers, viewed, creds, credList>>
    BY DEF ApplyProfile, userStore
  <1>2. c \in calls /\ c.kind \in kinds /\ c.kind \in Kinds
    BY <1>0, <1>1 DEF Receive, CallsTold, Calls
  <1>3. Group(c.kind) \in {"api", "peers", "stats", "ifaces"}
    BY <1>2, GroupKinds
  <1>4. CASE Continued(c) = <<>>
    <2>1. calls' = calls \ {c} /\ issued' = issued /\ UNCHANGED <<srvUsers, srvApi, srvCreds>>
      BY <1>0, <1>1, <1>4, ReceivedNone
    <2>2. Taken(Group(c.kind), c) /\ \A g : g # Group(c.kind) => Untouched(g)
      BY <1>0, <1>1, <1>4, TakenGroup
    <2>3. CallsTold'
      BY <1>0, <1>1, <1>2, <2>1, ToldGone DEF CallsTold
    <2>4. RenamedListed'
      BY <1>0, <1>1, <2>1, RenamedKept
    <2>5. ApiPending'
      <3>1. CASE Group(c.kind) = "api"
        BY <1>0, <1>1, <2>1, <2>2, <3>1, ApiTaken
      <3>2. CASE Group(c.kind) # "api"
        BY <1>0, <1>1, <2>1, <2>2, <3>2, ApiKept
      <3> QED
        BY <3>1, <3>2
    <2>6. UsersPending' /\ ViewedPending' /\ CredsPending'
      BY <1>0, <1>1, <1>3, <2>1, <2>2, UsersKept, ViewedKept, CredsKept
    <2> QED
      BY <2>3, <2>4, <2>5, <2>6 DEF UsersInv
  <1>5. ASSUME NEW a, Continued(c) = <<a>>, AskOK(a), Group(a.kind) # Group(c.kind),
               a.kind \in {"creds", "peers", "stats", "ifaces"}
        PROVE  UsersInv'
    <2> DEFINE k == Call(a, issued + 1)
    <2>1. /\ calls' = (calls \ {c}) \cup {k} /\ issued' = issued + 1 /\ UNCHANGED <<srvUsers, srvApi, srvCreds>>
      BY <1>0, <1>1, <1>5, ReceivedOne
    <2>2. /\ Taken(Group(c.kind), c) /\ Joined(Group(a.kind), k)
          /\ \A g : g # Group(c.kind) /\ g # Group(a.kind) => Untouched(g)
      BY <1>0, <1>1, <1>5, TakenSentGroup
    <2>3. k \in Calls /\ k.kind = a.kind
      BY <1>0, <1>5, CallOf
    <2>4. CallsTold'
      BY <1>0, <1>1, <1>2, <1>5, <2>1, ToldSend
    <2> HIDE DEF k
    <2>5. RenamedListed'
      BY <1>0, <1>1, <1>5, <2>1, <2>3, RenamedKept
    <2>6. Group(a.kind) \in {"creds", "peers", "stats", "ifaces"}
      BY <1>5, GroupKinds DEF AskOK
    <2>7. ApiPending'
      <3>1. CASE Group(c.kind) = "api"
        BY <1>0, <1>1, <2>1, <2>2, <3>1, ApiTaken
      <3>2. CASE Group(c.kind) # "api"
        BY <1>0, <1>1, <2>1, <2>2, <2>6, <3>2, ApiKept
      <3> QED
        BY <3>1, <3>2
    <2>8. CredsPending'
      <3>1. CASE Group(a.kind) = "creds"
        BY <1>0, <1>1, <2>1, <2>2, <2>3, <3>1, CredsSent
      <3>2. CASE Group(a.kind) # "creds"
        BY <1>0, <1>1, <1>3, <2>1, <2>2, <3>2, CredsKept
      <3> QED
        BY <3>1, <3>2
    <2>9. UsersPending' /\ ViewedPending'
      BY <1>0, <1>1, <1>3, <2>1, <2>2, <2>6, UsersKept, ViewedKept
    <2> QED
      BY <2>4, <2>5, <2>7, <2>8, <2>9 DEF UsersInv
  <1> QED
    BY <1>2, <1>4, <1>5, ContinuedOne

LEMMA ApplyCredsKeeps ==
    ASSUME UsersInv, NEW c, ApplyCreds(c)
    PROVE  UsersInv'
  <1> DEFINE kinds == {"creds", "rename", "delCred", "regFinish"}
  <1>0. CallsTold /\ ViewedPending /\ ApiPending /\ CredsPending /\ RenamedListed /\ UsersPending
    BY DEF UsersInv
  <1>1. /\ Receive(c, kinds, <<>>) /\ creds' = setWebAuthnCredentials(c)
        /\ credList' = IF c.ok \/ c.kind = "creds" THEN c.no ELSE credList
        /\ UNCHANGED <<users, userPeers, viewed, api>>
    BY DEF ApplyCreds, userStore, profileStore
  <1>2. /\ c \in calls /\ c.kind \in kinds /\ Group(c.kind) = "creds"
        /\ calls' = calls \ {c} /\ issued' = issued /\ UNCHANGED <<srvUsers, srvApi, srvCreds>>
    BY <1>0, <1>1, ReceivedNone, GroupKinds
  <1>3. Taken("creds", c) /\ \A g : g # "creds" => Untouched(g)
    BY <1>0, <1>1, <1>2, TakenGroup
  <1>4. RenamedListed' /\ creds' \in [Creds -> Nat]
    BY <1>0, <1>1, <1>2, RenamedTaken
  <1>5. CallsTold'
    BY <1>0, <1>1, <1>2, <1>4, ToldGone
  <1>6. CredsPending'
    BY <1>0, <1>1, <1>2, <1>3, CredsTaken
  <1>7. UsersPending' /\ ViewedPending' /\ ApiPending'
    BY <1>0, <1>1, <1>2, <1>3, UsersKept, ViewedKept, ApiKept
  <1> QED
    BY <1>4, <1>5, <1>6, <1>7 DEF UsersInv

\* The steps of a registration before its last answer.
LEMMA DroppedKeeps ==
    ASSUME UsersInv, NEW c \in calls, c.kind \in {"regStart", "prompt"}, orderly' \subseteq orderly,
           \/ Send({c}, <<>>)
           \/ \E a : AskOK(a) /\ a.kind \in {"prompt", "regFinish"} /\ Send({c}, <<a>>),
           UNCHANGED <<server, users, userPeers, viewed, api, creds, credList>>
    PROVE  UsersInv'
  <1>0. CallsTold /\ ViewedPending /\ ApiPending /\ CredsPending /\ RenamedListed /\ UsersPending
    BY DEF UsersInv
  <1>1. UNCHANGED <<srvUsers, srvApi, srvCreds>>
    BY DEF server
  <1>2. Group(c.kind) = "creds" /\ c \in InFlight("creds") /\ c.kind # "creds" /\ {c} \in SUBSET calls
    BY GroupKinds DEF InFlight, Kinds
  <1>3. c \notin NewLists
    BY DEF NewLists
  <1>4. CASE Send({c}, <<>>)
    <2>1. calls' = calls \ {c} /\ issued' = issued
      BY <1>0, <1>4, SendNone
    <2>2. InFlight("creds")' = InFlight("creds") \ {c} /\ \A g : g # "creds" => InFlight(g)' = InFlight(g)
      BY <1>2, <2>1 DEF InFlight
    <2>3. \A g : g # "creds" => Untouched(g)
      BY <2>2 DEF Untouched
    <2>4. CallsTold'
      BY <1>0, <1>1, <1>2, <2>1, ToldGone DEF CallsTold
    <2>5. RenamedListed'
      BY <1>0, <2>1, RenamedKept
    <2>6. CredsPending'
      BY <1>0, <1>1, <1>2, <1>3, <2>2, CredsDropped
    <2>7. UsersPending' /\ ViewedPending' /\ ApiPending'
      BY <1>0, <1>1, <2>3, UsersKept, ViewedKept, ApiKept
    <2> QED
      BY <2>4, <2>5, <2>6, <2>7 DEF UsersInv
  <1>5. ASSUME NEW a, AskOK(a), a.kind \in {"prompt", "regFinish"}, Send({c}, <<a>>) PROVE UsersInv'
    <2> DEFINE k == Call(a, issued + 1)
    <2>1. calls' = (calls \ {c}) \cup {k} /\ issued' = issued + 1
      BY <1>0, <1>5, SendOne
    <2>2. k.kind = a.kind /\ k.no = issued + 1 /\ k.st = "sent" /\ Group(k.kind) = "creds"
      BY <1>0, <1>5, CallOf, GroupKinds DEF AskOK
    <2>3. CallsTold'
      BY <1>0, <1>1, <1>2, <1>5, <2>1, ToldSend
    <2> HIDE DEF k
    <2>4. InFlight("creds")' = (InFlight("creds") \ {c}) \cup {k} /\ \A g : g # "creds" => InFlight(g)' = InFlight(g)
      BY <1>2, <2>1, <2>2 DEF InFlight
    <2>5. k.no \in Nat /\ \A e \in InFlight("creds") : e.no < k.no
      BY <1>0, <2>2 DEF CallsTold, InFlight
    <2>6. \A g : g # "creds" => Untouched(g)
      BY <2>4 DEF Untouched
    <2>7. RenamedListed'
      BY <1>0, <1>5, <2>1, <2>2, RenamedKept
    <2>8. CredsPending'
      BY <1>0, <1>1, <1>2, <1>3, <2>2, <2>4, <2>5, CredsDropped
    <2>9. UsersPending' /\ ViewedPending' /\ ApiPending'
      BY <1>0, <1>1, <2>6, UsersKept, ViewedKept, ApiKept
    <2> QED
      BY <2>3, <2>7, <2>8, <2>9 DEF UsersInv
  <1> QED
    BY <1>4, <1>5

LEMMA ApplyRegStartKeeps ==
    ASSUME UsersInv, NEW c, ApplyRegStart(c)
    PROVE  UsersInv'
  <1> DEFINE a == Ask("prompt", None, "user")
             asks == IF c.ok THEN <<a>> ELSE <<>>
  <1>1. AskOK(a) /\ a.kind = "prompt"
    BY AskFields DEF Kinds, Saves
  <1> HIDE DEF a
  <1>2. /\ c \in calls /\ c.kind = "regStart" /\ Send({c}, asks) /\ orderly' \subseteq Restored(asks)
        /\ UNCHANGED <<server, users, userPeers, viewed, api, creds, credList>>
    BY DEF ApplyRegStart, Receive, userStore, profileStore, a
  <1>3. CASE c.ok
    <2>1. orderly' \subseteq orderly
      BY <1>1, <1>2, <1>3, RestoredOne
    <2> QED
      BY <1>1, <1>2, <1>3, <2>1, DroppedKeeps
  <1>4. CASE ~c.ok
    BY <1>2, <1>4, RestoredNone, DroppedKeeps
  <1> QED
    BY <1>3, <1>4

LEMMA PromptKeeps ==
    ASSUME UsersInv, NEW c, Prompt(c)
    PROVE  UsersInv'
  <1>1. /\ c \in calls /\ c.kind = "prompt" /\ orderly' = orderly
        /\ UNCHANGED <<server, users, userPeers, viewed, api, creds, credList>>
    BY DEF Prompt, userStore, profileStore
  <1>2. \/ Send({c}, <<>>)
        \/ \E k \in Creds : Send({c}, <<Ask("regFinish", k, "user")>>)
    BY DEF Prompt
  <1>3. \A k \in Creds : AskOK(Ask("regFinish", k, "user")) /\ Ask("regFinish", k, "user").kind = "regFinish"
    BY AskFields DEF Kinds, Saves
  <1> QED
    BY <1>1, <1>2, <1>3, DroppedKeeps

-----------------------------------------------------------------------------
(* Theorems *)

LEMMA InitUsers == Init => UsersInv
  <1> SUFFICES ASSUME Init PROVE UsersInv
    OBVIOUS
  <1>1. calls = {} /\ orderly = {} /\ issued = 1 /\ credList = 0
    BY DEF Init
  <1>2. CallsTold
    BY <1>1, UsersAssumption DEF CallsTold, Init, NoCreds
  <1> QED
    BY <1>1, <1>2 DEF UsersInv, ViewedPending, ApiPending, CredsPending, RenamedListed, UsersPending

LEMMA NextUsers == UsersInv /\ [Next]_vars => UsersInv'
  <1> SUFFICES ASSUME UsersInv, [Next]_vars PROVE UsersInv'
    OBVIOUS
  <1>1. CASE Person
    BY <1>1, PersonKeeps
  <1>2. ASSUME NEW c \in calls, Handle(c) PROVE UsersInv'
    BY <1>2, HandleKeeps
  <1>3. ASSUME NEW c \in calls, Apply(c) PROVE UsersInv'
    BY <1>3, ApplyUsersKeeps, SetUserPeersKeeps, SetEntriesKeeps, ApplyProfileKeeps, ApplyCredsKeeps,
       ApplyRegStartKeeps DEF Apply
  <1>4. ASSUME NEW c \in calls, Prompt(c) PROVE UsersInv'
    BY <1>4, PromptKeeps
  <1>5. ASSUME NEW c \in calls, Lose(c) PROVE UsersInv'
    BY <1>5, LoseKeeps
  <1>6. CASE UNCHANGED vars
    BY <1>6, IdleKeeps DEF vars, server
  <1> QED
    BY <1>1, <1>2, <1>3, <1>4, <1>5, <1>6 DEF Next

\* The invariant behind StoresAgree: in a group of calls that were answered and
\* taken in order, the answers in flight lead from what the store shows to what
\* the server has (users.js, profile.js, auth.js).
THEOREM UsersInvHolds == Spec => []UsersInv
  <1>1. Init => UsersInv
    BY InitUsers
  <1>2. UsersInv /\ [Next]_vars => UsersInv'
    BY NextUsers
  <1> QED
    BY <1>1, <1>2, PTL DEF Spec

\* For any users, passkeys and visits: a store whose calls are all answered,
\* none lost or overtaken, shows what the server has, although users.js applies
\* the saves to its rows by hand and never loads the list again.
THEOREM StoresAgreeHolds == Spec => []StoresAgree
  <1>1. UsersInv => StoresAgree
    <2> SUFFICES ASSUME UsersInv PROVE StoresAgree
      OBVIOUS
    <2>1. ViewedAgree
      BY DEF UsersInv, ViewedPending, ViewedAgree
    <2>2. ApiAgree
      BY DEF UsersInv, ApiPending, ApiAgree
    <2>3. CredsAgree
      BY DEF UsersInv, CredsPending, CredsAgree, NewLists, Reloading
    <2>4. UsersAgree
      <3> SUFFICES ASSUME "users" \in orderly, InFlight("users") = {}
                   PROVE  /\ Len(users) = Cardinality(Rows)
                          /\ \A r \in Rows : \E n \in DOMAIN users :
                                users[n].id = r.id /\ users[n].ver = r.ver /\ (users[n].counted \/ r.ver > 1)
        BY DEF UsersAgree
      <3>1. PICK b \in [Users -> Nat] : Base(b) /\ \A u \in Users : Chain(u, b[u])
        BY DEF UsersInv, UsersPending
      <3>2. AnsweredLoads = {} /\ \A u : Pending(u) = {}
        BY DEF AnsweredLoads, Pending
      <3>3. \A u \in Users : b[u] = srvUsers[u]
        BY <3>1, <3>2 DEF Chain
      <3>4. b = srvUsers
        BY <3>1, <3>3 DEF UsersInv, CallsTold
      <3>5. Lists(users, srvUsers)
        BY <3>1, <3>2, <3>4 DEF Base
      <3> QED
        BY <3>5, ListsCounted DEF UsersInv
    <2> QED
      BY <2>1, <2>2, <2>3, <2>4 DEF StoresAgree
  <1> QED
    BY <1>1, UsersInvHolds, PTL

-----------------------------------------------------------------------------
(* Buttons *)

ProfileGroups == {"api", "peers", "stats", "ifaces"}

\* A flag is up only while a call of its store is in flight.
FlagUp == fetching => "stats" \in failed \/ \E c \in calls : Group(c.kind) \in ProfileGroups
AuthFlagUp == authFetching => \E c \in calls : Group(c.kind) = "creds"

LEMMA FlagsUp == ButtonsFree <=> FlagUp /\ AuthFlagUp
  BY DEF ButtonsFree, FlagUp, AuthFlagUp, ProfileGroups, InFlight

\* The flags stay, and the calls of their stores stay or are answered.
LEMMA FlagsKept ==
    ASSUME FlagUp, AuthFlagUp, UNCHANGED <<fetching, failed, authFetching>>,
           \A c \in calls : Group(c.kind) \in ProfileGroups \cup {"creds"} => \E d \in calls' : d.kind = c.kind
    PROVE  FlagUp' /\ AuthFlagUp'
  BY DEF FlagUp, AuthFlagUp

\* A call of the stores is sent with Fetch.
LEMMA FlagsFetch ==
    ASSUME CallsTold, FlagUp, AuthFlagUp, NEW a, AskOK(a), Send({}, <<a>>), Fetch(<<a>>), failed' = failed
    PROVE  FlagUp' /\ AuthFlagUp'
  <1> DEFINE k == Call(a, issued + 1)
  <1>1. calls' = calls \cup {k} /\ k.kind = a.kind
    BY SendOne, CallOf
  <1> HIDE DEF k
  <1>2. DOMAIN <<a>> = {1} /\ <<a>>[1] = a
    OBVIOUS
  <1>3. fetching' => fetching \/ Group(a.kind) \in ProfileGroups
    BY <1>2 DEF Fetch, ProfileGroups
  <1>4. authFetching' => authFetching \/ Group(a.kind) = "creds"
    BY <1>2 DEF Fetch
  <1> QED
    BY <1>1, <1>3, <1>4 DEF FlagUp, AuthFlagUp

LEMMA PersonFlags ==
    ASSUME CallsTold, FlagUp, AuthFlagUp, Person
    PROVE  FlagUp' /\ AuthFlagUp'
  <1> USE DEF Kinds, Saves
  <1>1. ASSUME NEW p \in Pages, Go(p) PROVE FlagUp' /\ AuthFlagUp'
    <2>1. PICK a : Mounted(p) = <<a>> /\ AskOK(a)
      <3>1. CASE p = "users"
        BY <3>1, AskFields DEF Mounted
      <3>2. CASE p = "audit"
        BY <3>2, AskFields DEF Mounted
      <3>3. CASE p \in {"profile", "settings"}
        <4>1. Mounted(p) = <<Ask("user", None, p)>>
          BY <3>3 DEF Mounted
        <4> QED
          BY <3>3, <4>1, AskFields
      <3> QED
        BY <3>1, <3>2, <3>3 DEF Pages
    <2> QED
      BY <1>1, <2>1, FlagsFetch DEF Go, Clicks
  <1>2. ASSUME NEW asks, Send({}, asks), UNCHANGED <<fetching, failed, authFetching>>
        PROVE  FlagUp' /\ AuthFlagUp'
    <2>1. calls \subseteq calls'
      BY <1>2 DEF Send
    <2> QED
      BY <1>2, <2>1, FlagsKept
  <1>3. ASSUME NEW u \in Users, ViewUser(u) PROVE FlagUp' /\ AuthFlagUp'
    BY <1>2, <1>3 DEF ViewUser, Clicks, profileStore, authStore
  <1>4. ASSUME NEW u, EditUser(u) PROVE FlagUp' /\ AuthFlagUp'
    BY <1>4, FlagsKept DEF EditUser, profileStore, authStore
  <1>5. CASE CloseDialog
    BY <1>5, FlagsKept DEF CloseDialog, profileStore, authStore
  <1>6. ASSUME NEW kind, NEW u, Press(kind, u) PROVE FlagUp' /\ AuthFlagUp'
    BY <1>2, <1>6 DEF Press, Clicks, profileStore, authStore
  <1>7. CASE SaveUser \/ DeleteUser
    BY <1>6, <1>7 DEF SaveUser, DeleteUser
  <1>8. CASE TurnPage
    BY <1>2, <1>8 DEF TurnPage, Clicks, profileStore, authStore
  <1>9. CASE ClosePeerDialog
    <2>1. AskOK(Ask("peers", None, "user"))
      BY AskFields
    <2> QED
      BY <1>9, <2>1, FlagsFetch DEF ClosePeerDialog, Clicks
  <1>10. CASE ToggleApi
    <2>1. AskOK(Ask(IF api = 0 THEN "enable" ELSE "disable", None, "user"))
      BY AskFields
    <2> QED
      BY <1>10, <2>1, FlagsFetch DEF ToggleApi, Clicks
  <1>11. ASSUME NEW kind, NEW k, Passkey(kind, k),
                (kind = "regStart" /\ k = None) \/ (kind \in {"rename", "delCred"} /\ k \in Creds)
         PROVE  FlagUp' /\ AuthFlagUp'
    <2>1. AskOK(Ask(kind, k, "user"))
      BY <1>11, AskFields
    <2> QED
      BY <1>11, <2>1, FlagsFetch DEF Passkey, Clicks
  <1>12. CASE RegisterWebAuthn
    BY <1>11, <1>12 DEF RegisterWebAuthn
  <1>13. ASSUME NEW k \in Creds, saveRename(k) \/ DeleteWebAuthnCredential(k) PROVE FlagUp' /\ AuthFlagUp'
    BY <1>11, <1>13 DEF saveRename, DeleteWebAuthnCredential
  <1> QED
    BY <1>1, <1>3, <1>4, <1>5, <1>7, <1>8, <1>9, <1>10, <1>12, <1>13 DEF Person

LEMMA ServerFlags ==
    ASSUME CallsTold, FlagUp, AuthFlagUp, NEW c \in calls, Handle(c) \/ Lose(c)
    PROVE  FlagUp' /\ AuthFlagUp'
  <1>1. c \in Calls
    BY DEF CallsTold
  <1>2. ASSUME NEW d, d.kind = c.kind, Reply(c, d) PROVE FlagUp' /\ AuthFlagUp'
    BY <1>2, FlagsKept DEF Reply, profileStore, authStore
  <1>3. CASE HandleList(c)
    <2> DEFINE d == [Done(c) EXCEPT !.rows = IF c.kind = "users" THEN Order(Rows) ELSE <<>>]
    <2>1. d.kind = c.kind
      BY <1>1 DEF Done, Calls
    <2> QED
      BY <1>2, <1>3, <2>1 DEF HandleList
  <1>4. CASE HandleSave(c)
    <2>1. [Done(c) EXCEPT !.num = c.no + 1].kind = c.kind /\ Refused(c).kind = c.kind
      BY <1>1 DEF Done, Refused, Calls
    <2>2. Reply(c, [Done(c) EXCEPT !.num = c.no + 1]) \/ Reply(c, Refused(c))
      BY <1>4 DEF HandleSave
    <2> QED
      BY <1>2, <2>1, <2>2
  <1>5. CASE HandleApi(c)
    <2>1. [Done(c) EXCEPT !.num = srvApi'].kind = c.kind
      BY <1>1 DEF Done, Calls
    <2>2. Reply(c, [Done(c) EXCEPT !.num = srvApi'])
      BY <1>5 DEF HandleApi
    <2> QED
      BY <1>2, <2>1, <2>2
  <1>6. CASE HandleCreds(c)
    <2>1. [Done(c) EXCEPT !.creds = srvCreds'].kind = c.kind /\ Refused(c).kind = c.kind
      BY <1>1 DEF Done, Refused, Calls
    <2>2. Reply(c, [Done(c) EXCEPT !.creds = srvCreds']) \/ Reply(c, Refused(c))
      BY <1>6 DEF HandleCreds
    <2> QED
      BY <1>2, <2>1, <2>2
  <1>7. CASE Lose(c)
    <2> DEFINE d == [c EXCEPT !.st = "replied", !.ok = FALSE, !.rows = <<>>, !.num = 0, !.creds = NoCreds]
    <2>1. d.kind = c.kind
      BY <1>1 DEF Calls
    <2>2. calls' = (calls \ {c}) \cup {d} /\ UNCHANGED <<fetching, failed, authFetching>>
      BY <1>7 DEF Lose, profileStore, authStore
    <2> HIDE DEF d
    <2> QED
      BY <2>1, <2>2, FlagsKept
  <1> QED
    BY <1>3, <1>4, <1>5, <1>6, <1>7 DEF Handle

\* Only the answer of LoadStats leaves the flag up, and then LoadInterfaces
\* follows or setStats has failed.
LEMMA AnswerFlags ==
    ASSUME CallsTold, FlagUp, AuthFlagUp, NEW c \in calls, Apply(c) \/ Prompt(c)
    PROVE  FlagUp' /\ AuthFlagUp'
  <1>0. c.kind \in Kinds
    BY DEF CallsTold, Calls
  <1>1. ASSUME NEW kinds, Receive(c, kinds, <<>>), UNCHANGED <<fetching, failed, authFetching>>,
               Group(c.kind) \in {"users", "userPeers", "audit"}
        PROVE  FlagUp' /\ AuthFlagUp'
    <2>1. calls' = calls \ {c}
      BY <1>1, ReceivedNone
    <2> QED
      BY <1>1, <2>1, FlagsKept DEF ProfileGroups
  <1>2. CASE ApplyUsers(c) \/ setUserPeers(c) \/ setEntries(c)
    <2>1. CASE ApplyUsers(c)
      <3>1. Group(c.kind) = "users"
        BY <1>0, <2>1, GroupKinds DEF ApplyUsers, Receive
      <3> QED
        BY <1>1, <2>1, <3>1 DEF ApplyUsers, profileStore, authStore
    <2>2. CASE setUserPeers(c)
      <3>1. Group(c.kind) = "userPeers"
        BY <1>0, <2>2, GroupKinds DEF setUserPeers, Receive
      <3> QED
        BY <1>1, <2>2, <3>1 DEF setUserPeers, profileStore, authStore
    <2>3. CASE setEntries(c)
      <3>1. Group(c.kind) = "audit"
        BY <1>0, <2>3, GroupKinds DEF setEntries, Receive
      <3> QED
        BY <1>1, <2>3, <3>1 DEF setEntries, profileStore, authStore
    <2> QED
      BY <1>2, <2>1, <2>2, <2>3
  <1>3. CASE ApplyProfile(c)
    <2> DEFINE kinds == {"user", "enable", "disable", "peers", "stats", "ifaces"}
    <2>1. /\ Receive(c, kinds, Continued(c)) /\ c.kind \in kinds
          /\ fetching' = ((c.kind = "stats" /\ fetching) \/ (\E n \in DOMAIN Continued(c) : Continued(c)[n].kind # "creds"))
          /\ authFetching' = (authFetching \/ (\E n \in DOMAIN Continued(c) : Continued(c)[n].kind = "creds"))
          /\ failed' = IF c.ok THEN failed ELSE failed \cup {c.kind}
      BY <1>3 DEF ApplyProfile, Receive
    <2>2. Group(c.kind) # "creds"
      BY <1>0, <2>1, GroupKinds
    <2>3. CASE Continued(c) = <<>>
      <3>1. DOMAIN <<>> = {}
        OBVIOUS
      <3>2. calls' = calls \ {c}
        BY <2>1, <2>3, ReceivedNone
      <3>3. AuthFlagUp'
        BY <2>1, <2>2, <2>3, <3>1, <3>2 DEF AuthFlagUp
      <3>4. fetching' => c.kind = "stats"
        BY <2>1, <2>3, <3>1
      <3>5. c.kind = "stats" => ~c.ok
        BY <2>1, <2>3, ContinuedOne
      <3>6. fetching' => "stats" \in failed'
        BY <2>1, <3>4, <3>5
      <3> QED
        BY <3>3, <3>6 DEF FlagUp
    <2>4. ASSUME NEW a, Continued(c) = <<a>>, AskOK(a), a.kind \in {"creds", "peers", "stats", "ifaces"},
                 c.kind = "stats" => a.kind # "creds"
          PROVE  FlagUp' /\ AuthFlagUp'
      <3> DEFINE k == Call(a, issued + 1)
      <3>1. calls' = (calls \ {c}) \cup {k}
        BY <2>1, <2>4, ReceivedOne
      <3>2. k.kind = a.kind
        BY <2>4, CallOf
      <3> HIDE DEF k
      <3>3. DOMAIN <<a>> = {1} /\ <<a>>[1] = a
        OBVIOUS
      <3>4. Group("creds") = "creds" /\ (a.kind # "creds" => Group(a.kind) \in ProfileGroups)
        BY <2>4, GroupKinds DEF ProfileGroups, Kinds, AskOK
      <3>5. fetching' => a.kind # "creds"
        BY <2>1, <2>4, <3>3
      <3>6. FlagUp'
        BY <3>1, <3>2, <3>4, <3>5 DEF FlagUp
      <3>7. authFetching' => authFetching \/ a.kind = "creds"
        BY <2>1, <2>4, <3>3
      <3>8. AuthFlagUp'
        BY <2>2, <3>1, <3>2, <3>4, <3>7 DEF AuthFlagUp
      <3> QED
        BY <3>6, <3>8
    <2>5. ASSUME c.kind = "stats", c.ok PROVE Continued(c) = <<Ask("ifaces", None, "profile")>>
      BY <2>5 DEF Continued
    <2>6. CASE c.kind = "stats" /\ c.ok
      <3>1. AskOK(Ask("ifaces", None, "profile")) /\ Ask("ifaces", None, "profile").kind = "ifaces"
        BY AskFields DEF Kinds, Saves, Pages
      <3> QED
        BY <2>4, <2>5, <2>6, <3>1
    <2>7. CASE c.kind = "stats" /\ ~c.ok
      <3>1. Continued(c) = <<>>
        BY <2>7 DEF Continued
      <3> QED
        BY <2>3, <3>1
    <2>8. CASE c.kind # "stats"
      BY <2>1, <2>3, <2>4, <2>8, ContinuedOne
    <2> QED
      BY <2>6, <2>7, <2>8
  <1>4. ASSUME NEW asks, Send({c}, asks), Group(c.kind) = "creds", UNCHANGED <<fetching, failed>> PROVE FlagUp'
    <2>1. calls \ {c} \subseteq calls'
      BY <1>4 DEF Send
    <2> QED
      BY <1>4, <2>1 DEF FlagUp, ProfileGroups
  <1>5. CASE ApplyCreds(c)
    <2>1. Group(c.kind) = "creds" /\ Send({c}, <<>>) /\ authFetching' = FALSE /\ UNCHANGED <<fetching, failed>>
      BY <1>0, <1>5, GroupKinds DEF ApplyCreds, Receive, profileStore
    <2> QED
      BY <1>4, <2>1 DEF AuthFlagUp
  <1>6. CASE ApplyRegStart(c)
    <2> DEFINE a == Ask("prompt", None, "user")
               asks == IF c.ok THEN <<a>> ELSE <<>>
    <2>1. /\ Group(c.kind) = "creds" /\ Send({c}, asks) /\ authFetching' = (authFetching /\ c.ok)
          /\ UNCHANGED <<fetching, failed>>
      BY <1>0, <1>6, GroupKinds DEF ApplyRegStart, Receive, profileStore
    <2>2. FlagUp'
      BY <1>4, <2>1
    <2>3. AskOK(a) /\ a.kind = "prompt" /\ Group(a.kind) = "creds"
      BY AskFields, GroupKinds DEF Kinds, Saves
    <2> HIDE DEF a
    <2>4. CASE c.ok
      <3>1. Call(a, issued + 1) \in calls' /\ Call(a, issued + 1).kind = a.kind
        BY <2>1, <2>3, <2>4, SendOne, CallOf
      <3> QED
        BY <2>2, <2>3, <3>1 DEF AuthFlagUp
    <2>5. CASE ~c.ok
      BY <2>1, <2>2, <2>5 DEF AuthFlagUp
    <2> QED
      BY <2>4, <2>5
  <1>7. CASE Prompt(c)
    <2>1. c.kind = "prompt" /\ Group(c.kind) = "creds" /\ UNCHANGED <<fetching, failed>>
      BY <1>0, <1>7, GroupKinds DEF Prompt, profileStore
    <2>2. CASE Send({c}, <<>>) /\ authFetching' = FALSE
      BY <1>4, <2>1, <2>2 DEF AuthFlagUp
    <2>3. ASSUME NEW k \in Creds, Send({c}, <<Ask("regFinish", k, "user")>>) PROVE FlagUp' /\ AuthFlagUp'
      <3> DEFINE a == Ask("regFinish", k, "user")
      <3>1. AskOK(a) /\ a.kind = "regFinish" /\ Group(a.kind) = "creds"
        BY AskFields, GroupKinds DEF Kinds, Saves
      <3>2. Send({c}, <<a>>)
        BY <2>3
      <3> HIDE DEF a
      <3>3. Call(a, issued + 1) \in calls' /\ Call(a, issued + 1).kind = a.kind
        BY <3>1, <3>2, SendOne, CallOf
      <3>4. FlagUp'
        BY <1>4, <2>1, <3>2
      <3> QED
        BY <3>1, <3>3, <3>4 DEF AuthFlagUp
    <2> QED
      BY <1>7, <2>2, <2>3 DEF Prompt
  <1> QED
    BY <1>2, <1>3, <1>5, <1>6, <1>7 DEF Apply

\* No button of the profile or the settings page stays disabled for good: with
\* no call of its store in flight the flag is down, unless setStats has thrown.
THEOREM ButtonsFreeHolds == Spec => []ButtonsFree
  <1>1. Init => ButtonsFree
    BY DEF Init, ButtonsFree
  <1>2. UsersInv /\ ButtonsFree /\ [Next]_vars => ButtonsFree'
    <2> SUFFICES ASSUME UsersInv, ButtonsFree, [Next]_vars PROVE FlagUp' /\ AuthFlagUp'
      BY DEF ButtonsFree, FlagUp, AuthFlagUp, ProfileGroups, InFlight
    <2>1. CallsTold /\ FlagUp /\ AuthFlagUp
      BY FlagsUp DEF UsersInv
    <2>2. CASE Person
      BY <2>1, <2>2, PersonFlags
    <2>3. ASSUME NEW c \in calls, Handle(c) \/ Lose(c) PROVE FlagUp' /\ AuthFlagUp'
      BY <2>1, <2>3, ServerFlags
    <2>4. ASSUME NEW c \in calls, Apply(c) \/ Prompt(c) PROVE FlagUp' /\ AuthFlagUp'
      BY <2>1, <2>4, AnswerFlags
    <2>5. CASE UNCHANGED vars
      BY <2>1, <2>5, FlagsKept DEF vars
    <2> QED
      BY <2>2, <2>3, <2>4, <2>5 DEF Next
  <1> QED
    BY <1>1, <1>2, UsersInvHolds, PTL DEF Spec
=============================================================================
