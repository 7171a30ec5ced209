--------------------------- MODULE AccountsProofs ---------------------------
(***************************************************************************)
(* Proofs about users and their peers: for any number of nodes, requests   *)
(* and peers, every configuration, and without bounds on requests, changes *)
(* of the directory, failures and crashes.                                 *)
(***************************************************************************)
EXTENDS Accounts, TLAPS

USE SlotAssumption, EntryAssumption, OptionAssumption, BoundsAssumption

\* The records are none of the values that stand for their absence.
LEMMA UserIsUser == \A u \in User : u # NoUser
<1> SUFFICES ASSUME NEW u \in User, u = NoUser PROVE FALSE
  OBVIOUS
<1>1. DOMAIN u = {"source", "attrs", "disabled"}
  BY DEF User
<1>2. DOMAIN NoUser = {"row"}
  BY DEF NoUser
<1>3. "source" # "row"
  OBVIOUS
<1>4. QED
  BY <1>1, <1>2, <1>3

LEMMA PeerIsPeer == \A q \in PeerRow : q # NoPeer
<1> SUFFICES ASSUME NEW q \in PeerRow, q = NoPeer PROVE FALSE
  OBVIOUS
<1>1. DOMAIN q = {"linked", "auto", "off"}
  BY DEF PeerRow
<1>2. DOMAIN NoPeer = {"row"}
  BY DEF NoPeer
<1>3. "off" # "row"
  OBVIOUS
<1>4. QED
  BY <1>1, <1>2, <1>3

LEMMA JobIsJob == Idle.pc = "idle" /\ \A j \in Job : j # Idle
BY DEF Job, Idle, Pc

LEMMA TaskIsTask == Rest.do = "rest" /\ \A w \in Task : w # Rest
BY DEF Task, Rest

-----------------------------------------------------------------------------
(* Types *)

\* Work that begins is a job.
LEMMA WorkType ==
  ASSUME NEW pc \in Pc, NEW n \in Node, NEW new \in User \cup {NoUser},
         NEW event \in Topic \cup {"none"}, NEW next \in {"end", "login", "scan"}
  PROVE  Work(pc, n, new, event, next) \in Job
BY DEF Work, Job

\* What follows the work of a job is a job, or nothing.
LEMMA FollowingType ==
  ASSUME NEW j \in Job
  PROVE  Following(j) \in Job \cup {Idle} /\ Announcing(j) \in Job \cup {Idle}
<1>1. ASSUME NEW k \in Job PROVE Following(k) \in Job \cup {Idle}
  <2>1. CASE k.next = "end"
    BY <2>1 DEF Following
  <2>2. CASE k.next = "scan"
    <3>1. [k EXCEPT !.pc = "scan", !.event = "none", !.next = "end"] \in Job
      BY DEF Job, Pc
    <3>2. QED
      BY <2>2, <3>1 DEF Following
  <2>3. CASE k.next = "login"
    <3>1. "publish" \in Pc /\ "login" \in Topic
      BY DEF Pc, Topic
    <3>2. [k EXCEPT !.pc = "publish", !.event = "login", !.next = "end"] \in Job
      BY <3>1 DEF Job
    <3>3. QED
      BY <2>3, <3>2 DEF Following
  <2>4. QED
    BY <2>1, <2>2, <2>3 DEF Job
<1>2. PICK k : k = [j EXCEPT !.seen = "other"]
  OBVIOUS
<1>3. k \in Job /\ [k EXCEPT !.pc = "publish"] \in Job
  BY <1>2 DEF Job, Pc
<1>4. Announcing(j) = IF j.event = "none" THEN Following(k) ELSE [k EXCEPT !.pc = "publish"]
  BY <1>2 DEF Announcing
<1>5. QED
  BY <1>1, <1>3, <1>4

\* A step that only moves a job, and perhaps the row.
LEMMA GotoType ==
  ASSUME TypeOK, NEW s \in Slot, NEW j \in Job \cup {Idle}, Goto(s, j),
         row' \in User \cup {NoUser}, astray' \in SUBSET Peer
  PROVE  TypeOK'
BY DEF TypeOK, Goto

LEMMA BeginType ==
  ASSUME TypeOK, NEW r \in Request, NEW j \in Job, Begin(r, j)
  PROVE  TypeOK'
BY DEF TypeOK, Begin, Slot

LEMMA CommitType ==
  ASSUME TypeOK, NEW u \in User \cup {NoUser}, NEW e, NEW x, Commit(u, e, x)
  PROVE  row' \in User \cup {NoUser} /\ astray' \in SUBSET Peer
BY DEF TypeOK, Commit

\* A handler takes an event, or continues.
LEMMA TakeType ==
  ASSUME TypeOK, NEW n \in Node, NEW t \in Topic, NEW w \in Task \cup {Rest}, Take(n, t, w)
  PROVE  TypeOK'
<1>1. queue[n][t] - 1 \in Nat
  BY DEF TypeOK, Take
<1>2. queue' \in [Node -> [Topic -> Nat]]
  BY <1>1 DEF TypeOK, Take
<1>3. hnd' \in [Node -> [Topic -> Task \cup {Rest}]]
  BY DEF TypeOK, Take
<1>4. QED
  BY <1>2, <1>3 DEF TypeOK, Take

LEMMA ContinueType ==
  ASSUME TypeOK, NEW n \in Node, NEW t \in Topic, NEW w \in Task \cup {Rest}, Continue(n, t, w),
         peers' \in [Peer -> PeerRow \cup {NoPeer}], astray' \in SUBSET Peer
  PROVE  TypeOK'
<1>1. hnd' \in [Node -> [Topic -> Task \cup {Rest}]]
  BY DEF TypeOK, Continue
<1>2. QED
  BY <1>1 DEF TypeOK, Continue

LEMMA WorkingType ==
  ASSUME NEW d \in SUBSET Peer
  PROVE  Working(d) \in Task \cup {Rest}
BY DEF Working, Task

LEMMA ToDoType == \A t \in Topic : ToDo(t) \in SUBSET Peer
BY DEF ToDo

LEMMA GiveType ==
  ASSUME TypeOK, NEW p \in Peer, NEW a \in BOOLEAN, Give(p, a)
  PROVE  peers' \in [Peer -> PeerRow \cup {NoPeer}] /\ astray' \in SUBSET Peer
<1>1. [linked |-> TRUE, auto |-> a, off |-> "no"] \in PeerRow
  BY DEF PeerRow
<1>2. QED
  BY <1>1 DEF TypeOK, Give

\* What a handler makes of a peer's row is such a row.
LEMMA ChangedType ==
  ASSUME TypeOK, NEW p \in Peer, peers[p] # NoPeer, NEW t \in Topic \ Arrivals
  PROVE  Changed(t, p) \in PeerRow \cup {NoPeer}
<1>1. PICK a : a = peers[p].auto
  OBVIOUS
<1>2. a \in BOOLEAN
  BY <1>1 DEF TypeOK, PeerRow
<1>3. /\ [linked |-> TRUE, auto |-> a, off |-> "user"] \in PeerRow
      /\ [linked |-> TRUE, auto |-> a, off |-> "no"] \in PeerRow
      /\ [linked |-> FALSE, auto |-> a, off |-> "deleted"] \in PeerRow
  BY <1>2 DEF PeerRow
<1>4. CASE t = "disabled"
  BY <1>1, <1>3, <1>4 DEF Changed
<1>5. CASE t = "enabled"
  BY <1>1, <1>3, <1>5 DEF Changed
<1>6. CASE t = "deleted"
  BY <1>1, <1>3, <1>6 DEF Changed
<1>7. QED
  BY <1>4, <1>5, <1>6 DEF Topic, Arrivals

\* A copy of a user with another reason is a user.
LEMMA ReasonType ==
  ASSUME NEW u \in User, NEW d \in {"no", "admin", "missing"}
  PROVE  [u EXCEPT !.disabled = d] \in User
BY DEF User

LEMMA NewUserType ==
  ASSUME NEW src \in {"db", "ldap", "oauth"}, NEW e \in Attr \cup {NoEntry},
         NEW d \in {"no", "admin", "missing"}
  PROVE  [source |-> src, attrs |-> e, disabled |-> d] \in User
BY DEF User

\* Names for the strings that occur in actions.
LEMMA Names ==
  /\ {"process", "create", "check", "save", "delete", "ldap", "scan", "disable", "publish"} = Pc
  /\ {"created", "login", "disabled", "enabled", "deleted"} = Topic
  /\ Arrivals = {"created", "login"}
BY DEF Pc, Topic, Arrivals

\* The steps of the environment keep the types.
LEMMA EnvironmentType == TypeOK /\ Environment => TypeOK'
<1> SUFFICES ASSUME TypeOK, Environment PROVE TypeOK'
  OBVIOUS
<1>1. ASSUME NEW e \in Attr \cup {NoEntry}, ChangeDirectory(e) PROVE TypeOK'
  BY <1>1 DEF ChangeDirectory, TypeOK
<1>2. ASSUME NEW r \in Request, NEW n \in Node, NEW d \in {"no", "admin"},
             AdminCreatesUser(r, n, d)
      PROVE  TypeOK'
  BY <1>2, BeginType, WorkType, NewUserType, Names DEF AdminCreatesUser
<1>3. ASSUME NEW r \in Request, NEW n \in Node, NEW d \in {"no", "admin", "missing"},
             AdminUpdatesUser(r, n, d)
      PROVE  TypeOK'
  <2>1. row \in User
    BY <1>3 DEF AdminUpdatesUser, TypeOK
  <2>2. QED
    BY <1>3, <2>1, BeginType, WorkType, ReasonType, Names DEF AdminUpdatesUser
<1>4. ASSUME NEW r \in Request, NEW n \in Node, AdminDeletesUser(r, n) \/ Login(r, n)
      PROVE  TypeOK'
  BY <1>4, BeginType, WorkType, Names DEF AdminDeletesUser, Login
<1>5. ASSUME NEW r \in Request, NEW n \in Node, UserChangesToken(r, n) PROVE TypeOK'
  <2>1. PICK w : w = Work("save", n, row, "none", "end")
    OBVIOUS
  <2>2. w \in Job
    BY <2>1, WorkType, Names DEF TypeOK
  <2>3. [w EXCEPT !.seen = Status(row)] \in Job
    BY <2>2 DEF Job, Status
  <2>4. QED
    BY <1>5, <2>1, <2>3, BeginType DEF UserChangesToken
<1>6. ASSUME NEW r \in Request, NEW n \in Node, NEW src \in {"ldap", "oauth"},
             ExternalLogin(r, n, src)
      PROVE  TypeOK'
  <2>1. PICK u : u = [source |-> src, attrs |-> IF src = "ldap" THEN dir ELSE NoEntry,
                      disabled |-> "no"]
    OBVIOUS
  <2>2. u \in User
    BY <2>1, NewUserType DEF TypeOK
  <2>3. Work("process", n, u, "none", "login") \in Job
    BY <2>2, WorkType, Names
  <2>4. QED
    BY <1>6, <2>1, <2>3, BeginType DEF ExternalLogin
<1>7. ASSUME NEW p \in Peer, AdminCreatesPeer(p) PROVE TypeOK'
  <2>1. peers' \in [Peer -> PeerRow \cup {NoPeer}] /\ astray' \in SUBSET Peer
    BY <1>7, GiveType DEF AdminCreatesPeer
  <2>2. QED
    BY <1>7, <2>1 DEF AdminCreatesPeer, TypeOK
<1>8. ASSUME NEW p \in Peer, NEW new \in {"no", "other", "gone"}, AdminChangesPeer(p, new)
      PROVE  TypeOK'
  <2>1. new # "gone" => [peers[p] EXCEPT !.off = new] \in PeerRow
    BY <1>8 DEF AdminChangesPeer, TypeOK, PeerRow
  <2>2. peers' \in [Peer -> PeerRow \cup {NoPeer}]
    BY <1>8, <2>1 DEF AdminChangesPeer, TypeOK
  <2>3. astray' \in SUBSET Peer
    BY <1>8 DEF AdminChangesPeer, TypeOK
  <2>4. QED
    BY <1>8, <2>2, <2>3 DEF AdminChangesPeer, TypeOK
<1>9. ASSUME NEW n \in Node, Crash(n) PROVE TypeOK'
  <2>1. job' \in [Slot -> Job \cup {Idle}]
    BY <1>9 DEF Crash, TypeOK
  <2>2. queue' \in [Node -> [Topic -> Nat]]
    BY <1>9 DEF Crash, TypeOK
  <2>3. hnd' \in [Node -> [Topic -> Task \cup {Rest}]]
    BY <1>9 DEF Crash, TypeOK
  <2>4. QED
    BY <1>9, <2>1, <2>2, <2>3 DEF Crash, TypeOK
<1>10. ASSUME NEW n \in Node, NEW t \in Topic, NEW p \in Peer, ChangePeerFails(n, t, p)
       PROVE  TypeOK'
  <2>1. hnd[n][t] \in Task
    BY <1>10, TaskIsTask DEF ChangePeerFails, TypeOK
  <2>2. Working(hnd[n][t].todo \ {p}) \in Task \cup {Rest}
    BY <2>1, WorkingType DEF Task
  <2>3. hnd' \in [Node -> [Topic -> Task \cup {Rest}]]
    BY <1>10, <2>2 DEF ChangePeerFails, TypeOK
  <2>4. QED
    BY <1>10, <2>3 DEF ChangePeerFails, TypeOK
<1>11. QED
  BY <1>1, <1>2, <1>3, <1>4, <1>5, <1>6, <1>7, <1>8, <1>9, <1>10 DEF Environment

\* So do the steps of requests ...
LEMMA JobStepType == \A s \in Slot : TypeOK /\ JobStep(s) => TypeOK'
<1> SUFFICES ASSUME TypeOK, NEW s \in Slot, JobStep(s) PROVE TypeOK'
  OBVIOUS
<1>1. job[s].pc # "idle" => job[s] \in Job
  BY JobIsJob DEF TypeOK
<1>2. job[s] \in Job =>
        /\ [job[s] EXCEPT !.pc = "publish", !.event = "login", !.next = "end"] \in Job
        /\ [job[s] EXCEPT !.pc = "create"] \in Job
        /\ [job[s] EXCEPT !.pc = "check"] \in Job
        /\ [job[s] EXCEPT !.pc = "save", !.event = "created"] \in Job
  BY Names DEF Job
<1>3. UNCHANGED <<row, astray>> => row' \in User \cup {NoUser} /\ astray' \in SUBSET Peer
  BY DEF TypeOK
<1>4. ASSUME NEW changed \in BOOLEAN, ProcessUserInfo(s, changed) PROVE TypeOK'
  <2>1. job[s] \in Job /\ UNCHANGED <<row, astray>>
    BY <1>1, <1>4 DEF ProcessUserInfo
  <2>2. PICK j \in Job \cup {Idle} : Goto(s, j)
    BY <1>2, <1>4, <2>1 DEF ProcessUserInfo
  <2>3. QED
    BY <1>3, <2>1, <2>2, GotoType
<1>5. CASE CheckCreate(s)
  <2>1. PICK j \in Job \cup {Idle} : Goto(s, j)
    BY <1>1, <1>2, <1>5 DEF CheckCreate
  <2>2. QED
    BY <1>3, <1>5, <2>1, GotoType DEF CheckCreate
<1>6. CASE CheckUpdate(s)
  <2>1. job[s] \in Job
    BY <1>1, <1>6 DEF CheckUpdate
  <2>2. PICK e : e = ChangeEvent(row, job[s].new)
    OBVIOUS
  <2>3. e \in Topic \cup {"none"}
    BY <2>2, Names DEF ChangeEvent
  <2>4. PICK st : st = Status(row)
    OBVIOUS
  <2>5. st \in {"enabled", "other"}
    BY <2>4 DEF Status
  <2>6. [job[s] EXCEPT !.pc = "save", !.seen = st, !.event = e] \in Job
    BY <2>1, <2>3, <2>5, Names DEF Job
  <2>7. PICK j \in Job \cup {Idle} : Goto(s, j)
    BY <1>6, <2>2, <2>4, <2>6 DEF CheckUpdate
  <2>8. QED
    BY <1>3, <1>6, <2>7, GotoType DEF CheckUpdate
<1>7. CASE SaveUser(s)
  <2>1. job[s] \in Job
    BY <1>1, <1>7 DEF SaveUser
  <2>2. job[s].new \in User \cup {NoUser}
    BY <2>1 DEF Job
  <2>3. row' \in User \cup {NoUser} /\ astray' \in SUBSET Peer
    BY <1>7, <2>2, CommitType DEF SaveUser
  <2>4. Announcing(job[s]) \in Job \cup {Idle}
    BY <2>1, FollowingType
  <2>5. QED
    BY <1>7, <2>3, <2>4, GotoType DEF SaveUser
<1>8. CASE DeleteUser(s)
  <2>1. Announcing(job[s]) \in Job \cup {Idle}
    BY <1>1, <1>8, FollowingType DEF DeleteUser
  <2>2. row' \in User \cup {NoUser} /\ astray' \in SUBSET Peer
    BY <1>8, CommitType DEF DeleteUser
  <2>3. job' \in [Slot -> Job \cup {Idle}]
    BY <1>8, <2>1 DEF DeleteUser, TypeOK
  <2>4. QED
    BY <1>8, <2>2, <2>3 DEF DeleteUser, TypeOK
<1>9. CASE Publish(s)
  <2>1. Following(job[s]) \in Job \cup {Idle}
    BY <1>1, <1>9, FollowingType DEF Publish
  <2>2. job' \in [Slot -> Job \cup {Idle}]
    BY <1>9, <2>1 DEF Publish, TypeOK
  <2>3. PICK n, e : n = job[s].node /\ e = job[s].event
    OBVIOUS
  <2>4. n \in Node
    BY <1>1, <1>9, <2>3 DEF Publish, Job
  <2>5. queue' = [queue EXCEPT ![n][e] = @ + 1]
    BY <1>9, <2>3 DEF Publish
  <2>6. queue[n] \in [Topic -> Nat]
    BY <2>4 DEF TypeOK
  <2>7. [queue[n] EXCEPT ![e] = queue[n][e] + 1] \in [Topic -> Nat]
    <3>1. CASE e \in Topic
      <4>1. queue[n][e] + 1 \in Nat
        BY <2>6, <3>1
      <4>2. QED
        BY <2>6, <3>1, <4>1
    <3>2. CASE e \notin Topic
      <4>1. [queue[n] EXCEPT ![e] = queue[n][e] + 1] = queue[n]
        BY <2>6, <3>2
      <4>2. QED
        BY <2>6, <4>1
    <3>3. QED
      BY <3>1, <3>2
  <2>8. queue' \in [Node -> [Topic -> Nat]]
    BY <2>4, <2>5, <2>7 DEF TypeOK
  <2>9. tangled' \in BOOLEAN
    BY <1>9 DEF Publish, TypeOK
  <2>10. QED
    BY <1>9, <2>2, <2>8, <2>9 DEF Publish, TypeOK
<1>10. QED
  BY <1>4, <1>5, <1>6, <1>7, <1>8, <1>9 DEF JobStep

\* ... of the LDAP synchronisation ...
LEMMA SyncStepType == \A n \in Node : TypeOK /\ SyncStep(n) => TypeOK'
<1> SUFFICES ASSUME TypeOK, NEW n \in Node, SyncStep(n) PROVE TypeOK'
  OBVIOUS
<1>1. n \in Slot /\ (job[n].pc # "idle" => job[n] \in Job)
  BY JobIsJob DEF TypeOK, Slot
<1>2. UNCHANGED <<row, astray>> => row' \in User \cup {NoUser} /\ astray' \in SUBSET Peer
  BY DEF TypeOK
<1>3. CASE FetchLdapUsers(n)
  <2>1. PICK w : w = Work(IF dir = NoEntry THEN "scan" ELSE "ldap", n, NoUser, "none", "end")
    OBVIOUS
  <2>2. w \in Job
    BY <2>1, WorkType, Names
  <2>3. [w EXCEPT !.raw = dir] \in Job
    BY <2>2 DEF Job, TypeOK
  <2>4. QED
    BY <1>1, <1>2, <1>3, <2>1, <2>3, GotoType DEF FetchLdapUsers
<1>4. CASE UpdateLdapUsers(n)
  <2>1. job[n] \in Job
    BY <1>1, <1>4 DEF UpdateLdapUsers
  <2>2. PICK u : u = LdapUser(job[n].raw)
    OBVIOUS
  <2>3. u \in User
    BY <2>1, <2>2, NewUserType DEF LdapUser, Job
  <2>4. ASSUME NEW pc \in {"create", "save", "scan"}, NEW e \in {"enabled", "none"},
               NEW x \in {"scan", "end"}
        PROVE  [job[n] EXCEPT !.pc = pc, !.new = u, !.event = e, !.next = x] \in Job
    <3>1. pc \in Pc /\ e \in Topic \cup {"none"} /\ x \in {"end", "login", "scan"}
      BY Names
    <3>2. QED
      BY <2>1, <2>3, <3>1 DEF Job
  <2>5. PICK j \in Job : Goto(n, j)
    BY <1>4, <2>2, <2>4 DEF UpdateLdapUsers
  <2>6. QED
    BY <1>1, <1>2, <1>4, <2>5, GotoType DEF UpdateLdapUsers
<1>5. CASE ScanMissing(n)
  <2>1. job[n] \in Job
    BY <1>1, <1>5 DEF ScanMissing
  <2>2. [job[n] EXCEPT !.pc = "disable", !.event = "disabled"] \in Job
    BY <2>1, Names DEF Job
  <2>3. PICK j \in Job \cup {Idle} : Goto(n, j)
    BY <1>5, <2>2 DEF ScanMissing
  <2>4. QED
    BY <1>1, <1>2, <1>5, <2>3, GotoType DEF ScanMissing
<1>6. CASE DisableMissing(n)
  <2>1. PICK u : u = IF row = NoUser
                       THEN [source |-> "db", attrs |-> NoEntry, disabled |-> "missing"]
                       ELSE [row EXCEPT !.disabled = "missing"]
    OBVIOUS
  <2>2. u \in User
    BY <2>1, NewUserType, ReasonType DEF TypeOK
  <2>3. row' \in User \cup {NoUser} /\ astray' \in SUBSET Peer
    BY <1>6, <2>1, <2>2, CommitType DEF DisableMissing
  <2>4. Announcing(job[n]) \in Job \cup {Idle}
    BY <1>1, <1>6, FollowingType DEF DisableMissing
  <2>5. QED
    BY <1>1, <1>6, <2>3, <2>4, GotoType DEF DisableMissing
<1>7. QED
  BY <1>3, <1>4, <1>5, <1>6 DEF SyncStep

\* ... and of the handlers.
LEMMA HandlerStepType ==
  \A n \in Node, t \in Topic : TypeOK /\ HandlerShape /\ HandlerStep(n, t) => TypeOK'
<1> SUFFICES ASSUME TypeOK, HandlerShape, NEW n \in Node, NEW t \in Topic, HandlerStep(n, t)
             PROVE  TypeOK'
  OBVIOUS
<1>1. CASE TakeChange(n, t)
  BY <1>1, TakeType, WorkingType, ToDoType DEF TakeChange
<1>2. /\ [do |-> "read", todo |-> {}] \in Task
      /\ [do |-> "save", todo |-> {}] \in Task
  BY DEF Task
<1>3. CASE TakeArrival(n, t)
  <2>1. PICK w \in Task \cup {Rest} : Take(n, t, w)
    BY <1>2, <1>3 DEF TakeArrival
  <2>2. QED
    BY <2>1, TakeType
<1>4. CASE PrepareDefaultPeer(n, t)
  <2>1. PICK w \in Task \cup {Rest} : Continue(n, t, w)
    BY <1>2, <1>4 DEF PrepareDefaultPeer
  <2>2. peers' \in [Peer -> PeerRow \cup {NoPeer}] /\ astray' \in SUBSET Peer
    BY <1>4 DEF PrepareDefaultPeer, TypeOK
  <2>3. QED
    BY <2>1, <2>2, ContinueType
<1>5. CASE CreateDefaultPeerFails(n, t)
  <2>1. peers' \in [Peer -> PeerRow \cup {NoPeer}] /\ astray' \in SUBSET Peer
    BY <1>5 DEF CreateDefaultPeerFails, TypeOK
  <2>2. QED
    BY <1>5, <2>1, ContinueType DEF CreateDefaultPeerFails
<1>6. ASSUME NEW p \in Peer, CreateDefaultPeer(n, t, p) PROVE TypeOK'
  <2>1. peers' \in [Peer -> PeerRow \cup {NoPeer}] /\ astray' \in SUBSET Peer
    BY <1>6, GiveType DEF CreateDefaultPeer
  <2>2. QED
    BY <1>6, <2>1, ContinueType DEF CreateDefaultPeer
<1>7. ASSUME NEW p \in Peer, ChangePeer(n, t, p) PROVE TypeOK'
  <2>1. hnd[n][t] \in Task
    BY <1>7, TaskIsTask DEF ChangePeer, TypeOK
  <2>2. Working(hnd[n][t].todo \ {p}) \in Task \cup {Rest}
    BY <2>1, WorkingType DEF Task
  <2>3. t \in Topic \ Arrivals
    BY <1>7 DEF ChangePeer, HandlerShape
  <2>4. peers' \in [Peer -> PeerRow \cup {NoPeer}]
    <3>1. CASE peers[p] = NoPeer
      BY <1>7, <3>1 DEF ChangePeer, TypeOK
    <3>2. CASE peers[p] # NoPeer
      BY <1>7, <2>3, <3>2, ChangedType DEF ChangePeer, TypeOK
    <3>3. QED
      BY <3>1, <3>2
  <2>5. astray' \in SUBSET Peer
    BY <1>7 DEF ChangePeer, TypeOK
  <2>6. QED
    BY <1>7, <2>2, <2>4, <2>5, ContinueType DEF ChangePeer
<1>8. QED
  BY <1>1, <1>3, <1>4, <1>5, <1>6, <1>7 DEF HandlerStep

-----------------------------------------------------------------------------
(* Handlers do their own work *)

\* A handler goes on with work of its kind.
LEMMA HandlerShapeKeep ==
  ASSUME TypeOK, HandlerShape, NEW n \in Node, NEW t \in Topic, NEW w,
         hnd' = [hnd EXCEPT ![n][t] = w],
         w.do = "peers" => t \notin Arrivals,
         w.do \in {"read", "save"} => t \in Arrivals
  PROVE  HandlerShape'
<1> SUFFICES ASSUME NEW m \in Node, NEW u \in Topic
             PROVE  /\ hnd'[m][u].do = "peers" => u \notin Arrivals
                    /\ hnd'[m][u].do \in {"read", "save"} => u \in Arrivals
  BY DEF HandlerShape
<1>1. CASE m = n /\ u = t
  <2>1. hnd'[m][u] = w
    BY <1>1 DEF TypeOK
  <2>2. QED
    BY <1>1, <2>1
<1>2. CASE ~(m = n /\ u = t)
  <2>1. hnd'[m][u] = hnd[m][u]
    BY <1>2 DEF TypeOK
  <2>2. QED
    BY <2>1 DEF HandlerShape
<1>3. QED
  BY <1>1, <1>2

LEMMA WorkingShape == \A d : Working(d).do \in {"peers", "rest"}
BY DEF Working, Rest

LEMMA HandlerShapeStep == TypeOK /\ HandlerShape /\ [Next]_vars => HandlerShape'
<1> SUFFICES ASSUME TypeOK, HandlerShape, [Next]_vars PROVE HandlerShape'
  OBVIOUS
<1>1. CASE UNCHANGED hnd
  BY <1>1 DEF HandlerShape
<1>2. ASSUME NEW n \in Node, Crash(n) PROVE HandlerShape'
  <2>1. \A m \in Node, t \in Topic : hnd'[m][t] = Rest \/ hnd'[m][t] = hnd[m][t]
    BY <1>2 DEF Crash, TypeOK
  <2>2. QED
    BY <2>1, TaskIsTask DEF HandlerShape
<1>3. ASSUME NEW n \in Node, NEW t \in Topic, NEW p \in Peer,
             ChangePeerFails(n, t, p) \/ ChangePeer(n, t, p)
      PROVE  HandlerShape'
  <2>1. /\ hnd' = [hnd EXCEPT ![n][t] = Working(hnd[n][t].todo \ {p})]
        /\ t \notin Arrivals
    BY <1>3 DEF ChangePeerFails, ChangePeer, Continue, HandlerShape
  <2>2. Working(hnd[n][t].todo \ {p}).do \in {"peers", "rest"}
    BY WorkingShape
  <2>3. QED
    BY <2>1, <2>2, HandlerShapeKeep
<1>4. ASSUME NEW n \in Node, NEW t \in Topic, HandlerStep(n, t) PROVE HandlerShape'
  <2>1. CASE TakeChange(n, t)
    BY <2>1, WorkingShape, HandlerShapeKeep DEF TakeChange, Take
  <2>2. CASE TakeArrival(n, t)
    <3>1. PICK w : /\ hnd' = [hnd EXCEPT ![n][t] = w]
                   /\ w = Rest \/ w = [do |-> "read", todo |-> {}]
      BY <2>2 DEF TakeArrival, Take
    <3>2. QED
      BY <2>2, <3>1, HandlerShapeKeep, TaskIsTask DEF TakeArrival
  <2>3. CASE PrepareDefaultPeer(n, t)
    <3>1. PICK w : /\ hnd' = [hnd EXCEPT ![n][t] = w]
                   /\ w = Rest \/ w = [do |-> "save", todo |-> {}]
      BY <2>3 DEF PrepareDefaultPeer, Continue
    <3>2. t \in Arrivals
      BY <2>3 DEF PrepareDefaultPeer, HandlerShape
    <3>3. QED
      BY <3>1, <3>2, HandlerShapeKeep, TaskIsTask
  <2>4. CASE CreateDefaultPeerFails(n, t) \/ \E p \in Peer : CreateDefaultPeer(n, t, p)
    BY <2>4, HandlerShapeKeep, TaskIsTask DEF CreateDefaultPeerFails, CreateDefaultPeer, Continue
  <2>5. QED
    BY <1>3, <1>4, <2>1, <2>2, <2>3, <2>4 DEF HandlerStep
<1>5. CASE Environment
  BY <1>1, <1>2, <1>3, <1>5 DEF Environment, ChangeDirectory, Begin, AdminCreatesUser,
     AdminUpdatesUser, AdminDeletesUser, UserChangesToken, Login, ExternalLogin,
     AdminCreatesPeer, AdminChangesPeer
<1>6. ASSUME NEW s \in Slot, JobStep(s) PROVE UNCHANGED hnd
  BY <1>6 DEF JobStep, ProcessUserInfo, CheckCreate, CheckUpdate, SaveUser, DeleteUser,
     Publish, Goto
<1>7. ASSUME NEW n \in Node, SyncStep(n) PROVE UNCHANGED hnd
  BY <1>7 DEF SyncStep, FetchLdapUsers, UpdateLdapUsers, ScanMissing, DisableMissing, Goto
<1>8. QED
  BY <1>1, <1>4, <1>5, <1>6, <1>7 DEF Next, vars

\* Every step keeps the types.
LEMMA TypeStep == TypeOK /\ HandlerShape /\ [Next]_vars => TypeOK'
<1> SUFFICES ASSUME TypeOK, HandlerShape, [Next]_vars PROVE TypeOK'
  OBVIOUS
<1>1. CASE UNCHANGED vars
  BY <1>1 DEF TypeOK, vars
<1>2. QED
  BY <1>1, EnvironmentType, JobStepType, SyncStepType, HandlerStepType DEF Next

LEMMA TypeInit == Init => TypeOK /\ HandlerShape
<1> SUFFICES ASSUME Init PROVE TypeOK /\ HandlerShape
  OBVIOUS
<1>1. TypeOK
  BY DEF Init, TypeOK
<1>2. \A n \in Node, t \in Topic : hnd[n][t] = Rest
  BY DEF Init
<1>3. QED
  BY <1>1, <1>2, TaskIsTask DEF HandlerShape

\* Every reachable state of Accounts is type correct.
THEOREM TypeCorrect == Spec => []TypeOK
<1>1. TypeOK /\ HandlerShape /\ [Next]_vars => (TypeOK /\ HandlerShape)'
  BY TypeStep, HandlerShapeStep
<1>2. QED
  BY <1>1, TypeInit, PTL DEF Spec

-----------------------------------------------------------------------------
(* Work announces what it has compared *)

LEMMA JobShapeKeep ==
  ASSUME TypeOK, JobShape, NEW s \in Slot, NEW j, job' = [job EXCEPT ![s] = j], Consistent(s, j)
  PROVE  JobShape'
<1> SUFFICES ASSUME NEW x \in Slot PROVE Consistent(x, job'[x])
  BY DEF JobShape, Consistent, Status, Enabled, Tells
<1>1. CASE x = s
  BY <1>1 DEF TypeOK
<1>2. CASE x # s
  BY <1>2 DEF TypeOK, JobShape
<1>3. QED
  BY <1>1, <1>2

\* Nothing is asked of a job that is about to publish or to scan, or has ended.
LEMMA FreeJobs ==
  ASSUME NEW s, NEW j, j.pc \in {"idle", "publish", "scan", "create", "ldap"}
  PROVE  Consistent(s, j)
BY DEF Consistent

LEMMA FollowingFree ==
  ASSUME NEW j \in Job
  PROVE  /\ Following(j).pc \in {"idle", "publish", "scan"}
         /\ Announcing(j).pc \in {"idle", "publish", "scan"}
         /\ j.event # "none" => Announcing(j).pc = "publish" /\ Announcing(j).event = j.event
<1>1. ASSUME NEW k \in Job PROVE Following(k).pc \in {"idle", "publish", "scan"}
  BY JobIsJob DEF Following, Job
<1>2. PICK k : k = [j EXCEPT !.seen = "other"]
  OBVIOUS
<1>3. k \in Job /\ k.event = j.event
  BY <1>2 DEF Job
<1>4. Announcing(j) = IF j.event = "none" THEN Following(k) ELSE [k EXCEPT !.pc = "publish"]
  BY <1>2 DEF Announcing
<1>5. [k EXCEPT !.pc = "publish"].pc = "publish" /\ [k EXCEPT !.pc = "publish"].event = k.event
  BY <1>3 DEF Job
<1>6. QED
  BY <1>1, <1>3, <1>4, <1>5

\* UpdateUser announces that the user is enabled, or disabled, or has seen no difference.
LEMMA ChangeEventTells ==
  ASSUME NEW old \in User, NEW new \in User
  PROVE  /\ ChangeEvent(old, new) # "deleted"
         /\ \/ ChangeEvent(old, new) = "none" /\ Status(old) = Status(new)
            \/ Tells(ChangeEvent(old, new), new)
BY UserIsUser DEF ChangeEvent, Status, Tells, Enabled

LEMMA JobShapeStep == TypeOK /\ JobShape /\ [Next]_vars => JobShape'
<1> SUFFICES ASSUME TypeOK, JobShape, [Next]_vars PROVE JobShape'
  OBVIOUS
<1>1. CASE UNCHANGED job
  BY <1>1 DEF JobShape, Consistent, Status, Enabled, Tells
<1>2. ASSUME NEW r \in Request, NEW j, Begin(r, j), Consistent(r, j) PROVE JobShape'
  BY <1>2, JobShapeKeep DEF Begin, Slot
<1>3. ASSUME NEW r \in Request, NEW n \in Node,
             \/ \E d \in {"no", "admin"} : AdminCreatesUser(r, n, d)
             \/ AdminDeletesUser(r, n)
             \/ Login(r, n)
      PROVE  JobShape'
  BY <1>2, <1>3 DEF AdminCreatesUser, AdminDeletesUser, Login, Consistent, Work
<1>4. ASSUME NEW r \in Request, NEW n \in Node, NEW d \in {"no", "admin", "missing"},
             AdminUpdatesUser(r, n, d)
      PROVE  JobShape'
  <2>1. [row EXCEPT !.disabled = d] \in User
    BY <1>4, ReasonType DEF AdminUpdatesUser, TypeOK
  <2>2. Consistent(r, Work("check", n, [row EXCEPT !.disabled = d], "none", "end"))
    BY <2>1 DEF Consistent, Work
  <2>3. QED
    BY <1>2, <1>4, <2>2 DEF AdminUpdatesUser
<1>5. ASSUME NEW r \in Request, NEW n \in Node, UserChangesToken(r, n) PROVE JobShape'
  <2>1. Consistent(r, [Work("save", n, row, "none", "end") EXCEPT !.seen = Status(row)])
    BY DEF Consistent, Work
  <2>2. QED
    BY <1>2, <1>5, <2>1 DEF UserChangesToken
<1>6. ASSUME NEW r \in Request, NEW n \in Node, NEW src \in {"ldap", "oauth"},
             ExternalLogin(r, n, src)
      PROVE  JobShape'
  <2>1. PICK u : u = [source |-> src, attrs |-> IF src = "ldap" THEN dir ELSE NoEntry,
                      disabled |-> "no"]
    OBVIOUS
  <2>2. u \in User
    BY <2>1, NewUserType DEF TypeOK
  <2>3. Consistent(r, Work("process", n, u, "none", "login"))
    BY <2>2 DEF Consistent, Work
  <2>4. QED
    BY <1>2, <1>6, <2>1, <2>3 DEF ExternalLogin
<1>7. ASSUME NEW n \in Node, Crash(n) PROVE JobShape'
  <2>1. \A s \in Slot : job'[s] = Idle \/ job'[s] = job[s]
    BY <1>7 DEF Crash
  <2>2. QED
    BY <2>1, JobIsJob DEF JobShape, Consistent, Status, Enabled, Tells
<1>8. CASE Environment
  <2>1. CASE \/ \E e \in Attr \cup {NoEntry} : ChangeDirectory(e)
             \/ \E p \in Peer : \/ AdminCreatesPeer(p)
                               \/ \E new \in {"no", "other", "gone"} : AdminChangesPeer(p, new)
             \/ \E n \in Node, t \in Topic, p \in Peer : ChangePeerFails(n, t, p)
    BY <1>1, <2>1 DEF ChangeDirectory, AdminCreatesPeer, AdminChangesPeer, ChangePeerFails
  <2>2. QED
    BY <1>3, <1>4, <1>5, <1>6, <1>7, <1>8, <2>1 DEF Environment
<1>9. ASSUME NEW s \in Slot, NEW j, Goto(s, j), Consistent(s, j) PROVE JobShape'
  BY <1>9, JobShapeKeep DEF Goto
<1>10. ASSUME NEW s \in Slot, job[s].pc # "idle" PROVE job[s] \in Job
  BY <1>10, JobIsJob DEF TypeOK
<1>11. ASSUME NEW s \in Slot, JobStep(s) PROVE JobShape'
  <2>1. job[s].pc # "idle" => job[s] \in Job
    BY <1>10
  <2>2. ASSUME NEW changed \in BOOLEAN, ProcessUserInfo(s, changed) PROVE JobShape'
    <3>1. job[s] \in Job /\ job[s].new \in User
      BY <2>1, <2>2 DEF ProcessUserInfo, JobShape, Consistent
    <3>2. /\ Consistent(s, [job[s] EXCEPT !.pc = "publish", !.event = "login", !.next = "end"])
          /\ Consistent(s, [job[s] EXCEPT !.pc = "create"])
          /\ Consistent(s, [job[s] EXCEPT !.pc = "check"])
          /\ Consistent(s, Idle)
      BY <3>1, JobIsJob DEF Consistent, Job
    <3>3. PICK j : Goto(s, j) /\ Consistent(s, j)
      BY <2>2, <3>2 DEF ProcessUserInfo
    <3>4. QED
      BY <1>9, <3>3
  <2>3. CASE CheckCreate(s)
    <3>1. /\ Consistent(s, [job[s] EXCEPT !.pc = "save", !.event = "created"])
          /\ Consistent(s, Idle)
      <4>1. PICK k : k = [job[s] EXCEPT !.pc = "save", !.event = "created"]
        OBVIOUS
      <4>2. k.pc = "save" /\ k.event = "created"
        BY <2>1, <2>3, <4>1 DEF CheckCreate, Job
      <4>3. Consistent(s, k)
        BY <4>2 DEF Consistent, Tells
      <4>4. QED
        BY <4>1, <4>3, JobIsJob, FreeJobs
    <3>2. PICK j : Goto(s, j) /\ Consistent(s, j)
      BY <2>3, <3>1 DEF CheckCreate
    <3>3. QED
      BY <1>9, <3>2
  <2>4. CASE CheckUpdate(s)
    <3>1. job[s] \in Job /\ job[s].new \in User
      BY <2>1, <2>4 DEF CheckUpdate, JobShape, Consistent
    <3>2. PICK e, st : e = ChangeEvent(row, job[s].new) /\ st = Status(row)
      OBVIOUS
    <3>3. ASSUME row # NoUser
          PROVE  Consistent(s, [job[s] EXCEPT !.pc = "save", !.seen = st, !.event = e])
      <4>1. /\ e # "deleted"
            /\ \/ e = "none" /\ st = Status(job[s].new)
               \/ Tells(e, job[s].new)
        BY <3>1, <3>2, <3>3, ChangeEventTells DEF TypeOK
      <4>2. PICK k : k = [job[s] EXCEPT !.pc = "save", !.seen = st, !.event = e]
        OBVIOUS
      <4>3. k.pc = "save" /\ k.seen = st /\ k.event = e /\ k.new = job[s].new
        BY <3>1, <4>2 DEF Job
      <4>4. Consistent(s, k)
        BY <4>1, <4>3 DEF Consistent
      <4>5. QED
        BY <4>2, <4>4
    <3>4. Consistent(s, Idle)
      BY JobIsJob, FreeJobs
    <3>5. PICK j : Goto(s, j) /\ Consistent(s, j)
      BY <2>4, <3>2, <3>3, <3>4 DEF CheckUpdate
    <3>6. QED
      BY <1>9, <3>5
  <2>5. CASE SaveUser(s) \/ DeleteUser(s)
    <3>1. job[s] \in Job /\ job' = [job EXCEPT ![s] = Announcing(job[s])]
      BY <2>1, <2>5 DEF SaveUser, DeleteUser, Goto
    <3>2. Consistent(s, Announcing(job[s]))
      BY <3>1, FollowingFree, FreeJobs
    <3>3. QED
      BY <3>1, <3>2, JobShapeKeep
  <2>6. CASE Publish(s)
    <3>1. job[s] \in Job /\ job' = [job EXCEPT ![s] = Following(job[s])]
      BY <2>1, <2>6 DEF Publish
    <3>2. Consistent(s, Following(job[s]))
      BY <3>1, FollowingFree, FreeJobs
    <3>3. QED
      BY <3>1, <3>2, JobShapeKeep
  <2>7. QED
    BY <1>11, <2>2, <2>3, <2>4, <2>5, <2>6 DEF JobStep
<1>12. ASSUME NEW n \in Node, SyncStep(n) PROVE JobShape'
  <2>1. n \in Slot /\ (job[n].pc # "idle" => job[n] \in Job)
    BY <1>10 DEF Slot
  <2>2. CASE FetchLdapUsers(n)
    <3>1. PICK j : Goto(n, j) /\ j.pc \in {"scan", "ldap"}
      BY <2>2 DEF FetchLdapUsers, Work
    <3>2. QED
      BY <1>9, <2>1, <3>1, FreeJobs
  <2>3. CASE UpdateLdapUsers(n)
    <3>1. job[n] \in Job
      BY <2>1, <2>3 DEF UpdateLdapUsers
    <3>2. ASSUME NEW pc \in {"create", "save", "scan"}, NEW u, NEW e \in {"enabled", "none"},
                 NEW x
          PROVE  Consistent(n, [job[n] EXCEPT !.pc = pc, !.new = u, !.event = e, !.next = x])
      <4>1. PICK k : k = [job[n] EXCEPT !.pc = pc, !.new = u, !.event = e, !.next = x]
        OBVIOUS
      <4>2. k.pc = pc /\ k.event = e
        BY <3>1, <4>1 DEF Job
      <4>3. Consistent(n, k)
        BY <4>2 DEF Consistent, Tells
      <4>4. QED
        BY <4>1, <4>3
    <3>3. PICK j : Goto(n, j) /\ Consistent(n, j)
      BY <2>3, <3>2 DEF UpdateLdapUsers
    <3>4. QED
      BY <1>9, <2>1, <3>3
  <2>4. CASE ScanMissing(n)
    <3>1. /\ Consistent(n, [job[n] EXCEPT !.pc = "disable", !.event = "disabled"])
          /\ Consistent(n, Idle)
      BY <2>1, <2>4, JobIsJob DEF ScanMissing, Consistent, Job
    <3>2. PICK j : Goto(n, j) /\ Consistent(n, j)
      BY <2>4, <3>1 DEF ScanMissing
    <3>3. QED
      BY <1>9, <2>1, <3>2
  <2>5. CASE DisableMissing(n)
    <3>1. job[n] \in Job /\ Goto(n, Announcing(job[n]))
      BY <2>1, <2>5 DEF DisableMissing
    <3>2. Consistent(n, Announcing(job[n]))
      BY <3>1, FollowingFree, FreeJobs
    <3>3. QED
      BY <1>9, <2>1, <3>1, <3>2
  <2>6. QED
    BY <1>12, <2>2, <2>3, <2>4, <2>5 DEF SyncStep
<1>13. ASSUME NEW n \in Node, NEW t \in Topic, HandlerStep(n, t) PROVE UNCHANGED job
  BY <1>13 DEF HandlerStep, TakeChange, TakeArrival, Take, PrepareDefaultPeer,
     CreateDefaultPeerFails, CreateDefaultPeer, ChangePeer, Continue
<1>14. QED
  BY <1>1, <1>8, <1>11, <1>12, <1>13 DEF Next, vars

-----------------------------------------------------------------------------
(* Peers follow their user *)

\* What PeersFollow asks of one peer.
Follows(p) ==
    /\ Active(p) /\ ~Enabled(row) => Coming("disabled", p) \/ Coming("deleted", p)
    /\ OffByUser(p) /\ Enabled(row) /\ "reEnablePeers" \in conf => Coming("enabled", p)

LEMMA FollowsAll == PeersFollow <=> \A p \in Peer \ astray : Follows(p)
BY DEF PeersFollow, Follows

\* A handler that is coming to a peer still comes if only jobs move that were not
\* publishing ...
LEMMA ComingAfterJob ==
  ASSUME TypeOK, NEW s \in Slot, job[s].pc # "publish", NEW j, job' = [job EXCEPT ![s] = j],
         UNCHANGED <<queue, hnd>>, NEW t \in Topic, NEW p \in Peer, Coming(t, p)
  PROVE  Coming(t, p)'
<1>1. CASE \E x \in Slot : job[x] # Idle /\ job[x].pc = "publish" /\ job[x].event = t
  <2>1. PICK x \in Slot : job[x] # Idle /\ job[x].pc = "publish" /\ job[x].event = t
    BY <1>1
  <2>2. x # s /\ job'[x] = job[x]
    BY <2>1 DEF TypeOK
  <2>3. QED
    BY <2>1, <2>2 DEF Coming
<1>2. CASE \E n \in Node : queue[n][t] > 0 \/ (hnd[n][t] # Rest /\ p \in hnd[n][t].todo)
  BY <1>2 DEF Coming
<1>3. QED
  BY <1>1, <1>2 DEF Coming

\* ... if another topic's handler moves ...
LEMMA ComingAfterOther ==
  ASSUME TypeOK, NEW n \in Node, NEW u \in Topic, NEW w,
         hnd' = [hnd EXCEPT ![n][u] = w],
         queue' = queue \/ queue' = [queue EXCEPT ![n][u] = @ - 1],
         UNCHANGED job, NEW t \in Topic, t # u, NEW p \in Peer, Coming(t, p)
  PROVE  Coming(t, p)'
<1>1. \A m \in Node : hnd'[m][t] = hnd[m][t] /\ queue'[m][t] = queue[m][t]
  BY DEF TypeOK
<1>2. QED
  BY <1>1 DEF Coming

\* ... and if its own handler goes on, with the peer still among those it has to do.
LEMMA ComingAfterOwn ==
  ASSUME TypeOK, NEW n \in Node, NEW t \in Topic, NEW w,
         hnd' = [hnd EXCEPT ![n][t] = w],
         queue' = queue \/ queue' = [queue EXCEPT ![n][t] = @ - 1],
         UNCHANGED job, NEW p \in Peer, Coming(t, p),
         queue' # queue \/ p \in hnd[n][t].todo => w # Rest /\ p \in w.todo
  PROVE  Coming(t, p)'
<1>1. CASE w # Rest /\ p \in w.todo
  <2>1. hnd'[n][t] = w
    BY DEF TypeOK
  <2>2. QED
    BY <1>1, <2>1 DEF Coming
<1>2. CASE queue' = queue /\ p \notin hnd[n][t].todo
  <2>1. \A m \in Node : m # n => hnd'[m][t] = hnd[m][t]
    BY DEF TypeOK
  <2>2. QED
    BY <1>2, <2>1 DEF Coming
<1>3. QED
  BY <1>1, <1>2

\* A step that leaves the user and a peer alone keeps what is asked of the peer.
LEMMA FollowsKeep ==
  ASSUME NEW p \in Peer, Follows(p), UNCHANGED <<row, conf>>, peers'[p] = peers[p],
         Coming("disabled", p) => Coming("disabled", p)',
         Coming("deleted", p) => Coming("deleted", p)',
         Coming("enabled", p) => Coming("enabled", p)'
  PROVE  Follows(p)'
BY DEF Follows, Active, OffByUser, Linked, Enabled

\* The announced change of the user is announced to every peer; one that is excused
\* excuses all.
LEMMA FollowAfterCommit ==
  ASSUME TypeOK, PeersFollow, NEW s \in Slot, job[s] \in Job, job[s].pc # "publish",
         NEW u, NEW x, Commit(u, job[s].event, x),
         job' = [job EXCEPT ![s] = Announcing(job[s])],
         UNCHANGED <<conf, peers, queue, hnd>>,
         Tells(job[s].event, u) \/ x \/ Enabled(u) = Enabled(row)
  PROVE  PeersFollow'
<1> SUFFICES ASSUME NEW p \in Peer, p \notin astray' PROVE Follows(p)'
  BY FollowsAll DEF PeersFollow, Follows
<1>1. CASE Tells(job[s].event, u)
  <2>1. PICK e : e = job[s].event
    OBVIOUS
  <2>2. e \in {"enabled", "disabled", "deleted"}
    BY <1>1, <2>1 DEF Tells
  <2>3. PICK k : k = Announcing(job[s])
    OBVIOUS
  <2>4. k.pc = "publish" /\ k.event = e /\ k # Idle
    BY <2>1, <2>2, <2>3, FollowingFree, JobIsJob
  <2>5. job'[s] = k
    BY <2>3 DEF TypeOK
  <2>6. Coming(e, p)'
    BY <2>4, <2>5 DEF Coming
  <2>7. CASE e = "enabled"
    <3>1. Enabled(row)'
      BY <1>1, <2>1, <2>7 DEF Tells, Commit, Enabled
    <3>2. QED
      BY <2>6, <2>7, <3>1 DEF Follows
  <2>8. CASE e \in {"disabled", "deleted"}
    <3>1. ~Enabled(row)'
      BY <1>1, <2>1, <2>8 DEF Tells, Commit, Enabled
    <3>2. QED
      BY <2>6, <2>8, <3>1 DEF Follows
  <2>9. QED
    BY <2>2, <2>7, <2>8
<1>2. CASE ~Tells(job[s].event, u)
  <2>1. Enabled(u) = Enabled(row) /\ astray' = astray /\ row' = u
    BY <1>2 DEF Commit
  <2>2. Follows(p)
    BY <2>1, FollowsAll
  <2>3. \A t \in Topic : Coming(t, p) => Coming(t, p)'
    BY ComingAfterJob
  <2>4. /\ Coming("disabled", p) => Coming("disabled", p)'
        /\ Coming("deleted", p) => Coming("deleted", p)'
        /\ Coming("enabled", p) => Coming("enabled", p)'
    BY <2>3, Names
  <2>5. Enabled(row') = Enabled(row) /\ (Active(p)' <=> Active(p)) /\ (OffByUser(p)' <=> OffByUser(p))
    BY <2>1 DEF Active, OffByUser, Linked
  <2>6. Enabled(row)' = Enabled(row')
    BY DEF Enabled
  <2>7. QED
    BY <2>2, <2>4, <2>5, <2>6 DEF Follows
<1>3. QED
  BY <1>1, <1>2

\* A peer that was given to somebody, or changed by an administrator.
LEMMA FollowAfterGive ==
  ASSUME TypeOK, PeersFollow, NEW p \in Peer, NEW a, Give(p, a), UNCHANGED <<row, conf>>,
         \A t \in Topic \ Arrivals, q \in Peer : Coming(t, q) => Coming(t, q)'
  PROVE  PeersFollow'
<1> SUFFICES ASSUME NEW q \in Peer, q \notin astray' PROVE Follows(q)'
  BY FollowsAll DEF PeersFollow, Follows
<1>1. CASE q = p
  <2>1. Enabled(row)' /\ peers'[p].off = "no"
    BY <1>1 DEF Give, Enabled, TypeOK
  <2>2. QED
    BY <1>1, <2>1 DEF Follows, OffByUser
<1>2. CASE q # p
  <2>1. q \notin astray /\ peers'[q] = peers[q]
    BY <1>2 DEF Give, TypeOK
  <2>2. QED
    BY <2>1, FollowsAll, FollowsKeep, Names
<1>3. QED
  BY <1>1, <1>2

\* What a handler has made of a peer.
LEMMA ChangedFollows ==
  ASSUME TypeOK, NEW p \in Peer, NEW t \in Topic \ Arrivals,
         NEW q, q = Changed(t, p)
  PROVE  /\ t = "disabled" => q.off = "user"
         /\ t = "enabled" => q.off = "no"
         /\ t = "deleted" => q = NoPeer \/ q.linked = FALSE
BY Names DEF Changed

\* An update, done or failed, of one of the peers of a handler.
LEMMA FollowAfterChange ==
  ASSUME TypeOK, HandlerShape, PeersFollow, NEW n \in Node, NEW t \in Topic, NEW p \in Peer,
         ChangePeer(n, t, p) \/ ChangePeerFails(n, t, p)
  PROVE  PeersFollow'
<1> SUFFICES ASSUME NEW q \in Peer, q \notin astray' PROVE Follows(q)'
  BY FollowsAll DEF PeersFollow, Follows
<1>1. /\ hnd' = [hnd EXCEPT ![n][t] = Working(hnd[n][t].todo \ {p})]
      /\ UNCHANGED <<row, conf, job, queue>>
      /\ t \in Topic \ Arrivals
  BY DEF ChangePeer, ChangePeerFails, Continue, HandlerShape
<1>2. CASE q # p
  <2>1. q \notin astray /\ peers'[q] = peers[q]
    BY <1>2 DEF ChangePeer, ChangePeerFails, TypeOK
  <2>2. PICK w : w = Working(hnd[n][t].todo \ {p})
    OBVIOUS
  <2>3. q \in hnd[n][t].todo => w # Rest /\ q \in w.todo
    BY <1>2, <2>2 DEF Working, Rest
  <2>4. \A u \in Topic : Coming(u, q) => Coming(u, q)'
    <3>1. Coming(t, q) => Coming(t, q)'
      BY <1>1, <2>2, <2>3, ComingAfterOwn
    <3>2. ASSUME NEW u \in Topic, u # t PROVE Coming(u, q) => Coming(u, q)'
      BY <1>1, <2>2, <3>2, ComingAfterOther
    <3>3. QED
      BY <3>1, <3>2
  <2>5. QED
    BY <1>1, <2>1, <2>4, FollowsAll, FollowsKeep, Names
<1>3. CASE q = p
  <2>1. ChangePeer(n, t, p)
    BY <1>3 DEF ChangePeerFails
  <2>2. CASE peers[p] = NoPeer
    <3>1. peers'[p] = NoPeer
      BY <2>1, <2>2 DEF ChangePeer
    <3>2. QED
      BY <1>3, <3>1 DEF Follows, Active, OffByUser, Linked
  <2>3. CASE peers[p] # NoPeer
    <3>1. PICK z : z = Changed(t, p)
      OBVIOUS
    <3>2. peers'[p] = z
      BY <2>1, <2>3, <3>1 DEF ChangePeer, TypeOK
    <3>3. CASE t = "disabled"
      <4>1. z.off = "user" /\ ~Enabled(row)
        BY <1>3, <2>1, <3>1, <3>3, ChangedFollows, Names DEF ChangePeer
      <4>2. ~Enabled(row)'
        BY <1>1, <4>1 DEF Enabled
      <4>3. QED
        BY <1>3, <3>2, <4>1, <4>2 DEF Follows, Active
    <3>4. CASE t = "enabled"
      <4>1. z.off = "no" /\ Enabled(row)
        BY <1>3, <2>1, <3>1, <3>4, ChangedFollows, Names DEF ChangePeer
      <4>2. Enabled(row)'
        BY <1>1, <4>1 DEF Enabled
      <4>3. QED
        BY <1>3, <3>2, <4>1, <4>2 DEF Follows, OffByUser
    <3>5. CASE t = "deleted"
      <4>1. z = NoPeer \/ z.linked = FALSE
        BY <3>1, <3>5, ChangedFollows, Names
      <4>2. QED
        BY <1>3, <3>2, <4>1 DEF Follows, Active, OffByUser, Linked
    <3>6. QED
      BY <1>1, <3>3, <3>4, <3>5, Names
  <2>4. QED
    BY <2>2, <2>3
<1>4. QED
  BY <1>2, <1>3

\* A handler that takes an event reads exactly the peers the event is about.
LEMMA FollowAfterTake ==
  ASSUME TypeOK, PeersFollow, NEW n \in Node, NEW t \in Topic, TakeChange(n, t)
  PROVE  PeersFollow'
<1> SUFFICES ASSUME NEW p \in Peer, p \notin astray' PROVE Follows(p)'
  BY FollowsAll DEF PeersFollow, Follows
<1>1. Follows(p) /\ UNCHANGED <<row, conf, peers, job>>
  BY FollowsAll DEF TakeChange, Take
<1>2. PICK w : w = Working(ToDo(t))
  OBVIOUS
<1>3. /\ hnd' = [hnd EXCEPT ![n][t] = w]
      /\ queue' = [queue EXCEPT ![n][t] = @ - 1]
  BY <1>2 DEF TakeChange, Take
<1>4. \A u \in Topic : u # t => (Coming(u, p) => Coming(u, p)')
  BY <1>1, <1>3, ComingAfterOther
<1>5. p \in ToDo(t) => w # Rest /\ p \in w.todo
  BY <1>2 DEF Working, Rest
<1>6. p \in ToDo(t) => Coming(t, p)'
  <2>1. hnd'[n][t] = w
    BY <1>3 DEF TypeOK
  <2>2. QED
    BY <1>5, <2>1 DEF Coming
<1>7. Active(p) => /\ Coming("disabled", p) => Coming("disabled", p)'
                   /\ Coming("deleted", p) => Coming("deleted", p)'
  <2> SUFFICES ASSUME Active(p)
               PROVE  /\ Coming("disabled", p) => Coming("disabled", p)'
                      /\ Coming("deleted", p) => Coming("deleted", p)'
    OBVIOUS
  <2>1. t \in {"disabled", "deleted"} => p \in ToDo(t)
    BY DEF ToDo
  <2>2. QED
    BY <1>4, <1>6, <2>1, Names
<1>8. OffByUser(p) /\ "reEnablePeers" \in conf =>
        (Coming("enabled", p) => Coming("enabled", p)')
  <2> SUFFICES ASSUME OffByUser(p), "reEnablePeers" \in conf
               PROVE  Coming("enabled", p) => Coming("enabled", p)'
    OBVIOUS
  <2>1. t = "enabled" => p \in ToDo(t)
    BY DEF ToDo
  <2>2. QED
    BY <1>4, <1>6, <2>1, Names
<1>9. /\ Active(p)' <=> Active(p)
      /\ OffByUser(p)' <=> OffByUser(p)
      /\ Enabled(row)' <=> Enabled(row)
  BY <1>1 DEF Active, OffByUser, Linked, Enabled
<1>10. Active(p)' /\ ~Enabled(row)' => Coming("disabled", p)' \/ Coming("deleted", p)'
  <2> SUFFICES ASSUME Active(p)', ~Enabled(row)'
               PROVE  Coming("disabled", p)' \/ Coming("deleted", p)'
    OBVIOUS
  <2>1. Active(p) /\ ~Enabled(row)
    BY <1>9
  <2>2. Coming("disabled", p) \/ Coming("deleted", p)
    BY <1>1, <2>1 DEF Follows
  <2>3. QED
    BY <1>7, <2>1, <2>2
<1>11. OffByUser(p)' /\ Enabled(row)' /\ "reEnablePeers" \in conf' => Coming("enabled", p)'
  <2> SUFFICES ASSUME OffByUser(p)', Enabled(row)', "reEnablePeers" \in conf'
               PROVE  Coming("enabled", p)'
    OBVIOUS
  <2>1. OffByUser(p) /\ Enabled(row) /\ "reEnablePeers" \in conf
    BY <1>1, <1>9
  <2>2. Coming("enabled", p)
    BY <1>1, <2>1 DEF Follows
  <2>3. QED
    BY <1>8, <2>1, <2>2
<1>12. QED
  BY <1>10, <1>11 DEF Follows

\* A step that leaves the user and the peers alone, and loses no announcement.
LEMMA FollowQuiet ==
  ASSUME PeersFollow, UNCHANGED <<row, conf, peers, astray>>,
         \A t \in Topic \ Arrivals, q \in Peer : Coming(t, q) => Coming(t, q)'
  PROVE  PeersFollow'
<1> SUFFICES ASSUME NEW q \in Peer, q \notin astray' PROVE Follows(q)'
  BY FollowsAll DEF PeersFollow, Follows
<1>1. Follows(q) /\ peers'[q] = peers[q]
  BY FollowsAll
<1>2. QED
  BY <1>1, FollowsKeep, Names

\* A job moves, other than by publishing.
LEMMA FollowAfterGoto ==
  ASSUME TypeOK, PeersFollow, NEW s \in Slot, job[s].pc # "publish", NEW j,
         job' = [job EXCEPT ![s] = j], UNCHANGED <<conf, row, peers, queue, hnd, astray>>
  PROVE  PeersFollow'
<1>1. \A t \in Topic \ Arrivals, q \in Peer : Coming(t, q) => Coming(t, q)'
  BY ComingAfterJob
<1>2. QED
  BY <1>1, FollowQuiet

\* An event goes from its job to the queue of its topic.
LEMMA FollowAfterPublish ==
  ASSUME TypeOK, PeersFollow, NEW s \in Slot, Publish(s)
  PROVE  PeersFollow'
<1>1. job[s] \in Job
  BY JobIsJob DEF Publish, TypeOK
<1>2. PICK n, e : n = job[s].node /\ e = job[s].event
  OBVIOUS
<1>3. n \in Node
  BY <1>1, <1>2 DEF Job
<1>4. queue' = [queue EXCEPT ![n][e] = @ + 1] /\ UNCHANGED <<conf, row, peers, hnd, astray>>
  BY <1>2 DEF Publish
<1>5. ASSUME NEW t \in Topic, NEW q \in Peer, Coming(t, q) PROVE Coming(t, q)'
  <2>1. \A m \in Node : queue'[m][t] >= queue[m][t] /\ queue[m][t] \in Nat
    BY <1>3, <1>4 DEF TypeOK
  <2>2. CASE \E m \in Node : queue[m][t] > 0 \/ (hnd[m][t] # Rest /\ q \in hnd[m][t].todo)
    <3>1. PICK m \in Node : queue[m][t] > 0 \/ (hnd[m][t] # Rest /\ q \in hnd[m][t].todo)
      BY <2>2
    <3>2. queue'[m][t] > 0 \/ (hnd'[m][t] # Rest /\ q \in hnd'[m][t].todo)
      <4>1. CASE queue[m][t] > 0
        <5>1. queue'[m][t] \in Nat
          BY <1>3, <1>4 DEF TypeOK
        <5>2. QED
          BY <2>1, <4>1, <5>1
      <4>2. CASE hnd[m][t] # Rest /\ q \in hnd[m][t].todo
        BY <1>4, <4>2
      <4>3. QED
        BY <3>1, <4>1, <4>2
    <3>3. QED
      BY <3>2 DEF Coming
  <2>3. CASE \E x \in Slot : job[x] # Idle /\ job[x].pc = "publish" /\ job[x].event = t
    <3>1. PICK x \in Slot : job[x] # Idle /\ job[x].pc = "publish" /\ job[x].event = t
      BY <2>3
    <3>2. CASE x = s
      <4>1. e = t
        BY <1>2, <3>1, <3>2
      <4>2. queue'[n][t] = queue[n][t] + 1 /\ queue[n][t] \in Nat
        BY <1>3, <1>4, <4>1 DEF TypeOK
      <4>3. queue'[n][t] > 0
        BY <4>2
      <4>4. QED
        BY <1>3, <4>3 DEF Coming
    <3>3. CASE x # s
      <4>1. job'[x] = job[x]
        BY <3>3 DEF Publish, TypeOK
      <4>2. QED
        BY <3>1, <4>1 DEF Coming
    <3>4. QED
      BY <3>2, <3>3
  <2>4. QED
    BY <1>5, <2>2, <2>3 DEF Coming
<1>6. QED
  BY <1>4, <1>5, FollowQuiet

\* The handler of an arrival moves: no topic that changes peers is concerned.
LEMMA ComingAfterArrival ==
  ASSUME TypeOK, NEW n \in Node, NEW u \in Arrivals, NEW w,
         hnd' = [hnd EXCEPT ![n][u] = w],
         queue' = queue \/ queue' = [queue EXCEPT ![n][u] = @ - 1], UNCHANGED job
  PROVE  \A t \in Topic \ Arrivals, q \in Peer : Coming(t, q) => Coming(t, q)'
BY ComingAfterOther, Names

LEMMA EnvironmentFollows ==
  TypeOK /\ JobShape /\ HandlerShape /\ PeersFollow /\ Environment => PeersFollow'
<1> SUFFICES ASSUME TypeOK, JobShape, HandlerShape, PeersFollow, Environment PROVE PeersFollow'
  OBVIOUS
<1>1. ASSUME NEW e, ChangeDirectory(e) PROVE PeersFollow'
  <2>1. UNCHANGED <<row, conf, peers, astray, job, queue, hnd>>
    BY <1>1 DEF ChangeDirectory
  <2>2. QED
    BY <2>1, FollowQuiet DEF Coming
<1>2. ASSUME NEW r \in Request, NEW j, Begin(r, j) PROVE PeersFollow'
  <2>1. r \in Slot /\ job[r].pc # "publish"
    BY <1>2, JobIsJob DEF Begin, Slot
  <2>2. QED
    BY <1>2, <2>1, FollowAfterGoto DEF Begin
<1>3. ASSUME NEW r \in Request, NEW n \in Node,
             \/ \E d \in {"no", "admin"} : AdminCreatesUser(r, n, d)
             \/ \E d \in {"no", "admin", "missing"} : AdminUpdatesUser(r, n, d)
             \/ AdminDeletesUser(r, n)
             \/ UserChangesToken(r, n)
             \/ Login(r, n)
             \/ \E source \in {"ldap", "oauth"} : ExternalLogin(r, n, source)
      PROVE  PeersFollow'
  <2>1. PICK j : Begin(r, j)
    BY <1>3 DEF AdminCreatesUser, AdminUpdatesUser, AdminDeletesUser, UserChangesToken, Login,
       ExternalLogin
  <2>2. QED
    BY <1>2, <2>1
<1>4. ASSUME NEW p \in Peer, AdminCreatesPeer(p) PROVE PeersFollow'
  <2>1. Give(p, FALSE) /\ UNCHANGED <<row, conf, job, queue, hnd>>
    BY <1>4 DEF AdminCreatesPeer
  <2>2. \A t \in Topic \ Arrivals, q \in Peer : Coming(t, q) => Coming(t, q)'
    BY <2>1 DEF Coming
  <2>3. QED
    BY <2>1, <2>2, FollowAfterGive
<1>5. ASSUME NEW p \in Peer, NEW new \in {"no", "other", "gone"}, AdminChangesPeer(p, new)
      PROVE  PeersFollow'
  <2> SUFFICES ASSUME NEW q \in Peer, q \notin astray' PROVE Follows(q)'
    BY FollowsAll DEF PeersFollow, Follows
  <2>1. UNCHANGED <<row, conf, job, queue, hnd>> /\ q \notin astray
    BY <1>5 DEF AdminChangesPeer
  <2>2. /\ Coming("disabled", q) => Coming("disabled", q)'
        /\ Coming("deleted", q) => Coming("deleted", q)'
        /\ Coming("enabled", q) => Coming("enabled", q)'
    BY <2>1 DEF Coming
  <2>3. Follows(q)
    BY <2>1, FollowsAll
  <2>4. CASE q # p
    <3>1. peers'[q] = peers[q]
      BY <1>5, <2>4 DEF AdminChangesPeer, TypeOK
    <3>2. QED
      BY <2>1, <2>2, <2>3, <3>1, FollowsKeep
  <2>5. CASE q = p
    <3>1. CASE new = "gone"
      <4>1. peers'[q] = NoPeer
        BY <1>5, <2>5, <3>1 DEF AdminChangesPeer, TypeOK
      <4>2. QED
        BY <4>1 DEF Follows, Active, OffByUser, Linked
    <3>2. CASE new # "gone"
      <4>1. PICK z : z = peers[p]
        OBVIOUS
      <4>2. z \in PeerRow
        BY <1>5, <4>1 DEF AdminChangesPeer, TypeOK
      <4>3. peers'[q] = [z EXCEPT !.off = new]
        BY <1>5, <2>5, <3>2, <4>1 DEF AdminChangesPeer, TypeOK
      <4>4. peers'[q].off = new
        BY <4>2, <4>3 DEF PeerRow
      <4>5. CASE new = "no"
        <5>1. Enabled(row)'
          BY <1>5, <2>1, <2>5, <4>5 DEF AdminChangesPeer, Enabled
        <5>2. QED
          BY <4>4, <4>5, <5>1 DEF Follows, OffByUser
      <4>6. CASE new = "other"
        BY <4>4, <4>6 DEF Follows, Active, OffByUser
      <4>7. QED
        BY <3>2, <4>5, <4>6
    <3>3. QED
      BY <3>1, <3>2
  <2>6. QED
    BY <2>4, <2>5
<1>6. ASSUME NEW n \in Node, Crash(n) PROVE PeersFollow'
  BY <1>6 DEF Crash, PeersFollow
<1>7. ASSUME NEW n \in Node, NEW t \in Topic, NEW p \in Peer, ChangePeerFails(n, t, p)
      PROVE  PeersFollow'
  BY <1>7, FollowAfterChange
<1>8. QED
  BY <1>1, <1>3, <1>4, <1>5, <1>6, <1>7 DEF Environment

LEMMA JobFollows ==
  ASSUME TypeOK, JobShape, PeersFollow, NEW s \in Slot, JobStep(s)
  PROVE  PeersFollow'
<1>1. job[s].pc # "idle" => job[s] \in Job
  BY JobIsJob DEF TypeOK
<1>2. CASE \/ \E changed \in BOOLEAN : ProcessUserInfo(s, changed)
           \/ CheckCreate(s)
           \/ CheckUpdate(s)
  <2>1. job[s].pc # "publish" /\ UNCHANGED <<row, astray>> /\ \E j : Goto(s, j)
    BY <1>2 DEF ProcessUserInfo, CheckCreate, CheckUpdate
  <2>2. QED
    BY <2>1, FollowAfterGoto DEF Goto
<1>3. CASE SaveUser(s)
  <2>1. job[s] \in Job /\ job[s].pc = "save"
    BY <1>1, <1>3 DEF SaveUser
  <2>2. PICK x : x = (\/ job[s].event = "created"
                     \/ s \in Node
                     \/ job[s].seen # Status(row))
    OBVIOUS
  <2>3. Commit(job[s].new, job[s].event, x) /\ Goto(s, Announcing(job[s]))
    BY <1>3, <2>2 DEF SaveUser
  <2>4. Tells(job[s].event, job[s].new) \/ x \/ Status(job[s].new) = Status(row)
    BY <2>1, <2>2 DEF JobShape, Consistent, Tells
  <2>5. Tells(job[s].event, job[s].new) \/ x \/ Enabled(job[s].new) = Enabled(row)
    BY <2>4 DEF Status, Enabled
  <2>6. QED
    BY <2>1, <2>3, <2>5, FollowAfterCommit DEF Goto
<1>4. CASE DeleteUser(s)
  <2>1. job[s] \in Job /\ job[s].pc = "delete" /\ job[s].event = "deleted"
    BY <1>1, <1>4 DEF DeleteUser, JobShape, Consistent
  <2>2. Tells("deleted", NoUser)
    BY DEF Tells, Enabled
  <2>3. QED
    BY <1>4, <2>1, <2>2, FollowAfterCommit DEF DeleteUser
<1>5. CASE Publish(s)
  BY <1>5, FollowAfterPublish
<1>6. QED
  BY <1>2, <1>3, <1>4, <1>5 DEF JobStep

LEMMA SyncFollows ==
  ASSUME TypeOK, JobShape, PeersFollow, NEW n \in Node, SyncStep(n)
  PROVE  PeersFollow'
<1>1. n \in Slot /\ (job[n].pc # "idle" => job[n] \in Job)
  BY JobIsJob DEF TypeOK, Slot
<1>2. CASE FetchLdapUsers(n) \/ UpdateLdapUsers(n) \/ ScanMissing(n)
  <2>1. job[n].pc # "publish" /\ UNCHANGED <<row, astray>> /\ \E j : Goto(n, j)
    BY <1>2, JobIsJob DEF FetchLdapUsers, UpdateLdapUsers, ScanMissing
  <2>2. QED
    BY <1>1, <2>1, FollowAfterGoto DEF Goto
<1>3. CASE DisableMissing(n)
  <2>1. job[n] \in Job /\ job[n].pc = "disable" /\ job[n].event = "disabled"
    BY <1>1, <1>3 DEF DisableMissing, JobShape, Consistent
  <2>2. PICK u : u = IF row = NoUser
                       THEN [source |-> "db", attrs |-> NoEntry, disabled |-> "missing"]
                       ELSE [row EXCEPT !.disabled = "missing"]
    OBVIOUS
  <2>3. u.disabled = "missing"
    BY <2>2 DEF TypeOK, User
  <2>4. Tells("disabled", u)
    BY <2>3 DEF Tells, Enabled
  <2>5. Commit(u, "disabled", FALSE) /\ Goto(n, Announcing(job[n]))
    BY <1>3, <2>2 DEF DisableMissing
  <2>6. QED
    BY <1>1, <2>1, <2>4, <2>5, FollowAfterCommit DEF Goto
<1>4. QED
  BY <1>2, <1>3 DEF SyncStep

LEMMA HandlerFollows ==
  ASSUME TypeOK, HandlerShape, PeersFollow, NEW n \in Node, NEW t \in Topic, HandlerStep(n, t)
  PROVE  PeersFollow'
<1>1. CASE TakeChange(n, t)
  BY <1>1, FollowAfterTake
<1>2. ASSUME NEW p \in Peer, ChangePeer(n, t, p) PROVE PeersFollow'
  BY <1>2, FollowAfterChange
<1>3. CASE TakeArrival(n, t)
  <2>1. t \in Arrivals /\ \E w : Take(n, t, w)
    BY <1>3 DEF TakeArrival
  <2>2. QED
    BY <2>1, ComingAfterArrival, FollowQuiet DEF Take
<1>4. CASE PrepareDefaultPeer(n, t) \/ CreateDefaultPeerFails(n, t)
  <2>1. t \in Arrivals /\ UNCHANGED <<peers, astray>> /\ \E w : Continue(n, t, w)
    BY <1>4 DEF PrepareDefaultPeer, CreateDefaultPeerFails, HandlerShape
  <2>2. QED
    BY <2>1, ComingAfterArrival, FollowQuiet DEF Continue
<1>5. ASSUME NEW p \in Peer, CreateDefaultPeer(n, t, p) PROVE PeersFollow'
  <2>1. t \in Arrivals /\ Give(p, TRUE) /\ Continue(n, t, Rest)
    BY <1>5 DEF CreateDefaultPeer, HandlerShape
  <2>2. QED
    BY <2>1, ComingAfterArrival, FollowAfterGive DEF Continue
<1>6. QED
  BY <1>1, <1>2, <1>3, <1>4, <1>5 DEF HandlerStep

\* The peers of the user follow the user (see PeersFollow), whatever requests, logins, LDAP
\* synchronisations and handlers of any number of nodes do, in any order.
THEOREM PeersFollowHolds == Spec => []PeersFollow
<1>1. Init => PeersInv
  <2> SUFFICES ASSUME Init PROVE PeersInv
    OBVIOUS
  <2>1. JobShape
    BY JobIsJob, FreeJobs DEF Init, JobShape
  <2>2. PeersFollow
    BY DEF Init, PeersFollow, Active, OffByUser, Linked
  <2>3. QED
    BY <2>1, <2>2, TypeInit DEF PeersInv
<1>2. PeersInv /\ [Next]_vars => PeersInv'
  <2> SUFFICES ASSUME TypeOK, JobShape, HandlerShape, PeersFollow, [Next]_vars PROVE PeersInv'
    BY DEF PeersInv
  <2>1. TypeOK' /\ JobShape' /\ HandlerShape'
    BY TypeStep, JobShapeStep, HandlerShapeStep
  <2>2. PeersFollow'
    <3>1. CASE UNCHANGED vars
      <4>1. UNCHANGED <<row, conf, peers, astray, job, queue, hnd>>
        BY <3>1 DEF vars
      <4>2. QED
        BY <4>1, FollowQuiet DEF Coming
    <3>2. QED
      BY <3>1, EnvironmentFollows, JobFollows, SyncFollows, HandlerFollows DEF Next
  <2>3. QED
    BY <2>1, <2>2 DEF PeersInv
<1>3. QED
  BY <1>1, <1>2, PTL DEF Spec, PeersInv

-----------------------------------------------------------------------------
(* One default peer *)

\* What OneDefaultPeer asks while nothing is tangled.
Single ==
    \A p, q \in Peer : Linked(p) /\ Linked(q) /\ peers[p].auto /\ peers[q].auto => p = q

Calm == NoDeletion /\ AllLinked /\ OneArrival /\ NoneYet /\ Single

\* What is tangled stays tangled.
LEMMA TangledStays == TypeOK /\ [Next]_vars /\ ~tangled' => ~tangled
<1> SUFFICES ASSUME TypeOK, [Next]_vars, ~tangled' PROVE ~tangled
  OBVIOUS
<1>1. CASE UNCHANGED vars
  BY <1>1 DEF vars
<1>2. CASE Environment
  BY <1>2 DEF Environment, ChangeDirectory, Begin, AdminCreatesUser, AdminUpdatesUser,
     AdminDeletesUser, UserChangesToken, Login, ExternalLogin, AdminCreatesPeer, AdminChangesPeer,
     ChangePeerFails, Crash
<1>3. ASSUME NEW s \in Slot, JobStep(s) PROVE ~tangled
  BY <1>3 DEF JobStep, ProcessUserInfo, CheckCreate, CheckUpdate, SaveUser, DeleteUser, Publish,
     Goto
<1>4. ASSUME NEW n \in Node, SyncStep(n) PROVE ~tangled
  BY <1>4 DEF SyncStep, FetchLdapUsers, UpdateLdapUsers, ScanMissing, DisableMissing, Goto
<1>5. ASSUME NEW n \in Node, NEW t \in Topic, HandlerStep(n, t) PROVE ~tangled
  BY <1>5 DEF HandlerStep, TakeChange, TakeArrival, Take, PrepareDefaultPeer,
     CreateDefaultPeerFails, CreateDefaultPeer, ChangePeer, Continue
<1>6. QED
  BY <1>1, <1>2, <1>3, <1>4, <1>5 DEF Next

\* A job moves, and does not come to publish a deletion.
LEMMA CalmAfterJob ==
  ASSUME TypeOK, Calm, NEW s \in Slot, NEW j, ~(j.pc = "publish" /\ j.event = "deleted"),
         job' = [job EXCEPT ![s] = j], UNCHANGED <<peers, queue, hnd>>
  PROVE  Calm'
<1>1. NoDeletion'
  <2>1. \A x \in Slot : job'[x] = j \/ job'[x] = job[x]
    BY DEF TypeOK
  <2>2. QED
    BY <2>1 DEF NoDeletion, Calm
<1>2. AllLinked' /\ NoneYet' /\ Single'
  BY DEF Calm, AllLinked, NoneYet, Single, Linked
<1>3. OneArrival'
  BY DEF Calm, OneArrival, Arriving
<1>4. QED
  BY <1>1, <1>2, <1>3 DEF Calm

\* Nothing but the deletion of the user announces a deletion.
LEMMA NeverDeleted ==
  ASSUME NEW j \in Job
  PROVE  /\ ~(Following(j).pc = "publish" /\ Following(j).event = "deleted")
         /\ j.event # "deleted" =>
              ~(Announcing(j).pc = "publish" /\ Announcing(j).event = "deleted")
<1>1. ASSUME NEW k \in Job PROVE ~(Following(k).pc = "publish" /\ Following(k).event = "deleted")
  <2>1. [k EXCEPT !.pc = "scan", !.event = "none", !.next = "end"].pc = "scan"
    BY DEF Job
  <2>2. [k EXCEPT !.pc = "publish", !.event = "login", !.next = "end"].event = "login"
    BY DEF Job
  <2>3. QED
    BY <2>1, <2>2, JobIsJob DEF Following, Job
<1>2. PICK k : k = [j EXCEPT !.seen = "other"]
  OBVIOUS
<1>3. k \in Job
  BY <1>2 DEF Job
<1>4. j.event = "none" => Announcing(j) = Following(k)
  BY <1>2 DEF Announcing
<1>5. QED
  BY <1>1, <1>3, <1>4, FollowingFree

\* Peers change one at a time: what is left of a peer is linked and no more of a default
\* peer than before, and the handlers do not move on to create one.
LEMMA CalmPeers ==
  ASSUME TypeOK, Calm, NEW p \in Peer, \A q \in Peer : q # p => peers'[q] = peers[q],
         peers'[p] # NoPeer =>
            /\ peers'[p].linked
            /\ peers'[p].auto => peers[p] # NoPeer /\ peers[p].auto
  PROVE  /\ AllLinked' /\ Single'
         /\ (\A n \in Node, t \in Arrivals : hnd'[n][t].do = "save" => hnd[n][t].do = "save")
            => NoneYet'
<1>1. AllLinked'
  BY DEF Calm, AllLinked
<1>2. \A q \in Peer : peers'[q] # NoPeer /\ peers'[q].auto => Linked(q) /\ peers[q].auto
  BY DEF Calm, AllLinked, Linked
<1>3. Single'
  BY <1>2 DEF Calm, Single, Linked
<1>4. ASSUME \A n \in Node, t \in Arrivals : hnd'[n][t].do = "save" => hnd[n][t].do = "save"
      PROVE  NoneYet'
  BY <1>2, <1>4 DEF Calm, NoneYet, Linked
<1>5. QED
  BY <1>1, <1>3, <1>4

\* Handlers of arrivals neither start work nor get more of it.
LEMMA OneArrivalKeep ==
  ASSUME OneArrival,
         \A n \in Node, t \in Arrivals :
            /\ queue'[n][t] > 0 => queue[n][t] > 0
            /\ hnd'[n][t] # Rest => hnd[n][t] # Rest
  PROVE  OneArrival'
<1>1. \A n \in Node : Arriving(n)' => Arriving(n)
  BY DEF Arriving
<1>2. \A n \in Node : hnd'[n]["created"] = Rest \/ hnd'[n]["login"] = Rest
  BY Names DEF OneArrival
<1>3. QED
  BY <1>1, <1>2 DEF OneArrival

\* The handler of a change of the user moves.
LEMMA CalmAfterChange ==
  ASSUME TypeOK, Calm, NEW n \in Node, NEW t \in {"disabled", "enabled"}, NEW w,
         hnd' = [hnd EXCEPT ![n][t] = w],
         queue' = queue \/ queue' = [queue EXCEPT ![n][t] = @ - 1], UNCHANGED job
  PROVE  NoDeletion' /\ OneArrival'
         /\ \A m \in Node, u \in Arrivals : hnd'[m][u] = hnd[m][u]
<1>1. \A m \in Node, u \in Topic : u # t => hnd'[m][u] = hnd[m][u] /\ queue'[m][u] = queue[m][u]
  BY Names DEF TypeOK
<1>2. NoDeletion'
  BY <1>1, Names DEF Calm, NoDeletion
<1>3. \A m \in Node, u \in Arrivals : hnd'[m][u] = hnd[m][u] /\ queue'[m][u] = queue[m][u]
  BY <1>1, Names
<1>4. OneArrival'
  BY <1>3, OneArrivalKeep DEF Calm
<1>5. QED
  BY <1>2, <1>3, <1>4

LEMMA CalmEnvironment ==
  ASSUME TypeOK, HandlerShape, Calm, Environment
  PROVE  Calm'
<1>1. ASSUME NEW e, ChangeDirectory(e) PROVE Calm'
  BY <1>1 DEF ChangeDirectory, Calm, NoDeletion, AllLinked, OneArrival, Arriving, NoneYet, Single,
     Linked
<1>2. ASSUME NEW r \in Request, NEW j, Begin(r, j), ~(j.pc = "publish" /\ j.event = "deleted")
      PROVE  Calm'
  BY <1>2, CalmAfterJob DEF Begin, Slot
<1>3. ASSUME NEW r \in Request, NEW n \in Node,
             \/ \E d \in {"no", "admin"} : AdminCreatesUser(r, n, d)
             \/ \E d \in {"no", "admin", "missing"} : AdminUpdatesUser(r, n, d)
             \/ AdminDeletesUser(r, n)
             \/ Login(r, n)
             \/ \E source \in {"ldap", "oauth"} : ExternalLogin(r, n, source)
      PROVE  Calm'
  BY <1>2, <1>3 DEF AdminCreatesUser, AdminUpdatesUser, AdminDeletesUser, Login, ExternalLogin, Work
<1>4. ASSUME NEW r \in Request, NEW n \in Node, UserChangesToken(r, n) PROVE Calm'
  BY <1>2, <1>4 DEF UserChangesToken, Work
<1>5. ASSUME NEW p \in Peer,
             \/ AdminCreatesPeer(p)
             \/ \E new \in {"no", "other", "gone"} : AdminChangesPeer(p, new)
      PROVE  Calm'
  <2>1. UNCHANGED <<job, queue, hnd>>
    BY <1>5 DEF AdminCreatesPeer, AdminChangesPeer
  <2>2. \A q \in Peer : q # p => peers'[q] = peers[q]
    BY <1>5 DEF AdminCreatesPeer, Give, AdminChangesPeer, TypeOK
  <2>3. peers'[p] # NoPeer =>
           /\ peers'[p].linked
           /\ peers'[p].auto => peers[p] # NoPeer /\ peers[p].auto
    <3>1. CASE AdminCreatesPeer(p)
      <4>1. peers'[p] = [linked |-> TRUE, auto |-> FALSE, off |-> "no"]
        BY <3>1 DEF AdminCreatesPeer, Give, TypeOK
      <4>2. QED
        BY <4>1
    <3>2. ASSUME NEW new \in {"no", "other", "gone"}, AdminChangesPeer(p, new)
          PROVE  peers'[p] # NoPeer => peers'[p].linked
                                       /\ (peers'[p].auto => peers[p] # NoPeer /\ peers[p].auto)
      <4>1. PICK z : z = peers[p]
        OBVIOUS
      <4>2. z \in PeerRow /\ z.linked
        BY <3>2, <4>1 DEF AdminChangesPeer, TypeOK, Calm, AllLinked
      <4>3. peers'[p] = NoPeer \/ peers'[p] = [z EXCEPT !.off = new]
        BY <3>2, <4>1 DEF AdminChangesPeer, TypeOK
      <4>4. [z EXCEPT !.off = new].linked = z.linked /\ [z EXCEPT !.off = new].auto = z.auto
        BY <4>2 DEF PeerRow
      <4>5. QED
        BY <3>2, <4>1, <4>2, <4>3, <4>4 DEF AdminChangesPeer
    <3>3. QED
      BY <1>5, <3>1, <3>2
  <2>4. AllLinked' /\ Single' /\ NoneYet'
    BY <2>1, <2>2, <2>3, CalmPeers
  <2>5. NoDeletion' /\ OneArrival'
    BY <2>1 DEF Calm, NoDeletion, OneArrival, Arriving
  <2>6. QED
    BY <2>4, <2>5 DEF Calm
<1>6. ASSUME NEW n \in Node, Crash(n) PROVE Calm'
  <2>1. /\ queue' = [queue EXCEPT ![n] = [t \in Topic |-> 0]]
        /\ hnd' = [hnd EXCEPT ![n] = [t \in Topic |-> Rest]]
        /\ job' = [s \in Slot |-> IF job[s] # Idle /\ job[s].node = n THEN Idle ELSE job[s]]
        /\ UNCHANGED peers
    BY <1>6 DEF Crash
  <2>2. \A s \in Slot : job'[s] = Idle \/ job'[s] = job[s]
    BY <2>1
  <2>3. UNCHANGED peers
    BY <2>1
  <2>4. ASSUME NEW m \in Node, NEW t \in Topic
        PROVE  \/ queue'[m][t] = 0 /\ hnd'[m][t] = Rest
               \/ queue'[m][t] = queue[m][t] /\ hnd'[m][t] = hnd[m][t]
    <3>1. CASE m = n
      <4>1. queue'[n] = [u \in Topic |-> 0] /\ hnd'[n] = [u \in Topic |-> Rest]
        BY <2>1 DEF TypeOK
      <4>2. QED
        BY <3>1, <4>1
    <3>2. CASE m # n
      BY <2>1, <3>2 DEF TypeOK
    <3>3. QED
      BY <3>1, <3>2
  <2>5. NoDeletion'
    BY <2>2, <2>4, JobIsJob, Names DEF Calm, NoDeletion
  <2>6. OneArrival'
    BY <2>4, OneArrivalKeep, Names DEF Calm
  <2>7. NoneYet'
    BY <2>3, <2>4, TaskIsTask, Names DEF Calm, NoneYet
  <2>8. AllLinked' /\ Single'
    BY <2>3 DEF Calm, AllLinked, Single, Linked
  <2>9. QED
    BY <2>5, <2>6, <2>7, <2>8 DEF Calm
<1>7. ASSUME NEW n \in Node, NEW t \in Topic, NEW p \in Peer, ChangePeerFails(n, t, p)
      PROVE  Calm'
  <2>1. t \in {"disabled", "enabled"}
    BY <1>7, TaskIsTask, Names DEF ChangePeerFails, HandlerShape, Calm, NoDeletion
  <2>2. /\ hnd' = [hnd EXCEPT ![n][t] = Working(hnd[n][t].todo \ {p})]
        /\ UNCHANGED <<queue, job, peers>>
    BY <1>7 DEF ChangePeerFails
  <2>3. NoDeletion' /\ OneArrival' /\ \A m \in Node, u \in Arrivals : hnd'[m][u] = hnd[m][u]
    BY <2>1, <2>2, CalmAfterChange
  <2>4. UNCHANGED peers
    BY <2>2
  <2>5. AllLinked' /\ Single'
    BY <2>4 DEF Calm, AllLinked, Single, Linked
  <2>6. NoneYet'
    BY <2>3, <2>4 DEF Calm, NoneYet
  <2>7. QED
    BY <2>3, <2>5, <2>6 DEF Calm
<1>8. QED
  BY <1>1, <1>3, <1>4, <1>5, <1>6, <1>7 DEF Environment

LEMMA CalmJob ==
  ASSUME TypeOK, JobShape, Calm, NEW s \in Slot, JobStep(s), ~tangled'
  PROVE  Calm'
<1>1. job[s].pc # "idle" => job[s] \in Job
  BY JobIsJob DEF TypeOK
<1>2. ~(Idle.pc = "publish")
  BY JobIsJob
<1>3. ASSUME NEW j, Goto(s, j), ~(j.pc = "publish" /\ j.event = "deleted") PROVE Calm'
  BY <1>3, CalmAfterJob DEF Goto
<1>4. ASSUME NEW changed \in BOOLEAN, ProcessUserInfo(s, changed) PROVE Calm'
  <2>1. job[s] \in Job
    BY <1>1, <1>4 DEF ProcessUserInfo
  <2>2. /\ [job[s] EXCEPT !.pc = "publish", !.event = "login", !.next = "end"].event = "login"
        /\ [job[s] EXCEPT !.pc = "create"].pc = "create"
        /\ [job[s] EXCEPT !.pc = "check"].pc = "check"
    BY <2>1 DEF Job
  <2>3. PICK j : Goto(s, j) /\ ~(j.pc = "publish" /\ j.event = "deleted")
    BY <1>2, <1>4, <2>2 DEF ProcessUserInfo
  <2>4. QED
    BY <1>3, <2>3
<1>5. CASE CheckCreate(s)
  <2>1. [job[s] EXCEPT !.pc = "save", !.event = "created"].pc = "save"
    BY <1>1, <1>5 DEF CheckCreate, Job
  <2>2. QED
    BY <1>2, <1>3, <1>5, <2>1 DEF CheckCreate
<1>6. CASE CheckUpdate(s)
  <2>1. PICK e, st : e = ChangeEvent(row, job[s].new) /\ st = Status(row)
    OBVIOUS
  <2>2. [job[s] EXCEPT !.pc = "save", !.seen = st, !.event = e].pc = "save"
    BY <1>1, <1>6 DEF CheckUpdate, Job
  <2>3. QED
    BY <1>2, <1>3, <1>6, <2>1, <2>2 DEF CheckUpdate
<1>7. CASE SaveUser(s)
  <2>1. job[s] \in Job /\ job[s].event # "deleted"
    BY <1>1, <1>7 DEF SaveUser, JobShape, Consistent
  <2>2. QED
    BY <1>3, <1>7, <2>1, NeverDeleted DEF SaveUser
<1>8. CASE Publish(s)
  <2>1. job[s] \in Job
    BY <1>1, <1>8 DEF Publish
  <2>2. PICK n, e : n = job[s].node /\ e = job[s].event
    OBVIOUS
  <2>3. n \in Node /\ e # "deleted"
    BY <1>8, <2>1, <2>2 DEF Job, Publish, Calm, NoDeletion
  <2>4. queue' = [queue EXCEPT ![n][e] = @ + 1] /\ UNCHANGED <<peers, hnd>>
    BY <1>8, <2>2 DEF Publish
  <2>5. \A m \in Node, t \in Topic : m # n \/ t # e => queue'[m][t] = queue[m][t]
    BY <2>3, <2>4 DEF TypeOK
  <2>6. NoDeletion'
    <3>1. ~(Following(job[s]).pc = "publish" /\ Following(job[s]).event = "deleted")
      BY <2>1, NeverDeleted
    <3>2. \A x \in Slot : job'[x] = job[x] \/ job'[x] = Following(job[s])
      BY <1>8 DEF Publish, TypeOK
    <3>3. QED
      BY <2>3, <2>4, <2>5, <3>1, <3>2, Names DEF Calm, NoDeletion
  <2>7. OneArrival'
    <3>1. CASE e \in Arrivals
      <4>1. \A m \in Node : m # n => ~Arriving(m)
        BY <1>8, <2>2, <3>1 DEF Publish
      <4>2. \A m \in Node : m # n => ~Arriving(m)'
        BY <2>4, <2>5, <4>1, Names DEF Arriving
      <4>3. QED
        BY <2>4, <4>2 DEF Calm, OneArrival
    <3>2. CASE e \notin Arrivals
      <4>1. \A m \in Node, t \in Arrivals : queue'[m][t] = queue[m][t]
        BY <2>5, <3>2, Names
      <4>2. QED
        BY <2>4, <4>1, OneArrivalKeep DEF Calm
    <3>3. QED
      BY <3>1, <3>2
  <2>8. AllLinked' /\ NoneYet' /\ Single'
    BY <2>4 DEF Calm, AllLinked, NoneYet, Single, Linked
  <2>9. QED
    BY <2>6, <2>7, <2>8 DEF Calm
<1>9. ~DeleteUser(s)
  BY DEF DeleteUser
<1>10. QED
  BY <1>4, <1>5, <1>6, <1>7, <1>8, <1>9 DEF JobStep

\* A job that is not about to publish.
Elsewhere(j) == j.pc # "publish"

LEMMA CalmSync ==
  ASSUME TypeOK, JobShape, Calm, NEW n \in Node, SyncStep(n)
  PROVE  Calm'
<1>1. n \in Slot /\ (job[n].pc # "idle" => job[n] \in Job)
  BY JobIsJob DEF TypeOK, Slot
<1>2. ASSUME NEW j, Goto(n, j), ~(j.pc = "publish" /\ j.event = "deleted") PROVE Calm'
  BY <1>1, <1>2, CalmAfterJob DEF Goto
<1>3. CASE FetchLdapUsers(n)
  <2>1. PICK j : Goto(n, j) /\ j.pc \in {"scan", "ldap"}
    BY <1>3 DEF FetchLdapUsers, Work
  <2>2. QED
    BY <1>2, <2>1
<1>4. CASE UpdateLdapUsers(n)
  <2>1. job[n] \in Job
    BY <1>1, <1>4 DEF UpdateLdapUsers
  <2>2. ASSUME NEW pc \in {"create", "save", "scan"}, NEW u, NEW e \in {"enabled", "none"}, NEW x
        PROVE  Elsewhere([job[n] EXCEPT !.pc = pc, !.new = u, !.event = e, !.next = x])
    <3>1. PICK k : k = [job[n] EXCEPT !.pc = pc, !.new = u, !.event = e, !.next = x]
      OBVIOUS
    <3>2. k.pc = pc
      BY <2>1, <3>1 DEF Job
    <3>3. Elsewhere(k)
      BY <3>2 DEF Elsewhere
    <3>4. QED
      BY <3>1, <3>3
  <2>3. PICK j : Goto(n, j) /\ Elsewhere(j)
    BY <1>4, <2>2 DEF UpdateLdapUsers
  <2>4. QED
    BY <1>2, <2>3 DEF Elsewhere
<1>5. CASE ScanMissing(n)
  <2>1. [job[n] EXCEPT !.pc = "disable", !.event = "disabled"].pc = "disable"
    BY <1>1, <1>5 DEF ScanMissing, Job
  <2>2. QED
    BY <1>2, <1>5, <2>1, JobIsJob DEF ScanMissing
<1>6. CASE DisableMissing(n)
  <2>1. job[n] \in Job /\ job[n].event # "deleted"
    BY <1>1, <1>6 DEF DisableMissing, JobShape, Consistent
  <2>2. QED
    BY <1>2, <1>6, <2>1, NeverDeleted DEF DisableMissing
<1>7. QED
  BY <1>3, <1>4, <1>5, <1>6 DEF SyncStep

\* The handler of an arrival moves to work w.
LEMMA CalmAfterArrival ==
  ASSUME TypeOK, Calm, NEW n \in Node, NEW t \in Arrivals, NEW w,
         hnd' = [hnd EXCEPT ![n][t] = w],
         queue' = queue \/ (queue[n][t] > 0 /\ queue' = [queue EXCEPT ![n][t] = @ - 1]),
         UNCHANGED job,
         queue[n][t] > 0 \/ hnd[n][t] # Rest,
         w = Rest \/ hnd[n][t] # Rest \/ ~Busy(n, t)
  PROVE  NoDeletion' /\ OneArrival'
<1>1. \A m \in Node, u \in Topic :
         m # n \/ u # t => hnd'[m][u] = hnd[m][u] /\ queue'[m][u] = queue[m][u]
  BY Names DEF TypeOK
<1>2. hnd'[n][t] = w
  BY Names DEF TypeOK
<1>3. NoDeletion'
  BY <1>1, Names DEF Calm, NoDeletion
<1>4. \A m \in Node : Arriving(m)' => Arriving(m)
  <2> SUFFICES ASSUME NEW m \in Node, Arriving(m)' PROVE Arriving(m)
    OBVIOUS
  <2>1. CASE m = n
    BY <2>1 DEF Arriving
  <2>2. CASE m # n
    BY <1>1, <2>2, Names DEF Arriving
  <2>3. QED
    BY <2>1, <2>2
<1>5. \A m \in Node : hnd'[m]["created"] = Rest \/ hnd'[m]["login"] = Rest
  <2> SUFFICES ASSUME NEW m \in Node PROVE hnd'[m]["created"] = Rest \/ hnd'[m]["login"] = Rest
    OBVIOUS
  <2>1. CASE m # n
    BY <1>1, <2>1, Names DEF Calm, OneArrival
  <2>2. CASE m = n
    <3>1. w = Rest \/ \A u \in Arrivals : u # t => hnd[n][u] = Rest
      BY Names DEF Calm, OneArrival, Busy
    <3>2. QED
      BY <1>1, <1>2, <2>2, <3>1, Names
  <2>3. QED
    BY <2>1, <2>2
<1>6. OneArrival'
  BY <1>4, <1>5 DEF Calm, OneArrival
<1>7. QED
  BY <1>3, <1>6

\* Of the handlers of arrivals, only that of topic t on node n moves, to work w.
OnlyMoves(n, t, w) ==
    /\ \A m \in Node, u \in Arrivals : m # n \/ u # t => hnd'[m][u] = hnd[m][u]
    /\ hnd'[n][t] = w

LEMMA OneHandlerMoves ==
  ASSUME TypeOK, NEW n \in Node, NEW t \in Arrivals, NEW w, hnd' = [hnd EXCEPT ![n][t] = w]
  PROVE  OnlyMoves(n, t, w)
<1>1. t \in Topic /\ Arrivals \subseteq Topic
  BY Names
<1>2. QED
  BY <1>1 DEF TypeOK, OnlyMoves

LEMMA CalmHandler ==
  ASSUME TypeOK, HandlerShape, Calm, NEW n \in Node, NEW t \in Topic, HandlerStep(n, t)
  PROVE  Calm'
<1>1. CASE TakeChange(n, t)
  <2>1. t \in {"disabled", "enabled"}
    BY <1>1, Names DEF TakeChange, Take, Calm, NoDeletion
  <2>2. /\ hnd' = [hnd EXCEPT ![n][t] = Working(ToDo(t))]
        /\ queue' = [queue EXCEPT ![n][t] = @ - 1]
        /\ UNCHANGED <<job, peers>>
    BY <1>1 DEF TakeChange, Take
  <2>3. NoDeletion' /\ OneArrival' /\ \A m \in Node, u \in Arrivals : hnd'[m][u] = hnd[m][u]
    BY <2>1, <2>2, CalmAfterChange
  <2>4. UNCHANGED peers
    BY <2>2
  <2>5. AllLinked' /\ Single'
    BY <2>4 DEF Calm, AllLinked, Single, Linked
  <2>6. NoneYet'
    BY <2>3, <2>4 DEF Calm, NoneYet
  <2>7. QED
    BY <2>3, <2>5, <2>6 DEF Calm
<1>2. ASSUME NEW p \in Peer, ChangePeer(n, t, p) PROVE Calm'
  <2>1. t \in {"disabled", "enabled"}
    BY <1>2, TaskIsTask, Names DEF ChangePeer, HandlerShape, Calm, NoDeletion
  <2>2. /\ hnd' = [hnd EXCEPT ![n][t] = Working(hnd[n][t].todo \ {p})]
        /\ UNCHANGED <<queue, job>>
    BY <1>2 DEF ChangePeer, Continue
  <2>3. NoDeletion' /\ OneArrival' /\ \A m \in Node, u \in Arrivals : hnd'[m][u] = hnd[m][u]
    BY <2>1, <2>2, CalmAfterChange
  <2>4. \A q \in Peer : q # p => peers'[q] = peers[q]
    BY <1>2 DEF ChangePeer, TypeOK
  <2>5. peers'[p] # NoPeer =>
           /\ peers'[p].linked
           /\ peers'[p].auto => peers[p] # NoPeer /\ peers[p].auto
    <3>1. CASE peers[p] = NoPeer
      BY <1>2, <3>1 DEF ChangePeer
    <3>2. CASE peers[p] # NoPeer
      <4>1. PICK z : z = Changed(t, p)
        OBVIOUS
      <4>2. peers'[p] = z
        BY <1>2, <3>2, <4>1 DEF ChangePeer, TypeOK
      <4>3. z.linked /\ z.auto = peers[p].auto
        BY <2>1, <4>1 DEF Changed
      <4>4. QED
        BY <3>2, <4>2, <4>3
    <3>3. QED
      BY <3>1, <3>2
  <2>6. AllLinked' /\ Single' /\ NoneYet'
    BY <2>3, <2>4, <2>5, CalmPeers
  <2>7. QED
    BY <2>3, <2>6 DEF Calm
<1>3. CASE TakeArrival(n, t)
  <2>1. PICK w : /\ Take(n, t, w)
                 /\ w.do # "save"
                 /\ w = Rest \/ ~Busy(n, t)
    BY <1>3, TaskIsTask DEF TakeArrival
  <2>2. t \in Arrivals
    BY <1>3 DEF TakeArrival
  <2>3. NoDeletion' /\ OneArrival' /\ OnlyMoves(n, t, w)
    <3>1. /\ hnd' = [hnd EXCEPT ![n][t] = w]
          /\ queue[n][t] > 0
          /\ queue' = [queue EXCEPT ![n][t] = @ - 1]
          /\ UNCHANGED job
      BY <2>1 DEF Take
    <3>2. NoDeletion' /\ OneArrival'
      BY <2>1, <2>2, <3>1, CalmAfterArrival
    <3>3. QED
      BY <2>1, <2>2, <3>1, <3>2, OneHandlerMoves
  <2>4. AllLinked' /\ Single'
    BY <2>1 DEF Take, Calm, AllLinked, Single, Linked
  <2>5. NoneYet'
    BY <2>1, <2>3 DEF Take, Calm, NoneYet, OnlyMoves
  <2>6. QED
    BY <2>3, <2>4, <2>5 DEF Calm
<1>4. CASE PrepareDefaultPeer(n, t) \/ CreateDefaultPeerFails(n, t)
  <2>1. t \in Arrivals /\ hnd[n][t] # Rest /\ UNCHANGED peers
    BY <1>4, TaskIsTask DEF PrepareDefaultPeer, CreateDefaultPeerFails, HandlerShape
  <2>2. PICK w : Continue(n, t, w) /\ (w.do = "save" => \A p \in Peer : ~Linked(p))
    BY <1>4, TaskIsTask DEF PrepareDefaultPeer, CreateDefaultPeerFails
  <2>3. NoDeletion' /\ OneArrival' /\ OnlyMoves(n, t, w)
    <3>1. hnd' = [hnd EXCEPT ![n][t] = w] /\ UNCHANGED <<queue, job>>
      BY <2>2 DEF Continue
    <3>2. NoDeletion' /\ OneArrival'
      BY <2>1, <3>1, CalmAfterArrival
    <3>3. QED
      BY <2>1, <3>1, <3>2, OneHandlerMoves
  <2>4. AllLinked' /\ Single'
    BY <2>1 DEF Calm, AllLinked, Single, Linked
  <2>5. w.do = "save" => \A p \in Peer : peers[p] = NoPeer
    BY <2>2 DEF Calm, AllLinked, Linked
  <2>6. NoneYet'
    BY <2>1, <2>3, <2>5 DEF Calm, NoneYet, OnlyMoves
  <2>7. QED
    BY <2>3, <2>4, <2>6 DEF Calm
<1>5. ASSUME NEW p \in Peer, CreateDefaultPeer(n, t, p) PROVE Calm'
  <2>1. t \in Arrivals /\ hnd[n][t] # Rest /\ hnd[n][t].do = "save"
    BY <1>5, TaskIsTask DEF CreateDefaultPeer, HandlerShape
  <2>2. NoDeletion' /\ OneArrival' /\ OnlyMoves(n, t, Rest)
    <3>1. hnd' = [hnd EXCEPT ![n][t] = Rest] /\ UNCHANGED <<queue, job>>
      BY <1>5 DEF CreateDefaultPeer, Continue
    <3>2. NoDeletion' /\ OneArrival'
      BY <2>1, <3>1, CalmAfterArrival
    <3>3. QED
      BY <2>1, <3>1, <3>2, OneHandlerMoves
  <2>3. \A q \in Peer : IF q = p THEN peers'[q] = [linked |-> TRUE, auto |-> TRUE, off |-> "no"]
                                 ELSE peers'[q] = peers[q]
    BY <1>5 DEF CreateDefaultPeer, Give, TypeOK
  <2>4. \A q \in Peer : peers[q] # NoPeer => ~peers[q].auto
    BY <2>1 DEF Calm, NoneYet
  <2>5. AllLinked'
    BY <2>3 DEF Calm, AllLinked
  <2>6. Single'
    BY <2>3, <2>4 DEF Single, Linked
  <2>7. \A m \in Node, u \in Arrivals : hnd'[m][u] = Rest
    <3> SUFFICES ASSUME NEW m \in Node, NEW u \in Arrivals PROVE hnd'[m][u] = Rest
      OBVIOUS
    <3>1. CASE m = n
      BY <2>1, <2>2, <3>1, Names DEF Calm, OneArrival, OnlyMoves
    <3>2. CASE m # n
      <4>1. Arriving(n)
        BY <2>1 DEF Arriving
      <4>2. ~Arriving(m)
        BY <3>2, <4>1 DEF Calm, OneArrival
      <4>3. QED
        BY <2>2, <3>2, <4>2 DEF Arriving, OnlyMoves
    <3>3. QED
      BY <3>1, <3>2
  <2>8. NoneYet'
    BY <2>7, TaskIsTask DEF NoneYet
  <2>9. QED
    BY <2>2, <2>5, <2>6, <2>8 DEF Calm
<1>6. QED
  BY <1>1, <1>2, <1>3, <1>4, <1>5 DEF HandlerStep

\* The creation of the user and the first login give the user at most one default peer, on
\* any number of nodes, as long as one node at a time handles them and the user is not
\* deleted (see OneDefaultPeer).
THEOREM OneDefaultPeerHolds == Spec => []OneDefaultPeer
<1> DEFINE Inv == TypeOK /\ JobShape /\ HandlerShape /\ ArrivalInv /\ OneDefaultPeer
<1>0. /\ (~tangled => Calm) <=> ArrivalInv /\ OneDefaultPeer
      /\ ((~tangled => Calm) <=> ArrivalInv /\ OneDefaultPeer)'
  BY DEF Calm, Single, ArrivalInv, OneDefaultPeer
<1>1. Init => Inv
  <2> SUFFICES ASSUME Init PROVE Inv
    OBVIOUS
  <2>1. JobShape
    BY JobIsJob, FreeJobs DEF Init, JobShape
  <2>2. /\ \A n \in Node, t \in Topic : queue[n][t] = 0 /\ hnd[n][t] = Rest
        /\ \A p \in Peer : peers[p] = NoPeer
        /\ \A s \in Slot : job[s] = Idle
    BY DEF Init
  <2>3. NoDeletion /\ AllLinked /\ Single
    BY <2>2, JobIsJob, Names DEF NoDeletion, AllLinked, Single, Linked
  <2>4. OneArrival /\ NoneYet
    BY <2>2, Names DEF OneArrival, Arriving, NoneYet
  <2>5. QED
    BY <1>0, <2>1, <2>3, <2>4, TypeInit DEF Calm
<1>2. Inv /\ [Next]_vars => Inv'
  <2> SUFFICES ASSUME Inv, [Next]_vars PROVE Inv'
    OBVIOUS
  <2>1. TypeOK' /\ JobShape' /\ HandlerShape'
    BY TypeStep, JobShapeStep, HandlerShapeStep
  <2>2. ASSUME ~tangled' PROVE Calm'
    <3>1. Calm
      BY <1>0, <2>2, TangledStays
    <3>2. CASE UNCHANGED vars
      <4>1. UNCHANGED <<peers, job, queue, hnd>>
        BY <3>2 DEF vars
      <4>2. QED
        BY <3>1, <4>1 DEF Calm, NoDeletion, AllLinked, OneArrival, Arriving, NoneYet, Single, Linked
    <3>3. QED
      BY <2>2, <3>1, <3>2, CalmEnvironment, CalmJob, CalmSync, CalmHandler DEF Next
  <2>3. QED
    BY <1>0, <2>1, <2>2
<1>3. QED
  BY <1>1, <1>2, PTL DEF Spec
=============================================================================
