-------------------------- MODULE WebSessionProofs --------------------------
(***************************************************************************)
(* Proofs about WebSession.  First what every action does, in terms of the *)
(* calls that leave the set and the calls that are sent (Grow, Served,     *)
(* Loaded); then that the steps keep the shape, the numbers and cookies of *)
(* the calls and the start-up of a page (Basic); then, for orderly runs,   *)
(* the order of the calls (Plain), what can no longer be applied in order  *)
(* (Doomed), and that browser and server agree when nothing is (Agrees).   *)
(***************************************************************************)
EXTENDS WebSession, SequenceTheorems, TLAPS

-----------------------------------------------------------------------------
(* Sequences of calls to send, and the sets they stand for *)

SpecSet == [kind : Kinds, from : Froms \ {"gone"}, dest : Pages \cup {"none"}]
Has(specs) == {specs[n] : n \in DOMAIN specs}
SpecOf(c) == Spec0(c.kind, c.from, c.dest)

\* What a sequence of no, of one, and of two parts holds.
LEMMA HasNone == Has(<<>>) = {} /\ <<>> \in Seq(SpecSet)
  BY DEF Has

\* One part.
LEMMA HasOne ==
    ASSUME NEW s \in SpecSet
    PROVE  Has(<<s>>) = {s} /\ <<s>> \in Seq(SpecSet)
  BY DEF Has

\* Two sequences, one after the other.
LEMMA HasTwo ==
    ASSUME NEW s \in Seq(SpecSet), NEW t \in Seq(SpecSet)
    PROVE  Has(s \o t) = Has(s) \cup Has(t) /\ s \o t \in Seq(SpecSet)
  <1>1. /\ s \o t \in Seq(SpecSet)
        /\ Len(s \o t) = Len(s) + Len(t)
        /\ \A i \in 1 .. Len(s) + Len(t) : (s \o t)[i] = IF i <= Len(s) THEN s[i] ELSE t[i - Len(s)]
    BY ConcatProperties
  <1>2. DOMAIN (s \o t) = 1 .. Len(s) + Len(t) /\ DOMAIN s = 1 .. Len(s) /\ DOMAIN t = 1 .. Len(t)
    BY <1>1
  <1>3. ASSUME NEW n \in DOMAIN (s \o t)
        PROVE  (s \o t)[n] \in Has(s) \cup Has(t)
    <2>1. CASE n <= Len(s)
      BY <1>1, <1>2, <2>1 DEF Has
    <2>2. CASE ~(n <= Len(s))
      <3>1. n - Len(s) \in DOMAIN t
        BY <1>2, <2>2
      <3> QED
        BY <1>1, <1>2, <2>2, <3>1 DEF Has
    <2> QED
      BY <2>1, <2>2
  <1>4. ASSUME NEW n \in DOMAIN s
        PROVE  s[n] \in Has(s \o t)
    BY <1>1, <1>2 DEF Has
  <1>5. ASSUME NEW n \in DOMAIN t
        PROVE  t[n] \in Has(s \o t)
    <2>1. n + Len(s) \in DOMAIN (s \o t) /\ ~(n + Len(s) <= Len(s)) /\ (n + Len(s)) - Len(s) = n
      BY <1>2
    <2> QED
      BY <1>1, <1>2, <2>1 DEF Has
  <1> QED
    BY <1>1, <1>3, <1>4, <1>5 DEF Has

-----------------------------------------------------------------------------
(* What a step does to the calls in flight *)

\* Members of the sets that TypeOK names.
LEMMA CodesTyped ==
    /\ 0 \in Codes /\ 200 \in Codes /\ 400 \in Codes /\ 401 \in Codes /\ 403 \in Codes
    /\ NoUser \in Names /\ Anon \in Names /\ \A u \in Users \cup {NoUser} : u \in Names
  BY DEF Codes, Names

\* A call that is sent in this step.
FreshCall(d) ==
    /\ d \in Calls(issued', Len(sess')) /\ d.no > issued
    /\ d.st = "sent" /\ d.set = 0 /\ d.code = 0 /\ d.sid = cookie' /\ d.from # "gone"

\* Calls leave the set and the calls of K are sent.
Grow(gone, K) ==
    /\ issued' \in Nat /\ issued' >= issued
    /\ \A d \in calls' : d \in calls \ gone \/ (FreshCall(d) /\ SpecOf(d) \in K)
    /\ \A d \in calls \ gone : d \in calls'
    /\ \A c, d \in calls' : FreshCall(c) /\ FreshCall(d) /\ c.no = d.no => c = d
    /\ \A k \in K : \E d \in calls' : FreshCall(d) /\ SpecOf(d) = k

\* The call for one member of a sequence.
LEMMA CallFresh ==
    ASSUME TypeOK, NEW specs \in Seq(SpecSet), NEW n \in DOMAIN specs,
           issued' = issued + Len(specs), cookie' \in 0 .. Len(sess'), token' \in 0 .. issued',
           Len(sess') \in Nat
    PROVE  FreshCall(Call(specs[n], n)) /\ SpecOf(Call(specs[n], n)) = specs[n] /\ Call(specs[n], n).no = issued + n
  <1> DEFINE s == specs[n]
  <1>1. s \in SpecSet /\ n \in 1 .. Len(specs) /\ issued \in Nat /\ Len(specs) \in Nat
    BY DEF TypeOK
  <1>2. issued + n \in 1 .. issued' /\ issued + n > issued
    BY <1>1
  <1>3. NoUser \in Names /\ 0 \in 0 .. Len(sess') /\ s.from \in Froms /\ s.from # "gone"
    BY <1>1, CodesTyped DEF SpecSet
  <1>4. Call(s, n) \in Calls(issued', Len(sess'))
    BY <1>1, <1>2, <1>3 DEF Call, Calls, SpecSet, Stages, Codes
  <1>5. SpecOf(Call(s, n)) = s
    BY <1>1 DEF SpecOf, Spec0, SpecSet, Call
  <1> QED
    BY <1>2, <1>3, <1>4, <1>5 DEF Call, FreshCall

\* Send, as the rest of the proofs use it.
LEMMA SendGrows ==
    ASSUME TypeOK, NEW specs \in Seq(SpecSet), NEW gone, Send(gone, specs),
           cookie' \in 0 .. Len(sess'), token' \in 0 .. issued', Len(sess') \in Nat
    PROVE  Grow(gone, Has(specs))
  <1>1. /\ issued' = issued + Len(specs) /\ issued \in Nat /\ Len(specs) \in Nat
        /\ calls' = (calls \ gone) \cup {Call(specs[n], n) : n \in DOMAIN specs}
    BY DEF Send, TypeOK
  <1>2. \A n \in DOMAIN specs : /\ FreshCall(Call(specs[n], n)) /\ SpecOf(Call(specs[n], n)) = specs[n]
                                /\ Call(specs[n], n).no = issued + n
    BY <1>1, CallFresh
  <1>3. \A d \in calls : d.no <= issued
    BY DEF TypeOK, Calls
  <1>4. ASSUME NEW c \in calls', NEW d \in calls', FreshCall(c), FreshCall(d), c.no = d.no
        PROVE  c = d
    <2>1. c \notin calls /\ d \notin calls
      BY <1>3, <1>4 DEF FreshCall, TypeOK, Calls
    <2>2. PICK n \in DOMAIN specs : c = Call(specs[n], n)
      BY <1>1, <2>1
    <2>3. PICK m \in DOMAIN specs : d = Call(specs[m], m)
      BY <1>1, <2>1
    <2>4. n = m
      BY <1>1, <1>2, <1>4, <2>2, <2>3
    <2> QED
      BY <2>2, <2>3, <2>4
  <1>5. \A d \in calls' : d \in calls \ gone \/ (FreshCall(d) /\ SpecOf(d) \in Has(specs))
    BY <1>1, <1>2 DEF Has
  <1>6. \A k \in Has(specs) : \E d \in calls' : FreshCall(d) /\ SpecOf(d) = k
    BY <1>1, <1>2 DEF Has
  <1> QED
    BY <1>1, <1>4, <1>5, <1>6 DEF Grow

\* The shapes grow with the numbers of calls and sessions.
LEMMA ShapesGrow ==
    ASSUME NEW i \in Nat, NEW j \in Nat, i <= j, NEW l \in Nat, NEW m \in Nat, l <= m
    PROVE  /\ Calls(i, l) \subseteq Calls(j, m)
           /\ Sessions(i) \subseteq Sessions(j)
           /\ Seq(Sessions(i)) \subseteq Seq(Sessions(j))
  <1>1. 1 .. i \subseteq 1 .. j /\ 0 .. i \subseteq 0 .. j /\ 0 .. l \subseteq 0 .. m
    OBVIOUS
  <1>2. Calls(i, l) \subseteq Calls(j, m)
    BY <1>1 DEF Calls
  <1>3. Sessions(i) \subseteq Sessions(j)
    BY <1>1 DEF Sessions
  <1>4. ASSUME NEW s \in Seq(Sessions(i))
        PROVE  s \in Seq(Sessions(j))
    BY <1>3, <1>4
  <1> QED
    BY <1>2, <1>3, <1>4

\* The calls keep their shape.
LEMMA GrowTyped ==
    ASSUME TypeOK, NEW gone, NEW K, Grow(gone, K), Len(sess') \in Nat, Len(sess') >= Len(sess)
    PROVE  /\ calls' \subseteq Calls(issued', Len(sess'))
           /\ Sessions(issued) \subseteq Sessions(issued')
           /\ Seq(Sessions(issued)) \subseteq Seq(Sessions(issued'))
  <1>1. issued \in Nat /\ issued' \in Nat /\ issued <= issued' /\ Len(sess) \in Nat /\ Len(sess) <= Len(sess')
    BY DEF TypeOK, Grow
  <1>2. /\ Calls(issued, Len(sess)) \subseteq Calls(issued', Len(sess'))
        /\ Sessions(issued) \subseteq Sessions(issued')
        /\ Seq(Sessions(issued)) \subseteq Seq(Sessions(issued'))
    BY <1>1, ShapesGrow
  <1>3. calls' \subseteq Calls(issued', Len(sess'))
    BY <1>2 DEF Grow, FreshCall, TypeOK
  <1> QED
    BY <1>2, <1>3

CsrfSpec == Spec0("csrf", "nav", "none")
LogoutSpec == Spec0("logout", "logout", "none")

\* A call to send has its shape.
LEMMA SpecsTyped ==
    ASSUME NEW kind \in Kinds, NEW from \in Froms \ {"gone"}, NEW dest \in Pages \cup {"none"}
    PROVE  /\ Spec0(kind, from, dest) \in SpecSet
           /\ Has(<<Spec0(kind, from, dest)>>) = {Spec0(kind, from, dest)}
           /\ <<Spec0(kind, from, dest)>> \in Seq(SpecSet)
  <1>1. Spec0(kind, from, dest) \in SpecSet
    BY DEF Spec0, SpecSet
  <1> QED
    BY <1>1, HasOne

\* What afterEach and Logout send.
LEMMA AfterEach ==
    ASSUME NEW p
    PROVE  /\ afterEach(p) \in Seq(SpecSet)
           /\ Has(afterEach(p)) \subseteq {CsrfSpec}
           /\ p \in csrfPages => Has(afterEach(p)) = {CsrfSpec}
  BY HasNone, SpecsTyped DEF afterEach, CsrfSpec, Kinds, Froms

\* What Logout sends.
LEMMA LogoutSent == LogoutCall \in Seq(SpecSet) /\ Has(LogoutCall) = {LogoutSpec}
  BY SpecsTyped DEF LogoutCall, LogoutSpec, Kinds, Froms

\* handleResponse sends a logout or nothing.
LEMMA AutoSent ==
    ASSUME NEW c
    PROVE  /\ AutoLogout(c) \in Seq(SpecSet)
           /\ Has(AutoLogout(c)) = IF c.code = 401 /\ user # NoUser THEN {LogoutSpec} ELSE {}
           /\ (AutoLogout(c) = <<>>) <=> ~(c.code = 401 /\ user # NoUser)
  <1>1. LogoutCall # <<>>
    BY DEF LogoutCall
  <1> QED
    BY <1>1, HasNone, LogoutSent DEF AutoLogout

-----------------------------------------------------------------------------
(* What each action does *)

\* The person sends something from the page in front of them.
PersonStep(K) ==
    /\ Grow({}, K) /\ K \subseteq SpecSet
    /\ UNCHANGED <<sess, cookie, token, boot, was, want>>
    /\ page # "loading" /\ page' # "loading" /\ page' \in Pages
    /\ \A k \in K : k.kind \notin {"session", "prompt", "finish"} /\ k.from \notin {"boot", "oauth"}
    /\ orderly' => orderly /\ (boot = "done" \/ \A k \in K : k.kind \in {"csrf", "write"})
    /\ \/ user' = user /\ LogoutSpec \notin K
       \/ user' = NoUser /\ K = {LogoutSpec} /\ page' = page
    /\ page' \in Restricted => user' # NoUser \/ LogoutSpec \in K \/ (page \in Restricted /\ user = NoUser)
    /\ \A k \in K : k.kind = "logout" => k = LogoutSpec
    /\ stored' = user' /\ ret' \in Restricted \cup {"none"} /\ loggingIn' \in BOOLEAN /\ orderly' \in BOOLEAN

\* A navigation sends a call for a token, or nothing, and beforeEach keeps strangers out.
LEMMA NavigateDoes ==
    ASSUME TypeOK, NEW to \in Pages, Navigate(to)
    PROVE  \E K : PersonStep(K)
  <1> DEFINE K == Has(afterEach(page'))
  <1>1. Send({}, afterEach(page')) /\ UNCHANGED <<user, stored, token, cookie, boot, was, sess, want, orderly>>
    BY DEF Navigate
  <1>2. afterEach(page') \in Seq(SpecSet) /\ K \subseteq {CsrfSpec}
    BY AfterEach
  <1>3. cookie' \in 0 .. Len(sess') /\ Len(sess') \in Nat /\ token' \in 0 .. issued'
    <2>1. issued' = issued + Len(afterEach(page')) /\ Len(afterEach(page')) \in Nat
      BY <1>1, <1>2 DEF Send
    <2> QED
      BY <1>1, <2>1 DEF TypeOK
  <1>4. Grow({}, K)
    BY <1>1, <1>2, <1>3, SendGrows
  <1>5. CsrfSpec # LogoutSpec /\ CsrfSpec.kind = "csrf" /\ CsrfSpec.from = "nav" /\ CsrfSpec \in SpecSet
    BY SpecsTyped DEF CsrfSpec, LogoutSpec, Spec0, Kinds, Froms
  <1>6. page # "loading" /\ page' = Lands(to, user) /\ ret' = (IF page' = to THEN ret ELSE to) /\ loggingIn' = FALSE
    BY DEF Navigate
  <1>7. page' \in Pages /\ page' # "loading" /\ (page' \in Restricted => user # NoUser)
    BY <1>6, SessionAssumption DEF Lands, Pages, Public
  <1>8. ret' \in Restricted \cup {"none"}
    BY <1>6 DEF Lands, TypeOK
  <1>9. PersonStep(K)
    <2> HIDE DEF K
    <2> QED
      BY <1>1, <1>2, <1>4, <1>5, <1>6, <1>7, <1>8 DEF PersonStep, TypeOK
  <1> QED
    BY <1>9

\* The other things a person does send one call.
LEMMA OneSent ==
    ASSUME TypeOK, NEW kind \in Kinds, NEW from \in Froms \ {"gone"},
           UNCHANGED <<sess, cookie, token>>, Send({}, <<Spec0(kind, from, "none")>>)
    PROVE  Grow({}, {Spec0(kind, from, "none")}) /\ Spec0(kind, from, "none") \in SpecSet
  <1> DEFINE specs == <<Spec0(kind, from, "none")>>
  <1>1. specs \in Seq(SpecSet) /\ Has(specs) = {Spec0(kind, from, "none")} /\ Spec0(kind, from, "none") \in SpecSet
    BY SpecsTyped
  <1>2. issued' = issued + Len(specs) /\ Len(specs) \in Nat
    BY <1>1 DEF Send
  <1>3. cookie' \in 0 .. Len(sess') /\ Len(sess') \in Nat /\ token' \in 0 .. issued'
    BY <1>2 DEF TypeOK
  <1> HIDE DEF specs
  <1>4. Send({}, specs)
    BY DEF specs
  <1> QED
    BY <1>1, <1>3, <1>4, SendGrows

\* A logout forgets the user at once and sends its call.
LEMMA ClickLogoutDoes ==
    ASSUME TypeOK, ClickLogout
    PROVE  PersonStep({LogoutSpec})
  <1>1. /\ user' = NoUser /\ stored' = NoUser /\ ret' = "none" /\ page # "loading"
        /\ UNCHANGED <<page, token, cookie, boot, was, loggingIn, sess, want>>
        /\ orderly' = (orderly /\ boot = "done")
        /\ Send({}, <<Spec0("logout", "logout", "none")>>)
    BY DEF ClickLogout, setUserInfo, Settled, LogoutCall
  <1>2. "logout" \in Kinds /\ "logout" \in Froms \ {"gone"}
    BY DEF Kinds, Froms
  <1>3. Grow({}, {LogoutSpec}) /\ LogoutSpec \in SpecSet
    BY <1>1, <1>2, OneSent DEF LogoutSpec
  <1>4. LogoutSpec.kind = "logout" /\ LogoutSpec.from = "logout"
    BY DEF LogoutSpec, Spec0
  <1> QED
    BY <1>1, <1>3, <1>4 DEF PersonStep, TypeOK

\* Login form, passkey button and writes send one call.
LEMMA SubmitDoes ==
    ASSUME TypeOK, SubmitLogin \/ SubmitWebAuthn \/ Write
    PROVE  \E K : PersonStep(K)
  <1>1. PICK kind \in {"login", "start", "write"}, from \in {"login", "page"} :
           /\ Send({}, <<Spec0(kind, from, "none")>>)
           /\ orderly' => orderly /\ (kind = "write" \/ boot = "done")
           /\ orderly' \in BOOLEAN
    <2>1. CASE SubmitLogin
      BY <2>1 DEF SubmitLogin, Settled, TypeOK
    <2>2. CASE SubmitWebAuthn
      BY <2>2 DEF SubmitWebAuthn, Settled, TypeOK
    <2>3. CASE Write
      <3>1. Send({}, <<Spec0("write", "page", "none")>>) /\ orderly' = orderly /\ orderly \in BOOLEAN
        BY <2>3 DEF Write, TypeOK
      <3> QED
        BY <3>1
    <2> QED
      BY <2>1, <2>2, <2>3
  <1>2. /\ UNCHANGED <<user, stored, ret, page, token, cookie, boot, was, sess, want>>
        /\ page \in Restricted \cup {"/login"}
        /\ page \in Restricted => user # NoUser
        /\ loggingIn' \in BOOLEAN
    BY SessionAssumption DEF SubmitLogin, SubmitWebAuthn, Write, Public, TypeOK
  <1>3. kind \in Kinds /\ from \in Froms \ {"gone"}
    BY <1>1 DEF Kinds, Froms
  <1> DEFINE k == Spec0(kind, from, "none")
  <1>4. Grow({}, {k}) /\ k \in SpecSet
    BY <1>1, <1>2, <1>3, OneSent
  <1>5. k.kind = kind /\ k.from = from /\ k # LogoutSpec
    BY <1>1 DEF Spec0, LogoutSpec
  <1>6. page \in Pages /\ page # "loading"
    BY <1>2, SessionAssumption DEF Pages, Public
  <1>7. PersonStep({k})
    <2> HIDE DEF k
    <2> QED
      BY <1>1, <1>2, <1>4, <1>5, <1>6 DEF PersonStep, TypeOK
  <1> QED
    BY <1>7

\* The browser applies an answer, and sends the calls of K.
ApplyStep(c, K) ==
    /\ c \in calls /\ c.st # "sent" /\ c.kind # "prompt"
    /\ cookie' = IF c.set # 0 THEN c.set ELSE cookie
    /\ UNCHANGED <<sess, want>>
    /\ orderly' = (orderly /\ ~Late(c) /\ c.code = 200)
    /\ token' \in 0 .. issued'
    /\ Grow({c}, K) /\ K \subseteq SpecSet /\ \A k \in K : k.from # "oauth"

\* What Send makes of an answer.
LEMMA AppliesGrows ==
    ASSUME TypeOK, NEW c, NEW kinds, "prompt" \notin kinds, Applies(c, kinds), NEW specs \in Seq(SpecSet),
           Send({c}, specs), token' = token \/ token' = c.no \/ token' = 0,
           \A k \in Has(specs) : k.from # "oauth"
    PROVE  ApplyStep(c, Has(specs))
  <1>1. /\ c \in calls /\ c.st \in {"answered", "failed"} /\ c.kind \in kinds /\ UNCHANGED <<sess, want>>
        /\ cookie' = IF c.set # 0 THEN c.set ELSE cookie
        /\ orderly' = (orderly /\ ~Late(c) /\ c.code = 200)
    BY DEF Applies, Tidy
  <1>2. c \in Calls(issued, Len(sess))
    BY <1>1 DEF TypeOK
  <1>3. cookie' \in 0 .. Len(sess') /\ Len(sess') \in Nat /\ c.no \in 1 .. issued
    BY <1>1, <1>2 DEF TypeOK, Calls
  <1>4. token' \in 0 .. issued'
    <2>1. issued' = issued + Len(specs) /\ Len(specs) \in Nat /\ issued \in Nat
      BY DEF Send, TypeOK
    <2> QED
      BY <1>3, <2>1 DEF TypeOK
  <1>5. Grow({c}, Has(specs))
    BY <1>3, <1>4, SendGrows
  <1>6. Has(specs) \subseteq SpecSet
    BY DEF Has
  <1> QED
    BY <1>1, <1>4, <1>5, <1>6 DEF ApplyStep

\* The kinds and origins of the calls that answers send.
LEMMA SpecFields ==
    /\ CsrfSpec.kind = "csrf" /\ CsrfSpec.from = "nav" /\ LogoutSpec.kind = "logout" /\ LogoutSpec.from = "logout"
    /\ CsrfSpec \in SpecSet /\ LogoutSpec \in SpecSet
  BY SpecsTyped DEF CsrfSpec, LogoutSpec, Spec0, Kinds, Froms

\* What each answer does: ApplyStep, and what becomes of the browser's state.
LEMMA CsrfDoes ==
    ASSUME TypeOK, NEW c, ApplyCsrf(c)
    PROVE  /\ ApplyStep(c, IF c.from = "boot" THEN {Spec0("session", "boot", "none")} ELSE {})
           /\ c.kind = "csrf" /\ UNCHANGED <<user, stored, ret, page, loggingIn>>
           /\ token' = (IF c.code = 200 THEN c.no ELSE 0)
           /\ c.from = "boot" => boot' = "session" /\ was' = (user # NoUser)
           /\ c.from # "boot" => UNCHANGED <<boot, was>>
           /\ \A d, e \in calls' : FreshCall(d) /\ FreshCall(e) => d = e
  <1> DEFINE specs == IF c.from = "boot" THEN <<Spec0("session", "boot", "none")>> ELSE <<>>
  <1> DEFINE K == IF c.from = "boot" THEN {Spec0("session", "boot", "none")} ELSE {}
  <1>1. /\ Applies(c, {"csrf"}) /\ c.kind = "csrf" /\ UNCHANGED <<user, stored, ret, page, loggingIn>>
        /\ token' = (IF c.code = 200 THEN c.no ELSE 0)
        /\ Send({c}, specs)
        /\ c.from = "boot" => boot' = "session" /\ was' = (user # NoUser)
        /\ c.from # "boot" => UNCHANGED <<boot, was>>
    BY DEF ApplyCsrf, Applies, Ok
  <1>2. "session" \in Kinds /\ "boot" \in Froms \ {"gone"}
    BY DEF Kinds, Froms
  <1>3. specs \in Seq(SpecSet) /\ Has(specs) = K
    <2>1. CASE c.from = "boot"
      BY <1>2, <2>1, SpecsTyped
    <2>2. CASE c.from # "boot"
      BY <2>2, HasNone
    <2> QED
      BY <2>1, <2>2
  <1>4. \A k \in K : k.from # "oauth"
    BY DEF Spec0
  <1>5. ApplyStep(c, Has(specs))
    <2> HIDE DEF specs
    <2> QED
      BY <1>1, <1>3, <1>4, AppliesGrows
  <1>6. \A m, n \in DOMAIN specs : m = n
    OBVIOUS
  <1>7. ASSUME NEW d \in calls', FreshCall(d)
        PROVE  \E n \in DOMAIN specs : d = Call(specs[n], n)
    <2>1. d \notin calls
      BY <1>7 DEF FreshCall, TypeOK, Calls
    <2>2. calls' = (calls \ {c}) \cup {Call(specs[n], n) : n \in DOMAIN specs}
      BY <1>1 DEF Send
    <2> HIDE DEF specs
    <2> QED
      BY <2>1, <2>2
  <1>8. \A d, e \in calls' : FreshCall(d) /\ FreshCall(e) => d = e
    <2> HIDE DEF specs
    <2> QED
      BY <1>6, <1>7
  <1> QED
    BY <1>1, <1>3, <1>5, <1>8

\* App.vue's LoadSession: the user of the answer, and a logout for a session that is no more.
LEMMA BootSessionDoes ==
    ASSUME TypeOK, NEW c, ApplyBootSession(c)
    PROVE  \E K : /\ ApplyStep(c, K)
                  /\ c.kind = "session" /\ c.from = "boot" /\ boot' = "done"
                  /\ UNCHANGED <<page, token, was, loggingIn>>
                  /\ user' = (IF c.code = 200 THEN c.who ELSE NoUser) /\ stored' = user'
                  /\ ret' \in {ret, "none"}
                  /\ K = IF user' = NoUser /\ was THEN {LogoutSpec} ELSE {}
  <1> DEFINE specs == IF user' = NoUser /\ was THEN LogoutCall ELSE <<>>
  <1>1. /\ Applies(c, {"session"}) /\ c.from = "boot" /\ c.kind = "session" /\ boot' = "done"
        /\ UNCHANGED <<page, token, was, loggingIn>>
        /\ user' = (IF c.code = 200 THEN c.who ELSE NoUser) /\ stored' = user'
        /\ ret' \in {ret, "none"} /\ Send({c}, specs)
    BY DEF ApplyBootSession, Applies, Ok, setUserInfo
  <1>2. specs \in Seq(SpecSet) /\ Has(specs) = (IF user' = NoUser /\ was THEN {LogoutSpec} ELSE {})
    BY HasNone, LogoutSent
  <1>3. ApplyStep(c, Has(specs))
    <2>1. \A k \in Has(specs) : k.from # "oauth"
      BY <1>2, SpecFields
    <2> HIDE DEF specs
    <2> QED
      BY <1>1, <1>2, <2>1, AppliesGrows
  <1> HIDE DEF specs
  <1> QED
    BY <1>1, <1>2, <1>3

\* The router's LoadSession: the user of the answer, and the page that was captured.
LEMMA OauthDoes ==
    ASSUME TypeOK, NEW c, ApplyOauthSession(c)
    PROVE  \E K : /\ ApplyStep(c, K) /\ K \subseteq {CsrfSpec}
                  /\ c.kind = "session" /\ c.from = "oauth"
                  /\ UNCHANGED <<token, boot, was, loggingIn>>
                  /\ user' = (IF c.code = 200 THEN c.who ELSE NoUser) /\ stored' = user'
                  /\ ret' \in {ret, "none"}
                  /\ page' = IF user' # NoUser THEN c.dest ELSE "/login"
  <1>1. /\ Applies(c, {"session"}) /\ c.from = "oauth" /\ c.kind = "session"
        /\ UNCHANGED <<token, boot, was, loggingIn>>
        /\ user' = (IF c.code = 200 THEN c.who ELSE NoUser) /\ stored' = user'
        /\ ret' \in {ret, "none"} /\ Send({c}, afterEach(page'))
        /\ page' = IF user' # NoUser THEN c.dest ELSE "/login"
    BY DEF ApplyOauthSession, Applies, Ok, setUserInfo, ReturnTo
  <1>2. afterEach(page') \in Seq(SpecSet) /\ Has(afterEach(page')) \subseteq {CsrfSpec}
    BY AfterEach
  <1>3. ApplyStep(c, Has(afterEach(page')))
    <2>1. \A k \in Has(afterEach(page')) : k.from # "oauth"
      BY <1>2, SpecFields
    <2> QED
      BY <1>1, <1>2, <2>1, AppliesGrows
  <1> QED
    BY <1>1, <1>2, <1>3

\* A sign-in: the user of the answer, then a token; or nobody.
LEMMA LoginDoes ==
    ASSUME TypeOK, NEW c, ApplyLogin(c)
    PROVE  \E K : /\ ApplyStep(c, K) /\ K \subseteq {CsrfSpec, LogoutSpec}
                  /\ c.kind \in {"login", "finish"} /\ UNCHANGED <<token, boot, was>>
                  /\ loggingIn' \in BOOLEAN /\ stored' = user' /\ ret' \in {ret, "none"} /\ page' \in {page, "/"}
                  /\ c.code = 200 => user' = c.who /\ page' = "/" /\ K = {CsrfSpec}
                  /\ c.code # 200 => user' = NoUser
  <1> DEFINE specs == IF c.code = 200 THEN afterEach("/") ELSE AutoLogout(c)
  <1>1. /\ Applies(c, {"login", "finish"}) /\ c.kind \in {"login", "finish"} /\ UNCHANGED <<token, boot, was>>
        /\ loggingIn' \in BOOLEAN /\ stored' = user' /\ ret' \in {ret, "none"} /\ page' \in {page, "/"}
        /\ c.code = 200 => user' = c.who /\ page' = "/"
        /\ c.code # 200 => user' = NoUser
        /\ Send({c}, specs)
    <2>1. loggingIn \in BOOLEAN
      BY DEF TypeOK
    <2>2. CASE c.code = 200
      BY <2>2 DEF ApplyLogin, Applies, Ok, setUserInfo
    <2>3. CASE c.code # 200
      BY <2>1, <2>3 DEF ApplyLogin, Applies, Ok, setUserInfo
    <2> QED
      BY <2>2, <2>3
  <1>2. /\ specs \in Seq(SpecSet) /\ Has(specs) \subseteq {CsrfSpec, LogoutSpec}
        /\ c.code = 200 => Has(specs) = {CsrfSpec}
    BY AfterEach, AutoSent DEF csrfPages
  <1>3. ApplyStep(c, Has(specs))
    <2>1. \A k \in Has(specs) : k.from # "oauth"
      BY <1>2, SpecFields
    <2> HIDE DEF specs
    <2> QED
      BY <1>1, <1>2, <2>1, AppliesGrows
  <1> HIDE DEF specs
  <1> QED
    BY <1>1, <1>2, <1>3

\* A passkey's challenge leaves the user unless it was refused.
LEMMA StartDoes ==
    ASSUME TypeOK, NEW c, ApplyStart(c)
    PROVE  \E K : /\ ApplyStep(c, K) /\ K \subseteq {Spec0("prompt", "login", "none")}
                  /\ c.kind = "start" /\ UNCHANGED <<ret, page, token, boot, was, loggingIn>>
                  /\ stored' = user'
                  /\ user' = IF c.code = 200 THEN user ELSE NoUser
  <1> DEFINE specs == IF c.code = 200 THEN <<Spec0("prompt", "login", "none")>> ELSE <<>>
  <1>1. /\ Applies(c, {"start"}) /\ c.kind = "start" /\ UNCHANGED <<ret, page, token, boot, was, loggingIn>>
        /\ stored' = user' /\ user' = (IF c.code = 200 THEN user ELSE NoUser) /\ Send({c}, specs)
    BY DEF ApplyStart, Applies, Ok, setUserInfo, TypeOK
  <1>2. "prompt" \in Kinds /\ "login" \in Froms \ {"gone"}
    BY DEF Kinds, Froms
  <1>3. specs \in Seq(SpecSet) /\ Has(specs) \subseteq {Spec0("prompt", "login", "none")}
    BY <1>2, SpecsTyped, HasNone
  <1>4. ApplyStep(c, Has(specs))
    <2>1. \A k \in Has(specs) : k.from # "oauth"
      BY <1>3 DEF Spec0
    <2> HIDE DEF specs
    <2> QED
      BY <1>1, <1>3, <2>1, AppliesGrows
  <1> HIDE DEF specs
  <1> QED
    BY <1>1, <1>3, <1>4

\* The answer to a logout leads to the login page and fetches a token.
LEMMA LogoutDoes ==
    ASSUME TypeOK, NEW c, ApplyLogout(c)
    PROVE  \E K : /\ ApplyStep(c, K) /\ CsrfSpec \in K /\ K \subseteq {CsrfSpec, LogoutSpec}
                  /\ c.kind = "logout" /\ UNCHANGED <<token, boot, was>> /\ page' = "/login"
                  /\ loggingIn' = FALSE /\ stored' = user' /\ ret' \in {ret, "none"}
                  /\ user' \in {user, NoUser}
                  /\ c.code = 200 => user' = user /\ K = {CsrfSpec}
  <1> DEFINE specs == AutoLogout(c) \o afterEach("/login")
  <1>1. /\ Applies(c, {"logout"}) /\ c.kind = "logout" /\ UNCHANGED <<token, boot, was>> /\ page' = "/login"
        /\ loggingIn' = FALSE /\ stored' = user' /\ ret' \in {ret, "none"}
        /\ user' = (IF AutoLogout(c) = <<>> THEN user ELSE NoUser)
        /\ Send({c}, specs)
    BY DEF ApplyLogout, Applies, setUserInfo
  <1>2. /\ AutoLogout(c) \in Seq(SpecSet) /\ Has(AutoLogout(c)) \subseteq {LogoutSpec}
        /\ c.code = 200 => Has(AutoLogout(c)) = {} /\ AutoLogout(c) = <<>>
        /\ afterEach("/login") \in Seq(SpecSet) /\ Has(afterEach("/login")) = {CsrfSpec}
    BY AfterEach, AutoSent DEF csrfPages
  <1>3. specs \in Seq(SpecSet) /\ Has(specs) = Has(AutoLogout(c)) \cup {CsrfSpec}
    BY <1>2, HasTwo
  <1>4. ApplyStep(c, Has(specs))
    <2>1. \A k \in Has(specs) : k.from # "oauth"
      BY <1>2, <1>3, SpecFields
    <2> HIDE DEF specs
    <2> QED
      BY <1>1, <1>3, <2>1, AppliesGrows
  <1> HIDE DEF specs
  <1> QED
    BY <1>1, <1>2, <1>3, <1>4

\* The answer to a write: a 401 logs out, else nothing changes.
LEMMA WriteDoes ==
    ASSUME TypeOK, NEW c, ApplyWrite(c)
    PROVE  \E K : /\ ApplyStep(c, K) /\ K \subseteq {LogoutSpec}
                  /\ c.kind = "write" /\ UNCHANGED <<page, token, boot, was, loggingIn>>
                  /\ stored' = user' /\ ret' \in {ret, "none"} /\ user' \in {user, NoUser}
                  /\ c.code = 200 => user' = user /\ K = {}
                  /\ user' # user => LogoutSpec \in K
  <1>1. /\ Applies(c, {"write"}) /\ c.kind = "write" /\ UNCHANGED <<page, token, boot, was, loggingIn>>
        /\ stored' = user' /\ ret' \in {ret, "none"} /\ user' = (IF AutoLogout(c) = <<>> THEN user ELSE NoUser)
        /\ Send({c}, AutoLogout(c))
    BY DEF ApplyWrite, Applies, setUserInfo
  <1>2. /\ AutoLogout(c) \in Seq(SpecSet) /\ Has(AutoLogout(c)) \subseteq {LogoutSpec}
        /\ c.code = 200 => Has(AutoLogout(c)) = {} /\ AutoLogout(c) = <<>>
        /\ AutoLogout(c) # <<>> => LogoutSpec \in Has(AutoLogout(c))
    BY AutoSent
  <1>3. ApplyStep(c, Has(AutoLogout(c)))
    <2>1. \A k \in Has(AutoLogout(c)) : k.from # "oauth"
      BY <1>2, SpecFields
    <2> QED
      BY <1>1, <1>2, <2>1, AppliesGrows
  <1> QED
    BY <1>1, <1>2, <1>3

\* The passkey prompt: the last call of the sign-in, or the end of it.
LEMMA PromptDoes ==
    ASSUME TypeOK, NEW c, Prompt(c)
    PROVE  /\ c \in calls /\ c.kind = "prompt" /\ stored' = user'
           /\ UNCHANGED <<ret, page, token, cookie, boot, was, loggingIn, sess, want>>
           /\ \/ orderly' = orderly /\ user' = user /\ Grow({c}, {Spec0("finish", "login", "none")})
              \/ orderly' = FALSE /\ user' = NoUser /\ Grow({c}, {})
  <1> DEFINE finish == <<Spec0("finish", "login", "none")>>
  <1>1. /\ c \in calls /\ c.kind = "prompt" /\ stored' = user'
        /\ UNCHANGED <<ret, page, token, cookie, boot, was, loggingIn, sess, want>>
        /\ \/ orderly' = orderly /\ user' = user /\ Send({c}, finish)
           \/ orderly' = FALSE /\ user' = NoUser /\ Send({c}, <<>>)
    BY DEF Prompt, setUserInfo, TypeOK
  <1>2. "finish" \in Kinds /\ "login" \in Froms \ {"gone"}
    BY DEF Kinds, Froms
  <1>3. finish \in Seq(SpecSet) /\ Has(finish) = {Spec0("finish", "login", "none")}
    BY <1>2, SpecsTyped
  <1>4. <<>> \in Seq(SpecSet) /\ Has(<<>>) = {}
    BY HasNone
  <1>5. ASSUME NEW specs \in Seq(SpecSet), Send({c}, specs)
        PROVE  Grow({c}, Has(specs))
    <2>1. issued' = issued + Len(specs) /\ Len(specs) \in Nat /\ issued \in Nat
      BY <1>5 DEF Send, TypeOK
    <2>2. cookie' \in 0 .. Len(sess') /\ token' \in 0 .. issued' /\ Len(sess') \in Nat
      BY <1>1, <2>1 DEF TypeOK
    <2> QED
      BY <1>5, <2>2, SendGrows
  <1> HIDE DEF finish
  <1> QED
    BY <1>1, <1>3, <1>4, <1>5

-----------------------------------------------------------------------------
(* The server's sessions *)

\* A session that has ended.
LEMMA GoneTyped ==
    ASSUME NEW n \in Nat
    PROVE  Gone \in Sessions(n) /\ Gone.user = NoUser /\ Gone.token = 0 /\ Gone.live = FALSE
  BY DEF Gone, Sessions

\* Ending a session, beginning one, and setting the token of one.
LEMMA SessionsEnded ==
    ASSUME TypeOK, NEW sid \in 0 .. Len(sess)
    PROVE  /\ Ended(sid) \in Seq(Sessions(issued)) /\ Len(Ended(sid)) = Len(sess)
           /\ \A i \in 1 .. Len(sess) : Ended(sid)[i] = IF i = sid THEN Gone ELSE sess[i]
  <1>1. Gone \in Sessions(issued) /\ sess \in Seq(Sessions(issued))
    BY GoneTyped DEF TypeOK
  <1>2. CASE sid = 0
    BY <1>1, <1>2 DEF Ended
  <1>3. CASE sid # 0
    <2>1. sid \in 1 .. Len(sess) /\ Ended(sid) = [sess EXCEPT ![sid] = Gone]
      BY <1>3 DEF Ended
    <2> QED
      BY <1>1, <2>1, ExceptSeq
  <1> QED
    BY <1>2, <1>3

\* One session more.
LEMMA SessionsBegun ==
    ASSUME TypeOK, NEW s \in Seq(Sessions(issued)), NEW u \in Users \cup {NoUser}, NEW t \in 0 .. issued
    PROVE  /\ Begun(s, u, t) \in Seq(Sessions(issued)) /\ Len(Begun(s, u, t)) = Len(s) + 1
           /\ \A i \in 1 .. Len(s) : Begun(s, u, t)[i] = s[i]
           /\ Begun(s, u, t)[Len(s) + 1] = [user |-> u, token |-> t, live |-> TRUE]
  <1>1. [user |-> u, token |-> t, live |-> TRUE] \in Sessions(issued)
    BY DEF Sessions
  <1> QED
    BY <1>1, AppendProperties DEF Begun

\* Another token in one session.
LEMMA SessionsTouched ==
    ASSUME TypeOK, NEW sid \in 1 .. Len(sess), NEW t \in 0 .. issued
    PROVE  /\ Retoken(sid, t) \in Seq(Sessions(issued)) /\ Len(Retoken(sid, t)) = Len(sess)
           /\ \A i \in 1 .. Len(sess) : i # sid => Retoken(sid, t)[i] = sess[i]
           /\ Retoken(sid, t)[sid] = [user |-> sess[sid].user, token |-> t, live |-> sess[sid].live]
  <1> DEFINE e == [user |-> sess[sid].user, token |-> t, live |-> sess[sid].live]
  <1>1. sess \in Seq(Sessions(issued)) /\ sess[sid] \in Sessions(issued)
    BY DEF TypeOK
  <1>2. e \in Sessions(issued) /\ [sess[sid] EXCEPT !.token = t] = e
    BY <1>1 DEF Sessions
  <1>3. Retoken(sid, t) = [sess EXCEPT ![sid] = e]
    BY <1>2 DEF Retoken
  <1> HIDE DEF e
  <1>4. /\ Retoken(sid, t) \in Seq(Sessions(issued)) /\ Len(Retoken(sid, t)) = Len(sess)
        /\ \A i \in 1 .. Len(sess) : Retoken(sid, t)[i] = IF i = sid THEN e ELSE sess[i]
    BY <1>1, <1>2, <1>3, ExceptSeq
  <1> QED
    BY <1>4 DEF e

-----------------------------------------------------------------------------
(* What the server does *)

\* The server answers the call c with b.
Answer(c, b) ==
    /\ c \in calls /\ c.st = "sent" /\ c.kind # "prompt"
    /\ b \in Calls(issued, Len(sess')) /\ b.st = "answered"
    /\ b.no = c.no /\ b.kind = c.kind /\ b.from = c.from /\ b.dest = c.dest /\ b.sid = c.sid /\ b.tok = c.tok
    /\ calls' = (calls \ {c}) \cup Back(b)
    /\ sess' \in Seq(Sessions(issued))

NothingDone(c, b) ==
    /\ sess' = sess /\ b.set = 0 /\ c.kind # "csrf"
    /\ c.kind = "session" => b.who = SessionOf(c.sid).user
    /\ c.kind \in {"login", "finish"} /\ b.code = 200 => b.who = Anon /\ SessionOf(c.sid).user # NoUser
    /\ c.kind = "logout" => b.code # 200

TokenSet(c, b, t) ==
    /\ c.kind \in {"csrf", "start"} /\ b.set = 0
    /\ c.kind = "csrf" => t = c.no
    /\ c.kind = "start" => t = SessionOf(c.sid).token
    /\ c.sid \in 1 .. Len(sess) /\ sess[c.sid].live
    /\ Len(sess') = Len(sess)
    /\ \A i \in 1 .. Len(sess) : i # c.sid => sess'[i] = sess[i]
    /\ sess'[c.sid] = [user |-> sess[c.sid].user, token |-> t, live |-> TRUE]

SessionBegun(c, b, t) ==
    /\ c.kind \in {"csrf", "start"} /\ b.set = Len(sess) + 1 /\ b.who = NoUser /\ b.code = 200
    /\ c.kind = "csrf" => t = c.no
    /\ ~SessionOf(c.sid).live
    /\ Len(sess') = Len(sess) + 1
    /\ \A i \in 1 .. Len(sess) : sess'[i] = sess[i]
    /\ sess'[Len(sess) + 1] = [user |-> NoUser, token |-> t, live |-> TRUE]

SessionReplaced(c, b) ==
    /\ c.kind \in {"login", "finish"} /\ b.set = Len(sess) + 1 /\ b.code = 200
    /\ Len(sess') = Len(sess) + 1
    /\ \A i \in 1 .. Len(sess) : sess'[i] = IF i = c.sid THEN Gone ELSE sess[i]
    /\ sess'[Len(sess) + 1] = [user |-> b.who, token |-> 0, live |-> TRUE]

SessionEnded(c, b) ==
    /\ c.kind = "logout" /\ b.set = 0
    /\ Len(sess') = Len(sess)
    /\ \A i \in 1 .. Len(sess) : sess'[i] = IF i = c.sid THEN Gone ELSE sess[i]

Served(c, b) ==
    /\ Answer(c, b)
    /\ \/ NothingDone(c, b) \/ SessionReplaced(c, b) \/ SessionEnded(c, b)
       \/ \E t \in 0 .. issued : TokenSet(c, b, t) \/ SessionBegun(c, b, t)

\* An answered or failed call is a call.
LEMMA CallMarked ==
    ASSUME NEW n \in Nat, NEW l \in Nat, NEW c \in Calls(n, l), NEW st \in Stages,
           NEW code \in Codes, NEW who \in Names, NEW set \in 0 .. l
    PROVE  /\ Marked(c, st, code, who, set) \in Calls(n, l)
           /\ LET b == Marked(c, st, code, who, set)
              IN  /\ b.st = st /\ b.code = code /\ b.who = who /\ b.set = set
                  /\ b.no = c.no /\ b.kind = c.kind /\ b.from = c.from /\ b.dest = c.dest
                  /\ b.sid = c.sid /\ b.tok = c.tok
  <1> DEFINE b == Marked(c, st, code, who, set)
  <1>1. /\ \A d \in Calls(n, l) : [d EXCEPT !.st = st] \in Calls(n, l)
        /\ \A d \in Calls(n, l) : [d EXCEPT !.code = code] \in Calls(n, l)
        /\ \A d \in Calls(n, l) : [d EXCEPT !.who = who] \in Calls(n, l)
        /\ \A d \in Calls(n, l) : [d EXCEPT !.set = set] \in Calls(n, l)
    BY DEF Calls
  <1>2. b = [[[[c EXCEPT !.st = st] EXCEPT !.code = code] EXCEPT !.who = who] EXCEPT !.set = set]
    BY DEF Marked
  <1>3. b \in Calls(n, l)
    <2>1. [c EXCEPT !.st = st] \in Calls(n, l)
      BY <1>1
    <2>2. [[c EXCEPT !.st = st] EXCEPT !.code = code] \in Calls(n, l)
      BY <1>1, <2>1
    <2>3. [[[c EXCEPT !.st = st] EXCEPT !.code = code] EXCEPT !.who = who] \in Calls(n, l)
      BY <1>1, <2>2
    <2>4. [[[[c EXCEPT !.st = st] EXCEPT !.code = code] EXCEPT !.who = who] EXCEPT !.set = set] \in Calls(n, l)
      BY <1>1, <2>3
    <2> QED
      BY <1>2, <2>4
  <1>4. /\ b.st = st /\ b.code = code /\ b.who = who /\ b.set = set
        /\ b.no = c.no /\ b.kind = c.kind /\ b.from = c.from /\ b.dest = c.dest /\ b.sid = c.sid /\ b.tok = c.tok
    BY DEF Marked, Calls
  <1> QED
    BY <1>3, <1>4

\* The answer, as a call.
LEMMA ReplyAnswers ==
    ASSUME TypeOK, NEW c \in calls, c.st = "sent", c.kind # "prompt", NEW n \in Nat, n = Len(sess'),
           NEW code \in Codes, NEW who \in Names, NEW set \in 0 .. n,
           Reply(c, code, who, set), sess' \in Seq(Sessions(issued)), Len(sess) <= n
    PROVE  \E b : Answer(c, b) /\ b.code = code /\ b.who = who /\ b.set = set
  <1> DEFINE b == Marked(c, "answered", code, who, set)
  <1>1. c \in Calls(issued, Len(sess)) /\ issued \in Nat /\ Len(sess) \in Nat
    BY DEF TypeOK
  <1>2. c \in Calls(issued, n)
    BY <1>1, ShapesGrow
  <1>3. "answered" \in Stages
    BY DEF Stages
  <1>4. /\ b \in Calls(issued, n)
        /\ b.st = "answered" /\ b.code = code /\ b.who = who /\ b.set = set
        /\ b.no = c.no /\ b.kind = c.kind /\ b.from = c.from /\ b.dest = c.dest /\ b.sid = c.sid /\ b.tok = c.tok
    <2> HIDE DEF b
    <2>1. b = Marked(c, "answered", code, who, set)
      BY DEF b
    <2> QED
      BY <1>1, <1>2, <1>3, <2>1, CallMarked
  <1>5. calls' = (calls \ {c}) \cup Back(b)
    BY DEF Reply
  <1> HIDE DEF b
  <1>6. Answer(c, b)
    BY <1>4, <1>5 DEF Answer
  <1> QED
    BY <1>4, <1>6

\* A call names a session or none; there is no session 0.
LEMMA SidTyped ==
    ASSUME TypeOK, NEW c \in calls
    PROVE  /\ c.sid \in 0 .. Len(sess) /\ c.no \in 1 .. issued /\ c.tok \in 0 .. issued /\ c.set \in 0 .. Len(sess)
           /\ issued \in Nat /\ Len(sess) \in Nat
           /\ SessionOf(c.sid) \in Sessions(issued)
           /\ SessionOf(c.sid).user # NoUser \/ SessionOf(c.sid).live => c.sid \in 1 .. Len(sess)
  <1>1. c \in Calls(issued, Len(sess)) /\ issued \in Nat /\ sess \in Seq(Sessions(issued)) /\ Len(sess) \in Nat
    BY DEF TypeOK
  <1>2. c.sid \in 0 .. Len(sess) /\ c.no \in 1 .. issued /\ c.tok \in 0 .. issued /\ c.set \in 0 .. Len(sess)
    BY <1>1 DEF Calls
  <1>3. Gone \in Sessions(issued) /\ Gone.user = NoUser /\ Gone.live = FALSE
    BY <1>1, GoneTyped
  <1>4. SessionOf(c.sid) \in Sessions(issued)
    BY <1>1, <1>2, <1>3 DEF SessionOf
  <1>5. SessionOf(c.sid).user # NoUser \/ SessionOf(c.sid).live => c.sid \in 1 .. Len(sess)
    BY <1>2, <1>3 DEF SessionOf
  <1> QED
    BY <1>1, <1>2, <1>4, <1>5

\* Touch begins a session or sets the token of a live one.
LEMMA TouchServes ==
    ASSUME TypeOK, NEW c \in calls, c.st = "sent", c.kind \in {"csrf", "start"}, NEW t \in 0 .. issued, Touch(c, t),
           c.kind = "csrf" => t = c.no, c.kind = "start" => t = SessionOf(c.sid).token
    PROVE  \E b : Served(c, b)
  <1>1. /\ c.sid \in 0 .. Len(sess) /\ issued \in Nat /\ Len(sess) \in Nat
        /\ SessionOf(c.sid).live => c.sid \in 1 .. Len(sess)
    BY SidTyped
  <1>2. sess \in Seq(Sessions(issued)) /\ c.kind # "prompt" /\ NoUser \in Names
    BY CodesTyped DEF TypeOK
  <1>3. CASE SessionOf(c.sid).live
    <2>1. sess' = Retoken(c.sid, t) /\ Reply(c, 200, NoUser, 0) /\ c.sid \in 1 .. Len(sess)
      BY <1>1, <1>3 DEF Touch
    <2>2. /\ sess' \in Seq(Sessions(issued)) /\ Len(sess') = Len(sess)
          /\ \A i \in 1 .. Len(sess) : i # c.sid => sess'[i] = sess[i]
          /\ sess'[c.sid] = [user |-> sess[c.sid].user, token |-> t, live |-> sess[c.sid].live]
      BY <1>1, <1>2, <2>1, SessionsTouched
    <2>3. PICK b : Answer(c, b) /\ b.code = 200 /\ b.who = NoUser /\ b.set = 0
      <3>1. 0 \in 0 .. Len(sess') /\ Len(sess) <= Len(sess') /\ Len(sess') \in Nat
        BY <1>1, <2>2
      <3> QED
        BY <1>2, <2>1, <2>2, <3>1, CodesTyped, ReplyAnswers
    <2>4. sess[c.sid].live = TRUE /\ SessionOf(c.sid) = sess[c.sid]
      <3>1. SessionOf(c.sid) = sess[c.sid]
        BY <2>1 DEF SessionOf
      <3>2. sess[c.sid] \in Sessions(issued)
        BY <1>2, <2>1
      <3> QED
        BY <1>3, <3>1, <3>2 DEF Sessions
    <2>5. TokenSet(c, b, t)
      BY <2>1, <2>2, <2>3, <2>4 DEF TokenSet
    <2> QED
      BY <2>3, <2>5 DEF Served
  <1>4. CASE ~SessionOf(c.sid).live
    <2>1. sess' = Begun(sess, NoUser, t) /\ Reply(c, 200, NoUser, Len(sess) + 1)
      BY <1>4 DEF Touch
    <2>2. /\ sess' \in Seq(Sessions(issued)) /\ Len(sess') = Len(sess) + 1
          /\ \A i \in 1 .. Len(sess) : sess'[i] = sess[i]
          /\ sess'[Len(sess) + 1] = [user |-> NoUser, token |-> t, live |-> TRUE]
      BY <1>1, <1>2, <2>1, SessionsBegun
    <2>3. Len(sess) + 1 \in 0 .. Len(sess') /\ Len(sess) <= Len(sess') /\ Len(sess') \in Nat
      BY <1>1, <2>2
    <2>4. PICK b : Answer(c, b) /\ b.code = 200 /\ b.who = NoUser /\ b.set = Len(sess) + 1
      BY <1>2, <2>1, <2>2, <2>3, CodesTyped, ReplyAnswers
    <2>5. SessionBegun(c, b, t)
      BY <1>4, <2>2, <2>4 DEF SessionBegun
    <2> QED
      BY <2>4, <2>5 DEF Served
  <1> QED
    BY <1>3, <1>4

\* An answer that leaves the sessions alone.
LEMMA NothingServes ==
    ASSUME TypeOK, NEW c \in calls, c.st = "sent", c.kind \notin {"prompt", "csrf"}, sess' = sess,
           NEW code \in Codes, NEW who \in Names, Reply(c, code, who, 0),
           c.kind = "session" => who = SessionOf(c.sid).user,
           c.kind \in {"login", "finish"} /\ code = 200 => who = Anon /\ SessionOf(c.sid).user # NoUser,
           c.kind = "logout" => code # 200
    PROVE  \E b : Served(c, b)
  <1>1. sess' \in Seq(Sessions(issued)) /\ Len(sess) <= Len(sess') /\ 0 \in 0 .. Len(sess') /\ Len(sess') \in Nat
    BY DEF TypeOK
  <1>2. PICK b : Answer(c, b) /\ b.code = code /\ b.who = who /\ b.set = 0
    BY <1>1, ReplyAnswers
  <1>3. NothingDone(c, b)
    BY <1>2 DEF NothingDone
  <1> QED
    BY <1>2, <1>3 DEF Served

\* A sign-in that the server accepts.
LEMMA ReplacedServes ==
    ASSUME TypeOK, NEW c \in calls, c.st = "sent", c.kind \in {"login", "finish"}, NEW u \in Users, Replaced(c, u)
    PROVE  \E b : Served(c, b)
  <1>1. c.sid \in 0 .. Len(sess) /\ issued \in Nat /\ Len(sess) \in Nat
    BY SidTyped
  <1>2. sess' = Begun(Ended(c.sid), u, 0) /\ Reply(c, 200, u, Len(sess) + 1)
    BY DEF Replaced
  <1>3. /\ sess' \in Seq(Sessions(issued)) /\ Len(sess') = Len(sess) + 1
        /\ \A i \in 1 .. Len(sess) : sess'[i] = IF i = c.sid THEN Gone ELSE sess[i]
        /\ sess'[Len(sess) + 1] = [user |-> u, token |-> 0, live |-> TRUE]
    <2>1. u \in Users \cup {NoUser} /\ 0 \in 0 .. issued
      BY <1>1
    <2>2. /\ Ended(c.sid) \in Seq(Sessions(issued)) /\ Len(Ended(c.sid)) = Len(sess)
          /\ \A i \in 1 .. Len(sess) : Ended(c.sid)[i] = IF i = c.sid THEN Gone ELSE sess[i]
      BY <1>1, SessionsEnded
    <2> QED
      BY <1>2, <2>1, <2>2, SessionsBegun
  <1>4. Len(sess) + 1 \in 0 .. Len(sess') /\ Len(sess) <= Len(sess') /\ u \in Names /\ c.kind # "prompt"
    BY <1>1, <1>3, CodesTyped
  <1>5. PICK b : Answer(c, b) /\ b.code = 200 /\ b.who = u /\ b.set = Len(sess) + 1
    BY <1>2, <1>3, <1>4, CodesTyped, ReplyAnswers
  <1>6. SessionReplaced(c, b)
    BY <1>3, <1>5 DEF SessionReplaced
  <1> QED
    BY <1>5, <1>6 DEF Served

\* Whatever the server does with a call.
LEMMA HandleDoes ==
    ASSUME TypeOK, NEW c, Handle(c)
    PROVE  /\ \E b : Served(c, b)
           /\ orderly' = (orderly /\ c.sid = cookie /\ \A d \in calls : d.st = "sent" => d.no >= c.no)
           /\ UNCHANGED <<user, stored, ret, page, token, cookie, boot, was, loggingIn, want, issued>>
  <1>1. /\ c \in calls /\ c.st = "sent" /\ c.kind # "prompt"
        /\ orderly' = (orderly /\ c.sid = cookie /\ \A d \in calls : d.st = "sent" => d.no >= c.no)
        /\ UNCHANGED <<user, stored, ret, page, token, cookie, boot, was, loggingIn, want, issued>>
    BY DEF Handle, client
  <1>2. /\ c.sid \in 0 .. Len(sess) /\ c.no \in 0 .. issued /\ c.tok \in 0 .. issued
        /\ issued \in Nat /\ Len(sess) \in Nat /\ SessionOf(c.sid) \in Sessions(issued)
        /\ SessionOf(c.sid).user # NoUser \/ SessionOf(c.sid).live => c.sid \in 1 .. Len(sess)
    BY <1>1, SidTyped
  <1>3. NoUser \in Names /\ Anon \in Names
    BY CodesTyped
  <1>4. CASE HandleCsrf(c)
    <2>1. c.kind = "csrf" /\ Touch(c, c.no)
      BY <1>4 DEF HandleCsrf
    <2> QED
      BY <1>1, <1>2, <2>1, TouchServes
  <1>5. CASE HandleSession(c)
    <2>1. c.kind = "session" /\ sess' = sess /\ Reply(c, 200, SessionOf(c.sid).user, 0)
      BY <1>5 DEF HandleSession
    <2>2. SessionOf(c.sid).user \in Names
      BY <1>2 DEF Sessions, Names
    <2> QED
      BY <1>1, <2>1, <2>2, CodesTyped, NothingServes
  <1>6. CASE HandleLogin(c)
    <2>1. c.kind = "login"
      BY <1>6 DEF HandleLogin
    <2>2. CASE SessionOf(c.sid).user # NoUser
      <3>1. sess' = sess /\ Reply(c, 200, Anon, 0)
        BY <1>6, <2>2 DEF HandleLogin
      <3> QED
        BY <1>1, <1>3, <2>1, <2>2, <3>1, CodesTyped, NothingServes
    <2>3. CASE SessionOf(c.sid).user = NoUser
      <3>1. (sess' = sess /\ Reply(c, 401, NoUser, 0)) \/ \E u \in Users : Replaced(c, u)
        BY <1>6, <2>3 DEF HandleLogin
      <3>2. CASE sess' = sess /\ Reply(c, 401, NoUser, 0)
        BY <1>1, <1>3, <2>1, <3>2, CodesTyped, NothingServes
      <3>3. CASE \E u \in Users : Replaced(c, u)
        BY <1>1, <2>1, <3>3, ReplacedServes
      <3> QED
        BY <3>1, <3>2, <3>3
    <2> QED
      BY <2>2, <2>3
  <1>7. CASE HandleWebAuthn(c)
    <2>1. CASE c.kind = "start" /\ Touch(c, c.tok)
      <3>1. c.tok = SessionOf(c.sid).token
        BY <1>7 DEF HandleWebAuthn, Forbidden
      <3> QED
        BY <1>1, <1>2, <2>1, <3>1, TouchServes
    <2>2. CASE c.kind = "finish" /\ \E u \in Users : Replaced(c, u)
      BY <1>1, <2>2, ReplacedServes
    <2>3. CASE c.kind \in {"start", "finish"} /\ sess' = sess /\ Reply(c, 400, NoUser, 0)
      BY <1>1, <1>3, <2>3, CodesTyped, NothingServes
    <2> QED
      BY <1>7, <2>1, <2>2, <2>3 DEF HandleWebAuthn
  <1>8. CASE HandleLogout(c)
    <2>1. c.kind = "logout"
      BY <1>8 DEF HandleLogout
    <2>2. CASE SessionOf(c.sid).user = NoUser
      <3>1. sess' = sess /\ Reply(c, 401, NoUser, 0)
        BY <1>8, <2>2 DEF HandleLogout
      <3> QED
        BY <1>1, <1>3, <2>1, <3>1, CodesTyped, NothingServes
    <2>3. CASE SessionOf(c.sid).user # NoUser
      <3>1. sess' = Ended(c.sid) /\ Reply(c, 200, NoUser, 0) /\ c.sid \in 1 .. Len(sess)
        BY <1>2, <1>8, <2>3 DEF HandleLogout
      <3>2. /\ sess' \in Seq(Sessions(issued)) /\ Len(sess') = Len(sess)
            /\ \A i \in 1 .. Len(sess) : sess'[i] = IF i = c.sid THEN Gone ELSE sess[i]
        BY <1>2, <3>1, SessionsEnded
      <3>3. PICK b : Answer(c, b) /\ b.code = 200 /\ b.who = NoUser /\ b.set = 0
        <4>1. 0 \in 0 .. Len(sess') /\ Len(sess) <= Len(sess') /\ Len(sess') \in Nat
          BY <1>2, <3>2
        <4> QED
          BY <1>1, <1>3, <3>1, <3>2, <4>1, CodesTyped, ReplyAnswers
      <3>4. SessionEnded(c, b)
        BY <2>1, <3>2, <3>3 DEF SessionEnded
      <3> QED
        BY <1>1, <3>3, <3>4 DEF Served
    <2> QED
      BY <2>2, <2>3
  <1>9. CASE HandleWrite(c)
    <2>1. c.kind = "write" /\ sess' = sess /\ (Reply(c, 200, NoUser, 0) \/ Reply(c, 401, NoUser, 0))
      BY <1>9 DEF HandleWrite
    <2> QED
      BY <1>1, <1>3, <2>1, CodesTyped, NothingServes
  <1>10. CASE HandleForbidden(c)
    <2>1. c.kind \notin {"csrf", "session"} /\ sess' = sess /\ Reply(c, 403, NoUser, 0)
      BY <1>10 DEF HandleForbidden
    <2> QED
      BY <1>1, <1>3, <2>1, CodesTyped, NothingServes
  <1>11. \E b : Served(c, b)
    BY <1>4, <1>5, <1>6, <1>7, <1>8, <1>9, <1>10 DEF Handle
  <1> QED
    BY <1>1, <1>11

-----------------------------------------------------------------------------
(* What a page load does *)

\* The calls of the page that was left, and those the new page sends.
Loaded(K) ==
    /\ issued' \in Nat /\ issued' >= issued
    /\ \A d \in calls' : \/ \E c \in calls : c.st = "sent" /\ c.kind # "prompt" /\ d = Left(c)
                         \/ FreshCall(d) /\ SpecOf(d) \in K
    /\ \A c, d \in calls' : FreshCall(c) /\ FreshCall(d) /\ c.no = d.no => c = d
    /\ \A c, d \in calls' : FreshCall(c) /\ FreshCall(d) /\ c.from = "boot" /\ d.from = "boot" => c = d
    /\ BootCall \in K /\ \E d \in calls' : FreshCall(d) /\ SpecOf(d) = BootCall
    /\ \A k \in K : k.from = "boot" => k = BootCall
    /\ user' = stored /\ stored' = stored /\ token' = 0 /\ boot' = "csrf" /\ was' = FALSE /\ loggingIn' = FALSE
    /\ orderly' = (calls = {})

\* App.vue's first call.
LEMMA BootCallTyped == BootCall \in SpecSet /\ BootCall.kind = "csrf" /\ BootCall.from = "boot"
  BY SpecsTyped DEF BootCall, Spec0, Kinds, Froms

\* A call of a page that was left.
LEMMA CallLeft ==
    ASSUME NEW n \in Nat, NEW l \in Nat, NEW c \in Calls(n, l)
    PROVE  /\ Left(c) \in Calls(n, l)
           /\ Left(c).from = "gone" /\ Left(c).st = c.st /\ Left(c).set = c.set /\ Left(c).no = c.no
           /\ Left(c).kind = c.kind /\ Left(c).sid = c.sid /\ Left(c).code = c.code
  BY DEF Left, Calls, Froms

\* Load, as the rest of the proofs use it.
LEMMA LoadDoes ==
    ASSUME TypeOK, NEW rest \in Seq(SpecSet), Load(<<BootCall>> \o rest),
           \A k \in Has(rest) : k.from # "boot",
           cookie' \in 0 .. Len(sess'), Len(sess') \in Nat
    PROVE  Loaded({BootCall} \cup Has(rest))
  <1> DEFINE specs == <<BootCall>> \o rest
  <1>1. <<BootCall>> \in Seq(SpecSet) /\ Has(<<BootCall>>) = {BootCall}
    BY BootCallTyped, HasOne
  <1>2. specs \in Seq(SpecSet) /\ Has(specs) = {BootCall} \cup Has(rest)
    BY <1>1, HasTwo
  <1>3. specs[1] = BootCall /\ \A n \in DOMAIN specs : n # 1 => specs[n] \in Has(rest)
    <2>1. /\ Len(specs) = Len(<<BootCall>>) + Len(rest) /\ Len(<<BootCall>>) = 1 /\ Len(rest) \in Nat
          /\ \A i \in 1 .. Len(<<BootCall>>) + Len(rest) :
                specs[i] = IF i <= Len(<<BootCall>>) THEN <<BootCall>>[i] ELSE rest[i - Len(<<BootCall>>)]
      BY <1>1, ConcatProperties
    <2>2. ASSUME NEW n \in DOMAIN specs, n # 1
          PROVE  specs[n] \in Has(rest)
      <3>1. n \in 1 .. 1 + Len(rest) /\ DOMAIN rest = 1 .. Len(rest)
        BY <1>2, <2>1
      <3>2. specs[n] = rest[n - 1] /\ n - 1 \in DOMAIN rest
        BY <2>1, <2>2, <3>1
      <3> QED
        BY <3>2 DEF Has
    <2>3. specs[1] = BootCall
      BY <2>1
    <2> QED
      BY <2>2, <2>3
  <1>4. Load(specs)
    OBVIOUS
  <1> HIDE DEF specs
  <1>5. /\ user' = stored /\ stored' = stored /\ token' = 0 /\ boot' = "csrf" /\ was' = FALSE /\ loggingIn' = FALSE
        /\ orderly' = (calls = {}) /\ issued' = issued + Len(specs) /\ issued \in Nat /\ Len(specs) \in Nat
        /\ calls' = {Left(c) : c \in {d \in calls : d.st = "sent" /\ d.kind # "prompt"}}
                    \cup {Call(specs[n], n) : n \in DOMAIN specs}
    <2>1. /\ user' = stored /\ stored' = stored /\ token' = 0 /\ boot' = "csrf" /\ was' = FALSE /\ loggingIn' = FALSE
          /\ orderly' = (calls = {}) /\ issued' = issued + Len(specs)
          /\ calls' = {Left(c) : c \in {d \in calls : d.st = "sent" /\ d.kind # "prompt"}}
                      \cup {Call(specs[n], n) : n \in DOMAIN specs}
      BY <1>4, Zenon DEF Load
    <2>2. issued \in Nat /\ Len(specs) \in Nat
      BY <1>2 DEF TypeOK
    <2> QED
      BY <2>1, <2>2
  <1>6. \A n \in DOMAIN specs : /\ FreshCall(Call(specs[n], n)) /\ SpecOf(Call(specs[n], n)) = specs[n]
                                /\ Call(specs[n], n).no = issued + n
    BY <1>2, <1>5, CallFresh
  <1>7. \A c \in calls : Left(c).no <= issued
    BY CallLeft DEF TypeOK, Calls
  <1>8. ASSUME NEW d \in calls', FreshCall(d)
        PROVE  \E n \in DOMAIN specs : d = Call(specs[n], n)
    <2>1. ~\E c \in calls : d = Left(c)
      BY <1>5, <1>7, <1>8 DEF FreshCall, Calls
    <2> QED
      BY <1>5, <2>1
  <1>9. ASSUME NEW c \in calls', NEW d \in calls', FreshCall(c), FreshCall(d)
        PROVE  (c.no = d.no \/ (c.from = "boot" /\ d.from = "boot")) => c = d
    <2>1. PICK m \in DOMAIN specs : c = Call(specs[m], m)
      BY <1>8, <1>9
    <2>2. PICK n \in DOMAIN specs : d = Call(specs[n], n)
      BY <1>8, <1>9
    <2>3. CASE c.no = d.no
      <3>1. m = n
        BY <1>5, <1>6, <2>1, <2>2, <2>3
      <3> QED
        BY <2>1, <2>2, <3>1
    <2>4. CASE c.from = "boot" /\ d.from = "boot"
      <3>1. specs[m].from = "boot" /\ specs[n].from = "boot"
        BY <2>1, <2>2, <2>4 DEF Call
      <3>2. m = 1 /\ n = 1
        BY <1>3, <3>1
      <3> QED
        BY <2>1, <2>2, <3>2
    <2> QED
      BY <2>3, <2>4
  <1>10. \A d \in calls' : \/ \E c \in calls : c.st = "sent" /\ c.kind # "prompt" /\ d = Left(c)
                           \/ FreshCall(d) /\ SpecOf(d) \in {BootCall} \cup Has(rest)
    <2>1. \A n \in DOMAIN specs : specs[n] \in {BootCall} \cup Has(rest)
      BY <1>3
    <2> QED
      BY <1>5, <1>6, <2>1
  <1>11. \E d \in calls' : FreshCall(d) /\ SpecOf(d) = BootCall
    <2>1. 1 \in DOMAIN specs
      <3>1. PICK n \in DOMAIN specs : specs[n] = BootCall
        BY <1>2 DEF Has
      <3> QED
        BY <1>2, <3>1
    <2> QED
      BY <1>3, <1>5, <1>6, <2>1
  <1>12. issued' \in Nat /\ issued' >= issued
    BY <1>5
  <1>13. \A k \in {BootCall} \cup Has(rest) : k.from = "boot" => k = BootCall
    OBVIOUS
  <1> QED
    BY <1>5, <1>9, <1>10, <1>11, <1>12, <1>13 DEF Loaded

\* A reload: beforeEach sees the stored user.
LEMMA ReloadDoes ==
    ASSUME TypeOK, Reload
    PROVE  /\ \E K : Loaded(K) /\ K \subseteq {BootCall, CsrfSpec}
           /\ UNCHANGED <<cookie, sess, want>>
           /\ page' \in Pages /\ (page' \in Restricted => user' # NoUser)
           /\ ret' \in Restricted \cup {"none"}
  <1>1. /\ UNCHANGED <<cookie, sess, want>> /\ page # "loading" /\ page' = Lands(page, stored)
        /\ ret' = (IF page' = page THEN ret ELSE page)
        /\ Load(<<BootCall>> \o afterEach(page'))
    BY DEF Reload
  <1>2. afterEach(page') \in Seq(SpecSet) /\ Has(afterEach(page')) \subseteq {CsrfSpec}
    BY AfterEach
  <1>3. \A k \in Has(afterEach(page')) : k.from # "boot"
    BY <1>2, SpecFields
  <1>4. cookie' \in 0 .. Len(sess') /\ Len(sess') \in Nat
    BY <1>1 DEF TypeOK
  <1>5. Loaded({BootCall} \cup Has(afterEach(page')))
    BY <1>1, <1>2, <1>3, <1>4, LoadDoes
  <1>6. user' = stored
    BY <1>5 DEF Loaded
  <1>7. page' \in Pages /\ (page' \in Restricted => user' # NoUser) /\ ret' \in Restricted \cup {"none"}
    BY <1>1, <1>6, SessionAssumption DEF Lands, Pages, Public, TypeOK
  <1> QED
    BY <1>1, <1>2, <1>5, <1>7

\* The way back from the provider: to the page that awaits LoadSession, or to the login page.
LEMMA ExternalLoginDoes ==
    ASSUME TypeOK, ExternalLogin
    PROVE  /\ \E K : /\ Loaded(K)
                     /\ \/ /\ page' = "loading" /\ want' \in Pages
                           /\ K = {BootCall, Spec0("session", "oauth", want')}
                        \/ page' = "/login" /\ want' = want /\ K = {BootCall, CsrfSpec}
           /\ ret' = ret
           /\ \/ sess' = sess /\ cookie' = cookie
              \/ /\ sess' \in Seq(Sessions(issued)) /\ Len(sess') = Len(sess) + 1 /\ cookie' = Len(sess')
                 /\ \A i \in 1 .. Len(sess) : sess'[i] = IF i = cookie THEN Gone ELSE sess[i]
                 /\ sess'[Len(sess) + 1].live = TRUE
  <1> DEFINE back == IF ret = "none" THEN "/" ELSE ret
  <1> DEFINE known == SessionOf(cookie).user # NoUser
  <1>1. PICK u \in Users \cup {NoUser} :
          LET fresh == u # NoUser /\ ~known
          IN  /\ sess' = IF fresh THEN Begun(Ended(cookie), u, 0) ELSE sess
              /\ cookie' = IF fresh THEN Len(sess') ELSE cookie
              /\ \/ page' = "loading" /\ want' = back /\ Load(<<BootCall, Spec0("session", "oauth", back)>>)
                 \/ page' = "/login" /\ want' = want /\ Load(<<BootCall>> \o afterEach("/login"))
    BY DEF ExternalLogin
  <1>2. ret' = ret
    BY DEF ExternalLogin
  <1>3. \/ sess' = sess /\ cookie' = cookie
        \/ /\ sess' \in Seq(Sessions(issued)) /\ Len(sess') = Len(sess) + 1 /\ cookie' = Len(sess')
           /\ \A i \in 1 .. Len(sess) : sess'[i] = IF i = cookie THEN Gone ELSE sess[i]
           /\ sess'[Len(sess) + 1].live = TRUE
    <2>1. CASE u # NoUser /\ ~known
      <3>1. sess' = Begun(Ended(cookie), u, 0) /\ cookie' = Len(sess')
        BY <1>1, <2>1
      <3>2. cookie \in 0 .. Len(sess) /\ 0 \in 0 .. issued
        BY DEF TypeOK
      <3>3. /\ Ended(cookie) \in Seq(Sessions(issued)) /\ Len(Ended(cookie)) = Len(sess)
            /\ \A i \in 1 .. Len(sess) : Ended(cookie)[i] = IF i = cookie THEN Gone ELSE sess[i]
        BY <3>2, SessionsEnded
      <3>4. /\ sess' \in Seq(Sessions(issued)) /\ Len(sess') = Len(sess) + 1
            /\ \A i \in 1 .. Len(sess) : sess'[i] = Ended(cookie)[i]
            /\ sess'[Len(sess) + 1] = [user |-> u, token |-> 0, live |-> TRUE]
        BY <3>1, <3>2, <3>3, SessionsBegun
      <3> QED
        BY <3>1, <3>3, <3>4
    <2>2. CASE ~(u # NoUser /\ ~known)
      BY <1>1, <2>2
    <2> QED
      BY <2>1, <2>2
  <1>4. cookie' \in 0 .. Len(sess') /\ Len(sess') \in Nat
    BY <1>3 DEF TypeOK
  <1>5. back \in Pages
    BY DEF TypeOK, Pages, Public
  <1>6. CASE page' = "loading" /\ want' = back /\ Load(<<BootCall, Spec0("session", "oauth", back)>>)
    <2> DEFINE rest == <<Spec0("session", "oauth", back)>>
    <2>1. "session" \in Kinds /\ "oauth" \in Froms \ {"gone"} /\ back \in Pages \cup {"none"}
      BY <1>5 DEF Kinds, Froms
    <2> HIDE DEF back
    <2>2. rest \in Seq(SpecSet) /\ Has(rest) = {Spec0("session", "oauth", back)}
      BY <2>1, SpecsTyped
    <2>3. <<BootCall, Spec0("session", "oauth", back)>> = <<BootCall>> \o rest
      OBVIOUS
    <2>4. \A k \in Has(rest) : k.from # "boot"
      BY <2>2 DEF Spec0
    <2>5. Loaded({BootCall} \cup Has(rest))
      <3>1. Load(<<BootCall>> \o rest)
        BY <1>6, <2>3
      <3> HIDE DEF rest
      <3> QED
        BY <1>4, <2>2, <2>4, <3>1, LoadDoes
    <2>6. {BootCall} \cup Has(rest) = {BootCall, Spec0("session", "oauth", want')}
      BY <1>6, <2>2
    <2> QED
      BY <1>2, <1>3, <1>5, <1>6, <2>5, <2>6
  <1>7. CASE page' = "/login" /\ want' = want /\ Load(<<BootCall>> \o afterEach("/login"))
    <2>1. afterEach("/login") \in Seq(SpecSet) /\ Has(afterEach("/login")) = {CsrfSpec}
      BY AfterEach DEF csrfPages
    <2>2. \A k \in Has(afterEach("/login")) : k.from # "boot"
      BY <2>1, SpecFields
    <2>3. Loaded({BootCall} \cup Has(afterEach("/login")))
      BY <1>4, <1>7, <2>1, <2>2, LoadDoes
    <2>4. {BootCall} \cup Has(afterEach("/login")) = {BootCall, CsrfSpec}
      BY <2>1
    <2> QED
      BY <1>2, <1>3, <1>7, <2>3, <2>4
  <1> QED
    BY <1>1, <1>6, <1>7

\* A call changes its stage, and nothing else of what told it apart.
Changed(c, b) ==
    /\ c \in calls /\ c.kind # "prompt"
    /\ b.no = c.no /\ b.kind = c.kind /\ b.from = c.from /\ b.dest = c.dest /\ b.sid = c.sid /\ b.tok = c.tok
    /\ b.st # "sent" /\ b \in Calls(issued, Len(sess'))
    /\ calls' = (calls \ {c}) \cup Back(b)

\* A lost call, and a session that ends: nothing is orderly any more.
LEMMA LoseDoes ==
    ASSUME TypeOK, NEW c, Lose(c)
    PROVE  /\ \E b : Changed(c, b) /\ b.set = 0 /\ b.code = 0
           /\ orderly' = FALSE
           /\ UNCHANGED <<user, stored, ret, page, token, boot, was, loggingIn, want, cookie, sess, issued>>
  <1> DEFINE b == Marked(c, "failed", 0, c.who, 0)
  <1>1. /\ c \in calls /\ c.kind # "prompt" /\ orderly' = FALSE
        /\ UNCHANGED <<user, stored, ret, page, token, boot, was, loggingIn, want, cookie, sess, issued>>
        /\ calls' = (calls \ {c}) \cup Back(b)
    BY DEF Lose
  <1>2. /\ c \in Calls(issued, Len(sess)) /\ issued \in Nat /\ Len(sess) \in Nat /\ "failed" \in Stages
        /\ 0 \in Codes /\ 0 \in 0 .. Len(sess)
    BY <1>1, CodesTyped DEF TypeOK, Stages
  <1>3. c.who \in Names
    BY <1>2 DEF Calls
  <1>4. /\ b \in Calls(issued, Len(sess)) /\ b.st = "failed" /\ b.code = 0 /\ b.set = 0
        /\ b.no = c.no /\ b.kind = c.kind /\ b.from = c.from /\ b.dest = c.dest /\ b.sid = c.sid /\ b.tok = c.tok
    BY <1>2, <1>3, CallMarked
  <1> HIDE DEF b
  <1>5. Changed(c, b)
    BY <1>1, <1>4 DEF Changed
  <1> QED
    BY <1>1, <1>4, <1>5

\* A session that ends on the server.
LEMMA ExpireDoes ==
    ASSUME TypeOK, Expire
    PROVE  /\ orderly' = FALSE
           /\ UNCHANGED <<user, stored, ret, page, token, cookie, boot, was, loggingIn, calls, issued, want>>
           /\ \E s \in 1 .. Len(sess) :
                 /\ sess' \in Seq(Sessions(issued)) /\ Len(sess') = Len(sess)
                 /\ \A i \in 1 .. Len(sess) : sess'[i] = IF i = s THEN Gone ELSE sess[i]
  <1>1. PICK s \in DOMAIN sess : sess' = Ended(s)
    BY DEF Expire
  <1>2. s \in 1 .. Len(sess) /\ s \in 0 .. Len(sess)
    BY DEF TypeOK
  <1>3. /\ sess' \in Seq(Sessions(issued)) /\ Len(sess') = Len(sess)
        /\ \A i \in 1 .. Len(sess) : sess'[i] = IF i = s THEN Gone ELSE sess[i]
    BY <1>1, <1>2, SessionsEnded
  <1> QED
    BY <1>2, <1>3 DEF Expire

\* An answer is a changed call.
LEMMA ServedChanged ==
    ASSUME NEW c, NEW b, Served(c, b)
    PROVE  Changed(c, b)
  BY DEF Served, Answer, Changed

-----------------------------------------------------------------------------
(* Type correctness *)

\* The first page has its shape.
LEMMA InitTyped == Init => TypeOK
  <1> SUFFICES ASSUME Init PROVE TypeOK
    OBVIOUS
  <1>1. stored \in Users \cup {NoUser} /\ user = stored /\ user \in Names
    BY CodesTyped DEF Init
  <1>2. sess \in Seq(Sessions(2)) /\ Len(sess) \in {0, 1}
    <2>1. CASE stored = NoUser
      BY <2>1 DEF Init
    <2>2. CASE stored # NoUser
      <3>1. [user |-> stored, token |-> 0, live |-> TRUE] \in Sessions(2)
        BY <1>1 DEF Sessions
      <3>2. sess = <<[user |-> stored, token |-> 0, live |-> TRUE]>>
        BY <2>2 DEF Init
      <3> QED
        BY <3>1, <3>2
    <2> QED
      BY <2>1, <2>2
  <1>3. cookie \in 0 .. Len(sess) /\ issued = 2 /\ token = 0
    BY <1>2 DEF Init
  <1>4. calls \subseteq Calls(2, Len(sess))
    <2>1. ASSUME NEW c \in calls
          PROVE  c \in Calls(2, Len(sess))
      <3>1. PICK n \in 1 .. 2 :
              c = [no |-> n, kind |-> "csrf", from |-> <<"boot", "nav">>[n], dest |-> "none",
                   sid |-> cookie, tok |-> 0, st |-> "sent", code |-> 0, who |-> NoUser, set |-> 0]
        BY DEF Init
      <3>2. <<"boot", "nav">>[n] \in Froms
        BY DEF Froms
      <3>3. "csrf" \in Kinds /\ "sent" \in Stages /\ 0 \in Codes /\ NoUser \in Names /\ 0 \in 0 .. Len(sess)
        BY <1>2, CodesTyped DEF Kinds, Stages
      <3> QED
        BY <1>3, <3>1, <3>2, <3>3 DEF Calls
    <2> QED
      BY <2>1
  <1>5. /\ ret \in Restricted \cup {"none"} /\ page \in Pages \cup {"loading"} /\ want \in Pages \cup {"none"}
        /\ boot \in {"csrf", "session", "done"} /\ was \in BOOLEAN /\ loggingIn \in BOOLEAN /\ orderly \in BOOLEAN
    BY DEF Init, Pages, Public
  <1> QED
    BY <1>1, <1>2, <1>3, <1>4, <1>5 DEF TypeOK

\* The person's steps keep the shape.
LEMMA PersonTyped ==
    ASSUME TypeOK, NEW K, PersonStep(K)
    PROVE  TypeOK'
  <1>1. Grow({}, K) /\ Len(sess') \in Nat /\ Len(sess') >= Len(sess) /\ issued' \in Nat /\ issued' >= issued
    BY DEF PersonStep, TypeOK, Grow
  <1>2. calls' \subseteq Calls(issued', Len(sess')) /\ Seq(Sessions(issued)) \subseteq Seq(Sessions(issued'))
    BY <1>1, GrowTyped
  <1>3. user' \in Names
    BY CodesTyped DEF PersonStep, TypeOK
  <1>4. token' \in 0 .. issued'
    BY <1>1 DEF PersonStep, TypeOK
  <1> QED
    BY <1>1, <1>2, <1>3, <1>4 DEF PersonStep, TypeOK

\* Answers keep the shape.
LEMMA ApplyTyped ==
    ASSUME TypeOK, NEW c, NEW K, ApplyStep(c, K), user' \in Names, stored' = user', ret' \in {ret, "none"},
           page' \in Pages \cup {"loading"}, boot' \in {"csrf", "session", "done"}, was' \in BOOLEAN, loggingIn' \in BOOLEAN
    PROVE  TypeOK'
  <1>1. Grow({c}, K) /\ Len(sess') \in Nat /\ Len(sess') >= Len(sess) /\ issued' \in Nat /\ issued' >= issued
    BY DEF ApplyStep, TypeOK, Grow
  <1>2. calls' \subseteq Calls(issued', Len(sess')) /\ Seq(Sessions(issued)) \subseteq Seq(Sessions(issued'))
    BY <1>1, GrowTyped
  <1>3. cookie' \in 0 .. Len(sess')
    <2>1. c \in calls /\ sess' = sess /\ cookie' = IF c.set # 0 THEN c.set ELSE cookie
      BY DEF ApplyStep
    <2>2. c.set \in 0 .. Len(sess)
      BY <2>1, SidTyped
    <2> QED
      BY <2>1, <2>2 DEF TypeOK
  <1>4. orderly' \in BOOLEAN /\ token' \in 0 .. issued' /\ want' = want /\ sess' = sess
    BY DEF ApplyStep
  <1>5. ret' \in Restricted \cup {"none"}
    BY DEF TypeOK
  <1> QED
    BY <1>1, <1>2, <1>3, <1>4, <1>5 DEF TypeOK

\* Page loads keep the shape.
LEMMA LoadTyped ==
    ASSUME TypeOK, NEW K, Loaded(K), cookie' \in 0 .. Len(sess'), sess' \in Seq(Sessions(issued)), Len(sess') >= Len(sess),
           page' \in Pages \cup {"loading"}, want' \in Pages \cup {"none"}, ret' \in Restricted \cup {"none"}
    PROVE  TypeOK'
  <1>1. issued \in Nat /\ issued' \in Nat /\ issued <= issued' /\ Len(sess) \in Nat /\ Len(sess') \in Nat /\ Len(sess) <= Len(sess')
    BY DEF TypeOK, Loaded
  <1>2. /\ Calls(issued, Len(sess)) \subseteq Calls(issued', Len(sess'))
        /\ Seq(Sessions(issued)) \subseteq Seq(Sessions(issued'))
    BY <1>1, ShapesGrow
  <1>3. \A c \in calls : Left(c) \in Calls(issued', Len(sess'))
    BY <1>1, <1>2, CallLeft DEF TypeOK
  <1>4. calls' \subseteq Calls(issued', Len(sess'))
    BY <1>3 DEF Loaded, FreshCall
  <1>5. user' \in Names /\ stored' = user' /\ token' \in 0 .. issued' /\ orderly' \in BOOLEAN
    BY <1>1 DEF Loaded, TypeOK
  <1>6. boot' \in {"csrf", "session", "done"} /\ was' \in BOOLEAN /\ loggingIn' \in BOOLEAN
    BY DEF Loaded
  <1> QED
    BY <1>1, <1>2, <1>4, <1>5, <1>6 DEF TypeOK

\* Handling and losing keep the shape.
LEMMA ChangedTyped ==
    ASSUME TypeOK, NEW c, NEW b, Changed(c, b), sess' \in Seq(Sessions(issued)), Len(sess') >= Len(sess),
           UNCHANGED <<user, stored, ret, page, token, cookie, boot, was, loggingIn, want, issued>>, orderly' \in BOOLEAN
    PROVE  TypeOK'
  <1>1. issued \in Nat /\ Len(sess) \in Nat /\ Len(sess') \in Nat /\ Len(sess) <= Len(sess') /\ issued <= issued
    BY DEF TypeOK
  <1>2. Calls(issued, Len(sess)) \subseteq Calls(issued, Len(sess'))
    BY <1>1, ShapesGrow
  <1>3. calls' \subseteq Calls(issued, Len(sess'))
    BY <1>2 DEF Changed, Back, TypeOK
  <1>4. cookie' \in 0 .. Len(sess')
    BY <1>1 DEF TypeOK
  <1> QED
    BY <1>3, <1>4 DEF TypeOK

\* Sessions are only added.
LEMMA ServedSessions ==
    ASSUME TypeOK, NEW c, NEW b, Served(c, b)
    PROVE  sess' \in Seq(Sessions(issued)) /\ Len(sess') >= Len(sess) /\ Len(sess') \in Nat /\ Len(sess) \in Nat
  <1>1. Len(sess) \in Nat
    BY DEF TypeOK
  <1>2. sess' \in Seq(Sessions(issued))
    BY DEF Served, Answer
  <1>3. Len(sess') = Len(sess) \/ Len(sess') = Len(sess) + 1
    <2>1. CASE NothingDone(c, b)
      BY <2>1 DEF NothingDone
    <2>2. CASE SessionReplaced(c, b)
      BY <2>2 DEF SessionReplaced
    <2>3. CASE SessionEnded(c, b)
      BY <2>3 DEF SessionEnded
    <2>4. CASE \E t \in 0 .. issued : TokenSet(c, b, t)
      BY <2>4 DEF TokenSet
    <2>5. CASE \E t \in 0 .. issued : SessionBegun(c, b, t)
      BY <2>5 DEF SessionBegun
    <2> QED
      BY <2>1, <2>2, <2>3, <2>4, <2>5 DEF Served
  <1> QED
    BY <1>1, <1>2, <1>3

\* The steps of the specification, as the invariance proofs distinguish them.
Step ==
    \/ \E K : PersonStep(K)
    \/ Reload \/ ExternalLogin \/ Expire \/ LoginDelay
    \/ \E c : Handle(c) \/ Lose(c)
    \/ \E c : \/ ApplyCsrf(c) \/ ApplyBootSession(c) \/ ApplyOauthSession(c) \/ ApplyLogin(c)
              \/ ApplyStart(c) \/ Prompt(c) \/ ApplyLogout(c) \/ ApplyWrite(c)
    \/ UNCHANGED vars

\* Every step of Next is one of Step.
LEMMA NextSteps ==
    ASSUME TypeOK, [Next]_vars
    PROVE  Step
  <1>1. CASE Person
    <2>1. CASE Reload \/ ExternalLogin
      BY <2>1 DEF Step
    <2>2. CASE ClickLogout
      BY <2>2, ClickLogoutDoes DEF Step
    <2>3. CASE SubmitLogin \/ SubmitWebAuthn \/ Write
      BY <2>3, SubmitDoes DEF Step
    <2>4. CASE \E to \in Pages : Navigate(to)
      BY <2>4, NavigateDoes DEF Step
    <2> QED
      BY <1>1, <2>1, <2>2, <2>3, <2>4 DEF Person
  <1>2. CASE LoginDelay \/ Expire
    BY <1>2 DEF Step
  <1>3. CASE \E c \in calls : Handle(c) \/ Lose(c) \/ Apply(c)
    BY <1>3 DEF Step, Apply
  <1>4. CASE UNCHANGED vars
    BY <1>4 DEF Step
  <1> QED
    BY <1>1, <1>2, <1>3, <1>4 DEF Next

\* The answers are of the types that the browser stores.
LEMMA AnswerTyped ==
    ASSUME TypeOK, NEW c \in calls
    PROVE  c.who \in Names /\ c.dest \in Pages \cup {"none"} /\ NoUser \in Names
  BY CodesTyped DEF TypeOK, Calls

\* Every step keeps the shape.
LEMMA NextTyped ==
    ASSUME TypeOK, Step, OauthCalls
    PROVE  TypeOK'
  <1>1. CASE \E K : PersonStep(K)
    BY <1>1, PersonTyped
  <1>2. CASE Reload
    <2>1. PICK K : Loaded(K)
      BY <1>2, ReloadDoes
    <2>2. /\ UNCHANGED <<cookie, sess, want>> /\ page' \in Pages \cup {"loading"} /\ ret' \in Restricted \cup {"none"}
      BY <1>2, ReloadDoes
    <2>3. cookie' \in 0 .. Len(sess') /\ sess' \in Seq(Sessions(issued)) /\ Len(sess') >= Len(sess) /\ want' \in Pages \cup {"none"}
      BY <2>2 DEF TypeOK
    <2> QED
      BY <2>1, <2>2, <2>3, LoadTyped
  <1>3. CASE ExternalLogin
    <2>1. PICK K : /\ Loaded(K) /\ page' \in Pages \cup {"loading"} /\ want' \in Pages \cup {"none"}
      BY <1>3, ExternalLoginDoes DEF TypeOK, Pages, Public
    <2>2. /\ ret' = ret
          /\ \/ sess' = sess /\ cookie' = cookie
             \/ sess' \in Seq(Sessions(issued)) /\ Len(sess') = Len(sess) + 1 /\ cookie' = Len(sess')
      BY <1>3, ExternalLoginDoes
    <2>3. cookie' \in 0 .. Len(sess') /\ sess' \in Seq(Sessions(issued)) /\ Len(sess') >= Len(sess)
          /\ ret' \in Restricted \cup {"none"}
      BY <2>2 DEF TypeOK
    <2> QED
      BY <2>1, <2>3, LoadTyped
  <1>4. CASE Expire
    <2>1. /\ orderly' = FALSE
          /\ UNCHANGED <<user, stored, ret, page, token, cookie, boot, was, loggingIn, calls, issued, want>>
          /\ sess' \in Seq(Sessions(issued)) /\ Len(sess') = Len(sess)
      BY <1>4, ExpireDoes
    <2> QED
      BY <2>1 DEF TypeOK
  <1>5. CASE LoginDelay
    BY <1>5 DEF LoginDelay, TypeOK
  <1>6. CASE \E c : Handle(c)
    <2>1. PICK c : Handle(c)
      BY <1>6
    <2>2. PICK b : Served(c, b)
      BY <2>1, HandleDoes
    <2>3. UNCHANGED <<user, stored, ret, page, token, cookie, boot, was, loggingIn, want, issued>> /\ orderly' \in BOOLEAN
      BY <2>1, HandleDoes
    <2>4. Changed(c, b) /\ sess' \in Seq(Sessions(issued)) /\ Len(sess') >= Len(sess)
      BY <2>2, ServedChanged, ServedSessions
    <2> QED
      BY <2>3, <2>4, ChangedTyped
  <1>7. CASE \E c : Lose(c)
    <2>1. PICK c : Lose(c)
      BY <1>7
    <2>2. PICK b : Changed(c, b)
      BY <2>1, LoseDoes
    <2>3. UNCHANGED <<user, stored, ret, page, token, cookie, boot, was, loggingIn, want, sess, issued>> /\ orderly' = FALSE
      BY <2>1, LoseDoes
    <2>4. sess' \in Seq(Sessions(issued)) /\ Len(sess') >= Len(sess)
      BY <2>3 DEF TypeOK
    <2> QED
      BY <2>2, <2>3, <2>4, ChangedTyped
  <1>8. ASSUME NEW c, ApplyCsrf(c)
        PROVE  TypeOK'
    <2>1. PICK K : ApplyStep(c, K) /\ UNCHANGED <<user, stored, ret, page, loggingIn>>
      BY <1>8, CsrfDoes
    <2>2. boot' \in {boot, "session"} /\ was' \in BOOLEAN
      BY <1>8, CsrfDoes DEF TypeOK
    <2> QED
      BY <2>1, <2>2, ApplyTyped DEF TypeOK
  <1>9. ASSUME NEW c, ApplyBootSession(c)
        PROVE  TypeOK'
    <2>1. PICK K : /\ ApplyStep(c, K) /\ boot' = "done" /\ UNCHANGED <<page, was, loggingIn>>
                   /\ user' = (IF c.code = 200 THEN c.who ELSE NoUser) /\ stored' = user' /\ ret' \in {ret, "none"}
      BY <1>9, BootSessionDoes
    <2>2. user' \in Names
      BY <2>1, AnswerTyped DEF ApplyStep
    <2> QED
      BY <2>1, <2>2, ApplyTyped DEF TypeOK
  <1>10. ASSUME NEW c, ApplyOauthSession(c)
         PROVE  TypeOK'
    <2>1. PICK K : /\ ApplyStep(c, K) /\ c.from = "oauth" /\ UNCHANGED <<boot, was, loggingIn>>
                   /\ user' = (IF c.code = 200 THEN c.who ELSE NoUser) /\ stored' = user' /\ ret' \in {ret, "none"}
                   /\ page' = IF user' # NoUser THEN c.dest ELSE "/login"
      BY <1>10, OauthDoes
    <2>2. user' \in Names /\ c \in calls
      BY <2>1, AnswerTyped DEF ApplyStep
    <2>3. c.dest \in Pages
      BY <2>1, <2>2, AnswerTyped DEF OauthCalls
    <2>4. page' \in Pages \cup {"loading"}
      BY <2>1, <2>3 DEF Pages, Public
    <2> QED
      BY <2>1, <2>2, <2>4, ApplyTyped DEF TypeOK
  <1>11. ASSUME NEW c, ApplyLogin(c)
         PROVE  TypeOK'
    <2>1. PICK K : /\ ApplyStep(c, K) /\ UNCHANGED <<boot, was>> /\ loggingIn' \in BOOLEAN /\ user' \in {c.who, NoUser}
                   /\ stored' = user' /\ ret' \in {ret, "none"} /\ page' \in {page, "/"}
      BY <1>11, LoginDoes
    <2>2. user' \in Names
      BY <2>1, AnswerTyped DEF ApplyStep
    <2>3. page' \in Pages \cup {"loading"}
      BY <2>1 DEF TypeOK, Pages, Public
    <2> QED
      BY <2>1, <2>2, <2>3, ApplyTyped DEF TypeOK
  <1>12. ASSUME NEW c, ApplyStart(c) \/ ApplyLogout(c) \/ ApplyWrite(c)
         PROVE  TypeOK'
    <2>1. PICK K : /\ ApplyStep(c, K) /\ UNCHANGED <<boot, was>> /\ loggingIn' \in BOOLEAN /\ user' \in {user, NoUser}
                   /\ stored' = user' /\ ret' \in {ret, "none"} /\ page' \in {page, "/login"}
      <3>1. CASE ApplyStart(c)
        BY <3>1, StartDoes DEF TypeOK
      <3>2. CASE ApplyLogout(c)
        BY <3>2, LogoutDoes
      <3>3. CASE ApplyWrite(c)
        BY <3>3, WriteDoes DEF TypeOK
      <3> QED
        BY <1>12, <3>1, <3>2, <3>3
    <2>2. user' \in Names
      BY <2>1, CodesTyped DEF TypeOK
    <2>3. page' \in Pages \cup {"loading"}
      BY <2>1 DEF TypeOK, Pages, Public
    <2> QED
      BY <2>1, <2>2, <2>3, ApplyTyped DEF TypeOK
  <1>13. ASSUME NEW c, Prompt(c)
         PROVE  TypeOK'
    <2>1. PICK K : Grow({c}, K)
      BY <1>13, PromptDoes
    <2>2. /\ UNCHANGED <<ret, page, token, cookie, boot, was, loggingIn, sess, want>> /\ orderly' \in {orderly, FALSE}
          /\ user' \in {user, NoUser} /\ stored' = user'
      BY <1>13, PromptDoes
    <2>3. Len(sess') \in Nat /\ Len(sess') >= Len(sess) /\ issued' \in Nat /\ issued' >= issued /\ token' \in 0 .. issued'
      BY <2>1, <2>2 DEF TypeOK, Grow
    <2>4. calls' \subseteq Calls(issued', Len(sess')) /\ Seq(Sessions(issued)) \subseteq Seq(Sessions(issued'))
      BY <2>1, <2>3, GrowTyped
    <2>5. user' \in Names
      BY <2>2, CodesTyped DEF TypeOK
    <2> QED
      BY <2>2, <2>3, <2>4, <2>5 DEF TypeOK
  <1>14. CASE UNCHANGED vars
    BY <1>14 DEF vars, TypeOK
  <1> QED
    BY <1>1, <1>2, <1>3, <1>4, <1>5, <1>6, <1>7, <1>8, <1>9, <1>10, <1>11, <1>12, <1>13, <1>14 DEF Step

-----------------------------------------------------------------------------
(* The numbers and the cookies of the calls *)

\* A session that ended does not come back.
Buried ==
    /\ \A s \in DOMAIN sess' : ~sess'[s].live => sess'[s] = Gone
    /\ \A i \in 1 .. Len(sess) : ~sess[i].live => ~sess'[i].live

\* Nothing comes back where no session changes.
LEMMA BuriedSame ==
    ASSUME TypeOK, CookiesNew, sess' = sess
    PROVE  Buried
  BY DEF Buried, CookiesNew

\* The index that is new when a sequence grows by one.
LEMMA OneMore ==
    ASSUME NEW n \in Nat, NEW m \in Nat, NEW i \in 1 .. m, i \notin 1 .. n, m = n \/ m = n + 1
    PROVE  i = n + 1 /\ m = n + 1
  OBVIOUS

\* One session ends, and one may begin.
LEMMA BuriedOne ==
    ASSUME TypeOK, CookiesNew, NEW s, sess' \in Seq(Sessions(issued)),
           \A i \in 1 .. Len(sess) : sess'[i] = IF i = s THEN Gone ELSE sess[i],
           Len(sess') = Len(sess) \/ (Len(sess') = Len(sess) + 1 /\ sess'[Len(sess) + 1].live = TRUE)
    PROVE  Buried
  <1>1. DOMAIN sess' = 1 .. Len(sess') /\ DOMAIN sess = 1 .. Len(sess) /\ Len(sess) \in Nat
    BY DEF TypeOK
  <1>2. Gone.live = FALSE
    BY DEF Gone
  <1>3. ASSUME NEW i \in DOMAIN sess', ~sess'[i].live
        PROVE  sess'[i] = Gone
    <2>1. CASE i \in 1 .. Len(sess)
      BY <1>1, <1>3, <2>1 DEF CookiesNew
    <2>2. CASE i \notin 1 .. Len(sess)
      <3>1. Len(sess') \in Nat /\ (Len(sess') = Len(sess) \/ Len(sess') = Len(sess) + 1)
        OBVIOUS
      <3>2. i = Len(sess) + 1 /\ Len(sess') = Len(sess) + 1
        BY <1>1, <2>2, <3>1, OneMore
      <3> QED
        BY <1>3, <3>2
    <2> QED
      BY <2>1, <2>2
  <1>4. \A i \in 1 .. Len(sess) : ~sess[i].live => ~sess'[i].live
    BY <1>2
  <1> QED
    BY <1>3, <1>4 DEF Buried

\* The server brings no session back.
LEMMA ServedBuried ==
    ASSUME TypeOK, CookiesNew, NEW c, NEW b, Served(c, b)
    PROVE  Buried
  <1>1. sess' \in Seq(Sessions(issued)) /\ Len(sess) \in Nat
    BY DEF Served, Answer, TypeOK
  <1>2. CASE NothingDone(c, b)
    BY <1>2, BuriedSame DEF NothingDone
  <1>3. CASE SessionReplaced(c, b)
    <2>1. /\ Len(sess') = Len(sess) + 1 /\ sess'[Len(sess) + 1].live = TRUE
          /\ \A i \in 1 .. Len(sess) : sess'[i] = IF i = c.sid THEN Gone ELSE sess[i]
      BY <1>3 DEF SessionReplaced
    <2> QED
      BY <1>1, <2>1, BuriedOne
  <1>4. CASE SessionEnded(c, b)
    BY <1>1, <1>4, BuriedOne DEF SessionEnded
  <1>5. ASSUME NEW t \in 0 .. issued, TokenSet(c, b, t)
        PROVE  Buried
    <2>1. /\ Len(sess') = Len(sess) /\ \A i \in 1 .. Len(sess) : i # c.sid => sess'[i] = sess[i]
          /\ sess'[c.sid].live = TRUE /\ sess[c.sid].live
      BY <1>5 DEF TokenSet
    <2>2. DOMAIN sess' = 1 .. Len(sess') /\ DOMAIN sess = 1 .. Len(sess)
      BY <1>1 DEF TypeOK
    <2> QED
      BY <2>1, <2>2 DEF Buried, CookiesNew
  <1>6. ASSUME NEW t \in 0 .. issued, SessionBegun(c, b, t)
        PROVE  Buried
    <2>1. /\ Len(sess') = Len(sess) + 1 /\ \A i \in 1 .. Len(sess) : sess'[i] = sess[i]
          /\ sess'[Len(sess) + 1].live = TRUE
      BY <1>6 DEF SessionBegun
    <2>2. DOMAIN sess' = 1 .. Len(sess') /\ DOMAIN sess = 1 .. Len(sess)
      BY <1>1 DEF TypeOK
    <2>3. ASSUME NEW i \in DOMAIN sess', ~sess'[i].live
          PROVE  sess'[i] = Gone
      <3>1. i \in 1 .. Len(sess)
        BY <1>1, <2>1, <2>2, <2>3
      <3> QED
        BY <2>1, <2>2, <2>3, <3>1 DEF CookiesNew
    <2> QED
      BY <2>1, <2>3 DEF Buried
  <1> QED
    BY <1>2, <1>3, <1>4, <1>5, <1>6 DEF Served

\* The session of a call that is dead stays so.
LEMMA DeadStays ==
    ASSUME TypeOK, Buried, NEW sid \in 0 .. Len(sess), ~SessionOf(sid).live
    PROVE  ~SessionOf(sid)'.live
  <1>1. CASE sid = 0
    BY <1>1 DEF SessionOf, Gone
  <1>2. CASE sid # 0
    <2>1. sid \in 1 .. Len(sess)
      BY <1>2
    <2> QED
      BY <1>2, <2>1 DEF SessionOf, Buried
  <1> QED
    BY <1>1, <1>2

\* Sending.
LEMMA GrowTold ==
    ASSUME TypeOK, CallsTold, NEW gone, NEW K, Grow(gone, K)
    PROVE  CallsTold'
  <1>1. \A d \in calls : d.no \in Nat /\ d.no <= issued /\ issued \in Nat
    BY DEF TypeOK, Calls
  <1>2. \A d \in calls' : d \in calls \/ FreshCall(d)
    BY DEF Grow
  <1>3. \A d : FreshCall(d) => d.no \in Nat /\ d.no > issued
    BY DEF FreshCall, Calls
  <1>4. ASSUME NEW c \in calls', NEW d \in calls', c.no = d.no
        PROVE  c = d
    <2>1. CASE c \in calls /\ d \in calls
      BY <1>4, <2>1 DEF CallsTold
    <2>2. CASE FreshCall(c) /\ FreshCall(d)
      BY <1>4, <2>2 DEF Grow
    <2>3. CASE (c \in calls /\ FreshCall(d)) \/ (d \in calls /\ FreshCall(c))
      BY <1>1, <1>3, <1>4, <2>3
    <2> QED
      BY <1>2, <2>1, <2>2, <2>3
  <1>5. \A c \in calls' : c.from = "gone" \/ c.kind = "prompt" => c.st = "sent"
    BY <1>2 DEF CallsTold, FreshCall
  <1>6. \A c \in calls' : (c.st = "sent" => c.set = 0) /\ (c.from = "gone" => c.kind # "prompt")
    BY <1>2 DEF CallsTold, FreshCall
  <1> QED
    BY <1>4, <1>5, <1>6 DEF CallsTold

\* c is the answer that is applied.
LEMMA GrowCookies ==
    ASSUME TypeOK, CookiesNew, NEW c, NEW gone, NEW K, Grow(gone, K), sess' = sess,
           cookie' = cookie \/ (c \in calls /\ cookie' = c.set /\ c.set # 0 /\ c \in gone)
    PROVE  CookiesNew'
  <1>1. \A d \in calls' : (d \in calls /\ d \notin gone) \/ FreshCall(d)
    BY DEF Grow
  <1>2. \A s \in DOMAIN sess' : ~sess'[s].live => sess'[s] = Gone
    BY DEF CookiesNew
  <1>3. ASSUME NEW d \in calls', d.set # 0
        PROVE  /\ ~SessionOf(d.sid)'.live /\ d.kind \in {"csrf", "start", "login", "finish"}
               /\ d.set # cookie'
               /\ \A e \in calls' : e.sid # d.set /\ (e # d => e.set # d.set)
    <2>1. d \in calls /\ d \notin gone
      BY <1>1, <1>3 DEF FreshCall
    <2>2. /\ ~SessionOf(d.sid).live /\ d.kind \in {"csrf", "start", "login", "finish"} /\ d.set # cookie
          /\ \A e \in calls : e.sid # d.set /\ (e # d => e.set # d.set)
      BY <1>3, <2>1 DEF CookiesNew
    <2>3. d.set # cookie'
      BY <2>1, <2>2
    <2>4. ~SessionOf(d.sid)'.live
      BY <2>2 DEF SessionOf
    <2>5. \A e \in calls' : e.sid # d.set /\ (e # d => e.set # d.set)
      BY <1>1, <1>3, <2>2, <2>3 DEF FreshCall
    <2> QED
      BY <2>2, <2>3, <2>4, <2>5
  <1>4. ASSUME NEW d \in calls', d.kind = "logout", d.code = 200
        PROVE  ~SessionOf(d.sid)'.live
    <2>1. d \in calls
      BY <1>1, <1>4 DEF FreshCall
    <2> QED
      BY <1>4, <2>1 DEF CookiesNew, SessionOf
  <1> QED
    BY <1>2, <1>3, <1>4 DEF CookiesNew

\* Handling and losing.
LEMMA ChangedTold ==
    ASSUME TypeOK, CallsTold, NEW c, NEW b, Changed(c, b)
    PROVE  CallsTold'
  <1>1. \A d \in calls' : (d \in calls /\ d # c) \/ (d = b /\ d.from # "gone")
    BY DEF Changed, Back
  <1>2. ASSUME NEW x \in calls', NEW y \in calls', x.no = y.no
        PROVE  x = y
    <2>1. CASE x \in calls /\ x # c /\ y \in calls /\ y # c
      BY <1>2, <2>1 DEF CallsTold
    <2>2. CASE x = b /\ y = b
      BY <2>2
    <2>3. CASE x \in calls /\ x # c /\ y = b
      BY <1>2, <2>3 DEF CallsTold, Changed
    <2>4. CASE y \in calls /\ y # c /\ x = b
      BY <1>2, <2>4 DEF CallsTold, Changed
    <2> QED
      BY <1>1, <2>1, <2>2, <2>3, <2>4
  <1>3. \A x \in calls' : x.from = "gone" \/ x.kind = "prompt" => x.st = "sent"
    BY <1>1 DEF CallsTold, Changed
  <1>4. \A x \in calls' : (x.st = "sent" => x.set = 0) /\ (x.from = "gone" => x.kind # "prompt")
    BY <1>1 DEF CallsTold, Changed
  <1> QED
    BY <1>2, <1>3, <1>4 DEF CallsTold

\* A call that was changed: its new cookie is the next number.
LEMMA ChangedCookies ==
    ASSUME TypeOK, CookiesNew, NEW c, NEW b, Changed(c, b), Buried, cookie' = cookie,
           b.set # 0 => /\ b.set = Len(sess) + 1 /\ ~SessionOf(b.sid)'.live
                        /\ b.kind \in {"csrf", "start", "login", "finish"},
           b.kind = "logout" /\ b.code = 200 => ~SessionOf(b.sid)'.live
    PROVE  CookiesNew'
  <1>1. \A d \in calls' : d \in calls \/ d = b
    BY DEF Changed, Back
  <1>2. \A d \in calls : d.sid \in 0 .. Len(sess) /\ d.set \in 0 .. Len(sess) /\ Len(sess) \in Nat
    BY SidTyped
  <1>3. b.sid \in 0 .. Len(sess) /\ cookie \in 0 .. Len(sess) /\ Len(sess) \in Nat
    BY <1>2 DEF Changed, TypeOK
  <1>4. \A s \in DOMAIN sess' : ~sess'[s].live => sess'[s] = Gone
    BY DEF Buried
  <1>5. ASSUME NEW d \in calls', d.set # 0
        PROVE  /\ ~SessionOf(d.sid)'.live /\ d.kind \in {"csrf", "start", "login", "finish"}
               /\ d.set # cookie'
               /\ \A e \in calls' : e.sid # d.set /\ (e # d => e.set # d.set)
    <2>1. CASE d = b
      <3>1. d.set = Len(sess) + 1
        BY <1>5, <2>1
      <3>2. \A e \in calls' : e.sid # d.set /\ (e # d => e.set # d.set)
        BY <1>1, <1>2, <1>3, <2>1, <3>1
      <3>3. d.set # cookie'
        BY <1>3, <3>1
      <3> QED
        BY <1>5, <2>1, <3>2, <3>3
    <2>2. CASE d # b
      <3>1. d \in calls
        BY <1>1, <2>2
      <3>2. /\ ~SessionOf(d.sid).live /\ d.kind \in {"csrf", "start", "login", "finish"} /\ d.set # cookie
            /\ \A e \in calls : e.sid # d.set /\ (e # d => e.set # d.set)
        BY <1>5, <3>1 DEF CookiesNew
      <3>3. ~SessionOf(d.sid)'.live
        BY <1>2, <3>1, <3>2, DeadStays
      <3>4. b.sid # d.set /\ b.set # d.set
        <4>1. b.sid # d.set
          BY <3>2 DEF Changed
        <4>2. d.set \in 0 .. Len(sess)
          BY <1>2, <3>1
        <4> QED
          BY <1>3, <1>5, <4>1, <4>2
      <3> QED
        BY <1>1, <3>2, <3>3, <3>4
    <2> QED
      BY <2>1, <2>2
  <1>6. ASSUME NEW d \in calls', d.kind = "logout", d.code = 200
        PROVE  ~SessionOf(d.sid)'.live
    <2>1. CASE d = b
      BY <1>6, <2>1
    <2>2. CASE d \in calls
      <3>1. ~SessionOf(d.sid).live
        BY <1>6, <2>2 DEF CookiesNew
      <3> QED
        BY <1>2, <2>2, <3>1, DeadStays
    <2> QED
      BY <1>1, <2>1, <2>2
  <1> QED
    BY <1>4, <1>5, <1>6 DEF CookiesNew

\* Handling keeps the cookies new.
LEMMA ServedCookies ==
    ASSUME TypeOK, CookiesNew, NEW c, NEW b, Served(c, b), cookie' = cookie
    PROVE  CookiesNew'
  <1>1. Changed(c, b) /\ Buried
    BY ServedChanged, ServedBuried
  <1>2. c \in calls /\ b.sid = c.sid /\ b.kind = c.kind
    BY <1>1 DEF Changed
  <1>3. c.sid \in 0 .. Len(sess)
    BY <1>2, SidTyped
  <1>4. ASSUME SessionReplaced(c, b) \/ SessionEnded(c, b)
        PROVE  ~SessionOf(b.sid)'.live
    <2>1. CASE b.sid = 0
      BY <2>1 DEF SessionOf, Gone
    <2>2. CASE b.sid # 0
      <3>1. b.sid \in 1 .. Len(sess) /\ b.sid = c.sid
        BY <1>2, <1>3, <2>2
      <3>2. sess'[b.sid] = Gone
        BY <1>4, <3>1 DEF SessionReplaced, SessionEnded
      <3> QED
        BY <2>2, <3>2 DEF SessionOf, Gone
    <2> QED
      BY <2>1, <2>2
  <1>5. ASSUME b.set # 0
        PROVE  b.set = Len(sess) + 1 /\ ~SessionOf(b.sid)'.live /\ b.kind \in {"csrf", "start", "login", "finish"}
    <2>1. CASE SessionReplaced(c, b)
      BY <1>2, <1>4, <2>1 DEF SessionReplaced
    <2>2. CASE \E t \in 0 .. issued : SessionBegun(c, b, t)
      <3>1. b.set = Len(sess) + 1 /\ ~SessionOf(c.sid).live /\ c.kind \in {"csrf", "start"}
        BY <2>2 DEF SessionBegun
      <3>2. ~SessionOf(c.sid)'.live
        BY <1>1, <1>3, <3>1, DeadStays
      <3> QED
        BY <1>2, <3>1, <3>2
    <2> QED
      BY <1>5, <2>1, <2>2 DEF Served, NothingDone, SessionEnded, TokenSet
  <1>6. ASSUME b.kind = "logout", b.code = 200
        PROVE  ~SessionOf(b.sid)'.live
    <2>1. SessionEnded(c, b)
      BY <1>2, <1>6 DEF Served, NothingDone, SessionReplaced, TokenSet, SessionBegun
    <2> QED
      BY <1>4, <2>1
  <1> QED
    BY <1>1, <1>5, <1>6, ChangedCookies

\* Loading a page.
LEMMA LoadTold ==
    ASSUME TypeOK, CallsTold, NEW K, Loaded(K)
    PROVE  CallsTold'
  <1>1. \A c \in calls : /\ Left(c).no = c.no /\ Left(c).no \in Nat /\ Left(c).no <= issued /\ Left(c).st = c.st
                         /\ Left(c).set = c.set /\ Left(c).kind = c.kind
    BY CallLeft DEF TypeOK, Calls
  <1>2. \A d : FreshCall(d) => d.no \in Nat /\ d.no > issued /\ issued \in Nat
    BY DEF FreshCall, Calls, TypeOK
  <1>3. \A d \in calls' : (\E c \in calls : c.st = "sent" /\ c.kind # "prompt" /\ d = Left(c)) \/ FreshCall(d)
    BY DEF Loaded
  <1>4. ASSUME NEW x \in calls', NEW y \in calls', x.no = y.no
        PROVE  x = y
    <2>1. CASE FreshCall(x) /\ FreshCall(y)
      BY <1>4, <2>1 DEF Loaded
    <2>2. ASSUME NEW c \in calls, NEW d \in calls, x = Left(c), y = Left(d)
          PROVE  x = y
      <3>1. c = d
        BY <1>1, <1>4, <2>2 DEF CallsTold
      <3> QED
        BY <2>2, <3>1
    <2>3. ASSUME NEW c \in calls, x = Left(c), FreshCall(y)
          PROVE  FALSE
      BY <1>1, <1>2, <1>4, <2>3
    <2>4. ASSUME NEW c \in calls, y = Left(c), FreshCall(x)
          PROVE  FALSE
      BY <1>1, <1>2, <1>4, <2>4
    <2> QED
      BY <1>3, <2>1, <2>2, <2>3, <2>4
  <1>5. \A d \in calls' : d.st = "sent" /\ d.set = 0 /\ (d.from = "gone" => d.kind # "prompt")
    BY <1>1, <1>3 DEF FreshCall, CallsTold
  <1> QED
    BY <1>4, <1>5 DEF CallsTold

\* A page load drops every answer, so no cookie waits.
LEMMA LoadCookies ==
    ASSUME TypeOK, CallsTold, CookiesNew, NEW K, Loaded(K), Buried
    PROVE  CookiesNew'
  <1>1. \A c \in calls : /\ Left(c).sid = c.sid /\ Left(c).kind = c.kind /\ Left(c).code = c.code /\ Left(c).st = c.st
                         /\ Left(c).set = c.set
    BY CallLeft DEF TypeOK, Calls
  <1>2. \A d \in calls' : (\E c \in calls : c.st = "sent" /\ d = Left(c)) \/ FreshCall(d)
    BY DEF Loaded
  <1>3. \A d \in calls' : d.set = 0
    BY <1>1, <1>2 DEF FreshCall, CallsTold
  <1>4. ASSUME NEW d \in calls', d.kind = "logout", d.code = 200
        PROVE  ~SessionOf(d.sid)'.live
    <2>1. PICK c \in calls : d = Left(c)
      BY <1>2, <1>4 DEF FreshCall
    <2>2. d.sid = c.sid /\ ~SessionOf(c.sid).live /\ c.sid \in 0 .. Len(sess)
      BY <1>1, <1>4, <2>1, SidTyped DEF CookiesNew
    <2>3. ~SessionOf(c.sid)'.live
      BY <2>2, DeadStays
    <2> QED
      BY <2>2, <2>3
  <1> QED
    BY <1>3, <1>4 DEF CookiesNew, Buried

-----------------------------------------------------------------------------
(* What holds in every run, orderly or not *)

Basic == TypeOK /\ CallsTold /\ CookiesNew /\ BootCalls /\ OauthCalls

\* A call has the kind, origin and page that it was sent with.
LEMMA SpecOfFields ==
    ASSUME NEW d
    PROVE  SpecOf(d).kind = d.kind /\ SpecOf(d).from = d.from /\ SpecOf(d).dest = d.dest
  BY DEF SpecOf, Spec0

\* A call in flight was there before, or is sent in this step as one of K.
LEMMA GrowFields ==
    ASSUME NEW gone, NEW K, Grow(gone, K), NEW d \in calls'
    PROVE  \/ d \in calls /\ d \notin gone
           \/ FreshCall(d) /\ \E k \in K : k = SpecOf(d) /\ k.kind = d.kind /\ k.from = d.from /\ k.dest = d.dest
  BY SpecOfFields DEF Grow

\* A step that sends no call of App.vue's and none of the router's.
LEMMA GrowBasic ==
    ASSUME Basic, NEW c, NEW gone, NEW K, Grow(gone, K), UNCHANGED <<sess, want>>,
           cookie' = cookie \/ (c \in calls /\ cookie' = c.set /\ c.set # 0 /\ c \in gone),
           boot' = boot \/ (c \in calls /\ c \in gone /\ c.from = "boot"),
           \A k \in K : k.from # "oauth" /\ (k.from = "boot" => c \in calls /\ c \in gone /\ c.from = "boot" /\ k.kind = boot'),
           \A d, e \in calls' : FreshCall(d) /\ FreshCall(e) /\ d.from = "boot" /\ e.from = "boot" => d = e,
           page' = "loading" => page = "loading" /\ \A k \in K : k.kind \notin SignIns
    PROVE  CallsTold' /\ CookiesNew' /\ BootCalls' /\ OauthCalls'
  <1>1. CallsTold' /\ CookiesNew'
    BY GrowTold, GrowCookies DEF Basic
  <1>2. \A d \in calls' : \/ d \in calls /\ d \notin gone
                          \/ FreshCall(d) /\ \E k \in K : k.kind = d.kind /\ k.from = d.from
    BY GrowFields
  <1>3. \A d \in calls : d.from = "boot" => d.kind = boot
    BY DEF Basic, BootCalls
  <1>4. \A d, e \in calls : d.from = "boot" /\ e.from = "boot" => d = e
    BY DEF Basic, BootCalls
  <1>5. \A d \in calls' : d.from = "boot" => d.kind = boot'
    BY <1>2, <1>3, <1>4
  <1>6. \A d, e \in calls' : d.from = "boot" /\ e.from = "boot" => d = e
    BY <1>2, <1>4
  <1>7. \A d \in calls' : d.from = "oauth" => d.kind = "session" /\ d.dest = want' /\ want' \in Pages
    BY <1>2 DEF Basic, OauthCalls
  <1>8. page' = "loading" => \A d \in calls' : d.kind \in SignIns => d.from = "gone"
    BY <1>2 DEF Basic, OauthCalls
  <1> QED
    BY <1>1, <1>5, <1>6, <1>7, <1>8 DEF BootCalls, OauthCalls

\* The person sends no call of the start-up.
LEMMA PersonBasic ==
    ASSUME Basic, NEW K, PersonStep(K)
    PROVE  CallsTold' /\ CookiesNew' /\ BootCalls' /\ OauthCalls'
  <1>1. /\ Grow({}, K) /\ UNCHANGED <<sess, want, cookie, boot>> /\ page' # "loading"
        /\ \A k \in K : k.from # "oauth" /\ k.from # "boot"
    BY DEF PersonStep
  <1>2. \A d \in calls' : FreshCall(d) => d.from # "boot"
    <2>1. \A d \in calls : ~FreshCall(d)
      BY DEF Basic, TypeOK, Calls, FreshCall
    <2> QED
      BY <1>1, <2>1, GrowFields
  <1> QED
    BY <1>1, <1>2, GrowBasic

\* An answer, when App.vue's calls are left alone or the next one is sent.
LEMMA ApplyBasic ==
    ASSUME Basic, NEW c, NEW K, ApplyStep(c, K),
           (boot' = boot /\ \A k \in K : k.from # "boot") \/ (c.from = "boot" /\ \A k \in K : k.from # "boot")
             \/ (c.from = "boot" /\ \A k \in K : k.kind = boot'),
           \A d, e \in calls' : FreshCall(d) /\ FreshCall(e) /\ d.from = "boot" /\ e.from = "boot" => d = e,
           page' = "loading" => page = "loading" /\ \A k \in K : k.kind \notin SignIns
    PROVE  CallsTold' /\ CookiesNew' /\ BootCalls' /\ OauthCalls'
  <1>1. /\ c \in calls /\ Grow({c}, K) /\ UNCHANGED <<sess, want>>
        /\ cookie' = cookie \/ (c \in calls /\ cookie' = c.set /\ c.set # 0)
        /\ \A k \in K : k.from # "oauth"
    BY DEF ApplyStep
  <1> QED
    BY <1>1, GrowBasic

\* A sequence of calls without App.vue's.
LEMMA NoBoot ==
    ASSUME TypeOK, NEW gone, NEW K, Grow(gone, K), \A k \in K : k.from # "boot"
    PROVE  \A d, e \in calls' : FreshCall(d) /\ FreshCall(e) /\ d.from = "boot" /\ e.from = "boot" => d = e
  <1>1. \A d \in calls : ~FreshCall(d)
    BY DEF TypeOK, Calls, FreshCall
  <1> QED
    BY <1>1, GrowFields

\* Every answer keeps the calls of the start-up apart.
LEMMA AppliesBasic ==
    ASSUME Basic, NEW c,
           \/ ApplyCsrf(c) \/ ApplyBootSession(c) \/ ApplyOauthSession(c) \/ ApplyLogin(c)
           \/ ApplyStart(c) \/ ApplyLogout(c) \/ ApplyWrite(c)
    PROVE  CallsTold' /\ CookiesNew' /\ BootCalls' /\ OauthCalls'
  <1>0. TypeOK
    BY DEF Basic
  <1>1. CASE ApplyCsrf(c)
    <2> DEFINE K == IF c.from = "boot" THEN {Spec0("session", "boot", "none")} ELSE {}
    <2>1. /\ ApplyStep(c, K) /\ page' = page
          /\ c.from = "boot" => boot' = "session"
          /\ c.from # "boot" => boot' = boot
          /\ \A d, e \in calls' : FreshCall(d) /\ FreshCall(e) => d = e
      BY <1>0, <1>1, CsrfDoes
    <2>2. \A k \in K : k.kind = "session" /\ c.from = "boot"
      BY DEF Spec0
    <2>3. \A k, l \in K : k = l
      OBVIOUS
    <2>4. "session" \notin SignIns
      BY DEF SignIns
    <2> HIDE DEF K
    <2> QED
      BY <2>1, <2>2, <2>3, <2>4, ApplyBasic
  <1>2. CASE ApplyBootSession(c)
    <2>1. PICK K : ApplyStep(c, K) /\ c.from = "boot" /\ page' = page /\ K \subseteq {LogoutSpec}
      BY <1>0, <1>2, BootSessionDoes
    <2>2. \A k \in K : k.from # "boot" /\ k.kind \notin SignIns
      BY <2>1, SpecFields DEF SignIns
    <2>3. Grow({c}, K)
      BY <2>1 DEF ApplyStep
    <2> QED
      BY <1>0, <2>1, <2>2, <2>3, ApplyBasic, NoBoot
  <1>3. CASE ApplyOauthSession(c)
    <2>1. PICK K : /\ ApplyStep(c, K) /\ c.from = "oauth" /\ boot' = boot /\ K \subseteq {CsrfSpec}
                   /\ page' = IF user' # NoUser THEN c.dest ELSE "/login"
      BY <1>0, <1>3, OauthDoes
    <2>2. \A k \in K : k.from # "boot"
      BY <2>1, SpecFields
    <2>3. Grow({c}, K) /\ c \in calls
      BY <2>1 DEF ApplyStep
    <2>4. c.dest = want /\ want \in Pages
      BY <2>1, <2>3 DEF Basic, OauthCalls
    <2>5. page' # "loading"
      BY <2>1, <2>4, SessionAssumption DEF Pages, Public
    <2> QED
      BY <1>0, <2>1, <2>2, <2>3, <2>5, ApplyBasic, NoBoot
  <1>4. CASE ApplyLogin(c)
    <2>1. PICK K : /\ ApplyStep(c, K) /\ boot' = boot /\ K \subseteq {CsrfSpec, LogoutSpec}
                   /\ page' \in {page, "/"}
      BY <1>0, <1>4, LoginDoes
    <2>2. \A k \in K : k.from # "boot" /\ k.kind \notin SignIns
      BY <2>1, SpecFields DEF SignIns
    <2>3. Grow({c}, K)
      BY <2>1 DEF ApplyStep
    <2> QED
      BY <1>0, <2>1, <2>2, <2>3, ApplyBasic, NoBoot
  <1>5. CASE ApplyStart(c)
    <2>1. PICK K : /\ ApplyStep(c, K) /\ c.kind = "start" /\ boot' = boot /\ K \subseteq {Spec0("prompt", "login", "none")}
                   /\ page' = page
      BY <1>0, <1>5, StartDoes
    <2>2. \A k \in K : k.from # "boot"
      BY <2>1 DEF Spec0
    <2>3. Grow({c}, K) /\ c \in calls /\ c.st # "sent"
      BY <2>1 DEF ApplyStep
    <2>4. page' # "loading"
      BY <2>1, <2>3 DEF Basic, OauthCalls, SignIns, CallsTold
    <2> QED
      BY <1>0, <2>1, <2>2, <2>3, <2>4, ApplyBasic, NoBoot
  <1>6. CASE ApplyLogout(c)
    <2>1. PICK K : ApplyStep(c, K) /\ boot' = boot /\ K \subseteq {CsrfSpec, LogoutSpec} /\ page' = "/login"
      BY <1>0, <1>6, LogoutDoes
    <2>2. \A k \in K : k.from # "boot"
      BY <2>1, SpecFields
    <2>3. Grow({c}, K)
      BY <2>1 DEF ApplyStep
    <2> QED
      BY <1>0, <2>1, <2>2, <2>3, ApplyBasic, NoBoot
  <1>7. CASE ApplyWrite(c)
    <2>1. PICK K : ApplyStep(c, K) /\ boot' = boot /\ K \subseteq {LogoutSpec} /\ page' = page
      BY <1>0, <1>7, WriteDoes
    <2>2. \A k \in K : k.from # "boot" /\ k.kind \notin SignIns
      BY <2>1, SpecFields DEF SignIns
    <2>3. Grow({c}, K)
      BY <2>1 DEF ApplyStep
    <2> QED
      BY <1>0, <2>1, <2>2, <2>3, ApplyBasic, NoBoot
  <1> QED
    BY <1>1, <1>2, <1>3, <1>4, <1>5, <1>6, <1>7

\* No passkey prompt waits on a page being loaded.
LEMMA PromptBasic ==
    ASSUME Basic, NEW c, Prompt(c)
    PROVE  CallsTold' /\ CookiesNew' /\ BootCalls' /\ OauthCalls'
  <1>1. TypeOK
    BY DEF Basic
  <1>2. /\ c \in calls /\ c.kind = "prompt" /\ UNCHANGED <<page, cookie, boot, sess, want>>
        /\ \E K \in SUBSET {Spec0("finish", "login", "none")} : Grow({c}, K)
    BY <1>1, PromptDoes
  <1>3. PICK K \in SUBSET {Spec0("finish", "login", "none")} : Grow({c}, K)
    BY <1>2
  <1>4. \A k \in K : k.from # "boot" /\ k.from # "oauth"
    BY <1>3 DEF Spec0
  <1>5. page' # "loading"
    BY <1>2 DEF Basic, OauthCalls, SignIns, CallsTold
  <1>6. \A d, e \in calls' : FreshCall(d) /\ FreshCall(e) /\ d.from = "boot" /\ e.from = "boot" => d = e
    BY <1>1, <1>3, <1>4, NoBoot
  <1> QED
    BY <1>2, <1>3, <1>4, <1>5, <1>6, GrowBasic

\* Handling and losing leave the kind and the origin of a call.
LEMMA ChangedBasic ==
    ASSUME Basic, NEW c, NEW b, Changed(c, b), UNCHANGED <<boot, page, want>>
    PROVE  BootCalls' /\ OauthCalls'
  <1>1. c \in calls /\ b.kind = c.kind /\ b.from = c.from /\ b.dest = c.dest
    BY DEF Changed
  <1>2. \A d \in calls' : (d \in calls /\ d # c) \/ d = b
    BY DEF Changed, Back
  <1>3. /\ \A d \in calls' : d.from = "boot" => d.kind = boot'
        /\ \A d, e \in calls' : d.from = "boot" /\ e.from = "boot" => d = e
    BY <1>1, <1>2 DEF Basic, BootCalls
  <1>4. /\ \A d \in calls' : d.from = "oauth" => d.kind = "session" /\ d.dest = want' /\ want' \in Pages
        /\ page' = "loading" => \A d \in calls' : d.kind \in SignIns => d.from = "gone"
    BY <1>1, <1>2 DEF Basic, OauthCalls
  <1> QED
    BY <1>3, <1>4 DEF BootCalls, OauthCalls

\* A page load begins with App.vue's call, and after an external login with the router's.
LEMMA LoadBasic ==
    ASSUME Basic, NEW K, Loaded(K), Buried,
           \/ /\ page' = "loading" /\ want' \in Pages
              /\ K = {BootCall, Spec0("session", "oauth", want')}
           \/ page' # "loading" /\ K \subseteq {BootCall, CsrfSpec}
    PROVE  CallsTold' /\ CookiesNew' /\ BootCalls' /\ OauthCalls'
  <1>1. CallsTold' /\ CookiesNew'
    BY LoadTold, LoadCookies DEF Basic
  <1>2. \A c \in calls : Left(c).from = "gone"
    BY CallLeft DEF Basic, TypeOK
  <1>3. \A d \in calls' : d.from = "gone" \/ (FreshCall(d) /\ SpecOf(d) \in K)
    BY <1>2 DEF Loaded
  <1>4. \A k \in K : k.from = "boot" => k.kind = "csrf"
    BY BootCallTyped DEF Loaded
  <1>5. /\ \A k \in K : k.from = "oauth" => k.kind = "session" /\ k.dest = want' /\ want' \in Pages
        /\ page' = "loading" => \A k \in K : k.kind \in {"csrf", "session"}
    BY BootCallTyped, SpecFields DEF Spec0
  <1>6. boot' = "csrf"
    BY DEF Loaded
  <1>7. /\ \A d \in calls' : d.from = "boot" => d.kind = boot'
        /\ \A d, e \in calls' : d.from = "boot" /\ e.from = "boot" => d = e
    BY <1>3, <1>4, <1>6, SpecOfFields DEF Loaded
  <1>8. /\ \A d \in calls' : d.from = "oauth" => d.kind = "session" /\ d.dest = want' /\ want' \in Pages
        /\ page' = "loading" => \A d \in calls' : d.kind \in SignIns => d.from = "gone"
    BY <1>3, <1>5, SpecOfFields DEF SignIns
  <1> QED
    BY <1>1, <1>7, <1>8 DEF BootCalls, OauthCalls

\* Every step, orderly or not, keeps the numbers, the cookies and the calls of the start-up.
LEMMA NextBasic ==
    ASSUME Basic, Step
    PROVE  Basic'
  <1>0. TypeOK /\ CallsTold /\ CookiesNew /\ BootCalls /\ OauthCalls
    BY DEF Basic
  <1>1. TypeOK'
    BY <1>0, NextTyped
  <1>2. CASE \E K : PersonStep(K)
    BY <1>1, <1>2, PersonBasic DEF Basic
  <1>3. CASE Reload
    <2>1. PICK K : Loaded(K) /\ K \subseteq {BootCall, CsrfSpec}
      BY <1>0, <1>3, ReloadDoes
    <2>2. sess' = sess /\ page' \in Pages
      BY <1>0, <1>3, ReloadDoes
    <2>3. Buried /\ page' # "loading"
      BY <1>0, <2>2, BuriedSame, SessionAssumption DEF Pages, Public
    <2> QED
      BY <1>1, <2>1, <2>3, LoadBasic DEF Basic
  <1>4. CASE ExternalLogin
    <2>1. PICK K : /\ Loaded(K)
                   /\ \/ /\ page' = "loading" /\ want' \in Pages
                         /\ K = {BootCall, Spec0("session", "oauth", want')}
                      \/ page' = "/login" /\ want' = want /\ K = {BootCall, CsrfSpec}
      BY <1>0, <1>4, ExternalLoginDoes
    <2>2. \/ sess' = sess /\ cookie' = cookie
          \/ /\ sess' \in Seq(Sessions(issued)) /\ Len(sess') = Len(sess) + 1 /\ cookie' = Len(sess')
             /\ \A i \in 1 .. Len(sess) : sess'[i] = IF i = cookie THEN Gone ELSE sess[i]
             /\ sess'[Len(sess) + 1].live = TRUE
      BY <1>0, <1>4, ExternalLoginDoes
    <2>3. Buried
      BY <1>0, <2>2, BuriedSame, BuriedOne
    <2> QED
      BY <1>1, <2>1, <2>3, LoadBasic DEF Basic
  <1>5. CASE Expire
    <2>1. UNCHANGED <<user, stored, ret, page, token, cookie, boot, was, loggingIn, calls, issued, want>>
      BY <1>0, <1>5, ExpireDoes
    <2>2. Buried
      BY <1>0, <1>5, ExpireDoes, BuriedOne
    <2>3. \A d \in calls : d.sid \in 0 .. Len(sess)
      BY <1>0, SidTyped
    <2>4. \A d \in calls : ~SessionOf(d.sid).live => ~SessionOf(d.sid)'.live
      BY <1>0, <2>2, <2>3, DeadStays
    <2>5. CookiesNew'
      BY <1>0, <2>1, <2>2, <2>4 DEF CookiesNew, Buried
    <2> QED
      BY <1>0, <1>1, <2>1, <2>5 DEF Basic, CallsTold, BootCalls, OauthCalls
  <1>6. CASE LoginDelay \/ UNCHANGED vars
    <2>1. UNCHANGED <<calls, boot, page, want, sess, cookie>>
      BY <1>6 DEF LoginDelay, vars
    <2> QED
      BY <1>0, <1>1, <2>1 DEF Basic, CallsTold, CookiesNew, BootCalls, OauthCalls, SessionOf
  <1>7. ASSUME NEW c, Handle(c)
        PROVE  Basic'
    <2>1. PICK b : Served(c, b)
      BY <1>0, <1>7, HandleDoes
    <2>2. UNCHANGED <<boot, page, want, cookie>>
      BY <1>0, <1>7, HandleDoes
    <2>3. Changed(c, b)
      BY <2>1, ServedChanged
    <2>4. CallsTold' /\ CookiesNew'
      BY <1>0, <2>1, <2>2, <2>3, ChangedTold, ServedCookies
    <2>5. BootCalls' /\ OauthCalls'
      BY <2>2, <2>3, ChangedBasic
    <2> QED
      BY <1>1, <2>4, <2>5 DEF Basic
  <1>8. ASSUME NEW c, Lose(c)
        PROVE  Basic'
    <2>1. PICK b : Changed(c, b) /\ b.set = 0 /\ b.code = 0
      BY <1>0, <1>8, LoseDoes
    <2>2. UNCHANGED <<boot, page, want, cookie, sess>>
      BY <1>0, <1>8, LoseDoes
    <2>3. Buried
      BY <1>0, <2>2, BuriedSame
    <2>4. CallsTold' /\ CookiesNew'
      BY <1>0, <2>1, <2>2, <2>3, ChangedTold, ChangedCookies
    <2>5. BootCalls' /\ OauthCalls'
      BY <2>1, <2>2, ChangedBasic
    <2> QED
      BY <1>1, <2>4, <2>5 DEF Basic
  <1>9. ASSUME NEW c, \/ ApplyCsrf(c) \/ ApplyBootSession(c) \/ ApplyOauthSession(c) \/ ApplyLogin(c)
                      \/ ApplyStart(c) \/ Prompt(c) \/ ApplyLogout(c) \/ ApplyWrite(c)
        PROVE  Basic'
    <2>1. CASE Prompt(c)
      BY <1>1, <2>1, PromptBasic DEF Basic
    <2>2. CASE ~Prompt(c)
      BY <1>1, <1>9, <2>2, AppliesBasic DEF Basic
    <2> QED
      BY <2>1, <2>2
  <1> QED
    BY <1>2, <1>3, <1>4, <1>5, <1>6, <1>7, <1>8, <1>9 DEF Step

-----------------------------------------------------------------------------
(* An orderly run: the order of the calls, App.vue's start, the restricted pages *)

\* An answer that keeps the run orderly is the oldest call's, and a success.
LEMMA OrderlyApply ==
    ASSUME TypeOK, NEW c, NEW K, ApplyStep(c, K), orderly'
    PROVE  /\ orderly /\ c \in calls /\ c.code = 200 /\ c.sid = cookie /\ c.st # "sent" /\ c.kind # "prompt"
           /\ \A d \in calls : d.no >= c.no
           /\ Grow({c}, K) /\ UNCHANGED <<sess, want>>
           /\ cookie' = IF c.set # 0 THEN c.set ELSE cookie
  <1>1. \A d \in calls : d.no \in Nat
    BY DEF TypeOK, Calls
  <1>2. orderly' = (orderly /\ ~Late(c) /\ c.code = 200)
    BY DEF ApplyStep
  <1>3. orderly /\ ~Late(c) /\ c.code = 200
    BY <1>2, Zenon
  <1>4. /\ c \in calls /\ c.st # "sent" /\ c.kind # "prompt" /\ Grow({c}, K) /\ UNCHANGED <<sess, want>>
        /\ cookie' = IF c.set # 0 THEN c.set ELSE cookie
    BY DEF ApplyStep
  <1>5. c.sid = cookie /\ \A d \in calls : ~(d.no < c.no)
    BY <1>3 DEF Late
  <1> QED
    BY <1>1, <1>3, <1>4, <1>5

\* The user of a session that a step leaves alone.
LEMMA GrowInOrder ==
    ASSUME Basic, InOrder, NEW gone, NEW K, Grow(gone, K), sess' = sess
    PROVE  InOrder'
  <1>1. \A d \in calls' : d \in calls \/ FreshCall(d)
    BY DEF Grow
  <1>2. \A d \in calls : d.no \in Nat /\ d.no <= issued /\ issued \in Nat
    BY DEF Basic, TypeOK, Calls
  <1>3. \A d : FreshCall(d) => d.no \in Nat /\ d.no > issued /\ d.st = "sent" /\ d.set = 0 /\ d.from # "gone"
    BY DEF FreshCall, Calls
  <1>4. \A c \in calls' : c.from # "gone"
    BY <1>1, <1>3 DEF InOrder
  <1>5. ASSUME NEW c \in calls', NEW d \in calls', c.st # "sent", d.st = "sent"
        PROVE  c.no < d.no
    <2>1. c \in calls
      BY <1>1, <1>3, <1>5
    <2>2. CASE d \in calls
      BY <1>5, <2>1, <2>2 DEF InOrder
    <2>3. CASE FreshCall(d)
      BY <1>2, <1>3, <2>1, <2>3
    <2> QED
      BY <1>1, <2>2, <2>3
  <1>6. \A c \in calls' : c.set # 0 => sess'[c.set].user = c.who /\ (c.kind \in {"csrf", "start"} => c.who = NoUser)
    BY <1>1, <1>3 DEF InOrder
  <1> QED
    BY <1>4, <1>5, <1>6 DEF InOrder

\* What the server does to the sessions, seen from a session that exists.
LEMMA ServedOthers ==
    ASSUME Basic, NEW c, NEW b, Served(c, b), NEW i \in 1 .. Len(sess)
    PROVE  /\ i # c.sid => sess'[i] = sess[i]
           /\ c.kind \notin {"login", "finish", "logout"} => sess'[i].user = sess[i].user /\ sess'[i].live = sess[i].live
           /\ c.kind \notin {"login", "finish", "logout", "csrf"} => sess'[i].token = sess[i].token
  <1>1. CASE NothingDone(c, b)
    BY <1>1 DEF NothingDone
  <1>2. CASE SessionReplaced(c, b)
    BY <1>2 DEF SessionReplaced
  <1>3. CASE SessionEnded(c, b)
    BY <1>3 DEF SessionEnded
  <1>4. ASSUME NEW t \in 0 .. issued, TokenSet(c, b, t)
        PROVE  /\ i # c.sid => sess'[i] = sess[i]
               /\ c.kind \notin {"login", "finish", "logout"} => sess'[i].user = sess[i].user /\ sess'[i].live = sess[i].live
               /\ c.kind \notin {"login", "finish", "logout", "csrf"} => sess'[i].token = sess[i].token
    <2>1. /\ i # c.sid => sess'[i] = sess[i]
          /\ sess'[c.sid].user = sess[c.sid].user /\ sess'[c.sid].token = t /\ sess'[c.sid].live = TRUE
          /\ sess[c.sid].live /\ c.sid \in 1 .. Len(sess)
          /\ c.kind = "start" => t = SessionOf(c.sid).token
          /\ c.kind \in {"csrf", "start"}
      BY <1>4 DEF TokenSet
    <2>2. CASE i # c.sid
      BY <2>1, <2>2
    <2>3. CASE i = c.sid
      <3>1. sess[c.sid].live = TRUE
        <4>1. sess[c.sid] \in Sessions(issued)
          BY <2>1 DEF Basic, TypeOK
        <4> QED
          BY <2>1, <4>1 DEF Sessions
      <3>2. SessionOf(c.sid) = sess[c.sid]
        BY <2>1 DEF SessionOf
      <3> QED
        BY <2>1, <2>3, <3>1, <3>2
    <2> QED
      BY <2>2, <2>3
  <1>5. ASSUME NEW t \in 0 .. issued, SessionBegun(c, b, t)
        PROVE  sess'[i] = sess[i]
    BY <1>5 DEF SessionBegun
  <1> QED
    BY <1>1, <1>2, <1>3, <1>4, <1>5 DEF Served

\* The session that the server begins belongs to whom the answer names.
LEMMA ServedSet ==
    ASSUME Basic, NEW c, NEW b, Served(c, b), b.set # 0
    PROVE  /\ b.set = Len(sess) + 1 /\ sess'[b.set].user = b.who /\ b.code = 200
           /\ c.kind = "csrf" => sess'[b.set].token = c.no
           /\ c.kind \in {"csrf", "start"} => b.who = NoUser
  <1>1. CASE SessionReplaced(c, b)
    BY <1>1 DEF SessionReplaced
  <1>2. CASE \E t \in 0 .. issued : SessionBegun(c, b, t)
    BY <1>2 DEF SessionBegun
  <1> QED
    BY <1>1, <1>2 DEF Served, NothingDone, SessionEnded, TokenSet

\* Handling the oldest call keeps the order.
LEMMA ServedInOrder ==
    ASSUME Basic, InOrder, NEW c, NEW b, Served(c, b), \A d \in calls : d.st = "sent" => d.no >= c.no
    PROVE  InOrder'
  <1>1. /\ c \in calls /\ c.st = "sent" /\ b.st # "sent" /\ b.no = c.no /\ b.from = c.from /\ b.kind = c.kind
        /\ \A d \in calls' : (d \in calls /\ d # c) \/ d = b
    BY DEF Served, Answer, Back
  <1>2. \A d \in calls : d.no \in Nat /\ d.set \in 0 .. Len(sess) /\ Len(sess) \in Nat
    BY SidTyped DEF Basic, TypeOK, Calls
  <1>3. \A d \in calls' : d.from # "gone"
    BY <1>1 DEF InOrder
  <1>4. ASSUME NEW x \in calls', NEW y \in calls', x.st # "sent", y.st = "sent"
        PROVE  x.no < y.no
    <2>1. y \in calls /\ y # c
      BY <1>1, <1>4
    <2>2. CASE x = b
      <3>1. y.no # c.no
        BY <1>1, <2>1 DEF Basic, CallsTold
      <3> QED
        BY <1>1, <1>2, <1>4, <2>1, <2>2, <3>1
    <2>3. CASE x \in calls
      BY <1>4, <2>1, <2>3 DEF InOrder
    <2> QED
      BY <1>1, <2>2, <2>3
  <1>5. ASSUME NEW d \in calls', d.set # 0
        PROVE  sess'[d.set].user = d.who /\ (d.kind \in {"csrf", "start"} => d.who = NoUser)
    <2>1. CASE d = b
      BY <1>1, <1>5, <2>1, ServedSet
    <2>2. CASE d # b
      <3>1. d \in calls /\ d.set \in 1 .. Len(sess)
        BY <1>1, <1>2, <1>5, <2>2
      <3>2. c.sid # d.set
        BY <1>1, <1>5, <3>1 DEF Basic, CookiesNew
      <3>3. sess'[d.set] = sess[d.set]
        BY <3>1, <3>2, ServedOthers
      <3> QED
        BY <1>5, <3>1, <3>3 DEF InOrder
    <2> QED
      BY <2>1, <2>2
  <1> QED
    BY <1>3, <1>4, <1>5 DEF InOrder

\* A page that is loaded while nothing is in flight has only its own calls.
LEMMA LoadAlone ==
    ASSUME NEW K, Loaded(K), calls = {}
    PROVE  \A d \in calls' : FreshCall(d) /\ \E k \in K : k = SpecOf(d) /\ k.kind = d.kind /\ k.from = d.from
  BY SpecOfFields DEF Loaded

\* A page loaded with nothing in flight is in order.
LEMMA LoadInOrder ==
    ASSUME NEW K, Loaded(K), calls = {}
    PROVE  InOrder'
  BY LoadAlone DEF InOrder, FreshCall

Plain == InOrder /\ WhileBooting /\ Stranded

\* The call that a step sends is in flight after it.
LEMMA GrowSends ==
    ASSUME NEW gone, NEW K, Grow(gone, K), NEW k \in K
    PROVE  \E d \in calls' : FreshCall(d) /\ d.kind = k.kind /\ d.from = k.from
  BY SpecOfFields DEF Grow

\* A call that is not taken from the set stays.
LEMMA GrowKeeps ==
    ASSUME NEW gone, NEW K, Grow(gone, K)
    PROVE  \A d \in calls : d \notin gone => d \in calls'
  BY DEF Grow

\* The person: nobody gets to a restricted page without a user or a logout.
LEMMA PersonPlain ==
    ASSUME Basic, Plain, NEW K, PersonStep(K), orderly'
    PROVE  Plain'
  <1>1. /\ Grow({}, K) /\ UNCHANGED <<sess, cookie, boot, was>>
        /\ boot = "done" \/ \A k \in K : k.kind \in {"csrf", "write"}
        /\ user' = user \/ (user' = NoUser /\ K = {LogoutSpec})
        /\ page' \in Restricted => user' # NoUser \/ LogoutSpec \in K \/ (page \in Restricted /\ user = NoUser)
    BY DEF PersonStep
  <1>2. InOrder'
    BY <1>1, GrowInOrder DEF Plain
  <1>3. WhileBooting'
    <2>1. SUFFICES ASSUME boot' # "done"
                   PROVE  /\ \A c \in calls' : c.kind \in {"csrf", "session", "write"}
                          /\ \A c \in calls' : c.kind = "session" /\ c.st # "sent" => c.who = SessionOf(c.sid)'.user
                          /\ boot' = "session" /\ ~was' /\ user' # NoUser => SessionOf(cookie)'.user # NoUser
      BY DEF WhileBooting
    <2>2. \A k \in K : k.kind \in {"csrf", "write"}
      BY <1>1, <2>1
    <2>3. \A d \in calls' : d \in calls \/ (FreshCall(d) /\ d.kind \in {"csrf", "write"})
      BY <1>1, <2>2, GrowFields
    <2>4. user' = user
      BY <1>1, <2>2, SpecFields
    <2>5. \A sid : SessionOf(sid)' = SessionOf(sid)
      BY <1>1 DEF SessionOf
    <2> QED
      BY <1>1, <2>1, <2>3, <2>4, <2>5 DEF Plain, WhileBooting
  <1>4. Stranded'
    <2>1. LogoutSpec \in K => LoggingOut'
      BY <1>1, GrowSends, SpecFields DEF LoggingOut
    <2>2. LoggingOut => LoggingOut'
      BY <1>1, GrowKeeps DEF LoggingOut
    <2> QED
      BY <1>1, <2>1, <2>2 DEF Plain, Stranded
  <1> QED
    BY <1>2, <1>3, <1>4 DEF Plain

\* A page load with nothing in flight.
LEMMA LoadPlain ==
    ASSUME NEW K, Loaded(K), calls = {}, page' \in Restricted => user' # NoUser,
           \A k \in K : k.kind \in {"csrf", "session"}
    PROVE  Plain'
  <1>1. InOrder'
    BY LoadInOrder
  <1>2. boot' = "csrf"
    BY DEF Loaded
  <1>3. \A d \in calls' : d.kind \in {"csrf", "session"} /\ d.st = "sent"
    BY LoadAlone DEF FreshCall
  <1>4. WhileBooting'
    BY <1>2, <1>3 DEF WhileBooting
  <1> QED
    BY <1>1, <1>4 DEF Plain, Stranded

\* The sessions' users, seen through the calls.
LEMMA ServedUsers ==
    ASSUME Basic, NEW c, NEW b, Served(c, b), NEW sid \in 0 .. Len(sess)
    PROVE  /\ c.kind \notin {"login", "finish", "logout"} =>
                 SessionOf(sid)'.user = SessionOf(sid).user /\ SessionOf(sid)'.live = SessionOf(sid).live
           /\ c.kind \notin {"login", "finish", "logout", "csrf"} => SessionOf(sid)'.token = SessionOf(sid).token
           /\ sid # c.sid => SessionOf(sid)' = SessionOf(sid)
  <1>1. CASE sid = 0
    BY <1>1 DEF SessionOf
  <1>2. CASE sid # 0
    <2>1. sid \in 1 .. Len(sess) /\ SessionOf(sid)' = sess'[sid] /\ SessionOf(sid) = sess[sid]
      BY <1>2 DEF SessionOf
    <2> QED
      BY <2>1, ServedOthers
  <1> QED
    BY <1>1, <1>2

\* The server: while App.vue starts no session changes its user.
LEMMA HandlePlain ==
    ASSUME Basic, Plain, NEW c, NEW b, Served(c, b), \A d \in calls : d.st = "sent" => d.no >= c.no,
           UNCHANGED <<user, page, cookie, boot, was>>
    PROVE  Plain'
  <1>1. /\ c \in calls /\ b.kind = c.kind /\ b.from = c.from /\ b.sid = c.sid /\ b.st = "answered" /\ c.st = "sent"
        /\ \A d \in calls' : d \in calls \/ d = b
        /\ \A d \in calls : d # c => d \in calls'
        /\ b.from # "gone" => b \in calls'
    BY DEF Served, Answer, Back
  <1>2. InOrder'
    BY ServedInOrder DEF Plain
  <1>3. WhileBooting'
    <2>1. SUFFICES ASSUME boot' # "done"
                   PROVE  /\ \A d \in calls' : d.kind \in {"csrf", "session", "write"}
                          /\ \A d \in calls' : d.kind = "session" /\ d.st # "sent" => d.who = SessionOf(d.sid)'.user
                          /\ boot' = "session" /\ ~was' /\ user' # NoUser => SessionOf(cookie)'.user # NoUser
      BY DEF WhileBooting
    <2>2. \A d \in calls : d.kind \in {"csrf", "session", "write"}
      BY <2>1 DEF Plain, WhileBooting
    <2>3. c.kind \notin {"login", "finish", "logout"}
      BY <1>1, <2>2
    <2>4. \A d \in calls : d.sid \in 0 .. Len(sess)
      BY SidTyped DEF Basic
    <2>5. \A d \in calls : SessionOf(d.sid)'.user = SessionOf(d.sid).user
      BY <2>3, <2>4, ServedUsers
    <2>6. SessionOf(cookie)'.user = SessionOf(cookie).user
      <3>1. cookie \in 0 .. Len(sess)
        BY DEF Basic, TypeOK
      <3>2. SessionOf(cookie)' = (IF cookie' = 0 THEN Gone ELSE sess'[cookie'])
        BY DEF SessionOf
      <3>3. CASE cookie = 0
        BY <3>3 DEF SessionOf
      <3>4. CASE cookie # 0
        <4>1. cookie \in 1 .. Len(sess) /\ SessionOf(cookie) = sess[cookie] /\ SessionOf(cookie)' = sess'[cookie]
          BY <3>1, <3>2, <3>4 DEF SessionOf
        <4> QED
          BY <2>3, <4>1, ServedOthers
      <3> QED
        BY <3>3, <3>4
    <2>7. b.kind = "session" => b.who = SessionOf(b.sid)'.user
      <3>1. b.kind = "session" => b.who = SessionOf(c.sid).user
        BY <1>1 DEF Served, NothingDone, SessionReplaced, SessionEnded, TokenSet, SessionBegun
      <3> QED
        BY <1>1, <2>5, <3>1
    <2> QED
      BY <1>1, <2>1, <2>2, <2>5, <2>6, <2>7 DEF Plain, WhileBooting
  <1>4. Stranded'
    <2>1. c.from # "gone"
      BY <1>1 DEF Plain, InOrder
    <2>2. LoggingOut => LoggingOut'
      BY <1>1, <2>1 DEF LoggingOut
    <2> QED
      BY <2>2 DEF Plain, Stranded
  <1> QED
    BY <1>2, <1>3, <1>4 DEF Plain

\* A dead session has no user, and a new cookie leaves one behind.
LEMMA DeadNobody ==
    ASSUME Basic, NEW sid \in 0 .. Len(sess), ~SessionOf(sid).live
    PROVE  SessionOf(sid) = Gone /\ SessionOf(sid).user = NoUser /\ SessionOf(sid).token = 0
  <1>1. DOMAIN sess = 1 .. Len(sess) /\ Len(sess) \in Nat
    BY DEF Basic, TypeOK
  <1>2. CASE sid = 0
    BY <1>2 DEF SessionOf, Gone
  <1>3. CASE sid # 0
    <2>1. sid \in DOMAIN sess /\ SessionOf(sid) = sess[sid]
      BY <1>1, <1>3 DEF SessionOf
    <2> QED
      BY <2>1 DEF Basic, CookiesNew, Gone
  <1> QED
    BY <1>2, <1>3

\* The session that a new cookie replaces has no user.
LEMMA SetNobody ==
    ASSUME Basic, NEW c \in calls, c.set # 0
    PROVE  SessionOf(c.sid).user = NoUser /\ ~SessionOf(c.sid).live /\ SessionOf(c.sid).token = 0
           /\ c.kind \in {"csrf", "start", "login", "finish"}
  <1>1. c.sid \in 0 .. Len(sess)
    BY SidTyped DEF Basic
  <1>2. ~SessionOf(c.sid).live /\ c.kind \in {"csrf", "start", "login", "finish"}
    BY DEF Basic, CookiesNew
  <1> QED
    BY <1>1, <1>2, DeadNobody

\* The parts that every answer leaves: the calls of a page being started.
LEMMA ApplyBooting ==
    ASSUME Basic, Plain, NEW c, NEW K, ApplyStep(c, K), orderly',
           boot' # "done" => boot # "done" /\ \A k \in K : k.kind \in {"csrf", "session", "write"},
           boot' = "session" /\ ~was' /\ user' # NoUser => SessionOf(cookie)'.user # NoUser
    PROVE  InOrder' /\ WhileBooting'
  <1>1. Grow({c}, K) /\ sess' = sess
    BY OrderlyApply DEF Basic
  <1>2. InOrder'
    BY <1>1, GrowInOrder DEF Plain
  <1>4. \A d \in calls' : \/ d \in calls
                          \/ FreshCall(d) /\ \E k \in K : k.kind = d.kind
    BY <1>1, GrowFields
  <1>5. \A d \in calls : SessionOf(d.sid)' = SessionOf(d.sid)
    BY <1>1 DEF SessionOf
  <1>6. ASSUME boot' # "done"
        PROVE  /\ \A d \in calls' : d.kind \in {"csrf", "session", "write"}
               /\ \A d \in calls' : d.kind = "session" /\ d.st # "sent" => d.who = SessionOf(d.sid)'.user
    BY <1>4, <1>5, <1>6 DEF Plain, WhileBooting, FreshCall
  <1>7. WhileBooting'
    BY <1>6 DEF WhileBooting
  <1> QED
    BY <1>2, <1>7

\* Nobody is stranded when page and user stay, or the page is open to all.
LEMMA ApplyStranded ==
    ASSUME Plain, NEW c, NEW K, ApplyStep(c, K),
           \/ UNCHANGED <<page, user>> /\ c.kind # "logout"
           \/ page' \notin Restricted
           \/ user' # NoUser
    PROVE  Stranded'
  <1>1. Grow({c}, K)
    BY DEF ApplyStep
  <1>2. c.kind # "logout" /\ LoggingOut => LoggingOut'
    BY <1>1, GrowKeeps DEF LoggingOut
  <1> QED
    BY <1>2 DEF Plain, Stranded

\* An answer with a token.
LEMMA CsrfPlain ==
    ASSUME Basic, Plain, NEW c, ApplyCsrf(c), orderly'
    PROVE  Plain'
  <1>0. TypeOK
    BY DEF Basic
  <1> DEFINE K == IF c.from = "boot" THEN {Spec0("session", "boot", "none")} ELSE {}
  <1>1. /\ ApplyStep(c, K) /\ c.kind = "csrf" /\ UNCHANGED <<user, page>>
        /\ c.from = "boot" => boot' = "session" /\ was' = (user # NoUser)
        /\ c.from # "boot" => UNCHANGED <<boot, was>>
    BY <1>0, CsrfDoes
  <1>2. \A k \in K : k.kind = "session"
    BY DEF Spec0
  <1> HIDE DEF K
  <1>3. /\ c \in calls /\ c.sid = cookie /\ sess' = sess
        /\ cookie' = IF c.set # 0 THEN c.set ELSE cookie
    BY <1>0, <1>1, OrderlyApply
  <1>4. boot' # "done" => boot # "done"
    <2>1. c.from = "boot" => boot = "csrf"
      BY <1>1, <1>3 DEF Basic, BootCalls
    <2> QED
      BY <1>1, <2>1
  <1>5. ASSUME boot' = "session", ~was', user' # NoUser
        PROVE  SessionOf(cookie)'.user # NoUser
    <2>1. c.from # "boot"
      <3>1. c.from = "boot" => was' = (user # NoUser)
        BY <1>1
      <3> QED
        BY <1>1, <1>5, <3>1
    <2>2. SessionOf(cookie).user # NoUser
      BY <1>1, <1>5, <2>1 DEF Plain, WhileBooting
    <2>3. c.set = 0
      BY <1>3, <2>2, SetNobody
    <2> QED
      BY <1>3, <2>2, <2>3 DEF SessionOf
  <1>6. InOrder' /\ WhileBooting'
    BY <1>1, <1>2, <1>4, <1>5, ApplyBooting
  <1> QED
    BY <1>1, <1>6, ApplyStranded DEF Plain

\* The answer about the session is what the session still says.
LEMMA BootSessionPlain ==
    ASSUME Basic, Plain, NEW c, ApplyBootSession(c), orderly'
    PROVE  Plain'
  <1>0. TypeOK
    BY DEF Basic
  <1>1. PICK K : /\ ApplyStep(c, K) /\ c.kind = "session" /\ c.from = "boot" /\ boot' = "done"
                 /\ UNCHANGED <<page, token, was, loggingIn>>
                 /\ user' = (IF c.code = 200 THEN c.who ELSE NoUser)
                 /\ K = IF user' = NoUser /\ was THEN {LogoutSpec} ELSE {}
    BY <1>0, BootSessionDoes
  <1>2. c \in calls /\ c.code = 200 /\ c.sid = cookie /\ c.st # "sent" /\ Grow({c}, K)
    BY <1>0, <1>1, OrderlyApply
  <1>3. boot = "session"
    BY <1>1, <1>2 DEF Basic, BootCalls
  <1>4. c.who = SessionOf(cookie).user
    BY <1>1, <1>2, <1>3 DEF Plain, WhileBooting
  <1>5. InOrder' /\ WhileBooting'
    BY <1>1, ApplyBooting
  <1>6. Stranded'
    <2>1. SUFFICES ASSUME page \in Restricted, user' = NoUser
                   PROVE  LoggingOut'
      BY <1>1 DEF Stranded
    <2>2. CASE was
      <3>1. LogoutSpec \in K
        BY <1>1, <2>1, <2>2
      <3> QED
        BY <1>2, <3>1, GrowSends, SpecFields DEF LoggingOut
    <2>3. CASE ~was
      <3>1. user = NoUser
        BY <1>1, <1>2, <1>3, <1>4, <2>1, <2>3 DEF Plain, WhileBooting
      <3>2. LoggingOut
        BY <2>1, <3>1 DEF Plain, Stranded
      <3> QED
        BY <1>1, <1>2, <3>2, GrowKeeps DEF LoggingOut
    <2> QED
      BY <2>2, <2>3
  <1> QED
    BY <1>5, <1>6 DEF Plain

\* An answer to the router's LoadSession.
LEMMA OauthPlain ==
    ASSUME Basic, Plain, NEW c, ApplyOauthSession(c), orderly'
    PROVE  Plain'
  <1>0. TypeOK
    BY DEF Basic
  <1>1. PICK K : /\ ApplyStep(c, K) /\ K \subseteq {CsrfSpec} /\ c.kind = "session"
                 /\ UNCHANGED <<boot, was>>
                 /\ user' = (IF c.code = 200 THEN c.who ELSE NoUser)
                 /\ page' = IF user' # NoUser THEN c.dest ELSE "/login"
    BY <1>0, OauthDoes
  <1>applied. ApplyStep(c, K)
    BY <1>1
  <1>2. /\ c \in calls /\ c.code = 200 /\ c.sid = cookie /\ c.st # "sent" /\ sess' = sess
        /\ cookie' = (IF c.set # 0 THEN c.set ELSE cookie) /\ Grow({c}, K)
    BY <1>0, <1>applied, OrderlyApply
  <1>3. cookie' = cookie
    BY <1>1, <1>2, SetNobody
  <1>4. boot # "done" => user' = SessionOf(cookie)'.user
    BY <1>1, <1>2, <1>3 DEF Plain, WhileBooting, SessionOf
  <1>5. \A k \in K : k.kind = "csrf"
    BY <1>1, SpecFields
  <1>6. InOrder' /\ WhileBooting'
    BY <1>1, <1>4, <1>5, ApplyBooting
  <1>7. "/login" \notin Restricted
    BY SessionAssumption DEF Public
  <1> QED
    BY <1>1, <1>6, <1>7, ApplyStranded DEF Plain

\* Sign-ins and sign-outs are answered after App.vue is done, and lead to a public page.
LEMMA LatePlain ==
    ASSUME Basic, Plain, NEW c, ApplyLogin(c) \/ ApplyStart(c) \/ ApplyLogout(c), orderly'
    PROVE  Plain'
  <1>0. TypeOK
    BY DEF Basic
  <1>1. PICK K : /\ ApplyStep(c, K) /\ c.kind \in {"login", "finish", "start", "logout"} /\ boot' = boot
                 /\ c.code = 200 => (UNCHANGED <<page, user>> /\ c.kind # "logout") \/ page' \in Public
    <2>1. CASE ApplyLogin(c)
      <3>1. "/" \in Public
        BY DEF Public
      <3> QED
        BY <1>0, <2>1, <3>1, LoginDoes
    <2>2. CASE ApplyStart(c)
      BY <1>0, <2>2, StartDoes
    <2>3. CASE ApplyLogout(c)
      <3>1. "/login" \in Public
        BY DEF Public
      <3> QED
        BY <1>0, <2>3, <3>1, LogoutDoes
    <2> QED
      BY <2>1, <2>2, <2>3
  <1>applied. ApplyStep(c, K)
    BY <1>1
  <1>2. c \in calls /\ c.code = 200 /\ Grow({c}, K)
    BY <1>0, <1>applied, OrderlyApply
  <1>3. boot = "done"
    BY <1>1, <1>2 DEF Plain, WhileBooting
  <1>4. InOrder' /\ WhileBooting'
    BY <1>1, <1>3, ApplyBooting
  <1>5. Stranded'
    BY <1>1, <1>2, ApplyStranded, SessionAssumption
  <1> QED
    BY <1>4, <1>5 DEF Plain

\* An answer to a write.
LEMMA WritePlain ==
    ASSUME Basic, Plain, NEW c, ApplyWrite(c), orderly'
    PROVE  Plain'
  <1>0. TypeOK
    BY DEF Basic
  <1>1. PICK K : /\ ApplyStep(c, K) /\ c.kind = "write" /\ UNCHANGED <<page, boot, was>>
                 /\ c.code = 200 => user' = user /\ K = {}
    BY <1>0, WriteDoes
  <1>applied. ApplyStep(c, K)
    BY <1>1
  <1>2. /\ c \in calls /\ c.code = 200 /\ sess' = sess
        /\ cookie' = (IF c.set # 0 THEN c.set ELSE cookie) /\ Grow({c}, K)
    BY <1>0, <1>applied, OrderlyApply
  <1>3. cookie' = cookie
    BY <1>1, <1>2, SetNobody
  <1>4. SessionOf(cookie)' = SessionOf(cookie)
    BY <1>2, <1>3 DEF SessionOf
  <1>5. InOrder' /\ WhileBooting'
    <2>1. boot' = "session" /\ ~was' /\ user' # NoUser => SessionOf(cookie)'.user # NoUser
      BY <1>1, <1>2, <1>4 DEF Plain, WhileBooting
    <2> QED
      BY <1>1, <1>2, <2>1, ApplyBooting
  <1> QED
    BY <1>1, <1>2, <1>5, ApplyStranded DEF Plain

\* The passkey prompt.
LEMMA PromptPlain ==
    ASSUME Basic, Plain, NEW c, Prompt(c), orderly'
    PROVE  Plain'
  <1>0. TypeOK
    BY DEF Basic
  <1>1. /\ c \in calls /\ c.kind = "prompt" /\ user' = user /\ UNCHANGED <<page, cookie, boot, was, sess>>
        /\ Grow({c}, {Spec0("finish", "login", "none")})
    BY <1>0, PromptDoes
  <1>2. InOrder'
    BY <1>1, GrowInOrder DEF Plain
  <1>3. boot = "done"
    BY <1>1 DEF Plain, WhileBooting
  <1>4. LoggingOut => LoggingOut'
    BY <1>1, GrowKeeps DEF LoggingOut
  <1> QED
    BY <1>1, <1>2, <1>3, <1>4 DEF Plain, WhileBooting, Stranded

\* The server handles the oldest call that waits, in the browser's session.
Handled(c, b) ==
    /\ Served(c, b) /\ c.sid = cookie /\ \A d \in calls : d.st = "sent" => d.no >= c.no
    /\ UNCHANGED <<user, page, token, cookie, boot, was>>

LoadedAlone(K) ==
    /\ Loaded(K) /\ calls = {} /\ (page' \in Restricted => user' # NoUser)
    /\ \A k \in K : k.kind \in {"csrf", "session"}

Applied(c) ==
    \/ ApplyCsrf(c) \/ ApplyBootSession(c) \/ ApplyOauthSession(c) \/ ApplyLogin(c)
    \/ ApplyStart(c) \/ ApplyLogout(c) \/ ApplyWrite(c)

\* The steps that leave the run orderly.
OrderlyStep ==
    \/ \E K : LoadedAlone(K)
    \/ /\ orderly
       /\ \/ \E K : PersonStep(K)
          \/ \E c, b : Handled(c, b)
          \/ \E c : Applied(c)
          \/ \E c : Prompt(c)
          \/ UNCHANGED <<user, page, token, cookie, boot, was, sess, calls>>

\* An answer that is applied, whatever its kind.
LEMMA AppliedDoes ==
    ASSUME TypeOK, NEW c, Applied(c)
    PROVE  \E K : ApplyStep(c, K)
  BY CsrfDoes, BootSessionDoes, OauthDoes, LoginDoes, StartDoes, LogoutDoes, WriteDoes DEF Applied

\* A step after which the run is orderly is one of OrderlyStep.
LEMMA OrderlySteps ==
    ASSUME Basic, Step, orderly'
    PROVE  OrderlyStep
  <1>0. TypeOK
    BY DEF Basic
  <1>1. CASE \E K : PersonStep(K)
    BY <1>1 DEF OrderlyStep, PersonStep
  <1>2. CASE Reload
    <2>1. PICK K : Loaded(K) /\ K \subseteq {BootCall, CsrfSpec}
      BY <1>0, <1>2, ReloadDoes
    <2>2. page' \in Restricted => user' # NoUser
      BY <1>0, <1>2, ReloadDoes
    <2>3. orderly' = (calls = {})
      BY <2>1 DEF Loaded
    <2>4. calls = {}
      BY <2>3, Zenon
    <2>5. \A k \in K : k.kind \in {"csrf", "session"}
      BY <2>1, BootCallTyped, SpecFields
    <2> QED
      BY <2>1, <2>2, <2>4, <2>5 DEF OrderlyStep, LoadedAlone
  <1>3. CASE ExternalLogin
    <2>1. PICK K : /\ Loaded(K)
                   /\ \/ /\ page' = "loading"
                         /\ K = {BootCall, Spec0("session", "oauth", want')}
                      \/ page' = "/login" /\ K = {BootCall, CsrfSpec}
      BY <1>0, <1>3, ExternalLoginDoes
    <2>2. page' \notin Restricted
      BY <2>1, SessionAssumption DEF Public
    <2>3. orderly' = (calls = {})
      BY <2>1 DEF Loaded
    <2>4. calls = {}
      BY <2>3, Zenon
    <2>5. \A k \in K : k.kind \in {"csrf", "session"}
      BY <2>1, BootCallTyped, SpecFields DEF Spec0
    <2> QED
      BY <2>1, <2>2, <2>4, <2>5 DEF OrderlyStep, LoadedAlone
  <1>4. CASE Expire
    BY <1>0, <1>4, ExpireDoes
  <1>5. CASE LoginDelay \/ UNCHANGED vars
    BY <1>5 DEF LoginDelay, vars, OrderlyStep
  <1>6. ASSUME NEW c, Handle(c)
        PROVE  OrderlyStep
    <2>1. PICK b : Served(c, b)
      BY <1>0, <1>6, HandleDoes
    <2>2. UNCHANGED <<user, page, token, cookie, boot, was>>
      BY <1>0, <1>6, HandleDoes
    <2>3. orderly' = (orderly /\ c.sid = cookie /\ \A d \in calls : d.st = "sent" => d.no >= c.no)
      BY <1>0, <1>6, HandleDoes
    <2>4. orderly /\ c.sid = cookie /\ \A d \in calls : d.st = "sent" => d.no >= c.no
      BY <2>3, Zenon
    <2> QED
      BY <2>1, <2>2, <2>4 DEF OrderlyStep, Handled
  <1>7. ASSUME NEW c, Lose(c)
        PROVE  OrderlyStep
    BY <1>0, <1>7, LoseDoes
  <1>8. ASSUME NEW c, Applied(c)
        PROVE  OrderlyStep
    <2>1. PICK K : ApplyStep(c, K)
      BY <1>0, <1>8, AppliedDoes
    <2>2. orderly /\ Grow({c}, K)
      BY <1>0, <2>1, OrderlyApply
    <2> QED
      BY <1>8, <2>2 DEF OrderlyStep
  <1>9. ASSUME NEW c, Prompt(c)
        PROVE  OrderlyStep
    <2>1. orderly' = orderly \/ orderly' = FALSE
      BY <1>9 DEF Prompt
    <2> QED
      BY <1>9, <2>1 DEF OrderlyStep
  <1> QED
    BY <1>1, <1>2, <1>3, <1>4, <1>5, <1>6, <1>7, <1>8, <1>9 DEF Step, Applied

\* Every step of an orderly run keeps order, start-up and restricted pages.
LEMMA NextPlain ==
    ASSUME Basic, OrderlyStep, orderly => Plain, orderly'
    PROVE  Plain'
  <1>1. ASSUME NEW K, LoadedAlone(K)
        PROVE  Plain'
    BY <1>1, LoadPlain DEF LoadedAlone
  <1>2. ASSUME orderly, NEW K, PersonStep(K)
        PROVE  Plain'
    BY <1>2, PersonPlain
  <1>3. ASSUME orderly, NEW c, NEW b, Handled(c, b)
        PROVE  Plain'
    BY <1>3, HandlePlain DEF Handled
  <1>4. ASSUME orderly, NEW c, Applied(c)
        PROVE  Plain'
    BY <1>4, CsrfPlain, BootSessionPlain, OauthPlain, LatePlain, WritePlain DEF Applied
  <1>5. ASSUME orderly, NEW c, Prompt(c)
        PROVE  Plain'
    BY <1>5, PromptPlain
  <1>6. ASSUME orderly, UNCHANGED <<user, page, token, cookie, boot, was, sess, calls>>
        PROVE  Plain'
    BY <1>6 DEF Plain, InOrder, WhileBooting, Stranded, LoggingOut, SessionOf
  <1> QED
    BY <1>1, <1>2, <1>3, <1>4, <1>5, <1>6 DEF OrderlyStep

-----------------------------------------------------------------------------
(* An orderly run: the router's LoadSession comes first *)

\* A step that sends neither of the two calls.
LEMMA GrowOauth ==
    ASSUME Basic, OauthFirst, NEW gone, NEW K, Grow(gone, K),
           boot' = boot \/ boot' # "done" \/ \A d \in calls : d.from # "oauth",
           \A k \in K : k.from # "oauth"
    PROVE  OauthFirst'
  <1>1. \A d \in calls' : d \in calls \/ (FreshCall(d) /\ d.from # "oauth")
    BY GrowFields
  <1>2. \A d \in calls : d.no \in Nat /\ d.no <= issued /\ issued \in Nat
    BY DEF Basic, TypeOK, Calls
  <1>3. \A d : FreshCall(d) => d.no \in Nat /\ d.no > issued
    BY DEF FreshCall, Calls
  <1> QED
    BY <1>1, <1>2, <1>3 DEF OauthFirst

\* App.vue's LoadSession is only sent when the router's is on its way.
LEMMA NextOauthFirst ==
    ASSUME Basic, OrderlyStep, orderly => OauthFirst, orderly'
    PROVE  OauthFirst'
  <1>0. TypeOK
    BY DEF Basic
  <1>1. ASSUME NEW K, LoadedAlone(K)
        PROVE  OauthFirst'
    <2>1. Loaded(K) /\ calls = {} /\ boot' = "csrf"
      BY <1>1 DEF LoadedAlone, Loaded
    <2>2. \A k \in K : k.from = "boot" => k.kind = "csrf"
      BY <2>1, BootCallTyped DEF Loaded
    <2>3. \A d \in calls' : d.from = "boot" => d.kind = "csrf"
      BY <2>1, <2>2, LoadAlone
    <2> QED
      BY <2>1, <2>3 DEF OauthFirst
  <1>2. ASSUME orderly, NEW K, PersonStep(K)
        PROVE  OauthFirst'
    BY <1>2, GrowOauth DEF PersonStep
  <1>3. ASSUME orderly, NEW c, NEW b, Handled(c, b)
        PROVE  OauthFirst'
    <2>1. /\ b.no = c.no /\ b.from = c.from /\ b.kind = c.kind /\ c \in calls /\ boot' = boot
          /\ \A d \in calls' : d \in calls \/ d = b
      BY <1>3 DEF Handled, Served, Answer, Back
    <2> QED
      BY <1>3, <2>1 DEF OauthFirst
  <1>4. ASSUME orderly, NEW c, Applied(c)
        PROVE  OauthFirst'
    <2>1. PICK K : ApplyStep(c, K)
      BY <1>0, <1>4, AppliedDoes
    <2>2. /\ Grow({c}, K) /\ c \in calls /\ \A d \in calls : d.no >= c.no
      BY <1>0, <2>1, OrderlyApply
    <2>3. \A k \in K : k.from # "oauth"
      BY <2>1 DEF ApplyStep
    <2>4. \A d \in calls : d.no \in Nat
      BY DEF Basic, TypeOK, Calls
    <2>5. CASE ApplyBootSession(c)
      <3>1. c.kind = "session" /\ c.from = "boot"
        BY <1>0, <2>5, BootSessionDoes
      <3>2. \A d \in calls : d.from # "oauth"
        BY <1>4, <2>2, <2>4, <3>1 DEF OauthFirst
      <3> QED
        BY <1>4, <2>2, <2>3, <3>2, GrowOauth
    <2>6. CASE ~ApplyBootSession(c)
      <3>1. boot' = boot \/ boot' = "session"
        BY <1>0, <1>4, <2>6, CsrfDoes, OauthDoes, LoginDoes, StartDoes, LogoutDoes, WriteDoes DEF Applied
      <3> QED
        BY <1>4, <2>2, <2>3, <3>1, GrowOauth
    <2> QED
      BY <2>5, <2>6
  <1>5. ASSUME orderly, NEW c, Prompt(c)
        PROVE  OauthFirst'
    <2>1. boot' = boot /\ \E K \in SUBSET {Spec0("finish", "login", "none")} : Grow({c}, K)
      BY <1>0, <1>5, PromptDoes
    <2>2. PICK K \in SUBSET {Spec0("finish", "login", "none")} : Grow({c}, K)
      BY <2>1
    <2>3. \A k \in K : k.from # "oauth"
      BY <2>2 DEF Spec0
    <2> QED
      BY <1>5, <2>1, <2>2, <2>3, GrowOauth
  <1>6. ASSUME orderly, UNCHANGED <<user, page, token, cookie, boot, was, sess, calls>>
        PROVE  OauthFirst'
    BY <1>6 DEF OauthFirst
  <1> QED
    BY <1>1, <1>2, <1>3, <1>4, <1>5, <1>6 DEF OrderlyStep

-----------------------------------------------------------------------------
(* An orderly run: calls that cannot all be applied in order stay so *)

\* Sending, and a prompt that goes.
LEMMA GrowDoomed ==
    ASSUME Basic, Doomed, NEW gone, NEW K, Grow(gone, K), UNCHANGED <<sess, cookie>>,
           \A d \in calls : d \in gone => d.kind = "prompt"
    PROVE  Doomed'
  <1>1. \A d \in calls : d.kind # "prompt" => d \in calls'
    BY GrowKeeps
  <1>2. \A d \in calls : d.kind = "prompt" => d.st = "sent" /\ d.set = 0
    BY DEF Basic, CallsTold
  <1>3. \A d \in calls : SessionOf(d.sid)' = SessionOf(d.sid)
    BY DEF SessionOf
  <1>4. Overtaken => Overtaken'
    BY <1>1, <1>2 DEF Overtaken
  <1>5. Refused => Refused'
    BY <1>1, <1>2 DEF Refused
  <1>6. TwoTokens => TwoTokens'
    BY <1>1, <1>3 DEF TwoTokens
  <1> QED
    BY <1>4, <1>5, <1>6 DEF Doomed

\* The answer to a call is in flight when its page is still there.
LEMMA HandledCalls ==
    ASSUME Basic, Plain, NEW c, NEW b, Handled(c, b)
    PROVE  /\ c \in calls /\ c.st = "sent" /\ c.set = 0 /\ c.sid = cookie /\ c.kind # "prompt"
           /\ b \in calls' /\ b.no = c.no /\ b.kind = c.kind /\ b.from = c.from /\ b.sid = c.sid /\ b.st = "answered"
           /\ \A d \in calls : d # c => d \in calls'
           /\ \A d \in calls' : (d \in calls /\ d # c) \/ d = b
           /\ \A d \in calls : d.st = "sent" => d.no >= c.no
           /\ \A d \in calls : d.no \in Nat /\ d.sid \in 0 .. Len(sess)
           /\ \A d \in calls : d # c /\ d.st = "sent" => c.no < d.no
           /\ \A d \in calls : d.st # "sent" => d.no < c.no
  <1>1. Served(c, b) /\ c.sid = cookie /\ \A d \in calls : d.st = "sent" => d.no >= c.no
    BY DEF Handled
  <1>2. /\ c \in calls /\ c.st = "sent" /\ c.kind # "prompt"
        /\ b.no = c.no /\ b.kind = c.kind /\ b.from = c.from /\ b.sid = c.sid /\ b.st = "answered"
        /\ calls' = (calls \ {c}) \cup Back(b)
    BY <1>1 DEF Served, Answer
  <1>3. c.from # "gone" /\ c.set = 0
    BY <1>2 DEF Plain, InOrder, Basic, CallsTold
  <1>4. Back(b) = {b}
    BY <1>2, <1>3 DEF Back
  <1>5. \A d \in calls : d.no \in Nat /\ d.sid \in 0 .. Len(sess)
    BY SidTyped DEF Basic, TypeOK, Calls
  <1>6. \A d \in calls : d # c => d.no # c.no
    BY <1>2 DEF Basic, CallsTold
  <1>7. \A d \in calls : d.st # "sent" => d.no < c.no
    BY <1>2 DEF Plain, InOrder
  <1>8. \A d \in calls : d # c /\ d.st = "sent" => c.no < d.no
    BY <1>1, <1>2, <1>5, <1>6
  <1> QED
    BY <1>1, <1>2, <1>3, <1>4, <1>5, <1>7, <1>8

\* A token fetched from a live session brings no new cookie, from a dead one it does.
LEMMA HandledCsrf ==
    ASSUME Basic, NEW c, NEW b, Served(c, b), c.kind = "csrf"
    PROVE  /\ SessionOf(c.sid).live \/ b.set # 0
           /\ ~SessionOf(c.sid).live \/ b.set = 0
           /\ SessionOf(IF b.set # 0 THEN b.set ELSE b.sid)'.token = c.no
  <1>0. c \in calls /\ b.sid = c.sid /\ Len(sess) \in Nat
    BY DEF Served, Answer, Basic, TypeOK
  <1>1. ASSUME NEW t \in 0 .. issued, TokenSet(c, b, t)
        PROVE  SessionOf(c.sid).live /\ b.set = 0 /\ SessionOf(IF b.set # 0 THEN b.set ELSE b.sid)'.token = c.no
    <2>1. b.set = 0 /\ c.sid \in 1 .. Len(sess) /\ sess[c.sid].live /\ sess'[c.sid].token = c.no
      BY <1>1 DEF TokenSet
    <2> QED
      BY <1>0, <2>1 DEF SessionOf
  <1>2. ASSUME NEW t \in 0 .. issued, SessionBegun(c, b, t)
        PROVE  ~SessionOf(c.sid).live /\ b.set # 0 /\ SessionOf(IF b.set # 0 THEN b.set ELSE b.sid)'.token = c.no
    <2>1. b.set = Len(sess) + 1 /\ ~SessionOf(c.sid).live /\ sess'[b.set].token = c.no
      BY <1>2 DEF SessionBegun
    <2>2. b.set # 0
      BY <1>0, <2>1
    <2> QED
      BY <2>1, <2>2 DEF SessionOf
  <1> QED
    BY <1>1, <1>2 DEF Served, NothingDone, SessionReplaced, SessionEnded

\* Handling: a token from a dead session overtakes what was sent after it.
LEMMA HandleDoomed ==
    ASSUME Basic, Plain, NEW c, NEW b, Handled(c, b), Doomed
    PROVE  Doomed'
  <1>1. /\ c \in calls /\ c.st = "sent" /\ c.set = 0 /\ c.sid = cookie /\ c.kind # "prompt"
        /\ b \in calls' /\ b.no = c.no /\ b.kind = c.kind /\ b.sid = c.sid /\ b.st = "answered"
        /\ \A d \in calls : d # c => d \in calls'
        /\ \A d \in calls : d.st = "sent" => d.no >= c.no
        /\ \A d \in calls : d.no \in Nat /\ d.sid \in 0 .. Len(sess)
    BY HandledCalls
  <1>2. Served(c, b) /\ cookie' = cookie
    BY DEF Handled
  <1>3. CASE Overtaken
    <2>1. PICK e \in calls : e.kind # "prompt" /\ (e.sid # cookie \/ \E d \in calls : d.no < e.no /\ d.set # 0)
      BY <1>3 DEF Overtaken
    <2>2. CASE e.sid # cookie
      <3>1. e \in calls' /\ e.kind # "prompt" /\ e.sid # cookie'
        BY <1>1, <1>2, <2>1, <2>2
      <3> QED
        BY <3>1 DEF Doomed, Overtaken
    <2>3. CASE \E d \in calls : d.no < e.no /\ d.set # 0
      <3>1. PICK d \in calls : d.no < e.no /\ d.set # 0
        BY <2>3
      <3>2. d \in calls'
        BY <1>1, <3>1
      <3>3. \E f \in calls' : f.kind # "prompt" /\ f.no = e.no
        BY <1>1, <2>1
      <3> QED
        BY <3>1, <3>2, <3>3 DEF Doomed, Overtaken
    <2> QED
      BY <2>1, <2>2, <2>3
  <1>4. CASE Refused
    BY <1>1, <1>4 DEF Refused, Doomed
  <1>5. CASE TwoTokens
    <2>1. PICK x \in calls, y \in calls :
             /\ x.no < y.no /\ y.kind = "csrf"
             /\ \/ x.kind = "csrf" /\ x.st = "sent" /\ ~SessionOf(x.sid).live
                \/ x.kind = "logout" /\ (y.st = "sent" \/ y.set # 0)
      BY <1>5 DEF TwoTokens
    <2>2. CASE x.kind = "csrf" /\ x.st = "sent" /\ ~SessionOf(x.sid).live
      <3>1. y # c
        BY <1>1, <2>1, <2>2
      <3>2. CASE x = c
        <4>1. b.set # 0
          BY <1>2, <2>2, <3>2, HandledCsrf
        <4>2. y \in calls' /\ y.kind # "prompt" /\ b.no < y.no
          BY <1>1, <2>1, <3>1, <3>2
        <4> QED
          BY <1>1, <4>1, <4>2 DEF Doomed, Overtaken
      <3>3. CASE x # c
        <4>1. ~SessionOf(x.sid)'.live
          <5>1. Buried
            BY <1>2, ServedBuried DEF Basic
          <5> QED
            BY <1>1, <2>2, <5>1, DeadStays DEF Basic
        <4>2. x \in calls' /\ y \in calls'
          BY <1>1, <3>1, <3>3
        <4> QED
          BY <2>1, <2>2, <4>1, <4>2 DEF Doomed, TwoTokens
      <3> QED
        BY <3>2, <3>3
    <2>3. CASE x.kind = "logout" /\ (y.st = "sent" \/ y.set # 0)
      <3>1. PICK u \in calls' : u.no = x.no /\ u.kind = "logout"
        BY <1>1, <2>3
      <3>2. CASE y # c
        <4>1. y \in calls'
          BY <1>1, <3>2
        <4> QED
          BY <2>1, <2>3, <3>1, <4>1 DEF Doomed, TwoTokens
      <3>3. CASE y = c
        <4>1. x # c /\ x \in calls' /\ x.st # "sent"
          BY <1>1, <2>1, <2>3, <3>3
        <4>2. CASE x.code # 200
          BY <4>1, <4>2 DEF Doomed, Refused
        <4>3. CASE x.sid # cookie
          BY <1>2, <2>3, <4>1, <4>3 DEF Doomed, Overtaken
        <4>4. CASE x.code = 200 /\ x.sid = cookie
          <5>1. ~SessionOf(c.sid).live
            BY <1>1, <2>3, <4>4 DEF Basic, CookiesNew
          <5>2. b.set # 0
            BY <1>2, <2>1, <3>3, <5>1, HandledCsrf
          <5>3. x.no < b.no /\ b.kind = "csrf" /\ x.kind = "logout"
            BY <1>1, <2>1, <2>3, <3>3
          <5> QED
            BY <1>1, <4>1, <5>2, <5>3 DEF Doomed, TwoTokens
        <4> QED
          BY <4>2, <4>3, <4>4
      <3> QED
        BY <3>2, <3>3
    <2> QED
      BY <2>1, <2>2, <2>3
  <1> QED
    BY <1>3, <1>4, <1>5 DEF Doomed

\* Applying: a new cookie overtakes what was sent before it, and a logout is followed by a token.
LEMMA ApplyDoomed ==
    ASSUME Basic, Plain, NEW c, NEW K, ApplyStep(c, K), orderly', Doomed, c.kind = "logout" => CsrfSpec \in K
    PROVE  Doomed'
  <1>0. TypeOK
    BY DEF Basic
  <1>1. /\ c \in calls /\ c.code = 200 /\ c.sid = cookie /\ c.st # "sent" /\ sess' = sess
        /\ \A d \in calls : d.no >= c.no
        /\ cookie' = (IF c.set # 0 THEN c.set ELSE cookie) /\ Grow({c}, K)
    BY <1>0, OrderlyApply
  <1>2. \A d \in calls : d.no \in Nat /\ d.no <= issued /\ issued \in Nat
    BY DEF Basic, TypeOK, Calls
  <1>3. \A d \in calls : d # c => d \in calls'
    BY <1>1, GrowKeeps
  <1>4. \A d \in calls : d.sid # cookie => d.sid # cookie'
    BY <1>1 DEF Basic, CookiesNew
  <1>5. c.set # 0 => \A d \in calls : d.sid # cookie'
    BY <1>1 DEF Basic, CookiesNew
  <1>6. \A d \in calls : SessionOf(d.sid)' = SessionOf(d.sid)
    BY <1>1 DEF SessionOf
  <1>7. CASE Overtaken
    <2>1. PICK e \in calls : e.kind # "prompt" /\ (e.sid # cookie \/ \E d \in calls : d.no < e.no /\ d.set # 0)
      BY <1>7 DEF Overtaken
    <2>2. e # c
      BY <1>1, <1>2, <2>1
    <2>3. CASE e.sid # cookie
      BY <1>3, <1>4, <2>1, <2>2, <2>3 DEF Doomed, Overtaken
    <2>4. CASE \E d \in calls : d.no < e.no /\ d.set # 0
      <3>1. PICK d \in calls : d.no < e.no /\ d.set # 0
        BY <2>4
      <3>2. CASE d = c
        <4>1. e.sid # cookie' /\ e \in calls'
          BY <1>3, <1>5, <2>2, <3>1, <3>2
        <4> QED
          BY <2>1, <4>1 DEF Doomed, Overtaken
      <3>3. CASE d # c
        BY <1>3, <2>1, <2>2, <3>1, <3>3 DEF Doomed, Overtaken
      <3> QED
        BY <3>2, <3>3
    <2> QED
      BY <2>1, <2>3, <2>4
  <1>8. CASE Refused
    BY <1>1, <1>3, <1>8 DEF Doomed, Refused
  <1>9. CASE TwoTokens
    <2>1. PICK x \in calls, y \in calls :
             /\ x.no < y.no /\ y.kind = "csrf"
             /\ \/ x.kind = "csrf" /\ x.st = "sent" /\ ~SessionOf(x.sid).live
                \/ x.kind = "logout" /\ (y.st = "sent" \/ y.set # 0)
      BY <1>9 DEF TwoTokens
    <2>2. y # c /\ y \in calls'
      BY <1>1, <1>2, <1>3, <2>1
    <2>3. CASE x # c
      <3>1. x \in calls'
        BY <1>3, <2>3
      <3> QED
        BY <1>6, <2>1, <2>2, <3>1 DEF Doomed, TwoTokens
    <2>4. CASE x = c
      <3>1. c.kind = "logout" /\ (y.st = "sent" \/ y.set # 0)
        BY <1>1, <2>1, <2>4
      <3>2. c.set = 0 /\ cookie' = cookie /\ ~SessionOf(c.sid).live
        BY <1>1, <3>1 DEF Basic, CookiesNew
      <3>3. PICK f \in calls' : FreshCall(f) /\ f.kind = "csrf"
        BY <1>1, <3>1, GrowSends, SpecFields
      <3>4. y.no < f.no
        <4>1. f.no \in Nat /\ f.no > issued
          BY <3>3 DEF FreshCall, Calls
        <4> QED
          BY <1>2, <4>1
      <3>5. CASE y.set # 0
        BY <2>2, <3>3, <3>4, <3>5 DEF Doomed, Overtaken
      <3>6. CASE y.sid # cookie
        BY <2>1, <2>2, <3>2, <3>6 DEF Doomed, Overtaken
      <3>7. CASE y.st = "sent" /\ y.sid = cookie
        <4>1. ~SessionOf(y.sid)'.live
          BY <1>1, <1>6, <3>2, <3>7
        <4> QED
          BY <2>1, <2>2, <3>3, <3>4, <3>7, <4>1 DEF Doomed, TwoTokens
      <3> QED
        BY <3>1, <3>5, <3>6, <3>7
    <2> QED
      BY <2>3, <2>4
  <1> QED
    BY <1>7, <1>8, <1>9 DEF Doomed

-----------------------------------------------------------------------------
(* An orderly run: the browser and the server agree *)

\* Somebody who signed in again, while calls are sent and the oldest is applied.
LEMMA GrowAlreadyIn ==
    ASSUME Basic, AlreadyIn, NEW gone, NEW K, Grow(gone, K), sess' = sess,
           \A g \in calls : g \in gone => (g.kind # "logout" /\ g.set = 0) \/ \A d \in calls : d.no >= g.no
    PROVE  AlreadyIn'
  <1>1. \A d \in calls' : d \in calls \/ FreshCall(d)
    BY DEF Grow
  <1>2. \A d \in calls : d.no \in Nat /\ (d \notin gone => d \in calls')
    BY GrowKeeps DEF Basic, TypeOK, Calls
  <1>3. SUFFICES ASSUME NEW x \in calls', LoggedIn(x), x.code = 200, x.set = 0
                 PROVE  /\ x.who = Anon
                        /\ \/ SessionOf(x.sid)'.user # NoUser
                           \/ \E d \in calls' : d.no > x.no /\ (d.kind = "logout" \/ d.set # 0)
    BY DEF AlreadyIn, LoggedIn
  <1>4. x \in calls
    BY <1>1, <1>3 DEF FreshCall
  <1>5. /\ x.who = Anon
        /\ \/ SessionOf(x.sid).user # NoUser
           \/ \E d \in calls : d.no > x.no /\ (d.kind = "logout" \/ d.set # 0)
    BY <1>3, <1>4 DEF AlreadyIn
  <1>6. SessionOf(x.sid)' = SessionOf(x.sid)
    BY DEF SessionOf
  <1>7. ASSUME NEW d \in calls, d.no > x.no, d.kind = "logout" \/ d.set # 0
        PROVE  d \in calls'
    BY <1>2, <1>4, <1>7
  <1> QED
    BY <1>5, <1>6, <1>7

\* The token, where no token and no sign-in is applied.
LEMMA GrowToken ==
    ASSUME Basic, TokenAgrees, NEW gone, NEW K, Grow(gone, K), UNCHANGED <<sess, cookie, token>>,
           boot = "done" /\ user = NoUser => boot' = "done" /\ user' = NoUser,
           \A g \in calls : g \in gone => g.kind # "csrf" /\ ~LoggedIn(g)
    PROVE  TokenAgrees'
  <1>1. \A d \in calls : (d.kind = "csrf" \/ LoggedIn(d)) => d \in calls'
    BY GrowKeeps
  <1>2. CASE \E k \in K : k.kind = "csrf"
    BY <1>2, GrowSends DEF TokenAgrees, FreshCall
  <1>3. CASE \A k \in K : k.kind # "csrf"
    <2>1. \A d \in calls' : d.kind = "csrf" => d \in calls
      BY <1>3, GrowFields
    <2>2. CASE boot = "done" /\ user = NoUser
      BY <2>2 DEF TokenAgrees
    <2>3. CASE \E c \in calls : c.kind = "csrf" /\ c.st = "sent"
      BY <1>1, <2>3 DEF TokenAgrees
    <2>4. CASE \E c \in calls : LoggedIn(c)
      <3>1. PICK c \in calls : LoggedIn(c)
        BY <2>4
      <3>2. c \in calls'
        BY <1>1, <3>1
      <3>3. \E d \in calls' : LoggedIn(d)'
        BY <3>1, <3>2 DEF LoggedIn
      <3> QED
        BY <3>3 DEF TokenAgrees
    <2>5. ASSUME NEW c \in calls, c.kind = "csrf", c.st = "answered",
                 \A d \in calls : d.kind = "csrf" => d.no <= c.no,
                 SessionOf(IF c.set # 0 THEN c.set ELSE c.sid).token = c.no
          PROVE  TokenAgrees'
      <3>1. SessionOf(IF c.set # 0 THEN c.set ELSE c.sid)' = SessionOf(IF c.set # 0 THEN c.set ELSE c.sid)
        BY DEF SessionOf
      <3>2. c \in calls'
        BY <1>1, <2>5
      <3>3. \A d \in calls' : d.kind = "csrf" => d.no <= c.no
        BY <2>1, <2>5
      <3> QED
        BY <2>5, <3>1, <3>2, <3>3 DEF TokenAgrees
    <2>6. CASE token = SessionOf(cookie).token /\ \A c \in calls : c.kind # "csrf"
      <3>1. SessionOf(cookie)' = SessionOf(cookie)
        BY DEF SessionOf
      <3> QED
        BY <2>1, <2>6, <3>1 DEF TokenAgrees
    <2> QED
      BY <2>2, <2>3, <2>4, <2>5, <2>6 DEF TokenAgrees
  <1> QED
    BY <1>2, <1>3

\* A token that is fetched again will agree.
LEMMA TokenFetched ==
    ASSUME NEW gone, NEW K, Grow(gone, K), CsrfSpec \in K
    PROVE  TokenAgrees'
  <1>1. \E d \in calls' : FreshCall(d) /\ d.kind = "csrf"
    BY GrowSends, SpecFields
  <1> QED
    BY <1>1 DEF TokenAgrees, FreshCall

\* A step that is none of the sign-ins' and sign-outs'.
LEMMA GrowUser ==
    ASSUME Basic, UserAgrees, NEW gone, NEW K, Grow(gone, K), UNCHANGED <<user, boot, sess, cookie>>,
           \A g \in calls : g \in gone => g.kind # "logout" /\ g.set = 0 /\ ~LoggedIn(g),
           \A k \in K : k.kind # "logout"
    PROVE  UserAgrees'
  <1>1. SUFFICES ASSUME boot' = "done"
                 PROVE  /\ LoggingOut' => user' = NoUser
                        /\ AlreadyIn'
                        /\ AgreeOn(user, SessionOf(cookie).user)' \/ LoggingOut' \/ \E c \in calls' : LoggedIn(c)'
    BY DEF UserAgrees
  <1>2. /\ LoggingOut => user = NoUser
        /\ AlreadyIn
        /\ AgreeOn(user, SessionOf(cookie).user) \/ LoggingOut \/ \E c \in calls : LoggedIn(c)
    BY <1>1 DEF UserAgrees
  <1>3. LoggingOut' => LoggingOut
    BY GrowFields DEF LoggingOut
  <1>4. LoggingOut => LoggingOut'
    BY GrowKeeps DEF LoggingOut
  <1>5. AlreadyIn'
    BY <1>2, GrowAlreadyIn
  <1>6. (\E c \in calls : LoggedIn(c)) => \E c \in calls' : LoggedIn(c)'
    BY GrowKeeps DEF LoggedIn
  <1>7. AgreeOn(user, SessionOf(cookie).user)' <=> AgreeOn(user, SessionOf(cookie).user)
    BY DEF AgreeOn, SessionOf
  <1> QED
    BY <1>2, <1>3, <1>4, <1>5, <1>6, <1>7

Agrees == UserAgrees /\ TokenAgrees

\* A page load fetches a token and starts anew.
LEMMA LoadAgrees ==
    ASSUME NEW K, LoadedAlone(K)
    PROVE  Agrees'
  <1>1. boot' = "csrf" /\ \E d \in calls' : FreshCall(d) /\ d.kind = "csrf"
    BY BootCallTyped, SpecOfFields DEF LoadedAlone, Loaded
  <1> QED
    BY <1>1 DEF Agrees, UserAgrees, TokenAgrees, FreshCall

\* The person's steps.
LEMMA PersonAgrees ==
    ASSUME Basic, Agrees, NEW K, PersonStep(K), orderly'
    PROVE  Agrees'
  <1>1. /\ Grow({}, K) /\ UNCHANGED <<sess, cookie, token, boot>>
        /\ boot = "done" \/ \A k \in K : k.kind \in {"csrf", "write"}
        /\ \/ user' = user /\ LogoutSpec \notin K
           \/ user' = NoUser /\ K = {LogoutSpec}
        /\ \A k \in K : k.kind = "logout" => k = LogoutSpec
    BY DEF PersonStep
  <1>2. TokenAgrees'
    BY <1>1, GrowToken DEF Agrees
  <1>3. CASE user' = user /\ LogoutSpec \notin K
    <2>1. \A k \in K : k.kind # "logout"
      BY <1>1, <1>3
    <2>2. UserAgrees'
      BY <1>1, <1>3, <2>1, GrowUser DEF Agrees
    <2> QED
      BY <1>2, <2>2 DEF Agrees
  <1>4. CASE user' = NoUser /\ K = {LogoutSpec}
    <2>1. boot = "done"
      BY <1>1, <1>4, SpecFields
    <2>2. AlreadyIn'
      BY <1>1, <2>1, GrowAlreadyIn DEF Agrees, UserAgrees
    <2>3. LoggingOut'
      BY <1>1, <1>4, GrowSends, SpecFields DEF LoggingOut
    <2> QED
      BY <1>2, <1>4, <2>2, <2>3 DEF Agrees, UserAgrees
  <1> QED
    BY <1>1, <1>3, <1>4

\* The passkey prompt asks the server for nothing yet.
LEMMA PromptAgrees ==
    ASSUME Basic, Agrees, NEW c, Prompt(c), orderly'
    PROVE  Agrees'
  <1>1. /\ c \in calls /\ c.kind = "prompt" /\ UNCHANGED <<user, token, cookie, boot, sess>>
        /\ Grow({c}, {Spec0("finish", "login", "none")})
    BY PromptDoes DEF Basic
  <1>2. c.set = 0 /\ ~LoggedIn(c)
    BY <1>1 DEF Basic, CookiesNew, LoggedIn
  <1>3. \A k \in {Spec0("finish", "login", "none")} : k.kind # "logout"
    BY DEF Spec0
  <1>4. TokenAgrees'
    BY <1>1, <1>2, GrowToken DEF Agrees
  <1>5. UserAgrees'
    BY <1>1, <1>2, <1>3, GrowUser DEF Agrees
  <1> QED
    BY <1>4, <1>5 DEF Agrees

\* What handling does to the browser's session: kept, unless a login or a logout is handled.
LEMMA HandledSession ==
    ASSUME Basic, NEW c, NEW b, Handled(c, b)
    PROVE  /\ c.kind \notin {"login", "finish", "logout"} => SessionOf(cookie)'.user = SessionOf(cookie).user
           /\ c.kind \notin {"login", "finish", "logout", "csrf"} => SessionOf(cookie)'.token = SessionOf(cookie).token
  <1>1. Served(c, b) /\ cookie' = cookie /\ cookie \in 0 .. Len(sess)
    BY DEF Handled, Basic, TypeOK
  <1>2. CASE cookie = 0
    BY <1>1, <1>2 DEF SessionOf
  <1>3. CASE cookie # 0
    <2>1. cookie \in 1 .. Len(sess) /\ SessionOf(cookie) = sess[cookie] /\ SessionOf(cookie)' = sess'[cookie]
      BY <1>1, <1>3 DEF SessionOf
    <2> QED
      BY <1>1, <2>1, ServedOthers
  <1> QED
    BY <1>2, <1>3

\* The session of somebody who signed in again ends only behind a logout or a new cookie.
LEMMA HandleAlreadyIn ==
    ASSUME Basic, Plain, NEW c, NEW b, Handled(c, b), AlreadyIn
    PROVE  AlreadyIn'
  <1>1. /\ c \in calls /\ c.st = "sent" /\ c.set = 0 /\ c.sid = cookie /\ c.kind # "prompt"
        /\ b \in calls' /\ b.no = c.no /\ b.kind = c.kind /\ b.sid = c.sid
        /\ \A d \in calls : d # c => d \in calls'
        /\ \A d \in calls' : (d \in calls /\ d # c) \/ d = b
        /\ \A d \in calls : d.no \in Nat /\ d.sid \in 0 .. Len(sess)
        /\ \A d \in calls : d.st # "sent" => d.no < c.no
    BY HandledCalls
  <1>2. Served(c, b)
    BY DEF Handled
  <1>3. SUFFICES ASSUME NEW x \in calls', LoggedIn(x), x.code = 200, x.set = 0
                 PROVE  /\ x.who = Anon
                        /\ \/ SessionOf(x.sid)'.user # NoUser
                           \/ \E d \in calls' : d.no > x.no /\ (d.kind = "logout" \/ d.set # 0)
    BY DEF AlreadyIn, LoggedIn
  <1>4. CASE x = b
    <2>1. NothingDone(c, b)
      <3>1. c.kind \in {"login", "finish"} /\ b.set = 0
        BY <1>1, <1>3, <1>4 DEF LoggedIn
      <3>2. Len(sess) + 1 # 0
        BY DEF Basic, TypeOK
      <3> QED
        BY <1>2, <3>1, <3>2 DEF Served, SessionReplaced, SessionEnded, TokenSet, SessionBegun
    <2>2. b.who = Anon /\ SessionOf(c.sid).user # NoUser /\ sess' = sess
      BY <1>1, <1>3, <1>4, <2>1 DEF NothingDone, LoggedIn
    <2>3. SessionOf(c.sid)' = SessionOf(c.sid)
      BY <2>2 DEF SessionOf
    <2> QED
      BY <1>1, <1>4, <2>2, <2>3
  <1>5. CASE x # b
    <2>1. x \in calls /\ x # c
      BY <1>1, <1>5
    <2>2. /\ x.who = Anon
          /\ \/ SessionOf(x.sid).user # NoUser
             \/ \E d \in calls : d.no > x.no /\ (d.kind = "logout" \/ d.set # 0)
      BY <1>3, <2>1 DEF AlreadyIn
    <2>3. x.no < c.no
      BY <1>1, <1>3, <2>1 DEF LoggedIn
    <2>4. ASSUME NEW d \in calls, d.no > x.no, d.kind = "logout" \/ d.set # 0
          PROVE  \E e \in calls' : e.no > x.no /\ (e.kind = "logout" \/ e.set # 0)
      BY <1>1, <2>4
    <2>5. ASSUME SessionOf(x.sid).user # NoUser
          PROVE  \/ SessionOf(x.sid)'.user # NoUser
                 \/ \E d \in calls' : d.no > x.no /\ (d.kind = "logout" \/ d.set # 0)
      <3>1. CASE c.kind = "logout"
        <4>1. b.no > x.no /\ b.kind = "logout"
          BY <1>1, <2>1, <2>3, <3>1
        <4> QED
          BY <1>1, <4>1
      <3>2. CASE SessionReplaced(c, b)
        <4>1. b.set # 0
          BY <3>2 DEF SessionReplaced, Basic, TypeOK
        <4>2. b.no > x.no
          BY <1>1, <2>1, <2>3
        <4> QED
          BY <1>1, <4>1, <4>2
      <3>3. CASE c.kind \in {"login", "finish"} /\ ~SessionReplaced(c, b)
        <4>1. sess' = sess
          BY <1>2, <3>3 DEF Served, NothingDone, SessionEnded, TokenSet, SessionBegun
        <4>2. SessionOf(x.sid)' = SessionOf(x.sid)
          BY <4>1 DEF SessionOf
        <4> QED
          BY <2>5, <4>2
      <3>4. CASE c.kind \notin {"login", "finish", "logout"}
        <4>1. SessionOf(x.sid)'.user = SessionOf(x.sid).user
          BY <1>1, <1>2, <2>1, <3>4, ServedUsers
        <4> QED
          BY <2>5, <4>1
      <3> QED
        BY <3>1, <3>2, <3>3, <3>4
    <2> QED
      BY <2>2, <2>4, <2>5
  <1> QED
    BY <1>4, <1>5

\* The server changes the user of the session only for a sign-in or a logout in flight.
LEMMA HandleUser ==
    ASSUME Basic, Plain, NEW c, NEW b, Handled(c, b), UserAgrees
    PROVE  UserAgrees'
  <1>1. /\ c \in calls /\ c.st = "sent"
        /\ b \in calls' /\ b.kind = c.kind /\ b.st = "answered"
        /\ \A d \in calls : d # c => d \in calls'
        /\ \A d \in calls' : (d \in calls /\ d # c) \/ d = b
    BY HandledCalls
  <1>2. UNCHANGED <<user, boot>>
    BY DEF Handled
  <1>3. SUFFICES ASSUME boot' = "done"
                 PROVE  /\ LoggingOut' => user' = NoUser
                        /\ AlreadyIn'
                        /\ AgreeOn(user, SessionOf(cookie).user)' \/ LoggingOut' \/ \E d \in calls' : LoggedIn(d)'
    BY DEF UserAgrees
  <1>4. /\ LoggingOut => user = NoUser
        /\ AlreadyIn
        /\ AgreeOn(user, SessionOf(cookie).user) \/ LoggingOut \/ \E d \in calls : LoggedIn(d)
    BY <1>2, <1>3 DEF UserAgrees
  <1>5. LoggingOut' <=> LoggingOut
    BY <1>1 DEF LoggingOut
  <1>6. AlreadyIn'
    BY <1>4, HandleAlreadyIn
  <1>7. (\E d \in calls : LoggedIn(d)) => \E d \in calls' : LoggedIn(d)'
    BY <1>1 DEF LoggedIn
  <1>8. ASSUME AgreeOn(user, SessionOf(cookie).user)
        PROVE  AgreeOn(user, SessionOf(cookie).user)' \/ LoggingOut' \/ \E d \in calls' : LoggedIn(d)'
    <2>1. CASE c.kind = "logout"
      BY <1>1, <1>5, <2>1 DEF LoggingOut
    <2>2. CASE c.kind \in {"login", "finish"}
      BY <1>1, <2>2 DEF LoggedIn
    <2>3. CASE c.kind \notin {"login", "finish", "logout"}
      <3>1. SessionOf(cookie)'.user = SessionOf(cookie).user
        BY <2>3, HandledSession
      <3> QED
        BY <1>2, <1>8, <3>1 DEF AgreeOn
    <2> QED
      BY <2>1, <2>2, <2>3
  <1> QED
    BY <1>2, <1>4, <1>5, <1>6, <1>7, <1>8

\* The server changes the token of the session only for a call that is still to be applied.
LEMMA HandleToken ==
    ASSUME Basic, Plain, NEW c, NEW b, Handled(c, b), Agrees
    PROVE  TokenAgrees'
  <1>1. /\ c \in calls /\ c.st = "sent" /\ c.sid = cookie
        /\ b \in calls' /\ b.no = c.no /\ b.kind = c.kind /\ b.st = "answered" /\ b.sid = c.sid
        /\ \A d \in calls : d # c => d \in calls'
        /\ \A d \in calls' : (d \in calls /\ d # c) \/ d = b
        /\ \A d \in calls : d.no \in Nat
        /\ \A d \in calls : d.st # "sent" => d.no < c.no
        /\ \A d \in calls : d.sid \in 0 .. Len(sess)
    BY HandledCalls
  <1>2. Served(c, b) /\ UNCHANGED <<user, boot, token, cookie>>
    BY DEF Handled
  <1>3. CASE c.kind \in {"login", "finish"}
    <2>1. LoggedIn(b)'
      BY <1>1, <1>3 DEF LoggedIn
    <2> QED
      BY <1>1, <2>1 DEF TokenAgrees
  <1>4. CASE c.kind = "logout"
    <2>1. boot = "done"
      BY <1>1, <1>4 DEF Plain, WhileBooting
    <2>2. user = NoUser
      BY <1>1, <1>4, <2>1 DEF Agrees, UserAgrees, LoggingOut
    <2> QED
      BY <1>2, <2>1, <2>2 DEF TokenAgrees
  <1>5. CASE c.kind = "csrf"
    <2>1. CASE \E d \in calls' : d.kind = "csrf" /\ d.st = "sent"
      BY <2>1 DEF TokenAgrees
    <2>2. CASE \A d \in calls' : d.kind = "csrf" => d.st # "sent"
      <3>1. \A d \in calls' : d.kind = "csrf" => d.no <= b.no
        BY <1>1, <2>2
      <3>2. SessionOf(IF b.set # 0 THEN b.set ELSE b.sid)'.token = b.no
        BY <1>1, <1>2, <1>5, HandledCsrf
      <3>3. b.kind = "csrf" /\ b.st = "answered"
        BY <1>1, <1>5
      <3> QED
        BY <1>1, <3>1, <3>2, <3>3 DEF TokenAgrees
    <2> QED
      BY <2>1, <2>2
  <1>6. CASE c.kind \notin {"login", "finish", "logout", "csrf"}
    <2>1. \A d \in calls' : d.kind = "csrf" => d \in calls
      BY <1>1, <1>6
    <2>2. CASE boot = "done" /\ user = NoUser
      BY <1>2, <2>2 DEF TokenAgrees
    <2>3. CASE \E d \in calls : d.kind = "csrf" /\ d.st = "sent"
      BY <1>1, <1>6, <2>3 DEF TokenAgrees
    <2>4. CASE \E d \in calls : LoggedIn(d)
      <3>1. \E d \in calls' : LoggedIn(d)'
        BY <1>1, <2>4 DEF LoggedIn
      <3> QED
        BY <3>1 DEF TokenAgrees
    <2>5. ASSUME NEW d \in calls, d.kind = "csrf", d.st = "answered",
                 \A e \in calls : e.kind = "csrf" => e.no <= d.no,
                 SessionOf(IF d.set # 0 THEN d.set ELSE d.sid).token = d.no
          PROVE  TokenAgrees'
      <3>1. (IF d.set # 0 THEN d.set ELSE d.sid) \in 0 .. Len(sess)
        BY SidTyped DEF Basic
      <3>2. SessionOf(IF d.set # 0 THEN d.set ELSE d.sid)'.token = d.no
        BY <1>2, <1>6, <2>5, <3>1, ServedUsers
      <3>3. d \in calls'
        BY <1>1, <1>6, <2>5
      <3>4. \A e \in calls' : e.kind = "csrf" => e.no <= d.no
        BY <2>1, <2>5
      <3> QED
        BY <2>5, <3>2, <3>3, <3>4 DEF TokenAgrees
    <2>6. CASE token = SessionOf(cookie).token /\ \A d \in calls : d.kind # "csrf"
      <3>1. SessionOf(cookie)'.token = SessionOf(cookie).token
        BY <1>6, HandledSession
      <3> QED
        BY <1>2, <2>1, <2>6, <3>1 DEF TokenAgrees
    <2> QED
      BY <2>2, <2>3, <2>4, <2>5, <2>6 DEF Agrees, TokenAgrees
  <1> QED
    BY <1>3, <1>4, <1>5, <1>6

\* A new cookie can only be applied in order when everything else waits for a passkey.
LEMMA SetAlone ==
    ASSUME Basic, NEW c \in calls, c.set # 0, ~Doomed, \A d \in calls : d.no >= c.no
    PROVE  \A d \in calls : d = c \/ d.kind = "prompt"
  <1>1. \A d \in calls : d # c => c.no < d.no
    BY DEF Basic, CallsTold, TypeOK, Calls
  <1> QED
    BY <1>1 DEF Doomed, Overtaken

\* Nobody is signed in where a call for a token, or for a passkey, meets a dead session.
LEMMA NewNobody ==
    ASSUME Basic, Plain, Agrees, boot = "done", NEW c \in calls, c.set # 0, c.sid = cookie, c.kind \in {"csrf", "start"},
           \A d \in calls : d = c \/ d.kind = "prompt"
    PROVE  user = NoUser /\ SessionOf(c.set).user = NoUser
  <1>1. ~LoggingOut /\ \A d \in calls : ~LoggedIn(d)
    BY DEF LoggingOut, LoggedIn
  <1>2. AgreeOn(user, SessionOf(cookie).user)
    BY <1>1 DEF Agrees, UserAgrees
  <1>3. SessionOf(cookie).user = NoUser
    BY SetNobody
  <1>4. user = NoUser
    BY <1>2, <1>3 DEF AgreeOn
  <1>5. sess[c.set].user = NoUser
    BY DEF Plain, InOrder
  <1> QED
    BY <1>4, <1>5 DEF SessionOf

\* A token, or a passkey's challenge, that comes with a new cookie.
LEMMA NewCookieUser ==
    ASSUME Basic, Plain, Agrees, ~Doomed, NEW c, NEW K, ApplyStep(c, K), orderly', c.set # 0,
           c.kind \in {"csrf", "start"}, UNCHANGED <<user, boot>>, \A k \in K : k.kind # "logout", boot = "done"
    PROVE  UserAgrees' /\ user' = NoUser
  <1>0. TypeOK
    BY DEF Basic
  <1>1. /\ c \in calls /\ c.sid = cookie /\ sess' = sess /\ \A d \in calls : d.no >= c.no
        /\ cookie' = (IF c.set # 0 THEN c.set ELSE cookie) /\ Grow({c}, K)
    BY <1>0, OrderlyApply
  <1>2. \A d \in calls : d = c \/ d.kind = "prompt"
    BY <1>1, SetAlone
  <1>3. user = NoUser /\ SessionOf(c.set).user = NoUser
    BY <1>1, <1>2, NewNobody
  <1>4. SessionOf(cookie)' = SessionOf(c.set)
    BY <1>1 DEF SessionOf
  <1>5. AgreeOn(user, SessionOf(cookie).user)'
    BY <1>3, <1>4, SessionAssumption DEF AgreeOn
  <1>6. AlreadyIn'
    <2>1. AlreadyIn
      BY DEF Agrees, UserAgrees
    <2> QED
      BY <1>1, <2>1, GrowAlreadyIn
  <1> QED
    BY <1>3, <1>5, <1>6 DEF UserAgrees

\* The newest token is applied last, and it is the session's.
LEMMA CsrfToken ==
    ASSUME Basic, Plain, Agrees, NEW c, ApplyCsrf(c), orderly'
    PROVE  TokenAgrees'
  <1>0. TypeOK
    BY DEF Basic
  <1> DEFINE K == IF c.from = "boot" THEN {Spec0("session", "boot", "none")} ELSE {}
  <1>1. /\ ApplyStep(c, K) /\ c.kind = "csrf" /\ user' = user
        /\ token' = (IF c.code = 200 THEN c.no ELSE 0)
        /\ c.from # "boot" => boot' = boot
    BY <1>0, CsrfDoes
  <1>2. \A k \in K : k.kind = "session"
    BY DEF Spec0
  <1> HIDE DEF K
  <1>3. /\ c \in calls /\ c.code = 200 /\ c.sid = cookie /\ c.st # "sent" /\ sess' = sess /\ \A d \in calls : d.no >= c.no
        /\ cookie' = (IF c.set # 0 THEN c.set ELSE cookie) /\ Grow({c}, K)
    BY <1>0, <1>1, OrderlyApply
  <1>4. token' = c.no
    BY <1>1, <1>3
  <1>5. \A d \in calls' : d.kind = "csrf" => d \in calls /\ d # c
    BY <1>2, <1>3, GrowFields
  <1>6. \A d \in calls : d # c => d \in calls'
    BY <1>3, GrowKeeps
  <1>7. CASE boot = "done" /\ user = NoUser
    <2>1. c.from # "boot"
      BY <1>1, <1>3, <1>7 DEF Basic, BootCalls
    <2> QED
      BY <1>1, <1>7, <2>1 DEF TokenAgrees
  <1>8. CASE \E d \in calls : d.kind = "csrf" /\ d.st = "sent"
    BY <1>3, <1>6, <1>8 DEF TokenAgrees
  <1>9. CASE \E d \in calls : LoggedIn(d)
    <2>1. \E d \in calls' : LoggedIn(d)'
      BY <1>1, <1>6, <1>9 DEF LoggedIn
    <2> QED
      BY <2>1 DEF TokenAgrees
  <1>10. ASSUME NEW d \in calls, d.kind = "csrf", d.st = "answered",
                \A e \in calls : e.kind = "csrf" => e.no <= d.no,
                SessionOf(IF d.set # 0 THEN d.set ELSE d.sid).token = d.no
         PROVE  TokenAgrees'
    <2>1. CASE d # c
      <3>1. SessionOf(IF d.set # 0 THEN d.set ELSE d.sid)' = SessionOf(IF d.set # 0 THEN d.set ELSE d.sid)
        BY <1>3 DEF SessionOf
      <3>2. d \in calls'
        BY <1>6, <2>1
      <3>3. \A e \in calls' : e.kind = "csrf" => e.no <= d.no
        BY <1>5, <1>10
      <3> QED
        BY <1>10, <3>1, <3>2, <3>3 DEF TokenAgrees
    <2>2. CASE d = c
      <3>1. \A e \in calls' : e.kind # "csrf"
        <4>1. \A e \in calls : e.no \in Nat /\ (e.no = c.no => e = c)
          BY <1>3 DEF Basic, CallsTold, TypeOK, Calls
        <4> QED
          BY <1>3, <1>5, <1>10, <2>2, <4>1
      <3>2. SessionOf(cookie)' = SessionOf(IF c.set # 0 THEN c.set ELSE c.sid)
        BY <1>3 DEF SessionOf
      <3>3. SessionOf(cookie)'.token = token'
        BY <1>4, <1>10, <2>2, <3>2
      <3> QED
        BY <3>1, <3>3 DEF TokenAgrees
    <2> QED
      BY <2>1, <2>2
  <1> QED
    BY <1>1, <1>3, <1>7, <1>8, <1>9, <1>10 DEF Agrees, TokenAgrees

\* An answer with a token.
LEMMA CsrfAgrees ==
    ASSUME Basic, Plain, ~Doomed, Agrees, NEW c, ApplyCsrf(c), orderly'
    PROVE  Agrees'
  <1>0. TypeOK
    BY DEF Basic
  <1> DEFINE K == IF c.from = "boot" THEN {Spec0("session", "boot", "none")} ELSE {}
  <1>1. /\ ApplyStep(c, K) /\ c.kind = "csrf" /\ user' = user
        /\ c.from = "boot" => boot' = "session"
        /\ c.from # "boot" => boot' = boot
    BY <1>0, CsrfDoes
  <1>2. \A k \in K : k.kind # "logout"
    BY DEF Spec0
  <1> HIDE DEF K
  <1>3. /\ c \in calls /\ sess' = sess
        /\ cookie' = (IF c.set # 0 THEN c.set ELSE cookie) /\ Grow({c}, K)
    BY <1>0, <1>1, OrderlyApply
  <1>4. TokenAgrees'
    BY CsrfToken
  <1>5. UserAgrees'
    <2>1. CASE c.from = "boot" \/ boot # "done"
      BY <1>1, <2>1 DEF UserAgrees
    <2>2. CASE c.from # "boot" /\ c.set = 0
      <3>1. ~LoggedIn(c)
        BY <1>1 DEF LoggedIn
      <3> QED
        BY <1>1, <1>2, <1>3, <2>2, <3>1, GrowUser DEF Agrees
    <2>3. CASE c.from # "boot" /\ c.set # 0 /\ boot = "done"
      BY <1>1, <1>2, <2>3, NewCookieUser
    <2> QED
      BY <2>1, <2>2, <2>3
  <1> QED
    BY <1>4, <1>5 DEF Agrees

\* App.vue's LoadSession brings the user of the session.
LEMMA BootSessionAgrees ==
    ASSUME Basic, Plain, Agrees, NEW c, ApplyBootSession(c), orderly'
    PROVE  Agrees'
  <1>0. TypeOK
    BY DEF Basic
  <1>1. PICK K : /\ ApplyStep(c, K) /\ c.kind = "session" /\ c.from = "boot" /\ boot' = "done" /\ token' = token
                 /\ user' = (IF c.code = 200 THEN c.who ELSE NoUser)
                 /\ K = IF user' = NoUser /\ was THEN {LogoutSpec} ELSE {}
    BY <1>0, BootSessionDoes
  <1>applied. ApplyStep(c, K)
    BY <1>1
  <1>2. /\ c \in calls /\ c.code = 200 /\ c.sid = cookie /\ c.st # "sent" /\ sess' = sess
        /\ cookie' = (IF c.set # 0 THEN c.set ELSE cookie) /\ Grow({c}, K)
    BY <1>0, <1>applied, OrderlyApply
  <1>3. boot = "session"
    BY <1>1, <1>2 DEF Basic, BootCalls
  <1>4. cookie' = cookie /\ c.set = 0
    BY <1>1, <1>2, SetNobody
  <1>5. user' = SessionOf(cookie)'.user
    BY <1>1, <1>2, <1>3, <1>4 DEF Plain, WhileBooting, SessionOf
  <1>6. \A d \in calls : d.kind \in {"csrf", "session", "write"}
    BY <1>3 DEF Plain, WhileBooting
  <1>7. \A d \in calls' : d \in calls \/ (d.st = "sent" /\ user' = NoUser)
    BY <1>1, <1>2, GrowFields DEF FreshCall
  <1>8. LoggingOut' => user' = NoUser
    BY <1>6, <1>7 DEF LoggingOut
  <1>9. AlreadyIn'
    BY <1>6, <1>7 DEF AlreadyIn, LoggedIn
  <1>10. AgreeOn(user, SessionOf(cookie).user)'
    BY <1>5, SessionAssumption DEF AgreeOn
  <1>11. TokenAgrees'
    <2>1. ~LoggedIn(c)
      BY <1>1 DEF LoggedIn
    <2> QED
      BY <1>1, <1>2, <1>3, <1>4, <2>1, GrowToken DEF Agrees
  <1> QED
    BY <1>8, <1>9, <1>10, <1>11 DEF Agrees, UserAgrees

\* The router's LoadSession is applied before App.vue is done.
LEMMA OauthAgrees ==
    ASSUME Basic, Plain, OauthFirst, Agrees, NEW c, ApplyOauthSession(c), orderly'
    PROVE  Agrees'
  <1>0. TypeOK
    BY DEF Basic
  <1>1. PICK K : ApplyStep(c, K) /\ c.kind = "session" /\ c.from = "oauth" /\ UNCHANGED <<token, boot>>
    BY <1>0, OauthDoes
  <1>2. /\ c \in calls /\ sess' = sess
        /\ cookie' = (IF c.set # 0 THEN c.set ELSE cookie) /\ Grow({c}, K)
    BY <1>0, <1>1, OrderlyApply
  <1>3. boot # "done"
    BY <1>1, <1>2 DEF OauthFirst
  <1>4. cookie' = cookie /\ ~LoggedIn(c)
    BY <1>1, <1>2, SetNobody DEF LoggedIn
  <1>5. TokenAgrees'
    BY <1>1, <1>2, <1>3, <1>4, GrowToken DEF Agrees
  <1> QED
    BY <1>1, <1>3, <1>5 DEF Agrees, UserAgrees

\* A sign-in is followed by a token, so a logout or a new cookie behind it would be in its way.
LEMMA LoginAgrees ==
    ASSUME Basic, Plain, ~Doomed, Agrees, NEW c, ApplyLogin(c), orderly', ~Doomed'
    PROVE  Agrees'
  <1>0. TypeOK
    BY DEF Basic
  <1>1. PICK K : /\ ApplyStep(c, K) /\ c.kind \in {"login", "finish"} /\ boot' = boot
                 /\ c.code = 200 => user' = c.who /\ K = {CsrfSpec}
    BY <1>0, LoginDoes
  <1>applied. ApplyStep(c, K)
    BY <1>1
  <1>2. /\ c \in calls /\ c.code = 200 /\ c.sid = cookie /\ c.st # "sent" /\ sess' = sess /\ \A d \in calls : d.no >= c.no
        /\ cookie' = (IF c.set # 0 THEN c.set ELSE cookie) /\ Grow({c}, K)
    BY <1>0, <1>applied, OrderlyApply
  <1>3. user' = c.who /\ K = {CsrfSpec} /\ boot = "done" /\ LoggedIn(c)
    BY <1>1, <1>2 DEF Plain, WhileBooting, LoggedIn
  <1>4. PICK f \in calls' : FreshCall(f) /\ f.kind = "csrf"
    BY <1>2, <1>3, GrowSends, SpecFields
  <1>5. \A d \in calls' : d \in calls /\ d # c => d.no < f.no
    <2>1. f.no \in Nat /\ f.no > issued
      BY <1>4 DEF FreshCall, Calls
    <2>2. \A d \in calls : d.no \in Nat /\ d.no <= issued /\ issued \in Nat
      BY DEF Basic, TypeOK, Calls
    <2> QED
      BY <2>1, <2>2
  <1>6. \A d \in calls' : (d \in calls /\ d # c) \/ (FreshCall(d) /\ d.kind = "csrf")
    BY <1>2, <1>3, GrowFields, SpecFields
  <1>7. ~LoggingOut'
    <2>1. \A d \in calls' : d.kind # "logout"
      <3>1. \A d \in calls' : d \in calls /\ d # c => d.kind # "logout"
        BY <1>4, <1>5 DEF Doomed, TwoTokens, FreshCall
      <3> QED
        BY <1>6, <3>1
    <2> QED
      BY <2>1 DEF LoggingOut
  <1>8. \A d \in calls' : d.set = 0
    <2>1. \A d \in calls' : d \in calls /\ d # c => d.set = 0
      BY <1>4, <1>5 DEF Doomed, Overtaken
    <2> QED
      BY <1>6, <2>1 DEF FreshCall
  <1>9. AlreadyIn /\ AlreadyIn'
    <2>1. AlreadyIn
      BY <1>3 DEF Agrees, UserAgrees
    <2> QED
      BY <1>2, <2>1, GrowAlreadyIn
  <1>10. AgreeOn(user, SessionOf(cookie).user)'
    <2>1. CASE c.set # 0
      <3>1. SessionOf(cookie)'.user = c.who
        BY <1>2, <2>1 DEF SessionOf, Plain, InOrder
      <3> QED
        BY <1>3, <3>1, SessionAssumption DEF AgreeOn
    <2>2. CASE c.set = 0
      <3>1. /\ c.who = Anon
            /\ \/ SessionOf(c.sid).user # NoUser
               \/ \E d \in calls : d.no > c.no /\ (d.kind = "logout" \/ d.set # 0)
        BY <1>2, <1>3, <1>9, <2>2 DEF AlreadyIn
      <3>2. ~ \E d \in calls : d.no > c.no /\ (d.kind = "logout" \/ d.set # 0)
        <4>1. \A d \in calls : d # c => d \in calls'
          BY <1>2, GrowKeeps
        <4>2. \A d \in calls : d.no > c.no => d # c
          BY DEF Basic, TypeOK, Calls
        <4> QED
          BY <1>7, <1>8, <4>1, <4>2 DEF LoggingOut
      <3>3. SessionOf(cookie)' = SessionOf(c.sid)
        BY <1>2, <2>2 DEF SessionOf
      <3> QED
        BY <1>3, <3>1, <3>2, <3>3 DEF AgreeOn
    <2> QED
      BY <2>1, <2>2
  <1>11. TokenAgrees'
    BY <1>2, <1>3, TokenFetched
  <1> QED
    BY <1>7, <1>9, <1>10, <1>11 DEF Agrees, UserAgrees

\* A challenge for a passkey changes no user.
LEMMA StartAgrees ==
    ASSUME Basic, Plain, ~Doomed, Agrees, NEW c, ApplyStart(c), orderly'
    PROVE  Agrees'
  <1>0. TypeOK
    BY DEF Basic
  <1>1. PICK K : /\ ApplyStep(c, K) /\ c.kind = "start" /\ K \subseteq {Spec0("prompt", "login", "none")}
                 /\ UNCHANGED <<token, boot>> /\ user' = IF c.code = 200 THEN user ELSE NoUser
    BY <1>0, StartDoes
  <1>applied. ApplyStep(c, K)
    BY <1>1
  <1>2. /\ c \in calls /\ c.code = 200 /\ sess' = sess
        /\ cookie' = (IF c.set # 0 THEN c.set ELSE cookie) /\ Grow({c}, K)
    BY <1>0, <1>applied, OrderlyApply
  <1>3. user' = user /\ boot = "done" /\ ~LoggedIn(c)
    BY <1>1, <1>2 DEF Plain, WhileBooting, LoggedIn
  <1>4. \A k \in K : k.kind # "logout"
    BY <1>1 DEF Spec0
  <1>5. CASE c.set = 0
    <2>1. UserAgrees'
      BY <1>1, <1>2, <1>3, <1>4, <1>5, GrowUser DEF Agrees
    <2>2. TokenAgrees'
      BY <1>1, <1>2, <1>3, <1>5, GrowToken DEF Agrees
    <2> QED
      BY <2>1, <2>2 DEF Agrees
  <1>6. CASE c.set # 0
    <2>1. UserAgrees' /\ user' = NoUser
      BY <1>1, <1>3, <1>4, <1>6, NewCookieUser
    <2> QED
      BY <1>1, <1>3, <2>1 DEF Agrees, TokenAgrees
  <1> QED
    BY <1>5, <1>6

\* A logout that the server accepted leaves a dead session behind.
LEMMA LogoutAgrees ==
    ASSUME Basic, Plain, Agrees, NEW c, ApplyLogout(c), orderly'
    PROVE  Agrees'
  <1>0. TypeOK
    BY DEF Basic
  <1>1. PICK K : /\ ApplyStep(c, K) /\ c.kind = "logout" /\ boot' = boot
                 /\ c.code = 200 => user' = user /\ K = {CsrfSpec}
    <2>1. PICK K : /\ ApplyStep(c, K) /\ CsrfSpec \in K /\ K \subseteq {CsrfSpec, LogoutSpec}
                   /\ c.kind = "logout" /\ UNCHANGED <<token, boot, was>> /\ page' = "/login"
                   /\ loggingIn' = FALSE /\ stored' = user' /\ ret' \in {ret, "none"}
                   /\ user' \in {user, NoUser}
                   /\ c.code = 200 => user' = user /\ K = {CsrfSpec}
      BY <1>0, LogoutDoes
    <2> QED
      BY <2>1
  <1>applied. ApplyStep(c, K)
    BY <1>1
  <1>2. /\ c \in calls /\ c.code = 200 /\ c.sid = cookie /\ sess' = sess /\ \A d \in calls : d.no >= c.no
        /\ cookie' = (IF c.set # 0 THEN c.set ELSE cookie) /\ Grow({c}, K)
    BY <1>0, <1>applied, OrderlyApply
  <1>3. user' = user /\ K = {CsrfSpec} /\ boot = "done" /\ LoggingOut /\ cookie' = cookie
    BY <1>1, <1>2, SetNobody DEF Plain, WhileBooting, LoggingOut
  <1>4. user = NoUser /\ AlreadyIn
    BY <1>3 DEF Agrees, UserAgrees
  <1>5. AlreadyIn'
    BY <1>2, <1>4, GrowAlreadyIn
  <1>6. SessionOf(cookie).user = NoUser
    <2>1. ~SessionOf(cookie).live /\ cookie \in 0 .. Len(sess)
      BY <1>1, <1>2 DEF Basic, CookiesNew, TypeOK
    <2> QED
      BY <2>1, DeadNobody
  <1>7. SessionOf(cookie)' = SessionOf(cookie)
    BY <1>2, <1>3 DEF SessionOf
  <1>8. AgreeOn(user, SessionOf(cookie).user)'
    BY <1>3, <1>4, <1>6, <1>7, SessionAssumption DEF AgreeOn
  <1>9. TokenAgrees'
    BY <1>2, <1>3, TokenFetched
  <1> QED
    BY <1>3, <1>4, <1>5, <1>8, <1>9 DEF Agrees, UserAgrees

\* A write changes nothing here.
LEMMA WriteAgrees ==
    ASSUME Basic, Plain, Agrees, NEW c, ApplyWrite(c), orderly'
    PROVE  Agrees'
  <1>0. TypeOK
    BY DEF Basic
  <1>1. PICK K : /\ ApplyStep(c, K) /\ c.kind = "write" /\ UNCHANGED <<token, boot>>
                 /\ c.code = 200 => user' = user /\ K = {}
    BY <1>0, WriteDoes
  <1>applied. ApplyStep(c, K)
    BY <1>1
  <1>2. /\ c \in calls /\ c.code = 200 /\ sess' = sess
        /\ cookie' = (IF c.set # 0 THEN c.set ELSE cookie) /\ Grow({c}, K)
    BY <1>0, <1>applied, OrderlyApply
  <1>3. user' = user /\ K = {} /\ c.set = 0 /\ cookie' = cookie /\ ~LoggedIn(c)
    BY <1>1, <1>2, SetNobody DEF LoggedIn
  <1>4. UserAgrees'
    BY <1>1, <1>2, <1>3, GrowUser DEF Agrees
  <1>5. TokenAgrees'
    BY <1>1, <1>2, <1>3, GrowToken DEF Agrees
  <1> QED
    BY <1>4, <1>5 DEF Agrees

\* A step of an orderly run keeps the browser and the server in agreement, or
\* the calls in flight are already such that the run will not stay orderly.
LEMMA NextAgrees ==
    ASSUME Basic, OrderlyStep, orderly', orderly => Plain /\ OauthFirst /\ (Doomed \/ Agrees)
    PROVE  Doomed' \/ Agrees'
  <1>0. TypeOK
    BY DEF Basic
  <1>1. ASSUME NEW K, LoadedAlone(K)
        PROVE  Agrees'
    BY <1>1, LoadAgrees
  <1>2. ASSUME orderly, NEW K, PersonStep(K)
        PROVE  Doomed' \/ Agrees'
    <2>1. Grow({}, K) /\ UNCHANGED <<sess, cookie>>
      BY <1>2 DEF PersonStep
    <2>2. Doomed => Doomed'
      BY <2>1, GrowDoomed
    <2> QED
      BY <1>2, <2>2, PersonAgrees
  <1>3. ASSUME orderly, NEW c, NEW b, Handled(c, b)
        PROVE  Doomed' \/ Agrees'
    <2>1. Doomed => Doomed'
      BY <1>3, HandleDoomed
    <2>2. Agrees => Agrees'
      BY <1>3, HandleUser, HandleToken DEF Agrees
    <2> QED
      BY <1>3, <2>1, <2>2
  <1>4. ASSUME orderly, NEW c, Applied(c)
        PROVE  Doomed' \/ Agrees'
    <2>1. PICK K : ApplyStep(c, K) /\ (c.kind = "logout" => CsrfSpec \in K)
      <3>1. CASE ApplyLogout(c)
        BY <1>0, <3>1, LogoutDoes
      <3>2. CASE ~ApplyLogout(c)
        <4>1. c.kind # "logout"
          BY <1>0, <1>4, <3>2, CsrfDoes, BootSessionDoes, OauthDoes, LoginDoes, StartDoes, WriteDoes DEF Applied
        <4> QED
          BY <1>0, <1>4, <4>1, AppliedDoes
      <3> QED
        BY <3>1, <3>2
    <2>2. Doomed => Doomed'
      BY <1>4, <2>1, ApplyDoomed
    <2>3. ~Doomed /\ ~Doomed' /\ Agrees => Agrees'
      BY <1>4, CsrfAgrees, BootSessionAgrees, OauthAgrees, LoginAgrees, StartAgrees, LogoutAgrees, WriteAgrees DEF Applied
    <2> QED
      BY <1>4, <2>2, <2>3
  <1>5. ASSUME orderly, NEW c, Prompt(c)
        PROVE  Doomed' \/ Agrees'
    <2>1. /\ c \in calls /\ c.kind = "prompt" /\ UNCHANGED <<cookie, sess>>
          /\ \E K : Grow({c}, K)
      BY <1>0, <1>5, PromptDoes
    <2>2. Doomed => Doomed'
      BY <2>1, GrowDoomed
    <2> QED
      BY <1>5, <2>2, PromptAgrees
  <1>6. ASSUME orderly, UNCHANGED <<user, page, token, cookie, boot, was, sess, calls>>
        PROVE  Doomed' \/ Agrees'
    <2>1. Doomed => Doomed'
      BY <1>6 DEF Doomed, Overtaken, Refused, TwoTokens, SessionOf
    <2>2. UserAgrees => UserAgrees'
      BY <1>6 DEF UserAgrees, AlreadyIn, LoggingOut, LoggedIn, AgreeOn, SessionOf
    <2>3. TokenAgrees => TokenAgrees'
      BY <1>6 DEF TokenAgrees, LoggedIn, SessionOf
    <2> QED
      BY <1>6, <2>1, <2>2, <2>3 DEF Agrees
  <1> QED
    BY <1>1, <1>2, <1>3, <1>4, <1>5, <1>6 DEF OrderlyStep

-----------------------------------------------------------------------------
(* The invariant *)

\* The invariant, in the parts that the lemmas prove.
LEMMA SessionParts ==
    SessionInv <=> Basic /\ (orderly => Plain /\ OauthFirst /\ (Doomed \/ Agrees))
  BY DEF SessionInv, Basic, Plain, Agrees

\* The first page: App.vue's call and the router's are in flight.
LEMMA InitInv == Init => SessionInv
  <1> SUFFICES ASSUME Init PROVE SessionInv
    OBVIOUS
  <1>1. TypeOK
    BY InitTyped
  <1>2. /\ boot = "csrf" /\ page = "/" /\ was = FALSE
        /\ calls = {[no |-> n, kind |-> "csrf", from |-> <<"boot", "nav">>[n], dest |-> "none",
                     sid |-> cookie, tok |-> 0, st |-> "sent", code |-> 0, who |-> NoUser, set |-> 0] : n \in 1 .. 2}
    BY DEF Init
  <1>3. ASSUME NEW d \in calls
        PROVE  /\ d.kind = "csrf" /\ d.from \in {"boot", "nav"} /\ d.st = "sent" /\ d.set = 0
               /\ d.from = "boot" => d.no = 1
    <2>1. PICK n \in 1 .. 2 :
            d = [no |-> n, kind |-> "csrf", from |-> <<"boot", "nav">>[n], dest |-> "none",
                 sid |-> cookie, tok |-> 0, st |-> "sent", code |-> 0, who |-> NoUser, set |-> 0]
      BY <1>2
    <2>2. d.from = <<"boot", "nav">>[n] /\ d.no = n /\ (n = 1 \/ n = 2)
      BY <2>1
    <2> QED
      BY <2>1, <2>2
  <1>4. \A d, e \in calls : d.no = e.no => d = e
    BY <1>2
  <1>5. \E d \in calls : d.kind = "csrf" /\ d.st = "sent"
    <2>1. calls # {}
      <3> DEFINE First(n) == [no |-> n, kind |-> "csrf", from |-> <<"boot", "nav">>[n], dest |-> "none",
                              sid |-> cookie, tok |-> 0, st |-> "sent", code |-> 0, who |-> NoUser, set |-> 0]
      <3>1. calls = {First(n) : n \in 1 .. 2} /\ 1 \in 1 .. 2
        BY <1>2
      <3> HIDE DEF First
      <3>2. First(1) \in calls
        BY <3>1
      <3> QED
        BY <3>2
    <2> QED
      BY <1>3, <2>1
  <1>6. CallsTold
    BY <1>3, <1>4 DEF CallsTold
  <1>7. CookiesNew
    <2>1. \A s \in DOMAIN sess : sess[s].live = TRUE
      <3>1. CASE stored = NoUser
        BY <3>1 DEF Init
      <3>2. CASE stored # NoUser
        <4>1. sess = <<[user |-> stored, token |-> 0, live |-> TRUE]>>
          BY <3>2 DEF Init
        <4> QED
          BY <4>1
      <3> QED
        BY <3>1, <3>2
    <2> QED
      BY <1>3, <2>1 DEF CookiesNew
  <1>8. BootCalls
    BY <1>2, <1>3, <1>4 DEF BootCalls
  <1>9. OauthCalls
    BY <1>2, <1>3 DEF OauthCalls
  <1>10. InOrder /\ WhileBooting /\ OauthFirst
    BY <1>2, <1>3 DEF InOrder, WhileBooting, OauthFirst
  <1>11. Stranded
    BY <1>2, SessionAssumption DEF Stranded, Public
  <1>12. UserAgrees /\ TokenAgrees
    BY <1>2, <1>5 DEF UserAgrees, TokenAgrees
  <1> QED
    BY <1>1, <1>6, <1>7, <1>8, <1>9, <1>10, <1>11, <1>12 DEF SessionInv

\* The invariant is inductive.
LEMMA NextInv ==
    ASSUME SessionInv, [Next]_vars
    PROVE  SessionInv'
  <1>1. Basic /\ (orderly => Plain /\ OauthFirst /\ (Doomed \/ Agrees))
    BY SessionParts
  <1>2. Step
    BY <1>1, NextSteps DEF Basic
  <1>3. Basic'
    BY <1>1, <1>2, NextBasic
  <1>4. ASSUME orderly'
        PROVE  Plain' /\ OauthFirst' /\ (Doomed' \/ Agrees')
    <2>1. OrderlyStep
      BY <1>1, <1>2, <1>4, OrderlySteps
    <2> QED
      BY <1>1, <1>4, <2>1, NextPlain, NextOauthFirst, NextAgrees
  <1> QED
    BY <1>3, <1>4 DEF SessionInv, Basic, Plain, Agrees

\* In every run the inductive invariant holds: the calls in flight are told
\* apart and numbered, cookies are new and the sessions they replace dead, and
\* in an orderly run the browser and the server agree, or the calls in flight
\* cannot all be applied in order and with success any more.
THEOREM SessionInvHolds == Spec => []SessionInv
  <1>1. SessionInv /\ [Next]_vars => SessionInv'
    BY NextInv
  <1> QED
    BY <1>1, InitInv, PTL DEF Spec

\* Every variable keeps its shape, and localStorage its copy of the user.
THEOREM TypeCorrect == Spec => []TypeOK
  <1>1. SessionInv => TypeOK
    BY DEF SessionInv
  <1> QED
    BY <1>1, SessionInvHolds, PTL

\* With nothing in flight and no call failed, refused or overtaken, auth.js and
\* security.js hold what the server's session holds.
THEOREM AgreeWhenQuietHolds == Spec => []AgreeWhenQuiet
  <1>1. SessionInv => AgreeWhenQuiet
    <2>1. SUFFICES ASSUME SessionInv, Quiet, orderly
                   PROVE  /\ user \in {SessionOf(cookie).user, Anon}
                          /\ user = Anon => SessionOf(cookie).user # NoUser
                          /\ user # NoUser => token = SessionOf(cookie).token
      BY DEF AgreeWhenQuiet
    <2>2. calls = {} /\ boot = "done"
      BY <2>1 DEF Quiet
    <2>3. ~Doomed
      BY <2>2 DEF Doomed, Overtaken, Refused, TwoTokens
    <2>4. UserAgrees /\ TokenAgrees
      BY <2>1, <2>3 DEF SessionInv
    <2>5. AgreeOn(user, SessionOf(cookie).user)
      BY <2>2, <2>4 DEF UserAgrees, LoggingOut
    <2>6. user # NoUser => token = SessionOf(cookie).token
      BY <2>2, <2>4 DEF TokenAgrees
    <2> QED
      BY <2>5, <2>6 DEF AgreeOn
  <1> QED
    BY <1>1, SessionInvHolds, PTL

\* Whoever is on a restricted page without a user is being logged out, unless
\* an answer came late or not at all.
THEOREM NotStrandedHolds == Spec => []NotStranded
  <1>1. SessionInv => NotStranded
    BY DEF SessionInv, NotStranded, Stranded, LoggingOut
  <1> QED
    BY <1>1, SessionInvHolds, PTL

\* A step of the page that an external login loaded leads to the page that the
\* person came for, or to a public one.
LEMMA OauthStep ==
    ASSUME SessionInv, [Next]_vars, page = "loading", page' \in Restricted \cup {"/"}
    PROVE  page' = want
  <1>1. Basic /\ TypeOK
    BY DEF SessionInv, Basic
  <1>2. page' # page /\ page' # "/login"
    BY SessionAssumption DEF Public
  <1>3. Step
    BY <1>1, NextSteps
  <1>4. ASSUME NEW K, PersonStep(K)
        PROVE  FALSE
    BY <1>4 DEF PersonStep
  <1>5. ~Reload /\ ~ExternalLogin
    BY DEF Reload, ExternalLogin
  <1>6. ~Expire /\ ~LoginDelay /\ ~(UNCHANGED vars)
    BY <1>2 DEF Expire, LoginDelay, vars
  <1>7. ASSUME NEW c, Handle(c) \/ Lose(c)
        PROVE  FALSE
    BY <1>1, <1>2, <1>7, HandleDoes, LoseDoes
  <1>8. ASSUME NEW c, ApplyCsrf(c) \/ ApplyBootSession(c) \/ ApplyStart(c) \/ Prompt(c) \/ ApplyWrite(c) \/ ApplyLogout(c)
        PROVE  FALSE
    BY <1>1, <1>2, <1>8, CsrfDoes, BootSessionDoes, StartDoes, PromptDoes, WriteDoes, LogoutDoes
  <1>9. ASSUME NEW c, ApplyLogin(c)
        PROVE  FALSE
    <2>1. PICK K : ApplyStep(c, K) /\ c.kind \in {"login", "finish"}
      BY <1>1, <1>9, LoginDoes
    <2>2. c \in calls /\ c.st # "sent"
      BY <2>1 DEF ApplyStep
    <2> QED
      BY <1>1, <2>1, <2>2 DEF Basic, OauthCalls, CallsTold, SignIns
  <1>10. ASSUME NEW c, ApplyOauthSession(c)
         PROVE  page' = want
    <2>1. PICK K : /\ ApplyStep(c, K) /\ c.from = "oauth"
                   /\ page' = IF user' # NoUser THEN c.dest ELSE "/login"
      BY <1>1, <1>10, OauthDoes
    <2>2. c \in calls
      BY <2>1 DEF ApplyStep
    <2> QED
      BY <1>1, <1>2, <2>1, <2>2 DEF Basic, OauthCalls
  <1> QED
    BY <1>3, <1>4, <1>5, <1>6, <1>7, <1>8, <1>9, <1>10 DEF Step

\* The page that the router captured before it awaited LoadSession is where the
\* external login ends, whatever App.vue does to the return URL meanwhile.
THEOREM OauthReturnsHolds == Spec => OauthReturns
  <1>1. SessionInv /\ [Next]_vars => [page = "loading" /\ page' \in Restricted \cup {"/"} => page' = want]_vars
    BY OauthStep
  <1> QED
    BY <1>1, SessionInvHolds, PTL DEF Spec, OauthReturns

=============================================================================
