----------------------------- MODULE WebSession -----------------------------
(***************************************************************************)
(* Who is signed in: the browser's idea of it (stores/auth.js, security.js *)
(* router/index.js, App.vue, LoginView.vue, fetch-wrapper.js) against the  *)
(* session the server keeps under the browser's cookie.                    *)
(*                                                                         *)
(* Calls are sent with the cookie and the CSRF token of the moment, are    *)
(* handled by the server in any order, may fail, and their answers are     *)
(* applied in any order: App.vue, the router and the login page all have   *)
(* calls in flight at the same time.                                       *)
(***************************************************************************)
EXTENDS Integers, Sequences

CONSTANTS
    Users,          \* the user names
    NoUser,         \* nobody
    Anon,           \* a signed-in user without identity ("already logged in")
    Restricted,     \* the pages that need a user
    MaxActs         \* bound: what the person at the browser does, and faults

Public == {"/", "/login", "/key-generator"}
Pages == Public \cup Restricted
csrfPages == {"/", "/login"}

ASSUME SessionAssumption ==
    /\ NoUser \notin Users /\ Anon \notin Users /\ NoUser # Anon
    /\ Restricted \cap (Public \cup {"none", "loading"}) = {}
    /\ MaxActs \in Nat

VARIABLES
    user,       \* auth.user
    stored,     \* the copy of it in localStorage
    ret,        \* auth.returnUrl and its copy in localStorage: "none" or a page
    page,       \* the current route; "loading" until the first navigation ends
    token,      \* the CSRF token of the security store (0: empty)
    cookie,     \* the session cookie (0: none)
    boot,       \* where App.vue's onMounted is: "csrf", "session" or "done"
    was,        \* its wasLoggedIn
    loggingIn,  \* the login page's flag
    sess,       \* the server's sessions
    calls,      \* calls in flight
    issued,     \* how many calls were sent
    acts,       \* how many things the person did, calls were lost, sessions ended
    want,       \* ghost: where an external login should lead
    orderly     \* ghost: no call failed, was overtaken or met a new session,
                \* and nobody signed in or out before App.vue was done

vars == <<user, stored, ret, page, token, cookie, boot, was, loggingIn, sess, calls, issued, acts, want, orderly>>
client == <<user, stored, ret, page, token, boot, was, loggingIn, want, acts>>

Gone == [user |-> NoUser, token |-> 0, live |-> FALSE]

SessionOf(sid) == IF sid = 0 THEN Gone ELSE sess[sid]

\* The sessions without one of them, with one more, with another CSRF token.
Ended(sid) == IF sid = 0 THEN sess ELSE [sess EXCEPT ![sid] = Gone]
Begun(s, u, t) == Append(s, [user |-> u, token |-> t, live |-> TRUE])
Retoken(sid, t) == [sess EXCEPT ![sid].token = t]

\* A call waits for the server ("sent"), then for the browser ("answered").
Call(spec, n) ==
    [no |-> issued + n, kind |-> spec.kind, from |-> spec.from, dest |-> spec.dest,
     sid |-> cookie', tok |-> token', st |-> "sent", code |-> 0, who |-> NoUser, set |-> 0]

Spec0(kind, from, dest) == [kind |-> kind, from |-> from, dest |-> dest]

\* Calls leave the set and new ones are sent, with the new cookie and token.
Send(gone, specs) ==
    /\ calls' = (calls \ gone) \cup {Call(specs[n], n) : n \in DOMAIN specs}
    /\ issued' = issued + Len(specs)

\* A mutant: the copy in localStorage survives.
setUserInfoOnly(u) == user' = u /\ stored' = IF u = NoUser THEN stored ELSE u

setUserInfo(u) == user' = u /\ stored' = u

\* A call is out of order when an older one is still in flight or its session
\* is not the browser's any more.
Late(c) == c.sid # cookie \/ \E d \in calls : d.no < c.no

Tidy(c) == orderly' = (orderly /\ ~Late(c) /\ c.code = 200)
\* A sign-in or sign-out that App.vue's own LoadSession does not cross.
Settled == orderly' = (orderly /\ boot = "done")
----------------------------------------------------------------------------
(* The router.                                                              *)

\* A mutant: beforeEach lets everybody pass.
LandsAnywhere(to, u) == to

\* beforeEach: a restricted page needs a user.
Lands(to, u) == IF to \in Restricted /\ u = NoUser THEN "/login" ELSE to

\* A mutant: only the login page fetches a CSRF token.
AfterLoginOnly(p) == IF p = "/login" THEN <<Spec0("csrf", "nav", "none")>> ELSE <<>>

\* afterEach: these pages fetch a CSRF token.
afterEach(p) == IF p \in csrfPages THEN <<Spec0("csrf", "nav", "none")>> ELSE <<>>

----------------------------------------------------------------------------
(* Page loads.                                                              *)

\* main.js and App.vue: the first navigation and onMounted start together.
BootCall == Spec0("csrf", "boot", "none")

Init ==
    /\ stored \in Users \cup {NoUser} /\ user = stored
    /\ sess = IF stored = NoUser THEN <<>> ELSE <<[user |-> stored, token |-> 0, live |-> TRUE]>>
    /\ cookie = Len(sess) /\ token = 0
    /\ ret = "none" /\ page = "/" /\ want = "none"
    /\ boot = "csrf" /\ was = FALSE /\ loggingIn = FALSE
    /\ calls = {[no |-> n, kind |-> "csrf", from |-> <<"boot", "nav">>[n], dest |-> "none",
                 sid |-> cookie, tok |-> 0, st |-> "sent", code |-> 0, who |-> NoUser, set |-> 0] : n \in 1 .. 2}
    /\ issued = 2 /\ acts = 0 /\ orderly = TRUE

Left(c) == [c EXCEPT !.from = "gone"]

\* The state of a page that has just been loaded; answers to the page that
\* was left are lost, the server still handles its calls.
Load(specs) ==
    /\ user' = stored /\ stored' = stored
    /\ token' = 0 /\ boot' = "csrf" /\ was' = FALSE /\ loggingIn' = FALSE
    /\ calls' = {Left(c) : c \in {d \in calls : d.st = "sent" /\ d.kind # "prompt"}}
                \cup {Call(specs[n], n) : n \in DOMAIN specs}
    /\ issued' = issued + Len(specs)
    /\ orderly' = (calls = {})

Act == acts < MaxActs /\ acts' = acts + 1

Reload ==
    /\ Act /\ page # "loading"
    /\ cookie' = cookie /\ sess' = sess /\ want' = want
    /\ page' = Lands(page, stored)
    /\ ret' = IF page' = page THEN ret ELSE page
    /\ Load(<<BootCall>> \o afterEach(page'))

\* LoginView.externalLogin leaves the application; the provider sends the
\* browser back with wgLoginState.  The router captures the return URL
\* before it awaits LoadSession.
ExternalLogin ==
    /\ Act /\ page = "/login" /\ ~loggingIn
    /\ \E u \in Users \cup {NoUser} :
          LET known == SessionOf(cookie).user # NoUser
              fresh == u # NoUser /\ ~known
              back == IF ret = "none" THEN "/" ELSE ret
          IN  /\ sess' = IF fresh THEN Begun(Ended(cookie), u, 0) ELSE sess
              /\ cookie' = IF fresh THEN Len(sess') ELSE cookie
              /\ IF stored = NoUser /\ (u # NoUser \/ known)
                 THEN /\ page' = "loading" /\ want' = back
                      /\ Load(<<BootCall, Spec0("session", "oauth", back)>>)
                 ELSE /\ page' = "/login" /\ want' = want
                      /\ Load(<<BootCall>> \o afterEach("/login"))
    /\ ret' = ret

----------------------------------------------------------------------------
(* What the person does.                                                    *)

Navigate(to) ==
    /\ Act /\ page # "loading"
    /\ page' = Lands(to, user)
    /\ ret' = IF page' = to THEN ret ELSE to
    /\ loggingIn' = FALSE
    /\ UNCHANGED <<user, stored, token, cookie, boot, was, sess, want, orderly>>
    /\ Send({}, afterEach(page'))

\* auth.Logout, up to its await.
LogoutCall == <<Spec0("logout", "logout", "none")>>

ClickLogout ==
    /\ Act /\ user # NoUser /\ page # "loading"
    /\ setUserInfo(NoUser) /\ ret' = "none"
    /\ UNCHANGED <<page, token, cookie, boot, was, loggingIn, sess, want>>
    /\ Settled
    /\ Send({}, LogoutCall)

SubmitLogin ==
    /\ Act /\ page = "/login" /\ ~loggingIn
    /\ loggingIn' = TRUE
    /\ UNCHANGED <<user, stored, ret, page, token, cookie, boot, was, sess, want>>
    /\ Settled
    /\ Send({}, <<Spec0("login", "login", "none")>>)

\* The passkey button is not disabled while a login runs.
SubmitWebAuthn ==
    /\ Act /\ page = "/login"
    /\ loggingIn' = TRUE
    /\ UNCHANGED <<user, stored, ret, page, token, cookie, boot, was, sess, want>>
    /\ Settled
    /\ Send({}, <<Spec0("start", "login", "none")>>)

\* Any write of a restricted page.
Write ==
    /\ Act /\ page \in Restricted /\ user # NoUser
    /\ UNCHANGED <<user, stored, ret, page, token, cookie, boot, was, loggingIn, sess, want, orderly>>
    /\ Send({}, <<Spec0("write", "page", "none")>>)

----------------------------------------------------------------------------
(* The server.  A token is the number of the call that fetched it.          *)

\* Nobody waits for the answer to a call of a page that was left.
Back(c) == IF c.from = "gone" THEN {} ELSE {c}

Marked(c, st, code, who, set) == [c EXCEPT !.st = st, !.code = code, !.who = who, !.set = set]

Reply(c, code, who, set) ==
    calls' = (calls \ {c}) \cup Back(Marked(c, "answered", code, who, set))

\* The CSRF middleware answers 403 in plain text, which the browser fails to
\* parse before it looks at the status; 401 stands for every JSON 401 or 403.
Forbidden(c) == SessionOf(c.sid).token # c.tok

\* A mutation outside a live session starts one.
Touch(c, t) ==
    IF SessionOf(c.sid).live
    THEN sess' = Retoken(c.sid, t) /\ Reply(c, 200, NoUser, 0)
    ELSE /\ sess' = Begun(sess, NoUser, t)
         /\ Reply(c, 200, NoUser, Len(sess) + 1)

Replaced(c, u) ==
    /\ sess' = Begun(Ended(c.sid), u, 0)
    /\ Reply(c, 200, u, Len(sess) + 1)

HandleCsrf(c) == c.kind = "csrf" /\ Touch(c, c.no)

HandleSession(c) ==
    c.kind = "session" /\ sess' = sess /\ Reply(c, 200, SessionOf(c.sid).user, 0)

\* A login replaces the session; the token of the new one is empty.
HandleLogin(c) ==
    /\ c.kind = "login" /\ ~Forbidden(c)
    /\ IF SessionOf(c.sid).user # NoUser THEN sess' = sess /\ Reply(c, 200, Anon, 0)
       ELSE \/ sess' = sess /\ Reply(c, 401, NoUser, 0)
            \/ \E u \in Users : Replaced(c, u)

HandleWebAuthn(c) ==
    /\ ~Forbidden(c)
    /\ \/ c.kind = "start" /\ Touch(c, c.tok)
       \/ c.kind = "finish" /\ \E u \in Users : Replaced(c, u)
       \/ c.kind \in {"start", "finish"} /\ sess' = sess /\ Reply(c, 400, NoUser, 0)

HandleLogout(c) ==
    /\ c.kind = "logout" /\ ~Forbidden(c)
    /\ IF SessionOf(c.sid).user = NoUser THEN sess' = sess /\ Reply(c, 401, NoUser, 0)
       ELSE sess' = Ended(c.sid) /\ Reply(c, 200, NoUser, 0)

\* A page's write: refused without a user, or without the admin's scope.
HandleWrite(c) ==
    /\ c.kind = "write" /\ ~Forbidden(c)
    /\ sess' = sess
    /\ \/ SessionOf(c.sid).user # NoUser /\ Reply(c, 200, NoUser, 0)
       \/ Reply(c, 401, NoUser, 0)

HandleForbidden(c) ==
    /\ c.kind \notin {"csrf", "session"} /\ Forbidden(c)
    /\ sess' = sess /\ Reply(c, 403, NoUser, 0)

Handle(c) ==
    /\ c \in calls /\ c.st = "sent" /\ c.kind # "prompt"
    /\ \/ HandleCsrf(c) \/ HandleSession(c) \/ HandleLogin(c) \/ HandleWebAuthn(c)
       \/ HandleLogout(c) \/ HandleWrite(c) \/ HandleForbidden(c)
    /\ orderly' = (orderly /\ c.sid = cookie /\ \A d \in calls : d.st = "sent" => d.no >= c.no)
    /\ UNCHANGED <<client, cookie, issued>>

\* The call or its answer is lost.
Lose(c) ==
    /\ Act
    /\ c \in calls /\ c.st \in {"sent", "answered"} /\ c.kind # "prompt"
    /\ calls' = (calls \ {c}) \cup Back(Marked(c, "failed", 0, c.who, 0))
    /\ orderly' = FALSE
    /\ UNCHANGED <<user, stored, ret, page, token, boot, was, loggingIn, want, cookie, sess, issued>>

\* A session ends on the server: lifetime, restart, user disabled.
Expire ==
    /\ Act
    /\ \E s \in DOMAIN sess : sess[s].live /\ sess' = Ended(s)
    /\ orderly' = FALSE
    /\ UNCHANGED <<user, stored, ret, page, token, cookie, boot, was, loggingIn, calls, issued, want>>

----------------------------------------------------------------------------
(* The browser gets an answer.                                              *)

Applies(c, kinds) ==
    /\ c \in calls /\ c.st \in {"answered", "failed"} /\ c.kind \in kinds
    /\ cookie' = IF c.set # 0 THEN c.set ELSE cookie
    /\ UNCHANGED <<sess, acts, want>>
    /\ Tidy(c)

Ok(c) == c.code = 200

\* handleResponse: a 401 while signed in starts a logout nobody waits for.
AutoLogout(c) == IF c.code = 401 /\ user # NoUser THEN LogoutCall ELSE <<>>

\* LoadSecurityProperties; App.vue goes on to LoadSession.
ApplyCsrf(c) ==
    /\ Applies(c, {"csrf"})
    /\ token' = IF Ok(c) THEN c.no ELSE 0
    /\ UNCHANGED <<user, stored, ret, page, loggingIn>>
    /\ IF c.from = "boot"
       THEN /\ boot' = "session" /\ was' = (user # NoUser)
            /\ Send({c}, <<Spec0("session", "boot", "none")>>)
       ELSE UNCHANGED <<boot, was>> /\ Send({c}, <<>>)

\* LoadSession as App.vue awaits it: a session that is no more is logged out.
ApplyBootSession(c) ==
    /\ c.from = "boot" /\ Applies(c, {"session"})
    /\ boot' = "done"
    /\ UNCHANGED <<page, token, was, loggingIn>>
    /\ setUserInfo(IF Ok(c) THEN c.who ELSE NoUser)
    /\ IF user' # NoUser THEN ret' = "none" /\ Send({c}, <<>>)
       ELSE IF was THEN ret' = "none" /\ Send({c}, LogoutCall)
       ELSE ret' = ret /\ Send({c}, <<>>)

\* A mutant: the return URL is read after LoadSession.
ReadLater(c) == IF ret = "none" THEN "/" ELSE ret

\* The page the oauth callback goes on to: captured before LoadSession.
ReturnTo(c) == c.dest

\* LoadSession as the router awaits it after an external login.
ApplyOauthSession(c) ==
    /\ c.from = "oauth" /\ Applies(c, {"session"})
    /\ UNCHANGED <<token, boot, was, loggingIn>>
    /\ setUserInfo(IF Ok(c) THEN c.who ELSE NoUser)
    /\ ret' = IF user' # NoUser THEN "none" ELSE ret
    /\ page' = IF user' # NoUser THEN ReturnTo(c) ELSE "/login"
    /\ Send({c}, afterEach(page'))

\* Login, and the end of LoginWebAuthn: to the return URL, which is reset.
ApplyLogin(c) ==
    /\ Applies(c, {"login", "finish"})
    /\ UNCHANGED <<token, boot, was>>
    /\ IF Ok(c)
       THEN /\ setUserInfo(c.who) /\ ret' = "none" /\ loggingIn' = FALSE
            /\ page' = "/" /\ Send({c}, afterEach("/"))
       ELSE /\ setUserInfo(NoUser) /\ UNCHANGED <<page, loggingIn>>
            /\ ret' = IF AutoLogout(c) = <<>> THEN ret ELSE "none"
            /\ Send({c}, AutoLogout(c))

\* The server's challenge for a passkey; then the browser asks its user.
ApplyStart(c) ==
    /\ Applies(c, {"start"})
    /\ UNCHANGED <<ret, page, token, boot, was, loggingIn>>
    /\ IF Ok(c) THEN UNCHANGED <<user, stored>> /\ Send({c}, <<Spec0("prompt", "login", "none")>>)
       ELSE setUserInfo(NoUser) /\ Send({c}, <<>>)

Prompt(c) ==
    /\ c \in calls /\ c.kind = "prompt"
    /\ UNCHANGED <<ret, page, token, cookie, boot, was, loggingIn, sess, acts, want>>
    /\ \/ orderly' = orderly /\ UNCHANGED <<user, stored>> /\ Send({c}, <<Spec0("finish", "login", "none")>>)
       \/ orderly' = FALSE /\ setUserInfo(NoUser) /\ Send({c}, <<>>)

\* The login button is freed a second after a failure.
LoginDelay ==
    /\ loggingIn /\ \A c \in calls : c.from # "login"
    /\ loggingIn' = FALSE
    /\ UNCHANGED <<user, stored, ret, page, token, cookie, boot, was, sess, calls, issued, acts, want, orderly>>

\* A mutant: a refused logout leaves the page as it is.
ApplyLogoutIfOk(c) ==
    /\ Applies(c, {"logout"})
    /\ UNCHANGED <<token, boot, was, user, stored, ret>>
    /\ loggingIn' = FALSE
    /\ page' = IF Ok(c) THEN "/login" ELSE page
    /\ Send({c}, afterEach(page'))

\* Logout after its await: whatever the answer, to the login page.
ApplyLogout(c) ==
    /\ Applies(c, {"logout"})
    /\ UNCHANGED <<token, boot, was>>
    /\ loggingIn' = FALSE
    /\ setUserInfo(IF AutoLogout(c) = <<>> THEN user ELSE NoUser)
    /\ ret' = IF AutoLogout(c) = <<>> THEN ret ELSE "none"
    /\ page' = "/login"
    /\ Send({c}, AutoLogout(c) \o afterEach("/login"))

ApplyWrite(c) ==
    /\ Applies(c, {"write"})
    /\ UNCHANGED <<page, token, boot, was, loggingIn>>
    /\ setUserInfo(IF AutoLogout(c) = <<>> THEN user ELSE NoUser)
    /\ ret' = IF AutoLogout(c) = <<>> THEN ret ELSE "none"
    /\ Send({c}, AutoLogout(c))

Apply(c) ==
    \/ ApplyCsrf(c) \/ ApplyBootSession(c) \/ ApplyOauthSession(c) \/ ApplyLogin(c)
    \/ ApplyStart(c) \/ Prompt(c) \/ ApplyLogout(c) \/ ApplyWrite(c)

Person ==
    \/ Reload \/ ExternalLogin \/ ClickLogout \/ SubmitLogin \/ SubmitWebAuthn \/ Write
    \/ \E to \in Pages : Navigate(to)

Next ==
    \/ Person \/ LoginDelay \/ Expire
    \/ \E c \in calls : Handle(c) \/ Lose(c) \/ Apply(c)

\* The server handles every call that reaches it, and the browser applies
\* every answer and every failure.
Fairness == WF_vars(\E c \in calls : Handle(c) \/ Apply(c))

Spec == Init /\ [][Next]_vars /\ Fairness

----------------------------------------------------------------------------
Kinds == {"csrf", "session", "login", "start", "prompt", "finish", "logout", "write"}
Froms == {"boot", "nav", "login", "oauth", "logout", "page", "gone"}
Names == Users \cup {NoUser, Anon}
Stages == {"sent", "answered", "failed"}
Codes == {0, 200, 400, 401, 403}
Sessions(n) == [user : Users \cup {NoUser}, token : 0 .. n, live : BOOLEAN]
Calls(n, last) ==
    [no : 1 .. n, kind : Kinds, from : Froms, dest : Pages \cup {"none"}, sid : 0 .. last, tok : 0 .. n,
     st : Stages, code : Codes, who : Names, set : 0 .. last]

\* Every variable has its shape.
TypeOK ==
    /\ user \in Names /\ stored = user
    /\ ret \in Restricted \cup {"none"}
    /\ page \in Pages \cup {"loading"}
    /\ issued \in Nat /\ token \in 0 .. issued /\ cookie \in 0 .. Len(sess)
    /\ boot \in {"csrf", "session", "done"} /\ was \in BOOLEAN /\ loggingIn \in BOOLEAN
    /\ sess \in Seq(Sessions(issued)) /\ calls \subseteq Calls(issued, Len(sess))
    /\ want \in Pages \cup {"none"} /\ orderly \in BOOLEAN

Quiet == calls = {} /\ boot = "done"

\* When nothing is in flight the browser and the server agree on who is
\* signed in and on the CSRF token that the next write needs, unless a call
\* failed, was refused or was overtaken since the page was loaded.
AgreeWhenQuiet ==
    Quiet /\ orderly =>
        /\ user \in {SessionOf(cookie).user, Anon}
        /\ user = Anon => SessionOf(cookie).user # NoUser
        /\ user # NoUser => token = SessionOf(cookie).token

\* Nobody is left on a restricted page without being signed in: a logout is
\* on its way, unless an answer came late or not at all.
NotStranded ==
    page \in Restricted /\ user = NoUser /\ orderly => \E c \in calls : c.kind = "logout"

\* The oauth login leads to the page the person came for, although App.vue's
\* own LoadSession may have reset the return URL in between.
OauthReturns ==
    [][page = "loading" /\ page' \in Restricted \cup {"/"} => page' = want]_vars

\* Every logout, also the automatic one after a 401 and one the server
\* refuses, ends on the login page, unless the page is loaded anew first.
LogoutArrives ==
    (\E c \in calls : c.kind = "logout" /\ c.from # "gone") ~> page = "/login" \/ boot = "csrf"
----------------------------------------------------------------------------
(* The inductive invariant.                                                 *)

SignIns == {"login", "start", "prompt", "finish"}

\* Calls are told apart by their numbers, and a page that was left gets no answer.
CallsTold ==
    /\ \A c, d \in calls : c.no = d.no => c = d
    /\ \A c \in calls : c.from = "gone" \/ c.kind = "prompt" => c.st = "sent"
    /\ \A c \in calls : c.from = "gone" => c.kind # "prompt"
    /\ \A c \in calls : c.st = "sent" => c.set = 0

\* A session that ended is gone for good.  A new cookie is nobody's yet, and
\* leaves the session it replaces dead, as a logout does.
CookiesNew ==
    /\ \A s \in DOMAIN sess : ~sess[s].live => sess[s] = Gone
    /\ \A c \in calls : c.set # 0 =>
          /\ ~SessionOf(c.sid).live /\ c.kind \in {"csrf", "start", "login", "finish"}
          /\ c.set # cookie
          /\ \A d \in calls : d.sid # c.set /\ (d # c => d.set # c.set)
    /\ \A c \in calls : c.kind = "logout" /\ c.code = 200 => ~SessionOf(c.sid).live

\* App.vue has one call in flight until it is done.
BootCalls ==
    /\ \A c \in calls : c.from = "boot" => c.kind = boot
    /\ \A c, d \in calls : c.from = "boot" /\ d.from = "boot" => c = d

\* The page that an external login loads waits for the router's own call.
OauthCalls ==
    /\ \A c \in calls : c.from = "oauth" => c.kind = "session" /\ c.dest = want /\ want \in Pages
    /\ page = "loading" => \A c \in calls : c.kind \in SignIns => c.from = "gone"

\* In an orderly run calls are handled in the order they were sent.
InOrder ==
    /\ \A c \in calls : c.from # "gone"
    /\ \A c, d \in calls : c.st # "sent" /\ d.st = "sent" => c.no < d.no
    /\ \A c \in calls : c.set # 0 => sess[c.set].user = c.who /\ (c.kind \in {"csrf", "start"} => c.who = NoUser)

\* Until App.vue is done nobody signs in or out, so what the server answered
\* about the session is still so.
WhileBooting ==
    boot # "done" =>
        /\ \A c \in calls : c.kind \in {"csrf", "session", "write"}
        /\ \A c \in calls : c.kind = "session" /\ c.st # "sent" => c.who = SessionOf(c.sid).user
        /\ boot = "session" /\ ~was /\ user # NoUser => SessionOf(cookie).user # NoUser

\* The router's LoadSession was sent before App.vue's.
OauthFirst ==
    \A c \in calls : c.from = "oauth" =>
        boot # "done" /\ \A d \in calls : d.from = "boot" /\ d.kind = "session" => c.no < d.no

LoggingOut == \E c \in calls : c.kind = "logout"

\* Somebody who has no right to the page is being logged out.
Stranded == page \in Restricted /\ user = NoUser => LoggingOut

\* Calls in flight that cannot all be applied in order and with success: the
\* cookie has changed or will, an answer is a refusal, or two calls for a token
\* (the second of them still to come, when a logout ends) both meet a dead session.
Overtaken == \E c \in calls : c.kind # "prompt" /\ (c.sid # cookie \/ \E d \in calls : d.no < c.no /\ d.set # 0)
Refused == \E c \in calls : c.st # "sent" /\ c.code # 200
TwoTokens ==
    \E c, d \in calls :
        /\ c.no < d.no /\ d.kind = "csrf"
        /\ \/ c.kind = "csrf" /\ c.st = "sent" /\ ~SessionOf(c.sid).live
           \/ c.kind = "logout" /\ (d.st = "sent" \/ d.set # 0)
Doomed == Overtaken \/ Refused \/ TwoTokens

AgreeOn(u, v) == u \in {v, Anon} /\ (u = Anon => v # NoUser)
LoggedIn(c) == c.kind \in {"login", "finish"} /\ c.st # "sent"

\* Somebody who signs in again is Anon, and known until they are logged out.
AlreadyIn ==
    \A c \in calls : LoggedIn(c) /\ c.code = 200 /\ c.set = 0 =>
        /\ c.who = Anon
        /\ \/ SessionOf(c.sid).user # NoUser
           \/ \E d \in calls : d.no > c.no /\ (d.kind = "logout" \/ d.set # 0)

UserAgrees ==
    boot = "done" =>
        /\ LoggingOut => user = NoUser
        /\ AlreadyIn
        /\ AgreeOn(user, SessionOf(cookie).user) \/ LoggingOut \/ \E c \in calls : LoggedIn(c)

TokenAgrees ==
    \/ boot = "done" /\ user = NoUser
    \/ \E c \in calls : c.kind = "csrf" /\ c.st = "sent"
    \/ \E c \in calls : LoggedIn(c)
    \/ \E c \in calls : /\ c.kind = "csrf" /\ c.st = "answered"
                        /\ \A d \in calls : d.kind = "csrf" => d.no <= c.no
                        /\ SessionOf(IF c.set # 0 THEN c.set ELSE c.sid).token = c.no
    \/ token = SessionOf(cookie).token /\ \A c \in calls : c.kind # "csrf"

SessionInv ==
    /\ TypeOK /\ CallsTold /\ CookiesNew /\ BootCalls /\ OauthCalls
    /\ orderly => InOrder /\ WhileBooting /\ OauthFirst /\ Stranded /\ (Doomed \/ (UserAgrees /\ TokenAgrees))
=============================================================================
