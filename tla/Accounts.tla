------------------------------ MODULE Accounts ------------------------------
(***************************************************************************)
(* internal/auth over an installation: browsers that log in, load pages,   *)
(* press buttons and log out, the session table, and the cookies that the  *)
(* answers set.  Every store call is one step (each is one statement);     *)
(* requests of one browser may overlap, and their answers arrive in any    *)
(* order or are lost.                                                      *)
(*                                                                         *)
(* A random token is named by the request that draws it.  Passwords are    *)
(* right or wrong, hashes and cookie attributes are left out.  No browser  *)
(* is assumed to drop a cookie when its Max-Age has passed.                *)
(***************************************************************************)
EXTENDS Installation

CONSTANTS Browsers,
          Requests,       \* requests of the browsers, and tokens drawn by them
          TTL,            \* sessionTTLSeconds
          MaxClock        \* bound: seconds that pass

VARIABLES clock,          \* time.Now().Unix()
          sessions,       \* table sessions: a row per token
          jar,            \* the cookies of each browser
          form,           \* the CSRF token in the form each browser shows
          web,            \* each request and its answer
          overlapped      \* history: browsers with two requests in flight once

sessionVars == <<clock, sessions, jar, form, web, overlapped>>
vars == <<installVars, sessionVars>>

ASSUME TimesAssumption == TTL \in Nat \ {0} /\ MaxClock \in Nat

ASSUME NoneAccountsAssumption == None \notin Requests

Token == Requests \cup {None}

(***************************************************************************)
(* kind: "login form" and "page" are GETs, the first without RequireUser;  *)
(* "button" is a POST by HTMX, "login" and "logout" are POSTs of a form.   *)
(* session, csrf: the cookies sent; provided: the token of the form or the *)
(* header; sentAt, now: when it was sent and the time the middleware or    *)
(* Login read; user: the session middleware put a user in the context;     *)
(* setSession, setCsrf, shows: what the answer does to the browser.        *)
(***************************************************************************)
Kinds == {"login form", "page", "button", "login", "logout"}

WebRequest == [pc : {"idle", "session", "lookup", "delete", "handler", "create",
                     "answered", "done"},
               kind : Kinds \cup {"none"}, browser : Browsers \cup {None},
               session : Token, csrf : Token, provided : Token,
               sentAt : Nat, now : Nat, user : BOOLEAN,
               setSession : Token \cup {"keep"}, setCsrf : Token, shows : Token,
               status : {"none", "ok", "unauthorized", "forbidden", "redirect", "error"}]

NotSent == [pc |-> "idle", kind |-> "none", browser |-> None, session |-> None,
            csrf |-> None, provided |-> None, sentAt |-> 0, now |-> 0, user |-> FALSE,
            setSession |-> "keep", setCsrf |-> None, shows |-> None, status |-> "none"]

TypeOK ==
    /\ InstallTypeOK
    /\ clock \in Nat
    /\ DOMAIN sessions \subseteq Requests
    /\ sessions \in [DOMAIN sessions -> [expires_at : Nat]]
    /\ jar \in [Browsers -> [session : Token, csrf : Token]]
    /\ form \in [Browsers -> Token]
    /\ web \in [Requests -> WebRequest]
    /\ overlapped \subseteq Browsers

Init ==
    /\ InstallInit
    /\ clock = 0
    /\ sessions = [t \in {} |-> t]
    /\ jar = [b \in Browsers |-> [session |-> None, csrf |-> None]]
    /\ form = [b \in Browsers |-> None]
    /\ web = [r \in Requests |-> NotSent]
    /\ overlapped = {}

\* What is remembered of a request that is over, for the properties: its
\* status, and the session that it began or ended.
Past(q) == [NotSent EXCEPT
    !.pc = "done", !.status = q.status,
    !.browser = IF q.status = "forbidden" THEN q.browser ELSE None,
    !.kind = IF q.kind \in {"login", "logout"} THEN q.kind ELSE "none",
    !.session = IF q.kind = "logout" THEN q.session ELSE None,
    !.now = IF q.kind = "login" THEN q.now ELSE 0]

InFlight(b) == {r \in Requests : web[r].browser = b /\ web[r].pc \notin {"idle", "done"}}

\* Request r is at pc and takes the values of next.
Step(r, pc, next) ==
    /\ web[r].pc = pc
    /\ web' = [web EXCEPT ![r] = next]
    /\ UNCHANGED <<installVars, clock, jar, form, overlapped>>

(***************************************************************************)
(* Browsers.                                                               *)
(***************************************************************************)

\* The cookies are those of the moment; a form carries the token it was
\* rendered with, HTMX reads the token from the cookie (base.html).
Send(r, b, kind) ==
    /\ web[r].pc = "idle"
    /\ \E p \in Processes : At(p, "serving")
    /\ kind \in {"button", "login", "logout"} => form[b] # None
    /\ web' = [web EXCEPT ![r] =
                 [@ EXCEPT !.pc = "session", !.kind = kind, !.browser = b,
                           !.session = jar[b].session, !.csrf = jar[b].csrf,
                           !.provided = IF kind = "button" THEN jar[b].csrf
                                        ELSE IF kind \in {"login", "logout"} THEN form[b]
                                        ELSE None,
                           !.sentAt = clock]]
    /\ overlapped' = IF InFlight(b) = {} THEN overlapped ELSE overlapped \cup {b}
    /\ UNCHANGED <<installVars, clock, sessions, jar, form>>

\* The answer arrives: its cookies are set, its page replaces the old one.
Receive(r) ==
    /\ web[r].pc = "answered"
    /\ LET b == web[r].browser
       IN  /\ jar' = [jar EXCEPT
                        ![b].session = IF web[r].setSession = "keep" THEN @
                                       ELSE web[r].setSession,
                        ![b].csrf = IF web[r].setCsrf = None THEN @ ELSE web[r].setCsrf]
           /\ form' = [form EXCEPT ![b] = IF web[r].shows = None THEN @ ELSE web[r].shows]
    /\ web' = [web EXCEPT ![r] = Past(@)]
    /\ UNCHANGED <<installVars, clock, sessions, overlapped>>

\* The connection breaks or the server is stopped, at any point.
Lose(r) ==
    /\ web[r].pc \notin {"idle", "done"}
    /\ web' = [web EXCEPT ![r] = Past(@)]
    /\ UNCHANGED <<installVars, clock, sessions, jar, form, overlapped>>

(***************************************************************************)
(* SessionMiddleware.                                                      *)
(***************************************************************************)
NoCookie(r) ==
    /\ web[r].session = None
    /\ Step(r, "session", [web[r] EXCEPT !.pc = "handler"])
    /\ UNCHANGED sessions

\* The time is read before the session.
ReadTime(r) ==
    /\ web[r].session # None
    /\ Step(r, "session", [web[r] EXCEPT !.pc = "lookup", !.now = clock])
    /\ UNCHANGED sessions

\* session.ExpiresAt <= now (mutant: <).
HasExpiredLate(r) == sessions[web[r].session].expires_at < web[r].now
HasExpired(r) == sessions[web[r].session].expires_at <= web[r].now

FindSession(r) ==
    /\ web[r].session \in DOMAIN sessions
    /\ ~HasExpired(r)
    /\ Step(r, "lookup", [web[r] EXCEPT !.pc = "handler", !.user = TRUE])
    /\ UNCHANGED sessions

FindExpired(r) ==
    /\ web[r].session \in DOMAIN sessions
    /\ HasExpired(r)
    /\ Step(r, "lookup", [web[r] EXCEPT !.pc = "delete"])
    /\ UNCHANGED sessions

Delete(token) ==
    sessions' = [t \in DOMAIN sessions \ {token} |-> sessions[t]]

\* No such session, or the database fails: the cookie is expired.
\* (Mutant: a failure ends the session as its expiry does.)
FindNothingDeletes(r) ==
    /\ Step(r, "lookup", [web[r] EXCEPT !.pc = "handler", !.setSession = None])
    /\ Delete(web[r].session)

FindNothing(r) ==
    /\ Step(r, "lookup", [web[r] EXCEPT !.pc = "handler", !.setSession = None])
    /\ UNCHANGED sessions

\* An error of the DELETE is not looked at.
DeleteExpired(r) ==
    /\ Step(r, "delete", [web[r] EXCEPT !.pc = "handler", !.setSession = None])
    /\ Delete(web[r].session) \/ UNCHANGED sessions

(***************************************************************************)
(* CSRFMiddleware and RequireUser.                                         *)
(***************************************************************************)

\* The token of the cookie, or a new one that the answer sets.
\* (Mutant: the page has the new token, but the cookie is not set.)
WithTokenUnset(r) ==
    IF web[r].csrf = None THEN [web[r] EXCEPT !.csrf = r] ELSE web[r]

WithToken(r) ==
    IF web[r].csrf = None THEN [web[r] EXCEPT !.csrf = r, !.setCsrf = r] ELSE web[r]

IsUnsafe(r) == web[r].kind \in {"button", "login", "logout"}

CSRFAccepts(r) == ~IsUnsafe(r) \/ web[r].provided = WithToken(r).csrf

NeedsUser(r) == web[r].kind \in {"page", "button", "logout"}

\* The handler of this kind of request is reached.
Reaches(r, kinds) ==
    /\ web[r].kind \in kinds
    /\ CSRFAccepts(r)
    /\ NeedsUser(r) => web[r].user

Answer(r, status) == [WithToken(r) EXCEPT !.pc = "answered", !.status = status]

RejectCSRF(r) ==
    /\ ~CSRFAccepts(r)
    /\ Step(r, "handler", Answer(r, "forbidden"))
    /\ UNCHANGED sessions

RedirectToLogin(r) ==
    /\ CSRFAccepts(r)
    /\ NeedsUser(r) /\ ~web[r].user
    /\ Step(r, "handler", Answer(r, "redirect"))
    /\ UNCHANGED sessions

(***************************************************************************)
(* The handlers.                                                           *)
(***************************************************************************)

\* A page is rendered with the token of the context in its forms.
ServePage(r) ==
    /\ Reaches(r, {"login form", "page"})
    /\ Step(r, "handler", [Answer(r, "ok") EXCEPT !.shows = WithToken(r).csrf])
    /\ UNCHANGED sessions

\* HandleIssueStatus answers with a row, which has no form.
ServeButton(r) ==
    /\ Reaches(r, {"button"})
    /\ Step(r, "handler", Answer(r, "ok"))
    /\ UNCHANGED sessions

\* A query or an UPDATE fails: 500, without a form.
ServeFails(r) ==
    /\ Reaches(r, {"page", "button"})
    /\ Step(r, "handler", Answer(r, "error"))
    /\ UNCHANGED sessions

\* GetUserByEmail and the password agree; then the time is read.
LoginAccepts(r) ==
    /\ Reaches(r, {"login"})
    /\ users # {}
    /\ Step(r, "handler", [web[r] EXCEPT !.pc = "create", !.now = clock])
    /\ UNCHANGED sessions

\* Unknown user, wrong password, or the database fails: the form again.
LoginRejects(r) ==
    /\ Reaches(r, {"login"})
    /\ \E status \in {"unauthorized", "error"} :
          Step(r, "handler", [Answer(r, status) EXCEPT !.shows = web[r].csrf])
    /\ UNCHANGED sessions

\* The row is inserted, read back and its token handed out.
CreateSession(r) ==
    /\ Step(r, "create", [Answer(r, "ok") EXCEPT !.setSession = r])
    /\ sessions' = [t \in DOMAIN sessions \cup {r} |->
                      IF t = r THEN [expires_at |-> web[r].now + TTL] ELSE sessions[t]]

\* The INSERT or the SELECT after it fails: 500, in the second case with a
\* row whose token nobody has.  (Mutant: the cookie is set all the same.)
CreateSessionFailsWithCookie(r) ==
    /\ Step(r, "create", [Answer(r, "error") EXCEPT !.shows = web[r].csrf, !.setSession = r])
    /\ UNCHANGED sessions

CreateSessionFails(r) ==
    /\ Step(r, "create", [Answer(r, "error") EXCEPT !.shows = web[r].csrf])
    /\ \/ UNCHANGED sessions
       \/ sessions' = [t \in DOMAIN sessions \cup {r} |->
                         IF t = r THEN [expires_at |-> web[r].now + TTL] ELSE sessions[t]]

\* The row of the cookie goes, then the cookie.
\* (Mutant: only the cookie goes.)
LogoutForgetsRow(r) ==
    /\ Reaches(r, {"logout"})
    /\ Step(r, "handler", [Answer(r, "ok") EXCEPT !.setSession = None])
    /\ UNCHANGED sessions

Logout(r) ==
    /\ Reaches(r, {"logout"})
    /\ Step(r, "handler", [Answer(r, "ok") EXCEPT !.setSession = None])
    /\ Delete(web[r].session)

\* The DELETE fails, or is done but its result lost: the cookie stays.
LogoutFails(r) ==
    /\ Reaches(r, {"logout"})
    /\ Step(r, "handler", Answer(r, "error"))
    /\ UNCHANGED sessions \/ Delete(web[r].session)

(***************************************************************************)
(* The whole.                                                              *)
(***************************************************************************)
Tick ==
    /\ clock < MaxClock
    /\ clock' = clock + 1
    /\ UNCHANGED <<installVars, sessions, jar, form, web, overlapped>>

\* A server that stops takes the requests in progress with it.
StopServing(p) ==
    /\ Stop(p)
    /\ At(p, "serving") => \A r \in Requests : web[r].pc \in {"idle", "answered", "done"}
    /\ UNCHANGED sessionVars

Serve(r) ==
    \/ NoCookie(r) \/ ReadTime(r) \/ FindSession(r) \/ FindExpired(r) \/ FindNothing(r)
    \/ DeleteExpired(r) \/ RejectCSRF(r) \/ RedirectToLogin(r)
    \/ ServePage(r) \/ ServeButton(r) \/ ServeFails(r)
    \/ LoginAccepts(r) \/ LoginRejects(r)
    \/ CreateSession(r) \/ CreateSessionFails(r) \/ Logout(r) \/ LogoutFails(r)

Quiet ==
    /\ \A r \in Requests : web[r].pc \in {"idle", "done"}
    /\ \A p \in Processes : proc[p].pc \in {"serving", "done"}
    /\ UNCHANGED vars

Next ==
    \/ \E p \in Processes : (ProcessStep(p) /\ UNCHANGED sessionVars) \/ StopServing(p)
    \/ \E r \in Requests :
          \/ Serve(r) \/ Receive(r) \/ Lose(r)
          \/ \E b \in Browsers, kind \in Kinds : Send(r, b, kind)
    \/ Tick
    \/ Quiet

Spec == Init /\ [][Next]_vars

(***************************************************************************)
(* Properties.                                                             *)
(***************************************************************************)

\* Tokens whose logout was answered with success.
LoggedOut ==
    {web[r].session : r \in {q \in Requests : web[q].kind = "logout" /\ web[q].status = "ok"}}

\* Request r gets a user from its session in this step.
IsServedNow(r) == ~web[r].user /\ web'[r].user

\* A session that was logged out authenticates no request that looks it up
\* afterwards, even one sent with the cookie before the logout.
LoggedOutStaysOut ==
    [][\A r \in Requests : IsServedNow(r) => web[r].session \notin LoggedOut]_vars

\* A request is only served under a session whose lifetime, counted from
\* the login, had not run out when the browser sent it, however long the
\* lookup takes.
NotServedAfterExpiry ==
    [][\A r \in Requests :
          IsServedNow(r) => web[r].sentAt < web[web[r].session].now + TTL]_vars

\* A session ends through its own logout, even one that is answered with an
\* error, or at the end of its lifetime, and for no other reason: not when a
\* lookup fails, an answer is lost or another browser logs in or out.
SessionsEndForAReason ==
    [][\A t \in DOMAIN sessions \ DOMAIN sessions' :
          \/ sessions[t].expires_at <= clock
          \/ \E r \in Requests :
                /\ web[r].kind = "logout" /\ web[r].session = t
                /\ web'[r].status \in {"ok", "error"}]_vars

\* Tokens of which a logout reached the DELETE, whatever came of it.
LogoutTried ==
    {web[r].session : r \in {q \in Requests :
        web[q].kind = "logout" /\ web[q].status \in {"ok", "error"}}}

\* A browser's session cookie has a row behind it, until a logout of that
\* session was tried or it has outlived its time.
CookiesAreBacked ==
    \A b \in Browsers :
        LET t == jar[b].session
        IN  t # None => \/ t \in DOMAIN sessions \cup LogoutTried
                        \/ web[t].now + TTL <= clock

\* A browser that waits for one answer before the next request never has a
\* form or button refused: 403 takes two first requests that overlapped and
\* were given different CSRF cookies.
SequentialBrowsersAreNotForbidden ==
    \A r \in Requests : web[r].status = "forbidden" => web[r].browser \in overlapped
=============================================================================
