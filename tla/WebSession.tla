------------------------------ MODULE WebSession ------------------------------
(***************************************************************************)
(* The session of the web console: web/src/stores/auth.js with the         *)
(* interceptors of web/src/api/index.js and the guard of                   *)
(* web/src/router/index.js. The browser runs one thing at a time, but      *)
(* every request is an await: its answer finds the session as whatever     *)
(* came in between has left it. The store and localStorage are written     *)
(* together, so one variable stands for both.                              *)
(***************************************************************************)
EXTENDS Integers, FiniteSets

CONSTANTS
    Tokens,         \* the tokens that logins return
    NoToken,
    MaxEvents       \* bound: logouts, reloads, revocations and network errors

SessionAssumption == IsFiniteSet(Tokens) /\ NoToken \notin Tokens /\ MaxEvents \in Nat

VARIABLES
    token,          \* the token of the store, and of localStorage
    isAuthenticated,
    user,           \* the token whose owner is shown
    checking,       \* tokenCheckTimer is armed
    authErrorFlag,
    page,           \* "login", or "app" for any page behind the guard
    calls,          \* requests on their way, with the server's reply once there is one
    issued, valid,  \* the server: tokens it gave out, and those it accepts
    events          \* history

webVars == <<token, isAuthenticated, user, checking, authErrorFlag, page, calls, issued, valid, events>>
session == <<token, isAuthenticated, user>>
server  == <<issued, valid>>

\* "page" is any other request of a page.
Kinds == {"login", "logout", "info", "check", "page"}
Call  == [kind : Kinds, with : Tokens \cup {NoToken}, reply : {"none", "ok", "401", "error"}]

TypeOK ==
    /\ token \in Tokens \cup {NoToken} /\ isAuthenticated \in BOOLEAN
    /\ user \in Tokens \cup {NoToken}
    /\ checking \in BOOLEAN /\ authErrorFlag \in BOOLEAN /\ page \in {"login", "app"}
    /\ calls \subseteq Call
    /\ issued \subseteq Tokens /\ valid \subseteq issued
    /\ events \in 0..MaxEvents

Init ==
    /\ token = NoToken /\ isAuthenticated = FALSE /\ user = NoToken
    /\ checking = FALSE /\ authErrorFlag = FALSE /\ page = "login"
    /\ calls = {} /\ issued = {} /\ valid = {} /\ events = 0

Event == events < MaxEvents /\ events' = events + 1
Request(kind) == [kind |-> kind, with |-> token, reply |-> "none"]
Sends(kind) == calls' = calls \cup {Request(kind)}
Answered(c) == c.reply # "none" /\ calls' = calls \ {c}

Pending(kind) == \E c \in calls : c.kind = kind

ClearSession == token' = NoToken /\ isAuthenticated' = FALSE /\ user' = NoToken

\* handleAuthError: a second one within three seconds is ignored.
HandleAuthError ==
    IF authErrorFlag THEN UNCHANGED <<session, checking, authErrorFlag, page>>
    ELSE ClearSession /\ checking' = FALSE /\ authErrorFlag' = TRUE /\ page' = "login"

Reply(c, d) == calls' = (calls \ {c}) \cup {d}

\* A login is answered by a new token.
ServeLogin(c) ==
    /\ c.kind = "login"
    /\ \E t \in Tokens \ issued :
        /\ Reply(c, [c EXCEPT !.reply = "ok", !.with = t])
        /\ issued' = issued \cup {t} /\ valid' = valid \cup {t}

\* The route of a logout is outside of JWTAuth, and its handler ends no token.
ServeLogout(c) ==
    /\ c.kind = "logout" /\ Reply(c, [c EXCEPT !.reply = "ok"])
    /\ UNCHANGED server

\* JWTAuth lets the other requests pass, or refuses their token.
ServeGuarded(c) ==
    /\ c.kind \notin {"login", "logout"}
    /\ Reply(c, [c EXCEPT !.reply = IF c.with \in valid THEN "ok" ELSE "401"])
    /\ UNCHANGED server

\* Any other answer: a wrong password, a failing server, a timeout.
Fails(c) == Reply(c, [c EXCEPT !.reply = "error"]) /\ UNCHANGED server

Serve(c) ==
    /\ c.reply = "none"
    /\ \/ (ServeLogin(c) \/ ServeLogout(c) \/ ServeGuarded(c)) /\ UNCHANGED events
       \/ Fails(c) /\ Event
    /\ UNCHANGED <<session, checking, authErrorFlag, page>>

\* Mutant: the timer that clears the flag is not set.
FlagStays == FALSE /\ UNCHANGED webVars

FlagClears ==
    /\ authErrorFlag /\ authErrorFlag' = FALSE
    /\ UNCHANGED <<session, checking, page, calls, server, events>>

-----------------------------------------------------------------------------
(* login and logout                                                         *)

Login ==
    /\ page = "login" /\ ~Pending("login")
    /\ Sends("login")
    /\ UNCHANGED <<session, checking, authErrorFlag, page, server, events>>

LoginAnswer(c) ==
    /\ c.kind = "login" /\ Answered(c)
    /\ IF c.reply = "ok"
       THEN /\ token' = c.with /\ isAuthenticated' = TRUE /\ user' = c.with
            /\ checking' = TRUE /\ page' = "app"
       ELSE UNCHANGED <<session, checking, page>>
    /\ UNCHANGED <<authErrorFlag, server, events>>

\* The guard of the router, for a page of the application.
Guard == page' = (IF isAuthenticated THEN "app" ELSE "login")

Navigate ==
    /\ page = "app" /\ Guard
    /\ UNCHANGED <<session, checking, authErrorFlag, calls, server, events>>

\* The menu does not wait for logout: the store is still authenticated when the guard
\* sees the way to /login, and it leads back to the application.
Logout ==
    /\ page = "app" /\ Event
    /\ checking' = FALSE
    /\ Sends("logout")
    /\ Guard
    /\ UNCHANGED <<session, authErrorFlag, server>>

\* Whatever the answer is, and whatever session there is by now, it is cleared.
LogoutAnswer(c) ==
    /\ c.kind = "logout" /\ Answered(c)
    /\ ClearSession
    /\ UNCHANGED <<checking, authErrorFlag, page, server, events>>

-----------------------------------------------------------------------------
(* initAuth, fetchUserInfo, checkToken, and the requests of pages.          *)

\* The page is loaded again: requests on their way are forgotten.
Reload ==
    /\ Event
    /\ isAuthenticated' = (token # NoToken) /\ user' = NoToken
    /\ checking' = FALSE /\ authErrorFlag' = FALSE
    /\ page' = IF token # NoToken THEN "app" ELSE "login"
    /\ calls' = IF token # NoToken THEN {Request("info")} ELSE {}
    /\ UNCHANGED <<token, server>>

\* startTokenCheck at the end of initAuth.
StartsCheck(c) == token' # NoToken

\* fetchUserInfo: an answer of the server makes the session authenticated, an error
\* of the network ends it as well as a refusal.
InfoAnswer(c) ==
    /\ c.kind = "info" /\ Answered(c)
    /\ IF c.reply = "ok"
       THEN user' = c.with /\ isAuthenticated' = TRUE /\ UNCHANGED <<token, authErrorFlag, page>>
       ELSE /\ ClearSession
            /\ IF c.reply = "401" /\ ~authErrorFlag
               THEN authErrorFlag' = TRUE /\ page' = "login"
               ELSE UNCHANGED <<authErrorFlag, page>>
    /\ checking' = StartsCheck(c)
    /\ UNCHANGED <<server, events>>

Check ==
    /\ checking /\ token # NoToken
    /\ ~Pending("check")
    /\ Sends("check")
    /\ UNCHANGED <<session, checking, authErrorFlag, page, server, events>>

\* Another request of a page; one at a time is enough.
Load ==
    /\ page = "app" /\ ~Pending("page") /\ Sends("page")
    /\ UNCHANGED <<session, checking, authErrorFlag, page, server, events>>

Answer(c) ==
    /\ c.kind \in {"check", "page"} /\ Answered(c)
    /\ IF c.reply = "401" THEN HandleAuthError
       ELSE UNCHANGED <<session, checking, authErrorFlag, page>>
    /\ UNCHANGED <<server, events>>

\* The token expires, or the account is locked or given a new token_version (a new
\* password).
Revoke(t) ==
    /\ t \in valid /\ Event
    /\ valid' = valid \ {t}
    /\ UNCHANGED <<session, checking, authErrorFlag, page, calls, issued>>

AnyAnswer(c) == c \in calls /\ (Serve(c) \/ LoginAnswer(c) \/ LogoutAnswer(c) \/ InfoAnswer(c) \/ Answer(c))

Next ==
    \/ Login \/ Logout \/ Navigate \/ Reload \/ Check \/ Load \/ FlagClears
    \/ \E c \in calls : AnyAnswer(c)
    \/ \E t \in valid : Revoke(t)

Spec == Init /\ [][Next]_webVars

(* Timers fire, and requests are answered, be it by their timeout.          *)
Fairness ==
    /\ WF_webVars(Check) /\ WF_webVars(FlagClears)
    /\ \A c \in Call : WF_webVars(AnyAnswer(c))

FairSpec == Spec /\ Fairness

-----------------------------------------------------------------------------
(* Properties.                                                              *)

\* checkToken and handleAuthError (auth.js:135, 151): a session the server has ended
\* ends in the console too, although a refusal right after another is ignored.
RevokedSessionEnds == \A t \in Tokens :
    (token = t /\ t \notin valid) ~> token # t

\* Refuted by TLC: the server goes on accepting a token after its session was logged out.
LogoutRevokes == \A t \in valid : t = token \/ \E c \in calls : c.with = t

\* Refuted by TLC: after the menu's logout the application stays on the screen.
LoggedOutSeesLogin == token = NoToken => page = "login" \/ Pending("page")

\* Refuted by TLC: the answer to a request of an earlier session shows its user, and
\* makes the console authenticated without a token.
UserIsOfSession == user # NoToken => user = token
=============================================================================
