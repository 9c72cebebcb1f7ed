----------------------------- MODULE WebSession -----------------------------
(***************************************************************************)
(* The browser's side of a session, composed with the server's side in     *)
(* RefreshTokens:                                                          *)
(*   web/src/app/core/auth/auth.service.ts, auth.interceptor.ts            *)
(*   api/src/app/common/interceptors/refresh-token-cookie.interceptor.ts   *)
(*   api/src/app/common/middlewares/jwt.middleware.ts                      *)
(*                                                                         *)
(* The tabs of a browser share its local storage (access token and the     *)
(* flag hasRefreshSession) and its cookies; the refresh in progress is a   *)
(* tab's own, and a tab forgets it with the first of its waiting calls to  *)
(* go: finalize stands after shareReplay, so a call that is cancelled      *)
(* clears it while the POST is still on its way.  As in production the     *)
(* refresh token travels in the HttpOnly cookie only.  An access token is  *)
(* named by the refresh token it came with.  Days do not pass here (no     *)
(* DayPasses): token lifetimes are RefreshTokens' concern.                 *)
(***************************************************************************)
EXTENDS RefreshTokens, FiniteSets

CONSTANTS
  Tabs,   \* tabs of the browser
  Calls,  \* HTTP calls the tabs make besides login and refresh
  Posts,  \* POSTs of /auth/refresh on their way; a slot is reused
  Nobody  \* the browser no longer waits for the answer

ASSUME BrowserAssumption ==
  /\ Nobody \notin Tabs \cup Calls \cup Posts
  /\ Tabs \cap Calls = {} /\ Tabs \cap Posts = {} /\ Calls \cap Posts = {}

VARIABLES
  jar,       \* the refresh cookie
  access,    \* accessToken in local storage
  signedIn,  \* hasRefreshSession in local storage
  dead,      \* access tokens that have expired
  jwt,       \* session an access token names
  call,      \* each call: where it is, its tab, what it is, its bearer token,
             \* the POST it waits for
  current,   \* _refreshTokenInProgress of each tab
  asked,     \* how far each POST is
  from,      \* tab that sent it
  with,      \* cookie it was sent with
  serves,    \* tab, call or POST a request is the server's work for
  calm       \* history: nothing listed at Calm has happened yet

storage     == <<jar, access, signedIn, jwt>>
postVars    == <<current, asked, from, with>>
browserVars == <<storage, dead, call, postVars, serves>>
webVars     == <<vars, browserVars, calm>>

CallOf(where, t, what, token) ==
  [at |-> where, tab |-> t, kind |-> what, token |-> token, post |-> Nobody]
NoCall == CallOf("idle", Nobody, "none", NoToken)
CallStates ==
  {NoCall} \cup [at : {"sent", "waiting", "retried"}, tab : Tabs,
                 kind : {"api", "logout"}, token : Tokens \cup {NoToken},
                 post : Posts \cup {Nobody}]

Waiting(p)     == {c \in Calls : call[c].at = "waiting" /\ call[c].post = p}
Outstanding(c) == call[c].at \in {"sent", "retried"} /\ \A r \in Requests : serves[r] # c
Settled == /\ \A r \in Requests : pc[r] = "idle"
           /\ \A p \in Posts : asked[p] = "no"
           /\ \A c \in Calls : call[c] = NoCall

BrowserTypeOK ==
  /\ {jar, access} \subseteq known \cup {NoToken} /\ signedIn \in BOOLEAN
  /\ dead \subseteq known /\ calm \in BOOLEAN
  /\ jwt \in [Tokens -> Sessions \cup {0}]
  /\ call \in [Calls -> CallStates]
  /\ current \in [Tabs -> Posts \cup {Nobody}]
  /\ asked \in [Posts -> {"no", "sent", "served"}]
  /\ from \in [Posts -> Tabs \cup {Nobody}]
  /\ with \in [Posts -> known \cup {NoToken}]
  /\ serves \in [Requests -> Tabs \cup Calls \cup Posts \cup {Nobody}]

\* A call waits for a POST that is on its way and that its own tab has sent, and
\* so does some call for the POST a tab regards as in progress.
Awaited ==
  /\ \A p \in Posts :
       asked[p] = "served" <=> \E r \in Requests : serves[r] = p /\ flow[r] = "refresh"
  /\ \A c \in Calls : call[c].at = "waiting" =>
       \E p \in Posts : call[c].post = p /\ asked[p] # "no" /\ from[p] = call[c].tab
  /\ \A t \in Tabs : current[t] # Nobody =>
       \E c \in Waiting(current[t]) : call[c].tab = t

\* Besides types: nobody waits for an answer that cannot come any more, and the
\* server works for the POSTs that have reached it.
WebTypeOK == TypeOK /\ BrowserTypeOK /\ Awaited

WebInit ==
  /\ Init
  /\ jar = NoToken /\ access = NoToken /\ signedIn = FALSE /\ dead = {}
  /\ jwt = [k \in Tokens |-> 0]
  /\ call = [c \in Calls |-> NoCall]
  /\ current = [t \in Tabs |-> Nobody]
  /\ asked = [p \in Posts |-> "no"]
  /\ from = [p \in Posts |-> Nobody]
  /\ with = [p \in Posts |-> NoToken]
  /\ serves = [r \in Requests |-> Nobody]
  /\ calm = TRUE

-----------------------------------------------------------------------------
(***************************************************************************)
(* Calm: what is assumed of the network and of the user by the properties  *)
(* that say so.  These are the things that can cost a browser its session: *)
(* an answer is lost or a statement fails, a page goes away while the      *)
(* server works for it, two refreshes overlap (of two tabs, or of one in   *)
(* which a waiting call was cancelled), the user signs in or out while     *)
(* something else is on its way, a replayed call fails.                    *)
(***************************************************************************)
Stays    == UNCHANGED calm
CalmIf(condition) == calm' = (calm /\ condition)

NothingRuns == \A r \in Requests : pc[r] = "idle"
NoRefresh   == \A p \in Posts : asked[p] = "no"
NoLogout    == \A c \in Calls : call[c].kind # "logout"

-----------------------------------------------------------------------------
\* The interceptor attaches the stored access token unless it has expired.
Attached == IF access \in dead THEN NoToken ELSE access

\* signOut, asked for by call c or for its sake: the logout is posted if there
\* is an access token, and nobody waits for it before the storage is cleared.
SignOutFor(c, t) ==
  /\ call' = [call EXCEPT ![c] =
                IF access = NoToken THEN NoCall ELSE CallOf("sent", t, "logout", Attached)]
  /\ access' = NoToken /\ signedIn' = FALSE
  /\ UNCHANGED <<jar, jwt, dead, postVars>>

\* The user signs in on the sign-in page, which NoAuthGuard shows without a token.
SignIn(t, r) ==
  /\ access = NoToken /\ \A q \in Requests : serves[q] # t
  /\ \E d \in Devices : StartLogin(r, d)
  /\ serves' = [serves EXCEPT ![r] = t]
  /\ CalmIf(NothingRuns /\ NoLogout)
  /\ UNCHANGED <<storage, dead, call, postVars>>

SignOut(t, c) ==
  /\ access # NoToken /\ call[c] = NoCall
  /\ SignOutFor(c, t)
  /\ CalmIf(NoRefresh)
  /\ UNCHANGED <<vars, serves>>

\* A page calls the API; AuthGuard shows pages only with a token in storage.
CallApi(t, c) ==
  /\ access # NoToken /\ call[c] = NoCall
  /\ call' = [call EXCEPT ![c] = CallOf("sent", t, "api", Attached)]
  /\ Stays
  /\ UNCHANGED <<vars, storage, dead, postVars, serves>>

\* An access token in use expires.
Expire(k) ==
  /\ k \in known \ dead /\ (k = access \/ \E c \in Calls : call[c].token = k)
  /\ dead' = dead \cup {k}
  /\ Stays
  /\ UNCHANGED <<vars, storage, call, postVars, serves>>

\* The POSTs in P are over.
Forget(P) ==
  /\ asked' = [p \in Posts |-> IF p \in P THEN "no" ELSE asked[p]]
  /\ from'  = [p \in Posts |-> IF p \in P THEN Nobody ELSE from[p]]
  /\ with'  = [p \in Posts |-> IF p \in P THEN NoToken ELSE with[p]]

\* refreshAccessToken's finalize, for each of the calls C that stop waiting: the
\* tab has no refresh in progress, whichever of its POSTs C was waiting for.
Finalize(C) ==
  current' = [t \in Tabs |-> IF \E c \in C : call[c].tab = t THEN Nobody ELSE current[t]]

\* A page drops its call, as takeUntil does when a component is destroyed.
Cancel(c) ==
  /\ call[c].kind = "api"
  /\ call' = [call EXCEPT ![c] = NoCall]
  /\ \/ call[c].at = "waiting" /\ Finalize({c})
     \/ call[c].at # "waiting" /\ UNCHANGED current
  /\ Stays
  /\ UNCHANGED <<vars, storage, dead, asked, from, with, serves>>

\* The page is reloaded or closed: the tab's calls are gone, what the server
\* does for them goes on and its answers, cookies included, reach nobody.
Reload(t) ==
  /\ call' = [c \in Calls |-> IF call[c].tab = t THEN NoCall ELSE call[c]]
  /\ Forget({p \in Posts : from[p] = t})
  /\ current' = [current EXCEPT ![t] = Nobody]
  /\ LET mine == {t} \cup {c \in Calls : call[c].tab = t} \cup {p \in Posts : from[p] = t}
     IN  serves' = [r \in Requests |-> IF serves[r] \in mine THEN Nobody ELSE serves[r]]
  /\ CalmIf(serves' = serves /\ call' = call /\ asked' = asked)
  /\ UNCHANGED <<vars, storage, dead>>

-----------------------------------------------------------------------------
Authorized(c) == call[c].token # NoToken /\ call[c].token \notin dead

\* The API answers a call, with data or with an error other than 401.
Answered(c) ==
  /\ Outstanding(c) /\ call[c].kind = "api" /\ Authorized(c)
  /\ call' = [call EXCEPT ![c] = NoCall]
  /\ Stays
  /\ UNCHANGED <<vars, storage, dead, postVars, serves>>

\* The replayed call fails, with whatever error: catchError signs out.
RetryFails(c) ==
  /\ Outstanding(c) /\ call[c].at = "retried"
  /\ SignOutFor(c, call[c].tab)
  /\ CalmIf(FALSE)
  /\ UNCHANGED <<vars, serves>>

\* Fault: the interceptor gives up at the first 401.
GiveUp(c) == SignOutFor(c, call[c].tab)

\* refreshAccessToken: the tab's refresh in progress is joined, or one is sent.
WaitFor(c, p) == call' = [call EXCEPT ![c].at = "waiting", ![c].post = p]
JoinRefresh(c) ==
  LET t == call[c].tab
  IN  /\ \/ current[t] # Nobody /\ WaitFor(c, current[t]) /\ UNCHANGED postVars
         \/ \E p \in Posts :
              /\ current[t] = Nobody /\ asked[p] = "no"
              /\ WaitFor(c, p)
              /\ current' = [current EXCEPT ![t] = p]
              /\ asked' = [asked EXCEPT ![p] = "sent"]
              /\ from' = [from EXCEPT ![p] = t]
              /\ with' = [with EXCEPT ![p] = jar]
      /\ UNCHANGED <<storage, dead>>

\* A 401 reaches the interceptor: one refresh and replay, else out.
Replayable(c) == call[c].at = "sent" /\ signedIn
Unauthorized(c) ==
  \/ Replayable(c) /\ JoinRefresh(c)
  \/ ~Replayable(c) /\ SignOutFor(c, call[c].tab)

\* JwtMiddleware, or logout's own test: the bearer token is missing or expired.
Refused(c) ==
  /\ Outstanding(c) /\ ~Authorized(c)
  /\ Unauthorized(c)
  /\ CalmIf(/\ call[c].at = "sent"
            /\ Replayable(c) => NoRefresh \/ current[call[c].tab] # Nobody)
  /\ UNCHANGED <<vars, serves>>

ServeLogout(c, r) ==
  /\ Outstanding(c) /\ call[c].kind = "logout" /\ Authorized(c)
  /\ StartLogout(r, jwt[call[c].token])
  /\ serves' = [serves EXCEPT ![r] = c]
  /\ Stays
  /\ UNCHANGED <<storage, dead, call, postVars>>

ServeRefresh(p, r) ==
  /\ asked[p] = "sent"
  /\ ReadToken(r, with[p])
  /\ serves' = [serves EXCEPT ![r] = p]
  /\ asked' = [asked EXCEPT ![p] = "served"]
  /\ Stays
  /\ UNCHANGED <<storage, dead, call, current, from, with>>

-----------------------------------------------------------------------------
(***************************************************************************)
(* The answers of the server.                                              *)
(***************************************************************************)
\* Fault: those who joined the refresh are not told that it failed.
RefreshFailsQuietly(p) ==
  /\ access' = NoToken /\ signedIn' = FALSE
  /\ Forget({p}) /\ Finalize(Waiting(p))
  /\ UNCHANGED <<jar, jwt, dead, call>>

\* refreshAccessToken's catchError, then the interceptor's for every waiter:
\* the access token is gone by then, so none of them posts a logout.
RefreshFails(p) ==
  /\ access' = NoToken /\ signedIn' = FALSE
  /\ Forget({p}) /\ Finalize(Waiting(p))
  /\ call' = [c \in Calls |-> IF c \in Waiting(p) THEN NoCall ELSE call[c]]
  /\ UNCHANGED <<jar, jwt, dead>>

\* The refresh was sent without a cookie: there is nothing to rotate.
RefuseRefresh(p) ==
  /\ asked[p] = "sent" /\ with[p] = NoToken
  /\ RefreshFails(p)
  /\ Stays
  /\ UNCHANGED <<vars, serves>>

\* Statements after which the handler goes on.
Works(r) == Step(r) /\ pc'[r] # "idle" /\ Stays /\ UNCHANGED browserVars

Unserved(r) == serves' = [serves EXCEPT ![r] = Nobody]

\* Fault: the answer of a refresh does not set the cookie.
StoreTokensKeepCookie(r) ==
  /\ jar' = IF flow[r] = "login" THEN next[r] ELSE jar
  /\ access' = next[r] /\ signedIn' = TRUE
  /\ jwt' = [jwt EXCEPT ![next[r]] = sess[r]]

\* Cookie interceptor, setters of accessToken and hasRefreshSession.
StoreTokens(r) ==
  /\ jar' = next[r] /\ access' = next[r] /\ signedIn' = TRUE
  /\ jwt' = [jwt EXCEPT ![next[r]] = sess[r]]

\* The answer to a login or a refresh; whoever still waits for it is replayed.
Arrives(r) ==
  /\ Respond(r)
  /\ \/ serves[r] = Nobody /\ UNCHANGED <<storage, call, postVars>>
     \/ /\ serves[r] # Nobody /\ flow[r] = "login"
        /\ StoreTokens(r) /\ UNCHANGED <<call, postVars>>
     \/ /\ serves[r] # Nobody /\ flow[r] = "refresh"
        /\ StoreTokens(r)
        /\ Forget({serves[r]}) /\ Finalize(Waiting(serves[r]))
        /\ call' = [c \in Calls |->
                      IF c \in Waiting(serves[r])
                      THEN CallOf("retried", call[c].tab, call[c].kind, next[r])
                      ELSE call[c]]
  /\ Unserved(r) /\ Stays /\ UNCHANGED dead

\* revokeFamily is done: the refresh is answered with 401.
Rebuffed(r) ==
  /\ CutTokens(r) \/ CutSession(r)
  /\ pc'[r] = "idle"
  /\ \/ serves[r] = Nobody /\ UNCHANGED <<storage, dead, call, postVars>>
     \/ serves[r] # Nobody /\ RefreshFails(serves[r])
  /\ Unserved(r) /\ Stays

\* The logout is answered, which clears the cookie.
LoggedOut(r) ==
  /\ LogoutDevice(r)
  /\ \/ serves[r] = Nobody /\ UNCHANGED <<jar, call>>
     \/ /\ serves[r] # Nobody
        /\ jar' = NoToken
        /\ call' = [call EXCEPT ![serves[r]] = NoCall]
  /\ Unserved(r) /\ Stays
  /\ UNCHANGED <<access, signedIn, jwt, dead, postVars>>

\* A statement fails or the answer is lost.  refreshToken and logout turn
\* every failure into a 401; a logout that is lost altogether is forgotten.
Breaks(r) ==
  /\ Abort(r)
  /\ \/ /\ serves[r] = Nobody \/ flow[r] = "login"
        /\ UNCHANGED <<storage, dead, call, postVars>>
     \/ serves[r] # Nobody /\ flow[r] = "refresh" /\ RefreshFails(serves[r])
     \/ serves[r] # Nobody /\ flow[r] = "logout" /\ Unauthorized(serves[r])
     \/ /\ serves[r] # Nobody /\ flow[r] = "logout" /\ call[serves[r]].at = "sent"
        /\ call' = [call EXCEPT ![serves[r]] = NoCall]
        /\ UNCHANGED <<storage, dead, postVars>>
  /\ Unserved(r) /\ CalmIf(FALSE)

WebNext ==
  \/ \E t \in Tabs :
       \/ \E r \in Requests : SignIn(t, r)
       \/ \E c \in Calls : SignOut(t, c) \/ CallApi(t, c)
       \/ Reload(t)
  \/ \E p \in Posts : RefuseRefresh(p) \/ \E r \in Requests : ServeRefresh(p, r)
  \/ \E c \in Calls :
       \/ Answered(c) \/ RetryFails(c) \/ Refused(c) \/ Cancel(c)
       \/ \E r \in Requests : ServeLogout(c, r)
  \/ \E r \in Requests : Works(r) \/ Arrives(r) \/ Rebuffed(r) \/ LoggedOut(r) \/ Breaks(r)
  \/ \E k \in Tokens : Expire(k)

WebSpec == WebInit /\ [][WebNext]_webVars

-----------------------------------------------------------------------------
(***************************************************************************)
(* Properties                                                              *)
(***************************************************************************)

\* As long as its refreshes do not overlap, and with the rest of Calm, a browser
\* is never taken for a thief: no refresh it sends, from any of its tabs, meets
\* the reuse detection of the server.
NeverRebuffed == calm => \A r \in Requests : pc[r] # "cut"

\* The cookie of a calm, settled browser that is signed in is a token the next
\* refresh will be accepted with.
CookieIsLive == calm /\ Settled /\ signedIn => Live(jar) /\ ses[jar] \in active

\* In calm a browser stays signed in until its user signs out, however many
\* calls of however many tabs meet an expired access token, and whichever of
\* them are cancelled, provided that no refresh starts during another.
SignedInUntilSignOut ==
  [][signedIn /\ ~signedIn' /\ calm' => \E t \in Tabs, c \in Calls : SignOut(t, c)]_webVars

\* auth.service.ts, on refreshAccessToken: "Concurrent callers share a single
\* in-flight request instead of firing one each."
SharedRefresh ==
  \A b, c \in Calls :
    call[b].at = "waiting" /\ call[c].at = "waiting" /\ call[b].tab = call[c].tab
      => call[b].post = call[c].post

\* docs/device-tracking.md: "Session deactivation during logout."  Once a calm
\* browser is signed out and settled, its device has no active session.
SignOutClosesSession == calm /\ Settled /\ ~signedIn => active = {}

=============================================================================
