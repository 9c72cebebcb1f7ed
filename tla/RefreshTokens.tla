---------------------------- MODULE RefreshTokens ----------------------------
(***************************************************************************)
(* The refresh-token table, the session table and the HTTP requests that   *)
(* use them, for one account:                                              *)
(*   api/src/app/shared/auth/refresh-token.service.ts                      *)
(*   api/src/app/shared/device/device-tracking.service.ts                  *)
(*   the login, refresh and logout handlers of username.service.ts         *)
(*                                                                         *)
(* A handler is a chain of awaited SQL statements without a transaction.   *)
(* Each statement is one action, so the statements of concurrent requests  *)
(* (of one API process, or of several behind the load balancer) interleave *)
(* as they do on the database.                                             *)
(*                                                                         *)
(* A refresh with a JWT of an earlier release is migrated by touchActivity *)
(* and issue, the statements of a login, and is a StartLogin here.         *)
(*                                                                         *)
(* The columns active_role_id and active_organization_id, the device       *)
(* metadata and the login history are left out.  A session's is_active and *)
(* logged_out_at are always written together and are one set here.         *)
(***************************************************************************)
EXTENDS Naturals

CONSTANTS
  Tokens,      \* identities of the rows user_refresh_token may ever hold
  Requests,    \* request executions; a slot is reused when it is answered
  Devices,     \* devices of the account
  MaxSession,  \* bound: ids of the rows user_session may ever hold
  MaxClock,    \* bound: days that may pass
  AbsLife,     \* REFRESH_TOKEN_ABSOLUTE_DAYS
  IdleLife,    \* REFRESH_TOKEN_IDLE_DAYS
  NoToken,
  NoDevice

ASSUME LifeAssumption ==
  /\ MaxSession \in Nat \ {0} /\ MaxClock \in Nat
  /\ AbsLife \in Nat \ {0} /\ IdleLife \in Nat \ {0}
ASSUME NoneAssumption == NoToken \notin Tokens /\ NoDevice \notin Devices

VARIABLES
  rows,     \* tokens inserted into user_refresh_token
  fam,      \* family_id, as the token that started the family
  ses,      \* user_session_id
  expires,  \* expires_at
  idle,     \* idle_expires_at
  used,     \* tokens with used_at set
  revoked,  \* tokens with revoked_at set
  dev,      \* user_device_id of each session row, NoDevice when not inserted
  active,   \* sessions with is_active set and logged_out_at null
  clock,    \* the current day
  known,    \* tokens a client has received
  jwts,     \* sessions named by an access token a client has received
  pc,       \* next statement of each request
  flow,     \* what the request is
  held,     \* token row the request has read, or minted at login
  next,     \* token the request will answer with
  sess,     \* session row the request works on, 0 for none
  at,       \* device of the request
  now,      \* the request's own `now`
  todo      \* statements of a Promise.all that have not run yet

tokenVars   == <<rows, fam, ses, expires, idle>>
sessionVars == <<dev, active>>
clientVars  == <<known, jwts>>
localVars   == <<flow, held, next, sess, at, now, todo>>
vars == <<tokenVars, used, revoked, sessionVars, clock, clientVars, pc, localVars>>

Sessions == 1 .. MaxSession
Labels == {"idle", "find", "upsert", "retire", "first", "respond",
           "consume", "mint", "cut", "logout", "device"}

-----------------------------------------------------------------------------
Live(t)      == t \in rows /\ t \notin used /\ t \notin revoked
Family(f)    == {t \in rows : fam[t] = f}
Minting(r)   == pc[r] = "mint"
Inserted     == {s \in Sessions : dev[s] # NoDevice}
OnDevice(d)  == {s \in Inserted : dev[s] = d}
Lesser(a, b) == IF a <= b THEN a ELSE b
IdleEnd(end, t0) == Lesser(end, t0 + IdleLife)

StoreTypeOK ==
  /\ rows \subseteq Tokens /\ used \subseteq rows /\ revoked \subseteq rows
  /\ known \subseteq rows
  /\ fam \in [Tokens -> Tokens]
  /\ ses \in [Tokens -> Sessions \cup {0}]
  /\ expires \in [Tokens -> Nat] /\ idle \in [Tokens -> Nat]
  /\ dev \in [Sessions -> Devices \cup {NoDevice}]
  /\ active \subseteq Sessions /\ jwts \subseteq Sessions
  /\ clock \in 0 .. MaxClock

RequestTypeOK ==
  /\ pc \in [Requests -> Labels]
  /\ flow \in [Requests -> {"none", "login", "refresh", "logout"}]
  /\ held \in [Requests -> Tokens \cup {NoToken}]
  /\ next \in [Requests -> Tokens \cup {NoToken}]
  /\ sess \in [Requests -> Sessions \cup {0}]
  /\ at \in [Requests -> Devices \cup {NoDevice}]
  /\ now \in [Requests -> Nat]
  /\ todo \in [Requests -> SUBSET {"tokens", "session"}]

\* Every row, session and local variable of a request is what the statements
\* that use it expect: in particular a client only ever receives stored tokens.
TypeOK == StoreTypeOK /\ RequestTypeOK

Init ==
  /\ rows = {} /\ used = {} /\ revoked = {} /\ known = {} /\ jwts = {}
  /\ fam = [t \in Tokens |-> t]
  /\ ses = [t \in Tokens |-> 0]
  /\ expires = [t \in Tokens |-> 0] /\ idle = [t \in Tokens |-> 0]
  /\ dev = [s \in Sessions |-> NoDevice]
  /\ active = {}
  /\ clock = 0
  /\ pc = [r \in Requests |-> "idle"]
  /\ flow = [r \in Requests |-> "none"]
  /\ held = [r \in Requests |-> NoToken]
  /\ next = [r \in Requests |-> NoToken]
  /\ sess = [r \in Requests |-> 0]
  /\ at = [r \in Requests |-> NoDevice]
  /\ now = [r \in Requests |-> 0]
  /\ todo = [r \in Requests |-> {}]

-----------------------------------------------------------------------------
Goto(r, label) == pc' = [pc EXCEPT ![r] = label]

\* The handler returns or throws; its local variables are gone.
Finish(r) ==
  /\ Goto(r, "idle")
  /\ flow' = [flow EXCEPT ![r] = "none"]
  /\ held' = [held EXCEPT ![r] = NoToken]
  /\ next' = [next EXCEPT ![r] = NoToken]
  /\ sess' = [sess EXCEPT ![r] = 0]
  /\ at'   = [at EXCEPT ![r] = NoDevice]
  /\ now'  = [now EXCEPT ![r] = 0]
  /\ todo' = [todo EXCEPT ![r] = {}]

\* Fault: the new raw token is not handed to the caller.
InsertForgotten(r, t, f, end) ==
  /\ t \in Tokens \ rows
  /\ rows' = rows \cup {t}
  /\ fam' = [fam EXCEPT ![t] = f]
  /\ ses' = [ses EXCEPT ![t] = sess[r]]
  /\ expires' = [expires EXCEPT ![t] = end]
  /\ idle' = [idle EXCEPT ![t] = IdleEnd(end, now[r])]
  /\ UNCHANGED next

\* createToken: INSERT of a row nobody has seen, in family f.
Insert(r, t, f, end) ==
  /\ t \in Tokens \ rows
  /\ rows' = rows \cup {t}
  /\ fam' = [fam EXCEPT ![t] = f]
  /\ ses' = [ses EXCEPT ![t] = sess[r]]
  /\ expires' = [expires EXCEPT ![t] = end]
  /\ idle' = [idle EXCEPT ![t] = IdleEnd(end, now[r])]
  /\ next' = [next EXCEPT ![r] = t]

-----------------------------------------------------------------------------
(***************************************************************************)
(* Login: the credentials were accepted (password, OTP, QR, Telegram, or a *)
(* refresh JWT of an earlier release being upgraded); what follows is      *)
(* trackLogin and issue.                                                   *)
(***************************************************************************)
StartLogin(r, d) ==
  /\ pc[r] = "idle"
  /\ Goto(r, "find")
  /\ flow' = [flow EXCEPT ![r] = "login"]
  /\ at' = [at EXCEPT ![r] = d]
  /\ UNCHANGED <<tokenVars, used, revoked, sessionVars, clock, clientVars,
                 held, next, sess, now, todo>>

\* upsertSession, findOne: the latest session row of the device, if any.
FindSession(r) ==
  /\ pc[r] = "find"
  /\ Goto(r, "upsert")
  /\ \/ /\ OnDevice(at[r]) = {}
        /\ sess' = [sess EXCEPT ![r] = 0]
     \/ \E s \in OnDevice(at[r]) :
          /\ \A u \in OnDevice(at[r]) : u <= s
          /\ sess' = [sess EXCEPT ![r] = s]
  /\ UNCHANGED <<tokenVars, used, revoked, sessionVars, clock, clientVars,
                 flow, held, next, at, now, todo>>

AfterUpsert(r) == Goto(r, IF flow[r] = "login" THEN "retire" ELSE "respond")

\* Fault: the UPDATE does not set is_active.
ReviveInactive(r) ==
  /\ pc[r] = "upsert" /\ sess[r] # 0
  /\ AfterUpsert(r)
  /\ UNCHANGED <<tokenVars, used, revoked, sessionVars, clock, clientVars, localVars>>

\* upsertSession, UPDATE: the row that was found is made active again.
ReviveSession(r) ==
  /\ pc[r] = "upsert" /\ sess[r] # 0
  /\ active' = active \cup {sess[r]}
  /\ AfterUpsert(r)
  /\ UNCHANGED <<tokenVars, used, revoked, dev, clock, clientVars, localVars>>

\* upsertSession, INSERT: nothing was found, a new row with the next id.
InsertSession(r) ==
  /\ pc[r] = "upsert" /\ sess[r] = 0
  /\ \E s \in Sessions \ Inserted :
       /\ \A u \in Sessions \ Inserted : s <= u
       /\ dev' = [dev EXCEPT ![s] = at[r]]
       /\ active' = active \cup {s}
       /\ sess' = [sess EXCEPT ![r] = s]
  /\ AfterUpsert(r)
  /\ UNCHANGED <<tokenVars, used, revoked, clock, clientVars,
                 flow, held, next, at, now, todo>>

\* issue, UPDATE: live tokens of the session are revoked.
RetireLive(r) ==
  /\ pc[r] = "retire"
  /\ revoked' = revoked \cup {t \in rows : Live(t) /\ ses[t] = sess[r]}
  /\ now' = [now EXCEPT ![r] = clock]
  /\ Goto(r, "first")
  /\ UNCHANGED <<tokenVars, used, sessionVars, clock, clientVars,
                 flow, held, next, sess, at, todo>>

\* issue, createToken: the first token of a new family.
MintFirst(r) ==
  /\ pc[r] = "first"
  /\ \E t \in Tokens : Insert(r, t, t, now[r] + AbsLife)
  /\ Goto(r, "respond")
  /\ UNCHANGED <<used, revoked, sessionVars, clock, clientVars,
                 flow, held, sess, at, now, todo>>

\* The answer, with the access token and the refresh token, reaches the client.
Respond(r) ==
  /\ pc[r] = "respond"
  /\ known' = known \cup {next[r]}
  /\ jwts' = jwts \cup {sess[r]}
  /\ Finish(r)
  /\ UNCHANGED <<tokenVars, used, revoked, sessionVars, clock>>

-----------------------------------------------------------------------------
(***************************************************************************)
(* Refresh: rotate, then touchActivity on the device of the token's        *)
(* session.                                                                *)
(***************************************************************************)
\* Fault: the session of the token is not looked at.
RejectedUnlessSpent(t) ==
  \/ t \in used \/ t \in revoked
  \/ expires[t] <= clock \/ idle[t] <= clock

Rejected(t) ==
  \/ t \in used \/ t \in revoked
  \/ ses[t] \notin active
  \/ expires[t] <= clock \/ idle[t] <= clock

\* revokeFamily is called; its two statements are sent off together.
StartCut(r) ==
  /\ Goto(r, "cut")
  /\ todo' = [todo EXCEPT ![r] = {"tokens", "session"}]

\* rotate, findOne and the two tests on the row it returned.
ReadToken(r, t) ==
  /\ pc[r] = "idle" /\ t \in known
  /\ flow' = [flow EXCEPT ![r] = "refresh"]
  /\ held' = [held EXCEPT ![r] = t]
  /\ sess' = [sess EXCEPT ![r] = ses[t]]
  /\ at' = [at EXCEPT ![r] = dev[ses[t]]]
  /\ now' = [now EXCEPT ![r] = clock]
  /\ \/ Rejected(t) /\ StartCut(r)
     \/ ~Rejected(t) /\ Goto(r, "consume") /\ UNCHANGED todo
  /\ UNCHANGED <<tokenVars, used, revoked, sessionVars, clock, clientVars, next>>

\* Fault: the UPDATE has lost its WHERE used_at IS NULL AND revoked_at IS NULL.
ConsumeUnconditionally(r) ==
  /\ pc[r] = "consume"
  /\ used' = used \cup {held[r]}
  /\ Goto(r, "mint")
  /\ UNCHANGED <<tokenVars, revoked, sessionVars, clock, clientVars,
                 flow, held, next, sess, at, now, todo>>

\* rotate, UPDATE ... WHERE used_at IS NULL AND revoked_at IS NULL.
Consume(r) ==
  /\ pc[r] = "consume"
  /\ \/ /\ Live(held[r])
        /\ used' = used \cup {held[r]}
        /\ Goto(r, "mint") /\ UNCHANGED todo
     \/ ~Live(held[r]) /\ StartCut(r) /\ UNCHANGED used
  /\ UNCHANGED <<tokenVars, revoked, sessionVars, clock, clientVars,
                 flow, held, next, sess, at, now>>

\* Fault: the successor starts a family of its own, as issue does.
MintNewFamily(r) ==
  /\ Minting(r)
  /\ \E t \in Tokens : Insert(r, t, t, expires[held[r]])
  /\ Goto(r, "find")
  /\ UNCHANGED <<used, revoked, sessionVars, clock, clientVars,
                 flow, held, sess, at, now, todo>>

\* Fault: the successor is given a full lifetime again, as issue does.
MintRenewed(r) ==
  /\ Minting(r)
  /\ \E t \in Tokens : Insert(r, t, fam[held[r]], now[r] + AbsLife)
  /\ Goto(r, "find")
  /\ UNCHANGED <<used, revoked, sessionVars, clock, clientVars,
                 flow, held, sess, at, now, todo>>

\* rotate, createToken: the successor, in the same family, with its expires_at.
MintNext(r) ==
  /\ Minting(r)
  /\ \E t \in Tokens : Insert(r, t, fam[held[r]], expires[held[r]])
  /\ Goto(r, "find")
  /\ UNCHANGED <<used, revoked, sessionVars, clock, clientVars,
                 flow, held, sess, at, now, todo>>

\* One statement of a Promise.all is done; after the last one the handler throws.
Done(r, statement) ==
  /\ statement \in todo[r]
  /\ \/ todo[r] = {statement} /\ Finish(r)
     \/ /\ todo[r] # {statement}
        /\ todo' = [todo EXCEPT ![r] = @ \ {statement}]
        /\ UNCHANGED <<pc, flow, held, next, sess, at, now>>

\* revokeFamily, its two concurrent statements.
CutTokens(r) ==
  /\ pc[r] = "cut"
  /\ revoked' = revoked \cup Family(fam[held[r]])
  /\ Done(r, "tokens")
  /\ UNCHANGED <<tokenVars, used, sessionVars, clock, clientVars>>

CutSession(r) ==
  /\ pc[r] = "cut"
  /\ active' = active \ {sess[r]}
  /\ Done(r, "session")
  /\ UNCHANGED <<tokenVars, used, revoked, dev, clock, clientVars>>

-----------------------------------------------------------------------------
(***************************************************************************)
(* Logout: revokeSession on the session of the access token, then the      *)
(* sessions of the device.                                                 *)
(***************************************************************************)
StartLogout(r, s) ==
  /\ pc[r] = "idle" /\ s \in jwts
  /\ Goto(r, "logout")
  /\ flow' = [flow EXCEPT ![r] = "logout"]
  /\ sess' = [sess EXCEPT ![r] = s]
  /\ at' = [at EXCEPT ![r] = dev[s]]
  /\ todo' = [todo EXCEPT ![r] = {"tokens", "session"}]
  /\ UNCHANGED <<tokenVars, used, revoked, sessionVars, clock, clientVars,
                 held, next, now>>

\* revokeSession, its two concurrent statements; both end before the next await.
LogoutDone(r, statement) ==
  /\ pc[r] = "logout" /\ statement \in todo[r]
  /\ todo' = [todo EXCEPT ![r] = @ \ {statement}]
  /\ Goto(r, IF todo[r] = {statement} THEN "device" ELSE "logout")
  /\ UNCHANGED <<flow, held, next, sess, at, now>>

LogoutTokens(r) ==
  /\ LogoutDone(r, "tokens")
  /\ revoked' = revoked \cup {t \in rows : ses[t] = sess[r]}
  /\ UNCHANGED <<tokenVars, used, sessionVars, clock, clientVars>>

LogoutSession(r) ==
  /\ LogoutDone(r, "session")
  /\ active' = active \ {sess[r]}
  /\ UNCHANGED <<tokenVars, used, revoked, dev, clock, clientVars>>

\* DeviceTrackingService.logout: the active sessions of the device.
LogoutDevice(r) ==
  /\ pc[r] = "device"
  /\ active' = active \ OnDevice(at[r])
  /\ Finish(r)
  /\ UNCHANGED <<tokenVars, used, revoked, dev, clock, clientVars>>

-----------------------------------------------------------------------------
(***************************************************************************)
(* A statement fails, the process stops or the answer is lost: what was    *)
(* written stays written.                                                  *)
(***************************************************************************)
Abort(r) ==
  /\ pc[r] # "idle"
  /\ Finish(r)
  /\ UNCHANGED <<tokenVars, used, revoked, sessionVars, clock, clientVars>>

DayPasses ==
  /\ clock < MaxClock
  /\ clock' = clock + 1
  /\ UNCHANGED <<tokenVars, used, revoked, sessionVars, clientVars, pc, localVars>>

Step(r) ==
  \/ FindSession(r) \/ ReviveSession(r) \/ InsertSession(r)
  \/ RetireLive(r) \/ MintFirst(r) \/ Respond(r)
  \/ Consume(r) \/ MintNext(r) \/ CutTokens(r) \/ CutSession(r)
  \/ LogoutTokens(r) \/ LogoutSession(r) \/ LogoutDevice(r)

Next ==
  \/ \E r \in Requests :
       \/ \E d \in Devices : StartLogin(r, d)
       \/ \E t \in Tokens : ReadToken(r, t)
       \/ \E s \in Sessions : StartLogout(r, s)
       \/ Step(r)
       \/ Abort(r)
  \/ DayPasses

Spec == Init /\ [][Next]_vars

-----------------------------------------------------------------------------
(***************************************************************************)
(* Properties                                                              *)
(***************************************************************************)

\* A family has one heir: one live token, or one rotation that has consumed
\* the last token and not yet inserted its successor.  This is what rotate's
\* conditional UPDATE is for: two concurrent refreshes with one token, or a
\* refresh racing a logout or a revocation, never fork a family.
OneHeirPerFamily ==
  /\ \A t, u \in rows : Live(t) /\ Live(u) /\ fam[t] = fam[u] => t = u
  /\ \A r \in Requests : Minting(r) =>
       /\ \A t \in rows : Live(t) => fam[t] # fam[held[r]]
       /\ \A q \in Requests : Minting(q) /\ fam[held[q]] = fam[held[r]] => q = r

\* However often a token is rotated, the refresh that does it was accepted
\* before the expiry its family was given at login (expires_at is handed on).
RedeemedWithinLifetime ==
  \A r \in Requests : flow[r] = "refresh" /\ pc[r] \in {"consume", "mint"} =>
    now[r] < expires[fam[held[r]]]

\* No session of d is active and no request that could make one so is running.
Closed(d) ==
  /\ \A s \in active : dev[s] # d
  /\ \A r \in Requests : at[r] = d => pc[r] \in {"cut", "logout", "device"}

\* Once the sessions of a device are closed and the requests on it are over,
\* only a login (or such a migration) opens it again: no refresh token that is still around does.
ClosedUntilLogin ==
  [][\A d \in Devices : Closed(d) =>
        Closed(d)' \/ \E r \in Requests : StartLogin(r, d)]_vars

=============================================================================
