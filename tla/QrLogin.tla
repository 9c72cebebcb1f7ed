------------------------------- MODULE QrLogin -------------------------------
(***************************************************************************)
(* QR login: createQrLogin, getQrLoginStatus and scanQrLogin of            *)
(*   api/src/app/resources/1-account/2-profile/account.service.ts          *)
(* on the rows of qr_login_session of one user.                            *)
(*                                                                         *)
(* Each awaited SQL statement is one action.  The qr_token of a row is its *)
(* identity: it is random and unique.  Reading it out of a URL or JSON     *)
(* (extractQrToken) and the login that a claimed code is granted, which is *)
(* StartLogin of RefreshTokens, are left out.                              *)
(***************************************************************************)
EXTENDS Naturals

CONSTANTS
  Codes,     \* rows qr_login_session may ever hold for the user
  Requests,  \* request executions; a slot is reused when it is answered
  NoCode,
  Life,      \* minutes a code is valid: 2 in the source
  MaxClock   \* bound: minutes that may pass

ASSUME QrAssumption ==
  /\ NoCode \notin Codes
  /\ Life \in Nat \ {0} /\ MaxClock \in Nat

VARIABLES
  status,   \* status column, "none" before the row is inserted
  expires,  \* expires_at
  used,     \* rows with used_at set
  clock,    \* the current minute
  pc,       \* next statement of each request
  code,     \* row the request works on
  until,    \* expiresAt computed by createQrLogin
  claims    \* auxiliary: scans whose conditional UPDATE hit the row

rowVars   == <<status, expires, used>>
localVars == <<pc, code, until>>
vars == <<rowVars, clock, localVars, claims>>

Statuses == {"none", "pending", "used", "expired"}
Labels   == {"idle", "insert", "lapse", "claim", "grant"}

\* Only a row that exists has an expiry, was claimed or is worked on.
TypeOK ==
  /\ status \in [Codes -> Statuses]
  /\ expires \in [Codes -> Nat]
  /\ used \subseteq Codes
  /\ clock \in 0 .. MaxClock
  /\ pc \in [Requests -> Labels]
  /\ code \in [Requests -> Codes \cup {NoCode}]
  /\ until \in [Requests -> Nat]
  /\ claims \in [Codes -> Nat]
  /\ \A r \in Requests : (code[r] = NoCode) = (pc[r] \in {"idle", "insert"})
  /\ \A r \in Requests : code[r] # NoCode => status[code[r]] # "none"

Init ==
  /\ status = [c \in Codes |-> "none"]
  /\ expires = [c \in Codes |-> 0]
  /\ used = {}
  /\ clock = 0
  /\ pc = [r \in Requests |-> "idle"]
  /\ code = [r \in Requests |-> NoCode]
  /\ until = [r \in Requests |-> 0]
  /\ claims = [c \in Codes |-> 0]

-----------------------------------------------------------------------------
Pending      == {c \in Codes : status[c] = "pending"}
Past(c)      == expires[c] < clock
Goto(r, label) == pc' = [pc EXCEPT ![r] = label]

\* The handler returns or throws.
Finish(r) ==
  /\ Goto(r, "idle")
  /\ code' = [code EXCEPT ![r] = NoCode]
  /\ until' = [until EXCEPT ![r] = 0]

\* The handler goes on to a statement on row c.
Hold(r, c, label) ==
  /\ Goto(r, label)
  /\ code' = [code EXCEPT ![r] = c]
  /\ UNCHANGED until

\* createQrLogin, UPDATE: the pending rows of the user are expired.
ExpirePending(r) ==
  /\ pc[r] = "idle"
  /\ status' = [c \in Codes |-> IF c \in Pending THEN "expired" ELSE status[c]]
  /\ until' = [until EXCEPT ![r] = clock + Life]
  /\ Goto(r, "insert")
  /\ UNCHANGED <<expires, used, clock, code, claims>>

\* createQrLogin, INSERT: the new row, whose code the answer carries.
InsertPending(r) ==
  /\ pc[r] = "insert"
  /\ \E c \in Codes :
       /\ status[c] = "none"
       /\ status' = [status EXCEPT ![c] = "pending"]
       /\ expires' = [expires EXCEPT ![c] = until[r]]
  /\ Finish(r)
  /\ UNCHANGED <<used, clock, claims>>

\* getQrLoginStatus or scanQrLogin, findOne: a pending row past its expiry.
ReadLapsed(r, c) ==
  /\ pc[r] = "idle" /\ c \in Pending /\ Past(c)
  /\ Hold(r, c, "lapse")
  /\ UNCHANGED <<rowVars, clock, claims>>

\* The UPDATE that follows has only the id in its WHERE.
Lapse(r) ==
  /\ pc[r] = "lapse"
  /\ status' = [status EXCEPT ![code[r]] = "expired"]
  /\ Finish(r)
  /\ UNCHANGED <<expires, used, clock, claims>>

\* Fault: neither the missing row nor the status is looked at.
ReadAnything(r, c) ==
  /\ pc[r] = "idle" /\ ~Past(c)
  /\ Hold(r, c, "claim")
  /\ UNCHANGED <<rowVars, clock, claims>>

\* scanQrLogin, findOne: a pending row that has not lapsed.
ReadScanned(r, c) ==
  /\ pc[r] = "idle" /\ c \in Pending /\ ~Past(c)
  /\ Hold(r, c, "claim")
  /\ UNCHANGED <<rowVars, clock, claims>>

\* Fault: the UPDATE has lost its AND status = 'pending'.
ClaimUnconditionally(r) ==
  /\ pc[r] = "claim"
  /\ status' = [status EXCEPT ![code[r]] = "used"]
  /\ used' = used \cup {code[r]}
  /\ claims' = [claims EXCEPT ![code[r]] = @ + 1]
  /\ Hold(r, code[r], "grant")
  /\ UNCHANGED <<expires, clock>>

\* scanQrLogin, UPDATE ... WHERE id = :id AND status = 'pending'.
Claim(r) ==
  /\ pc[r] = "claim"
  /\ \/ /\ status[code[r]] = "pending"
        /\ status' = [status EXCEPT ![code[r]] = "used"]
        /\ used' = used \cup {code[r]}
        /\ claims' = [claims EXCEPT ![code[r]] = @ + 1]
        /\ Hold(r, code[r], "grant")
     \/ /\ status[code[r]] # "pending"
        /\ Finish(r)
        /\ UNCHANGED <<status, used, claims>>
  /\ UNCHANGED <<expires, clock>>

\* trackLogin, issue, and the answer with both tokens.
Grant(r) ==
  /\ pc[r] = "grant"
  /\ Finish(r)
  /\ UNCHANGED <<rowVars, clock, claims>>

\* A statement fails or the process stops; what was written stays written.
Abort(r) ==
  /\ pc[r] \in {"insert", "lapse", "claim"}
  /\ Finish(r)
  /\ UNCHANGED <<rowVars, clock, claims>>

MinutePasses ==
  /\ clock < MaxClock
  /\ clock' = clock + 1
  /\ UNCHANGED <<rowVars, localVars, claims>>

Next ==
  \/ \E r \in Requests :
       \/ ExpirePending(r) \/ InsertPending(r)
       \/ Lapse(r) \/ Claim(r) \/ Grant(r) \/ Abort(r)
       \/ \E c \in Codes : ReadLapsed(r, c) \/ ReadScanned(r, c)
  \/ MinutePasses

Spec == Init /\ [][Next]_vars

-----------------------------------------------------------------------------
(***************************************************************************)
(* Properties                                                              *)
(***************************************************************************)

\* A code lets in one scan.  The status column alone does not tell: a late
\* 'expired' can overwrite 'used'; used_at does.
StateOf(c) ==
  CASE c \in used             -> "spent"
    [] status[c] = "none"     -> "unissued"
    [] status[c] = "pending"  -> "open"
    [] OTHER                  -> "withdrawn"

OneTime == INSTANCE OneTimeCode
             WITH state <- [c \in Codes |-> StateOf(c)], uses <- claims

\* QR login keeps the promise of a one-time code, whatever scans, polls and
\* new codes interleave: a scan that read a pending row gets in only if no
\* other scan and no createQrLogin came first.
KeepsOneTime == OneTime!Spec

=============================================================================
