---------------------------- MODULE OtpChallenges ----------------------------
(***************************************************************************)
(* One-time passwords by mail, phone or Telegram: the rows of user_otp of  *)
(* one user and the handlers that work on them:                            *)
(*   api/src/app/shared/otp/otp.service.ts                                 *)
(*   the OTP handlers of username.service.ts, forget-password.service.ts,  *)
(*   signup.service.ts, two-factor.service.ts and passcode.service.ts      *)
(*                                                                         *)
(* Each awaited SQL statement is one action.  A row's id and otp_token are *)
(* its identity here; the tokens of contact changes, which are hashes and  *)
(* repeat, are always looked up together with the code.  Generated codes   *)
(* are fresh and no two statements compute the same expires_at: that two   *)
(* codes or two milliseconds may coincide is left out, and so are the      *)
(* fixed codes verifyChallenge takes in development mode.  The channel     *)
(* column, which no statement asks for, is left out.                       *)
(***************************************************************************)
EXTENDS Naturals

CONSTANTS
  Rows,      \* rows user_otp may ever hold for the user
  Codes,     \* codes that may ever be generated
  Requests,  \* request executions; a slot is reused when it is answered
  Purposes,  \* of the challenges asked for, among AllPurposes
  NoRow,
  NoCode,
  Life,      \* minutes a code is valid: 5 in the source
  MaxClock   \* bound: minutes that may pass

AllPurposes == {"login", "signup", "reset", "passcode", "contact"}

ASSUME OtpAssumption ==
  /\ NoRow \notin Rows /\ NoCode \notin Codes
  /\ Purposes \subseteq AllPurposes
  /\ Life \in Nat \ {0} /\ MaxClock \in Nat

VARIABLES
  table,    \* rows present in user_otp
  issued,   \* auxiliary: rows inserted so far
  purpose,  \* purpose column; "contact" stands for the changes of a contact
  otp,      \* otp column
  expires,  \* expires_at
  made,     \* codes generated so far
  due,      \* auxiliary: expires_at that was computed for each code
  mail,     \* <<row, code>> pairs delivered to the user
  handed,   \* rows whose otp_token a client has received
  clock,    \* the current minute
  pc,       \* next statement of each request
  goal,     \* what the request is for
  row,      \* row the request works on
  draft,    \* code the request will store or deliver
  until,    \* expires_at the request will store
  found     \* whether save() saw the row in the table

rowVars   == <<table, issued, purpose, otp, expires>>
codeVars  == <<made, due>>
userVars  == <<mail, handed>>
localVars == <<goal, row, draft, until, found>>
vars == <<rowVars, codeVars, userVars, clock, pc, localVars>>

Labels == {"idle", "insert", "find", "peek", "save", "write", "mail",
           "delete", "commit"}

StoreTypeOK ==
  /\ table \subseteq issued /\ issued \subseteq Rows
  /\ purpose \in [Rows -> AllPurposes]
  /\ otp \in [Rows -> Codes \cup {NoCode}]
  /\ expires \in [Rows -> Nat]
  /\ made \subseteq Codes /\ due \in [Codes -> Nat]
  /\ mail \subseteq issued \X made /\ handed \subseteq issued
  /\ clock \in 0 .. MaxClock

\* Rows are only handed out, mailed or worked on once they exist, and a stored
\* code is one that was generated.
TypeOK ==
  /\ StoreTypeOK
  /\ pc \in [Requests -> Labels]
  /\ goal \in [Requests -> AllPurposes \cup {"none", "resend", "admit"}]
  /\ row \in [Requests -> issued \cup {NoRow}]
  /\ draft \in [Requests -> made \cup {NoCode}]
  /\ until \in [Requests -> Nat]
  /\ found \in [Requests -> BOOLEAN]
  /\ \A k \in issued : otp[k] \in made

Init ==
  /\ table = {} /\ issued = {} /\ made = {}
  /\ purpose = [k \in Rows |-> "login"]
  /\ otp = [k \in Rows |-> NoCode]
  /\ expires = [k \in Rows |-> 0]
  /\ due = [c \in Codes |-> 0]
  /\ mail = {} /\ handed = {}
  /\ clock = 0
  /\ pc = [r \in Requests |-> "idle"]
  /\ goal = [r \in Requests |-> "none"]
  /\ row = [r \in Requests |-> NoRow]
  /\ draft = [r \in Requests |-> NoCode]
  /\ until = [r \in Requests |-> 0]
  /\ found = [r \in Requests |-> FALSE]

-----------------------------------------------------------------------------
Past(k)        == expires[k] < clock
Goto(r, label) == pc' = [pc EXCEPT ![r] = label]
Hold(r, k)     == row' = [row EXCEPT ![r] = k]
For(r, g)      == goal' = [goal EXCEPT ![r] = g]

\* The handler returns or throws.
Finish(r) ==
  /\ Goto(r, "idle")
  /\ For(r, "none")
  /\ Hold(r, NoRow)
  /\ draft' = [draft EXCEPT ![r] = NoCode]
  /\ until' = [until EXCEPT ![r] = 0]
  /\ found' = [found EXCEPT ![r] = FALSE]

\* generateOtp.
Generate(c) == c \in Codes \ made /\ made' = made \cup {c}

\* expires_at of code c is set to end.
Expire(c, end) == due' = [due EXCEPT ![c] = end]

-----------------------------------------------------------------------------
(***************************************************************************)
(* A new challenge: a code is generated and the user's rows with the       *)
(* purpose are DELETEd; then the new row is INSERTed.                      *)
(***************************************************************************)
DeleteOld(r, p) ==
  /\ pc[r] = "idle"
  /\ \E c \in Codes : Generate(c) /\ draft' = [draft EXCEPT ![r] = c]
  /\ table' = {k \in table : purpose[k] # p}
  /\ For(r, p)
  /\ Goto(r, "insert")
  /\ UNCHANGED <<issued, purpose, otp, expires, userVars,
                 clock, row, found>>

\* createChallenge, for a login or the reset of a password or passcode.
CreateChallenge(r, p) ==
  /\ p \notin {"signup", "contact"}
  /\ DeleteOld(r, p) /\ UNCHANGED <<until, due>>

\* issueOtp of the sign-up.
IssueOtp(r) == DeleteOld(r, "signup") /\ UNCHANGED <<until, due>>

\* requestContactChangeOtp computes the expiry before the DELETE.
RequestContactChangeOtp(r) ==
  /\ DeleteOld(r, "contact")
  /\ until' = [until EXCEPT ![r] = clock + Life]
  /\ \E c \in made' \ made : Expire(c, clock + Life)

\* The handler goes on with row k, to the statement labelled so.
Proceed(r, k, label, code) ==
  /\ Hold(r, k) /\ Goto(r, label)
  /\ draft' = [draft EXCEPT ![r] = code]
  /\ UNCHANGED <<goal, until, found>>

\* What follows the INSERT.  login and resendOtp send nothing when the user has
\* an authenticator, and keep the token back until the code is delivered.
AfterLogin(r, k) ==
  \/ handed' = handed \cup {k} /\ Finish(r)
  \/ Proceed(r, k, "find", NoCode) /\ UNCHANGED handed

\* forgetPassword answers at once, and delivers by a channel or without one.
AfterForgetPassword(r, k) ==
  /\ handed' = handed \cup {k}
  /\ Proceed(r, k, "find", NoCode) \/ Proceed(r, k, "peek", NoCode)

\* requestResetOtp answers when it has delivered what is stored.
AfterRequestResetOtp(r, k) == Proceed(r, k, "peek", NoCode) /\ UNCHANGED handed

\* Sign-ups and contacts are mailed the code itself.  The sign-up has answered
\* by then; the token of a contact change is computed from the contact.
AfterContact(r, k) ==
  /\ handed' = handed \cup {k}
  /\ Proceed(r, k, "mail", draft[r])

AfterInsert(r, k) ==
  \/ goal[r] = "login"    /\ AfterLogin(r, k)
  \/ goal[r] = "reset"    /\ AfterForgetPassword(r, k)
  \/ goal[r] = "passcode" /\ AfterRequestResetOtp(r, k)
  \/ goal[r] \in {"signup", "contact"} /\ AfterContact(r, k)

InsertRow(r) ==
  /\ pc[r] = "insert"
  /\ \E k \in Rows \ issued :
       /\ table' = table \cup {k} /\ issued' = issued \cup {k}
       /\ purpose' = [purpose EXCEPT ![k] = goal[r]]
       /\ otp' = [otp EXCEPT ![k] = draft[r]]
       /\ \/ /\ until[r] # 0
             /\ expires' = [expires EXCEPT ![k] = until[r]]
             /\ UNCHANGED due
          \/ /\ until[r] = 0
             /\ expires' = [expires EXCEPT ![k] = clock + Life]
             /\ Expire(draft[r], clock + Life)
       /\ AfterInsert(r, k)
  /\ UNCHANGED <<made, mail, clock>>

\* sendWithoutChannel and requestResetOtp, findOne.
PeekRow(r) ==
  /\ pc[r] = "peek"
  /\ \/ /\ row[r] \in table
        /\ draft' = [draft EXCEPT ![r] = otp[row[r]]]
        /\ Goto(r, "mail") /\ UNCHANGED <<goal, row, until, found>>
     \/ row[r] \notin table /\ Finish(r)
  /\ UNCHANGED <<rowVars, codeVars, userVars, clock>>

-----------------------------------------------------------------------------
(***************************************************************************)
(* sendChallenge: read the row, give it a new code, save it, deliver.      *)
(***************************************************************************)

\* Fault: the row the token stands for is not looked for.
ResendUnchecked(r, k) ==
  /\ pc[r] = "idle"
  /\ For(r, "resend") /\ Hold(r, k) /\ Goto(r, "save")
  /\ UNCHANGED <<rowVars, codeVars, userVars, clock,
                 draft, until, found>>

\* sendOtp, which finds the row as getChallenge does once more.
Resend(r, k) ==
  /\ pc[r] = "idle" /\ k \in handed \cap table /\ ~Past(k)
  /\ For(r, "resend") /\ Hold(r, k) /\ Goto(r, "save")
  /\ UNCHANGED <<rowVars, codeVars, userVars, clock,
                 draft, until, found>>

\* getChallenge and its tests, for the challenge the request has created; the
\* handler throws as well when the channel is not enabled.
FindRow(r) ==
  /\ pc[r] = "find"
  /\ \/ /\ row[r] \in table /\ ~Past(row[r])
        /\ Goto(r, "save") /\ UNCHANGED localVars
     \/ Finish(r)
  /\ UNCHANGED <<rowVars, codeVars, userVars, clock>>

\* save() first looks whether the row exists.
LookUp(r) ==
  /\ pc[r] = "save"
  /\ \E c \in Codes :
       /\ Generate(c) /\ Expire(c, clock + Life)
       /\ draft' = [draft EXCEPT ![r] = c]
  /\ until' = [until EXCEPT ![r] = clock + Life]
  /\ found' = [found EXCEPT ![r] = row[r] \in table]
  /\ Goto(r, "write")
  /\ UNCHANGED <<rowVars, userVars, clock, goal, row>>

\* Fault: the new code is delivered but not put into the row.
StoredExpiry(r, k) ==
  /\ expires' = [expires EXCEPT ![k] = until[r]]
  /\ UNCHANGED otp

Stored(r, k) ==
  /\ otp' = [otp EXCEPT ![k] = draft[r]]
  /\ expires' = [expires EXCEPT ![k] = until[r]]

\* save() of a row it has seen: an UPDATE, which may find the row gone.
Update(r) ==
  /\ pc[r] = "write" /\ found[r]
  /\ \/ row[r] \in table /\ Stored(r, row[r])
     \/ row[r] \notin table /\ UNCHANGED <<otp, expires>>
  /\ Goto(r, "mail")
  /\ UNCHANGED <<table, issued, purpose, codeVars, userVars, clock,
                 localVars>>

\* save() of a row it has not seen: an INSERT with the old id and token, which
\* fails if another save has inserted it meanwhile.
Reinsert(r) ==
  /\ pc[r] = "write" /\ ~found[r]
  /\ \/ /\ row[r] \notin table
        /\ table' = table \cup {row[r]}
        /\ Stored(r, row[r])
        /\ Goto(r, "mail") /\ UNCHANGED localVars
     \/ /\ row[r] \in table
        /\ Finish(r)
        /\ UNCHANGED <<table, otp, expires>>
  /\ UNCHANGED <<issued, purpose, codeVars, userVars, clock>>

\* OtpDeliveryService.send and the answer.  A delivery that fails, or for which
\* there is no address, is logged; the handler answers as if it had been made.
Deliver(r) ==
  /\ pc[r] = "mail"
  /\ mail' = mail \cup {<<row[r], draft[r]>>} \/ UNCHANGED mail
  /\ handed' = handed \cup {row[r]}
  /\ Finish(r)
  /\ UNCHANGED <<rowVars, codeVars, clock>>

-----------------------------------------------------------------------------
(***************************************************************************)
(* Verification.                                                           *)
(***************************************************************************)

\* The user enters a code that was delivered, and the row is found by it; its
\* expiry is tested and the request goes on to delete it.
Check(r, k, c, g) ==
  /\ pc[r] = "idle"
  /\ <<k, c>> \in mail /\ k \in table /\ otp[k] = c /\ ~Past(k)
  /\ For(r, g) /\ Hold(r, k) /\ Goto(r, "delete")
  /\ UNCHANGED <<rowVars, codeVars, userVars, clock,
                 draft, until, found>>

\* verifyChallenge: findOne by token, code and purpose.  Password resets go on
\* to commit.
VerifyChallenge(r, k, c) ==
  /\ k \in handed
  /\ Check(r, k, c, IF purpose[k] = "reset" THEN "reset" ELSE "admit")

\* verifyLegacyOtp asks for a username in place of the token, and for no
\* purpose.
VerifyLegacyOtp(r, k, c) == Check(r, k, c, "admit")

\* verifyContactChangeOtp: by purpose and code, with the token or without.
VerifyContactChangeOtp(r, k, c) ==
  purpose[k] = "contact" /\ Check(r, k, c, "admit")

\* All rows with the purpose are DELETEd, whatever code they hold: by complete,
\* when the account is set up, and by verifyContactChangeOtp for a fixed code,
\* which it takes unless ENABLE_DEV_OTP is 'false'.
DropAll(p) ==
  /\ table' = {k \in table : purpose[k] # p}
  /\ UNCHANGED <<issued, purpose, otp, expires, codeVars, userVars, clock, pc,
                 localVars>>
Complete        == DropAll("signup")
VerifyFixedCode == DropAll("contact")

\* verifyOtp with the authenticator's code: the row is found by its token, and
\* neither its code nor its expiry is looked at.
VerifyTotp(r, k) ==
  /\ pc[r] = "idle" /\ k \in handed \cap table /\ purpose[k] = "login"
  /\ For(r, "admit") /\ Hold(r, k) /\ Goto(r, "delete")
  /\ UNCHANGED <<rowVars, codeVars, userVars, clock,
                 draft, until, found>>

\* DELETE by id: nobody asks whether there was a row to delete.
DeleteRow(r) ==
  /\ pc[r] = "delete"
  /\ table' = table \ {row[r]}
  /\ \/ goal[r] = "reset" /\ Goto(r, "commit") /\ UNCHANGED localVars
     \/ goal[r] = "admit" /\ Finish(r)
  /\ UNCHANGED <<issued, purpose, otp, expires, codeVars, userVars,
                 clock>>

\* resetPassword, its transaction: the password, and all rows of the user.
Commit(r) ==
  /\ pc[r] = "commit"
  /\ table' = {}
  /\ Finish(r)
  /\ UNCHANGED <<issued, purpose, otp, expires, codeVars, userVars,
                 clock>>

-----------------------------------------------------------------------------
\* A statement fails, or the process stops.
Abort(r) ==
  /\ pc[r] # "idle"
  /\ Finish(r)
  /\ UNCHANGED <<rowVars, codeVars, userVars, clock>>

MinutePasses ==
  /\ clock < MaxClock
  /\ clock' = clock + 1
  /\ UNCHANGED <<rowVars, codeVars, userVars, pc, localVars>>

Next ==
  \/ \E r \in Requests :
       \/ \E p \in Purposes : CreateChallenge(r, p)
       \/ "signup" \in Purposes /\ IssueOtp(r)
       \/ "contact" \in Purposes /\ RequestContactChangeOtp(r)
       \/ InsertRow(r) \/ PeekRow(r) \/ FindRow(r) \/ LookUp(r)
       \/ Update(r) \/ Reinsert(r) \/ Deliver(r)
       \/ \E k \in Rows : Resend(r, k) \/ VerifyTotp(r, k)
       \/ \E k \in Rows, c \in Codes :
            VerifyChallenge(r, k, c) \/ VerifyLegacyOtp(r, k, c)
              \/ VerifyContactChangeOtp(r, k, c)
       \/ DeleteRow(r) \/ Commit(r) \/ Abort(r)
  \/ "signup" \in Purposes /\ Complete
  \/ "contact" \in Purposes /\ VerifyFixedCode
  \/ MinutePasses

Spec == Init /\ [][Next]_vars

-----------------------------------------------------------------------------
(***************************************************************************)
(* Properties                                                              *)
(***************************************************************************)
\* A challenge that has been used up or replaced, with no sendChallenge still
\* holding its row, is gone: nothing brings its token back.
Gone(k) ==
  /\ k \in issued \ table
  /\ \A r \in Requests : row[r] = k => pc[r] \notin {"save", "write"}
GoneForGood == [][\A k \in Rows : Gone(k) => Gone(k)']_vars

\* However often a challenge is resent, and whatever the resends interleave
\* with, a stored code keeps the expiry computed for it: a resend never gives
\* an older code more time, nor a new code less.
OwnExpiry == \A k \in table : expires[k] = due[otp[k]]

=============================================================================
