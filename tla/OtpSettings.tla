----------------------------- MODULE OtpSettings -----------------------------
(***************************************************************************)
(* The two-factor settings of one user, a row of user_otp_setting:         *)
(*   api/src/app/shared/otp/otp.service.ts                                 *)
(*   api/src/app/resources/1-account/2-profile/1-2fa/two-factor.service.ts *)
(*                                                                         *)
(* Each awaited SQL statement is one action.  Every handler reads the row, *)
(* edits the entity and saves the whole of it (RowSave).  The toggles and  *)
(* contacts of the mail, phone and Telegram channels are one column here.  *)
(* A secret is known by the number of the batch of backup codes that was   *)
(* generated with it.  Passwords and authenticator codes only decide       *)
(* whether a handler goes on, and are left out.                            *)
(***************************************************************************)
EXTENDS Naturals, RowSave

CONSTANTS
  Requests,  \* request executions; a slot is reused when it is answered
  MaxBatch,  \* bound: batches of backup codes that may be generated
  Size,      \* backup codes in a batch: 10 in the source
  NoCodes    \* backup_codes is null; an empty list is {}

ASSUME SettingsAssumption ==
  /\ MaxBatch \in Nat /\ Size \in Nat \ {0}
  /\ \A S \in SUBSET ((1 .. MaxBatch) \X (1 .. Size)) : S # NoCodes

VARIABLES
  present,  \* the user has a row
  setting,  \* the row
  batches,  \* batches generated so far
  given,    \* backup codes the user was shown
  spent,    \* auxiliary: backup codes that were accepted
  again,    \* auxiliary: those that were accepted more than once
  alone,    \* auxiliary: no two requests have been running at once so far
  pc,       \* next statement of each request
  goal,     \* what the request is for
  entity,   \* its copy of the row, edited
  token,    \* the backup codes the request was made with, at most one
  cols      \* columns its save() is about to write

userVars  == <<given, spent, again>>
localVars == <<pc, goal, entity, token, cols>>
vars == <<present, setting, batches, userVars, alone, localVars>>

Codes  == (1 .. MaxBatch) \X (1 .. Size)
Goals  == {"toggle", "enable", "disable", "regenerate"}
Issued == (1 .. batches) \X (1 .. Size)
Rows   == [on: BOOLEAN, secret: 0 .. batches, codes: {NoCodes} \cup SUBSET Issued,
           other: BOOLEAN]
Blank  == [on |-> FALSE, secret |-> 0, codes |-> NoCodes, other |-> FALSE]

\* Rows and entities only hold codes of batches that were generated.
TypeOK ==
  /\ present \in BOOLEAN /\ setting \in Rows
  /\ batches \in 0 .. MaxBatch
  /\ alone \in BOOLEAN
  /\ given \subseteq Issued /\ spent \subseteq given /\ again \subseteq spent
  /\ pc \in [Requests -> {"idle", "create", "save", "write"}]
  /\ goal \in [Requests -> Goals \cup {"none", "use"}]
  /\ entity \in [Requests -> Rows] /\ token \in [Requests -> SUBSET Codes]
  /\ cols \in [Requests -> SUBSET DOMAIN Blank]

Init ==
  /\ present = FALSE /\ setting = Blank /\ batches = 0
  /\ given = {} /\ spent = {} /\ again = {} /\ alone = TRUE
  /\ pc = [r \in Requests |-> "idle"]
  /\ goal = [r \in Requests |-> "none"]
  /\ entity = [r \in Requests |-> Blank]
  /\ token = [r \in Requests |-> {}]
  /\ cols = [r \in Requests |-> {}]

-----------------------------------------------------------------------------
Goto(r, label) == pc' = [pc EXCEPT ![r] = label]
For(r, g)      == goal' = [goal EXCEPT ![r] = g]
CodesIn(e)     == IF e.codes = NoCodes THEN {} ELSE e.codes

\* The handler returns or throws.
Finish(r) ==
  /\ Goto(r, "idle")
  /\ For(r, "none")
  /\ entity' = [entity EXCEPT ![r] = Blank]
  /\ token' = [token EXCEPT ![r] = {}]
  /\ cols' = [cols EXCEPT ![r] = {}]

\* Fault: the loop generates one code more than the column has room for.
CodesOfOneMore(b) == {<<b, i>> : i \in 1 .. Size + 1}

\* Fault: the generator is seeded with a constant.
CodesOfFirst(b) == {<<1, i>> : i \in 1 .. Size}

\* generateRawBackupCodes.
CodesOf(b) == {<<b, i>> : i \in 1 .. Size}

\* The handler goes on to save(e); T is the backup code it was called with.
SaveFor(r, g, e, T) ==
  /\ Goto(r, "save") /\ For(r, g)
  /\ token' = [token EXCEPT ![r] = T]
  /\ entity' = [entity EXCEPT ![r] = e]
  /\ UNCHANGED cols

Save(r, g, e) == SaveFor(r, g, e, {})

NewBatch == batches < MaxBatch /\ batches' = batches + 1

\* Fault: the toggle is stored as the authenticator's.
UpdateWrongColumn(r, e) ==
  /\ \E enabled \in BOOLEAN : Save(r, "toggle", [e EXCEPT !.on = enabled])
  /\ UNCHANGED batches

\* updateSetting, for one of the other channels.
UpdateSetting(r, e) ==
  /\ \E enabled \in BOOLEAN : Save(r, "toggle", [e EXCEPT !.other = enabled])
  /\ UNCHANGED batches

EnableAuthenticator(r, e) ==
  /\ NewBatch
  /\ Save(r, "enable", [e EXCEPT !.on = TRUE, !.secret = batches + 1,
                                 !.codes = CodesOf(batches + 1)])

DisableAuthenticator(r, e) ==
  /\ Save(r, "disable", [e EXCEPT !.on = FALSE, !.secret = 0, !.codes = NoCodes])
  /\ UNCHANGED batches

\* Fault: the new codes are put next to those that are left.
TopUpBackupCodes(r, e) ==
  /\ e.on /\ e.secret # 0
  /\ NewBatch
  /\ Save(r, "regenerate", [e EXCEPT !.codes = CodesIn(e) \cup CodesOf(batches + 1)])

\* regenerateBackupCodes refuses a user whose authenticator is not enabled.
RegenerateBackupCodes(r, e) ==
  \/ /\ e.on /\ e.secret # 0
     /\ NewBatch
     /\ Save(r, "regenerate", [e EXCEPT !.codes = CodesOf(batches + 1)])
  \/ /\ ~e.on \/ e.secret = 0
     /\ Finish(r) /\ UNCHANGED batches

Handle(r, g, e) ==
  \/ g = "toggle" /\ UpdateSetting(r, e)
  \/ g = "enable" /\ EnableAuthenticator(r, e)
  \/ g = "disable" /\ DisableAuthenticator(r, e)
  \/ g = "regenerate" /\ RegenerateBackupCodes(r, e)

-----------------------------------------------------------------------------
\* getOrCreateSetting, findOne.
Get(r, g) ==
  /\ pc[r] = "idle"
  /\ \/ present /\ Handle(r, g, setting)
     \/ /\ ~present
        /\ Goto(r, "create") /\ For(r, g) /\ UNCHANGED <<entity, token, cols, batches>>
  /\ UNCHANGED <<present, setting, userVars>>

\* getOrCreateSetting, INSERT; user_id is unique.
Create(r) ==
  /\ pc[r] = "create"
  /\ \/ /\ ~present
        /\ present' = TRUE /\ setting' = Blank
        /\ Handle(r, goal[r], Blank)
     \/ /\ present
        /\ Finish(r) /\ UNCHANGED <<present, setting, batches>>
  /\ UNCHANGED userVars

\* Fault: the code that was accepted stays in the list.
AcceptBackupCode(r, c) ==
  /\ pc[r] = "idle" /\ c \in given
  /\ present /\ setting.on /\ setting.secret # 0 /\ c \in CodesIn(setting)
  /\ SaveFor(r, "use", setting, {c})
  /\ UNCHANGED <<present, setting, batches, userVars>>

\* verifyUserTotpOrBackupCode: the code is among those that were read.
VerifyBackupCode(r, c) ==
  /\ pc[r] = "idle" /\ c \in given
  /\ present /\ setting.on /\ setting.secret # 0 /\ c \in CodesIn(setting)
  /\ SaveFor(r, "use", [setting EXCEPT !.codes = @ \ {c}], {c})
  /\ UNCHANGED <<present, setting, batches, userVars>>

\* save(), SELECT.
LookUp(r) ==
  /\ pc[r] = "save"
  /\ cols' = [cols EXCEPT ![r] = Changed(setting, entity[r])]
  /\ Goto(r, "write")
  /\ UNCHANGED <<present, setting, batches, userVars, goal, entity, token>>

\* save(), UPDATE, and the answer, which shows new codes to the user or accepts
\* the one that was entered.
Write(r) ==
  /\ pc[r] = "write"
  /\ setting' = Written(setting, entity[r], cols[r])
  /\ \/ goal[r] \in {"enable", "regenerate"} /\ given' = given \cup entity[r].codes
     \/ goal[r] \in {"toggle", "disable", "use"} /\ UNCHANGED given
  /\ spent' = spent \cup token[r]
  /\ again' = again \cup (spent \cap token[r])
  /\ Finish(r)
  /\ UNCHANGED <<present, batches>>

\* A statement fails or the process stops; what was written stays written.
Abort(r) ==
  /\ pc[r] # "idle"
  /\ Finish(r)
  /\ UNCHANGED <<present, setting, batches, userVars>>

Step(r) ==
  \/ \E g \in Goals : Get(r, g)
  \/ \E c \in Codes : VerifyBackupCode(r, c)
  \/ Create(r) \/ LookUp(r) \/ Write(r) \/ Abort(r)

Next ==
  \E r \in Requests :
    /\ Step(r)
    /\ alone' = (alone /\ \A q \in Requests \ {r} : pc[q] = "idle")

Spec == Init /\ [][Next]_vars

-----------------------------------------------------------------------------
(***************************************************************************)
(* Properties                                                              *)
(***************************************************************************)

\* A code that is no longer stored, nor in the copy of a running request, is
\* gone: no sequence of handlers makes it valid again.
Gone(c) ==
  /\ c[1] <= batches /\ c \notin CodesIn(setting)
  /\ \A r \in Requests : c \notin CodesIn(entity[r])
GoneForGood == [][\A c \in Codes : Gone(c) => Gone(c)']_vars

\* "Consume the single-use backup code": a backup code is accepted once, as
\* long as no two requests overlap, and whichever of them fail.
BackupCodeOnce == alone => again = {}

\* What is stored is what the user was shown last, without the codes accepted
\* since: as long as no two requests overlap, no toggle, second enrolment or
\* failed handler loses a code that is left, nor keeps one of an older batch.
ShownLast == {c \in given : \A d \in given : d[1] <= c[1]}
UnspentAreStored ==
  alone /\ setting.on => CodesIn(setting) = ShownLast \ spent

\* "Disables Google Authenticator and clears its secret and backup codes": it
\* stays disabled until an enableAuthenticator is answered, as long as no two
\* requests overlap.
Reenabled == ~setting.on /\ setting'.on
Enables   == \E r \in Requests : pc[r] = "write" /\ goal[r] = "enable"
DisabledWhileAlone == [][Reenabled /\ alone => Enables]_vars

=============================================================================
