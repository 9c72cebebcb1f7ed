-------------------------- MODULE OtpSettingsProofs --------------------------
(***************************************************************************)
(* The two-factor settings of one user, for any number of requests and of  *)
(* batches of backup codes: the row stays well-formed and a code that is   *)
(* gone stays gone; while no two requests overlap, a code is accepted      *)
(* once, the codes left are stored, and what is disabled stays disabled.   *)
(***************************************************************************)
EXTENDS OtpSettings, TLAPS

Columns == {"on", "secret", "codes", "other"}
Labels  == {"idle", "create", "save", "write"}

\* New codes are shown by the save that stores them, and a request is only made
\* with codes that were shown.
CarriesOK ==
  \A r \in Requests :
    /\ pc[r] \in {"save", "write"} /\ goal[r] \in {"enable", "regenerate"} =>
         entity[r].codes # NoCodes
    /\ token[r] \subseteq given

TypeInv == TypeOK /\ CarriesOK

\* Rows stay rows when more batches are generated.
LEMMA RowsGrow ==
  ASSUME batches \in Nat, batches' \in Nat, batches <= batches'
  PROVE  Issued \subseteq Issued' /\ \A e \in Rows : e \in Rows'
<1>1. Issued \subseteq Issued'
  BY DEF Issued
<1>2. ASSUME NEW e \in Rows PROVE e \in Rows'
  <2>1. e.secret \in 0 .. batches' /\ e.codes \in {NoCodes} \cup SUBSET Issued'
    BY <1>1 DEF Rows
  <2> QED
    BY <2>1 DEF Rows
<1> QED
  BY <1>1, <1>2

LEMMA BlankRow == batches \in Nat => Blank \in Rows /\ CodesIn(Blank) = {}
BY DEF Blank, Rows, CodesIn

\* An UPDATE leaves, in every column, the value of the row or of the entity;
\* of a row that nobody wrote since the SELECT it makes the entity.
LEMMA WrittenRow ==
  ASSUME NEW row \in Rows, NEW e \in Rows, NEW C
  PROVE  /\ Written(row, e, C) \in Rows
         /\ Written(row, e, C).codes \in {row.codes, e.codes}
         /\ C = Changed(row, e) => Written(row, e, C) = e
<1>1. DOMAIN row = Columns /\ DOMAIN e = Columns
  BY DEF Rows, Columns
<1>2. Written(row, e, C) \in Rows /\ Written(row, e, C).codes \in {row.codes, e.codes}
  BY <1>1 DEF Rows, Written, Columns
<1>3. ASSUME C = Changed(row, e) PROVE Written(row, e, C) = e
  <2>1. \A c \in Columns : Written(row, e, C)[c] = e[c]
    BY <1>1, <1>3 DEF Written, Changed
  <2>2. /\ Written(row, e, C).on = e.on /\ Written(row, e, C).secret = e.secret
        /\ Written(row, e, C).codes = e.codes /\ Written(row, e, C).other = e.other
    BY <2>1 DEF Columns
  <2> QED
    BY <1>2, <2>2 DEF Rows
<1> QED
  BY <1>2, <1>3

-----------------------------------------------------------------------------
\* What the handlers make of a copy.
Toggled(e, b)  == [e EXCEPT !.other = b]
Enrolled(e, b) == [e EXCEPT !.on = TRUE, !.secret = b, !.codes = CodesOf(b)]
Cleared(e)     == [e EXCEPT !.on = FALSE, !.secret = 0, !.codes = NoCodes]
Renewed(e, b)  == [e EXCEPT !.codes = CodesOf(b)]
Used(e, c)     == [e EXCEPT !.codes = @ \ {c}]

LEMMA NewCodes ==
  ASSUME batches \in Nat, batches' = batches + 1, batches' \in 0 .. MaxBatch
  PROVE  /\ CodesOf(batches + 1) \subseteq Issued' /\ CodesOf(batches + 1) # NoCodes
         /\ \A d \in CodesOf(batches + 1) : d[1] = batches + 1
         /\ CodesOf(batches + 1) # {}
<1>1. CodesOf(batches + 1) \subseteq Issued'
  BY SettingsAssumption DEF CodesOf, Issued
<1>2. CodesOf(batches + 1) \subseteq Codes
  BY SettingsAssumption DEF CodesOf, Codes
<1>3. \A S \in SUBSET Codes : S # NoCodes
  BY SettingsAssumption DEF Codes
<1>4. \A d \in CodesOf(batches + 1) : d[1] = batches + 1
  BY DEF CodesOf
<1>5. 1 \in 1 .. Size
  BY SettingsAssumption
<1>6. CodesOf(batches + 1) # {}
  BY <1>5 DEF CodesOf
<1> QED
  BY <1>1, <1>2, <1>3, <1>4, <1>6

\* A request that handles a copy e of the row ends or goes on to save what it
\* made of it; g is what it is for.
Outcome(r, g, e) ==
  \/ Finish(r) /\ UNCHANGED batches
  \/ /\ g = "toggle" /\ UNCHANGED batches
     /\ \E b \in BOOLEAN : Save(r, "toggle", Toggled(e, b))
  \/ g = "disable" /\ UNCHANGED batches /\ Save(r, "disable", Cleared(e))
  \/ g = "enable" /\ NewBatch /\ Save(r, "enable", Enrolled(e, batches + 1))
  \/ g = "regenerate" /\ NewBatch /\ e.on /\ Save(r, "regenerate", Renewed(e, batches + 1))

LEMMA Handles == ASSUME NEW r, NEW g, NEW e, Handle(r, g, e) PROVE Outcome(r, g, e)
<1>1. CASE g = "toggle" /\ UpdateSetting(r, e)
  BY <1>1 DEF UpdateSetting, Outcome, Toggled
<1>2. CASE g = "enable" /\ EnableAuthenticator(r, e)
  BY <1>2 DEF EnableAuthenticator, Outcome, Enrolled
<1>3. CASE g = "disable" /\ DisableAuthenticator(r, e)
  BY <1>3 DEF DisableAuthenticator, Outcome, Cleared
<1>4. CASE g = "regenerate" /\ RegenerateBackupCodes(r, e)
  BY <1>4 DEF RegenerateBackupCodes, Outcome, Renewed
<1> QED
  BY <1>1, <1>2, <1>3, <1>4 DEF Handle

LEMMA Edits ==
  ASSUME NEW e \in Rows, batches \in Nat
  PROVE  /\ \A b \in BOOLEAN : /\ Toggled(e, b) \in Rows /\ Toggled(e, b).codes = e.codes
                               /\ Toggled(e, b).on = e.on
         /\ Cleared(e) \in Rows /\ Cleared(e).codes = NoCodes /\ ~Cleared(e).on
         /\ \A c \in e.codes : e.codes # NoCodes =>
              /\ Used(e, c) \in Rows /\ Used(e, c).codes = e.codes \ {c} /\ Used(e, c).on = e.on
<1>1. ASSUME NEW b \in BOOLEAN
      PROVE  Toggled(e, b) \in Rows /\ Toggled(e, b).codes = e.codes /\ Toggled(e, b).on = e.on
  BY DEF Toggled, Rows
<1>2. Cleared(e) \in Rows /\ Cleared(e).codes = NoCodes /\ ~Cleared(e).on
  <2>1. e.on \in BOOLEAN /\ 0 \in 0 .. batches
    BY DEF Rows
  <2>2. DOMAIN e = Columns
    BY DEF Rows, Columns
  <2>3. Cleared(e).codes = NoCodes /\ Cleared(e).on = FALSE
    BY <2>2 DEF Cleared, Columns
  <2> QED
    BY <2>1, <2>3 DEF Cleared, Rows
<1>3. ASSUME NEW c \in e.codes, e.codes # NoCodes
      PROVE  Used(e, c) \in Rows /\ Used(e, c).codes = e.codes \ {c} /\ Used(e, c).on = e.on
  BY <1>3 DEF Used, Rows
<1> QED
  BY <1>1, <1>2, <1>3

LEMMA Fresh ==
  ASSUME NEW e \in Rows, batches \in Nat, batches' = batches + 1, batches' \in 0 .. MaxBatch
  PROVE  /\ Enrolled(e, batches + 1) \in Rows' /\ Enrolled(e, batches + 1).on
         /\ Enrolled(e, batches + 1).codes = CodesOf(batches + 1)
         /\ Renewed(e, batches + 1) \in Rows' /\ Renewed(e, batches + 1).on = e.on
         /\ Renewed(e, batches + 1).codes = CodesOf(batches + 1)
<1>1. e \in Rows' /\ CodesOf(batches + 1) \in SUBSET Issued' /\ batches + 1 \in 0 .. batches'
  BY RowsGrow, NewCodes
<1>2. /\ Enrolled(e, batches + 1) \in Rows' /\ Enrolled(e, batches + 1).on
      /\ Enrolled(e, batches + 1).codes = CodesOf(batches + 1)
  BY <1>1 DEF Enrolled, Rows
<1>3. /\ Renewed(e, batches + 1) \in Rows' /\ Renewed(e, batches + 1).on = e.on
      /\ Renewed(e, batches + 1).codes = CodesOf(batches + 1)
  BY <1>1 DEF Renewed, Rows
<1> QED
  BY <1>2, <1>3

-----------------------------------------------------------------------------
(***************************************************************************)
(* Types.                                                                  *)
(***************************************************************************)
\* A step of one request, with what it makes of its locals.
LEMMA TypeMoved ==
  ASSUME TypeInv, NEW r \in Requests, NEW l \in Labels, NEW g \in Goals \cup {"none", "use"},
         NEW e, e \in Rows', NEW T \in SUBSET Codes, NEW C \in SUBSET Columns,
         pc' = [pc EXCEPT ![r] = l], goal' = [goal EXCEPT ![r] = g],
         entity' = [entity EXCEPT ![r] = e], token' = [token EXCEPT ![r] = T],
         cols' = [cols EXCEPT ![r] = C],
         present' \in BOOLEAN, setting' \in Rows', batches' \in 0 .. MaxBatch,
         batches <= batches', given \subseteq given', given' \subseteq Issued',
         spent' \subseteq given', again' \subseteq spent', alone' \in BOOLEAN,
         T \subseteq given',
         l \in {"save", "write"} /\ g \in {"enable", "regenerate"} => e.codes # NoCodes
  PROVE  TypeInv'
<1>1. batches \in Nat /\ batches' \in Nat
  BY SettingsAssumption DEF TypeInv, TypeOK
<1>2. entity' \in [Requests -> Rows']
  BY <1>1, RowsGrow DEF TypeInv, TypeOK
<1>3. DOMAIN Blank = Columns
  BY DEF Blank, Columns
<1>4. pc' \in [Requests -> Labels] /\ goal' \in [Requests -> Goals \cup {"none", "use"}]
  BY DEF TypeInv, TypeOK, Labels
<1>5. token' \in [Requests -> SUBSET Codes] /\ cols' \in [Requests -> SUBSET Columns]
  BY <1>3 DEF TypeInv, TypeOK
<1>6. TypeOK'
  BY <1>2, <1>3, <1>4, <1>5 DEF TypeOK, Labels, Blank
<1>7. CarriesOK'
  BY DEF TypeInv, TypeOK, CarriesOK
<1> QED
  BY <1>6, <1>7 DEF TypeInv

LEMMA TypeSaves ==
  ASSUME TypeInv, NEW r \in Requests, NEW g \in Goals \cup {"use"}, NEW e, e \in Rows',
         NEW T \in SUBSET Codes, T \subseteq given, SaveFor(r, g, e, T),
         g \in {"enable", "regenerate"} => e.codes # NoCodes,
         present' \in BOOLEAN, setting' \in Rows', batches' \in 0 .. MaxBatch,
         batches <= batches', UNCHANGED userVars, alone' \in BOOLEAN
  PROVE  TypeInv'
<1>1. cols' = [cols EXCEPT ![r] = cols[r]] /\ cols[r] \in SUBSET Columns
  BY DEF SaveFor, TypeInv, TypeOK, Blank, Columns
<1>2. batches \in Nat /\ batches' \in Nat
  BY SettingsAssumption DEF TypeInv, TypeOK
<1>3. /\ given \subseteq given' /\ given' \subseteq Issued' /\ spent' \subseteq given'
      /\ again' \subseteq spent' /\ T \subseteq given'
  BY <1>2, RowsGrow DEF userVars, TypeInv, TypeOK
<1> QED
  <2>1. /\ pc' = [pc EXCEPT ![r] = "save"] /\ goal' = [goal EXCEPT ![r] = g]
        /\ entity' = [entity EXCEPT ![r] = e] /\ token' = [token EXCEPT ![r] = T]
        /\ "save" \in Labels /\ g \in Goals \cup {"none", "use"}
    BY DEF SaveFor, Goto, For, Labels
  <2> QED
    BY <1>1, <1>3, <2>1, TypeMoved

LEMMA TypeEnds ==
  ASSUME TypeInv, NEW r \in Requests, Finish(r), present' \in BOOLEAN, setting' \in Rows,
         UNCHANGED batches, given \subseteq given', given' \subseteq Issued,
         spent' \subseteq given', again' \subseteq spent', alone' \in BOOLEAN
  PROVE  TypeInv'
<1>1. batches \in Nat /\ batches' \in 0 .. MaxBatch /\ batches <= batches'
  BY SettingsAssumption DEF TypeInv, TypeOK
<1>2. Blank \in Rows' /\ setting' \in Rows' /\ Issued' = Issued
  BY <1>1, BlankRow, RowsGrow DEF Issued
<1>3. {} \in SUBSET Columns /\ {} \in SUBSET Codes /\ {} \subseteq given' /\ "idle" \in Labels
  BY DEF Labels
<1> QED
  BY <1>1, <1>2, <1>3, TypeMoved DEF Finish, Goto, For

LEMMA TypeHandles ==
  ASSUME TypeInv, NEW r \in Requests, NEW g \in Goals, NEW e \in Rows, Handle(r, g, e),
         present' \in BOOLEAN, setting' = e, UNCHANGED userVars, alone' \in BOOLEAN
  PROVE  TypeInv'
<1>0. batches \in Nat /\ batches \in 0 .. MaxBatch /\ batches <= batches
  BY SettingsAssumption DEF TypeInv, TypeOK
<1>1. Outcome(r, g, e)
  BY Handles
<1>2. CASE Finish(r) /\ UNCHANGED batches
  BY <1>2, TypeEnds DEF userVars, TypeInv, TypeOK
<1>3. CASE UNCHANGED batches /\ \E b \in BOOLEAN : Save(r, "toggle", Toggled(e, b))
  <2>1. PICK b \in BOOLEAN : Save(r, "toggle", Toggled(e, b))
    BY <1>3
  <2>2. Toggled(e, b) \in Rows' /\ setting' \in Rows' /\ "toggle" \in Goals
    BY <1>0, <1>3, Edits, RowsGrow DEF Goals
  <2>3. {} \in SUBSET Codes /\ {} \subseteq given
    OBVIOUS
  <2> QED
    BY <1>0, <1>3, <2>1, <2>2, <2>3, TypeSaves DEF Save
<1>4. CASE UNCHANGED batches /\ Save(r, "disable", Cleared(e))
  <2>1. Cleared(e) \in Rows' /\ setting' \in Rows' /\ "disable" \in Goals
    BY <1>0, <1>4, Edits, RowsGrow DEF Goals
  <2>2. {} \in SUBSET Codes /\ {} \subseteq given
    OBVIOUS
  <2> QED
    BY <1>0, <1>4, <2>1, <2>2, TypeSaves DEF Save
<1>5. CASE NewBatch /\ \/ Save(r, "enable", Enrolled(e, batches + 1))
                       \/ Save(r, "regenerate", Renewed(e, batches + 1))
  <2>1. batches' = batches + 1 /\ batches' \in 0 .. MaxBatch /\ batches' \in Nat /\ batches <= batches'
    BY <1>0, <1>5, SettingsAssumption DEF NewBatch
  <2>2. /\ Enrolled(e, batches + 1) \in Rows' /\ Renewed(e, batches + 1) \in Rows'
        /\ Enrolled(e, batches + 1).codes # NoCodes /\ Renewed(e, batches + 1).codes # NoCodes
    BY <1>0, <2>1, Fresh, NewCodes
  <2>3. setting' \in Rows' /\ "enable" \in Goals /\ "regenerate" \in Goals
    BY <1>0, <2>1, RowsGrow DEF Goals
  <2>4. {} \in SUBSET Codes /\ {} \subseteq given
    OBVIOUS
  <2>5. CASE Save(r, "enable", Enrolled(e, batches + 1))
    BY <2>1, <2>2, <2>3, <2>4, <2>5, TypeSaves DEF Save
  <2>6. CASE Save(r, "regenerate", Renewed(e, batches + 1))
    BY <2>1, <2>2, <2>3, <2>4, <2>6, TypeSaves DEF Save
  <2> QED
    BY <1>5, <2>5, <2>6
<1> QED
  BY <1>1, <1>2, <1>3, <1>4, <1>5 DEF Outcome

LEMMA TypeStep ==
  ASSUME TypeInv, NEW r \in Requests, Step(r), alone' \in BOOLEAN
  PROVE  TypeInv'
<1>0. /\ setting \in Rows /\ Blank \in Rows /\ entity[r] \in Rows /\ present \in BOOLEAN
      /\ token[r] \in SUBSET Codes /\ cols[r] \in SUBSET Columns /\ token[r] \subseteq given
      /\ batches \in Nat /\ batches \in 0 .. MaxBatch /\ batches <= batches
      /\ entity = [entity EXCEPT ![r] = entity[r]] /\ token = [token EXCEPT ![r] = token[r]]
      /\ cols = [cols EXCEPT ![r] = cols[r]] /\ goal = [goal EXCEPT ![r] = goal[r]]
      /\ goal[r] \in Goals \cup {"none", "use"}
      /\ given \subseteq Issued /\ spent \subseteq given /\ again \subseteq spent
  <2>1. batches \in Nat
    BY SettingsAssumption DEF TypeInv, TypeOK
  <2>2. DOMAIN Blank = Columns
    BY DEF Blank, Columns
  <2> QED
    BY <2>1, <2>2, BlankRow DEF TypeInv, TypeOK, CarriesOK
<1>1. ASSUME NEW g \in Goals, Get(r, g) PROVE TypeInv'
  <2>1. CASE Handle(r, g, setting)
    BY <1>0, <1>1, <2>1, TypeHandles DEF Get
  <2>2. CASE Goto(r, "create") /\ For(r, g) /\ UNCHANGED <<entity, token, cols, batches>>
    <3>1. UNCHANGED <<present, setting, given, spent, again, entity, token, cols, batches>>
      BY <1>1, <2>2 DEF Get, userVars
    <3>2. /\ setting' \in Rows' /\ entity[r] \in Rows' /\ Issued' = Issued
          /\ g \in Goals \cup {"none", "use"} /\ "create" \in Labels
      BY <1>0, <3>1, RowsGrow DEF Issued, Labels
    <3>3. /\ entity' = [entity EXCEPT ![r] = entity[r]] /\ token' = [token EXCEPT ![r] = token[r]]
          /\ cols' = [cols EXCEPT ![r] = cols[r]]
          /\ pc' = [pc EXCEPT ![r] = "create"] /\ goal' = [goal EXCEPT ![r] = g]
      BY <1>0, <2>2 DEF Goto, For
    <3> QED
      BY <1>0, <3>1, <3>2, <3>3, TypeMoved
  <2> QED
    BY <1>1, <2>1, <2>2 DEF Get
<1>2. ASSUME NEW c \in Codes, VerifyBackupCode(r, c) PROVE TypeInv'
  <2>1. /\ c \in given /\ c \in CodesIn(setting) /\ SaveFor(r, "use", Used(setting, c), {c})
        /\ UNCHANGED <<present, setting, batches, userVars>>
    BY <1>2 DEF VerifyBackupCode, Used
  <2>2. c \in setting.codes /\ setting.codes # NoCodes
    BY <2>1 DEF CodesIn
  <2>3. Used(setting, c) \in Rows' /\ setting' \in Rows' /\ batches' \in 0 .. MaxBatch
    BY <1>0, <2>1, <2>2, Edits, RowsGrow
  <2>4. /\ {c} \in SUBSET Codes /\ {c} \subseteq given /\ "use" \in Goals \cup {"use"}
        /\ present' \in BOOLEAN /\ batches <= batches' /\ UNCHANGED userVars
    BY <1>0, <2>1
  <2> QED
    BY <2>1, <2>3, <2>4, TypeSaves
<1>3. CASE Create(r)
  <2>1. CASE present' = TRUE /\ setting' = Blank /\ Handle(r, goal[r], Blank)
    <3>1. goal[r] \in Goals
      BY <2>1 DEF Handle, Goals
    <3> QED
      BY <1>0, <1>3, <2>1, <3>1, TypeHandles DEF Create
  <2>2. CASE Finish(r) /\ UNCHANGED <<present, setting, batches>>
    BY <1>0, <1>3, <2>2, TypeEnds DEF Create, userVars
  <2> QED
    BY <1>3, <2>1, <2>2 DEF Create
<1>4. CASE LookUp(r)
  <2>1. /\ pc[r] = "save" /\ pc' = [pc EXCEPT ![r] = "write"]
        /\ cols' = [cols EXCEPT ![r] = Changed(setting, entity[r])]
        /\ UNCHANGED <<present, setting, batches, given, spent, again, goal, entity, token>>
    BY <1>4 DEF LookUp, Goto, userVars
  <2>2. Changed(setting, entity[r]) \in SUBSET Columns
    BY <1>0 DEF Changed, Rows, Columns
  <2>3. DOMAIN Blank = Columns /\ Rows' = Rows /\ Issued' = Issued
    BY <2>1 DEF Blank, Columns, Rows, Issued
  <2>4. TypeOK'
    BY <1>0, <2>1, <2>2, <2>3 DEF TypeInv, TypeOK
  <2>5. CarriesOK'
    BY <2>1 DEF TypeInv, TypeOK, CarriesOK
  <2> QED
    BY <2>4, <2>5 DEF TypeInv
<1>5. CASE Write(r)
  <2>1. /\ pc[r] = "write" /\ Finish(r) /\ UNCHANGED <<present, batches>>
        /\ setting' = Written(setting, entity[r], cols[r])
        /\ spent' = spent \cup token[r] /\ again' = again \cup (spent \cap token[r])
    BY <1>5 DEF Write
  <2>2. given \subseteq given' /\ given' \subseteq Issued
    <3>1. CASE goal[r] \in {"enable", "regenerate"} /\ given' = given \cup entity[r].codes
      <4>1. entity[r].codes \subseteq Issued
        BY <1>0, <2>1, <3>1 DEF Rows, TypeInv, CarriesOK
      <4> QED
        BY <1>0, <3>1, <4>1
    <3> QED
      BY <1>0, <1>5, <3>1 DEF Write
  <2>3. setting' \in Rows
    BY <1>0, <2>1, WrittenRow
  <2>4. spent' \subseteq given' /\ again' \subseteq spent'
    BY <1>0, <2>1, <2>2
  <2> QED
    BY <1>0, <2>1, <2>2, <2>3, <2>4, TypeEnds
<1>6. CASE Abort(r)
  BY <1>0, <1>6, TypeEnds DEF Abort, userVars
<1> QED
  BY <1>1, <1>2, <1>3, <1>4, <1>5, <1>6 DEF Step

LEMMA TypeInvInit == Init => TypeInv
<1> SUFFICES ASSUME Init PROVE TypeInv
  OBVIOUS
<1>1. Blank \in Rows
  BY BlankRow DEF Init
<1>2. present \in BOOLEAN /\ alone \in BOOLEAN
  BY DEF Init
<1>3. setting \in Rows /\ batches \in 0 .. MaxBatch
  BY <1>1, SettingsAssumption DEF Init
<1>4. /\ given \subseteq Issued /\ spent \subseteq given /\ again \subseteq spent
      /\ token \in [Requests -> SUBSET Codes] /\ cols \in [Requests -> SUBSET DOMAIN Blank]
  BY DEF Init
<1>5. /\ pc \in [Requests -> {"idle", "create", "save", "write"}]
      /\ goal \in [Requests -> Goals \cup {"none", "use"}] /\ entity \in [Requests -> Rows]
  BY <1>1 DEF Init
<1>6. TypeOK
  BY <1>2, <1>3, <1>4, <1>5 DEF TypeOK
<1>7. CarriesOK
  BY DEF Init, CarriesOK
<1> QED
  BY <1>6, <1>7 DEF TypeInv

LEMMA TypeInvStep == TypeInv /\ [Next]_vars => TypeInv'
<1> SUFFICES ASSUME TypeInv, [Next]_vars PROVE TypeInv'
  OBVIOUS
<1>1. ASSUME NEW r \in Requests, Step(r),
             alone' = (alone /\ \A q \in Requests \ {r} : pc[q] = "idle")
      PROVE  TypeInv'
  <2>1. alone' \in BOOLEAN
    BY <1>1
  <2> QED
    BY <1>1, <2>1, TypeStep
<1>2. CASE UNCHANGED vars
  BY <1>2 DEF vars, TypeInv, TypeOK, CarriesOK, Rows, Issued, Blank, userVars, localVars
<1> QED
  BY <1>1, <1>2 DEF Next

LEMMA TypeInvariant == Spec => []TypeInv
BY TypeInvInit, TypeInvStep, PTL DEF Spec

\* TypeOK for any number of requests and batches: the row and every copy of it
\* only hold codes of batches that were generated, and the user was shown every
\* code that was accepted.
THEOREM SettingsTyped == Spec => []TypeOK
<1>1. TypeInv => TypeOK
  BY DEF TypeInv
<1> QED
  BY <1>1, TypeInvariant, PTL

-----------------------------------------------------------------------------
(***************************************************************************)
(* A code that is gone stays gone.                                         *)
(***************************************************************************)
StaysGone == \A c \in Codes : Gone(c) => Gone(c)'

\* save() only moves codes between the row and the copies; others are new.
LEMMA CodesMove ==
  ASSUME TypeInv, NEW r \in Requests, NEW e, entity' = [entity EXCEPT ![r] = e],
         batches' \in Nat, batches <= batches',
         CodesIn(setting') \subseteq CodesIn(setting) \cup CodesIn(entity[r]),
         \A d \in CodesIn(e) :
           d \in CodesIn(setting) \/ d \in CodesIn(entity[r]) \/ d[1] = batches + 1
  PROVE  StaysGone
<1> SUFFICES ASSUME NEW c \in Codes, Gone(c) PROVE Gone(c)'
  BY DEF StaysGone
<1>1. batches \in Nat /\ c[1] \in Nat /\ entity'[r] = e
  BY SettingsAssumption DEF TypeInv, TypeOK, Codes
<1>2. c \notin CodesIn(e) /\ c \notin CodesIn(setting')
  BY <1>1 DEF Gone
<1>3. \A q \in Requests : q # r => entity'[q] = entity[q]
  BY DEF TypeInv, TypeOK
<1>4. \A q \in Requests : c \notin CodesIn(entity'[q])
  BY <1>1, <1>2, <1>3 DEF Gone
<1>5. c[1] <= batches'
  BY <1>1 DEF Gone
<1> QED
  BY <1>2, <1>4, <1>5 DEF Gone, CodesIn

LEMMA CodesOfCopies ==
  ASSUME NEW e \in Rows, batches \in 0 .. MaxBatch, batches \in Nat
  PROVE  /\ CodesIn(Cleared(e)) = {} /\ CodesIn(Blank) = {}
         /\ \A b \in BOOLEAN : CodesIn(Toggled(e, b)) = CodesIn(e)
         /\ \A c \in CodesIn(e) : CodesIn(Used(e, c)) = CodesIn(e) \ {c}
         /\ batches' = batches + 1 /\ batches' \in 0 .. MaxBatch =>
              /\ CodesIn(Enrolled(e, batches + 1)) = CodesOf(batches + 1)
              /\ CodesIn(Renewed(e, batches + 1)) = CodesOf(batches + 1)
<1>1. CodesIn(Cleared(e)) = {} /\ CodesIn(Blank) = {}
  BY Edits, BlankRow DEF CodesIn
<1>2. \A b \in BOOLEAN : CodesIn(Toggled(e, b)) = CodesIn(e)
  BY Edits DEF CodesIn
<1>3. ASSUME NEW c \in CodesIn(e) PROVE CodesIn(Used(e, c)) = CodesIn(e) \ {c}
  <2>1. c \in e.codes /\ e.codes # NoCodes /\ CodesIn(e) = e.codes
    BY <1>3 DEF CodesIn
  <2>2. Used(e, c).codes = e.codes \ {c}
    BY <2>1, Edits
  <2>3. e.codes \ {c} \in SUBSET Codes
    BY <2>1, SettingsAssumption DEF Rows, Issued, Codes
  <2>4. \A S \in SUBSET Codes : S # NoCodes
    BY SettingsAssumption DEF Codes
  <2> QED
    BY <2>1, <2>2, <2>3, <2>4 DEF CodesIn
<1>4. ASSUME batches' = batches + 1, batches' \in 0 .. MaxBatch
      PROVE  /\ CodesIn(Enrolled(e, batches + 1)) = CodesOf(batches + 1)
             /\ CodesIn(Renewed(e, batches + 1)) = CodesOf(batches + 1)
  BY <1>4, Fresh, NewCodes DEF CodesIn
<1> QED
  BY <1>1, <1>2, <1>3, <1>4

LEMMA HandleKeepsGone ==
  ASSUME TypeInv, NEW r \in Requests, NEW g \in Goals, NEW e \in Rows, Handle(r, g, e),
         setting' = e, CodesIn(e) \subseteq CodesIn(setting)
  PROVE  StaysGone
<1>0. batches \in Nat /\ batches \in 0 .. MaxBatch /\ batches <= batches
  BY SettingsAssumption DEF TypeInv, TypeOK
<1>s. /\ CodesIn(setting') \subseteq CodesIn(setting) \cup CodesIn(entity[r])
      /\ \A d \in CodesIn(e) : d \in CodesIn(setting)
  BY DEF CodesIn
<1>1. CASE Finish(r) /\ UNCHANGED batches
  <2>1. entity' = [entity EXCEPT ![r] = Blank] /\ CodesIn(Blank) = {}
    BY <1>0, <1>1, BlankRow DEF Finish
  <2> QED
    BY <1>0, <1>s, <1>1, <2>1, CodesMove
<1>2. ASSUME NEW b \in BOOLEAN, Save(r, "toggle", Toggled(e, b)), UNCHANGED batches
      PROVE  StaysGone
  <2>1. /\ entity' = [entity EXCEPT ![r] = Toggled(e, b)]
        /\ CodesIn(Toggled(e, b)) = CodesIn(e)
    BY <1>0, <1>2, CodesOfCopies DEF Save, SaveFor
  <2> QED
    BY <1>0, <1>s, <1>2, <2>1, CodesMove
<1>3. CASE UNCHANGED batches /\ Save(r, "disable", Cleared(e))
  <2>1. entity' = [entity EXCEPT ![r] = Cleared(e)] /\ CodesIn(Cleared(e)) = {}
    BY <1>0, <1>3, CodesOfCopies DEF Save, SaveFor
  <2> QED
    BY <1>0, <1>s, <1>3, <2>1, CodesMove
<1>4. ASSUME NewBatch, \/ Save(r, "enable", Enrolled(e, batches + 1))
                       \/ Save(r, "regenerate", Renewed(e, batches + 1))
      PROVE  StaysGone
  <2>1. batches' = batches + 1 /\ batches' \in 0 .. MaxBatch /\ batches' \in Nat /\ batches <= batches'
    BY <1>0, <1>4, SettingsAssumption DEF NewBatch
  <2>2. PICK f \in {Enrolled(e, batches + 1), Renewed(e, batches + 1)} :
          entity' = [entity EXCEPT ![r] = f]
    BY <1>4 DEF Save, SaveFor
  <2>3. CodesIn(f) = CodesOf(batches + 1)
    BY <1>0, <2>1, <2>2, CodesOfCopies
  <2>4. \A d \in CodesIn(f) : d[1] = batches + 1
    BY <1>0, <2>1, <2>3, NewCodes
  <2> QED
    BY <1>s, <2>1, <2>2, <2>4, CodesMove
<1> QED
  BY <1>1, <1>2, <1>3, <1>4, Handles DEF Outcome

LEMMA StepKeepsGone ==
  ASSUME TypeInv, NEW r \in Requests, Step(r)
  PROVE  StaysGone
<1>0. /\ setting \in Rows /\ entity[r] \in Rows /\ Blank \in Rows /\ CodesIn(Blank) = {}
      /\ batches \in Nat /\ batches \in 0 .. MaxBatch /\ batches <= batches
      /\ entity = [entity EXCEPT ![r] = entity[r]]
  <2>1. batches \in Nat
    BY SettingsAssumption DEF TypeInv, TypeOK
  <2> QED
    BY <2>1, BlankRow DEF TypeInv, TypeOK
<1>f. ASSUME Finish(r) PROVE entity' = [entity EXCEPT ![r] = Blank]
  BY <1>f DEF Finish
<1>1. ASSUME NEW g \in Goals, Get(r, g) PROVE StaysGone
  <2>1. CASE Handle(r, g, setting)
    BY <1>0, <1>1, <2>1, HandleKeepsGone DEF Get
  <2>2. CASE UNCHANGED <<entity, batches>>
    BY <1>0, <1>1, <2>2, CodesMove DEF Get
  <2> QED
    BY <1>1, <2>1, <2>2 DEF Get
<1>2. ASSUME NEW c \in Codes, VerifyBackupCode(r, c) PROVE StaysGone
  <2>1. /\ c \in CodesIn(setting) /\ entity' = [entity EXCEPT ![r] = Used(setting, c)]
        /\ UNCHANGED <<setting, batches>>
    BY <1>2 DEF VerifyBackupCode, SaveFor, Used
  <2>2. CodesIn(Used(setting, c)) = CodesIn(setting) \ {c}
    BY <1>0, <2>1, CodesOfCopies
  <2> QED
    BY <1>0, <2>1, <2>2, CodesMove
<1>3. CASE Create(r)
  <2>1. CASE setting' = Blank /\ Handle(r, goal[r], Blank)
    <3>1. goal[r] \in Goals
      BY <2>1 DEF Handle, Goals
    <3> QED
      BY <1>0, <2>1, <3>1, HandleKeepsGone
  <2>2. CASE Finish(r) /\ UNCHANGED <<setting, batches>>
    BY <1>0, <1>f, <2>2, CodesMove
  <2> QED
    BY <1>3, <2>1, <2>2 DEF Create
<1>4. CASE LookUp(r)
  BY <1>0, <1>4, CodesMove DEF LookUp
<1>5. CASE Write(r)
  <2>1. Finish(r) /\ UNCHANGED batches /\ setting' = Written(setting, entity[r], cols[r])
    BY <1>5 DEF Write
  <2>2. CodesIn(setting') \subseteq CodesIn(setting) \cup CodesIn(entity[r])
    BY <1>0, <2>1, WrittenRow DEF CodesIn
  <2> QED
    BY <1>0, <1>f, <2>1, <2>2, CodesMove
<1>6. CASE Abort(r)
  BY <1>0, <1>f, <1>6, CodesMove DEF Abort
<1> QED
  BY <1>1, <1>2, <1>3, <1>4, <1>5, <1>6 DEF Step

\* GoneForGood for any number of requests and batches: a backup code that is
\* neither stored nor in the copy of a running request never comes back.
THEOREM CodesStayGone == Spec => GoneForGood
<1>1. TypeInv /\ [Next]_vars => [StaysGone]_vars
  BY StepKeepsGone DEF Next
<1>2. Spec => [][StaysGone]_vars
  BY <1>1, TypeInvariant, PTL DEF Spec
<1>3. GoneForGood <=> [][StaysGone]_vars
  BY PTL DEF GoneForGood, StaysGone
<1> QED
  BY <1>2, <1>3, PTL

-----------------------------------------------------------------------------
(***************************************************************************)
(* One request at a time.  The codes of the row are those that were shown  *)
(* last and not accepted, and a copy that is about to be saved differs     *)
(* from the row only in what its request came for.                         *)
(***************************************************************************)
SoundRow(e) ==
  /\ again = {} /\ CodesIn(e) \cap spent = {}
  /\ e.on => CodesIn(e) = ShownLast \ spent

CopyInv(g, e, T) ==
  /\ CodesIn(e) \cap spent = {}
  /\ g # "enable" /\ e.on => setting.on
  /\ g = "toggle" => CodesIn(e) = CodesIn(setting)
  /\ g = "use" => CodesIn(e) = CodesIn(setting) \ T /\ T \subseteq CodesIn(setting)
  /\ g = "disable" => ~e.on
  /\ g \in {"enable", "regenerate"} =>
       /\ CodesIn(e) # {}
       /\ \A c, d \in CodesIn(e) : c[1] = d[1]
       /\ \A c \in CodesIn(e), d \in given : d[1] < c[1]
  /\ g # "use" => T = {}

OwnInv(r) ==
  /\ pc[r] \in {"save", "write"} => CopyInv(goal[r], entity[r], token[r])
  /\ pc[r] = "write" => cols[r] = Changed(setting, entity[r])

AloneInv == alone => SoundRow(setting) /\ \A r \in Requests : pc[r] # "idle" => OwnInv(r)

Others(r) == \A q \in Requests \ {r} : pc[q] = "idle"

LEMMA AloneMoves ==
  ASSUME TypeInv, NEW r \in Requests, Others(r), NEW l, pc' = [pc EXCEPT ![r] = l],
         SoundRow(setting)', l # "idle" => OwnInv(r)'
  PROVE  AloneInv'
<1>1. \A q \in Requests : q # r => pc'[q] = "idle"
  BY DEF Others, TypeInv, TypeOK
<1>2. pc'[r] = l
  BY DEF TypeInv, TypeOK
<1>3. ASSUME NEW q \in Requests, pc'[q] # "idle" PROVE OwnInv(q)'
  BY <1>1, <1>2, <1>3
<1> QED
  BY <1>3 DEF AloneInv

LEMMA AloneSaves ==
  ASSUME TypeInv, NEW r \in Requests, Others(r), SoundRow(setting)',
         NEW g, NEW e, NEW T, SaveFor(r, g, e, T), CopyInv(g, e, T)'
  PROVE  AloneInv'
<1>1. /\ pc' = [pc EXCEPT ![r] = "save"] /\ pc'[r] = "save"
      /\ goal'[r] = g /\ entity'[r] = e /\ token'[r] = T
  BY DEF SaveFor, Goto, For, TypeInv, TypeOK
<1>2. CopyInv(goal[r], entity[r], token[r])'
  BY <1>1 DEF CopyInv, CodesIn
<1>3. OwnInv(r)'
  BY <1>1, <1>2 DEF OwnInv
<1> QED
  BY <1>1, <1>3, AloneMoves

LEMMA AloneEnds ==
  ASSUME TypeInv, NEW r \in Requests, Others(r), Finish(r), SoundRow(setting)'
  PROVE  AloneInv'
BY AloneMoves DEF Finish, Goto

LEMMA AloneHandles ==
  ASSUME TypeInv, NEW r \in Requests, Others(r), NEW g \in Goals, NEW e \in Rows,
         Handle(r, g, e), setting' = e, UNCHANGED userVars, SoundRow(e)
  PROVE  AloneInv'
<1>0. /\ batches \in Nat /\ batches \in 0 .. MaxBatch /\ batches <= batches
      /\ given \subseteq Issued /\ spent \subseteq given
  BY SettingsAssumption DEF TypeInv, TypeOK
<1>1. SoundRow(setting)'
  BY DEF SoundRow, ShownLast, CodesIn, userVars
<1>2. CASE Finish(r)
  BY <1>1, <1>2, AloneEnds
<1>3. ASSUME NEW b \in BOOLEAN, Save(r, "toggle", Toggled(e, b)) PROVE AloneInv'
  <2>1. CodesIn(Toggled(e, b)) = CodesIn(e) /\ Toggled(e, b).on = e.on
    BY <1>0, CodesOfCopies, Edits
  <2>2. CopyInv("toggle", Toggled(e, b), {})'
    BY <2>1 DEF CopyInv, CodesIn, SoundRow, userVars
  <2> QED
    BY <1>1, <1>3, <2>2, AloneSaves DEF Save
<1>4. CASE Save(r, "disable", Cleared(e))
  <2>1. CodesIn(Cleared(e)) = {} /\ ~Cleared(e).on
    BY <1>0, CodesOfCopies, Edits
  <2>2. CopyInv("disable", Cleared(e), {})'
    BY <2>1 DEF CopyInv, CodesIn
  <2> QED
    BY <1>1, <1>4, <2>2, AloneSaves DEF Save
<1>5. ASSUME NewBatch, \/ Save(r, "enable", Enrolled(e, batches + 1))
                       \/ e.on /\ Save(r, "regenerate", Renewed(e, batches + 1))
      PROVE  AloneInv'
  <2>1. batches' = batches + 1 /\ batches' \in 0 .. MaxBatch
    BY <1>0, <1>5, SettingsAssumption DEF NewBatch
  <2>2. ASSUME NEW f \in {Enrolled(e, batches + 1), Renewed(e, batches + 1)},
               NEW h \in {"enable", "regenerate"}, h # "enable" => f.on = e.on /\ e.on,
               Save(r, h, f)
        PROVE  AloneInv'
    <3>1. /\ CodesIn(f) = CodesOf(batches + 1)
          /\ \A d \in CodesIn(f) : d[1] = batches + 1
          /\ CodesIn(f) # {}
      BY <1>0, <2>1, CodesOfCopies, NewCodes
    <3>2. \A d \in given : d[1] \in Nat /\ d[1] < batches + 1
      BY <1>0 DEF Issued
    <3>3. CodesIn(f) \cap spent = {}
      BY <1>0, <3>1, <3>2
    <3>4. CopyInv(h, f, {})'
      BY <2>2, <3>1, <3>2, <3>3 DEF CopyInv, CodesIn, userVars
    <3> QED
      BY <1>1, <2>2, <3>4, AloneSaves DEF Save
  <2>3. Renewed(e, batches + 1).on = e.on
    BY <1>0, <2>1, Fresh
  <2> QED
    BY <1>5, <2>2, <2>3
<1> QED
  BY <1>2, <1>3, <1>4, <1>5, Handles DEF Outcome

\* The save of a copy over the row it was read from.
LEMMA AloneWrites ==
  ASSUME TypeInv, NEW r \in Requests, Others(r), SoundRow(setting), OwnInv(r), Write(r)
  PROVE  AloneInv'
<1> DEFINE e == entity[r]  T == token[r]  g == goal[r]
<1>1. /\ setting \in Rows /\ e \in Rows /\ given \subseteq Issued /\ spent \subseteq given
      /\ batches \in Nat
  BY SettingsAssumption DEF TypeInv, TypeOK
<1>2. pc[r] = "write" /\ Finish(r)
  BY DEF Write
<1>3. CopyInv(g, e, T) /\ cols[r] = Changed(setting, e)
  BY <1>2 DEF OwnInv
<1>4. setting' = e
  BY <1>1, <1>3, WrittenRow DEF Write
<1>5. spent' = spent \cup T /\ again' = again \cup (spent \cap T)
  BY DEF Write
<1>6. again' = {} /\ CodesIn(e) \cap spent' = {}
  BY <1>3, <1>5 DEF CopyInv, SoundRow
<1>7. ASSUME e.on PROVE CodesIn(e) = ShownLast' \ spent'
  <2>1. CASE g \in {"enable", "regenerate"} /\ given' = given \cup e.codes
    <3>1. CodesIn(e) = e.codes /\ T = {} /\ spent' = spent
      BY <1>2, <1>3, <1>5, <2>1 DEF CopyInv, CodesIn, TypeInv, CarriesOK
    <3>2. \A d \in given' : d[1] \in Nat
      BY <1>1, <2>1, <3>1 DEF Issued, Rows, CodesIn
    <3>3. ASSUME NEW c \in CodesIn(e) PROVE c \in ShownLast'
      <4>1. ASSUME NEW d \in given' PROVE d[1] <= c[1]
        BY <1>3, <2>1, <3>1, <3>2 DEF CopyInv
      <4> QED
        BY <2>1, <3>1, <4>1 DEF ShownLast
    <3>4. ASSUME NEW c \in ShownLast' PROVE c \in CodesIn(e)
      <4>1. PICK d \in CodesIn(e) : TRUE
        BY <1>3, <2>1 DEF CopyInv
      <4>2. c \in given' /\ d[1] <= c[1] /\ c[1] \in Nat /\ d[1] \in Nat
        BY <2>1, <3>1, <3>2, <3>4 DEF ShownLast
      <4>3. c \in given => c[1] < d[1]
        BY <1>3, <2>1 DEF CopyInv
      <4> QED
        BY <2>1, <3>1, <4>2, <4>3
    <3>5. CodesIn(e) \cap spent = {}
      BY <1>3 DEF CopyInv
    <3> QED
      BY <3>1, <3>3, <3>4, <3>5
  <2>2. CASE g = "toggle" /\ UNCHANGED given
    BY <1>3, <1>5, <1>7, <2>2 DEF CopyInv, SoundRow, ShownLast
  <2>3. CASE g = "disable"
    BY <1>3, <1>7, <2>3 DEF CopyInv
  <2>4. CASE g = "use" /\ UNCHANGED given
    <3>1. ShownLast' = ShownLast
      BY <2>4 DEF ShownLast
    <3>2. setting.on /\ CodesIn(e) = CodesIn(setting) \ T
      BY <1>3, <1>7, <2>4 DEF CopyInv
    <3> QED
      BY <1>5, <3>1, <3>2 DEF SoundRow
  <2> QED
    BY <2>1, <2>2, <2>3, <2>4 DEF Write
<1>8. SoundRow(setting)'
  BY <1>4, <1>6, <1>7 DEF SoundRow, CodesIn
<1> QED
  BY <1>2, <1>8, AloneEnds

LEMMA AloneStep ==
  ASSUME TypeInv, NEW r \in Requests, Others(r), SoundRow(setting),
         pc[r] # "idle" => OwnInv(r), Step(r)
  PROVE  AloneInv'
<1>0. /\ setting \in Rows /\ Blank \in Rows /\ CodesIn(Blank) = {}
      /\ batches \in Nat /\ batches \in 0 .. MaxBatch
  <2>1. batches \in Nat
    BY SettingsAssumption DEF TypeInv, TypeOK
  <2> QED
    BY <2>1, BlankRow DEF TypeInv, TypeOK
<1>r. ASSUME UNCHANGED <<setting, userVars>> PROVE SoundRow(setting)'
  BY <1>r DEF SoundRow, ShownLast, CodesIn, userVars
<1>1. ASSUME NEW g \in Goals, Get(r, g) PROVE AloneInv'
  <2>1. CASE Handle(r, g, setting)
    BY <1>0, <1>1, <2>1, AloneHandles DEF Get
  <2>2. CASE Goto(r, "create") /\ UNCHANGED <<entity, token, cols, batches>>
    <3>1. pc' = [pc EXCEPT ![r] = "create"] /\ pc'[r] = "create"
      BY <2>2 DEF Goto, TypeInv, TypeOK
    <3>2. OwnInv(r)'
      BY <3>1 DEF OwnInv
    <3> QED
      BY <1>1, <1>r, <3>1, <3>2, AloneMoves DEF Get
  <2> QED
    BY <1>1, <2>1, <2>2 DEF Get
<1>2. ASSUME NEW c \in Codes, VerifyBackupCode(r, c) PROVE AloneInv'
  <2>1. /\ c \in CodesIn(setting) /\ SaveFor(r, "use", Used(setting, c), {c}) /\ setting.on
        /\ UNCHANGED <<setting, userVars>>
    BY <1>2 DEF VerifyBackupCode, Used
  <2>2. CodesIn(Used(setting, c)) = CodesIn(setting) \ {c}
    BY <1>0, <2>1, CodesOfCopies
  <2>3. CopyInv("use", Used(setting, c), {c})'
    BY <2>1, <2>2 DEF CopyInv, CodesIn, SoundRow, userVars
  <2> QED
    BY <1>r, <2>1, <2>3, AloneSaves
<1>3. CASE Create(r)
  <2>1. CASE setting' = Blank /\ Handle(r, goal[r], Blank)
    <3>1. goal[r] \in Goals
      BY <2>1 DEF Handle, Goals
    <3>2. SoundRow(Blank)
      BY <1>0 DEF SoundRow, Blank
    <3> QED
      BY <1>0, <1>3, <2>1, <3>1, <3>2, AloneHandles DEF Create
  <2>2. CASE Finish(r) /\ UNCHANGED setting
    BY <1>3, <1>r, <2>2, AloneEnds DEF Create
  <2> QED
    BY <1>3, <2>1, <2>2 DEF Create
<1>4. CASE LookUp(r)
  <2>1. /\ pc[r] = "save" /\ pc'[r] = "write" /\ pc' = [pc EXCEPT ![r] = "write"]
        /\ cols'[r] = Changed(setting, entity[r])
        /\ UNCHANGED <<setting, userVars, goal, entity, token>>
    BY <1>4 DEF LookUp, Goto, TypeInv, TypeOK
  <2>2. CopyInv(goal[r], entity[r], token[r])'
    BY <2>1 DEF OwnInv, CopyInv, CodesIn, userVars
  <2>3. Changed(setting, entity[r])' = Changed(setting, entity[r])
    BY <2>1 DEF Changed
  <2>4. OwnInv(r)'
    BY <2>1, <2>2, <2>3 DEF OwnInv
  <2> QED
    BY <1>r, <2>1, <2>4, AloneMoves
<1>5. CASE Write(r)
  <2>1. OwnInv(r)
    BY <1>5 DEF Write
  <2> QED
    BY <1>5, <2>1, AloneWrites
<1>6. CASE Abort(r)
  BY <1>r, <1>6, AloneEnds DEF Abort
<1> QED
  BY <1>1, <1>2, <1>3, <1>4, <1>5, <1>6 DEF Step

LEMMA AloneInvStep == TypeInv /\ AloneInv /\ [Next]_vars => AloneInv'
<1> SUFFICES ASSUME TypeInv, AloneInv, [Next]_vars PROVE AloneInv'
  OBVIOUS
<1>1. ASSUME NEW r \in Requests, Step(r), alone' = (alone /\ Others(r)), alone' PROVE AloneInv'
  <2>1. Others(r) /\ SoundRow(setting) /\ (pc[r] # "idle" => OwnInv(r))
    BY <1>1 DEF AloneInv
  <2> QED
    BY <1>1, <2>1, AloneStep
<1>2. ASSUME ~alone' PROVE AloneInv'
  BY <1>2 DEF AloneInv
<1>3. CASE UNCHANGED vars
  BY <1>3 DEF vars, AloneInv, SoundRow, ShownLast, OwnInv, CopyInv, CodesIn, Changed,
              userVars, localVars
<1> QED
  BY <1>1, <1>2, <1>3 DEF Next, Others

LEMMA AloneInvInit == Init => AloneInv
BY DEF Init, AloneInv, SoundRow, CodesIn, Blank

LEMMA AloneInvariant == Spec => [](TypeInv /\ AloneInv)
<1>1. TypeInv /\ AloneInv /\ [Next]_vars => (TypeInv /\ AloneInv)'
  BY TypeInvStep, AloneInvStep
<1> QED
  BY <1>1, TypeInvInit, AloneInvInit, PTL DEF Spec

\* BackupCodeOnce for any number of requests and batches: one after the other,
\* and whichever of them fail, they accept a backup code once.
THEOREM CodeSpentOnce == Spec => []BackupCodeOnce
<1>1. AloneInv => BackupCodeOnce
  BY DEF AloneInv, SoundRow, BackupCodeOnce
<1> QED
  BY <1>1, AloneInvariant, PTL

\* UnspentAreStored for any number of requests and batches: of the codes shown
\* last, those that are stored are those that were not accepted.
THEOREM UnspentStayStored == Spec => []UnspentAreStored
<1>1. AloneInv => UnspentAreStored
  BY DEF AloneInv, SoundRow, UnspentAreStored
<1> QED
  BY <1>1, AloneInvariant, PTL

\* DisabledWhileAlone for any number of requests: of requests that follow each
\* other only enableAuthenticator turns the authenticator on again.
THEOREM StaysDisabled == Spec => DisabledWhileAlone
<1>1. ASSUME TypeInv, AloneInv, [Next]_vars, Reenabled, alone PROVE Enables
  <2>1. ~setting.on /\ setting'.on
    BY <1>1 DEF Reenabled
  <2>2. setting' # setting
    BY <2>1
  <2>3. PICK r \in Requests : Step(r)
    BY <1>1, <2>2 DEF Next, vars
  <2>4. CASE Write(r)
    <3>1. pc[r] = "write" /\ CopyInv(goal[r], entity[r], token[r]) /\ cols[r] = Changed(setting, entity[r])
      BY <1>1, <2>4 DEF Write, AloneInv, OwnInv
    <3>2. setting' = entity[r]
      BY <1>1, <2>4, <3>1, WrittenRow DEF Write, TypeInv, TypeOK
    <3>3. goal[r] = "enable"
      BY <2>1, <3>1, <3>2 DEF CopyInv
    <3> QED
      BY <3>1, <3>3 DEF Enables
  <2>5. CASE Create(r)
    BY <2>1, <2>2, <2>5 DEF Create, Blank
  <2> QED
    BY <2>2, <2>3, <2>4, <2>5 DEF Step, Get, VerifyBackupCode, LookUp, Abort
<1>2. TypeInv /\ AloneInv /\ [Next]_vars => [Reenabled /\ alone => Enables]_vars
  BY <1>1
<1>3. Spec => [][Reenabled /\ alone => Enables]_vars
  BY <1>2, AloneInvariant, PTL DEF Spec
<1>4. DisabledWhileAlone <=> [][Reenabled /\ alone => Enables]_vars
  BY DEF DisabledWhileAlone
<1> QED
  BY <1>3, <1>4, PTL
=============================================================================
