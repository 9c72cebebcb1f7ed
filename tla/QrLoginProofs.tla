---------------------------- MODULE QrLoginProofs ----------------------------
(***************************************************************************)
(* QR login keeps the promise of a one-time code, for every number of      *)
(* codes and requests and every lifetime.                                  *)
(***************************************************************************)
EXTENDS QrLogin, TLAPS

\* The part of TypeOK that says when a code can be claimed.
RowsTyped ==
  /\ status \in [Codes -> Statuses]
  /\ used \subseteq Codes
  /\ claims \in [Codes -> Nat]
  /\ code \in [Requests -> Codes \cup {NoCode}]
  /\ \A r \in Requests : pc[r] \in {"lapse", "claim", "grant"} => code[r] \in Codes
  /\ \A r \in Requests : code[r] \in Codes => status[code[r]] # "none"
  /\ pc \in [Requests -> Labels]

\* used_at is set exactly by the UPDATE that takes a row out of pending, so a
\* row that can still be claimed has never been.
UnusedWhileOpen ==
  \A c \in used : status[c] \in {"used", "expired"}

Inv == RowsTyped /\ UnusedWhileOpen

\* Initially there are no rows.
LEMMA InitInv == Init => Inv
BY QrAssumption DEF Init, Inv, RowsTyped, UnusedWhileOpen, Statuses, Labels

\* Every statement of every handler keeps the invariant.
LEMMA StepInv == Inv /\ [Next]_vars => Inv'
<1> SUFFICES ASSUME Inv, [Next]_vars PROVE Inv'
  OBVIOUS
<1> USE QrAssumption DEF Inv, RowsTyped, UnusedWhileOpen, Statuses, Labels
<1>1. ASSUME NEW r \in Requests, ExpirePending(r) PROVE Inv'
  BY <1>1 DEF ExpirePending, Pending, Goto
<1>2. ASSUME NEW r \in Requests, InsertPending(r) PROVE Inv'
  BY <1>2 DEF InsertPending, Finish, Goto
<1>3. ASSUME NEW r \in Requests, Lapse(r) PROVE Inv'
  BY <1>3 DEF Lapse, Finish, Goto
<1>4. ASSUME NEW r \in Requests, Claim(r) PROVE Inv'
  BY <1>4 DEF Claim, Finish, Hold, Goto
<1>5. ASSUME NEW r \in Requests, Grant(r) PROVE Inv'
  BY <1>5 DEF Grant, Finish, Goto, rowVars
<1>6. ASSUME NEW r \in Requests, Abort(r) PROVE Inv'
  BY <1>6 DEF Abort, Finish, Goto, rowVars
<1>7. ASSUME NEW r \in Requests, NEW c \in Codes, ReadLapsed(r, c) PROVE Inv'
  BY <1>7 DEF ReadLapsed, Hold, Goto, rowVars, Pending
<1>8. ASSUME NEW r \in Requests, NEW c \in Codes, ReadScanned(r, c) PROVE Inv'
  BY <1>8 DEF ReadScanned, Hold, Goto, rowVars, Pending
<1>9. CASE MinutePasses
  BY <1>9 DEF MinutePasses, rowVars, localVars
<1>10. CASE UNCHANGED vars
  BY <1>10 DEF vars, rowVars, localVars
<1> QED
  BY <1>1, <1>2, <1>3, <1>4, <1>5, <1>6, <1>7, <1>8, <1>9, <1>10 DEF Next

\* Every row that a handler works on exists, whatever interleaves.
LEMMA StepTypeOK == TypeOK /\ [Next]_vars => TypeOK'
<1> SUFFICES ASSUME TypeOK, [Next]_vars PROVE TypeOK'
  OBVIOUS
<1> USE QrAssumption DEF TypeOK, Statuses, Labels
<1>1. ASSUME NEW r \in Requests, ExpirePending(r) PROVE TypeOK'
  BY <1>1 DEF ExpirePending, Pending, Goto
<1>2. ASSUME NEW r \in Requests, InsertPending(r) PROVE TypeOK'
  BY <1>2 DEF InsertPending, Finish, Goto
<1>3. ASSUME NEW r \in Requests, Lapse(r) PROVE TypeOK'
  BY <1>3 DEF Lapse, Finish, Goto
<1>4. ASSUME NEW r \in Requests, Claim(r) PROVE TypeOK'
  BY <1>4 DEF Claim, Finish, Hold, Goto
<1>5. ASSUME NEW r \in Requests, Grant(r) \/ Abort(r) PROVE TypeOK'
  BY <1>5 DEF Grant, Abort, Finish, Goto, rowVars
<1>6. ASSUME NEW r \in Requests, NEW c \in Codes, ReadLapsed(r, c) \/ ReadScanned(r, c)
      PROVE  TypeOK'
  BY <1>6 DEF ReadLapsed, ReadScanned, Hold, Goto, rowVars, Pending
<1>7. CASE MinutePasses
  BY <1>7 DEF MinutePasses, rowVars, localVars
<1>8. CASE UNCHANGED vars
  BY <1>8 DEF vars, rowVars, localVars
<1> QED
  BY <1>1, <1>2, <1>3, <1>4, <1>5, <1>6, <1>7, <1>8 DEF Next

\* Rows, clocks and requests stay well-formed: a request only ever works on a
\* row that was inserted.
THEOREM QrTyped == Spec => []TypeOK
<1>1. Init => TypeOK
  BY QrAssumption DEF Init, TypeOK, Statuses, Labels
<1> QED
  BY <1>1, StepTypeOK, PTL DEF Spec

\* No row is issued, claimed or withdrawn before the first request.
LEMMA InitMaps == Init => OneTime!Init
BY DEF Init, OneTime!Init, StateOf

\* createQrLogin withdraws the pending codes and issues one; Claim spends one;
\* Lapse withdraws a code unless a scan has taken it meanwhile, and then what
\* it overwrites does not matter; everything else is invisible.
LEMMA StepMaps == Inv /\ [Next]_vars => [OneTime!Next]_OneTime!vars
<1> SUFFICES ASSUME Inv, [Next]_vars PROVE [OneTime!Next]_OneTime!vars
  OBVIOUS
<1> USE QrAssumption DEF Inv, RowsTyped, UnusedWhileOpen, Statuses
<1>1. ASSUME NEW r \in Requests, ExpirePending(r) PROVE OneTime!Withdraw(Pending)
  <2>1. \A c \in Pending : StateOf(c) = "open"
    BY DEF Pending, StateOf
  <2>2. \A c \in Codes :
          StateOf(c)' = IF c \in Pending THEN "withdrawn" ELSE StateOf(c)
    BY <1>1 DEF ExpirePending, Pending, StateOf
  <2> QED
    BY <1>1, <2>1, <2>2 DEF OneTime!Withdraw, ExpirePending, Pending
<1>2. ASSUME NEW r \in Requests, InsertPending(r) PROVE OneTime!Next
  <2>1. PICK c \in Codes : /\ status[c] = "none"
                           /\ status' = [status EXCEPT ![c] = "pending"]
    BY <1>2 DEF InsertPending
  <2>2. StateOf(c) = "unissued" /\ StateOf(c)' = "open"
    BY <1>2, <2>1 DEF InsertPending, StateOf
  <2>3. \A d \in Codes \ {c} : StateOf(d)' = StateOf(d)
    BY <1>2, <2>1 DEF InsertPending, StateOf
  <2>4. OneTime!Issue(c)
    BY <1>2, <2>2, <2>3 DEF OneTime!Issue, InsertPending
  <2> QED
    BY <2>4 DEF OneTime!Next
<1>3. ASSUME NEW r \in Requests, Lapse(r) PROVE [OneTime!Next]_OneTime!vars
  <2>1. PICK c \in Codes : c = code[r] /\ status[c] # "none"
    BY <1>3 DEF Lapse
  <2>2. \A d \in Codes \ {c} : StateOf(d)' = StateOf(d)
    BY <1>3, <2>1 DEF Lapse, StateOf
  <2>3. CASE StateOf(c) = "open"
    <3>1. StateOf(c)' = "withdrawn"
      BY <1>3, <2>1, <2>3 DEF Lapse, StateOf
    <3>2. OneTime!Withdraw({c})
      BY <1>3, <2>1, <2>2, <2>3, <3>1 DEF OneTime!Withdraw, Lapse
    <3> QED
      BY <2>1, <3>2 DEF OneTime!Next
  <2>4. CASE StateOf(c) # "open"
    <3>1. StateOf(c)' = StateOf(c)
      BY <1>3, <2>1, <2>4 DEF Lapse, StateOf
    <3> QED
      BY <1>3, <2>1, <2>2, <3>1 DEF OneTime!vars, Lapse
  <2> QED
    BY <2>3, <2>4
<1>4. ASSUME NEW r \in Requests, Claim(r) PROVE [OneTime!Next]_OneTime!vars
  <2>1. PICK c \in Codes : c = code[r]
    BY <1>4 DEF Claim
  <2>2. CASE status[c] = "pending"
    <3>1. StateOf(c) = "open" /\ StateOf(c)' = "spent"
      BY <1>4, <2>1, <2>2 DEF Claim, StateOf
    <3>2. \A d \in Codes \ {c} : StateOf(d)' = StateOf(d)
      BY <1>4, <2>1, <2>2 DEF Claim, StateOf
    <3>3. [d \in Codes |-> StateOf(d)]' = [[d \in Codes |-> StateOf(d)] EXCEPT ![c] = "spent"]
      BY <3>1, <3>2
    <3>4. claims' = [claims EXCEPT ![c] = @ + 1]
      BY <1>4, <2>1, <2>2 DEF Claim
    <3>5. OneTime!Spend(c)
      BY <3>1, <3>3, <3>4 DEF OneTime!Spend
    <3> QED
      BY <2>1, <3>5 DEF OneTime!Next
  <2>3. CASE status[c] # "pending"
    BY <1>4, <2>1, <2>3 DEF Claim, OneTime!vars, StateOf
  <2> QED
    BY <2>2, <2>3
<1>5. ASSUME NEW r \in Requests, Grant(r) \/ Abort(r) PROVE UNCHANGED OneTime!vars
  BY <1>5 DEF Grant, Abort, rowVars, OneTime!vars, StateOf
<1>6. ASSUME NEW r \in Requests, NEW c \in Codes, ReadLapsed(r, c) \/ ReadScanned(r, c)
      PROVE  UNCHANGED OneTime!vars
  BY <1>6 DEF ReadLapsed, ReadScanned, rowVars, OneTime!vars, StateOf
<1>7. CASE MinutePasses \/ UNCHANGED vars
  BY <1>7 DEF MinutePasses, vars, rowVars, OneTime!vars, StateOf
<1>8. Pending \in SUBSET Codes
  BY DEF Pending
<1> QED
  BY <1>1, <1>2, <1>3, <1>4, <1>5, <1>6, <1>7, <1>8 DEF Next, OneTime!Next

\* Whatever scans, polls and new codes interleave, a code lets in one scan at
\* most, and none after it has been withdrawn (scanQrLogin's conditional UPDATE).
THEOREM QrKeepsOneTime == Spec => KeepsOneTime
<1>1. Spec => []Inv
  BY InitInv, StepInv, PTL DEF Spec
<1> QED
  BY <1>1, InitMaps, StepMaps, PTL DEF Spec, KeepsOneTime, OneTime!Spec

=============================================================================
