------------------------- MODULE OtpChallengesProofs -------------------------
(***************************************************************************)
(* Proofs about one-time passwords, for every number of rows, codes,       *)
(* requests and minutes.                                                   *)
(***************************************************************************)
EXTENDS OtpChallenges, TLAPS

-----------------------------------------------------------------------------
(***************************************************************************)
(* Types.  TypeOK is not inductive: a request that inserts, stores or      *)
(* delivers must hold the code, and one past its look-up the row.          *)
(***************************************************************************)
Goals == AllPurposes \cup {"none", "resend", "admit"}

LocalTypeOK ==
  /\ pc \in [Requests -> Labels]
  /\ goal \in [Requests -> Goals]
  /\ row \in [Requests -> issued \cup {NoRow}]
  /\ draft \in [Requests -> made \cup {NoCode}]
  /\ until \in [Requests -> Nat]
  /\ found \in [Requests -> BOOLEAN]

Held(label, g, k, c, end, rows, codes) ==
  /\ label = "insert" => c \in codes /\ g \in AllPurposes
  /\ label \in {"find", "peek", "save", "write", "mail", "delete"} => k \in rows
  /\ label \in {"write", "mail"} => c \in codes
  /\ label = "idle" => end = 0

HeldOK ==
  \A r \in Requests : Held(pc[r], goal[r], row[r], draft[r], until[r], issued, made)

StoredOK == \A k \in issued : otp[k] \in made

TypeInv == StoreTypeOK /\ LocalTypeOK /\ HeldOK /\ StoredOK

LEMMA InitTypeInv == Init => TypeInv
<1> SUFFICES ASSUME Init PROVE TypeInv
  OBVIOUS
<1> USE OtpAssumption DEF Init
<1>1. StoreTypeOK
  <2>1. /\ purpose \in [Rows -> AllPurposes] /\ otp \in [Rows -> Codes \cup {NoCode}]
        /\ expires \in [Rows -> Nat] /\ due \in [Codes -> Nat]
    BY DEF AllPurposes
  <2>2. table = {} /\ issued = {} /\ made = {} /\ mail = {} /\ handed = {}
    OBVIOUS
  <2>3. clock = 0 /\ MaxClock \in Nat
    OBVIOUS
  <2>5. clock \in 0 .. MaxClock
    BY <2>3
  <2> QED
    BY <2>1, <2>2, <2>5 DEF StoreTypeOK
<1>2. LocalTypeOK
  BY DEF LocalTypeOK, Goals, Labels
<1>3. HeldOK
  BY DEF HeldOK, Held
<1>4. StoredOK
  BY DEF StoredOK
<1> QED
  BY <1>1, <1>2, <1>3, <1>4 DEF TypeInv

\* A request moves on: rows and codes only become more.
LEMMA LocalMoves ==
  ASSUME TypeInv, issued \subseteq issued', made \subseteq made',
         NEW r \in Requests, NEW l \in Labels, NEW g \in Goals,
         NEW k \in issued' \cup {NoRow}, NEW c \in made' \cup {NoCode},
         NEW u \in Nat, NEW f \in BOOLEAN,
         pc' = [pc EXCEPT ![r] = l], goal' = [goal EXCEPT ![r] = g],
         row' = [row EXCEPT ![r] = k], draft' = [draft EXCEPT ![r] = c],
         until' = [until EXCEPT ![r] = u], found' = [found EXCEPT ![r] = f],
         Held(l, g, k, c, u, issued', made')
  PROVE  LocalTypeOK' /\ HeldOK'
<1> USE DEF TypeInv
<1>1. LocalTypeOK'
  BY DEF LocalTypeOK
<1>2. ASSUME NEW q \in Requests
      PROVE  Held(pc'[q], goal'[q], row'[q], draft'[q], until'[q], issued', made')
  <2>1. CASE q = r
    BY <2>1 DEF LocalTypeOK, Held
  <2>2. CASE q # r
    <3>1. /\ pc'[q] = pc[q] /\ goal'[q] = goal[q] /\ row'[q] = row[q]
          /\ draft'[q] = draft[q] /\ until'[q] = until[q]
      BY <2>2 DEF LocalTypeOK
    <3>2. Held(pc[q], goal[q], row[q], draft[q], until[q], issued, made)
      BY DEF HeldOK
    <3> QED
      BY <3>1, <3>2 DEF Held
  <2> QED
    BY <2>1, <2>2
<1> QED
  BY <1>1, <1>2 DEF HeldOK

LEMMA FinishKeeps ==
  ASSUME TypeInv, issued \subseteq issued', made \subseteq made',
         NEW r \in Requests, Finish(r)
  PROVE  LocalTypeOK' /\ HeldOK'
<1>1. "idle" \in Labels /\ "none" \in Goals /\ 0 \in Nat /\ FALSE \in BOOLEAN
  BY DEF Labels, Goals
<1>2. Held("idle", "none", NoRow, NoCode, 0, issued', made')
  BY DEF Held
<1> QED
  BY <1>1, <1>2, LocalMoves DEF Finish, Goto, For, Hold

\* What the request holds stays the same, but for the label.
LEMMA GotoKeeps ==
  ASSUME TypeInv, issued \subseteq issued', made \subseteq made',
         NEW r \in Requests, NEW l \in Labels, Goto(r, l), UNCHANGED localVars,
         Held(l, goal[r], row[r], draft[r], until[r], issued', made')
  PROVE  LocalTypeOK' /\ HeldOK'
<1>1. /\ goal[r] \in Goals /\ row[r] \in issued' \cup {NoRow} /\ draft[r] \in made' \cup {NoCode}
      /\ until[r] \in Nat /\ found[r] \in BOOLEAN
  BY DEF TypeInv, LocalTypeOK
<1>2. /\ goal' = [goal EXCEPT ![r] = goal[r]] /\ row' = [row EXCEPT ![r] = row[r]]
      /\ draft' = [draft EXCEPT ![r] = draft[r]] /\ until' = [until EXCEPT ![r] = until[r]]
      /\ found' = [found EXCEPT ![r] = found[r]] /\ pc' = [pc EXCEPT ![r] = l]
  BY DEF TypeInv, LocalTypeOK, localVars, Goto
<1> QED
  BY <1>1, <1>2, LocalMoves

\* The rows do not change.
LEMMA RowsKept ==
  ASSUME TypeInv, UNCHANGED rowVars, made \subseteq made', made' \subseteq Codes,
         due' \in [Codes -> Nat], mail' \subseteq issued \X made', handed' \subseteq issued,
         clock' \in 0 .. MaxClock
  PROVE  StoreTypeOK' /\ StoredOK'
BY DEF TypeInv, StoreTypeOK, StoredOK, rowVars

LEMMA DeleteOldTyped ==
  ASSUME TypeInv, NEW r \in Requests, NEW p \in AllPurposes,
         CreateChallenge(r, p) \/ IssueOtp(r) \/ RequestContactChangeOtp(r)
  PROVE  TypeInv'
<1> USE DEF TypeInv
<1>1. PICK q \in AllPurposes : DeleteOld(r, q)
  BY DEF CreateChallenge, IssueOtp, RequestContactChangeOtp, AllPurposes
<1>2. PICK c \in Codes : made' = made \cup {c} /\ draft' = [draft EXCEPT ![r] = c]
  BY <1>1 DEF DeleteOld, Generate
<1>3. /\ goal' = [goal EXCEPT ![r] = q] /\ pc' = [pc EXCEPT ![r] = "insert"]
      /\ row' = row /\ found' = found /\ table' \subseteq table
      /\ UNCHANGED <<issued, purpose, otp, expires, userVars, clock>>
  BY <1>1 DEF DeleteOld, For, Goto
<1>4. clock + Life \in Nat /\ clock \in Nat
  BY OtpAssumption DEF StoreTypeOK
<1>5. PICK u \in Nat : until' = [until EXCEPT ![r] = u]
  <2>1. until = [until EXCEPT ![r] = until[r]] /\ until[r] \in Nat
    BY DEF LocalTypeOK
  <2> QED
    BY <1>4, <2>1 DEF CreateChallenge, IssueOtp, RequestContactChangeOtp
<1>6. due' \in [Codes -> Nat]
  <2>1. due \in [Codes -> Nat]
    BY DEF StoreTypeOK
  <2> QED
    BY <1>4, <2>1 DEF CreateChallenge, IssueOtp, RequestContactChangeOtp, Expire
<1>7. StoreTypeOK' /\ StoredOK'
  BY <1>2, <1>3, <1>6 DEF StoreTypeOK, StoredOK, userVars
<1>8. LocalTypeOK' /\ HeldOK'
  <2>1. /\ row' = [row EXCEPT ![r] = row[r]] /\ row[r] \in issued' \cup {NoRow}
        /\ found' = [found EXCEPT ![r] = found[r]] /\ found[r] \in BOOLEAN
    BY <1>3 DEF LocalTypeOK
  <2>2. "insert" \in Labels /\ q \in Goals /\ c \in made'
    BY <1>2 DEF Labels, Goals
  <2>3. Held("insert", q, row[r], c, u, issued', made')
    BY <2>2 DEF Held
  <2> QED
    BY <1>2, <1>3, <1>5, <2>1, <2>2, <2>3, LocalMoves
<1> QED
  BY <1>7, <1>8

LEMMA InsertRowTyped ==
  ASSUME TypeInv, NEW r \in Requests, InsertRow(r)
  PROVE  TypeInv'
<1> USE DEF TypeInv
<1>1. draft[r] \in made /\ goal[r] \in AllPurposes /\ made' = made
  BY DEF InsertRow, HeldOK, Held
<1>2. PICK k \in Rows \ issued :
        /\ table' = table \cup {k} /\ issued' = issued \cup {k}
        /\ purpose' = [purpose EXCEPT ![k] = goal[r]]
        /\ otp' = [otp EXCEPT ![k] = draft[r]]
        /\ \/ /\ until[r] # 0
              /\ expires' = [expires EXCEPT ![k] = until[r]]
              /\ UNCHANGED due
           \/ /\ until[r] = 0
              /\ expires' = [expires EXCEPT ![k] = clock + Life]
              /\ Expire(draft[r], clock + Life)
        /\ AfterInsert(r, k)
  BY DEF InsertRow
<1>3. clock + Life \in Nat /\ until[r] \in Nat
  BY OtpAssumption DEF StoreTypeOK, LocalTypeOK
<1>4. expires' \in [Rows -> Nat] /\ due' \in [Codes -> Nat]
  <2>1. expires \in [Rows -> Nat] /\ due \in [Codes -> Nat]
    BY DEF StoreTypeOK
  <2> QED
    BY <1>2, <1>3, <2>1 DEF Expire
<1>5. otp' \in [Rows -> Codes \cup {NoCode}] /\ purpose' \in [Rows -> AllPurposes]
  BY <1>1, <1>2 DEF StoreTypeOK
<1>6. handed' \subseteq issued'
  BY <1>2 DEF AfterInsert, AfterLogin, AfterForgetPassword, AfterRequestResetOtp, AfterContact,
              StoreTypeOK
<1>7. StoreTypeOK'
  BY <1>2, <1>4, <1>5, <1>6 DEF StoreTypeOK, InsertRow
<1>8. StoredOK'
  BY <1>1, <1>2 DEF StoredOK, StoreTypeOK
<1>9. LocalTypeOK' /\ HeldOK'
  <2>1. CASE Finish(r)
    BY <1>1, <1>2, <2>1, FinishKeeps
  <2>2. ASSUME NEW l \in {"find", "peek", "mail"}, NEW c \in {NoCode, draft[r]}, Proceed(r, k, l, c),
               l = "mail" => c = draft[r]
        PROVE  LocalTypeOK' /\ HeldOK'
    <3>1. /\ goal[r] \in Goals /\ until[r] \in Nat /\ found[r] \in BOOLEAN
          /\ goal' = [goal EXCEPT ![r] = goal[r]] /\ until' = [until EXCEPT ![r] = until[r]]
          /\ found' = [found EXCEPT ![r] = found[r]]
      BY <2>2 DEF Proceed, LocalTypeOK
    <3>2. /\ pc' = [pc EXCEPT ![r] = l] /\ row' = [row EXCEPT ![r] = k]
          /\ draft' = [draft EXCEPT ![r] = c]
      BY <2>2 DEF Proceed, Hold, Goto
    <3>3. Held(l, goal[r], k, c, until[r], issued', made')
      BY <1>1, <1>2, <2>2 DEF Held
    <3>4. l \in Labels /\ k \in issued' \cup {NoRow} /\ c \in made' \cup {NoCode}
      BY <1>1, <1>2 DEF Labels
    <3> QED
      BY <1>1, <1>2, <3>1, <3>2, <3>3, <3>4, LocalMoves
  <2>3. \/ Finish(r) \/ Proceed(r, k, "find", NoCode) \/ Proceed(r, k, "peek", NoCode)
        \/ Proceed(r, k, "mail", draft[r])
    BY <1>2 DEF AfterInsert, AfterLogin, AfterForgetPassword, AfterRequestResetOtp, AfterContact
  <2> QED
    BY <2>1, <2>2, <2>3
<1> QED
  BY <1>7, <1>8, <1>9

\* The rows are looked at, or only their presence changes.
LEMMA ReadTyped ==
  ASSUME TypeInv, NEW r \in Requests, PeekRow(r) \/ FindRow(r) \/ LookUp(r)
  PROVE  TypeInv'
<1> USE DEF TypeInv
<1>1. row[r] \in issued /\ issued' = issued
  BY DEF PeekRow, FindRow, LookUp, HeldOK, Held, rowVars
<1>2. CASE PeekRow(r)
  <2>1. StoreTypeOK' /\ StoredOK' /\ made' = made
    BY <1>2, RowsKept DEF PeekRow, codeVars, userVars, StoreTypeOK
  <2>2. CASE Finish(r)
    BY <1>1, <2>1, <2>2, FinishKeeps
  <2>3. CASE /\ draft' = [draft EXCEPT ![r] = otp[row[r]]]
             /\ Goto(r, "mail") /\ UNCHANGED <<goal, row, until, found>>
    <3> DEFINE c == otp[row[r]]
    <3>1. c \in made' /\ "mail" \in Labels
      BY <1>1, <2>1 DEF StoredOK, Labels
    <3>2. /\ goal[r] \in Goals /\ row[r] \in issued' \cup {NoRow} /\ until[r] \in Nat
          /\ found[r] \in BOOLEAN
          /\ goal' = [goal EXCEPT ![r] = goal[r]] /\ row' = [row EXCEPT ![r] = row[r]]
          /\ until' = [until EXCEPT ![r] = until[r]] /\ found' = [found EXCEPT ![r] = found[r]]
      BY <1>1, <2>3 DEF LocalTypeOK
    <3>3. Held("mail", goal[r], row[r], c, until[r], issued', made')
      BY <1>1, <3>1 DEF Held
    <3>4. draft' = [draft EXCEPT ![r] = c] /\ pc' = [pc EXCEPT ![r] = "mail"]
      BY <2>3 DEF Goto
    <3> HIDE DEF c
    <3>5. LocalTypeOK' /\ HeldOK'
      BY <1>1, <2>1, <3>1, <3>2, <3>3, <3>4, LocalMoves
    <3> QED
      BY <2>1, <3>5
  <2> QED
    BY <1>2, <2>2, <2>3 DEF PeekRow
<1>3. CASE FindRow(r)
  <2>1. StoreTypeOK' /\ StoredOK' /\ made' = made
    BY <1>3, RowsKept DEF FindRow, codeVars, userVars, StoreTypeOK
  <2>2. CASE Finish(r)
    BY <1>1, <2>1, <2>2, FinishKeeps
  <2>3. CASE Goto(r, "save") /\ UNCHANGED localVars
    <3>1. "save" \in Labels /\ Held("save", goal[r], row[r], draft[r], until[r], issued', made')
      BY <1>1 DEF Labels, Held
    <3> QED
      BY <1>1, <2>1, <2>3, <3>1, GotoKeeps
  <2> QED
    BY <1>3, <2>2, <2>3 DEF FindRow
<1>4. CASE LookUp(r)
  <2>1. PICK c \in Codes : made' = made \cup {c} /\ Expire(c, clock + Life)
                           /\ draft' = [draft EXCEPT ![r] = c]
    BY <1>4 DEF LookUp, Generate
  <2>2. clock + Life \in Nat
    BY OtpAssumption DEF StoreTypeOK
  <2>3. due' \in [Codes -> Nat]
    BY <2>1, <2>2 DEF Expire, StoreTypeOK
  <2>4. /\ made \subseteq made' /\ made' \subseteq Codes /\ mail' \subseteq issued \X made'
        /\ handed' \subseteq issued /\ clock' \in 0 .. MaxClock
    BY <1>4, <2>1 DEF LookUp, userVars, StoreTypeOK
  <2>5. StoreTypeOK' /\ StoredOK'
    BY <1>4, <2>1, <2>3, <2>4 DEF LookUp, rowVars, StoreTypeOK, StoredOK
  <2>6. /\ goal[r] \in Goals /\ row[r] \in issued' \cup {NoRow}
        /\ goal' = [goal EXCEPT ![r] = goal[r]] /\ row' = [row EXCEPT ![r] = row[r]]
    BY <1>1, <1>4 DEF LookUp, LocalTypeOK
  <2>7. /\ pc' = [pc EXCEPT ![r] = "write"] /\ until' = [until EXCEPT ![r] = clock + Life]
        /\ found' = [found EXCEPT ![r] = row[r] \in table] /\ (row[r] \in table) \in BOOLEAN
    BY <1>4 DEF LookUp, Goto
  <2>8. "write" \in Labels /\ Held("write", goal[r], row[r], c, clock + Life, issued', made')
    BY <1>1, <2>1 DEF Labels, Held
  <2>9. LocalTypeOK' /\ HeldOK'
    BY <1>1, <2>1, <2>2, <2>4, <2>6, <2>7, <2>8, LocalMoves
  <2> QED
    BY <2>5, <2>9
<1> QED
  BY <1>2, <1>3, <1>4

LEMMA WriteTyped ==
  ASSUME TypeInv, NEW r \in Requests, Update(r) \/ Reinsert(r)
  PROVE  TypeInv'
<1> USE DEF TypeInv
<1>1. /\ row[r] \in issued /\ draft[r] \in made /\ until[r] \in Nat
      /\ issued' = issued /\ made' = made /\ UNCHANGED <<codeVars, userVars, clock, purpose>>
  BY DEF Update, Reinsert, HeldOK, Held, LocalTypeOK, codeVars
<1>2. /\ otp' = otp \/ otp' = [otp EXCEPT ![row[r]] = draft[r]]
      /\ expires' = expires \/ expires' = [expires EXCEPT ![row[r]] = until[r]]
      /\ table' = table \/ table' = table \cup {row[r]}
  BY DEF Update, Reinsert, Stored
<1>3. otp' \in [Rows -> Codes \cup {NoCode}] /\ expires' \in [Rows -> Nat]
  <2>1. otp \in [Rows -> Codes \cup {NoCode}] /\ expires \in [Rows -> Nat] /\ made \subseteq Codes
    BY DEF StoreTypeOK
  <2> QED
    BY <1>1, <1>2, <2>1
<1>4. StoreTypeOK'
  BY <1>1, <1>2, <1>3 DEF StoreTypeOK, codeVars, userVars
<1>5. StoredOK'
  BY <1>1, <1>2 DEF StoredOK, StoreTypeOK
<1>6. CASE Finish(r)
  BY <1>1, <1>4, <1>5, <1>6, FinishKeeps
<1>7. CASE Goto(r, "mail") /\ UNCHANGED localVars
  <2>1. "mail" \in Labels /\ Held("mail", goal[r], row[r], draft[r], until[r], issued', made')
    BY <1>1 DEF Labels, Held
  <2> QED
    BY <1>1, <1>4, <1>5, <1>7, <2>1, GotoKeeps
<1> QED
  BY <1>6, <1>7 DEF Update, Reinsert

\* A request that is idle is given a row to work on.
LEMMA StartTyped ==
  ASSUME TypeInv, NEW r \in Requests, NEW k \in issued, NEW g \in Goals, NEW l \in {"save", "delete"},
         pc[r] = "idle", For(r, g), Hold(r, k), Goto(r, l),
         UNCHANGED <<rowVars, codeVars, userVars, clock, draft, until, found>>
  PROVE  TypeInv'
<1> USE DEF TypeInv
<1>1. StoreTypeOK' /\ StoredOK' /\ made' = made /\ issued' = issued
  BY DEF StoreTypeOK, StoredOK, rowVars, codeVars, userVars
<1>2. /\ draft[r] \in made' \cup {NoCode} /\ until[r] \in Nat /\ found[r] \in BOOLEAN
      /\ draft' = [draft EXCEPT ![r] = draft[r]]
      /\ until' = [until EXCEPT ![r] = until[r]] /\ found' = [found EXCEPT ![r] = found[r]]
  BY <1>1 DEF LocalTypeOK
<1>3. l \in Labels /\ Held(l, g, k, draft[r], until[r], issued', made')
  BY <1>1 DEF Labels, Held
<1>4. /\ goal' = [goal EXCEPT ![r] = g] /\ row' = [row EXCEPT ![r] = k]
      /\ pc' = [pc EXCEPT ![r] = l] /\ k \in issued' \cup {NoRow}
  BY <1>1 DEF For, Hold, Goto
<1>5. issued \subseteq issued' /\ made \subseteq made' /\ l \in Labels /\ g \in Goals
  BY <1>1, <1>3
<1> DEFINE c == draft[r]
           u == until[r]
           f == found[r]
<1>7. /\ c \in made' \cup {NoCode} /\ u \in Nat /\ f \in BOOLEAN
      /\ draft' = [draft EXCEPT ![r] = c]
      /\ until' = [until EXCEPT ![r] = u] /\ found' = [found EXCEPT ![r] = f]
      /\ Held(l, g, k, c, u, issued', made')
  BY <1>2, <1>3
<1> HIDE DEF c, u, f
<1>6. LocalTypeOK' /\ HeldOK'
  BY <1>4, <1>5, <1>7, LocalMoves
<1> QED
  BY <1>1, <1>6

LEMMA EndTyped ==
  ASSUME TypeInv, NEW r \in Requests, Deliver(r) \/ DeleteRow(r) \/ Commit(r) \/ Abort(r)
  PROVE  TypeInv'
<1> USE DEF TypeInv
<1>1. issued' = issued /\ made' = made
  BY DEF Deliver, DeleteRow, Commit, Abort, rowVars, codeVars
<1>2. StoreTypeOK' /\ StoredOK'
  <2>1. CASE Deliver(r)
    <3>1. row[r] \in issued /\ draft[r] \in made
      BY <2>1 DEF Deliver, HeldOK, Held
    <3> QED
      BY <2>1, <3>1 DEF Deliver, rowVars, codeVars, StoreTypeOK, StoredOK
  <2>2. CASE DeleteRow(r) \/ Commit(r)
    BY <2>2 DEF DeleteRow, Commit, codeVars, userVars, StoreTypeOK, StoredOK
  <2>3. CASE Abort(r)
    BY <2>3 DEF Abort, rowVars, codeVars, userVars, StoreTypeOK, StoredOK
  <2> QED
    BY <2>1, <2>2, <2>3
<1>3. CASE Finish(r)
  BY <1>1, <1>2, <1>3, FinishKeeps
<1>4. CASE Goto(r, "commit") /\ UNCHANGED localVars
  <2>1. "commit" \in Labels /\ Held("commit", goal[r], row[r], draft[r], until[r], issued', made')
    BY DEF Labels, Held
  <2> QED
    BY <1>1, <1>2, <1>4, <2>1, GotoKeeps
<1> QED
  BY <1>3, <1>4 DEF Deliver, DeleteRow, Commit, Abort

LEMMA ClockTyped ==
  ASSUME TypeInv, MinutePasses \/ UNCHANGED vars PROVE TypeInv'
<1> USE DEF TypeInv
<1>1. /\ UNCHANGED <<rowVars, codeVars, userVars, pc, localVars>>
      /\ clock' = clock \/ (clock < MaxClock /\ clock' = clock + 1)
  BY DEF MinutePasses, vars
<1>2. clock' \in 0 .. MaxClock
  BY <1>1, OtpAssumption DEF StoreTypeOK
<1>3. StoreTypeOK' /\ StoredOK'
  BY <1>1, <1>2 DEF rowVars, codeVars, userVars, StoreTypeOK, StoredOK
<1>4. LocalTypeOK' /\ HeldOK'
  BY <1>1 DEF rowVars, codeVars, localVars, LocalTypeOK, HeldOK
<1> QED
  BY <1>3, <1>4

\* All rows with a purpose are deleted.
LEMMA DropTyped ==
  ASSUME TypeInv, NEW p, DropAll(p) PROVE TypeInv'
<1> USE DEF TypeInv
<1>1. /\ table' \subseteq table
      /\ UNCHANGED <<issued, purpose, otp, expires, codeVars, userVars, clock, pc, localVars>>
  BY DEF DropAll
<1>2. StoreTypeOK' /\ StoredOK'
  BY <1>1 DEF codeVars, userVars, StoreTypeOK, StoredOK
<1>3. LocalTypeOK' /\ HeldOK'
  BY <1>1 DEF codeVars, localVars, LocalTypeOK, HeldOK
<1> QED
  BY <1>2, <1>3

LEMMA StepTypeInv == TypeInv /\ [Next]_vars => TypeInv'
<1> SUFFICES ASSUME TypeInv, [Next]_vars PROVE TypeInv'
  OBVIOUS
<1>1. Purposes \subseteq AllPurposes
  BY OtpAssumption
<1>2. "contact" \in AllPurposes
  BY DEF AllPurposes
<1>12. CASE Complete \/ VerifyFixedCode
  BY <1>12, DropTyped DEF Complete, VerifyFixedCode
<1>3. ASSUME NEW r \in Requests, NEW p \in Purposes, CreateChallenge(r, p) PROVE TypeInv'
  BY <1>1, <1>3, DeleteOldTyped
<1>4. ASSUME NEW r \in Requests, IssueOtp(r) \/ RequestContactChangeOtp(r) PROVE TypeInv'
  BY <1>2, <1>4, DeleteOldTyped
<1>5. ASSUME NEW r \in Requests, InsertRow(r) PROVE TypeInv'
  BY <1>5, InsertRowTyped
<1>6. ASSUME NEW r \in Requests, PeekRow(r) \/ FindRow(r) \/ LookUp(r) PROVE TypeInv'
  BY <1>6, ReadTyped
<1>7. ASSUME NEW r \in Requests, Update(r) \/ Reinsert(r) PROVE TypeInv'
  BY <1>7, WriteTyped
<1>8. ASSUME NEW r \in Requests, NEW k \in Rows, Resend(r, k) \/ VerifyTotp(r, k)
      PROVE  TypeInv'
  <2>1. k \in issued
    BY <1>8 DEF Resend, VerifyTotp, TypeInv, StoreTypeOK
  <2>2. "resend" \in Goals /\ "admit" \in Goals
    BY DEF Goals
  <2> QED
    BY <1>8, <2>1, <2>2, StartTyped DEF Resend, VerifyTotp
<1>9. ASSUME NEW r \in Requests, NEW k \in Rows, NEW c \in Codes,
             VerifyChallenge(r, k, c) \/ VerifyLegacyOtp(r, k, c) \/ VerifyContactChangeOtp(r, k, c)
      PROVE  TypeInv'
  <2>1. PICK g \in {"admit", "reset"} : Check(r, k, c, g)
    BY <1>9 DEF VerifyChallenge, VerifyLegacyOtp, VerifyContactChangeOtp
  <2>2. k \in issued /\ g \in Goals
    BY <2>1 DEF Check, TypeInv, StoreTypeOK, Goals, AllPurposes
  <2> QED
    BY <2>1, <2>2, StartTyped DEF Check
<1>10. ASSUME NEW r \in Requests, Deliver(r) \/ DeleteRow(r) \/ Commit(r) \/ Abort(r)
       PROVE  TypeInv'
  BY <1>10, EndTyped
<1>11. CASE MinutePasses \/ UNCHANGED vars
  BY <1>11, ClockTyped
<1> QED
  BY <1>3, <1>4, <1>5, <1>6, <1>7, <1>8, <1>9, <1>10, <1>11, <1>12 DEF Next

\* Whatever requests interleave, rows are only worked on once they exist, and
\* every stored code was generated.
THEOREM OtpTyped == Spec => []TypeOK
<1>1. TypeInv => TypeOK
  BY DEF TypeInv, LocalTypeOK, StoredOK, TypeOK, Goals
<1> QED
  BY <1>1, InitTypeInv, StepTypeInv, PTL DEF Spec

-----------------------------------------------------------------------------
(***************************************************************************)
(* Expiries.  A code on its way to a row is on its way to that row only,   *)
(* and is in no row yet; so the expiry computed for it is nobody else's,   *)
(* and computing it cannot change what a stored code was given.            *)
(***************************************************************************)
Carries(label) == label \in {"insert", "write"}

ExpiryInv ==
  /\ OwnExpiry
  /\ \A r \in Requests : Carries(pc[r]) => \A k \in issued : otp[k] # draft[r]
  /\ \A r, q \in Requests :
       Carries(pc[r]) /\ Carries(pc[q]) /\ draft[r] = draft[q] => r = q
  /\ \A r \in Requests :
       pc[r] = "write" \/ (pc[r] = "insert" /\ until[r] # 0) => due[draft[r]] = until[r]

\* No row is given a code and no code an expiry.
LEMMA ExpiryKept ==
  ASSUME TypeInv, ExpiryInv, table' \subseteq table, UNCHANGED <<issued, otp, expires, due>>,
         \A q \in Requests : Carries(pc'[q]) =>
           pc'[q] = pc[q] /\ draft'[q] = draft[q] /\ until'[q] = until[q]
  PROVE  ExpiryInv'
<1>1. OwnExpiry'
  BY DEF ExpiryInv, OwnExpiry
<1>2. ASSUME NEW q \in Requests, Carries(pc'[q])
      PROVE  Carries(pc[q]) /\ draft'[q] = draft[q] /\ until'[q] = until[q] /\ pc'[q] = pc[q]
  BY <1>2
<1>3. \A q \in Requests : Carries(pc'[q]) => \A k \in issued' : otp'[k] # draft'[q]
  BY <1>2 DEF ExpiryInv
<1>4. \A r, q \in Requests :
        Carries(pc'[r]) /\ Carries(pc'[q]) /\ draft'[r] = draft'[q] => r = q
  BY <1>2 DEF ExpiryInv
<1>5. ASSUME NEW q \in Requests, pc'[q] = "write" \/ (pc'[q] = "insert" /\ until'[q] # 0)
      PROVE  due'[draft'[q]] = until'[q]
  BY <1>2, <1>5 DEF ExpiryInv, Carries
<1> QED
  BY <1>1, <1>3, <1>4, <1>5 DEF ExpiryInv

\* A request takes a fresh code and, at once or later, an expiry for it.
LEMMA ExpiryTaken ==
  ASSUME TypeInv, ExpiryInv, NEW r \in Requests, NEW c \in Codes \ made, NEW u \in Nat,
         NEW l \in {"insert", "write"}, table' \subseteq table, UNCHANGED <<issued, otp, expires>>,
         pc' = [pc EXCEPT ![r] = l], draft' = [draft EXCEPT ![r] = c],
         until' = [until EXCEPT ![r] = u],
         \/ due' = [due EXCEPT ![c] = u]
         \/ due' = due /\ l = "insert" /\ u = 0
  PROVE  ExpiryInv'
<1> USE DEF TypeInv
<1>1. /\ \A k \in issued : otp[k] \in made /\ otp[k] \in Codes /\ k \in Rows
      /\ table \subseteq issued /\ due \in [Codes -> Nat]
  BY DEF StoredOK, StoreTypeOK
<1>2. \A d \in made : due'[d] = due[d]
  BY <1>1 DEF StoreTypeOK
<1>3. /\ pc'[r] = l /\ draft'[r] = c /\ until'[r] = u
      /\ \A q \in Requests \ {r} :
           pc'[q] = pc[q] /\ draft'[q] = draft[q] /\ until'[q] = until[q]
  BY DEF LocalTypeOK
<1>4. \A q \in Requests : Carries(pc[q]) => draft[q] \in made
  BY DEF HeldOK, Held, Carries
<1>5. OwnExpiry'
  BY <1>1, <1>2 DEF ExpiryInv, OwnExpiry
<1>6. \A q \in Requests : Carries(pc'[q]) => \A k \in issued' : otp'[k] # draft'[q]
  BY <1>1, <1>3 DEF ExpiryInv
<1>7. \A p, q \in Requests :
        Carries(pc'[p]) /\ Carries(pc'[q]) /\ draft'[p] = draft'[q] => p = q
  BY <1>3, <1>4 DEF ExpiryInv
<1>8. ASSUME NEW q \in Requests, pc'[q] = "write" \/ (pc'[q] = "insert" /\ until'[q] # 0)
      PROVE  due'[draft'[q]] = until'[q]
  <2>1. CASE q = r
    BY <1>1, <1>3, <1>8, <2>1
  <2>2. CASE q # r
    BY <1>2, <1>3, <1>4, <1>8, <2>2 DEF ExpiryInv, Carries
  <2> QED
    BY <2>1, <2>2
<1> QED
  BY <1>5, <1>6, <1>7, <1>8 DEF ExpiryInv

\* The code a request carries is stored in row k, with its expiry.
LEMMA ExpiryStored ==
  ASSUME TypeInv, ExpiryInv, NEW r \in Requests, Carries(pc[r]), NEW k \in Rows,
         table' \subseteq table \cup {k}, issued' = issued \cup {k},
         otp' = [otp EXCEPT ![k] = draft[r]], expires' = [expires EXCEPT ![k] = due'[draft[r]]],
         due' = due \/ due' = [due EXCEPT ![draft[r]] = due'[draft[r]]],
         \A q \in Requests : Carries(pc'[q]) =>
           q # r /\ pc'[q] = pc[q] /\ draft'[q] = draft[q] /\ until'[q] = until[q]
  PROVE  ExpiryInv'
<1> USE DEF TypeInv
<1>1. /\ \A j \in issued : otp[j] \in made /\ otp[j] \in Codes /\ j \in Rows
      /\ table \subseteq issued /\ due \in [Codes -> Nat] /\ made \subseteq Codes
      /\ otp'[k] = draft[r] /\ expires'[k] = due'[draft[r]]
      /\ \A j \in Rows \ {k} : otp'[j] = otp[j] /\ expires'[j] = expires[j]
  BY DEF StoredOK, StoreTypeOK
<1>2. /\ draft[r] \in made /\ \A j \in issued : otp[j] # draft[r]
      /\ \A d \in made : d # draft[r] => due'[d] = due[d]
  BY <1>1 DEF HeldOK, Held, Carries, ExpiryInv
<1>3. ASSUME NEW q \in Requests, Carries(pc'[q])
      PROVE  /\ q # r /\ Carries(pc[q]) /\ pc'[q] = pc[q] /\ draft'[q] = draft[q]
             /\ until'[q] = until[q] /\ draft[q] # draft[r] /\ draft[q] \in made
  <2>1. q # r /\ pc'[q] = pc[q] /\ draft'[q] = draft[q] /\ until'[q] = until[q]
    BY <1>3
  <2>2. Carries(pc[q]) /\ draft[q] # draft[r]
    BY <1>3, <2>1 DEF ExpiryInv
  <2> QED
    BY <2>1, <2>2 DEF HeldOK, Held, Carries
<1>4. ASSUME NEW j \in table' PROVE expires'[j] = due'[otp'[j]]
  <2>1. CASE j = k
    BY <1>1, <2>1
  <2>2. CASE j # k
    <3>1. j \in table /\ j \in issued /\ j \in Rows \ {k}
      BY <1>1, <2>2
    <3>2. expires[j] = due[otp[j]] /\ otp[j] # draft[r] /\ otp[j] \in made
      BY <1>1, <1>2, <3>1 DEF ExpiryInv, OwnExpiry
    <3> QED
      BY <1>1, <1>2, <3>1, <3>2
  <2> QED
    BY <2>1, <2>2
<1>5. \A q \in Requests : Carries(pc'[q]) => \A j \in issued' : otp'[j] # draft'[q]
  BY <1>1, <1>3 DEF ExpiryInv
<1>6. \A p, q \in Requests :
        Carries(pc'[p]) /\ Carries(pc'[q]) /\ draft'[p] = draft'[q] => p = q
  BY <1>3 DEF ExpiryInv
<1>7. ASSUME NEW q \in Requests, pc'[q] = "write" \/ (pc'[q] = "insert" /\ until'[q] # 0)
      PROVE  due'[draft'[q]] = until'[q]
  <2>1. Carries(pc'[q])
    BY <1>7 DEF Carries
  <2> QED
    BY <1>2, <1>3, <1>7, <2>1 DEF ExpiryInv
<1> QED
  BY <1>4, <1>5, <1>6, <1>7 DEF ExpiryInv, OwnExpiry

LEMMA InitExpiry == Init => ExpiryInv
BY DEF Init, ExpiryInv, OwnExpiry, Carries

\* A handler that returns, or goes on to a statement that carries no code.
LEMMA OthersCarry ==
  ASSUME TypeInv, NEW r \in Requests,
         \/ Finish(r)
         \/ \E l \in Labels : ~Carries(l) /\ Goto(r, l) /\ UNCHANGED localVars
         \/ \E l \in Labels, k \in Rows, c \in {NoCode, draft[r]} : ~Carries(l) /\ Proceed(r, k, l, c)
  PROVE  \A q \in Requests : Carries(pc'[q]) =>
           q # r /\ pc'[q] = pc[q] /\ draft'[q] = draft[q] /\ until'[q] = until[q]
<1>1. /\ ~Carries(pc'[r])
      /\ \A q \in Requests \ {r} :
           pc'[q] = pc[q] /\ draft'[q] = draft[q] /\ until'[q] = until[q]
  BY DEF TypeInv, LocalTypeOK, Finish, Goto, For, Hold, Proceed, localVars, Carries
<1> QED
  BY <1>1

LEMMA InsertRowExpiry ==
  ASSUME TypeInv, ExpiryInv, NEW r \in Requests, InsertRow(r) PROVE ExpiryInv'
<1> USE DEF TypeInv
<1>1. PICK k \in Rows \ issued :
        /\ table' = table \cup {k} /\ issued' = issued \cup {k}
        /\ otp' = [otp EXCEPT ![k] = draft[r]]
        /\ \/ /\ until[r] # 0
              /\ expires' = [expires EXCEPT ![k] = until[r]]
              /\ UNCHANGED due
           \/ /\ until[r] = 0
              /\ expires' = [expires EXCEPT ![k] = clock + Life]
              /\ due' = [due EXCEPT ![draft[r]] = clock + Life]
        /\ AfterInsert(r, k)
  BY DEF InsertRow, Expire
<1>2. Carries(pc[r]) /\ pc[r] = "insert" /\ draft[r] \in Codes /\ due \in [Codes -> Nat]
  BY DEF InsertRow, Carries, HeldOK, Held, StoreTypeOK
<1>3. /\ expires' = [expires EXCEPT ![k] = due'[draft[r]]]
      /\ due' = due \/ due' = [due EXCEPT ![draft[r]] = due'[draft[r]]]
  BY <1>1, <1>2 DEF ExpiryInv
<1>4. \A q \in Requests : Carries(pc'[q]) =>
        q # r /\ pc'[q] = pc[q] /\ draft'[q] = draft[q] /\ until'[q] = until[q]
  <2>1. "find" \in Labels /\ "peek" \in Labels /\ "mail" \in Labels
        /\ ~Carries("find") /\ ~Carries("peek") /\ ~Carries("mail")
    BY DEF Labels, Carries
  <2>2. \/ Finish(r) \/ Proceed(r, k, "find", NoCode) \/ Proceed(r, k, "peek", NoCode)
        \/ Proceed(r, k, "mail", draft[r])
    BY <1>1 DEF AfterInsert, AfterLogin, AfterForgetPassword, AfterRequestResetOtp, AfterContact
  <2> QED
    BY <2>1, <2>2, OthersCarry
<1> QED
  BY <1>1, <1>2, <1>3, <1>4, ExpiryStored

LEMMA WriteExpiry ==
  ASSUME TypeInv, ExpiryInv, NEW r \in Requests, Update(r) \/ Reinsert(r) PROVE ExpiryInv'
<1> USE DEF TypeInv
<1>1. /\ pc[r] = "write" /\ Carries(pc[r]) /\ row[r] \in issued /\ row[r] \in Rows
      /\ issued' = issued /\ due' = due /\ due[draft[r]] = until[r]
  BY DEF Update, Reinsert, Carries, codeVars, HeldOK, Held, StoreTypeOK, ExpiryInv
<1>2. \A q \in Requests : Carries(pc'[q]) =>
        q # r /\ pc'[q] = pc[q] /\ draft'[q] = draft[q] /\ until'[q] = until[q]
  <2>1. "mail" \in Labels /\ ~Carries("mail")
    BY DEF Labels, Carries
  <2>2. Finish(r) \/ (Goto(r, "mail") /\ UNCHANGED localVars)
    BY DEF Update, Reinsert
  <2> QED
    BY <2>1, <2>2, OthersCarry
<1>3. CASE Stored(r, row[r]) /\ table' \subseteq table \cup {row[r]}
  <2> DEFINE k == row[r]
  <2>1. issued' = issued \cup {k} /\ k \in Rows
    BY <1>1
  <2>2. /\ otp' = [otp EXCEPT ![k] = draft[r]]
        /\ expires' = [expires EXCEPT ![k] = due'[draft[r]]] /\ table' \subseteq table \cup {k}
    BY <1>1, <1>3 DEF Stored
  <2> HIDE DEF k
  <2> QED
    BY <1>1, <1>2, <2>1, <2>2, ExpiryStored
<1>4. CASE UNCHANGED <<table, otp, expires>>
  BY <1>1, <1>2, <1>4, ExpiryKept
<1> QED
  BY <1>3, <1>4 DEF Update, Reinsert

LEMMA TakeExpiry ==
  ASSUME TypeInv, ExpiryInv, NEW r \in Requests, NEW p \in AllPurposes,
         \/ CreateChallenge(r, p) \/ IssueOtp(r) \/ RequestContactChangeOtp(r)
         \/ LookUp(r)
  PROVE  ExpiryInv'
<1> USE DEF TypeInv
<1>1. clock + Life \in Nat
  BY OtpAssumption DEF StoreTypeOK
<1>2. CASE CreateChallenge(r, p) \/ IssueOtp(r)
  <2>1. PICK q \in AllPurposes : DeleteOld(r, q) /\ UNCHANGED <<until, due>>
    BY <1>2 DEF CreateChallenge, IssueOtp, AllPurposes
  <2>2. PICK c \in Codes \ made : draft' = [draft EXCEPT ![r] = c]
    BY <2>1 DEF DeleteOld, Generate
  <2>3. /\ pc' = [pc EXCEPT ![r] = "insert"] /\ table' \subseteq table
        /\ UNCHANGED <<issued, otp, expires, due>> /\ until' = [until EXCEPT ![r] = 0]
    BY <2>1 DEF DeleteOld, Goto, HeldOK, Held, LocalTypeOK
  <2> QED
    BY <2>2, <2>3, ExpiryTaken
<1>3. CASE RequestContactChangeOtp(r)
  <2>1. PICK c \in Codes \ made : made' = made \cup {c} /\ draft' = [draft EXCEPT ![r] = c]
    BY <1>3 DEF RequestContactChangeOtp, DeleteOld, Generate
  <2>2. due' = [due EXCEPT ![c] = clock + Life]
    BY <1>3, <2>1 DEF RequestContactChangeOtp, Expire
  <2>3. /\ pc' = [pc EXCEPT ![r] = "insert"] /\ table' \subseteq table
        /\ UNCHANGED <<issued, otp, expires>> /\ until' = [until EXCEPT ![r] = clock + Life]
    BY <1>3 DEF RequestContactChangeOtp, DeleteOld, Goto
  <2> QED
    BY <1>1, <2>1, <2>2, <2>3, ExpiryTaken
<1>4. CASE LookUp(r)
  <2>1. PICK c \in Codes \ made : /\ draft' = [draft EXCEPT ![r] = c]
                                 /\ due' = [due EXCEPT ![c] = clock + Life]
    BY <1>4 DEF LookUp, Generate, Expire
  <2>2. /\ pc' = [pc EXCEPT ![r] = "write"] /\ table' \subseteq table
        /\ UNCHANGED <<issued, otp, expires>> /\ until' = [until EXCEPT ![r] = clock + Life]
    BY <1>4 DEF LookUp, Goto, rowVars
  <2> QED
    BY <1>1, <2>1, <2>2, ExpiryTaken
<1> QED
  BY <1>2, <1>3, <1>4

\* The other statements leave codes and expiries where they are.
LEMMA RestExpiry ==
  ASSUME TypeInv, ExpiryInv, NEW r \in Requests,
         \/ PeekRow(r) \/ FindRow(r) \/ Deliver(r) \/ DeleteRow(r) \/ Commit(r) \/ Abort(r)
         \/ \E k \in Rows : Resend(r, k) \/ VerifyTotp(r, k)
         \/ \E k \in Rows, c \in Codes, g \in Goals : Check(r, k, c, g)
  PROVE  ExpiryInv'
<1>1. table' \subseteq table /\ UNCHANGED <<issued, otp, expires, due>>
  BY DEF PeekRow, FindRow, Deliver, DeleteRow, Commit, Abort, Resend, VerifyTotp, Check, rowVars, codeVars
<1>2. /\ ~Carries(pc'[r])
      /\ \A q \in Requests \ {r} :
           pc'[q] = pc[q] /\ draft'[q] = draft[q] /\ until'[q] = until[q]
  BY DEF TypeInv, LocalTypeOK, Carries, PeekRow, FindRow, Deliver, DeleteRow, Commit, Abort, Resend,
         VerifyTotp, Check, Finish, Goto, For, Hold, localVars
<1> QED
  BY <1>1, <1>2, ExpiryKept

LEMMA StepExpiry == TypeInv /\ ExpiryInv /\ [Next]_vars => ExpiryInv'
<1> SUFFICES ASSUME TypeInv, ExpiryInv, [Next]_vars PROVE ExpiryInv'
  OBVIOUS
<1>1. Purposes \subseteq AllPurposes /\ "contact" \in AllPurposes
  BY OtpAssumption DEF AllPurposes
<1>2. ASSUME NEW r \in Requests, NEW p \in Purposes, CreateChallenge(r, p) PROVE ExpiryInv'
  BY <1>1, <1>2, TakeExpiry
<1>3. ASSUME NEW r \in Requests, IssueOtp(r) \/ RequestContactChangeOtp(r) \/ LookUp(r)
      PROVE  ExpiryInv'
  BY <1>1, <1>3, TakeExpiry
<1>4. ASSUME NEW r \in Requests, InsertRow(r) PROVE ExpiryInv'
  BY <1>4, InsertRowExpiry
<1>5. ASSUME NEW r \in Requests, Update(r) \/ Reinsert(r) PROVE ExpiryInv'
  BY <1>5, WriteExpiry
<1>6. ASSUME NEW r \in Requests,
             \/ PeekRow(r) \/ FindRow(r) \/ Deliver(r) \/ DeleteRow(r) \/ Commit(r) \/ Abort(r)
             \/ \E k \in Rows : Resend(r, k) \/ VerifyTotp(r, k)
      PROVE  ExpiryInv'
  BY <1>6, RestExpiry
<1>7. ASSUME NEW r \in Requests, NEW k \in Rows, NEW c \in Codes,
             VerifyChallenge(r, k, c) \/ VerifyLegacyOtp(r, k, c) \/ VerifyContactChangeOtp(r, k, c)
      PROVE  ExpiryInv'
  <2>1. PICK g \in Goals : Check(r, k, c, g)
    BY <1>7 DEF VerifyChallenge, VerifyLegacyOtp, VerifyContactChangeOtp, Goals, AllPurposes
  <2> QED
    BY <2>1, RestExpiry
<1>8. CASE MinutePasses \/ UNCHANGED vars
  <2>1. UNCHANGED <<table, issued, otp, expires, due, pc, draft, until>>
    BY <1>8 DEF MinutePasses, vars, rowVars, codeVars, localVars
  <2> QED
    BY <2>1 DEF ExpiryInv, OwnExpiry
<1>9. CASE Complete \/ VerifyFixedCode
  <2>1. /\ table' \subseteq table
        /\ UNCHANGED <<issued, otp, expires, due, pc, draft, until>>
    BY <1>9 DEF Complete, VerifyFixedCode, DropAll, codeVars, localVars
  <2> QED
    BY <2>1, ExpiryKept
<1> QED
  BY <1>2, <1>3, <1>4, <1>5, <1>6, <1>7, <1>8, <1>9 DEF Next

\* However many resends of a challenge overlap, with expiries and verifications
\* between their statements, a stored code has the expiry computed for it.
THEOREM StoredCodesKeepExpiry == Spec => []OwnExpiry
<1>1. ExpiryInv => OwnExpiry
  BY DEF ExpiryInv
<1> QED
  BY <1>1, InitTypeInv, StepTypeInv, InitExpiry, StepExpiry, PTL DEF Spec

-----------------------------------------------------------------------------
(***************************************************************************)
(* What is used up stays so.                                               *)
(***************************************************************************)
LEMMA StepGone ==
  ASSUME TypeInv, [Next]_vars, NEW k \in Rows, Gone(k) PROVE Gone(k)'
<1> USE DEF TypeInv
<1>1. k \in issued /\ k \notin table /\ \A q \in Requests : row[q] = k => pc[q] \notin {"save", "write"}
  BY DEF Gone
<1>3. ASSUME NEW r \in Requests, k \in issued', k \notin table',
             \A q \in Requests \ {r} : pc'[q] = pc[q] /\ row'[q] = row[q],
             row'[r] = k => pc'[r] \notin {"save", "write"}
      PROVE  Gone(k)'
  BY <1>1, <1>3 DEF Gone
<1>4. ASSUME NEW r \in Requests,
             \/ \E p \in AllPurposes : DeleteOld(r, p)
             \/ PeekRow(r) \/ FindRow(r) \/ LookUp(r) \/ Update(r) \/ Reinsert(r)
             \/ Deliver(r) \/ DeleteRow(r) \/ Commit(r) \/ Abort(r)
             \/ \E j \in Rows : Resend(r, j) \/ VerifyTotp(r, j)
             \/ \E j \in Rows, c \in Codes, g \in Goals : Check(r, j, c, g)
      PROVE  Gone(k)'
  <2>1. k \in issued'
    BY <1>1, <1>4 DEF DeleteOld, PeekRow, FindRow, LookUp, Update, Reinsert, Deliver, DeleteRow,
                      Commit, Abort, Resend, VerifyTotp, Check, rowVars
  <2>2. k \notin table'
    BY <1>1, <1>4 DEF DeleteOld, PeekRow, FindRow, LookUp, Update, Reinsert, Deliver, DeleteRow,
                      Commit, Abort, Resend, VerifyTotp, Check, rowVars
  <2>3. \A q \in Requests \ {r} : pc'[q] = pc[q] /\ row'[q] = row[q]
    BY <1>4 DEF DeleteOld, PeekRow, FindRow, LookUp, Update, Reinsert, Deliver, DeleteRow,
                Commit, Abort, Resend, VerifyTotp, Check, Finish, Goto, For, Hold, localVars, LocalTypeOK
  <2>4. row'[r] = k => pc'[r] \notin {"save", "write"}
    BY <1>1, <1>4 DEF DeleteOld, PeekRow, FindRow, LookUp, Update, Reinsert, Deliver, DeleteRow,
                      Commit, Abort, Resend, VerifyTotp, Check, Finish, Goto, For, Hold, localVars,
                      LocalTypeOK
  <2> QED
    BY <1>3, <2>1, <2>2, <2>3, <2>4
<1>5. ASSUME NEW r \in Requests, InsertRow(r) PROVE Gone(k)'
  <2>1. k \in issued' /\ k \notin table'
    BY <1>1, <1>5 DEF InsertRow
  <2>2. PICK j \in Rows : \/ Finish(r) \/ Proceed(r, j, "find", NoCode)
                         \/ Proceed(r, j, "peek", NoCode) \/ Proceed(r, j, "mail", draft[r])
    BY <1>5 DEF InsertRow, AfterInsert, AfterLogin, AfterForgetPassword, AfterRequestResetOtp,
                AfterContact
  <2>3. /\ pc'[r] \notin {"save", "write"}
        /\ \A q \in Requests \ {r} : pc'[q] = pc[q] /\ row'[q] = row[q]
    BY <2>2 DEF Finish, Proceed, Goto, For, Hold, LocalTypeOK
  <2> QED
    BY <1>3, <2>1, <2>3
<1>6. CASE MinutePasses \/ UNCHANGED vars
  BY <1>6, <1>1 DEF MinutePasses, vars, rowVars, localVars, Gone
<1>12. CASE Complete \/ VerifyFixedCode
  BY <1>12, <1>1 DEF Complete, VerifyFixedCode, DropAll, localVars, Gone
<1>7. Purposes \subseteq AllPurposes /\ {"signup", "contact"} \subseteq AllPurposes
      /\ {"admit", "reset"} \subseteq Goals
  BY OtpAssumption DEF AllPurposes, Goals
<1>8. ASSUME NEW r \in Requests, NEW p \in Purposes, CreateChallenge(r, p) PROVE Gone(k)'
  BY <1>4, <1>7, <1>8 DEF CreateChallenge
<1>9. ASSUME NEW r \in Requests, IssueOtp(r) \/ RequestContactChangeOtp(r) PROVE Gone(k)'
  BY <1>4, <1>7, <1>9 DEF IssueOtp, RequestContactChangeOtp
<1>10. ASSUME NEW r \in Requests, NEW j \in Rows, NEW c \in Codes,
              VerifyChallenge(r, j, c) \/ VerifyLegacyOtp(r, j, c) \/ VerifyContactChangeOtp(r, j, c)
       PROVE  Gone(k)'
  <2>1. PICK g \in Goals : Check(r, j, c, g)
    BY <1>7, <1>10 DEF VerifyChallenge, VerifyLegacyOtp, VerifyContactChangeOtp
  <2> QED
    BY <1>4, <2>1
<1>11. ASSUME NEW r \in Requests,
              \/ PeekRow(r) \/ FindRow(r) \/ LookUp(r) \/ Update(r) \/ Reinsert(r)
              \/ Deliver(r) \/ DeleteRow(r) \/ Commit(r) \/ Abort(r)
              \/ \E j \in Rows : Resend(r, j) \/ VerifyTotp(r, j)
       PROVE  Gone(k)'
  BY <1>4, <1>11
<1> QED
  BY <1>5, <1>6, <1>8, <1>9, <1>10, <1>11, <1>12 DEF Next

\* A challenge that was used up or replaced never returns, unless a resend was
\* holding its row.
THEOREM UsedUpForGood == Spec => GoneForGood
<1>1. TypeInv /\ [Next]_vars => [\A k \in Rows : Gone(k) => Gone(k)']_vars
  BY StepGone
<1> QED
  BY <1>1, InitTypeInv, StepTypeInv, PTL DEF Spec, GoneForGood

=============================================================================
