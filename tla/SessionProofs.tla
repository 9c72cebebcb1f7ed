---------------------------- MODULE SessionProofs ----------------------------
(***************************************************************************)
(* Proofs about refresh tokens and web sessions.  First the server alone,  *)
(* RefreshTokens: for every number of tokens, requests, devices and        *)
(* sessions and every length of the lifetimes.  Then the browser and the   *)
(* server together, WebSession: for every number of tabs and calls, too;   *)
(* what holds of the server is carried over to it.                         *)
(***************************************************************************)
EXTENDS WebSession, RefreshTokensBaton, TLAPS

(***************************************************************************)
(* What the locals of a request hold at each of its statements.  Without   *)
(* it neither TypeOK nor OneHeirPerFamily is inductive: a request could    *)
(* answer with no token, or hand on a family it has not consumed.          *)
(***************************************************************************)
RowsWellFormed ==
  \A t \in rows : fam[t] \in rows /\ ses[t] \in Sessions

LocalsWellFormed ==
  \A r \in Requests :
    /\ pc[r] \in {"consume", "mint", "cut"} => held[r] \in rows /\ sess[r] \in Sessions
    /\ pc[r] \in {"consume", "mint"} => flow[r] = "refresh"
    /\ pc[r] \in {"find", "upsert"} => flow[r] \in {"login", "refresh"}
    /\ pc[r] \in {"find", "upsert"} /\ flow[r] = "refresh" => next[r] \in rows
    /\ pc[r] \in {"retire", "first"} => sess[r] \in Sessions
    /\ pc[r] = "respond" => next[r] \in rows /\ sess[r] \in Sessions
    /\ pc[r] = "mint" => held[r] \in used

TypeInv == TypeOK /\ RowsWellFormed /\ LocalsWellFormed

LEMMA TypeInvInit == Init => TypeInv
BY LifeAssumption DEF Init, TypeInv, TypeOK, StoreTypeOK, RequestTypeOK,
   RowsWellFormed, LocalsWellFormed, Labels, Sessions

LEMMA TypeInvStep == TypeInv /\ [Next]_vars => TypeInv'
<1> SUFFICES ASSUME TypeInv, [Next]_vars PROVE TypeInv'
  OBVIOUS
<1> USE LifeAssumption, NoneAssumption
<1> USE DEF TypeInv, TypeOK, StoreTypeOK, RequestTypeOK, RowsWellFormed,
            LocalsWellFormed, Labels, Goto,
            tokenVars, sessionVars, clientVars, localVars
<1>1. ASSUME NEW r \in Requests, NEW d \in Devices, StartLogin(r, d) PROVE TypeInv'
  <2>1. StoreTypeOK'
    BY <1>1 DEF StartLogin
  <2>2. RequestTypeOK'
    BY <1>1 DEF StartLogin
  <2>3. RowsWellFormed'
    BY <1>1 DEF StartLogin
  <2>4. LocalsWellFormed'
    BY <1>1 DEF StartLogin
  <2>5. QED
    BY <2>1, <2>2, <2>3, <2>4
<1>2. ASSUME NEW r \in Requests, NEW t \in Tokens, ReadToken(r, t) PROVE TypeInv'
  <2>1. StoreTypeOK'
    BY <1>2 DEF ReadToken, StartCut
  <2>2. RequestTypeOK'
    BY <1>2 DEF ReadToken, StartCut
  <2>3. RowsWellFormed'
    BY <1>2 DEF ReadToken, StartCut
  <2>4. LocalsWellFormed'
    BY <1>2 DEF ReadToken, StartCut
  <2>5. QED
    BY <2>1, <2>2, <2>3, <2>4
<1>3. ASSUME NEW r \in Requests, NEW s \in Sessions, StartLogout(r, s) PROVE TypeInv'
  <2>1. StoreTypeOK'
    BY <1>3 DEF StartLogout
  <2>2. RequestTypeOK'
    BY <1>3 DEF StartLogout
  <2>3. RowsWellFormed'
    BY <1>3 DEF StartLogout
  <2>4. LocalsWellFormed'
    BY <1>3 DEF StartLogout
  <2>5. QED
    BY <2>1, <2>2, <2>3, <2>4
<1>4. ASSUME NEW r \in Requests, FindSession(r) PROVE TypeInv'
  <2>1. StoreTypeOK'
    BY <1>4 DEF FindSession, OnDevice, Inserted
  <2>2. RequestTypeOK'
    BY <1>4 DEF FindSession, OnDevice, Inserted
  <2>3. RowsWellFormed'
    BY <1>4 DEF FindSession, OnDevice, Inserted
  <2>4. LocalsWellFormed'
    BY <1>4 DEF FindSession, OnDevice, Inserted
  <2>5. QED
    BY <2>1, <2>2, <2>3, <2>4
<1>5. ASSUME NEW r \in Requests, ReviveSession(r) PROVE TypeInv'
  <2>1. StoreTypeOK'
    BY <1>5 DEF ReviveSession, AfterUpsert
  <2>2. RequestTypeOK'
    BY <1>5 DEF ReviveSession, AfterUpsert
  <2>3. RowsWellFormed'
    BY <1>5 DEF ReviveSession, AfterUpsert
  <2>4. LocalsWellFormed'
    BY <1>5 DEF ReviveSession, AfterUpsert
  <2>5. QED
    BY <2>1, <2>2, <2>3, <2>4
<1>6. ASSUME NEW r \in Requests, InsertSession(r) PROVE TypeInv'
  <2>1. StoreTypeOK'
    BY <1>6 DEF InsertSession, AfterUpsert, Inserted
  <2>2. RequestTypeOK'
    BY <1>6 DEF InsertSession, AfterUpsert, Inserted
  <2>3. RowsWellFormed'
    BY <1>6 DEF InsertSession, AfterUpsert, Inserted
  <2>4. LocalsWellFormed'
    BY <1>6 DEF InsertSession, AfterUpsert, Inserted
  <2>5. QED
    BY <2>1, <2>2, <2>3, <2>4
<1>7. ASSUME NEW r \in Requests, RetireLive(r) PROVE TypeInv'
  <2>1. StoreTypeOK'
    BY <1>7 DEF RetireLive, Live
  <2>2. RequestTypeOK'
    BY <1>7 DEF RetireLive, Live
  <2>3. RowsWellFormed'
    BY <1>7 DEF RetireLive, Live
  <2>4. LocalsWellFormed'
    BY <1>7 DEF RetireLive, Live
  <2>5. QED
    BY <2>1, <2>2, <2>3, <2>4
<1>8. ASSUME NEW r \in Requests, MintFirst(r) PROVE TypeInv'
  <2>1. StoreTypeOK'
    BY <1>8 DEF MintFirst, Insert, IdleEnd, Lesser
  <2>2. RequestTypeOK'
    BY <1>8 DEF MintFirst, Insert, IdleEnd, Lesser
  <2>3. RowsWellFormed'
    BY <1>8 DEF MintFirst, Insert, IdleEnd, Lesser
  <2>4. LocalsWellFormed'
    BY <1>8 DEF MintFirst, Insert, IdleEnd, Lesser
  <2>5. QED
    BY <2>1, <2>2, <2>3, <2>4
<1>9. ASSUME NEW r \in Requests, Respond(r) PROVE TypeInv'
  <2>1. StoreTypeOK'
    BY <1>9 DEF Respond, Finish
  <2>2. RequestTypeOK'
    BY <1>9 DEF Respond, Finish
  <2>3. RowsWellFormed'
    BY <1>9 DEF Respond, Finish
  <2>4. LocalsWellFormed'
    BY <1>9 DEF Respond, Finish
  <2>5. QED
    BY <2>1, <2>2, <2>3, <2>4
<1>10. ASSUME NEW r \in Requests, Consume(r) PROVE TypeInv'
  <2>1. StoreTypeOK'
    BY <1>10 DEF Consume, Live, StartCut
  <2>2. RequestTypeOK'
    BY <1>10 DEF Consume, Live, StartCut
  <2>3. RowsWellFormed'
    BY <1>10 DEF Consume, Live, StartCut
  <2>4. LocalsWellFormed'
    BY <1>10 DEF Consume, Live, StartCut
  <2>5. QED
    BY <2>1, <2>2, <2>3, <2>4
<1>11. ASSUME NEW r \in Requests, MintNext(r) PROVE TypeInv'
  <2>1. StoreTypeOK'
    BY <1>11 DEF MintNext, Minting, Insert, IdleEnd, Lesser
  <2>2. RequestTypeOK'
    BY <1>11 DEF MintNext, Minting, Insert, IdleEnd, Lesser
  <2>3. RowsWellFormed'
    BY <1>11 DEF MintNext, Minting, Insert, IdleEnd, Lesser
  <2>4. LocalsWellFormed'
    BY <1>11 DEF MintNext, Minting, Insert, IdleEnd, Lesser
  <2>5. QED
    BY <2>1, <2>2, <2>3, <2>4
<1>12. ASSUME NEW r \in Requests, CutTokens(r) PROVE TypeInv'
  <2>1. StoreTypeOK'
    BY <1>12 DEF CutTokens, Done, Finish, Family
  <2>2. RequestTypeOK'
    <3>1. CASE Finish(r)
      BY <1>12, <3>1 DEF Finish
    <3>2. CASE ~Finish(r)
      BY <1>12, <3>2 DEF CutTokens, Done
    <3>3. QED
      BY <3>1, <3>2
  <2>3. RowsWellFormed'
    BY <1>12 DEF CutTokens, Done, Finish, Family
  <2>4. LocalsWellFormed'
    BY <1>12 DEF CutTokens, Done, Finish, Family
  <2>5. QED
    BY <2>1, <2>2, <2>3, <2>4
<1>13. ASSUME NEW r \in Requests, CutSession(r) PROVE TypeInv'
  <2>1. StoreTypeOK'
    BY <1>13 DEF CutSession, Done, Finish
  <2>2. RequestTypeOK'
    <3>1. CASE Finish(r)
      BY <1>13, <3>1 DEF Finish
    <3>2. CASE ~Finish(r)
      BY <1>13, <3>2 DEF CutSession, Done
    <3>3. QED
      BY <3>1, <3>2
  <2>3. RowsWellFormed'
    BY <1>13 DEF CutSession, Done, Finish
  <2>4. LocalsWellFormed'
    BY <1>13 DEF CutSession, Done, Finish
  <2>5. QED
    BY <2>1, <2>2, <2>3, <2>4
<1>14. ASSUME NEW r \in Requests, LogoutTokens(r) PROVE TypeInv'
  <2>1. StoreTypeOK'
    BY <1>14 DEF LogoutTokens, LogoutDone
  <2>2. RequestTypeOK'
    BY <1>14 DEF LogoutTokens, LogoutDone
  <2>3. RowsWellFormed'
    BY <1>14 DEF LogoutTokens, LogoutDone
  <2>4. LocalsWellFormed'
    BY <1>14 DEF LogoutTokens, LogoutDone
  <2>5. QED
    BY <2>1, <2>2, <2>3, <2>4
<1>15. ASSUME NEW r \in Requests, LogoutSession(r) PROVE TypeInv'
  <2>1. StoreTypeOK'
    BY <1>15 DEF LogoutSession, LogoutDone
  <2>2. RequestTypeOK'
    BY <1>15 DEF LogoutSession, LogoutDone
  <2>3. RowsWellFormed'
    BY <1>15 DEF LogoutSession, LogoutDone
  <2>4. LocalsWellFormed'
    BY <1>15 DEF LogoutSession, LogoutDone
  <2>5. QED
    BY <2>1, <2>2, <2>3, <2>4
<1>16. ASSUME NEW r \in Requests, LogoutDevice(r) PROVE TypeInv'
  <2>1. StoreTypeOK'
    BY <1>16 DEF LogoutDevice, Finish
  <2>2. RequestTypeOK'
    BY <1>16 DEF LogoutDevice, Finish
  <2>3. RowsWellFormed'
    BY <1>16 DEF LogoutDevice, Finish
  <2>4. LocalsWellFormed'
    BY <1>16 DEF LogoutDevice, Finish
  <2>5. QED
    BY <2>1, <2>2, <2>3, <2>4
<1>17. ASSUME NEW r \in Requests, Abort(r) PROVE TypeInv'
  <2>1. StoreTypeOK'
    BY <1>17 DEF Abort, Finish
  <2>2. RequestTypeOK'
    BY <1>17 DEF Abort, Finish
  <2>3. RowsWellFormed'
    BY <1>17 DEF Abort, Finish
  <2>4. LocalsWellFormed'
    BY <1>17 DEF Abort, Finish
  <2>5. QED
    BY <2>1, <2>2, <2>3, <2>4
<1>18. CASE DayPasses
  BY <1>18 DEF DayPasses
<1>19. CASE UNCHANGED vars
  BY <1>19 DEF vars
<1>20. QED
  BY <1>1, <1>2, <1>3, <1>4, <1>5, <1>6, <1>7, <1>8, <1>9, <1>10, <1>11, <1>12,
     <1>13, <1>14, <1>15, <1>16, <1>17, <1>18, <1>19 DEF Next, Step

\* Type correctness: every row, session and local variable of a request is
\* what the statements that read it expect.
THEOREM TypeCorrect == Spec => []TypeOK
<1>1. TypeInv => TypeOK
  BY DEF TypeInv
<1>2. QED
  BY <1>1, TypeInvInit, TypeInvStep, PTL DEF Spec
-----------------------------------------------------------------------------
(***************************************************************************)
(* OneHeirPerFamily.  Only three statements can disturb it: the            *)
(* conditional UPDATE, which turns the live token of a family into a       *)
(* rotation, and the two INSERTs.  Everything else can only take live      *)
(* tokens and rotations away.                                              *)
(***************************************************************************)
HeirInv == TypeInv /\ OneHeirPerFamily

LEMMA HeirKept ==
  ASSUME OneHeirPerFamily,
         rows' = rows, fam' = fam, used' = used, revoked \subseteq revoked',
         \A q \in Requests : pc'[q] = "mint" => pc[q] = "mint" /\ held'[q] = held[q]
  PROVE  OneHeirPerFamily'
<1>1. \A t \in rows : Live(t)' => Live(t)
  BY DEF Live
<1>2. \A q \in Requests : Minting(q)' => Minting(q) /\ held'[q] = held[q]
  BY DEF Minting
<1>3. QED
  BY <1>1, <1>2 DEF OneHeirPerFamily

\* The conditional UPDATE: the live token of the family becomes the rotation.
LEMMA ConsumeKeepsHeir ==
  ASSUME HeirInv, NEW r \in Requests, Consume(r)
  PROVE  OneHeirPerFamily'
<1> USE DEF HeirInv, TypeInv, TypeOK, StoreTypeOK, RequestTypeOK, LocalsWellFormed
<1>1. CASE ~Live(held[r])
  <2>1. pc' = [pc EXCEPT ![r] = "cut"] /\ used' = used
    BY <1>1 DEF Consume, StartCut, Goto
  <2>2. QED
    BY <2>1, HeirKept DEF Consume, tokenVars
<1>2. CASE Live(held[r])
  <2>1. /\ used' = used \cup {held[r]} /\ pc' = [pc EXCEPT ![r] = "mint"]
        /\ rows' = rows /\ fam' = fam /\ revoked' = revoked /\ held' = held
    BY <1>2 DEF Consume, Goto, tokenVars
  <2>2. \A t \in rows : Live(t)' => Live(t) /\ t # held[r]
    BY <2>1 DEF Live
  <2>3. \A q \in Requests : Minting(q)' => q = r \/ Minting(q)
    BY <2>1 DEF Minting
  <2>4. held[r] \in rows
    BY DEF Consume
  <2>5. \A t \in rows : Live(t)' => fam[t] # fam[held[r]]
    BY <1>2, <2>2, <2>4 DEF OneHeirPerFamily
  <2>6. \A q \in Requests : Minting(q) => fam[held[q]] # fam[held[r]]
    BY <1>2, <2>4 DEF OneHeirPerFamily
  <2>7. QED
    BY <2>1, <2>2, <2>3, <2>5, <2>6 DEF OneHeirPerFamily
<1>3. QED
  BY <1>1, <1>2

\* issue's INSERT: the family is new, so nobody can hold it.
LEMMA MintFirstKeepsHeir ==
  ASSUME HeirInv, NEW r \in Requests, MintFirst(r)
  PROVE  OneHeirPerFamily'
<1> USE DEF HeirInv, TypeInv, TypeOK, StoreTypeOK, RequestTypeOK, LocalsWellFormed,
            RowsWellFormed
<1>1. PICK t \in Tokens \ rows : Insert(r, t, t, now[r] + AbsLife)
  BY DEF MintFirst, Insert
<1>2. /\ rows' = rows \cup {t} /\ fam' = [fam EXCEPT ![t] = t]
      /\ used' = used /\ revoked' = revoked /\ held' = held
      /\ pc' = [pc EXCEPT ![r] = "respond"] /\ pc[r] = "first"
  BY <1>1 DEF MintFirst, Insert, Goto
<1>3. \A u \in rows : (Live(u)' <=> Live(u)) /\ fam'[u] = fam[u] /\ fam[u] # t
  BY <1>2 DEF Live
<1>4. \A q \in Requests : Minting(q)' <=> Minting(q)
  BY <1>2 DEF Minting
<1>5. \A q \in Requests : Minting(q) => held[q] \in rows
  BY DEF Minting
<1>6. QED
  BY <1>2, <1>3, <1>4, <1>5 DEF OneHeirPerFamily

\* rotate's INSERT: the rotation becomes the live token of the family.
LEMMA MintNextKeepsHeir ==
  ASSUME HeirInv, NEW r \in Requests, MintNext(r)
  PROVE  OneHeirPerFamily'
<1> USE DEF HeirInv, TypeInv, TypeOK, StoreTypeOK, RequestTypeOK, LocalsWellFormed,
            RowsWellFormed
<1>1. PICK t \in Tokens \ rows : Insert(r, t, fam[held[r]], expires[held[r]])
  BY DEF MintNext, Insert
<1>2. /\ rows' = rows \cup {t} /\ fam' = [fam EXCEPT ![t] = fam[held[r]]]
      /\ used' = used /\ revoked' = revoked /\ held' = held
      /\ pc' = [pc EXCEPT ![r] = "find"] /\ Minting(r)
  BY <1>1 DEF MintNext, Insert, Goto
<1>3. \A u \in rows : (Live(u)' <=> Live(u)) /\ fam'[u] = fam[u]
  BY <1>2 DEF Live
<1>4. \A q \in Requests : Minting(q)' <=> Minting(q) /\ q # r
  BY <1>2 DEF Minting
<1>5. \A q \in Requests : Minting(q) => held[q] \in rows
  BY DEF Minting
<1>6. fam'[t] = fam[held[r]]
  BY <1>2
<1>7. QED
  BY <1>2, <1>3, <1>4, <1>5, <1>6 DEF OneHeirPerFamily

LEMMA HeirInvInit == Init => HeirInv
<1>1. Init => OneHeirPerFamily
  BY DEF Init, OneHeirPerFamily, Minting
<1>2. QED
  BY <1>1, TypeInvInit DEF HeirInv

LEMMA HeirInvStep == HeirInv /\ [Next]_vars => HeirInv'
<1> SUFFICES ASSUME HeirInv, [Next]_vars PROVE OneHeirPerFamily'
  BY TypeInvStep DEF HeirInv
<1> USE DEF HeirInv, TypeInv, TypeOK, StoreTypeOK, RequestTypeOK, Goto,
            tokenVars, sessionVars, clientVars, localVars
<1>1. ASSUME NEW r \in Requests, NEW d \in Devices, StartLogin(r, d) PROVE OneHeirPerFamily'
  BY <1>1, HeirKept DEF StartLogin
<1>2. ASSUME NEW r \in Requests, NEW s \in Sessions, StartLogout(r, s) PROVE OneHeirPerFamily'
  BY <1>2, HeirKept DEF StartLogout
<1>3. ASSUME NEW r \in Requests, NEW t \in Tokens, ReadToken(r, t) PROVE OneHeirPerFamily'
  BY <1>3, HeirKept DEF ReadToken, StartCut
<1>4. ASSUME NEW r \in Requests, FindSession(r) PROVE OneHeirPerFamily'
  BY <1>4, HeirKept DEF FindSession
<1>5. ASSUME NEW r \in Requests, ReviveSession(r) PROVE OneHeirPerFamily'
  BY <1>5, HeirKept DEF ReviveSession, AfterUpsert
<1>6. ASSUME NEW r \in Requests, InsertSession(r) PROVE OneHeirPerFamily'
  BY <1>6, HeirKept DEF InsertSession, AfterUpsert
<1>7. ASSUME NEW r \in Requests, RetireLive(r) PROVE OneHeirPerFamily'
  BY <1>7, HeirKept DEF RetireLive
<1>8. ASSUME NEW r \in Requests, Respond(r) PROVE OneHeirPerFamily'
  BY <1>8, HeirKept DEF Respond, Finish
<1>9. ASSUME NEW r \in Requests, CutTokens(r) PROVE OneHeirPerFamily'
  BY <1>9, HeirKept DEF CutTokens, Done, Finish
<1>10. ASSUME NEW r \in Requests, CutSession(r) PROVE OneHeirPerFamily'
  BY <1>10, HeirKept DEF CutSession, Done, Finish
<1>11. ASSUME NEW r \in Requests, LogoutTokens(r) PROVE OneHeirPerFamily'
  BY <1>11, HeirKept DEF LogoutTokens, LogoutDone
<1>12. ASSUME NEW r \in Requests, LogoutSession(r) PROVE OneHeirPerFamily'
  BY <1>12, HeirKept DEF LogoutSession, LogoutDone
<1>13. ASSUME NEW r \in Requests, LogoutDevice(r) PROVE OneHeirPerFamily'
  BY <1>13, HeirKept DEF LogoutDevice, Finish
<1>14. ASSUME NEW r \in Requests, Abort(r) PROVE OneHeirPerFamily'
  BY <1>14, HeirKept DEF Abort, Finish
<1>15. CASE DayPasses
  BY <1>15, HeirKept DEF DayPasses
<1>16. CASE UNCHANGED vars
  BY <1>16, HeirKept DEF vars
<1>17. QED
  BY <1>1, <1>2, <1>3, <1>4, <1>5, <1>6, <1>7, <1>8, <1>9, <1>10, <1>11, <1>12,
     <1>13, <1>14, <1>15, <1>16, ConsumeKeepsHeir, MintFirstKeepsHeir,
     MintNextKeepsHeir DEF Next, Step

\* A family of refresh tokens is never forked: at every moment at most one
\* token of it can be redeemed, or one request has the right to insert it.
THEOREM NeverForked == Spec => []OneHeirPerFamily
<1>1. HeirInv => OneHeirPerFamily
  BY DEF HeirInv
<1>2. QED
  BY <1>1, HeirInvInit, HeirInvStep, PTL DEF Spec
-----------------------------------------------------------------------------
(***************************************************************************)
(* What a family keeps: the token it is named after is in it, and all its  *)
(* tokens have the expires_at given at login.  A rotation works on a token *)
(* that had not lapsed when it was read.                                   *)
(***************************************************************************)
RootsInv ==
  \A t \in rows : fam[fam[t]] = fam[t] /\ expires[t] = expires[fam[t]]

InTimeInv ==
  \A r \in Requests : pc[r] \in {"consume", "mint"} => now[r] < expires[held[r]]

FamilyInv == TypeInv /\ RootsInv /\ InTimeInv

\* An INSERT leaves the rows there are alone; every other statement the tokens.
LEMMA FamilyKept ==
  ASSUME FamilyInv, UNCHANGED <<rows, fam, expires>>,
         \A q \in Requests : pc'[q] \in {"consume", "mint"} =>
           \/ pc[q] \in {"consume", "mint"} /\ held'[q] = held[q] /\ now'[q] = now[q]
           \/ now'[q] < expires[held'[q]]
  PROVE  RootsInv' /\ InTimeInv'
BY DEF FamilyInv, RootsInv, InTimeInv

LEMMA FamilyInserted ==
  ASSUME FamilyInv, NEW r \in Requests, NEW t, NEW f, NEW end, Insert(r, t, f, end),
         \/ f = t
         \/ f \in rows /\ fam[f] = f /\ expires[f] = end,
         UNCHANGED <<held, now>>,
         \A q \in Requests : pc'[q] \in {"consume", "mint"} => pc[q] = pc'[q]
  PROVE  RootsInv' /\ InTimeInv'
<1> USE DEF FamilyInv, TypeInv, TypeOK, StoreTypeOK, RowsWellFormed, RootsInv, InTimeInv
<1>1. /\ t \in Tokens \ rows /\ rows' = rows \cup {t}
      /\ fam' = [fam EXCEPT ![t] = f] /\ expires' = [expires EXCEPT ![t] = end]
  BY DEF Insert
<1>2. fam'[t] = f /\ expires'[t] = end
  BY <1>1
<1>3. \A u \in rows : fam'[u] = fam[u] /\ expires'[u] = expires[u] /\ fam[u] \in rows
  BY <1>1
<1>4. RootsInv'
  BY <1>1, <1>2, <1>3
<1>5. \A q \in Requests : pc[q] \in {"consume", "mint"} => held[q] \in rows
  BY DEF LocalsWellFormed
<1>6. InTimeInv'
  BY <1>3, <1>5
<1> QED
  BY <1>4, <1>6

LEMMA FamilyInvInit == Init => FamilyInv
<1>1. Init => RootsInv /\ InTimeInv
  BY DEF Init, RootsInv, InTimeInv
<1> QED
  BY <1>1, TypeInvInit DEF FamilyInv

LEMMA FamilyInvStep == FamilyInv /\ [Next]_vars => FamilyInv'
<1> SUFFICES ASSUME FamilyInv, [Next]_vars PROVE RootsInv' /\ InTimeInv'
  BY TypeInvStep DEF FamilyInv
<1>1. TypeInv
  BY DEF FamilyInv
<1> USE DEF TypeInv, TypeOK, StoreTypeOK, RequestTypeOK, Goto,
            tokenVars, sessionVars, clientVars, localVars
<1>2. ASSUME NEW r \in Requests, NEW d \in Devices, StartLogin(r, d)
      PROVE  RootsInv' /\ InTimeInv'
  BY <1>1, <1>2, FamilyKept DEF StartLogin
<1>3. ASSUME NEW r \in Requests, NEW s \in Sessions, StartLogout(r, s)
      PROVE  RootsInv' /\ InTimeInv'
  BY <1>1, <1>3, FamilyKept DEF StartLogout
<1>4. ASSUME NEW r \in Requests, NEW t \in Tokens, ReadToken(r, t)
      PROVE  RootsInv' /\ InTimeInv'
  <2>1. ~Rejected(t) => clock < expires[t]
    BY <1>1 DEF Rejected
  <2> QED
    BY <1>1, <1>4, <2>1, FamilyKept DEF ReadToken, StartCut
<1>5. ASSUME NEW r \in Requests,
             \/ FindSession(r) \/ ReviveSession(r) \/ InsertSession(r) \/ RetireLive(r)
             \/ Consume(r)
      PROVE  RootsInv' /\ InTimeInv'
  BY <1>1, <1>5, FamilyKept
     DEF FindSession, ReviveSession, InsertSession, AfterUpsert, RetireLive, Consume, StartCut
<1>6. ASSUME NEW r \in Requests, MintFirst(r) PROVE RootsInv' /\ InTimeInv'
  <2>1. PICK t \in Tokens : Insert(r, t, t, now[r] + AbsLife)
    BY <1>6 DEF MintFirst
  <2> QED
    BY <1>1, <1>6, <2>1, FamilyInserted DEF MintFirst
<1>7. ASSUME NEW r \in Requests, MintNext(r) PROVE RootsInv' /\ InTimeInv'
  <2>1. PICK t \in Tokens : Insert(r, t, fam[held[r]], expires[held[r]])
    BY <1>7 DEF MintNext
  <2>2. held[r] \in rows /\ fam[held[r]] \in rows
    BY <1>1, <1>7 DEF MintNext, Minting, LocalsWellFormed, RowsWellFormed
  <2>3. fam[fam[held[r]]] = fam[held[r]] /\ expires[fam[held[r]]] = expires[held[r]]
    BY <2>2 DEF FamilyInv, RootsInv
  <2> QED
    BY <1>1, <1>7, <2>1, <2>2, <2>3, FamilyInserted DEF MintNext
<1>8. ASSUME NEW r \in Requests,
             \/ Respond(r) \/ CutTokens(r) \/ CutSession(r) \/ LogoutTokens(r)
             \/ LogoutSession(r) \/ LogoutDevice(r) \/ Abort(r)
      PROVE  RootsInv' /\ InTimeInv'
  BY <1>1, <1>8, FamilyKept
     DEF Respond, CutTokens, CutSession, LogoutTokens, LogoutSession, LogoutDone,
         LogoutDevice, Abort, Done, Finish
<1>9. CASE DayPasses \/ UNCHANGED vars
  BY <1>9, FamilyKept DEF DayPasses, vars
<1> QED
  BY <1>2, <1>3, <1>4, <1>5, <1>6, <1>7, <1>8, <1>9 DEF Next, Step

\* However often a token is rotated, and however long a rotation takes, it was
\* accepted before the expiry its family was given at login.
THEOREM RotationKeepsLifetime == Spec => []RedeemedWithinLifetime
<1>1. FamilyInv => RedeemedWithinLifetime
  BY DEF FamilyInv, TypeInv, LocalsWellFormed, RootsInv, InTimeInv, RedeemedWithinLifetime
<1> QED
  BY <1>1, FamilyInvInit, FamilyInvStep, PTL DEF Spec

-----------------------------------------------------------------------------
(***************************************************************************)
(* The baton.  The three statements that move one forward are the          *)
(* conditional UPDATE and the two INSERTs; all others lose some or none.   *)
(***************************************************************************)
BatonInv == HeirInv /\ FamilyInv

Rotating(f) == \E r \in Requests : Minting(r) /\ fam[held[r]] = f

\* Where the baton of a family is, without a CHOOSE.
LEMMA HolderIs ==
  ASSUME BatonInv, NEW f \in Tokens
  PROVE  /\ \A t \in LiveIn(f) : Holder(f) = t
         /\ LiveIn(f) = {} /\ Rotating(f) => Holder(f) = InFlight
         /\ LiveIn(f) = {} /\ ~Rotating(f) /\ Started(f) => Holder(f) = Lost
         /\ LiveIn(f) = {} /\ ~Rotating(f) /\ ~Started(f) => Holder(f) = Unborn
<1>1. \A t, u \in LiveIn(f) : t = u
  BY DEF BatonInv, HeirInv, OneHeirPerFamily, LiveIn
<1> QED
  BY <1>1 DEF Holder, Rotating
LEMMA NextHolderIs ==
  ASSUME BatonInv', NEW f \in Tokens
  PROVE  /\ \A t \in LiveIn(f)' : Holder(f)' = t
         /\ LiveIn(f)' = {} /\ Rotating(f)' => Holder(f)' = InFlight
         /\ LiveIn(f)' = {} /\ ~Rotating(f)' /\ Started(f)' => Holder(f)' = Lost
         /\ LiveIn(f)' = {} /\ ~Rotating(f)' /\ ~Started(f)' => Holder(f)' = Unborn
<1>1. \A t, u \in LiveIn(f)' : t = u
  BY DEF BatonInv, HeirInv, OneHeirPerFamily, LiveIn
<1> QED
  BY <1>1 DEF Holder, Rotating

\* A family with a live token or a rotation has been started, and has not both.
LEMMA HolderStarted ==
  ASSUME BatonInv, NEW f \in Tokens
  PROVE  /\ LiveIn(f) # {} => Started(f) /\ ~Rotating(f)
         /\ Rotating(f) => Started(f)
<1> USE DEF BatonInv, HeirInv, FamilyInv, TypeInv, RowsWellFormed, LocalsWellFormed, RootsInv,
            Started
<1>1. ASSUME NEW t \in LiveIn(f) PROVE Started(f) /\ ~Rotating(f)
  BY <1>1 DEF LiveIn, OneHeirPerFamily, Rotating
<1>2. ASSUME NEW r \in Requests, Minting(r), fam[held[r]] = f PROVE Started(f)
  BY <1>2 DEF Minting
<1> QED
  BY <1>1, <1>2 DEF Rotating

LEMMA SomeLost ==
  ASSUME BatonInv, BatonInv', rows' = rows, fam' = fam, used' = used, revoked \subseteq revoked',
         \A q \in Requests : pc'[q] = "mint" => pc[q] = "mint" /\ held'[q] = held[q]
  PROVE  Baton!Next
<1>1. ASSUME NEW f \in Tokens, Holder(f)' # Holder(f)
      PROVE  Holder(f) \in Tokens \cup {InFlight} /\ Holder(f)' = Lost
  <2>1. LiveIn(f)' \subseteq LiveIn(f) /\ (Rotating(f)' => Rotating(f)) /\ (Started(f)' <=> Started(f))
    BY DEF LiveIn, Live, Rotating, Minting, Started
  <2>2. CASE LiveIn(f) # {}
    <3>1. PICK t \in LiveIn(f) : Holder(f) = t
      BY <2>2, HolderIs
    <3>2. Started(f) /\ ~Rotating(f)
      BY <2>2, HolderStarted
    <3>3. LiveIn(f)' = {}
      BY <1>1, <2>1, <3>1, HolderIs, NextHolderIs
    <3>4. Holder(f)' = Lost
      BY <2>1, <3>2, <3>3, NextHolderIs
    <3>5. t \in Tokens
      BY DEF BatonInv, HeirInv, TypeInv, TypeOK, StoreTypeOK, LiveIn
    <3> QED
      BY <3>1, <3>4, <3>5
  <2>3. CASE LiveIn(f) = {} /\ Rotating(f)
    <3>1. Holder(f) = InFlight /\ Started(f)
      BY <2>3, HolderIs, HolderStarted
    <3>2. LiveIn(f)' = {} /\ ~Rotating(f)'
      BY <1>1, <2>1, <2>3, <3>1, NextHolderIs
    <3> QED
      BY <2>1, <3>1, <3>2, NextHolderIs
  <2>4. CASE LiveIn(f) = {} /\ ~Rotating(f)
    <3>1. LiveIn(f)' = {} /\ ~Rotating(f)'
      BY <2>1, <2>4
    <3> QED
      BY <1>1, <2>1, <2>4, <3>1, HolderIs, NextHolderIs
  <2> QED
    BY <2>2, <2>3, <2>4
<1> DEFINE F == {f \in Tokens : Holder(f)' # Holder(f)}
<1>2. Baton!Lose(F)
  BY <1>1 DEF Baton!Lose
<1> QED
  BY <1>2 DEF Baton!Next

LEMMA HolderSame ==
  ASSUME BatonInv, BatonInv', NEW f \in Tokens, LiveIn(f)' = LiveIn(f),
         Rotating(f)' <=> Rotating(f), Started(f)' <=> Started(f)
  PROVE  Holder(f)' = Holder(f)
BY HolderIs, NextHolderIs

\* The conditional UPDATE redeems the token that was held.
LEMMA ConsumeMaps ==
  ASSUME BatonInv, BatonInv', NEW r \in Requests, Consume(r)
  PROVE  Baton!Next
<1>0. /\ fam \in [Tokens -> Tokens] /\ rows \subseteq Tokens
      /\ pc \in [Requests -> Labels] /\ pc[r] = "consume" /\ held[r] \in rows
  BY DEF BatonInv, HeirInv, TypeInv, TypeOK, StoreTypeOK, RequestTypeOK, LocalsWellFormed, Consume
<1>1. CASE ~Live(held[r])
  <2>1. pc' = [pc EXCEPT ![r] = "cut"] /\ UNCHANGED <<used, rows, fam, revoked, held>>
    BY <1>1 DEF Consume, StartCut, Goto, tokenVars
  <2> QED
    BY <1>0, <2>1, SomeLost
<1>2. CASE Live(held[r])
  <2>0. PICK t \in Tokens, f \in Tokens : t = held[r] /\ f = fam[t]
    BY <1>0
  <2>1. /\ used' = used \cup {t} /\ pc' = [pc EXCEPT ![r] = "mint"]
        /\ UNCHANGED <<rows, fam, revoked, held>>
    BY <1>2, <2>0 DEF Consume, Goto, tokenVars
  <2>2. t \in rows /\ t \in LiveIn(f)
    BY <1>0, <1>2, <2>0 DEF LiveIn
  <2>3. Holder(f) = t
    BY <2>2, HolderIs
  <2>4. LiveIn(f)' = {} /\ Rotating(f)'
    <3>1. \A u \in LiveIn(f) : u = t
      BY <2>2, HolderIs
    <3>2. LiveIn(f)' \subseteq LiveIn(f) /\ t \notin LiveIn(f)'
      BY <2>1 DEF LiveIn, Live
    <3>3. Rotating(f)'
      BY <1>0, <2>0, <2>1 DEF Rotating, Minting
    <3> QED
      BY <3>1, <3>2, <3>3
  <2>5. Holder(f)' = InFlight
    BY <2>4, NextHolderIs
  <2>6. ASSUME NEW g \in Tokens \ {f} PROVE Holder(g)' = Holder(g)
    <3>1. LiveIn(g)' = LiveIn(g) /\ (Rotating(g)' <=> Rotating(g)) /\ (Started(g)' <=> Started(g))
      BY <1>0, <2>0, <2>1 DEF LiveIn, Live, Rotating, Minting, Started
    <3> QED
      BY <3>1, HolderSame
  <2>7. Baton!Redeem(f)
    BY <2>1, <2>2, <2>3, <2>5, <2>6 DEF Baton!Redeem
  <2> QED
    BY <2>2, <2>7 DEF Baton!Next
<1> QED
  BY <1>1, <1>2

\* An INSERT hands the baton to the new token.
LEMMA InsertMaps ==
  ASSUME BatonInv, BatonInv', NEW r \in Requests, NEW t \in Tokens, NEW f \in Tokens, NEW end,
         Insert(r, t, f, end), UNCHANGED <<used, revoked, held>>,
         \A q \in Requests : Minting(q)' <=> Minting(q) /\ q # r,
         f # t => f \in rows,
         \A g \in Tokens \ {f} : ~(Minting(r) /\ fam[held[r]] = g)
  PROVE  Baton!Hand(f)
<1>0. /\ fam \in [Tokens -> Tokens] /\ rows \subseteq Tokens /\ used \subseteq rows
      /\ revoked \subseteq rows /\ \A q \in Requests : Minting(q) => held[q] \in rows
  BY DEF BatonInv, HeirInv, TypeInv, TypeOK, StoreTypeOK, RequestTypeOK, LocalsWellFormed, Minting
<1>1. /\ t \notin rows /\ rows' = rows \cup {t} /\ fam' = [fam EXCEPT ![t] = f]
  BY DEF Insert
<1>2. t \in LiveIn(f)'
  BY <1>0, <1>1 DEF LiveIn, Live
<1>3. Holder(f)' = t
  BY <1>2, NextHolderIs
<1>4. ASSUME NEW g \in Tokens \ {f} PROVE Holder(g)' = Holder(g)
  <2>1. LiveIn(g)' = LiveIn(g)
    BY <1>0, <1>1 DEF LiveIn, Live
  <2>3. Rotating(g)' <=> Rotating(g)
    BY <1>0, <1>1 DEF Rotating
  <2>4. Started(g)' <=> Started(g)
    BY <1>0, <1>1 DEF Started
  <2> QED
    BY <2>1, <2>3, <2>4, HolderSame
<1> QED
  BY <1>1, <1>3, <1>4 DEF Baton!Hand

LEMMA MintMaps ==
  ASSUME BatonInv, BatonInv', NEW r \in Requests, MintFirst(r) \/ MintNext(r)
  PROVE  Baton!Next
<1> USE DEF BatonInv, HeirInv, FamilyInv, TypeInv, TypeOK, StoreTypeOK, RequestTypeOK, RowsWellFormed
<1>1. CASE MintFirst(r)
  <2>1. PICK t \in Tokens : Insert(r, t, t, now[r] + AbsLife)
    BY <1>1 DEF MintFirst
  <2>2. /\ pc[r] = "first" /\ pc' = [pc EXCEPT ![r] = "respond"]
        /\ UNCHANGED <<used, revoked, held>> /\ t \notin rows
    BY <1>1, <2>1 DEF MintFirst, Goto, Insert
  <2>3. ~Minting(r) /\ \A q \in Requests : Minting(q)' <=> Minting(q) /\ q # r
    BY <2>2 DEF Minting
  <2>4. Baton!Hand(t)
    BY <2>1, <2>2, <2>3, InsertMaps
  <2>5. Holder(t) = Unborn
    <3>1. LiveIn(t) = {} /\ ~Rotating(t) /\ ~Started(t)
      BY <2>2 DEF LiveIn, Rotating, Minting, Started, LocalsWellFormed
    <3> QED
      BY <3>1, HolderIs
  <2> QED
    BY <2>4, <2>5 DEF Baton!Next, Baton!Start
<1>2. CASE MintNext(r)
  <2>0. PICK f \in Tokens : f = fam[held[r]]
    BY <1>2 DEF MintNext, Minting, LocalsWellFormed
  <2>1. PICK t \in Tokens : Insert(r, t, f, expires[held[r]])
    BY <1>2, <2>0 DEF MintNext
  <2>2. /\ Minting(r) /\ pc' = [pc EXCEPT ![r] = "find"]
        /\ UNCHANGED <<used, revoked, held>>
    BY <1>2 DEF MintNext, Goto
  <2>3. \A q \in Requests : Minting(q)' <=> Minting(q) /\ q # r
    BY <2>2 DEF Minting
  <2>4. f \in rows
    BY <2>0, <2>2 DEF Minting, LocalsWellFormed
  <2>5. Baton!Hand(f)
    BY <2>0, <2>1, <2>2, <2>3, <2>4, InsertMaps
  <2>6. Holder(f) = InFlight
    <3>1. LiveIn(f) = {} /\ Rotating(f)
      BY <2>0, <2>2, <2>4 DEF LiveIn, Rotating, OneHeirPerFamily
    <3> QED
      BY <2>4, <3>1, HolderIs
  <2> QED
    BY <2>4, <2>5, <2>6 DEF Baton!Next, Baton!Succeed
<1> QED
  BY <1>1, <1>2

LEMMA BatonInitMaps == Init => Baton!Init
BY HolderAssumption DEF Init, Baton!Init, Holder, LiveIn, Minting, Started

LEMMA BatonStepMaps == BatonInv /\ BatonInv' /\ [Next]_vars => [Baton!Next]_Baton!vars
<1> SUFFICES ASSUME BatonInv, BatonInv', [Next]_vars PROVE Baton!Next
  OBVIOUS
<1> USE DEF BatonInv, HeirInv, TypeInv, TypeOK, StoreTypeOK, RequestTypeOK, Goto,
            tokenVars, sessionVars, clientVars, localVars
<1>1. ASSUME NEW r \in Requests, NEW d \in Devices, StartLogin(r, d) PROVE Baton!Next
  BY <1>1, SomeLost DEF StartLogin
<1>2. ASSUME NEW r \in Requests, NEW s \in Sessions, StartLogout(r, s) PROVE Baton!Next
  BY <1>2, SomeLost DEF StartLogout
<1>3. ASSUME NEW r \in Requests, NEW t \in Tokens, ReadToken(r, t) PROVE Baton!Next
  BY <1>3, SomeLost DEF ReadToken, StartCut
<1>4. ASSUME NEW r \in Requests,
             FindSession(r) \/ ReviveSession(r) \/ InsertSession(r) \/ RetireLive(r)
      PROVE  Baton!Next
  BY <1>4, SomeLost DEF FindSession, ReviveSession, InsertSession, AfterUpsert, RetireLive
<1>5. ASSUME NEW r \in Requests, Respond(r) \/ CutTokens(r) \/ CutSession(r) PROVE Baton!Next
  BY <1>5, SomeLost DEF Respond, CutTokens, CutSession, Done, Finish
<1>6. ASSUME NEW r \in Requests,
             LogoutTokens(r) \/ LogoutSession(r) \/ LogoutDevice(r) \/ Abort(r)
      PROVE  Baton!Next
  BY <1>6, SomeLost DEF LogoutTokens, LogoutSession, LogoutDone, LogoutDevice, Abort, Finish
<1>7. CASE DayPasses \/ UNCHANGED vars
  BY <1>7, SomeLost DEF DayPasses, vars
<1> QED
  BY <1>1, <1>2, <1>3, <1>4, <1>5, <1>6, <1>7, ConsumeMaps, MintMaps DEF Next, Step

\* The rows and the requests implement the baton: every statement hands one on,
\* loses some or leaves them where they are.
THEOREM RefinesBaton == Spec => HoldsBaton
<1>1. Spec => []BatonInv
  BY HeirInvInit, HeirInvStep, FamilyInvInit, FamilyInvStep, PTL DEF Spec, BatonInv
<1> QED
  BY <1>1, BatonInitMaps, BatonStepMaps, PTL DEF Spec, HoldsBaton, Baton!Spec

-----------------------------------------------------------------------------
(***************************************************************************)
(* Closed devices.                                                         *)
(***************************************************************************)
\* The session a request is about to make active is one of its device.
FoundInv ==
  \A r \in Requests : pc[r] = "upsert" /\ sess[r] # 0 => sess[r] \in OnDevice(at[r])

OpenInv == TypeInv /\ FoundInv

LEMMA OpenInvInit == Init => OpenInv
<1>1. Init => FoundInv
  BY DEF Init, FoundInv
<1> QED
  BY <1>1, TypeInvInit DEF OpenInv

LEMMA FoundKept ==
  ASSUME FoundInv, UNCHANGED dev,
         \A q \in Requests : pc'[q] = "upsert" =>
           \/ pc[q] = "upsert" /\ at'[q] = at[q] /\ sess'[q] = sess[q]
           \/ sess'[q] = 0 \/ sess'[q] \in OnDevice(at'[q])
  PROVE  FoundInv'
BY DEF FoundInv, OnDevice, Inserted

LEMMA OpenInvStep == OpenInv /\ [Next]_vars => OpenInv'
<1> SUFFICES ASSUME OpenInv, [Next]_vars PROVE FoundInv'
  BY TypeInvStep DEF OpenInv
<1> USE DEF OpenInv, TypeInv, TypeOK, StoreTypeOK, RequestTypeOK, Goto,
            tokenVars, sessionVars, clientVars, localVars
<1>1. ASSUME NEW r \in Requests, NEW d \in Devices, StartLogin(r, d) PROVE FoundInv'
  BY <1>1, FoundKept DEF StartLogin
<1>2. ASSUME NEW r \in Requests, NEW s \in Sessions, StartLogout(r, s) PROVE FoundInv'
  BY <1>2, FoundKept DEF StartLogout
<1>3. ASSUME NEW r \in Requests, NEW t \in Tokens, ReadToken(r, t) PROVE FoundInv'
  BY <1>3, FoundKept DEF ReadToken, StartCut
<1>4. ASSUME NEW r \in Requests, FindSession(r) PROVE FoundInv'
  BY <1>4, FoundKept DEF FindSession
<1>5. ASSUME NEW r \in Requests, InsertSession(r) PROVE FoundInv'
  <2>1. PICK s \in Sessions \ Inserted :
          dev' = [dev EXCEPT ![s] = at[r]] /\ sess' = [sess EXCEPT ![r] = s]
    BY <1>5 DEF InsertSession
  <2>2. ASSUME NEW q \in Requests, pc'[q] = "upsert", sess'[q] # 0
        PROVE  sess'[q] \in OnDevice(at[q])'
    <3>1. pc[q] = "upsert" /\ q # r /\ sess'[q] = sess[q] /\ at' = at
      BY <1>5, <2>1, <2>2 DEF InsertSession, AfterUpsert
    <3>2. sess[q] \in OnDevice(at[q]) /\ sess[q] # s
      BY <2>1, <2>2, <3>1 DEF FoundInv, OnDevice
    <3> QED
      BY <2>1, <3>1, <3>2 DEF OnDevice, Inserted
  <2> QED
    BY <2>2 DEF FoundInv
<1>6. ASSUME NEW r \in Requests,
             \/ ReviveSession(r) \/ RetireLive(r) \/ MintFirst(r) \/ Consume(r) \/ MintNext(r)
      PROVE  FoundInv'
  BY <1>6, FoundKept DEF ReviveSession, AfterUpsert, RetireLive, MintFirst, Consume, StartCut, MintNext
<1>7. ASSUME NEW r \in Requests, Respond(r) \/ CutTokens(r) \/ CutSession(r) PROVE FoundInv'
  BY <1>7, FoundKept DEF Respond, CutTokens, CutSession, Done, Finish
<1>8. ASSUME NEW r \in Requests,
             LogoutTokens(r) \/ LogoutSession(r) \/ LogoutDevice(r) \/ Abort(r)
      PROVE  FoundInv'
  BY <1>8, FoundKept DEF LogoutTokens, LogoutSession, LogoutDone, LogoutDevice, Abort, Finish
<1>9. CASE DayPasses \/ UNCHANGED vars
  BY <1>9, FoundKept DEF DayPasses, vars
<1> QED
  BY <1>1, <1>2, <1>3, <1>4, <1>5, <1>6, <1>7, <1>8, <1>9 DEF Next, Step

Opened(d) == Closed(d)' \/ \E r \in Requests : StartLogin(r, d)

\* What adds no session of the device and no request on it leaves it closed.
LEMMA StaysClosed ==
  ASSUME NEW d \in Devices, Closed(d), active' \subseteq active, UNCHANGED dev,
         \A q \in Requests : at'[q] = d =>
           \/ at[q] = d /\ pc'[q] = pc[q]
           \/ pc'[q] \in {"cut", "logout", "device"}
  PROVE  Opened(d)
BY DEF Closed, Opened

LEMMA OpenedStep ==
  ASSUME OpenInv, [Next]_vars, NEW d \in Devices, Closed(d)
  PROVE  Opened(d)
<1> USE NoneAssumption DEF OpenInv, TypeInv, TypeOK, StoreTypeOK, RequestTypeOK, Goto,
            tokenVars, sessionVars, clientVars, localVars
<1>1. ASSUME NEW r \in Requests, NEW e \in Devices, StartLogin(r, e) PROVE Opened(d)
  <2>1. CASE e = d
    BY <1>1, <2>1 DEF Opened
  <2>2. CASE e # d
    BY <1>1, <2>2, StaysClosed DEF StartLogin
  <2> QED
    BY <2>1, <2>2
<1>2. ASSUME NEW r \in Requests, NEW s \in Sessions, StartLogout(r, s) PROVE Opened(d)
  BY <1>2, StaysClosed DEF StartLogout
<1>3. ASSUME NEW r \in Requests, NEW t \in Tokens, ReadToken(r, t) PROVE Opened(d)
  <2>1. CASE Rejected(t)
    BY <1>3, <2>1, StaysClosed DEF ReadToken, StartCut
  <2>2. CASE ~Rejected(t)
    <3>1. dev[ses[t]] # d
      BY <2>2 DEF Rejected, Closed
    <3>2. at' = [at EXCEPT ![r] = dev[ses[t]]] /\ pc' = [pc EXCEPT ![r] = "consume"]
          /\ UNCHANGED <<active, dev>>
      BY <1>3, <2>2 DEF ReadToken
    <3> QED
      BY <3>1, <3>2, StaysClosed
  <2> QED
    BY <2>1, <2>2
\* The other labels belong to requests that would open it.
<1>4. ASSUME NEW r \in Requests, pc[r] \in {"find", "upsert", "retire", "first", "respond", "consume", "mint"}
      PROVE  at[r] # d
  BY <1>4 DEF Closed
<1>5. ASSUME NEW r \in Requests, FindSession(r) PROVE Opened(d)
  BY <1>4, <1>5, StaysClosed DEF FindSession
<1>6. ASSUME NEW r \in Requests, ReviveSession(r) PROVE Opened(d)
  <2>1. dev[sess[r]] # d
    BY <1>4, <1>6 DEF ReviveSession, FoundInv, OnDevice
  <2>2. active' = active \cup {sess[r]} /\ UNCHANGED <<dev, at>>
        /\ \A q \in Requests \ {r} : pc'[q] = pc[q]
    BY <1>6 DEF ReviveSession, AfterUpsert
  <2> QED
    BY <1>4, <1>6, <2>1, <2>2 DEF Closed, Opened, ReviveSession
<1>7. ASSUME NEW r \in Requests, InsertSession(r) PROVE Opened(d)
  <2>1. PICK s \in Sessions \ Inserted :
          dev' = [dev EXCEPT ![s] = at[r]] /\ active' = active \cup {s}
    BY <1>7 DEF InsertSession
  <2>2. at[r] # d /\ at' = at /\ \A q \in Requests \ {r} : pc'[q] = pc[q]
    BY <1>4, <1>7 DEF InsertSession, AfterUpsert
  <2> QED
    BY <2>1, <2>2 DEF Closed, Opened
<1>8. ASSUME NEW r \in Requests, RetireLive(r) \/ MintFirst(r) \/ Consume(r) \/ MintNext(r)
      PROVE  Opened(d)
  BY <1>4, <1>8, StaysClosed DEF RetireLive, MintFirst, Consume, StartCut, MintNext, Minting
<1>9. ASSUME NEW r \in Requests, Respond(r) \/ CutTokens(r) \/ CutSession(r) PROVE Opened(d)
  BY <1>9, StaysClosed DEF Respond, CutTokens, CutSession, Done, Finish
<1>10. ASSUME NEW r \in Requests,
              LogoutTokens(r) \/ LogoutSession(r) \/ LogoutDevice(r) \/ Abort(r)
       PROVE  Opened(d)
  BY <1>10, StaysClosed DEF LogoutTokens, LogoutSession, LogoutDone, LogoutDevice, Abort, Finish
<1>11. CASE DayPasses \/ UNCHANGED vars
  BY <1>11, StaysClosed DEF DayPasses, vars
<1> QED
  BY <1>1, <1>2, <1>3, <1>5, <1>6, <1>7, <1>8, <1>9, <1>10, <1>11 DEF Next, Step

\* Once the sessions of a device are closed and its requests are over, no refresh
\* token that is still around opens it again: only a login does.
THEOREM OnlyLoginOpens == Spec => ClosedUntilLogin
<1>1. OpenInv /\ [Next]_vars =>
        [\A d \in Devices : Closed(d) =>
            Closed(d)' \/ \E r \in Requests : StartLogin(r, d)]_vars
  BY OpenedStep DEF Opened
<1> QED
  BY <1>1, OpenInvInit, OpenInvStep, PTL DEF Spec, ClosedUntilLogin

-----------------------------------------------------------------------------
(***************************************************************************)
(* The browser and the server together.                                    *)
(***************************************************************************)
(***************************************************************************)
(* What each statement of a handler belongs to, and whom a request serves: *)
(* a login of a tab, a POST or the logout of a call, and none of them      *)
(* twice.  WebTypeOK is not inductive without it: an answer could end a    *)
(* POST that another request is still the server's work for.               *)
(***************************************************************************)
FlowInv ==
  \A r \in Requests :
    /\ pc[r] = "idle" => flow[r] = "none"
    /\ pc[r] \in {"consume", "mint", "cut"} => flow[r] = "refresh"
    /\ pc[r] \in {"logout", "device"} => flow[r] = "logout"
    /\ pc[r] \in {"find", "upsert", "retire", "first", "respond"} =>
         flow[r] \in {"login", "refresh"}

InLogout(n) == n.at \in {"sent", "retried"} /\ n.kind = "logout"

ServesInv ==
  /\ \A r \in Requests :
       /\ pc[r] = "idle" => serves[r] = Nobody
       /\ serves[r] \in Tabs => flow[r] = "login"
       /\ serves[r] \in Posts => flow[r] = "refresh"
       /\ serves[r] \in Calls => flow[r] = "logout" /\ InLogout(call[serves[r]])
  /\ \A r, q \in Requests : serves[r] = serves[q] /\ serves[r] # Nobody => r = q

WebInv == TypeInv /\ FlowInv /\ BrowserTypeOK /\ Awaited /\ ServesInv

-----------------------------------------------------------------------------
\* Every step of the browser and the server is a step of the server or leaves
\* it alone: what is proved of RefreshTokens holds behind any browser.
LEMMA WebStepIsServerStep ==
  ASSUME TypeInv, [WebNext]_webVars PROVE [Next]_vars
<1>1. ASSUME NEW t \in Tabs, NEW r \in Requests, SignIn(t, r) PROVE Next
  BY <1>1 DEF SignIn, Next
<1>2. ASSUME NEW p \in Posts, NEW r \in Requests, ServeRefresh(p, r) PROVE Next
  <2>1. with[p] \in Tokens
    BY <1>2 DEF ServeRefresh, ReadToken, TypeInv, TypeOK, StoreTypeOK
  <2>2. QED
    BY <1>2, <2>1 DEF ServeRefresh, Next
<1>3. ASSUME NEW c \in Calls, NEW r \in Requests, ServeLogout(c, r) PROVE Next
  <2>1. jwt[call[c].token] \in Sessions
    BY <1>3 DEF ServeLogout, StartLogout, TypeInv, TypeOK, StoreTypeOK
  <2>2. QED
    BY <1>3, <2>1 DEF ServeLogout, Next
<1>4. ASSUME NEW r \in Requests,
             Works(r) \/ Arrives(r) \/ Rebuffed(r) \/ LoggedOut(r) \/ Breaks(r)
      PROVE  Next
  BY <1>4 DEF Works, Arrives, Rebuffed, LoggedOut, Breaks, Next, Step
<1>5. /\ \A t \in Tabs : Reload(t) => UNCHANGED vars
      /\ \A p \in Posts : RefuseRefresh(p) => UNCHANGED vars
  BY DEF Reload, RefuseRefresh
<1>6. ASSUME NEW c \in Calls, Answered(c) \/ RetryFails(c) \/ Refused(c) \/ Cancel(c)
      PROVE  UNCHANGED vars
  BY <1>6 DEF Answered, RetryFails, Refused, Cancel
<1>7. ASSUME NEW t \in Tabs, NEW c \in Calls, SignOut(t, c) \/ CallApi(t, c)
      PROVE  UNCHANGED vars
  BY <1>7 DEF SignOut, CallApi
<1>8. ASSUME NEW k \in Tokens, Expire(k) PROVE UNCHANGED vars
  BY <1>8 DEF Expire
<1>9. QED
  BY <1>1, <1>2, <1>3, <1>4, <1>5, <1>6, <1>7, <1>8 DEF WebNext, webVars

\* The server, whatever browser is in front of it, is RefreshTokens.
THEOREM ServerBehindBrowser == WebSpec => Spec
<1>1. WebInit => Init
  BY DEF WebInit
<1>2. TypeInv /\ [WebNext]_webVars => [Next]_vars
  BY WebStepIsServerStep
<1>3. QED
  BY <1>1, <1>2, TypeInvInit, TypeInvStep, PTL DEF WebSpec, Spec

\* So no tab, reload, replay or lost answer forks a family of refresh tokens.
THEOREM NeverForkedBehindBrowser == WebSpec => []OneHeirPerFamily
BY ServerBehindBrowser, NeverForked, PTL

-----------------------------------------------------------------------------
LEMMA WebInitInv == WebInit => WebInv
<1> SUFFICES ASSUME WebInit PROVE WebInv
  OBVIOUS
<1>1. TypeInv
  BY TypeInvInit DEF WebInit
<1>2. FlowInv /\ ServesInv
  BY BrowserAssumption DEF WebInit, Init, FlowInv, ServesInv
<1>3. BrowserTypeOK
  BY DEF WebInit, BrowserTypeOK, CallStates
<1>4. Awaited
  BY BrowserAssumption DEF WebInit, Awaited, NoCall, CallOf
<1>5. QED
  BY <1>1, <1>2, <1>3, <1>4 DEF WebInv

LEMMA FlowStep ==
  ASSUME TypeInv, FlowInv, [Next]_vars PROVE FlowInv'
<1> USE DEF FlowInv, TypeInv, TypeOK, RequestTypeOK, Goto, Finish
<1>1. ASSUME NEW r \in Requests, NEW d \in Devices, StartLogin(r, d) PROVE FlowInv'
  BY <1>1 DEF StartLogin
<1>2. ASSUME NEW r \in Requests, NEW t \in Tokens, ReadToken(r, t) PROVE FlowInv'
  BY <1>2 DEF ReadToken, StartCut
<1>3. ASSUME NEW r \in Requests, NEW s \in Sessions, StartLogout(r, s) PROVE FlowInv'
  BY <1>3 DEF StartLogout
<1>4. ASSUME NEW r \in Requests, FindSession(r) PROVE FlowInv'
  BY <1>4 DEF FindSession
<1>5. ASSUME NEW r \in Requests, ReviveSession(r) \/ InsertSession(r) PROVE FlowInv'
  BY <1>5 DEF ReviveSession, InsertSession, AfterUpsert, localVars
<1>6. ASSUME NEW r \in Requests, RetireLive(r) \/ MintFirst(r) PROVE FlowInv'
  BY <1>6 DEF RetireLive, MintFirst
<1>7. ASSUME NEW r \in Requests, Respond(r) \/ Abort(r) PROVE FlowInv'
  BY <1>7 DEF Respond, Abort
<1>8. ASSUME NEW r \in Requests, Consume(r) \/ MintNext(r) PROVE FlowInv'
  BY <1>8 DEF Consume, MintNext, StartCut, Minting
<1>9. ASSUME NEW r \in Requests, CutTokens(r) \/ CutSession(r) PROVE FlowInv'
  BY <1>9 DEF CutTokens, CutSession, Done
<1>10. ASSUME NEW r \in Requests, LogoutTokens(r) \/ LogoutSession(r) PROVE FlowInv'
  BY <1>10 DEF LogoutTokens, LogoutSession, LogoutDone
<1>11. ASSUME NEW r \in Requests, LogoutDevice(r) PROVE FlowInv'
  BY <1>11 DEF LogoutDevice
<1>12. CASE DayPasses \/ UNCHANGED vars
  BY <1>12 DEF DayPasses, vars, localVars
<1>13. QED
  BY <1>1, <1>2, <1>3, <1>4, <1>5, <1>6, <1>7, <1>8, <1>9, <1>10, <1>11, <1>12
     DEF Next, Step

\* What a handler's statement does to what the browser side sees of it.
LEMMA StepSeen ==
  ASSUME TypeInv, NEW r \in Requests, Step(r)
  PROVE  /\ known \subseteq known' /\ (pc'[r] # "idle" => known' = known)
         /\ pc[r] # "idle"
         /\ \A q \in Requests \ {r} : pc'[q] = pc[q] /\ flow'[q] = flow[q]
         /\ pc'[r] # "idle" => flow'[r] = flow[r]
<1> USE DEF TypeInv, TypeOK, RequestTypeOK, Goto, Finish, clientVars, localVars
<1>1. CASE FindSession(r) \/ ReviveSession(r) \/ InsertSession(r)
  BY <1>1 DEF FindSession, ReviveSession, InsertSession, AfterUpsert
<1>2. CASE RetireLive(r) \/ MintFirst(r) \/ Respond(r)
  BY <1>2 DEF RetireLive, MintFirst, Respond
<1>3. CASE Consume(r) \/ MintNext(r)
  BY <1>3 DEF Consume, MintNext, StartCut, Minting
<1>4. CASE CutTokens(r) \/ CutSession(r)
  BY <1>4 DEF CutTokens, CutSession, Done
<1>5. CASE LogoutTokens(r) \/ LogoutSession(r) \/ LogoutDevice(r)
  BY <1>5 DEF LogoutTokens, LogoutSession, LogoutDone, LogoutDevice
<1>6. QED
  BY <1>1, <1>2, <1>3, <1>4, <1>5 DEF Step

-----------------------------------------------------------------------------
BrowserInv == BrowserTypeOK /\ Awaited /\ ServesInv

\* A request that ends serves nobody any more.
Ends(r) ==
  /\ pc' = [pc EXCEPT ![r] = "idle"] /\ flow' = [flow EXCEPT ![r] = "none"]
  /\ serves' = [serves EXCEPT ![r] = Nobody]

LEMMA EndedServes ==
  ASSUME WebInv, NEW r \in Requests, Ends(r),
         \A q \in Requests \ {r} : serves[q] \in Calls => InLogout(call'[serves[q]])
  PROVE  ServesInv'
BY BrowserAssumption
   DEF WebInv, Ends, ServesInv, BrowserTypeOK, TypeInv, TypeOK, RequestTypeOK

\* The server is left alone, or the request that serves call c ends.
Leaves(c) ==
  /\ known' = known
  /\ \/ UNCHANGED <<pc, flow, serves>> /\ \A r \in Requests : serves[r] # c
     \/ \E r \in Requests : serves[r] = c /\ Ends(r)

LEMMA LeavesServes ==
  ASSUME WebInv, NEW c \in Calls, Leaves(c), \A b \in Calls \ {c} : call'[b] = call[b]
  PROVE  ServesInv' /\ serves' \in [Requests -> Tabs \cup Calls \cup Posts \cup {Nobody}]
<1> USE DEF WebInv
<1>1. CASE UNCHANGED <<pc, flow, serves>> /\ \A r \in Requests : serves[r] # c
  BY <1>1 DEF ServesInv, BrowserTypeOK
<1>2. ASSUME NEW r \in Requests, serves[r] = c, Ends(r)
      PROVE  ServesInv' /\ serves' \in [Requests -> Tabs \cup Calls \cup Posts \cup {Nobody}]
  <2>1. \A q \in Requests \ {r} : serves[q] \in Calls => serves[q] # c
    BY <1>2, BrowserAssumption DEF ServesInv
  <2>2. \A q \in Requests \ {r} : serves[q] \in Calls => InLogout(call'[serves[q]])
    BY <2>1 DEF ServesInv, BrowserTypeOK
  <2>3. QED
    BY <1>2, <2>2, EndedServes DEF Ends, BrowserTypeOK
<1>3. QED
  BY <1>1, <1>2 DEF Leaves

LEMMA LeavesServed ==
  ASSUME WebInv, NEW c \in Calls, Leaves(c), NEW p \in Posts
  PROVE  (\E r \in Requests : serves'[r] = p /\ flow'[r] = "refresh")
           <=> asked[p] = "served"
<1>1. (\E r \in Requests : serves'[r] = p /\ flow'[r] = "refresh")
        <=> \E r \in Requests : serves[r] = p /\ flow[r] = "refresh"
  BY BrowserAssumption DEF WebInv, Leaves, Ends, BrowserTypeOK, TypeInv, TypeOK, RequestTypeOK
<1>2. QED
  BY <1>1 DEF WebInv, Awaited

\* A call under way has a tab.
LEMMA CallHasTab ==
  ASSUME BrowserTypeOK, NEW c \in Calls, call[c].at # "idle"
  PROVE  call[c].tab \in Tabs /\ call[c].kind \in {"api", "logout"}
         /\ call[c].token \in Tokens \cup {NoToken} /\ call[c].post \in Posts \cup {Nobody}
BY DEF BrowserTypeOK, CallStates, NoCall, CallOf

\* A call that waits, waits for a POST of its tab.
LEMMA WaitsForPost ==
  ASSUME BrowserTypeOK, Awaited, NEW c \in Calls, call[c].at = "waiting"
  PROVE  /\ call[c].post \in Posts /\ call[c].tab \in Tabs
         /\ asked[call[c].post] # "no" /\ from[call[c].post] = call[c].tab
BY CallHasTab DEF Awaited

\* Steps that change one call that does not wait, before or after.
LEMMA CallMoves ==
  ASSUME WebInv, NEW c \in Calls, NEW n \in CallStates,
         call' = [call EXCEPT ![c] = n], Leaves(c),
         UNCHANGED <<dead, jar, jwt>>, calm' \in BOOLEAN,
         access' \in known \cup {NoToken}, signedIn' \in BOOLEAN,
         UNCHANGED postVars, call[c].at # "waiting", n.at # "waiting"
  PROVE  BrowserInv'
<1> USE DEF WebInv, postVars
<1>1. ServesInv' /\ serves' \in [Requests -> Tabs \cup Calls \cup Posts \cup {Nobody}]
  BY LeavesServes DEF BrowserTypeOK
<1>2. BrowserTypeOK'
  BY <1>1 DEF BrowserTypeOK, Leaves
<1>3. Awaited'
  <2>1. \A p \in Posts :
          asked'[p] = "served" <=> \E r \in Requests : serves'[r] = p /\ flow'[r] = "refresh"
    BY LeavesServed
  <2>2. \A b \in Calls : call[b].at = "waiting" \/ call'[b].at = "waiting" => call'[b] = call[b]
    BY DEF BrowserTypeOK
  <2>3. QED
    BY <2>1, <2>2 DEF Awaited, Waiting
<1>4. QED
  BY <1>1, <1>2, <1>3 DEF BrowserInv

LEMMA AttachedOK == ASSUME BrowserTypeOK, TypeInv PROVE Attached \in Tokens \cup {NoToken}
BY DEF BrowserTypeOK, TypeInv, TypeOK, StoreTypeOK, Attached

\* signOut, for a call that nobody serves or that was just refused.
LEMMA SignOutKeeps ==
  ASSUME WebInv, NEW c \in Calls, NEW t \in Tabs, SignOutFor(c, t),
         call[c].at # "waiting", Leaves(c), calm' \in BOOLEAN
  PROVE  BrowserInv'
<1> DEFINE n == IF access = NoToken THEN NoCall ELSE CallOf("sent", t, "logout", Attached)
<1>1. n \in CallStates /\ n.at # "waiting"
  BY AttachedOK DEF WebInv, CallStates, NoCall, CallOf
<1>2. call' = [call EXCEPT ![c] = n] /\ UNCHANGED <<dead, jar, jwt>> /\ UNCHANGED postVars
      /\ access' = NoToken /\ signedIn' = FALSE
  BY DEF SignOutFor
<1> HIDE DEF n
<1>3. QED
  BY <1>1, <1>2, CallMoves

-----------------------------------------------------------------------------
LEMMA UserKeeps ==
  ASSUME WebInv, NEW t \in Tabs, NEW c \in Calls,
         SignOut(t, c) \/ CallApi(t, c)
  PROVE  BrowserInv'
<1>1. call[c].at = "idle" /\ \A r \in Requests : serves[r] # c
  BY DEF SignOut, CallApi, NoCall, CallOf, WebInv, ServesInv, InLogout
<1>2. BrowserTypeOK /\ UNCHANGED <<vars, serves>> /\ calm' \in BOOLEAN /\ Leaves(c)
  BY <1>1 DEF WebInv, SignOut, CallApi, CalmIf, Stays, BrowserTypeOK, Leaves,
     vars, clientVars, localVars
<1>3. CASE SignOut(t, c)
  BY <1>1, <1>2, <1>3, SignOutKeeps DEF SignOut
<1>4. CASE CallApi(t, c)
  <2> DEFINE n == CallOf("sent", t, "api", Attached)
  <2>1. n \in CallStates /\ n.at # "waiting"
    BY AttachedOK DEF WebInv, CallStates, CallOf
  <2>2. /\ call' = [call EXCEPT ![c] = n]
        /\ UNCHANGED <<dead, jar, jwt, access, signedIn>> /\ UNCHANGED postVars
    BY <1>4 DEF CallApi, storage
  <2>3. access \in known \cup {NoToken} /\ signedIn \in BOOLEAN
    BY <1>2 DEF BrowserTypeOK
  <2> HIDE DEF n
  <2>4. QED
    BY <1>1, <1>2, <2>1, <2>2, <2>3, CallMoves
<1>5. QED
  BY <1>3, <1>4

LEMMA ExpireKeeps ==
  ASSUME WebInv, NEW k \in Tokens, Expire(k) PROVE BrowserInv'
<1> USE DEF WebInv, Expire, storage, postVars, vars, clientVars, localVars, Stays
<1>1. BrowserTypeOK'
  BY DEF BrowserTypeOK
<1>2. Awaited' /\ ServesInv'
  BY DEF Awaited, Waiting, ServesInv
<1>3. QED
  BY <1>1, <1>2 DEF BrowserInv

LEMMA SignInKeeps ==
  ASSUME WebInv, NEW t \in Tabs, NEW r \in Requests, SignIn(t, r) PROVE BrowserInv'
<1>1. PICK d \in Devices : StartLogin(r, d)
  BY DEF SignIn
<1>2. /\ pc[r] = "idle" /\ flow[r] = "none" /\ serves[r] = Nobody
      /\ pc' = [pc EXCEPT ![r] = "find"] /\ flow' = [flow EXCEPT ![r] = "login"]
      /\ known' = known
  BY <1>1 DEF StartLogin, Goto, clientVars, WebInv, FlowInv, ServesInv
<1>3. /\ serves' = [serves EXCEPT ![r] = t] /\ calm' \in BOOLEAN
      /\ UNCHANGED <<storage, dead, call>> /\ UNCHANGED postVars
      /\ \A q \in Requests : serves[q] # t
  BY DEF SignIn, CalmIf, WebInv, BrowserTypeOK
<1> USE <1>2, <1>3 DEF WebInv, storage, postVars
<1>4. BrowserTypeOK'
  BY DEF BrowserTypeOK
<1> USE DEF BrowserTypeOK, TypeInv, TypeOK, RequestTypeOK
<1>5. Awaited'
  BY BrowserAssumption DEF Awaited, Waiting
<1>6. ServesInv'
  BY BrowserAssumption DEF ServesInv
<1>7. QED
  BY <1>4, <1>5, <1>6 DEF BrowserInv

LEMMA ReloadKeeps ==
  ASSUME WebInv, NEW t \in Tabs, Reload(t) PROVE BrowserInv'
<1> DEFINE P == {p \in Posts : from[p] = t}
           mine == {t} \cup {c \in Calls : call[c].tab = t} \cup P
<1>1. /\ call' = [c \in Calls |-> IF call[c].tab = t THEN NoCall ELSE call[c]]
      /\ Forget(P) /\ current' = [current EXCEPT ![t] = Nobody]
      /\ serves' = [r \in Requests |-> IF serves[r] \in mine THEN Nobody ELSE serves[r]]
      /\ UNCHANGED <<vars, storage, dead>> /\ calm' \in BOOLEAN
  BY DEF Reload, CalmIf, WebInv, BrowserTypeOK
<1> USE DEF WebInv, BrowserTypeOK, storage, vars, clientVars, localVars, Forget
<1>2. BrowserTypeOK'
  BY <1>1 DEF CallStates
<1>3. Awaited'
  <2>1. ASSUME NEW p \in Posts
        PROVE  asked'[p] = "served" <=> \E r \in Requests : serves'[r] = p /\ flow'[r] = "refresh"
    <3>1. p \in P => \A r \in Requests : serves'[r] # p
      BY <1>1, BrowserAssumption
    <3>2. p \notin P => \A r \in Requests : serves'[r] = p <=> serves[r] = p
      BY <1>1, BrowserAssumption
    <3>3. QED
      BY <1>1, <3>1, <3>2 DEF Awaited
  <2>2. ASSUME NEW b \in Calls, call'[b].at = "waiting"
        PROVE  \E p \in Posts : call'[b].post = p /\ asked'[p] # "no" /\ from'[p] = call'[b].tab
    <3>1. call'[b] = call[b] /\ call[b].tab # t
      BY <1>1, <2>2 DEF NoCall, CallOf
    <3>2. /\ call[b].post \in Posts /\ asked[call[b].post] # "no"
          /\ from[call[b].post] = call[b].tab
      BY <2>2, <3>1, WaitsForPost
    <3>3. QED
      BY <1>1, <3>1, <3>2
  <2>3. ASSUME NEW u \in Tabs, current'[u] # Nobody
        PROVE  \E c \in Waiting(current[u])' : call'[c].tab = u
    <3>1. u # t /\ current'[u] = current[u]
      BY <1>1, <2>3
    <3>2. PICK c \in Waiting(current[u]) : call[c].tab = u
      BY <2>3, <3>1 DEF Awaited
    <3>3. call'[c] = call[c]
      BY <1>1, <3>1, <3>2 DEF Waiting
    <3>4. QED
      BY <3>1, <3>2, <3>3 DEF Waiting
  <2>4. QED
    BY <2>1, <2>2, <2>3 DEF Awaited
<1>4. ServesInv'
  <2>1. \A r \in Requests : serves'[r] = Nobody \/ (serves'[r] = serves[r] /\ serves[r] \notin mine)
    BY <1>1
  <2>2. \A r \in Requests : serves'[r] \in Calls => call'[serves'[r]] = call[serves[r]]
    BY <1>1, <2>1, BrowserAssumption
  <2>3. QED
    BY <1>1, <2>1, <2>2, BrowserAssumption DEF ServesInv
<1>5. QED
  BY <1>2, <1>3, <1>4 DEF BrowserInv

\* A call that is cancelled was not the logout the server works for.
LEMMA CancelKeeps ==
  ASSUME WebInv, NEW c \in Calls, Cancel(c) PROVE BrowserInv'
<1>1. /\ call' = [call EXCEPT ![c] = NoCall] /\ call[c].kind = "api"
      /\ UNCHANGED <<vars, storage, dead, asked, from, with, serves, calm>>
      /\ \A u \in Tabs : current'[u] = current[u] \/ current'[u] = Nobody
      /\ call[c].at = "waiting" => current'[call[c].tab] = Nobody
      /\ current' \in [Tabs -> Posts \cup {Nobody}]
  BY CallHasTab DEF Cancel, Stays, Finalize, WebInv, BrowserTypeOK
<1> USE DEF WebInv, storage, vars, clientVars, localVars
<1>2. NoCall \in CallStates /\ NoCall.at = "idle"
  BY DEF CallStates, NoCall, CallOf
<1>3. \A b \in Calls : b # c => call'[b] = call[b]
  BY <1>1 DEF BrowserTypeOK
<1>4. call'[c] = NoCall
  BY <1>1 DEF BrowserTypeOK
<1>5. BrowserTypeOK'
  BY <1>1, <1>2 DEF BrowserTypeOK
<1>6. ServesInv'
  BY <1>1, <1>3 DEF ServesInv, InLogout
<1>7. Awaited'
  <2>1. ASSUME NEW u \in Tabs, current'[u] # Nobody
        PROVE  \E b \in Waiting(current[u])' : call'[b].tab = u
    <3>1. current'[u] = current[u]
      BY <1>1, <2>1
    <3>2. PICK b \in Waiting(current[u]) : call[b].tab = u
      BY <2>1, <3>1 DEF Awaited
    <3>3. b # c
      BY <1>1, <2>1, <3>2 DEF Waiting
    <3>4. QED
      BY <1>3, <3>1, <3>2, <3>3 DEF Waiting
  <2>2. \A b \in Calls : call'[b].at = "waiting" => call'[b] = call[b]
    BY <1>2, <1>3, <1>4
  <2>3. QED
    BY <1>1, <2>1, <2>2 DEF Awaited
<1>8. QED
  BY <1>5, <1>6, <1>7 DEF BrowserInv

-----------------------------------------------------------------------------
\* A call joins the refresh in progress of its tab, or sends a new one.
LEMMA JoinKeeps ==
  ASSUME WebInv, NEW c \in Calls, JoinRefresh(c), call[c].at \in {"sent", "retried"},
         Leaves(c), calm' \in BOOLEAN
  PROVE  BrowserInv'
<1> USE DEF WebInv
<1> DEFINE t == call[c].tab
<1>1. t \in Tabs /\ call[c] \in CallStates
  BY CallHasTab DEF BrowserTypeOK
<1>2. \E p \in Posts :
        /\ WaitFor(c, p)
        /\ \/ UNCHANGED postVars /\ current[t] = p
           \/ /\ current[t] = Nobody /\ asked[p] = "no"
              /\ current' = [current EXCEPT ![t] = p] /\ asked' = [asked EXCEPT ![p] = "sent"]
              /\ from' = [from EXCEPT ![p] = t] /\ with' = [with EXCEPT ![p] = jar]
  BY <1>1 DEF JoinRefresh, BrowserTypeOK
<1>3. PICK p \in Posts :
        /\ WaitFor(c, p)
        /\ \/ UNCHANGED postVars /\ current[t] = p
           \/ /\ current[t] = Nobody /\ asked[p] = "no"
              /\ current' = [current EXCEPT ![t] = p] /\ asked' = [asked EXCEPT ![p] = "sent"]
              /\ from' = [from EXCEPT ![p] = t] /\ with' = [with EXCEPT ![p] = jar]
  BY <1>2
<1>4. /\ \A b \in Calls \ {c} : call'[b] = call[b]
      /\ call'[c].at = "waiting" /\ call'[c].post = p /\ call'[c].tab = t
      /\ call' \in [Calls -> CallStates]
  <2>1. call[c] # NoCall
    BY DEF NoCall, CallOf
  <2>2. call' = [call EXCEPT ![c] = [call[c] EXCEPT !.at = "waiting", !.post = p]]
    BY <1>3 DEF WaitFor
  <2>3. call[c] \in [at : {"sent", "waiting", "retried"}, tab : Tabs,
                     kind : {"api", "logout"}, token : Tokens \cup {NoToken},
                     post : Posts \cup {Nobody}]
    BY <1>1, <2>1 DEF CallStates
  <2> DEFINE n == [call[c] EXCEPT !.at = "waiting", !.post = p]
  <2>4. n \in CallStates /\ n.at = "waiting" /\ n.post = p /\ n.tab = t
    BY <2>3 DEF CallStates
  <2> HIDE DEF n
  <2>5. QED
    BY <2>2, <2>4 DEF BrowserTypeOK, n
<1>5. asked'[p] # "no" /\ from'[p] = t
  <2>1. CASE UNCHANGED postVars /\ current[t] = p
    <3>1. PICK b \in Waiting(p) : call[b].tab = t
      BY <1>1, <2>1, BrowserAssumption DEF Awaited
    <3>2. QED
      BY <2>1, <3>1, WaitsForPost DEF Waiting, postVars
  <2>2. QED
    BY <1>3, <2>1 DEF BrowserTypeOK
<1>6. /\ \A q \in Posts : \/ asked'[q] = asked[q] /\ from'[q] = from[q]
                          \/ asked[q] = "no" /\ asked'[q] = "sent"
      /\ \A u \in Tabs : current'[u] = current[u] \/ (u = t /\ current'[u] = p)
  BY <1>1, <1>3 DEF BrowserTypeOK, postVars
<1>7. ServesInv' /\ serves' \in [Requests -> Tabs \cup Calls \cup Posts \cup {Nobody}]
  BY <1>4, LeavesServes
<1>8. BrowserTypeOK'
  <2>1. /\ current' \in [Tabs -> Posts \cup {Nobody}] /\ asked' \in [Posts -> {"no", "sent", "served"}]
        /\ from' \in [Posts -> Tabs \cup {Nobody}] /\ with' \in [Posts -> known \cup {NoToken}]
    BY <1>1, <1>3 DEF BrowserTypeOK, postVars
  <2>2. UNCHANGED <<jar, access, signedIn, jwt, dead, known>>
    BY DEF JoinRefresh, storage, Leaves
  <2>3. QED
    BY <1>4, <1>7, <2>1, <2>2 DEF BrowserTypeOK
<1>9. Awaited'
  <2>1. ASSUME NEW q \in Posts
        PROVE  asked'[q] = "served" <=> \E r \in Requests : serves'[r] = q /\ flow'[r] = "refresh"
    BY <1>6, LeavesServed
  <2>2. ASSUME NEW b \in Calls, call'[b].at = "waiting"
        PROVE  \E q \in Posts : call'[b].post = q /\ asked'[q] # "no" /\ from'[q] = call'[b].tab
    <3>1. CASE b = c
      BY <1>4, <1>5, <3>1
    <3>2. CASE b # c
      <4>1. /\ call[b].post \in Posts /\ asked[call[b].post] # "no"
            /\ from[call[b].post] = call[b].tab /\ call'[b] = call[b]
        BY <1>4, <2>2, <3>2, WaitsForPost
      <4>2. QED
        BY <1>6, <4>1
    <3>3. QED
      BY <3>1, <3>2
  <2>3. ASSUME NEW u \in Tabs, current'[u] # Nobody
        PROVE  \E b \in Waiting(current[u])' : call'[b].tab = u
    <3>1. CASE u = t /\ current'[u] = p
      BY <1>4, <3>1 DEF Waiting
    <3>2. CASE current'[u] = current[u]
      <4>1. PICK b \in Waiting(current[u]) : call[b].tab = u
        BY <2>3, <3>2 DEF Awaited
      <4>2. b # c
        BY <4>1 DEF Waiting
      <4>3. QED
        BY <1>4, <3>2, <4>1, <4>2 DEF Waiting
    <3>3. QED
      BY <1>6, <3>1, <3>2
  <2>4. QED
    BY <2>1, <2>2, <2>3 DEF Awaited
<1>10. QED
  BY <1>7, <1>8, <1>9 DEF BrowserInv

\* A 401 for a call that nobody serves or that was just refused.
LEMMA UnauthorizedKeeps ==
  ASSUME WebInv, NEW c \in Calls, Unauthorized(c), call[c].at \in {"sent", "retried"},
         Leaves(c), calm' \in BOOLEAN
  PROVE  BrowserInv'
<1>1. call[c].tab \in Tabs
  BY CallHasTab DEF WebInv
<1>2. QED
  BY <1>1, JoinKeeps, SignOutKeeps DEF Unauthorized

LEMMA CallKeeps ==
  ASSUME WebInv, NEW c \in Calls, Answered(c) \/ RetryFails(c) \/ Refused(c)
  PROVE  BrowserInv'
<1>1. /\ \A r \in Requests : serves[r] # c
      /\ call[c].at \in {"sent", "retried"} /\ BrowserTypeOK
      /\ Leaves(c) /\ calm' \in BOOLEAN
  BY DEF Answered, RetryFails, Refused, Outstanding, CalmIf, Stays, WebInv, BrowserTypeOK,
     Leaves, vars, clientVars, localVars
<1>2. CASE Answered(c)
  <2>1. NoCall \in CallStates /\ NoCall.at # "waiting"
    BY DEF CallStates, NoCall, CallOf
  <2>2. call' = [call EXCEPT ![c] = NoCall] /\ UNCHANGED <<storage, dead>> /\ UNCHANGED postVars
    BY <1>2 DEF Answered
  <2>3. QED
    BY <1>1, <2>1, <2>2, CallMoves DEF BrowserTypeOK, storage
<1>3. CASE RetryFails(c)
  BY <1>1, <1>3, SignOutKeeps, CallHasTab DEF RetryFails
<1>4. CASE Refused(c)
  BY <1>1, <1>4, UnauthorizedKeeps DEF Refused
<1>5. QED
  BY <1>2, <1>3, <1>4

LEMMA ServeLogoutKeeps ==
  ASSUME WebInv, NEW c \in Calls, NEW r \in Requests, ServeLogout(c, r)
  PROVE  BrowserInv'
<1>1. /\ pc[r] = "idle" /\ flow[r] = "none" /\ serves[r] = Nobody
      /\ pc' = [pc EXCEPT ![r] = "logout"] /\ flow' = [flow EXCEPT ![r] = "logout"]
      /\ known' = known
  BY DEF ServeLogout, StartLogout, Goto, clientVars, WebInv, FlowInv, ServesInv
<1>2. /\ serves' = [serves EXCEPT ![r] = c] /\ UNCHANGED calm
      /\ UNCHANGED <<storage, dead, call>> /\ UNCHANGED postVars
      /\ \A q \in Requests : serves[q] # c
      /\ InLogout(call[c])
  BY DEF ServeLogout, Stays, Outstanding, InLogout
<1> USE <1>1, <1>2 DEF WebInv, storage, postVars
<1>3. BrowserTypeOK'
  BY DEF BrowserTypeOK
<1> USE DEF BrowserTypeOK, TypeInv, TypeOK, RequestTypeOK
<1>4. Awaited'
  BY BrowserAssumption DEF Awaited, Waiting
<1>5. ServesInv'
  BY BrowserAssumption DEF ServesInv
<1>6. QED
  BY <1>3, <1>4, <1>5 DEF BrowserInv

LEMMA ServeRefreshKeeps ==
  ASSUME WebInv, NEW p \in Posts, NEW r \in Requests, ServeRefresh(p, r)
  PROVE  BrowserInv'
<1>1. /\ pc[r] = "idle" /\ flow[r] = "none" /\ serves[r] = Nobody
      /\ pc'[r] \in {"cut", "consume"} /\ flow' = [flow EXCEPT ![r] = "refresh"]
      /\ \A q \in Requests \ {r} : pc'[q] = pc[q]
      /\ known' = known
  BY DEF ServeRefresh, ReadToken, StartCut, Goto, clientVars, WebInv, FlowInv, ServesInv,
     TypeInv, TypeOK, RequestTypeOK
<1>2. /\ serves' = [serves EXCEPT ![r] = p] /\ UNCHANGED calm
      /\ asked[p] = "sent" /\ asked' = [asked EXCEPT ![p] = "served"]
      /\ UNCHANGED <<storage, dead, call, current, from, with>>
  BY DEF ServeRefresh, Stays
<1>3. \A q \in Requests : serves[q] # p
  BY <1>2 DEF WebInv, Awaited, ServesInv
<1> USE <1>1, <1>2, <1>3 DEF WebInv, storage
<1>4. BrowserTypeOK'
  BY DEF BrowserTypeOK
<1>5. Awaited'
  <2>1. ASSUME NEW q \in Posts
        PROVE  asked'[q] = "served" <=> \E k \in Requests : serves'[k] = q /\ flow'[k] = "refresh"
    BY BrowserAssumption DEF Awaited, BrowserTypeOK, TypeInv, TypeOK, RequestTypeOK
  <2>2. \A q \in Posts : asked[q] # "no" => asked'[q] # "no"
    BY DEF BrowserTypeOK
  <2>3. QED
    BY <2>1, <2>2 DEF Awaited, Waiting
<1>6. ServesInv'
  BY BrowserAssumption DEF ServesInv, BrowserTypeOK, TypeInv, TypeOK, RequestTypeOK
<1>7. QED
  BY <1>4, <1>5, <1>6 DEF BrowserInv

-----------------------------------------------------------------------------
(***************************************************************************)
(* The answers.  What is left to show is that nothing else waits for the   *)
(* request that ends.                                                      *)
(***************************************************************************)
\* POST p is over, and its waiting calls have moved on: what remains awaited.
LEMMA PostOver ==
  ASSUME WebInv, NEW p \in Posts, Forget({p}), Finalize(Waiting(p)),
         \A c \in Waiting(p) : call'[c].at # "waiting",
         \A c \in Calls \ Waiting(p) : call'[c] = call[c],
         \A q \in Posts :
           (\E r \in Requests : serves'[r] = q /\ flow'[r] = "refresh")
             <=> q # p /\ \E r \in Requests : serves[r] = q /\ flow[r] = "refresh"
  PROVE  Awaited'
<1> USE DEF WebInv
<1>1. ASSUME NEW q \in Posts
      PROVE  asked'[q] = "served" <=> \E r \in Requests : serves'[r] = q /\ flow'[r] = "refresh"
  BY DEF Awaited, Forget, BrowserTypeOK
<1>2. ASSUME NEW b \in Calls, call'[b].at = "waiting"
      PROVE  \E q \in Posts : call'[b].post = q /\ asked'[q] # "no" /\ from'[q] = call'[b].tab
  <2>1. call'[b] = call[b] /\ b \notin Waiting(p)
    BY <1>2
  <2>2. /\ call[b].post \in Posts /\ asked[call[b].post] # "no" /\ call[b].post # p
        /\ from[call[b].post] = call[b].tab
    BY <1>2, <2>1, WaitsForPost DEF Waiting
  <2>3. QED
    BY <2>1, <2>2 DEF Forget
<1>3. ASSUME NEW u \in Tabs, current'[u] # Nobody
      PROVE  \E b \in Waiting(current[u])' : call'[b].tab = u
  <2>1. current'[u] = current[u] /\ \A b \in Waiting(p) : call[b].tab # u
    BY <1>3 DEF Finalize
  <2>2. PICK b \in Waiting(current[u]) : call[b].tab = u
    BY <1>3, <2>1 DEF Awaited
  <2>3. b \in Calls \ Waiting(p)
    BY <2>1, <2>2 DEF Waiting
  <2>4. QED
    BY <2>1, <2>2, <2>3 DEF Waiting
<1>4. QED
  BY <1>1, <1>2, <1>3 DEF Awaited

\* refreshAccessToken fails for POST p, whose request, if any, has just ended.
LEMMA FailedRefreshKeeps ==
  ASSUME WebInv, NEW p \in Posts, RefreshFails(p), calm' \in BOOLEAN, known' = known,
         serves' \in [Requests -> Tabs \cup Calls \cup Posts \cup {Nobody}],
         \A q \in Posts :
           (\E r \in Requests : serves'[r] = q /\ flow'[r] = "refresh")
             <=> q # p /\ \E r \in Requests : serves[r] = q /\ flow[r] = "refresh"
  PROVE  BrowserTypeOK' /\ Awaited'
<1> USE DEF WebInv, RefreshFails
<1>1. NoCall \in CallStates /\ NoCall.at # "waiting"
  BY DEF CallStates, NoCall, CallOf
<1>2. BrowserTypeOK'
  <2>1. call' \in [Calls -> CallStates] /\ current' \in [Tabs -> Posts \cup {Nobody}]
    BY <1>1 DEF BrowserTypeOK, Finalize
  <2>2. /\ with' \in [Posts -> known' \cup {NoToken}] /\ asked' \in [Posts -> {"no", "sent", "served"}]
        /\ from' \in [Posts -> Tabs \cup {Nobody}]
    BY DEF BrowserTypeOK, Forget
  <2>3. /\ jar' \in known' \cup {NoToken} /\ access' \in known' \cup {NoToken}
        /\ signedIn' \in BOOLEAN /\ dead' \subseteq known' /\ jwt' \in [Tokens -> Sessions \cup {0}]
    BY DEF BrowserTypeOK
  <2>4. {jar', access'} \subseteq known' \cup {NoToken}
    BY <2>3
  <2>5. QED
    BY <2>1, <2>2, <2>3, <2>4 DEF BrowserTypeOK
<1>3. Awaited'
  <2>1. /\ \A c \in Waiting(p) : call'[c].at # "waiting"
        /\ \A c \in Calls \ Waiting(p) : call'[c] = call[c]
    BY <1>1 DEF Waiting
  <2>2. QED
    BY <2>1, PostOver
<1>4. QED
  BY <1>2, <1>3

LEMMA RefuseRefreshKeeps ==
  ASSUME WebInv, NEW p \in Posts, RefuseRefresh(p) PROVE BrowserInv'
<1>1. /\ RefreshFails(p) /\ UNCHANGED <<vars, serves>> /\ calm' \in BOOLEAN
      /\ asked[p] = "sent"
  BY DEF RefuseRefresh, Stays, WebInv, BrowserTypeOK
<1>2. ~ \E r \in Requests : serves[r] = p /\ flow[r] = "refresh"
  BY <1>1 DEF WebInv, Awaited
<1>3. BrowserTypeOK' /\ Awaited'
  <2>1. known' = known /\ flow' = flow /\ serves' = serves
        /\ serves \in [Requests -> Tabs \cup Calls \cup Posts \cup {Nobody}]
    BY <1>1 DEF vars, clientVars, localVars, WebInv, BrowserTypeOK
  <2>2. QED
    BY <1>1, <1>2, <2>1, FailedRefreshKeeps
<1>4. ServesInv'
  <2>1. ASSUME NEW q \in Requests, serves[q] \in Calls PROVE call'[serves[q]] = call[serves[q]]
    BY <1>1, <2>1 DEF RefreshFails, Waiting, WebInv, ServesInv, InLogout
  <2>2. QED
    BY <1>1, <2>1 DEF WebInv, ServesInv, vars, localVars
<1>5. QED
  BY <1>3, <1>4 DEF BrowserInv

LEMMA WorksKeeps ==
  ASSUME WebInv, NEW r \in Requests, Works(r) PROVE BrowserInv'
<1>1. Step(r) /\ pc'[r] # "idle" /\ TypeInv /\ UNCHANGED <<browserVars, calm>>
  BY DEF Works, Stays, WebInv
<1>2. /\ known' = known /\ pc[r] # "idle" /\ flow'[r] = flow[r]
      /\ \A q \in Requests \ {r} : pc'[q] = pc[q] /\ flow'[q] = flow[q]
  BY <1>1, StepSeen
<1>3. \A q \in Requests : flow'[q] = flow[q] /\ (pc'[q] = "idle" => pc[q] = "idle")
  BY <1>1, <1>2
<1> USE <1>1, <1>2, <1>3 DEF WebInv, browserVars, storage, postVars
<1>4. BrowserTypeOK'
  BY DEF BrowserTypeOK
<1>5. Awaited' /\ ServesInv'
  BY DEF Awaited, Waiting, ServesInv
<1>6. QED
  BY <1>4, <1>5 DEF BrowserInv

\* A request that ends without an answer anybody waits for.
LEMMA UnheardKeeps ==
  ASSUME WebInv, NEW r \in Requests, Ends(r), known' = known, calm' \in BOOLEAN,
         serves[r] \notin Posts,
         UNCHANGED <<storage, dead, call>>, UNCHANGED postVars
  PROVE  BrowserInv'
<1> USE DEF WebInv, postVars
<1>1. BrowserTypeOK'
  BY DEF BrowserTypeOK, storage, Ends
<1>2. Awaited'
  BY BrowserAssumption
     DEF Awaited, Waiting, Ends, BrowserTypeOK, TypeInv, TypeOK, RequestTypeOK
<1>3. \A q \in Requests : serves[q] \in Calls => InLogout(call'[serves[q]])
  BY DEF ServesInv
<1>4. ServesInv'
  BY <1>3, EndedServes
<1>5. QED
  BY <1>1, <1>2, <1>4 DEF BrowserInv

\* The request that served a POST has ended: the server works for the others.
LEMMA EndedServed ==
  ASSUME WebInv, NEW r \in Requests, Ends(r), serves[r] \in Posts
  PROVE  /\ serves' \in [Requests -> Tabs \cup Calls \cup Posts \cup {Nobody}]
         /\ \A q \in Posts :
              (\E k \in Requests : serves'[k] = q /\ flow'[k] = "refresh")
                <=> q # serves[r] /\ \E k \in Requests : serves[k] = q /\ flow[k] = "refresh"
BY BrowserAssumption
   DEF WebInv, Ends, ServesInv, BrowserTypeOK, TypeInv, TypeOK, RequestTypeOK

LEMMA RebuffedKeeps ==
  ASSUME WebInv, NEW r \in Requests, Rebuffed(r) PROVE BrowserInv'
<1>1. /\ Ends(r) /\ known' = known /\ flow[r] = "refresh" /\ calm' \in BOOLEAN
      /\ pc[r] = "cut"
  <2>1. pc'[r] = "idle" /\ (CutTokens(r) \/ CutSession(r)) /\ Unserved(r) /\ Stays
    BY DEF Rebuffed
  <2>2. pc[r] = "cut" /\ Finish(r) /\ known' = known
    BY <2>1 DEF CutTokens, CutSession, Done, clientVars
  <2>3. QED
    BY <2>1, <2>2 DEF Ends, Finish, Goto, Unserved, Stays, WebInv, FlowInv, BrowserTypeOK
<1> USE DEF WebInv
<1>2. CASE serves[r] = Nobody /\ UNCHANGED <<storage, dead, call, postVars>>
  BY <1>1, <1>2, UnheardKeeps, BrowserAssumption
<1>3. CASE serves[r] # Nobody /\ RefreshFails(serves[r])
  <2>1. serves[r] \in Posts
    BY <1>1, <1>3, BrowserAssumption DEF ServesInv, BrowserTypeOK
  <2>2. BrowserTypeOK' /\ Awaited'
    BY <1>1, <1>3, <2>1, EndedServed, FailedRefreshKeeps
  <2>3. \A q \in Requests : serves[q] \in Calls => InLogout(call'[serves[q]])
    BY <1>3 DEF ServesInv, RefreshFails, Waiting, InLogout
  <2>4. QED
    BY <1>1, <2>2, <2>3, EndedServes DEF BrowserInv
<1>4. QED
  BY <1>2, <1>3 DEF Rebuffed

\* The answer a page no longer waits for, and that of a login or a logout.
LEMMA ArrivesKeeps ==
  ASSUME WebInv, NEW r \in Requests, Arrives(r) PROVE BrowserInv'
<1> DEFINE t == serves[r]
           k == next[r]
<1>1. /\ Ends(r) /\ pc[r] = "respond" /\ known' = known \cup {k}
      /\ UNCHANGED <<dead, calm>>
  BY DEF Arrives, Respond, Finish, Goto, Ends, Unserved, Stays
<1>2. k \in Tokens /\ sess[r] \in Sessions /\ t \notin Calls
      /\ flow[r] \in {"login", "refresh"} /\ BrowserTypeOK
  BY <1>1, BrowserAssumption
     DEF WebInv, TypeInv, LocalsWellFormed, TypeOK, StoreTypeOK, FlowInv, ServesInv
<1>3. StoreTokens(r) => /\ {jar', access'} \subseteq known' \cup {NoToken} /\ signedIn' \in BOOLEAN
                        /\ jwt' \in [Tokens -> Sessions \cup {0}]
  <2> SUFFICES ASSUME StoreTokens(r)
               PROVE  /\ {jar', access'} \subseteq known' \cup {NoToken} /\ signedIn' \in BOOLEAN
                      /\ jwt' \in [Tokens -> Sessions \cup {0}]
    OBVIOUS
  <2>1. jar' = k /\ access' = k /\ signedIn' = TRUE
    BY DEF StoreTokens
  <2>2. jwt' \in [Tokens -> Sessions \cup {0}]
    BY <1>2 DEF StoreTokens, BrowserTypeOK
  <2>3. signedIn' \in BOOLEAN
    BY <2>1
  <2>4. {jar', access'} \subseteq known' \cup {NoToken}
    BY <1>1, <2>1
  <2>5. QED
    BY <2>2, <2>3, <2>4
<1>4. UNCHANGED storage => /\ {jar', access'} \subseteq known' \cup {NoToken} /\ signedIn' \in BOOLEAN
                           /\ jwt' \in [Tokens -> Sessions \cup {0}]
  BY <1>1, <1>2 DEF storage, BrowserTypeOK
<1>5. ServesInv'
  <2>1. ASSUME NEW q \in Requests \ {r}, serves[q] \in Calls
        PROVE  InLogout(call'[serves[q]])
    <3>1. InLogout(call[serves[q]])
      BY <2>1 DEF WebInv, ServesInv
    <3>2. call'[serves[q]] = call[serves[q]]
      BY <2>1, <3>1 DEF Arrives, Waiting, InLogout
    <3>3. QED
      BY <3>1, <3>2
  <2>2. QED
    BY <1>1, <2>1, EndedServes
<1>6. t \in Tabs \cup Posts \cup {Nobody}
  BY <1>2 DEF BrowserTypeOK
<1>7. CASE UNCHANGED <<call, postVars>> /\ t \notin Posts /\ (UNCHANGED storage \/ StoreTokens(r))
  <2>1. BrowserTypeOK'
    BY <1>1, <1>2, <1>3, <1>4, <1>7 DEF BrowserTypeOK, Ends, postVars
  <2>2. Awaited'
    BY <1>1, <1>2, <1>7, BrowserAssumption
       DEF WebInv, Awaited, Waiting, Ends, BrowserTypeOK, TypeInv, TypeOK, RequestTypeOK, postVars
  <2>3. QED
    BY <1>5, <2>1, <2>2 DEF BrowserInv
<1>8. CASE /\ t \in Posts /\ StoreTokens(r) /\ Forget({t}) /\ Finalize(Waiting(t))
           /\ call' = [c \in Calls |->
                         IF c \in Waiting(t)
                         THEN CallOf("retried", call[c].tab, call[c].kind, k) ELSE call[c]]
  <2>1. call' \in [Calls -> CallStates]
    <3>1. ASSUME NEW c \in Waiting(t) PROVE CallOf("retried", call[c].tab, call[c].kind, k) \in CallStates
      BY <1>2, <3>1, CallHasTab DEF Waiting, CallStates, CallOf
    <3>2. QED
      BY <1>2, <1>8, <3>1 DEF BrowserTypeOK
  <2>2. /\ asked' \in [Posts -> {"no", "sent", "served"}] /\ with' \in [Posts -> known' \cup {NoToken}]
        /\ from' \in [Posts -> Tabs \cup {Nobody}] /\ current' \in [Tabs -> Posts \cup {Nobody}]
        /\ dead' \subseteq known' /\ calm' \in BOOLEAN
    BY <1>1, <1>2, <1>8 DEF BrowserTypeOK, Forget, Finalize
  <2>3. BrowserTypeOK'
    BY <1>1, <1>3, <1>8, <2>1, <2>2, EndedServed DEF BrowserTypeOK
  <2>4. /\ \A c \in Waiting(t) : call'[c].at # "waiting"
        /\ \A c \in Calls \ Waiting(t) : call'[c] = call[c]
    BY <1>8 DEF Waiting, CallOf
  <2>5. Awaited'
    BY <1>1, <1>8, <2>4, EndedServed, PostOver
  <2>6. QED
    BY <1>5, <2>3, <2>5 DEF BrowserInv
<1>9. flow[r] = "refresh" /\ t # Nobody => t \in Posts
  BY <1>6 DEF WebInv, ServesInv
<1>10. flow[r] = "login" => t \notin Posts
  BY DEF WebInv, ServesInv
<1>11. CASE t = Nobody
  BY <1>7, <1>11, BrowserAssumption DEF Arrives
<1>12. CASE t # Nobody /\ flow[r] = "login"
  BY <1>7, <1>10, <1>12 DEF Arrives
<1>13. CASE t # Nobody /\ flow[r] = "refresh"
  BY <1>8, <1>9, <1>13 DEF Arrives
<1>14. QED
  BY <1>2, <1>11, <1>12, <1>13

LEMMA LoggedOutKeeps ==
  ASSUME WebInv, NEW r \in Requests, LoggedOut(r) PROVE BrowserInv'
<1>1. /\ Ends(r) /\ known' = known /\ flow[r] = "logout" /\ UNCHANGED calm
  BY DEF LoggedOut, LogoutDevice, Finish, Goto, Ends, Unserved, Stays, clientVars, WebInv, FlowInv
<1> USE DEF WebInv
<1>2. CASE serves[r] = Nobody /\ UNCHANGED <<jar, call>>
  <2>1. UNCHANGED <<storage, dead, call>> /\ UNCHANGED postVars /\ calm' \in BOOLEAN
    BY <1>1, <1>2 DEF LoggedOut, storage, BrowserTypeOK
  <2>2. QED
    BY <1>1, <1>2, <2>1, UnheardKeeps, BrowserAssumption
<1>3. CASE /\ serves[r] # Nobody /\ jar' = NoToken
           /\ call' = [call EXCEPT ![serves[r]] = NoCall]
  <2>1. /\ serves[r] \in Calls /\ call[serves[r]].at # "waiting"
        /\ NoCall \in CallStates /\ NoCall.at # "waiting"
    BY <1>1, <1>3 DEF ServesInv, BrowserTypeOK, CallStates, NoCall, CallOf, InLogout
  <2>2. UNCHANGED <<access, signedIn, jwt, dead, calm, known>> /\ UNCHANGED postVars
    BY <1>1 DEF LoggedOut
  <2>3. BrowserTypeOK'
    BY <1>1, <1>3, <2>1, <2>2 DEF BrowserTypeOK, Ends, postVars
  <2>4. \A q \in Requests \ {r} : serves[q] \in Calls => serves[q] # serves[r]
    BY <1>1, <2>1, BrowserAssumption DEF ServesInv
  <2>5. \A q \in Requests \ {r} : serves[q] \in Calls => InLogout(call'[serves[q]])
    BY <1>3, <2>4 DEF ServesInv, BrowserTypeOK
  <2>6. ServesInv'
    BY <1>1, <2>5, EndedServes
  <2>7. Awaited'
    <3>1. ASSUME NEW p \in Posts
          PROVE  asked'[p] = "served" <=> \E q \in Requests : serves'[q] = p /\ flow'[q] = "refresh"
      BY <1>1, <2>1, <2>2, BrowserAssumption
         DEF Awaited, Ends, BrowserTypeOK, TypeInv, TypeOK, RequestTypeOK, postVars
    <3>2. \A b \in Calls : call[b].at = "waiting" \/ call'[b].at = "waiting" => call'[b] = call[b]
      BY <1>3, <2>1 DEF BrowserTypeOK
    <3>3. QED
      BY <2>2, <3>1, <3>2 DEF Awaited, Waiting, postVars
  <2>8. QED
    BY <2>3, <2>6, <2>7 DEF BrowserInv
<1>4. QED
  BY <1>2, <1>3 DEF LoggedOut

LEMMA BreaksKeeps ==
  ASSUME WebInv, NEW r \in Requests, Breaks(r) PROVE BrowserInv'
<1>1. /\ Ends(r) /\ known' = known /\ calm' \in BOOLEAN
  BY DEF Breaks, Abort, Finish, Goto, Ends, Unserved, CalmIf, clientVars, WebInv, BrowserTypeOK
<1> USE DEF WebInv
<1>2. CASE /\ serves[r] = Nobody \/ flow[r] = "login"
           /\ UNCHANGED <<storage, dead, call, postVars>>
  BY <1>1, <1>2, UnheardKeeps, BrowserAssumption DEF ServesInv
<1>3. CASE serves[r] # Nobody /\ flow[r] = "refresh" /\ RefreshFails(serves[r])
  <2>1. serves[r] \in Posts
    BY <1>1, <1>3, BrowserAssumption DEF ServesInv, BrowserTypeOK
  <2>2. BrowserTypeOK' /\ Awaited'
    BY <1>1, <1>3, <2>1, EndedServed, FailedRefreshKeeps
  <2>3. \A q \in Requests : serves[q] \in Calls => InLogout(call'[serves[q]])
    BY <1>3 DEF ServesInv, RefreshFails, Waiting, InLogout
  <2>4. QED
    BY <1>1, <2>2, <2>3, EndedServes DEF BrowserInv
<1>4. ASSUME serves[r] # Nobody, flow[r] = "logout"
      PROVE  /\ serves[r] \in Calls /\ Leaves(serves[r])
             /\ call[serves[r]].at \in {"sent", "retried"}
  BY <1>1, <1>4 DEF ServesInv, BrowserTypeOK, Leaves, InLogout
<1>5. CASE serves[r] # Nobody /\ flow[r] = "logout" /\ Unauthorized(serves[r])
  BY <1>1, <1>4, <1>5, UnauthorizedKeeps
<1>6. CASE /\ serves[r] # Nobody /\ flow[r] = "logout" /\ call[serves[r]].at = "sent"
           /\ call' = [call EXCEPT ![serves[r]] = NoCall]
           /\ UNCHANGED <<storage, dead, postVars>>
  <2>1. NoCall \in CallStates /\ NoCall.at # "waiting"
    BY DEF CallStates, NoCall, CallOf
  <2>2. /\ UNCHANGED <<dead, jar, jwt>> /\ access' \in known \cup {NoToken}
        /\ signedIn' \in BOOLEAN /\ UNCHANGED postVars
    BY <1>6 DEF storage, BrowserTypeOK
  <2>3. QED
    BY <1>1, <1>4, <1>6, <2>1, <2>2, CallMoves
<1>7. QED
  BY <1>2, <1>3, <1>5, <1>6 DEF Breaks

-----------------------------------------------------------------------------
LEMMA WebStepInv == WebInv /\ [WebNext]_webVars => WebInv'
<1> SUFFICES ASSUME WebInv, [WebNext]_webVars PROVE WebInv'
  OBVIOUS
<1>1. [Next]_vars
  BY WebStepIsServerStep DEF WebInv
<1>2. TypeInv' /\ FlowInv'
  BY <1>1, TypeInvStep, FlowStep DEF WebInv
<1>3. ASSUME UNCHANGED webVars PROVE BrowserInv'
  BY <1>3 DEF WebInv, webVars, browserVars, storage, postVars, vars, clientVars, localVars,
     BrowserInv, BrowserTypeOK, Awaited, Waiting, ServesInv
<1>4. ASSUME WebNext PROVE BrowserInv'
  BY <1>4, UserKeeps, ExpireKeeps, SignInKeeps, ReloadKeeps, CallKeeps, CancelKeeps, ServeLogoutKeeps,
     ServeRefreshKeeps, RefuseRefreshKeeps, WorksKeeps, ArrivesKeeps, RebuffedKeeps,
     LoggedOutKeeps, BreaksKeeps DEF WebNext
<1>5. BrowserInv'
  BY <1>3, <1>4 DEF BrowserInv, WebInv
<1>6. QED
  BY <1>2, <1>5 DEF WebInv, BrowserInv

\* However tabs, reloads, answers and failures interleave: the browser stores
\* only tokens the server has issued, a call that waits for a refresh waits for
\* one that its tab has sent and that is still on its way, and a tab that holds a
\* refresh in progress has a call that waits for it.
THEOREM WebTyped == WebSpec => []WebTypeOK
<1>1. WebInv => WebTypeOK
  BY DEF WebInv, WebTypeOK, TypeInv
<1>2. QED
  BY <1>1, WebInitInv, WebStepInv, PTL DEF WebSpec

-----------------------------------------------------------------------------
(***************************************************************************)
(* A calm browser.  As long as nothing listed at Calm happens, the server  *)
(* works for one page at a time, the signed-in browser holds no logout and *)
(* the signed-out one no refresh, and the cookie moves from live token to  *)
(* live token of an active session.                                        *)
(***************************************************************************)
OneAtATime ==
  /\ \A r, q \in Requests : pc[r] # "idle" /\ pc[q] # "idle" => r = q
  /\ \A r \in Requests : pc[r] # "idle" => serves[r] # Nobody
  /\ \A p, q \in Posts : asked[p] # "no" /\ asked[q] # "no" => p = q
  /\ \A b, c \in Calls : call[b].kind = "logout" /\ call[c].kind = "logout" => b = c

SignedInInv ==
  /\ signedIn <=> access # NoToken
  /\ \A p \in Posts : asked[p] # "no" => signedIn
  /\ \A c \in Calls : call[c].kind = "logout" => ~signedIn /\ call[c].at = "sent"
  /\ \A r \in Requests : flow[r] = "login" => ~signedIn /\ NoLogout

\* A token the next refresh will be accepted with.
Good(k) == Live(k) /\ ses[k] \in active

\* What a request holds stays good until it has handed it on.
RequestGood(r) ==
  /\ pc[r] # "cut"
  /\ pc[r] = "consume" => Good(held[r])
  /\ pc[r] \in {"consume", "mint"} => sess[r] = ses[held[r]]
  /\ pc[r] \in {"mint", "retire", "first"} => sess[r] \in active
  /\ pc[r] \in {"find", "upsert"} /\ flow[r] = "refresh" => Good(next[r])
  /\ pc[r] = "respond" => Good(next[r])

CookieInv ==
  /\ signedIn /\ NothingRuns => Good(jar)
  /\ \A p \in Posts : asked[p] = "sent" => NothingRuns /\ with[p] = jar
  /\ \A r \in Requests : RequestGood(r)

CalmInv == calm => OneAtATime /\ SignedInInv /\ CookieInv

\* No day passes: no token has expired.
FreshInv ==
  /\ clock = 0 /\ \A r \in Requests : now[r] = 0
  /\ \A k \in rows : expires[k] > 0 /\ idle[k] > 0

Calmly == WebInv /\ FreshInv /\ OneAtATime /\ SignedInInv /\ CookieInv

LEMMA ClockStands == [WebNext]_webVars => clock' = clock
<1>1. ASSUME NEW r \in Requests, Step(r) \/ Abort(r) PROVE clock' = clock
  BY <1>1 DEF Step, FindSession, ReviveSession, InsertSession, RetireLive, MintFirst, Respond,
     Consume, MintNext, CutTokens, CutSession, LogoutTokens, LogoutSession, LogoutDevice, Abort
<1>2. ASSUME NEW r \in Requests,
             Works(r) \/ Arrives(r) \/ Rebuffed(r) \/ LoggedOut(r) \/ Breaks(r)
      PROVE  clock' = clock
  BY <1>1, <1>2 DEF Works, Arrives, Rebuffed, LoggedOut, Breaks, Step
<1>3. ASSUME NEW r \in Requests,
             \/ \E t \in Tabs : SignIn(t, r)
             \/ \E p \in Posts : ServeRefresh(p, r)
             \/ \E c \in Calls : ServeLogout(c, r)
      PROVE  clock' = clock
  BY <1>3 DEF SignIn, ServeRefresh, ServeLogout, StartLogin, ReadToken, StartLogout
<1>4. ASSUME UNCHANGED vars PROVE clock' = clock
  BY <1>4 DEF vars
<1>5. QED
  BY <1>2, <1>3, <1>4
     DEF WebNext, webVars, SignOut, CallApi, Reload, RefuseRefresh, Answered, RetryFails,
         Refused, Cancel, Expire

LEMMA FreshStep ==
  ASSUME TypeInv, FreshInv, [Next]_vars, clock' = clock
  PROVE  FreshInv'
<1> USE DEF FreshInv, TypeInv, TypeOK, StoreTypeOK, RequestTypeOK, tokenVars, localVars
<1>1. ASSUME NEW r \in Requests, NEW d \in Devices, StartLogin(r, d) PROVE FreshInv'
  BY <1>1 DEF StartLogin
<1>2. ASSUME NEW r \in Requests, NEW t \in Tokens, ReadToken(r, t) PROVE FreshInv'
  BY <1>2 DEF ReadToken
<1>3. ASSUME NEW r \in Requests, NEW s \in Sessions, StartLogout(r, s) PROVE FreshInv'
  BY <1>3 DEF StartLogout
<1>4. ASSUME NEW r \in Requests, FindSession(r) PROVE FreshInv'
  BY <1>4 DEF FindSession
<1>5. ASSUME NEW r \in Requests, ReviveSession(r) \/ InsertSession(r) PROVE FreshInv'
  BY <1>5 DEF ReviveSession, InsertSession
<1>6. ASSUME NEW r \in Requests, RetireLive(r) PROVE FreshInv'
  BY <1>6 DEF RetireLive
<1>7. ASSUME NEW r \in Requests, NEW t \in Tokens, NEW f, NEW end \in Nat,
             end > 0, Insert(r, t, f, end), UNCHANGED now
      PROVE  FreshInv'
  <2>1. IdleEnd(end, now[r]) \in Nat /\ IdleEnd(end, now[r]) > 0
    BY <1>7, LifeAssumption DEF IdleEnd, Lesser
  <2>2. \A k \in rows' : k \in rows \/ k = t
    BY <1>7 DEF Insert
  <2>3. /\ expires'[t] = end /\ idle'[t] = IdleEnd(end, now[r])
        /\ \A k \in rows : k # t /\ expires'[k] = expires[k] /\ idle'[k] = idle[k]
    BY <1>7 DEF Insert
  <2>4. QED
    BY <1>7, <2>1, <2>2, <2>3
<1>8. ASSUME NEW r \in Requests, MintFirst(r) PROVE FreshInv'
  <2>1. now[r] + AbsLife \in Nat /\ now[r] + AbsLife > 0
    BY LifeAssumption
  <2>2. QED
    BY <1>7, <1>8, <2>1 DEF MintFirst
<1>9. ASSUME NEW r \in Requests, MintNext(r) PROVE FreshInv'
  <2>1. expires[held[r]] \in Nat /\ expires[held[r]] > 0
    BY <1>9 DEF MintNext, Minting, LocalsWellFormed
  <2>2. QED
    BY <1>7, <1>9, <2>1 DEF MintNext
<1>10. ASSUME NEW r \in Requests, Consume(r) PROVE FreshInv'
  BY <1>10 DEF Consume
<1>11. ASSUME NEW r \in Requests, Respond(r) \/ Abort(r) \/ LogoutDevice(r) PROVE FreshInv'
  BY <1>11 DEF Respond, Abort, LogoutDevice, Finish
<1>12. ASSUME NEW r \in Requests, CutTokens(r) \/ CutSession(r) PROVE FreshInv'
  BY <1>12 DEF CutTokens, CutSession, Done, Finish
<1>13. ASSUME NEW r \in Requests, LogoutTokens(r) \/ LogoutSession(r) PROVE FreshInv'
  BY <1>13 DEF LogoutTokens, LogoutSession, LogoutDone
<1>14. CASE DayPasses
  BY <1>14 DEF DayPasses
<1>15. CASE UNCHANGED vars
  BY <1>15 DEF vars
<1>16. QED
  BY <1>1, <1>2, <1>3, <1>4, <1>5, <1>6, <1>8, <1>9, <1>10, <1>11, <1>12, <1>13, <1>14, <1>15
     DEF Next, Step

-----------------------------------------------------------------------------
\* What runs in calm, and for whom.
LEMMA RunsFor ==
  ASSUME Calmly, NEW r \in Requests, pc[r] # "idle"
  PROVE  \/ flow[r] = "login" /\ ~signedIn /\ NoLogout
         \/ /\ flow[r] = "refresh" /\ serves[r] \in Posts /\ asked[serves[r]] = "served"
            /\ signedIn
         \/ /\ flow[r] = "logout" /\ serves[r] \in Calls /\ ~signedIn
            /\ call[serves[r]].kind = "logout"
<1> USE DEF Calmly, WebInv
<1>1. serves[r] # Nobody /\ serves[r] \in Tabs \cup Calls \cup Posts
  BY DEF OneAtATime, BrowserTypeOK
<1>2. flow[r] \in {"login", "refresh", "logout"}
  BY DEF FlowInv, TypeInv, TypeOK, RequestTypeOK, Labels
<1>3. CASE flow[r] = "login"
  BY <1>3 DEF SignedInInv
<1>4. CASE flow[r] = "refresh"
  BY <1>1, <1>4 DEF ServesInv, Awaited, SignedInInv
<1>5. CASE flow[r] = "logout"
  BY <1>1, <1>5 DEF ServesInv, InLogout, SignedInInv
<1>6. QED
  BY <1>2, <1>3, <1>4, <1>5

\* A signed-in browser without a refresh keeps the server idle.
LEMMA SignedInIdle ==
  ASSUME Calmly, signedIn, NoRefresh PROVE NothingRuns
BY RunsFor DEF NothingRuns, NoRefresh

\* Steps of the browser alone: the cookie stays what it is.
LEMMA CookieKept ==
  ASSUME Calmly, UNCHANGED vars, jar' = jar, signedIn' => signedIn,
         \A p \in Posts : asked'[p] = "sent" => NothingRuns /\ with'[p] = jar
  PROVE  CookieInv'
BY DEF Calmly, CookieInv, RequestGood, Good, Live, NothingRuns, vars, tokenVars, sessionVars,
   localVars

\* Steps of the browser alone that leave refreshes and storage as they are and
\* change no logout.
LEMMA QuietMove ==
  ASSUME Calmly, UNCHANGED <<vars, serves, storage, asked, with>>,
         \A c \in Calls : \/ call'[c] = call[c]
                          \/ call'[c].kind # "logout" /\ \A r \in Requests : serves[r] # c
  PROVE  OneAtATime' /\ SignedInInv' /\ CookieInv'
<1> USE DEF Calmly, vars, storage, localVars
<1>1. OneAtATime'
  BY DEF OneAtATime
<1>2. SignedInInv'
  BY DEF SignedInInv, NoLogout
<1>3. CookieInv'
  BY CookieKept DEF CookieInv
<1>4. QED
  BY <1>1, <1>2, <1>3

LEMMA SignOutCalm ==
  ASSUME Calmly, NEW t \in Tabs, NEW c \in Calls, SignOut(t, c), calm'
  PROVE  OneAtATime' /\ SignedInInv' /\ CookieInv'
<1> USE DEF Calmly, WebInv
<1>1. /\ access # NoToken /\ call[c] = NoCall /\ NoRefresh
      /\ UNCHANGED <<vars, serves, jar>> /\ UNCHANGED postVars
      /\ call' = [call EXCEPT ![c] = CallOf("sent", t, "logout", Attached)]
      /\ access' = NoToken /\ signedIn' = FALSE
  BY DEF SignOut, SignOutFor, CalmIf
<1>2. signedIn /\ NoLogout
  BY <1>1 DEF SignedInInv, NoLogout
<1>3. NothingRuns
  BY <1>1, <1>2, SignedInIdle
<1>4. \A b \in Calls : b # c => call'[b] = call[b]
  BY <1>1 DEF BrowserTypeOK
<1>5. call'[c].kind = "logout" /\ call'[c].at = "sent"
  BY <1>1 DEF BrowserTypeOK, CallOf
<1>6. \A r \in Requests : serves'[r] \notin Calls /\ pc'[r] = "idle" /\ flow'[r] = "none"
  BY <1>1, <1>2, <1>3 DEF ServesInv, InLogout, NoLogout, NothingRuns, FlowInv, vars, localVars
<1>7. OneAtATime'
  BY <1>1, <1>2, <1>4, <1>6 DEF OneAtATime, NoLogout, NoRefresh, postVars
<1>8. SignedInInv'
  BY <1>1, <1>2, <1>4, <1>5, <1>6 DEF SignedInInv, NoLogout, NoRefresh, postVars
<1>9. CookieInv'
  BY <1>1, CookieKept DEF NoRefresh, postVars
<1>10. QED
  BY <1>7, <1>8, <1>9

LEMMA UserCalm ==
  ASSUME Calmly, NEW t \in Tabs, NEW c \in Calls, CallApi(t, c) \/ Answered(c) \/ Cancel(c)
  PROVE  OneAtATime' /\ SignedInInv' /\ CookieInv'
<1> USE DEF Calmly, WebInv
<1>1. /\ UNCHANGED <<vars, serves, storage, asked, with>>
      /\ \A b \in Calls : b # c => call'[b] = call[b]
      /\ call'[c].kind # "logout"
  BY DEF CallApi, Answered, Cancel, CallOf, NoCall, BrowserTypeOK, postVars
<1>2. \A r \in Requests : serves[r] # c
  BY DEF CallApi, Answered, Outstanding, Cancel, ServesInv, InLogout, NoCall, CallOf
<1>3. QED
  BY <1>1, <1>2, QuietMove

LEMMA ReloadCalm ==
  ASSUME Calmly, NEW t \in Tabs, Reload(t), calm'
  PROVE  OneAtATime' /\ SignedInInv' /\ CookieInv'
<1> USE DEF Calmly, WebInv
<1>1. /\ UNCHANGED <<vars, serves, storage, call, asked>>
      /\ \A p \in Posts : asked'[p] # "no" => with'[p] = with[p]
  BY DEF Reload, CalmIf, Forget
<1>2. OneAtATime'
  BY <1>1 DEF OneAtATime, vars
<1>3. SignedInInv'
  BY <1>1 DEF SignedInInv, NoLogout, vars, localVars, storage
<1>4. CookieInv'
  <2>1. \A p \in Posts : asked'[p] = "sent" => NothingRuns /\ with'[p] = jar
    BY <1>1 DEF CookieInv
  <2>2. QED
    BY <1>1, <2>1, CookieKept DEF storage
<1>5. QED
  BY <1>2, <1>3, <1>4

\* A 401 at a call that has not been replayed: a signed-in browser joins or
\* sends the one refresh, a signed-out one forgets the call.
LEMMA RefusedCalm ==
  ASSUME Calmly, NEW c \in Calls, Refused(c), calm'
  PROVE  OneAtATime' /\ SignedInInv' /\ CookieInv'
<1> USE DEF Calmly, WebInv
<1>1. /\ call[c].at = "sent" /\ Unauthorized(c) /\ UNCHANGED <<vars, serves>>
      /\ Replayable(c) => NoRefresh \/ current[call[c].tab] # Nobody
      /\ \A r \in Requests : serves[r] # c
  BY DEF Refused, CalmIf, Outstanding
<1>2. call[c].tab \in Tabs /\ call[c] \in CallStates
  BY <1>1, CallHasTab DEF BrowserTypeOK
<1>3. CASE Replayable(c) /\ JoinRefresh(c)
  <2>1. signedIn /\ NoLogout /\ UNCHANGED storage
    BY <1>3 DEF Replayable, JoinRefresh, SignedInInv, NoLogout
  <2>2. \A b \in Calls : call'[b].kind = call[b].kind
    BY <1>2, <1>3 DEF JoinRefresh, WaitFor, BrowserTypeOK, CallStates, NoCall, CallOf
  <2>3. \/ UNCHANGED <<asked, with>>
        \/ \E p \in Posts : /\ NoRefresh /\ asked' = [asked EXCEPT ![p] = "sent"]
                            /\ with' = [with EXCEPT ![p] = jar]
    BY <1>1, <1>3 DEF JoinRefresh, postVars
  <2>4. NoRefresh => NothingRuns
    BY <2>1, SignedInIdle
  <2>5. OneAtATime'
    BY <1>1, <2>1, <2>2, <2>3 DEF OneAtATime, NoLogout, NoRefresh, BrowserTypeOK, vars
  <2>6. SignedInInv'
    BY <1>1, <2>1, <2>2 DEF SignedInInv, NoLogout, vars, localVars, storage
  <2>7. \A p \in Posts : asked'[p] = "sent" => NothingRuns /\ with'[p] = jar
    BY <2>3, <2>4 DEF CookieInv, BrowserTypeOK, NoRefresh
  <2>8. CookieInv'
    BY <1>1, <2>1, <2>7, CookieKept DEF storage
  <2>9. QED
    BY <2>5, <2>6, <2>8
<1>4. CASE ~Replayable(c) /\ SignOutFor(c, call[c].tab)
  <2>1. ~signedIn /\ access = NoToken
    BY <1>1, <1>4 DEF Replayable, SignedInInv
  <2>2. UNCHANGED <<storage, asked, with>> /\ call' = [call EXCEPT ![c] = NoCall]
    BY <1>4, <2>1 DEF SignOutFor, storage, BrowserTypeOK, postVars
  <2>3. \A b \in Calls : call'[b] = call[b] \/ (b = c /\ call'[b].kind # "logout")
    BY <2>2 DEF BrowserTypeOK, NoCall, CallOf
  <2>4. QED
    BY <1>1, <2>2, <2>3, QuietMove
<1>5. QED
  BY <1>1, <1>3, <1>4 DEF Unauthorized

-----------------------------------------------------------------------------
\* A request begins while none is running.
LEMMA SignInCalm ==
  ASSUME Calmly, NEW t \in Tabs, NEW r \in Requests, SignIn(t, r), calm'
  PROVE  OneAtATime' /\ SignedInInv' /\ CookieInv'
<1> USE DEF Calmly, WebInv
<1>1. PICK d \in Devices : StartLogin(r, d)
  BY DEF SignIn
<1>2. /\ NothingRuns /\ NoLogout /\ access = NoToken
      /\ serves' = [serves EXCEPT ![r] = t]
      /\ UNCHANGED <<storage, dead, call, asked, with>>
  BY DEF SignIn, CalmIf, postVars
<1>3. /\ pc'[r] = "find" /\ flow'[r] = "login"
      /\ \A q \in Requests \ {r} : pc'[q] = "idle" /\ flow'[q] = "none" /\ serves'[q] = Nobody
      /\ serves'[r] = t
  BY <1>1, <1>2 DEF StartLogin, Goto, NothingRuns, FlowInv, ServesInv, TypeInv, TypeOK,
     RequestTypeOK, BrowserTypeOK
<1>4. ~signedIn /\ \A p \in Posts : asked[p] = "no"
  BY <1>2 DEF SignedInInv
<1>5. OneAtATime'
  BY <1>2, <1>3, BrowserAssumption DEF OneAtATime
<1>6. SignedInInv'
  BY <1>2, <1>3, <1>4 DEF SignedInInv, NoLogout, storage
<1>7. CookieInv'
  BY <1>2, <1>3, <1>4 DEF CookieInv, RequestGood, storage
<1>8. QED
  BY <1>5, <1>6, <1>7

LEMMA ServeLogoutCalm ==
  ASSUME Calmly, NEW c \in Calls, NEW r \in Requests, ServeLogout(c, r)
  PROVE  OneAtATime' /\ SignedInInv' /\ CookieInv'
<1> USE DEF Calmly, WebInv
<1>1. /\ call[c].kind = "logout" /\ \A q \in Requests : serves[q] # c
      /\ serves' = [serves EXCEPT ![r] = c]
      /\ UNCHANGED <<storage, dead, call, asked, with>>
      /\ \E s \in {jwt[call[c].token]} : StartLogout(r, s)
  BY DEF ServeLogout, Outstanding, postVars
<1>2. ~signedIn /\ \A p \in Posts : asked[p] = "no"
  BY <1>1 DEF SignedInInv
<1>3. \A q \in Requests : pc[q] = "idle"
  BY <1>1, <1>2, RunsFor DEF NoLogout, OneAtATime
<1>4. /\ pc'[r] = "logout" /\ flow'[r] = "logout" /\ serves'[r] = c
      /\ \A q \in Requests \ {r} : pc'[q] = "idle" /\ flow'[q] = "none" /\ serves'[q] = Nobody
  BY <1>1, <1>3 DEF StartLogout, Goto, FlowInv, ServesInv, TypeInv, TypeOK,
     RequestTypeOK, BrowserTypeOK
<1>5. OneAtATime'
  BY <1>1, <1>4, BrowserAssumption DEF OneAtATime
<1>6. SignedInInv'
  BY <1>1, <1>2, <1>4 DEF SignedInInv, NoLogout, storage
<1>7. CookieInv'
  BY <1>1, <1>2, <1>4 DEF CookieInv, RequestGood, storage
<1>8. QED
  BY <1>5, <1>6, <1>7

\* The refresh carries the cookie of the moment, and nothing has touched its
\* token since: it is accepted.
LEMMA ServeRefreshCalm ==
  ASSUME Calmly, NEW p \in Posts, NEW r \in Requests, ServeRefresh(p, r)
  PROVE  OneAtATime' /\ SignedInInv' /\ CookieInv'
<1> USE DEF Calmly, WebInv
<1>1. /\ asked[p] = "sent" /\ asked' = [asked EXCEPT ![p] = "served"]
      /\ serves' = [serves EXCEPT ![r] = p] /\ UNCHANGED <<storage, dead, call, with>>
  BY DEF ServeRefresh
<1>2. with[p] = jar /\ NothingRuns /\ signedIn /\ Good(jar)
  BY <1>1 DEF CookieInv, SignedInInv
<1>3. ReadToken(r, jar) /\ NoLogout
  BY <1>2 DEF ServeRefresh, SignedInInv, NoLogout
<1>4. ~Rejected(jar)
  BY <1>2 DEF Rejected, Good, Live, FreshInv, TypeInv, TypeOK, StoreTypeOK
<1>5. /\ pc' = [pc EXCEPT ![r] = "consume"] /\ held' = [held EXCEPT ![r] = jar]
      /\ flow' = [flow EXCEPT ![r] = "refresh"] /\ sess' = [sess EXCEPT ![r] = ses[jar]]
      /\ UNCHANGED <<tokenVars, used, revoked, sessionVars>>
  BY <1>3, <1>4 DEF ReadToken, Goto
<1>6. /\ pc'[r] = "consume" /\ flow'[r] = "refresh" /\ held'[r] = jar /\ sess'[r] = ses[jar]
      /\ serves'[r] = p
      /\ \A q \in Requests \ {r} : pc'[q] = "idle" /\ flow'[q] = "none" /\ serves'[q] = Nobody
  BY <1>1, <1>2, <1>5 DEF NothingRuns, FlowInv, ServesInv, TypeInv, TypeOK,
     RequestTypeOK, BrowserTypeOK
<1>7. \A q \in Posts : asked'[q] # "no" => q = p
  BY <1>1 DEF OneAtATime, BrowserTypeOK
<1>8. OneAtATime'
  BY <1>1, <1>6, <1>7, BrowserAssumption DEF OneAtATime
<1>9. SignedInInv'
  BY <1>1, <1>2, <1>3, <1>6 DEF SignedInInv, NoLogout, storage
<1>10. CookieInv'
  <2>1. \A q \in Posts : asked'[q] # "sent"
    BY <1>1, <1>7 DEF BrowserTypeOK
  <2>2. Good(jar)' /\ ses' = ses
    BY <1>1, <1>2, <1>5 DEF Good, Live, tokenVars, sessionVars, storage
  <2>3. jar' = jar
    BY <1>1 DEF storage
  <2>4. ~NothingRuns'
    BY <1>6 DEF NothingRuns
  <2>5. RequestGood(r)'
    BY <1>6, <2>2, <2>3 DEF RequestGood, Good, Live
  <2>6. \A q \in Requests \ {r} : RequestGood(q)'
    BY <1>6 DEF RequestGood
  <2>7. QED
    BY <2>1, <2>4, <2>5, <2>6 DEF CookieInv
<1>11. QED
  BY <1>8, <1>9, <1>10

-----------------------------------------------------------------------------
\* Statements of the one request that runs: what it holds stays good.
LEMMA StepGood ==
  ASSUME TypeInv, FlowInv, NEW r \in Requests, Step(r), pc'[r] # "idle", RequestGood(r)
  PROVE  RequestGood(r)'
<1> USE DEF RequestGood, Good, Live, TypeInv, TypeOK, StoreTypeOK, RequestTypeOK,
            Goto, tokenVars, sessionVars, clientVars, localVars
<1>1. CASE FindSession(r)
  BY <1>1 DEF FindSession
<1>2. CASE ReviveSession(r)
  BY <1>2 DEF ReviveSession, AfterUpsert, FlowInv
<1>3. CASE InsertSession(r)
  BY <1>3 DEF InsertSession, AfterUpsert, FlowInv
<1>4. CASE RetireLive(r)
  BY <1>4 DEF RetireLive
<1>5. CASE MintFirst(r)
  BY <1>5 DEF MintFirst, Insert
<1>6. CASE Consume(r)
  BY <1>6 DEF Consume, StartCut
<1>7. CASE MintNext(r)
  BY <1>7 DEF MintNext, Minting, Insert
<1>8. CASE Respond(r) \/ LogoutDevice(r)
  BY <1>8 DEF Respond, LogoutDevice, Finish
<1>9. CASE CutTokens(r) \/ CutSession(r)
  BY <1>9 DEF CutTokens, CutSession
<1>10. CASE LogoutTokens(r) \/ LogoutSession(r)
  BY <1>10 DEF LogoutTokens, LogoutSession, LogoutDone
<1>11. QED
  BY <1>1, <1>2, <1>3, <1>4, <1>5, <1>6, <1>7, <1>8, <1>9, <1>10 DEF Step

LEMMA WorksCalm ==
  ASSUME Calmly, NEW r \in Requests, Works(r)
  PROVE  OneAtATime' /\ SignedInInv' /\ CookieInv'
<1> USE DEF Calmly, WebInv
<1>1. Step(r) /\ pc'[r] # "idle" /\ TypeInv /\ UNCHANGED browserVars
  BY DEF Works
<1>2. /\ pc[r] # "idle" /\ flow'[r] = flow[r]
      /\ \A q \in Requests \ {r} : pc'[q] = pc[q] /\ flow'[q] = flow[q]
  BY <1>1, StepSeen
<1>3. \A q \in Requests \ {r} : pc'[q] = "idle"
  BY <1>2 DEF OneAtATime
<1>4. OneAtATime'
  BY <1>1, <1>2, <1>3 DEF OneAtATime, browserVars, postVars
<1>5. SignedInInv'
  BY <1>1, <1>2 DEF SignedInInv, NoLogout, browserVars, postVars, storage
<1>6. CookieInv'
  <2>1. \A p \in Posts : asked'[p] # "sent"
    BY <1>1, <1>2 DEF CookieInv, NothingRuns, browserVars, postVars
  <2>2. RequestGood(r)'
    BY <1>1, StepGood DEF CookieInv
  <2>3. \A q \in Requests \ {r} : RequestGood(q)'
    BY <1>3 DEF RequestGood
  <2>4. QED
    BY <1>1, <2>1, <2>2, <2>3 DEF CookieInv, NothingRuns
<1>7. QED
  BY <1>4, <1>5, <1>6

\* The one request that ran has ended.
LEMMA EndedCalm ==
  ASSUME Calmly, NEW r \in Requests, pc[r] # "idle", Ends(r)
  PROVE  \A q \in Requests : pc'[q] = "idle" /\ flow'[q] = "none" /\ serves'[q] = Nobody
BY DEF Calmly, WebInv, OneAtATime, Ends, FlowInv, ServesInv, TypeInv, TypeOK, RequestTypeOK,
   BrowserTypeOK

LEMMA ArrivesCalm ==
  ASSUME Calmly, NEW r \in Requests, Arrives(r)
  PROVE  OneAtATime' /\ SignedInInv' /\ CookieInv'
<1> USE DEF Calmly, WebInv
<1>1. /\ pc[r] = "respond" /\ Ends(r) /\ serves[r] # Nobody
      /\ UNCHANGED <<tokenVars, used, revoked, sessionVars>>
  BY DEF Arrives, Respond, Finish, Goto, Ends, Unserved, OneAtATime
<1>2. \A q \in Requests : pc'[q] = "idle" /\ flow'[q] = "none" /\ serves'[q] = Nobody
  BY <1>1, EndedCalm
<1>3. Good(next[r]) /\ next[r] # NoToken
  BY <1>1, NoneAssumption
     DEF CookieInv, RequestGood, Good, Live, TypeInv, TypeOK, StoreTypeOK
<1>4. jar' = next[r] /\ access' = next[r] /\ signedIn' = TRUE
  BY <1>1 DEF Arrives, StoreTokens
<1>5. NoLogout /\ \A p \in Posts : asked'[p] = "no"
  <2>1. CASE flow[r] = "login"
    BY <1>1, <2>1 DEF Arrives, SignedInInv, postVars
  <2>2. CASE flow[r] = "refresh"
    <3>1. serves[r] \in Posts /\ asked[serves[r]] = "served" /\ signedIn
      BY <1>1, <2>2, RunsFor
    <3>2. asked' = [p \in Posts |-> IF p \in {serves[r]} THEN "no" ELSE asked[p]]
      BY <1>1, <2>2 DEF Arrives, Forget
    <3>3. QED
      BY <3>1, <3>2 DEF OneAtATime, SignedInInv, NoLogout, BrowserTypeOK
  <2>3. QED
    BY <1>1, <2>1, <2>2 DEF Arrives
<1>6. \A c \in Calls : call'[c].kind = call[c].kind
  BY <1>1 DEF Arrives, CallOf, BrowserTypeOK
<1>7. OneAtATime'
  BY <1>2, <1>5, <1>6, BrowserAssumption DEF OneAtATime, NoLogout
<1>8. SignedInInv'
  BY <1>2, <1>3, <1>4, <1>5, <1>6 DEF SignedInInv, NoLogout
<1>9. CookieInv'
  <2>1. Good(jar)'
    BY <1>1, <1>3, <1>4 DEF Good, Live, tokenVars, sessionVars
  <2>2. QED
    BY <1>2, <1>5, <2>1 DEF CookieInv, RequestGood
<1>10. QED
  BY <1>7, <1>8, <1>9

LEMMA LoggedOutCalm ==
  ASSUME Calmly, NEW r \in Requests, LoggedOut(r)
  PROVE  OneAtATime' /\ SignedInInv' /\ CookieInv'
<1> USE DEF Calmly, WebInv
<1>1. pc[r] = "device" /\ flow[r] = "logout" /\ Ends(r)
  BY DEF LoggedOut, LogoutDevice, Finish, Goto, Ends, Unserved, FlowInv
<1>2. \A q \in Requests : pc'[q] = "idle" /\ flow'[q] = "none" /\ serves'[q] = Nobody
  BY <1>1, EndedCalm
<1>3. ~signedIn /\ serves[r] \in Calls /\ \A p \in Posts : asked[p] = "no"
  BY <1>1, RunsFor DEF SignedInInv
<1>4. UNCHANGED <<access, signedIn>> /\ asked' = asked /\ call' = [call EXCEPT ![serves[r]] = NoCall]
  BY <1>3, BrowserAssumption DEF LoggedOut, postVars
<1>5. \A c \in Calls : call'[c] = call[c] \/ call'[c].kind # "logout"
  BY <1>3, <1>4 DEF BrowserTypeOK, NoCall, CallOf
<1>6. OneAtATime'
  BY <1>2, <1>3, <1>4, <1>5, BrowserAssumption DEF OneAtATime
<1>7. SignedInInv'
  BY <1>2, <1>3, <1>4, <1>5 DEF SignedInInv
<1>8. CookieInv'
  BY <1>2, <1>3, <1>4 DEF CookieInv, RequestGood
<1>9. QED
  BY <1>6, <1>7, <1>8

\* In calm no refresh is refused, no rotation finds its token used.
LEMMA NoRefusal ==
  ASSUME Calmly
  PROVE  /\ \A p \in Posts : ~RefuseRefresh(p)
         /\ \A r \in Requests : ~Rebuffed(r)
<1> USE DEF Calmly, WebInv
<1>1. ASSUME NEW p \in Posts, RefuseRefresh(p) PROVE FALSE
  <2>1. jar = NoToken /\ Good(jar)
    BY <1>1 DEF RefuseRefresh, CookieInv, SignedInInv
  <2>2. QED
    BY <2>1, NoneAssumption DEF Good, Live, TypeInv, TypeOK, StoreTypeOK
<1>2. ASSUME NEW r \in Requests, Rebuffed(r) PROVE FALSE
  BY <1>2 DEF Rebuffed, CutTokens, CutSession, CookieInv, RequestGood
<1>3. QED
  BY <1>1, <1>2

CalmIInv == WebInv /\ FreshInv /\ CalmInv

LEMMA CalmInit == WebInit => CalmIInv
<1> SUFFICES ASSUME WebInit PROVE FreshInv /\ CalmInv
  BY WebInitInv DEF CalmIInv
<1>1. FreshInv
  BY DEF WebInit, Init, FreshInv
<1>2. OneAtATime /\ SignedInInv /\ CookieInv
  BY BrowserAssumption DEF WebInit, Init, OneAtATime, SignedInInv, CookieInv, RequestGood,
     NoCall, CallOf, NoLogout
<1>3. QED
  BY <1>1, <1>2 DEF CalmInv

\* Calm is never regained.
LEMMA CalmEnds == [WebNext]_webVars /\ calm' => calm
BY DEF WebNext, webVars, SignIn, ServeRefresh, SignOut, CallApi, Reload, RefuseRefresh,
   Answered, RetryFails, Refused, Cancel, ServeLogout, Works, Arrives, Rebuffed, LoggedOut,
   Breaks, Expire, CalmIf, Stays

LEMMA CalmStep == CalmIInv /\ [WebNext]_webVars => CalmIInv'
<1> SUFFICES ASSUME CalmIInv, [WebNext]_webVars PROVE CalmIInv'
  OBVIOUS
<1>1. WebInv' /\ FreshInv'
  BY WebStepInv, WebStepIsServerStep, ClockStands, FreshStep DEF CalmIInv, WebInv
<1>2. ASSUME calm' PROVE OneAtATime' /\ SignedInInv' /\ CookieInv'
  <2>1. Calmly
    BY <1>2, CalmEnds DEF CalmIInv, CalmInv, Calmly
  <2>2. CASE UNCHANGED webVars
    BY <2>1, <2>2, QuietMove DEF webVars, browserVars, postVars
  <2>3. /\ \A t \in Tabs, r \in Requests :
             SignIn(t, r) => OneAtATime' /\ SignedInInv' /\ CookieInv'
        /\ \A p \in Posts, r \in Requests :
             ServeRefresh(p, r) => OneAtATime' /\ SignedInInv' /\ CookieInv'
    BY <1>2, <2>1, SignInCalm, ServeRefreshCalm
  <2>4. ASSUME NEW t \in Tabs, NEW c \in Calls, SignOut(t, c) \/ CallApi(t, c)
        PROVE  OneAtATime' /\ SignedInInv' /\ CookieInv'
    BY <1>2, <2>1, <2>4, SignOutCalm, UserCalm
  <2>5. /\ \A t \in Tabs : Reload(t) => OneAtATime' /\ SignedInInv' /\ CookieInv'
        /\ \A p \in Posts : ~RefuseRefresh(p)
    BY <1>2, <2>1, ReloadCalm, NoRefusal
  <2>6. ASSUME NEW c \in Calls, Answered(c) \/ Cancel(c)
        PROVE  OneAtATime' /\ SignedInInv' /\ CookieInv'
    <3>1. call[c].tab \in Tabs
      BY <2>1, <2>6, CallHasTab DEF Answered, Outstanding, Cancel, Calmly, WebInv, NoCall,
         CallOf, BrowserTypeOK, CallStates
    <3>2. QED
      BY <2>1, <2>6, <3>1, UserCalm
  <2>7. ASSUME NEW c \in Calls, RetryFails(c) \/ Refused(c)
        PROVE  OneAtATime' /\ SignedInInv' /\ CookieInv'
    BY <1>2, <2>1, <2>7, RefusedCalm DEF RetryFails, CalmIf
  <2>8. ASSUME NEW c \in Calls, NEW r \in Requests, ServeLogout(c, r)
        PROVE  OneAtATime' /\ SignedInInv' /\ CookieInv'
    BY <2>1, <2>8, ServeLogoutCalm
  <2>9. ASSUME NEW r \in Requests,
               Works(r) \/ Arrives(r) \/ Rebuffed(r) \/ LoggedOut(r) \/ Breaks(r)
        PROVE  OneAtATime' /\ SignedInInv' /\ CookieInv'
    BY <1>2, <2>1, <2>9, WorksCalm, ArrivesCalm, NoRefusal, LoggedOutCalm DEF Breaks, CalmIf
  <2>10. ASSUME NEW k \in Tokens, Expire(k)
         PROVE  OneAtATime' /\ SignedInInv' /\ CookieInv'
    BY <2>1, <2>10, QuietMove DEF Expire, postVars
  <2>11. QED
    BY <2>2, <2>3, <2>4, <2>5, <2>6, <2>7, <2>8, <2>9, <2>10 DEF WebNext
<1>3. QED
  BY <1>1, <1>2 DEF CalmIInv, CalmInv

\* A calm browser, whose refreshes do not overlap, is never taken for a thief:
\* however its tabs' calls meet expired access tokens or are cancelled, rotate
\* finds the token it is sent live.
THEOREM CalmNeverRebuffed == WebSpec => []NeverRebuffed
<1>1. CalmIInv => NeverRebuffed
  BY DEF CalmIInv, CalmInv, CookieInv, RequestGood, NeverRebuffed
<1>2. QED
  BY <1>1, CalmInit, CalmStep, PTL DEF WebSpec

\* The cookie a calm, settled browser is left with opens its session again.
THEOREM CalmCookieIsLive == WebSpec => []CookieIsLive
<1>1. CalmIInv => CookieIsLive
  BY DEF CalmIInv, CalmInv, CookieInv, CookieIsLive, Good, Settled, NothingRuns
<1>2. QED
  BY <1>1, CalmInit, CalmStep, PTL DEF WebSpec

\* In calm a session ends with its user's signOut and in no other way: every
\* failure branch of the interceptor and of refreshAccessToken is out of reach.
THEOREM CalmStaysSignedIn == WebSpec => SignedInUntilSignOut
<1>1. CalmIInv /\ [WebNext]_webVars =>
        [signedIn /\ ~signedIn' /\ calm' => \E t \in Tabs, c \in Calls : SignOut(t, c)]_webVars
  <2> SUFFICES ASSUME CalmIInv, WebNext, signedIn, ~signedIn', calm'
               PROVE  \E t \in Tabs, c \in Calls : SignOut(t, c)
    BY DEF webVars
  <2>1. Calmly
    BY CalmEnds DEF CalmIInv, CalmInv, Calmly
  <2>2. /\ \A t \in Tabs, r \in Requests : ~SignIn(t, r)
        /\ \A p \in Posts, r \in Requests : ~ServeRefresh(p, r)
    BY DEF SignIn, ServeRefresh, storage
  <2>3. ASSUME NEW t \in Tabs, NEW c \in Calls, CallApi(t, c) PROVE FALSE
    BY <2>3 DEF CallApi, storage
  <2>4. (\A t \in Tabs : ~Reload(t)) /\ (\A p \in Posts : ~RefuseRefresh(p))
    BY <2>1, NoRefusal DEF Reload, storage
  <2>5. ASSUME NEW c \in Calls, Answered(c) \/ RetryFails(c) \/ Cancel(c) PROVE FALSE
    BY <2>5 DEF Answered, RetryFails, Cancel, CalmIf, storage
  <2>6. ASSUME NEW c \in Calls, Refused(c) PROVE FALSE
    <3>1. Replayable(c) /\ JoinRefresh(c)
      BY <2>6 DEF Refused, CalmIf, Unauthorized, Replayable
    <3>2. QED
      BY <3>1 DEF JoinRefresh, storage
  <2>7. ASSUME NEW c \in Calls, NEW r \in Requests, ServeLogout(c, r) PROVE FALSE
    BY <2>7 DEF ServeLogout, storage
  <2>8. ASSUME NEW r \in Requests,
               Works(r) \/ Arrives(r) \/ Rebuffed(r) \/ LoggedOut(r) \/ Breaks(r)
        PROVE  FALSE
    BY <2>1, <2>8, NoRefusal
       DEF Works, Arrives, StoreTokens, LoggedOut, Breaks, CalmIf, browserVars, storage
  <2>9. ASSUME NEW k \in Tokens, Expire(k) PROVE FALSE
    BY <2>9 DEF Expire, storage
  <2>10. QED
    BY <2>2, <2>3, <2>4, <2>5, <2>6, <2>7, <2>8, <2>9 DEF WebNext
<1>2. QED
  BY <1>1, CalmInit, CalmStep, PTL DEF WebSpec, SignedInUntilSignOut
=============================================================================
