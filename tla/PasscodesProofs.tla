--------------------------- MODULE PasscodesProofs ---------------------------
(***************************************************************************)
(* A replaced passcode and a cleared reset ticket never come back, however *)
(* many handlers interleave and whatever the bounds of the model are.      *)
(***************************************************************************)
EXTENDS Passcodes, TLAPS

Shape == [enabled: BOOLEAN, hash: Nat, failed: Nat, locked: Nat, ticket: Nat,
          until: Nat]

\* What the argument needs to know of the types.
Shaped ==
  /\ record \in Shape
  /\ entity \in [Requests -> Shape] /\ outer \in [Requests -> Shape]
  /\ hashes \in Nat /\ tickets \in Nat /\ clock \in Nat

\* An UPDATE leaves, in every column, the value of the row or of the entity.
LEMMA WrittenShape ==
  ASSUME NEW row \in Shape, NEW e \in Shape, NEW C
  PROVE  /\ Written(row, e, C) \in Shape
         /\ Written(row, e, C).hash \in {row.hash, e.hash}
         /\ Written(row, e, C).ticket \in {row.ticket, e.ticket}
<1>1. DOMAIN row = {"enabled", "hash", "failed", "locked", "ticket", "until"}
  BY DEF Shape
<1> QED
  BY <1>1 DEF Shape, Written

\* What a step may add to the passcodes and tickets that are held: none, or
\* one that has just been made.
KeptHash ==
  \A x \in Held("hash")' : x \in Held("hash") \/ x = 0 \/ x = hashes + 1
KeptTicket ==
  \A x \in Held("ticket")' : x \in Held("ticket") \/ x = 0 \/ x = tickets + 1
Kept == Shaped' /\ KeptHash /\ KeptTicket

LEMMA InitShaped == Init => Shaped
BY DEF Init, Shaped, Shape, Blank

\* A step that changes the row or the copies of one request, and takes every
\* value from them or anew.
LEMMA Moved ==
  ASSUME Shaped, NEW r \in Requests,
         NEW w \in Shape, NEW e \in Shape, NEW o \in Shape,
         record' = w, entity' = [entity EXCEPT ![r] = e],
         outer' = [outer EXCEPT ![r] = o],
         hashes' \in Nat, tickets' \in Nat, clock' \in Nat,
         w.hash \in {record.hash, entity[r].hash},
         w.ticket \in {record.ticket, entity[r].ticket},
         e.hash \in {record.hash, entity[r].hash, outer[r].hash, 0, hashes + 1},
         e.ticket \in {record.ticket, entity[r].ticket, outer[r].ticket, 0, tickets + 1},
         o.hash \in {record.hash, outer[r].hash, 0},
         o.ticket \in {record.ticket, outer[r].ticket, 0}
  PROVE  Kept
<1>1. Shaped'
  BY DEF Shaped
<1>2. KeptHash
  BY DEF Shaped, KeptHash, Held
<1>3. KeptTicket
  BY DEF Shaped, KeptTicket, Held
<1> QED
  BY <1>1, <1>2, <1>3 DEF Kept

\* The same for a step that leaves the row and the outer copies alone.
LEMMA Edited ==
  ASSUME Shaped, NEW r \in Requests, NEW e \in Shape,
         UNCHANGED <<record, outer>>, entity' = [entity EXCEPT ![r] = e],
         hashes' \in Nat, tickets' \in Nat, clock' \in Nat,
         e.hash \in {record.hash, outer[r].hash, 0, hashes + 1},
         e.ticket \in {record.ticket, outer[r].ticket, 0, tickets + 1}
  PROVE  Kept
<1>1. outer' = [outer EXCEPT ![r] = outer[r]]
  BY DEF Shaped
<1> QED
  BY <1>1, Moved DEF Shaped

\* What the handlers make of a copy.
LEMMA Edits ==
  ASSUME Shaped, NEW e \in Shape
  PROVE  /\ Right(e) \in Shape /\ Right(e).hash = e.hash /\ Right(e).ticket = e.ticket
         /\ Wrong(e) \in Shape /\ Wrong(e).hash = e.hash /\ Wrong(e).ticket = e.ticket
         /\ Disabled(e) \in Shape /\ Disabled(e).hash = 0
         /\ Disabled(e).ticket = e.ticket
         /\ Blank \in Shape /\ Blank.hash = 0 /\ Blank.ticket = 0
<1>1. Right(e) \in Shape /\ Right(e).hash = e.hash /\ Right(e).ticket = e.ticket
  BY DEF Shape, Right
<1>2. Wrong(e) \in Shape /\ Wrong(e).hash = e.hash /\ Wrong(e).ticket = e.ticket
  <2>1. clock + Lockout \in Nat /\ e.failed + 1 \in Nat
    BY PasscodeAssumption DEF Shaped, Shape
  <2> QED
    BY <2>1 DEF Shape, Wrong
<1>3. Disabled(e) \in Shape /\ Disabled(e).hash = 0 /\ Disabled(e).ticket = e.ticket
  BY DEF Shape, Disabled
<1>4. Blank \in Shape /\ Blank.hash = 0 /\ Blank.ticket = 0
  BY DEF Shape, Blank
<1> QED
  BY <1>1, <1>2, <1>3, <1>4

\* What setPasscode and verifyResetOtp make of it.
Reset(e, h) == [e EXCEPT !.enabled = TRUE, !.hash = h, !.failed = 0, !.locked = 0,
                         !.ticket = 0, !.until = 0]
Ticketed(e, k) == [e EXCEPT !.ticket = k, !.until = clock + TicketLife]

LEMMA Made ==
  ASSUME Shaped, NEW e \in Shape, NEW n \in Nat
  PROVE  /\ Reset(e, n) \in Shape /\ Reset(e, n).hash = n /\ Reset(e, n).ticket = 0
         /\ Ticketed(e, n) \in Shape /\ Ticketed(e, n).hash = e.hash
         /\ Ticketed(e, n).ticket = n
<1>1. Reset(e, n) \in Shape /\ Reset(e, n).hash = n /\ Reset(e, n).ticket = 0
  BY DEF Shape, Reset
<1>2. clock + TicketLife \in Nat
  BY PasscodeAssumption DEF Shaped
<1>3. /\ Ticketed(e, n) \in Shape /\ Ticketed(e, n).hash = e.hash
      /\ Ticketed(e, n).ticket = n
  BY <1>2 DEF Shape, Ticketed
<1> QED
  BY <1>1, <1>3

LEMMA StepKept == Shaped /\ [Next]_vars => Kept
<1> SUFFICES ASSUME Shaped, [Next]_vars PROVE Kept
  OBVIOUS
<1>0. /\ record \in Shape /\ Blank \in Shape
      /\ \A r \in Requests : entity[r] \in Shape /\ outer[r] \in Shape
      /\ hashes \in Nat /\ tickets \in Nat /\ clock \in Nat
  BY Edits DEF Shaped
<1>c. Copy \in Shape /\ Copy.hash \in {record.hash, 0} /\ Copy.ticket \in {record.ticket, 0}
  BY <1>0, Edits DEF Copy
<1>1. ASSUME NEW r \in Requests, NEW k \in 0 .. MaxTicket, SetPasscode(r, k) PROVE Kept
  <2>1. UNCHANGED <<record, outer, tickets, clock>> /\ hashes' = hashes + 1
    BY <1>1 DEF SetPasscode, SaveOrInsert, Save, rowVars
  <2>2. entity' = [entity EXCEPT ![r] = Reset(Copy, hashes + 1)]
    BY <1>1 DEF SetPasscode, SaveOrInsert, Save, Reset
  <2>3. hashes + 1 \in Nat
    BY <1>0
  <2> QED
    BY <1>0, <1>c, <2>1, <2>2, <2>3, Made, Edited
<1>2. ASSUME NEW r \in Requests, UpdateIdleTimeout(r) PROVE Kept
  BY <1>2, <1>0, Edited DEF UpdateIdleTimeout, Save, rowVars, madeVars
<1>3. ASSUME NEW r \in Requests, MintTicket(r) PROVE Kept
  <2>1. UNCHANGED <<record, outer, hashes, clock>> /\ tickets' = tickets + 1
    BY <1>3 DEF MintTicket, SaveOrInsert, Save, rowVars
  <2>2. entity' = [entity EXCEPT ![r] = Ticketed(Copy, tickets + 1)]
    BY <1>3 DEF MintTicket, SaveOrInsert, Save, Ticketed
  <2>3. tickets + 1 \in Nat
    BY <1>0
  <2> QED
    BY <1>0, <1>c, <2>1, <2>2, <2>3, Made, Edited
<1>4. ASSUME NEW r \in Requests, Verify(r) PROVE Kept
  <2>1. \/ entity' = [entity EXCEPT ![r] = Right(record)]
        \/ entity' = [entity EXCEPT ![r] = Wrong(record)]
    BY <1>4 DEF Verify, Save
  <2>2. UNCHANGED <<record, outer, hashes, tickets, clock>>
    BY <1>4 DEF Verify, Save, rowVars, madeVars
  <2> QED
    BY <1>0, <2>1, <2>2, Edits, Edited
<1>5. ASSUME NEW r \in Requests, Disable(r) PROVE Kept
  <2>1. entity' = [entity EXCEPT ![r] = entity[r]]
    BY <1>5 DEF Disable, Shaped
  <2> QED
    BY <1>0, <1>5, <2>1, Moved DEF Disable, rowVars, madeVars
<1>6. ASSUME NEW r \in Requests, DisableVerify(r) PROVE Kept
  <2>1. UNCHANGED <<record, hashes, tickets, clock>>
    BY <1>6 DEF DisableVerify, rowVars, madeVars
  <2>2. \/ Finish(r)
        \/ \E e \in {Right(record), Wrong(record), Disabled(outer[r])} :
             entity' = [entity EXCEPT ![r] = e] /\ UNCHANGED outer
    BY <1>6 DEF DisableVerify, Save
  <2>3. CASE Finish(r)
    BY <1>0, <2>1, <2>3, Edits, Moved DEF Finish
  <2>4. ASSUME NEW e \in {Right(record), Wrong(record), Disabled(outer[r])},
               entity' = [entity EXCEPT ![r] = e], UNCHANGED outer
        PROVE  Kept
    <3>1. /\ e \in Shape /\ e.hash \in {record.hash, 0}
          /\ e.ticket \in {record.ticket, outer[r].ticket}
      BY <1>0, <2>4, Edits
    <3> QED
      BY <1>0, <2>1, <2>4, <3>1, Edited
  <2> QED
    BY <2>2, <2>3, <2>4
<1>7. ASSUME NEW r \in Requests, LookUp(r) PROVE Kept
  <2>1. entity' = [entity EXCEPT ![r] = entity[r]] /\ outer' = [outer EXCEPT ![r] = outer[r]]
    BY <1>7 DEF LookUp, Shaped
  <2> QED
    BY <1>0, <1>7, <2>1, Moved DEF LookUp, rowVars, madeVars
<1>8. ASSUME NEW r \in Requests, NEW w \in Shape, record' = w,
             w.hash \in {record.hash, entity[r].hash},
             w.ticket \in {record.ticket, entity[r].ticket},
             Answer(r), UNCHANGED <<hashes, tickets, clock>>
      PROVE  Kept
  <2>1. CASE Finish(r)
    BY <1>0, <1>8, <2>1, Edits, Moved DEF Finish
  <2>2. CASE AfterCheck(r)
    <3>1. outer' = [outer EXCEPT ![r] = outer[r]]
      BY <2>2 DEF AfterCheck, Save, Shaped
    <3>2. entity' = [entity EXCEPT ![r] = Disabled(outer[r])]
      BY <2>2 DEF AfterCheck, Save
    <3>3. /\ Disabled(outer[r]) \in Shape /\ Disabled(outer[r]).hash = 0
          /\ Disabled(outer[r]).ticket = outer[r].ticket
      BY <1>0, Edits
    <3> QED
      BY <1>0, <1>8, <3>1, <3>2, <3>3, Moved
  <2> QED
    BY <1>8, <2>1, <2>2 DEF Answer
<1>9. ASSUME NEW r \in Requests, Write(r) PROVE Kept
  <2>1. /\ record' \in Shape
        /\ record'.hash \in {record.hash, entity[r].hash}
        /\ record'.ticket \in {record.ticket, entity[r].ticket}
    BY <1>0, <1>9, WrittenShape DEF Write
  <2> QED
    BY <1>8, <1>9, <2>1 DEF Write, madeVars
<1>10. ASSUME NEW r \in Requests, Insert(r) PROVE Kept
  <2>1. CASE record' = entity[r] /\ Answer(r)
    BY <1>0, <1>8, <1>10, <2>1 DEF Insert, madeVars
  <2>2. CASE Finish(r) /\ UNCHANGED rowVars
    BY <1>0, <1>10, <2>2, Edits, Moved DEF Insert, Finish, rowVars, madeVars
  <2> QED
    BY <1>10, <2>1, <2>2 DEF Insert
<1>11. ASSUME NEW r \in Requests, Abort(r) PROVE Kept
  BY <1>0, <1>11, Edits, Moved DEF Abort, Finish, rowVars, madeVars
<1>12. CASE MinutePasses
  BY <1>12, PasscodeAssumption
  DEF MinutePasses, Kept, KeptHash, KeptTicket, Shaped, Held, rowVars, madeVars, localVars
<1>13. CASE UNCHANGED vars
  BY <1>13
  DEF vars, Kept, KeptHash, KeptTicket, Shaped, Held, rowVars, madeVars, localVars
<1> QED
  BY <1>1, <1>2, <1>3, <1>4, <1>5, <1>6, <1>7, <1>9, <1>10, <1>11, <1>12, <1>13
  DEF Next, Step

\* The action of GoneForGood.
NeverBack ==
  /\ \A h \in 1 .. hashes : h \notin Held("hash") => h \notin Held("hash")'
  /\ \A k \in 1 .. tickets : k \notin Held("ticket") => k \notin Held("ticket")'

\* GoneForGood for any number of requests, passcodes, tickets and minutes:
\* save() only moves values between the row and the copies of requests that
\* are running, and a new passcode or ticket is drawn afresh.
THEOREM PasscodesGone == Spec => GoneForGood
<1>1. Shaped /\ Kept => NeverBack
  BY DEF Shaped, Kept, KeptHash, KeptTicket, NeverBack
<1>2. Shaped /\ [Next]_vars => Shaped' /\ [NeverBack]_vars
  BY <1>1, StepKept DEF Kept
<1>3. Spec => [][NeverBack]_vars
  BY <1>2, InitShaped, PTL DEF Spec
<1>4. GoneForGood <=> [][NeverBack]_vars
  BY PTL DEF GoneForGood, NeverBack
<1> QED
  BY <1>3, <1>4, PTL
-----------------------------------------------------------------------------
(***************************************************************************)
(* Types.  A mint carries a ticket that has been minted, a redemption one  *)
(* that a client has; what a handler leaves behind when it ends is reset.  *)
(***************************************************************************)
CarriesOK ==
  \A r \in Requests :
    /\ goal[r] = "mint" => entity[r].ticket \in 1 .. tickets
    /\ ticket[r] \in known \cup {0}
    /\ pc[r] = "idle" => ~fresh[r] /\ ticket[r] = 0

TypeInv == TypeOK /\ CarriesOK

Columns == {"enabled", "hash", "failed", "locked", "ticket", "until"}

LEMMA RowsOK ==
  ASSUME NEW e \in Rows, clock \in 0 .. MaxClock
  PROVE  /\ Right(e) \in Rows /\ Wrong(e) \in Rows /\ Disabled(e) \in Rows /\ Blank \in Rows
         /\ \A n \in 0 .. MaxHash : Reset(e, n) \in Rows
         /\ \A n \in 0 .. MaxTicket : Ticketed(e, n) \in Rows /\ Ticketed(e, n).ticket = n
         /\ DOMAIN e = Columns
<1> USE PasscodeAssumption
<1>1. 0 \in Times /\ clock + Lockout \in Times /\ clock + TicketLife \in Times
  BY DEF Times
<1>2. 0 \in 0 .. MaxHash /\ 0 \in 0 .. MaxFailed - 1 /\ 0 \in 0 .. MaxTicket
  OBVIOUS
<1>3. Right(e) \in Rows /\ Disabled(e) \in Rows /\ Blank \in Rows
  BY <1>1, <1>2 DEF Right, Disabled, Blank, Rows
<1>4. Wrong(e) \in Rows
  <2>1. CASE e.failed + 1 >= MaxFailed
    BY <1>1, <1>2, <2>1 DEF Wrong, Rows
  <2>2. CASE ~(e.failed + 1 >= MaxFailed)
    <3>1. e.failed + 1 \in 0 .. MaxFailed - 1
      BY <2>2 DEF Rows
    <3> QED
      BY <2>2, <3>1 DEF Wrong, Rows
  <2> QED
    BY <2>1, <2>2
<1>5. ASSUME NEW n \in 0 .. MaxHash PROVE Reset(e, n) \in Rows
  BY <1>1, <1>2 DEF Reset, Rows
<1>6. ASSUME NEW n \in 0 .. MaxTicket PROVE Ticketed(e, n) \in Rows /\ Ticketed(e, n).ticket = n
  BY <1>1 DEF Ticketed, Rows
<1>7. DOMAIN e = Columns
  BY DEF Rows, Columns
<1> QED
  BY <1>3, <1>4, <1>5, <1>6, <1>7

LEMMA WrittenRows ==
  ASSUME NEW row \in Rows, NEW e \in Rows, NEW C
  PROVE  /\ Written(row, e, C) \in Rows
         /\ C = Changed(row, e) => Written(row, e, C) = e
<1>1. DOMAIN row = Columns /\ DOMAIN e = Columns
  BY DEF Rows, Columns
<1>2. Written(row, e, C) \in Rows
  BY <1>1 DEF Rows, Written, Columns
<1>3. ASSUME C = Changed(row, e) PROVE Written(row, e, C) = e
  <2>1. \A c \in Columns : Written(row, e, C)[c] = e[c]
    BY <1>1, <1>3 DEF Written, Changed
  <2>2. DOMAIN Written(row, e, C) = Columns
    BY <1>1 DEF Written
  <2>3. /\ Written(row, e, C).enabled = e.enabled /\ Written(row, e, C).hash = e.hash
        /\ Written(row, e, C).failed = e.failed /\ Written(row, e, C).locked = e.locked
        /\ Written(row, e, C).ticket = e.ticket /\ Written(row, e, C).until = e.until
    BY <2>1 DEF Columns
  <2> QED
    BY <1>2, <2>3 DEF Rows
<1> QED
  BY <1>2, <1>3

\* A step of one request, with what it makes of its locals.
LEMMA TypeMoved ==
  ASSUME TypeInv, NEW r \in Requests,
         NEW l \in {"idle", "verify", "save", "write"}, NEW g \in Goals,
         NEW e \in Rows, NEW o \in Rows, NEW f \in BOOLEAN, NEW k, NEW C \in SUBSET Columns,
         pc' = [pc EXCEPT ![r] = l], goal' = [goal EXCEPT ![r] = g],
         entity' = [entity EXCEPT ![r] = e], outer' = [outer EXCEPT ![r] = o],
         fresh' = [fresh EXCEPT ![r] = f], ticket' = [ticket EXCEPT ![r] = k],
         cols' = [cols EXCEPT ![r] = C],
         present' \in BOOLEAN, record' \in Rows, hashes' \in 0 .. MaxHash,
         tickets' \in 0 .. MaxTicket, tickets <= tickets',
         known \subseteq known', known' \subseteq 1 .. tickets',
         spent' \subseteq known', again' \subseteq spent', wrong' \in Nat,
         alone' \in BOOLEAN, UNCHANGED clock,
         k \in known' \cup {0}, g = "mint" => e.ticket \in 1 .. tickets',
         l = "idle" => ~f /\ k = 0
  PROVE  TypeInv'
<1>1. DOMAIN Blank = Columns
  BY DEF Blank, Columns
<1>2. k \in 0 .. MaxTicket
  BY PasscodeAssumption
<1>3. TypeOK'
  BY <1>1, <1>2 DEF TypeInv, TypeOK
<1>4. tickets \in Nat /\ tickets' \in Nat
  BY PasscodeAssumption DEF TypeInv, TypeOK
<1>5. CarriesOK'
  BY <1>4 DEF TypeInv, TypeOK, CarriesOK
<1> QED
  BY <1>3, <1>5 DEF TypeInv

\* A handler that ends, or goes on to a save, with the rest as it is.
SameRow == UNCHANGED <<present, record, known, spent, again, wrong, clock>>

LEMMA TypeSaves ==
  ASSUME TypeInv, NEW r \in Requests, NEW g \in Goals, NEW e \in Rows, Save(r, g, e),
         NEW f \in BOOLEAN, fresh' = [fresh EXCEPT ![r] = f],
         NEW k, ticket' = [ticket EXCEPT ![r] = k], k \in known \cup {0},
         SameRow, hashes' \in 0 .. MaxHash, tickets' \in 0 .. MaxTicket, tickets <= tickets',
         g = "mint" => e.ticket \in 1 .. tickets', alone' \in BOOLEAN
  PROVE  TypeInv'
<1>1. /\ outer' = [outer EXCEPT ![r] = outer[r]] /\ cols' = [cols EXCEPT ![r] = cols[r]]
      /\ outer[r] \in Rows /\ cols[r] \in SUBSET Columns
  BY DEF Save, TypeInv, TypeOK, Blank, Columns
<1>2. known' \subseteq 1 .. tickets' /\ spent' \subseteq known' /\ again' \subseteq spent'
      /\ present' \in BOOLEAN /\ record' \in Rows /\ wrong' \in Nat
  BY PasscodeAssumption DEF SameRow, TypeInv, TypeOK
<1> QED
  BY <1>1, <1>2, TypeMoved DEF Save, Goto, For, SameRow

LEMMA TypeEnds ==
  ASSUME TypeInv, NEW r \in Requests, Finish(r), present' \in BOOLEAN, record' \in Rows,
         UNCHANGED <<hashes, tickets, clock>>, known \subseteq known',
         known' \subseteq 1 .. tickets, spent' \subseteq known', again' \subseteq spent',
         wrong' \in Nat, alone' \in BOOLEAN
  PROVE  TypeInv'
<1>1. Blank \in Rows /\ hashes \in 0 .. MaxHash /\ tickets \in 0 .. MaxTicket /\ tickets <= tickets
  BY RowsOK, PasscodeAssumption DEF TypeInv, TypeOK
<1>2. {} \in SUBSET Columns /\ "none" \in Goals
  BY DEF Goals
<1> QED
  BY <1>1, <1>2, TypeMoved DEF Finish, Goto, For

\* What is answered after a save, and the disable that follows its check.
LEMMA TypeAnswers ==
  ASSUME TypeInv, NEW r \in Requests, Answer(r), present' \in BOOLEAN, record' \in Rows,
         UNCHANGED <<hashes, tickets, clock>>, alone' \in BOOLEAN
  PROVE  TypeInv'
<1> USE DEF TypeInv, TypeOK
<1>1. known' = IF goal[r] = "mint" THEN known \cup {entity[r].ticket} ELSE known
  BY DEF Answer
<1>2. known \subseteq known' /\ known' \subseteq 1 .. tickets
  BY <1>1 DEF CarriesOK
<1>3. spent' \subseteq known' /\ again' \subseteq spent'
  <2>1. spent' = spent \cup ({ticket[r]} \ {0}) /\ again' = again \cup (spent \cap {ticket[r]})
    BY DEF Answer
  <2>2. ticket[r] \in known \cup {0}
    BY DEF CarriesOK
  <2> QED
    BY <1>2, <2>1, <2>2
<1>4. wrong' \in Nat
  BY DEF Answer
<1>5. CASE Finish(r)
  BY <1>2, <1>3, <1>4, <1>5, TypeEnds
<1>6. CASE AfterCheck(r)
  <2>1. Disabled(outer[r]) \in Rows /\ outer[r] \in Rows
    BY RowsOK
  <2>2. /\ fresh' = [fresh EXCEPT ![r] = fresh[r]] /\ ticket' = [ticket EXCEPT ![r] = ticket[r]]
        /\ outer' = [outer EXCEPT ![r] = outer[r]] /\ cols' = [cols EXCEPT ![r] = cols[r]]
        /\ cols[r] \in SUBSET Columns /\ fresh[r] \in BOOLEAN
    BY <1>6 DEF AfterCheck, Save, Blank, Columns
  <2>3. tickets <= tickets /\ ticket[r] \in known' \cup {0}
    BY <1>2, PasscodeAssumption DEF CarriesOK
  <2>4. /\ pc' = [pc EXCEPT ![r] = "save"] /\ goal' = [goal EXCEPT ![r] = "disable"]
        /\ entity' = [entity EXCEPT ![r] = Disabled(outer[r])] /\ "disable" \in Goals
    BY <1>6 DEF AfterCheck, Save, Goto, For, Goals
  <2> QED
    BY <1>2, <1>3, <1>4, <2>1, <2>2, <2>3, <2>4, TypeMoved
<1> QED
  BY <1>5, <1>6 DEF Answer

LEMMA TypeStep ==
  ASSUME TypeInv, NEW r \in Requests, Step(r), alone' \in BOOLEAN
  PROVE  TypeInv'
<1>0. /\ record \in Rows /\ Blank \in Rows /\ Copy \in Rows /\ clock \in 0 .. MaxClock
      /\ entity[r] \in Rows /\ outer[r] \in Rows /\ fresh[r] \in BOOLEAN
      /\ ticket[r] \in known \cup {0} /\ ticket' \in {ticket'}
      /\ hashes \in 0 .. MaxHash /\ tickets \in 0 .. MaxTicket /\ tickets <= tickets
      /\ fresh = [fresh EXCEPT ![r] = fresh[r]] /\ ticket = [ticket EXCEPT ![r] = ticket[r]]
  BY RowsOK, PasscodeAssumption DEF TypeInv, TypeOK, CarriesOK, Copy
<1>1. ASSUME NEW k \in 0 .. MaxTicket, SetPasscode(r, k) PROVE TypeInv'
  <2>0. hashes < MaxHash /\ hashes' = hashes + 1
    BY <1>1 DEF SetPasscode
  <2>h. hashes + 1 \in 0 .. MaxHash
    BY <1>0, <2>0, PasscodeAssumption
  <2>1. Reset(Copy, hashes + 1) \in Rows /\ hashes' \in 0 .. MaxHash
    BY <1>0, <2>0, <2>h, RowsOK
  <2>2. /\ Save(r, "set", Reset(Copy, hashes + 1)) /\ "set" \in Goals
        /\ fresh' = [fresh EXCEPT ![r] = ~present] /\ ticket' = [ticket EXCEPT ![r] = k]
        /\ k \in known \cup {0} /\ SameRow /\ UNCHANGED tickets
    BY <1>1 DEF SetPasscode, SaveOrInsert, Reset, Goals, SameRow, rowVars, auxVars
  <2> QED
    BY <1>0, <2>1, <2>2, TypeSaves
<1>2. CASE UpdateIdleTimeout(r)
  <2>1. Save(r, "idle", record) /\ "idle" \in Goals /\ UNCHANGED <<fresh, ticket, hashes, tickets>> /\ SameRow
    BY <1>2 DEF UpdateIdleTimeout, Goals, SameRow, rowVars, madeVars, auxVars
  <2> QED
    BY <1>0, <2>1, TypeSaves
<1>3. CASE MintTicket(r)
  <2>1. /\ tickets + 1 \in 0 .. MaxTicket /\ tickets + 1 \in 1 .. tickets + 1
        /\ tickets <= tickets + 1 /\ tickets' = tickets + 1
    BY <1>0, <1>3, PasscodeAssumption DEF MintTicket
  <2>2. Ticketed(Copy, tickets + 1) \in Rows /\ Ticketed(Copy, tickets + 1).ticket = tickets + 1
    BY <1>0, <2>1, RowsOK
  <2>3. /\ Save(r, "mint", Ticketed(Copy, tickets + 1)) /\ "mint" \in Goals
        /\ fresh' = [fresh EXCEPT ![r] = ~present] /\ SameRow /\ UNCHANGED <<hashes, ticket>>
    BY <1>3 DEF MintTicket, SaveOrInsert, Ticketed, Goals, SameRow, rowVars, auxVars
  <2>4. /\ Ticketed(Copy, tickets + 1).ticket \in 1 .. tickets' /\ tickets' \in 0 .. MaxTicket
        /\ tickets <= tickets' /\ hashes' \in 0 .. MaxHash
        /\ ticket' = [ticket EXCEPT ![r] = ticket[r]]
    BY <1>0, <2>1, <2>2, <2>3
  <2>5. ticket[r] \in known \cup {0}
    BY <1>0
  <2> QED
    BY <2>2, <2>3, <2>4, <2>5, TypeSaves
<1>4. CASE Verify(r)
  <2>1. /\ Save(r, "right", Right(record)) \/ Save(r, "wrong", Wrong(record))
        /\ UNCHANGED <<fresh, ticket, hashes, tickets>> /\ SameRow
    BY <1>4 DEF Verify, SameRow, rowVars, madeVars, auxVars
  <2>2. Right(record) \in Rows /\ Wrong(record) \in Rows /\ "right" \in Goals /\ "wrong" \in Goals
    BY <1>0, RowsOK DEF Goals
  <2> QED
    BY <1>0, <2>1, <2>2, TypeSaves
<1>5. CASE Disable(r)
  <2>1. /\ outer' = [outer EXCEPT ![r] = record] /\ pc' = [pc EXCEPT ![r] = "verify"]
        /\ goal' = [goal EXCEPT ![r] = "disable"] /\ "disable" \in Goals
        /\ UNCHANGED <<present, record, hashes, tickets, known, spent, again, wrong, clock,
                       entity, fresh, ticket, cols>>
    BY <1>5 DEF Disable, Goto, For, Goals, rowVars, madeVars, auxVars
  <2>4. DOMAIN Blank = Columns
    BY DEF Blank, Columns
  <2>5. TypeOK'
    BY <1>0, <2>1, <2>4 DEF TypeInv, TypeOK
  <2>6. CarriesOK'
    BY <2>1 DEF TypeInv, TypeOK, CarriesOK
  <2> QED
    BY <2>5, <2>6 DEF TypeInv
<1>6. CASE DisableVerify(r)
  <2>1. UNCHANGED <<hashes, tickets>> /\ SameRow
    BY <1>6 DEF DisableVerify, SameRow, rowVars, madeVars, auxVars
  <2>2. CASE Finish(r)
    BY <1>0, <2>1, <2>2, TypeEnds DEF TypeInv, TypeOK, SameRow
  <2>3. ASSUME UNCHANGED <<fresh, ticket>>,
               \/ Save(r, "check", Right(record)) \/ Save(r, "wrong", Wrong(record))
               \/ Save(r, "disable", Disabled(outer[r]))
        PROVE  TypeInv'
    <3>1. /\ Right(record) \in Rows /\ Wrong(record) \in Rows /\ Disabled(outer[r]) \in Rows
          /\ "check" \in Goals /\ "wrong" \in Goals /\ "disable" \in Goals
      BY <1>0, RowsOK DEF Goals
    <3> QED
      BY <1>0, <2>1, <2>3, <3>1, TypeSaves
  <2> QED
    BY <1>6, <2>2, <2>3 DEF DisableVerify
<1>7. CASE LookUp(r)
  <2>1. /\ cols' = [cols EXCEPT ![r] = Changed(record, entity[r])]
        /\ pc' = [pc EXCEPT ![r] = "write"]
        /\ UNCHANGED <<present, record, hashes, tickets, known, spent, again, wrong, clock,
                       goal, entity, outer, fresh, ticket>>
    BY <1>7 DEF LookUp, Goto, rowVars, madeVars, auxVars
  <2>2. Changed(record, entity[r]) \in SUBSET Columns
    BY <1>0, RowsOK DEF Changed
  <2>4. DOMAIN Blank = Columns
    BY DEF Blank, Columns
  <2>5. TypeOK'
    BY <1>0, <2>1, <2>2, <2>4 DEF TypeInv, TypeOK
  <2>6. CarriesOK'
    BY <2>1 DEF TypeInv, TypeOK, CarriesOK
  <2> QED
    BY <2>5, <2>6 DEF TypeInv
<1>8. CASE Write(r)
  <2>1. record' \in Rows
    BY <1>0, <1>8, WrittenRows DEF Write
  <2> QED
    BY <1>8, <2>1, TypeAnswers DEF Write, madeVars, TypeInv, TypeOK
<1>9. CASE Insert(r)
  <2>1. CASE present' = TRUE /\ record' = entity[r] /\ Answer(r)
    BY <1>0, <1>9, <2>1, TypeAnswers DEF Insert, madeVars
  <2>2. CASE Finish(r) /\ UNCHANGED <<rowVars, known, auxVars>>
    BY <1>0, <1>9, <2>2, TypeEnds DEF Insert, madeVars, rowVars, auxVars, TypeInv, TypeOK
  <2> QED
    BY <1>9, <2>1, <2>2 DEF Insert
<1>10. CASE Abort(r)
  BY <1>0, <1>10, TypeEnds DEF Abort, madeVars, rowVars, auxVars, TypeInv, TypeOK
<1> QED
  BY <1>1, <1>2, <1>3, <1>4, <1>5, <1>6, <1>7, <1>8, <1>9, <1>10 DEF Step

LEMMA TypeInvInit == Init => TypeInv
<1> SUFFICES ASSUME Init PROVE TypeInv
  OBVIOUS
<1>1. Blank \in Rows /\ clock \in 0 .. MaxClock
  <2>1. 0 \in Times /\ 0 \in 0 .. MaxHash /\ 0 \in 0 .. MaxFailed - 1 /\ 0 \in 0 .. MaxTicket
    BY PasscodeAssumption DEF Times
  <2> QED
    BY <2>1, PasscodeAssumption DEF Init, Blank, Rows
<1>b. present \in BOOLEAN /\ alone \in BOOLEAN
  BY DEF Init
<1>2. record \in Rows /\ hashes \in 0 .. MaxHash /\ tickets \in 0 .. MaxTicket /\ wrong \in Nat
  BY <1>1, PasscodeAssumption DEF Init
<1>h. known \subseteq 1 .. tickets /\ spent \subseteq known /\ again \subseteq spent
  BY DEF Init
<1>3. /\ pc \in [Requests -> {"idle", "verify", "save", "write"}]
      /\ goal \in [Requests -> Goals]
      /\ entity \in [Requests -> Rows] /\ outer \in [Requests -> Rows]
      /\ fresh \in [Requests -> BOOLEAN]
      /\ cols \in [Requests -> SUBSET DOMAIN Blank]
  BY <1>1 DEF Init, Goals
<1>4. ticket \in [Requests -> 0 .. MaxTicket]
  BY PasscodeAssumption DEF Init
<1>5. TypeOK
  BY <1>1, <1>b, <1>2, <1>h, <1>3, <1>4 DEF TypeOK
<1>6. CarriesOK
  BY DEF Init, CarriesOK
<1> QED
  BY <1>5, <1>6 DEF TypeInv

LEMMA TypeInvStep == TypeInv /\ [Next]_vars => TypeInv'
<1> SUFFICES ASSUME TypeInv, [Next]_vars PROVE TypeInv'
  OBVIOUS
<1>1. ASSUME NEW r \in Requests, Step(r),
             alone' = (alone /\ \A q \in Requests \ {r} : pc[q] = "idle")
      PROVE  TypeInv'
  <2>1. alone' \in BOOLEAN
    BY <1>1
  <2> QED
    BY <1>1, <2>1, TypeStep
<1>2. CASE MinutePasses
  <2>1. clock' \in 0 .. MaxClock
    BY <1>2, PasscodeAssumption DEF MinutePasses, TypeInv, TypeOK
  <2> QED
    BY <1>2, <2>1
    DEF MinutePasses, TypeInv, TypeOK, CarriesOK, rowVars, madeVars, auxVars, localVars
<1>3. CASE UNCHANGED vars
  BY <1>3 DEF vars, TypeInv, TypeOK, CarriesOK, rowVars, madeVars, auxVars, localVars
<1> QED
  BY <1>1, <1>2, <1>3 DEF Next

\* However stale the copies are that are saved, the row stays well-formed:
\* failed_attempts never reaches the number that locks.
THEOREM PasscodesTyped == Spec => []TypeOK
<1>1. TypeInv => TypeOK
  BY DEF TypeInv
<1> QED
  BY <1>1, TypeInvInit, TypeInvStep, PTL DEF Spec
-----------------------------------------------------------------------------
(***************************************************************************)
(* One request at a time.  Between requests the row is sound, and so is    *)
(* the copy the running request is about to save.                          *)
(***************************************************************************)
Sound(e) == e.enabled => e.hash # 0

RowInv ==
  /\ Sound(record) /\ (~present => record = Blank)
  /\ wrong = record.failed
  /\ record.ticket \notin spent /\ again = {}

\* failed_attempts of a copy e, against the row it was read from.
FailedAs(g, e) ==
  /\ g \in {"idle", "mint"} => e.failed = record.failed
  /\ g = "wrong" => e.failed \in {0, record.failed + 1}
  /\ g \notin {"idle", "mint", "wrong"} => e.failed = 0

CopyInv(g, e) ==
  /\ Sound(e) /\ e.ticket \notin spent /\ FailedAs(g, e)
  /\ g = "set" => e.ticket = 0

OwnInv(r) ==
  /\ fresh[r] <=> ~present
  /\ goal[r] \notin {"set", "mint"} => present
  /\ pc[r] = "verify" => present /\ ticket[r] = 0
  /\ ticket[r] # 0 => goal[r] = "set" /\ ticket[r] \notin spent
  /\ pc[r] = "verify" \/ goal[r] = "check" => outer[r].ticket \notin spent
  /\ pc[r] \in {"save", "write"} => CopyInv(goal[r], entity[r])
  /\ pc[r] = "write" => present /\ cols[r] = Changed(record, entity[r])

AloneInv == alone => RowInv /\ \A r \in Requests : pc[r] # "idle" => OwnInv(r)

Others(r) == \A q \in Requests \ {r} : pc[q] = "idle"

LEMMA AloneMoves ==
  ASSUME TypeInv, NEW r \in Requests, Others(r), NEW l, pc' = [pc EXCEPT ![r] = l],
         RowInv', l # "idle" => OwnInv(r)'
  PROVE  AloneInv'
<1>1. \A q \in Requests : q # r => pc'[q] = "idle"
  BY DEF Others, TypeInv, TypeOK
<1>2. pc'[r] = l
  BY DEF TypeInv, TypeOK
<1>3. ASSUME NEW q \in Requests, pc'[q] # "idle" PROVE OwnInv(q)'
  BY <1>1, <1>2, <1>3
<1> QED
  BY <1>3 DEF AloneInv

\* A request that goes on to a save, of a copy that is sound.
LEMMA AloneSaves ==
  ASSUME TypeInv, NEW r \in Requests, Others(r), RowInv,
         NEW g \in Goals, NEW e \in Rows, Save(r, g, e),
         UNCHANGED <<present, record, spent, again, wrong>>,
         NEW f \in BOOLEAN, fresh' = [fresh EXCEPT ![r] = f], f <=> ~present,
         NEW k, ticket' = [ticket EXCEPT ![r] = k],
         k # 0 => g = "set" /\ k \notin spent,
         g \notin {"set", "mint"} => present,
         g = "check" => outer[r].ticket \notin spent,
         CopyInv(g, e)
  PROVE  AloneInv'
<1>1. RowInv'
  BY DEF RowInv, Sound, Blank
<1>2. /\ pc'[r] = "save" /\ goal'[r] = g /\ entity'[r] = e /\ outer'[r] = outer[r]
      /\ ticket'[r] = k
  BY DEF Save, Goto, For, TypeInv, TypeOK
<1>3. fresh'[r] <=> ~present
  BY DEF TypeInv, TypeOK
<1>4. CopyInv(goal[r], entity[r])'
  BY <1>2 DEF CopyInv, FailedAs, Sound
<1>5. OwnInv(r)'
  BY <1>2, <1>3, <1>4 DEF OwnInv
<1>6. pc' = [pc EXCEPT ![r] = "save"]
  BY DEF Save, Goto
<1> QED
  BY <1>1, <1>5, <1>6, AloneMoves

LEMMA AloneEnds ==
  ASSUME TypeInv, NEW r \in Requests, Others(r), Finish(r), RowInv'
  PROVE  AloneInv'
BY AloneMoves DEF Finish, Goto

\* The save of a sound copy over the row it was read from.
LEMMA AloneAnswers ==
  ASSUME TypeInv, TypeInv', NEW r \in Requests, Others(r), RowInv, OwnInv(r),
         pc[r] \in {"save", "write"}, Answer(r), record' = entity[r], present' = TRUE
  PROVE  AloneInv'
<1>1. CopyInv(goal[r], entity[r])
  BY DEF OwnInv
<1>2. spent' = spent \cup ({ticket[r]} \ {0}) /\ again' = again \cup (spent \cap {ticket[r]})
  BY DEF Answer
<1>3. 0 \notin spent'
  BY DEF TypeInv, TypeOK
<1>4. entity[r].ticket \notin spent' /\ again' = {}
  BY <1>1, <1>2, <1>3 DEF OwnInv, CopyInv, RowInv
<1>5. wrong' = entity[r].failed
  <2>1. /\ wrong' = CASE goal[r] \in {"idle", "mint"} -> wrong
                      [] goal[r] = "wrong" /\ entity[r].failed # 0
                           -> IF wrong = MaxFailed THEN wrong ELSE wrong + 1
                      [] OTHER -> 0
        /\ wrong = record.failed /\ FailedAs(goal[r], entity[r])
    BY <1>1 DEF Answer, RowInv, CopyInv
  <2>2. record.failed \in 0 .. MaxFailed - 1
    BY DEF TypeInv, TypeOK, Rows
  <2>3. record.failed # MaxFailed
    BY <2>2, PasscodeAssumption
  <2>4. CASE goal[r] \in {"idle", "mint"}
    BY <2>1, <2>4 DEF FailedAs
  <2>5. CASE goal[r] \notin {"idle", "mint"} /\ (goal[r] # "wrong" \/ entity[r].failed = 0)
    BY <2>1, <2>5 DEF FailedAs
  <2>6. CASE goal[r] = "wrong" /\ entity[r].failed # 0
    BY <2>1, <2>3, <2>6 DEF FailedAs
  <2> QED
    BY <2>4, <2>5, <2>6
<1>6. RowInv'
  BY <1>1, <1>4, <1>5 DEF RowInv, CopyInv, Sound
<1>7. CASE Finish(r)
  BY <1>6, <1>7, AloneEnds
<1>8. CASE goal[r] = "check" /\ AfterCheck(r)
  <2>1. /\ goal'[r] = "disable" /\ entity'[r] = Disabled(outer[r]) /\ fresh'[r] = fresh[r]
        /\ ticket'[r] = ticket[r] /\ pc'[r] = "save" /\ pc' = [pc EXCEPT ![r] = "save"]
    BY <1>8 DEF AfterCheck, Save, Goto, For, TypeInv, TypeOK
  <2>2. present /\ ~fresh[r] /\ ticket[r] = 0 /\ outer[r].ticket \notin spent
    BY <1>8 DEF OwnInv
  <2>3. spent' = spent
    BY <1>2, <2>2
  <2>4. /\ ~Disabled(outer[r]).enabled /\ Disabled(outer[r]).failed = 0
        /\ Disabled(outer[r]).ticket = outer[r].ticket
    BY DEF Disabled, TypeInv, TypeOK, Rows
  <2>5. CopyInv(goal[r], entity[r])'
    BY <2>1, <2>2, <2>3, <2>4 DEF CopyInv, FailedAs, Sound
  <2>6. OwnInv(r)'
    BY <2>1, <2>2, <2>5 DEF OwnInv
  <2> QED
    BY <1>6, <2>1, <2>6, AloneMoves
<1> QED
  BY <1>7, <1>8 DEF Answer

LEMMA AloneStep ==
  ASSUME TypeInv, TypeInv', NEW r \in Requests, Others(r), RowInv,
         pc[r] # "idle" => OwnInv(r), Step(r)
  PROVE  AloneInv'
<1>0. /\ record \in Rows /\ Blank \in Rows /\ Copy \in Rows /\ clock \in 0 .. MaxClock
      /\ entity[r] \in Rows /\ outer[r] \in Rows
      /\ hashes \in 0 .. MaxHash /\ tickets \in 0 .. MaxTicket
      /\ fresh = [fresh EXCEPT ![r] = fresh[r]] /\ ticket = [ticket EXCEPT ![r] = ticket[r]]
  BY RowsOK, PasscodeAssumption DEF TypeInv, TypeOK, Copy
<1>f. fresh[r] \in BOOLEAN
  BY DEF TypeInv, TypeOK
<1>i. ASSUME pc[r] = "idle" PROVE ticket[r] = 0 /\ ~fresh[r]
  BY <1>i DEF TypeInv, CarriesOK
<1>c. Copy = record
  BY DEF Copy, RowInv
<1>d. ASSUME NEW e \in Rows
      PROVE  /\ Right(e).enabled = e.enabled /\ Right(e).hash = e.hash
             /\ Right(e).ticket = e.ticket /\ Right(e).failed = 0
             /\ Wrong(e).enabled = e.enabled /\ Wrong(e).hash = e.hash
             /\ Wrong(e).ticket = e.ticket /\ Wrong(e).failed \in {0, e.failed + 1}
             /\ ~Disabled(e).enabled /\ Disabled(e).ticket = e.ticket
             /\ Disabled(e).failed = 0
  BY DEF Right, Wrong, Disabled, Rows
<1>s. 0 \notin spent /\ tickets + 1 \notin spent
  BY PasscodeAssumption DEF TypeInv, TypeOK
<1>r. ASSUME UNCHANGED <<present, record, spent, again, wrong>> PROVE RowInv'
  BY <1>r DEF RowInv, Sound, Blank
<1>1. ASSUME NEW k \in 0 .. MaxTicket, SetPasscode(r, k) PROVE AloneInv'
  <2>1. hashes < MaxHash /\ (k = 0 \/ record.ticket = k)
    BY <1>1, <1>c DEF SetPasscode, Redeems
  <2>2. /\ Reset(Copy, hashes + 1).hash = hashes + 1 /\ Reset(Copy, hashes + 1).failed = 0
        /\ Reset(Copy, hashes + 1).ticket = 0
    BY <1>0 DEF Reset, Rows
  <2>3. hashes + 1 \in 0 .. MaxHash /\ hashes + 1 # 0
    BY <1>0, <2>1, PasscodeAssumption
  <2>4. CopyInv("set", Reset(Copy, hashes + 1)) /\ Reset(Copy, hashes + 1) \in Rows
    BY <1>0, <1>s, <2>2, <2>3, RowsOK DEF CopyInv, FailedAs, Sound
  <2>5. /\ Save(r, "set", Reset(Copy, hashes + 1)) /\ "set" \in Goals
        /\ fresh' = [fresh EXCEPT ![r] = ~present] /\ ticket' = [ticket EXCEPT ![r] = k]
        /\ UNCHANGED <<present, record, spent, again, wrong>>
    BY <1>1 DEF SetPasscode, SaveOrInsert, Reset, Goals, rowVars, auxVars
  <2>6. k # 0 => k \notin spent
    BY <2>1 DEF RowInv
  <2> QED
    BY <2>4, <2>5, <2>6, AloneSaves
<1>2. CASE UpdateIdleTimeout(r)
  <2>1. /\ pc[r] = "idle" /\ present /\ Save(r, "idle", record) /\ "idle" \in Goals
        /\ UNCHANGED <<present, record, spent, again, wrong, fresh, ticket>>
    BY <1>2 DEF UpdateIdleTimeout, Goals, rowVars, auxVars
  <2>2. CopyInv("idle", record)
    BY DEF CopyInv, FailedAs, RowInv
  <2> QED
    BY <1>0, <1>f, <1>i, <2>1, <2>2, AloneSaves
<1>3. CASE MintTicket(r)
  <2>1. tickets + 1 \in 0 .. MaxTicket /\ pc[r] = "idle"
    BY <1>0, <1>3, PasscodeAssumption DEF MintTicket
  <2>2. /\ Ticketed(Copy, tickets + 1).ticket = tickets + 1
        /\ Ticketed(Copy, tickets + 1).failed = Copy.failed
        /\ Ticketed(Copy, tickets + 1).hash = Copy.hash
        /\ Ticketed(Copy, tickets + 1).enabled = Copy.enabled
    BY <1>0 DEF Ticketed, Rows
  <2>3. CopyInv("mint", Ticketed(Copy, tickets + 1)) /\ Ticketed(Copy, tickets + 1) \in Rows
    BY <1>0, <1>c, <1>s, <2>1, <2>2, RowsOK DEF CopyInv, FailedAs, Sound, RowInv
  <2>4. /\ Save(r, "mint", Ticketed(Copy, tickets + 1)) /\ "mint" \in Goals
        /\ fresh' = [fresh EXCEPT ![r] = ~present]
        /\ UNCHANGED <<present, record, spent, again, wrong, ticket>>
    BY <1>3 DEF MintTicket, SaveOrInsert, Ticketed, Goals, rowVars, auxVars
  <2>5. ticket' = [ticket EXCEPT ![r] = ticket[r]] /\ ticket[r] = 0
    BY <1>0, <1>i, <2>1, <2>4
  <2> QED
    BY <2>3, <2>4, <2>5, AloneSaves
<1>4. CASE Verify(r)
  <2>1. /\ pc[r] = "idle" /\ present
        /\ Save(r, "right", Right(record)) \/ Save(r, "wrong", Wrong(record))
        /\ UNCHANGED <<present, record, spent, again, wrong, fresh, ticket>>
    BY <1>4 DEF Verify, rowVars, auxVars
  <2>2. /\ CopyInv("right", Right(record)) /\ CopyInv("wrong", Wrong(record))
        /\ Right(record) \in Rows /\ Wrong(record) \in Rows
        /\ "right" \in Goals /\ "wrong" \in Goals
    BY <1>0, <1>d, RowsOK DEF CopyInv, FailedAs, Sound, RowInv, Goals
  <2> QED
    BY <1>0, <1>f, <1>i, <2>1, <2>2, AloneSaves
<1>5. CASE Disable(r)
  <2>1. /\ pc[r] = "idle" /\ present /\ outer'[r] = record /\ goal'[r] = "disable"
        /\ pc'[r] = "verify" /\ pc' = [pc EXCEPT ![r] = "verify"]
        /\ UNCHANGED <<present, record, spent, again, wrong, fresh, ticket>>
    BY <1>5 DEF Disable, Goto, For, rowVars, auxVars, TypeInv, TypeOK
  <2>2. OwnInv(r)'
    BY <1>i, <2>1 DEF OwnInv, RowInv
  <2> QED
    BY <1>r, <2>1, <2>2, AloneMoves
<1>6. CASE DisableVerify(r)
  <2>1. UNCHANGED <<present, record, spent, again, wrong>> /\ pc[r] = "verify"
    BY <1>6 DEF DisableVerify, rowVars, auxVars
  <2>2. OwnInv(r)
    BY <2>1
  <2>3. CASE Finish(r)
    BY <1>r, <2>1, <2>3, AloneEnds
  <2>4. ASSUME UNCHANGED <<fresh, ticket>>,
               \/ Save(r, "check", Right(record)) \/ Save(r, "wrong", Wrong(record))
               \/ Save(r, "disable", Disabled(outer[r]))
        PROVE  AloneInv'
    <3>1. /\ CopyInv("check", Right(record)) /\ CopyInv("wrong", Wrong(record))
          /\ CopyInv("disable", Disabled(outer[r]))
      BY <1>0, <1>d, <2>1, <2>2 DEF CopyInv, FailedAs, Sound, RowInv, OwnInv
    <3>2. /\ Right(record) \in Rows /\ Wrong(record) \in Rows /\ Disabled(outer[r]) \in Rows
          /\ "check" \in Goals /\ "wrong" \in Goals /\ "disable" \in Goals
      BY <1>0, RowsOK DEF Goals
    <3>3. /\ (fresh[r] <=> ~present) /\ present /\ ticket[r] = 0
          /\ outer[r].ticket \notin spent
      BY <2>1, <2>2 DEF OwnInv
    <3> QED
      <4>1. /\ fresh' = [fresh EXCEPT ![r] = fresh[r]]
            /\ ticket' = [ticket EXCEPT ![r] = ticket[r]]
        BY <1>0, <2>4
      <4>2. CASE Save(r, "check", Right(record))
        BY <1>f, <2>1, <3>1, <3>2, <3>3, <4>1, <4>2, AloneSaves
      <4>3. CASE Save(r, "wrong", Wrong(record))
        BY <1>f, <2>1, <3>1, <3>2, <3>3, <4>1, <4>3, AloneSaves
      <4>4. CASE Save(r, "disable", Disabled(outer[r]))
        BY <1>f, <2>1, <3>1, <3>2, <3>3, <4>1, <4>4, AloneSaves
      <4> QED
        BY <2>4, <4>2, <4>3, <4>4
  <2> QED
    BY <1>6, <2>3, <2>4 DEF DisableVerify
<1>7. CASE LookUp(r)
  <2>1. /\ pc[r] = "save" /\ ~fresh[r] /\ cols'[r] = Changed(record, entity[r])
        /\ pc'[r] = "write" /\ pc' = [pc EXCEPT ![r] = "write"]
        /\ UNCHANGED <<present, record, spent, again, wrong, goal, entity, outer, fresh, ticket>>
    BY <1>7 DEF LookUp, Goto, rowVars, auxVars, TypeInv, TypeOK
  <2>2. CopyInv(goal[r], entity[r])'
    BY <2>1 DEF OwnInv, CopyInv, FailedAs, Sound
  <2>3. Changed(record, entity[r])' = Changed(record, entity[r])
    BY <2>1 DEF Changed
  <2>4. OwnInv(r)'
    BY <2>1, <2>2, <2>3 DEF OwnInv
  <2> QED
    BY <1>r, <2>1, <2>4, AloneMoves
<1>8. CASE Write(r)
  <2>1. pc[r] = "write" /\ OwnInv(r) /\ UNCHANGED present /\ Answer(r)
    BY <1>8 DEF Write
  <2>2. present /\ cols[r] = Changed(record, entity[r])
    BY <2>1 DEF OwnInv
  <2>3. record' = entity[r]
    BY <1>0, <1>8, <2>2, WrittenRows DEF Write
  <2>4. present' = TRUE
    BY <2>1, <2>2 DEF TypeInv, TypeOK
  <2> QED
    BY <2>1, <2>3, <2>4, AloneAnswers
<1>9. CASE Insert(r)
  <2>1. pc[r] = "save" /\ OwnInv(r)
    BY <1>9 DEF Insert
  <2>2. CASE present' = TRUE /\ record' = entity[r] /\ Answer(r)
    BY <2>1, <2>2, AloneAnswers
  <2>3. CASE Finish(r) /\ UNCHANGED <<rowVars, known, auxVars>>
    BY <1>r, <2>3, AloneEnds DEF rowVars, auxVars
  <2> QED
    BY <1>9, <2>2, <2>3 DEF Insert
<1>10. CASE Abort(r)
  BY <1>r, <1>10, AloneEnds DEF Abort, rowVars, auxVars
<1> QED
  BY <1>1, <1>2, <1>3, <1>4, <1>5, <1>6, <1>7, <1>8, <1>9, <1>10 DEF Step

LEMMA AloneInvStep == TypeInv /\ AloneInv /\ [Next]_vars => AloneInv'
<1> SUFFICES ASSUME TypeInv, AloneInv, [Next]_vars PROVE AloneInv'
  OBVIOUS
<1>t. TypeInv'
  BY TypeInvStep
<1>1. ASSUME NEW r \in Requests, Step(r), alone' = (alone /\ Others(r)), alone' PROVE AloneInv'
  <2>1. Others(r) /\ RowInv /\ (pc[r] # "idle" => OwnInv(r))
    BY <1>1 DEF AloneInv
  <2> QED
    BY <1>1, <1>t, <2>1, AloneStep
<1>2. ASSUME ~alone' PROVE AloneInv'
  BY <1>2 DEF AloneInv
<1>3. ASSUME UNCHANGED <<rowVars, auxVars, alone, localVars>> PROVE AloneInv'
  BY <1>3 DEF AloneInv, RowInv, OwnInv, CopyInv, FailedAs, Sound, Changed, Blank,
              rowVars, auxVars, localVars
<1>4. CASE MinutePasses \/ UNCHANGED vars
  BY <1>3, <1>4 DEF MinutePasses, vars
<1> QED
  BY <1>1, <1>2, <1>4 DEF Next, Others

LEMMA AloneInvInit == Init => AloneInv
BY DEF Init, AloneInv, RowInv, Sound, Blank

LEMMA AloneInvariant == Spec => [](TypeInv /\ AloneInv)
<1>1. TypeInv /\ AloneInv /\ [Next]_vars => (TypeInv /\ AloneInv)'
  BY TypeInvStep, AloneInvStep
<1> QED
  BY <1>1, TypeInvInit, AloneInvInit, PTL DEF Spec

\* EnabledHasHash for any number of requests: one after the other, the handlers
\* never leave a passcode enabled without its hash, whichever of them fail.
THEOREM EnabledKeepsHash == Spec => []EnabledHasHash
<1>1. AloneInv => EnabledHasHash
  BY DEF AloneInv, RowInv, Sound, EnabledHasHash
<1> QED
  BY <1>1, AloneInvariant, PTL

\* LockedWhileAlone for every value of MAX_FAILED_ATTEMPTS: failed_attempts is
\* the number of wrong attempts that were answered.
THEOREM LocksInTime == Spec => []LockedWhileAlone
<1>1. TypeInv /\ AloneInv => LockedWhileAlone
  <2> SUFFICES ASSUME TypeInv, AloneInv, alone PROVE wrong < MaxFailed
    BY DEF LockedWhileAlone
  <2>1. wrong = record.failed /\ record.failed \in 0 .. MaxFailed - 1
    BY DEF AloneInv, RowInv, TypeInv, TypeOK, Rows
  <2> QED
    BY <2>1, PasscodeAssumption
<1> QED
  BY <1>1, AloneInvariant, PTL

\* TicketOnce for any number of tickets: what a passcode was set with is cleared
\* by the save that sets it, so a ticket that is still stored was not spent.
THEOREM TicketSpentOnce == Spec => []TicketOnce
<1>1. AloneInv => TicketOnce
  BY DEF AloneInv, RowInv, TicketOnce
<1> QED
  BY <1>1, AloneInvariant, PTL
=============================================================================
