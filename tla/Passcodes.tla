------------------------------ MODULE Passcodes ------------------------------
(***************************************************************************)
(* The local passcode of one user, a row of user_passcode:                 *)
(*   api/src/app/resources/1-account/2-profile/2-passcode/                 *)
(*     passcode.service.ts                                                 *)
(*                                                                         *)
(* Each awaited SQL statement is one action.  Every handler reads the row, *)
(* edits the entity and saves the whole of it (RowSave).  A passcode that  *)
(* is set is hashed with a fresh salt: a hash is known by the number of    *)
(* the setPasscode call that made it, and an attempt matches it or does    *)
(* not.  The column idle_timeout_minutes is left out, the save that        *)
(* updates it is not.  The code that was mailed before verifyResetOtp is   *)
(* a row of OtpChallenges.                                                 *)
(***************************************************************************)
EXTENDS Naturals, RowSave

CONSTANTS
  Requests,    \* request executions; a slot is reused when it is answered
  MaxFailed,   \* MAX_FAILED_ATTEMPTS
  Lockout,     \* LOCKOUT_MINUTES
  TicketLife,  \* minutes a reset ticket is valid
  MaxHash,     \* bound: passcodes that may be set
  MaxTicket,   \* bound: reset tickets that may be minted
  MaxClock     \* bound: minutes that may pass

ASSUME PasscodeAssumption ==
  /\ MaxFailed \in Nat \ {0} /\ Lockout \in Nat \ {0} /\ TicketLife \in Nat \ {0}
  /\ MaxHash \in Nat /\ MaxTicket \in Nat /\ MaxClock \in Nat

VARIABLES
  present,  \* the user has a row
  record,   \* the row
  hashes,   \* passcodes set so far
  tickets,  \* tickets minted so far
  known,    \* tickets a client has received
  spent,    \* auxiliary: tickets a passcode was set with
  again,    \* auxiliary: those a second passcode was set with
  wrong,    \* auxiliary: wrong attempts answered since the last lockout,
            \* right attempt or new passcode
  alone,    \* auxiliary: no two requests have been running at once so far
  clock,    \* the current minute
  pc,       \* next statement of each request
  goal,     \* what the request is for
  entity,   \* its copy of the row, edited
  outer,    \* disable: the copy read before verify was called
  fresh,    \* the copy is not of a row, save() will INSERT it
  ticket,   \* reset_token of the request, 0 for none
  cols      \* columns its save() is about to write

rowVars   == <<present, record>>
madeVars  == <<hashes, tickets>>
auxVars   == <<spent, again, wrong>>
localVars == <<pc, goal, entity, outer, fresh, ticket, cols>>
vars == <<rowVars, madeVars, known, auxVars, alone, clock, localVars>>

Times == 0 .. MaxClock + Lockout + TicketLife
Rows  == [enabled: BOOLEAN, hash: 0 .. MaxHash, failed: 0 .. MaxFailed - 1,
          locked: Times, ticket: 0 .. MaxTicket, until: Times]
Blank == [enabled |-> FALSE, hash |-> 0, failed |-> 0, locked |-> 0,
          ticket |-> 0, until |-> 0]
Goals == {"none", "set", "idle", "right", "wrong", "mint", "check", "disable"}

\* In particular failed_attempts never reaches the number that locks.
TypeOK ==
  /\ present \in BOOLEAN /\ record \in Rows
  /\ hashes \in 0 .. MaxHash /\ tickets \in 0 .. MaxTicket
  /\ known \subseteq 1 .. tickets /\ spent \subseteq known /\ again \subseteq spent
  /\ wrong \in Nat /\ alone \in BOOLEAN /\ clock \in 0 .. MaxClock
  /\ pc \in [Requests -> {"idle", "verify", "save", "write"}]
  /\ goal \in [Requests -> Goals]
  /\ entity \in [Requests -> Rows] /\ outer \in [Requests -> Rows]
  /\ fresh \in [Requests -> BOOLEAN] /\ ticket \in [Requests -> 0 .. MaxTicket]
  /\ cols \in [Requests -> SUBSET DOMAIN Blank]

Init ==
  /\ present = FALSE /\ record = Blank
  /\ hashes = 0 /\ tickets = 0 /\ known = {}
  /\ spent = {} /\ again = {} /\ wrong = 0 /\ alone = TRUE /\ clock = 0
  /\ pc = [r \in Requests |-> "idle"]
  /\ goal = [r \in Requests |-> "none"]
  /\ entity = [r \in Requests |-> Blank] /\ outer = [r \in Requests |-> Blank]
  /\ fresh = [r \in Requests |-> FALSE] /\ ticket = [r \in Requests |-> 0]
  /\ cols = [r \in Requests |-> {}]

-----------------------------------------------------------------------------
Goto(r, label) == pc' = [pc EXCEPT ![r] = label]
For(r, g)      == goal' = [goal EXCEPT ![r] = g]
Copy           == IF present THEN record ELSE Blank

\* The handler returns or throws.
Finish(r) ==
  /\ Goto(r, "idle") /\ For(r, "none")
  /\ entity' = [entity EXCEPT ![r] = Blank]
  /\ outer' = [outer EXCEPT ![r] = Blank]
  /\ fresh' = [fresh EXCEPT ![r] = FALSE]
  /\ ticket' = [ticket EXCEPT ![r] = 0]
  /\ cols' = [cols EXCEPT ![r] = {}]

\* The handler goes on to save(e).
Save(r, g, e) ==
  /\ Goto(r, "save") /\ For(r, g)
  /\ entity' = [entity EXCEPT ![r] = e]
  /\ UNCHANGED <<outer, cols>>

\* getOrCreate before it: without a row the copy is new.
SaveOrInsert(r, g, e) ==
  /\ Save(r, g, e)
  /\ fresh' = [fresh EXCEPT ![r] = ~present]

-----------------------------------------------------------------------------
\* redeemResetTicket, for a request with reset_token k.
Redeems(e, k) == e.ticket = k /\ ~(e.until < clock)

\* Fault: the ticket is not cleared with the save of the new passcode.
SetPasscodeKeepingTicket(r, k) ==
  /\ pc[r] = "idle" /\ k \in known \cup {0}
  /\ k = 0 \/ Redeems(Copy, k)
  /\ hashes < MaxHash /\ hashes' = hashes + 1
  /\ SaveOrInsert(r, "set", [Copy EXCEPT !.enabled = TRUE, !.hash = hashes + 1,
                                         !.failed = 0, !.locked = 0])
  /\ ticket' = [ticket EXCEPT ![r] = k]
  /\ UNCHANGED <<rowVars, tickets, known, auxVars, clock>>

\* setPasscode, findOne and what is done with the copy; k is 0 when the caller
\* is logged in and needs no ticket.
SetPasscode(r, k) ==
  /\ pc[r] = "idle" /\ k \in known \cup {0}
  /\ k = 0 \/ Redeems(Copy, k)
  /\ hashes < MaxHash /\ hashes' = hashes + 1
  /\ SaveOrInsert(r, "set", [Copy EXCEPT !.enabled = TRUE, !.hash = hashes + 1,
                                         !.failed = 0, !.locked = 0,
                                         !.ticket = 0, !.until = 0])
  /\ ticket' = [ticket EXCEPT ![r] = k]
  /\ UNCHANGED <<rowVars, tickets, known, auxVars, clock>>

\* updateIdleTimeout.
UpdateIdleTimeout(r) ==
  /\ pc[r] = "idle" /\ present /\ record.enabled
  /\ Save(r, "idle", record)
  /\ UNCHANGED <<rowVars, madeVars, known, auxVars, clock, fresh, ticket>>

\* Fault: the ticket is derived from the user and not drawn anew.
MintSameTicket(r) ==
  /\ pc[r] = "idle"
  /\ MaxTicket > 0 /\ tickets' = 1
  /\ SaveOrInsert(r, "mint", [Copy EXCEPT !.ticket = 1, !.until = clock + TicketLife])
  /\ UNCHANGED <<rowVars, hashes, known, auxVars, clock, ticket>>

\* verifyResetOtp, once the code was verified.
MintTicket(r) ==
  /\ pc[r] = "idle"
  /\ tickets < MaxTicket /\ tickets' = tickets + 1
  /\ SaveOrInsert(r, "mint", [Copy EXCEPT !.ticket = tickets + 1,
                                          !.until = clock + TicketLife])
  /\ UNCHANGED <<rowVars, hashes, known, auxVars, clock, ticket>>

-----------------------------------------------------------------------------
Guarded(e) == e.enabled /\ e.hash # 0
Barred(e)  == e.locked > clock

Right(e) == [e EXCEPT !.failed = 0, !.locked = 0]

\* Fault: the lockout starts one attempt late, and failed_attempts is not reset.
WrongUncounted(e) ==
  IF e.failed + 1 > MaxFailed
  THEN [e EXCEPT !.locked = clock + Lockout] ELSE [e EXCEPT !.failed = @ + 1]

Wrong(e) ==
  IF e.failed + 1 >= MaxFailed
  THEN [e EXCEPT !.failed = 0, !.locked = clock + Lockout]
  ELSE [e EXCEPT !.failed = @ + 1]

\* verify; without a passcode every attempt is valid and nothing is saved.
Verify(r) ==
  /\ pc[r] = "idle" /\ present /\ Guarded(record) /\ ~Barred(record)
  /\ Save(r, "right", Right(record)) \/ Save(r, "wrong", Wrong(record))
  /\ UNCHANGED <<rowVars, madeVars, known, auxVars, clock, fresh, ticket>>

\* Fault: the hash goes first, the switch is left to the answer.
DisabledHalf(e) == [e EXCEPT !.hash = 0, !.failed = 0, !.locked = 0]

Disabled(e) == [e EXCEPT !.enabled = FALSE, !.hash = 0, !.failed = 0, !.locked = 0]

\* disable reads the row,
Disable(r) ==
  /\ pc[r] = "idle" /\ present /\ record.enabled
  /\ outer' = [outer EXCEPT ![r] = record]
  /\ Goto(r, "verify") /\ For(r, "disable")
  /\ UNCHANGED <<rowVars, madeVars, known, auxVars, clock, entity, fresh,
                 ticket, cols>>

\* calls verify, which reads it again and saves its own copy,
DisableVerify(r) ==
  /\ pc[r] = "verify"
  /\ \/ Guarded(record) /\ Barred(record) /\ Finish(r)
     \/ /\ \/ /\ Guarded(record) /\ ~Barred(record)
              /\ Save(r, "check", Right(record)) \/ Save(r, "wrong", Wrong(record))
           \/ ~Guarded(record) /\ Save(r, "disable", Disabled(outer[r]))
        /\ UNCHANGED <<fresh, ticket>>
  /\ UNCHANGED <<rowVars, madeVars, known, auxVars, clock>>

\* and saves the copy it had read first.
AfterCheck(r) ==
  /\ Save(r, "disable", Disabled(outer[r]))
  /\ UNCHANGED <<fresh, ticket>>

-----------------------------------------------------------------------------
\* save(), SELECT.
LookUp(r) ==
  /\ pc[r] = "save" /\ ~fresh[r]
  /\ cols' = [cols EXCEPT ![r] = Changed(record, entity[r])]
  /\ Goto(r, "write")
  /\ UNCHANGED <<rowVars, madeVars, known, auxVars, clock, goal, entity, outer,
                 fresh, ticket>>

\* What follows a save: the answer, and what it means to the client.
Answer(r) ==
  /\ \/ goal[r] = "check" /\ AfterCheck(r)
     \/ goal[r] # "check" /\ Finish(r)
  /\ known' = IF goal[r] = "mint" THEN known \cup {entity[r].ticket} ELSE known
  /\ spent' = spent \cup ({ticket[r]} \ {0})
  /\ again' = again \cup (spent \cap {ticket[r]})
  /\ wrong' = CASE goal[r] \in {"idle", "mint"} -> wrong
                [] goal[r] = "wrong" /\ entity[r].failed # 0
                     -> IF wrong = MaxFailed THEN wrong ELSE wrong + 1
                [] OTHER -> 0

\* save(), UPDATE.
Write(r) ==
  /\ pc[r] = "write"
  /\ record' = Written(record, entity[r], cols[r])
  /\ Answer(r)
  /\ UNCHANGED <<present, madeVars, clock>>

\* save() of a new entity, INSERT; user_id is unique.
Insert(r) ==
  /\ pc[r] = "save" /\ fresh[r]
  /\ \/ ~present /\ present' = TRUE /\ record' = entity[r] /\ Answer(r)
     \/ present /\ Finish(r) /\ UNCHANGED <<rowVars, known, auxVars>>
  /\ UNCHANGED <<madeVars, clock>>

\* A statement fails or the process stops; what was written stays written.
Abort(r) ==
  /\ pc[r] # "idle"
  /\ Finish(r)
  /\ UNCHANGED <<rowVars, madeVars, known, auxVars, clock>>

MinutePasses ==
  /\ clock < MaxClock
  /\ clock' = clock + 1
  /\ UNCHANGED <<rowVars, madeVars, known, auxVars, alone, localVars>>

Step(r) ==
  \/ \E k \in 0 .. MaxTicket : SetPasscode(r, k)
  \/ UpdateIdleTimeout(r) \/ MintTicket(r) \/ Verify(r)
  \/ Disable(r) \/ DisableVerify(r)
  \/ LookUp(r) \/ Write(r) \/ Insert(r) \/ Abort(r)

Next ==
  \/ \E r \in Requests :
       /\ Step(r)
       /\ alone' = (alone /\ \A q \in Requests \ {r} : pc[q] = "idle")
  \/ MinutePasses

Spec == Init /\ [][Next]_vars

-----------------------------------------------------------------------------
(***************************************************************************)
(* Properties                                                              *)
(***************************************************************************)

\* A passcode or reset ticket that is neither stored any more nor in the copy
\* of a running request never comes back, whatever handlers follow.
Held(col) == {record[col]} \cup {entity[r][col] : r \in Requests}
                           \cup {outer[r][col] : r \in Requests}
GoneForGood ==
  [][/\ \A h \in 1 .. hashes : h \notin Held("hash") => h \notin Held("hash")'
     /\ \A k \in 1 .. tickets : k \notin Held("ticket") => k \notin Held("ticket")']_vars

\* An enabled passcode has a hash, as long as no two requests overlap: without
\* one verify calls any attempt valid while the client still locks its screen.
EnabledHasHash == alone => (record.enabled => record.hash # 0)

\* "5 wrong attempts locks verification out": of MaxFailed wrong attempts that
\* are answered in a row, the last one starts the lockout, as long as no two
\* requests overlap.
LockedWhileAlone == alone => wrong < MaxFailed

\* "mints a short-lived, single-use reset_token": a ticket sets one passcode, as
\* long as no two requests overlap, and whichever of them fail.
TicketOnce == alone => again = {}

=============================================================================
