--------------------------- MODULE PlanStoreProofs ---------------------------
(***************************************************************************)
(* The store of the plans, for any number of requests, plans, phases,      *)
(* objects, lists and restarts.  Whatever runs side by side: the store     *)
(* stays well-formed, and a plan whose creation was answered has a row.    *)
(* While calls run one at a time and list and table were not parted: when  *)
(* nothing runs the rows are the plans the process shows, and the phases   *)
(* in the table are of these plans and were created for them.              *)
(***************************************************************************)
EXTENDS PlanStore, FiniteSetTheorems, SequenceTheorems, TLAPS

Walks == {"pick", "select", "write"}
Ends  == {"blob", "own", "ownwrite", "drop", "dropphases", "addphase", "dropphase"}
ForPlan == {"create", "update", "delete", "add", "remove"}

\* A row names the plan that was created with the id.
Names(named, i, row) == row.born \in DOMAIN named /\ named[row.born] = i

\* Plans that need no further save: their id has a row, or was deleted since, or
\* a failed statement excuses them.
Safe == {b \in DOMAIN ids : failed \/ b \in gone \/ ids[b] \in Stored}

\* Objects whose id belongs to plans that are gone.
Doomed == {o \in DOMAIN objects : \A b \in DOMAIN ids : ids[b] = objects[o].id => b \in gone}

\* What the next statements of a call need: the list it walks, the object and
\* the phase it works for, the row it saves; what a deletion is to drop is gone,
\* and a creation whose SELECT found the row is safe.
CallOK(c, lists, objs, named, safe, doomed) ==
  /\ c \in CallStates
  /\ c.at \in Walks => c.arr \in DOMAIN lists /\ c.idx # 0 /\ c.job # "none"
  /\ c.at = "blob" => c.job \notin {"none", "seed"}
  /\ c.at \in {"own", "ownwrite"} => c.job \in {"create", "update"}
  /\ c.at \in {"drop", "dropphases"} => c.job = "delete"
  /\ c.at = "addphase" => c.job = "add"
  /\ c.at = "dropphase" => c.job = "remove"
  /\ c.at \notin Walks \cup Ends \cup {"lookup"} => c.job = "none"
  /\ c.at # "lookup" /\ c.job \in ForPlan => c.obj \in DOMAIN objs
  /\ c.job \in {"add", "remove"} => c.phase \in Phases
  /\ c.at = "lookup" => c.job = "create"
  /\ c.at \in {"select", "write", "ownwrite"} =>
       c.id \in Ids /\ c.row \in Row /\ Names(named, c.id, c.row)
  /\ c.at = "phases" => \A i \in StoredIn(c.got) : Names(named, i, c.got[i])
  /\ c.job = "delete" => c.obj \in doomed
  /\ c.at = "ownwrite" /\ c.job = "create" /\ c.found # NoRow => c.row.born \in safe

CallsOK == \A p \in Calls : CallOK(call[p], arrays, objects, ids, Safe, Doomed)

NamesOK ==
  /\ \A o \in DOMAIN objects : Names(ids, objects[o].id, objects[o].row)
  /\ \A i \in Stored : Names(ids, i, rows[i])
  /\ \A k \in DOMAIN blob : Names(ids, blob[k].id, blob[k].row)

MemOK == objects \in Seq(Plan) /\ arrays \in Seq(Seq(DOMAIN objects)) /\ arrays # << >>

DbOK ==
  /\ rows \in [Ids -> Row \cup {NoRow}]
  /\ phaseRows \subseteq [phase : Phases, id : Ids] /\ blob \in Seq(Plan)

IdsOK == ids \in Seq(Ids) /\ Len(ids) <= MaxPlan

SeenOK ==
  /\ phased \in [Born -> 0 .. MaxPhase]
  /\ created \subseteq DOMAIN ids /\ gone \subseteq DOMAIN ids /\ parted \in BOOLEAN

FlagsOK ==
  /\ loaded \in BOOLEAN /\ begun \in 0 .. MaxBegun
  /\ alone \in BOOLEAN /\ failed \in BOOLEAN /\ cut \in BOOLEAN /\ faults \in 0 .. MaxFaults

Inv ==
  /\ MemOK /\ DbOK /\ IdsOK /\ SeenOK /\ FlagsOK
  /\ call \in [Calls -> CallStates] /\ CallsOK
  /\ NamesOK /\ created \subseteq Safe

-----------------------------------------------------------------------------
(***************************************************************************)
(* The states of a call.                                                   *)
(***************************************************************************)
LEMMA Bounds ==
  /\ MaxId \in Nat /\ 1 \in Ids /\ Ids \subseteq Nat /\ 0 \notin Ids
  /\ MaxPlan \in Nat /\ 1 \in Born /\ Born \subseteq Nat /\ 0 \notin Born
  /\ MaxPhase \in Nat /\ MaxBegun \in Nat /\ MaxFaults \in Nat
  /\ MaxVersion \in Nat /\ 1 \in 1 .. MaxVersion
  /\ NoRow \notin Row
BY BoundAssumption DEF Ids, Born, Row, NoRow

LEMMA RestsOK ==
  ASSUME NEW lists, NEW objs, NEW named, NEW safe, NEW doomed
  PROVE  /\ CallOK(Idle, lists, objs, named, safe, doomed)
         /\ CallOK(Loading, lists, objs, named, safe, doomed)
         /\ CallOK(Acting, lists, objs, named, safe, doomed)
<1>1. Nothing \in [Ids -> Row \cup {NoRow}]
  BY DEF Nothing
<1> QED
  BY <1>1 DEF CallOK, Idle, Loading, Acting, CallStates, Labels, Jobs, Walks, Ends, ForPlan

LEMMA IdleTyped == Idle \in CallStates
<1>1. Nothing \in [Ids -> Row \cup {NoRow}]
  BY DEF Nothing
<1> QED
  BY <1>1 DEF Idle, CallStates, Labels, Jobs

LEMMA WalkForOK ==
  ASSUME NEW lists, NEW objs, NEW named, NEW safe, NEW doomed,
         NEW j \in Jobs \ {"none"}, NEW n \in Nat, n \in DOMAIN lists, NEW o \in Nat,
         NEW f \in Phases \cup {NoPhase},
         j \in ForPlan => o \in DOMAIN objs, j \in {"add", "remove"} => f \in Phases,
         j = "delete" => o \in doomed
  PROVE  CallOK(WalkFor(j, n, o, f), lists, objs, named, safe, doomed)
<1> DEFINE c == WalkFor(j, n, o, f)
<1>1. c \in CallStates
  BY IdleTyped DEF WalkFor, CallStates, Labels, Jobs
<1>2. c.at = "pick" /\ c.job = j /\ c.arr = n /\ c.idx = 1 /\ c.obj = o /\ c.phase = f
  BY IdleTyped DEF WalkFor, CallStates
<1> HIDE DEF c
<1>3. CallOK(c, lists, objs, named, safe, doomed)
  BY <1>1, <1>2 DEF CallOK, Walks, Ends, ForPlan
<1> QED
  BY <1>3 DEF c

\* A call that goes on with its walk.
LEMMA NextPickOK ==
  ASSUME NEW c, NEW lists, NEW objs, NEW named, NEW safe, NEW doomed,
         CallOK(c, lists, objs, named, safe, doomed), c.at \in Walks
  PROVE  CallOK(NextPick(c), lists, objs, named, safe, doomed)
<1> DEFINE w == WalkFor(c.job, c.arr, c.obj, c.phase)
<1>1. /\ c.job \in Jobs \ {"none"} /\ c.arr \in DOMAIN lists /\ c.arr \in Nat /\ c.obj \in Nat
      /\ c.phase \in Phases \cup {NoPhase} /\ c.idx \in Nat
      /\ c.job \in ForPlan => c.obj \in DOMAIN objs
      /\ c.job \in {"add", "remove"} => c.phase \in Phases
      /\ c.job = "delete" => c.obj \in doomed
  BY DEF CallOK, CallStates, Walks
<1>2. CallOK(w, lists, objs, named, safe, doomed)
  BY <1>1, WalkForOK
<1>3. w.at = "pick"
  BY IdleTyped DEF WalkFor, CallStates
<1> HIDE DEF w
<1> QED
  BY <1>1, <1>2, <1>3 DEF NextPick, CallOK, CallStates, Walks, Ends, w

\* A call that has walked its list goes on to a label that its job allows.
LEMMA WalklessOK ==
  ASSUME NEW c, NEW lists, NEW objs, NEW named, NEW safe, NEW doomed, NEW label,
         CallOK(c, lists, objs, named, safe, doomed), c.at # "lookup",
         \/ label = "blob" /\ c.job \notin {"none", "seed"}
         \/ label = "own" /\ c.job \in {"create", "update"}
         \/ label = "drop" /\ c.job = "delete"
         \/ label = "addphase" /\ c.job = "add"
         \/ label = "dropphase" /\ c.job = "remove"
  PROVE  CallOK([Idle EXCEPT !.at = label, !.job = c.job, !.obj = c.obj, !.phase = c.phase],
                lists, objs, named, safe, doomed)
<1> DEFINE d == [Idle EXCEPT !.at = label, !.job = c.job, !.obj = c.obj, !.phase = c.phase]
<1>1. c.job \in Jobs /\ c.obj \in Nat /\ c.phase \in Phases \cup {NoPhase} /\ label \in Labels
  BY DEF CallOK, CallStates, Labels
<1>2. d \in CallStates
  BY <1>1, IdleTyped DEF CallStates
<1>3. d.at = label /\ d.job = c.job /\ d.obj = c.obj /\ d.phase = c.phase
  BY IdleTyped DEF CallStates
<1> HIDE DEF d
<1>4. /\ c.job \in ForPlan => c.obj \in DOMAIN objs
      /\ c.job \in {"add", "remove"} => c.phase \in Phases
      /\ c.job = "delete" => c.obj \in doomed
  BY DEF CallOK
<1>5. CallOK(d, lists, objs, named, safe, doomed)
  BY <1>2, <1>3, <1>4 DEF CallOK, Walks, Ends, ForPlan
<1> QED
  BY <1>5 DEF d

\* What later statements do to the store disturbs no call that waits.
LEMMA CallKept ==
  ASSUME NEW c, NEW lists, NEW objs, NEW named, NEW safe, NEW doomed,
         NEW lists2, NEW objs2, NEW named2, NEW safe2, NEW doomed2,
         CallOK(c, lists, objs, named, safe, doomed),
         DOMAIN lists \subseteq DOMAIN lists2, DOMAIN objs \subseteq DOMAIN objs2,
         DOMAIN named \subseteq DOMAIN named2,
         \A b \in DOMAIN named : named2[b] = named[b],
         safe \subseteq safe2, c.job = "delete" => c.obj \in doomed2
  PROVE  CallOK(c, lists2, objs2, named2, safe2, doomed2)
  BY DEF CallOK, Names

Kept ==
  /\ DOMAIN arrays \subseteq DOMAIN arrays' /\ DOMAIN objects \subseteq DOMAIN objects'
  /\ DOMAIN ids \subseteq DOMAIN ids' /\ \A b \in DOMAIN ids : ids'[b] = ids[b]
  /\ Safe \subseteq Safe'
  /\ \A q \in Calls : call[q].job = "delete" => call[q].obj \in Doomed'

LEMMA OneMoves ==
  ASSUME call \in [Calls -> CallStates], CallsOK, Kept, NEW p, NEW c,
         call' = [call EXCEPT ![p] = c], CallOK(c, arrays', objects', ids', Safe', Doomed')
  PROVE  call' \in [Calls -> CallStates] /\ CallsOK'
<1>1. ASSUME NEW q \in Calls PROVE CallOK(call[q], arrays', objects', ids', Safe', Doomed')
  BY CallKept DEF CallsOK, Kept
<1>2. c \in CallStates
  BY DEF CallOK
<1> QED
  BY <1>1, <1>2 DEF CallsOK

-----------------------------------------------------------------------------
(***************************************************************************)
(* The objects and the lists.                                              *)
(***************************************************************************)
LEMMA SeqGrows ==
  ASSUME NEW S, NEW T, S \subseteq T
  PROVE  Seq(S) \subseteq Seq(T)
  OBVIOUS

LEMMA ListsGrow ==
  ASSUME MemOK, NEW S, DOMAIN objects \subseteq S
  PROVE  arrays \in Seq(Seq(S))
  BY SeqGrows DEF MemOK

LEMMA NewestOK ==
  ASSUME MemOK
  PROVE  /\ Newest \in Nat \ {0} /\ Newest \in DOMAIN arrays
         /\ Listed \in Seq(DOMAIN objects) /\ Len(objects) \in Nat
         /\ DOMAIN objects = 1 .. Len(objects)
         /\ \A i \in DOMAIN Listed : Listed[i] \in DOMAIN objects /\ objects[Listed[i]] \in Plan
<1>1. arrays \in Seq(Seq(DOMAIN objects)) /\ arrays # << >> /\ objects \in Seq(Plan)
  BY DEF MemOK
<1>2. Newest \in Nat \ {0} /\ Newest \in DOMAIN arrays
  BY <1>1 DEF Newest
<1>3. Listed \in Seq(DOMAIN objects)
  BY <1>1, <1>2 DEF Listed
<1>4. Len(objects) \in Nat /\ DOMAIN objects = 1 .. Len(objects)
  BY <1>1
<1>5. \A i \in DOMAIN Listed : Listed[i] \in DOMAIN objects
  BY <1>3
<1>6. \A o \in DOMAIN objects : objects[o] \in Plan
  BY <1>1
<1> QED
  BY <1>2, <1>3, <1>4, <1>5, <1>6

\* The list is replaced by new objects.
LEMMA ReplacedOK ==
  ASSUME MemOK, NEW list \in Seq(Plan), Replaced(list)
  PROVE  /\ MemOK' /\ DOMAIN arrays \subseteq DOMAIN arrays'
         /\ DOMAIN objects \subseteq DOMAIN objects'
         /\ \A o \in DOMAIN objects : objects'[o] = objects[o]
         /\ \A o \in DOMAIN objects' :
              o \in DOMAIN objects \/ \E i \in DOMAIN list : objects'[o] = list[i]
         /\ Newest' = Newest + 1 /\ Newest + 1 \in DOMAIN arrays'
         /\ DOMAIN Listed' = DOMAIN list
         /\ \A i \in DOMAIN list : objects'[Listed'[i]] = list[i]
<1> DEFINE n == Len(objects)
           new == [i \in DOMAIN list |-> n + i]
<1>1. objects \in Seq(Plan) /\ arrays \in Seq(Seq(DOMAIN objects)) /\ n \in Nat
      /\ DOMAIN objects = 1 .. n /\ DOMAIN list = 1 .. Len(list) /\ Len(list) \in Nat
  BY DEF MemOK
<1>2. /\ objects' \in Seq(Plan) /\ Len(objects') = n + Len(list)
      /\ \A o \in 1 .. n + Len(list) : objects'[o] = IF o <= n THEN objects[o] ELSE list[o - n]
  BY <1>1, ConcatProperties DEF Replaced
<1> HIDE DEF n
<1>3. DOMAIN objects' = 1 .. n + Len(list)
  BY <1>2
<1>4. /\ DOMAIN objects \subseteq DOMAIN objects'
      /\ \A o \in DOMAIN objects : objects'[o] = objects[o]
  BY <1>1, <1>2, <1>3
<1>5. \A i \in DOMAIN list : n + i \in DOMAIN objects' /\ objects'[n + i] = list[i]
  BY <1>1, <1>2, <1>3
<1>6. ASSUME NEW o \in DOMAIN objects', o \notin DOMAIN objects
      PROVE  \E i \in DOMAIN list : objects'[o] = list[i]
  <2>1. o - n \in DOMAIN list /\ ~(o <= n)
    BY <1>1, <1>3, <1>6
  <2> QED
    BY <1>2, <1>3, <2>1
<1>7. new \in Seq(DOMAIN objects')
  BY <1>1, <1>5
<1>8. arrays \in Seq(Seq(DOMAIN objects')) /\ arrays' = Append(arrays, new)
  BY <1>4, ListsGrow DEF Replaced, n
<1> HIDE DEF new
<1>9. /\ arrays' \in Seq(Seq(DOMAIN objects')) /\ Len(arrays') = Len(arrays) + 1
      /\ arrays'[Len(arrays) + 1] = new /\ arrays' # << >>
      /\ DOMAIN arrays \subseteq DOMAIN arrays' /\ Len(arrays) + 1 \in DOMAIN arrays'
  BY <1>7, <1>8
<1>10. Listed' = new /\ Newest' = Newest + 1
  BY <1>9 DEF Listed, Newest
<1> QED
  BY <1>2, <1>4, <1>5, <1>6, <1>9, <1>10 DEF MemOK, Newest, new

\* The list is changed in place.
LEMMA EditedOK ==
  ASSUME objects' \in Seq(Plan), arrays \in Seq(Seq(DOMAIN objects')), arrays # << >>,
         NEW list \in Seq(DOMAIN objects'), Edited(list)
  PROVE  MemOK' /\ DOMAIN arrays' = DOMAIN arrays /\ Newest' = Newest /\ Listed' = list
<1>1. Newest \in DOMAIN arrays
  BY DEF Newest
<1>2. arrays' = [arrays EXCEPT ![Newest] = list]
  BY DEF Edited
<1>3. /\ arrays' \in Seq(Seq(DOMAIN objects')) /\ Len(arrays') = Len(arrays) /\ arrays' # << >>
      /\ DOMAIN arrays' = DOMAIN arrays
  BY <1>1, <1>2
<1>4. Newest' = Newest
  BY <1>3 DEF Newest
<1>5. Listed' = list
  BY <1>1, <1>2, <1>4 DEF Listed
<1> QED
  BY <1>3, <1>4, <1>5 DEF MemOK

\* An object is changed in place.
LEMMA ChangedOK ==
  ASSUME MemOK, NEW o \in DOMAIN objects, NEW plan \in Plan, Changed(o, plan), UNCHANGED arrays
  PROVE  /\ MemOK' /\ DOMAIN objects' = DOMAIN objects /\ Len(objects') = Len(objects)
         /\ \A q \in DOMAIN objects : objects'[q] = IF q = o THEN plan ELSE objects[q]
<1>1. objects \in Seq(Plan) /\ objects' = [objects EXCEPT ![o] = plan]
  BY DEF MemOK, Changed
<1>2. /\ objects' \in Seq(Plan) /\ DOMAIN objects' = DOMAIN objects /\ Len(objects') = Len(objects)
      /\ \A q \in DOMAIN objects : objects'[q] = IF q = o THEN plan ELSE objects[q]
  BY <1>1
<1> QED
  BY <1>2 DEF MemOK

\* A new object.
LEMMA AppendedOK ==
  ASSUME MemOK, NEW plan \in Plan, objects' = Append(objects, plan)
  PROVE  /\ objects' \in Seq(Plan) /\ arrays \in Seq(Seq(DOMAIN objects'))
         /\ Len(objects') = Len(objects) + 1 /\ Len(objects') \in DOMAIN objects'
         /\ DOMAIN objects \subseteq DOMAIN objects' /\ objects'[Len(objects')] = plan
         /\ Len(objects') \notin DOMAIN objects
         /\ \A o \in DOMAIN objects : objects'[o] = objects[o]
         /\ \A o \in DOMAIN objects' : o \in DOMAIN objects \/ o = Len(objects')
<1>1. objects \in Seq(Plan)
  BY DEF MemOK
<1>2. /\ objects' \in Seq(Plan) /\ Len(objects') = Len(objects) + 1
      /\ Len(objects') \in DOMAIN objects' /\ Len(objects') \notin DOMAIN objects
      /\ DOMAIN objects \subseteq DOMAIN objects' /\ objects'[Len(objects')] = plan
      /\ \A o \in DOMAIN objects : objects'[o] = objects[o]
      /\ \A o \in DOMAIN objects' : o \in DOMAIN objects \/ o = Len(objects')
  BY <1>1
<1> QED
  BY <1>2, ListsGrow

\* splice takes an element out and leaves the others.
LEMMA SplicedOK ==
  ASSUME NEW S, NEW list \in Seq(S), NEW i \in DOMAIN list
  PROVE  Spliced(list, i) \in Seq(S)
<1>1. i \in 1 .. Len(list)
  OBVIOUS
<1>2. SubSeq(list, 1, i - 1) \in Seq(S) /\ SubSeq(list, i + 1, Len(list)) \in Seq(S)
  BY <1>1
<1> QED
  BY <1>2 DEF Spliced

-----------------------------------------------------------------------------
(***************************************************************************)
(* What a step must keep, and what it leaves.                              *)
(***************************************************************************)
LEMMA SafeKept ==
  ASSUME ids' = ids, gone \subseteq gone', Stored \subseteq Stored', failed => failed'
  PROVE  Safe \subseteq Safe'
  BY DEF Safe

LEMMA DoomedKept ==
  ASSUME ids' = ids, gone \subseteq gone', DOMAIN objects \subseteq DOMAIN objects',
         \A o \in DOMAIN objects : objects'[o].id = objects[o].id
  PROVE  Doomed \subseteq Doomed'
  BY DEF Doomed

\* A step that creates no plan, drops no row and forgets no object keeps what
\* the other calls need.
LEMMA KeptOK ==
  ASSUME Inv, ids' = ids, gone \subseteq gone', Stored \subseteq Stored', failed => failed',
         DOMAIN arrays \subseteq DOMAIN arrays', DOMAIN objects \subseteq DOMAIN objects',
         \A o \in DOMAIN objects : objects'[o].id = objects[o].id
  PROVE  Kept
<1>1. Safe \subseteq Safe' /\ Doomed \subseteq Doomed'
  BY SafeKept, DoomedKept
<1>2. \A q \in Calls : call[q].job = "delete" => call[q].obj \in Doomed
  BY DEF Inv, CallsOK, CallOK
<1> QED
  BY <1>1, <1>2 DEF Kept

\* A statement may fail in a step, and that is not forgotten.
MayFail == failed' \in BOOLEAN /\ (failed => failed') /\ UNCHANGED <<cut, faults>>

LEMMA NoneFails ==
  ASSUME Inv, UNCHANGED badVars
  PROVE  MayFail
  BY DEF Inv, FlagsOK, MayFail, badVars

LEMMA FlagsKept ==
  ASSUME FlagsOK, NEW p \in Calls, Noted(p), loaded' \in BOOLEAN, MayFail
  PROVE  FlagsOK'
<1>1. begun' \in 0 .. MaxBegun
  BY Bounds DEF FlagsOK, Noted
<1>2. alone' \in BOOLEAN
  BY DEF Noted
<1> QED
  BY <1>1, <1>2 DEF FlagsOK, MayFail

\* A step of one call.
LEMMA Assembled ==
  ASSUME Inv, NEW p \in Calls, Noted(p), NEW c, Becomes(p, c), Kept,
         CallOK(c, arrays', objects', ids', Safe', Doomed'),
         MemOK', DbOK', IdsOK', SeenOK', loaded' \in BOOLEAN, MayFail,
         NamesOK', created' \subseteq Safe'
  PROVE  Inv'
<1>1. call' \in [Calls -> CallStates] /\ CallsOK'
  BY OneMoves DEF Inv, Becomes
<1>2. FlagsOK'
  BY FlagsKept DEF Inv
<1> QED
  BY <1>1, <1>2 DEF Inv

\* A step that is of the call alone.
LEMMA CallMoves ==
  ASSUME Inv, NEW p \in Calls, Noted(p), NEW c, Becomes(p, c),
         CallOK(c, arrays, objects, ids, Safe, Doomed),
         UNCHANGED <<dbVars, objects, arrays, ids, phased, seenVars, badVars>>,
         loaded' \in BOOLEAN
  PROVE  Inv'
<1>1. Safe' = Safe /\ Doomed' = Doomed
  BY DEF Safe, Doomed, Stored, dbVars, seenVars, badVars
<1>2. Kept
  BY <1>1, KeptOK DEF Stored, dbVars, seenVars, badVars
<1>3. MemOK' /\ DbOK' /\ IdsOK' /\ SeenOK' /\ NamesOK' /\ created' \subseteq Safe'
  BY <1>1 DEF Inv, MemOK, DbOK, IdsOK, SeenOK, NamesOK, Stored, dbVars, seenVars
<1>4. CallOK(c, arrays', objects', ids', Safe', Doomed')
  BY <1>1
<1> QED
  BY <1>2, <1>3, <1>4, NoneFails, Assembled

\* A step of a request on the objects and lists that creates no plan.
LEMMA MemoryMoves ==
  ASSUME Inv, NEW p \in Calls, Noted(p), NEW c, Becomes(p, c),
         CallOK(c, arrays', objects', ids, Safe', Doomed'),
         MemOK', DOMAIN arrays \subseteq DOMAIN arrays', DOMAIN objects \subseteq DOMAIN objects',
         \A o \in DOMAIN objects : objects'[o].id = objects[o].id,
         \A o \in DOMAIN objects' : Names(ids, objects'[o].id, objects'[o].row),
         phased' \in [Born -> 0 .. MaxPhase], gone' \subseteq DOMAIN ids, gone \subseteq gone',
         parted' \in BOOLEAN, UNCHANGED <<dbVars, ids, created, badVars>>, loaded' \in BOOLEAN
  PROVE  Inv'
<1>1. Stored' = Stored
  BY DEF Stored, dbVars
<1>2. Kept
  BY <1>1, KeptOK DEF badVars
<1>3. DbOK' /\ IdsOK' /\ SeenOK' /\ created' \subseteq Safe'
  BY <1>2 DEF Inv, DbOK, IdsOK, SeenOK, Kept, dbVars
<1>4. NamesOK'
  BY <1>1 DEF Inv, NamesOK, Names, dbVars
<1> QED
  BY <1>2, <1>3, <1>4, NoneFails, Assembled

\* A step of a call on the store alone, that drops no row.
LEMMA StoreMoves ==
  ASSUME Inv, NEW p \in Calls, Noted(p), NEW c, Becomes(p, c),
         CallOK(c, arrays, objects, ids, Safe', Doomed), DbOK', Stored \subseteq Stored',
         \A i \in Stored' : Names(ids, i, rows'[i]),
         \A k \in DOMAIN blob' : Names(ids, blob'[k].id, blob'[k].row),
         created' \subseteq Safe',
         UNCHANGED <<objects, arrays, ids, phased, gone, parted>>, MayFail, loaded' \in BOOLEAN
  PROVE  Inv'
<1>1. Doomed' = Doomed
  BY DEF Doomed
<1>2. Kept
  BY KeptOK DEF MayFail
<1>3. MemOK' /\ IdsOK' /\ SeenOK'
  BY DEF Inv, MemOK, IdsOK, SeenOK, Safe
<1>4. NamesOK'
  BY DEF Inv, NamesOK, Names
<1> QED
  BY <1>1, <1>2, <1>3, <1>4, Assembled

LEMMA InitInv == Init => Inv
<1> SUFFICES ASSUME Init PROVE Inv
  OBVIOUS
<1> PICK n \in {0, 1}, c \in Ids :
      /\ blob = [k \in 1 .. n |->
                   [id |-> c, row |-> [born |-> k, ver |-> 1, code |-> c], phases |-> {}]]
      /\ ids = [k \in 1 .. n |-> c]
  BY DEF Init
<1>1. ids \in Seq(Ids) /\ Len(ids) <= MaxPlan /\ DOMAIN ids = 1 .. n
  BY Bounds, BoundAssumption
<1>2. \A k \in 1 .. n :
        [id |-> c, row |-> [born |-> k, ver |-> 1, code |-> c], phases |-> {}] \in Plan
  BY Bounds DEF Plan, Row
<1>3. blob \in Seq(Plan) /\ \A k \in DOMAIN blob : Names(ids, blob[k].id, blob[k].row)
  BY <1>2 DEF Names
<1>4. Stored = {} /\ DbOK
  BY <1>3 DEF Init, Stored, StoredIn, Nothing, DbOK
<1>5. MemOK /\ DOMAIN objects = {}
  BY DEF Init, MemOK
<1>6. phased \in [Born -> 0 .. MaxPhase] /\ begun \in 0 .. MaxBegun /\ faults \in 0 .. MaxFaults
  BY Bounds DEF Init
<1> SeenOK /\ FlagsOK
  BY <1>6 DEF Init, SeenOK, FlagsOK
<1>7. NamesOK
  BY <1>3, <1>4, <1>5 DEF NamesOK
<1>8. CallsOK
  BY RestsOK DEF Init, CallsOK
<1>9. call \in [Calls -> CallStates]
  BY <1>8, RestsOK DEF Init, CallsOK, CallOK
<1> QED
  BY <1>1, <1>4, <1>5, <1>7, <1>8, <1>9 DEF Inv, IdsOK, Init

-----------------------------------------------------------------------------
(***************************************************************************)
(* The loads.                                                              *)
(***************************************************************************)
LEMMA AfterLoadOK ==
  ASSUME NEW p, NEW lists, NEW objs, NEW named, NEW safe, NEW doomed
  PROVE  CallOK(AfterLoad(p), lists, objs, named, safe, doomed)
  BY RestsOK DEF AfterLoad

\* The call as it is, with fields replaced.
LEMMA CallAt ==
  ASSUME Inv, NEW p \in Calls
  PROVE  /\ call[p] \in CallStates /\ CallOK(call[p], arrays, objects, ids, Safe, Doomed)
         /\ call[p].at \in Labels /\ call[p].job \in Jobs /\ call[p].obj \in Nat
  BY DEF Inv, CallsOK, CallStates

LEMMA StartLoadInv ==
  ASSUME Inv, NEW p \in Calls, Noted(p), StartLoad(p)
  PROVE  Inv'
<1>1. loaded' \in BOOLEAN
  BY DEF Inv, FlagsOK, StartLoad, memVars
<1> QED
  BY <1>1, RestsOK, CallMoves DEF StartLoad, memVars

LEMMA CountRowsInv ==
  ASSUME Inv, NEW p \in Calls, Noted(p), CountRows(p)
  PROVE  Inv'
<1> PICK l \in {"fetch", "doc"} : Goto(p, l)
  BY DEF CountRows
<1> DEFINE c == [call[p] EXCEPT !.at = l]
<1>1. Becomes(p, c)
  BY DEF Becomes, Goto
<1>2. CallOK(c, arrays, objects, ids, Safe, Doomed)
  BY CallAt DEF CountRows, At, CallOK, CallStates, Labels, Walks, Ends, ForPlan
<1>3. loaded' \in BOOLEAN
  BY DEF Inv, FlagsOK, CountRows, memVars
<1> HIDE DEF c
<1> QED
  BY <1>1, <1>2, <1>3, CallMoves DEF CountRows, memVars

LEMMA FetchRowsInv ==
  ASSUME Inv, NEW p \in Calls, Noted(p), FetchRows(p)
  PROVE  Inv'
<1> DEFINE c == [call[p] EXCEPT !.at = "phases", !.got = rows]
<1>1. Becomes(p, c)
  BY DEF Becomes, FetchRows
<1>2. c \in CallStates /\ c.at = "phases" /\ c.got = rows /\ c.job = call[p].job
  BY CallAt DEF CallStates, Labels, Inv, DbOK
<1> HIDE DEF c
<1>3. call[p].at = "fetch" /\ call[p].job = "none"
  BY CallAt DEF FetchRows, At, CallOK, Walks, Ends
<1>4. CallOK(c, arrays, objects, ids, Safe, Doomed)
  BY <1>2, <1>3 DEF CallOK, Walks, Ends, ForPlan, Inv, NamesOK, Stored
<1>5. loaded' \in BOOLEAN
  BY DEF Inv, FlagsOK, FetchRows, memVars
<1> QED
  BY <1>1, <1>4, <1>5, CallMoves DEF FetchRows, memVars

\* What a load finds in the tables.
LEMMA PlanOfOK ==
  ASSUME DbOK, NEW i \in Ids, NEW r \in Row
  PROVE  PlanOf(i, r) \in Plan /\ PlanOf(i, r).id = i /\ PlanOf(i, r).row = r
<1>1. {f.phase : f \in {g \in phaseRows : g.id \in {i, r.code}}} \subseteq Phases
  BY DEF DbOK
<1> QED
  BY <1>1 DEF PlanOf, Plan

LEMMA StoredInFinite ==
  ASSUME NEW t
  PROVE  IsFiniteSet(StoredIn(t)) /\ Cardinality(StoredIn(t)) \in Nat
<1>1. IsFiniteSet(Ids)
  BY BoundAssumption, FS_Interval DEF Ids
<1>2. IsFiniteSet(StoredIn(t))
  BY <1>1, FS_Subset DEF StoredIn
<1> QED
  BY <1>2, FS_CardinalityType

LEMMA FetchPhasesInv ==
  ASSUME Inv, NEW p \in Calls, Noted(p), FetchPhases(p)
  PROVE  Inv'
<1> DEFINE got == call[p].got
           m == Cardinality(StoredIn(got))
<1> PICK s \in [1 .. m -> StoredIn(got)] :
      Replaced([i \in DOMAIN s |-> PlanOf(s[i], got[s[i]])])
  BY DEF FetchPhases
<1> DEFINE list == [i \in DOMAIN s |-> PlanOf(s[i], got[s[i]])]
<1>1. MemOK /\ DbOK /\ got \in [Ids -> Row \cup {NoRow}]
      /\ \A i \in StoredIn(got) : Names(ids, i, got[i])
  BY CallAt DEF Inv, FetchPhases, At, CallOK, CallStates
<1>2. \A i \in DOMAIN s : s[i] \in Ids /\ got[s[i]] \in Row /\ Names(ids, s[i], got[s[i]])
  BY <1>1 DEF StoredIn
<1>3. \A i \in DOMAIN s : /\ PlanOf(s[i], got[s[i]]) \in Plan
                          /\ Names(ids, PlanOf(s[i], got[s[i]]).id, PlanOf(s[i], got[s[i]]).row)
  BY <1>1, <1>2, PlanOfOK
<1>4. m \in Nat
  BY StoredInFinite
<1> HIDE DEF m
<1>5. list \in Seq(Plan) /\ \A i \in DOMAIN list : Names(ids, list[i].id, list[i].row)
  BY <1>3, <1>4
<1>6. Replaced(list)
  OBVIOUS
<1> HIDE DEF list
<1>7. /\ MemOK' /\ DOMAIN arrays \subseteq DOMAIN arrays'
      /\ DOMAIN objects \subseteq DOMAIN objects'
      /\ \A o \in DOMAIN objects : objects'[o] = objects[o]
      /\ \A o \in DOMAIN objects' :
           o \in DOMAIN objects \/ \E i \in DOMAIN list : objects'[o] = list[i]
  BY <1>1, <1>5, <1>6, ReplacedOK
<1>8. \A o \in DOMAIN objects' : Names(ids, objects'[o].id, objects'[o].row)
  BY <1>5, <1>7 DEF Inv, NamesOK
<1>9. CallOK(AfterLoad(p), arrays', objects', ids, Safe', Doomed') /\ Becomes(p, AfterLoad(p))
  BY AfterLoadOK DEF FetchPhases
<1> QED
  BY <1>7, <1>8, <1>9, MemoryMoves DEF FetchPhases, Inv, SeenOK, seenVars

\* filter() leaves some of the elements, each at one place.
LEMMA FilteredOK ==
  ASSUME NEW S, NEW list \in Seq(S), NEW kept \in SUBSET DOMAIN list,
         NEW out \in Filtered(list, kept)
  PROVE  /\ out \in Seq(S)
         /\ kept = DOMAIN list => out = list
         /\ \E at \in [DOMAIN out -> kept] :
              /\ \A k \in DOMAIN out : out[k] = list[at[k]]
              /\ \A j, k \in DOMAIN out : at[j] = at[k] => j = k
<1>1. CASE kept = DOMAIN list
  <2>1. out = list
    BY <1>1 DEF Filtered
  <2> DEFINE at == [k \in DOMAIN out |-> k]
  <2>2. at \in [DOMAIN out -> kept] /\ \A k \in DOMAIN out : at[k] = k
    BY <1>1, <2>1
  <2> HIDE DEF at
  <2> QED
    BY <2>1, <2>2
<1>2. CASE kept # DOMAIN list
  <2> DEFINE n == Cardinality(kept)
  <2>1. \E at \in [1 .. n -> kept] :
          /\ out = [k \in 1 .. n |-> list[at[k]]]
          /\ \A j, k \in 1 .. n : j < k => at[j] < at[k]
    BY <1>2 DEF Filtered
  <2>2. DOMAIN list = 1 .. Len(list) /\ Len(list) \in Nat
    OBVIOUS
  <2>3. n \in Nat
    <3>1. IsFiniteSet(1 .. Len(list))
      BY <2>2, FS_Interval
    <3>2. IsFiniteSet(kept)
      BY <2>2, <3>1, FS_Subset
    <3> QED
      BY <3>2, FS_CardinalityType
  <2> HIDE DEF n
  <2> PICK at \in [1 .. n -> kept] :
        /\ out = [k \in 1 .. n |-> list[at[k]]]
        /\ \A j, k \in 1 .. n : j < k => at[j] < at[k]
    BY <2>1
  <2>4. DOMAIN out = 1 .. n /\ \A k \in DOMAIN out : at[k] \in kept /\ out[k] = list[at[k]]
    OBVIOUS
  <2>5. \A j, k \in 1 .. n : at[j] = at[k] => j = k
    BY <2>2, <2>3
  <2>6. out \in Seq(S)
    BY <2>3, <2>4
  <2>7. at \in [DOMAIN out -> kept]
    BY <2>4
  <2>8. \A j, k \in DOMAIN out : at[j] = at[k] => j = k
    BY <2>4, <2>5
  <2>9. \A k \in DOMAIN out : out[k] = list[at[k]]
    BY <2>4
  <2> QED
    BY <1>2, <2>6, <2>7, <2>8, <2>9, Zenon
<1> QED
  BY <1>1, <1>2

LEMMA SeedInv ==
  ASSUME Inv, NEW p \in Calls, Noted(p), Seed(p)
  PROVE  Inv'
<1>1. MemOK /\ blob \in Seq(Plan) /\ \A k \in DOMAIN blob : Names(ids, blob[k].id, blob[k].row)
  BY DEF Inv, DbOK, NamesOK
<1> PICK list \in Filtered(blob, DOMAIN blob \ Demos) : Replaced(list)
  BY DEF Seed
<1>2. list \in Seq(Plan) /\ \A k \in DOMAIN list : \E j \in DOMAIN blob : list[k] = blob[j]
  BY <1>1, FilteredOK
<1>3. /\ MemOK' /\ DOMAIN arrays \subseteq DOMAIN arrays'
      /\ DOMAIN objects \subseteq DOMAIN objects'
      /\ \A o \in DOMAIN objects : objects'[o] = objects[o]
      /\ \A o \in DOMAIN objects' :
           o \in DOMAIN objects \/ \E i \in DOMAIN list : objects'[o] = list[i]
      /\ Newest + 1 \in DOMAIN arrays'
  BY <1>1, <1>2, ReplacedOK
<1>4. \A o \in DOMAIN objects' : Names(ids, objects'[o].id, objects'[o].row)
  BY <1>1, <1>2, <1>3 DEF Inv, NamesOK
<1> DEFINE c == WalkFor("seed", Newest + 1, 0, NoPhase)
<1>5. Newest + 1 \in Nat
  BY <1>1, NewestOK
<1>6. CallOK(c, arrays', objects', ids, Safe', Doomed')
  BY <1>3, <1>5, WalkForOK DEF Jobs, ForPlan
<1>7. Becomes(p, c) /\ loaded' \in BOOLEAN
  BY DEF Seed, Inv, FlagsOK
<1> HIDE DEF c
<1> QED
  BY <1>3, <1>4, <1>6, <1>7, MemoryMoves DEF Seed, Inv, SeenOK, seenVars

-----------------------------------------------------------------------------
(***************************************************************************)
(* The walk and the saves.                                                 *)
(***************************************************************************)
\* Where a call goes when it has walked its list.
LEMMA WalklessMoves ==
  ASSUME Inv, NEW p \in Calls, NEW label, Walkless(p, label), call[p].at # "lookup",
         NEW lists, NEW objs, NEW named, NEW safe, NEW doomed,
         CallOK(call[p], lists, objs, named, safe, doomed),
         \/ label = "blob" /\ call[p].job \notin {"none", "seed"}
         \/ label = "own" /\ call[p].job \in {"create", "update"}
         \/ label = "drop" /\ call[p].job = "delete"
         \/ label = "addphase" /\ call[p].job = "add"
         \/ label = "dropphase" /\ call[p].job = "remove"
  PROVE  \E c : Becomes(p, c) /\ CallOK(c, lists, objs, named, safe, doomed)
<1> DEFINE d == [Idle EXCEPT !.at = label, !.job = call[p].job, !.obj = call[p].obj,
                             !.phase = call[p].phase]
<1>1. CallOK(d, lists, objs, named, safe, doomed)
  BY WalklessOK
<1>2. Becomes(p, d)
  BY DEF Walkless
<1> HIDE DEF d
<1> QED
  BY <1>1, <1>2

LEMMA ProceedMoves ==
  ASSUME Inv, NEW p \in Calls, Proceed(p), call[p].at # "lookup",
         NEW lists, NEW objs, NEW named, NEW safe, NEW doomed,
         CallOK(call[p], lists, objs, named, safe, doomed)
  PROVE  \E c : Becomes(p, c) /\ CallOK(c, lists, objs, named, safe, doomed)
<1>1. CASE call[p].job = "touch" /\ Becomes(p, Idle)
  BY <1>1, RestsOK
<1>2. CASE call[p].job = "create" /\ Walkless(p, "own")
  BY <1>2, WalklessMoves
<1>3. CASE call[p].job = "update" /\ Walkless(p, "own")
  BY <1>3, WalklessMoves
<1>4. CASE call[p].job = "delete" /\ Walkless(p, "drop")
  BY <1>4, WalklessMoves
<1>5. CASE call[p].job = "add" /\ Walkless(p, "addphase")
  BY <1>5, WalklessMoves
<1>6. CASE call[p].job = "remove" /\ Walkless(p, "dropphase")
  BY <1>6, WalklessMoves
<1> QED
  BY <1>1, <1>2, <1>3, <1>4, <1>5, <1>6 DEF Proceed

LEMMA PickInv ==
  ASSUME Inv, NEW p \in Calls, Noted(p), Pick(p)
  PROVE  Inv'
<1> DEFINE c == call[p]
           i == c.idx
           list == Walked(p)
<1>1. /\ c.at = "pick" /\ c \in CallStates /\ CallOK(c, arrays, objects, ids, Safe, Doomed)
      /\ c.job # "none" /\ c.arr \in DOMAIN arrays /\ i \in Nat \ {0}
  BY CallAt DEF Pick, At, CallOK, CallStates, Walks
<1>2. list \in Seq(DOMAIN objects)
  BY <1>1 DEF Inv, MemOK, Walked
<1>3. UNCHANGED <<dbVars, objects, arrays, ids, phased, seenVars, badVars>>
  BY DEF Pick
<1>4. CASE /\ i <= Len(list)
           /\ call' = [call EXCEPT ![p].at = "select", ![p].id = objects[list[i]].id,
                                   ![p].row = objects[list[i]].row]
           /\ UNCHANGED loaded
  <2> DEFINE o == list[i]
             d == [c EXCEPT !.at = "select", !.id = objects[o].id, !.row = objects[o].row]
  <2>1. o \in DOMAIN objects
    BY <1>1, <1>2, <1>4
  <2>2. objects[o] \in Plan /\ Names(ids, objects[o].id, objects[o].row)
    BY <2>1 DEF Inv, MemOK, NamesOK
  <2>3. Becomes(p, d)
    BY <1>4 DEF Becomes
  <2> HIDE DEF o
  <2>4. objects[o].id \in Ids /\ objects[o].row \in Row
    BY <2>2 DEF Plan
  <2>5. /\ d \in CallStates /\ d.at = "select" /\ d.id = objects[o].id /\ d.row = objects[o].row
        /\ d.job = c.job /\ d.arr = c.arr /\ d.idx = c.idx /\ d.obj = c.obj /\ d.phase = c.phase
    BY <1>1, <2>4 DEF CallStates, Labels
  <2> HIDE DEF d
  <2>6. CallOK(d, arrays, objects, ids, Safe, Doomed)
    BY <1>1, <2>2, <2>4, <2>5 DEF CallOK, Walks, Ends
  <2>7. loaded' \in BOOLEAN
    BY <1>4 DEF Inv, FlagsOK
  <2> QED
    BY <1>3, <2>3, <2>6, <2>7, CallMoves
<1>5. CASE c.job = "seed" /\ loaded' = TRUE /\ Becomes(p, AfterLoad(p))
  BY <1>3, <1>5, AfterLoadOK, CallMoves
<1>6. CASE c.job # "seed" /\ Walkless(p, "blob") /\ UNCHANGED loaded
  <2>1. PICK d : Becomes(p, d) /\ CallOK(d, arrays, objects, ids, Safe, Doomed)
    BY <1>1, <1>6, WalklessMoves
  <2>2. loaded' \in BOOLEAN
    BY <1>6 DEF Inv, FlagsOK
  <2> QED
    BY <1>3, <2>1, <2>2, CallMoves
<1> QED
  BY <1>4, <1>5, <1>6 DEF Pick

LEMMA OwnInv ==
  ASSUME Inv, NEW p \in Calls, Noted(p), Own(p)
  PROVE  Inv'
<1> DEFINE c == call[p]
           q == objects[c.obj]
           d == [c EXCEPT !.at = "ownwrite", !.id = q.id, !.row = q.row, !.found = rows[q.id]]
<1>1. /\ c.at = "own" /\ c \in CallStates /\ CallOK(c, arrays, objects, ids, Safe, Doomed)
      /\ c.job \in {"create", "update"} /\ c.obj \in DOMAIN objects
  BY CallAt DEF Own, At, CallOK, ForPlan
<1> q \in Plan /\ Names(ids, q.id, q.row)
  BY <1>1 DEF Inv, MemOK, NamesOK
<1> q.id \in Ids /\ q.row \in Row
  BY DEF Plan
<1>2. rows[q.id] \in Row \cup {NoRow}
  BY DEF Inv, DbOK
<1>3. Becomes(p, d)
  BY DEF Own, Becomes
<1>4. rows[q.id] # NoRow => q.row.born \in Safe
  BY <1>2 DEF Safe, Stored, StoredIn, Names
<1> HIDE DEF q
<1>5. /\ d \in CallStates /\ d.at = "ownwrite" /\ d.id = q.id /\ d.row = q.row
      /\ d.found = rows[q.id] /\ d.job = c.job /\ d.obj = c.obj /\ d.phase = c.phase
  BY <1>1, <1>2 DEF CallStates, Labels
<1> HIDE DEF d
<1>6. CallOK(d, arrays, objects, ids, Safe, Doomed)
  BY <1>1, <1>2, <1>4, <1>5 DEF CallOK, Walks, Ends
<1>7. loaded' \in BOOLEAN
  BY DEF Inv, FlagsOK, Own, memVars
<1> QED
  BY <1>3, <1>6, <1>7, CallMoves DEF Own, memVars

LEMMA SelectRowInv ==
  ASSUME Inv, NEW p \in Calls, Noted(p), SelectRow(p)
  PROVE  Inv'
<1> DEFINE c == call[p]
           d == [c EXCEPT !.at = "write", !.found = rows[c.id]]
<1>1. /\ c.at = "select" /\ c \in CallStates /\ CallOK(c, arrays, objects, ids, Safe, Doomed)
      /\ c.id \in Ids
  BY CallAt DEF SelectRow, At, CallOK
<1>2. rows[c.id] \in Row \cup {NoRow}
  BY <1>1 DEF Inv, DbOK
<1>3. Becomes(p, d)
  BY DEF SelectRow, Becomes
<1>4. /\ d \in CallStates /\ d.at = "write" /\ d.id = c.id /\ d.row = c.row /\ d.job = c.job
      /\ d.arr = c.arr /\ d.idx = c.idx /\ d.obj = c.obj /\ d.phase = c.phase
  BY <1>1, <1>2 DEF CallStates, Labels
<1> HIDE DEF d
<1>5. CallOK(d, arrays, objects, ids, Safe, Doomed)
  BY <1>1, <1>4 DEF CallOK, Walks, Ends
<1>6. loaded' \in BOOLEAN
  BY DEF Inv, FlagsOK, SelectRow, memVars
<1> QED
  BY <1>3, <1>5, <1>6, CallMoves DEF SelectRow, memVars

\* The call whose save has an outcome, when what it saved is safe by then.
LEMMA SavedMoves ==
  ASSUME Inv, NEW p \in Calls, Saved(p), NEW safe, Safe \subseteq safe,
         call[p].at = "ownwrite" /\ call[p].job = "create" => call[p].row.born \in safe
  PROVE  /\ created' \subseteq safe
         /\ \E c : Becomes(p, c) /\ CallOK(c, arrays, objects, ids, safe, Doomed)
<1>1. CallOK(call[p], arrays, objects, ids, safe, Doomed)
  BY CallAt, CallKept DEF CallOK
<1>2. created \subseteq safe
  BY DEF Inv
<1>3. CASE /\ At(p, "write") /\ call' = [call EXCEPT ![p] = NextPick(@)] /\ UNCHANGED created
  <2>1. Becomes(p, NextPick(call[p]))
    BY <1>3 DEF Becomes
  <2>2. CallOK(NextPick(call[p]), arrays, objects, ids, safe, Doomed)
    BY <1>1, <1>3, NextPickOK DEF At, Walks
  <2> QED
    BY <1>2, <1>3, <2>1, <2>2
<1>4. CASE /\ At(p, "ownwrite") /\ Becomes(p, Idle)
           /\ \/ call[p].job = "create" /\ created' = created \cup {call[p].row.born}
              \/ call[p].job = "update" /\ UNCHANGED created
  BY <1>2, <1>4, RestsOK DEF At
<1> QED
  BY <1>3, <1>4 DEF Saved

LEMMA NotSavedMoves ==
  ASSUME Inv, NEW p \in Calls, NotSaved(p), NEW safe, Safe \subseteq safe,
         call[p].at = "ownwrite" /\ call[p].job = "create" => call[p].row.born \in safe
  PROVE  /\ created' \subseteq safe
         /\ \E c : Becomes(p, c) /\ CallOK(c, arrays, objects, ids, safe, Doomed)
<1>1. CallOK(call[p], arrays, objects, ids, safe, Doomed)
  BY CallAt, CallKept DEF CallOK
<1>2. created \subseteq safe
  BY DEF Inv
<1>3. CASE At(p, "write") /\ Becomes(p, AfterLoad(p)) /\ UNCHANGED created
  BY <1>2, <1>3, AfterLoadOK
<1>4. CASE At(p, "write") /\ Proceed(p) /\ UNCHANGED created
  BY <1>1, <1>2, <1>4, ProceedMoves DEF At
<1>5. CASE Saved(p)
  BY <1>5, SavedMoves
<1> QED
  BY <1>3, <1>4, <1>5 DEF NotSaved

\* A row that is stored, of the call that saves it.
LEMMA RowStored ==
  ASSUME Inv, NEW p \in Calls, call[p].at \in {"write", "ownwrite"},
         NEW row \in Row, Names(ids, call[p].id, row),
         \/ rows' = [rows EXCEPT ![call[p].id] = row]
         \/ UNCHANGED rows /\ rows[call[p].id] # NoRow
  PROVE  /\ rows' \in [Ids -> Row \cup {NoRow}] /\ Stored \subseteq Stored'
         /\ \A i \in Stored' : Names(ids, i, rows'[i])
         /\ call[p].id \in Stored'
<1>1. call[p].id \in Ids
  BY CallAt DEF CallOK
<1>2. rows \in [Ids -> Row \cup {NoRow}] /\ \A i \in Stored : Names(ids, i, rows[i])
  BY DEF Inv, DbOK, NamesOK
<1>3. NoRow \notin Row
  BY Bounds
<1> QED
  BY <1>1, <1>2, <1>3 DEF Stored, StoredIn

\* A refused save leaves the tables as they were; nothing is promised from then on.
LEMMA RefusedInv ==
  ASSUME Inv, NEW p \in Calls, Noted(p), call[p].at \in {"write", "ownwrite"}, Refused(p),
         UNCHANGED <<phaseRows, blob, memVars, ids, phased, gone, parted, cut, faults>>
  PROVE  Inv'
<1>1. failed' = TRUE /\ NotSaved(p) /\ UNCHANGED rows
  BY DEF Refused
<1>2. Safe' = DOMAIN ids /\ Safe \subseteq Safe'
  BY <1>1 DEF Safe
<1>3. call[p].at = "ownwrite" /\ call[p].job = "create" => call[p].row.born \in Safe'
  BY <1>2, CallAt DEF CallOK, Names
<1>4. /\ created' \subseteq Safe'
      /\ \E c : Becomes(p, c) /\ CallOK(c, arrays, objects, ids, Safe', Doomed)
  BY <1>1, <1>2, <1>3, NotSavedMoves
<1>5. /\ DbOK' /\ loaded' \in BOOLEAN /\ Stored' = Stored
      /\ \A i \in Stored' : Names(ids, i, rows'[i])
      /\ \A k \in DOMAIN blob' : Names(ids, blob'[k].id, blob'[k].row)
  BY <1>1 DEF Inv, DbOK, FlagsOK, NamesOK, Stored, memVars
<1>6. MayFail
  BY <1>1 DEF MayFail
<1> QED
  BY <1>4, <1>5, <1>6, StoreMoves DEF memVars

LEMMA InsertRowInv ==
  ASSUME Inv, NEW p \in Calls, Noted(p), InsertRow(p)
  PROVE  Inv'
<1> DEFINE i == call[p].id
           row == call[p].row
<1>1. /\ call[p].at \in {"write", "ownwrite"}
      /\ UNCHANGED <<phaseRows, blob, memVars, ids, phased, gone, parted, cut, faults>>
  BY DEF InsertRow
<1>2. CASE Refused(p)
  BY <1>1, <1>2, RefusedInv
<1>3. CASE /\ Saved(p) \/ NotSaved(p)
           /\ rows' = [rows EXCEPT ![i] = row] \/ (UNCHANGED rows /\ rows[i] # NoRow)
           /\ UNCHANGED failed
  <2>1. row \in Row /\ Names(ids, i, row)
    BY <1>1, CallAt DEF CallOK
  <2>2. /\ rows' \in [Ids -> Row \cup {NoRow}] /\ Stored \subseteq Stored'
        /\ \A k \in Stored' : Names(ids, k, rows'[k])
        /\ i \in Stored'
    BY <1>1, <1>3, <2>1, RowStored
  <2>3. Safe \subseteq Safe' /\ row.born \in Safe'
    BY <1>1, <1>3, <2>1, <2>2 DEF Safe, Names
  <2>4. /\ created' \subseteq Safe'
        /\ \E c : Becomes(p, c) /\ CallOK(c, arrays, objects, ids, Safe', Doomed)
    BY <1>1, <1>3, <2>3, SavedMoves, NotSavedMoves
  <2>5. DbOK' /\ loaded' \in BOOLEAN
    BY <1>1, <2>2 DEF Inv, DbOK, FlagsOK, memVars
  <2>6. \A k \in DOMAIN blob' : Names(ids, blob'[k].id, blob'[k].row)
    BY <1>1 DEF Inv, NamesOK
  <2>7. MayFail
    BY <1>1, <1>3 DEF MayFail, Inv, FlagsOK
  <2> QED
    BY <1>1, <2>2, <2>4, <2>5, <2>6, <2>7, StoreMoves DEF memVars
<1> QED
  BY <1>2, <1>3 DEF InsertRow

\* The columns of two rows that name the same id.
LEMMA MergedOK ==
  ASSUME NEW now \in Row, NEW found, NEW row \in Row, NEW i,
         NEW named, Names(named, i, now), Names(named, i, row)
  PROVE  Merged(now, found, row) \in Row /\ Names(named, i, Merged(now, found, row))
  BY DEF Merged, Row, Names

LEMMA UpdateRowInv ==
  ASSUME Inv, NEW p \in Calls, Noted(p), UpdateRow(p)
  PROVE  Inv'
<1> DEFINE i == call[p].id
           row == call[p].row
           new == Merged(rows[i], call[p].found, row)
<1>1. /\ call[p].at \in {"write", "ownwrite"} /\ call[p].found # NoRow
      /\ UNCHANGED <<phaseRows, blob, memVars, ids, phased, gone, parted, cut, faults>>
  BY DEF UpdateRow
<1>2. CASE Refused(p)
  BY <1>1, <1>2, RefusedInv
<1>3. CASE /\ Saved(p) /\ UNCHANGED failed
           /\ (rows[i] # NoRow /\ rows' = [rows EXCEPT ![i] = new]) \/ UNCHANGED rows
  <2>1. i \in Ids /\ row \in Row /\ Names(ids, i, row)
    BY <1>1, CallAt DEF CallOK
  <2>2. /\ rows' \in [Ids -> Row \cup {NoRow}] /\ Stored \subseteq Stored'
        /\ \A k \in Stored' : Names(ids, k, rows'[k])
    <3>1. CASE UNCHANGED rows
      BY <3>1 DEF Inv, DbOK, NamesOK, Stored
    <3>2. CASE rows[i] # NoRow /\ rows' = [rows EXCEPT ![i] = new]
      <4>1. rows[i] \in Row /\ Names(ids, i, rows[i])
        BY <2>1, <3>2 DEF Inv, DbOK, NamesOK, Stored, StoredIn
      <4>2. new \in Row /\ Names(ids, i, new)
        BY <2>1, <4>1, MergedOK
      <4> HIDE DEF new
      <4> QED
        BY <1>1, <3>2, <4>2, RowStored
    <3> QED
      BY <1>3, <3>1, <3>2
  <2>3. call[p].at = "ownwrite" /\ call[p].job = "create" => row.born \in Safe
    BY <1>1, CallAt DEF CallOK
  <2>4. Safe \subseteq Safe'
    BY <1>1, <1>3, <2>2, SafeKept
  <2>5. /\ created' \subseteq Safe'
        /\ \E c : Becomes(p, c) /\ CallOK(c, arrays, objects, ids, Safe', Doomed)
    BY <1>3, <2>3, <2>4, SavedMoves
  <2>6. DbOK' /\ loaded' \in BOOLEAN
    BY <1>1, <2>2 DEF Inv, DbOK, FlagsOK, memVars
  <2>7. \A k \in DOMAIN blob' : Names(ids, blob'[k].id, blob'[k].row)
    BY <1>1 DEF Inv, NamesOK
  <2>8. MayFail
    BY <1>1, <1>3 DEF MayFail, Inv, FlagsOK
  <2> QED
    BY <1>1, <2>2, <2>5, <2>6, <2>7, <2>8, StoreMoves DEF memVars
<1> QED
  BY <1>2, <1>3 DEF UpdateRow

LEMMA SaveBlobInv ==
  ASSUME Inv, NEW p \in Calls, Noted(p), SaveBlob(p)
  PROVE  Inv'
<1>1. MemOK /\ \A i \in DOMAIN Listed : Listed[i] \in DOMAIN objects /\ objects[Listed[i]] \in Plan
  BY NewestOK DEF Inv
<1>2. Listed \in Seq(DOMAIN objects)
  BY <1>1, NewestOK
<1>3. blob' = [i \in DOMAIN Listed |-> objects[Listed[i]]]
  BY DEF SaveBlob
<1>4. blob' \in Seq(Plan)
  BY <1>1, <1>2, <1>3
<1>5. \A k \in DOMAIN blob' : Names(ids, blob'[k].id, blob'[k].row)
  BY <1>1, <1>3 DEF Inv, NamesOK
<1>6. Stored' = Stored /\ Safe' = Safe /\ DbOK' /\ loaded' \in BOOLEAN
  BY <1>4 DEF SaveBlob, Stored, Safe, Inv, DbOK, FlagsOK, memVars, seenVars, badVars
<1>7. \E c : Becomes(p, c) /\ CallOK(c, arrays, objects, ids, Safe', Doomed)
  BY <1>6, CallAt, ProceedMoves DEF SaveBlob, At
<1> QED
  BY <1>5, <1>6, <1>7, NoneFails, StoreMoves DEF SaveBlob, Inv, NamesOK, memVars, seenVars

-----------------------------------------------------------------------------
(***************************************************************************)
(* The requests.                                                           *)
(***************************************************************************)
LEMMA ReadyIs ==
  ASSUME Inv, NEW p \in Calls, Ready(p)
  PROVE  call[p].at \in {"idle", "act"}
  BY DEF Ready, At

\* The plan with another version of its fields.
LEMMA TouchedOK ==
  ASSUME NEW q \in Plan, q.row.ver < MaxVersion
  PROVE  /\ [q EXCEPT !.row.ver = @ + 1] \in Plan
         /\ [q EXCEPT !.row.ver = @ + 1].id = q.id
         /\ [q EXCEPT !.row.ver = @ + 1].row.born = q.row.born
         /\ [q EXCEPT !.row.ver = @ + 1].phases = q.phases
<1>1. q.row \in Row /\ q.row.ver \in 1 .. MaxVersion /\ q.row.ver + 1 \in 1 .. MaxVersion
  BY Bounds DEF Plan, Row
<1>2. [q.row EXCEPT !.ver = q.row.ver + 1] \in Row
  BY <1>1 DEF Row
<1> QED
  BY <1>1, <1>2 DEF Plan, Row

LEMMA ChooseCodeInv ==
  ASSUME Inv, NEW p \in Calls, Noted(p), ChooseCode(p)
  PROVE  Inv'
<1> PICK n \in Ids \cup {0} :
      Becomes(p, [Idle EXCEPT !.at = "lookup", !.job = "create", !.id = n])
  BY DEF ChooseCode
<1> DEFINE c == [Idle EXCEPT !.at = "lookup", !.job = "create", !.id = n]
<1>1. c \in CallStates /\ c.at = "lookup" /\ c.job = "create" /\ c.id = n
  BY IdleTyped DEF CallStates, Labels, Jobs
<1>2. Becomes(p, c)
  OBVIOUS
<1> HIDE DEF c
<1>3. CallOK(c, arrays, objects, ids, Safe, Doomed)
  BY <1>1 DEF CallOK, Walks, Ends, ForPlan
<1>4. loaded' \in BOOLEAN
  BY DEF Inv, FlagsOK, ChooseCode, memVars
<1> QED
  BY <1>2, <1>3, <1>4, CallMoves DEF ChooseCode, memVars

\* The new plan is put in front of the list; whoever is deleting a plan with its
\* id deletes it too.
LEMMA CreatePlanInv ==
  ASSUME Inv, NEW p \in Calls, Noted(p), CreatePlan(p)
  PROVE  Inv'
<1> DEFINE b == Len(ids')
           n == Len(objects')
<1> PICK code \in Ids, i \in Ids, k \in 0 .. MaxPhase :
      LET a   == Len(ids) + 1
          new == [id |-> i, row |-> [born |-> a, ver |-> 1, code |-> code],
                  phases |-> Numbered(a, k)]
      IN  /\ ids' = Append(ids, i) /\ phased' = [phased EXCEPT ![a] = k]
          /\ objects' = Append(objects, new)
          /\ gone' = gone \cup {x \in {a} : Deleting(i)}
          /\ parted' = (parted \/ \E q \in ListedPlans : q.id = i)
  BY DEF CreatePlan
<1> DEFINE new == [id |-> i, row |-> [born |-> b, ver |-> 1, code |-> code],
                   phases |-> Numbered(b, k)]
<1>2. MemOK /\ ids \in Seq(Ids)
  BY DEF Inv, IdsOK
<1>20. ids' = Append(ids, i) /\ b = Len(ids) + 1
  BY <1>2
<1>1. /\ Len(ids) < MaxPlan /\ ids' = Append(ids, i) /\ objects' = Append(objects, new)
      /\ Edited(<<n>> \o Listed)
      /\ gone' = gone \cup {a \in {b} : Deleting(i)}
      /\ phased' = [phased EXCEPT ![b] = k] /\ parted' = (parted \/ \E q \in ListedPlans : q.id = i)
      /\ Start(p, "create", n, NoPhase)
      /\ UNCHANGED <<dbVars, loaded, created, badVars>>
  BY <1>20 DEF CreatePlan
<1>3. /\ ids' \in Seq(Ids) /\ b = Len(ids) + 1 /\ b \in DOMAIN ids' /\ ids'[b] = i
      /\ DOMAIN ids \subseteq DOMAIN ids' /\ \A a \in DOMAIN ids : ids'[a] = ids[a]
      /\ \A a \in DOMAIN ids' : a \in DOMAIN ids \/ a = b
  BY <1>1, <1>2
<1>4. b \in Born /\ b <= MaxPlan
  BY <1>1, <1>2, <1>3, Bounds DEF Born
<1> HIDE DEF b
<1>5. new \in Plan /\ new.id = i /\ new.row.born = b
  BY <1>2, <1>4, Bounds DEF Plan, Row, Numbered
<1>21. phased' \in [Born -> 0 .. MaxPhase] /\ parted' \in BOOLEAN
  BY <1>1, <1>4 DEF Inv, SeenOK
<1> HIDE DEF new
<1>6. /\ objects' \in Seq(Plan) /\ arrays \in Seq(Seq(DOMAIN objects')) /\ n \in DOMAIN objects'
      /\ DOMAIN objects \subseteq DOMAIN objects' /\ objects'[n] = new
      /\ \A o \in DOMAIN objects : objects'[o] = objects[o]
      /\ \A o \in DOMAIN objects' : o \in DOMAIN objects \/ o = n
  BY <1>1, <1>2, <1>5, AppendedOK
<1>7. n \in Nat
  BY <1>6
<1> HIDE DEF n
<1>8. Listed \in Seq(DOMAIN objects') /\ arrays # << >>
  BY <1>2, <1>6, NewestOK, SeqGrows DEF MemOK
<1>9. <<n>> \o Listed \in Seq(DOMAIN objects')
  BY <1>6, <1>8
<1>10. MemOK' /\ DOMAIN arrays' = DOMAIN arrays
  BY <1>1, <1>6, <1>8, <1>9, EditedOK
<1>11. Stored' = Stored /\ failed' = failed
  BY <1>1 DEF Stored, dbVars, badVars
<1>12. Safe \subseteq Safe'
  BY <1>1, <1>3, <1>11 DEF Safe
<1>13. ASSUME NEW q \in Calls, call[q].job = "delete" PROVE call[q].obj \in Doomed'
  <2>1. call[q].obj \in Doomed
    BY <1>13 DEF Inv, CallsOK, CallOK
  <2> DEFINE o == call[q].obj
  <2>2. o \in DOMAIN objects' /\ objects'[o].id = objects[o].id /\ o \in DOMAIN objects
    BY <1>6, <2>1 DEF Doomed
  <2>3. objects[o].id = i => b \in gone'
    BY <1>1, <1>13 DEF Deleting
  <2>4. ASSUME NEW a \in DOMAIN ids', ids'[a] = objects'[o].id PROVE a \in gone'
    <3>1. CASE a \in DOMAIN ids
      BY <1>1, <1>3, <2>1, <2>2, <2>4, <3>1 DEF Doomed
    <3>2. CASE a = b
      BY <1>3, <2>2, <2>3, <2>4, <3>2
    <3> QED
      BY <1>3, <3>1, <3>2
  <2> QED
    BY <2>2, <2>4 DEF Doomed
<1>14. Kept
  BY <1>3, <1>6, <1>10, <1>12, <1>13 DEF Kept
<1>15. Becomes(p, WalkFor("create", Newest, n, NoPhase))
  BY <1>1 DEF Start
<1>16. CallOK(WalkFor("create", Newest, n, NoPhase), arrays', objects', ids', Safe', Doomed')
  BY <1>2, <1>6, <1>7, <1>10, NewestOK, WalkForOK DEF Jobs
<1>17. DbOK' /\ IdsOK' /\ loaded' \in BOOLEAN
  BY <1>1, <1>3, <1>4 DEF Inv, DbOK, IdsOK, FlagsOK, dbVars, b
<1>18. SeenOK' /\ created' \subseteq Safe'
  BY <1>1, <1>3, <1>12, <1>21 DEF Inv, SeenOK
<1>19. NamesOK'
  <2>1. \A x, row : Names(ids, x, row) => Names(ids', x, row)
    BY <1>3 DEF Names
  <2>2. \A o \in DOMAIN objects' : Names(ids', objects'[o].id, objects'[o].row)
    <3>1. \A o \in DOMAIN objects : Names(ids, objects[o].id, objects[o].row)
      BY DEF Inv, NamesOK
    <3>2. Names(ids', objects'[n].id, objects'[n].row)
      BY <1>3, <1>5, <1>6 DEF Names
    <3> QED
      BY <1>6, <2>1, <3>1, <3>2
  <2> QED
    BY <1>1, <1>11, <2>1, <2>2 DEF Inv, NamesOK, dbVars
<1> QED
  BY <1>1, <1>10, <1>14, <1>15, <1>16, <1>17, <1>18, <1>19, NoneFails, Assembled

\* An update keeps the id and the birth of a plan.
LEMMA UpdatesOK ==
  ASSUME NEW q \in Plan, q.row.ver < MaxVersion, NEW k, NEW new \in Updates(q, k)
  PROVE  new \in Plan /\ new.id = q.id /\ new.row.born = q.row.born /\ new.row.ver = q.row.ver + 1
<1> PICK c \in Ids, given \in (SUBSET Numbered(q.row.born, k)) \cup {q.phases} :
      new = [id |-> q.id, row |-> [born |-> q.row.born, ver |-> q.row.ver + 1, code |-> c],
             phases |-> given]
  BY DEF Updates
<1>1. q.row.ver + 1 \in 1 .. MaxVersion
  BY Bounds DEF Plan, Row
<1>2. given \subseteq Phases
  BY DEF Plan, Numbered
<1> QED
  BY <1>1, <1>2 DEF Plan, Row

LEMMA UpdatePlanInv ==
  ASSUME Inv, NEW p \in Calls, Noted(p), UpdatePlan(p)
  PROVE  Inv'
<1> DEFINE n == Len(objects')
<1> PICK i \in DOMAIN Listed :
      LET b == objects[Listed[i]].row.born
      IN  /\ objects[Listed[i]].row.ver < MaxVersion
          /\ \E k \in phased[b] .. MaxPhase :
               /\ phased' = [phased EXCEPT ![b] = k]
               /\ \E new \in Updates(objects[Listed[i]], k) : objects' = Append(objects, new)
          /\ Edited([Listed EXCEPT ![i] = n])
  BY DEF UpdatePlan, Findable
<1> DEFINE old == objects[Listed[i]]
<1> PICK k \in phased[old.row.born] .. MaxPhase :
      /\ phased' = [phased EXCEPT ![old.row.born] = k]
      /\ \E new \in Updates(old, k) : objects' = Append(objects, new)
  OBVIOUS
<1> PICK new \in Updates(old, k) : objects' = Append(objects, new)
  OBVIOUS
<1>1. MemOK /\ Listed[i] \in DOMAIN objects /\ old \in Plan
  BY NewestOK DEF Inv
<1>2. new \in Plan /\ new.id = old.id /\ new.row.born = old.row.born
  BY <1>1, UpdatesOK
<1>3. objects' = Append(objects, new)
  OBVIOUS
<1>12. phased' \in [Born -> 0 .. MaxPhase]
  <2>1. old.row.born \in Born
    BY <1>1 DEF Plan, Row
  <2>2. phased \in [Born -> 0 .. MaxPhase]
    BY DEF Inv, SeenOK
  <2>3. k \in 0 .. MaxPhase
    BY <2>1, <2>2, Bounds
  <2> QED
    BY <2>1, <2>2, <2>3
<1>13. Edited([Listed EXCEPT ![i] = n])
  OBVIOUS
<1> HIDE DEF old
<1>4. /\ objects' \in Seq(Plan) /\ arrays \in Seq(Seq(DOMAIN objects')) /\ n \in DOMAIN objects'
      /\ DOMAIN objects \subseteq DOMAIN objects' /\ objects'[n] = new
      /\ \A o \in DOMAIN objects : objects'[o] = objects[o]
      /\ \A o \in DOMAIN objects' : o \in DOMAIN objects \/ o = n
  BY <1>1, <1>2, <1>3, AppendedOK
<1>5. n \in Nat
  BY <1>4
<1> HIDE DEF n
<1>6. Listed \in Seq(DOMAIN objects') /\ arrays # << >>
  BY <1>1, <1>4, NewestOK, SeqGrows DEF MemOK
<1>7. [Listed EXCEPT ![i] = n] \in Seq(DOMAIN objects')
  BY <1>4, <1>6
<1>8. MemOK' /\ DOMAIN arrays' = DOMAIN arrays
  BY <1>4, <1>6, <1>7, <1>13, EditedOK
<1>9. \A o \in DOMAIN objects' : Names(ids, objects'[o].id, objects'[o].row)
  <2>1. \A o \in DOMAIN objects : Names(ids, objects[o].id, objects[o].row)
    BY DEF Inv, NamesOK
  <2>2. Names(ids, old.id, old.row)
    BY <1>1, <2>1 DEF old
  <2>3. Names(ids, new.id, new.row)
    BY <1>2, <2>2 DEF Names
  <2> QED
    BY <1>4, <2>1, <2>3
<1>10. Becomes(p, WalkFor("update", Newest, n, NoPhase))
  BY DEF UpdatePlan, Start, n
<1>11. CallOK(WalkFor("update", Newest, n, NoPhase), arrays', objects', ids, Safe', Doomed')
  BY <1>1, <1>4, <1>5, <1>8, NewestOK, WalkForOK DEF Jobs
<1> QED
  BY <1>4, <1>8, <1>9, <1>10, <1>11, <1>12, MemoryMoves DEF UpdatePlan, Inv, SeenOK, FlagsOK, seenVars

\* A plan that is changed in place keeps its id and its birth.
LEMMA ChangedInv ==
  ASSUME Inv, NEW p \in Calls, Noted(p), NEW o \in DOMAIN objects, NEW q \in Plan, Changed(o, q),
         q.id = objects[o].id, q.row.born = objects[o].row.born,
         NEW j \in {"touch", "add", "remove"}, NEW a \in Nat, NEW f \in Phases \cup {NoPhase},
         j # "touch" => a \in DOMAIN objects /\ f \in Phases, Start(p, j, a, f),
         phased' \in [Born -> 0 .. MaxPhase],
         UNCHANGED <<dbVars, arrays, loaded, ids, seenVars, badVars>>
  PROVE  Inv'
<1>1. MemOK
  BY DEF Inv
<1>2. /\ MemOK' /\ DOMAIN objects' = DOMAIN objects
      /\ \A r \in DOMAIN objects : objects'[r] = IF r = o THEN q ELSE objects[r]
  BY <1>1, ChangedOK
<1>3. \A r \in DOMAIN objects' : Names(ids, objects'[r].id, objects'[r].row)
  BY <1>2 DEF Names, Inv, NamesOK
<1>4. CallOK(WalkFor(j, Newest, a, f), arrays', objects', ids, Safe', Doomed')
  BY <1>1, <1>2, NewestOK, WalkForOK DEF Jobs, ForPlan
<1> QED
  BY <1>2, <1>3, <1>4, MemoryMoves DEF Start, Inv, SeenOK, FlagsOK, seenVars

LEMMA EditPlanInv ==
  ASSUME Inv, NEW p \in Calls, Noted(p), EditPlan(p)
  PROVE  Inv'
<1> PICK i \in DOMAIN Listed :
      /\ objects[Listed[i]].row.ver < MaxVersion
      /\ Changed(Listed[i], [objects[Listed[i]] EXCEPT !.row.ver = @ + 1])
  BY DEF EditPlan, Findable
<1> DEFINE o == Listed[i]
           new == [objects[o] EXCEPT !.row.ver = @ + 1]
<1>1. o \in DOMAIN objects /\ objects[o] \in Plan
  BY NewestOK DEF Inv
<1>2. new \in Plan /\ new.id = objects[o].id /\ new.row.born = objects[o].row.born
  BY <1>1, TouchedOK
<1>3. Changed(o, new)
  OBVIOUS
<1> HIDE DEF o, new
<1> QED
  BY <1>1, <1>2, <1>3, ChangedInv DEF EditPlan, Inv, SeenOK

LEMMA CreatePhaseInv ==
  ASSUME Inv, NEW p \in Calls, Noted(p), CreatePhase(p)
  PROVE  Inv'
<1> PICK i \in DOMAIN Listed :
      LET o == Listed[i]  b == objects[o].row.born
          f == [of |-> b, no |-> phased[b] + 1]
      IN  /\ phased[b] < MaxPhase
          /\ phased' = [phased EXCEPT ![b] = @ + 1]
          /\ Changed(o, [objects[o] EXCEPT !.phases = @ \cup {f}])
          /\ Start(p, "add", o, f)
  BY DEF CreatePhase, Findable
<1> DEFINE o == Listed[i]
           b == objects[o].row.born
           f == [of |-> b, no |-> phased[b] + 1]
           new == [objects[o] EXCEPT !.phases = @ \cup {f}]
<1>1. o \in DOMAIN objects /\ objects[o] \in Plan /\ o \in Nat
  BY NewestOK DEF Inv
<1>2. b \in Born
  BY <1>1 DEF Plan, Row
<1>3. phased[b] \in 0 .. MaxPhase /\ phased[b] < MaxPhase
      /\ phased' = [phased EXCEPT ![b] = @ + 1]
  BY <1>2 DEF Inv, SeenOK
<1> HIDE DEF b
<1>4. phased' \in [Born -> 0 .. MaxPhase] /\ phased[b] + 1 \in 1 .. MaxPhase
  BY <1>2, <1>3, Bounds DEF Inv, SeenOK
<1>5. f \in Phases
  BY <1>2, <1>4 DEF Phases
<1> HIDE DEF f, o
<1>6. new \in Plan /\ new.id = objects[o].id /\ new.row.born = objects[o].row.born
  BY <1>1, <1>5 DEF Plan
<1>7. Changed(o, new) /\ Start(p, "add", o, f)
  BY DEF o, f, b
<1> HIDE DEF new
<1> QED
  BY <1>1, <1>4, <1>5, <1>6, <1>7, ChangedInv DEF CreatePhase

LEMMA DeletePhaseInv ==
  ASSUME Inv, NEW p \in Calls, Noted(p), DeletePhase(p)
  PROVE  Inv'
<1> PICK i \in DOMAIN Listed :
      \E f \in objects[Listed[i]].phases :
        /\ Changed(Listed[i], [objects[Listed[i]] EXCEPT !.phases = @ \ {f}])
        /\ Start(p, "remove", Listed[i], f)
  BY DEF DeletePhase, Findable
<1> DEFINE o == Listed[i]
<1> PICK f \in objects[o].phases :
      /\ Changed(o, [objects[o] EXCEPT !.phases = @ \ {f}])
      /\ Start(p, "remove", o, f)
  OBVIOUS
<1> DEFINE new == [objects[o] EXCEPT !.phases = @ \ {f}]
<1>1. o \in DOMAIN objects /\ objects[o] \in Plan /\ o \in Nat
  BY NewestOK DEF Inv
<1> HIDE DEF o
<1>2. f \in Phases /\ new \in Plan /\ new.id = objects[o].id
      /\ new.row.born = objects[o].row.born
  BY <1>1 DEF Plan
<1>3. Changed(o, new)
  OBVIOUS
<1> HIDE DEF new
<1> QED
  BY <1>1, <1>2, <1>3, ChangedInv DEF DeletePhase, Inv, SeenOK

LEMMA TouchPlanInv ==
  ASSUME Inv, NEW p \in Calls, Noted(p), TouchPlan(p)
  PROVE  Inv'
<1>1. Newest \in Nat /\ Newest \in DOMAIN arrays /\ loaded' \in BOOLEAN
  BY NewestOK DEF Inv, FlagsOK, TouchPlan, memVars
<1>2. CallOK(WalkFor("touch", Newest, 0, NoPhase), arrays, objects, ids, Safe, Doomed)
  BY <1>1, WalkForOK DEF Jobs, ForPlan
<1> QED
  BY <1>1, <1>2, CallMoves DEF TouchPlan, Start, memVars

LEMMA DeletePlanInv ==
  ASSUME Inv, NEW p \in Calls, Noted(p), DeletePlan(p)
  PROVE  Inv'
<1> PICK i \in DOMAIN Listed :
      /\ Edited(Spliced(Listed, i))
      /\ gone' = gone \cup {b \in DOMAIN ids : ids[b] = objects[Listed[i]].id}
      /\ Start(p, "delete", Listed[i], NoPhase)
  BY DEF DeletePlan, Findable
<1> DEFINE o == Listed[i]
<1>1. /\ MemOK /\ o \in DOMAIN objects /\ o \in Nat /\ Listed \in Seq(DOMAIN objects)
      /\ arrays # << >> /\ UNCHANGED <<objects, ids>>
  BY NewestOK DEF Inv, MemOK, DeletePlan
<1>2. Spliced(Listed, i) \in Seq(DOMAIN objects')
  BY <1>1, SplicedOK
<1>3. MemOK' /\ DOMAIN arrays' = DOMAIN arrays
  BY <1>1, <1>2, EditedOK DEF MemOK
<1>4. o \in Doomed'
  BY <1>1 DEF Doomed
<1> HIDE DEF o
<1>5. CallOK(WalkFor("delete", Newest, o, NoPhase), arrays', objects', ids, Safe', Doomed')
  BY <1>1, <1>3, <1>4, NewestOK, WalkForOK DEF Jobs
<1>6. gone' \subseteq DOMAIN ids /\ gone \subseteq gone'
  BY DEF Inv, SeenOK
<1>7. Becomes(p, WalkFor("delete", Newest, o, NoPhase))
  BY DEF Start, o
<1> QED
  BY <1>1, <1>3, <1>5, <1>6, <1>7, MemoryMoves DEF DeletePlan, Inv, SeenOK, FlagsOK, NamesOK

\* A plan that is renamed keeps its id and its birth.
LEMMA RenamedOK ==
  ASSUME NEW q \in Plan, q.row.ver < MaxVersion
  PROVE  Renamed(q) \in Plan /\ Renamed(q).id = q.id /\ Renamed(q).row.born = q.row.born
<1>1. q.row.ver + 1 \in 1 .. MaxVersion /\ BmsCode \in Ids
  BY Bounds, BoundAssumption DEF Plan, Row, Ids
<1> QED
  BY <1>1 DEF Renamed, Plan, Row

LEMMA GetPlansInv ==
  ASSUME Inv, NEW p \in Calls, Noted(p), GetPlans(p)
  PROVE  Inv'
<1> DEFINE kept == DOMAIN Listed \ Duplicates
<1> PICK list \in Filtered(Listed, kept) : arrays' = Append(arrays, list)
  BY DEF GetPlans
<1> PICK old \in SUBSET {Listed[k] : k \in kept} :
      /\ \A o \in old : objects[o].row.ver < MaxVersion
      /\ objects' = [o \in DOMAIN objects |->
                       IF o \in old THEN Renamed(objects[o]) ELSE objects[o]]
      /\ parted' = (parted \/ Duplicates # {} \/ old # {})
  BY DEF GetPlans
<1>1. /\ Listed \in Seq(DOMAIN objects) /\ arrays \in Seq(Seq(DOMAIN objects))
      /\ objects \in Seq(Plan)
  BY NewestOK DEF Inv, MemOK
<1>2. list \in Seq(DOMAIN objects)
  BY <1>1, FilteredOK
<1>3. /\ arrays' \in Seq(Seq(DOMAIN objects)) /\ arrays' # << >>
      /\ DOMAIN arrays \subseteq DOMAIN arrays'
  <2> DEFINE T == Seq(DOMAIN objects)
  <2>1. arrays \in Seq(T) /\ list \in T /\ arrays' = Append(arrays, list)
    BY <1>1, <1>2
  <2> HIDE DEF T
  <2>2. arrays' \in Seq(T) /\ Len(arrays') = Len(arrays) + 1 /\ Len(arrays) \in Nat
    BY <2>1
  <2>3. DOMAIN arrays = 1 .. Len(arrays) /\ DOMAIN arrays' = 1 .. Len(arrays')
    BY <2>1, <2>2
  <2>4. arrays' # << >> /\ DOMAIN arrays \subseteq DOMAIN arrays'
    BY <2>2, <2>3
  <2> QED
    BY <2>2, <2>4 DEF T
<1>4. \A o \in DOMAIN objects :
        objects'[o] \in Plan /\ objects'[o].id = objects[o].id
        /\ objects'[o].row.born = objects[o].row.born
  <2>1. \A o \in DOMAIN objects : objects[o] \in Plan
    BY <1>1
  <2> QED
    BY <2>1, RenamedOK
<1>5. objects' \in Seq(Plan) /\ DOMAIN objects' = DOMAIN objects
  <2>1. DOMAIN objects = 1 .. Len(objects) /\ Len(objects) \in Nat
    BY <1>1
  <2>2. objects' \in [DOMAIN objects -> Plan]
    BY <1>4
  <2> QED
    BY <2>1, <2>2
<1>6. MemOK'
  BY <1>3, <1>5 DEF MemOK
<1>7. \A o \in DOMAIN objects' : Names(ids, objects'[o].id, objects'[o].row)
  BY <1>4, <1>5 DEF Names, Inv, NamesOK
<1>8. CallOK(Idle, arrays', objects', ids', Safe', Doomed') /\ Becomes(p, Idle)
  BY RestsOK DEF GetPlans
<1>9. parted' \in BOOLEAN
  BY DEF Inv, SeenOK
<1>10. \A o \in DOMAIN objects : objects'[o].id = objects[o].id
  BY <1>4
<1>11. /\ gone' = gone /\ ids' = ids /\ phased' = phased /\ loaded' = loaded
       /\ UNCHANGED <<dbVars, ids, created, badVars>>
  BY DEF GetPlans
<1>12. gone' \subseteq DOMAIN ids /\ gone \subseteq gone' /\ phased' \in [Born -> 0 .. MaxPhase]
       /\ loaded' \in BOOLEAN
  BY <1>11 DEF Inv, SeenOK, FlagsOK
<1> QED
  BY <1>3, <1>5, <1>6, <1>7, <1>8, <1>9, <1>10, <1>11, <1>12, MemoryMoves

LEMMA RefuseInv ==
  ASSUME Inv, NEW p \in Calls, Noted(p), Refuse(p)
  PROVE  Inv'
<1>1. loaded' \in BOOLEAN
  BY DEF Inv, FlagsOK, Refuse, memVars
<1> QED
  BY <1>1, RestsOK, CallMoves DEF Refuse, memVars

-----------------------------------------------------------------------------
(***************************************************************************)
(* The statements that follow saveToDb, failures and restarts.             *)
(***************************************************************************)
\* The row that is dropped is of plans that are gone.
LEMMA DropRowInv ==
  ASSUME Inv, NEW p \in Calls, Noted(p), DropRow(p)
  PROVE  Inv'
<1> DEFINE c == call[p]
           i == objects[c.obj].id
           d == [c EXCEPT !.at = "dropphases"]
<1>1. /\ c.at = "drop" /\ c \in CallStates /\ CallOK(c, arrays, objects, ids, Safe, Doomed)
      /\ c.job = "delete" /\ c.obj \in Doomed
  BY CallAt DEF DropRow, At, CallOK
<1>2. \A b \in DOMAIN ids : ids[b] = i => b \in gone
  BY <1>1 DEF Doomed
<1>3. /\ rows' = [rows EXCEPT ![i] = NoRow] /\ Becomes(p, d)
      /\ UNCHANGED <<phaseRows, blob, objects, arrays, loaded, ids, phased, created, gone, parted, failed>>
      /\ UNCHANGED badVars
  BY DEF DropRow, Goto, Becomes, memVars, seenVars, badVars
<1> HIDE DEF i
<1>4. /\ rows' \in [Ids -> Row \cup {NoRow}] /\ Stored' \subseteq Stored
      /\ \A k \in Stored : k = i \/ k \in Stored'
      /\ \A k \in Stored' : rows'[k] = rows[k]
  BY <1>3 DEF Inv, DbOK, Stored, StoredIn
<1>5. Safe \subseteq Safe' /\ Doomed' = Doomed
  BY <1>2, <1>3, <1>4 DEF Safe, Doomed
<1>6. Kept
  BY <1>3, <1>5 DEF Kept, Inv, CallsOK, CallOK
<1>7. /\ d \in CallStates /\ d.at = "dropphases" /\ d.job = c.job /\ d.obj = c.obj
      /\ d.phase = c.phase
  BY <1>1 DEF CallStates, Labels
<1> HIDE DEF d
<1>8. CallOK(d, arrays, objects, ids, Safe, Doomed)
  BY <1>1, <1>7 DEF CallOK, Walks, Ends, ForPlan
<1>9. CallOK(d, arrays', objects', ids', Safe', Doomed')
  BY <1>1, <1>3, <1>5, <1>7, <1>8, CallKept
<1>10. MemOK' /\ DbOK' /\ IdsOK' /\ SeenOK' /\ loaded' \in BOOLEAN /\ created' \subseteq Safe'
  BY <1>3, <1>4, <1>5 DEF Inv, MemOK, DbOK, IdsOK, SeenOK, FlagsOK
<1>11. NamesOK'
  BY <1>3, <1>4 DEF Inv, NamesOK
<1> QED
  BY <1>3, <1>6, <1>9, <1>10, <1>11, NoneFails, Assembled

LEMMA PhaseStatementInv ==
  ASSUME Inv, NEW p \in Calls, Noted(p), DropPhases(p) \/ AddPhase(p) \/ DropPhase(p)
  PROVE  Inv'
<1>1. phaseRows' \subseteq [phase : Phases, id : Ids]
  <2>1. CASE DropPhases(p) \/ DropPhase(p)
    BY <2>1 DEF Inv, DbOK, DropPhases, DropPhase
  <2>2. CASE AddPhase(p)
    <3>1. call[p].phase \in Phases /\ call[p].obj \in DOMAIN objects
      BY <2>2, CallAt DEF AddPhase, At, CallOK, ForPlan
    <3>2. objects[call[p].obj] \in Plan
      BY <3>1 DEF Inv, MemOK
    <3>3. objects[call[p].obj].id \in Ids
      BY <3>2 DEF Plan
    <3> QED
      BY <2>2, <3>1, <3>3 DEF Inv, DbOK, AddPhase
  <2> QED
    BY <2>1, <2>2
<1>2. /\ Becomes(p, Idle)
      /\ UNCHANGED <<rows, blob, objects, arrays, loaded, ids, phased, created, gone, parted>>
      /\ UNCHANGED badVars
  BY DEF DropPhases, AddPhase, DropPhase, memVars, seenVars
<1>3. Stored' = Stored /\ Safe' = Safe
  BY <1>2 DEF Stored, Safe, badVars
<1>4. DbOK' /\ loaded' \in BOOLEAN
  BY <1>1, <1>2 DEF Inv, DbOK, FlagsOK
<1> QED
  BY <1>2, <1>3, <1>4, RestsOK, NoneFails, StoreMoves DEF Inv, NamesOK

\* Every save and load that fails is given up; nothing is promised from then on.
LEMMA FailInv ==
  ASSUME Inv, NEW p \in Calls, Noted(p), Fail(p)
  PROVE  Inv'
<1>1. /\ UNCHANGED <<rows, phaseRows, blob, objects, arrays, loaded, ids, phased, gone, parted, cut>>
      /\ failed' = TRUE /\ faults' = faults + 1 /\ faults < MaxFaults
  BY DEF Fail, dbVars, memVars
<1>2. Safe' = DOMAIN ids /\ Safe \subseteq Safe' /\ Doomed' = Doomed
  BY <1>1 DEF Safe, Doomed
<1>3. /\ created' \subseteq Safe'
      /\ \E c : Becomes(p, c) /\ CallOK(c, arrays, objects, ids, Safe', Doomed)
  <2>1. CallOK(call[p], arrays, objects, ids, Safe', Doomed)
    BY <1>2, CallAt, CallKept DEF CallOK
  <2>2. UNCHANGED created => created' \subseteq Safe'
    BY <1>2 DEF Inv
  <2>3. CASE Becomes(p, AfterLoad(p)) /\ UNCHANGED created
    BY <2>2, <2>3, AfterLoadOK
  <2>4. CASE call[p].at \in {"write", "ownwrite"} /\ NotSaved(p)
    <3>1. call[p].at = "ownwrite" /\ call[p].job = "create" => call[p].row.born \in Safe'
      BY <1>2, CallAt DEF CallOK, Names
    <3> QED
      BY <1>2, <2>4, <3>1, NotSavedMoves
  <2>5. CASE At(p, "blob") /\ Proceed(p) /\ UNCHANGED created
    BY <2>1, <2>2, <2>5, ProceedMoves DEF At
  <2>6. CASE Becomes(p, Idle) /\ UNCHANGED created
    BY <2>2, <2>6, RestsOK
  <2> QED
    BY <2>3, <2>4, <2>5, <2>6 DEF Fail
<1>4. PICK c : Becomes(p, c) /\ CallOK(c, arrays, objects, ids, Safe', Doomed)
  BY <1>3
<1>5. CallOK(c, arrays', objects', ids', Safe', Doomed')
  BY <1>1, <1>2, <1>4
<1>6. Kept
  BY <1>1, <1>2 DEF Kept, Inv, CallsOK, CallOK
<1>7. call' \in [Calls -> CallStates] /\ CallsOK'
  BY <1>4, <1>5, <1>6, OneMoves DEF Inv, Becomes
<1>8. begun' \in 0 .. MaxBegun /\ alone' \in BOOLEAN /\ faults' \in 0 .. MaxFaults
  BY <1>1, Bounds DEF Inv, FlagsOK, Noted
<1>9. FlagsOK'
  BY <1>1, <1>8 DEF Inv, FlagsOK
<1>10. MemOK' /\ DbOK' /\ IdsOK' /\ SeenOK' /\ NamesOK'
  BY <1>1, <1>2, <1>3 DEF Inv, MemOK, DbOK, IdsOK, SeenOK, NamesOK, Stored
<1> QED
  BY <1>3, <1>7, <1>9, <1>10 DEF Inv

LEMMA RestartInv ==
  ASSUME Inv, Restart
  PROVE  Inv'
<1>1. /\ UNCHANGED <<rows, phaseRows, blob, begun, ids, phased, created, gone, parted, alone, failed>>
      /\ objects' = << >> /\ arrays' = << << >> >> /\ loaded' = FALSE
      /\ faults' = faults + 1 /\ faults < MaxFaults
      /\ cut' = (cut \/ \E p \in Calls : ~At(p, "idle"))
      /\ call' = [p \in Calls |-> IF p = Boot THEN Loading ELSE Idle]
  BY DEF Restart, dbVars, seenVars
<1>2. \A p \in Calls : CallOK(call'[p], arrays', objects', ids', Safe', Doomed')
  BY <1>1, RestsOK
<1>3. call' \in [Calls -> CallStates] /\ CallsOK'
  BY <1>1, <1>2, RestsOK DEF CallsOK, CallOK
<1>4. MemOK' /\ DOMAIN objects' = {}
  BY <1>1 DEF MemOK
<1>5. faults' \in 0 .. MaxFaults /\ cut' \in BOOLEAN
  BY <1>1, Bounds DEF Inv, FlagsOK
<1>6. FlagsOK'
  BY <1>1, <1>5 DEF Inv, FlagsOK
<1>7. DbOK' /\ IdsOK' /\ SeenOK' /\ created' \subseteq Safe'
  BY <1>1 DEF Inv, DbOK, IdsOK, SeenOK, Safe, Stored
<1>8. NamesOK'
  BY <1>1, <1>4 DEF Inv, NamesOK, Stored
<1> QED
  BY <1>3, <1>4, <1>6, <1>7, <1>8 DEF Inv

-----------------------------------------------------------------------------
LEMMA StepInv ==
  ASSUME Inv, NEW p \in Calls, Step(p), Noted(p)
  PROVE  Inv'
  BY StartLoadInv, CountRowsInv, FetchRowsInv, FetchPhasesInv, SeedInv, PickInv, SelectRowInv,
     OwnInv, InsertRowInv, UpdateRowInv, SaveBlobInv, ChooseCodeInv, CreatePlanInv,
     UpdatePlanInv, EditPlanInv, TouchPlanInv, DeletePlanInv, CreatePhaseInv, DeletePhaseInv,
     GetPlansInv, RefuseInv, DropRowInv, PhaseStatementInv, FailInv, Zenon DEF Step

LEMMA StutterInv ==
  ASSUME Inv, UNCHANGED vars
  PROVE  Inv'
<1>1. UNCHANGED <<rows, phaseRows, blob, objects, arrays, loaded, call, begun, ids, phased,
                  created, gone, parted, alone, failed, cut, faults>>
  BY DEF vars, dbVars, memVars, seenVars, badVars
<1>2. Safe' = Safe /\ Doomed' = Doomed /\ Stored' = Stored
  BY <1>1 DEF Safe, Doomed, Stored
<1> QED
  BY <1>1, <1>2 DEF Inv, MemOK, DbOK, IdsOK, SeenOK, FlagsOK, CallsOK, NamesOK

LEMMA NextInv == Inv /\ [Next]_vars => Inv'
<1> SUFFICES ASSUME Inv, [Next]_vars PROVE Inv'
  OBVIOUS
<1>1. CASE UNCHANGED vars
  BY <1>1, StutterInv
<1>2. CASE Restart
  BY <1>2, RestartInv
<1>3. CASE \E p \in Calls : Step(p) /\ Noted(p)
  BY <1>3, StepInv
<1> QED
  BY <1>1, <1>2, <1>3 DEF Next

\* Whatever runs side by side, fails or is restarted, the next statement of every
\* call finds what it needs: every row, object and entry of the document names a
\* plan created with its id, and a deletion drops what is gone.
THEOREM Invariance == Spec => []Inv
<1>1. Inv /\ [Next]_vars => Inv'
  BY NextInv
<1> QED
  BY InitInv, <1>1, PTL DEF Spec

\* Whatever runs side by side, fails or is restarted, the tables, the document, the
\* lists and the local state of every call stay well-formed.
THEOREM PlansTyped == Spec => []TypeOK
<1>1. Inv => TypeOK
  BY DEF Inv, TypeOK, MemOK, DbOK, IdsOK, SeenOK, FlagsOK
<1> QED
  BY Invariance, <1>1, PTL

\* A plan whose creation was answered has a row until its deletion is asked for,
\* whatever saves of other requests, loads and restarts fall beside it.
THEOREM CreatedPlansStored == Spec => []CreatedIsStored
<1>1. Inv => CreatedIsStored
  BY DEF Inv, CreatedIsStored, Safe
<1> QED
  BY Invariance, <1>1, PTL
-----------------------------------------------------------------------------
(***************************************************************************)
(* Calls that run one at a time, before list and table are parted.  What   *)
(* the process shows are the plans of its list, each id at one place, and  *)
(* a call walks that list.                                                 *)
(***************************************************************************)
PlansOf(list, objs) == [k \in DOMAIN list |-> objs[list[k]]]
Shown == PlansOf(Listed, objects)

IdsIn(plans) == {plans[k].id : k \in DOMAIN plans}
Apart(plans) == \A j, k \in DOMAIN plans : plans[j].id = plans[k].id => j = k

Busy(p)   == ~At(p, "idle")
Others(p) == \A q \in Calls \ {p} : At(q, "idle")

\* The list a call walks.
Current(c, n) == c.at \in Walks => c.arr = n

AloneNow ==
  /\ \A p \in Calls : Busy(p) => Others(p)
  /\ Apart(blob) /\ Apart(Shown)
  /\ \A p \in Calls : Current(call[p], Newest)

\* How far a call has brought the rows into line with what is shown, when
\* mine is the plan it works for and t the table.
Upto(n, shown, t) == \A k \in DOMAIN shown : k < n => t[shown[k].id] = shown[k].row
Reached(c, shown) == IF c.at \in Walks THEN c.idx ELSE Len(shown) + 1
Extra(c, mine)    == IF c.job = "delete" /\ c.at # "dropphases" THEN {mine.id} ELSE {}

Synced(c, mine, shown, t) ==
  /\ Upto(Reached(c, shown), shown, t)
  /\ StoredIn(t) \subseteq IdsIn(shown) \cup Extra(c, mine)
  /\ \A k \in DOMAIN shown : shown[k].id \in StoredIn(t) => t[shown[k].id].born = shown[k].row.born
  /\ c.at \in {"select", "write"} =>
       c.idx \in DOMAIN shown /\ c.id = shown[c.idx].id /\ c.row = shown[c.idx].row
  /\ c.at = "ownwrite" => c.id = mine.id /\ c.row = mine.row
  /\ c.at \in {"write", "ownwrite"} => c.found = t[c.id]
  /\ c.at # "lookup" /\ c.job \in {"create", "update", "add", "remove"} =>
       \E k \in DOMAIN shown : shown[k] = mine
  /\ c.job = "delete" => mine.id \notin IdsIn(shown)

Loads   == {"count", "fetch", "phases", "doc"}
Mine(p) == objects[call[p].obj]

\* A call that is past its load, or would be if it began now.
Here(p) == call[p].at \notin Loads /\ (Busy(p) \/ (loaded /\ Quiet))

SyncNow ==
  \A p \in Calls :
    /\ At(p, "phases") => call[p].got = rows
    /\ At(p, "doc") => Stored = {}
    /\ Here(p) => Synced(call[p], Mine(p), Shown, rows)

\* Rows of phases are of stored plans and theirs, but for those a deletion is
\* about to drop; a phase that is about to be added is of the plan it is for.
Held(c, mine, t, held) ==
  /\ \A g \in held : \/ g.id \in StoredIn(t) /\ t[g.id].born = g.phase.of
                     \/ c.at = "dropphases" /\ g.id = mine.id
  /\ c.job = "add" => c.phase.of = mine.row.born

PhasesNow ==
  \A p \in Calls : Busy(p) \/ Quiet => Held(call[p], Mine(p), rows, phaseRows)

AloneInv ==
  alone /\ ~parted => AloneNow /\ (~failed => SyncNow /\ (~cut => PhasesNow))

LEMMA ShownOK ==
  ASSUME MemOK
  PROVE  /\ Shown \in Seq(Plan) /\ DOMAIN Shown = DOMAIN Listed /\ Len(Shown) = Len(Listed)
         /\ Len(Shown) \in Nat /\ DOMAIN Shown = 1 .. Len(Shown)
         /\ \A k \in DOMAIN Shown : Shown[k] = objects[Listed[k]] /\ Shown[k] \in Plan
<1>1. Listed \in Seq(DOMAIN objects) /\ \A k \in DOMAIN Listed : objects[Listed[k]] \in Plan
  BY NewestOK
<1> DEFINE list == Listed
<1>2. list \in Seq(DOMAIN objects) /\ \A k \in DOMAIN list : objects[list[k]] \in Plan
  BY <1>1
<1>3. Shown = [k \in DOMAIN list |-> objects[list[k]]]
  BY DEF Shown, PlansOf
<1> HIDE DEF list
<1>4. /\ Shown \in Seq(Plan) /\ DOMAIN Shown = DOMAIN list /\ Len(Shown) = Len(list)
      /\ Len(Shown) \in Nat /\ DOMAIN Shown = 1 .. Len(Shown)
      /\ \A k \in DOMAIN Shown : Shown[k] = objects[list[k]] /\ Shown[k] \in Plan
  BY <1>2, <1>3
<1> QED
  BY <1>4 DEF list

LEMMA ShownKept ==
  ASSUME UNCHANGED <<objects, arrays>>
  PROVE  Shown' = Shown /\ Newest' = Newest
  BY DEF Shown, PlansOf, Listed, Newest

LEMMA ShownReplaced ==
  ASSUME MemOK, NEW list \in Seq(Plan), Replaced(list)
  PROVE  Shown' = list /\ Newest' = Newest + 1
<1>1. /\ DOMAIN Listed' = DOMAIN list /\ \A i \in DOMAIN list : objects'[Listed'[i]] = list[i]
      /\ Newest' = Newest + 1
  BY ReplacedOK
<1>2. Shown' = [k \in DOMAIN list |-> list[k]]
  BY <1>1 DEF Shown, PlansOf
<1> QED
  BY <1>1, <1>2

\* A new plan in front of the others.
LEMMA PrependedOK ==
  ASSUME NEW S, NEW s \in Seq(S), NEW q \in S
  PROVE  LET u == <<q>> \o s
         IN  /\ u \in Seq(S) /\ DOMAIN u = 1 .. Len(s) + 1 /\ u[1] = q
             /\ \A k \in 1 .. Len(s) : u[k + 1] = s[k]
             /\ \A k \in DOMAIN u : k = 1 \/ (k - 1 \in 1 .. Len(s) /\ u[k] = s[k - 1])
<1> DEFINE u == <<q>> \o s
<1>1. <<q>> \in Seq(S) /\ Len(<<q>>) = 1 /\ <<q>>[1] = q /\ Len(s) \in Nat
  OBVIOUS
<1>2. /\ u \in Seq(S) /\ Len(u) = 1 + Len(s) /\ DOMAIN u = 1 .. Len(s) + 1
      /\ \A k \in 1 .. Len(s) + 1 : u[k] = IF k <= 1 THEN q ELSE s[k - 1]
  BY <1>1, ConcatProperties
<1> HIDE DEF u
<1>3. 1 \in 1 .. Len(s) + 1 /\ \A k \in 1 .. Len(s) : k + 1 \in 1 .. Len(s) + 1 /\ (k + 1) - 1 = k
  BY <1>1
<1>4. u[1] = q
  BY <1>2, <1>3
<1>5. \A k \in 1 .. Len(s) : u[k + 1] = s[k]
  <2> TAKE k \in 1 .. Len(s)
  <2>1. k + 1 \in 1 .. Len(s) + 1 /\ ~(k + 1 <= 1) /\ (k + 1) - 1 = k
    BY <1>1
  <2> QED
    BY <1>2, <2>1
<1>6. \A k \in DOMAIN u : k = 1 \/ (k - 1 \in 1 .. Len(s) /\ u[k] = s[k - 1])
  BY <1>1, <1>2
<1> QED
  BY <1>2, <1>4, <1>5, <1>6 DEF u

\* u is q and then what s holds; u is s without what it holds at i.
InFront(u, q, s, m) ==
  /\ m \in Nat /\ DOMAIN s = 1 .. m /\ DOMAIN u = 1 .. m + 1 /\ u[1] = q
  /\ \A k \in 1 .. m : u[k + 1] = s[k]
  /\ \A k \in 1 .. m + 1 : k = 1 \/ (k - 1 \in 1 .. m /\ u[k] = s[k - 1])

Without(u, i, s, m) ==
  /\ m \in Nat /\ i \in 1 .. m /\ DOMAIN s = 1 .. m /\ DOMAIN u = 1 .. m - 1
  /\ \A k \in 1 .. m - 1 : u[k] = IF k < i THEN s[k] ELSE s[k + 1]

LEMMA Prepends ==
  ASSUME NEW m, NEW s, NEW u, NEW q, InFront(u, q, s, m), Apart(s), q.id \notin IdsIn(s)
  PROVE  /\ Apart(u) /\ IdsIn(u) = IdsIn(s) \cup {q.id}
         /\ \A k \in DOMAIN u : u[k] = q \/ \E j \in DOMAIN s : u[k] = s[j]
         /\ \E k \in DOMAIN u : u[k] = q
<1> USE DEF InFront
<1>1. 1 \in 1 .. m + 1 /\ \A k \in 1 .. m : k + 1 \in 1 .. m + 1
  OBVIOUS
<1>2. \E k \in DOMAIN u : u[k] = q
  BY <1>1
<1>3. \A k \in DOMAIN u : u[k] = q \/ \E j \in DOMAIN s : u[k] = s[j]
  OBVIOUS
<1>4. \A j \in DOMAIN s : \E k \in DOMAIN u : u[k] = s[j]
  BY <1>1
<1>5. IdsIn(u) = IdsIn(s) \cup {q.id}
  BY <1>2, <1>3, <1>4 DEF IdsIn
<1>6. Apart(u)
  <2> SUFFICES ASSUME NEW j \in DOMAIN u, NEW k \in DOMAIN u, u[j].id = u[k].id
               PROVE  j = k
    BY DEF Apart
  <2>1. \A h \in DOMAIN s : s[h].id # q.id
    BY DEF IdsIn
  <2>a. ASSUME NEW h \in DOMAIN u, h # 1 PROVE u[h].id # q.id
    <3>1. h - 1 \in DOMAIN s /\ u[h] = s[h - 1]
      BY <2>a
    <3> QED
      BY <2>1, <3>1
  <2>2. CASE j = 1 \/ k = 1
    BY <2>2, <2>a
  <2>3. CASE j # 1 /\ k # 1
    <3>1. j - 1 \in DOMAIN s /\ k - 1 \in DOMAIN s /\ s[j - 1].id = s[k - 1].id
      BY <2>3
    <3>2. j - 1 = k - 1
      BY <3>1 DEF Apart
    <3> QED
      BY <3>2
  <2> QED
    BY <2>2, <2>3
<1> QED
  BY <1>2, <1>3, <1>5, <1>6

Ahead(n, list) == <<n>> \o list

LEMMA PlansPrepended ==
  ASSUME NEW objs, NEW objs2, NEW l \in Seq(DOMAIN objs), NEW n \in DOMAIN objs2,
         DOMAIN objs \subseteq DOMAIN objs2, \A o \in DOMAIN objs : objs2[o] = objs[o],
         Apart(PlansOf(l, objs)), objs2[n].id \notin IdsIn(PlansOf(l, objs))
  PROVE  LET s == PlansOf(l, objs)
             v == PlansOf(Ahead(n, l), objs2)
         IN  /\ Apart(v) /\ IdsIn(v) = IdsIn(s) \cup {objs2[n].id}
             /\ \A k \in DOMAIN v : v[k] = objs2[n] \/ \E j \in DOMAIN s : v[k] = s[j]
             /\ \E k \in DOMAIN v : v[k] = objs2[n]
<1> DEFINE m == Len(l)
           u == Ahead(n, l)
           s == PlansOf(l, objs)
           v == PlansOf(u, objs2)
<1>1. l \in Seq(DOMAIN objs2) /\ m \in Nat /\ DOMAIN l = 1 .. m
  BY SeqGrows
<1>2. /\ DOMAIN u = 1 .. m + 1 /\ u[1] = n
      /\ \A k \in 1 .. m : u[k + 1] = l[k]
      /\ \A k \in DOMAIN u : k = 1 \/ (k - 1 \in 1 .. m /\ u[k] = l[k - 1])
  BY <1>1, PrependedOK DEF Ahead
<1>3. \A k \in 1 .. m : objs2[l[k]] = objs[l[k]]
  BY <1>1
<1> HIDE DEF u, m
<1>4. DOMAIN v = DOMAIN u /\ \A k \in DOMAIN u : v[k] = objs2[u[k]]
  BY DEF PlansOf
<1>5. DOMAIN s = DOMAIN l /\ \A k \in DOMAIN l : s[k] = objs[l[k]]
  BY DEF PlansOf
<1>6. Apart(s) /\ objs2[n].id \notin IdsIn(s)
  OBVIOUS
<1> HIDE DEF s, v
<1>7. DOMAIN s = 1 .. m /\ DOMAIN v = 1 .. m + 1 /\ v[1] = objs2[n]
  BY <1>1, <1>2, <1>4, <1>5
<1>8. \A k \in 1 .. m : v[k + 1] = s[k]
  BY <1>1, <1>2, <1>3, <1>4, <1>5
<1>9. \A k \in 1 .. m + 1 : k = 1 \/ (k - 1 \in 1 .. m /\ v[k] = s[k - 1])
  BY <1>1, <1>2, <1>3, <1>4, <1>5
<1>a. InFront(v, objs2[n], s, m)
  BY <1>1, <1>7, <1>8, <1>9 DEF InFront
<1>10. /\ Apart(v) /\ IdsIn(v) = IdsIn(s) \cup {objs2[n].id}
       /\ \A k \in DOMAIN v : v[k] = objs2[n] \/ \E j \in DOMAIN s : v[k] = s[j]
       /\ \E k \in DOMAIN v : v[k] = objs2[n]
  BY <1>6, <1>a, Prepends
<1> QED
  BY <1>10 DEF s, v, u

\* A plan that is taken out.
LEMMA SplicedIs ==
  ASSUME NEW S, NEW s \in Seq(S), NEW i \in DOMAIN s
  PROVE  LET u == Spliced(s, i)
         IN  /\ Len(u) = Len(s) - 1 /\ DOMAIN u = 1 .. Len(s) - 1
             /\ \A k \in 1 .. Len(s) - 1 : u[k] = IF k < i THEN s[k] ELSE s[k + 1]
<1> DEFINE a == SubSeq(s, 1, i - 1)
           b == SubSeq(s, i + 1, Len(s))
<1>1. Len(s) \in Nat /\ i \in 1 .. Len(s)
  OBVIOUS
<1>2. a \in Seq(S) /\ Len(a) = i - 1 /\ \A k \in 1 .. i - 1 : a[k] = s[k]
  BY <1>1
<1>3. b \in Seq(S) /\ Len(b) = Len(s) - i /\ \A k \in 1 .. Len(s) - i : b[k] = s[i + k]
  BY <1>1
<1>4. Spliced(s, i) = a \o b
  BY DEF Spliced
<1> HIDE DEF a, b
<1>a. (i - 1) + (Len(s) - i) = Len(s) - 1
  BY <1>1
<1>b. /\ Len(a \o b) = Len(a) + Len(b)
      /\ \A k \in 1 .. Len(a) + Len(b) : (a \o b)[k] = IF k <= Len(a) THEN a[k] ELSE b[k - Len(a)]
      /\ a \o b \in Seq(S)
  BY <1>2, <1>3, ConcatProperties
<1>5. /\ Len(a \o b) = Len(s) - 1 /\ DOMAIN (a \o b) = 1 .. Len(s) - 1
      /\ \A k \in 1 .. Len(s) - 1 : (a \o b)[k] = IF k <= i - 1 THEN a[k] ELSE b[k - (i - 1)]
  <2>1. Len(a) = i - 1 /\ Len(a) + Len(b) = Len(s) - 1
    BY <1>2, <1>3, <1>a
  <2>2. Len(a \o b) = Len(s) - 1 /\ DOMAIN (a \o b) = 1 .. Len(a \o b)
    BY <1>b, <2>1
  <2> QED
    BY <1>b, <2>1, <2>2
<1>6. ASSUME NEW k \in 1 .. Len(s) - 1
      PROVE  (a \o b)[k] = IF k < i THEN s[k] ELSE s[k + 1]
  <2>1. CASE k < i
    BY <1>1, <1>2, <1>5, <1>6, <2>1
  <2>2. CASE ~(k < i)
    <3>1. k - (i - 1) \in 1 .. Len(s) - i /\ ~(k <= i - 1) /\ i + (k - (i - 1)) = k + 1
      BY <1>1, <1>6, <2>2
    <3> QED
      BY <1>3, <1>5, <1>6, <2>2, <3>1
  <2> QED
    BY <2>1, <2>2
<1> QED
  BY <1>4, <1>5, <1>6

LEMMA Splices ==
  ASSUME NEW m, NEW s, NEW u, NEW i, Without(u, i, s, m), Apart(s)
  PROVE  /\ Apart(u)
         /\ \A k \in DOMAIN u : \E j \in DOMAIN s : j # i /\ u[k] = s[j]
         /\ \A j \in DOMAIN s : j # i => \E k \in DOMAIN u : u[k] = s[j]
<1> USE DEF Without
<1>1. ASSUME NEW k \in DOMAIN u PROVE \E j \in DOMAIN s : j # i /\ u[k] = s[j]
  <2>1. CASE k < i
    BY <2>1
  <2>2. CASE ~(k < i)
    <3>1. k + 1 \in 1 .. m /\ k + 1 # i
      BY <2>2
    <3> QED
      BY <2>2, <3>1
  <2> QED
    BY <2>1, <2>2
<1>2. ASSUME NEW j \in DOMAIN s, j # i PROVE \E k \in DOMAIN u : u[k] = s[j]
  <2>1. CASE j < i
    <3>1. j \in 1 .. m - 1
      BY <2>1
    <3> QED
      BY <2>1, <3>1
  <2>2. CASE ~(j < i)
    <3>1. j - 1 \in 1 .. m - 1 /\ ~(j - 1 < i) /\ (j - 1) + 1 = j
      BY <1>2, <2>2
    <3>2. u[j - 1] = s[j]
      BY <3>1
    <3> QED
      BY <3>1, <3>2
  <2> QED
    BY <2>1, <2>2
<1>3. Apart(u)
  <2> SUFFICES ASSUME NEW j \in DOMAIN u, NEW k \in DOMAIN u, u[j].id = u[k].id
               PROVE  j = k
    BY DEF Apart
  <2> DEFINE at(h) == IF h < i THEN h ELSE h + 1
  <2>1. at(j) \in DOMAIN s /\ at(k) \in DOMAIN s /\ u[j] = s[at(j)] /\ u[k] = s[at(k)]
    OBVIOUS
  <2>2. at(j) = at(k)
    BY <2>1 DEF Apart
  <2> QED
    BY <2>2
<1> QED
  BY <1>1, <1>2, <1>3

LEMMA PlansSpliced ==
  ASSUME NEW objs, NEW l \in Seq(DOMAIN objs), NEW i \in DOMAIN l, Apart(PlansOf(l, objs))
  PROVE  LET s == PlansOf(l, objs)
             v == PlansOf(Spliced(l, i), objs)
         IN  /\ Apart(v) /\ i \in DOMAIN s /\ s[i] = objs[l[i]]
             /\ \A k \in DOMAIN v : \E j \in DOMAIN s : j # i /\ v[k] = s[j]
             /\ \A j \in DOMAIN s : j # i => \E k \in DOMAIN v : v[k] = s[j]
<1> DEFINE m == Len(l)
           u == Spliced(l, i)
           s == PlansOf(l, objs)
           v == PlansOf(u, objs)
<1>1. m \in Nat /\ DOMAIN l = 1 .. m /\ i \in 1 .. m
  OBVIOUS
<1>2. /\ DOMAIN u = 1 .. m - 1
      /\ \A k \in 1 .. m - 1 : u[k] = IF k < i THEN l[k] ELSE l[k + 1]
  BY <1>1, SplicedIs
<1>3. DOMAIN v = DOMAIN u /\ \A k \in DOMAIN u : v[k] = objs[u[k]]
  BY DEF PlansOf
<1>4. DOMAIN s = DOMAIN l /\ (\A k \in DOMAIN l : s[k] = objs[l[k]]) /\ Apart(s)
  BY DEF PlansOf
<1> HIDE DEF u, m, s, v
<1>5. \A k \in 1 .. m - 1 : k \in 1 .. m /\ k + 1 \in 1 .. m
  BY <1>1
<1>a. ASSUME NEW k \in 1 .. m - 1 PROVE v[k] = IF k < i THEN s[k] ELSE s[k + 1]
  <2>1. k \in DOMAIN l /\ k + 1 \in DOMAIN l /\ v[k] = objs[u[k]]
    BY <1>1, <1>2, <1>3, <1>5
  <2>2. s[k] = objs[l[k]] /\ s[k + 1] = objs[l[k + 1]]
    BY <1>4, <2>1
  <2> QED
    BY <1>2, <2>1, <2>2
<1>6. Without(v, i, s, m)
  BY <1>1, <1>2, <1>3, <1>4, <1>a DEF Without
<1>7. /\ Apart(v)
      /\ \A k \in DOMAIN v : \E j \in DOMAIN s : j # i /\ v[k] = s[j]
      /\ \A j \in DOMAIN s : j # i => \E k \in DOMAIN v : v[k] = s[j]
  BY <1>4, <1>6, Splices
<1>8. i \in DOMAIN s /\ s[i] = objs[l[i]]
  BY <1>1, <1>4
<1> QED
  BY <1>7, <1>8 DEF s, v, u

\* A plan that is replaced, or changed in place, by one with its id.
LEMMA ShownUpdated ==
  ASSUME MemOK, NEW i \in DOMAIN Shown, NEW q, q.id = Shown[i].id, Apart(Shown),
         DOMAIN Shown' = DOMAIN Shown,
         \A k \in DOMAIN Shown : Shown'[k] = IF k = i THEN q ELSE Shown[k]
  PROVE  Apart(Shown') /\ IdsIn(Shown') = IdsIn(Shown)
<1>1. \A k \in DOMAIN Shown : Shown'[k].id = Shown[k].id
  OBVIOUS
<1> QED
  BY <1>1 DEF Apart, IdsIn

\* u is s with q at i.
Swapped(u, i, q, s) ==
  /\ i \in DOMAIN s /\ DOMAIN u = DOMAIN s
  /\ \A k \in DOMAIN s : u[k] = IF k = i THEN q ELSE s[k]

LEMMA Swaps ==
  ASSUME NEW s, NEW u, NEW i, NEW q, Swapped(u, i, q, s), q.id = s[i].id, Apart(s)
  PROVE  Apart(u) /\ IdsIn(u) = IdsIn(s) /\ \E k \in DOMAIN u : u[k] = q
<1>1. DOMAIN u = DOMAIN s /\ \A k \in DOMAIN s : u[k].id = s[k].id
  BY DEF Swapped
<1> QED
  BY <1>1 DEF Apart, IdsIn, Swapped

\* A plan that is changed in place is at one place of the list.
LEMMA ShownChanged ==
  ASSUME MemOK, Apart(Shown), NEW i \in DOMAIN Listed, NEW q \in Plan, Changed(Listed[i], q),
         UNCHANGED arrays
  PROVE  Swapped(Shown', i, q, Shown) /\ Shown[i] = objects[Listed[i]] /\ Newest' = Newest
         /\ objects'[Listed[i]] = q
<1> DEFINE l == Listed
<1>1. \A k \in DOMAIN l : l[k] \in DOMAIN objects
  BY NewestOK
<1>2. DOMAIN objects' = DOMAIN objects
      /\ \A o \in DOMAIN objects : objects'[o] = IF o = l[i] THEN q ELSE objects[o]
  BY <1>1, ChangedOK
<1>3. Listed' = l /\ Newest' = Newest
  BY DEF Listed, Newest
<1> DEFINE s == Shown
           v == Shown'
<1>4. DOMAIN s = DOMAIN l /\ (\A k \in DOMAIN l : s[k] = objects[l[k]]) /\ Apart(s)
  BY DEF Shown, PlansOf
<1>5. DOMAIN v = DOMAIN l /\ \A k \in DOMAIN l : v[k] = objects'[l[k]]
  BY <1>3 DEF Shown, PlansOf
<1> HIDE DEF s, v
<1>6. ASSUME NEW k \in DOMAIN l PROVE v[k] = IF k = i THEN q ELSE s[k]
  <2>1. l[k] = l[i] => k = i
    BY <1>4 DEF Apart
  <2> QED
    BY <1>1, <1>2, <1>4, <1>5, <2>1
<1>7. Swapped(v, i, q, s)
  BY <1>4, <1>5, <1>6 DEF Swapped
<1> QED
  BY <1>1, <1>2, <1>3, <1>4, <1>7 DEF s, v

\* A plan that is replaced by a new object.
LEMMA PlansSwapped ==
  ASSUME NEW objs, NEW objs2, NEW l \in Seq(DOMAIN objs), NEW i \in DOMAIN l, NEW n,
         \A o \in DOMAIN objs : objs2[o] = objs[o]
  PROVE  Swapped(PlansOf([l EXCEPT ![i] = n], objs2), i, objs2[n], PlansOf(l, objs))
<1>1. \A k \in DOMAIN l : l[k] \in DOMAIN objs
  OBVIOUS
<1> QED
  BY <1>1 DEF Swapped, PlansOf

-----------------------------------------------------------------------------
\* What the states of a call hold.
LEMMA FieldsOf ==
  /\ Idle.at = "idle" /\ Idle.job = "none" /\ Loading.at = "count" /\ Loading.job = "none"
  /\ Acting.at = "act" /\ Acting.job = "none"
  /\ \A j, n, o, f :
       LET w == WalkFor(j, n, o, f)
       IN  w.at = "pick" /\ w.job = j /\ w.arr = n /\ w.idx = 1 /\ w.obj = o /\ w.phase = f
  /\ \A c : LET w == NextPick(c)
            IN  /\ w.at = "pick" /\ w.job = c.job /\ w.arr = c.arr /\ w.obj = c.obj
                /\ w.phase = c.phase /\ w.idx = c.idx + 1
  /\ \A l, j, o, f :
       LET w == [Idle EXCEPT !.at = l, !.job = j, !.obj = o, !.phase = f]
       IN  w.at = l /\ w.job = j /\ w.obj = o /\ w.phase = f
  /\ \A i : LET w == [Idle EXCEPT !.at = "lookup", !.job = "create", !.id = i]
            IN  w.at = "lookup" /\ w.job = "create" /\ w.id = i
<1> USE IdleTyped DEF CallStates
<1>1. Idle.at = "idle" /\ Idle.job = "none"
  BY DEF Idle
<1>2. Loading.at = "count" /\ Loading.job = "none" /\ Acting.at = "act" /\ Acting.job = "none"
  BY <1>1 DEF Loading, Acting
<1>3. ASSUME NEW j, NEW n, NEW o, NEW f
      PROVE  LET w == WalkFor(j, n, o, f)
             IN  w.at = "pick" /\ w.job = j /\ w.arr = n /\ w.idx = 1 /\ w.obj = o /\ w.phase = f
  BY DEF WalkFor
<1>4. ASSUME NEW c
      PROVE  LET w == NextPick(c)
             IN  /\ w.at = "pick" /\ w.job = c.job /\ w.arr = c.arr /\ w.obj = c.obj
                 /\ w.phase = c.phase /\ w.idx = c.idx + 1
  BY DEF WalkFor, NextPick
<1>5. ASSUME NEW l, NEW j, NEW o, NEW f
      PROVE  LET w == [Idle EXCEPT !.at = l, !.job = j, !.obj = o, !.phase = f]
             IN  w.at = l /\ w.job = j /\ w.obj = o /\ w.phase = f
  OBVIOUS
<1>6. ASSUME NEW i
      PROVE  LET w == [Idle EXCEPT !.at = "lookup", !.job = "create", !.id = i]
             IN  w.at = "lookup" /\ w.job = "create" /\ w.id = i
  OBVIOUS
<1> QED
  BY <1>1, <1>2, <1>3, <1>4, <1>5, <1>6

LEMMA AloneMoves ==
  ASSUME Inv, NEW p \in Calls, Others(p), NEW c, Becomes(p, c), Apart(blob'), Apart(Shown'),
         Current(c, Newest')
  PROVE  AloneNow'
<1>1. call'[p] = c /\ \A q \in Calls \ {p} : call'[q] = call[q] /\ call[q].at = "idle"
  BY DEF Inv, Becomes, Others, At
<1>2. \A q \in Calls : Busy(q)' => q = p
  BY <1>1 DEF Busy, At
<1>3. \A q \in Calls : Busy(q)' => Others(q)'
  BY <1>1, <1>2 DEF Others, At
<1>4. \A q \in Calls : Current(call'[q], Newest')
  BY <1>1 DEF Current, Walks
<1> QED
  BY <1>3, <1>4 DEF AloneNow

LEMMA AloneCall ==
  ASSUME Inv, AloneNow, NEW p \in Calls, Others(p), NEW c, Becomes(p, c),
         UNCHANGED <<objects, arrays, blob>>, Current(c, Newest)
  PROVE  AloneNow'
<1>1. Shown' = Shown /\ Newest' = Newest
  BY ShownKept
<1> QED
  BY <1>1, AloneMoves DEF AloneNow

\* A call that does not walk.
LEMMA CurrentAt ==
  ASSUME NEW c, c.at \notin Walks, NEW n
  PROVE  Current(c, n)
  BY DEF Current

LEMMA ProceedAlone ==
  ASSUME Inv, NEW p \in Calls, Proceed(p), NEW n
  PROVE  \E c : /\ Becomes(p, c) /\ Current(c, n)
                /\ c.at \in {"idle", "own", "drop", "addphase", "dropphase"}
<1>1. CASE Becomes(p, Idle)
  BY <1>1, FieldsOf, CurrentAt DEF Walks
<1>2. ASSUME NEW l \in {"own", "drop", "addphase", "dropphase"}, Walkless(p, l)
      PROVE  \E c : /\ Becomes(p, c) /\ Current(c, n)
                    /\ c.at \in {"idle", "own", "drop", "addphase", "dropphase"}
  <2> DEFINE c == [Idle EXCEPT !.at = l, !.job = call[p].job, !.obj = call[p].obj,
                               !.phase = call[p].phase]
  <2>1. c.at = l /\ Becomes(p, c)
    BY <1>2, FieldsOf DEF Walkless
  <2> HIDE DEF c
  <2> QED
    BY <2>1, CurrentAt DEF Walks
<1> QED
  BY <1>1, <1>2 DEF Proceed

LEMMA SavedAlone ==
  ASSUME Inv, AloneNow, NEW p \in Calls, Saved(p) \/ NotSaved(p)
  PROVE  \E c : Becomes(p, c) /\ Current(c, Newest)
<1>1. CASE Becomes(p, Idle) \/ Becomes(p, AfterLoad(p))
  BY <1>1, FieldsOf, CurrentAt DEF AfterLoad, Walks
<1>2. CASE At(p, "write") /\ call' = [call EXCEPT ![p] = NextPick(@)]
  <2>1. Becomes(p, NextPick(call[p]))
    BY <1>2 DEF Becomes
  <2>2. call[p].arr = Newest
    BY <1>2 DEF AloneNow, Current, At, Walks
  <2>3. Current(NextPick(call[p]), Newest)
    BY <2>2, FieldsOf DEF Current
  <2> QED
    BY <2>1, <2>3
<1>3. CASE Proceed(p)
  BY <1>3, ProceedAlone
<1> QED
  BY <1>1, <1>2, <1>3 DEF Saved, NotSaved

-----------------------------------------------------------------------------
(***************************************************************************)
(* What the requests do to what is shown, and the walk they start.         *)
(***************************************************************************)
LEMMA CreateShows ==
  ASSUME Inv, NEW p \in Calls, CreatePlan(p), Apart(Shown), ~parted'
  PROVE  \E n \in DOMAIN objects' :
           /\ Becomes(p, WalkFor("create", Newest, n, NoPhase)) /\ Newest' = Newest
           /\ objects'[n].id \notin IdsIn(Shown)
           /\ Apart(Shown') /\ IdsIn(Shown') = IdsIn(Shown) \cup {objects'[n].id}
           /\ \A k \in DOMAIN Shown' :
                Shown'[k] = objects'[n] \/ \E j \in DOMAIN Shown : Shown'[k] = Shown[j]
           /\ \E k \in DOMAIN Shown' : Shown'[k] = objects'[n]
<1> DEFINE b == Len(ids')
           n == Len(objects')
<1> PICK code \in Ids, i \in Ids, k \in 0 .. MaxPhase :
      LET a   == Len(ids) + 1
          new == [id |-> i, row |-> [born |-> a, ver |-> 1, code |-> code],
                  phases |-> Numbered(a, k)]
      IN  /\ ids' = Append(ids, i) /\ objects' = Append(objects, new)
          /\ parted' = (parted \/ \E q \in ListedPlans : q.id = i)
  BY DEF CreatePlan
<1> DEFINE new == [id |-> i, row |-> [born |-> b, ver |-> 1, code |-> code],
                   phases |-> Numbered(b, k)]
<1>2. MemOK /\ ids \in Seq(Ids)
  BY DEF Inv, IdsOK
<1>20. ids' = Append(ids, i) /\ b = Len(ids) + 1
  BY <1>2
<1>1. /\ Len(ids) < MaxPlan /\ objects' = Append(objects, new)
      /\ Edited(<<n>> \o Listed)
      /\ Start(p, "create", n, NoPhase)
  BY <1>20 DEF CreatePlan
<1>3. b \in Born
  BY <1>1, <1>2, <1>20, Bounds DEF Born
<1> HIDE DEF b
<1>4. new \in Plan /\ new.id = i
  BY <1>2, <1>3, Bounds DEF Plan, Row, Numbered
<1> HIDE DEF new
<1>5. /\ objects' \in Seq(Plan) /\ arrays \in Seq(Seq(DOMAIN objects')) /\ n \in DOMAIN objects'
      /\ DOMAIN objects \subseteq DOMAIN objects' /\ objects'[n] = new
      /\ \A o \in DOMAIN objects : objects'[o] = objects[o]
  BY <1>1, <1>2, <1>4, AppendedOK
<1> HIDE DEF n
<1>6. Listed \in Seq(DOMAIN objects) /\ Listed \in Seq(DOMAIN objects') /\ arrays # << >>
  BY <1>2, <1>5, NewestOK, SeqGrows DEF MemOK
<1>7. <<n>> \o Listed \in Seq(DOMAIN objects')
  BY <1>5, <1>6
<1>8. Newest' = Newest /\ Listed' = <<n>> \o Listed
  BY <1>1, <1>5, <1>6, <1>7, EditedOK
<1>12. i \notin IdsIn(Shown)
  <2>1. \A q \in ListedPlans : q.id # i
    OBVIOUS
  <2>2. \A j \in DOMAIN Shown : Shown[j] \in ListedPlans
    BY DEF Shown, PlansOf, ListedPlans
  <2> QED
    BY <2>1, <2>2 DEF IdsIn
<1>9. Apart(PlansOf(Listed, objects)) /\ objects'[n].id \notin IdsIn(PlansOf(Listed, objects))
  BY <1>4, <1>5, <1>12 DEF Shown
<1>a. /\ n \in DOMAIN objects' /\ DOMAIN objects \subseteq DOMAIN objects'
      /\ \A o \in DOMAIN objects : objects'[o] = objects[o]
  BY <1>5
<1>10. LET s == PlansOf(Listed, objects)
           v == PlansOf(Ahead(n, Listed), objects')
       IN  /\ Apart(v) /\ IdsIn(v) = IdsIn(s) \cup {objects'[n].id}
           /\ \A x \in DOMAIN v : v[x] = objects'[n] \/ \E j \in DOMAIN s : v[x] = s[j]
           /\ \E x \in DOMAIN v : v[x] = objects'[n]
  <2> DEFINE old == objects  now == objects'  list == Listed
  <2>1. /\ list \in Seq(DOMAIN old) /\ n \in DOMAIN now /\ DOMAIN old \subseteq DOMAIN now
        /\ \A o \in DOMAIN old : now[o] = old[o]
        /\ Apart(PlansOf(list, old)) /\ now[n].id \notin IdsIn(PlansOf(list, old))
    BY <1>6, <1>9, <1>a
  <2> HIDE DEF old, now, list
  <2>2. LET s == PlansOf(list, old)
            v == PlansOf(Ahead(n, list), now)
        IN  /\ Apart(v) /\ IdsIn(v) = IdsIn(s) \cup {now[n].id}
            /\ \A x \in DOMAIN v : v[x] = now[n] \/ \E j \in DOMAIN s : v[x] = s[j]
            /\ \E x \in DOMAIN v : v[x] = now[n]
    BY <2>1, PlansPrepended
  <2> QED
    BY <2>2 DEF old, now, list
<1>11. Shown' = PlansOf(Ahead(n, Listed), objects') /\ Shown = PlansOf(Listed, objects)
  BY <1>8 DEF Shown, Ahead
<1>13. Becomes(p, WalkFor("create", Newest, n, NoPhase))
  BY <1>1 DEF Start
<1> QED
  BY <1>5, <1>8, <1>9, <1>10, <1>11, <1>13

LEMMA UpdateShows ==
  ASSUME Inv, NEW p \in Calls, UpdatePlan(p)
  PROVE  \E i \in DOMAIN Shown : \E n \in DOMAIN objects' :
           /\ Becomes(p, WalkFor("update", Newest, n, NoPhase)) /\ Newest' = Newest
           /\ Swapped(Shown', i, objects'[n], Shown) /\ objects'[n].id = Shown[i].id
           /\ objects'[n].row.born = Shown[i].row.born
<1> DEFINE n == Len(objects')
<1> PICK i \in DOMAIN Listed :
      /\ objects[Listed[i]].row.ver < MaxVersion
      /\ \E k \in phased[objects[Listed[i]].row.born] .. MaxPhase :
           \E new \in Updates(objects[Listed[i]], k) : objects' = Append(objects, new)
      /\ Edited([Listed EXCEPT ![i] = n])
  BY DEF UpdatePlan, Findable
<1> DEFINE old == objects[Listed[i]]
<1> PICK k \in phased[old.row.born] .. MaxPhase :
      \E new \in Updates(old, k) : objects' = Append(objects, new)
  OBVIOUS
<1> PICK new \in Updates(old, k) : objects' = Append(objects, new)
  OBVIOUS
<1>1. MemOK /\ Listed[i] \in DOMAIN objects /\ old \in Plan
  BY NewestOK DEF Inv
<1>2. new \in Plan /\ new.id = old.id /\ new.row.born = old.row.born
  BY <1>1, UpdatesOK
<1>3. objects' = Append(objects, new)
  OBVIOUS
<1>4. /\ objects' \in Seq(Plan) /\ arrays \in Seq(Seq(DOMAIN objects')) /\ n \in DOMAIN objects'
      /\ DOMAIN objects \subseteq DOMAIN objects' /\ objects'[n] = new
      /\ \A o \in DOMAIN objects : objects'[o] = objects[o]
  BY <1>1, <1>2, <1>3, AppendedOK
<1>5. Becomes(p, WalkFor("update", Newest, n, NoPhase))
  BY DEF UpdatePlan, Start
<1> HIDE DEF n
<1>6. Listed \in Seq(DOMAIN objects) /\ Listed \in Seq(DOMAIN objects') /\ arrays # << >>
  BY <1>1, <1>4, NewestOK, SeqGrows DEF MemOK
<1>7. [Listed EXCEPT ![i] = n] \in Seq(DOMAIN objects')
  BY <1>4, <1>6
<1>8. Newest' = Newest /\ Listed' = [Listed EXCEPT ![i] = n]
  BY <1>4, <1>6, <1>7, EditedOK
<1>9. Swapped(PlansOf([Listed EXCEPT ![i] = n], objects'), i, objects'[n], PlansOf(Listed, objects))
  BY <1>4, <1>6, PlansSwapped
<1>10. Swapped(Shown', i, objects'[n], Shown)
  BY <1>8, <1>9 DEF Shown
<1>11. i \in DOMAIN Shown /\ Shown[i] = old
  BY <1>1, ShownOK
<1> QED
  BY <1>2, <1>4, <1>5, <1>8, <1>10, <1>11

LEMMA EditShows ==
  ASSUME Inv, NEW p \in Calls, EditPlan(p), Apart(Shown)
  PROVE  \E i \in DOMAIN Shown : \E q \in Plan :
           /\ Becomes(p, WalkFor("touch", Newest, 0, NoPhase)) /\ Newest' = Newest
           /\ Swapped(Shown', i, q, Shown) /\ q.id = Shown[i].id
           /\ q.row.born = Shown[i].row.born
<1> PICK i \in DOMAIN Listed :
      /\ objects[Listed[i]].row.ver < MaxVersion
      /\ Changed(Listed[i], [objects[Listed[i]] EXCEPT !.row.ver = @ + 1])
  BY DEF EditPlan, Findable
<1> DEFINE old == objects[Listed[i]]
           new == [old EXCEPT !.row.ver = @ + 1]
<1>1. MemOK /\ old \in Plan
  BY NewestOK DEF Inv
<1>2. new \in Plan /\ new.id = old.id /\ new.row.born = old.row.born
  BY <1>1, TouchedOK
<1>3. Changed(Listed[i], new) /\ UNCHANGED arrays
  BY DEF EditPlan
<1> HIDE DEF new
<1>4. Swapped(Shown', i, new, Shown) /\ Shown[i] = objects[Listed[i]] /\ Newest' = Newest
  BY <1>1, <1>2, <1>3, ShownChanged
<1>5. i \in DOMAIN Shown /\ Becomes(p, WalkFor("touch", Newest, 0, NoPhase))
  BY <1>4 DEF Swapped, EditPlan, Start
<1> QED
  BY <1>2, <1>4, <1>5

\* A phase that is created is of the plan it is shown with.
LEMMA PhaseShows ==
  ASSUME Inv, NEW p \in Calls, CreatePhase(p) \/ DeletePhase(p), Apart(Shown)
  PROVE  \E i \in DOMAIN Shown : \E o \in DOMAIN objects' : \E f : \E j \in {"add", "remove"} :
           /\ Becomes(p, WalkFor(j, Newest, o, f)) /\ Newest' = Newest
           /\ Swapped(Shown', i, objects'[o], Shown) /\ objects'[o].id = Shown[i].id
           /\ objects'[o].row = Shown[i].row
           /\ j = "add" => f.of = Shown[i].row.born
<1>1. MemOK /\ UNCHANGED arrays
  BY DEF Inv, CreatePhase, DeletePhase
<1>2. CASE CreatePhase(p)
  <2> PICK i \in DOMAIN Listed :
        LET o == Listed[i]  b == objects[o].row.born
            f == [of |-> b, no |-> phased[b] + 1]
        IN  /\ phased[b] < MaxPhase
            /\ Changed(o, [objects[o] EXCEPT !.phases = @ \cup {f}])
            /\ Start(p, "add", o, f)
    BY <1>2 DEF CreatePhase, Findable
  <2> DEFINE o == Listed[i]
             b == objects[o].row.born
             f == [of |-> b, no |-> phased[b] + 1]
             new == [objects[o] EXCEPT !.phases = @ \cup {f}]
  <2>1. o \in DOMAIN objects /\ objects[o] \in Plan
    BY <1>1, NewestOK
  <2>2. b \in Born
    BY <2>1 DEF Plan, Row
  <2>3. phased[b] \in 0 .. MaxPhase /\ phased[b] < MaxPhase
    BY <2>2 DEF Inv, SeenOK
  <2>4. f \in Phases /\ f.of = b
    BY <2>2, <2>3, Bounds DEF Phases
  <2>5. Changed(o, new) /\ Becomes(p, WalkFor("add", Newest, o, f))
    BY DEF Start
  <2> HIDE DEF f, o
  <2>6. new \in Plan /\ new.id = objects[o].id /\ new.row = objects[o].row
    BY <2>1, <2>4 DEF Plan
  <2> HIDE DEF new
  <2>7. Swapped(Shown', i, new, Shown) /\ Shown[i] = objects[o] /\ Newest' = Newest
        /\ objects'[o] = new
    BY <1>1, <2>5, <2>6, ShownChanged DEF o
  <2>8. i \in DOMAIN Shown /\ o \in DOMAIN objects'
    BY <1>1, <2>1, <2>5, <2>6, <2>7, ChangedOK DEF Swapped
  <2> QED
    BY <2>4, <2>5, <2>6, <2>7, <2>8
<1>3. CASE DeletePhase(p)
  <2> PICK i \in DOMAIN Listed :
        \E f \in objects[Listed[i]].phases :
          /\ Changed(Listed[i], [objects[Listed[i]] EXCEPT !.phases = @ \ {f}])
          /\ Start(p, "remove", Listed[i], f)
    BY <1>3 DEF DeletePhase, Findable
  <2> DEFINE o == Listed[i]
  <2> PICK f \in objects[o].phases :
        /\ Changed(o, [objects[o] EXCEPT !.phases = @ \ {f}])
        /\ Start(p, "remove", o, f)
    OBVIOUS
  <2> DEFINE new == [objects[o] EXCEPT !.phases = @ \ {f}]
  <2>1. o \in DOMAIN objects /\ objects[o] \in Plan
    BY <1>1, NewestOK
  <2>2. Changed(o, new) /\ Becomes(p, WalkFor("remove", Newest, o, f))
    BY DEF Start
  <2> HIDE DEF o
  <2>3. new \in Plan /\ new.id = objects[o].id /\ new.row = objects[o].row
    BY <2>1 DEF Plan
  <2> HIDE DEF new
  <2>4. Swapped(Shown', i, new, Shown) /\ Shown[i] = objects[o] /\ Newest' = Newest
        /\ objects'[o] = new
    BY <1>1, <2>2, <2>3, ShownChanged DEF o
  <2>5. i \in DOMAIN Shown /\ o \in DOMAIN objects'
    BY <1>1, <2>1, <2>2, <2>3, <2>4, ChangedOK DEF Swapped
  <2> QED
    BY <2>2, <2>3, <2>4, <2>5
<1> QED
  BY <1>2, <1>3

LEMMA DeleteShows ==
  ASSUME Inv, NEW p \in Calls, DeletePlan(p), Apart(Shown)
  PROVE  \E i \in DOMAIN Shown : \E o \in DOMAIN objects' :
           /\ Becomes(p, WalkFor("delete", Newest, o, NoPhase)) /\ Newest' = Newest
           /\ objects'[o] = Shown[i] /\ Apart(Shown')
           /\ \A k \in DOMAIN Shown' : \E j \in DOMAIN Shown : j # i /\ Shown'[k] = Shown[j]
           /\ \A j \in DOMAIN Shown : j # i => \E k \in DOMAIN Shown' : Shown'[k] = Shown[j]
<1> PICK i \in DOMAIN Listed :
      Edited(Spliced(Listed, i)) /\ Start(p, "delete", Listed[i], NoPhase)
  BY DEF DeletePlan, Findable
<1> DEFINE o == Listed[i]
<1>1. /\ MemOK /\ o \in DOMAIN objects /\ Listed \in Seq(DOMAIN objects)
      /\ arrays # << >> /\ UNCHANGED objects
  BY NewestOK DEF Inv, MemOK, DeletePlan
<1>2. Spliced(Listed, i) \in Seq(DOMAIN objects')
  BY <1>1, SplicedOK
<1>3. Newest' = Newest /\ Listed' = Spliced(Listed, i)
  BY <1>1, <1>2, EditedOK DEF MemOK
<1>4. Shown = PlansOf(Listed, objects) /\ Shown' = PlansOf(Spliced(Listed, i), objects)
  BY <1>1, <1>3 DEF Shown
<1>5. Apart(PlansOf(Listed, objects))
  BY <1>4
<1> DEFINE s == PlansOf(Listed, objects)
           v == PlansOf(Spliced(Listed, i), objects)
<1>6. /\ Apart(v) /\ i \in DOMAIN s /\ s[i] = objects[o]
      /\ \A k \in DOMAIN v : \E j \in DOMAIN s : j # i /\ v[k] = s[j]
      /\ \A j \in DOMAIN s : j # i => \E k \in DOMAIN v : v[k] = s[j]
  BY <1>1, <1>5, PlansSpliced
<1>7. Becomes(p, WalkFor("delete", Newest, o, NoPhase))
  BY DEF Start
<1> HIDE DEF s, v, o
<1>8. Shown = s /\ Shown' = v
  BY <1>4 DEF s, v
<1> QED
  BY <1>1, <1>3, <1>6, <1>7, <1>8

\* What a load shows is the table: every plan once.
LEMMA LoadShows ==
  ASSUME Inv, NEW p \in Calls, FetchPhases(p)
  PROVE  /\ Becomes(p, AfterLoad(p)) /\ Apart(Shown') /\ IdsIn(Shown') = StoredIn(call[p].got)
         /\ \A k \in DOMAIN Shown' : Shown'[k].row = call[p].got[Shown'[k].id]
<1> DEFINE got == call[p].got
           m == Cardinality(StoredIn(got))
<1> PICK s \in [1 .. m -> StoredIn(got)] :
      /\ \A i, j \in DOMAIN s : i # j => s[i] # s[j]
      /\ Replaced([i \in DOMAIN s |-> PlanOf(s[i], got[s[i]])])
  BY DEF FetchPhases
<1> DEFINE list == [i \in DOMAIN s |-> PlanOf(s[i], got[s[i]])]
<1>1. MemOK /\ DbOK /\ got \in [Ids -> Row \cup {NoRow}]
  BY CallAt DEF Inv, CallStates
<1>2. \A i \in DOMAIN s : s[i] \in Ids /\ got[s[i]] \in Row
  BY <1>1 DEF StoredIn
<1>3. \A i \in DOMAIN s : PlanOf(s[i], got[s[i]]) \in Plan
  BY <1>1, <1>2, PlanOfOK
<1>4. m \in Nat /\ IsFiniteSet(StoredIn(got)) /\ IsFiniteSet(1 .. m) /\ Cardinality(1 .. m) = m
  BY StoredInFinite, FS_Interval
<1>5. \A t \in StoredIn(got) : \E i \in 1 .. m : s[i] = t
  <2>1. s \in Injection(1 .. m, StoredIn(got))
    BY DEF Injection, IsInjective
  <2>2. s \in Surjection(1 .. m, StoredIn(got))
    BY <1>4, <2>1, FS_Injection
  <2> QED
    BY <2>2 DEF Surjection
<1> HIDE DEF m
<1>6. list \in Seq(Plan)
  BY <1>3, <1>4
<1>7. DOMAIN list = 1 .. m /\ \A i \in 1 .. m :
        list[i].id = s[i] /\ list[i].row = got[s[i]]
  BY DEF PlanOf
<1>8. Replaced(list)
  OBVIOUS
<1> HIDE DEF list
<1>9. Shown' = list
  BY <1>1, <1>6, <1>8, ShownReplaced
<1>10. Apart(list)
  BY <1>7 DEF Apart
<1>11. IdsIn(list) = StoredIn(got)
  BY <1>5, <1>7 DEF IdsIn
<1>12. \A k \in DOMAIN list : list[k].row = got[list[k].id]
  BY <1>7
<1>13. Becomes(p, AfterLoad(p))
  BY DEF FetchPhases
<1> QED
  BY <1>9, <1>10, <1>11, <1>12, <1>13

\* What is left of the document has each id at one place.
LEMMA SeedShows ==
  ASSUME Inv, NEW p \in Calls, Seed(p), Apart(blob)
  PROVE  /\ Becomes(p, WalkFor("seed", Newest + 1, 0, NoPhase)) /\ Newest' = Newest + 1
         /\ Apart(Shown')
<1>1. MemOK /\ blob \in Seq(Plan)
  BY DEF Inv, DbOK
<1> DEFINE kept == DOMAIN blob \ Demos
<1> PICK list \in Filtered(blob, kept) : Replaced(list)
  BY DEF Seed
<1>2. kept \in SUBSET DOMAIN blob
  OBVIOUS
<1> HIDE DEF kept
<1>3. list \in Seq(Plan)
  BY <1>1, <1>2, FilteredOK
<1> PICK at \in [DOMAIN list -> kept] :
      /\ \A k \in DOMAIN list : list[k] = blob[at[k]]
      /\ \A j, k \in DOMAIN list : at[j] = at[k] => j = k
  BY <1>1, <1>2, FilteredOK
<1>4. Shown' = list /\ Newest' = Newest + 1
  BY <1>1, <1>3, ShownReplaced
<1>5. \A j, k \in DOMAIN list : list[j].id = list[k].id => j = k
  <2> SUFFICES ASSUME NEW j \in DOMAIN list, NEW k \in DOMAIN list, list[j].id = list[k].id
               PROVE  j = k
    OBVIOUS
  <2>1. at[j] \in DOMAIN blob /\ at[k] \in DOMAIN blob /\ blob[at[j]].id = blob[at[k]].id
    BY <1>2
  <2>2. at[j] = at[k]
    BY <2>1 DEF Apart
  <2> QED
    BY <2>2
<1> QED
  BY <1>4, <1>5 DEF Apart, Seed

\* getPlans leaves everything as it is, or parts list and table.
LEMMA GetShows ==
  ASSUME Inv, NEW p \in Calls, GetPlans(p), ~parted'
  PROVE  UNCHANGED <<objects, loaded>> /\ Shown' = Shown
<1> DEFINE kept == DOMAIN Listed \ Duplicates
<1> PICK list \in Filtered(Listed, kept) : arrays' = Append(arrays, list)
  BY DEF GetPlans
<1> PICK old \in SUBSET {Listed[k] : k \in kept} :
      /\ objects' = [o \in DOMAIN objects |->
                       IF o \in old THEN Renamed(objects[o]) ELSE objects[o]]
      /\ parted' = (parted \/ Duplicates # {} \/ old # {})
  BY DEF GetPlans
<1>1. Duplicates = {} /\ old = {}
  OBVIOUS
<1>2. objects \in Seq(Plan) /\ arrays \in Seq(Seq(DOMAIN objects)) /\ Listed \in Seq(DOMAIN objects)
  BY NewestOK DEF Inv, MemOK
<1>3. objects' = [o \in DOMAIN objects |-> objects[o]]
  BY <1>1
<1>4. objects' = objects
  BY <1>2, <1>3
<1>5. kept = DOMAIN Listed
  BY <1>1
<1>6. list = Listed
  BY <1>2, <1>5, FilteredOK
<1>7. Listed' = Listed
  BY <1>2, <1>6 DEF Listed, Newest
<1> QED
  BY <1>4, <1>7 DEF Shown, GetPlans

-----------------------------------------------------------------------------
(***************************************************************************)
(* Codes, walks and lists of calls that run one at a time.                 *)
(***************************************************************************)
LEMMA LoadAlone ==
  ASSUME Inv, AloneNow, NEW p \in Calls, Others(p),
         StartLoad(p) \/ CountRows(p) \/ FetchRows(p) \/ FetchPhases(p) \/ Seed(p)
  PROVE  AloneNow'
<1>1. CASE StartLoad(p)
  BY <1>1, FieldsOf, CurrentAt, AloneCall DEF StartLoad, Walks, dbVars, memVars
<1>2. CASE CountRows(p)
  <2> PICK l \in {"fetch", "doc"} : Goto(p, l)
    BY <1>2 DEF CountRows
  <2> DEFINE c == [call[p] EXCEPT !.at = l]
  <2>1. c.at = l /\ Becomes(p, c)
    BY CallAt DEF CallStates, Goto, Becomes
  <2> HIDE DEF c
  <2> QED
    BY <1>2, <2>1, CurrentAt, AloneCall DEF CountRows, Walks, dbVars, memVars
<1>3. CASE FetchRows(p)
  <2> DEFINE c == [call[p] EXCEPT !.at = "phases", !.got = rows]
  <2>1. c.at = "phases" /\ Becomes(p, c)
    BY <1>3, CallAt DEF CallStates, FetchRows, Becomes
  <2> HIDE DEF c
  <2> QED
    BY <1>3, <2>1, CurrentAt, AloneCall DEF FetchRows, Walks, dbVars, memVars
<1>4. CASE FetchPhases(p)
  <2>1. Becomes(p, AfterLoad(p)) /\ Apart(Shown')
    BY <1>4, LoadShows
  <2>2. Current(AfterLoad(p), Newest')
    BY FieldsOf, CurrentAt DEF AfterLoad, Walks
  <2>3. UNCHANGED blob
    BY <1>4 DEF FetchPhases, dbVars
  <2> QED
    BY <2>1, <2>2, <2>3, AloneMoves DEF AloneNow
<1>5. CASE Seed(p)
  <2>1. UNCHANGED blob /\ Apart(blob)
    BY <1>5 DEF Seed, dbVars, AloneNow
  <2> DEFINE c == WalkFor("seed", Newest + 1, 0, NoPhase)
  <2>2. Becomes(p, c) /\ Newest' = Newest + 1 /\ Apart(Shown')
    BY <1>5, <2>1, SeedShows
  <2>3. Current(c, Newest')
    BY <2>2, FieldsOf DEF Current
  <2> HIDE DEF c
  <2> QED
    BY <2>1, <2>2, <2>3, AloneMoves
<1> QED
  BY <1>1, <1>2, <1>3, <1>4, <1>5

LEMMA WalkAlone ==
  ASSUME Inv, AloneNow, NEW p \in Calls, Others(p), Pick(p) \/ SelectRow(p) \/ Own(p)
  PROVE  AloneNow'
<1>1. UNCHANGED <<objects, arrays, blob>>
  BY DEF Pick, SelectRow, Own, dbVars, memVars
<1>2. call[p] \in CallStates /\ (call[p].at \in Walks => call[p].arr = Newest)
  BY CallAt DEF AloneNow, Current
<1>3. \E c : Becomes(p, c) /\ Current(c, Newest)
  <2>1. ASSUME NEW i, NEW r,
               call' = [call EXCEPT ![p].at = "select", ![p].id = i, ![p].row = r], At(p, "pick")
        PROVE  \E c : Becomes(p, c) /\ Current(c, Newest)
    <3> DEFINE c == [call[p] EXCEPT !.at = "select", !.id = i, !.row = r]
    <3>1. c.at = "select" /\ c.arr = call[p].arr /\ Becomes(p, c)
      BY <1>2, <2>1 DEF CallStates, Becomes
    <3> HIDE DEF c
    <3> QED
      BY <1>2, <2>1, <3>1 DEF Current, At, Walks
  <2>2. CASE Pick(p)
    <3>1. CASE Becomes(p, AfterLoad(p))
      BY <3>1, FieldsOf, CurrentAt DEF AfterLoad, Walks
    <3>2. CASE Walkless(p, "blob")
      <4> DEFINE c == [Idle EXCEPT !.at = "blob", !.job = call[p].job, !.obj = call[p].obj,
                                   !.phase = call[p].phase]
      <4>1. c.at = "blob" /\ Becomes(p, c)
        BY <3>2, FieldsOf DEF Walkless
      <4> HIDE DEF c
      <4> QED
        BY <4>1, CurrentAt DEF Walks
    <3> QED
      BY <2>1, <2>2, <3>1, <3>2 DEF Pick
  <2>3. CASE SelectRow(p)
    <3> DEFINE c == [call[p] EXCEPT !.at = "write", !.found = rows[call[p].id]]
    <3>1. c.at = "write" /\ c.arr = call[p].arr /\ Becomes(p, c)
      BY <1>2, <2>3 DEF CallStates, Becomes, SelectRow
    <3> HIDE DEF c
    <3> QED
      BY <1>2, <2>3, <3>1 DEF Current, At, Walks, SelectRow
  <2>4. CASE Own(p)
    <3> DEFINE q == objects[call[p].obj]
               c == [call[p] EXCEPT !.at = "ownwrite", !.id = q.id, !.row = q.row,
                                    !.found = rows[q.id]]
    <3>1. c.at = "ownwrite" /\ Becomes(p, c)
      BY <1>2, <2>4 DEF CallStates, Becomes, Own
    <3> HIDE DEF c
    <3> QED
      BY <3>1, CurrentAt DEF Walks
  <2> QED
    BY <2>2, <2>3, <2>4
<1> QED
  BY <1>1, <1>3, AloneCall

LEMMA SaveAlone ==
  ASSUME Inv, AloneNow, NEW p \in Calls, Others(p),
         InsertRow(p) \/ UpdateRow(p) \/ SaveBlob(p) \/ Fail(p)
  PROVE  AloneNow'
<1>1. CASE SaveBlob(p)
  <2>1. blob' = Shown /\ UNCHANGED <<objects, arrays>> /\ Proceed(p)
    BY <1>1 DEF SaveBlob, Shown, PlansOf, memVars
  <2>2. Shown' = Shown /\ Newest' = Newest
    BY <2>1, ShownKept
  <2>3. \E c : Becomes(p, c) /\ Current(c, Newest')
    BY <2>1, ProceedAlone
  <2> QED
    BY <2>1, <2>2, <2>3, AloneMoves DEF AloneNow
<1>2. CASE InsertRow(p) \/ UpdateRow(p)
  <2>1. UNCHANGED <<objects, arrays, blob>> /\ (Saved(p) \/ NotSaved(p))
    BY <1>2 DEF InsertRow, UpdateRow, Refused, memVars
  <2> QED
    BY <2>1, SavedAlone, AloneCall
<1>3. CASE Fail(p)
  <2>1. UNCHANGED <<objects, arrays, blob>>
    BY <1>3 DEF Fail, dbVars, memVars
  <2>2. CASE Becomes(p, AfterLoad(p)) \/ Becomes(p, Idle)
    BY <2>1, <2>2, FieldsOf, CurrentAt, AloneCall DEF AfterLoad, Walks
  <2>3. CASE NotSaved(p)
    BY <2>1, <2>3, SavedAlone, AloneCall
  <2>4. CASE Proceed(p)
    BY <2>1, <2>4, ProceedAlone, AloneCall
  <2> QED
    BY <1>3, <2>2, <2>3, <2>4 DEF Fail
<1> QED
  BY <1>1, <1>2, <1>3

LEMMA CodeAlone ==
  ASSUME Inv, AloneNow, NEW p \in Calls, Others(p), ChooseCode(p)
  PROVE  AloneNow'
<1> PICK n \in Ids \cup {0} :
      Becomes(p, [Idle EXCEPT !.at = "lookup", !.job = "create", !.id = n])
  BY DEF ChooseCode
<1> DEFINE c == [Idle EXCEPT !.at = "lookup", !.job = "create", !.id = n]
<1>1. c.at = "lookup" /\ Becomes(p, c)
  BY FieldsOf
<1> HIDE DEF c
<1> QED
  BY <1>1, CurrentAt, AloneCall DEF ChooseCode, dbVars, memVars, Walks

\* A walk that starts is of the list as it is.
LEMMA WalkStarts ==
  ASSUME NEW j, NEW o, NEW f, NEW n
  PROVE  Current(WalkFor(j, n, o, f), n)
  BY FieldsOf DEF Current

LEMMA RequestAlone ==
  ASSUME Inv, AloneNow, NEW p \in Calls, Others(p), ~parted',
         \/ CreatePlan(p) \/ UpdatePlan(p) \/ EditPlan(p) \/ TouchPlan(p) \/ DeletePlan(p)
         \/ CreatePhase(p) \/ DeletePhase(p)
  PROVE  AloneNow'
<1> Apart(Shown) /\ Apart(blob)
  BY DEF AloneNow
<1>1. UNCHANGED blob
  BY DEF CreatePlan, UpdatePlan, EditPlan, TouchPlan, DeletePlan, CreatePhase, DeletePhase, dbVars
<1>2. \E c : Becomes(p, c) /\ Current(c, Newest') /\ Apart(Shown')
  <2>1. CASE CreatePlan(p)
    <3>2. PICK n \in DOMAIN objects' :
            /\ Becomes(p, WalkFor("create", Newest, n, NoPhase)) /\ Newest' = Newest
            /\ Apart(Shown')
      BY <2>1, CreateShows
    <3> QED
      BY <3>2, WalkStarts
  <2>2. CASE UpdatePlan(p)
    <3>1. PICK i \in DOMAIN Shown, n \in DOMAIN objects' :
            /\ Becomes(p, WalkFor("update", Newest, n, NoPhase)) /\ Newest' = Newest
            /\ Swapped(Shown', i, objects'[n], Shown) /\ objects'[n].id = Shown[i].id
      BY <2>2, UpdateShows
    <3> QED
      BY <3>1, Swaps, WalkStarts
  <2>3. CASE EditPlan(p)
    <3>1. PICK i \in DOMAIN Shown, q \in Plan :
            /\ Becomes(p, WalkFor("touch", Newest, 0, NoPhase)) /\ Newest' = Newest
            /\ Swapped(Shown', i, q, Shown) /\ q.id = Shown[i].id
      BY <2>3, EditShows
    <3> QED
      BY <3>1, Swaps, WalkStarts
  <2>4. CASE TouchPlan(p)
    <3>1. Becomes(p, WalkFor("touch", Newest, 0, NoPhase)) /\ Newest' = Newest /\ Shown' = Shown
      BY <2>4, ShownKept DEF TouchPlan, Start, memVars
    <3> QED
      BY <3>1, WalkStarts
  <2>5. CASE DeletePlan(p)
    <3>1. PICK i \in DOMAIN Shown, o \in DOMAIN objects' :
            /\ Becomes(p, WalkFor("delete", Newest, o, NoPhase)) /\ Newest' = Newest
            /\ Apart(Shown')
      BY <2>5, DeleteShows
    <3> QED
      BY <3>1, WalkStarts
  <2>6. CASE CreatePhase(p) \/ DeletePhase(p)
    <3>1. PICK i \in DOMAIN Shown, o \in DOMAIN objects' : \E f : \E j \in {"add", "remove"} :
            /\ Becomes(p, WalkFor(j, Newest, o, f)) /\ Newest' = Newest
            /\ Swapped(Shown', i, objects'[o], Shown) /\ objects'[o].id = Shown[i].id
      BY <2>6, PhaseShows
    <3> QED
      BY <3>1, Swaps, WalkStarts
  <2> QED
    BY <2>1, <2>2, <2>3, <2>4, <2>5, <2>6
<1> QED
  BY <1>1, <1>2, AloneMoves

LEMMA EndAlone ==
  ASSUME Inv, AloneNow, NEW p \in Calls, Others(p), ~parted',
         \/ GetPlans(p) \/ Refuse(p) \/ DropRow(p) \/ DropPhases(p) \/ AddPhase(p) \/ DropPhase(p)
  PROVE  AloneNow'
<1>1. UNCHANGED blob
  BY DEF GetPlans, Refuse, DropRow, DropPhases, AddPhase, DropPhase, dbVars
<1>2. Shown' = Shown
  <2>1. CASE GetPlans(p)
    BY <2>1, GetShows
  <2>2. CASE UNCHANGED <<objects, arrays>>
    BY <2>2, ShownKept
  <2> QED
    BY <2>1, <2>2 DEF Refuse, DropRow, DropPhases, AddPhase, DropPhase, memVars
<1>3. \E c : Becomes(p, c) /\ c.at \in {"idle", "dropphases"}
  <2>1. CASE Becomes(p, Idle)
    BY <2>1, FieldsOf
  <2>2. CASE Goto(p, "dropphases")
    <3> DEFINE c == [call[p] EXCEPT !.at = "dropphases"]
    <3>1. c.at = "dropphases" /\ Becomes(p, c)
      BY <2>2, CallAt DEF CallStates, Goto, Becomes
    <3> QED
      BY <3>1
  <2> QED
    BY <2>1, <2>2 DEF GetPlans, Refuse, DropRow, DropPhases, AddPhase, DropPhase
<1> QED
  BY <1>1, <1>2, <1>3, CurrentAt, AloneMoves DEF AloneNow, Walks

LEMMA StepAlone ==
  ASSUME Inv, AloneNow, NEW p \in Calls, Others(p), Step(p), ~parted'
  PROVE  AloneNow'
  BY LoadAlone, WalkAlone, SaveAlone, CodeAlone, RequestAlone, EndAlone, Zenon DEF Step

-----------------------------------------------------------------------------
(***************************************************************************)
(* The table and what is shown, when calls run one at a time and no        *)
(* statement has failed.                                                   *)
(***************************************************************************)
Settled(s, t) ==
  /\ \A k \in DOMAIN s : t[s[k].id] = s[k].row
  /\ StoredIn(t) \subseteq IdsIn(s)

LEMMA UptoAll ==
  ASSUME NEW s \in Seq(Plan), NEW t, NEW n, n \notin DOMAIN s, n \in Nat \ {0}
  PROVE  Upto(n, s, t) <=> \A k \in DOMAIN s : t[s[k].id] = s[k].row
<1>1. \A k \in DOMAIN s : k < n
  OBVIOUS
<1> QED
  BY <1>1 DEF Upto

LEMMA RestSynced ==
  ASSUME NEW s \in Seq(Plan), NEW t, NEW c, NEW mine, c.at \notin Walks \cup {"ownwrite"},
         c.job \in {"none", "seed", "touch"} \/ (c.at = "lookup" /\ c.job = "create")
  PROVE  Synced(c, mine, s, t) <=> Settled(s, t)
<1>1. Len(s) + 1 \notin DOMAIN s /\ Len(s) + 1 \in Nat \ {0}
  OBVIOUS
<1>2. Upto(Len(s) + 1, s, t) <=> \A k \in DOMAIN s : t[s[k].id] = s[k].row
  BY <1>1, UptoAll
<1>3. Reached(c, s) = Len(s) + 1 /\ Extra(c, mine) = {}
  BY DEF Reached, Extra
<1> QED
  BY <1>2, <1>3 DEF Synced, Settled, Walks

\* A call that starts to walk what is shown now.
LEMMA WalkSynced ==
  ASSUME NEW s \in Seq(Plan), NEW t, NEW mine, NEW j, NEW n, NEW o, NEW f,
         StoredIn(t) \subseteq IdsIn(s) \cup (IF j = "delete" THEN {mine.id} ELSE {}),
         \A k \in DOMAIN s : s[k].id \in StoredIn(t) => t[s[k].id].born = s[k].row.born,
         j \in {"create", "update", "add", "remove"} => \E k \in DOMAIN s : s[k] = mine,
         j = "delete" => mine.id \notin IdsIn(s)
  PROVE  Synced(WalkFor(j, n, o, f), mine, s, t)
<1> DEFINE c == WalkFor(j, n, o, f)
<1>1. c.at = "pick" /\ c.job = j /\ c.idx = 1
  BY FieldsOf
<1> HIDE DEF c
<1>2. Upto(1, s, t)
  BY DEF Upto
<1>3. Reached(c, s) = 1 /\ Extra(c, mine) = IF j = "delete" THEN {mine.id} ELSE {}
  BY <1>1 DEF Reached, Extra, Walks
<1>4. Synced(c, mine, s, t)
  BY <1>1, <1>2, <1>3 DEF Synced
<1> QED
  BY <1>4 DEF c

\* A call whose walk is over, wherever it goes on.
LEMMA OverSynced ==
  ASSUME NEW s \in Seq(Plan), NEW t, NEW mine, NEW c, NEW d, Synced(c, mine, s, t),
         \A k \in DOMAIN s : t[s[k].id] = s[k].row, c.at \notin {"lookup", "dropphases"},
         d.at \in {"blob", "own", "drop", "addphase", "dropphase"}, d.job = c.job
  PROVE  Synced(d, mine, s, t)
<1>1. Len(s) + 1 \notin DOMAIN s /\ Len(s) + 1 \in Nat \ {0}
  OBVIOUS
<1>2. Upto(Len(s) + 1, s, t)
  BY <1>1, UptoAll
<1>3. Reached(d, s) = Len(s) + 1 /\ Extra(d, mine) = Extra(c, mine)
  BY DEF Reached, Extra, Walks
<1> QED
  BY <1>2, <1>3 DEF Synced

\* ... or comes to rest, unless it is to delete something.
LEMMA EndSettled ==
  ASSUME NEW s \in Seq(Plan), NEW t, NEW mine, NEW c, Synced(c, mine, s, t),
         \A k \in DOMAIN s : t[s[k].id] = s[k].row, c.job = "delete" => c.at = "dropphases"
  PROVE  Settled(s, t)
<1>1. Extra(c, mine) = {}
  BY DEF Extra
<1> QED
  BY <1>1 DEF Synced, Settled

LEMMA FullAt ==
  ASSUME NEW s \in Seq(Plan), NEW t, NEW mine, NEW c, Synced(c, mine, s, t), c.at \notin Walks
  PROVE  \A k \in DOMAIN s : t[s[k].id] = s[k].row
<1>1. Len(s) + 1 \notin DOMAIN s /\ Len(s) + 1 \in Nat \ {0}
  OBVIOUS
<1>2. Reached(c, s) = Len(s) + 1
  BY DEF Reached
<1> QED
  BY <1>1, <1>2, UptoAll DEF Synced

\* The row that is saved is brought into line, and those before it stay so.
LEMMA WriteSynced ==
  ASSUME NEW s \in Seq(Plan), NEW t \in [Ids -> Row \cup {NoRow}], NEW t2, NEW mine, NEW c, NEW d,
         Synced(c, mine, s, t), Apart(s), c.at = "write", c.id \in Ids, c.idx \in Nat,
         t2 = [t EXCEPT ![c.id] = c.row], d.at = "pick", d.job = c.job, d.idx = c.idx + 1
  PROVE  Synced(d, mine, s, t2)
<1> DEFINE i == c.idx
<1>1. /\ i \in DOMAIN s /\ c.id = s[i].id /\ c.row = s[i].row
      /\ \A k \in DOMAIN s : k < i => t[s[k].id] = s[k].row
  BY DEF Synced, Upto, Reached, Walks
<1>a. \A k \in DOMAIN s : s[k].id \in Ids
  <2>1. \A k \in DOMAIN s : s[k] \in Plan
    OBVIOUS
  <2> QED
    BY <2>1 DEF Plan
<1>2. \A k \in DOMAIN s : s[k].id \in Ids /\ (s[k].id = c.id => k = i)
  BY <1>1, <1>a DEF Apart
<1>3. \A k \in DOMAIN s : t2[s[k].id] = IF k = i THEN s[k].row ELSE t[s[k].id]
  BY <1>1, <1>2
<1>4. Upto(i + 1, s, t2)
  BY <1>1, <1>3 DEF Upto
<1>5. StoredIn(t2) \subseteq StoredIn(t) \cup {c.id} /\ c.id \in IdsIn(s)
  BY <1>1 DEF StoredIn, IdsIn
<1>6. Extra(d, mine) = Extra(c, mine) /\ Reached(d, s) = i + 1
  BY DEF Extra, Reached, Walks
<1>7. StoredIn(t2) \subseteq IdsIn(s) \cup Extra(d, mine)
  BY <1>5, <1>6 DEF Synced
<1>8. \A k \in DOMAIN s : s[k].id \in StoredIn(t2) => t2[s[k].id].born = s[k].row.born
  BY <1>3 DEF Synced, StoredIn
<1>9. d.at \notin {"select", "write", "ownwrite", "lookup"} /\ c.at # "lookup"
  OBVIOUS
<1> QED
  BY <1>4, <1>6, <1>7, <1>8, <1>9 DEF Synced

\* The row of a plan that is no longer shown is dropped.
LEMMA DropSynced ==
  ASSUME NEW s \in Seq(Plan), NEW t \in [Ids -> Row \cup {NoRow}], NEW t2, NEW mine, NEW c, NEW d,
         Synced(c, mine, s, t), c.at = "drop", c.job = "delete", mine.id \in Ids,
         t2 = [t EXCEPT ![mine.id] = NoRow], d.at = "dropphases", d.job = c.job
  PROVE  Synced(d, mine, s, t2)
<1>1. \A k \in DOMAIN s : t[s[k].id] = s[k].row
  BY FullAt DEF Walks
<1>2. mine.id \notin IdsIn(s) /\ StoredIn(t) \subseteq IdsIn(s) \cup {mine.id}
  BY DEF Synced, Extra
<1>3. \A k \in DOMAIN s : s[k].id # mine.id /\ t2[s[k].id] = s[k].row
  BY <1>1, <1>2 DEF IdsIn, Plan
<1>4. StoredIn(t2) \subseteq IdsIn(s)
  BY <1>2 DEF StoredIn
<1>5. Len(s) + 1 \notin DOMAIN s /\ Len(s) + 1 \in Nat \ {0}
  OBVIOUS
<1>6. Upto(Len(s) + 1, s, t2)
  BY <1>3, <1>5, UptoAll
<1>7. Reached(d, s) = Len(s) + 1
  BY DEF Reached, Walks
<1> QED
  BY <1>2, <1>3, <1>4, <1>6, <1>7 DEF Synced

-----------------------------------------------------------------------------
LEMMA ShownNext ==
  ASSUME MemOK'
  PROVE  Shown' \in Seq(Plan)
<1> DEFINE l == Listed'
           o == objects'
<1>1. o \in Seq(Plan) /\ arrays' \in Seq(Seq(DOMAIN o)) /\ arrays' # << >>
  BY DEF MemOK
<1>2. l \in Seq(DOMAIN o)
  BY <1>1 DEF Listed, Newest
<1>3. Shown' = [k \in DOMAIN l |-> o[l[k]]]
  BY DEF Shown, PlansOf
<1> HIDE DEF l, o
<1>4. \A k \in DOMAIN l : l[k] \in DOMAIN o /\ o[l[k]] \in Plan
  BY <1>1, <1>2
<1> QED
  BY <1>2, <1>3, <1>4

LEMMA SyncMoves ==
  ASSUME Inv, MemOK', NEW p \in Calls, Others(p), NEW c, Becomes(p, c),
         c.at = "phases" => c.got = rows', c.at = "doc" => Stored' = {},
         c.at \notin Loads /\ (c.at = "idle" => loaded') =>
           Synced(c, objects'[c.obj], Shown', rows'),
         c.at = "idle" => c.job = "none"
  PROVE  SyncNow'
<1>1. call'[p] = c /\ \A q \in Calls \ {p} : call'[q] = call[q] /\ call[q].at = "idle"
  BY DEF Inv, Becomes, Others, At
<1>2. \A q \in Calls : call[q].at = "idle" => call[q].job = "none"
  BY DEF Inv, CallsOK, CallOK, Walks, Ends
<1>3. Shown' \in Seq(Plan)
  BY ShownNext
<1> SUFFICES ASSUME NEW q \in Calls
             PROVE  /\ At(q, "phases")' => call'[q].got = rows'
                    /\ At(q, "doc")' => Stored' = {}
                    /\ Here(q)' => Synced(call'[q], Mine(q)', Shown', rows')
  BY DEF SyncNow
<1>4. CASE q = p
  <2>1. Here(p)' => c.at \notin Loads /\ (c.at = "idle" => loaded')
    BY <1>1 DEF Here, Busy, At
  <2>2. Mine(p)' = objects'[c.obj]
    BY <1>1 DEF Mine
  <2> QED
    BY <1>1, <1>4, <2>1, <2>2 DEF At
<1>5. CASE q # p
  <2>1. call'[q].at = "idle" /\ call'[q].job = "none"
    BY <1>1, <1>2, <1>5
  <2>2. Here(q)' => loaded' /\ c.at = "idle"
    BY <1>1, <2>1 DEF Here, Busy, At, Quiet
  <2>3. ASSUME Here(q)' PROVE Settled(Shown', rows')
    BY <1>3, <2>2, <2>3, RestSynced DEF Loads, Walks
  <2>4. ASSUME Here(q)' PROVE Synced(call'[q], Mine(q)', Shown', rows')
    BY <1>3, <2>1, <2>3, <2>4, RestSynced DEF Walks
  <2> QED
    BY <2>1, <2>4 DEF At
<1> QED
  BY <1>4, <1>5

LEMMA NowSynced ==
  ASSUME SyncNow, NEW p \in Calls, Others(p), call[p].at \notin Loads,
         call[p].at = "idle" => loaded
  PROVE  Synced(call[p], Mine(p), Shown, rows)
<1>1. Here(p)
  BY DEF Here, Busy, At, Quiet, Others
<1> QED
  BY <1>1 DEF SyncNow

LEMMA ReadySettled ==
  ASSUME Inv, SyncNow, NEW p \in Calls, Others(p), Ready(p)
  PROVE  Settled(Shown, rows)
<1>1. call[p].at \in {"idle", "act"} /\ call[p].job = "none" /\ (call[p].at = "idle" => loaded)
  BY CallAt DEF Ready, At, CallOK, Walks, Ends
<1>2. Synced(call[p], Mine(p), Shown, rows)
  BY <1>1, NowSynced DEF Loads
<1>3. Shown \in Seq(Plan)
  BY ShownOK DEF Inv
<1> QED
  BY <1>1, <1>2, <1>3, RestSynced DEF Walks

-----------------------------------------------------------------------------
LEMMA LoadSync ==
  ASSUME Inv, Inv', AloneNow, SyncNow, NEW p \in Calls, Others(p),
         StartLoad(p) \/ CountRows(p) \/ FetchRows(p) \/ FetchPhases(p) \/ Seed(p)
  PROVE  SyncNow'
<1> MemOK /\ MemOK'
  BY DEF Inv
<1>1. CASE StartLoad(p)
  BY <1>1, FieldsOf, SyncMoves DEF StartLoad, Loads
<1>2. CASE CountRows(p)
  <2> PICK l \in {"fetch", "doc"} : Goto(p, l) /\ (l = "doc" => Stored = {})
    BY <1>2 DEF CountRows
  <2> DEFINE c == [call[p] EXCEPT !.at = l]
  <2>1. c.at = l /\ Becomes(p, c)
    BY CallAt DEF CallStates, Goto, Becomes
  <2>2. Stored' = Stored
    BY <1>2 DEF CountRows, dbVars, Stored
  <2> HIDE DEF c
  <2> QED
    BY <2>1, <2>2, SyncMoves DEF Loads
<1>3. CASE FetchRows(p)
  <2> DEFINE c == [call[p] EXCEPT !.at = "phases", !.got = rows]
  <2>1. c.at = "phases" /\ c.got = rows' /\ Becomes(p, c)
    BY <1>3, CallAt DEF CallStates, FetchRows, Becomes, dbVars
  <2> HIDE DEF c
  <2> QED
    BY <2>1, SyncMoves DEF Loads
<1>4. CASE FetchPhases(p)
  <2>1. call[p].got = rows /\ UNCHANGED rows /\ loaded' = TRUE
    BY <1>4 DEF SyncNow, FetchPhases, dbVars
  <2>2. /\ Becomes(p, AfterLoad(p)) /\ IdsIn(Shown') = StoredIn(rows)
        /\ \A k \in DOMAIN Shown' : Shown'[k].row = rows[Shown'[k].id]
    BY <1>4, <2>1, LoadShows
  <2>3. Settled(Shown', rows')
    BY <2>1, <2>2 DEF Settled
  <2>4. AfterLoad(p).at \in {"idle", "act"} /\ AfterLoad(p).job = "none"
    BY FieldsOf DEF AfterLoad
  <2>5. Synced(AfterLoad(p), objects'[AfterLoad(p).obj], Shown', rows')
    BY <2>3, <2>4, ShownNext, RestSynced DEF Walks
  <2> QED
    BY <2>2, <2>4, <2>5, SyncMoves
<1>5. CASE Seed(p)
  <2>1. StoredIn(rows') = {}
    BY <1>5 DEF SyncNow, Seed, Stored, dbVars
  <2> DEFINE c == WalkFor("seed", Newest + 1, 0, NoPhase)
  <2>2. Synced(c, objects'[c.obj], Shown', rows')
    BY <2>1, ShownNext, WalkSynced
  <2>3. Becomes(p, c) /\ c.at = "pick"
    BY <1>5, FieldsOf DEF Seed
  <2> HIDE DEF c
  <2> QED
    BY <2>2, <2>3, SyncMoves
<1> QED
  BY <1>1, <1>2, <1>3, <1>4, <1>5

LEMMA PickSync ==
  ASSUME Inv, Inv', AloneNow, SyncNow, NEW p \in Calls, Others(p), Pick(p)
  PROVE  SyncNow'
<1> DEFINE c == call[p]
           i == c.idx
<1>1. /\ c.at = "pick" /\ c \in CallStates /\ c.arr = Newest /\ i \in Nat \ {0}
      /\ c.job \in Jobs
  BY CallAt DEF Pick, At, CallOK, CallStates, Walks, AloneNow, Current
<1>2. MemOK /\ MemOK' /\ Walked(p) = Listed
  BY <1>1 DEF Walked, Listed, Inv
<1>3. Synced(c, Mine(p), Shown, rows)
  BY <1>1, NowSynced DEF Loads
<1>4. UNCHANGED <<rows, objects, arrays>> /\ Shown' = Shown
  BY ShownKept DEF Pick, dbVars
<1>5. /\ Shown \in Seq(Plan) /\ Len(Shown) = Len(Listed) /\ DOMAIN Shown = 1 .. Len(Listed)
      /\ Len(Listed) \in Nat /\ \A k \in DOMAIN Shown : Shown[k] = objects[Listed[k]]
  BY <1>2, ShownOK
<1>6. CASE /\ i <= Len(Listed)
           /\ call' = [call EXCEPT ![p].at = "select", ![p].id = objects[Listed[i]].id,
                                   ![p].row = objects[Listed[i]].row]
  <2> DEFINE q == objects[Listed[i]]
             d == [c EXCEPT !.at = "select", !.id = q.id, !.row = q.row]
  <2>1. i \in DOMAIN Shown /\ Shown[i] = q
    BY <1>1, <1>5, <1>6
  <2>2. Becomes(p, d)
    BY <1>6 DEF Becomes
  <2> HIDE DEF q
  <2>3. /\ d.at = "select" /\ d.id = q.id /\ d.row = q.row /\ d.job = c.job /\ d.idx = i
        /\ d.obj = c.obj
    BY <1>1 DEF CallStates
  <2> HIDE DEF d
  <2>4. Reached(d, Shown) = Reached(c, Shown) /\ Extra(d, Mine(p)) = Extra(c, Mine(p))
    BY <1>1, <2>3 DEF Reached, Extra, Walks
  <2>5. Synced(d, Mine(p), Shown, rows)
    BY <1>1, <1>3, <2>1, <2>3, <2>4 DEF Synced
  <2>6. Synced(d, objects'[d.obj], Shown', rows')
    BY <1>4, <2>3, <2>5 DEF Mine
  <2> QED
    BY <1>2, <2>2, <2>3, <2>6, SyncMoves
<1>7. CASE i > Len(Listed)
  <2>1. \A k \in DOMAIN Shown : rows[Shown[k].id] = Shown[k].row
    <3>1. i \notin DOMAIN Shown
      BY <1>1, <1>5, <1>7
    <3>2. Reached(c, Shown) = i
      BY <1>1 DEF Reached, Walks
    <3> QED
      BY <1>1, <1>3, <1>5, <3>1, <3>2, UptoAll DEF Synced
  <2>2. CASE c.job = "seed" /\ loaded' = TRUE /\ Becomes(p, AfterLoad(p))
    <3>1. Settled(Shown', rows')
      BY <1>1, <1>3, <1>4, <1>5, <2>1, <2>2, EndSettled
    <3>2. AfterLoad(p).at \in {"idle", "act"} /\ AfterLoad(p).job = "none"
      BY FieldsOf DEF AfterLoad
    <3>3. Synced(AfterLoad(p), objects'[AfterLoad(p).obj], Shown', rows')
      BY <1>4, <1>5, <3>1, <3>2, RestSynced DEF Walks
    <3> QED
      BY <1>2, <2>2, <3>2, <3>3, SyncMoves
  <2>3. CASE Walkless(p, "blob")
    <3> DEFINE d == [Idle EXCEPT !.at = "blob", !.job = c.job, !.obj = c.obj, !.phase = c.phase]
    <3>1. d.at = "blob" /\ d.job = c.job /\ d.obj = c.obj /\ Becomes(p, d)
      BY <2>3, FieldsOf DEF Walkless
    <3> HIDE DEF d
    <3>2. Synced(d, Mine(p), Shown, rows)
      BY <1>1, <1>3, <1>5, <2>1, <3>1, OverSynced
    <3>3. Synced(d, objects'[d.obj], Shown', rows')
      BY <1>4, <3>1, <3>2 DEF Mine
    <3> QED
      BY <1>2, <3>1, <3>3, SyncMoves
  <2>4. ~(i <= Len(Walked(p)))
    BY <1>1, <1>2, <1>5, <1>7
  <2> QED
    BY <2>2, <2>3, <2>4 DEF Pick
<1> QED
  BY <1>1, <1>2, <1>5, <1>6, <1>7 DEF Pick

LEMMA SelectSync ==
  ASSUME Inv, Inv', AloneNow, SyncNow, NEW p \in Calls, Others(p), SelectRow(p) \/ Own(p)
  PROVE  SyncNow'
<1> DEFINE c == call[p]
<1>1. MemOK /\ MemOK' /\ c \in CallStates /\ c.at \in {"select", "own"}
  BY CallAt DEF Inv, SelectRow, Own, At
<1>2. Synced(c, Mine(p), Shown, rows)
  BY <1>1, NowSynced DEF Loads
<1>3. UNCHANGED <<rows, objects, arrays>> /\ Shown' = Shown
  BY ShownKept DEF SelectRow, Own, dbVars, memVars
<1>4. \E d : Becomes(p, d) /\ d.obj = c.obj /\ d.at \in {"write", "ownwrite"}
             /\ Synced(d, Mine(p), Shown, rows)
  <2>1. CASE SelectRow(p)
    <3> DEFINE d == [c EXCEPT !.at = "write", !.found = rows[c.id]]
    <3>1. Becomes(p, d) /\ c.at = "select"
      BY <2>1 DEF SelectRow, Becomes, At
    <3>2. /\ d.at = "write" /\ d.id = c.id /\ d.row = c.row /\ d.found = rows[c.id]
          /\ d.job = c.job /\ d.idx = c.idx /\ d.obj = c.obj
      BY <1>1 DEF CallStates
    <3> HIDE DEF d
    <3>3. Reached(d, Shown) = Reached(c, Shown) /\ Extra(d, Mine(p)) = Extra(c, Mine(p))
      BY <3>1, <3>2 DEF Reached, Extra, Walks
    <3>4. Synced(d, Mine(p), Shown, rows)
      BY <1>2, <3>1, <3>2, <3>3 DEF Synced
    <3> QED
      BY <3>1, <3>2, <3>4
  <2>2. CASE Own(p)
    <3> DEFINE q == Mine(p)
               d == [c EXCEPT !.at = "ownwrite", !.id = q.id, !.row = q.row, !.found = rows[q.id]]
    <3>1. Becomes(p, d) /\ c.at = "own"
      BY <2>2 DEF Own, Becomes, At, Mine
    <3> HIDE DEF q
    <3>2. /\ d.at = "ownwrite" /\ d.id = q.id /\ d.row = q.row /\ d.found = rows[q.id]
          /\ d.job = c.job /\ d.obj = c.obj
      BY <1>1 DEF CallStates
    <3> HIDE DEF d
    <3>3. Reached(d, Shown) = Reached(c, Shown) /\ Extra(d, Mine(p)) = Extra(c, Mine(p))
      BY <3>1, <3>2 DEF Reached, Extra, Walks
    <3>4. Synced(d, Mine(p), Shown, rows)
      BY <1>2, <3>1, <3>2, <3>3 DEF Synced, q
    <3> QED
      BY <3>1, <3>2, <3>4
  <2> QED
    BY <2>1, <2>2
<1>5. PICK d : Becomes(p, d) /\ d.obj = c.obj /\ d.at \in {"write", "ownwrite"}
               /\ Synced(d, Mine(p), Shown, rows)
  BY <1>4
<1>6. Synced(d, objects'[d.obj], Shown', rows')
  BY <1>3, <1>5 DEF Mine
<1> QED
  BY <1>1, <1>5, <1>6, SyncMoves

\* A SELECT that is still true: the whole row is saved.
LEMMA MergedIs ==
  ASSUME NEW now \in Row \cup {NoRow}, now # NoRow, NEW row \in Row
  PROVE  Merged(now, now, row) = row
  BY DEF Merged, Row

\* A row that is saved while nothing else runs: the INSERT and the UPDATE find
\* what the SELECT found.
LEMMA SavesAre ==
  ASSUME Inv, AloneNow, SyncNow, NEW p \in Calls, Others(p), InsertRow(p) \/ UpdateRow(p), ~failed'
  PROVE  \/ /\ call[p].at = "write" /\ call' = [call EXCEPT ![p] = NextPick(@)]
            /\ rows' = [rows EXCEPT ![call[p].id] = call[p].row]
         \/ /\ call[p].at = "ownwrite" /\ Becomes(p, Idle) /\ UNCHANGED rows
            /\ call[p].job \in {"create", "update"}
<1> DEFINE c == call[p]
<1>1. /\ c.at \in {"write", "ownwrite"} /\ c.id \in Ids /\ c.row \in Row
      /\ (c.at = "ownwrite" => c.job \in {"create", "update"})
  BY CallAt DEF InsertRow, UpdateRow, CallOK
<1>2. Synced(c, Mine(p), Shown, rows)
  BY <1>1, NowSynced DEF Loads
<1>3. rows \in [Ids -> Row \cup {NoRow}] /\ c.found = rows[c.id] /\ NoRow \notin Row
  BY <1>1, <1>2, Bounds DEF Synced, Inv, DbOK
<1>4. CASE c.at = "write"
  <2>1. Saved(p) /\ rows' = [rows EXCEPT ![c.id] = c.row]
    <3>1. c.found # NoRow => Merged(rows[c.id], c.found, c.row) = c.row
      BY <1>1, <1>3, MergedIs
    <3> QED
      BY <1>1, <1>3, <1>4, <3>1 DEF InsertRow, UpdateRow, Refused
  <2> QED
    BY <1>4, <2>1 DEF Saved, At
<1>5. CASE c.at = "ownwrite"
  <2>1. Shown \in Seq(Plan)
    BY ShownOK DEF Inv
  <2>2. \A k \in DOMAIN Shown : rows[Shown[k].id] = Shown[k].row
    BY <1>2, <1>5, <2>1, FullAt DEF Walks
  <2>3. PICK k \in DOMAIN Shown : Shown[k] = Mine(p)
    BY <1>1, <1>2, <1>5 DEF Synced
  <2>4. c.id = Mine(p).id /\ c.row = Mine(p).row
    BY <1>2, <1>5 DEF Synced
  <2>5. c.found = c.row
    BY <1>3, <2>2, <2>3, <2>4
  <2>6. UpdateRow(p) /\ UNCHANGED rows /\ Saved(p)
    <3>1. Merged(rows[c.id], c.found, c.row) = rows[c.id]
      BY <1>1, <1>3, <2>5, MergedIs
    <3> QED
      BY <1>1, <1>3, <2>5, <3>1 DEF InsertRow, UpdateRow
  <2> QED
    BY <1>1, <1>5, <2>6 DEF Saved, At
<1> QED
  BY <1>1, <1>4, <1>5

LEMMA SaveSync ==
  ASSUME Inv, Inv', AloneNow, SyncNow, NEW p \in Calls, Others(p), InsertRow(p) \/ UpdateRow(p), ~failed'
  PROVE  SyncNow'
<1> DEFINE c == call[p]
<1>1. /\ MemOK /\ MemOK' /\ c \in CallStates /\ c.at \in {"write", "ownwrite"} /\ c.id \in Ids
      /\ rows \in [Ids -> Row \cup {NoRow}] /\ Apart(Shown)
  BY CallAt DEF Inv, InsertRow, UpdateRow, CallOK, DbOK, AloneNow
<1>2. Synced(c, Mine(p), Shown, rows) /\ Shown \in Seq(Plan) /\ c.idx \in Nat
  BY <1>1, NowSynced, ShownOK DEF Loads, CallStates
<1>3. UNCHANGED <<objects, arrays>> /\ Shown' = Shown
  BY ShownKept DEF InsertRow, UpdateRow, memVars
<1>4. CASE /\ c.at = "write" /\ call' = [call EXCEPT ![p] = NextPick(@)]
           /\ rows' = [rows EXCEPT ![c.id] = c.row]
  <2> DEFINE d == NextPick(c)
  <2>1. Becomes(p, d) /\ d.at = "pick" /\ d.job = c.job /\ d.idx = c.idx + 1 /\ d.obj = c.obj
    BY <1>4, FieldsOf DEF Becomes
  <2> HIDE DEF d
  <2>2. Synced(d, Mine(p), Shown, rows')
    BY <1>1, <1>2, <1>4, <2>1, WriteSynced
  <2>3. Synced(d, objects'[d.obj], Shown', rows')
    BY <1>3, <2>1, <2>2 DEF Mine
  <2> QED
    BY <1>1, <2>1, <2>3, SyncMoves
<1>5. CASE /\ c.at = "ownwrite" /\ Becomes(p, Idle) /\ UNCHANGED rows
           /\ c.job \in {"create", "update"}
  <2>1. \A k \in DOMAIN Shown : rows[Shown[k].id] = Shown[k].row
    BY <1>2, <1>5, FullAt DEF Walks
  <2>2. Settled(Shown', rows')
    BY <1>2, <1>3, <1>5, <2>1, EndSettled
  <2>3. Synced(Idle, objects'[Idle.obj], Shown', rows')
    BY <1>2, <1>3, <2>2, FieldsOf, RestSynced DEF Walks
  <2> QED
    BY <1>1, <1>5, <2>3, FieldsOf, SyncMoves
<1> QED
  BY <1>4, <1>5, SavesAre

LEMMA ProceedSync ==
  ASSUME Inv, Inv', SyncNow, NEW p \in Calls, Others(p), SaveBlob(p)
  PROVE  SyncNow'
<1> DEFINE c == call[p]
<1>1. MemOK /\ MemOK' /\ c.at = "blob" /\ Proceed(p)
  BY DEF Inv, SaveBlob, At
<1>2. Synced(c, Mine(p), Shown, rows) /\ Shown \in Seq(Plan)
  BY <1>1, NowSynced, ShownOK DEF Loads
<1>3. \A k \in DOMAIN Shown : rows[Shown[k].id] = Shown[k].row
  BY <1>1, <1>2, FullAt DEF Walks
<1>4. UNCHANGED <<rows, objects, arrays>> /\ Shown' = Shown
  BY ShownKept DEF SaveBlob, memVars
<1>5. CASE c.job = "touch" /\ Becomes(p, Idle)
  <2>1. Settled(Shown', rows')
    BY <1>2, <1>3, <1>4, <1>5, EndSettled
  <2>2. Synced(Idle, objects'[Idle.obj], Shown', rows')
    BY <1>2, <1>4, <2>1, FieldsOf, RestSynced DEF Walks
  <2> QED
    BY <1>1, <1>5, <2>2, FieldsOf, SyncMoves
<1>6. ASSUME NEW l \in {"own", "drop", "addphase", "dropphase"}, Walkless(p, l)
      PROVE  SyncNow'
  <2> DEFINE d == [Idle EXCEPT !.at = l, !.job = c.job, !.obj = c.obj, !.phase = c.phase]
  <2>1. d.at = l /\ d.job = c.job /\ d.obj = c.obj /\ Becomes(p, d)
    BY <1>6, FieldsOf DEF Walkless
  <2> HIDE DEF d
  <2>2. Synced(d, Mine(p), Shown, rows)
    BY <1>1, <1>2, <1>3, <2>1, OverSynced
  <2>3. Synced(d, objects'[d.obj], Shown', rows')
    BY <1>4, <2>1, <2>2 DEF Mine
  <2> QED
    BY <1>1, <2>1, <2>3, SyncMoves
<1> QED
  BY <1>1, <1>5, <1>6 DEF Proceed

LEMMA CodeSync ==
  ASSUME Inv, Inv', SyncNow, NEW p \in Calls, Others(p), ChooseCode(p)
  PROVE  SyncNow'
<1> PICK n \in Ids \cup {0} :
      Becomes(p, [Idle EXCEPT !.at = "lookup", !.job = "create", !.id = n])
  BY DEF ChooseCode
<1> DEFINE c == [Idle EXCEPT !.at = "lookup", !.job = "create", !.id = n]
<1>1. c.at = "lookup" /\ c.job = "create" /\ Becomes(p, c)
  BY FieldsOf
<1> HIDE DEF c
<1>2. MemOK /\ MemOK' /\ Settled(Shown, rows) /\ Shown \in Seq(Plan)
  BY ReadySettled, ShownOK DEF Inv, ChooseCode
<1>3. Shown' = Shown /\ UNCHANGED rows
  BY ShownKept DEF ChooseCode, dbVars, memVars
<1>4. Synced(c, objects'[c.obj], Shown', rows')
  BY <1>1, <1>2, <1>3, RestSynced DEF Walks
<1> QED
  BY <1>1, <1>2, <1>4, SyncMoves

LEMMA CreateSync ==
  ASSUME Inv, Inv', AloneNow, SyncNow, NEW p \in Calls, Others(p), CreatePlan(p), ~parted'
  PROVE  SyncNow'
<1>1. MemOK /\ MemOK' /\ Shown \in Seq(Plan) /\ Shown' \in Seq(Plan) /\ UNCHANGED rows
      /\ Apart(Shown)
  BY ShownOK, ShownNext DEF Inv, CreatePlan, dbVars, AloneNow
<1>2. call[p].at = "lookup" /\ call[p].job = "create"
  BY CallAt DEF CreatePlan, At, CallOK
<1>3. Settled(Shown, rows)
  BY <1>1, <1>2, NowSynced, RestSynced DEF Loads, Walks
<1>4. PICK n \in DOMAIN objects' :
        /\ Becomes(p, WalkFor("create", Newest, n, NoPhase))
        /\ objects'[n].id \notin IdsIn(Shown)
        /\ IdsIn(Shown') = IdsIn(Shown) \cup {objects'[n].id}
        /\ \A k \in DOMAIN Shown' :
             Shown'[k] = objects'[n] \/ \E j \in DOMAIN Shown : Shown'[k] = Shown[j]
        /\ \E k \in DOMAIN Shown' : Shown'[k] = objects'[n]
  BY <1>1, CreateShows
<1>5. \A k \in DOMAIN Shown' :
        Shown'[k].id \in StoredIn(rows) => rows[Shown'[k].id].born = Shown'[k].row.born
  BY <1>3, <1>4 DEF Settled
<1>6. StoredIn(rows) \subseteq IdsIn(Shown')
  BY <1>3, <1>4 DEF Settled
<1> DEFINE c == WalkFor("create", Newest, n, NoPhase)
<1>7. Synced(c, objects'[n], Shown', rows)
  BY <1>1, <1>4, <1>5, <1>6, WalkSynced
<1>8. c.at = "pick" /\ c.obj = n /\ Becomes(p, c)
  BY <1>4, FieldsOf
<1> HIDE DEF c
<1>9. Synced(c, objects'[c.obj], Shown', rows')
  BY <1>1, <1>7, <1>8
<1> QED
  BY <1>1, <1>8, <1>9, SyncMoves

\* A request that changes a plan, whatever it changes of it.
LEMMA SwapSync ==
  ASSUME Inv, Inv', SyncNow, NEW p \in Calls, Others(p), Ready(p), UNCHANGED rows,
         NEW i, NEW q, NEW j \in {"touch", "update", "add", "remove"}, NEW o, NEW f,
         Becomes(p, WalkFor(j, Newest, o, f)), Swapped(Shown', i, q, Shown), q.id = Shown[i].id,
         q.row.born = Shown[i].row.born, j # "touch" => objects'[o] = q
  PROVE  SyncNow'
<1>1. MemOK /\ MemOK' /\ Shown' \in Seq(Plan) /\ Settled(Shown, rows)
  BY ShownNext, ReadySettled DEF Inv
<1>2. /\ \A k \in DOMAIN Shown' : Shown'[k].id = Shown[k].id
                                  /\ Shown'[k].row.born = Shown[k].row.born
      /\ DOMAIN Shown' = DOMAIN Shown /\ i \in DOMAIN Shown /\ Shown'[i] = q
  BY DEF Swapped
<1>3. StoredIn(rows) \subseteq IdsIn(Shown')
  BY <1>1, <1>2 DEF Settled, IdsIn
<1>4. \A k \in DOMAIN Shown' :
        Shown'[k].id \in StoredIn(rows) => rows[Shown'[k].id].born = Shown'[k].row.born
  BY <1>1, <1>2 DEF Settled
<1>5. j # "touch" => \E k \in DOMAIN Shown' : Shown'[k] = objects'[o]
  BY <1>2
<1> DEFINE c == WalkFor(j, Newest, o, f)
<1>6. Synced(c, objects'[o], Shown', rows)
  BY <1>1, <1>3, <1>4, <1>5, WalkSynced
<1>7. c.at = "pick" /\ c.obj = o /\ Becomes(p, c)
  BY FieldsOf
<1> HIDE DEF c
<1>8. Synced(c, objects'[c.obj], Shown', rows')
  BY <1>6, <1>7
<1> QED
  BY <1>1, <1>7, <1>8, SyncMoves

LEMMA TouchSync ==
  ASSUME Inv, Inv', SyncNow, NEW p \in Calls, Others(p), TouchPlan(p)
  PROVE  SyncNow'
<1>1. MemOK /\ MemOK' /\ Shown' \in Seq(Plan) /\ Settled(Shown, rows)
  BY ShownNext, ReadySettled DEF Inv, TouchPlan
<1>2. Shown' = Shown /\ UNCHANGED rows
  BY ShownKept DEF TouchPlan, dbVars, memVars
<1>3. \A k \in DOMAIN Shown' :
        Shown'[k].id \in StoredIn(rows) => rows[Shown'[k].id].born = Shown'[k].row.born
  BY <1>1, <1>2 DEF Settled
<1> DEFINE c == WalkFor("touch", Newest, 0, NoPhase)
<1>4. Synced(c, objects'[c.obj], Shown', rows')
  BY <1>1, <1>2, <1>3, WalkSynced DEF Settled
<1>5. c.at = "pick" /\ Becomes(p, c)
  BY FieldsOf DEF TouchPlan, Start
<1> HIDE DEF c
<1> QED
  BY <1>1, <1>4, <1>5, SyncMoves

LEMMA ChangeSync ==
  ASSUME Inv, Inv', AloneNow, SyncNow, NEW p \in Calls, Others(p),
         UpdatePlan(p) \/ EditPlan(p) \/ CreatePhase(p) \/ DeletePhase(p)
  PROVE  SyncNow'
<1>1. Apart(Shown) /\ Ready(p) /\ UNCHANGED rows
  BY DEF AloneNow, UpdatePlan, EditPlan, CreatePhase, DeletePhase, dbVars
<1>2. CASE UpdatePlan(p)
  <2>1. PICK i \in DOMAIN Shown, n \in DOMAIN objects' :
          /\ Becomes(p, WalkFor("update", Newest, n, NoPhase))
          /\ Swapped(Shown', i, objects'[n], Shown) /\ objects'[n].id = Shown[i].id
          /\ objects'[n].row.born = Shown[i].row.born
    BY <1>2, UpdateShows
  <2> QED
    BY <1>1, <2>1, SwapSync
<1>3. CASE EditPlan(p)
  <2>1. PICK i \in DOMAIN Shown, q \in Plan :
          /\ Becomes(p, WalkFor("touch", Newest, 0, NoPhase))
          /\ Swapped(Shown', i, q, Shown) /\ q.id = Shown[i].id
          /\ q.row.born = Shown[i].row.born
    BY <1>1, <1>3, EditShows
  <2> QED
    BY <1>1, <2>1, SwapSync
<1>4. CASE CreatePhase(p) \/ DeletePhase(p)
  <2>1. PICK i \in DOMAIN Shown, o \in DOMAIN objects' : \E f : \E j \in {"add", "remove"} :
          /\ Becomes(p, WalkFor(j, Newest, o, f))
          /\ Swapped(Shown', i, objects'[o], Shown) /\ objects'[o].id = Shown[i].id
          /\ objects'[o].row = Shown[i].row
    BY <1>1, <1>4, PhaseShows
  <2> QED
    BY <1>1, <2>1, SwapSync
<1> QED
  BY <1>2, <1>3, <1>4

LEMMA DeleteSync ==
  ASSUME Inv, Inv', AloneNow, SyncNow, NEW p \in Calls, Others(p), DeletePlan(p)
  PROVE  SyncNow'
<1>1. MemOK /\ MemOK' /\ Shown' \in Seq(Plan) /\ Settled(Shown, rows) /\ Apart(Shown)
      /\ UNCHANGED rows
  BY ShownNext, ReadySettled DEF Inv, DeletePlan, AloneNow, dbVars
<1>2. PICK i \in DOMAIN Shown, o \in DOMAIN objects' :
        /\ Becomes(p, WalkFor("delete", Newest, o, NoPhase)) /\ objects'[o] = Shown[i]
        /\ \A k \in DOMAIN Shown' : \E j \in DOMAIN Shown : j # i /\ Shown'[k] = Shown[j]
        /\ \A j \in DOMAIN Shown : j # i => \E k \in DOMAIN Shown' : Shown'[k] = Shown[j]
  BY <1>1, DeleteShows
<1>3. objects'[o].id \notin IdsIn(Shown')
  BY <1>1, <1>2 DEF IdsIn, Apart
<1>4. StoredIn(rows) \subseteq IdsIn(Shown') \cup {objects'[o].id}
  BY <1>1, <1>2 DEF Settled, IdsIn
<1>5. \A k \in DOMAIN Shown' :
        Shown'[k].id \in StoredIn(rows) => rows[Shown'[k].id].born = Shown'[k].row.born
  BY <1>1, <1>2 DEF Settled
<1> DEFINE c == WalkFor("delete", Newest, o, NoPhase)
<1>6. Synced(c, objects'[o], Shown', rows)
  BY <1>1, <1>3, <1>4, <1>5, WalkSynced
<1>7. c.at = "pick" /\ c.obj = o /\ Becomes(p, c)
  BY <1>2, FieldsOf
<1> HIDE DEF c
<1>8. Synced(c, objects'[c.obj], Shown', rows')
  BY <1>1, <1>6, <1>7
<1> QED
  BY <1>1, <1>7, <1>8, SyncMoves

LEMMA ShownStays ==
  ASSUME Inv, NEW p \in Calls, ~parted',
         \/ GetPlans(p) \/ Refuse(p) \/ DropRow(p) \/ DropPhases(p) \/ AddPhase(p) \/ DropPhase(p)
  PROVE  Shown' = Shown /\ UNCHANGED <<objects, loaded>>
<1>1. CASE GetPlans(p)
  BY <1>1, GetShows
<1>2. CASE UNCHANGED <<objects, arrays, loaded>>
  BY <1>2, ShownKept
<1> QED
  BY <1>1, <1>2 DEF Refuse, DropRow, DropPhases, AddPhase, DropPhase, memVars

LEMMA RestSync ==
  ASSUME Inv, Inv', SyncNow, NEW p \in Calls, Others(p), ~parted',
         \/ GetPlans(p) \/ Refuse(p) \/ DropPhases(p) \/ AddPhase(p) \/ DropPhase(p)
  PROVE  SyncNow'
<1>1. MemOK /\ MemOK' /\ Shown \in Seq(Plan) /\ Shown' = Shown /\ UNCHANGED rows
  BY ShownOK, ShownStays DEF Inv, GetPlans, Refuse, DropPhases, AddPhase, DropPhase, dbVars
<1>2. Settled(Shown, rows)
  <2>1. CASE GetPlans(p) \/ Refuse(p)
    BY <2>1, ReadySettled DEF GetPlans, Refuse, Ready
  <2>2. CASE DropPhases(p) \/ AddPhase(p) \/ DropPhase(p)
    <3>1. /\ call[p].at \in {"dropphases", "addphase", "dropphase"}
          /\ call[p].job = "delete" => call[p].at = "dropphases"
      BY <2>2, CallAt DEF DropPhases, AddPhase, DropPhase, At, CallOK
    <3>2. Synced(call[p], Mine(p), Shown, rows)
      BY <3>1, NowSynced DEF Loads
    <3>3. \A k \in DOMAIN Shown : rows[Shown[k].id] = Shown[k].row
      BY <1>1, <3>1, <3>2, FullAt DEF Walks
    <3> QED
      BY <1>1, <3>1, <3>2, <3>3, EndSettled
  <2> QED
    BY <2>1, <2>2
<1>3. Becomes(p, Idle)
  BY DEF GetPlans, Refuse, DropPhases, AddPhase, DropPhase
<1>4. Synced(Idle, objects'[Idle.obj], Shown', rows')
  BY <1>1, <1>2, FieldsOf, RestSynced DEF Walks
<1> QED
  BY <1>1, <1>3, <1>4, FieldsOf, SyncMoves

LEMMA DropSync ==
  ASSUME Inv, Inv', SyncNow, NEW p \in Calls, Others(p), ~parted', DropRow(p)
  PROVE  SyncNow'
<1> DEFINE c == call[p]
           d == [c EXCEPT !.at = "dropphases"]
<1>1. /\ MemOK /\ MemOK' /\ Shown \in Seq(Plan) /\ Shown' = Shown /\ UNCHANGED objects
      /\ rows \in [Ids -> Row \cup {NoRow}]
  BY ShownOK, ShownStays DEF Inv, DbOK
<1>2. c.at = "drop" /\ c.job = "delete" /\ c \in CallStates /\ c.obj \in DOMAIN objects
  BY CallAt DEF DropRow, At, CallOK, ForPlan
<1>3. Mine(p).id \in Ids
  <2>1. Mine(p) \in Plan
    BY <1>1, <1>2 DEF Mine, MemOK
  <2> QED
    BY <2>1 DEF Plan
<1>4. rows' = [rows EXCEPT ![Mine(p).id] = NoRow] /\ Becomes(p, d)
  BY DEF DropRow, Mine, Goto, Becomes
<1>5. d.at = "dropphases" /\ d.job = c.job /\ d.obj = c.obj
  BY <1>2 DEF CallStates
<1> HIDE DEF d
<1>6. Synced(c, Mine(p), Shown, rows)
  BY <1>2, NowSynced DEF Loads
<1>7. Synced(d, Mine(p), Shown, rows')
  BY <1>1, <1>2, <1>3, <1>4, <1>5, <1>6, DropSynced
<1>8. Synced(d, objects'[d.obj], Shown', rows')
  BY <1>1, <1>5, <1>7 DEF Mine
<1> QED
  BY <1>1, <1>4, <1>5, <1>8, SyncMoves

LEMMA StepSync ==
  ASSUME Inv, Inv', AloneNow, SyncNow, NEW p \in Calls, Others(p), Step(p), ~Fail(p),
         ~parted', ~failed'
  PROVE  SyncNow'
  BY LoadSync, PickSync, SelectSync, SaveSync, ProceedSync, CodeSync, CreateSync, TouchSync,
     ChangeSync, DeleteSync, RestSync, DropSync, Zenon DEF Step

-----------------------------------------------------------------------------
(***************************************************************************)
(* Phases, when besides no call was cut short.                             *)
(***************************************************************************)
HeldRest(t, held) == \A g \in held : g.id \in StoredIn(t) /\ t[g.id].born = g.phase.of

LEMMA HeldRests ==
  ASSUME NEW c, NEW mine, NEW t, NEW held, c.at # "dropphases"
  PROVE  /\ Held(c, mine, t, held) => HeldRest(t, held)
         /\ HeldRest(t, held) /\ c.job # "add" => Held(c, mine, t, held)
  BY DEF Held, HeldRest

LEMMA PhasesMoves ==
  ASSUME Inv, NEW p \in Calls, Others(p), NEW c, Becomes(p, c),
         Held(c, objects'[c.obj], rows', phaseRows')
  PROVE  PhasesNow'
<1>1. call'[p] = c /\ \A q \in Calls \ {p} : call'[q] = call[q] /\ call[q].at = "idle"
  BY DEF Inv, Becomes, Others, At
<1>2. \A q \in Calls : call[q].at = "idle" => call[q].job = "none"
  BY DEF Inv, CallsOK, CallOK, Walks, Ends
<1> SUFFICES ASSUME NEW q \in Calls, Busy(q)' \/ Quiet'
             PROVE  Held(call'[q], Mine(q)', rows', phaseRows')
  BY DEF PhasesNow
<1>3. CASE q = p
  <2>1. Mine(p)' = objects'[c.obj]
    BY <1>1 DEF Mine
  <2> QED
    BY <1>1, <1>3, <2>1
<1>4. CASE q # p
  <2>1. call'[q].at = "idle" /\ call'[q].job = "none"
    BY <1>1, <1>2, <1>4
  <2>2. c.at = "idle"
    BY <1>1, <2>1 DEF Busy, At, Quiet
  <2> QED
    BY <2>1, <2>2, HeldRests
<1> QED
  BY <1>3, <1>4

LEMMA NowHeld ==
  ASSUME PhasesNow, NEW p \in Calls, Others(p)
  PROVE  Held(call[p], Mine(p), rows, phaseRows)
<1>1. Busy(p) \/ Quiet
  BY DEF Busy, Quiet, Others
<1> QED
  BY <1>1 DEF PhasesNow

\* A step of a call whose plan stays as it is, if it is to add a phase to it;
\* rows keep their plans.
LEMMA OnPhased ==
  ASSUME Inv, PhasesNow, NEW p \in Calls, Others(p), NEW d, Becomes(p, d),
         call[p].at # "dropphases", d.at # "dropphases",
         d.job = "add" => /\ call[p].job = "add" /\ d.obj = call[p].obj
                          /\ d.phase = call[p].phase /\ UNCHANGED objects,
         UNCHANGED phaseRows,
         Stored \subseteq Stored', \A i \in Stored : rows'[i].born = rows[i].born
  PROVE  PhasesNow'
<1>1. Held(call[p], Mine(p), rows, phaseRows)
  BY NowHeld
<1>2. HeldRest(rows', phaseRows')
  BY <1>1, HeldRests DEF HeldRest, Stored
<1>3. d.job = "add" => d.phase.of = objects'[d.obj].row.born
  BY <1>1 DEF Held, Mine
<1>4. Held(d, objects'[d.obj], rows', phaseRows')
  BY <1>2, <1>3 DEF Held, HeldRest
<1> QED
  BY <1>4, PhasesMoves

\* ... when it touches no row.
LEMMA StaysPhased ==
  ASSUME Inv, PhasesNow, NEW p \in Calls, Others(p), NEW d, Becomes(p, d),
         call[p].at # "dropphases", d.at # "dropphases",
         d.job = "add" => /\ call[p].job = "add" /\ d.obj = call[p].obj
                          /\ d.phase = call[p].phase /\ UNCHANGED objects,
         UNCHANGED <<rows, phaseRows>>
  PROVE  PhasesNow'
<1>1. Stored' = Stored
  BY DEF Stored
<1> QED
  BY <1>1, OnPhased

LEMMA LoadPhased ==
  ASSUME Inv, PhasesNow, NEW p \in Calls, Others(p),
         StartLoad(p) \/ CountRows(p) \/ FetchRows(p) \/ FetchPhases(p) \/ Seed(p)
  PROVE  PhasesNow'
<1>1. /\ call[p].at \in {"idle", "count", "fetch", "phases", "doc"} /\ call[p].job = "none"
      /\ UNCHANGED <<rows, phaseRows>> /\ call[p] \in CallStates
  BY CallAt DEF StartLoad, CountRows, FetchRows, FetchPhases, Seed, At, dbVars, CallOK, Walks, Ends
<1>2. \E d : Becomes(p, d) /\ d.at # "dropphases" /\ d.job # "add"
  <2>1. CASE StartLoad(p)
    BY <2>1, FieldsOf DEF StartLoad
  <2>2. CASE CountRows(p)
    <3> PICK l \in {"fetch", "doc"} : Goto(p, l)
      BY <2>2 DEF CountRows
    <3> DEFINE c == [call[p] EXCEPT !.at = l]
    <3>1. c.at = l /\ c.job = "none" /\ Becomes(p, c)
      BY <1>1 DEF CallStates, Goto, Becomes
    <3> QED
      BY <3>1
  <2>3. CASE FetchRows(p)
    <3> DEFINE c == [call[p] EXCEPT !.at = "phases", !.got = rows]
    <3>1. c.at = "phases" /\ c.job = "none" /\ Becomes(p, c)
      BY <1>1, <2>3 DEF CallStates, FetchRows, Becomes
    <3> QED
      BY <3>1
  <2>4. CASE FetchPhases(p)
    BY <2>4, FieldsOf DEF FetchPhases, AfterLoad
  <2>5. CASE Seed(p)
    BY <2>5, FieldsOf DEF Seed
  <2> QED
    BY <2>1, <2>2, <2>3, <2>4, <2>5
<1> QED
  BY <1>1, <1>2, StaysPhased

\* Every plan that is shown has its row.
LEMMA ShownStored ==
  ASSUME NEW s \in Seq(Plan), NEW t, \A k \in DOMAIN s : t[s[k].id] = s[k].row
  PROVE  IdsIn(s) \subseteq StoredIn(t)
<1>1. \A k \in DOMAIN s : s[k] \in Plan
  OBVIOUS
<1>2. \A k \in DOMAIN s : s[k].id \in Ids /\ s[k].row \in Row
  BY <1>1 DEF Plan
<1> QED
  BY <1>2, Bounds DEF IdsIn, StoredIn

LEMMA PickPhased ==
  ASSUME Inv, PhasesNow, NEW p \in Calls, Others(p), Pick(p)
  PROVE  PhasesNow'
<1> DEFINE c == call[p]
<1>1. c.at = "pick" /\ c \in CallStates /\ UNCHANGED <<rows, phaseRows, objects>>
  BY CallAt DEF Pick, At, dbVars
<1>2. CASE \E i, r : call' = [call EXCEPT ![p].at = "select", ![p].id = i, ![p].row = r]
  <2> PICK i, r : call' = [call EXCEPT ![p].at = "select", ![p].id = i, ![p].row = r]
    BY <1>2
  <2> DEFINE d == [c EXCEPT !.at = "select", !.id = i, !.row = r]
  <2>1. /\ Becomes(p, d) /\ d.at = "select" /\ d.job = c.job /\ d.obj = c.obj
        /\ d.phase = c.phase
    BY <1>1 DEF Becomes, CallStates
  <2> HIDE DEF d
  <2> QED
    BY <1>1, <2>1, StaysPhased
<1>3. CASE Becomes(p, AfterLoad(p))
  BY <1>1, <1>3, FieldsOf, StaysPhased DEF AfterLoad
<1>4. CASE Walkless(p, "blob")
  <2> DEFINE d == [Idle EXCEPT !.at = "blob", !.job = c.job, !.obj = c.obj, !.phase = c.phase]
  <2>1. /\ Becomes(p, d) /\ d.at = "blob" /\ d.job = c.job /\ d.obj = c.obj
        /\ d.phase = c.phase
    BY <1>4, FieldsOf DEF Walkless
  <2> HIDE DEF d
  <2> QED
    BY <1>1, <2>1, StaysPhased
<1> QED
  BY <1>2, <1>3, <1>4 DEF Pick

LEMMA SelectPhased ==
  ASSUME Inv, PhasesNow, NEW p \in Calls, Others(p), SelectRow(p) \/ Own(p)
  PROVE  PhasesNow'
<1> DEFINE c == call[p]
<1>1. c.at \in {"select", "own"} /\ c \in CallStates /\ UNCHANGED <<rows, phaseRows, objects>>
  BY CallAt DEF SelectRow, Own, At, dbVars, memVars
<1>2. \E d : /\ Becomes(p, d) /\ d.at \in {"write", "ownwrite"} /\ d.job = c.job
             /\ d.obj = c.obj /\ d.phase = c.phase
  <2>1. CASE SelectRow(p)
    <3> DEFINE d == [c EXCEPT !.at = "write", !.found = rows[c.id]]
    <3>1. /\ Becomes(p, d) /\ d.at = "write" /\ d.job = c.job /\ d.obj = c.obj
          /\ d.phase = c.phase
      BY <1>1, <2>1 DEF Becomes, CallStates, SelectRow
    <3> QED
      BY <3>1
  <2>2. CASE Own(p)
    <3> DEFINE q == objects[c.obj]
               d == [c EXCEPT !.at = "ownwrite", !.id = q.id, !.row = q.row, !.found = rows[q.id]]
    <3>1. /\ Becomes(p, d) /\ d.at = "ownwrite" /\ d.job = c.job /\ d.obj = c.obj
          /\ d.phase = c.phase
      BY <1>1, <2>2 DEF Becomes, CallStates, Own
    <3> QED
      BY <3>1
  <2> QED
    BY <2>1, <2>2
<1> QED
  BY <1>1, <1>2, StaysPhased

LEMMA SavePhased ==
  ASSUME Inv, AloneNow, SyncNow, PhasesNow, NEW p \in Calls, Others(p),
         InsertRow(p) \/ UpdateRow(p), ~failed'
  PROVE  PhasesNow'
<1> DEFINE c == call[p]
<1>1. /\ c.at \in {"write", "ownwrite"} /\ c.id \in Ids /\ c.row \in Row
      /\ rows \in [Ids -> Row \cup {NoRow}] /\ UNCHANGED <<phaseRows, objects>>
  BY CallAt DEF Inv, InsertRow, UpdateRow, CallOK, DbOK, memVars
<1>2. Synced(c, Mine(p), Shown, rows)
  BY <1>1, NowSynced DEF Loads
<1>3. CASE /\ c.at = "write" /\ call' = [call EXCEPT ![p] = NextPick(@)]
           /\ rows' = [rows EXCEPT ![c.id] = c.row]
  <2> DEFINE d == NextPick(c)
  <2>1. /\ Becomes(p, d) /\ d.at = "pick" /\ d.job = c.job /\ d.obj = c.obj
        /\ d.phase = c.phase
    BY <1>3, FieldsOf DEF Becomes
  <2> HIDE DEF d
  <2>2. c.id \in Stored => rows[c.id].born = c.row.born
    BY <1>2, <1>3 DEF Synced, Stored
  <2>3. Stored \subseteq Stored' /\ \A i \in Stored : rows'[i].born = rows[i].born
    BY <1>1, <1>3, <2>2, Bounds DEF Stored, StoredIn
  <2> QED
    BY <1>1, <1>3, <2>1, <2>3, OnPhased
<1>4. CASE c.at = "ownwrite" /\ Becomes(p, Idle) /\ UNCHANGED rows
  BY <1>1, <1>4, FieldsOf, StaysPhased
<1> QED
  BY <1>3, <1>4, SavesAre

LEMMA BlobPhased ==
  ASSUME Inv, PhasesNow, NEW p \in Calls, Others(p), SaveBlob(p)
  PROVE  PhasesNow'
<1> DEFINE c == call[p]
<1>1. c.at = "blob" /\ Proceed(p) /\ UNCHANGED <<rows, phaseRows, objects>>
  BY DEF SaveBlob, At, memVars
<1>2. CASE Becomes(p, Idle)
  BY <1>1, <1>2, FieldsOf, StaysPhased
<1>3. ASSUME NEW l \in {"own", "drop", "addphase", "dropphase"}, Walkless(p, l)
      PROVE  PhasesNow'
  <2> DEFINE d == [Idle EXCEPT !.at = l, !.job = c.job, !.obj = c.obj, !.phase = c.phase]
  <2>1. /\ Becomes(p, d) /\ d.at = l /\ d.job = c.job /\ d.obj = c.obj
        /\ d.phase = c.phase
    BY <1>3, FieldsOf DEF Walkless
  <2> HIDE DEF d
  <2> QED
    BY <1>1, <2>1, StaysPhased
<1> QED
  BY <1>1, <1>2, <1>3 DEF Proceed

\* A request that starts a walk, for a plan but not to add a phase to it.
LEMMA StartPhased ==
  ASSUME Inv, PhasesNow, NEW p \in Calls, Others(p), call[p].at # "dropphases",
         NEW j, j # "add", NEW o, NEW f, Start(p, j, o, f), UNCHANGED <<rows, phaseRows>>
  PROVE  PhasesNow'
<1> DEFINE d == WalkFor(j, Newest, o, f)
<1>1. Becomes(p, d) /\ d.at = "pick" /\ d.job = j
  BY FieldsOf DEF Start
<1> HIDE DEF d
<1> QED
  BY <1>1, StaysPhased

LEMMA RequestPhased ==
  ASSUME Inv, AloneNow, PhasesNow, NEW p \in Calls, Others(p),
         \/ CreatePlan(p) \/ UpdatePlan(p) \/ EditPlan(p) \/ TouchPlan(p) \/ DeletePlan(p)
         \/ CreatePhase(p) \/ DeletePhase(p)
  PROVE  PhasesNow'
<1>1. /\ UNCHANGED <<rows, phaseRows>> /\ Apart(Shown)
      /\ call[p].at \in {"idle", "act", "lookup"}
  BY DEF CreatePlan, UpdatePlan, EditPlan, TouchPlan, DeletePlan, CreatePhase, DeletePhase, dbVars,
         AloneNow, Ready, At
<1>2. CASE CreatePlan(p) \/ UpdatePlan(p) \/ EditPlan(p) \/ TouchPlan(p) \/ DeletePlan(p)
  <2>1. \E j \in {"create", "update", "touch", "delete"} : \E o : Start(p, j, o, NoPhase)
    BY <1>2 DEF CreatePlan, UpdatePlan, EditPlan, TouchPlan, DeletePlan
  <2> QED
    BY <1>1, <2>1, StartPhased
<1>3. CASE CreatePhase(p) \/ DeletePhase(p)
  <2>1. PICK i \in DOMAIN Shown, o \in DOMAIN objects' : \E f : \E j \in {"add", "remove"} :
          /\ Becomes(p, WalkFor(j, Newest, o, f))
          /\ objects'[o].row = Shown[i].row /\ (j = "add" => f.of = Shown[i].row.born)
    BY <1>1, <1>3, PhaseShows
  <2> PICK f : \E j \in {"add", "remove"} :
          /\ Becomes(p, WalkFor(j, Newest, o, f))
          /\ objects'[o].row = Shown[i].row /\ (j = "add" => f.of = Shown[i].row.born)
    BY <2>1
  <2> PICK j \in {"add", "remove"} :
          /\ Becomes(p, WalkFor(j, Newest, o, f))
          /\ objects'[o].row = Shown[i].row /\ (j = "add" => f.of = Shown[i].row.born)
    OBVIOUS
  <2> DEFINE d == WalkFor(j, Newest, o, f)
  <2>2. Becomes(p, d) /\ d.at = "pick" /\ d.job = j /\ d.obj = o /\ d.phase = f
    BY FieldsOf
  <2> HIDE DEF d
  <2>3. HeldRest(rows', phaseRows')
    BY <1>1, NowHeld, HeldRests
  <2>4. d.job = "add" => d.phase.of = objects'[d.obj].row.born
    BY <2>2
  <2>5. Held(d, objects'[d.obj], rows', phaseRows')
    BY <2>3, <2>4 DEF Held, HeldRest
  <2> QED
    BY <2>2, <2>5, PhasesMoves
<1> QED
  BY <1>2, <1>3

LEMMA RestPhased ==
  ASSUME Inv, PhasesNow, NEW p \in Calls, Others(p),
         ChooseCode(p) \/ GetPlans(p) \/ Refuse(p)
  PROVE  PhasesNow'
<1>1. /\ call[p].at \in {"idle", "act"} /\ UNCHANGED <<rows, phaseRows>>
  BY DEF ChooseCode, GetPlans, Refuse, Ready, At, dbVars
<1>2. CASE ChooseCode(p)
  <2> PICK n \in Ids \cup {0} :
        Becomes(p, [Idle EXCEPT !.at = "lookup", !.job = "create", !.id = n])
    BY <1>2 DEF ChooseCode
  <2> DEFINE c == [Idle EXCEPT !.at = "lookup", !.job = "create", !.id = n]
  <2>1. c.at = "lookup" /\ c.job = "create" /\ Becomes(p, c)
    BY FieldsOf
  <2> HIDE DEF c
  <2> QED
    BY <1>1, <2>1, StaysPhased
<1>3. CASE Becomes(p, Idle)
  BY <1>1, <1>3, FieldsOf, StaysPhased
<1> QED
  BY <1>2, <1>3 DEF GetPlans, Refuse

LEMMA DropPhased ==
  ASSUME Inv, PhasesNow, NEW p \in Calls, Others(p), DropRow(p)
  PROVE  PhasesNow'
<1> DEFINE c == call[p]
           d == [c EXCEPT !.at = "dropphases"]
           i == Mine(p).id
<1>1. /\ UNCHANGED <<phaseRows, objects>> /\ rows \in [Ids -> Row \cup {NoRow}]
      /\ c.at = "drop" /\ c.job = "delete" /\ c \in CallStates
  BY CallAt DEF Inv, DbOK, DropRow, At, memVars, CallOK
<1>2. rows' = [rows EXCEPT ![i] = NoRow] /\ Becomes(p, d)
  BY DEF DropRow, Mine, Goto, Becomes
<1>3. d.at = "dropphases" /\ d.job = "delete" /\ d.obj = c.obj
  BY <1>1 DEF CallStates
<1> HIDE DEF d
<1>4. HeldRest(rows, phaseRows)
  BY <1>1, NowHeld, HeldRests
<1>5. \A k \in StoredIn(rows) : k # i => k \in StoredIn(rows') /\ rows'[k] = rows[k]
  BY <1>1, <1>2 DEF StoredIn
<1>6. Held(d, Mine(p), rows', phaseRows)
  BY <1>3, <1>4, <1>5 DEF Held, HeldRest
<1>7. Held(d, objects'[d.obj], rows', phaseRows')
  BY <1>1, <1>3, <1>6 DEF Mine
<1> QED
  BY <1>2, <1>7, PhasesMoves

\* A call that comes to rest when it was the one for a phase or a deletion.
LEMMA EndPhased ==
  ASSUME Inv, NEW p \in Calls, Others(p), Becomes(p, Idle), HeldRest(rows', phaseRows')
  PROVE  PhasesNow'
<1>1. Held(Idle, objects'[Idle.obj], rows', phaseRows')
  BY FieldsOf, HeldRests
<1> QED
  BY <1>1, PhasesMoves

LEMMA DropPhasesPhased ==
  ASSUME Inv, PhasesNow, NEW p \in Calls, Others(p), DropPhases(p)
  PROVE  PhasesNow'
<1>1. /\ UNCHANGED rows /\ Becomes(p, Idle)
      /\ phaseRows' = {g \in phaseRows : g.id # Mine(p).id}
  BY DEF DropPhases, Mine
<1>2. HeldRest(rows', phaseRows')
  BY <1>1, NowHeld DEF Held, HeldRest
<1> QED
  BY <1>1, <1>2, EndPhased

\* The plan a phase is added to is shown, and its row is stored.
LEMMA AddPhased ==
  ASSUME Inv, SyncNow, PhasesNow, NEW p \in Calls, Others(p), AddPhase(p)
  PROVE  PhasesNow'
<1> DEFINE c == call[p]
           i == Mine(p).id
           g == [phase |-> c.phase, id |-> i]
<1>1. /\ c.at = "addphase" /\ c.job = "add" /\ phaseRows' = phaseRows \cup {g}
      /\ UNCHANGED rows /\ Becomes(p, Idle)
  BY CallAt DEF AddPhase, At, CallOK, Mine
<1>2. Synced(c, Mine(p), Shown, rows) /\ Shown \in Seq(Plan)
  BY <1>1, NowSynced, ShownOK DEF Loads, Inv
<1>3. \A k \in DOMAIN Shown : rows[Shown[k].id] = Shown[k].row
  BY <1>1, <1>2, FullAt DEF Walks
<1>4. PICK k \in DOMAIN Shown : Shown[k] = Mine(p)
  BY <1>1, <1>2 DEF Synced
<1>5. i \in StoredIn(rows) /\ rows[i] = Mine(p).row
  BY <1>2, <1>3, <1>4, ShownStored DEF IdsIn
<1>6. Held(c, Mine(p), rows, phaseRows)
  BY NowHeld
<1>7. HeldRest(rows, phaseRows) /\ c.phase.of = rows[i].born
  <2>1. c.at # "dropphases" /\ c.phase.of = Mine(p).row.born
    BY <1>1, <1>6 DEF Held
  <2>2. HeldRest(rows, phaseRows)
    BY <1>6, <2>1, HeldRests
  <2> QED
    BY <1>5, <2>1, <2>2
<1>8. g.id = i /\ g.phase = c.phase
  OBVIOUS
<1> HIDE DEF g
<1>9. HeldRest(rows', phaseRows')
  BY <1>1, <1>5, <1>7, <1>8 DEF HeldRest
<1> QED
  BY <1>1, <1>9, EndPhased

LEMMA RemovePhased ==
  ASSUME Inv, PhasesNow, NEW p \in Calls, Others(p), DropPhase(p)
  PROVE  PhasesNow'
<1>1. /\ UNCHANGED rows /\ Becomes(p, Idle) /\ phaseRows' \subseteq phaseRows
      /\ call[p].at = "dropphase"
  BY DEF DropPhase, At
<1>2. HeldRest(rows', phaseRows')
  BY <1>1, NowHeld, HeldRests DEF HeldRest
<1> QED
  BY <1>1, <1>2, EndPhased

LEMMA StepPhased ==
  ASSUME Inv, AloneNow, SyncNow, PhasesNow, NEW p \in Calls, Others(p), Step(p), ~Fail(p), ~failed'
  PROVE  PhasesNow'
  BY LoadPhased, PickPhased, SelectPhased, SavePhased, BlobPhased, RequestPhased, RestPhased,
     DropPhased, DropPhasesPhased, AddPhased, RemovePhased, Zenon DEF Step

-----------------------------------------------------------------------------
(***************************************************************************)
(* AloneInv, from the start on and across restarts.                        *)
(***************************************************************************)
\* The process is at its start, whatever the tables hold.
Started ==
  /\ objects = << >> /\ arrays = << << >> >> /\ ~loaded
  /\ call = [p \in Calls |-> IF p = Boot THEN Loading ELSE Idle]

LEMMA StartedAlone == Started /\ Apart(blob) => AloneNow /\ SyncNow
<1> SUFFICES ASSUME Started, Apart(blob) PROVE AloneNow /\ SyncNow
  OBVIOUS
<1>1. \A p \in Calls : call[p] = IF p = Boot THEN Loading ELSE Idle
  BY DEF Started
<1>2. \A p \in Calls : call[p].at = IF p = Boot THEN "count" ELSE "idle"
  BY <1>1, FieldsOf
<1>3. ~Quiet /\ ~loaded
  BY <1>2 DEF Quiet, At, Calls, Started
<1>4. Listed = << >>
  BY DEF Started, Listed, Newest
<1>5. Apart(Shown)
  BY <1>4 DEF Apart, Shown, PlansOf
<1>6. \A p \in Calls : Current(call[p], Newest)
  BY <1>2, CurrentAt DEF Walks
<1>7. \A p \in Calls : Busy(p) => Others(p)
  BY <1>2 DEF Busy, Others, At
<1>8. SyncNow
  BY <1>2, <1>3 DEF SyncNow, Here, Busy, At, Loads
<1> QED
  BY <1>5, <1>6, <1>7, <1>8 DEF AloneNow

LEMMA StartedPhased == Started /\ HeldRest(rows, phaseRows) => PhasesNow
<1> SUFFICES ASSUME Started, HeldRest(rows, phaseRows) PROVE PhasesNow
  OBVIOUS
<1>1. \A p \in Calls : call[p] = IF p = Boot THEN Loading ELSE Idle
  BY DEF Started
<1>2. \A p \in Calls : call[p].at \in {"count", "idle"} /\ call[p].job = "none"
  BY <1>1, FieldsOf
<1> QED
  BY <1>2, HeldRests DEF PhasesNow

LEMMA InitAlone == Init => AloneInv
<1> SUFFICES ASSUME Init PROVE AloneNow /\ SyncNow /\ PhasesNow
  BY DEF AloneInv
<1>1. Started
  BY DEF Init, Started
<1> PICK n \in {0, 1}, c \in Ids :
      blob = [k \in 1 .. n |->
               [id |-> c, row |-> [born |-> k, ver |-> 1, code |-> c], phases |-> {}]]
  BY DEF Init
<1>3. Apart(blob)
  BY DEF Apart
<1>4. HeldRest(rows, phaseRows)
  BY DEF Init, HeldRest
<1> QED
  BY <1>1, <1>3, <1>4, StartedAlone, StartedPhased

\* A call that a restart cuts short leaves phases behind; one that is left
\* to end does not.
LEMMA RestartAlone ==
  ASSUME AloneInv, Restart
  PROVE  AloneInv'
<1>1. Started' /\ UNCHANGED <<rows, phaseRows, blob, parted, alone, failed>>
  BY DEF Started, Restart, dbVars, seenVars
<1> SUFFICES ASSUME alone, ~parted
             PROVE  AloneNow' /\ SyncNow' /\ (~failed /\ ~cut' => PhasesNow')
  BY <1>1 DEF AloneInv
<1>2. Apart(blob')
  BY <1>1 DEF AloneInv, AloneNow
<1>3. (Started /\ Apart(blob) => AloneNow /\ SyncNow)'
  BY StartedAlone, PTL
<1>4. (Started /\ HeldRest(rows, phaseRows) => PhasesNow)'
  BY StartedPhased, PTL
<1>5. ASSUME ~failed, ~cut' PROVE HeldRest(rows, phaseRows)
  <2>1. ~cut /\ \A p \in Calls : At(p, "idle")
    BY <1>5 DEF Restart
  <2>2. Boot \in Calls /\ Quiet /\ PhasesNow
    BY <1>5, <2>1 DEF Calls, Quiet, AloneInv
  <2>3. Held(call[Boot], Mine(Boot), rows, phaseRows) /\ call[Boot].at = "idle"
    BY <2>1, <2>2 DEF PhasesNow, At
  <2> QED
    BY <2>3, HeldRests
<1> QED
  BY <1>1, <1>2, <1>3, <1>4, <1>5

\* What a step may have failed or parted is not mended; no step but a restart cuts
\* a call short.
LEMMA StepsKeepFaults ==
  ASSUME NEW p \in Calls, Step(p), ~Fail(p)
  PROVE  UNCHANGED cut /\ (~failed' => ~failed) /\ (~parted' => ~parted)
<1>1. CASE \/ StartLoad(p) \/ CountRows(p) \/ FetchRows(p) \/ FetchPhases(p) \/ Seed(p)
           \/ Pick(p) \/ SelectRow(p) \/ Own(p) \/ SaveBlob(p)
  BY <1>1 DEF StartLoad, CountRows, FetchRows, FetchPhases, Seed, Pick, SelectRow, Own,
              SaveBlob, badVars, seenVars
<1>2. CASE InsertRow(p) \/ UpdateRow(p)
  BY <1>2 DEF InsertRow, UpdateRow, Refused
<1>3. CASE ChooseCode(p) \/ UpdatePlan(p) \/ EditPlan(p) \/ TouchPlan(p)
  <2>1. UNCHANGED <<seenVars, badVars>>
    <3>1. ChooseCode(p) => UNCHANGED <<seenVars, badVars>>
      BY DEF ChooseCode
    <3>2. UpdatePlan(p) => UNCHANGED <<seenVars, badVars>>
      BY DEF UpdatePlan
    <3>3. EditPlan(p) => UNCHANGED <<seenVars, badVars>>
      BY DEF EditPlan
    <3>4. TouchPlan(p) => UNCHANGED <<seenVars, badVars>>
      BY DEF TouchPlan
    <3> QED
      BY <1>3, <3>1, <3>2, <3>3, <3>4
  <2> QED
    BY <2>1 DEF seenVars, badVars
<1>4. CASE CreatePlan(p) \/ DeletePlan(p)
  <2>1. CreatePlan(p) => UNCHANGED badVars /\ (~parted' => ~parted)
    BY DEF CreatePlan
  <2>2. DeletePlan(p) => UNCHANGED <<parted, badVars>>
    BY DEF DeletePlan
  <2> QED
    BY <1>4, <2>1, <2>2 DEF badVars
<1>5. CASE CreatePhase(p) \/ DeletePhase(p) \/ Refuse(p)
  <2>1. CreatePhase(p) => UNCHANGED <<seenVars, badVars>>
    BY DEF CreatePhase
  <2>2. DeletePhase(p) => UNCHANGED <<seenVars, badVars>>
    BY DEF DeletePhase
  <2>3. Refuse(p) => UNCHANGED <<seenVars, badVars>>
    BY DEF Refuse
  <2>4. UNCHANGED <<seenVars, badVars>>
    BY <1>5, <2>1, <2>2, <2>3
  <2> QED
    BY <2>4 DEF seenVars, badVars
<1>6. CASE GetPlans(p)
  BY <1>6, Zenon DEF GetPlans, badVars
<1>7. CASE DropRow(p) \/ DropPhases(p) \/ AddPhase(p) \/ DropPhase(p)
  BY <1>7 DEF DropRow, DropPhases, AddPhase, DropPhase, badVars, seenVars
<1> QED
  BY <1>1, <1>2, <1>3, <1>4, <1>5, <1>6, <1>7, Zenon DEF Step

\* Two calls that run at a time, and a statement that fails, end what is shown here.
LEMMA NotedAlone ==
  ASSUME Inv, Inv', AloneInv, NEW p \in Calls, Step(p), Noted(p)
  PROVE  AloneInv'
<1> SUFFICES ASSUME alone', ~parted'
             PROVE  AloneNow' /\ (~failed' => SyncNow' /\ (~cut' => PhasesNow'))
  BY DEF AloneInv
<1>1. alone /\ Others(p)
  BY DEF Noted, Others
<1>2. ~parted
  BY StepsKeepFaults DEF Fail
<1>3. AloneNow /\ AloneNow'
  BY <1>1, <1>2, StepAlone DEF AloneInv
<1>4. ASSUME ~failed' PROVE ~failed /\ ~Fail(p) /\ UNCHANGED cut
  <2>1. ~Fail(p)
    BY <1>4 DEF Fail
  <2> QED
    BY <1>4, <2>1, StepsKeepFaults
<1>5. ASSUME ~failed' PROVE SyncNow'
  BY <1>1, <1>2, <1>3, <1>4, <1>5, StepSync DEF AloneInv
<1>6. ASSUME ~failed', ~cut' PROVE PhasesNow'
  <2>1. ~failed /\ ~cut /\ ~Fail(p)
    BY <1>4, <1>6
  <2> QED
    BY <1>1, <1>2, <1>3, <1>6, <2>1, StepPhased DEF AloneInv
<1> QED
  BY <1>3, <1>5, <1>6

LEMMA StutterAlone == AloneInv /\ UNCHANGED vars => AloneInv'
<1> SUFFICES ASSUME AloneInv, UNCHANGED vars PROVE AloneInv'
  OBVIOUS
<1>1. UNCHANGED <<rows, phaseRows, blob, objects, arrays, loaded, call, parted, alone, failed, cut>>
  BY DEF vars, dbVars, memVars, seenVars, badVars
<1>2. Shown' = Shown /\ Newest' = Newest /\ Stored' = Stored
  BY <1>1, ShownKept DEF Stored
<1>3. (AloneNow <=> AloneNow') /\ (SyncNow <=> SyncNow') /\ (PhasesNow <=> PhasesNow')
  BY <1>1, <1>2 DEF AloneNow, SyncNow, PhasesNow, Busy, Others, Here, Mine, At, Quiet
<1> QED
  BY <1>1, <1>3 DEF AloneInv

LEMMA NextAlone == Inv /\ Inv' /\ AloneInv /\ [Next]_vars => AloneInv'
<1> SUFFICES ASSUME Inv, Inv', AloneInv, [Next]_vars PROVE AloneInv'
  OBVIOUS
<1>1. CASE UNCHANGED vars
  BY <1>1, StutterAlone
<1>2. CASE Restart
  BY <1>2, RestartAlone
<1>3. CASE \E p \in Calls : Step(p) /\ Noted(p)
  BY <1>3, NotedAlone
<1> QED
  BY <1>1, <1>2, <1>3 DEF Next

\* While calls run one at a time and list and table are not parted, a call walks
\* the list that is shown, the rows agree with it as far as the walk has come, if
\* no statement failed, and the rows of phases are of stored plans and theirs, if
\* besides no call was cut short.
THEOREM AloneInvariance == Spec => []AloneInv
<1>1. Inv /\ Inv' /\ AloneInv /\ [Next]_vars => AloneInv'
  BY NextAlone
<1> QED
  BY Invariance, InitAlone, <1>1, PTL DEF Spec

LEMMA ListedAre ==
  ASSUME Inv
  PROVE  /\ Shown \in Seq(Plan) /\ \A k \in DOMAIN Shown : Shown[k] \in ListedPlans
         /\ \A q \in ListedPlans : \E k \in DOMAIN Shown : Shown[k] = q
<1>1. /\ Shown \in Seq(Plan) /\ DOMAIN Shown = DOMAIN Listed
      /\ \A k \in DOMAIN Shown : Shown[k] = objects[Listed[k]]
  BY ShownOK DEF Inv
<1> QED
  BY <1>1 DEF ListedPlans

LEMMA AtRest ==
  ASSUME AloneInv, alone, ~parted, ~failed, loaded, Quiet
  PROVE  /\ Here(Boot) /\ Boot \in Calls /\ Synced(call[Boot], Mine(Boot), Shown, rows)
         /\ call[Boot].at = "idle"
<1>1. Boot \in Calls /\ call[Boot].at = "idle"
  BY DEF Calls, Quiet, At
<1>2. Here(Boot)
  BY <1>1 DEF Here, Loads
<1> QED
  BY <1>1, <1>2 DEF AloneInv, SyncNow

\* When nothing runs, the rows are the plans that are shown, with their codes: a
\* restart shows what was shown, also after restarts that cut a save short, as long
\* as calls run one at a time, no statement fails, and no creation with the id of a
\* listed plan and no filter of getPlans has parted list and table.
THEOREM PlansSurviveRestart == Spec => []RestartShowsPlans
<1>1. Inv /\ AloneInv => RestartShowsPlans
  <2> SUFFICES ASSUME Inv, AloneInv, alone, ~parted, ~failed, loaded, Quiet
               PROVE  {[id |-> q.id, row |-> q.row] : q \in ListedPlans}
                        = {[id |-> i, row |-> rows[i]] : i \in Stored}
    BY DEF RestartShowsPlans
  <2>1. /\ Shown \in Seq(Plan) /\ \A k \in DOMAIN Shown : Shown[k] \in ListedPlans
        /\ \A q \in ListedPlans : \E k \in DOMAIN Shown : Shown[k] = q
    BY ListedAre
  <2>2. Synced(call[Boot], Mine(Boot), Shown, rows) /\ call[Boot].at = "idle"
    BY AtRest
  <2>3. call[Boot].job = "none"
    BY <2>2, CallAt DEF Calls, CallOK, Walks, Ends
  <2>4. Settled(Shown, rows)
    BY <2>1, <2>2, <2>3, RestSynced DEF Walks
  <2>5. IdsIn(Shown) \subseteq Stored
    BY <2>1, <2>4, ShownStored DEF Settled, Stored
  <2>6. \A q \in ListedPlans : q.id \in Stored /\ rows[q.id] = q.row
    BY <2>1, <2>4, <2>5 DEF Settled, IdsIn
  <2>7. \A i \in Stored : \E q \in ListedPlans : q.id = i
    BY <2>1, <2>4 DEF Settled, IdsIn, Stored
  <2> QED
    BY <2>6, <2>7
<1> QED
  BY Invariance, AloneInvariance, <1>1, PTL

\* When no call was cut short either, the rows of phases are of stored plans and
\* were created for them: a deletion drops them before its id is used again.
THEOREM PhasesOwned == Spec => []OwnPhases
<1>1. Inv /\ AloneInv => OwnPhases
  <2> SUFFICES ASSUME Inv, AloneInv, alone, ~parted, ~failed, ~cut, loaded, Quiet
               PROVE  \A f \in phaseRows : f.id \in Stored /\ rows[f.id].born = f.phase.of
    BY DEF OwnPhases
  <2>1. Boot \in Calls /\ call[Boot].at = "idle" /\ PhasesNow
    BY AtRest DEF AloneInv
  <2>2. Held(call[Boot], Mine(Boot), rows, phaseRows)
    BY <2>1 DEF PhasesNow
  <2> QED
    BY <2>1, <2>2, HeldRests DEF HeldRest, Stored
<1> QED
  BY Invariance, AloneInvariance, <1>1, PTL
=============================================================================
