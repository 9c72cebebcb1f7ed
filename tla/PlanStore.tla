------------------------------ MODULE PlanStore ------------------------------
(***************************************************************************)
(* The project plans of one API process:                                   *)
(*   api/src/app/resources/2-user/4-plan/plan.service.ts                   *)
(*                                                                         *)
(* Like the tasks of TaskStore, plans are served from a list in memory,    *)
(* this.projects, and a request that changes them saves the whole list row *)
(* by row and then the document user.plan_store.  Here the request waits   *)
(* for that before it writes its own row and answers.  Phases have a table *)
(* of their own, which only createPhase, deletePhase and deletePlan write; *)
(* phases given with a creation or an update stay in memory and in the     *)
(* document.  The code of a plan is the client's or, when it gives none,   *)
(* the highest number in memory plus one; its id is the client's or the    *)
(* code.  Nothing compares them with those in use but the unique index on  *)
(* the codes of the table.                                                 *)
(*                                                                         *)
(* A plan is known by the number of its creation, born; its code apart,    *)
(* its content is a version.  Ids and codes are numbers alike, of which    *)
(* some stand for codes with letters.  Left out: rights, the tasks and     *)
(* agile tasks of a plan (only in memory and in the document), task totals *)
(* (recomputed), the look-up of users over which createMember holds a      *)
(* plan, and an id in the body of an update, which UpdatePlanDto does not  *)
(* have.                                                                   *)
(***************************************************************************)
EXTENDS Naturals, Sequences, FiniteSets

CONSTANTS
  Requests,    \* request executions; a slot is reused when it is answered
  Boot,        \* the load the constructor starts
  DigiCodes,   \* the codes BMS-DIGI-<n>, which getPlans takes for duplicates
  DemoCodes,   \* the codes and ids of demonstration plans in old documents
  BmsCode,     \* BMS-DIGI, the code of the plan that getPlans renames
  MaxId,       \* bound: ids and codes of plans
  MaxPlan,     \* bound: plans that are ever created
  MaxVersion,  \* bound: versions of a plan
  MaxPhase,    \* bound: phases ever created for a plan
  MaxObjects,  \* bound: plan objects in memory since the process was started
  MaxArrays,   \* bound: lists since the process was started
  MaxBegun,    \* bound: requests that are ever made
  MaxRunning,  \* bound: calls that run at a time
  MaxFaults    \* bound: restarts and statements that fail

ASSUME BoundAssumption ==
  /\ Boot \notin Requests
  /\ MaxId \in Nat \ {0} /\ MaxPlan \in Nat \ {0} /\ MaxVersion \in Nat \ {0}
  /\ MaxPhase \in Nat /\ MaxObjects \in Nat \ {0} /\ MaxArrays \in Nat \ {0}
  /\ MaxBegun \in Nat /\ MaxRunning \in Nat /\ MaxFaults \in Nat
  /\ DigiCodes \subseteq 1 .. MaxId /\ DemoCodes \subseteq 1 .. MaxId
  /\ BmsCode \in (1 .. MaxId) \ (DigiCodes \cup DemoCodes)

VARIABLES
  rows,       \* row of each plan id
  phaseRows,  \* rows of phases, with the plan id they name
  blob,       \* column plans of the document
  objects,    \* plan objects of the process, addressed by position
  arrays,     \* lists of objects the process has had: the last is
              \* this.projects, older ones live on in saves that walk them
  loaded,     \* isDbLoaded
  call,       \* where each call is, and its local variables
  begun,      \* requests made so far
  ids,        \* id of each plan, in the order of their creation
  phased,     \* phases created or given so far for each plan
  created,    \* auxiliary: plans whose creation was answered
  gone,       \* auxiliary: plans whose id was to be deleted, by a request made
              \* since their creation or half-way at it
  parted,     \* auxiliary: list and table were parted: by a creation with the id
              \* of a listed plan, or by getPlans dropping or renaming a plan
  alone,      \* auxiliary: no two calls have been running at once so far
  failed,     \* auxiliary: a statement has failed, a code in use among the reasons
  cut,        \* auxiliary: a restart has cut a call short
  faults      \* restarts and failures so far

memVars  == <<objects, arrays, loaded>>
dbVars   == <<rows, phaseRows, blob>>
seenVars == <<created, gone, parted>>
badVars  == <<failed, cut, faults>>
vars == <<dbVars, memVars, call, begun, ids, phased, seenVars, alone, badVars>>

Ids     == 1 .. MaxId
Born    == 1 .. MaxPlan
Phases  == [of : Born, no : 1 .. MaxPhase]
Row     == [born : Born, ver : 1 .. MaxVersion, code : Ids]
Plan    == [id : Ids, row : Row, phases : SUBSET Phases]
NoRow   == [born |-> 0, ver |-> 0, code |-> 0]
Calls   == Requests \cup {Boot}

-----------------------------------------------------------------------------
(***************************************************************************)
(* The local state of a call: its next statement, what it is for, the list *)
(* it walks and where it is in it, the id and the row it saves (for a      *)
(* creation in its look-up: the code it has chosen, if the client gave     *)
(* none), the row its SELECT returned, the object or the phase it works    *)
(* for, the rows it has loaded.                                            *)
(***************************************************************************)
NoPhase == [of |-> 0, no |-> 0]
Nothing == [i \in Ids |-> NoRow]
Idle ==
  [at |-> "idle", job |-> "none", arr |-> 0, idx |-> 0, id |-> 0, row |-> NoRow,
   found |-> NoRow, obj |-> 0, phase |-> NoPhase, got |-> Nothing]

Loading == [Idle EXCEPT !.at = "count"]
Acting  == [Idle EXCEPT !.at = "act"]

\* A walk of list n for the sake of object o, and what follows it.
WalkFor(j, n, o, f) ==
  [Idle EXCEPT !.at = "pick", !.job = j, !.arr = n, !.idx = 1, !.obj = o, !.phase = f]

Jobs == {"none", "seed", "create", "update", "delete", "add", "remove", "touch"}
Labels == {"idle", "act", "count", "fetch", "phases", "doc", "lookup", "pick", "select",
           "write", "blob", "own", "ownwrite", "drop", "dropphases", "addphase", "dropphase"}
CallStates ==
  [at : Labels, job : Jobs, arr : Nat, idx : Nat, id : Ids \cup {0}, row : Row \cup {NoRow},
   found : Row \cup {NoRow}, obj : Nat, phase : Phases \cup {NoPhase},
   got : [Ids -> Row \cup {NoRow}]]

At(p, label)  == call[p].at = label
Newest        == Len(arrays)
Listed        == arrays[Newest]
ListedPlans   == {objects[o] : o \in {Listed[i] : i \in DOMAIN Listed}}
StoredIn(t)   == {i \in Ids : t[i] # NoRow}
Stored        == StoredIn(rows)
Walked(p)     == arrays[call[p].arr]
Spliced(s, i) == SubSeq(s, 1, i - 1) \o SubSeq(s, i + 1, Len(s))

\* filter(): the elements at these positions of a list, in their order.
Filtered(list, kept) ==
  LET n == Cardinality(kept)
  IN  IF kept = DOMAIN list THEN {list} ELSE
      {[k \in 1 .. n |-> list[at[k]]] :
         at \in {f \in [1 .. n -> kept] : \A j, k \in 1 .. n : j < k => f[j] < f[k]}}

\* find(): the first plan of the list whose id or code is the one asked for.
Findable ==
  LET Names(k) == {objects[Listed[k]].id, objects[Listed[k]].row.code}
  IN  {i \in DOMAIN Listed : \E x \in Names(i) : \A j \in 1 .. i - 1 : x \notin Names(j)}

TypeOK ==
  /\ rows \in [Ids -> Row \cup {NoRow}]
  /\ phaseRows \subseteq [phase : Phases, id : Ids]
  /\ blob \in Seq(Plan) /\ objects \in Seq(Plan)
  /\ arrays \in Seq(Seq(DOMAIN objects)) /\ arrays # << >>
  /\ loaded \in BOOLEAN /\ call \in [Calls -> CallStates]
  /\ begun \in 0 .. MaxBegun
  /\ ids \in Seq(Ids) /\ Len(ids) <= MaxPlan /\ phased \in [Born -> 0 .. MaxPhase]
  /\ created \subseteq DOMAIN ids /\ gone \subseteq DOMAIN ids
  /\ parted \in BOOLEAN /\ alone \in BOOLEAN /\ failed \in BOOLEAN /\ cut \in BOOLEAN
  /\ faults \in 0 .. MaxFaults

\* A deployment with the document of an earlier release, or with none.
Init ==
  /\ \E n \in {0, 1}, c \in Ids :
       /\ blob = [k \in 1 .. n |->
                    [id |-> c, row |-> [born |-> k, ver |-> 1, code |-> c], phases |-> {}]]
       /\ ids = [k \in 1 .. n |-> c]
  /\ rows = Nothing /\ phaseRows = {}
  /\ objects = << >> /\ arrays = << << >> >> /\ loaded = FALSE
  /\ call = [p \in Calls |-> IF p = Boot THEN Loading ELSE Idle]
  /\ phased = [b \in Born |-> 0] /\ begun = 0
  /\ created = {} /\ gone = {} /\ parted = FALSE /\ alone = TRUE
  /\ failed = FALSE /\ cut = FALSE /\ faults = 0

-----------------------------------------------------------------------------
Becomes(p, state) == call' = [call EXCEPT ![p] = state]
Goto(p, label)    == call' = [call EXCEPT ![p].at = label]

\* What is noted of a step of p: whether something else is half-way, and
\* whether a request begins with it.
Noted(p) ==
  /\ alone' = (alone /\ \A q \in Calls \ {p} : At(q, "idle"))
  /\ \/ /\ At(p, "idle") /\ begun < MaxBegun /\ begun' = begun + 1
        /\ Cardinality({q \in Calls : ~At(q, "idle")}) < MaxRunning
     \/ ~At(p, "idle") /\ UNCHANGED begun

\* this.projects = plans read from somewhere: every one a new object.
Replaced(list) ==
  /\ Len(objects) + Len(list) <= MaxObjects /\ Newest < MaxArrays
  /\ objects' = objects \o list
  /\ arrays' = Append(arrays, [i \in DOMAIN list |-> Len(objects) + i])

\* The list this.projects is changed in place.
Edited(list) == arrays' = [arrays EXCEPT ![Newest] = list]

\* An object is changed in place, whatever lists it is in.
Changed(o, plan) == objects' = [objects EXCEPT ![o] = plan]

-----------------------------------------------------------------------------
(***************************************************************************)
(* initDbStore, of the constructor or of a request.                        *)
(***************************************************************************)
AfterLoad(p) == IF p = Boot THEN Idle ELSE Acting

StartLoad(p) ==
  /\ At(p, "idle") /\ p # Boot /\ ~loaded
  /\ Becomes(p, Loading)
  /\ UNCHANGED <<dbVars, memVars, ids, phased, seenVars, badVars>>

CountRows(p) ==
  /\ At(p, "count")
  /\ \/ Stored # {} /\ Goto(p, "fetch")
     \/ Stored = {} /\ Goto(p, "doc")
  /\ UNCHANGED <<dbVars, memVars, ids, phased, seenVars, badVars>>

FetchRows(p) ==
  /\ At(p, "fetch")
  /\ call' = [call EXCEPT ![p].at = "phases", ![p].got = rows]
  /\ UNCHANGED <<dbVars, memVars, ids, phased, seenVars, badVars>>

\* The phases that name the id or the code of a plan are its phases.
PlanOf(i, r) ==
  [id |-> i, row |-> r, phases |-> {f.phase : f \in {g \in phaseRows : g.id \in {i, r.code}}}]

FetchPhases(p) ==
  /\ At(p, "phases")
  /\ LET got == call[p].got
     IN  \E s \in [1 .. Cardinality(StoredIn(got)) -> StoredIn(got)] :
           /\ \A i, j \in DOMAIN s : i # j => s[i] # s[j]
           /\ Replaced([i \in DOMAIN s |-> PlanOf(s[i], got[s[i]])])
  /\ loaded' = TRUE
  /\ Becomes(p, AfterLoad(p))
  /\ UNCHANGED <<dbVars, ids, phased, seenVars, badVars>>

\* The document takes the place of the empty table and is written to it, but
\* for the demonstration plans.
Demos == {k \in DOMAIN blob : blob[k].id \in DemoCodes \/ blob[k].row.code \in DemoCodes}

Seed(p) ==
  /\ At(p, "doc")
  /\ \E list \in Filtered(blob, DOMAIN blob \ Demos) : Replaced(list)
  /\ Becomes(p, WalkFor("seed", Newest + 1, 0, NoPhase))
  /\ UNCHANGED <<dbVars, loaded, ids, phased, seenVars, badVars>>

-----------------------------------------------------------------------------
(***************************************************************************)
(* saveToDb and the saves of single rows.                                  *)
(***************************************************************************)
\* The walk is over: what is left of the call is what it is for.
Walkless(p, label) ==
  Becomes(p, [Idle EXCEPT !.at = label, !.job = call[p].job, !.obj = call[p].obj,
                          !.phase = call[p].phase])

\* saveToDb returns, and the request goes on with what it came for.
Proceed(p) ==
  \/ call[p].job = "touch" /\ Becomes(p, Idle)
  \/ call[p].job = "create" /\ Walkless(p, "own")
  \/ call[p].job = "update" /\ Walkless(p, "own")
  \/ call[p].job = "delete" /\ Walkless(p, "drop")
  \/ call[p].job = "add" /\ Walkless(p, "addphase")
  \/ call[p].job = "remove" /\ Walkless(p, "dropphase")

\* for (const p of this.projects): the next plan of the list as it is now.
Pick(p) ==
  /\ At(p, "pick")
  /\ LET list == Walked(p)  i == call[p].idx
     IN  \/ /\ i <= Len(list)
            /\ call' = [call EXCEPT ![p].at = "select", ![p].id = objects[list[i]].id,
                                    ![p].row = objects[list[i]].row]
            /\ UNCHANGED loaded
         \/ /\ i > Len(list) /\ call[p].job = "seed"
            /\ loaded' = TRUE /\ Becomes(p, AfterLoad(p))
         \/ /\ i > Len(list) /\ call[p].job # "seed"
            /\ Walkless(p, "blob") /\ UNCHANGED loaded
  /\ UNCHANGED <<dbVars, objects, arrays, ids, phased, seenVars, badVars>>

\* The request's own row: what the object holds by now is saved.
Own(p) ==
  /\ At(p, "own")
  /\ call' = [call EXCEPT ![p].at = "ownwrite", ![p].id = objects[call[p].obj].id,
                          ![p].row = objects[call[p].obj].row,
                          ![p].found = rows[objects[call[p].obj].id]]
  /\ UNCHANGED <<dbVars, memVars, ids, phased, seenVars, badVars>>

SelectRow(p) ==
  /\ At(p, "select")
  /\ call' = [call EXCEPT ![p].at = "write", ![p].found = rows[call[p].id]]
  /\ UNCHANGED <<dbVars, memVars, ids, phased, seenVars, badVars>>

\* The walk goes on; what it knew of the row is forgotten.
NextPick(c) == [WalkFor(c.job, c.arr, c.obj, c.phase) EXCEPT !.idx = c.idx + 1]

\* What follows a row that was saved or, in the second, that was not.
Saved(p) ==
  \/ /\ At(p, "write")
     /\ call' = [call EXCEPT ![p] = NextPick(@)]
     /\ UNCHANGED created
  \/ /\ At(p, "ownwrite") /\ Becomes(p, Idle)
     /\ \/ call[p].job = "create" /\ created' = created \cup {call[p].row.born}
        \/ call[p].job = "update" /\ UNCHANGED created

NotSaved(p) ==
  \/ /\ At(p, "write") /\ call[p].job = "seed"
     /\ Becomes(p, AfterLoad(p)) /\ UNCHANGED created
  \/ /\ At(p, "write") /\ call[p].job # "seed"
     /\ Proceed(p) /\ UNCHANGED created
  \/ At(p, "ownwrite") /\ Saved(p)

\* The index on codes refuses a second row with the code.
Taken(i, code) == \E j \in Stored \ {i} : rows[j].code = code

\* A statement is refused, and every catch goes on.
Refused(p) == failed' = TRUE /\ NotSaved(p) /\ UNCHANGED rows

\* repository.save(): the INSERT of a row the SELECT did not find; when there
\* is one by now, the primary key fails it.
InsertRow(p) ==
  /\ call[p].at \in {"write", "ownwrite"} /\ call[p].found = NoRow
  /\ LET i == call[p].id  row == call[p].row
     IN  \/ /\ rows[i] = NoRow /\ ~Taken(i, row.code)
            /\ rows' = [rows EXCEPT ![i] = row] /\ Saved(p) /\ UNCHANGED failed
         \/ rows[i] = NoRow /\ Taken(i, row.code) /\ Refused(p)
         \/ rows[i] # NoRow /\ NotSaved(p) /\ UNCHANGED <<rows, failed>>
  /\ UNCHANGED <<phaseRows, blob, memVars, ids, phased, gone, parted, cut, faults>>

\* The columns in which the plan differs from what the SELECT found.
Merged(now, found, row) ==
  LET content == IF row.born = found.born /\ row.ver = found.ver THEN now ELSE row
      coded   == IF row.code = found.code THEN now ELSE row
  IN  [born |-> content.born, ver |-> content.ver, code |-> coded.code]

\* repository.save(): the UPDATE of these columns, if there are any; of a row
\* that was deleted meanwhile it changes nothing.
UpdateRow(p) ==
  /\ call[p].at \in {"write", "ownwrite"} /\ call[p].found # NoRow
  /\ LET i == call[p].id  row == call[p].row  found == call[p].found
         refused == row.code # found.code /\ Taken(i, row.code)
     IN  \/ /\ rows[i] # NoRow /\ ~refused
            /\ rows' = [rows EXCEPT ![i] = Merged(@, found, row)]
            /\ Saved(p) /\ UNCHANGED failed
         \/ rows[i] # NoRow /\ refused /\ Refused(p)
         \/ rows[i] = NoRow /\ Saved(p) /\ UNCHANGED <<rows, failed>>
  /\ UNCHANGED <<phaseRows, blob, memVars, ids, phased, gone, parted, cut, faults>>

\* The document is given what this.projects holds by now; its SELECT and its
\* UPDATE are one step, as only a load that finds no rows reads it.
SaveBlob(p) ==
  /\ At(p, "blob")
  /\ blob' = [i \in DOMAIN Listed |-> objects[Listed[i]]]
  /\ Proceed(p)
  /\ UNCHANGED <<rows, phaseRows, memVars, ids, phased, seenVars, badVars>>

-----------------------------------------------------------------------------
(***************************************************************************)
(* The requests, from ensureLoaded on.                                     *)
(***************************************************************************)
Ready(p) == (At(p, "idle") /\ p # Boot /\ loaded) \/ At(p, "act")
Start(p, j, o, f) == Becomes(p, WalkFor(j, Newest, o, f))

\* The next code: the highest number in the list plus one, a plain numeral.
NextCode(n) ==
  /\ n \notin DigiCodes \cup DemoCodes
  /\ \A q \in ListedPlans : q.row.code < n
  /\ n = 1 \/ \E q \in ListedPlans : n = q.row.code + 1

\* createPlan, up to the look-up of the members: the code is chosen here, unless
\* the client gave one.
ChooseCode(p) ==
  /\ Ready(p) /\ Len(ids) < MaxPlan
  /\ \E n \in Ids \cup {0} :
       /\ n = 0 \/ NextCode(n)
       /\ Becomes(p, [Idle EXCEPT !.at = "lookup", !.job = "create", !.id = n])
  /\ UNCHANGED <<dbVars, memVars, ids, phased, seenVars, badVars>>

Deleting(i) == \E q \in Calls : call[q].job = "delete" /\ objects[call[q].obj].id = i

\* The first n phases of a plan.
Numbered(b, n) == {f \in Phases : f.of = b /\ f.no <= n}

\* The rest of createPlan: code, id and phases are what the client gave.
CreatePlan(p) ==
  /\ At(p, "lookup") /\ Len(objects) < MaxObjects /\ Len(ids) < MaxPlan
  /\ \E c, i \in Ids, n \in 0 .. MaxPhase :
       LET b   == Len(ids) + 1
           new == [id |-> i, row |-> [born |-> b, ver |-> 1, code |-> c], phases |-> Numbered(b, n)]
       IN  /\ call[p].id \in {0, c}
           /\ ids' = Append(ids, i) /\ phased' = [phased EXCEPT ![b] = n]
           /\ objects' = Append(objects, new)
           /\ gone' = gone \cup {a \in {b} : Deleting(i)}
           /\ parted' = (parted \/ \E q \in ListedPlans : q.id = i)
  /\ Edited(<<Len(objects')>> \o Listed)
  /\ Start(p, "create", Len(objects'), NoPhase)
  /\ UNCHANGED <<dbVars, loaded, created, badVars>>

\* What an update may make of a plan: another version, with the code and the
\* phases the client gives, if it does.
Updates(old, n) ==
  {[id |-> old.id, row |-> [born |-> old.row.born, ver |-> old.row.ver + 1, code |-> c],
    phases |-> given] : c \in Ids, given \in (SUBSET Numbered(old.row.born, n)) \cup {old.phases}}

\* Fault: the new object is saved, but the list keeps the old one.
UpdatePlanAside(p) ==
  /\ Ready(p) /\ Len(objects) < MaxObjects
  /\ \E i \in Findable :
       LET old == objects[Listed[i]]
       IN  /\ old.row.ver < MaxVersion
           /\ \E new \in Updates(old, phased[old.row.born]) : objects' = Append(objects, new)
  /\ Start(p, "update", Len(objects'), NoPhase)
  /\ UNCHANGED <<dbVars, arrays, loaded, ids, phased, seenVars, badVars>>

\* updatePlan: the plan is replaced in the list by a new object.
UpdatePlan(p) ==
  /\ Ready(p) /\ Len(objects) < MaxObjects
  /\ \E i \in Findable :
       LET old == objects[Listed[i]]
       IN  /\ old.row.ver < MaxVersion
           /\ \E n \in phased[old.row.born] .. MaxPhase :
                /\ phased' = [phased EXCEPT ![old.row.born] = n]
                /\ \E new \in Updates(old, n) : objects' = Append(objects, new)
           /\ Edited([Listed EXCEPT ![i] = Len(objects')])
  /\ Start(p, "update", Len(objects'), NoPhase)
  /\ UNCHANGED <<dbVars, loaded, ids, seenVars, badVars>>

\* Meetings and members are changed in the plan's object.
EditPlan(p) ==
  /\ Ready(p)
  /\ \E i \in Findable :
       LET o == Listed[i]
       IN  /\ objects[o].row.ver < MaxVersion
           /\ Changed(o, [objects[o] EXCEPT !.row.ver = @ + 1])
  /\ Start(p, "touch", 0, NoPhase)
  /\ UNCHANGED <<dbVars, arrays, loaded, ids, phased, seenVars, badVars>>

\* Tasks and agile tasks of a plan: the store is saved.
TouchPlan(p) ==
  /\ Ready(p) /\ Listed # << >>
  /\ Start(p, "touch", 0, NoPhase)
  /\ UNCHANGED <<dbVars, memVars, ids, phased, seenVars, badVars>>

\* Fault: the plan to delete is looked up when it has left the list.
DeletePlanNext(p) ==
  /\ Ready(p)
  /\ \E i \in Findable :
       /\ i < Len(Listed)
       /\ Edited(Spliced(Listed, i))
       /\ gone' = gone \cup {b \in DOMAIN ids : ids[b] = objects[Listed[i]].id}
       /\ Start(p, "delete", Listed[i + 1], NoPhase)
  /\ UNCHANGED <<dbVars, objects, loaded, ids, phased, created, parted, badVars>>

DeletePlan(p) ==
  /\ Ready(p)
  /\ \E i \in Findable :
       /\ Edited(Spliced(Listed, i))
       /\ gone' = gone \cup {b \in DOMAIN ids : ids[b] = objects[Listed[i]].id}
       /\ Start(p, "delete", Listed[i], NoPhase)
  /\ UNCHANGED <<dbVars, objects, loaded, ids, phased, created, parted, badVars>>

\* Fault: a phase has the number of the one before it.
CreatePhaseUncounted(p) ==
  /\ Ready(p)
  /\ \E i \in Findable :
       LET o == Listed[i]  b == objects[o].row.born
           f == [of |-> b, no |-> phased[b]]
       IN  /\ Changed(o, [objects[o] EXCEPT !.phases = @ \cup {f}])
           /\ Start(p, "add", o, f)
  /\ UNCHANGED <<dbVars, arrays, loaded, ids, phased, seenVars, badVars>>

CreatePhase(p) ==
  /\ Ready(p)
  /\ \E i \in Findable :
       LET o == Listed[i]  b == objects[o].row.born
           f == [of |-> b, no |-> phased[b] + 1]
       IN  /\ phased[b] < MaxPhase
           /\ phased' = [phased EXCEPT ![b] = @ + 1]
           /\ Changed(o, [objects[o] EXCEPT !.phases = @ \cup {f}])
           /\ Start(p, "add", o, f)
  /\ UNCHANGED <<dbVars, arrays, loaded, ids, seenVars, badVars>>

DeletePhase(p) ==
  /\ Ready(p)
  /\ \E i \in Findable :
       LET o == Listed[i]
       IN  \E f \in objects[o].phases :
             /\ Changed(o, [objects[o] EXCEPT !.phases = @ \ {f}])
             /\ Start(p, "remove", o, f)
  /\ UNCHANGED <<dbVars, arrays, loaded, ids, phased, seenVars, badVars>>

\* getPlans: duplicates are filtered from the list, and plans with an old name
\* get a new one, and a code, in their objects.
Duplicates == {k \in DOMAIN Listed : objects[Listed[k]].row.code \in DigiCodes}
Renamed(q) == [q EXCEPT !.row.ver = @ + 1, !.row.code = BmsCode]

GetPlans(p) ==
  /\ Ready(p) /\ Newest < MaxArrays
  /\ LET kept == DOMAIN Listed \ Duplicates
     IN  /\ \E list \in Filtered(Listed, kept) : arrays' = Append(arrays, list)
         /\ \E old \in SUBSET {Listed[k] : k \in kept} :
              /\ \A o \in old : objects[o].row.ver < MaxVersion
              /\ objects' = [o \in DOMAIN objects |->
                               IF o \in old THEN Renamed(objects[o]) ELSE objects[o]]
              /\ parted' = (parted \/ Duplicates # {} \/ old # {})
  /\ Becomes(p, Idle)
  /\ UNCHANGED <<dbVars, loaded, ids, phased, created, gone, badVars>>

\* The request is refused: no such plan, or no right to it.
Refuse(p) ==
  /\ At(p, "act")
  /\ Becomes(p, Idle)
  /\ UNCHANGED <<dbVars, memVars, ids, phased, seenVars, badVars>>

-----------------------------------------------------------------------------
\* The statements that follow saveToDb.
\* Fault: the phases of the plan stay in their table.
DropRowOnly(p) ==
  /\ At(p, "drop")
  /\ rows' = [rows EXCEPT ![objects[call[p].obj].id] = NoRow]
  /\ Becomes(p, Idle)
  /\ UNCHANGED <<phaseRows, blob, memVars, ids, phased, seenVars, badVars>>

DropRow(p) ==
  /\ At(p, "drop")
  /\ rows' = [rows EXCEPT ![objects[call[p].obj].id] = NoRow]
  /\ Goto(p, "dropphases")
  /\ UNCHANGED <<phaseRows, blob, memVars, ids, phased, seenVars, badVars>>

DropPhases(p) ==
  /\ At(p, "dropphases")
  /\ phaseRows' = {f \in phaseRows : f.id # objects[call[p].obj].id}
  /\ Becomes(p, Idle)
  /\ UNCHANGED <<rows, blob, memVars, ids, phased, seenVars, badVars>>

\* The SELECT of this save never finds a row: the id is new.
AddPhase(p) ==
  /\ At(p, "addphase")
  /\ phaseRows' = phaseRows \cup {[phase |-> call[p].phase, id |-> objects[call[p].obj].id]}
  /\ Becomes(p, Idle)
  /\ UNCHANGED <<rows, blob, memVars, ids, phased, seenVars, badVars>>

DropPhase(p) ==
  /\ At(p, "dropphase")
  /\ phaseRows' = {f \in phaseRows : f.phase # call[p].phase}
  /\ Becomes(p, Idle)
  /\ UNCHANGED <<rows, blob, memVars, ids, phased, seenVars, badVars>>

\* The database refuses or loses a statement; every catch goes on.
Fail(p) ==
  /\ faults < MaxFaults
  /\ faults' = faults + 1 /\ failed' = TRUE
  /\ \/ call[p].at \in {"count", "fetch", "phases", "doc"} /\ Becomes(p, AfterLoad(p)) /\ UNCHANGED created
     \/ call[p].at \in {"write", "ownwrite"} /\ NotSaved(p)
     \/ At(p, "blob") /\ Proceed(p) /\ UNCHANGED created
     \/ call[p].at \in {"drop", "dropphases", "addphase", "dropphase"} /\ Becomes(p, Idle) /\ UNCHANGED created
  /\ UNCHANGED <<dbVars, memVars, ids, phased, gone, parted, cut>>

\* The process stops, with everything that runs in it, and is started again.
Restart ==
  /\ faults < MaxFaults
  /\ faults' = faults + 1
  /\ cut' = (cut \/ \E p \in Calls : ~At(p, "idle"))
  /\ call' = [p \in Calls |-> IF p = Boot THEN Loading ELSE Idle]
  /\ objects' = << >> /\ arrays' = << << >> >> /\ loaded' = FALSE
  /\ UNCHANGED <<dbVars, begun, ids, phased, seenVars, alone, failed>>

Step(p) ==
  \/ StartLoad(p) \/ CountRows(p) \/ FetchRows(p) \/ FetchPhases(p) \/ Seed(p)
  \/ Pick(p) \/ SelectRow(p) \/ Own(p) \/ InsertRow(p) \/ UpdateRow(p) \/ SaveBlob(p)
  \/ ChooseCode(p) \/ CreatePlan(p) \/ UpdatePlan(p) \/ EditPlan(p) \/ TouchPlan(p)
  \/ DeletePlan(p) \/ CreatePhase(p) \/ DeletePhase(p) \/ GetPlans(p) \/ Refuse(p)
  \/ DropRow(p) \/ DropPhases(p) \/ AddPhase(p) \/ DropPhase(p)
  \/ Fail(p)

Next ==
  \/ \E p \in Calls : Step(p) /\ Noted(p)
  \/ Restart

Spec == Init /\ [][Next]_vars

-----------------------------------------------------------------------------
(***************************************************************************)
(* Properties                                                              *)
(***************************************************************************)
Quiet == \A p \in Calls : At(p, "idle")

\* A plan whose creation was answered has a row, whatever saves, loads and
\* restarts fall beside it, until its deletion is asked for, even when its id
\* was that of a deleted plan (and no statement has failed).
CreatedIsStored ==
  ~failed => \A b \in created \ gone : ids[b] \in Stored

\* When nothing runs, the rows are the plans that are listed, their codes with
\* them: a restart shows what the process showed, whatever restarts came before
\* (unless list and table were parted or a statement has failed).
RestartShowsPlans ==
  alone /\ ~parted /\ ~failed /\ loaded /\ Quiet =>
    {[id |-> q.id, row |-> q.row] : q \in ListedPlans} = {[id |-> i, row |-> rows[i]] : i \in Stored}

\* When no call was cut short either, the rows of phases are of stored plans and
\* were created for them: none outlives its plan to turn up under another that
\* is given its id.
OwnPhases ==
  alone /\ ~parted /\ ~failed /\ ~cut /\ loaded /\ Quiet =>
    \A f \in phaseRows : f.id \in Stored /\ rows[f.id].born = f.phase.of
=============================================================================
