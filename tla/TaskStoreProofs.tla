--------------------------- MODULE TaskStoreProofs ---------------------------
(***************************************************************************)
(* The store of the tasks, for any number of processes, requests, saves,   *)
(* tasks and restarts.  Whatever runs side by side: it stays well-formed   *)
(* and keeps every task whose creation was answered.  When there is one    *)
(* process, which has loaded its list once, and nothing runs, the rows are *)
(* the tasks it lists, but for deleted ones and tasks of PMS.              *)
(***************************************************************************)
EXTENDS TaskStore, FiniteSetTheorems, SequenceTheorems, TLAPS

StoreOK ==
  /\ rows \in [Ids -> 0 .. MaxVersion] /\ blob \in Seq(Task)
  /\ arrays \in [Replicas -> Seq(Seq(Task))]
  /\ \A r \in Replicas : arrays[r] # << >>
  /\ loaded \subseteq Replicas /\ code \in [Ids -> Kinds \cup {"none"}]
  /\ created \subseteq Ids /\ gone \subseteq Ids
  /\ failed \in BOOLEAN /\ faults \in 0 .. MaxFaults

\* Tasks that need no further save: they have their row, or were deleted, or a
\* failed statement excuses them.
Safe == {t \in Ids : failed \/ rows[t] # 0 \/ t \in gone}

\* What the next statement of a call needs: the list it walks, the task it
\* saves or deletes; and a creation that only has to answer is safe, as is one
\* whose SELECT found the row.
CallOK(c, lists, safe, deleted) ==
  /\ c \in CallStates
  /\ c.at \notin {"idle", "done"} => c.on \in Replicas
  /\ c.at \in {"pick", "blob"} \/ c.job \in {"seed", "save"} =>
       /\ c.on \in Replicas /\ c.arr \in DOMAIN lists[c.on] /\ c.idx \in Nat \ {0}
  /\ c.at \in {"select", "write", "delete", "answer"} => c.obj \in Task
  /\ c.at = "delete" => c.obj.id \in deleted
  /\ c.job = "create" /\ (c.at = "answer" \/ (c.at = "write" /\ c.found # 0)) =>
       c.obj.id \in safe

CallsOK == \A p \in Calls : CallOK(call[p], arrays, Safe, gone)

Inv ==
  /\ StoreOK
  /\ call \in [Calls -> CallStates] /\ CallsOK
  /\ created \subseteq Safe

-----------------------------------------------------------------------------
(***************************************************************************)
(* The states of a call.                                                   *)
(***************************************************************************)
LEMMA StatesOK ==
  ASSUME NEW lists, NEW safe, NEW deleted
  PROVE  /\ \A p : CallOK(Over(p), lists, safe, deleted)
         /\ CallOK(Idle, lists, safe, deleted)
         /\ \A r \in Replicas : /\ CallOK(Booting(r), lists, safe, deleted)
                               /\ CallOK(Acting(r), lists, safe, deleted)
         /\ \A j \in {"seed", "save"}, r \in Replicas : \A n \in DOMAIN lists[r] :
              n \in Nat => CallOK(Walking(j, r, n), lists, safe, deleted)
         /\ \A j \in {"create", "update"}, r \in Replicas, o \in Task :
              CallOK(Saving(j, r, o), lists, safe, deleted)
         /\ \A r \in Replicas, o \in Task :
              o.id \in deleted => CallOK(Deleting(r, o), lists, safe, deleted)
BY BoundAssumption
   DEF CallOK, State, Idle, Done, Over, Booting, Acting, Walking, Saving, Deleting,
       CallStates, Loads

\* What later statements do to the store disturbs no call that waits.
LEMMA CallKept ==
  ASSUME NEW c, NEW lists, NEW safe, NEW deleted, NEW lists2, NEW safe2, NEW deleted2,
         CallOK(c, lists, safe, deleted),
         safe \subseteq safe2, deleted \subseteq deleted2,
         c.on \in Replicas => DOMAIN lists[c.on] \subseteq DOMAIN lists2[c.on]
  PROVE  CallOK(c, lists2, safe2, deleted2)
  BY DEF CallOK

Kept ==
  /\ Safe \subseteq Safe' /\ gone \subseteq gone'
  /\ \A r \in Replicas : DOMAIN arrays[r] \subseteq DOMAIN arrays'[r]

LEMMA OneMoves ==
  ASSUME call \in [Calls -> CallStates], CallsOK, Kept, NEW p, NEW c,
         call' = [call EXCEPT ![p] = c], CallOK(c, arrays', Safe', gone')
  PROVE  call' \in [Calls -> CallStates] /\ CallsOK'
<1>1. ASSUME NEW q \in Calls PROVE CallOK(call[q], arrays', Safe', gone')
  BY CallKept DEF CallsOK, Kept
<1>2. c \in CallStates
  BY DEF CallOK
<1> QED
  BY <1>1, <1>2 DEF CallsOK

\* saveStore starts a save beside whatever else the request does.
LEMMA SaveStarts ==
  ASSUME call \in [Calls -> CallStates], CallsOK, Kept, NEW p \in Calls, NEW c,
         NEW r \in Replicas, NEW n \in Nat, n \in DOMAIN arrays'[r],
         WithSave(p, c, r, n), CallOK(c, arrays', Safe', gone')
  PROVE  call' \in [Calls -> CallStates] /\ CallsOK'
<1>1. PICK s \in Savers : call' = [call EXCEPT ![p] = c, ![s] = Walking("save", r, n)]
  BY DEF WithSave
<1>2. CallOK(Walking("save", r, n), arrays', Safe', gone')
  BY StatesOK
<1>3. ASSUME NEW q \in Calls PROVE CallOK(call[q], arrays', Safe', gone')
  BY CallKept DEF CallsOK, Kept
<1>4. c \in CallStates /\ Walking("save", r, n) \in CallStates
  BY <1>2 DEF CallOK
<1> QED
  BY <1>1, <1>2, <1>3, <1>4 DEF CallsOK

-----------------------------------------------------------------------------
(***************************************************************************)
(* The lists.                                                              *)
(***************************************************************************)
ListsOK == arrays \in [Replicas -> Seq(Seq(Task))] /\ \A r \in Replicas : arrays[r] # << >>

LEMMA NewestOK ==
  ASSUME ListsOK, NEW r \in Replicas
  PROVE  /\ Newest(r) \in Nat \ {0} /\ Newest(r) \in DOMAIN arrays[r]
         /\ Listed(r) \in Seq(Task)
<1>1. arrays[r] \in Seq(Seq(Task)) /\ arrays[r] # << >>
  BY DEF ListsOK
<1> QED
  BY <1>1 DEF Newest, Listed

LEMMA AssignedOK ==
  ASSUME ListsOK, NEW r \in Replicas, NEW list \in Seq(Task), Assigned(r, list)
  PROVE  /\ ListsOK' /\ Newest(r) + 1 \in DOMAIN arrays'[r]
         /\ \A q \in Replicas : DOMAIN arrays[q] \subseteq DOMAIN arrays'[q]
<1>1. arrays[r] \in Seq(Seq(Task)) /\ arrays[r] # << >>
  BY DEF ListsOK
<1>2. /\ Append(arrays[r], list) \in Seq(Seq(Task))
      /\ Append(arrays[r], list) # << >>
      /\ DOMAIN arrays[r] \subseteq DOMAIN Append(arrays[r], list)
      /\ Newest(r) + 1 \in DOMAIN Append(arrays[r], list)
  BY <1>1 DEF Newest
<1> QED
  BY <1>1, <1>2 DEF Assigned, ListsOK

LEMMA EditedOK ==
  ASSUME ListsOK, NEW r \in Replicas, NEW list \in Seq(Task), Edited(r, list)
  PROVE  /\ ListsOK' /\ Newest(r) \in DOMAIN arrays'[r]
         /\ \A q \in Replicas : DOMAIN arrays[q] \subseteq DOMAIN arrays'[q]
<1>1. arrays[r] \in Seq(Seq(Task)) /\ arrays[r] # << >>
  BY DEF ListsOK
<1>2. Newest(r) \in DOMAIN arrays[r]
  BY <1>1 DEF Newest
<1>3. [arrays[r] EXCEPT ![Newest(r)] = list] \in Seq(Seq(Task))
  BY <1>1, <1>2
<1>4. [arrays[r] EXCEPT ![Newest(r)] = list] # << >>
  BY <1>1, <1>2
<1> QED
  BY <1>1, <1>2, <1>3, <1>4 DEF Edited, ListsOK

\* splice takes an element out and leaves the others.
LEMMA SplicedOK ==
  ASSUME NEW list \in Seq(Task), NEW i \in DOMAIN list
  PROVE  Spliced(list, i) \in Seq(Task)
<1>1. i \in 1 .. Len(list)
  OBVIOUS
<1>2. SubSeq(list, 1, i - 1) \in Seq(Task) /\ SubSeq(list, i + 1, Len(list)) \in Seq(Task)
  BY <1>1
<1> QED
  BY <1>2 DEF Spliced

\* No task is listed twice.
Apart(list) == \A i, j \in DOMAIN list : list[i].id = list[j].id => i = j

\* What find() returns is a list of tasks.
LEMMA FetchedOK ==
  ASSUME rows \in [Ids -> 0 .. MaxVersion],
         NEW list \in [1 .. Cardinality(Stored \ Pms) -> RowTasks]
  PROVE  list \in Seq(Task)
<1>1. RowTasks \subseteq Task
  BY BoundAssumption DEF RowTasks, Stored, Task, Versions
<1>2. IsFiniteSet(Stored \ Pms)
  <2>1. 1 \in Int /\ MaxTask \in Int
    BY BoundAssumption
  <2>2. IsFiniteSet(Ids)
    BY <2>1, FS_Interval DEF Ids
  <2>3. Stored \ Pms \subseteq Ids
    BY DEF Stored
  <2> QED
    BY <2>2, <2>3, FS_Subset
<1> DEFINE n == Cardinality(Stored \ Pms)
<1>3. n \in Nat
  BY <1>2, FS_CardinalityType
<1>4. list \in [1 .. n -> RowTasks]
  OBVIOUS
<1> HIDE DEF n
<1> QED
  BY <1>1, <1>3, <1>4

\* Neither does the filter make tasks up, or list one of PMS.
LEMMA FilteredOK ==
  ASSUME NEW all \in Seq(Task), NEW list \in Filtered(all)
  PROVE  /\ list \in Seq(Task) /\ IdsOf(list) \subseteq IdsOf(all) \ Pms
         /\ Apart(all) => Apart(list)
<1> DEFINE n == Cardinality(Stays(all))
<1>1. n \in Nat /\ Stays(all) \subseteq DOMAIN all
  <2>1. Stays(all) \subseteq 1 .. Len(all) /\ Len(all) \in Int
    BY DEF Stays
  <2>2. IsFiniteSet(1 .. Len(all))
    BY <2>1, FS_Interval
  <2>3. IsFiniteSet(Stays(all))
    BY <2>1, <2>2, FS_Subset
  <2> QED
    BY <2>1, <2>3, FS_CardinalityType
<1>2. PICK at \in [1 .. n -> Stays(all)] :
        /\ \A i, j \in 1 .. n : i < j => at[i] < at[j]
        /\ list = [i \in 1 .. n |-> all[at[i]]]
  BY DEF Filtered
<1> HIDE DEF n
<1>3. \A i \in 1 .. n : at[i] \in DOMAIN all /\ list[i] = all[at[i]] /\ list[i].id \notin Pms
  BY <1>1, <1>2 DEF Stays
<1>4. DOMAIN list = 1 .. n
  BY <1>2
<1>5. list \in Seq(Task)
  <2>1. \A i \in 1 .. n : list[i] \in Task
    BY <1>3
  <2>2. list \in [1 .. n -> Task]
    BY <1>2, <2>1
  <2> QED
    BY <1>1, <2>2
<1>6. IdsOf(list) \subseteq IdsOf(all) \ Pms
  BY <1>3, <1>4 DEF IdsOf
<1>7. ASSUME Apart(all) PROVE Apart(list)
  <2> SUFFICES ASSUME NEW i \in 1 .. n, NEW j \in 1 .. n, list[i].id = list[j].id
               PROVE  i = j
    BY <1>4 DEF Apart
  <2>1. at[i] = at[j] /\ at[i] \in Int /\ at[j] \in Int
    BY <1>3, <1>7 DEF Apart
  <2>2. ~(i < j) /\ ~(j < i)
    BY <1>2, <2>1
  <2> QED
    BY <1>1, <2>2
<1> QED
  BY <1>5, <1>6, <1>7

-----------------------------------------------------------------------------
(***************************************************************************)
(* The invariant.                                                          *)
(***************************************************************************)
LEMMA InitInv == Init => Inv
<1> SUFFICES ASSUME Init PROVE Inv
  OBVIOUS
<1> USE BoundAssumption DEF Init
<1>1. PICK n \in {0, 1}, k \in Kinds :
        /\ blob = [i \in 1 .. n |-> [id |-> i, ver |-> 1]]
        /\ code = [t \in Ids |-> IF t <= n THEN k ELSE "none"]
  OBVIOUS
<1>2. blob \in Seq(Task)
  BY <1>1 DEF Task, Ids, Versions
<1>3. code \in [Ids -> Kinds \cup {"none"}]
  BY <1>1 DEF Ids
<1>4. arrays \in [Replicas -> Seq(Seq(Task))] /\ \A r \in Replicas : arrays[r] # << >>
  OBVIOUS
<1>5. rows \in [Ids -> 0 .. MaxVersion] /\ faults \in 0 .. MaxFaults
  OBVIOUS
<1>8. StoreOK
  BY <1>2, <1>3, <1>4, <1>5 DEF StoreOK
<1>6. \A p \in Calls : CallOK(call[p], arrays, Safe, gone)
  BY StatesOK DEF Calls
<1>7. call \in [Calls -> CallStates]
  BY <1>6 DEF CallOK
<1> QED
  BY <1>6, <1>7, <1>8 DEF Inv, CallsOK

\* initDbStore.
LEMMA LoadKeeps ==
  ASSUME Inv, NEW p \in Calls,
         CountRows(p) \/ FetchRows(p) \/ HealRows(p) \/ FetchComments(p) \/ Seed(p)
  PROVE  Inv'
<1> USE DEF Inv
<1>1. ListsOK /\ CallOK(call[p], arrays, Safe, gone)
  BY DEF StoreOK, ListsOK, CallsOK
<1>2. call[p].on \in Replicas
  BY <1>1 DEF CallOK, CountRows, FetchRows, HealRows, FetchComments, Seed, At
<1>3. CallOK(AfterLoad(p), arrays', Safe', gone')
  BY <1>2, StatesOK DEF AfterLoad
<1>4. CASE CountRows(p)
  <2>1. Kept /\ StoreOK' /\ created' \subseteq Safe'
    BY <1>4 DEF CountRows, StoreOK, Kept, Safe, auxVars
  <2>2. CallOK(call[p], arrays', Safe', gone')
    BY <1>1, <2>1, CallKept DEF Kept
  <2>3. PICK l \in {"fetch", "seed"} : call' = [call EXCEPT ![p] = [@ EXCEPT !.at = l]]
    BY <1>4 DEF CountRows, Goto
  <2>4. CallOK([call[p] EXCEPT !.at = l], arrays', Safe', gone')
    BY <1>2, <1>4, <2>2 DEF CallOK, CallStates, Loads, CountRows, At
  <2> QED
    BY <2>1, <2>3, <2>4, OneMoves
\* The list that was read, at once or after its rows were rewritten.
<1>8. ASSUME NEW list \in Seq(Task), NEW c, Assigned(call[p].on, list),
             call' = [call EXCEPT ![p] = c], CallOK(c, arrays, Safe, gone),
             UNCHANGED <<rows, blob, loaded, code, auxVars>>
      PROVE  Inv'
  <2>1. ListsOK' /\ \A q \in Replicas : DOMAIN arrays[q] \subseteq DOMAIN arrays'[q]
    BY <1>1, <1>2, <1>8, AssignedOK
  <2>2. Kept /\ StoreOK' /\ created' \subseteq Safe'
    BY <1>8, <2>1 DEF StoreOK, ListsOK, Kept, Safe, auxVars
  <2>3. CallOK(c, arrays', Safe', gone')
    BY <1>8, <2>2, CallKept DEF Kept
  <2> QED
    BY <1>8, <2>2, <2>3, OneMoves
<1>5. CASE FetchRows(p)
  <2>1. PICK list \in [1 .. Cardinality(Stored \ Pms) -> RowTasks] :
          \/ /\ Assigned(call[p].on, list)
             /\ Goto(p, "comments")
          \/ /\ call' = [call EXCEPT ![p].at = "heal", ![p].list = list]
             /\ UNCHANGED arrays
    BY <1>5 DEF FetchRows
  <2>2. list \in Seq(Task)
    BY <2>1, FetchedOK DEF StoreOK
  <2>3. call[p] \in CallStates /\ UNCHANGED <<rows, blob, loaded, code, auxVars>>
    BY <1>1, <1>5 DEF CallOK, FetchRows
  <2>4. CASE Assigned(call[p].on, list) /\ Goto(p, "comments")
    <3>1. CallOK([call[p] EXCEPT !.at = "comments"], arrays, Safe, gone)
      BY <1>1, <1>2, <1>5 DEF CallOK, CallStates, Loads, FetchRows, At
    <3> QED
      BY <1>8, <2>2, <2>3, <2>4, <3>1 DEF Goto
  <2>5. CASE /\ call' = [call EXCEPT ![p].at = "heal", ![p].list = list]
             /\ UNCHANGED arrays
    <3> DEFINE c == [[call[p] EXCEPT !.at = "heal"] EXCEPT !.list = list]
    <3>1. CallOK(c, arrays, Safe, gone)
      BY <1>1, <1>2, <1>5, <2>2 DEF CallOK, CallStates, Loads, FetchRows, At
    <3>2. call' = [call EXCEPT ![p] = c]
      BY <2>5
    <3>3. Kept /\ StoreOK' /\ created' \subseteq Safe'
      BY <2>3, <2>5 DEF StoreOK, Kept, Safe, auxVars
    <3>4. CallOK(c, arrays', Safe', gone')
      BY <3>1, <3>3, CallKept DEF Kept
    <3> HIDE DEF c
    <3> QED
      BY <3>2, <3>3, <3>4, OneMoves
  <2> QED
    BY <2>1, <2>4, <2>5
<1>9. CASE HealRows(p)
  <2> DEFINE c == [[call[p] EXCEPT !.at = "comments"] EXCEPT !.list = << >>]
  <2>1. call[p] \in CallStates /\ call[p].list \in Seq(Task)
    BY <1>1 DEF CallOK, CallStates
  <2>4. << >> \in Seq(Task) /\ call[p].at = "heal"
    BY <1>9 DEF HealRows, At
  <2>5. /\ c \in CallStates /\ c.at = "comments" /\ c.job = call[p].job /\ c.on = call[p].on
        /\ c.arr = call[p].arr /\ c.idx = call[p].idx
    BY <2>1, <2>4 DEF CallStates, Loads
  <2>2. CallOK(c, arrays, Safe, gone)
    <3> HIDE DEF c
    <3> QED
      BY <1>1, <1>2, <2>4, <2>5 DEF CallOK
  <2>3. call' = [call EXCEPT ![p] = c] /\ Assigned(call[p].on, call[p].list)
        /\ UNCHANGED <<rows, blob, loaded, code, auxVars>>
    BY <1>9 DEF HealRows
  <2> HIDE DEF c
  <2> QED
    BY <1>8, <2>1, <2>2, <2>3
<1>6. CASE FetchComments(p)
  <2>1. Kept /\ StoreOK' /\ created' \subseteq Safe'
    BY <1>2, <1>6 DEF FetchComments, StoreOK, Kept, Safe, auxVars
  <2>2. CASE Becomes(p, AfterLoad(p))
    BY <1>3, <2>1, <2>2, OneMoves DEF Becomes
  <2>3. CASE WithSave(p, AfterLoad(p), call[p].on, Newest(call[p].on))
    <3>1. Newest(call[p].on) \in Nat /\ Newest(call[p].on) \in DOMAIN arrays'[call[p].on]
      BY <1>1, <1>2, <1>6, NewestOK DEF FetchComments
    <3> QED
      BY <1>2, <1>3, <2>1, <2>3, <3>1, SaveStarts
  <2> QED
    BY <1>6, <2>2, <2>3 DEF FetchComments
<1>7. CASE Seed(p)
  <2> DEFINE r == call[p].on
             n == Newest(r) + 1
  <2>7. PICK list \in Filtered(blob) :
          /\ Assigned(r, list)
          /\ \/ Becomes(p, Walking("seed", r, n))
             \/ WithSave(p, Walking("seed", r, n), r, n)
    BY <1>7 DEF Seed
  <2>8. list \in Seq(Task)
    BY FilteredOK DEF StoreOK
  <2>1. ListsOK' /\ n \in DOMAIN arrays'[r]
        /\ \A q \in Replicas : DOMAIN arrays[q] \subseteq DOMAIN arrays'[q]
    BY <1>1, <1>2, <2>7, <2>8, AssignedOK
  <2>2. Kept /\ StoreOK' /\ created' \subseteq Safe'
    BY <1>7, <2>1 DEF Seed, StoreOK, ListsOK, Kept, Safe, auxVars
  <2>3. n \in Nat
    BY <1>1, <1>2, NewestOK
  <2>4. CallOK(Walking("seed", r, n), arrays', Safe', gone')
    BY <1>2, <2>1, <2>3, StatesOK
  <2>5. CASE Becomes(p, Walking("seed", r, n))
    BY <2>2, <2>4, <2>5, OneMoves DEF Becomes
  <2>6. CASE WithSave(p, Walking("seed", r, n), r, n)
    BY <1>2, <2>1, <2>2, <2>3, <2>4, <2>6, SaveStarts
  <2> QED
    BY <2>5, <2>6, <2>7
<1> QED
  BY <1>4, <1>5, <1>6, <1>7, <1>9

\* A call whose row is saved, or has failed to be, goes on with what it needs.
LEMMA SaverGoesOn ==
  ASSUME Inv, Kept, NEW p \in Calls, At(p, "write") \/ At(p, "select") \/ At(p, "blob"),
         SaveOver(p) \/ (~At(p, "blob") /\ (RowDone(p) \/ RowFailed(p))),
         ~At(p, "blob") /\ call[p].job = "create" => call[p].obj.id \in Safe'
  PROVE  /\ call' \in [Calls -> CallStates] /\ CallsOK'
         /\ loaded' \subseteq Replicas
<1> USE DEF Inv
<1>1. CallOK(call[p], arrays', Safe', gone')
  BY CallKept DEF CallsOK, Kept
<1>2. call[p].on \in Replicas /\ loaded \subseteq Replicas
  BY <1>1 DEF CallOK, At, StoreOK
<1>3. CallOK(AfterLoad(p), arrays', Safe', gone') /\ CallOK(Idle, arrays', Safe', gone')
  BY <1>2, StatesOK DEF AfterLoad
<1>4. CASE SaveOver(p)
  BY <1>2, <1>3, <1>4, OneMoves DEF SaveOver, Becomes
<1>5. CASE RowDone(p) /\ ~At(p, "blob")
  <2>1. CASE call[p].job \in {"create", "update"} /\ Goto(p, "answer")
    <3>1. CallOK([call[p] EXCEPT !.at = "answer"], arrays', Safe', gone')
      BY <1>1, <1>5, <2>1 DEF CallOK, CallStates, Loads, At
    <3> QED
      BY <1>2, <1>5, <2>1, <3>1, OneMoves DEF RowDone, Goto
  <2>2. CASE call[p].job \in {"seed", "save"} /\ Becomes(p, Further(call[p]))
    <3>1. call[p].idx + 1 \in Nat \ {0} /\ call[p].arr \in Nat
      BY <1>1 DEF CallOK, CallStates
    <3>2. CallOK(Further(call[p]), arrays', Safe', gone')
      BY <1>1, <1>2, <2>2, <3>1, BoundAssumption
         DEF CallOK, CallStates, Loads, State, Further, NoObj
    <3> QED
      BY <1>2, <1>5, <2>2, <3>2, OneMoves DEF RowDone, Becomes
  <2> QED
    BY <1>5, <2>1, <2>2 DEF RowDone
<1>6. CASE RowFailed(p) /\ ~At(p, "blob")
  <2>1. CASE call[p].job \in {"create", "update"} /\ Goto(p, "answer")
    <3>1. CallOK([call[p] EXCEPT !.at = "answer"], arrays', Safe', gone')
      BY <1>1, <1>6, <2>1 DEF CallOK, CallStates, Loads, At
    <3>2. UNCHANGED loaded
      BY <1>6, <2>1 DEF RowFailed
    <3> QED
      BY <1>2, <2>1, <3>1, <3>2, OneMoves DEF Goto
  <2>2. CASE Becomes(p, AfterLoad(p)) /\ UNCHANGED loaded
    BY <1>2, <1>3, <2>2, OneMoves DEF Becomes
  <2> QED
    BY <1>4, <1>6, <2>1, <2>2 DEF RowFailed
<1> QED
  BY <1>4, <1>5, <1>6

\* The statements of saveToDb and of the saves of single rows.
LEMMA SaveKeeps ==
  ASSUME Inv, NEW p \in Calls,
         Pick(p) \/ SelectRow(p) \/ InsertRow(p) \/ UpdateRow(p) \/ SaveBlob(p)
  PROVE  Inv'
<1> USE DEF Inv
<1>1. ListsOK /\ CallOK(call[p], arrays, Safe, gone)
  BY DEF StoreOK, ListsOK, CallsOK
<1>2. call[p].on \in Replicas
  BY <1>1 DEF CallOK, Pick, SelectRow, InsertRow, UpdateRow, SaveBlob, At
<1>3. At(p, "pick") \/ At(p, "blob") =>
        Walked(p) \in Seq(Task) /\ call[p].idx \in Nat \ {0}
  BY <1>1, <1>2 DEF CallOK, Walked, ListsOK, At
<1>4. CASE Pick(p)
  <2>1. Kept /\ StoreOK' /\ created' \subseteq Safe'
    BY <1>4 DEF Pick, StoreOK, Kept, Safe, auxVars
  <2>2. CallOK(call[p], arrays', Safe', gone')
    BY <1>1, <2>1, CallKept DEF Kept
  <2>3. CASE /\ call[p].idx <= Len(Walked(p))
             /\ call' = [call EXCEPT ![p].at = "select", ![p].obj = Walked(p)[call[p].idx]]
    <3> DEFINE o == Walked(p)[call[p].idx]
               c == [[call[p] EXCEPT !.at = "select"] EXCEPT !.obj = o]
    <3>1. o \in Task
      BY <1>3, <1>4, <2>3 DEF Pick
    <3>2. CallOK(c, arrays', Safe', gone')
      BY <1>2, <1>4, <2>2, <3>1 DEF CallOK, CallStates, Loads, Pick, At
    <3>3. call' = [call EXCEPT ![p] = c]
      BY <2>3
    <3> QED
      BY <2>1, <3>2, <3>3, OneMoves
  <2>4. CASE Becomes(p, Walking("save", call[p].on, Newest(call[p].on)))
    <3>1. Newest(call[p].on) \in Nat /\ Newest(call[p].on) \in DOMAIN arrays'[call[p].on]
      BY <1>1, <1>2, <1>4, NewestOK DEF Pick
    <3>2. CallOK(Walking("save", call[p].on, Newest(call[p].on)), arrays', Safe', gone')
      BY <1>2, <3>1, StatesOK
    <3> QED
      BY <2>1, <2>4, <3>2, OneMoves DEF Becomes
  <2>5. CASE Goto(p, "blob")
    <3>1. CallOK([call[p] EXCEPT !.at = "blob"], arrays', Safe', gone')
      BY <1>2, <1>4, <2>2 DEF CallOK, CallStates, Loads, Pick, At
    <3> QED
      BY <2>1, <2>5, <3>1, OneMoves DEF Goto
  <2> QED
    BY <1>4, <2>3, <2>4, <2>5 DEF Pick
<1>5. CASE SelectRow(p)
  <2>1. Kept /\ StoreOK' /\ created' \subseteq Safe'
    BY <1>5 DEF SelectRow, StoreOK, Kept, Safe, auxVars
  <2>2. CallOK(call[p], arrays', Safe', gone') /\ call[p].obj \in Task
    BY <1>1, <1>5, <2>1, CallKept DEF Kept, CallOK, SelectRow, At
  <2> DEFINE f == rows[call[p].obj.id]
             c == [[call[p] EXCEPT !.at = "write"] EXCEPT !.found = f]
  <2>3. f \in 0 .. MaxVersion /\ (f # 0 => call[p].obj.id \in Safe')
    BY <2>2, <1>5 DEF StoreOK, Task, Safe, SelectRow
  <2>4. CallOK(c, arrays', Safe', gone')
    BY <1>2, <1>5, <2>2, <2>3 DEF CallOK, CallStates, Loads, SelectRow, At
  <2>5. call' = [call EXCEPT ![p] = c]
    BY <1>5 DEF SelectRow
  <2> QED
    BY <2>1, <2>4, <2>5, OneMoves
<1>6. CASE InsertRow(p)
  <2> DEFINE o == call[p].obj
  <2>1. o \in Task /\ o.id \in Ids /\ o.ver \in 0 .. MaxVersion /\ o.ver # 0
    BY <1>1, <1>6, BoundAssumption DEF InsertRow, At, CallOK, Task, Versions
  <2>2. rows' \in [Ids -> 0 .. MaxVersion] /\ (\A t \in Ids : rows[t] # 0 => rows'[t] # 0)
        /\ rows'[o.id] # 0
    BY <1>6, <2>1 DEF InsertRow, StoreOK
  <2>3. Kept /\ created' \subseteq Safe' /\ o.id \in Safe'
    BY <1>6, <2>1, <2>2 DEF InsertRow, Kept, Safe, auxVars
  <2>4. SaveOver(p) \/ (~At(p, "blob") /\ (RowDone(p) \/ RowFailed(p)))
    BY <1>6 DEF InsertRow, At
  <2>5. call' \in [Calls -> CallStates] /\ CallsOK' /\ loaded' \subseteq Replicas
    BY <1>6, <2>3, <2>4, SaverGoesOn DEF InsertRow
  <2>6. StoreOK'
    BY <1>6, <2>2, <2>5 DEF InsertRow, StoreOK, auxVars
  <2> QED
    BY <2>3, <2>5, <2>6
<1>7. CASE UpdateRow(p)
  <2> DEFINE o == call[p].obj
  <2>1. o \in Task /\ o.id \in Ids /\ o.ver \in 0 .. MaxVersion /\ o.ver # 0
    BY <1>1, <1>7, BoundAssumption DEF UpdateRow, At, CallOK, Task, Versions
  <2>2. rows' \in [Ids -> 0 .. MaxVersion] /\ (\A t \in Ids : rows[t] # 0 => rows'[t] # 0)
    BY <1>7, <2>1 DEF UpdateRow, StoreOK
  <2>3. Kept /\ created' \subseteq Safe'
    BY <1>7, <2>2 DEF UpdateRow, Kept, Safe, auxVars
  <2>4. call[p].job = "create" => o.id \in Safe'
    BY <1>1, <1>7, <2>3 DEF UpdateRow, CallOK, At, Kept
  <2>5. call' \in [Calls -> CallStates] /\ CallsOK' /\ loaded' \subseteq Replicas
    BY <1>7, <2>3, <2>4, SaverGoesOn DEF UpdateRow, At
  <2>6. StoreOK'
    BY <1>7, <2>2, <2>5 DEF UpdateRow, StoreOK, auxVars
  <2> QED
    BY <2>3, <2>5, <2>6
<1>8. CASE SaveBlob(p)
  <2>1. Kept /\ created' \subseteq Safe'
    BY <1>8 DEF SaveBlob, Kept, Safe, auxVars
  <2>2. call' = [call EXCEPT ![p] = Idle] \/ call' = [call EXCEPT ![p] = AfterLoad(p)]
    BY <1>8 DEF SaveBlob, SaveOver, Becomes
  <2>3. CallOK(Idle, arrays', Safe', gone') /\ CallOK(AfterLoad(p), arrays', Safe', gone')
    BY <1>2, StatesOK DEF AfterLoad
  <2>4. StoreOK'
    <3>1. Listed(call[p].on) \in Seq(Task)
      BY <1>1, <1>2, NewestOK DEF Listed, ListsOK
    <3> QED
      BY <1>2, <1>8, <3>1 DEF SaveBlob, SaveOver, StoreOK, auxVars
  <2> QED
    BY <2>1, <2>2, <2>3, <2>4, OneMoves
<1> QED
  BY <1>4, <1>5, <1>6, <1>7, <1>8

\* A request that changes this.tasks in place and starts a save.
LEMMA EditKeeps ==
  ASSUME Inv, NEW p \in Calls, NEW r \in Replicas, NEW list \in Seq(Task), NEW c,
         Edited(r, list), WithSave(p, c, r, Newest(r)), Safe \subseteq Safe',
         gone \subseteq gone', CallOK(c, arrays', Safe', gone'),
         code' \in [Ids -> Kinds \cup {"none"}], gone' \subseteq Ids,
         UNCHANGED <<rows, blob, loaded, created, failed, faults>>
  PROVE  Inv'
<1> USE DEF Inv
<1>1. ListsOK
  BY DEF StoreOK, ListsOK
<1>2. /\ ListsOK' /\ Newest(r) \in DOMAIN arrays'[r] /\ Newest(r) \in Nat
      /\ \A q \in Replicas : DOMAIN arrays[q] \subseteq DOMAIN arrays'[q]
  BY <1>1, EditedOK, NewestOK
<1>3. Kept /\ StoreOK' /\ created' \subseteq Safe'
  BY <1>2 DEF Kept, StoreOK, ListsOK
<1> QED
  BY <1>2, <1>3, SaveStarts

\* What a request starts.
LEMMA BeginKeeps ==
  ASSUME Inv, NEW p \in Requests, NEW r \in Replicas, Begin(p, r)
  PROVE  Inv'
<1> USE DEF Inv
<1>1. ListsOK /\ p \in Calls
  BY DEF StoreOK, ListsOK, Calls
<1>2. Listed(r) \in Seq(Task) /\ Newest(r) \in DOMAIN arrays[r] /\ Newest(r) \in Nat
  BY <1>1, NewestOK
<1>3. CASE StartLoad(p, r)
  <2>1. Kept /\ StoreOK' /\ created' \subseteq Safe'
    BY <1>3 DEF StartLoad, StoreOK, Kept, Safe, auxVars
  <2> QED
    BY <1>3, <2>1, StatesOK, OneMoves DEF StartLoad, Becomes
<1>4. CASE CreateTask(p, r)
  <2>1. PICK t \in Unused, k \in Kinds :
          LET o == [id |-> t, ver |-> 1]
          IN  /\ code' = [code EXCEPT ![t] = k]
              /\ Edited(r, <<o>> \o Listed(r))
              /\ WithSave(p, Saving("create", r, o), r, Newest(r))
    BY <1>4 DEF CreateTask
  <2> DEFINE o == [id |-> t, ver |-> 1]
  <2>2. t \in Ids /\ o \in Task
    BY BoundAssumption DEF Unused, Task, Versions
  <2>3. <<o>> \o Listed(r) \in Seq(Task)
    BY <1>2, <2>2
  <2>4. CallOK(Saving("create", r, o), arrays', Safe', gone')
    BY <2>2, StatesOK
  <2>5. code' \in [Ids -> Kinds \cup {"none"}]
    <3>1. code \in [Ids -> Kinds \cup {"none"}]
      BY DEF StoreOK
    <3> QED
      BY <2>1, <3>1
  <2>6. UNCHANGED <<rows, blob, loaded, auxVars>> /\ Safe \subseteq Safe'
    BY <1>4 DEF CreateTask, auxVars, Safe
  <2>7. gone' \subseteq Ids
    BY <2>6 DEF StoreOK, auxVars
  <2> QED
    BY <1>1, <2>1, <2>3, <2>4, <2>5, <2>6, <2>7, EditKeeps DEF auxVars
<1>5. CASE UpdateTask(p, r)
  <2>1. PICK i \in DOMAIN Listed(r) :
          LET o == [Listed(r)[i] EXCEPT !.ver = @ + 1]
          IN  /\ o.ver \in Versions
              /\ Edited(r, [Listed(r) EXCEPT ![i] = o])
              /\ WithSave(p, Saving("update", r, o), r, Newest(r))
    BY <1>5 DEF UpdateTask
  <2> DEFINE o == [Listed(r)[i] EXCEPT !.ver = @ + 1]
  <2>2. Listed(r)[i] \in Task
    BY <1>2
  <2>3. o \in Task
    BY <2>1, <2>2 DEF Task
  <2>4. [Listed(r) EXCEPT ![i] = o] \in Seq(Task)
    BY <1>2, <2>3
  <2>5. CallOK(Saving("update", r, o), arrays', Safe', gone')
    BY <2>3, StatesOK
  <2>6. UNCHANGED <<rows, blob, loaded, code, auxVars>> /\ Safe \subseteq Safe'
    BY <1>5 DEF UpdateTask, auxVars, Safe
  <2>7. gone' \subseteq Ids /\ code' \in [Ids -> Kinds \cup {"none"}]
    BY <2>6 DEF StoreOK, auxVars
  <2> QED
    BY <1>1, <2>1, <2>4, <2>5, <2>6, <2>7, EditKeeps DEF auxVars
<1>6. CASE DeleteTask(p, r)
  <2>1. PICK i \in DOMAIN Listed(r) :
          LET o == Listed(r)[i]
          IN  /\ Edited(r, Spliced(Listed(r), i))
              /\ gone' = gone \cup {o.id}
              /\ WithSave(p, Deleting(r, o), r, Newest(r))
    BY <1>6 DEF DeleteTask
  <2> DEFINE o == Listed(r)[i]
  <2>2. o \in Task /\ o.id \in Ids
    <3>1. o \in Task
      BY <1>2
    <3> QED
      BY <3>1 DEF Task
  <2>3. Spliced(Listed(r), i) \in Seq(Task)
    BY <1>2, SplicedOK
  <2>4. CallOK(Deleting(r, o), arrays', Safe', gone')
    BY <2>1, <2>2, StatesOK
  <2>5. UNCHANGED <<rows, blob, loaded, code, created, failed, faults>>
    BY <1>6 DEF DeleteTask
  <2>6. Safe \subseteq Safe' /\ gone' \subseteq Ids /\ code' \in [Ids -> Kinds \cup {"none"}]
    BY <2>1, <2>2, <2>5 DEF StoreOK, Safe
  <2> QED
    BY <1>1, <2>1, <2>3, <2>4, <2>5, <2>6, EditKeeps
<1>7. CASE Chat(p, r)
  <2>1. Kept /\ StoreOK' /\ created' \subseteq Safe'
    BY <1>7 DEF Chat, StoreOK, Kept, Safe, auxVars
  <2>2. Newest(r) \in DOMAIN arrays'[r] /\ WithSave(p, Over(p), r, Newest(r))
    BY <1>2, <1>7 DEF Chat
  <2> QED
    BY <1>1, <1>2, <2>1, <2>2, StatesOK, SaveStarts
<1> QED
  BY <1>3, <1>4, <1>5, <1>6, <1>7 DEF Begin

\* What a request ends with.
LEMMA EndKeeps ==
  ASSUME Inv, NEW p \in Calls, DeleteRow(p) \/ Answer(p) \/ Refuse(p)
  PROVE  Inv'
<1> USE DEF Inv
<1>1. CallOK(call[p], arrays, Safe, gone)
  BY DEF CallsOK
<1>2. call' = [call EXCEPT ![p] = Over(p)] /\ UNCHANGED <<blob, arrays, loaded, code>>
  BY DEF DeleteRow, Answer, Refuse, Becomes
<1>3. Kept /\ created' \subseteq Safe'
  BY <1>1 DEF DeleteRow, Answer, Refuse, Kept, Safe, At, CallOK, StoreOK, auxVars
<1>4. CASE DeleteRow(p)
  <2>1. rows' \in [Ids -> 0 .. MaxVersion]
    <3>1. 0 \in 0 .. MaxVersion
      BY BoundAssumption
    <3>2. rows \in [Ids -> 0 .. MaxVersion]
      BY DEF StoreOK
    <3> QED
      BY <1>4, <3>1, <3>2 DEF DeleteRow
  <2>2. StoreOK'
    BY <1>2, <1>4, <2>1 DEF DeleteRow, StoreOK, auxVars
  <2> QED
    BY <1>2, <1>3, <2>2, StatesOK, OneMoves
<1>5. CASE Answer(p)
  <2>1. call[p].obj.id \in Ids
    BY <1>1, <1>5 DEF Answer, At, CallOK, Task
  <2>2. created' \subseteq Ids
    BY <1>5, <2>1 DEF Answer, StoreOK
  <2>3. StoreOK'
    BY <1>2, <1>5, <2>2 DEF Answer, StoreOK
  <2> QED
    BY <1>2, <1>3, <2>3, StatesOK, OneMoves
<1>6. CASE Refuse(p)
  <2>1. StoreOK'
    BY <1>2, <1>6 DEF Refuse, StoreOK, auxVars
  <2> QED
    BY <1>2, <1>3, <2>1, StatesOK, OneMoves
<1> QED
  BY <1>4, <1>5, <1>6

\* A statement fails: nothing is promised any more.
LEMMA FailKeeps ==
  ASSUME Inv, NEW p \in Calls, Fail(p)
  PROVE  Inv'
<1> USE DEF Inv
<1>1. faults' \in 0 .. MaxFaults /\ failed' = TRUE
      /\ UNCHANGED <<rows, blob, arrays, code, created, gone>>
  <2>1. faults \in 0 .. MaxFaults /\ faults < MaxFaults /\ faults' = faults + 1
    BY DEF Fail, StoreOK
  <2> QED
    BY <2>1, BoundAssumption DEF Fail
<1>2. Kept /\ created' \subseteq Safe' /\ Ids \subseteq Safe'
  BY <1>1 DEF Kept, Safe, StoreOK
<1>3. CallOK(call[p], arrays, Safe, gone)
  BY DEF CallsOK
<1>4. call[p].on \in Replicas
  BY <1>3 DEF Fail, At, CallOK, Loads
<1>5. \/ (Becomes(p, AfterLoad(p)) \/ Becomes(p, Over(p))) /\ UNCHANGED loaded
      \/ call[p].at \in {"select", "write"} /\ RowFailed(p)
      \/ At(p, "blob") /\ SaveOver(p)
  BY DEF Fail
<1>6. call' \in [Calls -> CallStates] /\ CallsOK' /\ loaded' \subseteq Replicas
  <2>1. CASE (Becomes(p, AfterLoad(p)) \/ Becomes(p, Over(p))) /\ UNCHANGED loaded
    <3>1. CallOK(AfterLoad(p), arrays', Safe', gone') /\ CallOK(Over(p), arrays', Safe', gone')
      BY <1>4, StatesOK DEF AfterLoad
    <3> QED
      BY <1>2, <2>1, <3>1, OneMoves DEF Becomes, StoreOK
  <2>2. CASE call[p].at \in {"select", "write"} /\ RowFailed(p)
    <3>1. call[p].obj.id \in Safe'
      <4>1. call[p].obj \in Task
        BY <1>3, <2>2 DEF CallOK
      <4> QED
        BY <1>2, <4>1 DEF Task
    <3>2. ~At(p, "blob") /\ (At(p, "write") \/ At(p, "select"))
      BY <2>2 DEF At
    <3> QED
      BY <1>2, <2>2, <3>1, <3>2, SaverGoesOn
  <2>3. CASE At(p, "blob") /\ SaveOver(p)
    BY <1>2, <2>3, SaverGoesOn
  <2> QED
    BY <1>5, <2>1, <2>2, <2>3
<1>7. StoreOK'
  BY <1>1, <1>6 DEF StoreOK
<1> QED
  BY <1>2, <1>6, <1>7

\* A restart ends every call of the process, and with them all who walk its lists.
LEMMA RestartKeeps ==
  ASSUME Inv, NEW r \in Replicas, Restart(r)
  PROVE  Inv'
<1> USE DEF Inv
<1>1. faults' \in 0 .. MaxFaults /\ Safe' = Safe
      /\ UNCHANGED <<rows, blob, code, created, gone, failed>>
  <2>1. faults \in 0 .. MaxFaults /\ faults < MaxFaults /\ faults' = faults + 1
    BY DEF Restart, StoreOK
  <2>2. UNCHANGED <<rows, blob, code, created, gone, failed>>
    BY DEF Restart
  <2> QED
    BY <2>1, <2>2, BoundAssumption DEF Safe
<1>2. << << >> >> \in Seq(Seq(Task)) /\ << << >> >> # << >>
  OBVIOUS
<1>3. arrays' = [arrays EXCEPT ![r] = << << >> >>] /\ loaded' = loaded \ {r}
  BY DEF Restart
<1>4. ListsOK'
  BY <1>2, <1>3 DEF StoreOK, ListsOK
<1>5. StoreOK'
  BY <1>1, <1>3, <1>4 DEF StoreOK, ListsOK
<1>6. ASSUME NEW p \in Calls PROVE CallOK(call'[p], arrays', Safe', gone')
  <2>1. CASE p = r
    BY <2>1, StatesOK DEF Restart
  <2>2. CASE p # r /\ call[p].on = r
    BY <2>2, StatesOK DEF Restart
  <2>3. CASE p # r /\ call[p].on # r
    <3>1. call'[p] = call[p] /\ CallOK(call[p], arrays, Safe, gone)
      BY <2>3 DEF Restart, CallsOK
    <3>2. call[p].on \in Replicas => arrays'[call[p].on] = arrays[call[p].on]
      BY <1>3, <2>3 DEF StoreOK
    <3> QED
      BY <1>1, <3>1, <3>2, CallKept
  <2> QED
    BY <2>1, <2>2, <2>3
<1>7. call' \in [Calls -> CallStates]
  BY <1>6 DEF Restart, CallOK
<1> QED
  BY <1>1, <1>5, <1>6, <1>7 DEF CallsOK

LEMMA StepInv == Inv /\ [Next]_vars => Inv'
<1> SUFFICES ASSUME Inv, [Next]_vars PROVE Inv'
  OBVIOUS
<1>1. ASSUME NEW p \in Requests, NEW r \in Replicas, Begin(p, r) PROVE Inv'
  BY <1>1, BeginKeeps
<1>2. ASSUME NEW p \in Calls, Step(p) PROVE Inv'
  BY <1>2, LoadKeeps, SaveKeeps, EndKeeps DEF Step
<1>3. ASSUME NEW p \in Calls, Fail(p) PROVE Inv'
  BY <1>3, FailKeeps
<1>4. ASSUME NEW r \in Replicas, Restart(r) PROVE Inv'
  BY <1>4, RestartKeeps
<1>5. CASE UNCHANGED vars
  BY <1>5 DEF vars, auxVars, Inv, StoreOK, CallsOK, Safe
<1> QED
  BY <1>1, <1>2, <1>3, <1>4, <1>5 DEF Next

\* Every list, row and call of the store is what its statements expect, however
\* many saves walk lists that change under them.
THEOREM TasksTyped == Spec => []TypeOK
<1>1. Inv => TypeOK
  BY DEF Inv, StoreOK, TypeOK
<1> QED
  BY <1>1, InitInv, StepInv, PTL DEF Spec

\* A task whose creation was answered has its row until it is deleted: createTask
\* saves the row itself, and nothing but a deletion takes rows away.
THEOREM CreatedTasksStored == Spec => []CreatedIsStored
<1>1. Inv => CreatedIsStored
  BY DEF Inv, CreatedIsStored, Safe, Stored
<1> QED
  BY <1>1, InitInv, StepInv, PTL DEF Spec

-----------------------------------------------------------------------------
(***************************************************************************)
(* What a single process agrees on with the table, once nothing runs.      *)
(* First the lists: their tasks have codes, and no task is listed twice.   *)
(***************************************************************************)
LEMMA IdsAreIds ==
  ASSUME NEW list \in Seq(Task)
  PROVE  IdsOf(list) \subseteq Ids
<1>1. \A i \in DOMAIN list : list[i] \in Task
  OBVIOUS
<1>2. \A i \in DOMAIN list : list[i].id \in Ids
  BY <1>1 DEF Task
<1> QED
  BY <1>2 DEF IdsOf

\* A created task comes first.
LEMMA PrependedIds ==
  ASSUME NEW list \in Seq(Task), NEW o \in Task
  PROVE  /\ IdsOf(<<o>> \o list) = {o.id} \cup IdsOf(list)
         /\ Apart(list) /\ o.id \notin IdsOf(list) => Apart(<<o>> \o list)
<1> DEFINE s == <<o>> \o list
<1>1. /\ s \in Seq(Task) /\ Len(s) = Len(list) + 1 /\ s[1] = o
      /\ \A i \in 1 .. Len(list) : s[i + 1] = list[i]
      /\ \A i \in DOMAIN s : i = 1 \/ (i - 1 \in DOMAIN list /\ s[i] = list[i - 1])
  <2>1. <<o>> \in Seq(Task) /\ Len(<<o>>) = 1 /\ <<o>>[1] = o
    OBVIOUS
  <2>2. /\ s \in Seq(Task) /\ Len(s) = 1 + Len(list)
        /\ \A i \in 1 .. Len(s) : s[i] = IF i <= 1 THEN <<o>>[i] ELSE list[i - 1]
    BY <2>1, ConcatProperties
  <2>3. Len(list) \in Nat /\ DOMAIN list = 1 .. Len(list) /\ DOMAIN s = 1 .. Len(s)
    BY <2>2
  <2> HIDE DEF s
  <2>4. s[1] = o
    BY <2>1, <2>2, <2>3
  <2>5. \A i \in 1 .. Len(list) : s[i + 1] = list[i]
    BY <2>2, <2>3
  <2>6. \A i \in DOMAIN s : i = 1 \/ (i - 1 \in DOMAIN list /\ s[i] = list[i - 1])
    BY <2>2, <2>3
  <2> QED
    BY <2>2, <2>3, <2>4, <2>5, <2>6
<1>2. DOMAIN list = 1 .. Len(list) /\ DOMAIN s = 1 .. Len(list) + 1 /\ Len(list) \in Nat
  BY <1>1
<1> HIDE DEF s
<1>3. IdsOf(s) = {o.id} \cup IdsOf(list)
  <2>1. IdsOf(s) \subseteq {o.id} \cup IdsOf(list)
    BY <1>1 DEF IdsOf
  <2>2. o.id \in IdsOf(s)
    BY <1>1, <1>2 DEF IdsOf
  <2>3. ASSUME NEW i \in DOMAIN list PROVE list[i].id \in IdsOf(s)
    <3>1. i + 1 \in DOMAIN s /\ s[i + 1] = list[i]
      BY <1>1, <1>2
    <3> QED
      BY <3>1 DEF IdsOf
  <2> QED
    BY <2>1, <2>2, <2>3 DEF IdsOf
<1>4. ASSUME Apart(list), o.id \notin IdsOf(list) PROVE Apart(s)
  <2> SUFFICES ASSUME NEW i \in DOMAIN s, NEW j \in DOMAIN s, s[i].id = s[j].id
               PROVE  i = j
    BY DEF Apart
  <2>1. i \in Nat /\ j \in Nat
    BY <1>2
  <2>2. CASE i = 1 \/ j = 1
    BY <1>1, <1>4, <2>1, <2>2 DEF IdsOf
  <2>3. CASE i # 1 /\ j # 1
    <3>1. /\ i - 1 \in DOMAIN list /\ j - 1 \in DOMAIN list
          /\ list[i - 1].id = list[j - 1].id
      BY <1>1, <2>3
    <3> QED
      BY <1>4, <2>1, <3>1 DEF Apart
  <2> QED
    BY <2>2, <2>3
<1> QED
  BY <1>3, <1>4 DEF s

\* A new version of a task takes its place.
LEMMA ReplacedIds ==
  ASSUME NEW list \in Seq(Task), NEW i \in DOMAIN list, NEW o \in Task, o.id = list[i].id
  PROVE  /\ IdsOf([list EXCEPT ![i] = o]) = IdsOf(list)
         /\ Apart(list) => Apart([list EXCEPT ![i] = o])
<1> DEFINE s == [list EXCEPT ![i] = o]
<1>1. DOMAIN s = DOMAIN list /\ \A j \in DOMAIN list : s[j].id = list[j].id
  OBVIOUS
<1> HIDE DEF s
<1>2. IdsOf(s) = IdsOf(list)
  BY <1>1 DEF IdsOf
<1>3. Apart(list) => Apart(s)
  BY <1>1 DEF Apart
<1> QED
  BY <1>2, <1>3 DEF s

\* A deleted task is spliced out of the list, and was in it once.
LEMMA SplicedIds ==
  ASSUME NEW list \in Seq(Task), NEW i \in DOMAIN list, Apart(list)
  PROVE  /\ IdsOf(Spliced(list, i)) = IdsOf(list) \ {list[i].id}
         /\ Apart(Spliced(list, i))
<1> DEFINE s == Spliced(list, i)
           n == Len(list)
<1>1. n \in Nat /\ DOMAIN list = 1 .. n /\ i \in 1 .. n
  OBVIOUS
<1>2. /\ SubSeq(list, 1, i - 1) \in Seq(Task) /\ Len(SubSeq(list, 1, i - 1)) = i - 1
      /\ \A j \in 1 .. i - 1 : SubSeq(list, 1, i - 1)[j] = list[j]
  BY <1>1
<1>3. /\ SubSeq(list, i + 1, n) \in Seq(Task) /\ Len(SubSeq(list, i + 1, n)) = n - i
      /\ \A j \in 1 .. n - i : SubSeq(list, i + 1, n)[j] = list[i + j]
  BY <1>1
<1>4. /\ DOMAIN s = 1 .. n - 1
      /\ \A j \in 1 .. n - 1 : s[j] = IF j < i THEN list[j] ELSE list[j + 1]
  <2> DEFINE A == SubSeq(list, 1, i - 1)
             B == SubSeq(list, i + 1, n)
  <2>1. /\ s \in Seq(Task) /\ Len(s) = (i - 1) + (n - i)
        /\ \A j \in 1 .. (i - 1) + (n - i) : s[j] = IF j <= i - 1 THEN A[j] ELSE B[j - (i - 1)]
    <3>1. A \in Seq(Task) /\ B \in Seq(Task) /\ Len(A) = i - 1 /\ Len(B) = n - i /\ s = A \o B
      BY <1>2, <1>3 DEF Spliced
    <3> HIDE DEF A, B, s, n
    <3> QED
      BY <3>1, ConcatProperties
  <2>2. (i - 1) + (n - i) = n - 1 /\ DOMAIN s = 1 .. Len(s)
    BY <1>1, <2>1
  <2> HIDE DEF s, A, B, n
  <2>3. ASSUME NEW j \in 1 .. n - 1, j < i PROVE s[j] = list[j]
    BY <1>1, <1>2, <2>1, <2>2, <2>3 DEF A
  <2>4. ASSUME NEW j \in 1 .. n - 1, ~(j < i) PROVE s[j] = list[j + 1]
    <3>1. j - (i - 1) \in 1 .. n - i /\ i + (j - (i - 1)) = j + 1 /\ ~(j <= i - 1)
      BY <1>1, <2>4
    <3>2. s[j] = B[j - (i - 1)]
      BY <2>1, <2>2, <3>1
    <3> QED
      BY <1>3, <3>1, <3>2 DEF B
  <2> QED
    BY <2>1, <2>2, <2>3, <2>4
<1> HIDE DEF s, n
<1>5. ASSUME NEW j \in DOMAIN s
      PROVE  \E k \in DOMAIN list : k # i /\ s[j] = list[k] /\ k = IF j < i THEN j ELSE j + 1
  <2>1. j \in 1 .. n - 1
    BY <1>4
  <2>2. CASE j < i
    BY <1>1, <1>4, <2>1, <2>2
  <2>3. CASE ~(j < i)
    BY <1>1, <1>4, <2>1, <2>3
  <2> QED
    BY <2>2, <2>3
<1>6. ASSUME NEW k \in DOMAIN list, k # i PROVE \E j \in DOMAIN s : s[j] = list[k]
  <2>1. k \in 1 .. n
    BY <1>1
  <2>2. CASE k < i
    BY <1>1, <1>4, <2>1, <2>2
  <2>3. CASE ~(k < i)
    <3>1. k - 1 \in 1 .. n - 1 /\ ~(k - 1 < i) /\ (k - 1) + 1 = k
      BY <1>1, <1>6, <2>1, <2>3
    <3> QED
      BY <1>4, <3>1
  <2> QED
    BY <2>2, <2>3
<1>7. IdsOf(s) = IdsOf(list) \ {list[i].id}
  <2>1. ASSUME NEW t \in IdsOf(s) PROVE t \in IdsOf(list) \ {list[i].id}
    <3>1. PICK j \in DOMAIN s : t = s[j].id
      BY DEF IdsOf
    <3>2. PICK k \in DOMAIN list : k # i /\ s[j] = list[k]
      BY <1>5
    <3> QED
      BY <3>1, <3>2 DEF IdsOf, Apart
  <2>2. ASSUME NEW t \in IdsOf(list), t # list[i].id PROVE t \in IdsOf(s)
    <3>1. PICK k \in DOMAIN list : t = list[k].id /\ k # i
      BY <2>2 DEF IdsOf
    <3>2. PICK j \in DOMAIN s : s[j] = list[k]
      BY <1>6, <3>1
    <3> QED
      BY <3>1, <3>2 DEF IdsOf
  <2> QED
    BY <2>1, <2>2
<1>8. Apart(s)
  <2> SUFFICES ASSUME NEW j \in DOMAIN s, NEW l \in DOMAIN s, s[j].id = s[l].id
               PROVE  j = l
    BY DEF Apart
  <2>1. PICK k \in DOMAIN list : k # i /\ s[j] = list[k] /\ k = IF j < i THEN j ELSE j + 1
    BY <1>5
  <2>2. PICK m \in DOMAIN list : m # i /\ s[l] = list[m] /\ m = IF l < i THEN l ELSE l + 1
    BY <1>5
  <2>3. k = m
    BY <2>1, <2>2 DEF Apart
  <2>4. j \in Int /\ l \in Int /\ i \in Int
    BY <1>1, <1>4
  <2> QED
    BY <2>1, <2>2, <2>3, <2>4
<1> QED
  BY <1>7, <1>8 DEF s

\* A load finds every row that is not of PMS once: as many rows as there are, and
\* all different.
LEMMA FetchedIds ==
  ASSUME rows \in [Ids -> 0 .. MaxVersion],
         NEW list \in [1 .. Cardinality(Stored \ Pms) -> RowTasks], FoundIn(list)
  PROVE  IdsOf(list) = Stored \ Pms /\ Apart(list)
<1> DEFINE n == Cardinality(Stored \ Pms)
           S == Stored \ Pms
           f == [i \in 1 .. n |-> list[i].id]
<1>1. IsFiniteSet(S) /\ S \subseteq Ids
  <2>1. 1 \in Int /\ MaxTask \in Int
    BY BoundAssumption
  <2>2. IsFiniteSet(Ids)
    BY <2>1, FS_Interval DEF Ids
  <2>3. S \subseteq Ids
    BY DEF Stored
  <2> QED
    BY <2>2, <2>3, FS_Subset
<1>2. n \in Nat /\ IsFiniteSet(1 .. n) /\ Cardinality(1 .. n) = n
  BY <1>1, FS_CardinalityType, FS_Interval
<1>9. list \in [1 .. n -> RowTasks]
  OBVIOUS
<1>10. ASSUME NEW o \in RowTasks PROVE o.id \in S
  <2>1. PICK t \in Stored \ Pms : o = [id |-> t, ver |-> rows[t]]
    BY DEF RowTasks
  <2> QED
    BY <2>1
<1> HIDE DEF n, S
<1>3. \A i \in 1 .. n : list[i].id \in S
  BY <1>9, <1>10
<1>4. Apart(list)
  <2> SUFFICES ASSUME NEW i \in DOMAIN list, NEW j \in DOMAIN list, list[i].id = list[j].id
               PROVE  i = j
    BY DEF Apart
  <2>1. i \in 1 .. n /\ j \in 1 .. n
    BY <1>9 DEF n
  <2>2. list[i].id \in Int /\ list[j].id \in Int
    <3>1. list[i].id \in Ids /\ list[j].id \in Ids
      BY <1>1, <1>3, <2>1
    <3>2. Ids \subseteq Int
      BY BoundAssumption DEF Ids
    <3> QED
      BY <3>1, <3>2
  <2>3. (i < j => list[i].id > list[j].id) /\ (j < i => list[j].id > list[i].id)
    BY DEF FoundIn
  <2>4. ~(list[i].id > list[j].id) /\ ~(list[j].id > list[i].id)
    BY <2>2
  <2> QED
    BY <1>2, <2>1, <2>3, <2>4
<1>5. f \in Injection(1 .. n, S)
  <2>1. f \in [1 .. n -> S]
    BY <1>3
  <2>2. \A i, j \in 1 .. n : f[i] = f[j] => i = j
    BY <1>4, <1>9 DEF Apart
  <2> QED
    BY <2>1, <2>2 DEF Injection, IsInjective
<1>6. f \in Surjection(1 .. n, S)
  BY <1>1, <1>2, <1>5, FS_Injection DEF n, S
<1>7. \A t \in S : \E i \in 1 .. n : f[i] = t
  BY <1>6 DEF Surjection
<1>8. DOMAIN list = 1 .. n
  BY <1>9 DEF n
<1> QED
  BY <1>3, <1>4, <1>7, <1>8 DEF IdsOf, S

\* What assigning and changing the list leave behind.
LEMMA AssignedList ==
  ASSUME ListsOK, NEW r \in Replicas, NEW list \in Seq(Task), Assigned(r, list)
  PROVE  /\ Listed(r)' = list /\ Newest(r)' = Newest(r) + 1
         /\ \A n \in DOMAIN arrays[r] : arrays'[r][n] = arrays[r][n]
         /\ \A n \in DOMAIN arrays'[r] : n \in DOMAIN arrays[r] \/ arrays'[r][n] = list
         /\ \A q \in Replicas \ {r} : arrays'[q] = arrays[q]
<1>1. arrays[r] \in Seq(Seq(Task)) /\ arrays[r] # << >>
  BY DEF ListsOK
<1>2. arrays' = [arrays EXCEPT ![r] = Append(arrays[r], list)]
  BY DEF Assigned
<1>3. arrays'[r] = Append(arrays[r], list)
  BY <1>2 DEF ListsOK
<1>4. /\ Len(Append(arrays[r], list)) = Len(arrays[r]) + 1
      /\ Append(arrays[r], list)[Len(arrays[r]) + 1] = list
      /\ \A n \in DOMAIN arrays[r] : Append(arrays[r], list)[n] = arrays[r][n]
      /\ \A n \in DOMAIN Append(arrays[r], list) :
           n \in DOMAIN arrays[r] \/ n = Len(arrays[r]) + 1
  BY <1>1
<1> QED
  BY <1>2, <1>3, <1>4 DEF Newest, Listed, ListsOK

LEMMA EditedList ==
  ASSUME ListsOK, NEW r \in Replicas, NEW list \in Seq(Task), Edited(r, list)
  PROVE  /\ Listed(r)' = list /\ Newest(r)' = Newest(r) /\ DOMAIN arrays'[r] = DOMAIN arrays[r]
         /\ \A n \in DOMAIN arrays[r] : arrays'[r][n] = arrays[r][n] \/ arrays'[r][n] = list
         /\ \A q \in Replicas \ {r} : arrays'[q] = arrays[q]
<1>1. arrays[r] \in Seq(Seq(Task)) /\ arrays[r] # << >>
  BY DEF ListsOK
<1>2. Newest(r) \in DOMAIN arrays[r]
  BY <1>1 DEF Newest
<1>3. arrays'[r] = [arrays[r] EXCEPT ![Newest(r)] = list]
      /\ \A q \in Replicas \ {r} : arrays'[q] = arrays[q]
  BY DEF ListsOK, Edited
<1>4. Len(arrays'[r]) = Len(arrays[r])
  BY <1>1, <1>2, <1>3
<1> QED
  BY <1>2, <1>3, <1>4 DEF Newest, Listed

-----------------------------------------------------------------------------
(***************************************************************************)
(* Every task that is in a list, in the document, in the table or about to *)
(* be saved was created once, so that a new one is none of them; and only  *)
(* saveToDb runs in the background.                                        *)
(***************************************************************************)
Coded == {t \in Ids : code[t] # "none"}

OwnState(p, c, coded) ==
  /\ p \in Savers => /\ c.at \in {"idle", "pick", "select", "write", "blob"}
                     /\ c.at # "idle" => c.job = "save"
  /\ c.at \in {"idle", "done"} => c.job = "none"
  /\ c.at = "pick" => c.job \in {"seed", "save"}
  /\ c.at = "blob" => c.job = "save"
  /\ c.at \in {"select", "write", "delete"} => c.obj.id \in coded
  /\ c.at = "heal" => IdsOf(c.list) \subseteq coded /\ Apart(c.list)

CallsKnown == \A p \in Calls : OwnState(p, call[p], Coded)

StoreKnown ==
  /\ Stored \subseteq Coded /\ IdsOf(blob) \subseteq Coded
  /\ \A r \in Replicas : \A n \in DOMAIN arrays[r] : IdsOf(arrays[r][n]) \subseteq Coded

StoreApart == Apart(blob) /\ \A r \in Replicas : Apart(Listed(r))

Known == Inv /\ CallsKnown /\ StoreKnown /\ StoreApart

LEMMA OwnStatesOK ==
  ASSUME NEW coded, NEW p \in Calls
  PROVE  /\ OwnState(p, Over(p), coded) /\ OwnState(p, Idle, coded)
         /\ \A r, n : OwnState(p, Walking("save", r, n), coded)
         /\ p \notin Savers =>
              /\ OwnState(p, AfterLoad(p), coded)
              /\ \A r : OwnState(p, Booting(r), coded)
              /\ \A r, n : OwnState(p, Walking("seed", r, n), coded)
              /\ \A j, r, o : o.id \in coded => /\ OwnState(p, Saving(j, r, o), coded)
                                                /\ OwnState(p, Deleting(r, o), coded)
BY ProcessAssumption
   DEF OwnState, State, Idle, Done, Over, Booting, Acting, AfterLoad, Walking, Saving,
       Deleting, Savers

LEMMA OneKnown ==
  ASSUME call \in [Calls -> CallStates], CallsKnown, Coded \subseteq Coded',
         NEW p, NEW c, call' = [call EXCEPT ![p] = c], OwnState(p, c, Coded')
  PROVE  CallsKnown'
  BY DEF CallsKnown, OwnState

\* saveStore finds a slot that is idle.
LEMMA WithSaveEffect ==
  ASSUME NEW p, NEW c, NEW r, NEW n, WithSave(p, c, r, n)
  PROVE  \E s \in Savers :
           /\ At(s, "idle")
           /\ call' = [call EXCEPT ![p] = c, ![s] = Walking("save", r, n)]
  BY DEF WithSave

LEMMA SaveKnown ==
  ASSUME call \in [Calls -> CallStates], CallsKnown, Coded \subseteq Coded',
         NEW p \in Calls, NEW c, NEW r, NEW n, WithSave(p, c, r, n), OwnState(p, c, Coded')
  PROVE  CallsKnown'
<1>1. PICK s \in Savers : call' = [call EXCEPT ![p] = c, ![s] = Walking("save", r, n)]
  BY WithSaveEffect
<1>2. s \in Calls /\ OwnState(s, Walking("save", r, n), Coded')
  BY OwnStatesOK DEF Calls
<1> QED
  BY <1>1, <1>2 DEF CallsKnown, OwnState

\* Codes are given and not taken back.
LEMMA CodedGrows ==
  ASSUME Inv, Next
  PROVE  Coded \subseteq Coded'
<1>1. CASE UNCHANGED code
  BY <1>1 DEF Coded
<1>2. ASSUME NEW p \in Requests, NEW r \in Replicas, CreateTask(p, r) PROVE Coded \subseteq Coded'
  <2>1. PICK t \in Unused, k \in Kinds : code' = [code EXCEPT ![t] = k]
    BY <1>2 DEF CreateTask
  <2>2. k # "none" /\ code \in [Ids -> Kinds \cup {"none"}]
    BY DEF Inv, StoreOK, Kinds
  <2> QED
    BY <2>1, <2>2 DEF Coded, Unused
<1> QED
  BY <1>1, <1>2
     DEF Next, Begin, Step, StartLoad, UpdateTask, DeleteTask, Chat, CountRows, FetchRows,
         HealRows, FetchComments, Seed, Pick, SelectRow, InsertRow, UpdateRow, SaveBlob, DeleteRow,
         Answer, Refuse, Fail, Restart, auxVars

\* A step of a call leaves every call with what it is entitled to.
LEMMA StepKnown ==
  ASSUME Known, NEW p \in Calls, Step(p) \/ Fail(p), Coded \subseteq Coded'
  PROVE  CallsKnown'
<1> USE DEF Known
<1>1. call \in [Calls -> CallStates] /\ OwnState(p, call[p], Coded)
  BY DEF Inv, CallsKnown
<1>2. CASE call[p].at \in Loads \cup {"delete", "act", "answer"}
  <2>1. p \notin Savers
    BY <1>1, <1>2 DEF OwnState, Loads
  <2>2. CASE \E l \in {"fetch", "seed", "comments"} : Goto(p, l)
    BY <1>1, <2>1, <2>2, OneKnown DEF Goto, OwnState, CallStates
  <2>5. CASE FetchRows(p) \/ HealRows(p)
    <3>1. CASE FetchRows(p) /\ ~Goto(p, "comments")
      <4>1. PICK list \in [1 .. Cardinality(Stored \ Pms) -> RowTasks] :
              FoundIn(list) /\ call' = [call EXCEPT ![p].at = "heal", ![p].list = list]
        BY <3>1 DEF FetchRows
      <4>2. IdsOf(list) = Stored \ Pms /\ Apart(list)
        BY <4>1, FetchedIds DEF Inv, StoreOK
      <4>3. IdsOf(list) \subseteq Coded'
        BY <4>2 DEF StoreKnown
      <4> DEFINE c == [[call[p] EXCEPT !.at = "heal"] EXCEPT !.list = list]
      <4>4. c.at = "heal" /\ c.list = list /\ call' = [call EXCEPT ![p] = c]
        BY <1>1, <4>1 DEF CallStates
      <4> HIDE DEF c
      <4>5. OwnState(p, c, Coded')
        BY <2>1, <4>2, <4>3, <4>4 DEF OwnState
      <4> QED
        BY <1>1, <4>4, <4>5, OneKnown
    <3>2. CASE HealRows(p)
      <4> DEFINE c == [[call[p] EXCEPT !.at = "comments"] EXCEPT !.list = << >>]
      <4>1. c.at = "comments" /\ call' = [call EXCEPT ![p] = c]
        BY <1>1, <3>2 DEF CallStates, HealRows
      <4> HIDE DEF c
      <4>2. OwnState(p, c, Coded')
        BY <2>1, <4>1 DEF OwnState
      <4> QED
        BY <1>1, <4>1, <4>2, OneKnown
    <3> QED
      BY <2>2, <2>5, <3>1, <3>2
  <2>3. CASE Becomes(p, Over(p)) \/ Becomes(p, AfterLoad(p))
             \/ \E r, n : Becomes(p, Walking("seed", r, n))
    BY <1>1, <2>1, <2>3, OneKnown, OwnStatesOK DEF Becomes
  <2>4. CASE \E r, n : WithSave(p, AfterLoad(p), r, n) \/ WithSave(p, Walking("seed", r, n), r, n)
    BY <1>1, <2>1, <2>4, SaveKnown, OwnStatesOK
  <2> QED
    BY <1>2, <2>2, <2>3, <2>4, <2>5
       DEF Step, CountRows, FetchComments, Seed, Pick, SelectRow, InsertRow,
           UpdateRow, SaveBlob, DeleteRow, Answer, Refuse, Fail, At, Loads
<1>3. ASSUME SaveOver(p) PROVE CallsKnown'
  BY <1>1, <1>3, OneKnown, OwnStatesOK DEF SaveOver, Becomes
<1>4. ASSUME RowDone(p) \/ RowFailed(p), call[p].at \in {"select", "write"} PROVE CallsKnown'
  <2>1. CASE call[p].job \in {"create", "update"} /\ Goto(p, "answer")
    <3>1. OwnState(p, [call[p] EXCEPT !.at = "answer"], Coded')
      BY <1>1, <1>4, <2>1 DEF OwnState, CallStates
    <3> QED
      BY <1>1, <2>1, <3>1, OneKnown DEF Goto
  <2>2. CASE call[p].job \in {"seed", "save"} /\ Becomes(p, Further(call[p]))
    <3>1. OwnState(p, Further(call[p]), Coded')
      BY <1>1, <1>4, <2>2 DEF OwnState, CallStates, Further, State
    <3> QED
      BY <1>1, <2>2, <3>1, OneKnown DEF Becomes
  <2>3. CASE call[p].job = "seed" /\ Becomes(p, AfterLoad(p))
    <3>1. p \notin Savers
      BY <1>1, <1>4, <2>3 DEF OwnState
    <3> QED
      BY <1>1, <2>3, <3>1, OneKnown, OwnStatesOK DEF Becomes
  <2> QED
    BY <1>3, <1>4, <2>1, <2>2, <2>3 DEF RowDone, RowFailed
<1>5. CASE Pick(p)
  <2>1. CASE /\ call[p].idx <= Len(Walked(p))
             /\ call' = [call EXCEPT ![p].at = "select", ![p].obj = Walked(p)[call[p].idx]]
    <3>1. /\ call[p].on \in Replicas /\ call[p].arr \in DOMAIN arrays[call[p].on]
          /\ call[p].idx \in Nat \ {0} /\ Walked(p) \in Seq(Task)
      BY <1>5 DEF Inv, CallsOK, CallOK, Pick, At, StoreOK, Walked
    <3>2. Walked(p)[call[p].idx].id \in IdsOf(Walked(p))
      BY <2>1, <3>1 DEF IdsOf
    <3>3. Walked(p)[call[p].idx].id \in Coded'
      BY <3>1, <3>2 DEF StoreKnown, Walked
    <3>4. OwnState(p, [[call[p] EXCEPT !.at = "select"] EXCEPT !.obj = Walked(p)[call[p].idx]],
                   Coded')
      BY <1>1, <1>5, <3>3 DEF OwnState, Pick, At, CallStates
    <3> QED
      BY <1>1, <2>1, <3>4, OneKnown
  <2>2. CASE Becomes(p, Walking("save", call[p].on, Newest(call[p].on)))
    BY <1>1, <2>2, OneKnown, OwnStatesOK DEF Becomes
  <2>3. CASE call[p].job = "save" /\ Goto(p, "blob")
    <3>1. OwnState(p, [call[p] EXCEPT !.at = "blob"], Coded')
      BY <1>1, <1>5, <2>3 DEF OwnState, CallStates
    <3> QED
      BY <1>1, <2>3, <3>1, OneKnown DEF Goto
  <2> QED
    BY <1>5, <2>1, <2>2, <2>3 DEF Pick
<1>6. CASE SelectRow(p)
  <2>1. OwnState(p, [[call[p] EXCEPT !.at = "write"] EXCEPT !.found = rows[call[p].obj.id]],
                 Coded')
    BY <1>1, <1>6 DEF OwnState, SelectRow, At, CallStates
  <2> QED
    BY <1>1, <1>6, <2>1, OneKnown DEF SelectRow
<1> QED
  BY <1>2, <1>3, <1>4, <1>5, <1>6
     DEF Step, CountRows, FetchRows, HealRows, FetchComments, Seed, InsertRow, UpdateRow,
         SaveBlob, DeleteRow, Answer, Refuse, Fail, At, Loads

\* What a request does leaves every call with what it is entitled to, and the
\* lists with tasks that were created, each of them once.
LEMMA BeginKnown ==
  ASSUME Known, NEW p \in Requests, NEW r \in Replicas, Begin(p, r), Coded \subseteq Coded'
  PROVE  CallsKnown' /\ StoreKnown' /\ StoreApart'
<1> USE DEF Known
<1>1. /\ call \in [Calls -> CallStates] /\ p \in Calls /\ p \notin Savers /\ ListsOK
      /\ Listed(r) \in Seq(Task) /\ Newest(r) \in DOMAIN arrays[r]
  BY ProcessAssumption, NewestOK DEF Inv, StoreOK, ListsOK, Calls, Savers
<1>2. IdsOf(Listed(r)) \subseteq Coded /\ Apart(Listed(r))
  BY <1>1 DEF StoreKnown, StoreApart, Listed
<1>3. ASSUME UNCHANGED <<rows, blob>>, NEW list \in Seq(Task), Edited(r, list),
             IdsOf(list) \subseteq Coded', Apart(list)
      PROVE  StoreKnown' /\ StoreApart'
  <2>1. Stored' \subseteq Coded' /\ IdsOf(blob') \subseteq Coded' /\ Apart(blob')
    BY <1>3 DEF StoreKnown, StoreApart, Stored
  <2>2. ASSUME NEW q \in Replicas, NEW n \in DOMAIN arrays'[q]
        PROVE  IdsOf(arrays'[q][n]) \subseteq Coded'
    BY <1>1, <1>3, EditedList DEF StoreKnown
  <2>3. ASSUME NEW q \in Replicas PROVE Apart(Listed(q)')
    BY <1>1, <1>3, EditedList DEF StoreApart, Listed, Newest
  <2> QED
    BY <2>1, <2>2, <2>3 DEF StoreKnown, StoreApart
<1>4. CASE StartLoad(p, r)
  <2>1. CallsKnown'
    BY <1>1, <1>4, OneKnown, OwnStatesOK DEF StartLoad, Becomes
  <2> QED
    BY <1>4, <2>1 DEF StartLoad, StoreKnown, StoreApart, Stored, Coded, Listed, Newest
<1>5. CASE CreateTask(p, r)
  <2>1. PICK t \in Unused, k \in Kinds :
          LET o == [id |-> t, ver |-> 1]
          IN  /\ code' = [code EXCEPT ![t] = k]
              /\ Edited(r, <<o>> \o Listed(r))
              /\ WithSave(p, Saving("create", r, o), r, Newest(r))
    BY <1>5 DEF CreateTask
  <2> DEFINE o == [id |-> t, ver |-> 1]
  <2>2. t \in Ids /\ o \in Task /\ o.id = t
    BY BoundAssumption DEF Unused, Task, Versions
  <2>3. t \notin IdsOf(Listed(r)) /\ t \in Coded'
    <3>1. k # "none" /\ code \in [Ids -> Kinds \cup {"none"}]
      BY DEF Inv, StoreOK, Kinds
    <3> QED
      BY <1>2, <2>1, <2>2, <3>1 DEF Coded, Unused
  <2>4. <<o>> \o Listed(r) \in Seq(Task)
    BY <1>1, <2>2
  <2>5. IdsOf(<<o>> \o Listed(r)) \subseteq Coded' /\ Apart(<<o>> \o Listed(r))
    BY <1>1, <1>2, <2>2, <2>3, PrependedIds
  <2>6. CallsKnown'
    BY <1>1, <2>1, <2>2, <2>3, SaveKnown, OwnStatesOK
  <2> QED
    BY <1>3, <1>5, <2>1, <2>4, <2>5, <2>6 DEF CreateTask
<1>6. CASE UpdateTask(p, r)
  <2>1. PICK i \in DOMAIN Listed(r) :
          LET o == [Listed(r)[i] EXCEPT !.ver = @ + 1]
          IN  /\ o.ver \in Versions
              /\ Edited(r, [Listed(r) EXCEPT ![i] = o])
              /\ WithSave(p, Saving("update", r, o), r, Newest(r))
    BY <1>6 DEF UpdateTask
  <2> DEFINE o == [Listed(r)[i] EXCEPT !.ver = @ + 1]
  <2>2. Listed(r)[i] \in Task
    BY <1>1
  <2>3. o \in Task /\ o.id = Listed(r)[i].id /\ o.id \in Coded'
    BY <1>2, <2>1, <2>2 DEF Task, IdsOf
  <2>4. [Listed(r) EXCEPT ![i] = o] \in Seq(Task)
    BY <1>1, <2>3
  <2>5. IdsOf([Listed(r) EXCEPT ![i] = o]) \subseteq Coded' /\ Apart([Listed(r) EXCEPT ![i] = o])
    BY <1>1, <1>2, <2>3, ReplacedIds
  <2>6. CallsKnown'
    BY <1>1, <2>1, <2>3, SaveKnown, OwnStatesOK
  <2> QED
    BY <1>3, <1>6, <2>1, <2>4, <2>5, <2>6 DEF UpdateTask
<1>7. CASE DeleteTask(p, r)
  <2>1. PICK i \in DOMAIN Listed(r) :
          LET o == Listed(r)[i]
          IN  /\ Edited(r, Spliced(Listed(r), i))
              /\ WithSave(p, Deleting(r, o), r, Newest(r))
    BY <1>7 DEF DeleteTask
  <2>2. Listed(r)[i].id \in Coded'
    BY <1>2 DEF IdsOf
  <2>3. Spliced(Listed(r), i) \in Seq(Task)
    BY <1>1, SplicedOK
  <2>4. IdsOf(Spliced(Listed(r), i)) \subseteq Coded' /\ Apart(Spliced(Listed(r), i))
    BY <1>1, <1>2, SplicedIds
  <2>5. CallsKnown'
    BY <1>1, <2>1, <2>2, SaveKnown, OwnStatesOK
  <2> QED
    BY <1>3, <1>7, <2>1, <2>3, <2>4, <2>5 DEF DeleteTask
<1>8. CASE Chat(p, r)
  <2>1. CallsKnown'
    BY <1>1, <1>8, SaveKnown, OwnStatesOK DEF Chat
  <2> QED
    BY <1>8, <2>1 DEF Chat, StoreKnown, StoreApart, Stored, Coded, Listed, Newest
<1> QED
  BY <1>4, <1>5, <1>6, <1>7, <1>8 DEF Begin

\* So does a step of a call: a load assigns rows or the document, a save writes
\* tasks it holds, and the document is a copy of the list.
LEMMA StepStoreKnown ==
  ASSUME Known, NEW p \in Calls, Step(p) \/ Fail(p), Coded \subseteq Coded'
  PROVE  StoreKnown' /\ StoreApart'
<1> USE DEF Known
<1>1. /\ ListsOK /\ OwnState(p, call[p], Coded) /\ CallOK(call[p], arrays, Safe, gone)
      /\ rows \in [Ids -> 0 .. MaxVersion]
  BY DEF Inv, StoreOK, ListsOK, CallsOK, CallsKnown
<1>2. CASE UNCHANGED <<rows, blob, arrays>>
  BY <1>2 DEF StoreKnown, StoreApart, Stored, Listed, Newest
<1>3. ASSUME NEW list \in Seq(Task), Assigned(call[p].on, list), call[p].on \in Replicas,
             IdsOf(list) \subseteq Coded, Apart(list), UNCHANGED <<rows, blob>>
      PROVE  StoreKnown' /\ StoreApart'
  <2>1. Stored' \subseteq Coded' /\ IdsOf(blob') \subseteq Coded' /\ Apart(blob')
    BY <1>3 DEF StoreKnown, StoreApart, Stored
  <2>2. ASSUME NEW q \in Replicas, NEW n \in DOMAIN arrays'[q]
        PROVE  IdsOf(arrays'[q][n]) \subseteq Coded'
    BY <1>1, <1>3, AssignedList DEF StoreKnown
  <2>3. ASSUME NEW q \in Replicas PROVE Apart(Listed(q)')
    BY <1>1, <1>3, AssignedList DEF StoreApart, Listed, Newest
  <2> QED
    BY <2>1, <2>2, <2>3 DEF StoreKnown, StoreApart
<1>4. CASE FetchRows(p)
  <2>1. PICK list \in [1 .. Cardinality(Stored \ Pms) -> RowTasks] :
          /\ FoundIn(list)
          /\ Assigned(call[p].on, list) \/ UNCHANGED arrays
    BY <1>4 DEF FetchRows
  <2>2. list \in Seq(Task)
    BY <1>1, FetchedOK
  <2>3. IdsOf(list) \subseteq Coded /\ Apart(list)
    BY <1>1, <2>1, FetchedIds DEF StoreKnown
  <2>4. call[p].on \in Replicas /\ UNCHANGED <<rows, blob>>
    BY <1>1, <1>4 DEF CallOK, FetchRows, At
  <2> QED
    BY <1>2, <1>3, <2>1, <2>2, <2>3, <2>4
<1>9. CASE HealRows(p)
  <2>1. /\ call[p].on \in Replicas /\ call[p].list \in Seq(Task)
        /\ IdsOf(call[p].list) \subseteq Coded /\ Apart(call[p].list)
    BY <1>1, <1>9 DEF CallOK, CallStates, OwnState, HealRows, At
  <2> QED
    BY <1>3, <1>9, <2>1 DEF HealRows
<1>5. CASE Seed(p)
  <2>1. call[p].on \in Replicas /\ blob \in Seq(Task)
    BY <1>1, <1>5 DEF CallOK, Seed, At, Inv, StoreOK
  <2>2. PICK list \in Filtered(blob) : Assigned(call[p].on, list)
    BY <1>5 DEF Seed
  <2>3. list \in Seq(Task) /\ IdsOf(list) \subseteq IdsOf(blob) /\ Apart(list)
    BY <2>1, FilteredOK DEF StoreApart
  <2> QED
    BY <1>3, <1>5, <2>1, <2>2, <2>3 DEF Seed, StoreKnown
<1>6. CASE UNCHANGED <<blob, arrays>> /\ Stored' \subseteq Stored \cup Coded
  BY <1>6 DEF StoreKnown, StoreApart, Listed, Newest
<1>7. CASE InsertRow(p) \/ UpdateRow(p) \/ DeleteRow(p)
  <2>1. call[p].obj.id \in Coded
    BY <1>1, <1>7 DEF InsertRow, UpdateRow, DeleteRow, At, OwnState
  <2>2. rows' = rows \/ \E v : rows' = [rows EXCEPT ![call[p].obj.id] = v]
    BY <1>7 DEF InsertRow, UpdateRow, DeleteRow
  <2>3. Stored' \subseteq Stored \cup Coded
    BY <1>1, <2>1, <2>2 DEF Stored
  <2> QED
    BY <1>6, <1>7, <2>3 DEF InsertRow, UpdateRow, DeleteRow
<1>8. CASE SaveBlob(p)
  <2>1. call[p].on \in Replicas
    BY <1>1, <1>8 DEF CallOK, SaveBlob, At
  <2>2. Listed(call[p].on) \in Seq(Task) /\ Newest(call[p].on) \in DOMAIN arrays[call[p].on]
    BY <1>1, <2>1, NewestOK
  <2>3. IdsOf(Listed(call[p].on)) \subseteq Coded /\ Apart(Listed(call[p].on))
    BY <2>1, <2>2 DEF StoreKnown, StoreApart, Listed
  <2> QED
    BY <1>8, <2>3 DEF SaveBlob, StoreKnown, StoreApart, Stored, Listed, Newest
<1> QED
  BY <1>2, <1>4, <1>5, <1>7, <1>8, <1>9
     DEF Step, CountRows, FetchComments, Pick, SelectRow, Answer, Refuse, Fail

LEMMA RestartKnown ==
  ASSUME Known, NEW r \in Replicas, Restart(r), Coded \subseteq Coded'
  PROVE  CallsKnown' /\ StoreKnown' /\ StoreApart'
<1> USE DEF Known
<1>1. ASSUME NEW p \in Calls PROVE OwnState(p, call'[p], Coded')
  <2>1. CASE p = r
    BY <2>1, OwnStatesOK, ProcessAssumption DEF Restart, Savers, Calls
  <2>2. CASE p # r /\ call[p].on = r
    BY <2>2, OwnStatesOK DEF Restart
  <2>3. CASE p # r /\ call[p].on # r
    BY <2>3 DEF Restart, CallsKnown, OwnState
  <2> QED
    BY <2>1, <2>2, <2>3
<1>2. /\ arrays'[r] = << << >> >> /\ \A q \in Replicas \ {r} : arrays'[q] = arrays[q]
      /\ UNCHANGED <<rows, blob>>
  BY DEF Restart, Inv, StoreOK
<1>3. /\ IdsOf(<< >>) = {} /\ Apart(<< >>) /\ Listed(r)' = << >>
      /\ \A n \in DOMAIN arrays'[r] : arrays'[r][n] = << >>
  BY <1>2 DEF IdsOf, Apart, Listed, Newest
<1>4. StoreKnown'
  <2>1. ASSUME NEW q \in Replicas, NEW n \in DOMAIN arrays'[q]
        PROVE  IdsOf(arrays'[q][n]) \subseteq Coded'
    <3>1. CASE q = r
      BY <1>3, <3>1
    <3>2. CASE q # r
      BY <1>2, <3>2 DEF StoreKnown
    <3> QED
      BY <3>1, <3>2
  <2> QED
    BY <1>2, <2>1 DEF StoreKnown, Stored
<1>5. StoreApart'
  <2>1. ASSUME NEW q \in Replicas, q # r PROVE Apart(Listed(q)')
    BY <1>2, <2>1 DEF StoreApart, Listed, Newest
  <2> QED
    BY <1>2, <1>3, <2>1 DEF StoreApart
<1> QED
  BY <1>1, <1>4, <1>5 DEF CallsKnown

LEMMA InitKnown == Init => Known
<1> SUFFICES ASSUME Init PROVE Known
  OBVIOUS
<1>1. PICK n \in {0, 1}, k \in Kinds :
        /\ blob = [i \in 1 .. n |-> [id |-> i, ver |-> 1]]
        /\ code = [t \in Ids |-> IF t <= n THEN k ELSE "none"]
  BY DEF Init
<1>2. CallsKnown
  BY OwnStatesOK, ProcessAssumption DEF Init, CallsKnown, Calls, Savers
<1>3. IdsOf(blob) \subseteq Coded /\ Apart(blob)
  BY <1>1, BoundAssumption DEF IdsOf, Coded, Apart, Ids, Kinds
<1>4. ASSUME NEW r \in Replicas
      PROVE  Apart(Listed(r)) /\ \A a \in DOMAIN arrays[r] : IdsOf(arrays[r][a]) \subseteq Coded
  <2>1. arrays[r] = << << >> >>
    BY DEF Init
  <2> QED
    BY <2>1 DEF Apart, Listed, Newest, IdsOf
<1>5. Stored = {}
  BY DEF Init, Stored
<1> QED
  BY <1>2, <1>3, <1>4, <1>5, InitInv DEF Known, StoreKnown, StoreApart

LEMMA StepsKnown == Known /\ [Next]_vars => Known'
<1> SUFFICES ASSUME Known, [Next]_vars PROVE Known'
  OBVIOUS
<1>1. Inv'
  BY StepInv DEF Known
<1>2. CASE UNCHANGED vars
  BY <1>1, <1>2 DEF vars, auxVars, Known, CallsKnown, StoreKnown, StoreApart, Stored, Coded,
                   Listed, Newest
<1>3. CASE Next
  <2>1. Coded \subseteq Coded'
    BY <1>3, CodedGrows DEF Known
  <2>2. ASSUME NEW p \in Requests, NEW r \in Replicas, Begin(p, r) PROVE Known'
    BY <1>1, <2>1, <2>2, BeginKnown DEF Known
  <2>3. ASSUME NEW p \in Calls, Step(p) \/ Fail(p) PROVE Known'
    BY <1>1, <2>1, <2>3, StepKnown, StepStoreKnown DEF Known
  <2>4. ASSUME NEW r \in Replicas, Restart(r) PROVE Known'
    BY <1>1, <2>1, <2>4, RestartKnown DEF Known
  <2> QED
    BY <1>3, <2>2, <2>3, <2>4 DEF Next
<1> QED
  BY <1>2, <1>3

-----------------------------------------------------------------------------
(***************************************************************************)
(* A process that is alone with the table and has loaded its list once:    *)
(* what its calls, its list, the rows, the tasks that need not be listed   *)
(* (deleted is Excused below) and isStoreLoaded have to do with each other *)
(* while no statement fails; ready is the set loaded.                      *)
(***************************************************************************)
AtRow == {"select", "write"}
Waits == {"idle", "done", "count", "fetch", "heal", "seed"}

\* Tasks a row of which need not be listed.
Excused == gone \cup Pms

\* A call that fills the list, or fills the table from it.
Loading(c) ==
  \/ c.at = "comments"
  \/ c.at \in {"pick", "blob"} \cup AtRow /\ c.job \in {"seed", "save"}

\* A walk is one of the list; a row that is saved is listed or excused; a row
\* that is deleted is listed no more.
Fits(c, listed, deleted) ==
  /\ c.job \in {"seed", "save"} => c.arr = 2
  /\ c.at \in AtRow => c.obj.id \in listed \cup deleted
  /\ c.at = "delete" => c.obj.id \notin listed

\* The row of a created task has yet to be inserted.
Inserts(c, t) ==
  /\ c.job = "create" /\ c.obj.id = t
  /\ c.at = "select" \/ (c.at = "write" /\ c.found = 0)

\* The seed has stored the tasks it has passed.
Seeds(c, list, stored) ==
  Loading(c) /\ c.job = "seed" =>
    /\ \A i \in DOMAIN list : i < c.idx => list[i].id \in stored
    /\ c.at \in AtRow => c.idx \in DOMAIN list /\ c.obj.id = list[c.idx].id
    /\ c.at = "write" /\ c.found # 0 => c.obj.id \in stored

\* While the list is loaded there is one load of it, and no request.
OneLoad(calls, ready) ==
  \A p \in Calls \ Savers : Loading(calls[p]) =>
    ready = {} /\ \A q \in Calls \ {p} : q \in Savers \/ calls[q].at \in Waits

Filled(calls, ready) ==
  \/ ready # {}
  \/ \E p \in Calls \ Savers :
       Loading(calls[p]) /\ (calls[p].at = "comments" \/ calls[p].job = "save")

Once(calls, list, stored, deleted, ready) ==
  /\ \A p \in Calls : Fits(calls[p], IdsOf(list), deleted)
  /\ \A p \in Calls \ Savers : Seeds(calls[p], list, stored)
  /\ stored \ deleted \subseteq IdsOf(list)
  /\ OneLoad(calls, ready)
  /\ Filled(calls, ready) =>
       \A t \in IdsOf(list) : t \in stored \/ \E p \in Calls : Inserts(calls[p], t)

\* No load has found anything yet.
Unloaded(r) ==
  /\ r \notin loaded
  /\ \A p \in Calls : /\ call[p].at \in Waits /\ call[p].job = "none"
                      /\ At(p, "seed") => Stored = {}
                      /\ At(p, "heal") => IdsOf(call[p].list) = Stored \ Pms

LoadedOnce(r) == Once(call, Listed(r), Stored, Excused, loaded)

\* The steps that give the process another list.
Assigns(p) == (FetchRows(p) /\ Goto(p, "comments")) \/ HealRows(p) \/ Seed(p)

SingleInv ==
  \A r \in Replicas : Replicas = {r} /\ ~failed =>
    /\ Newest(r) = 1 => Unloaded(r)
    /\ Newest(r) = 2 => LoadedOnce(r)

-----------------------------------------------------------------------------
(***************************************************************************)
(* The moves of a call that keep it so.                                    *)
(***************************************************************************)
\* A save is started in the background.
LEMMA SaverJoins ==
  ASSUME NEW calls, NEW list, NEW stored, NEW deleted, NEW ready,
         DOMAIN calls = Calls,
         Once(calls, list, stored, deleted, ready),
         NEW s \in Savers, calls[s].at = "idle", NEW r, NEW calls2,
         calls2 = [calls EXCEPT ![s] = Walking("save", r, 2)]
  PROVE  Once(calls2, list, stored, deleted, ready)
<1> DEFINE w == Walking("save", r, 2)
<1>0. \A p \in Calls : calls2[p] = IF p = s THEN w ELSE calls[p]
  BY DEF Calls
<1> USE <1>0
<1>1. w.at = "pick" /\ w.job = "save" /\ w.arr = 2
  BY DEF Walking, State
<1>2. \A p \in Calls \ Savers : calls2[p] = calls[p]
  OBVIOUS
<1>3. \A p \in Calls : Fits(calls2[p], IdsOf(list), deleted)
  BY <1>1 DEF Once, Fits, AtRow
<1>4. OneLoad(calls2, ready)
  BY <1>2 DEF Once, OneLoad
<1>5. Filled(calls2, ready) = Filled(calls, ready)
  BY <1>2 DEF Filled
<1>6. \A t : (\E p \in Calls : Inserts(calls[p], t)) => \E p \in Calls : Inserts(calls2[p], t)
  BY DEF Inserts
<1> QED
  BY <1>2, <1>3, <1>4, <1>5, <1>6 DEF Once

\* A call comes to wait for something else than a row; a load may have ended.
LEMMA CallRests ==
  ASSUME NEW calls, NEW list, NEW stored, NEW deleted, NEW ready,
         DOMAIN calls = Calls,
         Once(calls, list, stored, deleted, ready),
         NEW p \in Calls, NEW c, NEW calls2, NEW ready2,
         calls2 = [calls EXCEPT ![p] = c],
         c.at \in Waits \cup {"act", "answer"}, c.at \in Waits \/ calls[p].at \notin Waits,
         c.at \in Waits \/ p \notin Savers,
         c.job \in {"seed", "save"} => c.arr = 2,
         calls[p].at \in AtRow => calls[p].job # "create" \/ calls[p].found # 0
                                  \/ calls[p].obj.id \in stored,
         calls[p].at # "select",
         \/ ready2 = ready
         \/ /\ p \notin Savers /\ Loading(calls[p])
            /\ calls[p].at = "comments" \/ calls[p].job = "save"
  PROVE  Once(calls2, list, stored, deleted, ready2)
<1>0. \A q \in Calls : calls2[q] = IF q = p THEN c ELSE calls[q]
  OBVIOUS
<1> USE <1>0
<1>1. ~Loading(c) /\ \A t : ~Inserts(c, t)
  BY DEF Loading, Inserts, Waits, AtRow
<1>2. \A q \in Calls : Fits(calls2[q], IdsOf(list), deleted)
  BY DEF Once, Fits, AtRow, Waits
<1>3. \A q \in Calls \ Savers : Seeds(calls2[q], list, stored)
  BY <1>1 DEF Once, Seeds
<1>4. OneLoad(calls2, ready2)
  <2> SUFFICES ASSUME NEW q \in Calls \ Savers, Loading(calls2[q])
               PROVE  /\ ready2 = {}
                      /\ \A u \in Calls \ {q} : u \in Savers \/ calls2[u].at \in Waits
    BY DEF OneLoad
  <2>1. q # p /\ Loading(calls[q])
    BY <1>1
  <2>2. ready = {} /\ \A u \in Calls \ {q} : u \in Savers \/ calls[u].at \in Waits
    BY <2>1 DEF Once, OneLoad
  <2>3. p \in Savers \/ ~Loading(calls[p])
    BY <2>1, <2>2 DEF Loading, Waits, AtRow
  <2> QED
    BY <2>1, <2>2, <2>3
<1>5. Filled(calls2, ready2) => Filled(calls, ready)
  BY <1>1 DEF Filled
<1>6. \A t : Inserts(calls[p], t) => t \in stored
  BY DEF Inserts, AtRow
<1> QED
  BY <1>2, <1>3, <1>4, <1>5, <1>6 DEF Once

\* A walk takes the next task of the list.
LEMMA CallPicks ==
  ASSUME NEW calls, NEW list, NEW stored, NEW deleted, NEW ready,
         DOMAIN calls = Calls,
         Once(calls, list, stored, deleted, ready),
         NEW p \in Calls, NEW c, NEW calls2,
         calls2 = [calls EXCEPT ![p] = c],
         calls[p].at = "pick", calls[p].job \in {"seed", "save"},
         calls[p].idx \in DOMAIN list, c.at = "select", c.obj = list[calls[p].idx],
         c.job = calls[p].job, c.arr = calls[p].arr, c.idx = calls[p].idx
  PROVE  Once(calls2, list, stored, deleted, ready)
<1>0. \A q \in Calls : calls2[q] = IF q = p THEN c ELSE calls[q]
  OBVIOUS
<1> USE <1>0
<1>1. Loading(c) /\ Loading(calls[p]) /\ \A t : ~Inserts(c, t) /\ ~Inserts(calls[p], t)
  BY DEF Loading, Inserts, AtRow
<1>2. c.obj.id \in IdsOf(list)
  BY DEF IdsOf
<1>3. \A q \in Calls : Fits(calls2[q], IdsOf(list), deleted)
  BY <1>2 DEF Once, Fits, AtRow
<1>4. \A q \in Calls \ Savers : Seeds(calls2[q], list, stored)
  BY <1>1 DEF Once, Seeds
<1>5. OneLoad(calls2, ready)
  BY <1>1 DEF Once, OneLoad, Waits
<1>6. Filled(calls2, ready) => Filled(calls, ready)
  BY <1>1 DEF Filled
<1> QED
  BY <1>1, <1>3, <1>4, <1>5, <1>6 DEF Once

\* A walk has come to the end of the list.
LEMMA WalkEnds ==
  ASSUME NEW calls, NEW list, NEW stored, NEW deleted, NEW ready,
         DOMAIN calls = Calls,
         Once(calls, list, stored, deleted, ready),
         NEW p \in Calls, NEW c, NEW calls2,
         calls2 = [calls EXCEPT ![p] = c],
         calls[p].at = "pick", c.job = "save", c.arr = 2,
         \/ calls[p].job = "save" /\ c.at \in {"pick", "blob"}
         \/ /\ calls[p].job = "seed" /\ c.at = "pick" /\ p \notin Savers
            /\ \A i \in DOMAIN list : i < calls[p].idx
  PROVE  Once(calls2, list, stored, deleted, ready)
<1>0. \A q \in Calls : calls2[q] = IF q = p THEN c ELSE calls[q]
  OBVIOUS
<1> USE <1>0
<1>1. Loading(c) /\ Loading(calls[p]) /\ \A t : ~Inserts(c, t) /\ ~Inserts(calls[p], t)
  BY DEF Loading, Inserts, AtRow
<1>2. \A q \in Calls : Fits(calls2[q], IdsOf(list), deleted)
  BY DEF Once, Fits, AtRow
<1>3. \A q \in Calls \ Savers : Seeds(calls2[q], list, stored)
  BY <1>1 DEF Once, Seeds
<1>4. OneLoad(calls2, ready)
  BY <1>1 DEF Once, OneLoad, Waits
<1>5. CASE calls[p].job = "save"
  <2>1. Filled(calls2, ready) => Filled(calls, ready)
    BY <1>1, <1>5 DEF Filled
  <2> QED
    BY <1>1, <1>2, <1>3, <1>4, <2>1 DEF Once
<1>6. CASE calls[p].job = "seed"
  <2>1. p \notin Savers /\ \A i \in DOMAIN list : list[i].id \in stored
    BY <1>1, <1>6 DEF Once, Seeds
  <2>2. \A t \in IdsOf(list) : t \in stored
    BY <2>1 DEF IdsOf
  <2> QED
    BY <1>2, <1>3, <1>4, <2>2 DEF Once
<1> QED
  BY <1>5, <1>6

\* The SELECT of repository.save.
LEMMA CallSelects ==
  ASSUME NEW calls, NEW list, NEW stored, NEW deleted, NEW ready,
         DOMAIN calls = Calls,
         Once(calls, list, stored, deleted, ready),
         NEW p \in Calls, NEW c, NEW calls2,
         calls2 = [calls EXCEPT ![p] = c],
         calls[p].at = "select", c.at = "write", c.obj = calls[p].obj,
         c.job = calls[p].job, c.arr = calls[p].arr, c.idx = calls[p].idx,
         c.found # 0 => c.obj.id \in stored
  PROVE  Once(calls2, list, stored, deleted, ready)
<1>0. \A q \in Calls : calls2[q] = IF q = p THEN c ELSE calls[q]
  OBVIOUS
<1> USE <1>0
<1>1. Loading(c) = Loading(calls[p])
  BY DEF Loading, AtRow
<1>2. \A q \in Calls : Fits(calls2[q], IdsOf(list), deleted)
  BY DEF Once, Fits, AtRow
<1>3. \A q \in Calls \ Savers : Seeds(calls2[q], list, stored)
  BY <1>1 DEF Once, Seeds, AtRow
<1>4. OneLoad(calls2, ready)
  BY <1>1 DEF Once, OneLoad, Waits
<1>5. Filled(calls2, ready) => Filled(calls, ready)
  BY <1>1 DEF Filled
<1>6. \A t : Inserts(calls[p], t) => t \in stored \/ Inserts(c, t)
  BY DEF Inserts
<1> QED
  BY <1>2, <1>3, <1>4, <1>5, <1>6 DEF Once

\* The INSERT or UPDATE of repository.save.
LEMMA CallWrites ==
  ASSUME NEW calls, NEW list, NEW stored, NEW deleted, NEW ready,
         DOMAIN calls = Calls,
         Once(calls, list, stored, deleted, ready),
         NEW p \in Calls, NEW c, NEW calls2, NEW stored2, calls[p].idx \in Nat,
         DOMAIN list \subseteq Nat,
         calls2 = [calls EXCEPT ![p] = c],
         calls[p].at = "write",
         \/ stored2 = stored \cup {calls[p].obj.id}
         \/ stored2 = stored /\ calls[p].found # 0,
         \/ c.at = "answer" /\ c.job = calls[p].job /\ c.job \in {"create", "update"}
         \/ /\ calls[p].job \in {"seed", "save"} /\ c.at = "pick" /\ c.job = calls[p].job
            /\ c.arr = calls[p].arr /\ c.idx = calls[p].idx + 1
  PROVE  Once(calls2, list, stored2, deleted, ready)
<1>0. \A q \in Calls : calls2[q] = IF q = p THEN c ELSE calls[q]
  OBVIOUS
<1> USE <1>0
<1>1. Loading(c) = Loading(calls[p]) /\ \A t : ~Inserts(c, t)
  BY DEF Loading, Inserts, AtRow
<1>2. \A q \in Calls : Fits(calls2[q], IdsOf(list), deleted)
  BY DEF Once, Fits, AtRow
<1>3. stored \subseteq stored2 /\ stored2 \ deleted \subseteq IdsOf(list)
  BY DEF Once, Fits, AtRow
<1>4. \A q \in Calls \ Savers : Seeds(calls2[q], list, stored2)
  <2>1. ASSUME NEW q \in Calls \ Savers, q # p PROVE Seeds(calls2[q], list, stored2)
    BY <1>3, <2>1 DEF Once, Seeds
  <2>2. ASSUME p \notin Savers, Loading(c), c.job = "seed"
        PROVE  Seeds(c, list, stored2)
    <3>1. Seeds(calls[p], list, stored) /\ Loading(calls[p]) /\ calls[p].job = "seed"
          /\ c.at = "pick" /\ c.idx = calls[p].idx + 1
      BY <1>1, <2>2 DEF Once
    <3>2. calls[p].obj.id \in stored2 /\ calls[p].obj.id = list[calls[p].idx].id
      BY <1>3, <3>1 DEF Seeds, AtRow
    <3>3. \A i \in DOMAIN list : i < c.idx => i < calls[p].idx \/ i = calls[p].idx
      BY <3>1
    <3>4. \A i \in DOMAIN list : i < c.idx => list[i].id \in stored2
      BY <1>3, <3>1, <3>2, <3>3 DEF Seeds
    <3> QED
      BY <3>1, <3>4 DEF Seeds, AtRow
  <2> QED
    BY <2>1, <2>2 DEF Seeds
<1>5. OneLoad(calls2, ready)
  BY <1>1 DEF Once, OneLoad, Waits
<1>6. Filled(calls2, ready) => Filled(calls, ready)
  BY <1>1 DEF Filled, AtRow
<1>7. \A t : Inserts(calls[p], t) => t \in stored2
  BY DEF Inserts
<1> QED
  BY <1>2, <1>3, <1>4, <1>5, <1>6, <1>7 DEF Once

\* A request changes the list and goes on to the row.
LEMMA CallEdits ==
  ASSUME NEW calls, NEW list, NEW stored, NEW deleted, NEW ready,
         DOMAIN calls = Calls,
         Once(calls, list, stored, deleted, ready),
         NEW p \in Calls, NEW c, NEW calls2, NEW list2, NEW deleted2,
         calls2 = [calls EXCEPT ![p] = c],
         \A q \in Calls \ Savers : ~Loading(calls[q]), p \notin Savers, ~Loading(c),
         calls[p].at \in {"idle", "act"},
         \A q \in Calls : q # p => Fits(calls[q], IdsOf(list2), deleted2),
         Fits(c, IdsOf(list2), deleted2), stored \ deleted2 \subseteq IdsOf(list2),
         \A t \in IdsOf(list2) : t \in IdsOf(list) \/ Inserts(c, t)
  PROVE  Once(calls2, list2, stored, deleted2, ready)
<1>0. \A q \in Calls : calls2[q] = IF q = p THEN c ELSE calls[q]
  OBVIOUS
<1> USE <1>0
<1>1. \A q \in Calls \ Savers : ~Loading(calls2[q])
  OBVIOUS
<1>2. OneLoad(calls2, ready) /\ \A q \in Calls \ Savers : Seeds(calls2[q], list2, stored)
  BY <1>1 DEF OneLoad, Seeds
<1>3. Filled(calls2, ready) => Filled(calls, ready)
  BY <1>1 DEF Filled
<1>4. \A t : ~Inserts(calls[p], t)
  BY DEF Inserts
<1> QED
  BY <1>2, <1>3, <1>4 DEF Once

\* A request deletes the row of a task that is listed no more.
LEMMA CallDeletes ==
  ASSUME NEW calls, NEW list, NEW stored, NEW deleted, NEW ready,
         DOMAIN calls = Calls,
         Once(calls, list, stored, deleted, ready),
         NEW p \in Calls, p \notin Savers, NEW c, NEW calls2, NEW stored2,
         calls2 = [calls EXCEPT ![p] = c],
         calls[p].at = "delete", c.at \in Waits, c.job = "none",
         stored2 = stored \ {calls[p].obj.id}
  PROVE  Once(calls2, list, stored2, deleted, ready)
<1>0. \A q \in Calls : calls2[q] = IF q = p THEN c ELSE calls[q]
  OBVIOUS
<1> USE <1>0
<1>1. ~Loading(c) /\ ~Loading(calls[p]) /\ \A t : ~Inserts(calls[p], t)
  BY DEF Loading, Inserts, Waits, AtRow
<1>2. \A q \in Calls \ Savers : ~Loading(calls2[q]) /\ ~Loading(calls[q])
  BY <1>1 DEF Once, OneLoad, Waits
<1>3. OneLoad(calls2, ready) /\ \A q \in Calls \ Savers : Seeds(calls2[q], list, stored2)
  BY <1>2 DEF OneLoad, Seeds
<1>4. Filled(calls2, ready) => Filled(calls, ready)
  BY <1>2 DEF Filled
<1>5. \A q \in Calls : Fits(calls2[q], IdsOf(list), deleted)
  BY DEF Once, Fits, AtRow, Waits
<1>6. calls[p].obj.id \notin IdsOf(list)
  BY DEF Once, Fits
<1> QED
  BY <1>1, <1>3, <1>4, <1>5, <1>6 DEF Once

-----------------------------------------------------------------------------
(***************************************************************************)
(* The steps of the process.                                               *)
(***************************************************************************)
\* What runs, runs in the one process there is.
LEMMA OfTheOne ==
  ASSUME Known, NEW r \in Replicas, Replicas = {r}
  PROVE  /\ call \in [Calls -> CallStates] /\ ListsOK /\ Listed(r) \in Seq(Task)
         /\ Newest(r) \in Nat \ {0} /\ Newest(r) \in DOMAIN arrays[r]
         /\ \A p \in Calls : call[p].at \notin {"idle", "done"} => call[p].on = r
         /\ \A p \in Calls : call[p].idx \in Nat /\ call[p].found \in Nat
         /\ \A p \in Calls : call[p].at \in {"pick", "blob"} => call[p].idx \in Nat \ {0}
         /\ \A p \in Calls : OwnState(p, call[p], Coded) /\ CallOK(call[p], arrays, Safe, gone)
<1>1. /\ call \in [Calls -> CallStates] /\ ListsOK
      /\ \A p \in Calls : CallOK(call[p], arrays, Safe, gone) /\ OwnState(p, call[p], Coded)
  BY DEF Known, Inv, StoreOK, ListsOK, CallsOK, CallsKnown
<1>2. Listed(r) \in Seq(Task) /\ Newest(r) \in Nat \ {0} /\ Newest(r) \in DOMAIN arrays[r]
  BY <1>1, NewestOK
<1>3. \A p \in Calls : call[p].at \notin {"idle", "done"} => call[p].on = r
  BY <1>1 DEF CallOK
<1>4. \A p \in Calls : call[p].idx \in Nat /\ call[p].found \in 0 .. MaxVersion
  BY <1>1 DEF CallStates
<1>5. \A p \in Calls : call[p].at \in {"pick", "blob"} => call[p].idx \in Nat \ {0}
  BY <1>1 DEF CallOK
<1> QED
  BY <1>1, <1>2, <1>3, <1>4, <1>5, BoundAssumption

\* A call comes to rest in a step that leaves the store alone.
LEMMA RestsInStep ==
  ASSUME Known, NEW r \in Replicas, Replicas = {r}, LoadedOnce(r),
         NEW p \in Calls, NEW c, call' = [call EXCEPT ![p] = c], UNCHANGED <<rows, arrays, gone, code>>,
         c.at \in Waits \cup {"act", "answer"}, c.at \in Waits \/ call[p].at \notin Waits,
         c.at \in Waits \/ p \notin Savers,
         c.job \in {"seed", "save"} => c.arr = 2,
         call[p].at \in AtRow => call[p].job # "create" \/ call[p].found # 0
                                 \/ call[p].obj.id \in Stored,
         call[p].at # "select",
         \/ loaded' = loaded
         \/ /\ p \notin Savers /\ Loading(call[p]) /\ loaded' = loaded \cup {call[p].on}
            /\ call[p].at = "comments" \/ call[p].job = "save"
  PROVE  LoadedOnce(r)'
<1>1. call \in [Calls -> CallStates]
  BY OfTheOne
<1>4. Once(call', Listed(r), Stored, Excused, loaded')
  <2>1. DOMAIN call = Calls /\ Once(call, Listed(r), Stored, Excused, loaded)
    BY <1>1 DEF LoadedOnce
  <2> QED
    BY <2>1, CallRests
<1>5. Listed(r)' = Listed(r) /\ Stored' = Stored /\ Excused' = Excused
  BY DEF Listed, Newest, Stored, Excused, Pms
<1> QED
  BY <1>4, <1>5 DEF LoadedOnce

\* The load goes on, or has its comments.
LEMMA OnceLoad ==
  ASSUME Known, NEW r \in Replicas, Replicas = {r}, LoadedOnce(r), Newest(r) = 2,
         NEW p \in Calls,
         CountRows(p) \/ (FetchRows(p) /\ ~Goto(p, "comments")) \/ FetchComments(p)
  PROVE  LoadedOnce(r)'
<1>1. /\ call \in [Calls -> CallStates] /\ OwnState(p, call[p], Coded)
      /\ call[p].at \notin {"idle", "done"} => call[p].on = r
  BY OfTheOne
<1>2. Fits(call[p], IdsOf(Listed(r)), Excused)
  BY DEF LoadedOnce, Once
<1>3. CASE CountRows(p)
  <2>1. PICK l \in {"fetch", "seed"} : call' = [call EXCEPT ![p] = [call[p] EXCEPT !.at = l]]
    BY <1>3 DEF CountRows, Goto
  <2> DEFINE c == [call[p] EXCEPT !.at = l]
  <2>2. c.at = l /\ c.job = call[p].job /\ c.arr = call[p].arr /\ call[p].at = "count"
    BY <1>1, <1>3 DEF CallStates, CountRows, At
  <2>3. UNCHANGED <<rows, arrays, gone, code, loaded>>
    BY <1>3 DEF CountRows, auxVars
  <2> HIDE DEF c
  <2>4. call' = [call EXCEPT ![p] = c]
    BY <2>1 DEF c
  <2> QED
    BY <1>2, <2>2, <2>3, <2>4, RestsInStep DEF Fits, Waits, AtRow
<1>5. CASE FetchRows(p) /\ ~Goto(p, "comments")
  <2>1. PICK list : call' = [call EXCEPT ![p].at = "heal", ![p].list = list] /\ UNCHANGED arrays
    BY <1>5 DEF FetchRows
  <2> DEFINE c == [[call[p] EXCEPT !.at = "heal"] EXCEPT !.list = list]
  <2>2. c.at = "heal" /\ c.job = call[p].job /\ c.arr = call[p].arr
        /\ call' = [call EXCEPT ![p] = c]
    BY <1>1, <2>1 DEF CallStates
  <2>4. call[p].at = "fetch"
    BY <1>5 DEF FetchRows, At
  <2>3. UNCHANGED <<rows, arrays, gone, code, loaded>>
    BY <1>5, <2>1 DEF FetchRows, auxVars
  <2> HIDE DEF c
  <2> QED
    BY <1>2, <2>2, <2>3, <2>4, RestsInStep DEF Fits, Waits, AtRow
<1>4. CASE FetchComments(p)
  <2>1. /\ p \notin Savers /\ Loading(call[p]) /\ call[p].at = "comments" /\ call[p].on = r
        /\ UNCHANGED <<rows, arrays, gone, code>> /\ loaded' = loaded \cup {r}
    BY <1>1, <1>4 DEF FetchComments, At, OwnState, Loading, auxVars
  <2> DEFINE c == AfterLoad(p)
  <2>2. c.at \in {"act", "idle"} /\ c.job = "none"
    BY DEF AfterLoad, Acting, Idle, State
  <2> HIDE DEF c
  <2>3. CASE Becomes(p, AfterLoad(p))
    BY <2>1, <2>2, <2>3, RestsInStep DEF Waits, AtRow, Becomes, c
  <2>4. CASE WithSave(p, AfterLoad(p), call[p].on, Newest(call[p].on))
    <3>1. PICK s \in Savers :
            /\ At(s, "idle")
            /\ call' = [call EXCEPT ![p] = c, ![s] = Walking("save", r, 2)]
      BY <2>1, <2>4, WithSaveEffect DEF c
    <3> DEFINE calls1 == [call EXCEPT ![p] = c]
    <3>2. Once(calls1, Listed(r), Stored, Excused, loaded')
      <4>1. DOMAIN call = Calls /\ Once(call, Listed(r), Stored, Excused, loaded)
        BY <1>1 DEF LoadedOnce
      <4>2. calls1 = [call EXCEPT ![p] = c]
        OBVIOUS
      <4> HIDE DEF calls1
      <4> QED
        BY <2>1, <2>2, <4>1, <4>2, CallRests DEF Waits, AtRow
    <3>3. calls1[s].at = "idle" /\ DOMAIN calls1 = Calls
          /\ call' = [calls1 EXCEPT ![s] = Walking("save", r, 2)]
      BY <1>1, <2>1, <3>1 DEF Calls, At
    <3>4. Once(call', Listed(r), Stored, Excused, loaded')
      <4> HIDE DEF calls1
      <4> QED
        BY <3>2, <3>3, SaverJoins
    <3>5. Listed(r)' = Listed(r) /\ Stored' = Stored /\ Excused' = Excused
      BY <2>1 DEF Listed, Newest, Stored, Excused, Pms
    <3> QED
      BY <3>4, <3>5 DEF LoadedOnce
  <2> QED
    BY <1>4, <2>3, <2>4 DEF FetchComments
<1> QED
  BY <1>3, <1>4, <1>5

\* The statements of saveToDb and of the saves of single rows.
LEMMA OnceSave ==
  ASSUME Known, NEW r \in Replicas, Replicas = {r}, LoadedOnce(r), Newest(r) = 2,
         NEW p \in Calls,
         Pick(p) \/ SelectRow(p) \/ InsertRow(p) \/ UpdateRow(p) \/ SaveBlob(p)
  PROVE  LoadedOnce(r)'
<1>1. /\ call \in [Calls -> CallStates] /\ OwnState(p, call[p], Coded)
      /\ Listed(r) \in Seq(Task) /\ call[p].on = r
      /\ call[p].idx \in Nat /\ call[p].found \in Nat
      /\ call[p].at \in {"pick", "blob"} => call[p].idx \in Nat \ {0}
      /\ CallOK(call[p], arrays, Safe, gone)
  <2>1. call[p].at \notin {"idle", "done"}
    BY DEF Pick, SelectRow, InsertRow, UpdateRow, SaveBlob, At
  <2> QED
    BY <2>1, OfTheOne
<1>2. /\ Fits(call[p], IdsOf(Listed(r)), Excused) /\ DOMAIN call = Calls
      /\ Once(call, Listed(r), Stored, Excused, loaded)
  BY <1>1 DEF LoadedOnce, Once
<1>3. UNCHANGED <<arrays, gone, code>> /\ Listed(r)' = Listed(r) /\ Excused' = Excused
  BY DEF Pick, SelectRow, InsertRow, UpdateRow, SaveBlob, auxVars, Listed, Newest, Excused, Pms
<1>4. DOMAIN Listed(r) = 1 .. Len(Listed(r)) /\ Len(Listed(r)) \in Nat
  BY <1>1
<1>5. ASSUME NEW c, call' = [call EXCEPT ![p] = c], UNCHANGED loaded,
             Once([call EXCEPT ![p] = c], Listed(r), Stored', Excused, loaded)
      PROVE  LoadedOnce(r)'
  BY <1>3, <1>5 DEF LoadedOnce
<1>7. CASE Pick(p)
  <2>1. /\ call[p].at = "pick" /\ call[p].job \in {"seed", "save"} /\ Walked(p) = Listed(r)
        /\ Stored' = Stored /\ UNCHANGED loaded /\ call[p].idx \in Nat \ {0}
    BY <1>1, <1>2, <1>7 DEF Pick, At, OwnState, Fits, Walked, Listed, Stored
  <2>2. CASE /\ call[p].idx <= Len(Walked(p))
             /\ call' = [call EXCEPT ![p].at = "select", ![p].obj = Walked(p)[call[p].idx]]
    <3> DEFINE c == [[call[p] EXCEPT !.at = "select"] EXCEPT !.obj = Listed(r)[call[p].idx]]
    <3>1. /\ c.at = "select" /\ c.obj = Listed(r)[call[p].idx] /\ c.job = call[p].job
          /\ c.arr = call[p].arr /\ c.idx = call[p].idx
          /\ call' = [call EXCEPT ![p] = c]
      BY <1>1, <2>1, <2>2 DEF CallStates
    <3>2. call[p].idx \in DOMAIN Listed(r)
      BY <1>4, <2>1, <2>2
    <3> HIDE DEF c
    <3>3. Once([call EXCEPT ![p] = c], Listed(r), Stored, Excused, loaded)
      BY <1>2, <2>1, <3>1, <3>2, CallPicks
    <3> QED
      BY <1>5, <2>1, <3>1, <3>3
  <2>3. CASE /\ call[p].idx > Len(Walked(p))
             /\ \/ /\ call[p].job = "seed"
                   /\ Becomes(p, Walking("save", call[p].on, Newest(call[p].on)))
                \/ call[p].job = "save" /\ Goto(p, "blob")
    <3>1. PICK c : /\ call' = [call EXCEPT ![p] = c] /\ c.job = "save" /\ c.arr = 2
                   /\ \/ call[p].job = "save" /\ c.at \in {"pick", "blob"}
                      \/ call[p].job = "seed" /\ c.at = "pick" /\ p \notin Savers
      <4>1. CASE call[p].job = "seed" /\ Becomes(p, Walking("save", r, Newest(r)))
        <5>1. p \notin Savers
          BY <1>1, <2>1, <4>1 DEF OwnState
        <5> DEFINE c == Walking("save", r, Newest(r))
        <5>2. call' = [call EXCEPT ![p] = c] /\ c.at = "pick" /\ c.job = "save" /\ c.arr = 2
          BY <4>1 DEF Becomes, Walking, State
        <5> QED
          BY <4>1, <5>1, <5>2
      <4>2. CASE call[p].job = "save" /\ Goto(p, "blob")
        <5> DEFINE c == [call[p] EXCEPT !.at = "blob"]
        <5>1. call' = [call EXCEPT ![p] = c] /\ c.at = "blob" /\ c.job = "save" /\ c.arr = 2
          BY <1>1, <1>2, <4>2 DEF Goto, CallStates, Fits
        <5> QED
          BY <4>2, <5>1
      <4> QED
        BY <1>1, <2>3, <4>1, <4>2
    <3>2. \A i \in DOMAIN Listed(r) : i < call[p].idx
      BY <1>4, <2>1, <2>3
    <3>3. Once([call EXCEPT ![p] = c], Listed(r), Stored, Excused, loaded)
      BY <1>2, <2>1, <3>1, <3>2, WalkEnds
    <3> QED
      BY <1>5, <2>1, <3>1, <3>3
  <2> QED
    BY <1>7, <2>2, <2>3 DEF Pick
<1>8. CASE SelectRow(p)
  <2> DEFINE c == [[call[p] EXCEPT !.at = "write"] EXCEPT !.found = rows[call[p].obj.id]]
  <2>1. /\ c.at = "write" /\ c.found = rows[call[p].obj.id] /\ c.job = call[p].job
        /\ c.arr = call[p].arr /\ c.idx = call[p].idx /\ c.obj = call[p].obj
        /\ call' = [call EXCEPT ![p] = c] /\ call[p].at = "select"
        /\ Stored' = Stored /\ UNCHANGED loaded
    BY <1>1, <1>8 DEF CallStates, SelectRow, At, Stored
  <2>2. call[p].obj.id \in Ids
    BY <1>1, <2>1 DEF CallOK, Task
  <2>3. c.found # 0 => c.obj.id \in Stored
    BY <2>1, <2>2 DEF Stored
  <2> HIDE DEF c
  <2>4. Once([call EXCEPT ![p] = c], Listed(r), Stored, Excused, loaded)
    BY <1>2, <2>1, <2>3, CallSelects
  <2> QED
    BY <1>5, <2>1, <2>4
<1>9. ASSUME At(p, "write"), RowDone(p),
             \/ Stored' = Stored \cup {call[p].obj.id}
             \/ Stored' = Stored /\ call[p].found # 0
      PROVE  LoadedOnce(r)'
  <2>1. PICK c : /\ call' = [call EXCEPT ![p] = c] /\ UNCHANGED loaded
                 /\ \/ /\ c.at = "answer" /\ c.job = call[p].job
                       /\ c.job \in {"create", "update"}
                    \/ /\ call[p].job \in {"seed", "save"} /\ c.at = "pick"
                       /\ c.job = call[p].job /\ c.arr = call[p].arr
                       /\ c.idx = call[p].idx + 1
    <3>1. CASE call[p].job \in {"create", "update"} /\ Goto(p, "answer")
      <4> DEFINE c == [call[p] EXCEPT !.at = "answer"]
      <4>1. call' = [call EXCEPT ![p] = c] /\ c.at = "answer" /\ c.job = call[p].job
        BY <1>1, <3>1 DEF Goto, CallStates
      <4> QED
        BY <1>9, <3>1, <4>1 DEF RowDone
    <3>2. CASE call[p].job \in {"seed", "save"} /\ Becomes(p, Further(call[p]))
      BY <1>9, <3>2 DEF RowDone, Becomes, Further, State
    <3> QED
      BY <1>9, <3>1, <3>2 DEF RowDone
  <2>2. call[p].at = "write" /\ DOMAIN Listed(r) \subseteq Nat
    BY <1>4, <1>9 DEF At
  <2>3. Once([call EXCEPT ![p] = c], Listed(r), Stored', Excused, loaded)
    BY <1>1, <1>2, <1>9, <2>1, <2>2, CallWrites
  <2> QED
    BY <1>5, <2>1, <2>3
<1>10. ASSUME SaveOver(p), At(p, "write") \/ At(p, "blob"), call[p].job = "save", UNCHANGED rows
       PROVE  LoadedOnce(r)'
  <2>1. CASE p \in Savers /\ Becomes(p, Idle) /\ UNCHANGED loaded
    BY <1>3, <1>10, <2>1, RestsInStep DEF Becomes, Idle, State, Waits, AtRow, At
  <2>2. CASE p \notin Savers /\ Becomes(p, AfterLoad(p)) /\ loaded' = loaded \cup {call[p].on}
    <3>1. Loading(call[p]) /\ call[p].at \notin Waits /\ call[p].at # "select"
      BY <1>10 DEF Loading, At, AtRow, Waits
    <3>2. AfterLoad(p).at \in {"act", "idle"} /\ AfterLoad(p).job = "none"
      BY DEF AfterLoad, Acting, Idle, State
    <3> QED
      BY <1>3, <1>10, <2>2, <3>1, <3>2, RestsInStep DEF Becomes, Waits
  <2> QED
    BY <1>10, <2>1, <2>2 DEF SaveOver
<1>11. CASE InsertRow(p)
  <2>1. call[p].obj \in Task /\ call[p].obj.id \in Ids /\ call[p].obj.ver # 0
    BY <1>1, <1>11, BoundAssumption DEF InsertRow, At, CallOK, Task, Versions
  <2>2. rows \in [Ids -> 0 .. MaxVersion]
    BY DEF Known, Inv, StoreOK
  <2>3. CASE rows[call[p].obj.id] = 0 /\ RowDone(p)
             /\ rows' = [rows EXCEPT ![call[p].obj.id] = call[p].obj.ver]
    <3>1. Stored' = Stored \cup {call[p].obj.id}
      BY <2>1, <2>2, <2>3 DEF Stored
    <3> QED
      BY <1>9, <1>11, <2>3, <3>1 DEF InsertRow
  <2>4. CASE rows[call[p].obj.id] # 0 /\ RowFailed(p) /\ UNCHANGED rows
    <3>1. call[p].obj.id \in Stored
      BY <2>1, <2>4 DEF Stored
    <3>2. call[p].at = "write" /\ call[p].at \notin Waits
      BY <1>11 DEF InsertRow, At, Waits
    <3>3. CASE call[p].job \in {"create", "update"} /\ Goto(p, "answer") /\ UNCHANGED loaded
      <4> DEFINE c == [call[p] EXCEPT !.at = "answer"]
      <4>1. call' = [call EXCEPT ![p] = c] /\ c.at = "answer" /\ c.job = call[p].job
        BY <1>1, <3>3 DEF Goto, CallStates
      <4>2. p \notin Savers /\ c.job \notin {"seed", "save"}
        BY <1>1, <3>2, <3>3, <4>1 DEF OwnState
      <4> HIDE DEF c
      <4> QED
        BY <1>3, <2>4, <3>1, <3>2, <3>3, <4>1, <4>2, RestsInStep
    <3>4. CASE call[p].job = "seed" /\ Becomes(p, AfterLoad(p)) /\ UNCHANGED loaded
      <4>1. AfterLoad(p).at \in {"act", "idle"} /\ AfterLoad(p).job = "none"
        BY DEF AfterLoad, Acting, Idle, State
      <4>2. p \notin Savers
        BY <1>1, <3>2, <3>4 DEF OwnState
      <4> QED
        BY <1>3, <2>4, <3>1, <3>2, <3>4, <4>1, <4>2, RestsInStep DEF Becomes, Waits
    <3>5. CASE call[p].job = "save" /\ SaveOver(p)
      BY <1>10, <1>11, <2>4, <3>5 DEF InsertRow
    <3> QED
      BY <2>4, <3>3, <3>4, <3>5 DEF RowFailed
  <2> QED
    BY <1>11, <2>3, <2>4 DEF InsertRow
<1>12. CASE UpdateRow(p)
  <2>1. call[p].obj \in Task /\ call[p].obj.id \in Ids /\ call[p].obj.ver # 0
    BY <1>1, <1>12, BoundAssumption DEF UpdateRow, At, CallOK, Task, Versions
  <2>2. rows \in [Ids -> 0 .. MaxVersion]
    BY DEF Known, Inv, StoreOK
  <2>3. Stored' = Stored
    <3>1. CASE rows[call[p].obj.id] # 0 /\ rows' = [rows EXCEPT ![call[p].obj.id] = call[p].obj.ver]
      BY <2>1, <2>2, <3>1 DEF Stored
    <3>2. CASE UNCHANGED rows
      BY <3>2 DEF Stored
    <3> QED
      BY <1>12, <3>1, <3>2 DEF UpdateRow
  <2> QED
    BY <1>9, <1>12, <2>3 DEF UpdateRow
<1>13. CASE SaveBlob(p)
  <2>1. call[p].job = "save" /\ UNCHANGED rows
    BY <1>1, <1>13 DEF SaveBlob, At, OwnState
  <2> QED
    BY <1>10, <1>13, <2>1 DEF SaveBlob
<1> QED
  BY <1>7, <1>8, <1>11, <1>12, <1>13

\* A request that is answered, refused, or deletes its row.
LEMMA OnceEnd ==
  ASSUME Known, NEW r \in Replicas, Replicas = {r}, LoadedOnce(r),
         NEW p \in Calls, DeleteRow(p) \/ Answer(p) \/ Refuse(p)
  PROVE  LoadedOnce(r)'
<1> DEFINE c == Over(p)
<1>1. /\ DOMAIN call = Calls /\ OwnState(p, call[p], Coded) /\ CallOK(call[p], arrays, Safe, gone)
  BY OfTheOne
<1>2. /\ c.at \in {"idle", "done"} /\ c.job = "none" /\ call' = [call EXCEPT ![p] = c]
      /\ UNCHANGED <<arrays, gone, code, loaded>> /\ Excused' = Excused
  BY DEF Excused, Pms, DeleteRow, Answer, Refuse, Becomes, Over, Idle, Done, State, auxVars
<1> HIDE DEF c
<1>3. CASE Answer(p) \/ Refuse(p)
  <2>1. UNCHANGED rows /\ call[p].at \in {"answer", "act"}
    BY <1>3 DEF Answer, Refuse, At
  <2> QED
    BY <1>2, <2>1, RestsInStep DEF Waits, AtRow
<1>4. CASE DeleteRow(p)
  <2>1. call[p].at = "delete" /\ p \notin Savers
    BY <1>1, <1>4 DEF DeleteRow, At, OwnState
  <2>2. call[p].obj.id \in Ids
    BY <1>1, <2>1 DEF CallOK, Task
  <2>3. Stored' = Stored \ {call[p].obj.id}
    BY <1>4, <2>2 DEF DeleteRow, Stored, Known, Inv, StoreOK
  <2>4. Once(call', Listed(r), Stored', Excused, loaded)
    BY <1>1, <1>2, <2>1, <2>3, CallDeletes DEF LoadedOnce, Waits
  <2>5. Listed(r)' = Listed(r)
    BY <1>2 DEF Listed, Newest
  <2> QED
    BY <1>2, <2>4, <2>5 DEF LoadedOnce
<1> QED
  BY <1>3, <1>4

\* A request changes the list, and the save of it starts.
LEMMA EditsInStep ==
  ASSUME Known, NEW r \in Replicas, Replicas = {r}, LoadedOnce(r), Newest(r) = 2,
         NEW p \in Calls, p \notin Savers, Ready(p, r), NEW c, NEW list \in Seq(Task),
         WithSave(p, c, r, 2), Edited(r, list) \/ (list = Listed(r) /\ UNCHANGED arrays),
         UNCHANGED <<rows, loaded>>, ~Loading(c),
         \A q \in Calls : q # p => Fits(call[q], IdsOf(list), Excused'),
         Fits(c, IdsOf(list), Excused'), Stored \ Excused' \subseteq IdsOf(list),
         \A t \in IdsOf(list) : t \in IdsOf(Listed(r)) \/ Inserts(c, t)
  PROVE  LoadedOnce(r)'
<1>1. DOMAIN call = Calls /\ ListsOK /\ Once(call, Listed(r), Stored, Excused, loaded)
  BY OfTheOne DEF LoadedOnce
<1>2. call[p].at \in {"idle", "act"} /\ call[p].at \notin AtRow
  BY DEF Ready, At, AtRow
<1>3. \A q \in Calls \ Savers : ~Loading(call[q])
  BY <1>1 DEF Once, OneLoad, Ready, At, Loading, AtRow, Waits
<1>4. PICK s \in Savers :
        /\ At(s, "idle")
        /\ call' = [call EXCEPT ![p] = c, ![s] = Walking("save", r, 2)]
  BY WithSaveEffect
<1> DEFINE calls1 == [call EXCEPT ![p] = c]
<1>5. Once(calls1, list, Stored, Excused', loaded)
  <2>1. calls1 = [call EXCEPT ![p] = c]
    OBVIOUS
  <2> HIDE DEF calls1
  <2> QED
    BY <1>1, <1>2, <1>3, <2>1, CallEdits
<1>6. calls1[s].at = "idle" /\ DOMAIN calls1 = Calls
      /\ call' = [calls1 EXCEPT ![s] = Walking("save", r, 2)]
  BY <1>1, <1>4 DEF Calls, At
<1>7. Once(call', list, Stored, Excused', loaded)
  <2> HIDE DEF calls1
  <2> QED
    BY <1>5, <1>6, SaverJoins
<1>8. Listed(r)' = list /\ Stored' = Stored /\ loaded' = loaded
  <2>1. CASE Edited(r, list)
    BY <1>1, <2>1, EditedList DEF Stored
  <2>2. CASE list = Listed(r) /\ UNCHANGED arrays
    BY <2>2 DEF Listed, Newest, Stored
  <2> QED
    BY <2>1, <2>2
<1> QED
  BY <1>7, <1>8 DEF LoadedOnce

LEMMA OnceBegin ==
  ASSUME Known, NEW r \in Replicas, Replicas = {r}, LoadedOnce(r), Newest(r) = 2,
         NEW p \in Requests, Begin(p, r)
  PROVE  LoadedOnce(r)'
<1>1. /\ p \in Calls /\ p \notin Savers /\ DOMAIN call = Calls /\ ListsOK
      /\ Listed(r) \in Seq(Task) /\ 2 \in DOMAIN arrays[r] /\ Apart(Listed(r))
  BY OfTheOne, ProcessAssumption DEF Calls, Savers, Known, StoreApart
<1>2. IdsOf(Listed(r)) \subseteq Coded
  BY <1>1 DEF Known, StoreKnown, Listed
<1>3. /\ \A q \in Calls : /\ Fits(call[q], IdsOf(Listed(r)), Excused)
                          /\ OwnState(q, call[q], Coded) /\ CallOK(call[q], arrays, Safe, gone)
      /\ Stored \ Excused \subseteq IdsOf(Listed(r))
  BY OfTheOne DEF LoadedOnce, Once
<1>4. CASE StartLoad(p, r)
  <2> DEFINE c == Booting(r)
  <2>1. c.at = "count" /\ c.job = "none" /\ call' = [call EXCEPT ![p] = c]
        /\ call[p].at = "idle" /\ UNCHANGED <<rows, arrays, gone, code, loaded>>
    BY <1>4 DEF Booting, State, StartLoad, Becomes, At, auxVars
  <2> HIDE DEF c
  <2> QED
    BY <1>1, <2>1, RestsInStep DEF Waits, AtRow
<1>5. CASE CreateTask(p, r)
  <2>1. PICK t \in Unused, k \in Kinds :
          LET o == [id |-> t, ver |-> 1]
          IN  /\ code' = [code EXCEPT ![t] = k]
              /\ Edited(r, <<o>> \o Listed(r))
              /\ WithSave(p, Saving("create", r, o), r, Newest(r))
    BY <1>5 DEF CreateTask
  <2> DEFINE o == [id |-> t, ver |-> 1]
             c == Saving("create", r, o)
             list == <<o>> \o Listed(r)
  <2>2. t \in Ids /\ o \in Task /\ o.id = t /\ t \notin Coded
    BY BoundAssumption DEF Unused, Task, Versions, Coded
  <2>3. list \in Seq(Task) /\ IdsOf(list) = {t} \cup IdsOf(Listed(r))
    BY <1>1, <2>2, PrependedIds
  <2>4. /\ c.at = "select" /\ c.job = "create" /\ c.obj = o /\ ~Loading(c) /\ Inserts(c, t)
        /\ Fits(c, IdsOf(list), Excused')
    BY <2>2, <2>3 DEF Saving, State, Loading, AtRow, Inserts, Fits
  <2>5. Ready(p, r) /\ UNCHANGED <<rows, loaded, gone>> /\ Edited(r, list) /\ WithSave(p, c, r, 2)
    BY <1>5, <2>1 DEF CreateTask, auxVars
  <2>7. Excused \subseteq Excused'
    <3>1. code \in [Ids -> Kinds \cup {"none"}]
      BY DEF Known, Inv, StoreOK
    <3> QED
      BY <2>1, <2>2, <2>5, <3>1 DEF Excused, Pms, Coded
  <2>6. \A q \in Calls : Fits(call[q], IdsOf(list), Excused')
    BY <1>3, <2>2, <2>3, <2>7 DEF Fits, OwnState, AtRow
  <2> HIDE DEF c, list
  <2> QED
    BY <1>1, <1>3, <2>3, <2>4, <2>5, <2>6, <2>7, EditsInStep
<1>6. CASE UpdateTask(p, r)
  <2>1. PICK i \in DOMAIN Listed(r) :
          LET o == [Listed(r)[i] EXCEPT !.ver = @ + 1]
          IN  /\ o.ver \in Versions
              /\ Edited(r, [Listed(r) EXCEPT ![i] = o])
              /\ WithSave(p, Saving("update", r, o), r, Newest(r))
    BY <1>6 DEF UpdateTask
  <2> DEFINE o == [Listed(r)[i] EXCEPT !.ver = @ + 1]
             c == Saving("update", r, o)
             list == [Listed(r) EXCEPT ![i] = o]
  <2>2. Listed(r)[i] \in Task
    BY <1>1
  <2>3. o \in Task /\ o.id = Listed(r)[i].id /\ o.id \in IdsOf(Listed(r))
    BY <2>1, <2>2 DEF Task, IdsOf
  <2>4. list \in Seq(Task) /\ IdsOf(list) = IdsOf(Listed(r))
    <3> HIDE DEF o
    <3> QED
      BY <1>1, <2>3, ReplacedIds
  <2>5. c.at = "select" /\ c.job = "update" /\ ~Loading(c) /\ Fits(c, IdsOf(list), Excused)
    BY <2>3, <2>4 DEF Saving, State, Loading, AtRow, Fits
  <2>6. Ready(p, r) /\ UNCHANGED <<rows, loaded, gone>> /\ Edited(r, list) /\ WithSave(p, c, r, 2)
    BY <1>6, <2>1 DEF UpdateTask, auxVars
  <2>7. Excused' = Excused
    BY <1>6 DEF UpdateTask, auxVars, Excused, Pms
  <2> HIDE DEF c, list
  <2> QED
    BY <1>1, <1>3, <2>4, <2>5, <2>6, <2>7, EditsInStep
<1>7. CASE DeleteTask(p, r)
  <2>1. PICK i \in DOMAIN Listed(r) :
          LET o == Listed(r)[i]
          IN  /\ Edited(r, Spliced(Listed(r), i))
              /\ gone' = gone \cup {o.id}
              /\ WithSave(p, Deleting(r, o), r, Newest(r))
    BY <1>7 DEF DeleteTask
  <2> DEFINE o == Listed(r)[i]
             c == Deleting(r, o)
             list == Spliced(Listed(r), i)
  <2>2. list \in Seq(Task) /\ IdsOf(list) = IdsOf(Listed(r)) \ {o.id}
    BY <1>1, SplicedOK, SplicedIds
  <2>3. c.at = "delete" /\ c.job = "none" /\ ~Loading(c) /\ Fits(c, IdsOf(list), Excused')
    BY <2>2 DEF Deleting, State, Loading, AtRow, Fits
  <2>4. Ready(p, r) /\ UNCHANGED <<rows, loaded>> /\ Edited(r, list) /\ WithSave(p, c, r, 2)
        /\ Excused' = Excused \cup {o.id}
    BY <1>7, <2>1 DEF DeleteTask, Excused, Pms
  <2>5. \A q \in Calls : Fits(call[q], IdsOf(list), Excused')
    BY <1>3, <2>2, <2>4 DEF Fits
  <2> HIDE DEF c, list
  <2> QED
    BY <1>1, <1>3, <2>2, <2>3, <2>4, <2>5, EditsInStep
<1>8. CASE Chat(p, r)
  <2> DEFINE c == Over(p)
  <2>1. c.at = "done" /\ c.job = "none" /\ ~Loading(c) /\ Fits(c, IdsOf(Listed(r)), Excused)
    BY DEF Over, Done, State, Loading, AtRow, Fits
  <2>2. Ready(p, r) /\ UNCHANGED <<rows, loaded, arrays>> /\ WithSave(p, c, r, 2)
        /\ Excused' = Excused
    BY <1>8 DEF Chat, auxVars, Excused, Pms
  <2> HIDE DEF c
  <2> QED
    BY <1>1, <1>3, <2>1, <2>2, EditsInStep
<1> QED
  BY <1>4, <1>5, <1>6, <1>7, <1>8 DEF Begin

\* The first load finds the rows, or seeds the empty table from the document.
LEMMA FirstLoad ==
  ASSUME Known, NEW r \in Replicas, Replicas = {r}, Unloaded(r), Newest(r) = 1,
         NEW p \in Calls, Assigns(p)
  PROVE  Newest(r)' = 2 /\ LoadedOnce(r)'
<1>1. /\ DOMAIN call = Calls /\ OwnState(p, call[p], Coded) /\ ListsOK
      /\ rows \in [Ids -> 0 .. MaxVersion] /\ blob \in Seq(Task) /\ Apart(blob)
      /\ call[p] \in CallStates
  BY OfTheOne DEF Known, Inv, StoreOK, StoreApart
<1>2. call[p].at \in {"fetch", "heal", "seed"} /\ call[p].on = r /\ p \notin Savers
  <2>1. call[p].at \in {"fetch", "heal", "seed"}
    BY DEF Assigns, FetchRows, HealRows, Seed, At
  <2> QED
    BY <1>1, <2>1, OfTheOne DEF OwnState
<1>3. /\ loaded = {} /\ UNCHANGED <<rows, loaded, gone, code>>
      /\ Stored' = Stored /\ Excused' = Excused
      /\ \A q \in Calls : call[q].at \in Waits /\ call[q].job = "none"
  <2>1. loaded \subseteq Replicas
    BY DEF Known, Inv, StoreOK
  <2>2. UNCHANGED <<rows, loaded, gone, code>>
    BY DEF Assigns, FetchRows, HealRows, Seed, auxVars
  <2> QED
    BY <2>1, <2>2 DEF Unloaded, Stored, Excused, Pms
\* A list of stored tasks, before anything else happens.
<1>4. ASSUME NEW c, NEW list, Stored \ Excused \subseteq IdsOf(list),
             Fits(c, IdsOf(list), Excused), Loading(c), Seeds(c, list, Stored),
             c.at \in {"comments", "pick"},
             c.at = "comments" \/ c.job = "save" => IdsOf(list) \subseteq Stored
      PROVE  Once([call EXCEPT ![p] = c], list, Stored, Excused, loaded)
  <2> DEFINE calls == [call EXCEPT ![p] = c]
  <2>1. \A q \in Calls : calls[q] = IF q = p THEN c ELSE call[q]
    BY <1>1
  <2> HIDE DEF calls
  <2>2. \A q \in Calls : q # p => ~Loading(calls[q]) /\ Fits(calls[q], IdsOf(list), Excused)
    BY <1>3, <2>1 DEF Loading, Fits, Waits, AtRow
  <2>3. OneLoad(calls, loaded)
    BY <1>3, <2>1, <2>2 DEF OneLoad
  <2>4. Filled(calls, loaded) => IdsOf(list) \subseteq Stored
    BY <1>3, <1>4, <2>1, <2>2 DEF Filled
  <2>5. Once(calls, list, Stored, Excused, loaded)
    BY <1>4, <2>1, <2>2, <2>3, <2>4 DEF Once, Seeds
  <2> QED
    BY <2>5 DEF calls
\* The list that was read, at once or after its rows were rewritten.
<1>7. ASSUME NEW list \in Seq(Task), IdsOf(list) = Stored \ Pms, Assigned(r, list),
             NEW c, c.at = "comments", c.job = "none", call' = [call EXCEPT ![p] = c]
      PROVE  Newest(r)' = 2 /\ LoadedOnce(r)'
  <2>1. Listed(r)' = list /\ Newest(r)' = 2
    BY <1>1, <1>7, AssignedList
  <2>2. Once([call EXCEPT ![p] = c], list, Stored, Excused, loaded)
    BY <1>4, <1>7 DEF Fits, Loading, Seeds, AtRow, Excused
  <2> QED
    BY <1>3, <1>7, <2>1, <2>2 DEF LoadedOnce
<1>5. CASE FetchRows(p) /\ Goto(p, "comments")
  <2> DEFINE c == [call[p] EXCEPT !.at = "comments"]
  <2>1. c.at = "comments" /\ c.job = "none" /\ call' = [call EXCEPT ![p] = c]
    BY <1>1, <1>3, <1>5 DEF CallStates, Goto
  <2>2. PICK list \in [1 .. Cardinality(Stored \ Pms) -> RowTasks] :
          /\ FoundIn(list)
          /\ Assigned(r, list) \/ call' = [call EXCEPT ![p].at = "heal", ![p].list = list]
    BY <1>2, <1>5 DEF FetchRows
  <2>3. call'[p].at = "comments"
    BY <1>1, <2>1
  <2>4. Assigned(r, list)
    BY <1>1, <2>2, <2>3 DEF CallStates
  <2>5. list \in Seq(Task) /\ IdsOf(list) = Stored \ Pms
    BY <1>1, <2>2, FetchedOK, FetchedIds
  <2> HIDE DEF c
  <2> QED
    BY <1>7, <2>1, <2>4, <2>5
<1>8. CASE HealRows(p)
  <2> DEFINE c == [[call[p] EXCEPT !.at = "comments"] EXCEPT !.list = << >>]
  <2>1. c.at = "comments" /\ c.job = "none" /\ call' = [call EXCEPT ![p] = c]
    BY <1>1, <1>3, <1>8 DEF CallStates, HealRows
  <2>2. Assigned(r, call[p].list) /\ At(p, "heal")
    BY <1>2, <1>8 DEF HealRows
  <2>3. call[p].list \in Seq(Task) /\ IdsOf(call[p].list) = Stored \ Pms
    BY <1>1, <2>2 DEF CallStates, Unloaded
  <2> HIDE DEF c
  <2> QED
    BY <1>7, <2>1, <2>2, <2>3
<1>6. CASE Seed(p)
  <2>1. PICK list \in Filtered(blob) :
          /\ Assigned(r, list)
          /\ \/ Becomes(p, Walking("seed", r, Newest(r) + 1))
             \/ WithSave(p, Walking("seed", r, Newest(r) + 1), r, Newest(r) + 1)
    BY <1>2, <1>6 DEF Seed
  <2>8. Stored = {} /\ list \in Seq(Task)
    BY <1>1, <1>6, FilteredOK DEF Seed, Unloaded
  <2>2. Listed(r)' = list /\ Newest(r)' = 2 /\ Newest(r) + 1 = 2
    BY <1>1, <2>1, <2>8, AssignedList
  <2> DEFINE c == Walking("seed", r, 2)
             calls == [call EXCEPT ![p] = c]
  <2>3. c.at = "pick" /\ c.job = "seed" /\ c.arr = 2 /\ c.idx = 1
    BY DEF Walking, State
  <2>4. DOMAIN list = 1 .. Len(list) /\ Len(list) \in Nat
    BY <2>8
  <2>5. \A i \in DOMAIN list : ~(i < 1)
    BY <2>4
  <2> HIDE DEF c
  <2>6. Once(calls, list, Stored, Excused, loaded)
    BY <1>4, <2>3, <2>5, <2>8 DEF Fits, Loading, Seeds, AtRow
  <2>7. Once(call', list, Stored, Excused, loaded)
    <3>1. CASE Becomes(p, c)
      BY <2>6, <3>1 DEF Becomes
    <3>2. CASE WithSave(p, c, r, 2)
      <4>1. PICK s \in Savers :
              /\ At(s, "idle")
              /\ call' = [call EXCEPT ![p] = c, ![s] = Walking("save", r, 2)]
        BY <3>2, WithSaveEffect
      <4>2. calls[s].at = "idle" /\ DOMAIN calls = Calls
            /\ call' = [calls EXCEPT ![s] = Walking("save", r, 2)]
        BY <1>1, <1>2, <4>1 DEF Calls, At
      <4> HIDE DEF calls
      <4> QED
        BY <2>6, <4>2, SaverJoins
    <3> QED
      BY <2>1, <2>2, <3>1, <3>2 DEF c
  <2> QED
    BY <1>3, <2>2, <2>7 DEF LoadedOnce
<1> QED
  BY <1>5, <1>6, <1>8 DEF Assigns

\* Before it a request can but start another load, and a load count the rows.
LEMMA StillUnloaded ==
  ASSUME Known, NEW r \in Replicas, Replicas = {r}, Unloaded(r),
         \/ \E p \in Requests : Begin(p, r)
         \/ \E p \in Calls : Step(p) /\ ~Assigns(p)
  PROVE  UNCHANGED arrays /\ Unloaded(r)'
<1>1. call \in [Calls -> CallStates] /\ Requests \subseteq Calls
  BY OfTheOne DEF Calls
<1>2. \/ \E p \in Requests : StartLoad(p, r)
      \/ \E p \in Calls : CountRows(p)
      \/ \E p \in Calls : FetchRows(p) /\ ~Goto(p, "comments")
  BY <1>1 DEF Assigns, Unloaded, Waits, Begin, Step, CreateTask, UpdateTask, DeleteTask, Chat, Ready,
              FetchComments, Pick, SelectRow, InsertRow, UpdateRow, SaveBlob, DeleteRow,
              Answer, Refuse, At
<1>3. ASSUME NEW p \in Requests, StartLoad(p, r) PROVE UNCHANGED arrays /\ Unloaded(r)'
  <2>1. /\ call' = [call EXCEPT ![p] = Booting(r)] /\ UNCHANGED <<rows, arrays, loaded, code>>
        /\ Booting(r).at = "count" /\ Booting(r).job = "none"
    BY <1>3 DEF StartLoad, Becomes, Booting, State
  <2> QED
    BY <1>1, <2>1 DEF Unloaded, Waits, At, Stored, Pms
<1>4. ASSUME NEW p \in Calls, CountRows(p) PROVE UNCHANGED arrays /\ Unloaded(r)'
  <2>1. /\ UNCHANGED <<rows, arrays, loaded, code>>
        /\ \E l \in {"fetch", "seed"} : /\ call' = [call EXCEPT ![p] = [call[p] EXCEPT !.at = l]]
                                        /\ l = "seed" => Stored = {}
    BY <1>4 DEF CountRows, Goto
  <2> QED
    BY <1>1, <2>1 DEF Unloaded, Waits, At, Stored, Pms, CallStates
<1>5. ASSUME NEW p \in Calls, FetchRows(p), ~Goto(p, "comments")
      PROVE  UNCHANGED arrays /\ Unloaded(r)'
  <2>1. PICK list \in [1 .. Cardinality(Stored \ Pms) -> RowTasks] :
          /\ FoundIn(list) /\ UNCHANGED arrays
          /\ call' = [call EXCEPT ![p].at = "heal", ![p].list = list]
    BY <1>5 DEF FetchRows
  <2>2. IdsOf(list) = Stored \ Pms
    BY <2>1, FetchedIds DEF Known, Inv, StoreOK
  <2>3. UNCHANGED <<rows, loaded, code>> /\ Stored' = Stored /\ Pms' = Pms
    BY <1>5 DEF FetchRows, Stored, Pms
  <2>4. /\ call'[p].at = "heal" /\ call'[p].list = list /\ call'[p].job = call[p].job
        /\ \A q \in Calls : q # p => call'[q] = call[q]
    BY <1>1, <2>1 DEF CallStates
  <2> QED
    BY <2>1, <2>2, <2>3, <2>4 DEF Unloaded, Waits, At
<1> QED
  BY <1>2, <1>3, <1>4, <1>5

LEMMA InitSingle == Init => SingleInv
<1> SUFFICES ASSUME Init, NEW r \in Replicas, Replicas = {r}, ~failed
             PROVE  Newest(r) = 1 /\ Unloaded(r)
  BY DEF SingleInv
<1>1. Newest(r) = 1
  BY DEF Init, Newest
<1> QED
  BY <1>1 DEF Init, Unloaded, Booting, Idle, State, Waits, At, Stored

\* A list gives way to a newer one, and a restart alone begins again.
LEMMA NewestMoves ==
  ASSUME Known, Known', NEW r \in Replicas, Replicas = {r}, Next
  PROVE  \/ Newest(r)' = Newest(r) /\ ~\E p \in Calls : Assigns(p)
         \/ Newest(r)' = Newest(r) + 1 /\ \E p \in Calls : Assigns(p)
         \/ Restart(r)
<1>1. ListsOK /\ ListsOK' /\ Newest(r) \in Nat
  BY OfTheOne DEF Known, Inv, StoreOK, ListsOK
<1>2. ASSUME NEW p \in Calls, Assigns(p) PROVE Newest(r)' = Newest(r) + 1
  <2>1. call[p].on = r /\ call[p] \in CallStates /\ DOMAIN call = Calls
    BY <1>2, OfTheOne DEF Assigns, FetchRows, HealRows, Seed, At
  <2>2. blob \in Seq(Task) /\ rows \in [Ids -> 0 .. MaxVersion]
    BY DEF Known, Inv, StoreOK
  <2>3. PICK list \in Seq(Task) : Assigned(r, list)
    <3>1. CASE FetchRows(p) /\ Goto(p, "comments")
      <4>1. PICK list \in [1 .. Cardinality(Stored \ Pms) -> RowTasks] :
              Assigned(r, list) \/ call' = [call EXCEPT ![p].at = "heal", ![p].list = list]
        BY <2>1, <3>1 DEF FetchRows
      <4>2. call'[p].at = "comments"
        BY <2>1, <3>1 DEF Goto, CallStates
      <4> QED
        BY <2>1, <2>2, <4>1, <4>2, FetchedOK DEF CallStates
    <3>2. CASE HealRows(p)
      BY <2>1, <3>2 DEF HealRows, CallStates
    <3>3. CASE Seed(p)
      BY <2>1, <2>2, <3>3, FilteredOK DEF Seed
    <3> QED
      BY <1>2, <3>1, <3>2, <3>3 DEF Assigns
  <2> QED
    BY <1>1, <2>3, AssignedList
<1>3. ASSUME NEW list, Edited(r, list) PROVE Newest(r)' = Newest(r)
  <2>1. arrays[r] \in Seq(Seq(Task)) /\ arrays'[r] \in Seq(Seq(Task))
    BY <1>1 DEF ListsOK
  <2>2. arrays'[r] = [arrays[r] EXCEPT ![Newest(r)] = list]
    BY <1>1, <1>3 DEF ListsOK, Edited
  <2>3. DOMAIN arrays'[r] = DOMAIN arrays[r]
    BY <2>2
  <2>4. /\ 1 .. Len(arrays'[r]) = 1 .. Len(arrays[r])
        /\ Len(arrays'[r]) \in Nat /\ Len(arrays[r]) \in Nat
    BY <2>1, <2>3
  <2> QED
    BY <2>4 DEF Newest
<1>4. ASSUME UNCHANGED arrays PROVE Newest(r)' = Newest(r)
  BY <1>4 DEF Newest
<1>5. ASSUME NEW p \in Requests, Begin(p, r) PROVE Newest(r)' = Newest(r)
  BY <1>3, <1>4, <1>5 DEF Begin, StartLoad, CreateTask, UpdateTask, DeleteTask, Chat
<1>6. CASE \E p \in Calls : Assigns(p)
  BY <1>2, <1>6
<1>7. CASE ~\E p \in Calls : Assigns(p)
  BY <1>4, <1>5, <1>7
     DEF Assigns, Next, Step, CountRows, FetchRows, FetchComments, Pick, SelectRow, InsertRow,
         UpdateRow, SaveBlob, DeleteRow, Answer, Refuse, Fail
<1> QED
  BY <1>6, <1>7

LEMMA StepSingle == Known /\ SingleInv /\ [Next]_vars => SingleInv'
<1> SUFFICES ASSUME Known, SingleInv, [Next]_vars, NEW r \in Replicas, Replicas = {r}, ~failed'
             PROVE  /\ Newest(r)' = 1 => Unloaded(r)'
                    /\ Newest(r)' = 2 => LoadedOnce(r)'
  BY DEF SingleInv
<1>1. /\ Known' /\ Newest(r) \in Nat \ {0} /\ DOMAIN call = Calls
      /\ \A p \in Calls : CallOK(call[p], arrays, Safe, gone)
      /\ \A p \in Calls : OwnState(p, call[p], Coded)
  BY OfTheOne, StepsKnown
<1>2. CASE Restart(r)
  <2>1. Newest(r)' = 1 /\ r \notin loaded'
    BY <1>2 DEF Restart, Newest, Known, Inv, StoreOK
  <2>2. ASSUME NEW p \in Calls
        PROVE  call'[p].at \in {"idle", "done", "count"} /\ call'[p].job = "none"
    <3>1. CASE p = r \/ call[p].on = r
      BY <1>2, <3>1 DEF Restart, Booting, Over, Idle, Done, State
    <3>2. CASE p # r /\ call[p].on # r
      <4>1. call'[p] = call[p] /\ call[p].at \in {"idle", "done"}
        BY <1>1, <1>2, <3>2 DEF Restart, CallOK
      <4>2. call[p].job = "none"
        BY <1>1, <4>1 DEF OwnState
      <4> QED
        BY <4>1, <4>2
    <3> QED
      BY <3>1, <3>2
  <2> QED
    BY <2>1, <2>2 DEF Unloaded, Waits, At
<1>3. CASE ~Restart(r) /\ Next
  <2>1. /\ \/ \E p \in Requests : Begin(p, r)
           \/ \E p \in Calls : Step(p)
        /\ ~failed
    <3>1. ~\E p \in Calls : Fail(p)
      BY DEF Fail
    <3>2. \/ \E p \in Requests : Begin(p, r)
          \/ \E p \in Calls : Step(p)
      BY <1>3, <3>1 DEF Next
    <3>3. UNCHANGED failed
      BY <3>2 DEF Begin, Step, StartLoad, CreateTask, UpdateTask, DeleteTask, Chat,
        CountRows, FetchRows, HealRows, FetchComments, Seed, Pick, SelectRow, InsertRow, UpdateRow,
        SaveBlob, DeleteRow, Answer, Refuse, auxVars
    <3> QED
      BY <3>2, <3>3
  <2>2. CASE Newest(r) = 1 /\ \E p \in Calls : Assigns(p)
    BY <2>1, <2>2, FirstLoad DEF SingleInv
  <2>3. CASE Newest(r) = 1 /\ ~\E p \in Calls : Assigns(p)
    <3>1. Unloaded(r)
      BY <2>1, <2>3 DEF SingleInv
    <3>2. \/ \E p \in Requests : Begin(p, r)
          \/ \E p \in Calls : Step(p) /\ ~Assigns(p)
      BY <2>1, <2>3
    <3>3. UNCHANGED arrays /\ Unloaded(r)'
      BY <3>1, <3>2, StillUnloaded
    <3> QED
      BY <2>3, <3>3 DEF Newest
  <2>4. CASE Newest(r) = 2 /\ ~\E p \in Calls : Assigns(p)
    <3>1. LoadedOnce(r)
      BY <2>1, <2>4 DEF SingleInv
    <3>2. LoadedOnce(r)'
      BY <2>1, <2>4, <3>1, OnceBegin, OnceLoad, OnceSave, OnceEnd DEF Step, Assigns
    <3> QED
      BY <1>1, <1>3, <2>4, <3>2, NewestMoves
  <2>5. CASE Newest(r) > 2 \/ (Newest(r) = 2 /\ \E p \in Calls : Assigns(p))
    BY <1>1, <1>3, <2>5, NewestMoves
  <2> QED
    BY <1>1, <2>2, <2>3, <2>4, <2>5
<1>4. CASE UNCHANGED vars
  BY <1>4 DEF vars, auxVars, SingleInv, Unloaded, LoadedOnce, Newest, Listed, Stored, At,
             Excused, Pms
<1> QED
  BY <1>2, <1>3, <1>4

\* A process that has loaded its list once agrees with the table when nothing
\* runs, but for the tasks of PMS, whose rows no load lists: the seed and the saves of single rows store what it lists, deletions
\* take rows only after their tasks, and saves of old tasks write none that is
\* neither listed nor deleted.
THEOREM TasksAgree == Spec => []QuietAgreement
<1>1. Known /\ SingleInv => QuietAgreement
  <2> SUFFICES ASSUME Known, SingleInv, ~failed, Quiet, NEW r \in loaded, Replicas = {r},
                      Newest(r) = 2
               PROVE  /\ (Stored \ gone) \ Pms \subseteq IdsOf(Listed(r))
                      /\ IdsOf(Listed(r)) \subseteq Stored
    BY DEF QuietAgreement
  <2>1. Once(call, Listed(r), Stored, Excused, loaded)
    BY DEF SingleInv, LoadedOnce
  <2>2. \A t : \A p \in Calls : ~Inserts(call[p], t)
    BY DEF Quiet, Inserts
  <2> QED
    BY <2>1, <2>2 DEF Once, Filled, Excused
<1>2. Init => Known /\ SingleInv
  BY InitKnown, InitSingle
<1>3. Known /\ SingleInv /\ [Next]_vars => Known' /\ SingleInv'
  BY StepsKnown, StepSingle
<1> QED
  BY <1>1, <1>2, <1>3, PTL DEF Spec
=============================================================================
