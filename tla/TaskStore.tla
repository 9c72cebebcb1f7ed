------------------------------ MODULE TaskStore ------------------------------
(***************************************************************************)
(* The tasks of every API process:                                         *)
(*   api/src/app/resources/2-user/2-task/task.service.ts                   *)
(*                                                                         *)
(* Each process serves reads and writes from a list in its memory,         *)
(* this.tasks.  The list is loaded from the table task.tasks, or, while    *)
(* that is empty, from the document user.task_store, by the constructor,   *)
(* which nobody waits for, and by every request that finds it not loaded   *)
(* yet.  A request changes the list, starts saveToDb in the background     *)
(* without waiting for it, writes its own row and answers.  saveToDb walks *)
(* the list while it changes, with two statements for each row, and ends   *)
(* with the document.                                                      *)
(*                                                                         *)
(* A task is its id and its version, and for good what its code and its    *)
(* project say: the tasks of PMS (isPmsTask) are dropped from every load.  *)
(* Nothing else of its content is told apart.  Rights, notifications and   *)
(* comments are left out; what reading or writing a comment does to the    *)
(* store, a save of all of it, is Chat.  No two tasks are created in one   *)
(* millisecond: Date.now() gives each an id of its own.                    *)
(***************************************************************************)
EXTENDS Naturals, Sequences, FiniteSets

CONSTANTS
  Replicas,     \* API processes; each is also its constructor's load
  Requests,     \* request executions, each of one request
  MaxSaves,     \* bound: background saves that run at a time
  MaxTask,      \* bound: tasks that are ever created
  MaxVersion,   \* bound: versions of a task
  MaxArrays,    \* bound: lists a process has had since it was started
  MaxFaults,    \* bound: restarts of processes and statements that fail
  NoReplica

ASSUME BoundAssumption ==
  /\ MaxSaves \in Nat \ {0} /\ MaxTask \in Nat \ {0} /\ MaxVersion \in Nat \ {0}
  /\ MaxArrays \in Nat \ {0} /\ MaxFaults \in Nat
ASSUME ProcessAssumption ==
  /\ Requests \cap (1 .. MaxSaves) = {} /\ Requests \cap Replicas = {}
  /\ Replicas \cap (1 .. MaxSaves) = {} /\ NoReplica \notin Replicas

VARIABLES
  rows,      \* version in the row of each task, 0 when there is no row
  blob,      \* column tasks of the document
  arrays,    \* lists each process has had: the last is this.tasks, an older
             \* one lives on in the saves that are still walking it
  loaded,    \* processes with isStoreLoaded
  code,      \* what the code and project of a task say, "none" before it is
  call,      \* where each call is, and its local variables
  created,   \* auxiliary: tasks whose creation was answered
  gone,      \* auxiliary: tasks a process was asked to delete
  failed,    \* auxiliary: a statement has failed
  faults     \* restarts and failures so far

auxVars == <<created, gone, failed, faults>>
vars == <<rows, blob, arrays, loaded, code, call, auxVars>>

Savers   == 1 .. MaxSaves
Ids      == 1 .. MaxTask
Versions == 1 .. MaxVersion
Task     == [id : Ids, ver : Versions]
Kinds    == {"pms", "other"}
Calls    == Requests \cup Savers \cup Replicas

-----------------------------------------------------------------------------
(***************************************************************************)
(* The local state of a call: its next statement, what the row it saves is *)
(* saved for, its process, the list it walks and where it is in it, the    *)
(* task it saves, the version its SELECT returned (0 for no row), and the  *)
(* list it has read.                                                       *)
(***************************************************************************)
NoObj == [id |-> 0, ver |-> 0]
State(label, j, r, n, i, o) ==
  [at |-> label, job |-> j, on |-> r, arr |-> n, idx |-> i, obj |-> o, found |-> 0,
   list |-> << >>]

Idle             == State("idle", "none", NoReplica, 0, 0, NoObj)
Done             == State("done", "none", NoReplica, 0, 0, NoObj)
Booting(r)       == State("count", "none", r, 0, 0, NoObj)
Acting(r)        == State("act", "none", r, 0, 0, NoObj)
Walking(j, r, n) == State("pick", j, r, n, 1, NoObj)
Saving(j, r, o)  == State("select", j, r, 0, 0, o)
Deleting(r, o)   == State("delete", "none", r, 0, 0, o)

\* The walk goes on; what it knew of the row is forgotten.
Further(c) == State("pick", c.job, c.on, c.arr, c.idx + 1, NoObj)

Loads == {"count", "fetch", "heal", "comments", "seed"}
CallStates ==
  [at : {"idle", "done", "act", "pick", "select", "write", "blob", "delete", "answer"} \cup Loads,
   job : {"none", "seed", "save", "create", "update"},
   on : Replicas \cup {NoReplica}, arr : Nat, idx : Nat,
   obj : Task \cup {NoObj}, found : 0 .. MaxVersion, list : Seq(Task)]

\* A call is over: a request for good, a save or a load until the next one.
Over(p) == IF p \in Requests THEN Done ELSE Idle

At(p, label)  == call[p].at = label
Newest(r)     == Len(arrays[r])
Listed(r)     == arrays[r][Newest(r)]
IdsOf(list)   == {list[i].id : i \in DOMAIN list}
Walked(p)     == arrays[call[p].on][call[p].arr]
Stored        == {t \in Ids : rows[t] # 0}
Unused        == {t \in Ids : code[t] = "none"}
Pms           == {t \in Ids : code[t] = "pms"}
Stays(list)   == {i \in DOMAIN list : list[i].id \notin Pms}

\* A list with the i-th element out, as splice(i, 1) leaves it.
Spliced(list, i) == SubSeq(list, 1, i - 1) \o SubSeq(list, i + 1, Len(list))

\* filter(!isPmsTask) of a list: the elements that stay, in their order.
Filtered(list) ==
  LET n == Cardinality(Stays(list))
  IN  {[i \in 1 .. n |-> list[at[i]]] :
         at \in {f \in [1 .. n -> Stays(list)] : \A i, j \in 1 .. n : i < j => f[i] < f[j]}}

\* The rows as find({ order: { id: 'DESC' } }) returns them, filtered.
RowTasks == {[id |-> t, ver |-> rows[t]] : t \in Stored \ Pms}
FoundIn(list) ==
  \A i, j \in DOMAIN list : i < j => list[i].id > list[j].id

\* What is in a list, in the document or about to be written is a task, and a
\* call is where its statements expect it.
TypeOK ==
  /\ rows \in [Ids -> 0 .. MaxVersion] /\ blob \in Seq(Task)
  /\ arrays \in [Replicas -> Seq(Seq(Task))]
  /\ \A r \in Replicas : arrays[r] # << >>
  /\ loaded \subseteq Replicas /\ code \in [Ids -> Kinds \cup {"none"}]
  /\ call \in [Calls -> CallStates]
  /\ created \subseteq Ids /\ gone \subseteq Ids
  /\ failed \in BOOLEAN /\ faults \in 0 .. MaxFaults

\* A deployment with the document of an earlier release, or with none; every
\* process has just been started.
Init ==
  /\ rows = [t \in Ids |-> 0]
  /\ \E n \in {0, 1}, k \in Kinds :
       /\ blob = [i \in 1 .. n |-> [id |-> i, ver |-> 1]]
       /\ code = [t \in Ids |-> IF t <= n THEN k ELSE "none"]
  /\ arrays = [r \in Replicas |-> << << >> >>]
  /\ loaded = {}
  /\ call = [p \in Calls |-> IF p \in Replicas THEN Booting(p) ELSE Idle]
  /\ created = {} /\ gone = {} /\ failed = FALSE /\ faults = 0

-----------------------------------------------------------------------------
Goto(p, label) == call' = [call EXCEPT ![p].at = label]
Becomes(p, state) == call' = [call EXCEPT ![p] = state]

\* saveStore(): saveToDb is started over the list and not waited for; it takes
\* the first slot that is free.
WithSave(p, state, r, n) ==
  \E s \in Savers :
    /\ At(s, "idle") /\ \A u \in Savers : At(u, "idle") => s <= u
    /\ call' = [call EXCEPT ![p] = state, ![s] = Walking("save", r, n)]

\* this.tasks = list
Assigned(r, list) == arrays' = [arrays EXCEPT ![r] = Append(@, list)]

\* The list this.tasks is changed in place.
Edited(r, list) == arrays' = [arrays EXCEPT ![r][Newest(r)] = list]

-----------------------------------------------------------------------------
(***************************************************************************)
(* initDbStore, of the constructor or of a request.                        *)
(***************************************************************************)
\* The load has ended; a request goes on with its own work.
AfterLoad(p) ==
  IF p \in Requests THEN Acting(call[p].on) ELSE Idle

\* ensureStoreLoaded of a request: another load may well be running.
StartLoad(p, r) ==
  /\ At(p, "idle") /\ r \notin loaded
  /\ Newest(r) + Cardinality({q \in Calls : call[q].on = r /\ call[q].at \in Loads \ {"comments"}}) < MaxArrays
  /\ Becomes(p, Booting(r))
  /\ UNCHANGED <<rows, blob, arrays, loaded, code, auxVars>>

CountRows(p) ==
  /\ At(p, "count")
  /\ \/ Stored # {} /\ Goto(p, "fetch")
     \/ Stored = {} /\ Goto(p, "seed")
  /\ UNCHANGED <<rows, blob, arrays, loaded, code, auxVars>>

\* The rows are read and filtered.  Without a task of event booking among them
\* the list is assigned at once; otherwise each of those rows has its code and
\* project rewritten first, and waited for, whether that fails or not.
FetchRows(p) ==
  /\ At(p, "fetch")
  /\ \E list \in [1 .. Cardinality(Stored \ Pms) -> RowTasks] :
       /\ FoundIn(list)
       /\ \/ /\ Assigned(call[p].on, list)
             /\ Goto(p, "comments")
          \/ /\ list # << >>
             /\ call' = [call EXCEPT ![p].at = "heal", ![p].list = list]
             /\ UNCHANGED arrays
  /\ UNCHANGED <<rows, blob, loaded, code, auxVars>>

\* The last of those rows is rewritten: the list as it was read is assigned.
HealRows(p) ==
  /\ At(p, "heal")
  /\ Assigned(call[p].on, call[p].list)
  /\ call' = [call EXCEPT ![p].at = "comments", ![p].list = << >>]
  /\ UNCHANGED <<rows, blob, loaded, code, auxVars>>

\* The comments are read; a task that has none is given some, and saveStore is
\* called for it (once for each such task: one save stands for all of them).
FetchComments(p) ==
  /\ At(p, "comments")
  /\ \/ Becomes(p, AfterLoad(p))
     \/ WithSave(p, AfterLoad(p), call[p].on, Newest(call[p].on))
  /\ loaded' = loaded \cup {call[p].on}
  /\ UNCHANGED <<rows, blob, arrays, code, auxVars>>

\* The document, filtered, takes the place of the empty table and is written to
\* it row by row; a task without comments again has saveStore called for it.
Seed(p) ==
  /\ At(p, "seed")
  /\ \E list \in Filtered(blob) :
       /\ Assigned(call[p].on, list)
       /\ LET own == Walking("seed", call[p].on, Newest(call[p].on) + 1)
          IN  \/ Becomes(p, own)
              \/ list # << >> /\ WithSave(p, own, call[p].on, Newest(call[p].on) + 1)
  /\ UNCHANGED <<rows, blob, loaded, code, auxVars>>

-----------------------------------------------------------------------------
(***************************************************************************)
(* saveToDb and the saves of single rows.                                  *)
(***************************************************************************)
\* saveToDb returns: a background save is over, a load has its data.
SaveOver(p) ==
  \/ p \in Savers /\ Becomes(p, Idle) /\ UNCHANGED loaded
  \/ /\ p \notin Savers
     /\ Becomes(p, AfterLoad(p))
     /\ loaded' = loaded \cup {call[p].on}

\* Fault: the walk goes back to the row it has just saved.
RowDoneAgain(p) ==
  /\ \/ call[p].job \in {"create", "update"} /\ Goto(p, "answer")
     \/ call[p].job \in {"seed", "save"} /\ Goto(p, "pick")
  /\ UNCHANGED loaded

\* The row is saved: the walk goes on, or the request answers.
RowDone(p) ==
  /\ \/ call[p].job \in {"create", "update"} /\ Goto(p, "answer")
     \/ /\ call[p].job \in {"seed", "save"}
        /\ Becomes(p, Further(call[p]))
  /\ UNCHANGED loaded

\* The statement fails: a request answers all the same, saveToDb gives up the
\* rest of the list and the document, a load is given up.
RowFailed(p) ==
  \/ call[p].job \in {"create", "update"} /\ Goto(p, "answer") /\ UNCHANGED loaded
  \/ call[p].job = "seed" /\ Becomes(p, AfterLoad(p)) /\ UNCHANGED loaded
  \/ call[p].job = "save" /\ SaveOver(p)

\* for (const t of this.tasks): the next element of the list as it is now.
Pick(p) ==
  /\ At(p, "pick")
  /\ \/ /\ call[p].idx <= Len(Walked(p))
        /\ call' = [call EXCEPT ![p].at = "select", ![p].obj = Walked(p)[call[p].idx]]
     \/ /\ call[p].idx > Len(Walked(p))
        /\ \/ /\ call[p].job = "seed"
              /\ Becomes(p, Walking("save", call[p].on, Newest(call[p].on)))
           \/ call[p].job = "save" /\ Goto(p, "blob")
  /\ UNCHANGED <<rows, blob, arrays, loaded, code, auxVars>>

\* repository.save(): its SELECT.
SelectRow(p) ==
  /\ At(p, "select")
  /\ call' = [call EXCEPT ![p].at = "write", ![p].found = rows[call[p].obj.id]]
  /\ UNCHANGED <<rows, blob, arrays, loaded, code, auxVars>>

\* repository.save(): the INSERT of a row the SELECT did not find; when there
\* is one by now, the primary key fails it.
InsertRow(p) ==
  /\ At(p, "write") /\ call[p].found = 0
  /\ LET o == call[p].obj
     IN  \/ rows[o.id] = 0 /\ rows' = [rows EXCEPT ![o.id] = o.ver] /\ RowDone(p)
         \/ rows[o.id] # 0 /\ RowFailed(p) /\ UNCHANGED rows
  /\ UNCHANGED <<blob, arrays, code, auxVars>>

\* repository.save(): the UPDATE, when the task differs from what the SELECT
\* found; of a row that was deleted meanwhile it changes nothing.
UpdateRow(p) ==
  /\ At(p, "write") /\ call[p].found # 0
  /\ LET o == call[p].obj
     IN  \/ /\ rows[o.id] # 0 /\ call[p].found # o.ver
            /\ rows' = [rows EXCEPT ![o.id] = o.ver]
         \/ (rows[o.id] = 0 \/ call[p].found = o.ver) /\ UNCHANGED rows
  /\ RowDone(p)
  /\ UNCHANGED <<blob, arrays, code, auxVars>>

\* The document is there; it is given what this.tasks holds by now.
SaveBlob(p) ==
  /\ At(p, "blob")
  /\ blob' = Listed(call[p].on)
  /\ SaveOver(p)
  /\ UNCHANGED <<rows, arrays, code, auxVars>>

-----------------------------------------------------------------------------
(***************************************************************************)
(* The requests, from ensureStoreLoaded on.                                *)
(***************************************************************************)
Ready(p, r) ==
  \/ At(p, "idle") /\ r \in loaded
  \/ At(p, "act") /\ call[p].on = r

\* Fault: the new task is left to the save in the background.
CreateTaskLater(p, r) ==
  /\ Ready(p, r)
  /\ \E t \in Unused, k \in Kinds :
       /\ \A u \in Unused : t <= u
       /\ code' = [code EXCEPT ![t] = k]
       /\ LET o == [id |-> t, ver |-> 1]
          IN  /\ Edited(r, <<o>> \o Listed(r))
              /\ WithSave(p, [Saving("create", r, o) EXCEPT !.at = "answer"], r, Newest(r))
  /\ UNCHANGED <<rows, blob, loaded, auxVars>>

\* The code and the project are the user's; nothing refuses one of PMS, and no
\* later statement but the loads' looks at them.
CreateTask(p, r) ==
  /\ Ready(p, r)
  /\ \E t \in Unused, k \in Kinds :
       /\ \A u \in Unused : t <= u
       /\ code' = [code EXCEPT ![t] = k]
       /\ LET o == [id |-> t, ver |-> 1]
          IN  /\ Edited(r, <<o>> \o Listed(r))
              /\ WithSave(p, Saving("create", r, o), r, Newest(r))
  /\ UNCHANGED <<rows, blob, loaded, auxVars>>

UpdateTask(p, r) ==
  /\ Ready(p, r)
  /\ \E i \in DOMAIN Listed(r) :
       LET o == [Listed(r)[i] EXCEPT !.ver = @ + 1]
       IN  /\ o.ver \in Versions
           /\ Edited(r, [Listed(r) EXCEPT ![i] = o])
           /\ WithSave(p, Saving("update", r, o), r, Newest(r))
  /\ UNCHANGED <<rows, blob, loaded, code, auxVars>>

\* Fault: the place in the list is taken for the id of the row.
DeleteTaskAt(p, r) ==
  /\ Ready(p, r)
  /\ \E i \in DOMAIN Listed(r) :
       LET o == [Listed(r)[i] EXCEPT !.id = i - 1]
       IN  /\ Edited(r, Spliced(Listed(r), i))
           /\ gone' = gone \cup {Listed(r)[i].id}
           /\ WithSave(p, Deleting(r, o), r, Newest(r))
  /\ UNCHANGED <<rows, blob, loaded, code, created, failed, faults>>

\* Fault: the task stays in the list.
DeleteTaskRow(p, r) ==
  /\ Ready(p, r)
  /\ \E i \in DOMAIN Listed(r) :
       LET o == Listed(r)[i]
       IN  /\ gone' = gone \cup {o.id}
           /\ WithSave(p, Deleting(r, o), r, Newest(r))
  /\ UNCHANGED <<rows, blob, arrays, loaded, code, created, failed, faults>>

DeleteTask(p, r) ==
  /\ Ready(p, r)
  /\ \E i \in DOMAIN Listed(r) :
       LET o == Listed(r)[i]
       IN  /\ Edited(r, Spliced(Listed(r), i))
           /\ gone' = gone \cup {o.id}
           /\ WithSave(p, Deleting(r, o), r, Newest(r))
  /\ UNCHANGED <<rows, blob, loaded, code, created, failed, faults>>

\* getTaskComments and createTaskComment: the whole store is saved.
Chat(p, r) ==
  /\ Ready(p, r)
  /\ Listed(r) # << >>
  /\ WithSave(p, Over(p), r, Newest(r))
  /\ UNCHANGED <<rows, blob, arrays, loaded, code, auxVars>>

\* The request is refused: no such task, or no right to it.
Refuse(p) ==
  /\ At(p, "act")
  /\ Becomes(p, Over(p))
  /\ UNCHANGED <<rows, blob, arrays, loaded, code, auxVars>>

DeleteRow(p) ==
  /\ At(p, "delete")
  /\ rows' = [rows EXCEPT ![call[p].obj.id] = 0]
  /\ Becomes(p, Over(p))
  /\ UNCHANGED <<blob, arrays, loaded, code, auxVars>>

Answer(p) ==
  /\ At(p, "answer")
  /\ \/ call[p].job = "create" /\ created' = created \cup {call[p].obj.id}
     \/ call[p].job = "update" /\ UNCHANGED created
  /\ Becomes(p, Over(p))
  /\ UNCHANGED <<rows, blob, arrays, loaded, code, gone, failed, faults>>

-----------------------------------------------------------------------------
\* The database refuses or loses a statement; every catch goes on.
Fail(p) ==
  /\ faults < MaxFaults
  /\ faults' = faults + 1 /\ failed' = TRUE
  /\ \/ call[p].at \in Loads \ {"heal"} /\ Becomes(p, AfterLoad(p)) /\ UNCHANGED loaded
     \/ call[p].at \in {"select", "write"} /\ RowFailed(p)
     \/ At(p, "blob") /\ SaveOver(p)
     \/ At(p, "delete") /\ Becomes(p, Over(p)) /\ UNCHANGED loaded
  /\ UNCHANGED <<rows, blob, arrays, code, created, gone>>

\* The process stops, with everything that runs in it, and is started again.
Restart(r) ==
  /\ faults < MaxFaults
  /\ faults' = faults + 1
  /\ call' = [p \in Calls |-> IF p = r THEN Booting(r)
                              ELSE IF call[p].on = r THEN Over(p) ELSE call[p]]
  /\ arrays' = [arrays EXCEPT ![r] = << << >> >>]
  /\ loaded' = loaded \ {r}
  /\ UNCHANGED <<rows, blob, code, created, gone, failed>>

Begin(p, r) ==
  \/ StartLoad(p, r) \/ CreateTask(p, r) \/ UpdateTask(p, r)
  \/ DeleteTask(p, r) \/ Chat(p, r)

Step(p) ==
  \/ CountRows(p) \/ FetchRows(p) \/ HealRows(p) \/ FetchComments(p) \/ Seed(p)
  \/ Pick(p) \/ SelectRow(p) \/ InsertRow(p) \/ UpdateRow(p) \/ SaveBlob(p)
  \/ DeleteRow(p) \/ Answer(p) \/ Refuse(p)

Next ==
  \/ \E p \in Requests, r \in Replicas : Begin(p, r)
  \/ \E p \in Calls : Step(p) \/ Fail(p)
  \/ \E r \in Replicas : Restart(r)

Spec == Init /\ [][Next]_vars

-----------------------------------------------------------------------------
\* A process runs what its calls wait for, and the database answers: every call
\* goes on.  No one has to make a request, and nothing has to fail.
Fairness == \A p \in Calls : WF_vars(Step(p))

FairSpec == Spec /\ Fairness

-----------------------------------------------------------------------------
(***************************************************************************)
(* Properties                                                              *)
(***************************************************************************)

\* A task whose creation was answered has its row, whatever saves run beside
\* it and whoever restarts, until a request deletes it (as long as no
\* statement has failed: a failed one is answered like a successful one).
CreatedIsStored == ~failed => created \ gone \subseteq Stored

Quiet == \A p \in Calls : call[p].at \in {"idle", "done"}

\* When nothing is running, a process that has loaded its list once lists every
\* row but the tasks of PMS and those it was asked to delete, and every task it
\* lists has a row.  (A task of PMS is listed from its creation to the next
\* restart, and its row is kept but never listed again.)
QuietAgreement ==
  ~failed /\ Quiet => \A r \in loaded : Replicas = {r} /\ Newest(r) = 2 =>
    /\ (Stored \ gone) \ Pms \subseteq IdsOf(Listed(r))
    /\ IdsOf(Listed(r)) \subseteq Stored

\* However the walks of the list, the changes of it and the restarts fall, the
\* store comes to rest once no more requests are made.
ComesToRest == <>[]Quiet
=============================================================================
