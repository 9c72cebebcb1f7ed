-------------------------- MODULE PasscodeLockProofs --------------------------
(***************************************************************************)
(* Proofs about the screen lock, for every number of tabs, every timeout   *)
(* and any number of requests on their way.                                *)
(***************************************************************************)
EXTENDS PasscodeLock, TLAPS

\* TypeOK of a tab, with what makes it inductive: a tab that waits at the guard
\* is not locked, and what the server has done was asked for, in an open tab.
TabOK(w) ==
  /\ w \in TabStates
  /\ w.page = "guard" => w.status # "none" /\ ~w.locked
  /\ w.page = "in" => w.proven /\ ~w.locked
  /\ w.done => w.cmd # "none"
  /\ w.cmd # "none" => w.page # "closed"

\* What a tab in fresh can rely on: answers on their way are still true, and
\* with none on its way it knows whether there is a passcode, unless it has just
\* changed that itself.
Knows(w, yes) ==
  /\ w.status = "on" => yes
  /\ w.status = "off" => ~yes
  /\ w.done /\ w.cmd \in {"set", "reset"} => yes
  /\ w.done /\ w.cmd = "disable" => ~yes
  /\ w.page # "closed" /\ w.status = "none" /\ (~w.done \/ w.cmd \in {"unlock", "verify"}) =>
       (w.enabled <=> yes)

\* A tab that owes the passcode is not proven; and while there is one, the
\* passcode is set and no proof is stored that could admit it.
Inv ==
  /\ on \in BOOLEAN /\ mark \in Ages \cup {Never}
  /\ tab \in [Tabs -> TabStates] /\ fresh \subseteq Tabs /\ owed \subseteq Tabs
  /\ \A t \in Tabs : TabOK(tab[t])
  /\ \A t \in fresh : Knows(tab[t], on)
  /\ \A t \in owed : ~tab[t].proven
  /\ owed # {} => on /\ mark = Never

LEMMA ClosedOK == TabOK(Closed) /\ \A yes : Knows(Closed, yes)
BY TimeAssumption DEF TabOK, TabStates, Closed, Knows, Ages, Commands

LEMMA InitInv == Init => Inv
BY ClosedOK DEF Init, Inv, TabOK

\* A step of one tab and of the server on its behalf.
LEMMA OneTab ==
  ASSUME Inv, NEW t \in Tabs, NEW w, tab' = [tab EXCEPT ![t] = w], TabOK(w),
         on' \in BOOLEAN, mark' \in Ages \cup {Never},
         fresh' \subseteq fresh \cup {t}, owed' \subseteq owed \cup {t},
         t \in fresh' => Knows(w, on'), on' = on \/ fresh' \subseteq {t},
         t \in owed' => ~w.proven, owed' # {} => on' /\ mark' = Never
  PROVE  Inv'
<1> USE DEF Inv
<1>1. tab' \in [Tabs -> TabStates] /\ fresh' \subseteq Tabs /\ owed' \subseteq Tabs
  BY DEF TabOK
<1>2. tab'[t] = w /\ \A u \in Tabs \ {t} : tab'[u] = tab[u]
  OBVIOUS
<1>3. \A u \in Tabs : TabOK(tab'[u])
  BY <1>2
<1>4. \A u \in fresh' : Knows(tab'[u], on')
  BY <1>2
<1>5. \A u \in owed' : ~tab'[u].proven
  BY <1>2
<1> QED
  BY <1>1, <1>3, <1>4, <1>5

-----------------------------------------------------------------------------
\* The guard looks at a tab and touches its page and its status only.
LEMMA GuardedOK ==
  ASSUME NEW w \in TabStates, w.done => w.cmd # "none"
  PROVE  /\ TabOK(Guarded(w))
         /\ \A yes : Knows(w, yes) /\ w.page # "closed" => Knows(Guarded(w), yes)
         /\ Guarded(w).proven = w.proven
<1>1. CASE w.locked
  BY <1>1 DEF Guarded, TabOK, TabStates, Knows
<1>2. CASE ~w.locked /\ w.proven
  BY <1>2 DEF Guarded, TabOK, TabStates, Knows
<1>3. CASE ~w.locked /\ ~w.proven
  BY <1>3 DEF Guarded, TabOK, TabStates, Knows, Asking
<1> QED
  BY <1>1, <1>2, <1>3

LEMMA AskingOK ==
  ASSUME NEW w, TabOK(w)
  PROVE  /\ TabOK(Asking(w)) /\ Asking(w).proven = w.proven
         /\ \A yes : Knows(w, yes) => Knows(Asking(w), yes)
<1>1. CASE w.status = "none"
  BY <1>1 DEF Asking, TabOK, TabStates, Knows
<1>2. CASE w.status # "none"
  BY <1>2 DEF Asking, TabOK, TabStates, Knows
<1> QED
  BY <1>1, <1>2

LEMMA UserKeeps ==
  ASSUME Inv, NEW t \in Tabs, UserActs(t)
  PROVE  Inv'
<1> USE DEF Inv
<1>1. TabOK(tab[t]) /\ tab[t] \in TabStates /\ UNCHANGED <<on, mark, fresh, owed>>
  BY DEF UserActs, Load, Close, Touch, Navigate, OpenSettings, Command, TabOK
<1>2. ASSUME NEW w, Becomes(t, w), TabOK(w), t \in fresh => Knows(w, on), t \in owed => ~w.proven
      PROVE  Inv'
  BY <1>1, <1>2, OneTab DEF Becomes
<1>3. CASE Load(t)
  <2>1. Closed \in TabStates /\ ~Closed.done /\ ~Closed.proven
    BY ClosedOK DEF TabOK, Closed
  <2>2. Knows(Guarded(Closed), on)
    BY <2>1 DEF Knows, Guarded, Asking, Closed, TabStates
  <2> QED
    BY <1>2, <1>3, <2>1, <2>2, GuardedOK DEF Load
<1>4. CASE Close(t)
  <2>1. ~Closed.proven
    BY DEF Closed
  <2> QED
    BY <1>2, <1>4, <2>1, ClosedOK DEF Close
<1>5. CASE Touch(t)
  <2> DEFINE w == [tab[t] EXCEPT !.idle = 0]
  <2>1. TabOK(w) /\ (t \in fresh => Knows(w, on)) /\ w.proven = tab[t].proven
    BY <1>1, TimeAssumption DEF TabOK, Knows, TabStates, Ages
  <2> QED
    BY <1>2, <1>5, <2>1 DEF Touch
<1>6. CASE Navigate(t)
  <2> DEFINE w == [tab[t] EXCEPT !.idle = 0]
  <2>1. /\ w \in TabStates /\ (w.done => w.cmd # "none") /\ w.page # "closed"
        /\ (t \in fresh => Knows(w, on)) /\ w.proven = tab[t].proven
    BY <1>1, <1>6, TimeAssumption DEF TabOK, Knows, TabStates, Ages, Navigate
  <2>2. TabOK(Guarded(w)) /\ (t \in fresh => Knows(Guarded(w), on)) /\ Guarded(w).proven = w.proven
    BY <2>1, GuardedOK
  <2> QED
    BY <1>2, <1>6, <2>1, <2>2 DEF Navigate
<1>7. CASE OpenSettings(t)
  <2> DEFINE w == [tab[t] EXCEPT !.idle = 0]
  <2>1. TabOK(w) /\ (t \in fresh => Knows(w, on)) /\ w.proven = tab[t].proven
    BY <1>1, TimeAssumption DEF TabOK, Knows, TabStates, Ages
  <2> HIDE DEF w
  <2>2. TabOK(Asking(w)) /\ (t \in fresh => Knows(Asking(w), on)) /\ Asking(w).proven = w.proven
    BY <2>1, AskingOK
  <2>3. Becomes(t, Asking(w))
    BY <1>7 DEF OpenSettings, w
  <2> QED
    BY <1>2, <2>1, <2>2, <2>3
<1>8. ASSUME NEW k \in Commands, Command(t, k) PROVE Inv'
  <2> DEFINE w == [tab[t] EXCEPT !.cmd = k, !.idle = 0]
  <2>1. tab[t].cmd = "none" /\ ~tab[t].done /\ k # "none" /\ tab[t].page # "closed"
    BY <1>1, <1>8 DEF Command, Offered, TabOK, Commands
  <2>2. w \in TabStates
    <3>1. 0 \in Ages
      BY TimeAssumption DEF Ages
    <3> QED
      BY <1>1, <3>1 DEF TabStates
  <2>3. /\ w.status = tab[t].status /\ w.page = tab[t].page /\ w.enabled = tab[t].enabled
        /\ w.done = tab[t].done /\ w.proven = tab[t].proven /\ w.locked = tab[t].locked
    BY <1>1 DEF TabStates
  <2>4. Becomes(t, w)
    BY <1>8 DEF Command
  <2> HIDE DEF w
  <2>5. TabOK(w) /\ (t \in fresh => Knows(w, on))
    BY <1>1, <2>1, <2>2, <2>3 DEF TabOK, Knows
  <2> QED
    BY <1>2, <2>3, <2>4, <2>5
<1> QED
  BY <1>3, <1>4, <1>5, <1>6, <1>7, <1>8 DEF UserActs

-----------------------------------------------------------------------------
LEMMA ServeStatusKeeps ==
  ASSUME Inv, NEW t \in Tabs, ServeStatus(t) PROVE Inv'
<1> USE DEF Inv
<1>1. TabOK(tab[t]) /\ tab[t] \in TabStates
  BY DEF TabOK
<1>2. PICK a \in {"on", "off"} : /\ (a = "on" <=> on) /\ Becomes(t, [tab[t] EXCEPT !.status = a])
  BY DEF ServeStatus
<1> DEFINE w == [tab[t] EXCEPT !.status = a]
<1>3. TabOK(w) /\ w.proven = tab[t].proven
  BY <1>1, <1>2 DEF TabOK, TabStates, ServeStatus
<1>4. t \in fresh' => Knows(w, on)
  BY <1>1, <1>2 DEF ServeStatus, Knows, TabStates, TabOK
<1>5. /\ UNCHANGED <<on, mark, owed>> /\ fresh' \subseteq fresh \cup {t}
      /\ tab' = [tab EXCEPT ![t] = w]
  BY <1>2 DEF ServeStatus, Becomes
<1> QED
  BY <1>3, <1>4, <1>5, OneTab

\* What is left of a status answer: a tab that is told there is no passcode is
\* proven, one that is told there is one is admitted by a proof only.
LEMMA ToldOK ==
  ASSUME NEW w, TabOK(w), NEW yes \in BOOLEAN
  PROVE  LET v == Told(w, yes)
         IN  /\ v \in TabStates /\ (v.done => v.cmd # "none") /\ (v.cmd # "none" => v.page # "closed")
             /\ v.page = "guard" => ~v.locked
             /\ v.page = "in" => v.proven /\ ~v.locked
             /\ Knows(w, yes) => Knows(v, yes)
             /\ yes => v.proven = w.proven
<1> DEFINE v == Told(w, yes)
<1>1. /\ v \in TabStates /\ v.page = w.page /\ v.done = w.done /\ v.cmd = w.cmd
      /\ v.status = "none" /\ v.enabled = yes
  BY DEF Told, TabOK, TabStates
<1>2. (v.locked => w.locked) /\ (w.proven => v.proven) /\ (yes => v.proven = w.proven)
  BY DEF Told, TabOK, TabStates
<1> HIDE DEF v
<1>3. Knows(w, yes) => Knows(v, yes)
  BY <1>1 DEF Knows
<1>4. /\ v.done => v.cmd # "none"
      /\ v.cmd # "none" => v.page # "closed"
      /\ v.page = "guard" => ~v.locked
      /\ v.page = "in" => v.proven /\ ~v.locked
  BY <1>1, <1>2 DEF TabOK
<1> QED
  BY <1>1, <1>2, <1>3, <1>4 DEF v

LEMMA AdmittedOK ==
  ASSUME NEW w \in TabStates, w.page = "guard", ~w.locked, w.done => w.cmd # "none",
         TimeAssumption
  PROVE  /\ TabOK(Admitted(w))
         /\ \A yes : Knows(w, yes) => Knows(Admitted(w), yes)
         /\ Admitted(w).proven => w.proven \/ (w.enabled /\ mark # Never)
<1>1. CASE ~w.enabled \/ w.proven
  BY <1>1, GuardedOK DEF Admitted
<1>2. CASE w.enabled /\ ~w.proven /\ Within
  <2> DEFINE v == [w EXCEPT !.proven = TRUE, !.idle = 0, !.page = "in"]
  <2>1. Admitted(w) = v /\ mark # Never
    BY <1>2 DEF Admitted, Within
  <2>2. TabOK(v)
    <3>1. 0 \in Ages
      BY DEF TimeAssumption, Ages
    <3>2. v \in TabStates
      BY <3>1 DEF TabStates
    <3>3. v.page = "in" /\ v.proven /\ v.locked = w.locked /\ v.done = w.done /\ v.cmd = w.cmd
      BY DEF TabStates
    <3> QED
      BY <3>2, <3>3 DEF TabOK
  <2>3. /\ v.status = w.status /\ v.enabled = w.enabled /\ v.done = w.done /\ v.cmd = w.cmd
    BY DEF TabStates
  <2> HIDE DEF v
  <2>4. \A yes : Knows(w, yes) => Knows(v, yes)
    BY <2>3 DEF Knows
  <2> QED
    BY <1>2, <2>1, <2>2, <2>4
<1>3. CASE w.enabled /\ ~w.proven /\ ~Within
  <2> DEFINE v == [w EXCEPT !.locked = TRUE, !.page = "lock"]
  <2>1. Admitted(w) = v
    BY <1>3 DEF Admitted
  <2>2. TabOK(v) /\ v.proven = w.proven
    BY <1>3 DEF TabOK, TabStates
  <2>3. /\ v.status = w.status /\ v.enabled = w.enabled /\ v.done = w.done /\ v.cmd = w.cmd
    BY DEF TabStates
  <2> HIDE DEF v
  <2>4. \A yes : Knows(w, yes) => Knows(v, yes)
    BY <2>3 DEF Knows
  <2> QED
    BY <1>3, <2>1, <2>2, <2>4
<1> QED
  BY <1>1, <1>2, <1>3

\* The answer, or the failure, of a status request.
LEMMA StatusKeeps ==
  ASSUME Inv, NEW t \in Tabs, StatusArrives(t) \/ StatusFails(t) PROVE Inv'
<1> USE DEF Inv
<1>1. TabOK(tab[t]) /\ tab[t] \in TabStates
  BY DEF TabOK
<1>2. PICK yes \in BOOLEAN :
        /\ StatusSays(t, yes) /\ UNCHANGED <<on, mark>> /\ fresh' \subseteq fresh
        /\ \/ t \in fresh' /\ owed' = owed /\ (tab[t].status = "on" <=> yes) /\ tab[t].status \in {"on", "off"}
           \/ t \notin fresh' /\ owed' = owed \ {t}
  BY DEF StatusArrives, StatusFails
<1> DEFINE v == Told(tab[t], yes)
           w == IF v.page = "guard" THEN Admitted(v) ELSE v
<1>3. t \in fresh' => (yes <=> on) /\ Knows(tab[t], on)
  BY <1>2 DEF Knows
<1>4. /\ v \in TabStates /\ (v.done => v.cmd # "none") /\ (v.page = "guard" => ~v.locked)
      /\ (v.cmd # "none" => v.page # "closed")
      /\ (v.page = "in" => v.proven /\ ~v.locked)
      /\ (yes => v.proven = tab[t].proven)
  BY <1>1, ToldOK
<1>5. t \in fresh' => Knows(v, on)
  BY <1>1, <1>3, ToldOK
<1> HIDE DEF v
<1>6. TabOK(w) /\ (t \in fresh' => Knows(w, on))
  BY <1>4, <1>5, AdmittedOK, TimeAssumption DEF TabOK
<1>7. t \in owed' => ~w.proven
  <2>1. ASSUME t \in owed' PROVE yes /\ mark = Never /\ ~v.proven
    BY <1>2, <1>3, <1>4, <2>1
  <2> QED
    BY <1>4, <2>1, AdmittedOK, TimeAssumption
<1>8. tab' = [tab EXCEPT ![t] = w] /\ owed' \subseteq owed
  BY <1>2 DEF StatusSays, Becomes, v
<1> QED
  BY <1>2, <1>6, <1>7, <1>8, OneTab

-----------------------------------------------------------------------------
LEMMA ServeKeeps ==
  ASSUME Inv, NEW t \in Tabs, Serve(t) PROVE Inv'
<1> USE DEF Inv
<1>1. TabOK(tab[t]) /\ tab[t] \in TabStates /\ tab[t].cmd # "none" /\ ~tab[t].done
  BY DEF TabOK, Serve
<1> DEFINE w == [tab[t] EXCEPT !.done = TRUE]
<1>2. TabOK(w) /\ w.proven = tab[t].proven /\ w.cmd = tab[t].cmd /\ w.done
      /\ w.status = tab[t].status /\ w.page = tab[t].page /\ w.enabled = tab[t].enabled
  BY <1>1 DEF TabOK, TabStates
<1>3. tab' = [tab EXCEPT ![t] = w] /\ mark' = mark
  BY DEF Serve, Becomes
<1> HIDE DEF w
<1>4. CASE tab[t].cmd \in {"unlock", "verify"} /\ UNCHANGED <<on, fresh, owed>>
  <2>1. t \in fresh => Knows(w, on)
    BY <1>1, <1>2, <1>4 DEF Knows
  <2> QED
    BY <1>2, <1>3, <1>4, <2>1, OneTab
<1>5. ASSUME NEW yes \in BOOLEAN, Switch(t, yes),
             (yes /\ tab[t].cmd \in {"set", "reset"}) \/ (~yes /\ tab[t].cmd = "disable")
      PROVE  Inv'
  <2>1. on' = yes /\ (on' = on \/ fresh' \subseteq {t}) /\ fresh' \subseteq fresh
    BY <1>5 DEF Switch
  <2>2. t \in fresh' => Knows(w, on')
    BY <1>1, <1>2, <1>5, <2>1 DEF Knows, Switch
  <2>3. owed' \subseteq owed /\ (owed' # {} => on' /\ mark' = Never)
    BY <1>3, <1>5, <2>1 DEF Switch
  <2> QED
    BY <1>2, <1>3, <2>1, <2>2, <2>3, OneTab
<1> QED
  BY <1>4, <1>5 DEF Serve

LEMMA DeniedKeeps ==
  ASSUME Inv, NEW t \in Tabs, Denied(t) PROVE Inv'
<1> USE DEF Inv
<1>1. TabOK(tab[t]) /\ tab[t] \in TabStates
  BY DEF TabOK
<1> DEFINE w == [tab[t] EXCEPT !.cmd = "none", !.done = FALSE]
<1>2. w \in TabStates
  BY <1>1 DEF TabStates
<1>3. /\ w.status = tab[t].status /\ w.page = tab[t].page /\ w.enabled = tab[t].enabled
      /\ ~w.done /\ w.proven = tab[t].proven /\ w.locked = tab[t].locked /\ w.cmd = "none"
  BY <1>1 DEF TabStates
<1>4. tab' = [tab EXCEPT ![t] = w] /\ UNCHANGED <<on, mark, owed>>
      /\ fresh' \subseteq fresh /\ (t \in fresh' => ~tab[t].done)
  BY DEF Denied, Becomes
<1> HIDE DEF w
<1>5. TabOK(w) /\ (t \in fresh' => Knows(w, on))
  BY <1>1, <1>2, <1>3, <1>4 DEF TabOK, Knows
<1> QED
  BY <1>3, <1>4, <1>5, OneTab

\* A passcode that was entered, or set, is a proof for every tab.
LEMMA ProvenKeeps ==
  ASSUME Inv, NEW t \in Tabs, Proven(t) PROVE Inv'
<1> USE DEF Inv
<1>1. TabOK(tab[t]) /\ tab[t] \in TabStates /\ tab[t].done /\ tab[t].cmd \notin {"none", "disable"}
  BY DEF TabOK, Proven
<1>2. 0 \in Ages /\ Armed(tab[t]) \in BOOLEAN
  BY <1>1, TimeAssumption DEF Ages, Armed, TabStates
<1> DEFINE w == [tab[t] EXCEPT !.cmd = "none", !.done = FALSE, !.idle = 0,
                              !.enabled = Armed(tab[t]), !.proven = TRUE, !.locked = FALSE]
           g == IF tab[t].cmd \in {"unlock", "reset"} THEN Guarded(w) ELSE w
<1>3. w \in TabStates
  BY <1>1, <1>2 DEF TabStates
<1>4. /\ w.status = tab[t].status /\ w.page = tab[t].page /\ w.enabled = Armed(tab[t])
      /\ ~w.done /\ w.proven /\ ~w.locked
  BY <1>1 DEF TabStates
<1>5. tab' = [tab EXCEPT ![t] = g] /\ UNCHANGED <<on, fresh>> /\ mark' \in Ages /\ owed' = {}
  BY <1>2 DEF Proven, Becomes
<1> HIDE DEF w
<1>6. TabOK(w)
  BY <1>1, <1>3, <1>4 DEF TabOK
<1>7. t \in fresh => Knows(w, on)
  <2>1. SUFFICES ASSUME t \in fresh PROVE Knows(w, on)
    OBVIOUS
  <2>2. Knows(tab[t], on)
    BY <2>1
  <2>3. CASE tab[t].cmd \in {"set", "reset"}
    <3>1. on /\ w.enabled
      BY <1>1, <1>4, <2>2, <2>3 DEF Knows, Armed
    <3> QED
      BY <1>4, <2>2, <3>1 DEF Knows
  <2>4. CASE tab[t].cmd \in {"unlock", "verify"}
    <3>1. w.enabled <=> tab[t].enabled
      BY <1>4, <2>4 DEF Armed
    <3> QED
      BY <1>4, <2>2, <2>4, <3>1 DEF Knows
  <2> QED
    BY <1>1, <2>3, <2>4 DEF TabStates, Commands
<1>8. CASE tab[t].cmd \notin {"unlock", "reset"}
  BY <1>5, <1>6, <1>7, <1>8, OneTab
<1>9. CASE tab[t].cmd \in {"unlock", "reset"}
  <2>1. TabOK(g)
    BY <1>3, <1>4, <1>9, GuardedOK
  <2>2. t \in fresh => Knows(g, on)
    BY <1>1, <1>3, <1>4, <1>7, <1>9, GuardedOK DEF TabOK
  <2> QED
    BY <1>5, <2>1, <2>2, OneTab
<1> QED
  BY <1>8, <1>9

LEMMA DisabledKeeps ==
  ASSUME Inv, NEW t \in Tabs, Disabled(t) PROVE Inv'
<1> USE DEF Inv
<1>1. TabOK(tab[t]) /\ tab[t] \in TabStates /\ tab[t].done /\ tab[t].cmd = "disable"
  BY DEF TabOK, Disabled
<1> DEFINE w == [tab[t] EXCEPT !.cmd = "none", !.done = FALSE, !.enabled = FALSE, !.locked = FALSE]
<1>2. w \in TabStates
  BY <1>1 DEF TabStates
<1>3. /\ w.status = tab[t].status /\ w.page = tab[t].page /\ ~w.enabled
      /\ ~w.done /\ w.proven = tab[t].proven /\ ~w.locked
  BY <1>1 DEF TabStates
<1>4. tab' = [tab EXCEPT ![t] = w] /\ UNCHANGED <<on, fresh, owed>> /\ mark' = Never
  BY DEF Disabled, Becomes, ClearVerified
<1> HIDE DEF w
<1>5. TabOK(w) /\ (t \in fresh' => Knows(w, on))
  BY <1>1, <1>2, <1>3, <1>4 DEF TabOK, Knows
<1> QED
  BY <1>3, <1>4, <1>5, OneTab

\* A lock takes the proofs of all tabs away.
LEMMA CheckIdleKeeps ==
  ASSUME Inv, NEW t \in Tabs, CheckIdle(t) PROVE Inv'
<1> USE DEF Inv
<1>1. TabOK(tab[t]) /\ tab[t] \in TabStates
  BY DEF TabOK
<1> DEFINE w == [tab[t] EXCEPT !.proven = FALSE, !.locked = TRUE, !.page = "lock"]
<1>2. w \in TabStates
  BY <1>1 DEF TabStates
<1>3. /\ w.status = tab[t].status /\ w.page = "lock" /\ w.enabled = tab[t].enabled
      /\ w.done = tab[t].done /\ w.cmd = tab[t].cmd /\ ~w.proven
  BY <1>1 DEF TabStates
<1>4. tab' = [tab EXCEPT ![t] = w] /\ UNCHANGED <<on, fresh>> /\ mark' = Never
      /\ tab[t].page # "closed"
  BY DEF CheckIdle, Becomes, ClearVerified
<1>5. owed' \subseteq owed \cup {t} /\ (owed' # {} => on)
  BY DEF CheckIdle
<1> HIDE DEF w
<1>6. TabOK(w) /\ (t \in fresh' => Knows(w, on))
  BY <1>1, <1>2, <1>3, <1>4 DEF TabOK, Knows
<1> QED
  BY <1>3, <1>4, <1>5, <1>6, OneTab

LEMMA TickKeeps ==
  ASSUME Inv, Tick PROVE Inv'
<1> USE DEF Inv
<1>1. \A a \in Ages : Older(a) \in Ages
  BY TimeAssumption DEF Older, Ages
<1>2. mark' \in Ages \cup {Never} /\ (mark = Never => mark' = Never) /\ UNCHANGED <<on, fresh, owed>>
  BY <1>1 DEF Tick
<1>3. ASSUME NEW t \in Tabs
      PROVE  /\ tab'[t] \in TabStates /\ TabOK(tab'[t]) /\ tab'[t].proven = tab[t].proven
             /\ Knows(tab[t], on) => Knows(tab'[t], on)
  <2>1. CASE tab[t].page = "closed"
    BY <2>1 DEF Tick
  <2>2. CASE tab[t].page # "closed"
    <3> DEFINE w == [tab[t] EXCEPT !.idle = Older(@)]
    <3>1. tab'[t] = w
      BY <2>2 DEF Tick
    <3>2. w \in TabStates
      BY <1>1 DEF TabStates
    <3>3. /\ w.status = tab[t].status /\ w.page = tab[t].page /\ w.enabled = tab[t].enabled
          /\ w.done = tab[t].done /\ w.cmd = tab[t].cmd /\ w.proven = tab[t].proven
          /\ w.locked = tab[t].locked
      BY DEF TabStates
    <3> HIDE DEF w
    <3> QED
      BY <3>1, <3>2, <3>3 DEF TabOK, Knows
  <2> QED
    BY <2>1, <2>2
<1>4. tab' \in [Tabs -> TabStates]
  BY <1>3 DEF Tick
<1> QED
  BY <1>2, <1>3, <1>4

LEMMA StepInv == Inv /\ [Next]_vars => Inv'
<1> SUFFICES ASSUME Inv, [Next]_vars PROVE Inv'
  OBVIOUS
<1>1. ASSUME NEW t \in Tabs, UserActs(t) PROVE Inv'
  BY <1>1, UserKeeps
<1>2. ASSUME NEW t \in Tabs, Status(t) PROVE Inv'
  BY <1>2, ServeStatusKeeps, StatusKeeps DEF Status
<1>3. ASSUME NEW t \in Tabs, Answers(t) PROVE Inv'
  BY <1>3, ServeKeeps, DeniedKeeps, ProvenKeeps, DisabledKeeps DEF Answers
<1>4. ASSUME NEW t \in Tabs, CheckIdle(t) PROVE Inv'
  BY <1>4, CheckIdleKeeps
<1>5. CASE Tick
  BY <1>5, TickKeeps
<1>6. CASE UNCHANGED vars
  BY <1>6 DEF vars, Inv
<1> QED
  BY <1>1, <1>2, <1>3, <1>4, <1>5, <1>6 DEF Next

\* Whatever arrives late, a tab that shows pages is proven and not locked.
THEOREM LockTyped == Spec => []TypeOK
<1>1. Inv => TypeOK
  BY DEF Inv, TypeOK, TabOK
<1> QED
  BY <1>1, InitInv, StepInv, PTL DEF Spec

\* A tab whose last news of the server is not overtaken has its timer armed if
\* and only if there is a passcode.
THEOREM LockStaysArmed == Spec => []LockIsArmed
<1>1. Inv => LockIsArmed
  <2>1. SUFFICES ASSUME Inv, NEW t \in fresh, tab[t].page = "in", tab[t].status = "none",
                        tab[t].cmd = "none"
                 PROVE  tab[t].enabled = on
    BY DEF LockIsArmed
  <2>2. Knows(tab[t], on) /\ TabOK(tab[t]) /\ on \in BOOLEAN /\ tab[t].enabled \in BOOLEAN
    BY <2>1 DEF Inv, TabStates
  <2>3. tab[t].enabled <=> on
    BY <2>1, <2>2 DEF Knows, TabOK
  <2> QED
    BY <2>2, <2>3
<1> QED
  BY <1>1, InitInv, StepInv, PTL DEF Spec

\* A tab locked for idleness shows nothing before the passcode is entered: it is
\* not proven, and no proof is stored that a reload could use.
THEOREM LockHoldsUntilEntered == Spec => []LockHolds
<1>1. Inv => LockHolds
  BY DEF Inv, LockHolds, TabOK
<1> QED
  BY <1>1, InitInv, StepInv, PTL DEF Spec
=============================================================================
