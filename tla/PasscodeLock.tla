----------------------------- MODULE PasscodeLock -----------------------------
(***************************************************************************)
(* The screen lock of a browser:                                           *)
(*   web/src/app/core/local-passcode/local-passcode.service.ts             *)
(*   web/src/app/core/local-passcode/local-passcode.guard.ts               *)
(*   web/src/app/resources/1-account/3-lock/component.ts                   *)
(*                                                                         *)
(* Whether a passcode is set is the server's knowledge (module Passcodes). *)
(* Each tab has its own copy of it, of whether it is locked and of whether *)
(* it has been proven since it was loaded; the time of the last proof is   *)
(* in local storage, shared by the tabs.  Every request takes a while:     *)
(* other tabs, the clock and the user go on, and an answer may be old by   *)
(* the time it arrives.                                                    *)
(*                                                                         *)
(* A tab shows the pages behind the guard: /verify/member and              *)
(* /attendance/scan, which app.routes.ts lets anyone see, are left out.    *)
(*                                                                         *)
(* The user stays signed in and the idle timeout stays the same.  Time is  *)
(* counted up to the timeout only.  What a page had sent when it was left  *)
(* either has reached the server or never does.                            *)
(***************************************************************************)
EXTENDS Naturals, FiniteSets

CONSTANTS
  Tabs,    \* tabs of the browser
  Timeout, \* idleTimeoutMinutes, in units of time
  MaxBusy, \* bound: requests of the browser that are on their way at a time
  Never    \* no proof is stored

ASSUME TimeAssumption == Timeout \in Nat \ {0} /\ Never \notin Nat /\ MaxBusy \in Nat

VARIABLES
  on,     \* a passcode is set, as the server knows
  mark,   \* age of the stored proof, local_passcode_last_verified, or Never
  tab,    \* page and signals of each tab, and its requests
  fresh,  \* history: what the server last told the tab is still so
  owed    \* history: tabs locked for idleness that owe the passcode since:
          \* none was entered, none was told wrong by an answer that failed or
          \* was overtaken, the passcode was not disabled

vars == <<on, mark, tab, fresh, owed>>

Ages     == 0 .. Timeout
Commands == {"unlock", "reset", "verify", "set", "disable"}

\* page: guard while LocalPasscodeGuard waits; idle: time since the last
\* activity; status: the answer of _refreshInFlight; cmd: a command to the
\* server, and done: whether the server has carried it out.
TabStates ==
  [page : {"closed", "guard", "in", "lock"}, locked : BOOLEAN, enabled : BOOLEAN,
   proven : BOOLEAN, idle : Ages, status : {"none", "sent", "on", "off"},
   cmd : Commands \cup {"none"}, done : BOOLEAN]

Closed ==
  [page |-> "closed", locked |-> FALSE, enabled |-> FALSE, proven |-> FALSE,
   idle |-> 0, status |-> "none", cmd |-> "none", done |-> FALSE]

\* Besides types: a guard waits for an answer, and a tab that shows pages is
\* proven and not locked.
TypeOK ==
  /\ on \in BOOLEAN /\ mark \in Ages \cup {Never}
  /\ tab \in [Tabs -> TabStates]
  /\ fresh \subseteq Tabs /\ owed \subseteq Tabs
  /\ \A t \in Tabs :
       /\ tab[t].page = "guard" => tab[t].status # "none"
       /\ tab[t].page = "in" => tab[t].proven /\ ~tab[t].locked

Init ==
  /\ on \in BOOLEAN /\ mark = Never
  /\ tab = [t \in Tabs |-> Closed]
  /\ fresh = {} /\ owed = {}

-----------------------------------------------------------------------------
Becomes(t, state) == tab' = [tab EXCEPT ![t] = state]
Asking(w) == [w EXCEPT !.status = IF @ = "none" THEN "sent" ELSE @]

Bounded ==
  MaxBusy >= Cardinality({t \in Tabs : tab'[t].status # "none"})
               + Cardinality({t \in Tabs : tab'[t].cmd # "none"})

\* Fault: locked is believed before the server has been asked.
GuardedEarly(w) == [w EXCEPT !.page = IF w.locked THEN "lock" ELSE "in"]

\* The guard: locked, proven, or the server is to be asked.
Guarded(w) ==
  IF w.locked THEN [w EXCEPT !.page = "lock"]
  ELSE IF w.proven THEN [w EXCEPT !.page = "in"]
  ELSE Asking([w EXCEPT !.page = "guard"])

(***************************************************************************)
(* The user.                                                               *)
(***************************************************************************)
\* A page behind LocalPasscodeGuard is loaded.
Load(t) ==
  /\ Becomes(t, Guarded(Closed))
  /\ UNCHANGED <<on, mark, fresh, owed>>

Close(t) ==
  /\ tab[t].page # "closed"
  /\ Becomes(t, Closed)
  /\ UNCHANGED <<on, mark, fresh, owed>>

Touch(t) ==
  /\ tab[t].page # "closed"
  /\ Becomes(t, [tab[t] EXCEPT !.idle = 0])
  /\ UNCHANGED <<on, mark, fresh, owed>>

\* From page to page; from the lock screen only when verify need not ask.
Navigate(t) ==
  /\ tab[t].page = "in" \/ (tab[t].page = "lock" /\ ~tab[t].enabled)
  /\ Becomes(t, Guarded([tab[t] EXCEPT !.idle = 0]))
  /\ UNCHANGED <<on, mark, fresh, owed>>

\* The passcode settings are opened, which calls refreshStatus(false).
OpenSettings(t) ==
  /\ tab[t].page = "in"
  /\ Becomes(t, Asking([tab[t] EXCEPT !.idle = 0]))
  /\ UNCHANGED <<on, mark, fresh, owed>>

Offered(w, k) ==
  \/ w.page = "lock" /\ w.enabled /\ k \in {"unlock", "reset"}
  \/ w.page = "in" /\ w.enabled /\ k \in {"verify", "disable"}
  \/ w.page = "in" /\ k = "set"

Command(t, k) ==
  /\ tab[t].cmd = "none" /\ Offered(tab[t], k)
  /\ Becomes(t, [tab[t] EXCEPT !.cmd = k, !.idle = 0])
  /\ UNCHANGED <<on, mark, fresh, owed>>

-----------------------------------------------------------------------------
(***************************************************************************)
(* The server.                                                             *)
(***************************************************************************)
\* getStatus
ServeStatus(t) ==
  /\ tab[t].status = "sent"
  /\ Becomes(t, [tab[t] EXCEPT !.status = IF on THEN "on" ELSE "off"])
  /\ fresh' = IF tab[t].done THEN fresh ELSE fresh \cup {t}
  /\ UNCHANGED <<on, mark, owed>>

\* on is set for a command of tab t: what other tabs know may be old by now,
\* and what is on its way to t itself.
Switch(t, yes) ==
  /\ on' = yes
  /\ \/ on = yes /\ UNCHANGED fresh
     \/ on # yes /\ fresh' = {u \in fresh : u = t /\ tab[t].status \in {"none", "sent"}}
  /\ \/ yes /\ UNCHANGED owed
     \/ ~yes /\ owed' = {}

\* setPasscode, verify with the right passcode or none set, disable.
Serve(t) ==
  /\ tab[t].cmd # "none" /\ ~tab[t].done
  /\ \/ tab[t].cmd \in {"unlock", "verify"} /\ UNCHANGED <<on, fresh, owed>>
     \/ tab[t].cmd \in {"set", "reset"} /\ Switch(t, TRUE)
     \/ tab[t].cmd = "disable" /\ Switch(t, FALSE)
  /\ Becomes(t, [tab[t] EXCEPT !.done = TRUE])
  /\ UNCHANGED mark

\* A wrong passcode, a lockout or an error; the answer may be what is lost.
Denied(t) ==
  /\ tab[t].cmd # "none"
  /\ Becomes(t, [tab[t] EXCEPT !.cmd = "none", !.done = FALSE])
  /\ fresh' = IF tab[t].done THEN fresh \ {t} ELSE fresh
  /\ UNCHANGED <<on, mark, owed>>

-----------------------------------------------------------------------------
(***************************************************************************)
(* What arrives at a tab, and its timer.                                   *)
(***************************************************************************)
Within == mark # Never /\ mark < Timeout

\* _doRefreshStatus
Told(w, yes) ==
  IF yes THEN [w EXCEPT !.enabled = TRUE, !.status = "none"]
  ELSE [w EXCEPT !.enabled = FALSE, !.status = "none", !.proven = TRUE, !.locked = FALSE]

\* What is left of refreshStatus(true) and the guard.
Admitted(w) ==
  IF ~w.enabled \/ w.proven THEN Guarded(w)
  ELSE IF Within THEN [w EXCEPT !.proven = TRUE, !.idle = 0, !.page = "in"]
  ELSE [w EXCEPT !.locked = TRUE, !.page = "lock"]

StatusSays(t, yes) ==
  LET w == Told(tab[t], yes)
  IN  Becomes(t, IF w.page = "guard" THEN Admitted(w) ELSE w)

StatusArrives(t) ==
  /\ \/ tab[t].status = "on" /\ StatusSays(t, TRUE)
     \/ tab[t].status = "off" /\ StatusSays(t, FALSE)
  /\ owed' = IF t \in fresh THEN owed ELSE owed \ {t}
  /\ UNCHANGED <<on, mark, fresh>>

\* An error is taken for "no passcode is set".
StatusFails(t) ==
  /\ tab[t].status # "none"
  /\ StatusSays(t, FALSE)
  /\ fresh' = fresh \ {t} /\ owed' = owed \ {t}
  /\ UNCHANGED <<on, mark>>

\* Fault: the new passcode is left to the next status to be known.
ArmedLater(w) == w.enabled

\* setPasscode sets enabled, verify leaves it.
Armed(w) == w.enabled \/ w.cmd \in {"set", "reset"}

\* setPasscode and verify succeed: the proof is stored.  The lock screen goes
\* on to the page it was put in front of, the settings stay where they are.
Proven(t) ==
  /\ tab[t].done /\ tab[t].cmd # "disable"
  /\ LET w == [tab[t] EXCEPT !.cmd = "none", !.done = FALSE, !.idle = 0,
                             !.enabled = Armed(tab[t]), !.proven = TRUE, !.locked = FALSE]
     IN  Becomes(t, IF tab[t].cmd \in {"unlock", "reset"} THEN Guarded(w) ELSE w)
  /\ mark' = 0 /\ owed' = {}
  /\ UNCHANGED <<on, fresh>>

\* Fault: the stored proof survives the lock.
KeepVerified == mark' = mark

ClearVerified == mark' = Never

Disabled(t) ==
  /\ tab[t].done /\ tab[t].cmd = "disable"
  /\ Becomes(t, [tab[t] EXCEPT !.cmd = "none", !.done = FALSE, !.enabled = FALSE, !.locked = FALSE])
  /\ ClearVerified
  /\ UNCHANGED <<on, fresh, owed>>

\* Fault: idleness is counted from the stored proof.
IdleSinceProof(t) == mark = Timeout

Idle(t) == tab[t].idle = Timeout

\* _checkIdle, every ten seconds and when the tab is looked at.
CheckIdle(t) ==
  /\ tab[t].page # "closed" /\ ~tab[t].locked /\ tab[t].enabled
  /\ Idle(t)
  /\ Becomes(t, [tab[t] EXCEPT !.proven = FALSE, !.locked = TRUE, !.page = "lock"])
  /\ ClearVerified
  /\ owed' = IF on THEN owed \cup {t} ELSE owed
  /\ UNCHANGED <<on, fresh>>

\* Time is of no interest beyond the timeout.
Older(age) == IF age = Timeout THEN age ELSE age + 1

Tick ==
  /\ tab' = [t \in Tabs |-> IF tab[t].page = "closed" THEN tab[t]
                            ELSE [tab[t] EXCEPT !.idle = Older(@)]]
  /\ mark' = IF mark = Never THEN mark ELSE Older(mark)
  /\ UNCHANGED <<on, fresh, owed>>

UserActs(t) ==
  \/ Load(t) \/ Close(t) \/ Touch(t) \/ Navigate(t) \/ OpenSettings(t)
  \/ \E k \in Commands : Command(t, k)

Status(t) == ServeStatus(t) \/ StatusArrives(t) \/ StatusFails(t)
Answers(t) == Serve(t) \/ Denied(t) \/ Proven(t) \/ Disabled(t)

Next ==
  \/ \E t \in Tabs :
       (UserActs(t) /\ Bounded) \/ Status(t) \/ Answers(t) \/ CheckIdle(t)
  \/ Tick

Spec == Init /\ [][Next]_vars

-----------------------------------------------------------------------------
\* Time passes, a tab's timer runs, and a request is answered or fails.  The
\* user need not do anything.
Fairness ==
  /\ WF_vars(Tick)
  /\ \A t \in Tabs : WF_vars(Status(t)) /\ WF_vars(Answers(t)) /\ WF_vars(CheckIdle(t))

FairSpec == Spec /\ Fairness

-----------------------------------------------------------------------------
(***************************************************************************)
(* Properties                                                              *)
(***************************************************************************)

\* A tab that shows pages, and whose last news of the server is not overtaken,
\* knows whether a passcode is set: its idle timer is armed if there is one.
LockIsArmed ==
  \A t \in fresh : tab[t].page = "in" /\ tab[t].status = "none" /\ tab[t].cmd = "none" =>
    tab[t].enabled = on

\* A tab that was locked for idleness shows no page, reloaded or not, before
\* the passcode has been entered in one of the tabs, as long as the server has
\* one and the tab was not told otherwise.
LockHolds == \A t \in owed : tab[t].page # "in"

\* A tab in which the user does nothing any more gets locked, whatever the
\* other tabs do, if it knows of a passcode.
IdleTabLocks ==
  \A t \in Tabs :
    []<><<UserActs(t)>>_vars \/ (tab[t].page = "in" /\ tab[t].enabled ~> tab[t].locked \/ ~tab[t].enabled)
=============================================================================
