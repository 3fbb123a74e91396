---------------------------- MODULE TaskService -----------------------------
(***************************************************************************)
(* What the application scheduler promises to its users                    *)
(* (libraries/scheduler/app_scheduler.h), without slots, clocks,           *)
(* interrupts or the stack: each callback has at most one scheduled        *)
(* execution; adding it again moves that execution, cancelling removes it; *)
(* only a scheduled task is taken up for execution; and the value a task   *)
(* returns reschedules or ends it unless somebody added or cancelled it    *)
(* meanwhile.                                                              *)
(***************************************************************************)
CONSTANTS Func, NULL, Times

VARIABLES
    scheduled,  \* the time each callback is scheduled at, or NULL
    current,    \* the callback taken up for execution, or NULL
    touched     \* current was added or cancelled since it was selected

svars == <<scheduled, current, touched>>

ServiceInit ==
    /\ scheduled = [f \in Func |-> NULL]
    /\ current = NULL
    /\ touched = FALSE

(* Only the time of f may change, to a value in T.                         *)
Reschedule(f, T) ==
    /\ scheduled'[f] \in T
    /\ scheduled' = [scheduled EXCEPT ![f] = scheduled'[f]]

AddTask(f) ==
    /\ Reschedule(f, Times)
    /\ touched' = (touched \/ f = current)
    /\ UNCHANGED current

CancelTask(f) ==
    /\ scheduled' = [scheduled EXCEPT ![f] = NULL]
    /\ touched' = (touched \/ f = current)
    /\ UNCHANGED current

(* A request may have arrived since the task was selected: touched.        *)
TakeUp(f) ==
    /\ current = NULL
    /\ scheduled[f] # NULL
    /\ current' = f
    /\ touched' \in BOOLEAN
    /\ UNCHANGED scheduled

Complete ==
    /\ current # NULL
    /\ IF touched
       THEN UNCHANGED scheduled
       ELSE Reschedule(current, Times \cup {NULL})
    /\ current' = NULL
    /\ touched' = FALSE

ServiceNext ==
    \/ \E f \in Func : AddTask(f) \/ CancelTask(f) \/ TakeUp(f)
    \/ Complete

ServiceSpec == ServiceInit /\ [][ServiceNext]_svars
=============================================================================
