------------------------- MODULE MCAppSchedulerLive -------------------------
(***************************************************************************)
(* Liveness of AppScheduler.  An interrupt that keeps adding the selected  *)
(* task keeps the scheduler reselecting and nothing runs; the requests     *)
(* made from interrupts are therefore bounded by Budget.  Tasks still ask  *)
(* to be executed again without bound.                                     *)
(***************************************************************************)
EXTENDS AppScheduler

CONSTANT Budget

VARIABLE budget

LiveInit == Init /\ budget = Budget

LiveNext ==
    \/ budget > 0 /\ budget' = budget - 1 /\ Request
    \/ UNCHANGED budget /\ (App_Scheduler_init \/ periodic_work \/ Tick)

LiveSpec == LiveInit /\ [][LiveNext]_<<vars, budget>> /\ Fairness
=============================================================================
