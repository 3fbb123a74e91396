--------------------------- MODULE MCAppScheduler ---------------------------
(***************************************************************************)
(* AppScheduler on small instances for TLC.                                *)
(*                                                                         *)
(* The scheduler only ever uses differences of timestamps, so two states   *)
(* that differ by a shift of the clock, and of every timestamp with it, by *)
(* a whole number of coarse ticks have the same behaviours.  ClockView     *)
(* identifies them.                                                        *)
(***************************************************************************)
EXTENDS AppScheduler, TLC

TaskSymmetry == Permutations(Func)

FromNow(i) ==
    LET ts == m_tasks[i].next_ts
    IN  IF m_tasks[i] = FreeSlot THEN 0
        ELSE IF ts.is_hp THEN (ts.t - getTimestampHp) % HpWrap
        ELSE (ts.t - getTimestampCoarse) % CoarseWrap

ClockView ==
    <<[i \in Slots |-> [m_tasks[i] EXCEPT !.next_ts.t = FromNow(i)]],
      m_next_task_p, m_force_reschedule, m_initialized, pc, is_hp, armed,
      granted, now % CoarseTick>>
=============================================================================
