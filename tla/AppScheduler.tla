---------------------------- MODULE AppScheduler ----------------------------
(***************************************************************************)
(* The application scheduler, libraries/scheduler/app_scheduler.c.         *)
(*                                                                         *)
(* A fixed table of tasks is multiplexed on the single periodic callback   *)
(* the stack offers (lib_system->setPeriodicCb).  periodic_work() runs in  *)
(* the stack's task context; App_Scheduler_addTask_execTime() and          *)
(* App_Scheduler_cancelTask() may be called from there and from any        *)
(* interrupt, so they interleave with periodic_work() everywhere but       *)
(* inside its critical sections.  A critical section is one action here,   *)
(* and every unlocked read of shared state is an action of its own.        *)
(*                                                                         *)
(* One unit of time stands for the smallest delay a task can ask for.  The *)
(* high precision clock counts units modulo HpWrap, the coarse clock       *)
(* counts periods of CoarseTick units modulo CoarseWrap.                   *)
(***************************************************************************)
EXTENDS Integers, FiniteSets

CONSTANTS
    Func,           \* the task callbacks of the application
    NULL,           \* the NULL pointer
    NTasks,         \* APP_SCHEDULER_ALL_TASKS
    HpWrap,         \* modulus of the high precision timestamps
    CoarseTick,     \* units of time in one coarse tick
    CoarseWrap,     \* modulus of the coarse timestamps
    MaxTime,        \* m_max_time_ms, from lib_time->getMaxHpDelay()
    SchedExec,      \* EXECUTION_TIME_NEEDED_FOR_SCHEDULING_US
    MaxExec,        \* MAX_EXECUTION_TIME_ALLOWED_BY_STACK_US
    ExecTimes,      \* execution times the application asks for
    Delays,         \* delays the application asks for
    MaxLate,        \* bound: lateness of the stack in calling periodic_work
    MaxAge          \* bound: age of an unserved high precision timestamp

ASSUME NullAssumption ==
    /\ NULL \notin Func /\ NULL \notin Int
    /\ NULL \notin [left : Int, exec : Nat]
    /\ NULL \notin [is_hp : BOOLEAN, t : Nat]
ASSUME SizeAssumption == NTasks \in Nat \ {0} /\ MaxLate \in Nat /\ MaxAge \in Nat
ASSUME ClockAssumption ==
    /\ HpWrap \in Nat \ {0} /\ CoarseTick \in Nat \ {0} /\ CoarseWrap \in Nat \ {0}
    /\ (CoarseTick * CoarseWrap) % HpWrap = 0
ASSUME DelayAssumption == MaxTime \in Nat /\ Delays \subseteq Nat
ASSUME ExecAssumption ==
    SchedExec \in Nat /\ MaxExec \in Nat /\ ExecTimes \subseteq Nat

VARIABLES
    m_tasks,            \* the table of tasks
    m_next_task_p,      \* slot of the selected task, or NULL
    m_force_reschedule, \* the periodic work is called only to reselect
    m_initialized,      \* App_Scheduler_init was called
    pc,                 \* where periodic_work is
    is_hp,              \* kind of timestamp read at the top of get_delay_from_now_us
    armed,              \* the periodic callback of the stack, or NULL
    granted,            \* execution time the stack granted to this periodic_work
    now                 \* the clock

table == <<m_tasks, m_next_task_p, m_force_reschedule>>
vars == <<m_tasks, m_next_task_p, m_force_reschedule, m_initialized, pc,
          is_hp, armed, granted, now>>

Slots == 1 .. NTasks
Timestamps == [is_hp : BOOLEAN, t : Nat]
Tasks == [func : Func \cup {NULL}, next_ts : Timestamps, exec_time_us : Nat,
          updated : BOOLEAN, removed : BOOLEAN]
PCs == {"idle", "check", "read", "test", "perform", "running", "select", "exit"}

Active(i) == m_tasks[i].func # NULL
Pending(i) == Active(i) /\ ~m_tasks[i].removed

-----------------------------------------------------------------------------
(* The time library of the stack, and the circular comparison of util.c.   *)

ClockWrap == CoarseTick * CoarseWrap
getTimestampHp == now % HpWrap
getTimestampCoarse == (now \div CoarseTick) % CoarseWrap
addUsToHpTimestamp(ts, d) == (ts + d) % HpWrap
getTimeDiffUs(from, to) == (to - from) % HpWrap
isHpTimestampBefore(a, b) == 2 * ((a - b) % HpWrap) >= HpWrap
Util_isLtUint32(a, b) == 2 * ((a - b) % CoarseWrap) >= CoarseWrap

(* A delay below the range of the high precision clock is precise; a       *)
(* longer one is rounded up to a whole number of coarse ticks.             *)
get_timestamp(ms) ==
    IF ms < MaxTime
    THEN [is_hp |-> TRUE, t |-> addUsToHpTimestamp(getTimestampHp, ms)]
    ELSE [is_hp |-> FALSE,
          t |-> (getTimestampCoarse + (ms + CoarseTick - 1) \div CoarseTick)
                    % CoarseWrap]

get_delay_from_now_us(ts) ==
    IF ts.is_hp
    THEN IF isHpTimestampBefore(ts.t, getTimestampHp)
         THEN 0
         ELSE getTimeDiffUs(getTimestampHp, ts.t)
    ELSE IF Util_isLtUint32(ts.t, getTimestampCoarse)
         THEN 0
         ELSE CoarseTick * ((ts.t - getTimestampCoarse) % CoarseWrap)

is_timestamp_before(a, b) ==
    CASE a.is_hp /\ b.is_hp     -> isHpTimestampBefore(a.t, b.t)
      [] ~a.is_hp /\ ~b.is_hp   -> Util_isLtUint32(a.t, b.t)
      [] OTHER                  -> get_delay_from_now_us(a) < get_delay_from_now_us(b)

-----------------------------------------------------------------------------
(* lib_system->setPeriodicCb: the callback is called after delay units, in *)
(* a slot of the stack that is at least exec long.  A call replaces the    *)
(* previous setting, and one made while periodic_work runs wins over the   *)
(* value periodic_work returns.                                            *)
setPeriodicCb(delay, exec) == armed' = [left |-> delay, exec |-> exec]

(* The scan of the table for the task to execute next.  best[i] is the     *)
(* candidate after slot i; timestamps of two kinds are compared by their   *)
(* distance to now, which is not an order, so the scan is kept as it is.   *)
IsScan(best) ==
    /\ best[0] = NULL
    /\ \A i \in Slots :
          best[i] = IF /\ Pending(i)
                       /\ \/ best[i - 1] = NULL
                          \/ is_timestamp_before(m_tasks[i].next_ts,
                                                 m_tasks[best[i - 1]].next_ts)
                    THEN i
                    ELSE best[i - 1]

(* get_next_task_locked() returns next, and releases the removed tasks.    *)
(* A slot is only ever reused by overwriting it, so the fields of a free   *)
(* slot, which the code leaves behind, are forgotten here.                 *)
get_next_task_locked(next) ==
    \E best \in [0 .. NTasks -> Slots \cup {NULL}] : IsScan(best) /\ next = best[NTasks]

FreeSlot == [func |-> NULL, next_ts |-> [is_hp |-> FALSE, t |-> 0],
             exec_time_us |-> 0, updated |-> FALSE, removed |-> FALSE]

\* Mutant: removed tasks are skipped but never released.
cleaned_never == m_tasks

cleaned == [i \in Slots |-> IF Pending(i) THEN m_tasks[i] ELSE FreeSlot]

\* Mutant: the time the task needs is not reserved.
schedule_task_without_exec(task) ==
    setPeriodicCb(get_delay_from_now_us(task.next_ts), SchedExec)

(* A task out of the range of the periodic callback is approached by a     *)
(* wakeup at the end of the range, with no time to execute it.             *)
schedule_task(task) ==
    LET limit == get_timestamp(MaxTime)
    IN  IF is_timestamp_before(task.next_ts, limit)
        THEN setPeriodicCb(get_delay_from_now_us(task.next_ts),
                           task.exec_time_us + SchedExec)
        ELSE setPeriodicCb(get_delay_from_now_us(limit), SchedExec)

-----------------------------------------------------------------------------
Init ==
    /\ m_tasks = [i \in Slots |-> FreeSlot]
    /\ m_next_task_p = NULL
    /\ m_force_reschedule = FALSE
    /\ m_initialized = FALSE
    /\ pc = "idle"
    /\ is_hp = FALSE
    /\ armed = NULL
    /\ granted = 0
    /\ now = 0

(* The static data above is zeroed by the C runtime; a second call of      *)
(* App_Scheduler_init() returns at once.                                   *)
App_Scheduler_init ==
    /\ ~m_initialized
    /\ m_initialized' = TRUE
    /\ m_next_task_p' = NULL
    /\ m_force_reschedule' = FALSE
    /\ m_tasks' = [i \in Slots |-> [m_tasks[i] EXCEPT !.func = NULL]]
    /\ UNCHANGED <<pc, is_hp, armed, granted, now>>

-----------------------------------------------------------------------------
(* Requests, from the application or from an interrupt.                    *)

First(S) == CHOOSE i \in S : \A j \in S : i <= j
SlotsOf(cb) == {i \in Slots : m_tasks[i].func = cb}

\* Mutant: the first free slot is taken before the table is searched.
add_task_to_first_free(new) ==
    IF SlotsOf(NULL) # {}
    THEN m_tasks' = [m_tasks EXCEPT ![First(SlotsOf(NULL))] = new]
    ELSE m_tasks' = [m_tasks EXCEPT ![First(SlotsOf(new.func))] =
                        [@ EXCEPT !.next_ts = new.next_ts,
                                  !.updated = TRUE,
                                  !.removed = FALSE]]

(* The slot add_task_to_table_locked() writes, and what it writes there:   *)
(* the first slot of the task if it has one, else the first free slot.     *)
add_task_to_table_locked(new) ==
    IF SlotsOf(new.func) # {}
    THEN m_tasks' = [m_tasks EXCEPT ![First(SlotsOf(new.func))] =
                        [@ EXCEPT !.next_ts = new.next_ts,
                                  !.updated = TRUE,
                                  !.removed = FALSE]]
    ELSE m_tasks' = [m_tasks EXCEPT ![First(SlotsOf(NULL))] = new]

\* Mutant: an earlier task does not replace the selected one.
RescheduleNeeded_not_if_earlier(new) ==
    m_next_task_p = NULL \/ m_tasks'[m_next_task_p].func = new.func

RescheduleNeeded(new) ==
    \/ m_next_task_p = NULL
    \/ m_tasks'[m_next_task_p].func = new.func
    \/ is_timestamp_before(new.next_ts, m_tasks'[m_next_task_p].next_ts)

\* Mutant: the flag is raised but the periodic work is not called.
RequestReschedule_without_wakeup ==
    m_force_reschedule' = TRUE /\ UNCHANGED armed

RequestReschedule ==
    /\ m_force_reschedule' = TRUE
    /\ setPeriodicCb(0, SchedExec)

App_Scheduler_addTask_execTime(cb, delay_ms, exec_time_us) ==
    LET new == [func |-> cb, next_ts |-> get_timestamp(delay_ms),
                exec_time_us |-> exec_time_us,
                updated |-> FALSE, removed |-> FALSE]
    IN  /\ m_initialized
        /\ exec_time_us + SchedExec <= MaxExec
        /\ SlotsOf(cb) \cup SlotsOf(NULL) # {}
        /\ add_task_to_table_locked(new)
        /\ IF RescheduleNeeded(new)
           THEN RequestReschedule
           ELSE UNCHANGED <<m_force_reschedule, armed>>
        /\ UNCHANGED <<m_next_task_p, m_initialized, pc, is_hp, granted, now>>

remove_task_from_table_locked(cb) ==
    m_tasks' = [m_tasks EXCEPT ![First(SlotsOf(cb))] =
                    [@ EXCEPT !.updated = TRUE, !.removed = TRUE]]

App_Scheduler_cancelTask(cb) ==
    /\ m_initialized
    /\ SlotsOf(cb) # {}
    /\ remove_task_from_table_locked(cb)
    /\ RequestReschedule
    /\ UNCHANGED <<m_next_task_p, m_initialized, pc, is_hp, granted, now>>

-----------------------------------------------------------------------------
(* periodic_work(), from the call by the stack to its return.              *)

(* The stack calls back when the delay has elapsed.                        *)
Fire ==
    /\ pc = "idle" /\ armed # NULL
    /\ armed.left <= 0
    /\ pc' = "check"
    /\ granted' = armed.exec
    /\ armed' = NULL
    /\ UNCHANGED <<table, m_initialized, is_hp, now>>

(* Unlocked read of m_force_reschedule, then of the kind of timestamp of   *)
(* the selected task.                                                      *)
CheckForce ==
    /\ pc = "check"
    /\ pc' = IF m_force_reschedule \/ m_next_task_p = NULL THEN "select" ELSE "read"
    /\ UNCHANGED <<table, m_initialized, is_hp, armed, granted, now>>

ReadKind ==
    /\ pc = "read"
    /\ is_hp' = m_tasks[m_next_task_p].next_ts.is_hp
    /\ pc' = "test"
    /\ UNCHANGED <<table, m_initialized, armed, granted, now>>

\* Mutant: the wakeup is trusted, the time of the task is not tested again.
TestReady_trusting_wakeup ==
    /\ pc = "test"
    /\ pc' = IF ~m_tasks[m_next_task_p].removed THEN "perform" ELSE "select"
    /\ is_hp' = FALSE
    /\ UNCHANGED <<table, m_initialized, armed, granted, now>>

(* The value of the timestamp is read after its kind: an update by an      *)
(* interrupt in between is seen half.                                      *)
TestReady ==
    /\ pc = "test"
    /\ LET task == m_tasks[m_next_task_p]
           seen == [is_hp |-> is_hp, t |-> task.next_ts.t]
       IN  pc' = IF get_delay_from_now_us(seen) = 0 /\ ~task.removed
                 THEN "perform"
                 ELSE "select"
    /\ is_hp' = FALSE
    /\ UNCHANGED <<table, m_initialized, armed, granted, now>>

(* perform_task() calls the callback, unless the slot holds none.          *)
StartTask ==
    /\ pc = "perform"
    /\ pc' = IF Active(m_next_task_p) THEN "running" ELSE "select"
    /\ UNCHANGED <<table, m_initialized, is_hp, armed, granted, now>>

\* Mutant: an update made during the execution is not noticed.
Untouched_despite_update(task) == ~task.removed

(* The callback returns; its return value counts only if neither the       *)
(* callback nor an interrupt touched the task since it was selected.       *)
Untouched(task) == ~task.updated /\ ~task.removed

FinishTask(task) ==
    /\ pc = "running"
    /\ IF Untouched(m_tasks[m_next_task_p])
       THEN m_tasks' = [m_tasks EXCEPT ![m_next_task_p] = task]
       ELSE UNCHANGED m_tasks
    /\ pc' = "select"
    /\ UNCHANGED <<m_next_task_p, m_force_reschedule, m_initialized, is_hp,
                   armed, granted, now>>

perform_task_stop ==
    FinishTask([m_tasks[m_next_task_p] EXCEPT !.func = NULL])

perform_task_again(next) ==
    FinishTask([m_tasks[m_next_task_p] EXCEPT !.next_ts = get_timestamp(next)])

(* The critical section that ends periodic_work() selects the next task,   *)
(* arms the callback for it and clears its mark.                           *)
Reselect ==
    \E next \in Slots \cup {NULL} :
        /\ get_next_task_locked(next)
        /\ m_next_task_p' = next
        /\ \/ next = NULL /\ m_tasks' = cleaned /\ UNCHANGED armed
           \/ /\ next # NULL
              /\ m_tasks' = [cleaned EXCEPT ![next].updated = FALSE]
              /\ schedule_task(m_tasks[next])

\* Mutant: the request for a reselection is not acknowledged.
SelectNext_keeping_force ==
    /\ pc = "select" /\ pc' = "exit"
    /\ Reselect
    /\ UNCHANGED <<m_force_reschedule, m_initialized, is_hp, granted, now>>

SelectNext ==
    /\ pc = "select" /\ pc' = "exit"
    /\ Reselect
    /\ m_force_reschedule' = FALSE
    /\ UNCHANGED <<m_initialized, is_hp, granted, now>>

(* APP_LIB_SYSTEM_STOP_PERIODIC is returned: the callback stays armed only *)
(* if setPeriodicCb was called since periodic_work was entered.            *)
Return ==
    /\ pc = "exit"
    /\ pc' = "idle"
    /\ granted' = 0
    /\ UNCHANGED <<table, m_initialized, is_hp, armed, now>>

-----------------------------------------------------------------------------
(* Time passes.  The stack is never later than MaxLate in calling          *)
(* periodic_work, and no task is left unserved so long that its timestamp  *)
(* leaves the range in which the clock can be compared.                    *)
Age(ts) ==
    CASE ts.is_hp /\ isHpTimestampBefore(ts.t, getTimestampHp)
            -> getTimeDiffUs(ts.t, getTimestampHp)
      [] ~ts.is_hp /\ Util_isLtUint32(ts.t, getTimestampCoarse)
            -> CoarseTick * ((getTimestampCoarse - ts.t) % CoarseWrap)
      [] OTHER -> 0

Timely ==
    /\ armed # NULL => armed.left > -MaxLate
    /\ \A i \in Slots : Pending(i) => Age(m_tasks[i].next_ts) < MaxAge

Tick ==
    /\ Timely
    /\ now' = (now + 1) % ClockWrap
    /\ armed' = IF armed = NULL THEN NULL ELSE [armed EXCEPT !.left = @ - 1]
    /\ UNCHANGED <<table, m_initialized, pc, is_hp, granted>>

Request ==
    \/ \E cb \in Func, d \in Delays, e \in ExecTimes :
          App_Scheduler_addTask_execTime(cb, d, e)
    \/ \E cb \in Func : App_Scheduler_cancelTask(cb)

periodic_work ==
    \/ Fire
    \/ CheckForce
    \/ ReadKind
    \/ TestReady
    \/ StartTask
    \/ perform_task_stop
    \/ \E next \in Delays : perform_task_again(next)
    \/ SelectNext
    \/ Return

Next == App_Scheduler_init \/ Request \/ periodic_work \/ Tick

Spec == Init /\ [][Next]_vars

(* The stack calls the armed periodic callback, a task callback returns,   *)
(* and the clock runs.                                                     *)
Fairness == WF_vars(periodic_work) /\ WF_vars(Tick)

-----------------------------------------------------------------------------
TypeOK ==
    /\ m_tasks \in [Slots -> Tasks]
    /\ m_next_task_p \in Slots \cup {NULL}
    /\ m_force_reschedule \in BOOLEAN /\ m_initialized \in BOOLEAN
    /\ pc \in PCs
    /\ is_hp \in BOOLEAN
    /\ armed \in [left : Int, exec : Nat] \cup {NULL}
    /\ granted \in Nat
    /\ now \in Nat

(* "Same cb can only be added once" (app_scheduler.h:97): whatever the     *)
(* order of additions, cancellations, executions and clean-ups, a callback *)
(* never has two slots, so a cancellation always reaches the task.         *)
OneSlotPerTask ==
    \A i, j \in Slots : Active(i) /\ m_tasks[i].func = m_tasks[j].func => i = j

(* No wakeup is lost: between two runs of periodic_work, a request that    *)
(* asked for a reselection has the callback armed at once, and without     *)
(* such a request any task in the table has a live selected task and an    *)
(* armed callback.                                                         *)
NoLostWakeup ==
    pc \in {"idle", "exit"} =>
        /\ m_force_reschedule => armed # NULL /\ armed.left <= 0
        /\ ~m_force_reschedule =>
              \A i \in Slots : Active(i) => /\ m_next_task_p # NULL
                                           /\ Pending(m_next_task_p)
                                           /\ armed # NULL

(* The callback is armed early enough for every pending task, the selected *)
(* one or not, however its timestamp compares: at most the coarse clock's  *)
(* granularity after the time at which the task is due.                    *)
WakeupInTime ==
    pc \in {"idle", "exit"} =>
        \A i \in Slots : Pending(i) =>
            /\ armed # NULL
            /\ armed.left < get_delay_from_now_us(m_tasks[i].next_ts) + CoarseTick

(* A task that was not updated or cancelled since it was selected is       *)
(* executed only once it is due; only a concurrent update, half seen by    *)
(* the unlocked read of the timestamp, can execute it ahead of time.       *)
NeverEarly ==
    pc = "perform" /\ Untouched(m_tasks[m_next_task_p]) =>
        get_delay_from_now_us(m_tasks[m_next_task_p].next_ts) = 0

(* While periodic_work holds the pointer to the selected task, no request  *)
(* frees the slot or gives it to another task.                             *)
SlotPinned ==
    [][ (pc \in {"read", "test", "perform", "running"} /\ pc' # "select")
        => (Active(m_next_task_p)
            /\ m_tasks'[m_next_task_p].func = m_tasks[m_next_task_p].func) ]_vars

(* A task is executed in a slot of the stack that was reserved for at      *)
(* least the execution time it asked for plus the scheduler's own.         *)
ReservedTime ==
    pc = "running" =>
        granted >= m_tasks[m_next_task_p].exec_time_us + SchedExec

(* "the maximum delay before being scheduled cannot be higher than the     *)
(* value returned by lib_time->getMaxHpDelay" (wms_system.h): the range    *)
(* in which the stack compares the periodic callback's time.               *)
ArmedInRange == armed # NULL => armed.left <= MaxTime

(* The inductive invariant of the proofs.  Outside the critical section    *)
(* that reselects, the pointer to the selected task never dangles; nothing *)
(* is armed or running before the scheduler is initialised.                *)
PointerLive ==
    /\ pc # "select" /\ m_next_task_p # NULL => Active(m_next_task_p)
    /\ pc \in {"read", "test", "perform", "running"} => m_next_task_p # NULL
    /\ ~m_initialized => pc = "idle" /\ armed = NULL

IndInv == TypeOK /\ OneSlotPerTask /\ PointerLive /\ NoLostWakeup

(* Every task in the table is executed, unless it is cancelled first.      *)
PendingTaskRuns ==
    \A f \in Func :
        (\E i \in Slots : m_tasks[i].func = f /\ Pending(i))
            ~> \/ ~\E i \in Slots : m_tasks[i].func = f /\ Pending(i)
               \/ pc = "running" /\ m_tasks[m_next_task_p].func = f

(* A cancelled task leaves its slot: the table does not fill up with tasks *)
(* waiting for a clean-up that never comes.                                *)
CancelledTaskReleased ==
    \A i \in Slots : (Active(i) /\ m_tasks[i].removed) ~> ~(Active(i) /\ m_tasks[i].removed)

-----------------------------------------------------------------------------
(* The table as the users of the scheduler see it.                         *)
Scheduled ==
    [f \in Func |-> IF \E i \in Slots : m_tasks[i].func = f /\ Pending(i)
                    THEN m_tasks[CHOOSE i \in Slots : m_tasks[i].func = f].next_ts
                    ELSE NULL]

Current == IF pc \in {"perform", "running"} THEN m_tasks[m_next_task_p].func ELSE NULL

Touched == pc \in {"perform", "running"} /\ ~Untouched(m_tasks[m_next_task_p])

Service == INSTANCE TaskService WITH
    Times <- Timestamps, scheduled <- Scheduled, current <- Current, touched <- Touched

(* The scheduler implements the service of app_scheduler.h: the flags      *)
(* updated and removed, the deferred clean-up and the unlocked reads never *)
(* lose an addition or a cancellation, never let the return value of a     *)
(* task override one, and never take up a task that is not scheduled.      *)
ImplementsService == Service!ServiceSpec
=============================================================================
