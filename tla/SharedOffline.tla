---------------------------- MODULE SharedOffline ----------------------------
(***************************************************************************)
(* libraries/shared_offline/shared_offline.c: the modules of an            *)
(* application agree on when the stack may leave the network.  It does     *)
(* once all of them are ready, and comes back at the earliest of their     *)
(* deadlines or when one of them asks.                                     *)
(*                                                                         *)
(* All times are counted down, in units of the polling interval.  Leaving  *)
(* the network takes the stack any time; the library polls it, and puts    *)
(* off a wakeup asked for meanwhile.  The stack comes back by itself after *)
(* TIME_TO_SLEEP.  Scheduled tasks run when they are due.                  *)
(***************************************************************************)
EXTENDS Integers

CONSTANTS
    N,              \* SHARED_OFFLINE_MAX_MODULES
    Delays,         \* delays asked by the modules
    DelayWrap,      \* 2^32 milliseconds
    TIME_TO_SLEEP,
    INF,            \* SHARED_OFFLINE_INFINITE_DELAY
    NULL,
    Usage           \* ways of using the library, see below

(* "offline_in_callback": a module asks to go offline from its online      *)
(* callback.  "register_entering": a module registers while the stack is   *)
(* leaving the network.  "online_then_offline": a module goes offline, or  *)
(* leaves, before the wakeup asked by another one has been run.            *)
(* "sleep_refused": the stack refuses to leave the network.  "no_room":    *)
(* the scheduler may have no slot for a task that has none.                *)
Usages == {"offline_in_callback", "register_entering", "online_then_offline",
           "sleep_refused", "no_room"}

ASSUME OfflineAssumption ==
    /\ N \in Nat \ {0} /\ Delays \subseteq Nat
    /\ DelayWrap \in Nat \ {0} /\ TIME_TO_SLEEP \in Nat \ {0}
    /\ INF \notin Int /\ NULL \notin Int
    /\ Usage \subseteq Usages

Modules == 0 .. N - 1

VARIABLES
    in_use, ready_to_enter_offline,     \* sets of modules
    online_deadline,                    \* time left before each deadline, -1 once missed
    m_offline_state, m_delayed_wakeup,
    wakeup_task, poll_task,             \* time left before the task, or NULL
    sleep,                              \* lib_sleep->getSleepState()
    sleep_left,                         \* of TIME_TO_SLEEP, NULL when not sleeping
    waking,                             \* the stack was told to wake up
    next,                               \* the next module to call in on_stack_online_cb
    asked                               \* a module waits for the stack to be online

vars == <<in_use, ready_to_enter_offline, online_deadline, m_offline_state,
          m_delayed_wakeup, wakeup_task, poll_task, sleep, sleep_left, waking, next, asked>>
modules == <<in_use, ready_to_enter_offline, online_deadline>>
tasks == <<wakeup_task, poll_task>>
stack == <<sleep, sleep_left, waking>>

Timer == Nat \cup {NULL}

-----------------------------------------------------------------------------
Init ==
    /\ in_use = {} /\ ready_to_enter_offline = {}
    /\ online_deadline = [m \in Modules |-> 0]
    /\ m_offline_state = "ONLINE" /\ m_delayed_wakeup = FALSE
    /\ wakeup_task = NULL /\ poll_task = NULL
    /\ sleep = "STOPPED" /\ sleep_left = NULL /\ waking = FALSE
    /\ next = NULL /\ asked = FALSE

AppRuns == next = NULL

-----------------------------------------------------------------------------
\* Mutant: one module that is ready is enough.
is_ready_to_sleep_any(used, ready) == used = {} \/ used \cap ready # {}

is_ready_to_sleep_locked(used, ready) == used \subseteq ready

(* The earliest deadline; the infinite ones count only if all are.         *)
Finite(used, deadline) == {m \in used : deadline[m] # INF}

(* delay_s * 1000 in 32 bits.  It wraps, and an infinite deadline minus    *)
(* the time since the boot leaves anything.                                *)
Milliseconds(delay_s) == IF delay_s = INF THEN 0 .. DelayWrap - 1 ELSE {delay_s % DelayWrap}

\* Mutant: the wakeup task is scheduled for the latest deadline.
WakeupDelays_latest(used, deadline) ==
    IF Finite(used, deadline) = {} THEN Milliseconds(INF)
    ELSE UNION {Milliseconds(IF deadline[m] < 0 THEN 0 ELSE deadline[m]) :
                  m \in {m \in Finite(used, deadline) :
                          \A n \in Finite(used, deadline) : deadline[m] >= deadline[n]}}

(* The delays after which the wakeup task may be scheduled.                *)
WakeupDelays(used, deadline) ==
    IF Finite(used, deadline) = {} THEN Milliseconds(INF)
    ELSE UNION {Milliseconds(IF deadline[m] < 0 THEN 0 ELSE deadline[m]) :
                  m \in {m \in Finite(used, deadline) :
                          \A n \in Finite(used, deadline) : deadline[m] <= deadline[n]}}

(* App_Scheduler_addTask_execTime(): what becomes of a task.               *)
Scheduled(task, delay) ==
    {delay} \cup {t \in {task} : t = NULL /\ "no_room" \in Usage}

(* Without a wakeup task the stack is not told to leave.  Otherwise it is, *)
(* if it has not left, and may refuse; it may always do so when it is      *)
(* already on its way.                                                     *)
enter_offline_mode_locked ==
    /\ \E delay \in WakeupDelays(in_use', online_deadline') :
            wakeup_task' \in Scheduled(wakeup_task, delay)
    /\ \/ /\ wakeup_task' # NULL /\ sleep # "STARTED"
          /\ sleep' = "PENDING"
          /\ m_offline_state' = "ENTERING_OFFLINE"
          /\ poll_task' \in Scheduled(poll_task, 1)
          /\ UNCHANGED <<sleep_left, waking>>
       \/ /\ wakeup_task' = NULL \/ sleep # "STOPPED" \/ "sleep_refused" \in Usage
          /\ UNCHANGED <<m_offline_state, poll_task, stack>>

evaluate_sleep ==
    IF is_ready_to_sleep_locked(in_use', ready_to_enter_offline')
    THEN enter_offline_mode_locked
    ELSE UNCHANGED <<tasks, m_offline_state, stack>>

-----------------------------------------------------------------------------
Shared_Offline_register(id) ==
    /\ AppRuns
    /\ m_offline_state = "ENTERING_OFFLINE" => "register_entering" \in Usage
    /\ id \notin in_use /\ \A m \in Modules : m < id => m \in in_use
    /\ in_use' = in_use \cup {id}
    /\ ready_to_enter_offline' = ready_to_enter_offline \ {id}
    /\ wakeup_task' \in IF sleep = "STARTED" THEN Scheduled(wakeup_task, 0) ELSE {wakeup_task}
    /\ UNCHANGED <<online_deadline, m_offline_state, m_delayed_wakeup, poll_task,
                   stack, next, asked>>

(* A request that is still to be run may be overwritten.                   *)
MayPostpone == asked => "online_then_offline" \in Usage

\* Mutant: the others are not looked at.
Shared_Offline_unregister_only(id) ==
    /\ AppRuns /\ MayPostpone
    /\ id \in in_use
    /\ in_use' = in_use \ {id}
    /\ UNCHANGED <<ready_to_enter_offline, online_deadline, m_offline_state,
                   m_delayed_wakeup, tasks, stack, next, asked>>

Shared_Offline_unregister(id) ==
    /\ AppRuns /\ MayPostpone
    /\ id \in in_use
    /\ in_use' = in_use \ {id}
    /\ UNCHANGED <<ready_to_enter_offline, online_deadline>>
    /\ evaluate_sleep
    /\ UNCHANGED <<m_delayed_wakeup, next, asked>>

(* From the application, or from the online callback of the module.        *)
Shared_Offline_enter_offline_state(id, delay_s) ==
    /\ ~AppRuns => id = next - 1 /\ "offline_in_callback" \in Usage
    /\ MayPostpone
    /\ id \in in_use
    /\ online_deadline' = [online_deadline EXCEPT ![id] = delay_s]
    /\ ready_to_enter_offline' = ready_to_enter_offline \cup {id}
    /\ UNCHANGED in_use
    /\ evaluate_sleep
    /\ UNCHANGED <<m_delayed_wakeup, next, asked>>

Shared_Offline_enter_online_state(id) ==
    /\ AppRuns
    /\ id \in in_use
    /\ wakeup_task' \in Scheduled(wakeup_task, 0)
    /\ asked' = (asked \/ sleep # "STOPPED")
    /\ UNCHANGED <<modules, m_offline_state, m_delayed_wakeup, poll_task, stack, next>>

-----------------------------------------------------------------------------
(* lib_sleep->wakeupStack(), refused by a stack that runs.                 *)
wakeupStack == waking' = (waking \/ sleep # "STOPPED")

\* Mutant: a wakeup asked while the stack leaves the network is dropped.
wakeup_stack_task_dropped ==
    /\ AppRuns
    /\ wakeup_task = 0 /\ wakeup_task' = NULL
    /\ IF m_offline_state = "ENTERING_OFFLINE"
       THEN UNCHANGED <<m_delayed_wakeup, waking>>
       ELSE wakeupStack /\ UNCHANGED m_delayed_wakeup
    /\ UNCHANGED <<modules, m_offline_state, poll_task, sleep, sleep_left, next, asked>>

wakeup_stack_task ==
    /\ AppRuns
    /\ wakeup_task = 0 /\ wakeup_task' = NULL
    /\ IF m_offline_state = "ENTERING_OFFLINE"
       THEN m_delayed_wakeup' = TRUE /\ UNCHANGED waking
       ELSE wakeupStack /\ UNCHANGED m_delayed_wakeup
    /\ UNCHANGED <<modules, m_offline_state, poll_task, sleep, sleep_left, next, asked>>

(* Once the stack has left the network, the modules are told and a wakeup  *)
(* that was put off is run.                                                *)
poll_for_offline ==
    /\ AppRuns
    /\ poll_task = 0
    /\ IF sleep = "STARTED" /\ m_offline_state = "ENTERING_OFFLINE"
       THEN /\ m_offline_state' = "OFFLINE"
            /\ poll_task' = NULL
            /\ waking' = (waking \/ m_delayed_wakeup)
            /\ m_delayed_wakeup' = FALSE
       ELSE /\ poll_task' = 1
            /\ UNCHANGED <<m_offline_state, m_delayed_wakeup, waking>>
    /\ UNCHANGED <<modules, wakeup_task, sleep, sleep_left, next, asked>>

-----------------------------------------------------------------------------
(* The stack has left the network.                                         *)
SleepStarts ==
    /\ AppRuns
    /\ sleep = "PENDING"
    /\ sleep' = "STARTED" /\ sleep_left' = TIME_TO_SLEEP
    /\ UNCHANGED <<modules, m_offline_state, m_delayed_wakeup, tasks, waking, next, asked>>

(* It wakes up, when told to or by itself, and calls on_stack_online_cb(), *)
(* which starts with the first module.                                     *)
StackOnline ==
    /\ AppRuns
    /\ sleep = "STARTED" /\ (waking \/ sleep_left = 0)
    /\ sleep' = "STOPPED" /\ sleep_left' = NULL /\ waking' = FALSE
    /\ m_offline_state' = "ONLINE"
    /\ next' = 0 /\ asked' = FALSE
    /\ UNCHANGED <<modules, m_delayed_wakeup, tasks>>

(* The loop of on_stack_online_cb(): each module is made unready, then     *)
(* called.                                                                 *)
on_stack_online_cb ==
    /\ next # NULL
    /\ next' = IF next = N THEN NULL ELSE next + 1
    /\ ready_to_enter_offline' = IF next = N THEN ready_to_enter_offline
                                 ELSE ready_to_enter_offline \ {next}
    /\ UNCHANGED <<in_use, online_deadline, m_offline_state, m_delayed_wakeup,
                   tasks, stack, asked>>

Down(t) == IF t = NULL THEN NULL ELSE t - 1

(* Time passes, once the tasks that are due have run and the stack has     *)
(* woken up.                                                               *)
Tick ==
    /\ AppRuns
    /\ wakeup_task # 0 /\ poll_task # 0 /\ sleep_left # 0 /\ ~waking
    /\ wakeup_task # NULL \/ poll_task # NULL \/ sleep_left # NULL
    /\ wakeup_task' = Down(wakeup_task) /\ poll_task' = Down(poll_task)
    /\ sleep_left' = Down(sleep_left)
    /\ online_deadline' = [m \in Modules |-> IF online_deadline[m] \in {INF, -1}
                                             THEN online_deadline[m]
                                             ELSE online_deadline[m] - 1]
    /\ UNCHANGED <<in_use, ready_to_enter_offline, m_offline_state, m_delayed_wakeup,
                   sleep, waking, next, asked>>

Next ==
    \/ \E id \in Modules :
        \/ Shared_Offline_register(id)
        \/ Shared_Offline_unregister(id)
        \/ \E delay_s \in Delays \cup {INF} : Shared_Offline_enter_offline_state(id, delay_s)
        \/ Shared_Offline_enter_online_state(id)
    \/ wakeup_stack_task \/ poll_for_offline
    \/ SleepStarts \/ StackOnline \/ on_stack_online_cb
    \/ Tick

(* The stack leaves the network when asked and wakes up when told, tasks   *)
(* run, and time passes whatever the modules ask.                          *)
Fairness ==
    /\ WF_vars(SleepStarts) /\ WF_vars(StackOnline) /\ WF_vars(on_stack_online_cb)
    /\ WF_vars(wakeup_stack_task) /\ WF_vars(poll_for_offline) /\ SF_vars(Tick)

Spec == Init /\ [][Next]_vars /\ Fairness

-----------------------------------------------------------------------------
(* The types of the state; the stack is asleep for the library only if it  *)
(* is asleep or leaving the network.                                       *)
TypeOK ==
    /\ in_use \subseteq Modules /\ ready_to_enter_offline \subseteq Modules
    /\ online_deadline \in [Modules -> Nat \cup {-1, INF}]
    /\ m_offline_state \in {"ONLINE", "ENTERING_OFFLINE", "OFFLINE"}
    /\ m_delayed_wakeup \in BOOLEAN
    /\ wakeup_task \in Timer /\ poll_task \in Timer /\ sleep_left \in Timer
    /\ sleep \in {"STOPPED", "PENDING", "STARTED"}
    /\ sleep = "STARTED" <=> sleep_left # NULL
    /\ waking \in BOOLEAN /\ asked \in BOOLEAN
    /\ next \in 0 .. N \cup {NULL}

(* A wakeup is under way.                                                  *)
WakeupUnderWay == wakeup_task = 0 \/ m_delayed_wakeup \/ waking \/ next # NULL

(* The stack leaves the network only if all the modules are ready; if one  *)
(* joins or is woken up meanwhile, the stack is on its way back.           *)
OfflineOnlyIfAllReady ==
    sleep # "STOPPED" => in_use \subseteq ready_to_enter_offline \/ WakeupUnderWay

(* A module that asked for the online state is not forgotten while the     *)
(* stack is still on its way out of the network: the wakeup stays due, put *)
(* off or under way until the stack is back.                               *)
OnlineRequestKept == asked => WakeupUnderWay

(* Once the library has seen the stack leave the network, no module misses *)
(* its deadline: on_online_event "will never be called later".             *)
DeadlineKept ==
    m_offline_state = "OFFLINE" /\ ~waking =>
        \A m \in in_use \cap ready_to_enter_offline :
            online_deadline[m] = INF \/ online_deadline[m] >= 0

(* A wakeup put off while the stack leaves the network is not carried over *)
(* to a later sleep.                                                       *)
DelayedOnlyEntering == m_delayed_wakeup => m_offline_state = "ENTERING_OFFLINE"

(* When all modules are ready, the stack leaves the network, unless one of *)
(* them changes its mind or the stack is just coming back.                 *)
GoesOffline ==
    (in_use # {} /\ in_use \subseteq ready_to_enter_offline) ~>
        (sleep = "STARTED" \/ ~(in_use \subseteq ready_to_enter_offline))
=============================================================================
