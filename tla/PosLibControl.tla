--------------------------- MODULE PosLibControl ---------------------------
(***************************************************************************)
(* The control of the positioning library: libraries/positioning/poslib/   *)
(* poslib_control.c, its event queue (poslib_event.c) and the part of      *)
(* poslib_measurement.c that starts scans and hears of their end.  A tag   *)
(* or an anchor scans its neighbors, sends what it found and schedules the *)
(* next update; in NRLS mode it leaves the network in between.             *)
(*                                                                         *)
(* The state is one record, lib; a handler maps it to the next one, and    *)
(* takes the outcomes of the services it calls as parameters.  Times are   *)
(* relative to now: due is next_update_s - now, since is now -             *)
(* last_update_s.  Only their remainder by the periods counts once they    *)
(* are past, so both go round Cycle.                                       *)
(***************************************************************************)
EXTENDS Integers, Sequences, SequencesExt

CONSTANTS
    Settings,       \* poslib_settings_t: mode, static, dynamic, offline (periods), motion (enabled)
    AppCfgs,        \* what app configs change the settings to, NULL for one that does not decode
    Cycle,          \* a multiple of all the periods
    SendOutcomes,   \* of sending: "sent", "refused", "no_buffer"
    ScanOutcomes,   \* of lib_state->startScanNbors, BOOLEAN
    OfflineOutcomes,\* of Shared_Offline_enter_offline_state, BOOLEAN
    WakeupRefused,  \* TRUE: the library is not registered with SharedOffline, which refuses to wake the stack up
    NoSlot,         \* the tasks for which the scheduler has no slot left
    LateScans,      \* TRUE: the timeout may run out before the end of a scan is handled
    Usage,          \* ways of using the library, see below
    MAX_INTERNAL_EVENTS,
    MaxPosted,      \* bound: the application and the stack add events up to this length of the queue
    MaxInFlight,    \* bound: measurements the stack has yet to send
    NULL

(* "restart": the library is started again after it was stopped.           *)
(* "oneshot_stopped": one update is asked for while it is stopped.         *)
(* "oneshot_early": one is asked for while the end of a scan is queued.    *)
(* "mode_change": the mode is changed once it was chosen.                  *)
Usages == {"restart", "oneshot_stopped", "oneshot_early", "mode_change"}

NRLS == "NRLS_TAG"
OPPORTUNISTIC == "OPPORTUNISTIC_ANCHOR"
Autoscan == {"AUTOSCAN_TAG", "AUTOSCAN_ANCHOR", "DA_TAG"}
Modes == {NRLS, OPPORTUNISTIC} \cup Autoscan

ASSUME PosLibAssumption ==
    /\ Cycle \in Nat \ {0}
    /\ \A s \in Settings : /\ s.mode \in Modes /\ s.motion \in BOOLEAN
                           /\ s.static \in Nat \ {0} /\ s.dynamic \in Nat /\ s.offline \in Nat
                           /\ \A p \in {s.static, s.dynamic, s.offline} \ {0} : Cycle % p = 0
    /\ AppCfgs \subseteq Settings \cup {NULL} /\ NULL \notin Settings
    /\ SendOutcomes \subseteq {"sent", "refused", "no_buffer"}
    /\ ScanOutcomes \subseteq BOOLEAN /\ OfflineOutcomes \subseteq BOOLEAN
    /\ WakeupRefused \in BOOLEAN /\ LateScans \in BOOLEAN
    /\ NoSlot \subseteq {"handle_events", "delayed_start", "trigger", "timeout"}
    /\ Usage \subseteq Usages
    /\ MAX_INTERNAL_EVENTS \in Nat /\ MaxPosted \in Nat /\ MaxInFlight \in Nat

VARIABLE lib

Events == {"SCAN_STARTED", "SCAN_END", "ONLINE", "OFFLINE", "CONFIG_CHANGE", "ONESHOT", "APPCFG",
           "MOTION", "DATA_SENT", "UPDATE_END", "OUTSIDE_WM", "UNDER_WM"}

Libs ==
    [ started : BOOLEAN, settings : Settings \cup {NULL}, dynamic : BOOLEAN,
      state : {"STOPPED", "IDLE", "UPDATE"}, mode : Modes, scheduled : BOOLEAN, outside_wm : BOOLEAN,
      events : SUBSET {"data_sent", "data_sent_complete", "app_cfg", "timeout", "scan_fail"},
      due : -Cycle .. Cycle, since : -Cycle .. Cycle - 1,
      tasks : SUBSET {"delayed_start", "trigger", "timeout"},   \* scheduled
      queue : Seq(Events), busy : 0 .. 1,       \* busy: the slot of the event being handled
      registered : BOOLEAN, appcfg : AppCfgs \cup {NULL},
      scan_pending : BOOLEAN, opportunistic : BOOLEAN, scanend : BOOLEAN,   \* scanend_cb is registered
      beacons : BOOLEAN,        \* some were heard
      scanning : BOOLEAN,       \* the stack scans for the library
      net : {"ONLINE", "ENTERING", "OFFLINE"},
      in_flight : 0 .. MaxInFlight ]

Init ==
    lib = [ started |-> FALSE, settings |-> NULL, dynamic |-> FALSE,
            state |-> "STOPPED", mode |-> NRLS, scheduled |-> FALSE, outside_wm |-> FALSE, events |-> {},
            due |-> -1, since |-> 1 % Cycle, tasks |-> {}, queue |-> <<>>, busy |-> 0,
            registered |-> FALSE, appcfg |-> NULL, scan_pending |-> FALSE, opportunistic |-> FALSE,
            scanend |-> FALSE, beacons |-> FALSE, scanning |-> FALSE, net |-> "ONLINE", in_flight |-> 0 ]

-----------------------------------------------------------------------------
(* The event queue and the tasks.                                          *)

PosLibEvent_add(l, e) ==
    IF Len(l.queue) + l.busy < MAX_INTERNAL_EVENTS THEN [l EXCEPT !.queue = Append(@, e)] ELSE l

addTask(l, t) == [l EXCEPT !.tasks = @ \cup {t}]
cancelTask(l, t) == [l EXCEPT !.tasks = @ \ {t}]
stop_tasks(l) == [l EXCEPT !.tasks = @ \ {"trigger", "timeout"}]
set_timeout(l) == addTask(l, "timeout")

(* A task that had no slot before a step may find none, which is never     *)
(* looked at: the step then leaves the library without it.                 *)
Granted(r) ==
    IF NoSlot \cap r.tasks \subseteq lib.tasks THEN r
    ELSE [r EXCEPT !.tasks = @ \ (NoSlot \ lib.tasks)]

-----------------------------------------------------------------------------
(* poslib_measurement.c                                                    *)

PosLibMeas_opportunisticScan(l, enable) ==
    [l EXCEPT !.scanend = enable, !.opportunistic = enable, !.beacons = @ /\ ~enable]

PosLibMeas_startScan(l, ok) ==
    IF l.scan_pending THEN l
    ELSE LET r == [l EXCEPT !.beacons = FALSE, !.scanend = TRUE]
         IN IF ok THEN PosLibEvent_add([r EXCEPT !.scan_pending = TRUE, !.scanning = TRUE], "SCAN_STARTED")
            ELSE r

PosLibMeas_stop(l) ==
    [l EXCEPT !.scanend = FALSE, !.opportunistic = FALSE, !.scan_pending = FALSE]

\* Mutant: the scan is still taken to be in progress.
scanend_cb_pending(l, complete, heard) ==
    PosLibEvent_add([l EXCEPT !.beacons = heard, !.scanend = ~complete \/ l.opportunistic], "SCAN_END")

\* The end of a scan of the stack: whether it was a complete one, and whether beacons were heard by then.
scanend_cb(l, complete, heard) ==
    LET r == [l EXCEPT !.beacons = heard, !.scan_pending = FALSE,
                       !.scanend = ~complete \/ l.opportunistic]
    IN PosLibEvent_add(r, "SCAN_END")

-----------------------------------------------------------------------------
(* Scheduling.                                                             *)

get_update_period(l) ==
    IF l.outside_wm /\ l.settings.offline # 0 THEN l.settings.offline
    ELSE IF l.settings.motion /\ l.dynamic /\ l.settings.dynamic # 0 THEN l.settings.dynamic
    ELSE l.settings.static

(* (now - last_update_s) % p in 32 bits, where last_update_s may be ahead  *)
(* of now.                                                                 *)
Elapsed(l, p) ==
    IF l.since >= 0 THEN l.since % p ELSE ((65536 % p) * (65536 % p) + l.since) % p

\* Mutant: the time is kept even if the new one comes first.
Kept_always(l, next) == TRUE

\* The update that is already scheduled is kept if it comes first.
Kept(l, next) == next > l.due

update_autoscan(l) == addTask(l, "trigger")

update_nrls(l, ok) == IF ok /\ l.net = "ONLINE" THEN [l EXCEPT !.net = "ENTERING"] ELSE l

Idle(l, next) ==
    [stop_tasks(l) EXCEPT !.state = "IDLE", !.mode = l.settings.mode, !.scheduled = TRUE,
                          !.events = {}, !.due = next]

new_schedule(l, next, ok) ==
    LET r == Idle(l, next)
    IN CASE r.mode = NRLS -> update_nrls(PosLibMeas_opportunisticScan(r, TRUE), ok)
         [] r.mode \in Autoscan -> update_autoscan(PosLibMeas_opportunisticScan(r, FALSE))
         [] r.mode = OPPORTUNISTIC -> [PosLibMeas_opportunisticScan(r, TRUE) EXCEPT !.due = -Cycle]

schedule_next(l, update_now, ok) ==
    LET p == get_update_period(l)
        next == IF update_now THEN 0 ELSE p - Elapsed(l, p)
    IN IF l.state = "STOPPED" /\ ~update_now THEN [l EXCEPT !.scheduled = FALSE]
       ELSE IF ~l.scheduled THEN new_schedule(l, next, ok)
       ELSE IF (~update_now /\ Kept(l, next)) \/ next = l.due THEN l
       ELSE update_autoscan([l EXCEPT !.due = next])

-----------------------------------------------------------------------------
(* The state machine.  send and ok are the outcomes of sending and of      *)
(* entering offline.                                                       *)

process_appcfg(l) ==
    IF l.appcfg \in {NULL, l.settings} THEN l
    ELSE PosLibEvent_add([l EXCEPT !.settings = l.appcfg], "CONFIG_CHANGE")

update_outside_wm(l) ==
    IF l.beacons = ~l.outside_wm THEN l
    ELSE PosLibEvent_add([l EXCEPT !.outside_wm = ~@], IF l.outside_wm THEN "UNDER_WM" ELSE "OUTSIDE_WM")

send_measurement_message(l, send) ==
    CASE send = "sent" -> [l EXCEPT !.events = @ \cup {"data_sent"}, !.in_flight = @ + 1]
      [] send = "refused" -> [l EXCEPT !.events = @ \ {"data_sent"}]
      [] send = "no_buffer" -> l

is_update_completed(l) ==
    \/ {"scan_fail", "timeout"} \cap l.events # {}
    \/ /\ "data_sent" \in l.events
       /\ l.mode = NRLS => {"app_cfg", "data_sent_complete"} \subseteq l.events

Raised(l, flag) == [l EXCEPT !.events = @ \cup {flag}]

\* Mutant: no timeout follows the one of the scan.
ScanEnded_untimed(l, send) ==
    LET r == update_outside_wm(cancelTask(l, "timeout"))
    IN IF r.beacons THEN [send_measurement_message(r, send) EXCEPT !.events = @ \ {"scan_fail"}]
       ELSE Raised(r, "scan_fail")

ScanEnded(l, send) ==
    LET r == update_outside_wm(cancelTask(l, "timeout"))
    IN IF r.beacons
       THEN set_timeout([send_measurement_message(r, send) EXCEPT !.events = @ \ {"scan_fail"}])
       ELSE Raised(r, "scan_fail")

handle_update_state(l, e, send, ok) ==
    LET r == CASE e = "SCAN_END"  -> ScanEnded(l, send)
               [] e = "APPCFG"    -> Raised(process_appcfg(l), "app_cfg")
               [] e = "DATA_SENT" -> Raised(l, "data_sent_complete")
               [] e = "TIMEOUT"   -> Raised(l, "timeout")
               [] OTHER           -> l
        done == [r EXCEPT !.scheduled = FALSE, !.since = IF r.due > 0 THEN -r.due ELSE (-r.due) % Cycle]
    IN IF is_update_completed(r) THEN schedule_next(PosLibEvent_add(done, "UPDATE_END"), FALSE, ok) ELSE r

handle_idle_state(l, e, send, ok) ==
    CASE e \in {"SCAN_STARTED", "ONLINE"} -> set_timeout([l EXCEPT !.state = "UPDATE"])
      [] e = "SCAN_END" /\ l.scheduled -> handle_update_state([l EXCEPT !.state = "UPDATE"], e, send, ok)
      [] e = "OFFLINE" /\ l.scheduled -> [l EXCEPT !.events = @ \ {"app_cfg"}, !.beacons = FALSE]
      [] e = "CONFIG_CHANGE" -> schedule_next([l EXCEPT !.dynamic = @ /\ l.settings.motion], FALSE, ok)
      [] e = "ONESHOT" -> schedule_next(l, TRUE, ok)
      [] e = "APPCFG" -> Raised(process_appcfg(l), "app_cfg")
      [] e = "MOTION" -> schedule_next(l, FALSE, ok)
      [] OTHER -> l

handle_stopped_state(l, e, ok) ==
    IF ~l.started /\ e = "ONESHOT" THEN schedule_next(l, TRUE, ok) ELSE l

PosLibCtrl_processEvent(l, e, send, ok) ==
    CASE l.state = "STOPPED" -> handle_stopped_state(l, e, ok)
      [] l.state = "IDLE"    -> handle_idle_state(l, e, send, ok)
      [] l.state = "UPDATE"  -> handle_update_state(l, e, send, ok)

-----------------------------------------------------------------------------
(* Tasks.                                                                  *)

handle_events(send, ok) ==
    /\ lib.queue # <<>> /\ "handle_events" \notin NoSlot
    /\ lib' = Granted([PosLibCtrl_processEvent([lib EXCEPT !.queue = Tail(@), !.busy = 1],
                                               Head(lib.queue), send, ok)
                           EXCEPT !.busy = 0])

delayed_start(ok) ==
    /\ "delayed_start" \in lib.tasks
    /\ lib' = Granted(schedule_next(cancelTask(lib, "delayed_start"), FALSE, ok))

(* While the stack is offline the task asks it to come online, and is run  *)
(* again; if that is refused, it stops.                                    *)
TriggerDue ==
    "trigger" \in lib.tasks /\ lib.due <= 0 /\ (lib.net = "OFFLINE" => WakeupRefused)

trigger_update_task(ok) ==
    /\ TriggerDue
    /\ LET r == cancelTask(lib, "trigger")
       IN lib' = IF lib.net = "OFFLINE" THEN r ELSE PosLibMeas_startScan(r, ok)

timeout_task(send, ok) ==
    /\ "timeout" \in lib.tasks
    /\ lib.scanning \/ "SCAN_END" \in Range(lib.queue) => LateScans
    /\ lib' = Granted(PosLibCtrl_processEvent(cancelTask(lib, "timeout"), "TIMEOUT", send, ok))

-----------------------------------------------------------------------------
(* The application.                                                        *)

Posts == Len(lib.queue) < MaxPosted

(* The settings that may replace the current ones.                         *)
Configurable(s) == lib.settings # NULL => s.mode = lib.settings.mode \/ "mode_change" \in Usage

PosLibCtrl_setConfig(s) ==
    /\ Posts /\ s # lib.settings /\ Configurable(s)
    /\ LET r == [lib EXCEPT !.settings = s]
       IN lib' = IF lib.started THEN PosLibEvent_add(r, "CONFIG_CHANGE") ELSE r

PosLibCtrl_startPeriodic ==
    /\ lib.settings # NULL /\ ~lib.started
    /\ "restart" \in Usage \/ ~lib.scheduled
    /\ lib' = Granted(addTask([lib EXCEPT !.state = "IDLE", !.started = TRUE, !.registered = TRUE],
                              "delayed_start"))

PosLibCtrl_startOneshot ==
    /\ Posts /\ lib.settings # NULL
    /\ lib.started \/ "oneshot_stopped" \in Usage
    /\ "SCAN_END" \in Range(lib.queue) => "oneshot_early" \in Usage
    /\ lib' = PosLibEvent_add([lib EXCEPT !.registered = TRUE], "ONESHOT")

PosLibCtrl_stopPeriodic ==
    /\ lib.started
    /\ "ONESHOT" \in Range(lib.queue) => "oneshot_stopped" \in Usage
    /\ lib' = PosLibMeas_stop([stop_tasks(lib) EXCEPT !.started = FALSE, !.state = "STOPPED",
                                                      !.registered = FALSE, !.net = "ONLINE"])

PosLibCtrl_motion(dynamic) ==
    /\ Posts /\ lib.settings # NULL /\ lib.settings.motion
    /\ lib.dynamic # dynamic
    /\ lib' = PosLibEvent_add([lib EXCEPT !.dynamic = dynamic], "MOTION")

appconfig_cb(c) ==
    /\ Posts /\ lib.registered /\ (c # NULL => Configurable(c))
    /\ lib' = PosLibEvent_add([lib EXCEPT !.appcfg = c], "APPCFG")

-----------------------------------------------------------------------------
(* The stack (external).  It scans on request, and by itself while it is   *)
(* online.  SharedOffline takes it offline when the library agrees, and    *)
(* back when the update is due or another module wants it.                 *)

ScanEnds(complete, heard) ==
    /\ lib.net # "OFFLINE"
    /\ lib.scanning \/ (lib.scanend /\ Posts)
    /\ lib' = LET r == [lib EXCEPT !.scanning = FALSE]
              IN IF lib.scanend THEN scanend_cb(r, complete, heard) ELSE r

data_send_cb ==
    /\ lib.in_flight > 0 /\ Posts
    /\ lib' = PosLibEvent_add([lib EXCEPT !.in_flight = @ - 1], "DATA_SENT")

on_offline_cb ==
    /\ lib.net = "ENTERING" /\ Posts
    /\ lib' = PosLibEvent_add([lib EXCEPT !.net = "OFFLINE", !.scanning = FALSE], "OFFLINE")

on_online_cb ==
    /\ lib.net = "OFFLINE" /\ Posts
    /\ lib' = PosLibEvent_add([lib EXCEPT !.net = "ONLINE"], "ONLINE")

(* Events are handled, and a task that is due run, before a second passes. *)
Tick ==
    /\ lib.queue = <<>> /\ ~TriggerDue
    /\ lib' = [lib EXCEPT !.due = IF @ = -Cycle THEN -1 ELSE @ - 1,
                          !.since = IF @ = Cycle - 1 THEN 0 ELSE @ + 1]

-----------------------------------------------------------------------------
Sendable == {s \in SendOutcomes : s = "sent" => lib.in_flight < MaxInFlight}

Tasks ==
    \/ \E ok \in OfflineOutcomes : \/ delayed_start(ok)
                                   \/ \E send \in Sendable : handle_events(send, ok) \/ timeout_task(send, ok)
    \/ \E ok \in ScanOutcomes : trigger_update_task(ok)

Application ==
    \/ \E s \in Settings : PosLibCtrl_setConfig(s)
    \/ PosLibCtrl_startPeriodic \/ PosLibCtrl_startOneshot \/ PosLibCtrl_stopPeriodic
    \/ \E dynamic \in BOOLEAN : PosLibCtrl_motion(dynamic)
    \/ \E c \in AppCfgs : appconfig_cb(c)

Stack ==
    \/ \E complete, heard \in BOOLEAN : ScanEnds(complete, heard)
    \/ data_send_cb \/ on_offline_cb \/ on_online_cb

Next == Tasks \/ Application \/ Stack \/ Tick

Spec == Init /\ [][Next]_lib

-----------------------------------------------------------------------------
TypeOK == lib \in Libs

(* While the library is started an update is always under way or to come:  *)
(* once its queue is empty, it has one scheduled, and something that will  *)
(* start it (the task, the return of the stack from offline, or a scan     *)
(* that it hears of), or one in progress with a timeout to end it.         *)
NextUpdateOwed ==
    lib.started /\ "delayed_start" \notin lib.tasks /\ lib.queue = <<>> =>
        CASE lib.state = "UPDATE" -> "timeout" \in lib.tasks
          [] lib.state = "IDLE" -> /\ lib.scheduled
                                   /\ \/ "trigger" \in lib.tasks
                                      \/ lib.mode = NRLS /\ lib.net # "ONLINE"
                                      \/ lib.mode = OPPORTUNISTIC /\ lib.scanend
          [] OTHER -> FALSE

(* The next update is never further away than the period that holds now,   *)
(* whatever the order of motion, configuration and coverage changes.       *)
UpdateWithinPeriod ==
    lib.started /\ lib.scheduled /\ lib.state = "IDLE" /\ lib.queue = <<>> =>
        lib.due <= get_update_period(lib)

(* A scan that the library waits for is one it will hear the end of: it    *)
(* is under way and scanend_cb() is registered.  A node in NRLS mode is    *)
(* left out: its stack may go offline with a scan pending.                 *)
ScanEndComes ==
    lib.scan_pending /\ lib.mode # NRLS => lib.scanning /\ lib.scanend

(* An update that is scheduled is not put off, however often the motion,   *)
(* the configuration, an app config or a request changes the schedule: it  *)
(* only moves later when the end of a scan, which is an update, is handled.*)
UpdateNotPostponed ==
    [][/\ lib.started /\ lib.scheduled /\ lib.state = "IDLE" /\ lib'.started /\ lib'.state = "IDLE"
       /\ lib.queue = <<>> \/ Head(lib.queue) # "SCAN_END"
       => lib'.due <= lib.due \/ lib'.due <= 0]_lib

(* PosLib_startOneshot while stopped: after its update the library is      *)
(* stopped again, it schedules no other one.                               *)
OneshotReturnsToStopped ==
    ~lib.started /\ lib.state = "IDLE" => lib.due <= 0
=============================================================================
