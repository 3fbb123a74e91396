------------------------ MODULE PosLibControlProofs ------------------------
(***************************************************************************)
(* Proofs about PosLibControl: the control of the positioning library      *)
(* keeps the next update, for any settings, periods and app configs.       *)
(***************************************************************************)
EXTENDS PosLibControl, TLAPS, SequenceTheorems

(* The conditions on the use of the library. Each usage and outcome that   *)
(* is left out is one under which the library does not keep its promises,  *)
(* see the README: it is not stopped and started again, no update is       *)
(* asked for while it is stopped or while the end of a scan is queued,     *)
(* its mode is not changed, the stack accepts the scans, the offline       *)
(* requests and the wakeups, the scheduler has room for its tasks, and a   *)
(* scan ends before its timeout.                                           *)
PlainUse ==
    /\ Usage = {} /\ ~LateScans /\ FALSE \notin ScanOutcomes /\ FALSE \notin OfflineOutcomes
    /\ ~WakeupRefused /\ NoSlot = {}

(* An event can be added to the queue: the condition of PosLibEvent_add,   *)
(* which otherwise drops the event.                                        *)
QueueHasRoom == Len(lib.queue) + lib.busy < MAX_INTERNAL_EVENTS

-----------------------------------------------------------------------------
(* No request for an update waits behind the end of a scan.                *)
Ordered(q) == \A i, j \in 1 .. Len(q) : i < j => ~(q[i] = "SCAN_END" /\ q[j] = "ONESHOT")

(* What holds in every mode, E being the events that are to be handled:    *)
(* what the library holds when it is stopped, that the mode in force is    *)
(* the one of the settings, that the flags that end an update are not      *)
(* left over.                                                              *)
UseInv(l, E) ==
    /\ l.started <=> l.state # "STOPPED"
    /\ l.started \/ l.registered => l.settings # NULL
    /\ l.appcfg # NULL => l.settings # NULL /\ l.appcfg.mode = l.settings.mode
    /\ "ONESHOT" \in E => l.started
    /\ "ONESHOT" \in E /\ "SCAN_END" \in E => l.scheduled
    /\ Ordered(l.queue)
    /\ l.scheduled => l.settings # NULL /\ l.mode = l.settings.mode
    /\ l.state = "STOPPED" \/ ~l.scheduled =>
           ~l.scan_pending /\ ~l.scanend /\ l.net = "ONLINE" /\ "trigger" \notin l.tasks
    /\ l.state = "STOPPED" => "timeout" \notin l.tasks
    /\ "timeout" \notin l.events /\ "scan_fail" \notin l.events
    /\ l.mode # NRLS => "data_sent" \notin l.events /\ l.net = "ONLINE"

(* An NRLS tag that is idle has left the network, or is about to hear      *)
(* that it is back.                                                        *)
NrlsInv(l, E) ==
    l.mode = NRLS /\ l.state = "IDLE" /\ l.scheduled => l.net # "ONLINE" \/ "ONLINE" \in E

(* An opportunistic anchor always listens to the scans of the stack.       *)
OppInv(l) ==
    l.mode = OPPORTUNISTIC /\ l.scheduled /\ l.started =>
        l.scanend /\ l.opportunistic /\ (l.scan_pending => l.scanning)

(* A tag or an anchor that scans by itself: either its task is scheduled   *)
(* or its scan is under way, and in the latter case the callback for the   *)
(* end of the scan is registered and the update is due. A request for an   *)
(* update may wait in front of the end of a scan only if it cannot make    *)
(* the task start another scan at once.                                    *)
AutoInv(l, E) ==
    l.mode \in Autoscan /\ l.scheduled =>
        /\ ~l.opportunistic
        /\ l.scan_pending => l.scanning /\ l.scanend /\ "SCAN_END" \notin E
        /\ l.scanend => l.due <= 0 /\ "trigger" \notin l.tasks
        /\ l.scanend /\ l.state = "IDLE" => l.due = 0 /\ "SCAN_STARTED" \in E
        /\ "trigger" \in l.tasks => l.due >= 0 /\ ("SCAN_END" \in E => l.due > 0)
        /\ "ONESHOT" \in E /\ "SCAN_END" \in E => l.state = "UPDATE" \/ l.due = 0
        /\ l.state = "IDLE" => "trigger" \in l.tasks \/ "SCAN_STARTED" \in E

(* The update is due within the period in force, or the event that will    *)
(* move it is queued.                                                      *)
PeriodInv(l, E) ==
    l.state = "IDLE" /\ l.scheduled =>
        l.due <= get_update_period(l) \/ "CONFIG_CHANGE" \in E \/ "MOTION" \in E

(* Something is left to end the update, or to schedule one.                *)
OwedInv(l) ==
    /\ l.state = "IDLE" => l.scheduled \/ "delayed_start" \in l.tasks
    /\ l.state = "UPDATE" => "timeout" \in l.tasks

(* The invariant without the parts that the handling of an event           *)
(* restores.                                                               *)
Base(l, E) == l \in Libs /\ UseInv(l, E) /\ NrlsInv(l, E) /\ OppInv(l) /\ AutoInv(l, E)

(* The inductive invariant, as a predicate of the record so that it can    *)
(* be stated of the results of the handlers.                               *)
InvOf(l) == Base(l, Range(l.queue)) /\ PeriodInv(l, Range(l.queue)) /\ OwedInv(l)

IInv == InvOf(lib)

(* What schedule_next needs at the end of an update.                       *)
Ready(l) ==
    /\ l \in Libs /\ l.settings # NULL /\ l.started
    /\ l.appcfg # NULL => l.appcfg.mode = l.settings.mode
    /\ Ordered(l.queue)
    /\ l.settings.mode # NRLS => l.net = "ONLINE"
    /\ l.settings.mode = OPPORTUNISTIC => (l.scan_pending => l.scanning)
    /\ l.settings.mode \in Autoscan =>
         ~l.scan_pending /\ ~("ONESHOT" \in Range(l.queue) /\ "SCAN_END" \in Range(l.queue))

(* A handler adds to the queue neither a request nor the end of a scan,    *)
(* which would put them out of order.                                      *)
Tame(q, r) ==
    /\ r \in Seq(Events)
    /\ Range(q) \subseteq Range(r) /\ Range(r) \cap {"ONESHOT", "SCAN_END"} \subseteq Range(q)
    /\ Ordered(q) => Ordered(r)

-----------------------------------------------------------------------------
(* The handlers are described by the fields they change: Frame(l, r, F)    *)
(* says that r is l but for the fields F. It spares the provers the        *)
(* record of 22 fields.                                                    *)
Fields == {"started", "settings", "dynamic", "state", "mode", "scheduled", "outside_wm", "events", "due", "since",
           "tasks", "queue", "busy", "registered", "appcfg", "scan_pending", "opportunistic", "scanend",
           "beacons", "scanning", "net", "in_flight"}

Flags == {"data_sent", "data_sent_complete", "app_cfg", "timeout", "scan_fail"}
TaskNames == {"delayed_start", "trigger", "timeout"}

Frame(l, r, F) == r \in Libs /\ \A f \in Fields \ F : r[f] = l[f]

(* Arithmetic of the periods: they divide Cycle, and so are at most        *)
(* Cycle.                                                                  *)
LEMMA CyclePositive == Cycle \in Nat /\ Cycle > 0
  BY PosLibAssumption

LEMMA DivisorAtMost ==
    ASSUME NEW c \in Nat \ {0}, NEW p \in Nat \ {0}, c % p = 0
    PROVE  p <= c
  OBVIOUS

LEMMA Remainder ==
    ASSUME NEW a \in Int, NEW p \in Nat \ {0}
    PROVE  a % p \in 0 .. p - 1
  OBVIOUS

(* What is queued after an event was added, and after the first one was    *)
(* taken.                                                                  *)
LEMMA AppendRange ==
    ASSUME NEW q \in Seq(Events), NEW e \in Events
    PROVE  /\ Append(q, e) \in Seq(Events)
           /\ Range(Append(q, e)) = Range(q) \cup {e}
           /\ Ordered(q) /\ (e = "ONESHOT" => "SCAN_END" \notin Range(q)) => Ordered(Append(q, e))
  BY DEF Range, Ordered

LEMMA TailRange ==
    ASSUME NEW q \in Seq(Events), q # <<>>
    PROVE  /\ Tail(q) \in Seq(Events) /\ Head(q) \in Events
           /\ Range(q) = Range(Tail(q)) \cup {Head(q)}
           /\ Len(Tail(q)) = Len(q) - 1
           /\ Ordered(q) => /\ Ordered(Tail(q))
                            /\ Head(q) = "SCAN_END" => "ONESHOT" \notin Range(Tail(q))
  <1>1. /\ Tail(q) \in Seq(Events) /\ Head(q) \in Events /\ Len(Tail(q)) = Len(q) - 1
        /\ \A i \in 1 .. Len(q) - 1 : Tail(q)[i] = q[i + 1]
        /\ Head(q) = q[1] /\ Len(q) \in Nat /\ Len(q) > 0
    BY HeadTailProperties, EmptySeq
  <1>2. ASSUME NEW i \in 1 .. Len(q) PROVE q[i] \in Range(Tail(q)) \cup {Head(q)}
    <2>1. CASE i = 1 BY <2>1, <1>1
    <2>2. CASE i # 1
      <3>1. i - 1 \in 1 .. Len(q) - 1 /\ Tail(q)[i - 1] = q[i] BY <2>2, <1>1
      <3>2. DOMAIN Tail(q) = 1 .. Len(q) - 1 BY <1>1
      <3>3. Tail(q)[i - 1] \in Range(Tail(q)) BY <3>1, <3>2 DEF Range
      <3> QED BY <3>1, <3>3
    <2> QED BY <2>1, <2>2
  <1>3. Range(Tail(q)) \cup {Head(q)} \subseteq Range(q)
    BY <1>1 DEF Range
  <1>4. Range(q) = Range(Tail(q)) \cup {Head(q)}
    <2>1. Range(q) \subseteq Range(Tail(q)) \cup {Head(q)} BY <1>2, <1>1 DEF Range
    <2> QED BY <2>1, <1>3
  <1>5. ASSUME Ordered(q) PROVE Ordered(Tail(q))
    BY <1>1, <1>5 DEF Ordered
  <1>6. ASSUME Ordered(q), Head(q) = "SCAN_END" PROVE "ONESHOT" \notin Range(Tail(q))
    BY <1>1, <1>6 DEF Ordered, Range
  <1> QED BY <1>1, <1>4, <1>5, <1>6

LEMMA EmptyRange == Range(<<>>) = {} /\ Ordered(<<>>)
  BY DEF Range, Ordered

(* Tame is reflexive and transitive, and holds of every other event.       *)
LEMMA TameSelf == ASSUME NEW q \in Seq(Events) PROVE Tame(q, q)
  BY DEF Tame

LEMMA TameAppend ==
    ASSUME NEW q \in Seq(Events), NEW e \in Events \ {"ONESHOT", "SCAN_END"}
    PROVE  Tame(q, Append(q, e))
  BY AppendRange DEF Tame

LEMMA TameTrans ==
    ASSUME NEW q, NEW r, NEW s, Tame(q, r), Tame(r, s)
    PROVE  Tame(q, s)
  BY DEF Tame

(* The period is positive, and the next update lies 1 to a whole period    *)
(* ahead, whatever the time since the last one.                            *)
LEMMA PeriodRange ==
    ASSUME NEW l \in Libs, l.settings # NULL
    PROVE  get_update_period(l) \in 1 .. Cycle
  <1> DEFINE s == l.settings
  <1>1. s \in Settings BY DEF Libs
  <1>2. /\ s.motion \in BOOLEAN /\ s.static \in Nat \ {0} /\ s.dynamic \in Nat /\ s.offline \in Nat
        /\ \A p \in {s.static, s.dynamic, s.offline} \ {0} : Cycle % p = 0
    BY <1>1, PosLibAssumption
  <1> HIDE DEF s
  <1>3. \A p \in {s.static, s.dynamic, s.offline} \ {0} : p \in 1 .. Cycle
    BY <1>2, CyclePositive, DivisorAtMost
  <1> QED BY <1>2, <1>3 DEF get_update_period, s

LEMMA NextRange ==
    ASSUME NEW l \in Libs, l.settings # NULL
    PROVE  get_update_period(l) - Elapsed(l, get_update_period(l)) \in 1 .. get_update_period(l)
  <1> DEFINE p == get_update_period(l)
  <1>1. p \in Nat \ {0} BY PeriodRange, CyclePositive
  <1>2. l.since \in Int BY CyclePositive DEF Libs
  <1> HIDE DEF p
  <1> DEFINE w == 65536 % p
  <1>3. w \in Int BY <1>1
  <1> HIDE DEF w
  <1> DEFINE v == w * w + l.since
  <1>4a. v \in Int BY <1>2, <1>3
  <1> HIDE DEF v
  <1>4. l.since % p \in 0 .. p - 1 /\ v % p \in 0 .. p - 1
    BY <1>1, <1>2, <1>4a, Remainder
  <1>5. Elapsed(l, p) \in 0 .. p - 1
    BY <1>4 DEF Elapsed, w, v
  <1> QED BY <1>1, <1>5 DEF p

-----------------------------------------------------------------------------
(* What the assignments of the handlers change.                            *)
LEMMA QueueFields ==
    ASSUME NEW l \in Libs, NEW q \in Seq(Events)
    PROVE  LET r == [l EXCEPT !.queue = q]
           IN Frame(l, r, {"queue"}) /\ r.queue = q
  BY DEF Libs, Frame, Fields

LEMMA PopFields ==
    ASSUME NEW l \in Libs, NEW q \in Seq(Events)
    PROVE  LET r == [l EXCEPT !.queue = q, !.busy = 1]
           IN Frame(l, r, {"queue", "busy"}) /\ r.queue = q /\ r.busy = 1
  <1>1. 1 \in 0 .. 1 OBVIOUS
  <1> QED BY <1>1 DEF Libs, Frame, Fields

LEMMA EventsFields ==
    ASSUME NEW l \in Libs, NEW v \in SUBSET Flags
    PROVE  LET r == [l EXCEPT !.events = v]
           IN Frame(l, r, {"events"}) /\ r.events = v
  BY DEF Libs, Frame, Fields, Flags

LEMMA SentFields ==
    ASSUME NEW l \in Libs, NEW v \in SUBSET Flags, NEW n \in 0 .. MaxInFlight
    PROVE  LET r == [l EXCEPT !.events = v, !.in_flight = n]
           IN Frame(l, r, {"events", "in_flight"}) /\ r.events = v
  BY DEF Libs, Frame, Fields, Flags

LEMMA TasksFields ==
    ASSUME NEW l \in Libs, NEW t \in SUBSET TaskNames
    PROVE  LET r == [l EXCEPT !.tasks = t]
           IN Frame(l, r, {"tasks"}) /\ r.tasks = t
  BY DEF Libs, Frame, Fields, TaskNames

LEMMA SwitchFields ==
    ASSUME NEW l \in Libs, NEW b \in BOOLEAN
    PROVE  /\ LET r == [l EXCEPT !.outside_wm = b]
              IN Frame(l, r, {"outside_wm"}) /\ r.outside_wm = b
           /\ LET r == [l EXCEPT !.dynamic = b]
              IN Frame(l, r, {"dynamic"}) /\ r.dynamic = b
  BY DEF Libs, Frame, Fields

LEMMA HeardFields ==
    ASSUME NEW l \in Libs, NEW h \in BOOLEAN, NEW b \in BOOLEAN
    PROVE  LET r == [l EXCEPT !.beacons = h, !.scan_pending = FALSE, !.scanend = b]
           IN Frame(l, r, {"beacons", "scan_pending", "scanend"}) /\ ~r.scan_pending /\ r.scanend = b
  <1> DEFINE r == [l EXCEPT !.beacons = h, !.scan_pending = FALSE, !.scanend = b]
  <1>1. r \in Libs BY DEF Libs
  <1>2. \A f \in Fields \ {"beacons", "scan_pending", "scanend"} : r[f] = l[f] BY DEF Libs, Fields
  <1>3. r.scan_pending = FALSE /\ r.scanend = b BY DEF Libs
  <1> QED BY <1>1, <1>2, <1>3 DEF Frame

LEMMA RaisedFields ==
    ASSUME NEW l \in Libs, NEW f \in Flags
    PROVE  Frame(l, Raised(l, f), {"events"}) /\ Raised(l, f).events = l.events \cup {f}
  <1>1. l.events \cup {f} \in SUBSET Flags BY DEF Libs, Flags
  <1> QED BY <1>1, EventsFields DEF Raised

LEMMA TaskFields ==
    ASSUME NEW l \in Libs, NEW t \in TaskNames
    PROVE  /\ Frame(l, addTask(l, t), {"tasks"}) /\ addTask(l, t).tasks = l.tasks \cup {t}
           /\ Frame(l, cancelTask(l, t), {"tasks"}) /\ cancelTask(l, t).tasks = l.tasks \ {t}
  <1>1. l.tasks \cup {t} \in SUBSET TaskNames /\ l.tasks \ {t} \in SUBSET TaskNames BY DEF Libs, TaskNames
  <1> QED BY <1>1, TasksFields DEF addTask, cancelTask

(* PosLibEvent_add appends the event, or drops it if there is no room.     *)
LEMMA EventAdd ==
    ASSUME NEW l \in Libs, NEW e \in Events
    PROVE  LET r == PosLibEvent_add(l, e)
           IN /\ Frame(l, r, {"queue"})
              /\ IF Len(l.queue) + l.busy < MAX_INTERNAL_EVENTS THEN r.queue = Append(l.queue, e)
                 ELSE r.queue = l.queue
              /\ e \notin {"ONESHOT", "SCAN_END"} => Tame(l.queue, r.queue)
  <1>1. l.queue \in Seq(Events) BY DEF Libs
  <1>2. Append(l.queue, e) \in Seq(Events) BY <1>1, AppendRange
  <1>3. Frame(l, PosLibEvent_add(l, e), {"queue"})
    <2>1. CASE Len(l.queue) + l.busy < MAX_INTERNAL_EVENTS
      <3>1. PosLibEvent_add(l, e) = [l EXCEPT !.queue = Append(l.queue, e)] BY <2>1 DEF PosLibEvent_add
      <3> QED BY <1>2, <3>1, QueueFields
    <2>2. CASE ~(Len(l.queue) + l.busy < MAX_INTERNAL_EVENTS)
      <3>1. PosLibEvent_add(l, e) = l BY <2>2 DEF PosLibEvent_add
      <3> QED BY <3>1 DEF Frame
    <2> QED BY <2>1, <2>2
  <1>4. IF Len(l.queue) + l.busy < MAX_INTERNAL_EVENTS THEN PosLibEvent_add(l, e).queue = Append(l.queue, e)
        ELSE PosLibEvent_add(l, e).queue = l.queue
    BY DEF PosLibEvent_add, Libs
  <1> QED BY <1>1, <1>3, <1>4, TameAppend, TameSelf

(* The modes, and what each step of schedule_next changes.                 *)
LEMMA SettingsMode ==
    ASSUME NEW l \in Libs, l.settings # NULL
    PROVE  l.settings.mode \in Modes
  BY PosLibAssumption DEF Libs

LEMMA ThreeModes ==
    ASSUME NEW m \in Modes
    PROVE  /\ m = NRLS \/ m = OPPORTUNISTIC \/ m \in Autoscan
           /\ NRLS \notin Autoscan /\ OPPORTUNISTIC \notin Autoscan /\ NRLS # OPPORTUNISTIC
  BY DEF Modes, NRLS, OPPORTUNISTIC, Autoscan

LEMMA IdleFields ==
    ASSUME NEW l \in Libs, l.settings # NULL, NEW next \in -Cycle .. Cycle
    PROVE  LET r == Idle(l, next)
           IN /\ Frame(l, r, {"tasks", "state", "mode", "scheduled", "events", "due"})
              /\ r.tasks = l.tasks \ {"trigger", "timeout"} /\ r.state = "IDLE" /\ r.mode = l.settings.mode
              /\ r.scheduled = TRUE /\ r.events = {} /\ r.due = next
  BY SettingsMode DEF Libs, Idle, stop_tasks, Frame, Fields

LEMMA OpportunisticFields ==
    ASSUME NEW l \in Libs, NEW enable \in BOOLEAN
    PROVE  LET r == PosLibMeas_opportunisticScan(l, enable)
           IN /\ Frame(l, r, {"scanend", "opportunistic", "beacons"})
              /\ r.scanend = enable /\ r.opportunistic = enable
  <1>1. (l.beacons /\ ~enable) \in BOOLEAN OBVIOUS
  <1>2. ASSUME NEW b \in BOOLEAN
        PROVE  LET r == [l EXCEPT !.scanend = enable, !.opportunistic = enable, !.beacons = b]
               IN /\ Frame(l, r, {"scanend", "opportunistic", "beacons"})
                  /\ r.scanend = enable /\ r.opportunistic = enable
    BY DEF Libs, Frame, Fields
  <1> QED BY <1>1, <1>2 DEF PosLibMeas_opportunisticScan

LEMMA NrlsFields ==
    ASSUME NEW l \in Libs
    PROVE  LET r == update_nrls(l, TRUE)
           IN /\ Frame(l, r, {"net"})
              /\ r.net = IF l.net = "ONLINE" THEN "ENTERING" ELSE l.net
  BY DEF Libs, update_nrls, Frame, Fields

LEMMA TriggerFields ==
    ASSUME NEW l \in Libs
    PROVE  LET r == update_autoscan(l)
           IN Frame(l, r, {"tasks"}) /\ r.tasks = l.tasks \cup {"trigger"}
  BY DEF Libs, update_autoscan, addTask, Frame, Fields

LEMMA DueFields ==
    ASSUME NEW l \in Libs, NEW next \in -Cycle .. Cycle
    PROVE  LET r == [l EXCEPT !.due = next]
           IN Frame(l, r, {"due"}) /\ r.due = next
  BY DEF Libs, Frame, Fields

(* A new schedule: the fields it sets in each of the modes.                *)
LEMMA NewScheduleFields ==
    ASSUME NEW l \in Libs, l.settings # NULL, NEW next \in 0 .. Cycle
    PROVE  LET r == new_schedule(l, next, TRUE)
               m == l.settings.mode
           IN /\ Frame(l, r, {"tasks", "state", "mode", "scheduled", "events", "due", "scanend", "opportunistic",
                              "beacons", "net"})
              /\ r.tasks = (l.tasks \ {"trigger", "timeout"}) \cup (IF m \in Autoscan THEN {"trigger"} ELSE {})
              /\ r.state = "IDLE" /\ r.mode = m /\ r.scheduled = TRUE /\ r.events = {}
              /\ r.due = IF m = OPPORTUNISTIC THEN -Cycle ELSE next
              /\ r.scanend = (m \notin Autoscan) /\ r.opportunistic = (m \notin Autoscan)
              /\ r.net = IF m = NRLS /\ l.net = "ONLINE" THEN "ENTERING" ELSE l.net
  <1> DEFINE m == l.settings.mode
             b == Idle(l, next)
             on == PosLibMeas_opportunisticScan(b, TRUE)
             off == PosLibMeas_opportunisticScan(b, FALSE)
  <1>1. -Cycle \in -Cycle .. Cycle /\ next \in -Cycle .. Cycle BY CyclePositive
  <1>2. m \in Modes BY SettingsMode
  <1>3. /\ Frame(l, b, {"tasks", "state", "mode", "scheduled", "events", "due"})
        /\ b.tasks = l.tasks \ {"trigger", "timeout"} /\ b.state = "IDLE" /\ b.mode = m
        /\ b.scheduled = TRUE /\ b.events = {} /\ b.due = next
    BY <1>1, IdleFields
  <1>4. b \in Libs BY <1>3 DEF Frame
  <1>5. /\ Frame(b, on, {"scanend", "opportunistic", "beacons"}) /\ on.scanend = TRUE /\ on.opportunistic = TRUE
        /\ Frame(b, off, {"scanend", "opportunistic", "beacons"}) /\ off.scanend = FALSE /\ off.opportunistic = FALSE
    BY <1>4, OpportunisticFields
  <1>6. on \in Libs /\ off \in Libs BY <1>5 DEF Frame
  <1>7. new_schedule(l, next, TRUE) = CASE m = NRLS -> update_nrls(on, TRUE)
                                         [] m \in Autoscan -> update_autoscan(off)
                                         [] m = OPPORTUNISTIC -> [on EXCEPT !.due = -Cycle]
    BY <1>3 DEF new_schedule
  <1> HIDE DEF m, b, on, off
  <1> DEFINE r == new_schedule(l, next, TRUE)
             F == {"tasks", "state", "mode", "scheduled", "events", "due", "scanend", "opportunistic", "beacons"}
  <1>8. Frame(l, on, F) /\ Frame(l, off, F)
    BY <1>3, <1>5 DEF Frame
  <1>8a. /\ on.tasks = b.tasks /\ on.state = b.state /\ on.mode = b.mode /\ on.scheduled = b.scheduled
         /\ on.events = b.events /\ on.due = b.due /\ on.net = l.net
         /\ off.tasks = b.tasks /\ off.state = b.state /\ off.mode = b.mode /\ off.scheduled = b.scheduled
         /\ off.events = b.events /\ off.due = b.due /\ off.net = l.net
    BY <1>5, <1>3 DEF Frame, Fields
  <1>9. CASE m = NRLS
    <2>1. r = update_nrls(on, TRUE) BY <1>2, <1>7, <1>9, ThreeModes
    <2>2. Frame(on, r, {"net"}) /\ r.net = IF on.net = "ONLINE" THEN "ENTERING" ELSE on.net
      BY <2>1, <1>6, NrlsFields
    <2> HIDE DEF r
    <2>3. Frame(l, r, F \cup {"net"}) BY <1>8, <2>2 DEF Frame
    <2>4. /\ r.tasks = on.tasks /\ r.state = on.state /\ r.mode = on.mode /\ r.scheduled = on.scheduled
          /\ r.events = on.events /\ r.due = on.due /\ r.scanend = on.scanend /\ r.opportunistic = on.opportunistic
      BY <2>2 DEF Frame, Fields
    <2> QED BY <1>2, <1>3, <1>5, <1>8a, <1>9, <2>2, <2>3, <2>4, ThreeModes DEF m, r
  <1>10. CASE m \in Autoscan
    <2>1. r = update_autoscan(off) BY <1>2, <1>7, <1>10, ThreeModes
    <2>2. Frame(off, r, {"tasks"}) /\ r.tasks = off.tasks \cup {"trigger"}
      BY <2>1, <1>6, TriggerFields
    <2> HIDE DEF r
    <2>3. Frame(l, r, F \cup {"net"}) BY <1>8, <2>2 DEF Frame
    <2>4. /\ r.net = off.net /\ r.state = off.state /\ r.mode = off.mode /\ r.scheduled = off.scheduled
          /\ r.events = off.events /\ r.due = off.due /\ r.scanend = off.scanend
          /\ r.opportunistic = off.opportunistic
      BY <2>2 DEF Frame, Fields
    <2> QED BY <1>2, <1>3, <1>5, <1>8a, <1>10, <2>2, <2>3, <2>4, ThreeModes DEF m, r
  <1>11. CASE m = OPPORTUNISTIC
    <2>1. r = [on EXCEPT !.due = -Cycle] BY <1>2, <1>7, <1>11, ThreeModes
    <2>2. Frame(on, r, {"due"}) /\ r.due = -Cycle
      BY <2>1, <1>1, <1>6, DueFields
    <2> HIDE DEF r
    <2>3. Frame(l, r, F \cup {"net"}) BY <1>8, <2>2 DEF Frame
    <2>4. /\ r.net = on.net /\ r.state = on.state /\ r.mode = on.mode /\ r.scheduled = on.scheduled
          /\ r.events = on.events /\ r.tasks = on.tasks /\ r.scanend = on.scanend
          /\ r.opportunistic = on.opportunistic
      BY <2>2 DEF Frame, Fields
    <2> QED BY <1>2, <1>3, <1>5, <1>8a, <1>11, <2>2, <2>3, <2>4, ThreeModes DEF m, r
  <1> QED BY <1>2, <1>9, <1>10, <1>11, ThreeModes

-----------------------------------------------------------------------------
(* An event that was handled without effect is no longer owed to the       *)
(* invariant.                                                              *)
LEMMA Drop ==
    ASSUME NEW l, NEW E, NEW e, Base(l, E \cup {e}),
           l.state # "IDLE" \/ e \notin {"ONLINE", "SCAN_STARTED"}
    PROVE  Base(l, E)
  <1> SUFFICES UseInv(l, E) /\ NrlsInv(l, E) /\ AutoInv(l, E) BY DEF Base
  <1>1. UseInv(l, E) BY DEF Base, UseInv
  <1>2. NrlsInv(l, E) BY DEF Base, NrlsInv
  <1>3. AutoInv(l, E) BY DEF Base, AutoInv
  <1> QED BY <1>1, <1>2, <1>3

(* schedule_next after an update establishes the invariant.                *)
LEMMA NewSchedule ==
    ASSUME NEW l, Ready(l), NEW next \in 0 .. Cycle, next <= get_update_period(l),
           next = 0 => "SCAN_END" \notin Range(l.queue)
    PROVE  InvOf(new_schedule(l, next, TRUE))
  <1> DEFINE r == new_schedule(l, next, TRUE)
             m == l.settings.mode
             E == Range(l.queue)
  <1>1. l \in Libs /\ l.settings # NULL BY DEF Ready
  <1>2. m \in Modes BY <1>1, SettingsMode
  <1>3. /\ Frame(l, r, {"tasks", "state", "mode", "scheduled", "events", "due", "scanend", "opportunistic",
                        "beacons", "net"})
        /\ r.tasks = (l.tasks \ {"trigger", "timeout"}) \cup (IF m \in Autoscan THEN {"trigger"} ELSE {})
        /\ r.state = "IDLE" /\ r.mode = m /\ r.scheduled = TRUE /\ r.events = {}
        /\ r.due = IF m = OPPORTUNISTIC THEN -Cycle ELSE next
        /\ r.scanend = (m \notin Autoscan) /\ r.opportunistic = (m \notin Autoscan)
        /\ r.net = IF m = NRLS /\ l.net = "ONLINE" THEN "ENTERING" ELSE l.net
    BY <1>1, NewScheduleFields
  <1> HIDE DEF r
  <1>4. /\ r \in Libs /\ r.started = l.started /\ r.settings = l.settings /\ r.appcfg = l.appcfg
        /\ r.queue = l.queue /\ r.scan_pending = l.scan_pending /\ r.scanning = l.scanning
        /\ r.dynamic = l.dynamic /\ r.outside_wm = l.outside_wm
    BY <1>3 DEF Frame, Fields
  <1>5. UseInv(r, E) BY <1>2, <1>3, <1>4, ThreeModes DEF UseInv, Ready
  <1>6. NrlsInv(r, E) BY <1>3 DEF NrlsInv
  <1>7. OppInv(r) BY <1>2, <1>3, <1>4, ThreeModes DEF OppInv, Ready
  <1>8. AutoInv(r, E)
    <2> SUFFICES ASSUME m \in Autoscan PROVE AutoInv(r, E) BY <1>3 DEF AutoInv
    <2>1. r.due = next BY <1>2, <1>3, ThreeModes
    <2>2. next \in Nat BY CyclePositive
    <2>3. ~r.scanend /\ ~r.opportunistic /\ "trigger" \in r.tasks BY <1>3
    <2>4. ~r.scan_pending /\ ~("ONESHOT" \in E /\ "SCAN_END" \in E) BY <1>4 DEF Ready
    <2>5. r.due >= 0 /\ ("SCAN_END" \in E => r.due > 0) BY <2>1, <2>2
    <2> HIDE DEF E
    <2> QED BY <2>3, <2>4, <2>5 DEF AutoInv
  <1>9. PeriodInv(r, E)
    <2>1. get_update_period(r) = get_update_period(l) BY <1>4 DEF get_update_period
    <2>2. get_update_period(l) \in Nat BY <1>1, PeriodRange, CyclePositive
    <2> QED BY <1>3, <2>1, <2>2, CyclePositive DEF PeriodInv
  <1>10. OwedInv(r) BY <1>3 DEF OwedInv
  <1> QED BY <1>4, <1>5, <1>6, <1>7, <1>8, <1>9, <1>10 DEF InvOf, Base, r

(* Moving the update that is scheduled keeps the invariant.                *)
LEMMA InvDue ==
    ASSUME NEW l, NEW E, NEW next \in 0 .. Cycle, Base(l, E), OwedInv(l), l.started, l.scheduled,
           next <= get_update_period(l), E = Range(l.queue),
           l.mode \in Autoscan => ~l.scanend /\ ("SCAN_END" \in E => next > 0),
           "ONESHOT" \in E /\ "SCAN_END" \in E => l.state = "UPDATE" \/ next = 0 \/ l.mode \notin Autoscan
    PROVE  InvOf(update_autoscan([l EXCEPT !.due = next]))
  <1> DEFINE d == [l EXCEPT !.due = next]
             r == update_autoscan(d)
  <1>0. l \in Libs /\ next \in -Cycle .. Cycle /\ next \in Nat BY CyclePositive DEF Base
  <1>1. Frame(l, d, {"due"}) /\ d.due = next BY <1>0, DueFields
  <1>2. d \in Libs BY <1>1 DEF Frame
  <1>3. Frame(d, r, {"tasks"}) /\ r.tasks = d.tasks \cup {"trigger"} BY <1>2, TriggerFields
  <1> HIDE DEF d, r
  <1>4. /\ r \in Libs /\ r.started = l.started /\ r.settings = l.settings /\ r.appcfg = l.appcfg
        /\ r.queue = l.queue /\ r.scan_pending = l.scan_pending /\ r.scanning = l.scanning
        /\ r.dynamic = l.dynamic /\ r.outside_wm = l.outside_wm /\ r.registered = l.registered
        /\ r.state = l.state /\ r.scheduled = l.scheduled /\ r.mode = l.mode /\ r.net = l.net
        /\ r.scanend = l.scanend /\ r.opportunistic = l.opportunistic /\ r.events = l.events
        /\ r.tasks = l.tasks \cup {"trigger"} /\ r.due = next
    BY <1>1, <1>3 DEF Frame, Fields
  <1>5. UseInv(r, E) BY <1>4 DEF UseInv, Base
  <1>6. NrlsInv(r, E) BY <1>4 DEF NrlsInv, Base
  <1>7. OppInv(r) BY <1>4 DEF OppInv, Base
  <1>8. AutoInv(r, E) BY <1>0, <1>4 DEF AutoInv, Base
  <1>9. PeriodInv(r, E)
    <2>1. get_update_period(r) = get_update_period(l) BY <1>4 DEF get_update_period
    <2> QED BY <1>4, <2>1 DEF PeriodInv
  <1>10. OwedInv(r) BY <1>4 DEF OwedInv
  <1> QED BY <1>4, <1>5, <1>6, <1>7, <1>8, <1>9, <1>10 DEF InvOf, Base, r, d

(* schedule_next restores the invariant whatever the event was that calls  *)
(* for it.                                                                 *)
LEMMA ScheduleNext ==
    ASSUME NEW l, Base(l, Range(l.queue)), l.state # "STOPPED", l.state = "UPDATE" => "timeout" \in l.tasks
    PROVE  InvOf(schedule_next(l, FALSE, TRUE))
  <1> DEFINE E == Range(l.queue)
             p == get_update_period(l)
             next == p - Elapsed(l, p)
             r == schedule_next(l, FALSE, TRUE)
  <1>1. l \in Libs /\ l.started /\ l.settings # NULL BY DEF Base, UseInv
  <1>2. p \in 1 .. Cycle /\ next \in 1 .. p BY <1>1, PeriodRange, NextRange
  <1>3. next \in 0 .. Cycle /\ next <= p /\ next > 0 BY <1>2, CyclePositive
  <1>3a. l.due \in Int BY <1>1, CyclePositive DEF Libs
  <1>4. r = CASE l.scheduled /\ (Kept(l, next) \/ next = l.due) -> l
              [] l.scheduled /\ ~Kept(l, next) /\ next # l.due -> update_autoscan([l EXCEPT !.due = next])
              [] OTHER -> new_schedule(l, next, TRUE)
    BY <1>1 DEF schedule_next
  <1> HIDE DEF next
  <1>5. CASE l.scheduled /\ (Kept(l, next) \/ next = l.due)
    <2>1. r = l BY <1>4, <1>5
    <2>2. l.due <= p BY <1>3, <1>3a, <1>2, <1>5, CyclePositive DEF Kept
    <2> QED BY <1>1, <1>5, <2>1, <2>2 DEF InvOf, PeriodInv, OwedInv
  <1>6. CASE l.scheduled /\ ~Kept(l, next) /\ next # l.due
    <2>1. r = update_autoscan([l EXCEPT !.due = next]) BY <1>4, <1>6
    <2>2. l.due > 0 BY <1>3, <1>3a, <1>6 DEF Kept
    <2>3. OwedInv(l) BY <1>1, <1>6 DEF OwedInv
    <2>4. l.mode \in Autoscan => ~l.scanend BY <2>2, <1>3a, <1>6 DEF Base, AutoInv
    <2>5. "ONESHOT" \in E /\ "SCAN_END" \in E => l.state = "UPDATE" \/ l.mode \notin Autoscan
      BY <2>2, <1>3a, <1>6 DEF Base, AutoInv
    <2> QED BY <1>1, <1>3, <1>6, <2>1, <2>3, <2>4, <2>5, InvDue
  <1>7. CASE ~l.scheduled
    <2>1. r = new_schedule(l, next, TRUE) BY <1>4, <1>7
    <2>2. Ready(l) BY <1>1, <1>7 DEF Ready, Base, UseInv
    <2>3. next # 0 BY <1>3
    <2> QED BY <1>3, <2>1, <2>2, <2>3, NewSchedule, Zenon
  <1> QED BY <1>5, <1>6, <1>7

(* So does schedule_next for an update now.                                *)
LEMMA ScheduleNow ==
    ASSUME NEW l, Base(l, Range(l.queue) \cup {"ONESHOT"}), l.state = "IDLE", OwedInv(l)
    PROVE  InvOf(schedule_next(l, TRUE, TRUE))
  <1> DEFINE E == Range(l.queue)
             r == schedule_next(l, TRUE, TRUE)
  <1>1. l \in Libs /\ l.started /\ l.settings # NULL BY DEF Base, UseInv
  <1>2. get_update_period(l) \in Nat /\ 0 \in 0 .. Cycle /\ 0 <= get_update_period(l)
    BY <1>1, PeriodRange, CyclePositive
  <1>3a. l.due \in Int BY <1>1, CyclePositive DEF Libs
  <1>4. r = CASE l.scheduled /\ 0 = l.due -> l
              [] l.scheduled /\ 0 # l.due -> update_autoscan([l EXCEPT !.due = 0])
              [] OTHER -> new_schedule(l, 0, TRUE)
    BY <1>1 DEF schedule_next
  <1>0. Base(l, E) BY Drop
  <1>5. CASE l.scheduled /\ l.due = 0
    <2>1. r = l BY <1>4, <1>5
    <2> QED BY <1>0, <1>2, <1>5, <2>1 DEF InvOf, PeriodInv
  <1>6. CASE l.scheduled /\ l.due # 0
    <2>1. r = update_autoscan([l EXCEPT !.due = 0]) BY <1>4, <1>6
    <2>2. l.mode \in Autoscan => ~l.scanend /\ "SCAN_END" \notin E BY <1>6 DEF Base, AutoInv
    <2> QED BY <1>0, <1>1, <1>2, <1>6, <2>1, <2>2, InvDue
  <1>7. CASE ~l.scheduled
    <2>1. r = new_schedule(l, 0, TRUE) BY <1>4, <1>7
    <2>2. Ready(l) BY <1>0, <1>1, <1>7 DEF Ready, Base, UseInv
    <2>3. "SCAN_END" \notin E BY <1>7 DEF Base, UseInv
    <2> QED BY <1>2, <2>1, <2>2, <2>3, NewSchedule
  <1> QED BY <1>5, <1>6, <1>7

-----------------------------------------------------------------------------
(* The settings are the old ones or those of the app config.               *)
SettingsKept(l, r) == r.settings = l.settings \/ (r.settings = l.appcfg /\ l.appcfg # NULL)

(* What schedule_next needs holds from the event that ends the update on.  *)
LEMMA ReadyFrame ==
    ASSUME NEW l, NEW r, Ready(l), Tame(l.queue, r.queue), SettingsKept(l, r),
           Frame(l, r, Fields \ {"started", "appcfg", "net", "scan_pending", "scanning"})
    PROVE  Ready(r)
  <1>1. /\ r \in Libs /\ r.started = l.started /\ r.appcfg = l.appcfg
        /\ r.net = l.net /\ r.scan_pending = l.scan_pending /\ r.scanning = l.scanning
    BY DEF Frame, Fields
  <1>2. /\ Ordered(r.queue)
        /\ "ONESHOT" \in Range(r.queue) => "ONESHOT" \in Range(l.queue)
        /\ "SCAN_END" \in Range(r.queue) => "SCAN_END" \in Range(l.queue)
    BY DEF Tame, Ready
  <1>3. r.settings # NULL /\ r.settings.mode = l.settings.mode BY DEF Ready, SettingsKept
  <1> QED BY <1>1, <1>2, <1>3 DEF Ready

LEMMA ReadyUpdate ==
    ASSUME NEW l, NEW E, NEW e, Base(l, E \cup {e}), E = Range(l.queue), l.state # "STOPPED",
           \/ l.mode = NRLS
           \/ e = "SCAN_END" /\ "ONESHOT" \notin E
           \/ ~l.scanning /\ "SCAN_END" \notin E
    PROVE  Ready(l)
  <1>1. l \in Libs /\ l.settings # NULL /\ l.started BY DEF Base, UseInv
  <1>2. l.settings.mode \in Modes BY <1>1, SettingsMode
  <1>3. /\ l.appcfg # NULL => l.appcfg.mode = l.settings.mode
        /\ Ordered(l.queue)
        /\ l.settings.mode # NRLS => l.net = "ONLINE"
    BY DEF Base, UseInv
  <1>4. CASE ~l.scheduled
    BY <1>1, <1>3, <1>4 DEF Ready, Base, UseInv
  <1>5. CASE l.scheduled
    <2>1. l.mode = l.settings.mode BY <1>5 DEF Base, UseInv
    <2>2. l.settings.mode = OPPORTUNISTIC => (l.scan_pending => l.scanning)
      BY <1>1, <1>5, <2>1 DEF Base, OppInv
    <2>3. l.settings.mode \in Autoscan => ~l.scan_pending /\ ~("ONESHOT" \in E /\ "SCAN_END" \in E)
      BY <1>2, <1>5, <2>1, ThreeModes DEF Base, AutoInv
    <2> QED BY <1>1, <1>3, <2>2, <2>3 DEF Ready
  <1> QED BY <1>4, <1>5

(* The end of a scan: it fails, or a measurement is sent and a timeout     *)
(* set.                                                                    *)
LEMMA ScanEndedFields ==
    ASSUME NEW l \in Libs, NEW send \in SendOutcomes, send = "sent" => l.in_flight < MaxInFlight
    PROVE  LET r == ScanEnded(l, send)
           IN /\ Frame(l, r, {"tasks", "queue", "outside_wm", "events", "in_flight"})
              /\ Tame(l.queue, r.queue)
              /\ \/ "scan_fail" \in r.events
                 \/ /\ r.tasks = l.tasks \cup {"timeout"}
                    /\ r.events \subseteq (l.events \cup {"data_sent"}) \ {"scan_fail"}
  <1> DEFINE c == cancelTask(l, "timeout")
             o == update_outside_wm(c)
             s == send_measurement_message(o, send)
             r == ScanEnded(l, send)
  <1>0. SendOutcomes \subseteq {"sent", "refused", "no_buffer"} /\ MaxInFlight \in Nat BY PosLibAssumption
  <1>1. Frame(l, c, {"tasks"}) /\ c.tasks = l.tasks \ {"timeout"}
    BY TaskFields DEF TaskNames
  <1>2. Frame(c, o, {"outside_wm", "queue"}) /\ Tame(c.queue, o.queue)
    <2>1. c \in Libs BY <1>1 DEF Frame
    <2> HIDE DEF c
    <2>2. CASE c.beacons = ~c.outside_wm
      <3>1. o = c BY <2>2 DEF update_outside_wm
      <3>2. c.queue \in Seq(Events) BY <2>1 DEF Libs
      <3> QED BY <2>1, <3>1, <3>2, TameSelf DEF Frame
    <2>3. CASE c.beacons # ~c.outside_wm
      <3> DEFINE x == [c EXCEPT !.outside_wm = ~c.outside_wm]
                 e == IF c.outside_wm THEN "UNDER_WM" ELSE "OUTSIDE_WM"
      <3>1. o = PosLibEvent_add(x, e) BY <2>3 DEF update_outside_wm
      <3>2. e \in Events \ {"ONESHOT", "SCAN_END"} BY DEF Events
      <3>3. Frame(c, x, {"outside_wm"}) BY <2>1, SwitchFields
      <3>4. x \in Libs BY <3>3 DEF Frame
      <3> HIDE DEF x, e
      <3>5. Frame(x, PosLibEvent_add(x, e), {"queue"}) /\ Tame(x.queue, PosLibEvent_add(x, e).queue)
        BY <3>2, <3>4, EventAdd
      <3>6. x.queue = c.queue BY <3>3 DEF Frame, Fields
      <3> QED BY <3>1, <3>3, <3>5, <3>6 DEF Frame
    <2> QED BY <2>2, <2>3
  <1>3. o \in Libs /\ o.in_flight = l.in_flight /\ o.beacons \in BOOLEAN /\ o.tasks = c.tasks /\ o.events = l.events
        /\ c.queue = l.queue
    BY <1>1, <1>2 DEF Frame, Fields, Libs
  <1> HIDE DEF c, o
  <1>4. CASE o.beacons
    <2>1. r = set_timeout([s EXCEPT !.events = s.events \ {"scan_fail"}]) BY <1>4 DEF ScanEnded, o, c
    <2>2. Frame(o, s, {"events", "in_flight"}) /\ s.events \subseteq o.events \cup {"data_sent"}
      <3>1. CASE send = "sent"
        <4> DEFINE v == o.events \cup {"data_sent"}
                   n == o.in_flight + 1
        <4>1. s = [o EXCEPT !.events = v, !.in_flight = n]
          BY <3>1 DEF send_measurement_message
        <4>2. n \in 0 .. MaxInFlight BY <3>1, <1>3, <1>0 DEF Libs
        <4>3. v \in SUBSET Flags BY <1>3 DEF Libs, Flags
        <4> HIDE DEF s, v, n
        <4>4. Frame(o, s, {"events", "in_flight"}) /\ s.events = v BY <4>1, <4>2, <4>3, <1>3, SentFields
        <4> QED BY <4>4 DEF v
      <3>2. CASE send = "refused"
        <4>1. s = [o EXCEPT !.events = o.events \ {"data_sent"}] BY <3>2 DEF send_measurement_message
        <4> QED BY <4>1, <1>3 DEF Libs, Frame, Fields
      <3>3. CASE send = "no_buffer"
        <4>1. s = o BY <3>3 DEF send_measurement_message
        <4> QED BY <4>1, <1>3 DEF Frame
      <3> QED BY <3>1, <3>2, <3>3, <1>0
    <2>3. s \in Libs BY <2>2 DEF Frame
    <2> HIDE DEF s
    <2>4. Frame(s, r, {"events", "tasks"}) /\ r.tasks = s.tasks \cup {"timeout"} /\ r.events = s.events \ {"scan_fail"}
      <3> DEFINE x == [s EXCEPT !.events = s.events \ {"scan_fail"}]
      <3>1. s.events \ {"scan_fail"} \in SUBSET Flags
        BY <2>3 DEF Libs, Flags
      <3>2. Frame(s, x, {"events"}) /\ x.events = s.events \ {"scan_fail"} BY <3>1, <2>3, EventsFields
      <3>3. x \in Libs BY <3>2 DEF Frame
      <3> HIDE DEF x
      <3>4. Frame(x, addTask(x, "timeout"), {"tasks"}) /\ addTask(x, "timeout").tasks = x.tasks \cup {"timeout"}
        BY <3>3, TaskFields DEF TaskNames
      <3>5. r = addTask(x, "timeout") BY <2>1 DEF set_timeout, x
      <3> HIDE DEF r
      <3> QED BY <3>2, <3>4, <3>5 DEF Frame, Fields
    <2> HIDE DEF r
    <2>5. s.tasks = o.tasks /\ s.queue = o.queue /\ r.queue = s.queue BY <2>2, <2>4 DEF Frame, Fields
    <2>6. Frame(l, r, {"tasks", "queue", "outside_wm", "events", "in_flight"})
      BY <1>1, <1>2, <2>2, <2>4 DEF Frame
    <2>7. r.tasks = l.tasks \cup {"timeout"} BY <1>1, <1>3, <2>4, <2>5
    <2>8. r.events \subseteq (l.events \cup {"data_sent"}) \ {"scan_fail"} BY <1>3, <2>2, <2>4
    <2>9. Tame(l.queue, r.queue) BY <1>2, <1>3, <2>5
    <2> QED BY <2>6, <2>7, <2>8, <2>9 DEF r
  <1>5. CASE ~o.beacons
    <2>1. r = Raised(o, "scan_fail") BY <1>5 DEF ScanEnded, o, c
    <2>2. Frame(o, r, {"events"}) /\ "scan_fail" \in r.events
      BY <1>3, <2>1, RaisedFields DEF Flags
    <2> HIDE DEF r
    <2>3. r.queue = o.queue BY <2>2 DEF Frame, Fields
    <2>4. Frame(l, r, {"tasks", "queue", "outside_wm", "events", "in_flight"})
      BY <1>1, <1>2, <2>2 DEF Frame
    <2>5. Tame(l.queue, r.queue) BY <1>2, <1>3, <2>3
    <2> QED BY <2>2, <2>4, <2>5 DEF r
  <1> QED BY <1>4, <1>5

(* While it is not stopped the library is started and has settings.        *)
LEMMA NotStopped ==
    ASSUME NEW l, NEW E, Base(l, E), l.state # "STOPPED"
    PROVE  l \in Libs /\ l.started /\ l.settings # NULL
  BY DEF Base, UseInv

(* An app config changes the settings only together with a CONFIG_CHANGE   *)
(* event.                                                                  *)
LEMMA AppcfgFields ==
    ASSUME NEW l \in Libs
    PROVE  LET r == process_appcfg(l)
           IN /\ Frame(l, r, {"settings", "queue"}) /\ Tame(l.queue, r.queue)
              /\ r.settings = l.settings
                 \/ (r.settings = l.appcfg /\ l.appcfg # NULL
                      /\ (Len(l.queue) + l.busy < MAX_INTERNAL_EVENTS => "CONFIG_CHANGE" \in Range(r.queue)))
  <1> DEFINE r == process_appcfg(l)
  <1>0. l.queue \in Seq(Events) BY DEF Libs
  <1>1. CASE l.appcfg \in {NULL, l.settings}
    <2>1. r = l BY <1>1 DEF process_appcfg
    <2> QED BY <1>0, <2>1, TameSelf DEF Frame
  <1>2. CASE l.appcfg \notin {NULL, l.settings}
    <2> DEFINE x == [l EXCEPT !.settings = l.appcfg]
    <2>1. r = PosLibEvent_add(x, "CONFIG_CHANGE") BY <1>2 DEF process_appcfg
    <2>2. l.appcfg \in Settings BY <1>2, PosLibAssumption DEF Libs
    <2>3. Frame(l, x, {"settings"}) /\ x.settings = l.appcfg BY <2>2 DEF Libs, Frame, Fields
    <2>4. x \in Libs BY <2>3 DEF Frame
    <2> HIDE DEF x
    <2>5. "CONFIG_CHANGE" \in Events \ {"ONESHOT", "SCAN_END"} BY DEF Events
    <2>6. /\ Frame(x, r, {"queue"}) /\ Tame(x.queue, r.queue)
          /\ Len(x.queue) + x.busy < MAX_INTERNAL_EVENTS => r.queue = Append(x.queue, "CONFIG_CHANGE")
      BY <2>1, <2>4, <2>5, EventAdd
    <2> HIDE DEF r
    <2>7. x.queue = l.queue /\ x.busy = l.busy /\ r.settings = x.settings BY <2>3, <2>6 DEF Frame, Fields
    <2>8. Range(Append(l.queue, "CONFIG_CHANGE")) = Range(l.queue) \cup {"CONFIG_CHANGE"}
      BY <1>0, <2>5, AppendRange
    <2>9. Frame(l, r, {"settings", "queue"}) BY <2>3, <2>6 DEF Frame
    <2> QED BY <1>2, <2>3, <2>6, <2>7, <2>8, <2>9 DEF r
  <1> QED BY <1>1, <1>2

(* handle_update_state, when the update is not completed.                  *)
LEMMA UpdateGoesOn ==
    ASSUME NEW l, NEW r, NEW e, Base(l, Range(l.queue) \cup {e}), l.state = "UPDATE",
           Frame(l, r, {"tasks", "queue", "outside_wm", "events", "in_flight", "settings"}),
           Tame(l.queue, r.queue), SettingsKept(l, r), r.tasks = l.tasks \cup {"timeout"},
           "timeout" \notin r.events, "scan_fail" \notin r.events, r.mode # NRLS => "data_sent" \notin r.events
    PROVE  InvOf(r)
  <1> DEFINE E == Range(l.queue)
             D == Range(r.queue)
  <1>0. Base(l, E) BY Drop
  <1>1. /\ r \in Libs /\ r.started = l.started /\ r.appcfg = l.appcfg /\ r.due = l.due
        /\ r.scan_pending = l.scan_pending /\ r.scanning = l.scanning
        /\ r.registered = l.registered /\ r.state = l.state /\ r.scheduled = l.scheduled /\ r.mode = l.mode
        /\ r.net = l.net /\ r.scanend = l.scanend /\ r.opportunistic = l.opportunistic
    BY DEF Frame, Fields
  <1>2. /\ Ordered(r.queue)
        /\ "ONESHOT" \in D => "ONESHOT" \in E
        /\ "SCAN_END" \in D => "SCAN_END" \in E
    BY <1>0 DEF Tame, Base, UseInv
  <1>3. "timeout" \notin r.events /\ "scan_fail" \notin r.events /\ (r.mode # NRLS => "data_sent" \notin r.events)
    OBVIOUS
  <1>4. l.started /\ l.settings # NULL BY <1>0 DEF Base, UseInv
  <1>5. r.settings # NULL /\ r.settings.mode = l.settings.mode BY <1>0, <1>4 DEF Base, UseInv, SettingsKept
  <1>6. UseInv(r, D)
    <2> HIDE DEF E, D
    <2> QED BY <1>0, <1>1, <1>2, <1>3, <1>4, <1>5 DEF Base, UseInv
  <1>7. NrlsInv(r, D) /\ OppInv(r) BY <1>0, <1>1 DEF Base, NrlsInv, OppInv
  <1>8. AutoInv(r, D)
    <2> HIDE DEF E, D
    <2> QED BY <1>0, <1>1, <1>2 DEF Base, AutoInv
  <1>9. PeriodInv(r, D) /\ OwedInv(r) BY <1>1 DEF PeriodInv, OwedInv
  <1> QED BY <1>1, <1>6, <1>7, <1>8, <1>9 DEF InvOf, Base

(* handle_update_state, when it is: last_update_s is set and the next      *)
(* update scheduled.                                                       *)
LEMMA UpdateEnds ==
    ASSUME NEW r, Ready(r), r.state = "UPDATE"
    PROVE  LET done == [r EXCEPT !.scheduled = FALSE,
                                 !.since = IF r.due > 0 THEN -r.due ELSE (-r.due) % Cycle]
           IN InvOf(schedule_next(PosLibEvent_add(done, "UPDATE_END"), FALSE, TRUE))
  <1> DEFINE since == IF r.due > 0 THEN -r.due ELSE (-r.due) % Cycle
             done == [r EXCEPT !.scheduled = FALSE, !.since = since]
             a == PosLibEvent_add(done, "UPDATE_END")
  <1>0. r \in Libs BY DEF Ready
  <1>1. since \in -Cycle .. Cycle - 1
    <2>1. r.due \in Int /\ r.due \in -Cycle .. Cycle /\ Cycle \in Nat \ {0} BY <1>0, CyclePositive DEF Libs
    <2> DEFINE d == -r.due
    <2>2. d \in Int /\ d \in -Cycle .. Cycle BY <2>1
    <2> HIDE DEF d
    <2>3. d % Cycle \in 0 .. Cycle - 1 BY <2>1, <2>2, Remainder
    <2>4. d < 0 => d \in -Cycle .. Cycle - 1 BY <2>1, <2>2
    <2>5. d % Cycle \in -Cycle .. Cycle - 1 BY <2>1, <2>3
    <2>6. r.due > 0 => d < 0 BY <2>1 DEF d
    <2> QED BY <2>4, <2>5, <2>6 DEF d
  <1> HIDE DEF since
  <1>2. Frame(r, done, {"scheduled", "since"}) /\ ~done.scheduled
    BY <1>0, <1>1 DEF Libs, Frame, Fields
  <1>3. done \in Libs BY <1>2 DEF Frame
  <1> HIDE DEF done
  <1>4. "UPDATE_END" \in Events \ {"ONESHOT", "SCAN_END"} BY DEF Events
  <1>5. Frame(done, a, {"queue"}) /\ Tame(done.queue, a.queue) BY <1>3, <1>4, EventAdd
  <1> HIDE DEF a
  <1>6. /\ done.queue = r.queue /\ a.settings = r.settings /\ a.state = "UPDATE" /\ ~a.scheduled /\ a \in Libs
    BY <1>2, <1>5 DEF Frame, Fields
  <1>7. Frame(r, a, {"scheduled", "since", "queue"}) BY <1>2, <1>5 DEF Frame
  <1>7a. Frame(r, a, Fields \ {"started", "appcfg", "net", "scan_pending", "scanning"})
    BY <1>7 DEF Frame, Fields
  <1>8. Ready(a) BY <1>5, <1>6, <1>7a, ReadyFrame DEF SettingsKept
  <1> DEFINE p == get_update_period(a)
             next == p - Elapsed(a, p)
  <1>9. a.settings # NULL BY <1>8 DEF Ready
  <1>10. p \in 1 .. Cycle /\ next \in 1 .. p BY <1>6, <1>9, PeriodRange, NextRange
  <1>11. schedule_next(a, FALSE, TRUE) = new_schedule(a, next, TRUE) BY <1>6 DEF schedule_next
  <1> HIDE DEF next
  <1>12. next \in 0 .. Cycle /\ next <= p /\ next # 0 BY <1>10, CyclePositive
  <1>13. InvOf(new_schedule(a, next, TRUE)) BY <1>8, <1>12, NewSchedule, Zenon
  <1> QED BY <1>11, <1>13 DEF a, done, since

(* handle_update_state keeps the invariant for every event.                *)
LEMMA HandleUpdate ==
    ASSUME NEW l, NEW e, NEW send \in SendOutcomes, send = "sent" => l.in_flight < MaxInFlight,
           Base(l, Range(l.queue) \cup {e}), l.state = "UPDATE",
           e \notin {"SCAN_END", "TIMEOUT"} => "timeout" \in l.tasks,
           e = "SCAN_END" => "ONESHOT" \notin Range(l.queue),
           e = "TIMEOUT" => ~l.scanning /\ "SCAN_END" \notin Range(l.queue)
    PROVE  InvOf(handle_update_state(l, e, send, TRUE))
  <1> DEFINE r == CASE e = "SCAN_END"  -> ScanEnded(l, send)
                    [] e = "APPCFG"    -> Raised(process_appcfg(l), "app_cfg")
                    [] e = "DATA_SENT" -> Raised(l, "data_sent_complete")
                    [] e = "TIMEOUT"   -> Raised(l, "timeout")
                    [] OTHER           -> l
             done == [r EXCEPT !.scheduled = FALSE,
                               !.since = IF r.due > 0 THEN -r.due ELSE (-r.due) % Cycle]
             F == {"tasks", "queue", "outside_wm", "events", "in_flight", "settings"}
             G == Fields \ {"started", "appcfg", "net", "scan_pending", "scanning"}
  <1>1. handle_update_state(l, e, send, TRUE) =
          IF is_update_completed(r) THEN schedule_next(PosLibEvent_add(done, "UPDATE_END"), FALSE, TRUE) ELSE r
    BY DEF handle_update_state
  <1>2. l \in Libs /\ l.queue \in Seq(Events) BY DEF Base, Libs
  <1>3. /\ Frame(l, r, F) /\ Tame(l.queue, r.queue) /\ SettingsKept(l, r)
        /\ e = "TIMEOUT" => "timeout" \in r.events
        /\ \/ is_update_completed(r) \/ r.tasks = l.tasks \cup {"timeout"}
        /\ e \notin {"SCAN_END", "TIMEOUT"} /\ "data_sent" \in r.events => "data_sent" \in l.events
        /\ e \notin {"SCAN_END", "TIMEOUT"} => "timeout" \notin r.events /\ "scan_fail" \notin r.events
    <2>1. CASE e = "SCAN_END"
      <3>1. r = ScanEnded(l, send) BY <2>1
      <3> DEFINE s == ScanEnded(l, send)
      <3>2. /\ Frame(l, s, {"tasks", "queue", "outside_wm", "events", "in_flight"})
            /\ Tame(l.queue, s.queue)
            /\ "scan_fail" \in s.events \/ s.tasks = l.tasks \cup {"timeout"}
        BY <1>2, ScanEndedFields
      <3> HIDE DEF s
      <3>3. Frame(l, s, F) /\ SettingsKept(l, s) BY <3>2 DEF Frame, Fields, SettingsKept
      <3>4. "scan_fail" \in s.events => is_update_completed(s) BY DEF is_update_completed
      <3> QED BY <2>1, <3>1, <3>2, <3>3, <3>4 DEF s
    <2>2. CASE e = "APPCFG"
      <3> DEFINE c == process_appcfg(l)
                 s == Raised(c, "app_cfg")
      <3>1. r = s BY <2>2
      <3>2. Frame(l, c, {"settings", "queue"}) /\ Tame(l.queue, c.queue) /\ SettingsKept(l, c)
        BY <1>2, AppcfgFields DEF SettingsKept
      <3>3. c \in Libs BY <3>2 DEF Frame
      <3> HIDE DEF c
      <3>4. Frame(c, s, {"events"}) /\ s.events = c.events \cup {"app_cfg"} BY <3>3, RaisedFields DEF Flags
      <3> HIDE DEF s
      <3>5. /\ s.queue = c.queue /\ s.settings = c.settings /\ c.events = l.events
            /\ c.tasks = l.tasks /\ s.tasks = c.tasks
        BY <3>2, <3>4 DEF Frame, Fields
      <3>6. Frame(l, s, F) BY <3>2, <3>4 DEF Frame
      <3>7. "timeout" \notin l.events /\ "scan_fail" \notin l.events BY DEF Base, UseInv
      <3>8. SettingsKept(l, s) BY <3>2, <3>5 DEF SettingsKept
      <3>9. s.tasks = l.tasks \cup {"timeout"} BY <2>2, <3>5
      <3> HIDE DEF r
      <3> QED BY <2>2, <3>1, <3>2, <3>4, <3>5, <3>6, <3>7, <3>8, <3>9
    <2>3. CASE e \in {"DATA_SENT", "TIMEOUT"}
      <3> DEFINE f == IF e = "DATA_SENT" THEN "data_sent_complete" ELSE "timeout"
                 s == Raised(l, f)
      <3>1. r = s BY <2>3
      <3>1a. f \in Flags BY DEF Flags
      <3>1b. (e = "TIMEOUT" => f = "timeout") /\ (e # "TIMEOUT" => f = "data_sent_complete") BY <2>3
      <3> HIDE DEF f
      <3>2. Frame(l, s, {"events"}) /\ s.events = l.events \cup {f} BY <1>2, <3>1a, RaisedFields
      <3> HIDE DEF s
      <3>3. s.queue = l.queue /\ s.settings = l.settings /\ s.tasks = l.tasks BY <3>2 DEF Frame, Fields
      <3>4. Frame(l, s, F) /\ SettingsKept(l, s) BY <3>2, <3>3 DEF Frame, SettingsKept
      <3>5. "timeout" \notin l.events /\ "scan_fail" \notin l.events BY DEF Base, UseInv
      <3>6. Tame(l.queue, s.queue) BY <1>2, <3>3, TameSelf
      <3>7. "timeout" \in s.events => is_update_completed(s) BY DEF is_update_completed
      <3> HIDE DEF r
      <3>8. is_update_completed(s) \/ s.tasks = l.tasks \cup {"timeout"} BY <2>3, <3>1b, <3>2, <3>3, <3>7
      <3> QED BY <2>3, <3>1, <3>1b, <3>2, <3>4, <3>5, <3>6, <3>8
    <2>4. CASE e \notin {"SCAN_END", "APPCFG", "DATA_SENT", "TIMEOUT"}
      <3>1. r = l BY <2>4
      <3> HIDE DEF r
      <3>2. Frame(l, r, F) /\ SettingsKept(l, r) BY <1>2, <3>1 DEF Frame, SettingsKept
      <3>3. "timeout" \notin l.events /\ "scan_fail" \notin l.events BY DEF Base, UseInv
      <3>4. r.tasks = l.tasks \cup {"timeout"} BY <2>4, <3>1
      <3> QED BY <1>2, <2>4, <3>1, <3>2, <3>3, <3>4, TameSelf
    <2> QED BY <2>1, <2>2, <2>3, <2>4
  <1> HIDE DEF r
  <1>4. CASE is_update_completed(r)
    <2>1. r.mode = l.mode /\ r.state = "UPDATE" BY <1>3 DEF Frame, Fields
    <2>2. \/ l.mode = NRLS
          \/ e = "SCAN_END" /\ "ONESHOT" \notin Range(l.queue)
          \/ ~l.scanning /\ "SCAN_END" \notin Range(l.queue)
      <3>1. CASE e \in {"SCAN_END", "TIMEOUT"} BY <3>1
      <3>2. CASE e \notin {"SCAN_END", "TIMEOUT"}
        <4>1. "data_sent" \in l.events BY <1>3, <1>4, <3>2 DEF is_update_completed
        <4> QED BY <4>1 DEF Base, UseInv
      <3> QED BY <3>1, <3>2
    <2>3. Ready(l) BY <2>2, ReadyUpdate
    <2>4. Frame(l, r, G) BY <1>3 DEF Frame, Fields
    <2>5. Ready(r) BY <1>3, <2>3, <2>4, ReadyFrame
    <2> QED BY <1>1, <1>4, <2>1, <2>5, UpdateEnds
  <1>5. CASE ~is_update_completed(r)
    <2>1. "timeout" \notin r.events /\ "scan_fail" \notin r.events /\ (r.mode # NRLS => "data_sent" \notin r.events)
      BY <1>5 DEF is_update_completed
    <2>2. InvOf(r) BY <1>3, <1>5, <2>1, UpdateGoesOn
    <2> QED BY <1>1, <1>5, <2>2
  <1> QED BY <1>4, <1>5

-----------------------------------------------------------------------------
(* The fields that the invariant does not depend on.                       *)
LEMMA BaseFrame ==
    ASSUME NEW l, NEW r, NEW E, Base(l, E), Ordered(r.queue),
           Frame(l, r, {"dynamic", "outside_wm", "queue", "busy", "beacons", "since", "in_flight"})
    PROVE  Base(r, E)
  <1>1. /\ r \in Libs /\ r.started = l.started /\ r.appcfg = l.appcfg /\ r.due = l.due /\ r.settings = l.settings
        /\ r.scan_pending = l.scan_pending /\ r.scanning = l.scanning /\ r.events = l.events
        /\ r.registered = l.registered /\ r.state = l.state /\ r.scheduled = l.scheduled /\ r.mode = l.mode
        /\ r.net = l.net /\ r.scanend = l.scanend /\ r.opportunistic = l.opportunistic
        /\ r.tasks = l.tasks
    BY DEF Frame, Fields
  <1>2. UseInv(r, E) BY <1>1 DEF Base, UseInv
  <1>3. NrlsInv(r, E) /\ OppInv(r) BY <1>1 DEF Base, NrlsInv, OppInv
  <1>4. AutoInv(r, E) BY <1>1 DEF Base, AutoInv
  <1> QED BY <1>1, <1>2, <1>3, <1>4 DEF Base

LEMMA InvFrame ==
    ASSUME NEW l, NEW r, InvOf(l), Frame(l, r, {"busy", "beacons", "since", "in_flight"})
    PROVE  InvOf(r)
  <1>1. Base(r, Range(l.queue))
    <2>1. Frame(l, r, {"dynamic", "outside_wm", "queue", "busy", "beacons", "since", "in_flight"}) BY DEF Frame
    <2>2. Ordered(r.queue) BY DEF Frame, Fields, InvOf, Base, UseInv
    <2> QED BY <2>1, <2>2, BaseFrame DEF InvOf
  <1>2. /\ r.due = l.due /\ r.settings = l.settings /\ r.state = l.state /\ r.scheduled = l.scheduled
        /\ r.dynamic = l.dynamic /\ r.outside_wm = l.outside_wm /\ r.queue = l.queue /\ r.tasks = l.tasks
    BY DEF Frame, Fields
  <1>3. PeriodInv(r, Range(r.queue)) /\ OwedInv(r)
    BY <1>2 DEF InvOf, PeriodInv, OwedInv, get_update_period
  <1> QED BY <1>1, <1>2, <1>3 DEF InvOf

(* An update starts.                                                       *)
LEMMA ToUpdate ==
    ASSUME NEW l, NEW E, Base(l, E), l.state = "IDLE"
    PROVE  LET x == [l EXCEPT !.state = "UPDATE"]
           IN Base(x, E) /\ Frame(l, x, {"state"}) /\ x.state = "UPDATE"
  <1> DEFINE x == [l EXCEPT !.state = "UPDATE"]
  <1>1. Frame(l, x, {"state"}) /\ x.state = "UPDATE" BY DEF Base, Libs, Frame, Fields
  <1> HIDE DEF x
  <1>2. /\ x \in Libs /\ x.started = l.started /\ x.appcfg = l.appcfg /\ x.due = l.due /\ x.settings = l.settings
        /\ x.scan_pending = l.scan_pending /\ x.scanning = l.scanning /\ x.events = l.events
        /\ x.registered = l.registered /\ x.scheduled = l.scheduled /\ x.mode = l.mode
        /\ x.net = l.net /\ x.scanend = l.scanend /\ x.opportunistic = l.opportunistic
        /\ x.queue = l.queue /\ x.tasks = l.tasks
    BY <1>1 DEF Frame, Fields
  <1>3. UseInv(x, E) BY <1>1, <1>2 DEF Base, UseInv
  <1>4. NrlsInv(x, E) /\ OppInv(x) BY <1>1, <1>2 DEF Base, NrlsInv, OppInv
  <1>5. AutoInv(x, E) BY <1>1, <1>2 DEF Base, AutoInv
  <1> QED BY <1>1, <1>2, <1>3, <1>4, <1>5 DEF Base, x

(* An event that only raises a flag or changes the settings.               *)
LEMMA Undisturbed ==
    ASSUME NEW l, NEW r, NEW e, Base(l, Range(l.queue) \cup {e}), PeriodInv(l, Range(l.queue) \cup {e}), OwedInv(l),
           l.state = "IDLE" => e \notin {"ONLINE", "SCAN_STARTED", "CONFIG_CHANGE", "MOTION"},
           Frame(l, r, {"events", "beacons", "settings", "queue"}), Tame(l.queue, r.queue), SettingsKept(l, r),
           r.settings = l.settings \/ "CONFIG_CHANGE" \in Range(r.queue), l.started \/ r.settings = l.settings,
           r.events \subseteq l.events \cup {"app_cfg"}
    PROVE  InvOf(r)
  <1> DEFINE E == Range(l.queue)
             D == Range(r.queue)
  <1>0. Base(l, E) BY Drop
  <1>1. /\ r \in Libs /\ r.started = l.started /\ r.appcfg = l.appcfg /\ r.due = l.due
        /\ r.scan_pending = l.scan_pending /\ r.scanning = l.scanning /\ r.tasks = l.tasks
        /\ r.registered = l.registered /\ r.state = l.state /\ r.scheduled = l.scheduled /\ r.mode = l.mode
        /\ r.net = l.net /\ r.scanend = l.scanend /\ r.opportunistic = l.opportunistic
        /\ r.dynamic = l.dynamic /\ r.outside_wm = l.outside_wm
    BY DEF Frame, Fields
  <1>2. /\ Ordered(r.queue) /\ E \subseteq D
        /\ "ONESHOT" \in D => "ONESHOT" \in E
        /\ "SCAN_END" \in D => "SCAN_END" \in E
    BY <1>0 DEF Tame, Base, UseInv
  <1>3. /\ l.settings # NULL => r.settings # NULL
        /\ l.settings # NULL => r.settings.mode = l.settings.mode
    BY <1>0 DEF Base, UseInv, SettingsKept
  <1>4. PeriodInv(r, D)
    <2>1. r.settings = l.settings => get_update_period(r) = get_update_period(l) BY <1>1 DEF get_update_period
    <2> QED BY <1>1, <1>2, <2>1 DEF PeriodInv
  <1> HIDE DEF E, D
  <1>6. UseInv(r, D) BY <1>0, <1>1, <1>2, <1>3 DEF Base, UseInv
  <1>7. NrlsInv(r, D) /\ OppInv(r) BY <1>0, <1>1, <1>2 DEF Base, NrlsInv, OppInv
  <1>8. AutoInv(r, D) BY <1>0, <1>1, <1>2 DEF Base, AutoInv
  <1>9. OwedInv(r) BY <1>1 DEF OwedInv
  <1> QED BY <1>1, <1>4, <1>6, <1>7, <1>8, <1>9 DEF InvOf, Base, D

(* handle_idle_state keeps the invariant for every event.                  *)
LEMMA HandleIdle ==
    ASSUME NEW l, NEW e, NEW send \in SendOutcomes, send = "sent" => l.in_flight < MaxInFlight,
           Base(l, Range(l.queue) \cup {e}), PeriodInv(l, Range(l.queue) \cup {e}), OwedInv(l), l.state = "IDLE",
           e = "SCAN_END" => "ONESHOT" \notin Range(l.queue),
           Len(l.queue) + l.busy < MAX_INTERNAL_EVENTS
    PROVE  InvOf(handle_idle_state(l, e, send, TRUE))
  <1> DEFINE E == Range(l.queue)
             r == handle_idle_state(l, e, send, TRUE)
             x == [l EXCEPT !.state = "UPDATE"]
  <1>0. l \in Libs /\ l.queue \in Seq(Events) /\ l.started BY DEF Base, Libs, UseInv
  <1>1. Base(x, E \cup {e}) /\ Frame(l, x, {"state"}) /\ x.state = "UPDATE" BY ToUpdate
  <1>2. x.queue = l.queue /\ x.in_flight = l.in_flight /\ x \in Libs BY <1>1 DEF Frame, Fields
  <1>3. CASE e \in {"SCAN_STARTED", "ONLINE"}
    <2>1. r = addTask(x, "timeout") BY <1>3 DEF handle_idle_state, set_timeout
    <2> HIDE DEF x, r
    <2>2. Frame(x, r, {"tasks"}) /\ r.tasks = x.tasks \cup {"timeout"} BY <1>2, <2>1, TaskFields DEF TaskNames
    <2>3. /\ r.queue = x.queue /\ r.settings = x.settings /\ r.events = x.events /\ r.mode = x.mode
          /\ x.queue \in Seq(Events)
      BY <1>2, <2>2 DEF Frame, Fields, Libs
    <2>4. Frame(x, r, {"tasks", "queue", "outside_wm", "events", "in_flight", "settings"}) BY <2>2 DEF Frame
    <2>5. Tame(x.queue, r.queue) /\ SettingsKept(x, r) BY <2>3, TameSelf DEF SettingsKept
    <2>6. /\ "timeout" \notin r.events /\ "scan_fail" \notin r.events
          /\ r.mode # NRLS => "data_sent" \notin r.events
      BY <1>1, <2>3 DEF Base, UseInv
    <2>7. InvOf(r) BY <1>1, <1>2, <2>2, <2>4, <2>5, <2>6, UpdateGoesOn
    <2> QED BY <2>7 DEF r
  <1>4. CASE e = "SCAN_END" /\ l.scheduled
    <2>1. r = handle_update_state(x, e, send, TRUE) BY <1>4 DEF handle_idle_state
    <2> HIDE DEF x
    <2> QED BY <1>1, <1>2, <1>4, <2>1, HandleUpdate
  <1>5. CASE e = "OFFLINE" /\ l.scheduled
    <2> DEFINE v == l.events \ {"app_cfg"}
    <2>1. r = [l EXCEPT !.events = v, !.beacons = FALSE] BY <1>5 DEF handle_idle_state
    <2>2. v \in SUBSET Flags /\ v \subseteq l.events BY <1>0 DEF Libs, Flags
    <2> HIDE DEF v, r
    <2>3. Frame(l, r, {"events", "beacons"}) /\ r.events = v
      BY <1>0, <2>1, <2>2 DEF Libs, Flags, Frame, Fields
    <2>4. r.queue = l.queue /\ r.settings = l.settings BY <2>3 DEF Frame, Fields
    <2>5. Frame(l, r, {"events", "beacons", "settings", "queue"}) BY <2>3 DEF Frame
    <2>6. Tame(l.queue, r.queue) /\ SettingsKept(l, r) BY <1>0, <2>4, TameSelf DEF SettingsKept
    <2>7. InvOf(r) BY <1>0, <1>5, <2>2, <2>3, <2>4, <2>5, <2>6, Undisturbed
    <2> QED BY <2>7 DEF r
  <1>6. CASE e = "CONFIG_CHANGE"
    <2> DEFINE b == l.dynamic /\ l.settings.motion
               y == [l EXCEPT !.dynamic = b]
    <2>1. r = schedule_next(y, FALSE, TRUE) BY <1>6 DEF handle_idle_state
    <2>2. b \in BOOLEAN OBVIOUS
    <2> HIDE DEF b
    <2>3. Frame(l, y, {"dynamic"}) BY <1>0, <2>2, SwitchFields
    <2> HIDE DEF y
    <2>4. y.queue = l.queue /\ y.state = "IDLE" BY <2>3 DEF Frame, Fields
    <2>5. Frame(l, y, {"dynamic", "outside_wm", "queue", "busy", "beacons", "since", "in_flight"})
      BY <2>3 DEF Frame
    <2>6. Base(y, E)
      <3>1. Base(l, E) BY <1>6, Drop
      <3>2. Ordered(y.queue) BY <2>4, <3>1 DEF Base, UseInv
      <3> QED BY <2>5, <3>1, <3>2, BaseFrame
    <2> QED BY <2>1, <2>4, <2>6, ScheduleNext
  <1>7. CASE e = "ONESHOT"
    <2>1. r = schedule_next(l, TRUE, TRUE) BY <1>7 DEF handle_idle_state
    <2> QED BY <1>7, <2>1, ScheduleNow
  <1>8. CASE e = "APPCFG"
    <2> DEFINE c == process_appcfg(l)
    <2>1. r = Raised(c, "app_cfg") BY <1>8 DEF handle_idle_state
    <2>2. /\ Frame(l, c, {"settings", "queue"}) /\ Tame(l.queue, c.queue) /\ SettingsKept(l, c)
          /\ c.settings = l.settings \/ "CONFIG_CHANGE" \in Range(c.queue)
      BY <1>0, AppcfgFields DEF SettingsKept
    <2>3. c \in Libs BY <2>2 DEF Frame
    <2> HIDE DEF c, r
    <2>4. Frame(c, r, {"events"}) /\ r.events = c.events \cup {"app_cfg"} BY <2>1, <2>3, RaisedFields DEF Flags
    <2>5. r.queue = c.queue /\ r.settings = c.settings /\ c.events = l.events BY <2>2, <2>4 DEF Frame, Fields
    <2>6. Frame(l, r, {"events", "beacons", "settings", "queue"}) BY <2>2, <2>4 DEF Frame
    <2>7. SettingsKept(l, r) BY <2>2, <2>5 DEF SettingsKept
    <2>8. r.events \subseteq l.events \cup {"app_cfg"} BY <2>4, <2>5
    <2>9. InvOf(r) BY <1>0, <1>8, <2>2, <2>5, <2>6, <2>7, <2>8, Undisturbed
    <2> QED BY <2>9 DEF r
  <1>9. CASE e = "MOTION"
    <2>1. r = schedule_next(l, FALSE, TRUE) BY <1>9 DEF handle_idle_state
    <2>2. Base(l, E) BY <1>9, Drop
    <2> QED BY <2>1, <2>2, ScheduleNext
  <1>10. CASE /\ e \notin {"SCAN_STARTED", "ONLINE", "CONFIG_CHANGE", "ONESHOT", "APPCFG", "MOTION"}
              /\ ~(e = "SCAN_END" /\ l.scheduled) /\ ~(e = "OFFLINE" /\ l.scheduled)
    <2>1. r = l BY <1>10 DEF handle_idle_state
    <2>2. Frame(l, l, {"events", "beacons", "settings", "queue"}) /\ SettingsKept(l, l)
      BY <1>0 DEF Frame, SettingsKept
    <2>3. Tame(l.queue, l.queue) BY <1>0, TameSelf
    <2>4. InvOf(l) BY <1>10, <2>2, <2>3, Undisturbed
    <2> QED BY <2>1, <2>4
  <1> QED BY <1>3, <1>4, <1>5, <1>6, <1>7, <1>8, <1>9, <1>10

(* So does PosLibCtrl_processEvent, in whatever state the library is.      *)
LEMMA ProcessEvent ==
    ASSUME NEW l, NEW e, NEW send \in SendOutcomes, send = "sent" => l.in_flight < MaxInFlight,
           Base(l, Range(l.queue) \cup {e}), PeriodInv(l, Range(l.queue) \cup {e}),
           l.state = "IDLE" => l.scheduled \/ "delayed_start" \in l.tasks,
           l.state = "UPDATE" => "timeout" \in l.tasks \/ e = "TIMEOUT",
           e = "SCAN_END" => "ONESHOT" \notin Range(l.queue),
           e = "TIMEOUT" => ~l.scanning /\ "SCAN_END" \notin Range(l.queue),
           Len(l.queue) + l.busy < MAX_INTERNAL_EVENTS
    PROVE  InvOf(PosLibCtrl_processEvent(l, e, send, TRUE))
  <1>0. l \in Libs /\ l.queue \in Seq(Events) BY DEF Base, Libs
  <1>1. CASE l.state = "STOPPED"
    <2>1. ~l.started /\ e # "ONESHOT" BY <1>1 DEF Base, UseInv
    <2>2. PosLibCtrl_processEvent(l, e, send, TRUE) = l
      BY <1>1, <2>1 DEF PosLibCtrl_processEvent, handle_stopped_state
    <2>3. Frame(l, l, {"events", "beacons", "settings", "queue"}) /\ SettingsKept(l, l)
      BY <1>0 DEF Frame, SettingsKept
    <2>4. Tame(l.queue, l.queue) BY <1>0, TameSelf
    <2>5. OwedInv(l) BY <1>1 DEF OwedInv
    <2>6. InvOf(l) BY <1>1, <2>3, <2>4, <2>5, Undisturbed
    <2> QED BY <2>2, <2>6
  <1>2. CASE l.state = "IDLE"
    <2>1. PosLibCtrl_processEvent(l, e, send, TRUE) = handle_idle_state(l, e, send, TRUE)
      BY <1>2 DEF PosLibCtrl_processEvent
    <2>2. OwedInv(l) BY <1>2 DEF OwedInv
    <2> QED BY <1>2, <2>1, <2>2, HandleIdle
  <1>3. CASE l.state = "UPDATE"
    <2>1. PosLibCtrl_processEvent(l, e, send, TRUE) = handle_update_state(l, e, send, TRUE)
      BY <1>3 DEF PosLibCtrl_processEvent
    <2> QED BY <1>3, <2>1, HandleUpdate
  <1>4. l.state \in {"STOPPED", "IDLE", "UPDATE"} BY <1>0 DEF Libs
  <1> QED BY <1>1, <1>2, <1>3, <1>4

-----------------------------------------------------------------------------
(* One lemma for every action: the invariant is kept. First the tasks.     *)
LEMMA HandleEvents ==
    ASSUME IInv, QueueHasRoom, NoSlot = {}, NEW send \in Sendable, handle_events(send, TRUE)
    PROVE  IInv'
  <1> DEFINE e == Head(lib.queue)
             t == Tail(lib.queue)
             x == [lib EXCEPT !.queue = t, !.busy = 1]
             r == PosLibCtrl_processEvent(x, e, send, TRUE)
  <1>0. lib \in Libs /\ lib.queue \in Seq(Events) /\ lib.queue # <<>> /\ Ordered(lib.queue)
    BY DEF IInv, InvOf, Base, UseInv, Libs, handle_events
  <1>1. /\ t \in Seq(Events) /\ e \in Events /\ Range(lib.queue) = Range(t) \cup {e} /\ Len(t) = Len(lib.queue) - 1
        /\ Ordered(t) /\ (e = "SCAN_END" => "ONESHOT" \notin Range(t))
    BY <1>0, TailRange
  <1>2. lib' = [r EXCEPT !.busy = 0] BY DEF handle_events, Granted
  <1> HIDE DEF t, e
  <1>3. Frame(lib, x, {"queue", "busy"}) /\ x.queue = t /\ x.busy = 1
    BY <1>0, <1>1, PopFields
  <1> HIDE DEF x
  <1>4. /\ x.in_flight = lib.in_flight /\ x.state = lib.state /\ x.scheduled = lib.scheduled /\ x.tasks = lib.tasks
        /\ x.settings = lib.settings /\ x.dynamic = lib.dynamic /\ x.outside_wm = lib.outside_wm /\ x.due = lib.due
    BY <1>3 DEF Frame, Fields
  <1>5. Base(x, Range(x.queue) \cup {e})
    <2>1. Frame(lib, x, {"dynamic", "outside_wm", "queue", "busy", "beacons", "since", "in_flight"})
      BY <1>3 DEF Frame
    <2>2. Base(lib, Range(x.queue) \cup {e}) BY <1>1, <1>3 DEF IInv, InvOf
    <2> QED BY <1>1, <1>3, <2>1, <2>2, BaseFrame
  <1>6. PeriodInv(x, Range(x.queue) \cup {e})
    <2>1. get_update_period(x) = get_update_period(lib) BY <1>4 DEF get_update_period
    <2> QED BY <1>1, <1>3, <1>4, <2>1 DEF IInv, InvOf, PeriodInv
  <1>7. /\ x.state = "IDLE" => x.scheduled \/ "delayed_start" \in x.tasks
        /\ x.state = "UPDATE" => "timeout" \in x.tasks
    BY <1>4 DEF IInv, InvOf, OwedInv
  <1>8. Len(x.queue) + x.busy < MAX_INTERNAL_EVENTS
    <2>1. Len(lib.queue) \in Nat /\ lib.busy \in 0 .. 1 /\ MAX_INTERNAL_EVENTS \in Nat
      BY <1>0, LenProperties, PosLibAssumption DEF Libs
    <2> QED BY <1>1, <1>3, <2>1 DEF QueueHasRoom
  <1>9. send \in SendOutcomes /\ (send = "sent" => x.in_flight < MaxInFlight) BY <1>4 DEF Sendable
  <1>10. e # "TIMEOUT" BY <1>1 DEF Events
  <1>11. InvOf(r) BY <1>1, <1>3, <1>5, <1>6, <1>7, <1>8, <1>9, <1>10, ProcessEvent
  <1> HIDE DEF r
  <1>12. Frame(r, lib', {"busy"}) BY <1>2, <1>11 DEF InvOf, Base, Libs, Frame, Fields
  <1>13. Frame(r, lib', {"busy", "beacons", "since", "in_flight"}) BY <1>12 DEF Frame
  <1> QED BY <1>11, <1>13, InvFrame DEF IInv

LEMMA CancelBase ==
    ASSUME NEW l, NEW E, NEW t \in {"delayed_start", "timeout"}, Base(l, E)
    PROVE  LET x == cancelTask(l, t)
           IN Base(x, E) /\ Frame(l, x, {"tasks"}) /\ x.tasks = l.tasks \ {t}
  <1> DEFINE x == cancelTask(l, t)
  <1>1. Frame(l, x, {"tasks"}) /\ x.tasks = l.tasks \ {t} BY TaskFields DEF TaskNames, Base
  <1> HIDE DEF x
  <1>2. /\ x \in Libs /\ x.started = l.started /\ x.appcfg = l.appcfg /\ x.due = l.due
        /\ x.settings = l.settings /\ x.state = l.state
        /\ x.scan_pending = l.scan_pending /\ x.scanning = l.scanning /\ x.events = l.events
        /\ x.registered = l.registered /\ x.scheduled = l.scheduled /\ x.mode = l.mode
        /\ x.net = l.net /\ x.scanend = l.scanend /\ x.opportunistic = l.opportunistic
        /\ x.queue = l.queue
    BY <1>1 DEF Frame, Fields
  <1>3. /\ "trigger" \in x.tasks <=> "trigger" \in l.tasks
        /\ "timeout" \in x.tasks => "timeout" \in l.tasks
    BY <1>1
  <1>4. UseInv(x, E) BY <1>2, <1>3 DEF Base, UseInv
  <1>5. NrlsInv(x, E) /\ OppInv(x) BY <1>2 DEF Base, NrlsInv, OppInv
  <1>6. AutoInv(x, E) BY <1>2, <1>3 DEF Base, AutoInv
  <1> QED BY <1>1, <1>2, <1>4, <1>5, <1>6 DEF Base, x

LEMMA DelayedStart ==
    ASSUME IInv, NoSlot = {}, delayed_start(TRUE)
    PROVE  IInv'
  <1> DEFINE x == cancelTask(lib, "delayed_start")
             E == Range(lib.queue)
  <1>0. Base(lib, E) BY DEF IInv, InvOf
  <1>1. lib' = schedule_next(x, FALSE, TRUE) BY DEF delayed_start, Granted
  <1>2. Base(x, E) /\ Frame(lib, x, {"tasks"}) /\ x.tasks = lib.tasks \ {"delayed_start"}
    BY <1>0, CancelBase
  <1> HIDE DEF x
  <1>3. x \in Libs /\ x.queue = lib.queue /\ x.state = lib.state BY <1>2 DEF Frame, Fields
  <1>4. Base(x, Range(x.queue)) BY <1>2, <1>3
  <1>5. CASE x.state # "STOPPED"
    <2>1. x.state = "UPDATE" => "timeout" \in x.tasks BY <1>2, <1>3 DEF IInv, InvOf, OwedInv
    <2> QED BY <1>1, <1>4, <1>5, <2>1, ScheduleNext DEF IInv
  <1>6. CASE x.state = "STOPPED"
    <2> DEFINE r == [x EXCEPT !.scheduled = FALSE]
    <2>1. lib' = r BY <1>1, <1>6 DEF schedule_next
    <2>2. Frame(x, r, {"scheduled"}) /\ r.scheduled = FALSE BY <1>3 DEF Libs, Frame, Fields
    <2> HIDE DEF r
    <2>3. /\ r \in Libs /\ r.started = x.started /\ r.appcfg = x.appcfg /\ r.due = x.due
          /\ r.settings = x.settings /\ r.state = x.state
          /\ r.scan_pending = x.scan_pending /\ r.scanning = x.scanning /\ r.events = x.events
          /\ r.registered = x.registered /\ r.mode = x.mode /\ r.tasks = x.tasks
          /\ r.net = x.net /\ r.scanend = x.scanend /\ r.opportunistic = x.opportunistic
          /\ r.queue = x.queue
      BY <2>2 DEF Frame, Fields
    <2>4. UseInv(r, E)
      <3> HIDE DEF E
      <3> QED BY <1>2, <1>6, <2>2, <2>3 DEF Base, UseInv
    <2>5. NrlsInv(r, E) /\ OppInv(r) /\ AutoInv(r, E) /\ PeriodInv(r, E) /\ OwedInv(r)
      BY <1>6, <2>2, <2>3 DEF NrlsInv, OppInv, AutoInv, PeriodInv, OwedInv
    <2>6. r.queue = lib.queue BY <1>3, <2>3
    <2> QED BY <2>1, <2>3, <2>4, <2>5, <2>6 DEF IInv, InvOf, Base
  <1> QED BY <1>5, <1>6

LEMMA TimeoutTask ==
    ASSUME IInv, QueueHasRoom, ~LateScans, NoSlot = {}, NEW send \in Sendable, timeout_task(send, TRUE)
    PROVE  IInv'
  <1> DEFINE x == cancelTask(lib, "timeout")
             E == Range(lib.queue)
             D == E \cup {"TIMEOUT"}
  <1>0. Base(lib, E) /\ PeriodInv(lib, E) /\ OwedInv(lib) BY DEF IInv, InvOf
  <1>1. lib' = PosLibCtrl_processEvent(x, "TIMEOUT", send, TRUE) /\ ~lib.scanning /\ "SCAN_END" \notin E
    BY DEF timeout_task, Granted
  <1>2. Base(lib, D) /\ PeriodInv(lib, D)
    <2>1. \A f \in {"ONESHOT", "SCAN_END", "SCAN_STARTED", "ONLINE", "CONFIG_CHANGE", "MOTION"} : f \in D <=> f \in E
      OBVIOUS
    <2> HIDE DEF E, D
    <2>2. UseInv(lib, D) BY <1>0, <2>1 DEF Base, UseInv
    <2>3. NrlsInv(lib, D) BY <1>0, <2>1 DEF Base, NrlsInv
    <2>4. AutoInv(lib, D) BY <1>0, <2>1 DEF Base, AutoInv
    <2>5. PeriodInv(lib, D) BY <1>0, <2>1 DEF PeriodInv
    <2> QED BY <1>0, <2>2, <2>3, <2>4, <2>5 DEF Base
  <1>3. Base(x, D) /\ Frame(lib, x, {"tasks"}) /\ x.tasks = lib.tasks \ {"timeout"} BY <1>2, CancelBase
  <1> HIDE DEF x
  <1>4. /\ x.queue = lib.queue /\ x.state = lib.state /\ x.scheduled = lib.scheduled /\ x.busy = lib.busy
        /\ x.settings = lib.settings /\ x.dynamic = lib.dynamic /\ x.outside_wm = lib.outside_wm /\ x.due = lib.due
        /\ x.in_flight = lib.in_flight /\ x.scanning = lib.scanning
    BY <1>3 DEF Frame, Fields
  <1>5. PeriodInv(x, D)
    <2>1. get_update_period(x) = get_update_period(lib) BY <1>4 DEF get_update_period
    <2> QED BY <1>2, <1>4, <2>1 DEF PeriodInv
  <1>6. x.state = "IDLE" => x.scheduled \/ "delayed_start" \in x.tasks BY <1>0, <1>3, <1>4 DEF OwedInv
  <1>7. send \in SendOutcomes /\ (send = "sent" => x.in_flight < MaxInFlight) BY <1>4 DEF Sendable
  <1>8. Len(x.queue) + x.busy < MAX_INTERNAL_EVENTS BY <1>4 DEF QueueHasRoom
  <1>9. InvOf(PosLibCtrl_processEvent(x, "TIMEOUT", send, TRUE))
    BY <1>1, <1>3, <1>4, <1>5, <1>6, <1>7, <1>8, ProcessEvent
  <1> QED BY <1>1, <1>9 DEF IInv

LEMMA TriggerTask ==
    ASSUME IInv, QueueHasRoom, ~WakeupRefused, trigger_update_task(TRUE)
    PROVE  IInv'
  <1> DEFINE x == cancelTask(lib, "trigger")
             E == Range(lib.queue)
  <1>0. Base(lib, E) /\ PeriodInv(lib, E) /\ OwedInv(lib) /\ lib \in Libs BY DEF IInv, InvOf, Base
  <1>1. lib' = PosLibMeas_startScan(x, TRUE) /\ "trigger" \in lib.tasks /\ lib.due <= 0
    BY DEF trigger_update_task, TriggerDue
  <1>2. Frame(lib, x, {"tasks"}) /\ x.tasks = lib.tasks \ {"trigger"} BY <1>0, TaskFields DEF TaskNames
  <1> HIDE DEF x
  <1>3. /\ x \in Libs /\ x.scan_pending = lib.scan_pending /\ x.queue = lib.queue /\ x.busy = lib.busy
        /\ x.queue \in Seq(Events)
    BY <1>2 DEF Frame, Fields, Libs
  <1>4. lib.scheduled /\ lib.state # "STOPPED" BY <1>0, <1>1 DEF Base, UseInv
  <1>5. lib.mode \in Autoscan => /\ ~lib.scan_pending /\ "SCAN_END" \notin E
                                 /\ lib.due = 0
    <2>1. lib.due \in Int BY <1>0, CyclePositive DEF Libs
    <2> QED BY <1>0, <1>1, <1>4, <2>1 DEF Base, AutoInv
  <1> DEFINE r == PosLibMeas_startScan(x, TRUE)
             D == Range(r.queue)
  <1>6. /\ Frame(lib, r, {"tasks", "queue", "scan_pending", "scanning", "scanend", "beacons"})
        /\ Tame(lib.queue, r.queue) /\ r.tasks = lib.tasks \ {"trigger"}
        /\ \/ lib.scan_pending /\ r.scan_pending /\ r.scanend = lib.scanend /\ r.scanning = lib.scanning
           \/ r.scan_pending /\ r.scanning /\ r.scanend /\ "SCAN_STARTED" \in D
    <2>1. CASE x.scan_pending
      <3>1. r = x BY <2>1 DEF PosLibMeas_startScan
      <3> HIDE DEF r
      <3>2. Frame(lib, r, {"tasks", "queue", "scan_pending", "scanning", "scanend", "beacons"})
        BY <1>2, <3>1 DEF Frame
      <3>3. r.scanend = lib.scanend /\ r.scanning = lib.scanning BY <1>2, <3>1 DEF Frame, Fields
      <3> QED BY <1>2, <1>3, <2>1, <3>1, <3>2, <3>3, TameSelf
    <2>2. CASE ~x.scan_pending
      <3> DEFINE y == [x EXCEPT !.beacons = FALSE, !.scanend = TRUE, !.scan_pending = TRUE, !.scanning = TRUE]
      <3>1. r = PosLibEvent_add(y, "SCAN_STARTED") BY <2>2 DEF PosLibMeas_startScan
      <3>2. /\ Frame(x, y, {"beacons", "scanend", "scan_pending", "scanning"})
            /\ y.scanend /\ y.scan_pending /\ y.scanning
        BY <1>3 DEF Libs, Frame, Fields
      <3>3. y \in Libs BY <3>2 DEF Frame
      <3> HIDE DEF y
      <3>4. "SCAN_STARTED" \in Events \ {"ONESHOT", "SCAN_END"} BY DEF Events
      <3>5. /\ Frame(y, r, {"queue"}) /\ Tame(y.queue, r.queue)
            /\ Len(y.queue) + y.busy < MAX_INTERNAL_EVENTS => r.queue = Append(y.queue, "SCAN_STARTED")
        BY <3>1, <3>3, <3>4, EventAdd
      <3> HIDE DEF r
      <3>6. /\ y.queue = lib.queue /\ y.busy = lib.busy /\ r.tasks = x.tasks
            /\ r.scan_pending = y.scan_pending /\ r.scanend = y.scanend /\ r.scanning = y.scanning
        BY <1>3, <3>2, <3>5 DEF Frame, Fields
      <3>7. "SCAN_STARTED" \in D
        <4>1. Range(Append(lib.queue, "SCAN_STARTED")) = Range(lib.queue) \cup {"SCAN_STARTED"}
          BY <1>3, <3>4, AppendRange
        <4> QED BY <3>5, <3>6, <4>1 DEF QueueHasRoom
      <3>8. Frame(lib, r, {"tasks", "queue", "scan_pending", "scanning", "scanend", "beacons"})
        BY <1>2, <3>2, <3>5 DEF Frame
      <3> QED BY <1>2, <3>2, <3>5, <3>6, <3>7, <3>8
    <2> QED BY <2>1, <2>2
  <1> HIDE DEF r
  <1>7. /\ r \in Libs /\ r.started = lib.started /\ r.appcfg = lib.appcfg /\ r.due = lib.due
        /\ r.settings = lib.settings /\ r.state = lib.state /\ r.events = lib.events
        /\ r.registered = lib.registered /\ r.scheduled = lib.scheduled /\ r.mode = lib.mode
        /\ r.net = lib.net /\ r.opportunistic = lib.opportunistic
        /\ r.dynamic = lib.dynamic /\ r.outside_wm = lib.outside_wm
    BY <1>6 DEF Frame, Fields
  <1>8. /\ Ordered(r.queue) /\ E \subseteq D
        /\ "ONESHOT" \in D => "ONESHOT" \in E
        /\ "SCAN_END" \in D => "SCAN_END" \in E
    BY <1>0, <1>6 DEF Tame, Base, UseInv
  <1>9. PeriodInv(r, D)
    <2>1. get_update_period(r) = get_update_period(lib) BY <1>7 DEF get_update_period
    <2> QED BY <1>0, <1>7, <1>8, <2>1 DEF PeriodInv
  <1> HIDE DEF E, D
  <1>10. UseInv(r, D) BY <1>0, <1>4, <1>6, <1>7, <1>8 DEF Base, UseInv
  <1>11. NrlsInv(r, D) BY <1>0, <1>7, <1>8 DEF Base, NrlsInv
  <1>12. OppInv(r) BY <1>0, <1>6, <1>7 DEF Base, OppInv
  <1>13. AutoInv(r, D)
    <2> SUFFICES ASSUME lib.mode \in Autoscan PROVE AutoInv(r, D) BY <1>7 DEF AutoInv
    <2>1. /\ ~lib.scan_pending /\ "SCAN_END" \notin D /\ r.due = 0 /\ "trigger" \notin r.tasks
      BY <1>5, <1>6, <1>7, <1>8
    <2>2. r.scan_pending /\ r.scanning /\ r.scanend /\ "SCAN_STARTED" \in D BY <1>6, <2>1
    <2>3. ~r.opportunistic BY <1>0, <1>4, <1>7 DEF Base, AutoInv
    <2> QED BY <2>1, <2>2, <2>3 DEF AutoInv
  <1>14. OwedInv(r) BY <1>0, <1>6, <1>7 DEF OwedInv
  <1> QED BY <1>1, <1>7, <1>9, <1>10, <1>11, <1>12, <1>13, <1>14 DEF IInv, InvOf, Base, r, D

-----------------------------------------------------------------------------
(* Posting an event from outside, with room for it.                        *)
LEMMA Post ==
    ASSUME NEW x \in Libs, NEW e \in Events, Len(x.queue) + x.busy < MAX_INTERNAL_EVENTS, Ordered(x.queue),
           e = "ONESHOT" => "SCAN_END" \notin Range(x.queue)
    PROVE  LET r == PosLibEvent_add(x, e)
           IN Frame(x, r, {"queue"}) /\ Range(r.queue) = Range(x.queue) \cup {e} /\ Ordered(r.queue)
  <1>1. x.queue \in Seq(Events) BY DEF Libs
  <1> QED BY <1>1, EventAdd, AppendRange

(* The actions of the application.                                         *)
LEMMA SetConfig ==
    ASSUME IInv, QueueHasRoom, Usage = {}, NEW s \in Settings, PosLibCtrl_setConfig(s)
    PROVE  IInv'
  <1> DEFINE x == [lib EXCEPT !.settings = s]
             E == Range(lib.queue)
             D == Range(lib'.queue)
  <1>0. Base(lib, E) /\ PeriodInv(lib, E) /\ OwedInv(lib) /\ lib \in Libs /\ Ordered(lib.queue)
    BY DEF IInv, InvOf, Base, UseInv
  <1>1. /\ lib' = IF lib.started THEN PosLibEvent_add(x, "CONFIG_CHANGE") ELSE x
        /\ lib.settings # NULL => s.mode = lib.settings.mode
    BY DEF PosLibCtrl_setConfig, Configurable
  <1>2. Frame(lib, x, {"settings"}) /\ x.settings = s BY <1>0 DEF Libs, Frame, Fields
  <1> HIDE DEF x
  <1>3. x \in Libs /\ x.queue = lib.queue /\ x.busy = lib.busy BY <1>2 DEF Frame, Fields
  <1>4. /\ Frame(x, lib', {"queue"}) /\ Ordered(lib'.queue)
        /\ IF lib.started THEN D = E \cup {"CONFIG_CHANGE"} ELSE D = E
    <2>1. CASE lib.started
      <3>1. "CONFIG_CHANGE" \in Events BY DEF Events
      <3> QED BY <1>0, <1>1, <1>3, <2>1, <3>1, Post DEF QueueHasRoom
    <2>2. CASE ~lib.started BY <1>0, <1>1, <1>3, <2>2 DEF Frame
    <2> QED BY <2>1, <2>2
  <1>5. s # NULL BY PosLibAssumption
  <1>6. Frame(lib, lib', {"settings", "queue"}) /\ lib'.settings = s BY <1>2, <1>4 DEF Frame, Fields
  <1> HIDE DEF E, D
  <1>7. UseInv(lib', D) BY <1>0, <1>1, <1>4, <1>5, <1>6 DEF Base, UseInv, Frame, Fields
  <1>8. NrlsInv(lib', D) /\ OppInv(lib') BY <1>0, <1>4, <1>6 DEF Base, NrlsInv, OppInv, Frame, Fields
  <1>9. AutoInv(lib', D) BY <1>0, <1>4, <1>6 DEF Base, AutoInv, Frame, Fields
  <1>10. PeriodInv(lib', D) BY <1>0, <1>4, <1>6 DEF Base, UseInv, PeriodInv, Frame, Fields
  <1>11. OwedInv(lib') BY <1>0, <1>6 DEF OwedInv, Frame, Fields
  <1> QED BY <1>6, <1>7, <1>8, <1>9, <1>10, <1>11 DEF IInv, InvOf, Base, Frame, D

LEMMA StartPeriodic ==
    ASSUME IInv, Usage = {}, NoSlot = {}, PosLibCtrl_startPeriodic
    PROVE  IInv'
  <1> DEFINE x == [lib EXCEPT !.state = "IDLE", !.started = TRUE, !.registered = TRUE]
             E == Range(lib.queue)
  <1>0. Base(lib, E) /\ PeriodInv(lib, E) /\ OwedInv(lib) /\ lib \in Libs BY DEF IInv, InvOf, Base
  <1>1. lib' = addTask(x, "delayed_start") /\ lib.settings # NULL /\ ~lib.started /\ ~lib.scheduled
    BY DEF PosLibCtrl_startPeriodic, Granted
  <1>2. Frame(lib, x, {"state", "started", "registered"}) /\ x.state = "IDLE" /\ x.started
    BY <1>0 DEF Libs, Frame, Fields
  <1>3. x \in Libs BY <1>2 DEF Frame
  <1> HIDE DEF x
  <1>4. Frame(x, lib', {"tasks"}) /\ lib'.tasks = x.tasks \cup {"delayed_start"}
    BY <1>1, <1>3, TaskFields DEF TaskNames
  <1>5. /\ Frame(lib, lib', {"state", "started", "registered", "tasks"}) /\ lib'.state = "IDLE" /\ lib'.started
        /\ lib'.tasks = lib.tasks \cup {"delayed_start"}
    BY <1>2, <1>4 DEF Frame, Fields
  <1> HIDE DEF E
  <1>6. UseInv(lib', E) BY <1>0, <1>1, <1>5 DEF Base, UseInv, Frame, Fields
  <1>7. NrlsInv(lib', E) /\ OppInv(lib') /\ AutoInv(lib', E) /\ PeriodInv(lib', E)
    BY <1>1, <1>5 DEF NrlsInv, OppInv, AutoInv, PeriodInv, Frame, Fields
  <1>8. OwedInv(lib') BY <1>5 DEF OwedInv
  <1>9. lib'.queue = lib.queue BY <1>5 DEF Frame, Fields
  <1> QED BY <1>5, <1>6, <1>7, <1>8, <1>9 DEF IInv, InvOf, Base, Frame, E

LEMMA StartOneshot ==
    ASSUME IInv, QueueHasRoom, Usage = {}, PosLibCtrl_startOneshot
    PROVE  IInv'
  <1> DEFINE x == [lib EXCEPT !.registered = TRUE]
             E == Range(lib.queue)
             D == Range(lib'.queue)
  <1>0. Base(lib, E) /\ PeriodInv(lib, E) /\ OwedInv(lib) /\ lib \in Libs /\ Ordered(lib.queue)
    BY DEF IInv, InvOf, Base, UseInv
  <1>1. lib' = PosLibEvent_add(x, "ONESHOT") /\ lib.started /\ lib.settings # NULL /\ "SCAN_END" \notin E
    BY DEF PosLibCtrl_startOneshot
  <1>2. Frame(lib, x, {"registered"}) BY <1>0 DEF Libs, Frame, Fields
  <1> HIDE DEF x
  <1>3. x \in Libs /\ x.queue = lib.queue /\ x.busy = lib.busy BY <1>2 DEF Frame, Fields
  <1>4. Frame(x, lib', {"queue"}) /\ Ordered(lib'.queue) /\ D = E \cup {"ONESHOT"}
    <2>1. "ONESHOT" \in Events BY DEF Events
    <2> QED BY <1>0, <1>1, <1>3, <2>1, Post DEF QueueHasRoom
  <1>5. Frame(lib, lib', {"registered", "queue"}) BY <1>2, <1>4 DEF Frame
  <1> HIDE DEF E, D
  <1>6. UseInv(lib', D) BY <1>0, <1>1, <1>4, <1>5 DEF Base, UseInv, Frame, Fields
  <1>7. NrlsInv(lib', D) /\ OppInv(lib') BY <1>0, <1>4, <1>5 DEF Base, NrlsInv, OppInv, Frame, Fields
  <1>8. AutoInv(lib', D) BY <1>0, <1>1, <1>4, <1>5 DEF Base, AutoInv, Frame, Fields
  <1>9. PeriodInv(lib', D)
    <2>1. get_update_period(lib') = get_update_period(lib) BY <1>5 DEF get_update_period, Frame, Fields
    <2> QED BY <1>0, <1>4, <1>5, <2>1 DEF PeriodInv, Frame, Fields
  <1>10. OwedInv(lib') BY <1>0, <1>5 DEF OwedInv, Frame, Fields
  <1> QED BY <1>5, <1>6, <1>7, <1>8, <1>9, <1>10 DEF IInv, InvOf, Base, Frame, D

LEMMA StopPeriodic ==
    ASSUME IInv, Usage = {}, PosLibCtrl_stopPeriodic
    PROVE  IInv'
  <1> DEFINE E == Range(lib.queue)
             t == lib.tasks \ {"trigger", "timeout"}
  <1>0. Base(lib, E) /\ lib \in Libs BY DEF IInv, InvOf, Base
  <1>1. lib.started /\ "ONESHOT" \notin E BY DEF PosLibCtrl_stopPeriodic
  <1>2. /\ Frame(lib, lib', {"tasks", "started", "state", "registered", "net", "scanend", "opportunistic",
                             "scan_pending"})
        /\ ~lib'.started /\ lib'.state = "STOPPED" /\ ~lib'.registered /\ lib'.net = "ONLINE"
        /\ ~lib'.scanend /\ ~lib'.opportunistic /\ ~lib'.scan_pending /\ lib'.tasks = t
    <2> DEFINE x == [lib EXCEPT !.tasks = t]
               y == [x EXCEPT !.started = FALSE, !.state = "STOPPED", !.registered = FALSE, !.net = "ONLINE"]
    <2>1. lib' = [y EXCEPT !.scanend = FALSE, !.opportunistic = FALSE, !.scan_pending = FALSE]
      BY DEF PosLibCtrl_stopPeriodic, PosLibMeas_stop, stop_tasks
    <2>2. t \in SUBSET TaskNames BY <1>0 DEF Libs, TaskNames
    <2> HIDE DEF t
    <2>3. Frame(lib, x, {"tasks"}) /\ x.tasks = t BY <1>0, <2>2, TasksFields
    <2>4. x \in Libs BY <2>3 DEF Frame
    <2> HIDE DEF x
    <2>5. /\ Frame(x, y, {"started", "state", "registered", "net"})
          /\ ~y.started /\ y.state = "STOPPED" /\ ~y.registered /\ y.net = "ONLINE"
      BY <2>4 DEF Libs, Frame, Fields
    <2>6. y \in Libs BY <2>5 DEF Frame
    <2> HIDE DEF y
    <2>7. /\ Frame(y, lib', {"scanend", "opportunistic", "scan_pending"})
          /\ ~lib'.scanend /\ ~lib'.opportunistic /\ ~lib'.scan_pending
      BY <2>1, <2>6 DEF Libs, Frame, Fields
    <2>8. Frame(lib, lib', {"tasks", "started", "state", "registered", "net", "scanend", "opportunistic",
                            "scan_pending"})
      BY <2>3, <2>5, <2>7 DEF Frame
    <2> QED BY <2>3, <2>5, <2>7, <2>8 DEF Frame, Fields
  <1> HIDE DEF E
  <1>3. UseInv(lib', E) BY <1>0, <1>1, <1>2 DEF Base, UseInv, Frame, Fields
  <1>4. NrlsInv(lib', E) /\ OppInv(lib') /\ PeriodInv(lib', E) /\ OwedInv(lib')
    BY <1>2 DEF NrlsInv, OppInv, PeriodInv, OwedInv
  <1>5. AutoInv(lib', E) BY <1>1, <1>2 DEF AutoInv
  <1>6. lib'.queue = lib.queue BY <1>2 DEF Frame, Fields
  <1> QED BY <1>2, <1>3, <1>4, <1>5, <1>6 DEF IInv, InvOf, Base, Frame, E

LEMMA Motion ==
    ASSUME IInv, QueueHasRoom, NEW b \in BOOLEAN, PosLibCtrl_motion(b)
    PROVE  IInv'
  <1> DEFINE x == [lib EXCEPT !.dynamic = b]
             E == Range(lib.queue)
             D == Range(lib'.queue)
  <1>0. Base(lib, E) /\ PeriodInv(lib, E) /\ OwedInv(lib) /\ lib \in Libs /\ Ordered(lib.queue)
    BY DEF IInv, InvOf, Base, UseInv
  <1>1. lib' = PosLibEvent_add(x, "MOTION") BY DEF PosLibCtrl_motion
  <1>2. Frame(lib, x, {"dynamic"}) BY <1>0, SwitchFields
  <1> HIDE DEF x
  <1>3. x \in Libs /\ x.queue = lib.queue /\ x.busy = lib.busy BY <1>2 DEF Frame, Fields
  <1>4. Frame(x, lib', {"queue"}) /\ Ordered(lib'.queue) /\ D = E \cup {"MOTION"}
    <2>1. "MOTION" \in Events BY DEF Events
    <2> QED BY <1>0, <1>1, <1>3, <2>1, Post DEF QueueHasRoom
  <1>5. Frame(lib, lib', {"dynamic", "queue"}) BY <1>2, <1>4 DEF Frame
  <1> HIDE DEF E, D
  <1>6. UseInv(lib', D) BY <1>0, <1>4, <1>5 DEF Base, UseInv, Frame, Fields
  <1>7. NrlsInv(lib', D) /\ OppInv(lib') BY <1>0, <1>4, <1>5 DEF Base, NrlsInv, OppInv, Frame, Fields
  <1>8. AutoInv(lib', D) BY <1>0, <1>4, <1>5 DEF Base, AutoInv, Frame, Fields
  <1>9. PeriodInv(lib', D) BY <1>4 DEF PeriodInv
  <1>10. OwedInv(lib') BY <1>0, <1>5 DEF OwedInv, Frame, Fields
  <1> QED BY <1>5, <1>6, <1>7, <1>8, <1>9, <1>10 DEF IInv, InvOf, Base, Frame, D

LEMMA AppConfig ==
    ASSUME IInv, QueueHasRoom, Usage = {}, NEW c \in AppCfgs, appconfig_cb(c)
    PROVE  IInv'
  <1> DEFINE x == [lib EXCEPT !.appcfg = c]
             E == Range(lib.queue)
             D == Range(lib'.queue)
  <1>0. Base(lib, E) /\ PeriodInv(lib, E) /\ OwedInv(lib) /\ lib \in Libs /\ Ordered(lib.queue)
    BY DEF IInv, InvOf, Base, UseInv
  <1>1. /\ lib' = PosLibEvent_add(x, "APPCFG") /\ lib.registered
        /\ c # NULL /\ lib.settings # NULL => c.mode = lib.settings.mode
    BY DEF appconfig_cb, Configurable
  <1>2. Frame(lib, x, {"appcfg"}) /\ x.appcfg = c BY <1>0 DEF Libs, Frame, Fields
  <1> HIDE DEF x
  <1>3. x \in Libs /\ x.queue = lib.queue /\ x.busy = lib.busy BY <1>2 DEF Frame, Fields
  <1>4. Frame(x, lib', {"queue"}) /\ Ordered(lib'.queue) /\ D = E \cup {"APPCFG"}
    <2>1. "APPCFG" \in Events BY DEF Events
    <2> QED BY <1>0, <1>1, <1>3, <2>1, Post DEF QueueHasRoom
  <1>5. Frame(lib, lib', {"appcfg", "queue"}) /\ lib'.appcfg = c BY <1>2, <1>4 DEF Frame, Fields
  <1> HIDE DEF E, D
  <1>6. UseInv(lib', D) BY <1>0, <1>1, <1>4, <1>5 DEF Base, UseInv, Frame, Fields
  <1>7. NrlsInv(lib', D) /\ OppInv(lib') BY <1>0, <1>4, <1>5 DEF Base, NrlsInv, OppInv, Frame, Fields
  <1>8. AutoInv(lib', D) BY <1>0, <1>4, <1>5 DEF Base, AutoInv, Frame, Fields
  <1>9. PeriodInv(lib', D)
    <2>1. get_update_period(lib') = get_update_period(lib) BY <1>5 DEF get_update_period, Frame, Fields
    <2> QED BY <1>0, <1>4, <1>5, <2>1 DEF PeriodInv, Frame, Fields
  <1>10. OwedInv(lib') BY <1>0, <1>5 DEF OwedInv, Frame, Fields
  <1> QED BY <1>5, <1>6, <1>7, <1>8, <1>9, <1>10 DEF IInv, InvOf, Base, Frame, D

-----------------------------------------------------------------------------
(* The actions of the stack.                                               *)
LEMMA ScanEnd ==
    ASSUME IInv, QueueHasRoom, NEW complete \in BOOLEAN, NEW heard \in BOOLEAN, ScanEnds(complete, heard)
    PROVE  IInv'
  <1> DEFINE x == [lib EXCEPT !.scanning = FALSE]
             E == Range(lib.queue)
             D == Range(lib'.queue)
  <1>0. Base(lib, E) /\ PeriodInv(lib, E) /\ OwedInv(lib) /\ lib \in Libs /\ Ordered(lib.queue)
    BY DEF IInv, InvOf, Base, UseInv
  <1>1. lib' = IF lib.scanend THEN scanend_cb(x, complete, heard) ELSE x BY DEF ScanEnds
  <1>2. Frame(lib, x, {"scanning"}) /\ ~x.scanning BY <1>0 DEF Libs, Frame, Fields
  <1>3. x \in Libs BY <1>2 DEF Frame
  <1> HIDE DEF x
  <1>4. CASE lib.scanend
    <2> DEFINE b == ~complete \/ x.opportunistic
               y == [x EXCEPT !.beacons = heard, !.scan_pending = FALSE, !.scanend = b]
    <2>1. lib' = PosLibEvent_add(y, "SCAN_END") BY <1>1, <1>4 DEF scanend_cb
    <2>2. b \in BOOLEAN OBVIOUS
    <2>3. x.opportunistic => b OBVIOUS
    <2> HIDE DEF b
    <2>4. Frame(x, y, {"beacons", "scan_pending", "scanend"}) /\ ~y.scan_pending /\ y.scanend = b
      BY <1>3, <2>2, HeardFields
    <2> HIDE DEF y
    <2>5. y \in Libs /\ y.queue = lib.queue /\ y.busy = lib.busy BY <1>2, <2>4 DEF Frame, Fields
    <2>6. Frame(y, lib', {"queue"}) /\ Ordered(lib'.queue) /\ D = E \cup {"SCAN_END"}
      <3>1. "SCAN_END" \in Events BY DEF Events
      <3> QED BY <1>0, <2>1, <2>5, <3>1, Post DEF QueueHasRoom
    <2>7. /\ Frame(lib, lib', {"scanning", "beacons", "scan_pending", "scanend", "queue"})
          /\ ~lib'.scan_pending /\ lib'.scanend = b
      BY <1>2, <2>4, <2>6 DEF Frame, Fields
    <2>8. lib.opportunistic => lib'.scanend BY <1>2, <2>3, <2>7 DEF Frame, Fields
    <2>9. lib.scheduled /\ lib.state # "STOPPED" BY <1>0, <1>4 DEF Base, UseInv
    <2> HIDE DEF E, D
    <2>10. UseInv(lib', D) BY <1>0, <2>6, <2>7, <2>9 DEF Base, UseInv, Frame, Fields
    <2>11. NrlsInv(lib', D) BY <1>0, <2>6, <2>7 DEF Base, NrlsInv, Frame, Fields
    <2>12. OppInv(lib') BY <1>0, <2>7, <2>8 DEF Base, OppInv, Frame, Fields
    <2>13. AutoInv(lib', D)
      <3> SUFFICES ASSUME lib'.mode \in Autoscan, lib'.scheduled PROVE AutoInv(lib', D) BY DEF AutoInv
      <3>1. /\ lib'.mode = lib.mode /\ lib'.scheduled = lib.scheduled /\ lib'.state = lib.state /\ lib'.due = lib.due
            /\ lib'.tasks = lib.tasks /\ lib'.opportunistic = lib.opportunistic
        BY <2>7 DEF Frame, Fields
      <3>2. /\ "trigger" \notin lib.tasks /\ ~lib.opportunistic /\ lib.due <= 0
            /\ lib.state = "IDLE" => lib.due = 0 /\ "SCAN_STARTED" \in E
        BY <1>0, <1>4, <3>1 DEF Base, AutoInv
      <3>3. lib.state = "IDLE" \/ lib.state = "UPDATE" BY <1>0, <2>9 DEF Libs
      <3> QED BY <2>6, <2>7, <3>1, <3>2, <3>3 DEF AutoInv
    <2>14. PeriodInv(lib', D)
      <3>1. get_update_period(lib') = get_update_period(lib) BY <2>7 DEF get_update_period, Frame, Fields
      <3> QED BY <1>0, <2>6, <2>7, <3>1 DEF PeriodInv, Frame, Fields
    <2>15. OwedInv(lib') BY <1>0, <2>7 DEF OwedInv, Frame, Fields
    <2> QED BY <2>7, <2>10, <2>11, <2>12, <2>13, <2>14, <2>15 DEF IInv, InvOf, Base, Frame, D
  <1>5. CASE ~lib.scanend
    <2>1. lib' = x BY <1>1, <1>5
    <2>2. Frame(lib, lib', {"scanning"}) /\ D = E BY <1>2, <2>1 DEF Frame, Fields
    <2> HIDE DEF E, D
    <2>3. UseInv(lib', D) BY <1>0, <2>2 DEF Base, UseInv, Frame, Fields
    <2>4. NrlsInv(lib', D) BY <1>0, <2>2 DEF Base, NrlsInv, Frame, Fields
    <2>5. OppInv(lib') BY <1>0, <1>5, <2>2 DEF Base, OppInv, Frame, Fields
    <2>6. AutoInv(lib', D) BY <1>0, <1>5, <2>2 DEF Base, AutoInv, Frame, Fields
    <2>7. PeriodInv(lib', D)
      <3>1. get_update_period(lib') = get_update_period(lib) BY <2>2 DEF get_update_period, Frame, Fields
      <3> QED BY <1>0, <2>2, <3>1 DEF PeriodInv, Frame, Fields
    <2>8. OwedInv(lib') BY <1>0, <2>2 DEF OwedInv, Frame, Fields
    <2> QED BY <2>2, <2>3, <2>4, <2>5, <2>6, <2>7, <2>8 DEF IInv, InvOf, Base, Frame, D
  <1> QED BY <1>4, <1>5

LEMMA DataSent ==
    ASSUME IInv, QueueHasRoom, data_send_cb
    PROVE  IInv'
  <1> DEFINE n == lib.in_flight - 1
             x == [lib EXCEPT !.in_flight = n]
             E == Range(lib.queue)
             D == Range(lib'.queue)
  <1>0. Base(lib, E) /\ PeriodInv(lib, E) /\ OwedInv(lib) /\ lib \in Libs /\ Ordered(lib.queue)
    BY DEF IInv, InvOf, Base, UseInv
  <1>1. lib' = PosLibEvent_add(x, "DATA_SENT") /\ n \in 0 .. MaxInFlight
    <2>1. lib.in_flight \in 0 .. MaxInFlight /\ MaxInFlight \in Nat /\ lib.in_flight > 0
      BY <1>0, PosLibAssumption DEF Libs, data_send_cb
    <2> QED BY <2>1 DEF data_send_cb
  <1> HIDE DEF n
  <1>2. Frame(lib, x, {"in_flight"}) BY <1>0, <1>1 DEF Libs, Frame, Fields
  <1> HIDE DEF x
  <1>3. x \in Libs /\ x.queue = lib.queue /\ x.busy = lib.busy BY <1>2 DEF Frame, Fields
  <1>4. Frame(x, lib', {"queue"}) /\ Ordered(lib'.queue) /\ D = E \cup {"DATA_SENT"}
    <2>1. "DATA_SENT" \in Events BY DEF Events
    <2> QED BY <1>0, <1>1, <1>3, <2>1, Post DEF QueueHasRoom
  <1>5. Frame(lib, lib', {"in_flight", "queue"}) BY <1>2, <1>4 DEF Frame
  <1> HIDE DEF E, D
  <1>6. UseInv(lib', D) BY <1>0, <1>4, <1>5 DEF Base, UseInv, Frame, Fields
  <1>7. NrlsInv(lib', D) /\ OppInv(lib') BY <1>0, <1>4, <1>5 DEF Base, NrlsInv, OppInv, Frame, Fields
  <1>8. AutoInv(lib', D) BY <1>0, <1>4, <1>5 DEF Base, AutoInv, Frame, Fields
  <1>9. PeriodInv(lib', D)
    <2>1. get_update_period(lib') = get_update_period(lib) BY <1>5 DEF get_update_period, Frame, Fields
    <2> QED BY <1>0, <1>4, <1>5, <2>1 DEF PeriodInv, Frame, Fields
  <1>10. OwedInv(lib') BY <1>0, <1>5 DEF OwedInv, Frame, Fields
  <1> QED BY <1>5, <1>6, <1>7, <1>8, <1>9, <1>10 DEF IInv, InvOf, Base, Frame, D

LEMMA GoesOffline ==
    ASSUME IInv, QueueHasRoom, on_offline_cb
    PROVE  IInv'
  <1> DEFINE x == [lib EXCEPT !.net = "OFFLINE", !.scanning = FALSE]
             E == Range(lib.queue)
             D == Range(lib'.queue)
  <1>0. Base(lib, E) /\ PeriodInv(lib, E) /\ OwedInv(lib) /\ lib \in Libs /\ Ordered(lib.queue)
    BY DEF IInv, InvOf, Base, UseInv
  <1>1. lib' = PosLibEvent_add(x, "OFFLINE") /\ lib.net = "ENTERING" BY DEF on_offline_cb
  <1>2. Frame(lib, x, {"net", "scanning"}) /\ x.net = "OFFLINE" BY <1>0 DEF Libs, Frame, Fields
  <1> HIDE DEF x
  <1>3. x \in Libs /\ x.queue = lib.queue /\ x.busy = lib.busy BY <1>2 DEF Frame, Fields
  <1>4. Frame(x, lib', {"queue"}) /\ Ordered(lib'.queue) /\ D = E \cup {"OFFLINE"}
    <2>1. "OFFLINE" \in Events BY DEF Events
    <2> QED BY <1>0, <1>1, <1>3, <2>1, Post DEF QueueHasRoom
  <1>5. Frame(lib, lib', {"net", "scanning", "queue"}) /\ lib'.net = "OFFLINE" BY <1>2, <1>4 DEF Frame, Fields
  <1>6. lib.mode = NRLS /\ lib.scheduled /\ lib.state # "STOPPED" BY <1>0, <1>1 DEF Base, UseInv
  <1>7. NRLS # OPPORTUNISTIC /\ NRLS \notin Autoscan BY DEF NRLS, OPPORTUNISTIC, Autoscan
  <1> HIDE DEF E, D
  <1>8. UseInv(lib', D) BY <1>0, <1>4, <1>5, <1>6 DEF Base, UseInv, Frame, Fields
  <1>9. NrlsInv(lib', D) BY <1>5 DEF NrlsInv
  <1>10. OppInv(lib') /\ AutoInv(lib', D) BY <1>5, <1>6, <1>7 DEF OppInv, AutoInv, Frame, Fields
  <1>11. PeriodInv(lib', D)
    <2>1. get_update_period(lib') = get_update_period(lib) BY <1>5 DEF get_update_period, Frame, Fields
    <2> QED BY <1>0, <1>4, <1>5, <2>1 DEF PeriodInv, Frame, Fields
  <1>12. OwedInv(lib') BY <1>0, <1>5 DEF OwedInv, Frame, Fields
  <1> QED BY <1>5, <1>8, <1>9, <1>10, <1>11, <1>12 DEF IInv, InvOf, Base, Frame, D

LEMMA GoesOnline ==
    ASSUME IInv, QueueHasRoom, on_online_cb
    PROVE  IInv'
  <1> DEFINE x == [lib EXCEPT !.net = "ONLINE"]
             E == Range(lib.queue)
             D == Range(lib'.queue)
  <1>0. Base(lib, E) /\ PeriodInv(lib, E) /\ OwedInv(lib) /\ lib \in Libs /\ Ordered(lib.queue)
    BY DEF IInv, InvOf, Base, UseInv
  <1>1. lib' = PosLibEvent_add(x, "ONLINE") /\ lib.net = "OFFLINE" BY DEF on_online_cb
  <1>2. Frame(lib, x, {"net"}) /\ x.net = "ONLINE" BY <1>0 DEF Libs, Frame, Fields
  <1> HIDE DEF x
  <1>3. x \in Libs /\ x.queue = lib.queue /\ x.busy = lib.busy BY <1>2 DEF Frame, Fields
  <1>4. Frame(x, lib', {"queue"}) /\ Ordered(lib'.queue) /\ D = E \cup {"ONLINE"}
    <2>1. "ONLINE" \in Events BY DEF Events
    <2> QED BY <1>0, <1>1, <1>3, <2>1, Post DEF QueueHasRoom
  <1>5. Frame(lib, lib', {"net", "queue"}) /\ lib'.net = "ONLINE" BY <1>2, <1>4 DEF Frame, Fields
  <1> HIDE DEF E, D
  <1>6. UseInv(lib', D) BY <1>0, <1>4, <1>5 DEF Base, UseInv, Frame, Fields
  <1>7. NrlsInv(lib', D) BY <1>4 DEF NrlsInv
  <1>8. OppInv(lib') BY <1>0, <1>5 DEF Base, OppInv, Frame, Fields
  <1>9. AutoInv(lib', D) BY <1>0, <1>4, <1>5 DEF Base, AutoInv, Frame, Fields
  <1>10. PeriodInv(lib', D)
    <2>1. get_update_period(lib') = get_update_period(lib) BY <1>5 DEF get_update_period, Frame, Fields
    <2> QED BY <1>0, <1>4, <1>5, <2>1 DEF PeriodInv, Frame, Fields
  <1>11. OwedInv(lib') BY <1>0, <1>5 DEF OwedInv, Frame, Fields
  <1> QED BY <1>5, <1>6, <1>7, <1>8, <1>9, <1>10, <1>11 DEF IInv, InvOf, Base, Frame, D

(* Time passes only when no event is queued and no task is due.            *)
LEMMA TimePasses ==
    ASSUME IInv, ~WakeupRefused, Tick
    PROVE  IInv'
  <1> DEFINE due == IF lib.due = -Cycle THEN -1 ELSE lib.due - 1
             since == IF lib.since = Cycle - 1 THEN 0 ELSE lib.since + 1
             E == Range(lib.queue)
  <1>0. Base(lib, E) /\ PeriodInv(lib, E) /\ OwedInv(lib) /\ lib \in Libs BY DEF IInv, InvOf, Base
  <1>1. lib' = [lib EXCEPT !.due = due, !.since = since] BY DEF Tick
  <1>2. E = {} /\ (lib.due \leq 0 /\ "trigger" \in lib.tasks => lib.net = "OFFLINE")
    BY EmptyRange DEF Tick, TriggerDue
  <1>3. lib.due \in -Cycle .. Cycle /\ lib.since \in -Cycle .. Cycle - 1 /\ Cycle \in Nat /\ Cycle > 0
    BY <1>0, CyclePositive DEF Libs
  <1>4. due \in -Cycle .. Cycle /\ since \in -Cycle .. Cycle - 1 BY <1>3
  <1>5. due < lib.due \/ due = -1 BY <1>3
  <1>5a. lib.due \in Int /\ due \in Int /\ (lib.due > 0 => due >= 0) /\ (lib.due <= 0 => due <= 0) BY <1>3
  <1> HIDE DEF due, since
  <1>6. Frame(lib, lib', {"due", "since"}) /\ lib'.due = due BY <1>0, <1>1, <1>4 DEF Libs, Frame, Fields
  <1> HIDE DEF E
  <1>7. UseInv(lib', E) BY <1>0, <1>6 DEF Base, UseInv, Frame, Fields
  <1>8. NrlsInv(lib', E) /\ OppInv(lib') BY <1>0, <1>6 DEF Base, NrlsInv, OppInv, Frame, Fields
  <1>9. AutoInv(lib', E)
    <2> SUFFICES ASSUME lib'.mode \in Autoscan, lib'.scheduled PROVE AutoInv(lib', E) BY DEF AutoInv
    <2>1. /\ lib'.mode = lib.mode /\ lib'.scheduled = lib.scheduled /\ lib'.state = lib.state
          /\ lib'.tasks = lib.tasks /\ lib'.opportunistic = lib.opportunistic /\ lib'.scanend = lib.scanend
          /\ lib'.scan_pending = lib.scan_pending /\ lib'.scanning = lib.scanning
      BY <1>6 DEF Frame, Fields
    <2>2. lib.mode # NRLS BY <2>1 DEF NRLS, Autoscan
    <2>3. lib.net # "OFFLINE" BY <1>0, <2>2 DEF Base, UseInv
    <2>4. "trigger" \in lib.tasks => due >= 0 BY <1>2, <1>5a, <2>3
    <2>5. AutoInv(lib, E) BY <1>0 DEF Base
    <2> QED BY <1>2, <1>5a, <1>6, <2>1, <2>4, <2>5 DEF AutoInv
  <1>10. PeriodInv(lib', E)
    <2>1. get_update_period(lib') = get_update_period(lib) BY <1>6 DEF get_update_period, Frame, Fields
    <2>2. lib.scheduled => lib.settings # NULL BY <1>0 DEF Base, UseInv
    <2>3. lib.scheduled => get_update_period(lib) \in 1 .. Cycle BY <1>0, <2>2, PeriodRange
    <2>4. lib.scheduled /\ lib.due <= get_update_period(lib) => due <= get_update_period(lib)
      BY <1>3, <1>5, <1>5a, <2>3
    <2> QED BY <1>0, <1>6, <2>1, <2>4 DEF PeriodInv, Frame, Fields
  <1>11. OwedInv(lib') BY <1>0, <1>6 DEF OwedInv, Frame, Fields
  <1>12. lib'.queue = lib.queue BY <1>6 DEF Frame, Fields
  <1> QED BY <1>6, <1>7, <1>8, <1>9, <1>10, <1>11, <1>12 DEF IInv, InvOf, Base, Frame, E

-----------------------------------------------------------------------------
(* The invariant holds initially, and every step keeps it.                 *)
LEMMA InitInv == Init => IInv
  <1> SUFFICES ASSUME Init PROVE IInv OBVIOUS
  <1>1. lib \in Libs
    <2>1. 1 % Cycle \in 0 .. Cycle - 1 BY CyclePositive, Remainder
    <2> DEFINE s == 1 % Cycle
    <2>2. s \in -Cycle .. Cycle - 1 BY <2>1, CyclePositive
    <2>3. lib.since = s BY DEF Init
    <2> HIDE DEF s
    <2> QED BY <2>2, <2>3, CyclePositive, PosLibAssumption DEF Init, Libs, Modes, NRLS
  <1>2. Range(lib.queue) = {} /\ Ordered(lib.queue) BY EmptyRange DEF Init
  <1>3. UseInv(lib, Range(lib.queue)) BY <1>2 DEF Init, UseInv, NRLS
  <1>4. NrlsInv(lib, {}) /\ OppInv(lib) /\ AutoInv(lib, {}) /\ PeriodInv(lib, {}) /\ OwedInv(lib)
    BY DEF Init, NrlsInv, OppInv, AutoInv, PeriodInv, OwedInv
  <1> QED BY <1>1, <1>2, <1>3, <1>4 DEF IInv, InvOf, Base

LEMMA Step ==
    ASSUME PlainUse, IInv, QueueHasRoom, [Next]_lib
    PROVE  IInv'
  <1>0. /\ Usage = {} /\ ~LateScans /\ ~WakeupRefused /\ NoSlot = {}
        /\ \A ok \in OfflineOutcomes : ok = TRUE
        /\ \A ok \in ScanOutcomes : ok = TRUE
    BY PosLibAssumption DEF PlainUse
  <1>1. CASE Tasks
    <2>1. ASSUME NEW ok \in OfflineOutcomes, delayed_start(ok) PROVE IInv' BY <1>0, <2>1, DelayedStart
    <2>2. ASSUME NEW ok \in OfflineOutcomes, NEW send \in Sendable, handle_events(send, ok) PROVE IInv'
      BY <1>0, <2>2, HandleEvents
    <2>3. ASSUME NEW ok \in OfflineOutcomes, NEW send \in Sendable, timeout_task(send, ok) PROVE IInv'
      BY <1>0, <2>3, TimeoutTask
    <2>4. ASSUME NEW ok \in ScanOutcomes, trigger_update_task(ok) PROVE IInv' BY <1>0, <2>4, TriggerTask
    <2> QED BY <1>1, <2>1, <2>2, <2>3, <2>4 DEF Tasks
  <1>2. CASE Application
    BY <1>0, <1>2, SetConfig, StartPeriodic, StartOneshot, StopPeriodic, Motion, AppConfig DEF Application
  <1>3. CASE Stack BY <1>3, ScanEnd, DataSent, GoesOffline, GoesOnline DEF Stack
  <1>4. CASE Tick BY <1>0, <1>4, TimePasses
  <1>5. CASE UNCHANGED lib BY <1>5 DEF IInv
  <1> QED BY <1>1, <1>2, <1>3, <1>4, <1>5 DEF Next

(* For any settings, periods, app configs and lengths of the queue, the    *)
(* invariant holds in every state of the library, as long as no event was  *)
(* dropped by PosLibEvent_add for want of room.                            *)
THEOREM PosLibInductive == PlainUse => (Spec /\ []QueueHasRoom => []IInv)
  <1> SUFFICES ASSUME PlainUse PROVE Spec /\ []QueueHasRoom => []IInv OBVIOUS
  <1>1. IInv /\ QueueHasRoom /\ [Next]_lib => IInv' BY Step
  <1> QED BY InitInv, <1>1, PTL DEF Spec

(* While the library is started an update is always in progress with a     *)
(* timeout to end it, or scheduled with something that will start it: no   *)
(* order of motion, configuration, requests, scans, sending and offline    *)
(* events makes handle_idle_state and handle_update_state forget the next  *)
(* one.                                                                    *)
THEOREM UpdatesOwed == PlainUse => (Spec /\ []QueueHasRoom => []NextUpdateOwed)
  <1>1. IInv => NextUpdateOwed
    <2> SUFFICES ASSUME IInv, lib.started, "delayed_start" \notin lib.tasks, lib.queue = <<>>
                 PROVE  NextUpdateOwed
      BY DEF NextUpdateOwed
    <2>1. Base(lib, {}) /\ OwedInv(lib) BY EmptyRange DEF IInv, InvOf
    <2>2. lib.mode \in Modes /\ lib.state \in {"STOPPED", "IDLE", "UPDATE"} BY <2>1 DEF Base, Libs
    <2>3. lib.state # "STOPPED" BY <2>1 DEF Base, UseInv
    <2>4. CASE lib.state = "UPDATE" BY <2>1, <2>4 DEF OwedInv, NextUpdateOwed
    <2>5. CASE lib.state = "IDLE"
      <3>1. lib.scheduled BY <2>1, <2>5 DEF OwedInv
      <3>2. lib.mode = NRLS => lib.net # "ONLINE" BY <2>1, <2>5, <3>1 DEF Base, NrlsInv
      <3>3. lib.mode = OPPORTUNISTIC => lib.scanend BY <2>1, <3>1 DEF Base, OppInv
      <3>4. lib.mode \in Autoscan => "trigger" \in lib.tasks BY <2>1, <2>5, <3>1 DEF Base, AutoInv
      <3> QED BY <2>2, <2>5, <3>1, <3>2, <3>3, <3>4, ThreeModes DEF NextUpdateOwed
    <2> QED BY <2>2, <2>3, <2>4, <2>5
  <1> QED BY <1>1, PosLibInductive, PTL

(* The update that schedule_next has scheduled is never further away than  *)
(* the period of the settings, the motion and the coverage that hold now.  *)
THEOREM UpdatesWithinPeriod == PlainUse => (Spec /\ []QueueHasRoom => []UpdateWithinPeriod)
  <1>1. IInv => UpdateWithinPeriod
    <2> SUFFICES ASSUME IInv, lib.queue = <<>> PROVE UpdateWithinPeriod BY DEF UpdateWithinPeriod
    <2>1. PeriodInv(lib, {}) BY EmptyRange DEF IInv, InvOf
    <2> QED BY <2>1 DEF PeriodInv, UpdateWithinPeriod
  <1> QED BY <1>1, PosLibInductive, PTL

(* While PosLibMeas_startScan waits for a scan, the stack scans and        *)
(* scanend_cb is registered: the flag that bars other scans is cleared.    *)
THEOREM ScansAreHeard == PlainUse => (Spec /\ []QueueHasRoom => []ScanEndComes)
  <1>1. IInv => ScanEndComes
    <2> SUFFICES ASSUME IInv, lib.scan_pending, lib.mode # NRLS PROVE lib.scanning /\ lib.scanend
      BY DEF ScanEndComes
    <2>1. Base(lib, Range(lib.queue)) BY DEF IInv, InvOf
    <2>2. lib.mode \in Modes BY <2>1 DEF Base, Libs
    <2>3. lib.scheduled /\ lib.started BY <2>1 DEF Base, UseInv
    <2>4. lib.mode = OPPORTUNISTIC \/ lib.mode \in Autoscan BY <2>2, ThreeModes
    <2> QED BY <2>1, <2>3, <2>4 DEF Base, OppInv, AutoInv
  <1> QED BY <1>1, PosLibInductive, PTL

-----------------------------------------------------------------------------
(* schedule_next moves the scheduled update only towards now, and          *)
(* handle_idle_state does not move it otherwise.                           *)
LEMMA ScheduleNotLater ==
    ASSUME NEW l \in Libs, l.settings # NULL, l.scheduled, l.state # "STOPPED", NEW now \in BOOLEAN
    PROVE  schedule_next(l, now, TRUE).due <= l.due \/ schedule_next(l, now, TRUE).due <= 0
  <1> DEFINE p == get_update_period(l)
             next == IF now THEN 0 ELSE p - Elapsed(l, p)
             d == [l EXCEPT !.due = next]
             r == schedule_next(l, now, TRUE)
  <1>1. next \in -Cycle .. Cycle /\ next \in Int /\ l.due \in Int
    BY PeriodRange, NextRange, CyclePositive DEF Libs
  <1>2. r = IF (~now /\ Kept(l, next)) \/ next = l.due THEN l ELSE update_autoscan(d) BY DEF schedule_next
  <1>3. now => next = 0 OBVIOUS
  <1> HIDE DEF next
  <1>4. CASE (~now /\ Kept(l, next)) \/ next = l.due
    <2>1. r = l BY <1>2, <1>4
    <2>2. l.due <= l.due BY <1>1
    <2> QED BY <2>1, <2>2, Zenon
  <1>5. CASE ~((~now /\ Kept(l, next)) \/ next = l.due)
    <2>1. Frame(l, d, {"due"}) /\ d.due = next BY <1>1, DueFields
    <2>2. d \in Libs BY <2>1 DEF Frame
    <2> HIDE DEF d
    <2>3. r.due = d.due BY <1>2, <1>5, <2>2, TriggerFields DEF Frame, Fields
    <2>4. next <= l.due \/ next <= 0 BY <1>1, <1>3, <1>5 DEF Kept
    <2> QED BY <2>1, <2>3, <2>4
  <1> QED BY <1>4, <1>5

LEMMA IdleNotLater ==
    ASSUME NEW l \in Libs, l.settings # NULL, l.scheduled, l.state = "IDLE", NEW e, e # "SCAN_END", NEW send
    PROVE  LET r == PosLibCtrl_processEvent(l, e, send, TRUE)
           IN r.state = "IDLE" => r.due <= l.due \/ r.due <= 0
  <1> DEFINE r == PosLibCtrl_processEvent(l, e, send, TRUE)
  <1>0. l.due \in Int BY CyclePositive DEF Libs
  <1>0a. l.due <= l.due BY <1>0
  <1>1. r = handle_idle_state(l, e, send, TRUE) BY DEF PosLibCtrl_processEvent
  <1>2. CASE e \in {"SCAN_STARTED", "ONLINE"}
    <2>1. r = set_timeout([l EXCEPT !.state = "UPDATE"]) BY <1>1, <1>2 DEF handle_idle_state
    <2>2. r.state = "UPDATE" BY <2>1 DEF Libs, set_timeout, addTask
    <2> QED BY <2>2
  <1>3. CASE e = "OFFLINE"
    <2>1. r = [l EXCEPT !.events = l.events \ {"app_cfg"}, !.beacons = FALSE] BY <1>1, <1>3 DEF handle_idle_state
    <2>2. r.due = l.due BY <2>1 DEF Libs
    <2> QED BY <1>0a, <2>2, Zenon
  <1>4. CASE e = "CONFIG_CHANGE"
    <2> DEFINE b == l.dynamic /\ l.settings.motion
               y == [l EXCEPT !.dynamic = b]
    <2>1. r = schedule_next(y, FALSE, TRUE) BY <1>1, <1>4 DEF handle_idle_state
    <2>2. b \in BOOLEAN OBVIOUS
    <2> HIDE DEF b
    <2>3. Frame(l, y, {"dynamic"}) BY <2>2, SwitchFields
    <2> HIDE DEF y
    <2>4. y \in Libs /\ y.settings = l.settings /\ y.scheduled /\ y.state = "IDLE" /\ y.due = l.due
      BY <2>3 DEF Frame, Fields
    <2>5. schedule_next(y, FALSE, TRUE).due <= y.due \/ schedule_next(y, FALSE, TRUE).due <= 0
      BY <2>4, ScheduleNotLater
    <2> QED BY <2>1, <2>4, <2>5
  <1>5. CASE e = "ONESHOT"
    <2>1. r = schedule_next(l, TRUE, TRUE) BY <1>1, <1>5 DEF handle_idle_state
    <2> QED BY <2>1, ScheduleNotLater
  <1>6. CASE e = "MOTION"
    <2>1. r = schedule_next(l, FALSE, TRUE) BY <1>1, <1>6 DEF handle_idle_state
    <2> QED BY <2>1, ScheduleNotLater
  <1>7. CASE e = "APPCFG"
    <2> DEFINE c == process_appcfg(l)
    <2>1. r = Raised(c, "app_cfg") BY <1>1, <1>7 DEF handle_idle_state
    <2>2. Frame(l, c, {"settings", "queue"}) BY AppcfgFields
    <2>3. c \in Libs BY <2>2 DEF Frame
    <2> HIDE DEF c
    <2>4. Frame(c, Raised(c, "app_cfg"), {"events"}) BY <2>3, RaisedFields DEF Flags
    <2> HIDE DEF r
    <2>5. Frame(c, r, {"events"}) BY <2>1, <2>4
    <2>6. r.due = l.due BY <2>2, <2>5 DEF Frame, Fields
    <2> QED BY <1>0a, <2>6, Zenon DEF r
  <1>8. CASE e \notin {"SCAN_STARTED", "ONLINE", "OFFLINE", "CONFIG_CHANGE", "ONESHOT", "MOTION", "APPCFG"}
    <2>1. r = l BY <1>1, <1>8 DEF handle_idle_state
    <2> QED BY <1>0a, <2>1, Zenon
  <1> QED BY <1>2, <1>3, <1>4, <1>5, <1>6, <1>7, <1>8

LEMMA StepNotLater ==
    ASSUME PlainUse, IInv, IInv', [Next]_lib, lib.started, lib.scheduled, lib.state = "IDLE",
           lib'.started, lib'.state = "IDLE", lib.queue = <<>> \/ Head(lib.queue) # "SCAN_END"
    PROVE  lib'.due <= lib.due \/ lib'.due <= 0
  <1>0. /\ ~WakeupRefused /\ NoSlot = {}
        /\ \A ok \in OfflineOutcomes : ok = TRUE
        /\ \A ok \in ScanOutcomes : ok = TRUE
    BY PosLibAssumption DEF PlainUse
  <1>1. lib \in Libs /\ lib.settings # NULL BY DEF IInv, InvOf, Base, UseInv
  <1>2. lib.due \in Int BY <1>1, CyclePositive DEF Libs
  <1>3. ASSUME NEW send, handle_events(send, TRUE) PROVE lib'.due <= lib.due \/ lib'.due <= 0
    <2> DEFINE t == Tail(lib.queue)
               x == [lib EXCEPT !.queue = t, !.busy = 1]
               r == PosLibCtrl_processEvent(x, Head(lib.queue), send, TRUE)
    <2>1. lib' = [r EXCEPT !.busy = 0] /\ lib.queue # <<>> BY <1>0, <1>3 DEF handle_events, Granted
    <2>2. lib.queue \in Seq(Events) BY <1>1 DEF Libs
    <2>3. t \in Seq(Events) BY <2>1, <2>2, TailRange
    <2> HIDE DEF t
    <2>4. Frame(lib, x, {"queue", "busy"}) BY <1>1, <2>3, PopFields
    <2> HIDE DEF x
    <2>5. x \in Libs /\ x.settings = lib.settings /\ x.scheduled /\ x.state = "IDLE" /\ x.due = lib.due
      BY <2>4 DEF Frame, Fields
    <2>6. r.state = "IDLE" => r.due <= x.due \/ r.due <= 0 BY <1>1, <2>1, <2>5, IdleNotLater
    <2> HIDE DEF r
    <2>7. lib' \in Libs BY DEF IInv, InvOf, Base
    <2>8. lib'.due = r.due /\ lib'.state = r.state BY <2>1, <2>7 DEF Libs
    <2> QED BY <2>5, <2>6, <2>8
  <1>4. ASSUME NEW send, timeout_task(send, TRUE) PROVE lib'.due <= lib.due \/ lib'.due <= 0
    <2> DEFINE x == cancelTask(lib, "timeout")
    <2>1. lib' = PosLibCtrl_processEvent(x, "TIMEOUT", send, TRUE) BY <1>0, <1>4 DEF timeout_task, Granted
    <2>2. Frame(lib, x, {"tasks"}) BY <1>1, TaskFields DEF TaskNames
    <2> HIDE DEF x
    <2>3. x \in Libs /\ x.settings = lib.settings /\ x.scheduled /\ x.state = "IDLE" /\ x.due = lib.due
      BY <2>2 DEF Frame, Fields
    <2> QED BY <1>1, <2>1, <2>3, IdleNotLater
  <1>5. ASSUME delayed_start(TRUE) PROVE lib'.due <= lib.due \/ lib'.due <= 0
    <2> DEFINE x == cancelTask(lib, "delayed_start")
    <2>1. lib' = schedule_next(x, FALSE, TRUE) BY <1>0, <1>5 DEF delayed_start, Granted
    <2>2. Frame(lib, x, {"tasks"}) BY <1>1, TaskFields DEF TaskNames
    <2> HIDE DEF x
    <2>3. x \in Libs /\ x.settings = lib.settings /\ x.scheduled /\ x.state = "IDLE" /\ x.due = lib.due
      BY <2>2 DEF Frame, Fields
    <2> QED BY <1>1, <2>1, <2>3, ScheduleNotLater
  <1>6. ASSUME trigger_update_task(TRUE) PROVE lib'.due = lib.due
    <2> DEFINE x == cancelTask(lib, "trigger")
    <2>1. lib' = PosLibMeas_startScan(x, TRUE) BY <1>0, <1>6 DEF trigger_update_task, TriggerDue
    <2>2. Frame(lib, x, {"tasks"}) BY <1>1, TaskFields DEF TaskNames
    <2> HIDE DEF x
    <2>3. x \in Libs /\ x.due = lib.due BY <2>2 DEF Frame, Fields
    <2> QED BY <2>1, <2>3 DEF PosLibMeas_startScan, PosLibEvent_add, Libs
  <1>7. CASE Tasks
    <2>1. ASSUME NEW ok \in OfflineOutcomes, delayed_start(ok) PROVE lib'.due <= lib.due \/ lib'.due <= 0
      BY <1>0, <1>5, <2>1
    <2>2. ASSUME NEW ok \in OfflineOutcomes, NEW send \in Sendable, handle_events(send, ok) \/ timeout_task(send, ok)
          PROVE  lib'.due <= lib.due \/ lib'.due <= 0
      BY <1>0, <1>3, <1>4, <2>2
    <2>3. ASSUME NEW ok \in ScanOutcomes, trigger_update_task(ok) PROVE lib'.due <= lib.due
      <3>1. lib'.due = lib.due BY <1>0, <1>6, <2>3
      <3> QED BY <1>2, <3>1
    <2> QED BY <1>7, <2>1, <2>2, <2>3 DEF Tasks
  <1>8. CASE Application
    <2>1. ASSUME NEW s, PosLibCtrl_setConfig(s) PROVE lib'.due = lib.due
      BY <1>1, <2>1 DEF PosLibCtrl_setConfig, PosLibEvent_add, Libs
    <2>2. PosLibCtrl_startOneshot => lib'.due = lib.due
      BY <1>1 DEF PosLibCtrl_startOneshot, PosLibEvent_add, Libs
    <2>3. ASSUME NEW b, PosLibCtrl_motion(b) PROVE lib'.due = lib.due
      BY <1>1, <2>3 DEF PosLibCtrl_motion, PosLibEvent_add, Libs
    <2>4. ASSUME NEW c, appconfig_cb(c) PROVE lib'.due = lib.due
      BY <1>1, <2>4 DEF appconfig_cb, PosLibEvent_add, Libs
    <2>5. ~PosLibCtrl_startPeriodic BY DEF PosLibCtrl_startPeriodic
    <2>6. ~PosLibCtrl_stopPeriodic BY <1>1 DEF PosLibCtrl_stopPeriodic, PosLibMeas_stop, stop_tasks, Libs
    <2> QED BY <1>2, <1>8, <2>1, <2>2, <2>3, <2>4, <2>5, <2>6 DEF Application
  <1>9. CASE Stack
    <2>1. ASSUME NEW complete, NEW heard, ScanEnds(complete, heard) PROVE lib'.due = lib.due
      BY <1>1, <2>1 DEF ScanEnds, scanend_cb, PosLibEvent_add, Libs
    <2>2. data_send_cb => lib'.due = lib.due BY <1>1 DEF data_send_cb, PosLibEvent_add, Libs
    <2>3. on_offline_cb => lib'.due = lib.due BY <1>1 DEF on_offline_cb, PosLibEvent_add, Libs
    <2>4. on_online_cb => lib'.due = lib.due BY <1>1 DEF on_online_cb, PosLibEvent_add, Libs
    <2> QED BY <1>2, <1>9, <2>1, <2>2, <2>3, <2>4 DEF Stack
  <1>10. CASE Tick
    <2>1. lib'.due = IF lib.due = -Cycle THEN -1 ELSE lib.due - 1 BY <1>1, <1>10 DEF Tick, Libs
    <2> QED BY <1>2, <2>1
  <1>11. CASE UNCHANGED lib BY <1>2, <1>11
  <1> QED BY <1>7, <1>8, <1>9, <1>10, <1>11 DEF Next

(* The update that is scheduled is put off by no step but the handling of  *)
(* the end of a scan: however often motion, configuration and requests     *)
(* call schedule_next, the earliest time wins.                             *)
THEOREM UpdatesNotPostponed == PlainUse => (Spec /\ []QueueHasRoom => UpdateNotPostponed)
  <1> SUFFICES ASSUME PlainUse PROVE Spec /\ []QueueHasRoom => UpdateNotPostponed OBVIOUS
  <1> DEFINE A == /\ lib.started /\ lib.scheduled /\ lib.state = "IDLE" /\ lib'.started /\ lib'.state = "IDLE"
                  /\ lib.queue = <<>> \/ Head(lib.queue) # "SCAN_END"
                  => lib'.due <= lib.due \/ lib'.due <= 0
  <1>1. IInv /\ IInv' /\ [Next]_lib => [A]_lib BY StepNotLater
  <1>2. Spec /\ []QueueHasRoom => []IInv BY PosLibInductive
  <1>3. Spec => [][Next]_lib BY DEF Spec
  <1>4. []IInv /\ [][Next]_lib => [][A]_lib BY <1>1, PTL
  <1> QED BY <1>2, <1>3, <1>4, PTL DEF UpdateNotPostponed
=============================================================================
