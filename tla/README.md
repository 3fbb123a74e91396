# Verification of the Wirepas SDK libraries

This directory holds a TLA+ development of the libraries an application of the
Wirepas SDK is built on. Paths below are relative to the root of the
repository. `PROJECT.json` lists, for every definition that models code, the
lines it stands for; every run of TLC; the mutated definition that shows each
property can fail; the theorems; and the hazards the properties are for.

    tlc -config AppScheduler.cfg MCAppScheduler       # one run
    tlapm AppSchedulerProofs.tla                      # one set of proofs

## 1. The system

The SDK is the application side of a node of a Wirepas Mesh network. The stack
(radio, routing, sleep, memory areas, time) is a binary, reached through the
tables of functions of `api/`. An application is a set of callbacks of the
stack: there are no threads, but interrupts may call some of the libraries at
any time, and callbacks call back into the library that called them. The stack
gives each service to one user only; most of the libraries exist to share such
a service between several modules, and that is where their difficulty lies.

Parts in bold are modelled; the rest is in section 7.

| Component | State | Operations | Interacts with | What is hard | What makes it correct |
|---|---|---|---|---|---|
| **Scheduler** `libraries/scheduler` | table of tasks, selected task, reselection flag | add, cancel, `periodic_work` | periodic callback of the stack; everyone | requests from interrupts in the middle of `periodic_work`; two clocks that wrap; a task that touches itself | no lost wakeup, one slot per task, the last request wins, time reserved, every task runs |
| **Shared data** `libraries/shared_data` | list of reception items, marks, pause; table of tracked packets | add, remove, resume, `received_cb`, group query; send, `sent_cb` | data service of the stack; all modules | re-entrance during a walk over a linked list; a pause with several owners; slots and ids at their limit | each packet to every matching item, a pause can end, no slot leaks, ids come back |
| **Shared offline** `libraries/shared_offline` | modules, readiness, deadlines, two tasks | register, leave, go offline, come online, wakeup, poll | scheduler, sleep service | the stack takes its time to leave; requests meanwhile; modules that come and go | offline only if all agree, deadlines and requests kept |
| **Control node** `libraries/control_node/control_node.c` | state, two packet handles, callback, two timers | send, `packet_sent_cb`, backup and reset tasks, ack | shared data, scheduler, neighbours | timer against answer, retry, refusal, silence of the stack | told once, told in the end, failure is final |
| Control router `control_router.c` | a callback | reception | shared data | | |
| **Provisioning node** `provisioning.c`, joining `joining.c` | state machines, event flags, retries, session id | start, stop, events, timeout | scheduler, shared data, stack state, joining service | lost and late packets, one step failing, flags cleared at the wrong time | ends once with the right result, never stuck, only a packet of this session is used |
| **Provisioning proxy** `proxy.c` | started flag, counter, parameters | init, start, stop, START received | shared data, joining service | half-done stop, refusals | a START is answered here or forwarded, never both |
| **Provisioning data** `data.c` (its outcome) | | decode a CBOR map, store settings | settings | checked in one step, applied in another | what is applied is what was checked |
| Local provisioning | what the node is doing | follows the app config | the three above, app config, scheduler | switches between roles | one role at a time |
| **Persistent storage** `app_persistent` | a flash area: magic, content | read, write | memory area service | reset between erase, data and magic; timeouts | a read gives what was last written, or nothing |
| **Shared app config** | table of filters | add, remove, `new_app_config_cb` | data service, TLV | filters added and removed between two configs | each filter called once, with its value |
| Shared beacon, shared neighbors, stack state | tables of callbacks or beacons | add, remove, notify | BLE beacon service, state service | callbacks that change the table during a walk | each registered callback is called |
| **Positioning control** `libraries/positioning` | event queue, control state, schedule, tasks | start, stop, oneshot, events, scans, updates | scheduler, offline, neighbors, data, app config | events in any order, queue at its limit, an end of scan that never comes | an update is always owed, within the period in force |
| Positioning messages and beacons | tables of beacons | encode, decode | positioning control | | |
| **Dual MCU API core** `libraries/dualmcu/waps` | item pool, three queues, signal, frame in flight | requests, responses, indications, replies over UART | UART interrupt, scheduler, data service | pool at its limit, pause of the reception, lost signal, lost frames | no item leaks, no request is stranded, reception resumes, packets in order |
| Dual MCU SAPs and UART | attributes; frame buffers | requests | the core; drivers | | |
| Utilities `util/`, HAL `mcu/`, bootloader, boards, tools, applications `source/` | | | | | |

The hazards, each at its line, are in `PROJECT.json`, with the properties that are
about them.

## 2. Modules

| Module | Models | Composes or extends |
|---|---|---|
| `AppScheduler` | `app_scheduler.c`, all of it | |
| `TaskService` | abstract: what `app_scheduler.h` promises | instantiated by `AppScheduler` with a refinement mapping |
| `MCAppScheduler`, `MCAppSchedulerLive` | instances for TLC | `AppScheduler` |
| `AppSchedulerProofs` | theorems | `AppScheduler` |
| `SharedDataRx`, `MCSharedDataRx` | reception side of `shared_data.c`, with `sl_list.c` | |
| `SharedDataTx` | transmission side of `shared_data.c` | |
| `SharedDataProofs` | theorems on both sides | `SharedDataTx`, `SharedDataRx` |
| `ControlNode`, `MCControlNode` | `control_node.c` over what it sees of shared data, the scheduler and the stack | |
| `ControlNodeProofs` | theorems | `ControlNode` |
| `SharedOffline` | `shared_offline.c` over the scheduler and the sleep service | |
| `SharedOfflineProofs` | theorems | `SharedOffline` |
| `Joining` | `joining.c` over the joining service of the stack | |
| `Provisioning` | `provisioning.c`, and what comes of `data.c` | `Joining` |
| `ProvisioningProxy` | `proxy.c`, and the server behind the stack | `Provisioning`, for its packets |
| `ProvisioningSystem` | a node, a proxy and a server over an unreliable network | the three above |
| `ProvisioningSession` | abstract: what `provisioning.h` promises | instantiated by `ProvisioningSystem` |
| `MCProvisioning` | an instance for TLC | `ProvisioningSystem` |
| `ProvisioningProofs` | theorems | `ProvisioningSystem` |
| `AppPersistent` | `app_persistent.c` over a flash driver and resets | |
| `PersistentRegister` | abstract: a register with one content or none | instantiated by `AppPersistent` with a refinement mapping |
| `AppPersistentProofs` | theorems | `AppPersistent` |
| `SharedAppconfig`, `MCSharedAppconfig` | `shared_appconfig.c` over the app config of the stack | |
| `PosLibControl`, `MCPosLibControl` | `poslib_control.c`, `poslib_event.c`, the scans of `poslib_measurement.c` | |
| `PosLibControlProofs` | theorems | `PosLibControl` |
| `Waps` | `waps.c`, `waps_item.c`, `waps_protocol.c`, `waps_uart_protocol.c`, with the host | |
| `WapsProofs` | theorems | `Waps` |

State variables keep the names of the static variables of the code, and actions
the names of its functions. A critical section, or a function that nothing can
interrupt, is one action; every place where somebody else may run is a cut:

* `AppScheduler`: `periodic_work()` is cut at each unlocked read of shared state
  (`check`, `read`, `test`), at the call of the task (`perform`, `running`) and
  around the critical section that reselects (`select`, `exit`). Additions and
  cancellations, from interrupts or from the running task itself, happen at any
  of them. `get_delay_from_now_us()` reads the kind of a timestamp, then its
  value: an update in between is seen half.
* `SharedDataRx`: `received_cb()` is cut at each callback of an item, from which
  the application calls the library. The list is a sequence; an item taken off
  it keeps its next pointer (`link`), which the walk may still follow.
* `SharedDataTx`: one action per outcome of `Shared_Data_sendData()`; the stack
  answers in any order.
* `ControlNode`: one action per callback and task. `reset_task()` is cut at the
  call of the application. `flight` is what the stack has accepted. The search for
  a router starts from `INT8_MIN` and takes what is strictly stronger, so that a
  neighbour heard at `INT8_MIN` is never chosen.
* `SharedOffline`: one action per call and per task; `on_stack_online_cb()` is
  cut at each module, which may call the library from there. A delay is converted
  to milliseconds in 32 bits (`DelayWrap`), so that a long one wraps.
* `Joining`, `Provisioning`: one action per callback, per task and per state of
  the two state machines, which share a callback (`end_joining_cb`). A stop of
  the joining calls it in the middle of `reset_provisioning()`, so that the node
  is left with its task scheduled and the result `STOPPED`; both are in the
  model. A packet carries the session it was sent for, for the properties only;
  the code knows the session id. Packets are never taken off `msgs`: each may
  come late, twice or not at all. Delays are left out, a scheduled task may run
  at any time. The walk of `sort_provisioning_beacons()` over its list is
  modelled by the two pointers it changes. `Provisioning_stop()` calls `end_cb`
  whether a session is open or not; `stops` counts these calls.
* `AppPersistent`: `App_Persistent_write()` is cut at its three waits, in which
  the driver advances unit by unit; the wait may be given up, and a reset may
  come, at any unit. `stored` is what the register of `PersistentRegister` holds.
* `SharedAppconfig`: a dispatch is cut at each callback. Dispatches started from
  a callback are stacked in `frames`. The copy of the filters may hold
  uninitialized entries; each is a choice.
* `PosLibControl`: one action per event, task and call. The state is one record
  and each handler a function of it, since handlers call each other several
  times in a step. Times are relative to now and go round `Cycle`.
* `Waps`: `Waps_exec()` is cut wherever it touches the signal, the queue of
  requests or the pool, which the UART interrupt shares with it. `Waps_itemFree()`
  is cut between giving the item back and reading the size of the pool. An app
  config written by the host is told to the library from inside `Waps_exec()`
  (`writeInterest`), one received by the stack while it does not run.

Functions of the stack and of the libraries below are modelled from the way they
are used and marked external in the map: the time service and `setPeriodicCb`,
`sendData`, `sleepStackforTime`, `wakeupStack`. Error returns that change no state are
left out: a library that was not initialised, parameters out of range, an app config
that is not the sink's to set (`shared_appconfig.c:297`), a read of the storage that the
driver fails or that times out (`app_persistent.c:118`, `131`).

A definition preceded by `\* Mutant:` is a plausible bug of the definition that
follows it. Nothing refers to it: it is put in place of the original to show that
the property it is listed with notices it.

### Ways of using a library

Where a library misbehaves only when it is called in a particular way, or when a
service it uses fails, that is a constant: `Usage` in `SharedDataRx`,
`SharedOffline`, `SharedAppconfig` and `PosLibControl`, `Refill` in `SharedDataTx`,
`FullScheduler` and `SendInCallback` in `ControlNode`, `Rooms`, `AckAccepted`,
`StartInCallback`, `StopOutcomes` and `Reconfigure` in the provisioning modules,
`ErasesAll` and `Lens` in `AppPersistent`, `ScanOutcomes`, `OfflineOutcomes`,
`WakeupRefused`, `NoSlot` (tasks the scheduler has no slot for) and `LateScans` in
`PosLibControl`, `AddTaskOutcomes` and `Requests` in `Waps`. The
passing runs exclude what breaks their properties, and so state under which
conditions the promises hold; section 6 lists what happens without them.

## 3. Runs

| Run | States | What it shows |
|---|---|---|
| `scheduler` | 296 107 | With two tasks, precise and coarse delays and requests at any point: no wakeup is lost or late, no task starts early, slots are neither duplicated nor moved under `periodic_work`, and the scheduler implements `TaskService` |
| `scheduler_live` | 93 880 | A task runs only in a slot of the stack long enough for it; once the interrupts stop, every scheduled task runs and cancelled slots come back |
| `shared_data_rx` | 104 270 | Three items, three kinds of packets, callbacks that add and remove during the walk: every matching item is called, no removed or busy one is, a pause has an owner |
| `shared_data_tx` | 141 137 | Two modules, three slots: slots are exactly the packets in flight, ids come back and are not shared |
| `control_node` | 9 594 | Two routers, refusals, failures, late answers, a silent stack: told once, told in the end, a failure is final |
| `shared_offline` | 36 178 | Two modules and a slow stack, delays that wrap in milliseconds: offline only if both agree, deadlines and requests kept |
| `provisioning` | 745 731 | Two sessions, a proxy and a server over an unreliable network: each session ends, once, with a result of its own and nothing left registered; what is applied is what was checked; the first proxy heard is offered and only what was heard is joined |
| `app_persistent` | 76 958 | Three writes over two sectors with refusals, timeouts and resets at any unit: the area is a register, and a write reported as done is there |
| `shared_appconfig` | 624 490 | Four filters for three slots, added from callbacks too: each ends up with exactly what its last app config holds for it |
| `poslib` | 2 772 462 | A tag, an NRLS tag and an anchor under every order of events: an update is always owed, within the period in force, and the end of a scan is heard |
| `poslib_restart` | violation | Stopped and started again, the library schedules no update |
| `waps` | 6 836 634 | The UART interrupt between any two steps of the task, lost responses, a full transmit buffer, a pool nearly empty: no item leaks, no request is stranded, the reception resumes, packets reach the host in order, the IRQ pin tells what is pending |

### Bounds

* Scheduler. Clocks of 10 to 12 units with a comparison window of half of that,
  ranges and delays such that every delay class occurs: at once, precise,
  coarse, at the end of the range. `MaxLate` bounds how late the stack calls
  back and `MaxAge` how long a timestamp may stay unserved; without them any
  circular comparison fails, in the code as in the model. Two slots are enough
  for every pair of tasks to compete, and the whole of the table. In
  `scheduler` the tasks outlive any number of wraps of both clocks. `ClockView`
  identifies states that differ by a shift of all times: the code only uses
  differences of timestamps, and `now % CoarseTick`, the one thing that is not a
  difference, is kept. Callbacks are symmetric. Neither is used for liveness.
* Shared data. Three items: the one being called, the one after it and the one
  that is touched. Three slots for two modules: both may hold several, and the
  table may be full. Two ids, one of which is the number of a slot.
* Control node. Time to live of two units, so that the backup timer, the answers
  and the safety timer come in every order. Tables of neighbours with two, one
  and no router. Two slots of shared data.
* Shared offline. Two modules and the delays 1, 2 and 4, the last of which wraps
  (`DelayWrap` = 3).
* Provisioning. Two sessions, so that what the first leaves behind meets the
  second; three session ids, the least for which an id of an earlier session is
  not the one of the next; one retry; two answers in the network, each of which
  may be received any number of times; one stop after each start and one before
  the first. One network of a proxy and one of another kind, of which a scan hears
  nothing or any three beacons: the walk over the list goes wrong in each of its ways
  with three. The methods SECURED and UNSECURED; EXTENDED_UID is treated as SECURED, and
  the theorems include it. A timeout that is doubled less often than it
  takes to wrap.
* Persistent storage. An area of two sectors of three units, the first unit the
  magic; lengths within one sector, across both and too long. Length 3 is left
  out: the data then ends in a sector that is not erased (section 6).
* App config. A filter on one type, one on all, one on app configs of another
  format and one more than there are slots; dispatches nested twice.
* Positioning. Periods of 1 and 2, one measurement in flight. The application and
  the stack add an event while fewer than `MaxPosted` = 2 are queued, the library
  its own without bound: up to 6 of the 16 places of the queue are in use. The
  theorems do not depend on `MaxPosted`.
* Dual MCU API. Four items of which one is reserved, so that half of the pool, the
  threshold, lies between the two; two frame ids, the least that can tell a
  frame from the next; room for two frames in the UART, two packets, a host that
  sends two frames ahead.

### Fairness

* `AppScheduler`: the stack calls an armed callback, a task returns, time passes.
  Requests from interrupts are bounded by `Budget`: an interrupt that keeps
  cancelling a task keeps the scheduler reselecting, in the code too.
* `ControlNode`: time passes and due tasks run. Nothing is assumed of the stack,
  which may never answer: `UserIsAnswered` rests on the safety timer.
* `SharedOffline`: due tasks run, and the stack leaves the network when asked and
  wakes up when told. Time passes whatever the modules ask, hence strong
  fairness for `Tick`, which calls of the modules disable now and then.
* `ProvisioningSystem`: the scheduler runs the tasks of the node. Nothing is assumed
  of the stack, the network, the proxy or the server: `SessionEnds` rests on the
  timers and on the bound on retries.
* The other modules are used for safety only. `NextUpdateOwed` and
  `RequestNotStranded` say of every state what keeps the system going from it.

Deadlock is checked, except for the scheduler, where time stops at the bounds
`MaxLate` and `MaxAge`.

## 4. Proofs

The theorems hold for every value of the constants that satisfies the named
assumptions of the module: sizes are positive, `NULL` (`Nil`, `NoContent`) is none
of the values it is compared with, radio levels are those of an `int8_t`. A
condition that is not always met by a user of the library is not assumed but is
the hypothesis of the theorem; each is one of the constants of section 2 and each
fails, as section 6 says, when it is dropped. Every inductive invariant was
checked with TLC on the instance of its run before it was proved.

`AppSchedulerProofs`, for any callbacks, size of the table, moduli of the clocks,
delays and execution times, the coarse clock wrapping on a multiple of the precise
one:

* `SchedulerInvariant`: `IndInv` holds always. `NoLostWakeup` is about the moments
  between two runs of `periodic_work`; to carry it through a run one needs that
  the pointer to the selected task does not dangle (`PointerLive`), which in turn
  rests on deferred release of slots and on a callback having one slot only.
* `WakeupNeverLost`, `TaskHasOneSlot`: its two parts a user cares for.
* `SchedulerImplementsService`: the refinement of `TaskService`. A task counts as
  scheduled if its slot is not marked as removed, as current from the test of its
  time to its return, and as touched if its flags say so. Each action of the code
  is one of the service or a stutter; the proof has one lemma per action.
* `TimestampsCompare`: a timestamp is read as a signed distance from its clock
  (`Distance`), and every pending one stays within `Near`: not older than the age at
  which it is served, and less than half a turn ahead with that age. `DelaysCompare`
  asks it of the delays; with 32-bit clocks it bounds a coarse delay by half of 2^32
  ticks, less the age, and a precise one by the range that `getMaxHpDelay()` stands
  for. A unit of time then brings every timestamp nearer by one, over the wraps of
  both clocks.
* `TasksNeverEarly`: the kind of timestamp read first is the one of the task if nobody
  touched it, so the test was on its time (`TestedDue`).
* `WakeupsInTime`: two timestamps of one kind are compared by distance and two of
  different kinds by delay, which is no order; but a comparison of either sort never
  contradicts the delays, so the scan returns the task with the shortest delay
  (`ScanMinimal`). The invariant `ArmedInTime` is on the exact time left, a coarse
  delay being up to a tick more, and is sharper for a selected precise task: without
  that, a coarse task added behind it could come a tick too late. `RangeCompares` asks
  of the range of the callback what `DelaysCompare` asks of the delays.
* `TimeIsReserved`: with delays below the range (`DelaysPrecise`) a selected task is
  before the limit of `schedule_task()`, and the execution time asked for then is
  the one granted when it runs. Section 6 says what happens at the limit.

`SharedDataProofs` on the transmission, for any modules, ids and size of the table:

* `TrackingInvariant`: `TxInv` holds always. `SlotsInFlight` and `NoSharedId` need
  each other: a slot is identified with its packet, and the search of the table
  with the ids in flight.
* `SlotsAreInFlight`, `IdsAreNotShared`, and `IdComesBack`, which assumes `Refill`.

`SharedDataProofs` on the reception, for any items and packets:

* `ListInvariant`: `ListInv` ties the list, the marks of removal and the
  iterator of the walk together. The iterator stands on an item of the list
  (`AtIterator`), every item before it has had the packet and none from there on
  has paused, whatever was added or removed since; marks are those of the items
  that were removed during the walk. The hypothesis `KeepsList`
  excludes the two usages that change the list under the walk.
* `PacketsReachAll`, `BusyItemsSpared`, `ListOfRegistered` follow from it.
* `PauseCanEnd` adds that the items that had no space are registered, and that there
  is one when the reception is paused (`OwnerRight`), under `AsksBusy`.
* `RemovedItemsSilent`, the action property, adds that no item ahead of the walk
  is marked (`AheadRight`), under `RemovesOwn`.

`ControlNodeProofs`, for any routers, neighbours, slots and time to live:

* `ResultsToldOnce`, without any condition: the callback is cleared with the call,
  and a call is under way only in `reset_task()`.
* `OnTimeInvariant`, if the scheduler has room: as long as the stack keeps to the time
  to live, either one packet is in flight with the backup timer running and the
  second not sent, or the backup was sent, and in each case the safety timer
  has more left than what is in flight, the backup packet to come included
  (`TimersOutlast`).
* `FailureAfterBoth`, `TimerOutlastsPackets`: a failure is told after both packets
  failed; the safety timer expires only if the stack was late, and an idle node
  has nothing in flight that could be taken for the answer to its next packet.

`SharedOfflineProofs`, for any modules and delays, whether the stack accepts to sleep
and the scheduler has room or not (`PlainUse` excludes the three other usages):

* `OfflineInvariant`: the state of the library agrees with what the stack does
  (`SleepAgrees`), the wakeup task is held while the stack is away (`WakeupHeld`), so
  that moving it needs no slot, and it comes no later than the first deadline
  (`WakeupInTime`). That a delay wraps only makes it earlier (`DelayConverted`).
* `NobodyLeftOffline`, `RequestsAreKept`, `DeadlinesAreKept`.

`ProvisioningProofs`, for any networks, configurations, retries and numbers of
sessions and packets:

* `SessionInvariant`: `SessionInv` says when a session is open, what is held in each
  state, and that `joining.c` is at rest in all states but `WAIT_JOINING`. The last
  is what makes it inductive: a joining that could still end would put a result
  into a later state. It holds under `PlainUse`: room in the scheduler, no start
  from `end_cb`.
* `NothingHeldAfterEnd`, and `SessionsAreImplemented`, the refinement of
  `ProvisioningSession`: one call of `end_cb` for a session that ends by itself and one
  for every stop, in a session or not.
* `DataInvariant`: session ids are taken in turn from a configuration, those to come
  are in no packet, and a packet with the id in use answers this session; the
  buffer holds a packet that was received. `IdsTellSessions` says that ids do not
  come back within the sessions considered and that an unsecured session does not
  have the id 0 of the proxy's refusals.
* `AppliedIsVerified`, `ResultsOfTheirSession`.
* `ProxyAnswersOrForwards`, under `ProxyKeepsRole`.
* `NetworkWasHeard` (`JoinsWhatWasHeard`), without any condition, for lists of any length
  and order: the list that `sort_provisioning_beacons()` leaves begins with the first
  provisioning beacon that was heard, and is empty only if there was none; a network
  that is joined was heard, and is a foreign one only if the list began with a foreign
  beacon and one of a proxy came before it. More, that only networks of proxies are
  joined and all of them offered, the walk does not achieve (section 6). The
  invariant of the walk (`Walked`): what it has passed before `start` is foreign, `start`
  is the first beacon of a proxy, and if it is the very first beacon, whose `next` is
  the one that is changed, all it has passed from that `next` on are of proxies.

`AppPersistentProofs`, for any sizes for which the sectors erased reach the end of
what is written (`EraseReaches`):

* `StorageInvariant`: what the area holds at each step of a write, of the library
  and of the driver. The magic is erased before anything else changes and is
  written after the data, and a driver that outlives a timeout or a reset is still
  inside the operation it was given.
* `CallersAreToldTheTruth`, and `StorageIsRegister`, the refinement of
  `PersistentRegister`: the content changes in one step, when the last unit of the
  magic is written.

`WapsProofs`, for any sizes of the pool and the buffer, requests and frame ids:

* `PoolInvariant`: the items free, queued, in flight and in the hands of
  `Waps_exec()` add up to the pool, with which of its places holds an item
  (`InHand`); `NoItemLeaks` and `ReceptionResumes` are part of it.
* `NoRequestStranded`, if the scheduler has room (`HasRoom`): a signal has a task.
* `PinTellsPending`, if no request resets the UART (`NoPowerReset`).
* `PacketsDelivered`: every packet reaches the host, in order. `Delivery` relates
  the packets accepted, those the host has, those that wait, the frames on their
  way in both directions and the frame id: frames of the id in use carry the
  first that waits, and responses to it come after the host has it. It does not
  depend on the number of frame ids beyond two.

`PosLibControlProofs`, for any settings, periods, app configs and numbers of events, in
plain use (`PlainUse`: no unusual `Usage`, scans, offline periods and wakeups are granted,
the scheduler has room and a scan ends before its timeout) and as long as `PosLibEvent_add()` has room
(`QueueHasRoom`; without it an event is dropped, see section 6):

* `PosLibInductive`: the invariant is on the library together with the events that are
  queued, since most of what the properties say holds only once the queue is empty.
  `UseInv` is what holds in every mode, e.g. that the schedule has the mode of the
  settings and that no flag that ends an update is left over. `NrlsInv`, `OppInv` and
  `AutoInv` say for each mode what will start the next update; the last is the hard
  one: task, pending scan, registered callback, time of the update and queued events
  exclude each other in the right way, so that the end of a scan still queued is
  never taken for that of the next. This rests on `Ordered`, no request behind the
  end of a scan, and fails without it (section 6, `oneshot_early`). `PeriodInv` and `OwedInv`
  are the properties with the events to come taken into account. The type of the
  record is part of it.
* `UpdatesOwed`, `UpdatesWithinPeriod`, `ScansAreHeard` are the three invariants of
  the run.
* `UpdatesNotPostponed`, an action property (checked with TLC on the same instance
  before it was proved): of the callers of `schedule_next()`, only the end of an
  update moves the time away from now.

A handler is described by the fields it changes (`Frame`), bottom up along the calls of
the code: one lemma for each function, one for each action.

Only model-checked:

* liveness (`PendingTaskRuns`, `CancelledTaskReleased`, `UserIsAnswered`,
  `GoesOffline`, `SessionEnds`): the prover does not reason about fairness;
* `InformedOfCurrent`: which calls a dispatch makes is the concatenation, over the
  filters of the table, of the selected entries of an app config, and relating the
  two is an induction over the table and the entries.

## 5. Finding

`poslib_control.c:707`, run `poslib_restart`: `PosLibCtrl_stopPeriodic()` cancels the
task of the next update but leaves `m_ctrl.scheduled` set. After the next start
`schedule_next()` takes the update for scheduled and adds no task.

## 6. Other deviations

Each comes up in a model when the constant named is changed, or when the property
named is added to a run; no run is kept for them. Where a doc or a comment of the
repository says otherwise, it is given.

| Change | What fails | Code |
|---|---|---|
| `AppSchedulerLive` with `HpWrap = 12`, `CoarseTick = 2`, `CoarseWrap = 12`, `MaxTime = 2`, `MaxAge = 3`, `Budget = 2` | `PendingTaskRuns`: once due, a coarse and a precise timestamp compare as equal and the lower slot always wins | `app_scheduler.c:189` |
| `AppSchedulerLive` with `3` (the range) among `Delays` | `ReservedTime`: a task due at the end of the range of the callback runs in the short slot of the scheduler | `app_scheduler.c:283` |
| `AppScheduler` with `MaxTime = 5`, no multiple of the coarse tick | `ArmedInRange`: the end of the range is rounded up beyond it | `app_scheduler.c:281` |
| `SharedDataRx`, `Usage = {"remove_busy"}` | `RemovedHoldsNoPause`: `sl_list_remove()` never returns anything but its argument, so a removed item is not cleared and its pause not lifted | `shared_data.c:399`, `shared_data.h:162` |
| `Usage = {"add_busy"}` | `PauseHasOwner`: adding an item again clears its flag and keeps the pause | `shared_data.c:366` |
| `Usage = {"add_removed"}` | `ListIsRegistered`: an item added back during the walk that removed it is taken off all the same | `shared_data.c:359` |
| `Usage = {"ready_in_callback"}` | `PauseHasOwner`, `PacketReachesAll`: resuming during a walk ends the protection of the list | `shared_data.c:383` |
| `Usage = {"remove_other"}` | `RemovedNotCalled`: an item marked for removal is still called for the current packet | `shared_data.c:242` |
| `SharedDataTx`, `Refill = FALSE` | `ModuleIdGivenBack`: a retry with the same structure tracks the number of a slot; the control node retries this way (`control_node.c:245`, `309`, `641`) | `shared_data.c:471` |
| `ControlNode`, `FullScheduler = TRUE` | `IdleNothingInFlight`: a backup packet whose timer could not be started is sent after all, and then not waited for (comment at line 673) | `control_node.c:297` |
| `SendInCallback = TRUE` | `OwedHasCallback`: `m_sent_cb` is cleared after the callback that may have set it anew | `control_node.c:222` |
| `SharedOffline`, `Usage = {"offline_in_callback"}` | `OfflineOnlyIfAllReady`: the readiness of the modules is reset one at a time, between their callbacks (comment at 69) | `shared_offline.c:76` |
| `Usage = {"register_entering"}` | `OfflineOnlyIfAllReady`: a module that registers while the stack is leaving does not call it back | `shared_offline.c:361` |
| `Usage = {"online_then_offline"}` | `OnlineRequestKept`: the wakeup task is moved to the next deadline, as the module that asked to come online still counts as ready | `shared_offline.c:294` |
| `Usage = {"sleep_refused"}` or `{"no_room"}` | `GoesOffline`: a sleep the stack refuses, or a task the scheduler has no room for, is not tried again; the three other properties hold | `shared_offline.c:227`, `192` |
| `DeadlineKept` for the state `ENTERING_OFFLINE` too | a deadline may pass while the stack is leaving | `shared_offline.c:113` |
| `Provisioning`, `AckAccepted = {TRUE, FALSE}` | `SessionEnds`: when the ACK is refused the state machine runs again without an event, and waits for ever ("if it fails move to next state", line 226) | `provisioning.c:232` |
| `StartInCallback = {TRUE, FALSE}` | `SessionEnds`: the start event of a session started from `end_cb` is cleared when the state function returns | `provisioning.c:465` |
| `Rooms = {TRUE, FALSE}` | `EndedIsReleased`: with a full scheduler the state is set to `WAIT_DATA` after the session has ended; and a failed `end_joining_cb()` resets, which stops the joining, which calls it again without end | `provisioning.c:543`, `187` |
| `StoppedByApplication` | every failure of the joining is reported as `PROV_RES_STOPPED`, "Application called stop function" (`provisioning.h:38`): the reset overwrites the result before it is passed on | `provisioning.c:461` |
| `TimeoutWrap = 4` and `TimeoutIsPositive` | the timeout is doubled in the configuration itself, at each retry of each session, in 16 bits | `provisioning.c:622` |
| `open` as a guard of `Stop` in `ProvisioningSession` | `ImplementsSession`: a stop calls `end_cb` with `PROV_RES_STOPPED` also if nothing was started, or if the session has ended and told its result ("called at the end of the provisioning process", `provisioning.h:51`) | `provisioning.c:842` |
| `JoinsProxiesOnly` as an invariant | with `<<p1, p1, o1>>` the second beacon of a proxy is dropped, with `<<o1, p1, o1>>` a foreign one stays and may be joined: `prev` stays on the first beacon ("Remove non provisioning beacons", line 72) | `joining.c:99` |
| `StopOutcomes = {TRUE, FALSE}` | `LocalOrForwarded`: a stop refused by the stack leaves a started proxy that no longer answers | `proxy.c:484` |
| `Reconfigure` with `<<TRUE, FALSE>>` | `LocalOrForwarded`: a proxy configured to forward keeps the filter of its earlier configuration | `proxy.c:415` |
| `Confs` with an unsecured session of id 0 | `ResultIsOfThisSession`: a refusal of the proxy is a DATA packet whose header is read from the metadata of the START, and its session id is always 0 | `proxy.c:45`, `49` |
| `AppPersistent`, `Lens = {1, 3}` | `ImplementsRegister`: the sectors to erase are counted without the magic | `app_persistent.c:158` |
| `ErasesAll = FALSE` | `ImplementsRegister`: the driver returns in `num_block` how many sectors it took, which is not looked at | `app_persistent.c:162` |
| `SharedAppconfig`, `Usage = {"remove_any"}` | `InformedOfCurrent`: filters are copied at their index but passed as the first `nb_filter` | `shared_appconfig.c:151` |
| `Usage = {"set_in_callback"}`, `{"remove_in_callback"}` | `InformedOfCurrent`: the outer dispatch goes on with the app config and the filters of before | `shared_appconfig.c:52` |
| `Usage = {"add_again"}` | `InformedOfCurrent`: a filter that is added again takes another slot and is called twice ("If the item is already in the list it is only updated", `shared_appconfig.h:94`) | `shared_appconfig.c:207` |
| `PosLibControl`, `Usage = {"mode_change"}` | `NextUpdateOwed`, `ScanEndComes`: the callback of the end of scan is deregistered while a scan is pending | `poslib_measurement.c:298` |
| `Usage = {"oneshot_early"}`, `MaxPosted = 3` | `NextUpdateOwed`: with `SCAN_END`, `ONESHOT`, `SCAN_END` queued (an incomplete scan leaves the callback registered for the next scan of the stack), the request makes the task start a scan at once and the second end completes its update; scheduling the next one deregisters `scanend_cb` while `m_scan_pending` stays set, and every later scan is refused as "already ongoing" ("the scheduled operation will continue after the oneshot update", `poslib.h:360`) | `poslib_measurement.c:316`, `335` |
| `Usage = {"oneshot_stopped"}` | `OneshotReturnsToStopped`: after the update the library is idle, not stopped as it was (`poslib.h:362`) | `poslib_control.c:1386` |
| `ScanOutcomes = {TRUE, FALSE}`, `OfflineOutcomes = {TRUE, FALSE}` or `LateScans = TRUE` | `NextUpdateOwed`: a refused scan, a refused offline period or a late end of scan is not followed by another update | `poslib_control.c:946`, `1100` |
| `NoSlot` with `"trigger"`, `"timeout"` or `"delayed_start"` | `NextUpdateOwed`: that the scheduler had no room is not looked at, or ends in nothing | `poslib_control.c:967`, `987` |
| `NoSlot = {"handle_events"}` | deadlock: the events that are queued are never handled | `poslib_event.c:101` |
| `MAX_INTERNAL_EVENTS = 3` | `UpdateWithinPeriod`: an event dropped from the full queue is not noticed | `poslib_event.c:93` |
| `Waps`, `ReplyTriedAgain` | a reply the UART refused is not among the pending frames, so that the task does not come back for it ("must re-enter WAPS to attempt again", line 274) | `waps.c:278` |
| `AddTaskOutcomes = {TRUE, FALSE}` | `RequestNotStranded`: the signal stays up although the task was not added, and no later wakeup adds it | `waps.c:398` |
| `Requests` with `"role"` | `IrqTellsPending`: a request that resets the UART clears the pin while indications are pending | `waps_uart.c:123` |

From reading only: `data.c:98` bounds an integer by `2 << (8 * size)`, twice the range of
the field, and shifts beyond the width of an int when the field has 4 bytes;
`app_persistent.c:204` reads a magic of `m_magic_size` bytes from a
variable of 4; `poslib_control.c:1206` ignores a change of configuration during an
update; indications of app configs, scans and sent packets are lost when no item is
left (`waps.c:317`, `352`, `371`); `dsap.c:300` tests the same function code twice;
`local_provisioning.c:365` hands `Provisioning_init()` the address of a local variable as the
UID, which is read when a START packet is built, after the function has returned.

## 7. Not modelled, and the plan

Not modelled:

* Tables of callbacks or beacons without behaviour over time of their own: stack
  state, shared neighbors, shared beacon, control router. The table of
  `SharedAppconfig` has the same shape and more.
* Local provisioning: it chooses the parameters of the node and the proxy and
  starts them; `ProvisioningSystem` leaves those calls free.
* The diagnostics of the control node, which only measure.
* The SAPs of the dual MCU API, which answer each request in one step, and its UART:
  framing, buffers and power depend on the drivers. `Waps` models a frame as
  written whole, refused, or lost.
* Codecs (CBOR, TLV, SLIP, messages of positioning), cryptography, drivers, boards,
  bootloader glue, initialisation, build tools, vendored code and the example
  applications.

The implementation the repository counts is mostly vendored headers, drivers and
examples; the libraries listed in bold in section 1 are the part with a logic of its own.

What is left to prove: the dispatch of `SharedAppconfig`, which needs its list of calls
stated by positions instead of by concatenation, and that plain use with a given number
of events from outside leaves room in the queue of the positioning library.
