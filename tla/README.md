# TLA+ models of OpenBreath (DragonBreath firmware)

OpenBreath is the firmware of a mains-powered chamber heater on an ESP32-C3: a PTC
element switched by a solid-state relay, a blower on a TRIAC, two thermistors, four
buttons, and a network API that web pages, Klipper and Moonraker talk to. What must
be right is that heat is only ever driven on somebody's current order, that every
fault takes it away and keeps it away, and that no reset, failed flash write, lost
message or late button press gets around that.

The modules here are translated from `src/`. TLC checks small instances of them; TLAPS
proves every safety property of the passing runs, the refinements of three abstract
specifications, and that the compositions run their parts, for every value of the constants.

## 1. Inventory

| part | source | state | operations | modelled in |
|---|---|---|---|---|
| heater: fault latch | `pb_heater.c` 225-405, 423-446 | RAM latch, fault code, inhibit, deferred-persist flag; flash keys `fault_latch`, `fault_code` | trip, emergency off, panic-off, clear, inhibit, boot restore, retry in the tick | `FaultLatch`, `LatchPromise`, `HeatPromise` |
| heater: limits, regulation | `pb_heater.c` 121-238, 448-504 | target, ceiling, comms timeout, link stamp, relay | set target, settings, cutoffs, hysteresis | `Policy`, `Params` |
| policy: modes | `pb_policy.c` 111-179, 395-726, 752-863 | mode, source, revision, lease, deadlines | commands, heartbeat, buttons, panic, clear, tick | `Policy`, `HeatPromise` |
| policy: remembered parameters | `pb_policy.c` 181-360 | five values in RAM and on flash, dirty flag, worker | command, persist worker, boot load | `Params` |
| policy: purge; fan; thermistor average | `pb_policy.c` 728-750, 838-868; `pb_fan.c`; `pb_ntc.c` 232-240, 312-318 | session flag, hysteresis, averaging window, gate, ISR state | tick, set level, zero-crossing interrupt | `Airflow` |
| control task | `app_main.c` 67-72, 173-250 | deadline on the tick counter, notification, watchdog | tick, wake, overrun, hang | `ControlLoop` |
| command API | `pb_httpd.c` 276-473 | replay cache of two answers | command, answer, repeat | `CommandApi`, `CommandPromise`, `Httpd` |
| event stream | `pb_httpd.c` 526-621 | slot count; per stream the last revision sent | open, poll, send, close | `EventStream`, `Httpd` |
| maintenance API, boot | `pb_httpd.c` 795-985; `app_main.c` 252-326 | OTA slots, boot slot, trial state, pending restart | restart, factory reset, update, rollback, confirmation | `Maintenance` |
| sensor offsets, LED switch | `pb_ntc.c` 44-79; `pb_leds.c` 171-205 | RAM value and flash key | save, boot load, erase | `Settings` |
| buttons | `pb_buttons_sm.c`, `pb_buttons.c` | debounce and hold counters | seed, step | `Buttons`; their effect in `Policy` |
| Wi-Fi | `pb_wifi.c`; `pb_portal.c` 380-478 | station state, retry count, scan flag, credentials | start, driver events, fallback, scan, save | `Wifi` |
| Moonraker client | `pb_moonraker.c` | connection state, status cache | connect, subscribe, merge, Klipper restart | `Moonraker` |
| event log, LED patterns, page texts, DNS, board, HIL | `pb_evlog.c`, `pb_leds.c`, `pb_portal`, `pb_board`, `pb_hil` | log ring; otherwise none that others read | | not modelled |

How the parts interact: the control task (highest priority of the firmware's own tasks,
500 ms, or at once when woken) passes Moonraker's bed temperature to the policy and runs
`pb_policy_tick`, which holds the policy mutex from its decision to the end of
`pb_heater_tick`. The httpd task and the button task call the policy's setters under the
same mutex and wake the control task. The settings handler calls
`pb_heater_set_max_target_c` and `pb_heater_set_comms_timeout_ms` without the mutex. The
persistence worker copies parameters under the mutex and writes flash outside it, while
the latch is persisted inside it. The websocket task fills Moonraker's cache under a lock
of its own; the driver's event task outranks everything and writes `s_state` of the Wi-Fi
manager without one; the zero-crossing interrupt shares three words with the fan setter.

What makes it hard: many tasks and an interrupt; flash writes that fail or are cut off
between two keys; restarts that forget RAM but not flash; clients that act on old
snapshots and repeat requests whose answer they lost; a button handler that looks first
and calls later; a tick counter that wraps; delayed restarts; a station that goes away
under an open connection. `PROJECT.json` lists these hazards line by line with the
properties that watch them.

## 2. Modules

Composition: `Network` = `Wifi` + `Moonraker`; `Httpd` = `CommandApi` + `EventStream`;
`Device` = `Maintenance` + `Buttons` + `Settings`; `Policy` holds modes and heater in one module, `Airflow` purge, sensors and
fan. The remaining interfaces are variables kept abstract on one side: a clear that may
fail in `Policy` is `ClearFault` with its flash in `FaultLatch`; a revision in `CommandApi`
and `EventStream` is the set `current` of `Policy`; `Linked` and `bedTemp` of `Moonraker` are
the environment of `Policy`'s `Engage`; an event of `Buttons` is a press in `Policy`.
Each composition is proved to run its parts: its steps are steps of a part's own
specification or leave that part alone, so what is proved of a part holds in it.

**FaultLatch.** The mutex is `lock`; a task inside `persist_fault` moves through the
labels `open`, `set_latch`, `set_code`, `commit`, each of which may fail (`nvsUp`), and
`PowerCut` may come between any two. `Boot` is `pb_heater_load_fault` (with
`FaultDecide`) and the inhibit of a control task without watchdog; `NvsErase` is
`nvs_init`. `TickBegin`, `TickRetry`, `TickTrip`, `TickDrive` are `pb_heater_tick` in its
order. The target is reduced to `armed`, readings to the trip they cause. An
`nvs_set_u8` is taken to be durable when it returns, which is the harder case.
`first` and `torn` are history.

**LatchPromise** is what a user is promised: the latch is held, or there is no mark on
flash, and heat is released only when the mark is gone. That is the persist-first of
`docs/SAFETY.md:97-99` and of `pb_heater.c`; `pb_heater.h:148-150` says otherwise (section 4).
`FaultLatch` implements it with `held <- latched \/ ~up` and `mark <- nvs.latch = "1"`.

**Policy.** Mode, plan, lease and faults of `pb_policy.c` with the part of
`pb_heater.c` the tick drives. Time is counted in control periods (`Elapse`), deadlines
as what is left of them. A revision is represented by the set `current` of clients that
hold it: an advance empties the set, and `HeatAllowed` asks for membership.
`TickDecide` and `TickApply` are the two halves of the tick with the mutex held (phase
`"decided"`), so that the setters that do not take it can fall between. `ButtonLook` and
`ButtonCall` are the two steps of `pb_policy_on_button`. `quiet` is history: how long
nobody entitled was heard. The requested fan percentage is always 0 in the code and is
left out; the tick's clock is read just before the mutex is taken and is folded into
the tick.

**HeatPromise** is what the policy promises about heat: it is driven only on an order that
stands, a fault takes the order with it, none is given while a fault is latched. `Policy`
implements it with `ordered <- mode # Off`, `faulted <- Latched`, `hot <- ssr`; `FaultLatch`,
one layer down, keeps the same promise with `ordered <- armed`, `faulted <- latched`.

**Params.** The worker is split at each point where it can be interrupted or fail:
`WorkerTake` (copy and clear the flag, one critical section), `WorkerCompare`,
`WorkerWrite` per key, `WorkerCommit`, `WorkerEnd`. `Command` and `Notify` are two steps
because the mutex is released between them. The ceiling has a flash key of its own, which
a save may fail to write while RAM and the answer have the new value. `failed` and `astray`
are history; `astray` holds the keys of which `s_written` does not tell what flash holds. A
persistence worker that could not be created ("params stay RAM-only") is not modelled.

**Airflow.** Averages of the last `Window` known readings, the purge decision and the
blower. The three stores of `pb_fan_set_level` are three actions and `ZeroCross`, the
interrupt, may fall between them. `owed` is history: an onlooker's account of whether a tick
has found it cool enough since the heat, by the threshold that applies to a blower that runs
with or without heat, and not by the flags of `pb_purge_decide`.

**ControlLoop.** `control_task` on a counter modulo `Modulus`, with the signed distance
(`Ahead`) the code computes, wakes at any time, ticks of up to `BodyMax` and hangs.

**CommandApi.** The network holds every request ever sent and delivers it any number of
times, in any order, across restarts. `Handle` is `command_post` up to the policy call,
`SendSuccess` the snapshot, the answer and its caching; `Advance` (a button or the
control task) may come between.

**CommandPromise** is the API as its clients may think of it, one that remembers every answer
since the restart: a command that can heat takes effect once and on the state it names, and
a repeat brings its own answer while that still describes the device, otherwise a conflict.
`CommandApi` implements it with a cache of two entries: `done` is what has run, `told` what
the cache holds an answer for that shows the present state, `moved` that somebody else has
changed the state since the command being answered. Where the API document and the code
disagree the promise takes no side: it lets a `drying_stop` without a revision be executed or
rejected, and an answer that shows a later state than its command's be kept or not. An API
that did both as the document says keeps the promise too.

**EventStream.** `Reserve`, `BeginAsync`, `CreateTask` are the three steps of `events_get`,
each of which can fail; `Poll`, `Send`, `Close` are `sse_task`. The client may stay, close
its connection or vanish. `got` is history: what the client has received.

**Httpd** puts both into the one httpd task. A handler runs to its end before the next
request is looked at, so no stream is opened between the policy call and the answer of a
command; the tasks of open streams go on and see the revisions that commands make.

**Maintenance.** `app_main` in four stages, because the front panel works long before the
network does; both slots with what is in them, the boot slot and its trial state, and a
restart that lands after it was granted. Bootloader and `esp_ota_*` are external.
Uploading a slot takes longer than the 1.2 s of a pending restart: that is a bound of
`UploadEnds`. `starved` is history: the restart task of an update was not created.

**Buttons.** `pb_buttons_sm_step` by its cases and `pb_buttons_sm_seed`. `steady`, `stable`
and `due` are history, a plain debouncer beside the machine: what the line was for long
enough to be trusted, and whether a press of it still waits for its event.

**Settings.** A value that is written to flash first and to RAM after the commit, which may
fail after the key was set; what a boot reads, clamps and falls back to. `reported` is
history: what the last OK answer said.

**Device** composes the three: every reset clears the panel and forgets RAM, `StartPanel`
loads the settings and seeds the buttons with whatever the line then is, an event of a
button may arm a mode, the one httpd task saves, updates and erases in turn.

**Wifi.** The chip has one core and the event task outranks the others, so an event and its
handler are one action; `main` (app_main in `pb_wifi_start` and `pb_portal_start`) and httpd
are interleaved with it. `FallBack` and `RestartDriver` are the two assignments of `s_state`
in `start_ap_mode` with the stop of the driver between them. `pb_wifi_scan_start` is split
where it leaves its lock. `SaveSsid`, `SavePassword` are the two flash keys of a save.

**Moonraker.** The client's handlers as actions, the server as its comments describe it
(external): it keeps a subscription over a Klipper restart and does not repeat what
changed meanwhile. `lost` is history for what the client drops: an oversized response, a
subscribe that could not be sent, or its own SUBSCRIBED mark overwritten by
`start_client`.

**Network** composes the two: the client is started by `app_main` after the Wi-Fi manager,
it reaches the server only through a joined station, and a station that is away does not
by itself close the connection.

## 3. Runs

Each module has one MC module (components of a composition have that of the composition)
and one passing configuration. "Proved" names the properties that `*Proofs.tla` establishes
for all constants; the others are model-checked only.

| run | properties (proved unless marked *) | bounds, and why they suffice |
|---|---|---|
| `latch` | `FlashLatchHolds`, `HazardIsDurable`, `InhibitIsPermanent`, `LatchKeepsPromise`, `DeferredPersistLands`* | two client tasks (httpd, button) besides the control task, one over-temperature and one armed-only code: enough for a trip, a clear and a panic-off to overlap |
| `policy` | `FaultMeansOff`, `OffMeansCold`, `HeatIsRenewed`, `ChangeIsRevised`, `LinkLossNeedsLease`, `HeatKeepsPromise`, `HeatEnds`* | two clients (a holder and a stranger), two heat levels (below and at a ceiling), timeouts of 2 or 3 periods, so that a lowered timeout differs from a live one, runs of 2 periods, a tick at least every period |
| `params` | `NothingForgotten`, `NoLostWake`, `RememberedIsApplicable` | three of the five keys: one written by its own command, two by one command; two ceilings; reads and writes may fail |
| `airflow` | `PurgeIsOwed`, `GateIsAccounted`, `NeverOnTemperatureAlone` | a cool, an in-band and a hot temperature around the real 37/40 C thresholds, a window of two; with the hysteresis of the purge taken out, or an unknown sensor taken for a cool one, `PurgeIsOwed` fails |
| `loop` | `TickIsDue`, `WatchdogSparesHealthy`, `WakeIsPrompt`, `NoBurst`, `HungHeatEnds`* | a counter modulo 26, period 3, ticks of up to 4 (longer than the period, so overruns happen), watchdog 8, wakes that keep the task running at most 1 past its deadline |
| `commands` | `AppliedOnce`, `RetryRecovers`, `CommandsKeepPromise` | three requests for two cache slots (one is displaced), four revisions, symmetric in the requests |
| `httpd` | `SlotsAccounted`, `SentIsReceived`, `StreamCatchesUp`* | one command and two clients for one stream slot (one of them is refused), three revisions, so that one overtakes a sending; `commands` has the larger instance of the API |
| `network` | `StateIsTruthful`, `ScanIsAccounted`, `CacheIsCurrent`, `BootComesUp`*, `LinkFollowsStation`* | one retry instead of five, two bed temperatures, two messages in flight (a status and a Klipper notification queue up); with four in flight the safety properties were checked as well |
| `device` | `OwnFirmwareRuns`, `PressIsAnswered`, `ReportedIsKept`, `EventsAreEarned`, `RecoversFromBadImage`* | the two slots of `partitions.csv`, every kind of image, two samples to debounce and two to a long press, one setting with a legal, a clamped and a missing value |

The type invariants are proved (`TypeCorrect`, `StreamsTypeCorrect`) and are properties of no
run. `Wifi`, `Moonraker`, `Buttons`, `Settings` and
`Maintenance` state their own properties and a specification each; the compositions run
and prove them.

`ControlLoop` assumes that wakes do not keep the task running past its deadline for
more than `StormMax`: a client that has a command accepted in every tick could hold the
deadline back, and the signed comparison is only meaningful within half the counter.
Each tick the wakes cause is a full safety tick, so heat is still watched; and 2^31
ticks are not reached that way. `RangeAssumption` states what "within half" takes: a deadline
can be left behind by the storm, by the tick in which its last wake arrives, by the tick
that serves the wake and by the delay until the task runs again: `StormMax + 3 * BodyMax`. With less room TLC finds the
distance overflowing (at `Modulus` 22 with `Period` 1, `BodyMax` 4, `StormMax` 1).

Three runs check what the repository says and the code does not do:

* `latch_hazard_after_panic` (`TripAfterPanicOffPersists`). `docs/SAFETY.md:59-61` says that a
  panic-off is RAM-only and that hazard-driven trips persist. `do_latch` writes flash only
  when the latch was free, so an over-temperature trip in a latch that a panic-off began is in
  RAM only: boot, panic-off, trip in the next tick. (A trip in a latch begun by an unreadable
  flash is not stored either, but that latch comes back by itself while flash is unreadable.)
* `policy_newer_fault` (`NewerFaultIsRevised`). `pb_policy.h:159` says stale state must
  not clear a newer fault. A trip that replaces a latched fault makes no new revision.
* `wifi_gives_up` (`GaveUpFallsBack`). `pb_wifi.c:265` logs "STA gave up; falling back to
  portal", and `pb_wifi.h:4` promises the fallback. After the boot nobody reads the bit
  that is set there, and no further connect is asked for: the device is off the network
  until it is restarted.

## 4. Other disagreements met while modelling

Those with a configuration of their own can be looked at with TLC, which finds the stated
formula violated.

* `pb_heater.h:148-150` says of a clear that could not be persisted that "the RAM latch was
  cleared" and the fault "would return on reboot". `pb_heater.c:330-338` persists first and
  leaves the latch where it was, as `docs/SAFETY.md:97-99` says. `FlashLatchHolds` and
  `LatchKeepsPromise` state what code and SAFETY.md agree on, that is, that the situation the
  header describes never occurs; the header's own claim is `FailedClearReleasesRam`
  (`MCFaultLatch_failed_clear.cfg`: boot, clear, failed write, still latched).
* A clear whose later flash write fails is rejected but has already rewritten
  `fault_latch`, and nothing is queued to undo it: the next boot comes up unlatched,
  against a plain reading of `docs/SAFETY.md:86-98`. `RejectedClearKeepsFault` states it and
  `MCFaultLatch_clear.cfg` shows the behaviour. `HazardIsDurable` therefore excepts a clear
  that failed half-way (`torn`).
* Revisions start again at 1 after a restart and a request carries no boot identity, so a
  request composed before a restart can be executed after it. `AppliedOnce` counts the
  executions of one boot.
* The comment at `pb_moonraker.c:298` says the policy holds the vent on a Klipper shutdown.
  The control task passes on nothing that a shutdown changes, so AUTO goes on by the bed
  temperature from before it (`ShutdownIsNotActedOn` of `Moonraker`, stated and not run).
* A panic-off pressed while a trip waits for flash is stored by the retry
  (`pb_heater.c:434`), although `pb_heater.c:311` and `SAFETY.md:59` say it is RAM-only.
* `nvs_init` (`app_main.c:133`) erases an unusable partition and a stored fault with it;
  `SAFETY.md:95` calls the restore fail-safe. `NvsErase` is in the model. A factory reset
  does the same to a stored fault; and in the 1.2 s before its restart, or for good if the
  restart task is not created, pages and the persistence worker fill the flash again.
* Lowering the comms timeout under a live lease (`pb_heater.c:212`) makes lease and
  watchdog disagree until the next heartbeat, against `pb_policy.h:21`. `HeatIsRenewed` is
  stated with the longest timeout for that reason.
* The settings page answers OK for `max` and `comms_ms` whether or not flash took them
  (`pb_httpd.c:696-707`: "clamps + persists"), unlike for the LED switch and the calibration,
  of which `ReportedIsKept` holds.
* The purge is decided by the display average (`pb_policy.c:739`), not by the readings
  `SAFETY.md:107-109` speaks of; a sensor hot only in its latest readings counts as cool.
  `docs/FEATURES.md:97-100`, "current as of v0.3.0", still describes the purge before that: by
  the chamber alone and down to 40 C. `PurgeIsOwed` is about both sensors and both thresholds.
* A key written by a save that failed later, then taken back by a command, stays on
  flash while `params_dirty` is clear (`pb_policy.c:266` against its comment at 79). A
  value accepted equal to a clamped one is not written (`pb_policy.c:347`), against
  `docs/api-v2.md:91-94`.
* A button press between a command and the snapshot of its answer (`pb_httpd.c:318`) is
  cached with it, against `docs/api-v2.md:133-136`. `drying_stop` without an
  `expected_revision` is rejected (`pb_httpd.c:441`), against `docs/api-v2.md:123` and
  `136-137` and the comment at `pb_httpd.c:459`: `StopsAlwaysExecute`, which
  `MCCommandApi_stop.cfg` shows violated. `CommandPromise` leaves both open.
* `start_client` (`pb_moonraker.c:436`) sets CONNECTING unlocked after the client was
  started and can overwrite SUBSCRIBED; a subscribe response of 4 KB or more is dropped
  and a failed subscribe is not repeated.
* `device_armed` (`pb_httpd.c:894-900`) is asked long before an upload ends, a
  confirmation is read or the delayed restart fires; a button may arm heat meanwhile, and
  the restart takes it away. `save_post` of the portal restarts without asking at all.
  The result of `xTaskCreate` (`pb_httpd.c:890`) is ignored: without the restart, a second
  upload that is refused has already overwritten the slot that is to boot. `OwnFirmwareRuns`
  excepts that case (`starved`).
* `save_post` answers "Saved" before the credentials are written
  (`pb_portal.c:437-445`); a write that fails, or a restart between the two keys, leaves a
  new network name with the old password. With the fallback disabled, `pb_wifi.c:339`
  speaks of a driver that keeps retrying; the retries are the handler's, and end.

## 5. Fairness

Clients, buttons, printers, access points and flash are never assumed to act or to work.

* `FaultLatch`: the boot proceeds, a task inside `persist_fault` finishes, two seconds pass,
  and the tick begins again and again (strong: the mutex is taken and released by others,
  and the control task has the highest priority among those that wait for it).
  `DeferredPersistLands` supposes that flash works for good from some time on.
* `Policy`: time passes, and the tick is decided when due and applied. Weak fairness
  suffices: `Elapse` stops at a due tick, and a decided tick holds the mutex.
* `ControlLoop`: time passes and the watchdog resets.
* `Httpd`: the stream tasks run, and TCP's keepalive gives a silent connection up.
* `Network`: the tasks of the device run, and an attempt to connect ends. A server that can
  be reached answers a request (strong: the station may come and go and the queue fill);
  a websocket whose station stays away is given up (the client's ping timeout).
* `Device`: the bootloader and `app_main` proceed while the supply stays on; the end of
  `app_main` is reached again and again (strong, because restarts can be asked for
  before it); an image that panics does so.

## 6. Proofs

Every component has its properties proved in one of eight modules. Each module proves
`Spec => []IInv` (`Inductive`, or `InvariantHolds` for latch and policy) with a lemma per action
or group of actions, and takes the theorems from it. What is assumed of the constants is in
the named ASSUMEs of the component's module and nowhere else: positive bounds, non-empty or
finite sets, names that differ from the reserved ones, a counter wide enough for its signed
distances. Every invariant and action property of the passing runs is stated by a theorem.

* **FaultLatchProofs.** `FlashLatchHolds` alone breaks at a first key write, because nothing
  says that the writer holds the latch; it needs `LockDiscipline` (only the holder of the
  mutex is inside the latch code) and `WriteDiscipline` (a writer of "1" holds the latch, a
  writer of "0" is a clear on an uninhibited heater, and a task past the key write finds
  its own value there). `HazardIsDurable` speaks of the free mutex only; `HazardAccounted`
  extends it to the steps in between (`Settling`). `LatchZeroesTarget` and `ColdStart` serve
  the inhibit and the boot. The refinement of `LatchPromise` uses the same invariant and
  `LatchKeyWriters`: only a clear's commit releases the latch, and then its own "0" is on
  flash. `HeaterImplementsPromise` shows `HeatPromise` of the latch as well: no heat without a
  target and no target under a latch are kept below the policy, whatever the policy does.
* **PolicyProofs.** `FaultMeansOff` and `OffMeansCold` hold while the mutex is free; in the
  middle of a tick they need `LatchDiscipline` (a latch leaves no plan in any phase),
  `OffDiscipline` (OFF leaves at most the target that the tick is about to take away) and
  `DecisionDiscipline` (what was decided agrees with the plan until it is applied). `Renewal`
  bounds silence by what is left of the deadline, or by the tick that is due, and gives
  `HeatIsRenewed`. `ChangeIsRevised`, `LinkLossNeedsLease` and the refinement of `HeatPromise`
  are proved step by step from that invariant.
* **AirflowProofs.** `SessionIsDriven` carries a session of heat through the phases of a
  tick and ties the purge flag to what an onlooker sees, a blower that runs without heat, so
  that code and onlooker use the same threshold; `GateInCall` says what the interrupt can
  find inside the fan's call.
* **ControlLoopProofs**, for any width of the counter. `AheadIs` characterises the signed
  distance without remainders: it is the one of the three numbers `d - clock`, plus or minus
  `Modulus` or neither, that lies within half of the counter. From it `Nearer` (a tick of the
  clock), `Later` (a deadline advanced by a period) and `FromNow` (the resynchronisation) give
  what each step does to the distance, wrap or not, and the rest is linear arithmetic.
  `DeadlineIsNear` keeps the distance within half of the counter, which is what the lemmas
  need, by bounding how far wakes, a tick and its delay push the task behind it;
  `FedEveryTick`, `TickAges` and `WakeAges` tie the ages to the distance and to the time the
  task has been runnable, `PeriodsApart` says the deadline stays at least a period from each
  periodic tick that made it. `HungHeatIsCounted` is what remains of `HungHeatEnds` without
  fairness: the watchdog counts every tick of a hung task that drives the relay.
* **ParamsProofs.** `WorkerHoldsTheLast`: while the worker writes, what it took is what the
  commands last set, unless they marked it dirty again, and then a wake is coming. This ties
  the parameters to `s_written` (`CleanIsWritten`); `WrittenIsOnFlash` ties `s_written` to flash,
  key by key: outside of a save for the keys that did not go astray, within one for those it
  does not have to write, and for those it is past without an error, what it took. Together
  they give `NothingForgotten`, of flash and not only of RAM.
* **HttpdProofs**, for any number of requests, cache slots, revisions and any finite set of
  streams. `HeatIsSpent`: a heat command that has run names a revision that has been left.
  `EntriesArePast` and `ServesTheMaker`: an entry for the present revision shows the present
  state. Together with `RetryRecovers`, which is part of the induction, they give
  `ApiImplementsPromise`: a displaced entry would have been out of date (`SendSuccessPromised`),
  one that is left is of the past (`NothingTold`), and a second execution is excluded by the
  revision (`ExecutePromised`), so the cache cannot be told from one that keeps everything.
  `SlotsAccounted` is counted by the library's theorems on cardinality when a stream is opened
  or closed. `HttpdServesCommands` and `HttpdServesStreams` compose them: to the streams a
  command is one more advance of the revision, to the commands a stream is nothing at all.
* **DeviceProofs.** `TrialDiscipline` says what the state of the boot slot implies of both
  images; with two slots, "the other one" is determined. `MachineFollowsLine` relates the
  debouncer's counters to the plain account of the line. `SavingIsOnFlash` is the state
  between key and commit. `DeviceIsMaintained`, `DeviceRunsButtons` and `DeviceKeepsSettings`
  show that a device step is one of each part or leaves it alone.
* **NetworkProofs.** `StateDiscipline` says when the Wi-Fi state may lie (while the driver
  is restarted), `OneScan` and `AsksFromPortal` that one scan at most is claimed or running.
  For `CacheIsCurrent`: what is on its way to the client ends with the printer's present bed
  temperature, or a fresh status is asked for or announced, or one was lost
  (`CacheDiscipline`), where a Klipper that is gone has announced it last (`KlippyDiscipline`)
  and a connection that is gone has taken its messages with it (`ConnectionDiscipline`).
  `NetworkRunsWifi` and `NetworkRunsClient` are the composition.

Only model-checked: the liveness properties `DeferredPersistLands`, `HeatEnds`,
`HungHeatEnds`, `StreamCatchesUp`, `BootComesUp`, `LinkFollowsStation` and
`RecoversFromBadImage`, because the prover does not treat fairness and ENABLED.

## 7. Not modelled

* The floating-point conversions of `pb_ntc.c` (divider voltage to temperature): real
  arithmetic and logarithms are outside of TLC's and the prover's reach.
* The flash key of the comms timeout, which is saved like the ceiling; the control token
  and its check; name, password and address of the access point, which are only read and
  passed on; the health and log pages. They carry no state that meets another component's.
* Functions without a caller: `pb_moonraker_set_config`, `pb_moonraker_clear_config`,
  `pb_wifi_clear_creds`, `pb_wifi_set_ap_config_and_reboot`.
* `pb_evlog` (a ring that only the log page reads), LED patterns, page texts and form
  parsing, the stateless DNS responder, pin set-up, test injection (not in releases) and
  the host scripts.

Worth adding next: `Policy` composed with `FaultLatch` in place of the clear that may fail; a
refinement of `HeatPromise` from the device across restarts.
