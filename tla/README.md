# A TLA+ model of fm_v5_counter

The device counts the pulses of a flow meter. Once a minute the RTC's alarm
interrupts, the count of the minute becomes a *record* (time in the upper half,
count in the lower), the record is kept in a ferroelectric memory (FRAM), and it
stays there until it was handed to the MQTT client. The program must not lose a
count, whatever WiFi, broker, power supply and restarts do; most of this
development is about that.

    rtc_alarm_isr --fram_store_queue--> Fram_Task_Code --upload_queue-->
                          FRAM <------> Fram_Task_Code <--ack_queue---- Upload_Task_Code --> MQTT client --> broker

Paths below are relative to `src/main/`; `fram.c` is `components/fram/fram.c`, and
so on.

## 1. Inventory

| Component | State | Operations | Interacts with | What is hard | What makes it correct |
|---|---|---|---|---|---|
| FRAM store, `fram.c` | `top`, `bottom` in RAM and at FRAM addresses 4 and 0; the ring of records | `write_telemetry`, `read_telemetry`, `delete_last_read_telemetry`, `get_stored_messages_count`, `fram_reset`, `fram_internal_setup`, `check_state` | called by the FRAM task only | two full positions, wrap, power cut between bytes, misread | a bounded FIFO that survives a power cut |
| FRAM task, `fram_task.c` | none of its own (`minute_count`, `on_mains_flag` are shared) | one loop: mains, receive and write, clear the alarm, restart, acknowledge, read, offer | three queues, the RTC, `minute_count` | every call can be overtaken by the interrupt, the upload task or a power cut | a record leaves the FRAM only when it was published, in order |
| Upload task, `upload_task.c` | `telemetry_to_upload`, `previously_uploaded_telemetry`, `need_to_upload_flag`, `upload_error_count`, `minute_count`, `last_updated` | start WiFi and the client, wait for both, refresh the JWT, receive, publish, acknowledge, report status, force a restart | queues, MQTT client, status struct | late and repeated offers, lost acknowledgements, error count, waiting forever | no record is skipped or overtaken; the store drains unless a wait lasts; a wait for a running client ends |
| Interrupts, `gpio.c` | `count`, `count_gatekeeper` | `rtc_alarm_isr`, `counter_isr`, `gpio_initial_setup` | `fram_store_queue` | queue full; a mutex in an interrupt handler; a set-up that stops half-way | every pulse is in one record |
| RTC, `rtc.c` | the chip's registers: calendar, alarm flag A2F, OSF | `rtc_clear_alarm`, `rtc_config_alarm`, `rtc_get_unix`, `rtc_set_date_time` | FRAM task, SNTP task, start-up | read-modify-write of the status register from two tasks; I2C failures; calendar and BCD | the alarm keeps coming; a clock that stopped is not believed; what is written is read back |
| Time, `ntp.c`, `time_init.c` | the system clock | `time_init`, SNTP callback | RTC | which clock is trusted; an RTC that drifts | a record's time is recognisably unset, or wrong by no more than the clocks drifted |
| Status report, `status.c` | `dev_status` under `status_struct_gatekeeper` | increments, water marks, `evaluatePower`, `get_status_message_json`, `resetStruct` | all tasks; `minute_count` | copy and reset are two critical sections; `minute_count` is shared without a lock | a counted error is reported; a report is tried every hour |
| MQTT, `mqtt.c` | `mqtt_connected_flag`, `mqtt_error_count`, the client's outbox | event handler, `getValueFromJson`, `firmware_update_check`, `jwt_update_check` | upload task, `restart_required_flag` | callbacks against the upload task's waits; a configuration that is sent again | the flag tells the truth; an update is the configured one |
| WiFi, `wifi.c` | `WIFI_CONNECTED_BIT`, `wifi_disconnected_count` | `wifi_init_sta`, event handler | upload task, `restart_required_flag` | the driver tries only when asked; two limits, two restarts | there is always an attempt ahead |
| Start-up, `app_main.c` | the queues and gatekeepers, `need_to_restart` | `app_main` | all | interrupts are enabled before the start is known to be complete | nothing is used before it exists |
| JWT, `jwt.c` | - | `createJwt` | MQTT | NULL for want of memory | a token is replaced before it runs out |
| Cryptography, `crypto` | - | signature, hash | JWT | third-party arithmetic | - |

Hazards are listed one by one, with the properties that cover them, in
`PROJECT.json`.

## 2. Modules

| Module | Models | Built on |
|---|---|---|
| `TelemetryFifo` | the abstract store: a bounded FIFO with the calls' return values | - |
| `FramRing` | `fram.c`, whole operations on slots, pointers in RAM and in the FRAM, restarts | implements `TelemetryFifo` |
| `FramPower` | `fram.c` byte by byte, with a power cut between any two bytes | the same operations as `FramRing` |
| `TelemetryValue` | what a record is to the tests of the tasks: `valid`, the time in the upper half | - |
| `TelemetryPipeline` | interrupt, FRAM task, upload task, MQTT client, restarts and power cuts | `TelemetryFifo` (as an instance), `TelemetryValue` |
| `StatusReport` | `minute_count`, the power supply, the status struct | - |
| `RtcClock` | the RTC's registers and alarm line, and the I2C transfers of `time_init`, the FRAM task and the SNTP callback, each of which may fail | - |
| `RtcCodec` | the calendar: what `rtc_set_date_time` writes to the registers, what `rtc_get_unix` makes of them | - |
| `Metering` | `app_main`, the two interrupt handlers and their mutex, and the clocks in seconds | `RtcCodec` |
| `ConfigMessage` | the configuration message and the search by which `mqtt.c` reads it | - |
| `Connectivity` | the WiFi handler, the MQTT handler, the upload task's start, waits, JWT refresh and error count, firmware update, restarts | `ConfigMessage` |
| `FramRing_proofs`, `FramPower_proofs`, `TelemetryPipeline_proofs`, `StatusReport_proofs`, `RtcClock_proofs`, `Metering_proofs`, `Connectivity_proofs` | theorems; those about `RtcCodec` are in `Metering_proofs` | the modules they are named for |
| `FoldLemmas` | induction over a sequence and what follows from it for `FoldLeft` | used by `TelemetryPipeline_proofs` and `Metering_proofs` |
| `MC...` | instances for TLC | |

Composition. `TelemetryPipeline` uses the store by its abstract specification.
`FramRing` shows (by TLC and by proof) that `fram.c` implements that
specification, so the pipeline's results hold with the ring in its place, but for
one difference: what a power cut inside an operation does. A cut between two
calls is an action of the pipeline; a cut inside a call is the subject of
`FramPower`.

The other modules each open one thing that the pipeline takes for a step.
`RtcClock` opens the transfers behind `rtc_clear_alarm`, `rtc_set_date_time` and
`rtc_config_alarm`; `Metering` the interrupt behind a record and the time in it;
`Connectivity` the step `Wait` between two publishes, in which it takes the
receiving of records for "something or nothing to publish"; `StatusReport` the
report in the same step. What passes between them are single facts that one module
assumes and another shows: that an alarm comes only after the last was cleared
(`OneAlarmOutstanding`, `HeldLineIsServed`), that the session's flag is true
(`FlagFollowsSession`), that a wait for a running client ends (`WaitEnds`). Nothing is assumed of
the step `Wait` itself: `UploadsResume` shows that it may never come. A single model of all is out of
TLC's reach.

### Correspondence

*FramRing.* `top` and `bottom` are the variables of `fram.c`; `fram_top` and
`fram_bottom` are FRAM addresses 4 and 0. `memory` holds a value per slot. `ret` is
the call with its argument and result, so that the refinement also says that the
call returns what a FIFO returns. Each of the C functions is one action;
`Restart` is a loss of RAM and `fram_internal_setup`.

*FramPower.* An operation starts by computing its byte writes (`pending`), and
`fram_write_byte` performs one of them. `top` and `bottom` take their new values at
the start; the program sets them after the last byte, which no one can tell,
since only the FRAM task looks at them and a power cut loses them. Addresses
wrap at the size of the chip (`cell`) as those of the FM25V10 do; the 32 bits of the program's
pointers are not modelled, since no pointer that 17 bits can hold takes `after` beyond them. `fram_reset` is cut like a
write or a delete, also when the FRAM task calls it (fram_task.c:146). `kept` is the history of
what the store should hold; after a cut that leaves pointers never set together (`torn`) it is no
longer followed.

*TelemetryPipeline.* The FRAM task's `fram_pc` is `store` (fram_task.c:57-83),
`clear_alarm` (85), `restart` (90), `ack` (97), `read` (110), `offer` (112) and
`deleted` (129-148); the upload task's `upload_pc` is `receive` (348), `publish`
(373), `ack` (415), `wait` (the status report, the peek at 501 and the waits at
240-345) and `halted` (`increment_error_count`, 47-70). Steps are cut at calls that
another actor can see the effect of. A misread of the FRAM may give anything, and the one in
`delete_last_read_telemetry` (fram.c:220) may also compare as equal. A FreeRTOS queue is a sequence; sending to a
full one with a timeout is a disjunct that leaves it alone. `stored`, `published`,
`released` and `broker` are history.

*StatusReport.* `minute_count++` is a load and a store (`RecordStored`,
`CountMinute`), as the compiler makes it. A record comes with what the FRAM task
notes of it: a level of the store (`ReceiveRecord`) or an error of the write
(`RecordFails`). The counters of the struct are a set of events, `errors`: a counter
counts an event or does not. `high_water_mark` is the number of stored
messages, which the report brings and the reset clears; `rssi_low_mark` is the signal's,
which the reset leaves alone. `forced_count` is one above the interval; the program writes 61,
whatever the interval, which is 60 in its configuration. `peak`, `occurred` and `late` are history.

*RtcClock.* One step per I2C transfer: `pc` says which transfer of its function a task
is at, `status_value` and `control_value` are the local copies of a
read-modify-write. `time_status` and `time_registers` are the two reads of
`rtc_get_unix` (rtc.c:173-303); `minutes`, `hours`, `day`, `control_read` and `control_write` are
`rtc_config_alarm` (74-90). `match_any` has the alarm's registers that match any value: with all three the
alarm comes every minute (`minute_match`), and if a write of one failed, every hour, every day or never, which
`AlarmMatch` allows at any time and promises at none; `clear_read` and `clear_write` are
`rtc_clear_alarm` (57-69); `set_time`, `osf_read` and `osf_write` are
`rtc_set_date_time` (312-422). A failed read gives 0 (`rtc_read_reg` initialises its
result), a failed write is skipped. What the chip does is external: alarm 2 sets A2F,
A2F with A2IE and INTCN holds the line low, a falling line is one call of
`rtc_alarm_isr`, A2F and OSF can be cleared but not set by a write, and without INTCN
the pin is a square wave. The second `rtc_get_unix` at the end of the SNTP
callback only feeds the log and is left out. `misread` and `unwritten` are history.

*RtcCodec.* Registers are bytes and `struct tm` is a record; bits and nibbles are
remainders and quotients. `registers_of` is what `rtc_set_date_time` (rtc.c:312-397)
writes, `tm_of` what `rtc_get_unix` gives to `mktime` (196-299). `gmtime`, `mktime` and the
chip's own counting (`Advance`) are external.

*Metering.* `app_pc` walks through `app_main`: `create` (the queues and the mutex of
the status), `gpio` (`gpio_initial_setup`, which ends at the first call that
fails), `delay` (a flat battery) or `check`, `restart` or `time` (`time_init`, in one step,
with transfers that succeed), and `running`. A handler enters (and takes
`count_gatekeeper`, or does not get it), and leaves in one more step (`counter_isr`)
or two (`TakeCount`, `SendRecord`). The GPIO driver's service calls one handler at a
time; a pin whose edge it has still to serve is in `pending`. A record is its time and
its count. Interrupts happen from the moment a handler is hooked, also while
`app_main` waits; sending to a queue that was not created ends in FreeRTOS' assertion.
`Minute` moves the true time, the RTC and the system clock, each of which may gain or lose a second, and the RTC's alarm comes
with a change of the RTC's minute. A system time that is set from the RTC takes over its drift. It happens only at rest: a handler and a start do not last a
minute, a flat battery's delay does. `pulses`, `received`, `refused`, `drift` and `system_drift` are history.

*ConfigMessage.* A message is a sequence of pieces of text. `getValueFromJson` searches
for the text of the key, and takes what stands between the second and the third
quotation mark behind it, for every place where the text stands; the last one wins.

*Connectivity.* The upload task's `upload_pc`: `wifi_init` (`wifi_init_sta`), `wait_ip` (for
`WIFI_CONNECTED_BIT`), `clock` (the first `jwt_update_check`), `create` and `start`
(`createJwt`, `esp_mqtt_client_start`); then the loop, `wifi` (upload_task.c:240), `wifi_lost` (the wait at
257-276), `mqtt` (279-287), `jwt` (the check at 291), `jwt_create`, `jwt_stop`, `jwt_flag`,
`jwt_config`, `jwt_start` and `jwt_wait` (295-345), `publish` (the turn's rest), and `halted` (the
restart at 47-70 and `char_malloc_checker`). `station` and `wifi_events` are the
WiFi driver and its event queue; `OnStart`, `OnDisconnected` and `OnGotIp` are the branches of
`event_handler` in `wifi.c`. `client` says whether the MQTT client's task runs, `session` whether
it has the broker; `client_pc = "abort"` is the time between MQTT_EVENT_ERROR and
MQTT_EVENT_DISCONNECTED, in which the handler keeps the client's task for a minute.
`Connected`, `Error`, `Disconnected`, `Published` and `Data` are the branches of the handler in
`mqtt.c`. Time is in ticks: `since_update` is the age of `last_updated` by the device's clock,
`password_age` the age of the JWT in use by the broker's; the RTC may be ahead or behind
until SNTP answers. `Tick` happens only when the task waits for something that others
do; what can connect does so within a tick. `Delivered` is the version that the device
left the factory with, `VersionAt` what a download from an URL brings.

## 3. Runs

| Run | Shows | Bounds |
|---|---|---|
| `fram_ring` | The pointers stay on slots, never reach the position from which a write empties a full ring (`RingInv`), and the ring is the FIFO (`ImplementsFifo`) | five slots: every pair of pointers, both full positions and wrapped content are reached. Theorems cover every size |
| `fram_power` | An interrupted write, delete or reset is done or undone unless the cut leaves pointers that were never set together (`CutIsAtomicUnlessTorn`): a torn pointer, or a reset's new top with the old bottom; a torn pointer returns to the ring with the next operation (`PointersHeal`) | four slots, bytes of eight values so that every second pointer step carries, three cuts: enough for a cut in the recovery from a cut |
| `pipeline` | `OneAlarmOutstanding`, `UploadHoldsOldest`, `NoRecordSkipped` through alarms, restarts, a power cut, dropped offers and acknowledgements, failed publishes | three alarms, one each of early clear, restart and power cut; two valid values and two invalid ones; values may repeat; a FRAM of three records |
| `pipeline_glitch` | with a misread FRAM: `DeletedWerePublished`, but for a delete whose own comparison is misread; under fairness `StoreDrains`, if the upload task's waits end | two alarms, one restart, one power cut, one misread value |
| `status_report` | `TriedWithinAnHour`, `LostOnlyWhilePublishing`, `PowerComesToBeReported` | an hour of two minutes, a byte of six values (it overflows while reports fail), two changes of the supply, one kind of error that either task counts, one level of the store |
| `rtc_clock` | The read-modify-writes of two tasks never leave the alarm line low with nobody to clear it (`HeldLineIsServed`); a clock that stood still is not believed (`BelievedTimeWasSet`); the alarm keeps coming (`AlarmKeepsComing`). Each has the exception that the code has: a failed write, or a failed read | a queue of two records, two failed transfers, two restarts, of which one may lose the clock and one the registers; all transfers of three tasks interleave |
| `connectivity` | `mqtt_connected_flag` tells the truth in spite of the refresh that lowers it (`FlagFollowsSession`); a station without access point has an attempt ahead (`StationTriesAgain`); an update is the configured one, once (`UpdateFollowsConfig`); a wait for a running client ends (`WaitEnds`) | limits of one, a JWT of two ticks, a clock one tick ahead or behind, one loss of the network or session, one call that fails, two versions besides the delivered one |
| `metering` | Every pulse is in one record or on its way there (`CountedOnce`); the system clock is recognisably unset or wrong by no more than the clocks drifted (`ClockRight`), and so is the RTC once it ran (`RtcFollows`); tasks run only after a complete start (`StartedComplete`) | seven starts, just before the calendar's boundaries; three minutes, two pulses, one restart, one failing call, two seconds of drift of the two clocks together, a queue of one record |

Four more runs show where a comment of the source and the code part:

| Run | Comment | What the code does |
|---|---|---|
| `pipeline_power_cut` | "the ack wouldnt have been sent to FRAM if the data hasn't been uploaded" (upload_task.c:412) | the acknowledgement follows the client's acceptance |
| `status_forced` | "Force the status update if there is a change" (fram_task.c:16) | a change during a report sets `minute_count` to 61, which `minute_count = 1` after the report overwrites (upload_task.c:472) |
| `rtc_alarm_stops` | "Configures alarm 2 to trigger every minute" (rtc.c:72) | with the alarm so configured, one failed write of `rtc_clear_alarm` (rtc.c:66) ends the alarms until a restart. (A failed write of `rtc_config_alarm` is another matter: it leaves an alarm by the hour, by the day, or none.) |
| `upload_stalls` | "keep trying to send the message until successful" (upload_task.c:373) | when WiFi is lost the client is stopped, and only the refresh of the JWT starts one, behind the wait for a connection |

Disagreements that were met and that no run shows:

- `read_telemetry`: "If there is no telemetry to read, it returns 0" (fram.c:183); a stored 0 (an
  alarm before the clock is set, with no pulses) is returned as 0 too, and nothing
  behind it is read until the store is reset. `StoreDrains` excepts it.
- "need to check that the intended data is deleted - dont just delete "blind"" (fram.c:219): the check is a
  second read, and if that one is misread as the value to delete, the record at the head goes, published
  or not. An acknowledgement may be repeated when the next record is the head already, and a head that
  was misread as a bad value (fram_task.c:110) may be misread so again (138). The model makes this step in
  `pipeline_glitch`, and `DeletedWerePublished` excepts it.
- "If NTP callback isn't triggered often enough, RTC must update system time if system time is wrong"
  (time_init.c:12): `time_init` sets the system time from the RTC at the start, and nothing does so
  later. `ClockRight` follows the drift of the system clock and gives it no bound: a device that runs without SNTP stamps its
  records with whatever its clock has become.
- After a power cut the "FRAM will send the same message back to UPLOAD" (upload_task.c:413); a
  cut between two bytes of a pointer that carries makes it skip records. `CutIsAtomicUnlessTorn` excepts it.
- `minute_count` is the "Count of the minutes to know when an hour has passed" (upload_task.c:11);
  the byte overflows after 195 minutes of failures. `TriedWithinAnHour` allows for it.
- `get_stored_messages_count` (fram.c:255) is one short when the records wrap around
  the end of the ring; `Count` of `TelemetryFifo` allows for it.
- `check_state` (282) accepts the pointers 0 of a FRAM that was never written, although
  `fram_reset` is "Also used the first time to initialise fram" (270); `FramPower` starts from
  pointers that were set.
- `status_resetStruct` "Resets all the count and water mark variables" (status.c:423) but not the lowest
  RSSI; the model leaves it as the code does.
- If `status_struct_gatekeeper` is not obtained, `status_message` is published without having been
  written (upload_task.c:457). Its holders keep it for a few instructions and the others wait a
  second, so the models take it for obtained.

### Bounds

Every bound is a constant or a named definition: `Budget` (how often the
environment acts), `Cuts`, `MaxChanges`, `MaxLag`, `MinuteRange`, `QuietBound`,
`FramCapacity`, `StoreQueueLength`, `Radix`, `Failures`, `Restarts`, `MaxLosses`, `MaxFailures`,
`Offset`, `MaxMinutes`, `MaxPulses`, `MaxRestarts`, `MaxDrift`. Three alarms suffice for the pipeline
because the upload task remembers two values (the one it publishes and the one
before) and the store must hold a third for one to be skipped. `StoreQueueLength`
is 1 in `pipeline`, so that the full queue occurs, and 2 in `pipeline_glitch`.

In `Connectivity` the limits of 3600, 120 and 60 are 1: below, at and above the limit
occur, and the forced restart at twice it. A JWT of two ticks is refreshed when its age is above one
(nine tenths, rounded down), so there is an age at which it is valid and due, and one at which it has run out; `Expired` stands for all later
ones. In `Metering` the starts are the ends of February in a common year and (28th and
29th) in a leap year, of a year and of a month of 30 days, and hours 09 and 19, each a minute
or two before the boundary, so that a minute or two, with a second
of drift, crosses it; and a queue of one is filled when its reader sleeps. In
`StatusReport` one kind of error suffices because counters do not meet; marks are one value above the
initial one. The theorems cover all values of these constants.

### Fairness

`TelemetryPipeline`: weak fairness of `app_main`, of the FRAM task, and of the upload task's steps
other than `Wait`. FreeRTOS schedules by priority with time slices, no task of higher priority
computes without end, and each of these steps ends by itself or with a timeout: `xQueueReceive` in
the FRAM task, a second for the acknowledgement, eight minutes before the forced restart. The waits
of the upload task are different. Those for WiFi (upload_task.c:242-277, wifi.c:131), for the broker (282) and for it again after a
refresh of the JWT (338) have no timeout, and `upload_stalls` shows one that never ends. So nothing is assumed of `Wait`, and `StoreDrains` says what
holds *if* the task is not left in it for ever (`[]<>(upload_pc # "wait")`): then no lost offer, lost acknowledgement or
restart leaves the two tasks waiting on each other.
Strong fairness of `PublishAccepted`: a publish that is tried again and again is
accepted once; without it the device has no network and the store cannot drain.
Alarms, faults and restarts have no fairness; `Budget` ends them, which is the
"once faults cease" of `StoreDrains`. `StatusReport` assumes the same of the FRAM task
and of `PublishStatus(TRUE)`, and that the upload task's loop comes round: `PowerComesToBeReported` holds for a device whose upload task is not
left waiting, which `upload_stalls` shows it may be; strong fairness of `ReceiveRecord` is the alarm that
comes every minute.

`RtcClock`: weak fairness of the chip (`AlarmMatch` while the alarm matches every minute: a minute passes; `SquareWave`) and of
`time_init` and the FRAM task, which only wait for transfers with a timeout of their
own. None of the SNTP task: the network may be away.

`Connectivity`: weak fairness of the FRAM task's look at `restart_required_flag`, of the client's task (it
connects when it can, reports an error when it cannot, and gives a broken connection up), and of the upload task.
Nothing is assumed of the WiFi, of SNTP or of the network: `WaitEnds` holds without
them. Only `upload_stalls` adds that the network returns and that the WiFi driver, its handler and SNTP do their part
(`NetworkReturns`), so that what it shows is not a network that stays away.

## 4. Proofs

All theorems are proved for every value of the constants.

`FramRing_proofs` (`NextRing` is one step per operation):
- `TypeCorrect`, `NeverAtLastSlotUnwrapped`: `RingOK`, the
  conjunction of the type invariant, `RingInv` and the agreement of the pointers in
  RAM with those in the FRAM (which a restart reads), is inductive. `RingInv` is what makes it so: with
  `bottom` in the first slot and `top` in the last, the next write would wrap onto
  `bottom`; the first disjunct of `memory_full` is there to keep the ring out of
  that position.
- `RingImplementsFifo`: (the FIFO may refuse a write while one more would fit, as
  `memory_full` does with `bottom` in the first slot) under `RingOK` every step of the ring is a step of
  `TelemetryFifo`. The refinement mapping reads the records off the slots from
  `bottom` to `top`; lemmas state what `after` does to it.

`FramPower_proofs`:
- `TypeCorrect`: that the pointers of a running device are aligned needs `PowerInv`: the memory
  holds bytes whatever a cut left there, the writes still to come are bytes at addresses, and
  `check_state` lets only aligned pointers in. Lemmas split a pointer and a record into bytes.
- `TornPointersHeal`: `after` of an aligned pointer is a slot, in the ring or not.
- `CutIsAtomic`: `CutIsAtomicUnlessTorn` speaks of idle moments only, so `CutInv` says what holds
  in the others. While the power is off, the pointers in the FRAM, if `check_state` takes them, have the
  records in `kept` between them (`OffInv`); when idle they are those in RAM as well (`IdleInv`); within an
  operation (`Running`) the first `i` of its writes have been made, and the operation `Survives`:
  *whatever* number of its writes is made, the old pointers still have the old records,
  the new pointers have the new ones, and after the last write the pointers are the new ones.
  `WriteSurvives`, `DeleteSurvives` and `ResetSurvives` show that each operation's list of writes is
  of that kind when it starts: the slot written to is outside the records of the old pointers, and different slots
  share no byte; a reset writes no record's byte, so its old pointers keep theirs. A cut is then only a change of case. The number theory is `PointerSplits` and `RecordSplits` (bytes give
  the number back), that of the ring `SpanGrows` and `SpanShrinks` (`after` adds or removes one record).

`TelemetryPipeline_proofs`:
- `TypeCorrect`.
- `OnlyPublishedDeleted`: with any number of misreads, a delete that takes the record it names takes an invalid one, or
  one whose value was published; one whose own comparison is misread is excepted. An acknowledged value was published. The inductive
  invariant `AckedWerePublished` follows the value back through `ack_queue` and the
  upload task; it needs that every offer is valid, because
  `previously_uploaded_telemetry` is 0 before the first publish.
- `AlarmsDoNotPileUp`: `OneAlarmOutstanding` is inductive on top of the type
  invariant. Its consequence is that the interrupt handler may ignore a full queue.
- `OldestIsUploaded` (without misreads): `UploadHoldsOldest` says nothing of what is on its way, so
  `OldestInv` says for every place of a value what it may be: what the FRAM task is about to
  offer is the oldest record; an offer that waits is the oldest, or the one that was last published;
  an acknowledgement that waits is of the last published value, or, while that one is still
  the oldest record, of an earlier one, which the store then refuses as it is another.
- `NothingSkipped` (without misreads): `NoRecordSkipped` equates a fold over the published and the stored
  records with a history. `SkipInv` adds that `previously_uploaded_telemetry` is the last published
  value. A write extends both sides by the same record; a delete takes the head of the store off, which by
  `OldestInv` is the last published value and which the fold leaves out after itself (`ExtendedTwice`); and a
  publish adds the head, or repeats it. `ContinuedIs`, `ContinuedByAppend` and `ContinuedByTail` say so for the fold, by
  `FoldLemmas`.

`StatusReport_proofs`:
- `TypeCorrect`.
- `NothingElseIsLost`: `LostOnlyWhilePublishing` needs `Covered`, which says at each step between the copy and the
  reset what the struct has beyond the copy: only what is in `late`.
- `ReportIsTriedInTime`: `HourInv` has two cases. Either the last attempt is within the
  present turn (`Recent`), or, until `minute_count` is beyond the hour, the minutes since
  the attempt are at most a turn more than it says, and it is never so far beyond the hour that
  it overflows before the next test (`Counting`). The same holds of the copy that a
  `minute_count++` has loaded, unless an attempt has overtaken it (`Stale`). It needs
  `MinuteAssumption`: the byte has room for the hour and one lag.

`RtcClock_proofs` (lemmas per task, one step per action):
- `TypeCorrect`.
- `AlarmIsServed`: `HeldLineIsServed` is inductive on top of the type invariant,
  because after `time_init` only `AlarmMatch` makes the line fall, with a record, and
  only the clearing of the alarm ends the FRAM task's turn.
- `StoppedClockIsNotBelieved`: `BelievedTimeWasSet` needs `SeenRunning`: a task that has
  read OSF = 0, or has just set the time, may act on it later, and the time is still
  right then, since only a restart can stop the clock and it ends the task, too.

`FoldLemmas`: `NatInductionOnSet` is induction over the numbers for which a formula holds, taken as a set,
since the provers cannot be given an operator. From it: a maximum over a prefix (`MaxOfPrefix`), and that
the value of `FoldLeft` is that of any sequence which starts with the base and makes the operator's step at each index
(`FoldExists`), whichever fold it is.

`Metering_proofs`, about the calendar:
- `CalendarRoundTrip`: `tm_of(registers_of(tm)) = tm` for every time of the years 2000 to 2099, from one
  lemma for two digits in a byte and one for the hours.
- `CalendarInverse`: `mktime(gmtime(unix)) = unix` in those years, from where a day's month
  (`MonthOfDay`) and year (`YearOfDay`) begin.
- `ChipCounts`: the registers count as the C library does, for up to a day: a carry of each register
  (`ChipCarries`) is the carry of the calendar (`NextTime`).

and about the program:
- `RtcKeepsTime`, `SystemTimeIsRight`: `RtcFollows` speaks of seconds and the chip has registers, so `ClockInv`
  says that the registers are always those of some time (`Shown`), and of the time that `RtcFollows` allows once OSF is
  clear. `ClockMinute` is `ChipCounts`, `ClockSynchronised` the round trip with the tolerance of
  the SNTP callback. All stays within the century by `MeteringAssumption`. `SystemTimeInv` adds that a
  clock that was never set is behind `CONFIG_LAST_KNOWN_UNIX`, also if it gains, and that one that was set is off by
  the tolerance and `system_drift`: its own drift, and that of the RTC if it was set from it. Nothing bounds that drift
  between synchronisations but the length of the run.
- `MeteringTypes`: the type invariant, on top of `ClockInv` for the registers.
- `StartIsComplete`: `StartInv` remembers at each step of `app_main` that what is missing was
  noted in `need_to_restart`.
- `HandlersDropNothing`: a handler finds the mutex free, because it is held only by a
  handler that is under way, and there is one at a time.
- `PulsesCountedOnce`: `CountedOnce` is inductive on top of the types and `MutexInv`. A handler that
  finds no mutex would lose a pulse, and `SumOfAppend` and `SumOfTail` move a count into the queue and out.

`Connectivity_proofs`:
- `FlagIsTrue`: `FlagFollowsSession` needs `FlagInv`: a client that does not run has no
  session, none runs before the first start or between the stop and the start of a refresh, and in
  that stretch the flag is lowered before the client starts.
- `StationNeverGivesUp`: on top of the type of `wifi_events`; the event that the handler answers without
  asking for an attempt is not the one that an idle station waits for.
- `UpdateIsTheConfigured`: lemmas compute what the search finds in a message of two entries
  (`ConfigIsRead`), which needs that keys and values are distinct texts
  (`TextAssumption`, `ConfigAssumption`); `UpdateInv` adds that no other program waits
  before a restart was asked for.
- `TypeCorrect`: part by part. The count of upload errors is below its limit until the task
  halts, and while the clock is ahead `since_update` is not negative, so that SNTP
  takes it back by `Offset` at most; a clock that was behind makes it older, up to `Expired`.

The assumptions are those named in the modules: `ValueAssumption`,
`SizeAssumption`, `BudgetAssumption`, `RtcAssumption`, `MinuteAssumption`, `LimitsAssumption`,
`ConfigAssumption`, `TextAssumption`, `MeteringAssumption`, `TelemetryAssumption`, and the layouts of
the ring, `LimitAssumption` and `LayoutAssumption`. Two of them say more than the kind of a constant:

- `LayoutAssumption`: the ring has three slots at least (the program's has 16000, fram.c:14-17). In a ring of
  one, a write would make `top = bottom` again, and its record would be lost; a ring of two is
  full (`memory_full`) as soon as it is empty.
- `MeteringAssumption`: the device starts after `CONFIG_LAST_KNOWN_UNIX`, the time at which its
  configuration was made; the run ends within the years 2000 to 2099, since the program
  adds 2000 to two digits (rtc.c:277); and a clock that counts from power-on does not reach
  `CONFIG_LAST_KNOWN_UNIX`, which would take 50 years.

`OldestIsUploaded` and `NothingSkipped` assume `Budget["glitch"] = 0`: a misread that is taken for a record may be
offered in the record's place, as in `pipeline_glitch`.

All the safety properties of the runs are proved. Model-checked only is liveness
(`StoreDrains`, `PowerComesToBeReported`, `AlarmKeepsComing`, `WaitEnds`), which needs fairness and ENABLED and is
beyond the prover.

## 5. Not modelled

- Cryptography: third-party arithmetic on numbers of 256 bits. Of the JWT the text, base64 and
  the signature.
- The JSON text of the status message, and the battery's voltage in it.
- Messages of the configuration with other entries than the two, or with a key's text in a
  value: `ConfigMessage` models what the search does, but no run sends one.
- LEDs; pin, SPI and I2C set-up; `fram_test` and `rtc_test`; `backups/`.
- A failing SPI transfer is modelled as a misread value, not as an error, because
  `fram.c` does not look at errors.
- I2C failures are in `RtcClock`, not in `TelemetryPipeline` and `Metering`; a transfer fails or
  succeeds as a whole. At which minute, hour or day a partly configured alarm comes is left open.
- A FRAM that was never written.
- Memory that runs out elsewhere than in `createJwt` and the client's configuration.

## 6. Plan

1 to 9 exist.

1. `FramRing`, `TelemetryFifo` and the refinement, proved.
2. `TelemetryPipeline` with its safety, proved, and its liveness.
3. `FramPower`, its safety proved.
4. `StatusReport`, safety proved.
5. `RtcClock` with its safety, proved, and its liveness.
6. `Connectivity` with `ConfigMessage`, safety proved, and its liveness.
7. `Metering`: interrupts, start-up and clocks, proved.
8. `RtcCodec`: round trip, inverse and the chip's counting, proved.
9. The firmware update, in `Connectivity`.
10. Left: the refinement of the pipeline's step `Wait` by `Connectivity`, and of `TelemetryFifo` by `FramPower`
    between cuts; the battery's voltage and charge status in `StatusReport`.
