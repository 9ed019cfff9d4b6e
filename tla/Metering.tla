------------------------------- MODULE Metering -------------------------------
(***************************************************************************)
(* How pulses become records with a time: app_main's start, the two        *)
(* interrupt handlers of components/gpio, and the clocks from which a      *)
(* record's time comes, with the real registers of the RTC.  RtcClock has  *)
(* the RTC's transfers and their failures; here they work, and time_init   *)
(* and the SNTP callback are one step each.                                *)
(*                                                                         *)
(* The GPIO driver is external: it calls one handler at a time.            *)
(***************************************************************************)
EXTENDS RtcCodec, SequencesExt

CONSTANTS Starts,            \* times at which the device may be switched on
          CONFIG_LAST_KNOWN_UNIX,
          StoreQueueLength,  \* length of fram_store_queue
          MaxMinutes, MaxPulses, MaxRestarts,
          MaxDrift,          \* seconds gained or lost altogether, by both clocks
          MaxFailures        \* calls of app_main that fail

time_tolerance == 1

\* The device is used in this century, and long after the epoch: a clock that
\* counts from power-on does not reach CONFIG_LAST_KNOWN_UNIX.
ASSUME MeteringAssumption ==
  /\ {MaxMinutes, MaxPulses, MaxRestarts, MaxDrift, MaxFailures} \subseteq Nat
  /\ CONFIG_LAST_KNOWN_UNIX \in Nat /\ StoreQueueLength \in Nat \ {0}
  /\ Starts \subseteq Nat
  /\ \A t \in Starts : /\ t > CONFIG_LAST_KNOWN_UNIX /\ InCentury(t)
                      /\ InCentury(t + 60 * MaxMinutes + MaxDrift + time_tolerance)
  /\ 60 * MaxMinutes + MaxDrift < CONFIG_LAST_KNOWN_UNIX

VARIABLES
  now,                   \* the true time
  rtc, OSF, A2F, A2IE,   \* registers and bits of the RTC
  system_time,           \* seconds; since power-on if it was never set
  app_pc,                \* app_main's next step
  created,               \* the queues and mutexes that there are
  handlers,              \* the handlers hooked to their pins
  need_to_restart,
  pending,               \* pins whose interrupt was not served yet
  isr_pc,                \* the handlers' next step
  holder,                \* who has count_gatekeeper
  count, local_count,
  fram_store_queue,
  pulses, received, refused,  \* history, since the start: pulses that came;
                              \* those in records received, or refused
  drift,                 \* history: by how much the RTC drifted since synchronised
  system_drift,          \* history: the same of the system time, which takes over
                         \* the RTC's when it is set from it
  minutes, restarts, drifted, failures   \* bounds, see the constants

rtc_vars == <<rtc, OSF, A2F, A2IE>>
app_vars == <<app_pc, created, handlers, need_to_restart>>
isr_vars == <<pending, isr_pc, holder, count, local_count>>
history == <<pulses, received, refused, drift, system_drift>>
bounds == <<minutes, restarts, drifted, failures>>
vars == <<now, rtc_vars, system_time, app_vars, isr_vars, fram_store_queue,
          history, bounds>>

Pins == {"alarm", "counter"}
Objects == {"fram_store_queue", "upload_queue", "ack_queue",
            "status_struct_gatekeeper", "count_gatekeeper"}

AtStart == /\ app_pc = "create" /\ created = {} /\ handlers = {}
           /\ need_to_restart = FALSE
           /\ pending = {} /\ isr_pc = "idle" /\ holder = "none"
           /\ count = 0 /\ local_count = 0
           /\ fram_store_queue = << >>
           /\ pulses = 0 /\ received = 0 /\ refused = 0

\* The RTC was never set, or an earlier run set it.
Init == /\ now \in Starts
        /\ \/ rtc = NeverSet /\ OSF = TRUE /\ A2F = FALSE /\ A2IE = FALSE
           \/ /\ rtc = registers_of(gmtime(now)) /\ OSF = FALSE
              /\ A2F \in BOOLEAN /\ A2IE = TRUE
        /\ system_time = 0
        /\ AtStart
        /\ drift = 0 /\ system_drift = 0
        /\ minutes = 0 /\ restarts = 0 /\ drifted = 0 /\ failures = 0

\* The system time may survive; RAM does not.
esp_restart ==
  /\ system_time' \in {system_time, 0}
  /\ app_pc' = "create" /\ created' = {} /\ handlers' = {}
  /\ need_to_restart' = FALSE
  /\ pending' = {} /\ isr_pc' = "idle" /\ holder' = "none"
  /\ count' = 0 /\ local_count' = 0
  /\ fram_store_queue' = << >>
  /\ pulses' = 0 /\ received' = 0 /\ refused' = 0
  /\ UNCHANGED <<now, rtc, A2F, A2IE, drift, system_drift, minutes, drifted, failures>>

\* A restart, or a power cut that the RTC's battery outlasts or not.
Restart == /\ restarts < MaxRestarts /\ restarts' = restarts + 1
           /\ esp_restart
           /\ \/ UNCHANGED OSF
              \/ OSF' = TRUE /\ system_time' = 0
-------------------------------------------------------------------------------
Seconds(gain) == IF gain = 0 THEN 0 ELSE 1

\* A minute passes; the RTC and the system clock each gain or lose a second, or
\* not.  When the RTC's minute changes, the alarm's line falls, if it was high.
Minute ==
  /\ minutes < MaxMinutes /\ minutes' = minutes + 1
  /\ app_pc \in {"delay", "restart", "running"} /\ pending = {} /\ isr_pc = "idle"
  /\ now' = now + 60
  /\ \E gain, slip \in -1 .. 1 :
       /\ drifted' = drifted + Seconds(gain) + Seconds(slip)
       /\ drift' = drift + gain
       /\ rtc' = Advance(rtc, 60 + gain)
       /\ system_drift' = system_drift + slip
       /\ system_time' = system_time + 60 + slip
  /\ drifted' <= MaxDrift
  /\ LET matches == A2IE /\ ~A2F /\ rtc'.minutes # rtc.minutes
     IN /\ A2F' = (A2F \/ rtc'.minutes # rtc.minutes)
        /\ pending' = {"alarm"} \cap {pin \in handlers : matches}
  /\ UNCHANGED <<OSF, A2IE, app_vars, isr_pc, holder, count, local_count,
                 fram_store_queue, pulses, received, refused, restarts, failures>>

\* A pulse takes longer than a handler.
Pulse ==
  /\ pulses < MaxPulses
  /\ "counter" \in handlers \ pending
  /\ pulses' = pulses + 1
  /\ pending' = pending \cup {"counter"}
  /\ UNCHANGED <<now, rtc_vars, system_time, app_vars, isr_pc, holder, count,
                 local_count, fram_store_queue, received, refused, drift, system_drift,
                 bounds>>
-------------------------------------------------------------------------------
\* app_main.
Create ==
  /\ app_pc = "create"
  /\ \E missing \in SUBSET (Objects \ {"count_gatekeeper"}) :
       /\ failures' = failures + Cardinality(missing)
       /\ created' = Objects \ ({"count_gatekeeper"} \cup missing)
       /\ need_to_restart' = (missing # {})
  /\ failures' <= MaxFailures
  /\ app_pc' = "gpio"
  /\ UNCHANGED <<now, rtc_vars, system_time, handlers, isr_vars, fram_store_queue,
                 history, minutes, restarts, drifted>>

\* Slip of setup_failed: gpio_initial_setup's result is only noted in the log.
setup_failed_ignored(ok) == need_to_restart

setup_failed(ok) == need_to_restart \/ ~ok

\* The steps end at the first that fails: the mutex, the service and the pins,
\* one handler, the other, the LEDs.
gpio_initial_setup ==
  /\ app_pc = "gpio"
  /\ \/ \E done \in {{}, {"mutex"}, {"mutex", "alarm"}, {"mutex", "alarm", "counter"}} :
          /\ failures < MaxFailures /\ failures' = failures + 1
          /\ created' = created \cup {"count_gatekeeper" : m \in done \cap {"mutex"}}
          /\ handlers' = done \cap Pins
          /\ need_to_restart' = setup_failed(FALSE)
     \/ /\ created' = created \cup {"count_gatekeeper"}
        /\ handlers' = Pins
        /\ need_to_restart' = setup_failed(TRUE)
        /\ UNCHANGED failures
  /\ app_pc' \in {"delay", "check"}     \* a flat battery, or not
  /\ UNCHANGED <<now, rtc_vars, system_time, isr_vars, fram_store_queue, history,
                 minutes, restarts, drifted>>

\* After a minute with a flat battery the device starts all the same.
CheckStart ==
  /\ app_pc \in {"delay", "check"}
  /\ app_pc' = IF need_to_restart THEN "restart" ELSE "time"
  /\ UNCHANGED <<now, rtc_vars, system_time, created, handlers, need_to_restart,
                 isr_vars, fram_store_queue, history, bounds>>

RestartIncomplete == app_pc = "restart" /\ esp_restart /\ UNCHANGED <<OSF, restarts>>

rtc_get_unix == IF OSF THEN 0 ELSE mktime(tm_of(rtc))

\* Then the tasks start.  The system time is set from the RTC here only.
time_init ==
  /\ app_pc = "time"
  /\ \/ /\ rtc_get_unix > CONFIG_LAST_KNOWN_UNIX
        /\ system_time' = rtc_get_unix /\ system_drift' = drift
     \/ /\ rtc_get_unix <= CONFIG_LAST_KNOWN_UNIX
        /\ UNCHANGED <<system_time, system_drift>>
  /\ A2IE' = TRUE /\ A2F' = FALSE
  /\ app_pc' = "running"
  /\ UNCHANGED <<now, rtc, OSF, created, handlers, need_to_restart, isr_vars,
                 fram_store_queue, pulses, received, refused, drift, bounds>>

app_main == Create \/ gpio_initial_setup \/ CheckStart \/ RestartIncomplete \/ time_init
-------------------------------------------------------------------------------
\* Interrupt handlers.  A handler that does not get the mutex does nothing.
EnterHandler ==
  /\ isr_pc = "idle"
  /\ \E pin \in pending :
       /\ pending' = pending \ {pin}
       /\ isr_pc' = pin
       /\ holder' = IF holder = "none" THEN pin ELSE holder
  /\ UNCHANGED <<now, rtc_vars, system_time, app_vars, count, local_count,
                 fram_store_queue, history, bounds>>

counter_isr ==
  /\ isr_pc = "counter"
  /\ isr_pc' = "idle"
  /\ IF holder = "counter" THEN count' = count + 1 /\ holder' = "none"
     ELSE UNCHANGED <<count, holder>>
  /\ UNCHANGED <<now, rtc_vars, system_time, app_vars, pending, local_count,
                 fram_store_queue, history, bounds>>

\* Slip of count_after_alarm: the count goes on.
count_after_alarm_kept == count

\* Slip of holder_after_alarm: the mutex is not given back for an empty minute.
holder_after_alarm_kept == IF count = 0 THEN holder ELSE "none"

\* What rtc_alarm_isr leaves behind when it has taken the count.
count_after_alarm == 0
holder_after_alarm == "none"

TakeCount ==
  /\ isr_pc = "alarm"
  /\ IF holder = "alarm"
     THEN /\ local_count' = count /\ count' = count_after_alarm
          /\ holder' = holder_after_alarm
          /\ isr_pc' = "send"
     ELSE isr_pc' = "idle" /\ UNCHANGED <<local_count, count, holder>>
  /\ UNCHANGED <<now, rtc_vars, system_time, app_vars, pending, fram_store_queue,
                 history, bounds>>

\* Slip of HasRoom: one place more than was created.
HasRoom_of_more(n) == n <= StoreQueueLength

HasRoom(n) == n < StoreQueueLength

\* A full queue refuses the record.  One that was not created ends in a panic.
SendRecord ==
  /\ isr_pc = "send"
  /\ IF "fram_store_queue" \in created
     THEN /\ isr_pc' = "idle" /\ local_count' = 0
          /\ LET telemetry == [time |-> system_time, count |-> local_count]
             IN IF HasRoom(Len(fram_store_queue))
                THEN /\ fram_store_queue' = Append(fram_store_queue, telemetry)
                     /\ UNCHANGED refused
                ELSE /\ refused' = refused + local_count
                     /\ UNCHANGED fram_store_queue
          /\ UNCHANGED <<now, rtc_vars, system_time, app_vars, pending, holder, count,
                         pulses, received, drift, system_drift, bounds>>
     ELSE esp_restart /\ UNCHANGED <<OSF, restarts>>

rtc_alarm_isr == TakeCount \/ SendRecord
-------------------------------------------------------------------------------
\* The FRAM task takes a record and clears the alarm.
ReceiveRecord ==
  /\ app_pc = "running" /\ fram_store_queue # << >>
  /\ received' = received + Head(fram_store_queue).count
  /\ fram_store_queue' = Tail(fram_store_queue)
  /\ A2F' = FALSE
  /\ UNCHANGED <<now, rtc, OSF, A2IE, system_time, app_vars, isr_vars, pulses,
                 refused, drift, system_drift, bounds>>

\* Slip of rtc_needs_update: only an RTC that is slow is set.
rtc_needs_update_slow(unix_now) == rtc_get_unix < unix_now - time_tolerance

rtc_needs_update(unix_now) == \/ rtc_get_unix < unix_now - time_tolerance
                              \/ rtc_get_unix > unix_now + time_tolerance

time_sync_notification_cb ==
  /\ app_pc = "running"
  /\ system_time' = now
  /\ IF rtc_needs_update(now)
     THEN rtc' = registers_of(gmtime(now)) /\ OSF' = FALSE
     ELSE UNCHANGED <<rtc, OSF>>
  /\ drift' = 0 /\ system_drift' = 0
  /\ UNCHANGED <<now, A2F, A2IE, app_vars, isr_vars, fram_store_queue, pulses,
                 received, refused, bounds>>

Next == \/ Restart \/ Minute \/ Pulse \/ app_main
        \/ EnterHandler \/ counter_isr \/ rtc_alarm_isr
        \/ ReceiveRecord \/ time_sync_notification_cb

Spec == Init /\ [][Next]_vars
-------------------------------------------------------------------------------
TypeOK ==
  /\ now \in Nat /\ system_time \in Nat
  /\ \A field \in DOMAIN rtc : rtc[field] \in 0 .. 255
  /\ {OSF, A2F, A2IE} \subseteq BOOLEAN
  /\ app_pc \in {"create", "gpio", "delay", "check", "restart", "time", "running"}
  /\ created \subseteq Objects /\ handlers \subseteq Pins /\ need_to_restart \in BOOLEAN
  /\ pending \subseteq Pins /\ isr_pc \in {"idle", "send"} \cup Pins
  /\ holder \in {"none"} \cup Pins
  /\ {count, local_count, pulses, received, refused} \subseteq Nat
  /\ fram_store_queue \in Seq([time : Nat, count : Nat])
  /\ Len(fram_store_queue) <= StoreQueueLength
  /\ {drift, system_drift} \subseteq Int
  /\ minutes \in 0 .. MaxMinutes /\ restarts \in 0 .. MaxRestarts
  /\ drifted \in 0 .. MaxDrift /\ failures \in 0 .. MaxFailures

Sum(records) == FoldLeft(LAMBDA n, r : n + r.count, 0, records)

(***************************************************************************)
(* Every pulse since the start is in exactly one place: waiting for its    *)
(* handler or in it, in the count, in the alarm handler's hands, or in one *)
(* record, which waits in the queue, was received by the FRAM task, or was *)
(* refused by the full queue (gpio.c:53-85).  So no handler misses the     *)
(* mutex, and no minute's count is in two records.                         *)
(***************************************************************************)
CountedOnce ==
  pulses = Cardinality({"counter"} \cap pending) + Cardinality({"counter"} \cap {isr_pc})
             + count + local_count * (IF isr_pc = "send" THEN 1 ELSE 0)
             + Sum(fram_store_queue) + received + refused

(***************************************************************************)
(* The system time, from which records get theirs, is recognisably unset   *)
(* or right within the tolerance of the SNTP callback and the drift since  *)
(* it was synchronised, its own and, if it was set from the RTC, the RTC's *)
(* till then: across midnights, the ends of months and years, leap days,   *)
(* all the hours' encodings, and restarts with a running RTC (rtc.c:173,   *)
(* 312; ntp.c:30; time_init.c:17).  The drift itself has no bound but      *)
(* SNTP: the RTC does not correct a running clock (time_init.c:12).        *)
(***************************************************************************)
ClockRight ==
  \/ system_time < CONFIG_LAST_KNOWN_UNIX
  \/ system_time - now - system_drift \in -time_tolerance .. time_tolerance

(***************************************************************************)
(* The RTC, if its oscillator is said to have run, is within the tolerance *)
(* and the drift since the last synchronisation of the true time           *)
(* (ntp.c:28-36).                                                          *)
(***************************************************************************)
RtcFollows ==
  OSF \/ rtc_get_unix - now - drift \in -time_tolerance .. time_tolerance

(***************************************************************************)
(* The tasks run only with all their queues and mutexes and with both      *)
(* handlers hooked: app_main goes on after a call that failed, with        *)
(* interrupts enabled, and must remember it until it has waited for a flat *)
(* battery (app_main.c:138-186).                                           *)
(***************************************************************************)
StartedComplete == app_pc = "running" => created = Objects /\ handlers = Pins
===============================================================================
