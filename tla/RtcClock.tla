------------------------------- MODULE RtcClock -------------------------------
(***************************************************************************)
(* The DS3231 (components/rtc) and the three tasks that use it over I2C:   *)
(* app_main in time_init, the FRAM task in rtc_clear_alarm and the SNTP    *)
(* task in time_sync_notification_cb.  Each step is one transfer, so the   *)
(* tasks interleave between the read and the write of a register, and any  *)
(* transfer may fail: a failed read returns 0, a failed write is noted in  *)
(* the log and no more.                                                    *)
(*                                                                         *)
(* A time is "right", "stale" (plausible, but the clock has stood still)   *)
(* or "zero", which stands for every time that CONFIG_LAST_KNOWN_UNIX      *)
(* excludes.                                                               *)
(***************************************************************************)
EXTENDS Integers

CONSTANTS StoreQueueLength,  \* length of fram_store_queue
          Failures,          \* failing transfers
          Restarts           \* restarts of the device

ASSUME RtcAssumption == /\ StoreQueueLength \in Nat \ {0}
                        /\ Failures \in Nat /\ Restarts \in Nat

VARIABLES
  status, control,    \* registers of the RTC
  match_any,          \* the registers of alarm 2 that match any value
  rtc_time, system_time,
  fram_store_queue,   \* the number of records in it
  pc,                 \* the next transfer of each task
  status_value, control_value,  \* local to the tasks: what they have read
  failed, restarts,   \* bounds: see Failures and Restarts
  misread,    \* history: main or fram failed to read the status register
  unwritten   \* history: one of them failed to write, since the last restart

rtc_vars == <<status, control, match_any, rtc_time>>
task_vars == <<pc, status_value, control_value>>
vars == <<rtc_vars, system_time, fram_store_queue, task_vars, failed, restarts,
          misread, unwritten>>

Task == {"main", "fram", "sntp"}
Status == [OSF : BOOLEAN, A2F : BOOLEAN]
Control == [A2IE : BOOLEAN, INTCN : BOOLEAN]
Time == {"right", "stale", "zero"}
AlarmRegister == {"minutes", "hours", "day"}
Step == {"off", "time_status", "time_registers", "minutes", "hours", "day",
         "control_read", "control_write", "clear_read", "clear_write", "done",
         "receive", "idle", "set_time", "osf_read", "osf_write"}
AtStart == [t \in Task |-> IF t = "main" THEN "time_status" ELSE "off"]
AllRunning == [t \in Task |-> CASE t = "main" -> "done" [] t = "fram" -> "receive"
                                [] t = "sntp" -> "idle"]

\* A register read as 0.
no_status == [OSF |-> FALSE, A2F |-> FALSE]
no_control == [A2IE |-> FALSE, INTCN |-> FALSE]

\* The pin follows the alarm, or else it is a square wave of 1 Hz.
AlarmOnPin == control.A2IE /\ control.INTCN

\* Slip of xQueueSendFromISR: the queue has no end.
xQueueSendFromISR_unbounded(n) == n + 1

\* A falling edge: rtc_alarm_isr sends a record, if there is room for it.
xQueueSendFromISR(n) == IF n < StoreQueueLength THEN n + 1 ELSE n
-------------------------------------------------------------------------------
\* The RTC comes from its battery's last insertion, or from an earlier run.
Init == /\ \/ /\ status = [OSF |-> TRUE, A2F |-> FALSE]
              /\ control = [A2IE |-> FALSE, INTCN |-> TRUE]
              /\ match_any = {}
              /\ rtc_time = "zero"
           \/ /\ status \in [OSF : {FALSE}, A2F : BOOLEAN]
              /\ control = [A2IE |-> TRUE, INTCN |-> TRUE]
              /\ match_any = AlarmRegister
              /\ rtc_time = "right"
        /\ system_time = "zero"
        /\ fram_store_queue = 0
        /\ pc = AtStart
        /\ status_value = [t \in Task |-> no_status]
        /\ control_value = no_control
        /\ failed = 0 /\ restarts = 0
        /\ misread = FALSE /\ unwritten = FALSE

minute_match == match_any = AlarmRegister

(***************************************************************************)
(* The clock reaches the alarm; the line falls if it was high.  With the   *)
(* three registers set this is so every minute, or else whenever the other *)
(* registers match: once an hour, once a day or never.                     *)
(***************************************************************************)
AlarmMatch ==
  /\ ~status.A2F
  /\ status' = [status EXCEPT !.A2F = TRUE]
  /\ fram_store_queue' = IF AlarmOnPin THEN xQueueSendFromISR(fram_store_queue)
                         ELSE fram_store_queue
  /\ UNCHANGED <<control, match_any, rtc_time, system_time, task_vars, failed,
                 restarts, misread, unwritten>>

SquareWave ==
  /\ ~control.INTCN
  /\ fram_store_queue' = xQueueSendFromISR(fram_store_queue)
  /\ UNCHANGED <<rtc_vars, system_time, task_vars, failed, restarts, misread,
                 unwritten>>

(***************************************************************************)
(* A restart, which the system time may survive, or a power cut, which the *)
(* RTC survives on its battery.  With an empty battery the clock stops; it *)
(* may lose its registers, too.                                            *)
(***************************************************************************)
Restart ==
  /\ restarts < Restarts /\ restarts' = restarts + 1
  /\ system_time' \in {system_time, "zero"}
  /\ \/ UNCHANGED rtc_vars
     \/ /\ status' = [status EXCEPT !.OSF = TRUE]
        /\ rtc_time' = IF rtc_time = "zero" THEN "zero" ELSE "stale"
        /\ system_time' = "zero"
        /\ UNCHANGED <<control, match_any>>
     \/ /\ status' = [OSF |-> TRUE, A2F |-> FALSE]
        /\ control' = [A2IE |-> FALSE, INTCN |-> TRUE]
        /\ match_any' = {}
        /\ rtc_time' = "zero" /\ system_time' = "zero"
  /\ fram_store_queue' = 0
  /\ pc' = AtStart
  /\ status_value' = [t \in Task |-> no_status] /\ control_value' = no_control
  /\ unwritten' = FALSE
  /\ UNCHANGED <<failed, misread>>
-------------------------------------------------------------------------------
(***************************************************************************)
(* Transfers.  The chip does not let 1 be written to OSF or A2F: a bit     *)
(* that was 0 stays 0 (data sheet of the DS3231).                          *)
(***************************************************************************)
Fails == failed < Failures /\ failed' = failed + 1

WriteOk == UNCHANGED <<failed, unwritten>>
WriteFails == Fails /\ unwritten' = TRUE

Continue(task, step) == pc' = [pc EXCEPT ![task] = step]

read_status(task) ==
  /\ \/ /\ status_value' = [status_value EXCEPT ![task] = status]
        /\ UNCHANGED <<failed, misread>>
     \/ /\ Fails
        /\ status_value' = [status_value EXCEPT ![task] = no_status]
        /\ misread' = (misread \/ task # "sntp")
  /\ UNCHANGED <<rtc_vars, control_value, fram_store_queue, restarts, unwritten>>

\* The value read is not needed any more once it is written back.
write_status(task, s) ==
  /\ \/ /\ WriteOk
        /\ status' = [OSF |-> status.OSF /\ s.OSF, A2F |-> status.A2F /\ s.A2F]
     \/ /\ Fails
        /\ unwritten' = (unwritten \/ task # "sntp")
        /\ UNCHANGED status
  /\ status_value' = [status_value EXCEPT ![task] = no_status]
  /\ UNCHANGED <<control, match_any, rtc_time, system_time, control_value,
                 fram_store_queue, restarts, misread>>
-------------------------------------------------------------------------------
(***************************************************************************)
(* rtc_get_unix, used by time_init and by the SNTP callback.               *)
(***************************************************************************)
GotUnix(task, unix) ==
  \/ /\ task = "main"
     /\ system_time' = IF unix = "zero" THEN system_time ELSE unix
     /\ Continue("main", "minutes")
  \/ /\ task = "sntp"
     /\ Continue("sntp", IF unix = "right" THEN "idle" ELSE "set_time")
     /\ UNCHANGED system_time

CheckOSF(task) ==
  /\ pc[task] = "time_status"
  /\ read_status(task)
  /\ \/ status_value'[task].OSF /\ GotUnix(task, "zero")
     \/ /\ ~status_value'[task].OSF
        /\ Continue(task, "time_registers")
        /\ UNCHANGED system_time

ReadTime(task) ==
  /\ pc[task] = "time_registers"
  /\ \/ UNCHANGED failed /\ GotUnix(task, rtc_time)
     \/ Fails /\ GotUnix(task, "zero")
  /\ status_value' = [status_value EXCEPT ![task] = no_status]
  /\ UNCHANGED <<rtc_vars, control_value, fram_store_queue, restarts, misread,
                 unwritten>>
-------------------------------------------------------------------------------
(***************************************************************************)
(* rtc_config_alarm: three registers, one transfer each, that make alarm 2 *)
(* match every minute, then the interrupt enable bit is added to what the  *)
(* control register is read to be.                                         *)
(***************************************************************************)
after_match == [minutes |-> "hours", hours |-> "day", day |-> "control_read"]

SetMatch(register) ==
  /\ pc["main"] = register
  /\ \/ WriteOk /\ match_any' = match_any \cup {register}
     \/ WriteFails /\ UNCHANGED match_any
  /\ Continue("main", after_match[register])
  /\ UNCHANGED <<status, control, rtc_time, system_time, status_value, control_value,
                 fram_store_queue, restarts, misread>>

SetMinuteMatch == \E register \in AlarmRegister : SetMatch(register)

ReadControl ==
  /\ pc["main"] = "control_read"
  /\ \/ control_value' = control /\ UNCHANGED failed
     \/ control_value' = no_control /\ Fails
  /\ Continue("main", "control_write")
  /\ UNCHANGED <<rtc_vars, system_time, status_value, fram_store_queue, restarts,
                 misread, unwritten>>

\* Slip of with_interrupt: the bit of alarm 1 is set.
with_interrupt_of_alarm_1(c) == c

with_interrupt(c) == [c EXCEPT !.A2IE = TRUE]

\* If the alarm flag is set already, the line falls now.
WriteControl ==
  /\ pc["main"] = "control_write"
  /\ \/ /\ WriteOk
        /\ control' = with_interrupt(control_value)
        /\ fram_store_queue' = IF status.A2F /\ ~AlarmOnPin /\ control'.INTCN
                               THEN xQueueSendFromISR(fram_store_queue)
                               ELSE fram_store_queue
     \/ WriteFails /\ UNCHANGED <<control, fram_store_queue>>
  /\ control_value' = no_control
  /\ Continue("main", "clear_read")
  /\ UNCHANGED <<status, match_any, rtc_time, system_time, status_value, restarts,
                 misread>>
-------------------------------------------------------------------------------
\* rtc_clear_alarm, at the end of time_init and after each record.
ReadAlarm(task) ==
  /\ pc[task] = "clear_read"
  /\ read_status(task)
  /\ Continue(task, "clear_write")
  /\ UNCHANGED system_time

\* Slip of without_alarm: alarm 1 is cleared.
without_alarm_1(s) == s

without_alarm(s) == [s EXCEPT !.A2F = FALSE]

\* The tasks start when time_init is done, the SNTP task once there is WiFi.
ClearAlarm(task) ==
  /\ pc[task] = "clear_write"
  /\ write_status(task, without_alarm(status_value[task]))
  /\ \/ task = "main" /\ pc' = AllRunning
     \/ task = "fram" /\ Continue("fram", "receive")

\* The FRAM task receives a record; it stores it before it clears the alarm.
Receive == /\ pc["fram"] = "receive"
           /\ fram_store_queue > 0
           /\ fram_store_queue' = fram_store_queue - 1
           /\ Continue("fram", "clear_read")
           /\ UNCHANGED <<rtc_vars, system_time, status_value, control_value, failed,
                          restarts, misread, unwritten>>
-------------------------------------------------------------------------------
(***************************************************************************)
(* The SNTP callback sets the RTC if its time is not the system's, and     *)
(* then, only if that succeeded, clears OSF.                               *)
(***************************************************************************)
Synchronise == /\ pc["sntp"] = "idle"
               /\ system_time' = "right"
               /\ Continue("sntp", "time_status")
               /\ UNCHANGED <<rtc_vars, status_value, control_value,
                              fram_store_queue, failed, restarts, misread, unwritten>>

\* Slip of after_set: the result of the transfer is ignored.
after_set_always(ok) == "osf_read"

after_set(ok) == IF ok THEN "osf_read" ELSE "idle"

SetTime ==
  /\ pc["sntp"] = "set_time"
  /\ \/ /\ rtc_time' = "right"
        /\ Continue("sntp", after_set(TRUE))
        /\ UNCHANGED failed
     \/ /\ Fails
        /\ Continue("sntp", after_set(FALSE))
        /\ UNCHANGED rtc_time
  /\ UNCHANGED <<status, control, match_any, system_time, status_value,
                 control_value, fram_store_queue, restarts, misread, unwritten>>

ReadOSF == /\ pc["sntp"] = "osf_read"
           /\ read_status("sntp")
           /\ Continue("sntp", "osf_write")
           /\ UNCHANGED system_time

ClearOSF == /\ pc["sntp"] = "osf_write"
            /\ write_status("sntp", [status_value["sntp"] EXCEPT !.OSF = FALSE])
            /\ Continue("sntp", "idle")
-------------------------------------------------------------------------------
time_init == \/ CheckOSF("main") \/ ReadTime("main")
             \/ SetMinuteMatch \/ ReadControl \/ WriteControl
             \/ ReadAlarm("main") \/ ClearAlarm("main")

FramTask == Receive \/ ReadAlarm("fram") \/ ClearAlarm("fram")

time_sync_notification_cb == \/ Synchronise \/ CheckOSF("sntp") \/ ReadTime("sntp")
                             \/ SetTime \/ ReadOSF \/ ClearOSF

Next == \/ AlarmMatch \/ SquareWave \/ Restart
        \/ time_init \/ FramTask \/ time_sync_notification_cb

Spec == Init /\ [][Next]_vars

\* Time passes in the RTC, and the main task and the FRAM task run.
Fairness == /\ WF_vars(minute_match /\ AlarmMatch) /\ WF_vars(SquareWave)
            /\ WF_vars(time_init) /\ WF_vars(FramTask)

FairSpec == Spec /\ Fairness
-------------------------------------------------------------------------------
TypeOK ==
  /\ status \in Status /\ control \in Control
  /\ match_any \subseteq AlarmRegister
  /\ rtc_time \in Time /\ system_time \in Time
  /\ fram_store_queue \in 0 .. StoreQueueLength
  /\ pc \in [Task -> Step]
  /\ status_value \in [Task -> Status] /\ control_value \in Control
  /\ failed \in 0 .. Failures /\ restarts \in 0 .. Restarts
  /\ misread \in BOOLEAN /\ unwritten \in BOOLEAN

(***************************************************************************)
(* While the alarm holds the line low no further edge comes, so somebody   *)
(* must be on the way to clear it: a record is in the queue, or the FRAM   *)
(* task has one in hand.  So it is, however the two read-modify-writes of  *)
(* the status register interleave (rtc.c:57-69 and 404-413), unless        *)
(* configuring or clearing the alarm has failed.                           *)
(***************************************************************************)
HeldLineIsServed ==
  (pc["main"] = "done" /\ status.A2F /\ AlarmOnPin)
    => fram_store_queue > 0 \/ pc["fram"] # "receive" \/ unwritten

(***************************************************************************)
(* The time of the RTC is believed only if it was set since the clock last *)
(* stood still: OSF says so, and a restart between setting the time and    *)
(* clearing OSF, or the FRAM task's writing back of an old OSF, does not   *)
(* change that (rtc.c:395-413, time_init.c:15-25).  A failed read of the   *)
(* status register does: 0 means a running clock.                          *)
(***************************************************************************)
BelievedTimeWasSet ==
  misread \/ ((~status.OSF => rtc_time = "right") /\ system_time # "stale")

(***************************************************************************)
(* The alarm keeps coming, unless configuring or clearing it has failed    *)
(* since the last restart (rtc.c:57-90): no interleaving stops it.         *)
(***************************************************************************)
AlarmKeepsComing == <>[]unwritten \/ []<><<AlarmMatch>>_vars

(***************************************************************************)
(* rtc.c:72: "Configures alarm 2 to trigger every minute".  Even with the  *)
(* alarm so configured this is false once the write that clears its flag   *)
(* (rtc.c:66) has failed, since none is tried again: the flag stays, so    *)
(* the line stays low and no edge and no record comes, and only a record   *)
(* makes the FRAM task clear the flag.                                     *)
(***************************************************************************)
AlarmEveryMinute ==
  <>[](minute_match /\ AlarmOnPin) => []<><<AlarmMatch>>_vars
===============================================================================
