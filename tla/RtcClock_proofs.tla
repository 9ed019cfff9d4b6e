---------------------------- MODULE RtcClock_proofs ----------------------------
(***************************************************************************)
(* For any length of the queue and any number of failed transfers and      *)
(* restarts: type correctness of RtcClock, and its two safety properties.  *)
(***************************************************************************)
EXTENDS RtcClock, TLAPS

LEMMA QueueTyped ==
  ASSUME NEW n \in 0 .. StoreQueueLength
  PROVE  xQueueSendFromISR(n) \in 1 .. StoreQueueLength
  BY RtcAssumption DEF xQueueSendFromISR

\* What a step of the clock, of the power supply or of a task keeps typed.
RegistersTypeOK == /\ status \in Status /\ control \in Control
                   /\ match_any \subseteq AlarmRegister
                   /\ rtc_time \in Time /\ system_time \in Time

TasksTypeOK == /\ fram_store_queue \in 0 .. StoreQueueLength
               /\ pc \in [Task -> Step]
               /\ status_value \in [Task -> Status] /\ control_value \in Control

BoundsTypeOK == /\ failed \in 0 .. Failures /\ restarts \in 0 .. Restarts
                /\ misread \in BOOLEAN /\ unwritten \in BOOLEAN

LEMMA TypeParts == TypeOK <=> RegistersTypeOK /\ TasksTypeOK /\ BoundsTypeOK
  BY DEF TypeOK, RegistersTypeOK, TasksTypeOK, BoundsTypeOK

LEMMA Constants ==
  /\ no_status \in Status /\ no_control \in Control
  /\ AtStart \in [Task -> Step] /\ AllRunning \in [Task -> Step]
  BY DEF no_status, no_control, AtStart, AllRunning, Status, Control, Task, Step

LEMMA RecordsTyped ==
  /\ \A a, b \in BOOLEAN : [OSF |-> a, A2F |-> b] \in Status
  /\ \A a, b \in BOOLEAN : [A2IE |-> a, INTCN |-> b] \in Control
  /\ \A s \in Status : /\ s.OSF \in BOOLEAN /\ s.A2F \in BOOLEAN
                       /\ [s EXCEPT !.OSF = TRUE] \in Status
                       /\ [s EXCEPT !.OSF = FALSE] \in Status
                       /\ [s EXCEPT !.A2F = TRUE] \in Status
                       /\ [s EXCEPT !.A2F = FALSE] \in Status
  /\ \A c \in Control : [c EXCEPT !.A2IE = TRUE] \in Control
  BY DEF Status, Control

LEMMA InitTypeOK == Init => TypeOK
<1> SUFFICES ASSUME Init PROVE TypeOK
  OBVIOUS
<1>1. RegistersTypeOK
  <2>1. \/ status = [OSF |-> TRUE, A2F |-> FALSE]
        \/ status \in [OSF : {FALSE}, A2F : BOOLEAN]
    BY DEF Init
  <2>2. status \in Status
    <3>1. [OSF |-> TRUE, A2F |-> FALSE] \in Status
      BY RecordsTyped
    <3>2. ASSUME status \in [OSF : {FALSE}, A2F : BOOLEAN] PROVE status \in Status
      BY <3>2 DEF Status
    <3> QED BY <2>1, <3>1, <3>2, Zenon
  <2>3. control \in Control
    <3>1. \/ control = [A2IE |-> FALSE, INTCN |-> TRUE]
          \/ control = [A2IE |-> TRUE, INTCN |-> TRUE]
      BY DEF Init
    <3> QED BY <3>1, RecordsTyped, Zenon
  <2>4. match_any \subseteq AlarmRegister
    BY DEF Init
  <2>5. rtc_time \in Time /\ system_time \in Time
    BY DEF Init, Time
  <2> QED BY <2>2, <2>3, <2>4, <2>5 DEF RegistersTypeOK
<1>2. TasksTypeOK
  <2>1. pc = AtStart /\ control_value = no_control
    BY DEF Init
  <2>2. status_value \in [Task -> Status]
    BY Constants DEF Init
  <2>3. fram_store_queue \in 0 .. StoreQueueLength
    BY RtcAssumption DEF Init
  <2> QED BY <2>1, <2>2, <2>3, Constants DEF TasksTypeOK
<1>3. BoundsTypeOK
  <2>1. failed \in 0 .. Failures /\ restarts \in 0 .. Restarts
    <3>1. failed = 0 /\ restarts = 0
      BY DEF Init
    <3> QED BY <3>1, RtcAssumption
  <2>2. misread \in BOOLEAN /\ unwritten \in BOOLEAN
    BY DEF Init
  <2> QED BY <2>1, <2>2 DEF BoundsTypeOK
<1> QED BY <1>1, <1>2, <1>3, TypeParts
-------------------------------------------------------------------------------
\* The two transfers that several steps share, and the shared end of a read.
LEMMA ContinueTyped ==
  ASSUME pc \in [Task -> Step], NEW t \in Task, NEW step \in Step, Continue(t, step)
  PROVE  pc' \in [Task -> Step]
  BY DEF Continue

LEMMA FailsTyped == failed \in 0 .. Failures /\ Fails => failed' \in 0 .. Failures
  BY RtcAssumption DEF Fails

LEMMA ReadStatusTyped ==
  ASSUME TypeOK, NEW t \in Task, read_status(t)
  PROVE  /\ status_value' \in [Task -> Status]
         /\ failed' \in 0 .. Failures /\ misread' \in BOOLEAN
<1>1. status_value' \in [Task -> Status]
  <2>1. status \in Status /\ no_status \in Status /\ status_value \in [Task -> Status]
    BY Constants DEF TypeOK
  <2>2. \/ status_value' = [status_value EXCEPT ![t] = status]
        \/ status_value' = [status_value EXCEPT ![t] = no_status]
    BY DEF read_status
  <2> QED BY <2>1, <2>2
<1>2. failed' \in 0 .. Failures
  BY FailsTyped DEF read_status, TypeOK
<1>3. misread' \in BOOLEAN
  BY DEF read_status, TypeOK
<1> QED BY <1>1, <1>2, <1>3

LEMMA WriteStatusTyped ==
  ASSUME TypeOK, NEW t \in Task, NEW s \in Status, write_status(t, s)
  PROVE  /\ status' \in Status /\ status_value' \in [Task -> Status]
         /\ failed' \in 0 .. Failures /\ unwritten' \in BOOLEAN
<1>1. status' \in Status
  <2>1. [OSF |-> status.OSF /\ s.OSF, A2F |-> status.A2F /\ s.A2F] \in Status
    BY RecordsTyped DEF TypeOK
  <2>2. \/ status' = [OSF |-> status.OSF /\ s.OSF, A2F |-> status.A2F /\ s.A2F]
        \/ status' = status
    BY Zenon DEF write_status
  <2>3. status \in Status
    BY DEF TypeOK
  <2> QED BY <2>1, <2>2, <2>3, Zenon
<1>2. status_value' \in [Task -> Status]
  BY Constants DEF write_status, TypeOK
<1>3. failed' \in 0 .. Failures
  BY FailsTyped DEF write_status, WriteOk, TypeOK
<1>4. unwritten' \in BOOLEAN
  BY DEF write_status, WriteOk, TypeOK
<1> QED BY <1>1, <1>2, <1>3, <1>4

LEMMA GotUnixTyped ==
  ASSUME TypeOK, NEW t \in Task, NEW unix \in Time, GotUnix(t, unix)
  PROVE  system_time' \in Time /\ pc' \in [Task -> Step]
<1>1. system_time' \in Time
  BY DEF GotUnix, TypeOK
<1>2. pc' \in [Task -> Step]
  BY DEF GotUnix, Continue, TypeOK, Task, Step
<1> QED BY <1>1, <1>2
-------------------------------------------------------------------------------
\* One lemma per task, one step per action.
LEMMA ClockTyped ==
  ASSUME TypeOK, AlarmMatch \/ SquareWave \/ Restart
  PROVE  TypeOK'
<1> USE DEF rtc_vars, task_vars
<1>0. xQueueSendFromISR(fram_store_queue) \in 0 .. StoreQueueLength
  BY QueueTyped DEF TypeOK
<1>1. CASE AlarmMatch
  <2>1. status' \in Status
    BY <1>1, RecordsTyped DEF AlarmMatch, TypeOK
  <2>2. fram_store_queue' \in 0 .. StoreQueueLength
    BY <1>0, <1>1, Zenon DEF AlarmMatch, TypeOK
  <2>3. UNCHANGED <<control, match_any, rtc_time, system_time, pc, status_value,
                    control_value, failed, restarts, misread, unwritten>>
    BY <1>1 DEF AlarmMatch
  <2> QED BY <2>1, <2>2, <2>3, Zenon DEF TypeOK
<1>2. CASE SquareWave
  <2>1. fram_store_queue' \in 0 .. StoreQueueLength
    BY <1>0, <1>2 DEF SquareWave
  <2>2. UNCHANGED <<status, control, match_any, rtc_time, system_time, pc,
                    status_value, control_value, failed, restarts, misread, unwritten>>
    BY <1>2 DEF SquareWave
  <2> QED BY <2>1, <2>2, Zenon DEF TypeOK
<1>3. CASE Restart
  <2>1. system_time' \in Time /\ rtc_time' \in Time
    BY <1>3 DEF Restart, TypeOK, Time
  <2>2. status' \in Status
    <3>1. \/ status' = status
          \/ status' = [status EXCEPT !.OSF = TRUE]
          \/ status' = [OSF |-> TRUE, A2F |-> FALSE]
      BY <1>3 DEF Restart
    <3>2. status \in Status
      BY DEF TypeOK
    <3> QED BY <3>1, <3>2, RecordsTyped, Zenon
  <2>3. control' \in Control
    <3>1. control' = control \/ control' = [A2IE |-> FALSE, INTCN |-> TRUE]
      BY <1>3 DEF Restart
    <3>2. control \in Control
      BY DEF TypeOK
    <3> QED BY <3>1, <3>2, RecordsTyped, Zenon
  <2>4. match_any' \subseteq AlarmRegister
    BY <1>3 DEF Restart, TypeOK
  <2>5. /\ pc' \in [Task -> Step] /\ status_value' \in [Task -> Status]
        /\ control_value' \in Control
    BY <1>3, Constants DEF Restart
  <2>6. /\ fram_store_queue' \in 0 .. StoreQueueLength
        /\ restarts' \in 0 .. Restarts
    BY <1>3, RtcAssumption DEF Restart, TypeOK
  <2>7. unwritten' \in BOOLEAN /\ UNCHANGED <<failed, misread>>
    BY <1>3 DEF Restart
  <2> QED BY <2>1, <2>2, <2>3, <2>4, <2>5, <2>6, <2>7, Zenon DEF TypeOK
<1> QED BY <1>1, <1>2, <1>3

LEMMA ReadsTyped ==
  ASSUME TypeOK, NEW t \in Task, CheckOSF(t) \/ ReadTime(t) \/ ReadAlarm(t)
  PROVE  TypeOK'
<1> USE DEF rtc_vars, task_vars
<1>0. "zero" \in Time /\ rtc_time \in Time
  BY DEF TypeOK, Time
<1>1. CASE CheckOSF(t)
  <2>1. pc' \in [Task -> Step] /\ system_time' \in Time
    <3>1. CASE GotUnix(t, "zero")
      BY <1>0, <3>1, GotUnixTyped
    <3>2. CASE Continue(t, "time_registers") /\ UNCHANGED system_time
      BY <3>2, ContinueTyped DEF TypeOK, Step
    <3> QED BY <1>1, <3>1, <3>2 DEF CheckOSF
  <2>2. read_status(t)
    BY <1>1 DEF CheckOSF
  <2>3. UNCHANGED <<status, control, match_any, rtc_time, control_value,
                    fram_store_queue, restarts, unwritten>>
    BY <2>2 DEF read_status
  <2> QED BY <2>1, <2>2, <2>3, ReadStatusTyped, Zenon DEF TypeOK
<1>2. CASE ReadTime(t)
  <2>1. pc' \in [Task -> Step] /\ system_time' \in Time
    BY <1>0, <1>2, GotUnixTyped DEF ReadTime
  <2>2. failed' \in 0 .. Failures
    BY <1>2, FailsTyped DEF ReadTime, TypeOK
  <2>3. status_value' \in [Task -> Status]
    BY <1>2, Constants DEF ReadTime, TypeOK
  <2>4. UNCHANGED <<status, control, match_any, rtc_time, control_value,
                    fram_store_queue, restarts, misread, unwritten>>
    BY <1>2 DEF ReadTime
  <2> QED BY <2>1, <2>2, <2>3, <2>4, Zenon DEF TypeOK
<1>3. CASE ReadAlarm(t)
  <2>1. pc' \in [Task -> Step] /\ UNCHANGED system_time
    BY <1>3, ContinueTyped DEF ReadAlarm, TypeOK, Step
  <2>2. read_status(t)
    BY <1>3 DEF ReadAlarm
  <2>3. UNCHANGED <<status, control, match_any, rtc_time, control_value,
                    fram_store_queue, restarts, unwritten>>
    BY <2>2 DEF read_status
  <2> QED BY <2>1, <2>2, <2>3, ReadStatusTyped, Zenon DEF TypeOK
<1> QED BY <1>1, <1>2, <1>3

LEMMA MatchContinues ==
  ASSUME SetMinuteMatch
  PROVE  /\ \E step \in {"hours", "day", "control_read"} : Continue("main", step)
         /\ UNCHANGED <<status, control, rtc_time, system_time, status_value,
                        control_value, fram_store_queue, restarts, misread>>
<1>1. PICK register \in AlarmRegister : SetMatch(register)
  BY DEF SetMinuteMatch
<1>2. after_match[register] \in {"hours", "day", "control_read"}
  BY DEF after_match, AlarmRegister
<1> QED BY <1>1, <1>2 DEF SetMatch

LEMMA ConfigTyped ==
  ASSUME TypeOK, SetMinuteMatch \/ ReadControl \/ WriteControl
  PROVE  TypeOK'
<1> USE DEF rtc_vars, task_vars
<1>0. "main" \in Task
  BY DEF Task
<1>1. CASE SetMinuteMatch
  <2> PICK register \in AlarmRegister : SetMatch(register)
    BY <1>1 DEF SetMinuteMatch
  <2>1. pc' \in [Task -> Step]
    <3>1. PICK step \in {"hours", "day", "control_read"} : Continue("main", step)
      BY <1>1, MatchContinues
    <3>2. step \in Step
      BY DEF Step
    <3> QED BY <1>0, <3>1, <3>2, ContinueTyped DEF TypeOK
  <2>2. match_any' \subseteq AlarmRegister /\ unwritten' \in BOOLEAN
    BY DEF SetMatch, WriteOk, WriteFails, TypeOK
  <2>3. failed' \in 0 .. Failures
    BY FailsTyped DEF SetMatch, WriteOk, WriteFails, TypeOK
  <2>4. UNCHANGED <<status, control, rtc_time, system_time, status_value,
                    control_value, fram_store_queue, restarts, misread>>
    BY DEF SetMatch
  <2> QED BY <2>1, <2>2, <2>3, <2>4, Zenon DEF TypeOK
<1>2. CASE ReadControl
  <2>1. pc' \in [Task -> Step]
    BY <1>0, <1>2, ContinueTyped DEF ReadControl, TypeOK, Step
  <2>2. control_value' \in Control
    BY <1>2, Constants, Zenon DEF ReadControl, TypeOK
  <2>3. failed' \in 0 .. Failures
    BY <1>2, FailsTyped DEF ReadControl, TypeOK
  <2>4. UNCHANGED <<status, control, match_any, rtc_time, system_time, status_value,
                    fram_store_queue, restarts, misread, unwritten>>
    BY <1>2 DEF ReadControl
  <2> QED BY <2>1, <2>2, <2>3, <2>4, Zenon DEF TypeOK
<1>3. CASE WriteControl
  <2>1. pc' \in [Task -> Step]
    BY <1>0, <1>3, ContinueTyped DEF WriteControl, TypeOK, Step
  <2>2. control' \in Control
    <3>1. control' = with_interrupt(control_value) \/ control' = control
      BY <1>3 DEF WriteControl
    <3>2. with_interrupt(control_value) \in Control
      BY RecordsTyped DEF TypeOK, with_interrupt
    <3> QED BY <3>1, <3>2 DEF TypeOK
  <2>3. fram_store_queue' \in 0 .. StoreQueueLength
    <3>1. \/ fram_store_queue' = fram_store_queue
          \/ fram_store_queue' = xQueueSendFromISR(fram_store_queue)
      BY <1>3 DEF WriteControl
    <3> QED BY <3>1, QueueTyped DEF TypeOK
  <2>4. unwritten' \in BOOLEAN /\ control_value' \in Control
    BY <1>3, Constants DEF WriteControl, WriteOk, WriteFails, TypeOK
  <2>5. failed' \in 0 .. Failures
    BY <1>3, FailsTyped DEF WriteControl, WriteOk, WriteFails, TypeOK
  <2>6. UNCHANGED <<status, match_any, rtc_time, system_time, status_value,
                    restarts, misread>>
    BY <1>3 DEF WriteControl
  <2> QED BY <2>1, <2>2, <2>3, <2>4, <2>5, <2>6, Zenon DEF TypeOK
<1> QED BY <1>1, <1>2, <1>3

LEMMA AlarmTyped ==
  ASSUME TypeOK, Receive \/ \E t \in {"main", "fram"} : ClearAlarm(t)
  PROVE  TypeOK'
<1> USE DEF rtc_vars, task_vars
<1>1. CASE Receive
  <2>1. pc' \in [Task -> Step]
    BY <1>1, ContinueTyped DEF Receive, TypeOK, Task, Step
  <2>2. fram_store_queue' \in 0 .. StoreQueueLength
    BY <1>1, RtcAssumption DEF Receive, TypeOK
  <2>3. UNCHANGED <<status, control, match_any, rtc_time, system_time, status_value,
                    control_value, failed, restarts, misread, unwritten>>
    BY <1>1 DEF Receive
  <2> QED BY <2>1, <2>2, <2>3, Zenon DEF TypeOK
<1>2. ASSUME NEW t \in {"main", "fram"}, ClearAlarm(t) PROVE TypeOK'
  <2>1. pc' \in [Task -> Step]
    <3>1. pc' = AllRunning \/ Continue("fram", "receive")
      BY <1>2 DEF ClearAlarm
    <3> QED BY <3>1, Constants, ContinueTyped DEF TypeOK, Task, Step
  <2> DEFINE s == without_alarm(status_value[t])
  <2>2. t \in Task /\ s \in Status
    BY RecordsTyped DEF TypeOK, Task, without_alarm
  <2>3. write_status(t, s)
    BY <1>2 DEF ClearAlarm
  <2>4. UNCHANGED <<control, match_any, rtc_time, system_time, control_value,
                    fram_store_queue, restarts, misread>>
    BY <2>3 DEF write_status
  <2>5. /\ status' \in Status /\ status_value' \in [Task -> Status]
        /\ failed' \in 0 .. Failures /\ unwritten' \in BOOLEAN
    BY <2>2, <2>3, WriteStatusTyped
  <2> QED BY <2>1, <2>4, <2>5, Zenon DEF TypeOK
<1> QED BY <1>1, <1>2

LEMMA SntpTyped ==
  ASSUME TypeOK, Synchronise \/ SetTime \/ ReadOSF \/ ClearOSF
  PROVE  TypeOK'
<1> USE DEF rtc_vars, task_vars
<1>0. "sntp" \in Task /\ "right" \in Time
  BY DEF Task, Time
<1>1. CASE Synchronise
  <2>1. pc' \in [Task -> Step] /\ system_time' \in Time
    BY <1>0, <1>1, ContinueTyped DEF Synchronise, TypeOK, Step
  <2>2. UNCHANGED <<status, control, match_any, rtc_time, status_value, control_value,
                    fram_store_queue, failed, restarts, misread, unwritten>>
    BY <1>1 DEF Synchronise
  <2> QED BY <2>1, <2>2, Zenon DEF TypeOK
<1>2. CASE SetTime
  <2>1. pc' \in [Task -> Step]
    BY <1>0, <1>2, ContinueTyped DEF SetTime, after_set, TypeOK, Step
  <2>2. rtc_time' \in Time
    BY <1>0, <1>2 DEF SetTime, TypeOK
  <2>3. failed' \in 0 .. Failures
    BY <1>2, FailsTyped DEF SetTime, TypeOK
  <2>4. UNCHANGED <<status, control, match_any, system_time, status_value,
                    control_value, fram_store_queue, restarts, misread, unwritten>>
    BY <1>2 DEF SetTime
  <2> QED BY <2>1, <2>2, <2>3, <2>4, Zenon DEF TypeOK
<1>3. CASE ReadOSF
  <2>1. pc' \in [Task -> Step] /\ UNCHANGED system_time
    BY <1>0, <1>3, ContinueTyped DEF ReadOSF, TypeOK, Step
  <2>2. read_status("sntp")
    BY <1>3 DEF ReadOSF
  <2>3. UNCHANGED <<status, control, match_any, rtc_time, control_value,
                    fram_store_queue, restarts, unwritten>>
    BY <2>2 DEF read_status
  <2>4. /\ status_value' \in [Task -> Status]
        /\ failed' \in 0 .. Failures /\ misread' \in BOOLEAN
    BY <1>0, <2>2, ReadStatusTyped
  <2> QED BY <2>1, <2>3, <2>4, Zenon DEF TypeOK
<1>4. CASE ClearOSF
  <2> DEFINE s == [status_value["sntp"] EXCEPT !.OSF = FALSE]
  <2>1. pc' \in [Task -> Step]
    BY <1>0, <1>4, ContinueTyped DEF ClearOSF, TypeOK, Step
  <2>2. write_status("sntp", s) /\ s \in Status
    BY <1>0, <1>4, RecordsTyped DEF ClearOSF, TypeOK
  <2>3. UNCHANGED <<control, match_any, rtc_time, system_time, control_value,
                    fram_store_queue, restarts, misread>>
    BY <2>2 DEF write_status
  <2>4. /\ status' \in Status /\ status_value' \in [Task -> Status]
        /\ failed' \in 0 .. Failures /\ unwritten' \in BOOLEAN
    BY <1>0, <2>2, WriteStatusTyped
  <2> QED BY <2>1, <2>3, <2>4, Zenon DEF TypeOK
<1> QED BY <1>1, <1>2, <1>3, <1>4

LEMMA NextTyped == TypeOK /\ [Next]_vars => TypeOK'
<1> SUFFICES ASSUME TypeOK, [Next]_vars PROVE TypeOK'
  OBVIOUS
<1>1. CASE UNCHANGED vars
  BY <1>1 DEF vars, rtc_vars, task_vars, TypeOK
<1>2. "main" \in Task /\ "fram" \in Task /\ "sntp" \in Task
  BY DEF Task
<1> QED BY <1>1, <1>2, ClockTyped, ReadsTyped, ConfigTyped, AlarmTyped, SntpTyped
        DEF Next, time_init, FramTask, time_sync_notification_cb

(***************************************************************************)
(* Type correctness of the RTC's users (rtc.c, time_init.c, ntp.c).        *)
(***************************************************************************)
THEOREM TypeCorrect == Spec => []TypeOK
  BY InitTypeOK, NextTyped, PTL DEF Spec
-------------------------------------------------------------------------------
(***************************************************************************)
(* A line held low is served.  The property is inductive: only AlarmMatch  *)
(* lets the line fall once time_init is done, and then with a record; and  *)
(* only the FRAM task's clearing of the alarm ends its turn.               *)
(***************************************************************************)
LEMMA MainNotDone ==
  ASSUME TypeOK, NEW step \in Step \ {"done"}, Continue("main", step)
  PROVE  pc'["main"] # "done"
  BY DEF TypeOK, Continue, Task

LEMMA QueueNotEmptied ==
  ASSUME NEW n \in 0 .. StoreQueueLength
  PROVE  xQueueSendFromISR(n) > 0
  BY QueueTyped, RtcAssumption

\* A write of the status register that succeeds with A2F = 0 clears A2F.
LEMMA WriteClearsAlarm ==
  ASSUME TypeOK, NEW t \in {"main", "fram"}, ClearAlarm(t)
  PROVE  ~status'.A2F \/ unwritten'
<1> DEFINE s == without_alarm(status_value[t])
<1>1. write_status(t, s) /\ ~s.A2F
  <2>1. status_value[t] \in Status
    BY DEF TypeOK, Task
  <2> QED BY <2>1 DEF ClearAlarm, without_alarm, Status
<1>2. CASE status' = [OSF |-> status.OSF /\ s.OSF, A2F |-> status.A2F /\ s.A2F]
  <2>1. status'.A2F = (status.A2F /\ s.A2F)
    BY <1>2
  <2> QED BY <1>1, <2>1, Zenon
<1>3. CASE unwritten' = (unwritten \/ t # "sntp")
  BY <1>3
<1> QED BY <1>1, <1>2, <1>3, Zenon DEF write_status

LEMMA HeldLineStep ==
  TypeOK /\ HeldLineIsServed /\ [Next]_vars => HeldLineIsServed'
<1> SUFFICES ASSUME TypeOK, HeldLineIsServed, [Next]_vars
             PROVE  HeldLineIsServed'
  OBVIOUS
<1> USE DEF rtc_vars, task_vars
\* A step that keeps the line, main, the FRAM task and the queue as they are.
<1> DEFINE Quiet ==
      /\ pc'["main"] = pc["main"] /\ pc'["fram"] = pc["fram"]
      /\ control' = control /\ fram_store_queue' = fram_store_queue
      /\ status'.A2F => status.A2F
      /\ unwritten => unwritten'
<1>1. Quiet => HeldLineIsServed'
  BY DEF HeldLineIsServed, AlarmOnPin
<1>2. pc'["main"] # "done" => HeldLineIsServed'
  BY DEF HeldLineIsServed
<1>3. fram_store_queue \in 0 .. StoreQueueLength
  BY DEF TypeOK
<1>4. CASE AlarmMatch
  <2>1. CASE AlarmOnPin
    BY <1>3, <1>4, <2>1, QueueNotEmptied DEF AlarmMatch, HeldLineIsServed
  <2>2. CASE ~AlarmOnPin
    BY <1>4, <2>2 DEF AlarmMatch, HeldLineIsServed, AlarmOnPin
  <2> QED BY <2>1, <2>2
<1>5. CASE SquareWave
  BY <1>3, <1>5, QueueNotEmptied DEF SquareWave, HeldLineIsServed
<1>6. CASE Restart
  BY <1>2, <1>6 DEF Restart, AtStart, Task
<1>7. CASE CheckOSF("main") \/ ReadTime("main")
  <2>1. CASE \E unix \in Time : GotUnix("main", unix)
    BY <1>2, <2>1, MainNotDone DEF GotUnix, Step
  <2>2. CASE Continue("main", "time_registers")
    BY <1>2, <2>2, MainNotDone DEF Step
  <2>3. rtc_time \in Time /\ "zero" \in Time
    BY DEF TypeOK, Time
  <2> QED BY <1>7, <2>1, <2>2, <2>3 DEF CheckOSF, ReadTime
<1>8. CASE SetMinuteMatch \/ ReadControl \/ WriteControl \/ ReadAlarm("main")
  BY <1>2, <1>8, MainNotDone, MatchContinues
     DEF ReadControl, WriteControl, ReadAlarm, Step
<1>9. CASE \E t \in {"main", "fram"} : ClearAlarm(t)
  <2>1. ~status'.A2F \/ unwritten'
    BY <1>9, WriteClearsAlarm
  <2> QED BY <2>1, Zenon DEF HeldLineIsServed
<1>10. CASE Receive \/ ReadAlarm("fram")
  <2>1. pc'["fram"] # "receive"
    BY <1>10 DEF Receive, ReadAlarm, Continue, TypeOK, Task
  <2> QED BY <2>1 DEF HeldLineIsServed
<1>11. CASE Synchronise \/ SetTime \/ CheckOSF("sntp") \/ ReadTime("sntp") \/ ReadOSF
  <2>1. pc'["main"] = pc["main"] /\ pc'["fram"] = pc["fram"]
    <3>1. \E step \in Step : Continue("sntp", step)
      BY <1>11 DEF Synchronise, SetTime, CheckOSF, ReadTime, ReadOSF, GotUnix,
                   after_set, Step
    <3> QED BY <3>1 DEF Continue, TypeOK
  <2>2. UNCHANGED <<status, control, fram_store_queue, unwritten>>
    BY <1>11 DEF Synchronise, SetTime, CheckOSF, ReadTime, ReadOSF, read_status
  <2> QED BY <1>1, <2>1, <2>2, Zenon
<1>12. CASE ClearOSF
  <2> DEFINE s == [status_value["sntp"] EXCEPT !.OSF = FALSE]
  <2>1. pc'["main"] = pc["main"] /\ pc'["fram"] = pc["fram"]
    BY <1>12 DEF ClearOSF, Continue, TypeOK
  <2>2. write_status("sntp", s)
    BY <1>12 DEF ClearOSF
  <2>3. UNCHANGED <<control, fram_store_queue>> /\ (unwritten => unwritten')
    <3>1. \/ UNCHANGED <<failed, unwritten>>
          \/ unwritten' = (unwritten \/ "sntp" # "sntp")
      BY <2>2, Zenon DEF write_status, WriteOk
    <3>2. unwritten => unwritten'
      <4>1. unwritten' = unwritten \/ unwritten' = (unwritten \/ "sntp" # "sntp")
        BY <3>1
      <4> QED BY <4>1, Zenon
    <3> QED BY <2>2, <3>2 DEF write_status
  <2>4. status'.A2F => status.A2F
    <3>1. CASE status' = [OSF |-> status.OSF /\ s.OSF, A2F |-> status.A2F /\ s.A2F]
      <4>1. status'.A2F = (status.A2F /\ s.A2F)
        BY <3>1
      <4> QED BY <4>1, Zenon
    <3>2. CASE status' = status
      BY <3>2
    <3> QED BY <2>2, <3>1, <3>2, Zenon DEF write_status
  <2> QED BY <1>1, <2>1, <2>3, <2>4, Zenon
<1>13. CASE UNCHANGED vars
  BY <1>1, <1>13 DEF vars
<1> QED BY <1>4, <1>5, <1>6, <1>7, <1>8, <1>9, <1>10, <1>11, <1>12, <1>13
        DEF Next, time_init, FramTask, time_sync_notification_cb

(***************************************************************************)
(* A line held low by the alarm is served (rtc.c:57-69 and 404-413).       *)
(***************************************************************************)
THEOREM AlarmIsServed == Spec => []HeldLineIsServed
<1>1. Init => HeldLineIsServed
  BY DEF Init, HeldLineIsServed, AtStart, Task
<1> QED BY <1>1, TypeCorrect, HeldLineStep, PTL DEF Spec
-------------------------------------------------------------------------------
(***************************************************************************)
(* BelievedTimeWasSet is not inductive: a task may be about to write OSF   *)
(* back as 0, or to take the time for the system's.  Whoever has seen a    *)
(* running clock, or set it, knows that the time is right as long as the   *)
(* device runs, since only a restart can stop the clock.                   *)
(***************************************************************************)
SeenRunning ==
  /\ \A t \in {"main", "fram"} :
       pc[t] = "clear_write" /\ ~status_value[t].OSF => rtc_time = "right"
  /\ pc["main"] = "time_registers" => rtc_time = "right"
  /\ pc["sntp"] \in {"osf_read", "osf_write"} => rtc_time = "right"

Believed == (~status.OSF => rtc_time = "right") /\ system_time # "stale"

TimeInv == misread \/ (Believed /\ SeenRunning)

LEMMA MisreadStays == TypeOK /\ misread /\ [Next]_vars => misread'
<1> SUFFICES ASSUME TypeOK, misread, [Next]_vars PROVE misread'
  OBVIOUS
<1>1. UNCHANGED misread \/ \E t \in Task : read_status(t)
  BY DEF Next, vars, rtc_vars, task_vars, AlarmMatch, SquareWave, Restart, time_init,
         FramTask, time_sync_notification_cb, CheckOSF, ReadTime, SetMinuteMatch,
         SetMatch, ReadControl, WriteControl, ReadAlarm, ClearAlarm, write_status, Receive,
         Synchronise, SetTime, ReadOSF, ClearOSF, Task
<1>2. ASSUME NEW t \in Task, read_status(t) PROVE misread'
  BY <1>2, Zenon DEF read_status
<1> QED BY <1>1, <1>2

\* A good read of the status register: OSF = 0 is believed with reason.
LEMMA GoodRead ==
  ASSUME TypeOK, Believed, NEW t \in {"main", "fram"}, read_status(t), ~misread'
  PROVE  ~status_value'[t].OSF => rtc_time = "right"
<1>1. status_value' = [status_value EXCEPT ![t] = status]
  <2>1. t # "sntp"
    OBVIOUS
  <2> QED BY <2>1, Zenon DEF read_status
<1>2. status_value'[t] = status
  BY <1>1 DEF TypeOK, Task
<1> QED BY <1>2, Zenon DEF Believed

\* What writing the status register leaves of Believed.
LEMMA WriteBelieved ==
  ASSUME Believed, NEW t, NEW s, write_status(t, s), ~s.OSF => rtc_time = "right"
  PROVE  Believed'
<1>1. UNCHANGED <<rtc_time, system_time>>
  BY DEF write_status
<1>2. ~status'.OSF => ~status.OSF \/ ~s.OSF
  <2>1. CASE status' = [OSF |-> status.OSF /\ s.OSF, A2F |-> status.A2F /\ s.A2F]
    <3>1. status'.OSF = (status.OSF /\ s.OSF)
      BY <2>1
    <3> QED BY <3>1, Zenon
  <2>2. CASE status' = status
    BY <2>2
  <2> QED BY <2>1, <2>2, Zenon DEF write_status
<1> QED BY <1>1, <1>2, Zenon DEF Believed

LEMMA TimeStep == TypeOK /\ TimeInv /\ [Next]_vars => TimeInv'
<1> SUFFICES ASSUME TypeOK, TimeInv, [Next]_vars, ~misread'
             PROVE  Believed' /\ SeenRunning'
  BY Zenon DEF TimeInv
<1> USE DEF rtc_vars, task_vars
<1>0. ~misread /\ Believed /\ SeenRunning
  BY MisreadStays, Zenon DEF TimeInv
\* A step that keeps the time and the status register.
<1> DEFINE Kept == UNCHANGED <<status, rtc_time, system_time>>
<1>1. Kept => Believed'
  BY <1>0 DEF Believed
<1>2. CASE AlarmMatch
  <2>1. status'.OSF = status.OSF
    BY <1>2 DEF AlarmMatch, TypeOK, Status
  <2>2. UNCHANGED <<rtc_time, system_time, pc, status_value>>
    BY <1>2 DEF AlarmMatch
  <2> QED BY <1>0, <2>1, <2>2, Zenon DEF Believed, SeenRunning
<1>3. CASE SquareWave \/ SetMinuteMatch \/ ReadControl \/ WriteControl \/ Receive
  <2>1. UNCHANGED <<status, rtc_time, system_time, status_value>>
    BY <1>3, MatchContinues DEF SquareWave, ReadControl, WriteControl, Receive
  <2>2. CASE UNCHANGED pc
    BY <1>0, <2>1, <2>2, Zenon DEF Believed, SeenRunning
  <2>3. CASE \E t \in {"main", "fram"},
                step \in {"hours", "day", "control_read", "control_write", "clear_read"} :
                Continue(t, step)
    <3>1. SeenRunning'
      BY <1>0, <2>1, <2>3 DEF SeenRunning, Continue, TypeOK, Task
    <3> QED BY <1>1, <2>1, <3>1
  <2> QED BY <1>3, <2>2, <2>3, MatchContinues
          DEF SquareWave, ReadControl, WriteControl, Receive
<1>4. CASE Restart
  <2>1. SeenRunning'
    BY <1>4 DEF Restart, SeenRunning, AtStart, Task
  <2>2. system_time' # "stale"
    BY <1>0, <1>4 DEF Restart, Believed
  <2>3. ~status'.OSF => rtc_time' = "right"
    <3>1. CASE UNCHANGED rtc_vars
      BY <1>0, <3>1 DEF Believed
    <3>2. CASE status' = [status EXCEPT !.OSF = TRUE]
      BY <3>2 DEF TypeOK, Status
    <3>3. CASE status' = [OSF |-> TRUE, A2F |-> FALSE]
      BY <3>3
    <3> QED BY <1>4, <3>1, <3>2, <3>3 DEF Restart
  <2> QED BY <2>1, <2>2, <2>3, Zenon DEF Believed
<1>5. CASE CheckOSF("main")
  <2>1. UNCHANGED <<status, rtc_time>> /\ read_status("main")
    BY <1>5 DEF CheckOSF, read_status
  <2>2. ~status_value'["main"].OSF => rtc_time = "right"
    BY <1>0, <2>1, GoodRead, Zenon
  <2>3. UNCHANGED system_time
    BY <1>5 DEF CheckOSF, GotUnix
  <2>4. SeenRunning'
    <3>1. \/ Continue("main", "minutes")
          \/ ~status_value'["main"].OSF /\ Continue("main", "time_registers")
      BY <1>5 DEF CheckOSF, GotUnix
    <3>2. status_value'["fram"] = status_value["fram"]
      BY <2>1 DEF read_status, TypeOK, Task
    <3> QED BY <1>0, <2>1, <2>2, <3>1, <3>2 DEF SeenRunning, Continue, TypeOK, Task
  <2> QED BY <1>1, <2>1, <2>3, <2>4
<1>6. CASE ReadTime("main")
  <2>1. rtc_time = "right" /\ UNCHANGED <<status, rtc_time>>
    BY <1>0, <1>6 DEF ReadTime, SeenRunning
  <2>2. system_time' # "stale"
    BY <1>0, <1>6, <2>1 DEF ReadTime, GotUnix, Believed
  <2>3. SeenRunning'
    BY <2>1 DEF SeenRunning
  <2> QED BY <1>0, <2>1, <2>2, <2>3, Zenon DEF Believed
<1>7. CASE \E t \in {"main", "fram"} : ReadAlarm(t)
  <2> PICK t \in {"main", "fram"} : ReadAlarm(t)
    BY <1>7
  <2>1. read_status(t) /\ Kept /\ Continue(t, "clear_write")
    BY DEF ReadAlarm, read_status
  <2>2. ~status_value'[t].OSF => rtc_time = "right"
    BY <1>0, <2>1, GoodRead, Zenon
  <2>3. \A o \in {"main", "fram"} \ {t} : /\ status_value'[o] = status_value[o]
                                         /\ pc'[o] = pc[o]
    BY <2>1 DEF read_status, Continue, TypeOK, Task
  <2>4. pc'[t] = "clear_write" /\ pc'["sntp"] = pc["sntp"]
    BY <2>1 DEF Continue, TypeOK, Task
  <2>5. SeenRunning'
    BY <1>0, <2>1, <2>2, <2>3, <2>4 DEF SeenRunning
  <2> QED BY <1>1, <2>1, <2>5
<1>8. CASE \E t \in {"main", "fram"} : ClearAlarm(t)
  <2> PICK t \in {"main", "fram"} : ClearAlarm(t)
    BY <1>8
  <2> DEFINE s == without_alarm(status_value[t])
  <2>1. write_status(t, s)
    BY DEF ClearAlarm
  <2>2. s.OSF = status_value[t].OSF
    BY DEF without_alarm, TypeOK, Status, Task
  <2>3. ~s.OSF => rtc_time = "right"
    BY <1>0, <2>2, Zenon DEF SeenRunning, ClearAlarm
  <2>4. Believed'
    BY <1>0, <2>1, <2>3, WriteBelieved
  <2>5. SeenRunning'
    <3>1. UNCHANGED rtc_time
      BY <2>1 DEF write_status
    <3>2. CASE pc' = AllRunning
      BY <3>2 DEF SeenRunning, AllRunning, Task
    <3>3. CASE t = "fram" /\ Continue("fram", "receive")
      <4>1. status_value'["main"] = status_value["main"]
        BY <2>1, <3>3 DEF write_status, TypeOK
      <4> QED BY <1>0, <3>1, <3>3, <4>1 DEF SeenRunning, Continue, TypeOK, Task
    <3> QED BY <3>2, <3>3 DEF ClearAlarm
  <2> QED BY <2>4, <2>5
<1>9. CASE Synchronise
  <2>1. Believed'
    BY <1>0, <1>9 DEF Synchronise, Believed
  <2>2. SeenRunning'
    BY <1>0, <1>9 DEF Synchronise, SeenRunning, Continue, TypeOK, Task
  <2> QED BY <2>1, <2>2
<1>10. CASE CheckOSF("sntp") \/ ReadTime("sntp")
  <2>1. Kept
    BY <1>10 DEF CheckOSF, ReadTime, GotUnix, read_status
  <2>2. \A o \in {"main", "fram"} : status_value'[o] = status_value[o]
    BY <1>10 DEF CheckOSF, ReadTime, read_status, TypeOK, Task
  <2>3. \E step \in {"idle", "set_time", "time_registers"} : Continue("sntp", step)
    BY <1>10 DEF CheckOSF, ReadTime, GotUnix
  <2>4. SeenRunning'
    BY <1>0, <2>1, <2>2, <2>3 DEF SeenRunning, Continue, TypeOK, Task
  <2> QED BY <1>1, <2>1, <2>4
<1>11. CASE SetTime
  <2>1. UNCHANGED <<status, system_time, status_value>>
    BY <1>11 DEF SetTime
  <2>2. CASE rtc_time' = "right"
    BY <1>0, <2>1, <2>2 DEF Believed, SeenRunning
  <2>3. CASE UNCHANGED rtc_time /\ Continue("sntp", after_set(FALSE))
    <3>1. SeenRunning'
      BY <1>0, <2>1, <2>3 DEF SeenRunning, Continue, after_set, TypeOK, Task
    <3> QED BY <1>1, <2>1, <2>3, <3>1
  <2> QED BY <1>11, <2>2, <2>3 DEF SetTime
<1>12. CASE ReadOSF
  <2>1. Kept /\ pc["sntp"] = "osf_read" /\ Continue("sntp", "osf_write")
    BY <1>12 DEF ReadOSF, read_status
  <2>2. \A o \in {"main", "fram"} : status_value'[o] = status_value[o]
    BY <1>12 DEF ReadOSF, read_status, TypeOK, Task
  <2>3. SeenRunning'
    BY <1>0, <2>1, <2>2 DEF SeenRunning, Continue, TypeOK, Task
  <2> QED BY <1>1, <2>1, <2>3
<1>13. CASE ClearOSF
  <2> DEFINE s == [status_value["sntp"] EXCEPT !.OSF = FALSE]
  <2>1. /\ pc["sntp"] = "osf_write" /\ write_status("sntp", s)
        /\ Continue("sntp", "idle")
    BY <1>13 DEF ClearOSF
  <2>2. rtc_time = "right" /\ UNCHANGED rtc_time
    BY <1>0, <2>1 DEF SeenRunning, write_status
  <2>3. Believed'
    BY <1>0, <2>1, <2>2, WriteBelieved
  <2> QED BY <2>2, <2>3 DEF SeenRunning
<1>14. CASE UNCHANGED vars
  BY <1>0, <1>14, Zenon DEF vars, Believed, SeenRunning
<1> QED BY <1>2, <1>3, <1>4, <1>5, <1>6, <1>7, <1>8, <1>9, <1>10, <1>11, <1>12,
           <1>13, <1>14
        DEF Next, time_init, FramTask, time_sync_notification_cb

(***************************************************************************)
(* A time that was not set since the clock stood still is not believed     *)
(* (rtc.c:395-413, time_init.c:15-25).                                     *)
(***************************************************************************)
THEOREM StoppedClockIsNotBelieved == Spec => []BelievedTimeWasSet
<1>1. Init => TimeInv
  <2> SUFFICES ASSUME Init PROVE Believed /\ SeenRunning
    BY Zenon DEF TimeInv
  <2>1. Believed
    <3>1. CASE status = [OSF |-> TRUE, A2F |-> FALSE]
      BY <3>1 DEF Init, Believed
    <3>2. CASE rtc_time = "right"
      BY <3>2 DEF Init, Believed
    <3> QED BY <3>1, <3>2 DEF Init
  <2>2. SeenRunning
    BY DEF Init, SeenRunning, AtStart, Task
  <2> QED BY <2>1, <2>2
<1>2. TimeInv => BelievedTimeWasSet
  BY Zenon DEF TimeInv, Believed, BelievedTimeWasSet
<1> QED BY <1>1, <1>2, TypeCorrect, TimeStep, PTL DEF Spec
===============================================================================
