------------------------------ MODULE StatusReport ------------------------------
(***************************************************************************)
(* The hourly status report and minute_count, the byte that two tasks      *)
(* share without a lock: the FRAM task counts the minutes in it and raises *)
(* it when the power supply changes; the upload task tests it, publishes   *)
(* and sets it back.                                                       *)
(*                                                                         *)
(* The status counters are a set of events, of those that the FRAM task    *)
(* counts and those that the upload task counts; the counters that nobody  *)
(* increments and the battery's values are left out.                       *)
(* status_struct_gatekeeper is always obtained: its holders keep it for a  *)
(* few instructions and the others wait a second.                          *)
(***************************************************************************)
EXTENDS Integers

CONSTANTS MinuteRange,                        \* 256 in the program
          CONFIG_STATUS_UPLOAD_INTERVAL_MIN,  \* 60
          MaxLag,      \* minutes between two turns of the upload task's loop
          MaxChanges,  \* changes of the power supply
          FramErrors, UploadErrors,  \* events that the counters count
          FramLevels,  \* numbers of messages in the FRAM
          Rssis        \* strengths of the WiFi signal

ASSUME MinuteAssumption ==
  /\ CONFIG_STATUS_UPLOAD_INTERVAL_MIN \in Nat \ {0}
  /\ MaxLag \in Nat \ {0} /\ MaxChanges \in Nat
  /\ MinuteRange \in Nat
  /\ FramLevels \subseteq Nat /\ Rssis \subseteq Int
  /\ MinuteRange > CONFIG_STATUS_UPLOAD_INTERVAL_MIN + MaxLag + 1

VARIABLES
  pin,               \* the mains sense pin
  on_mains_flag, minute_count,
  dev_status,        \* the status struct
  fram_pc, loaded,   \* the FRAM task; minute_count as minute_count++ read it
  upload_pc,         \* the upload task
  status_message,    \* its copy of the status struct
  reported,          \* history: what status messages brought so far
  occurred, late,    \* history: errors; those counted while one was published
  peak,              \* history: the highest level noted while none was
  lag, changes,      \* bounds: see MaxLag and MaxChanges
  quiet              \* history: minutes since the last attempt

fram_vars == <<fram_pc, loaded>>
upload_vars == <<upload_pc, status_message>>
history == <<occurred, late, peak, quiet>>
vars == <<pin, on_mains_flag, minute_count, dev_status, fram_vars, upload_vars,
          reported, history, lag, changes>>

Errors == FramErrors \cup UploadErrors
Status == [on_mains : {0, 1}, errors : SUBSET Errors,
           high_water_mark : {0} \cup FramLevels, rssi_low_mark : {0} \cup Rssis]
Reports == [on_mains : {-1, 0, 1}, errors : SUBSET Errors,
            high_water_mark : {0} \cup FramLevels]
NoStatus == [on_mains |-> 0, errors |-> {}, high_water_mark |-> 0, rssi_low_mark |-> 0]

Highest(a, b) == IF a > b THEN a ELSE b
Lowest(a, b) == IF a < b THEN a ELSE b

\* The program writes 61, whatever the interval is; here it follows the
\* interval, as it does for the 60 that the program is configured with.
forced_count == CONFIG_STATUS_UPLOAD_INTERVAL_MIN + 1

\* Slip of minute_after: the count stops at the hour.
minute_after_capped(m) ==
  IF m < CONFIG_STATUS_UPLOAD_INTERVAL_MIN THEN m + 1 ELSE m

\* Slip of minute_after: the width of the byte is forgotten.
minute_after_unbounded(m) == m + 1

minute_after(m) == (m + 1) % MinuteRange

\* Slip of hour_passed: the loop is taken to see every minute.
hour_passed_exactly == minute_count = CONFIG_STATUS_UPLOAD_INTERVAL_MIN + 1

hour_passed == minute_count > CONFIG_STATUS_UPLOAD_INTERVAL_MIN

\* History counters stop at a bound that their properties can tell apart.
QuietBound == CONFIG_STATUS_UPLOAD_INTERVAL_MIN + 2 * (MaxLag + 1)
Count(n, bound) == IF n > bound THEN n ELSE n + 1
-------------------------------------------------------------------------------
\* app_main evaluates the pin before the tasks start.
Init == /\ pin \in {0, 1}
        /\ on_mains_flag = pin
        /\ minute_count = forced_count
        /\ dev_status = NoStatus
        /\ fram_pc = "evaluate" /\ loaded = 0
        /\ upload_pc = "check" /\ status_message = dev_status
        /\ reported = [on_mains |-> -1, errors |-> {}, high_water_mark |-> 0]
        /\ occurred = {} /\ late = {} /\ peak = 0
        /\ lag = 0 /\ changes = 0 /\ quiet = 0

PowerChanges ==
  /\ changes < MaxChanges
  /\ changes' = changes + 1
  /\ pin' = 1 - pin
  /\ UNCHANGED <<on_mains_flag, minute_count, dev_status, fram_vars, upload_vars,
                 reported, history, lag>>
-------------------------------------------------------------------------------
\* The FRAM task; first it looks for a change of the power supply.
mains_flag_evaluation ==
  /\ fram_pc = "evaluate"
  /\ \/ on_mains_flag = pin /\ UNCHANGED <<on_mains_flag, minute_count>>
     \/ /\ on_mains_flag # pin
        /\ on_mains_flag' = pin
        /\ minute_count' = forced_count
  /\ fram_pc' = "receive"
  /\ UNCHANGED <<pin, dev_status, loaded, upload_vars, reported, history,
                 lag, changes>>

\* No record comes within the timeout.
ReceiveTimeout ==
  /\ fram_pc = "receive"
  /\ fram_pc' = "evaluate"
  /\ UNCHANGED <<pin, on_mains_flag, minute_count, dev_status, loaded, upload_vars,
                 reported, history, lag, changes>>

Publishing == upload_pc \in {"publish", "reset"}

status_increment(e) ==
  /\ e \notin occurred
  /\ occurred' = occurred \cup {e}
  /\ dev_status' = [dev_status EXCEPT !.errors = @ \cup {e}]
  /\ late' = IF Publishing THEN late \cup {e} ELSE late

status_framHighWaterMark(level) ==
  /\ dev_status' = [dev_status EXCEPT !.high_water_mark = Highest(@, level)]
  /\ peak' = IF Publishing THEN peak ELSE Highest(peak, level)
  /\ UNCHANGED <<occurred, late>>

\* A record comes, and a write error or a level of the store is noted.
RecordStored ==
  /\ fram_pc = "receive"
  /\ lag < MaxLag /\ lag' = lag + 1
  /\ loaded' = minute_count
  /\ fram_pc' = "count"
  /\ UNCHANGED <<pin, on_mains_flag, minute_count, upload_vars, reported,
                 quiet, changes>>

ReceiveRecord == RecordStored /\ \E level \in FramLevels : status_framHighWaterMark(level)

RecordFails == RecordStored /\ UNCHANGED peak /\ \E e \in FramErrors : status_increment(e)

\* The write half of minute_count++.
CountMinute ==
  /\ fram_pc = "count"
  /\ minute_count' = minute_after(loaded)
  /\ fram_pc' = "evaluate"
  /\ quiet' = Count(quiet, QuietBound)
  /\ UNCHANGED <<pin, on_mains_flag, dev_status, loaded, upload_vars, reported,
                 occurred, late, peak, lag, changes>>

FramTask == \/ mains_flag_evaluation \/ ReceiveTimeout \/ CountMinute
            \/ ReceiveRecord \/ RecordFails
-------------------------------------------------------------------------------
\* The upload task counts losses of WiFi and publishes, before it comes to the test.
CountUpload ==
  /\ upload_pc = "check"
  /\ \E e \in UploadErrors : status_increment(e)
  /\ UNCHANGED <<pin, on_mains_flag, minute_count, fram_vars, upload_vars, reported,
                 peak, quiet, lag, changes>>

status_setRssiLowWaterMark ==
  /\ upload_pc = "check"
  /\ \E rssi \in Rssis :
       dev_status' = [dev_status EXCEPT !.rssi_low_mark = Lowest(@, rssi)]
  /\ UNCHANGED <<pin, on_mains_flag, minute_count, fram_vars, upload_vars, reported,
                 history, lag, changes>>

\* The upload task, from the test of minute_count to the next one.
CheckHour ==
  /\ upload_pc = "check"
  /\ \/ ~hour_passed /\ UNCHANGED <<upload_pc, quiet>>
     \/ hour_passed /\ upload_pc' = "power" /\ quiet' = 0
  /\ lag' = 0
  /\ UNCHANGED <<pin, on_mains_flag, minute_count, dev_status, fram_vars,
                 status_message, reported, occurred, late, peak, changes>>

status_evaluatePower ==
  /\ upload_pc = "power"
  /\ dev_status' = [dev_status EXCEPT !.on_mains = pin]
  /\ upload_pc' = "message"
  /\ UNCHANGED <<pin, on_mains_flag, minute_count, fram_vars, status_message,
                 reported, history, lag, changes>>

get_status_message_json ==
  /\ upload_pc = "message"
  /\ status_message' = dev_status
  /\ upload_pc' = "publish"
  /\ UNCHANGED <<pin, on_mains_flag, minute_count, dev_status, fram_vars,
                 reported, history, lag, changes>>

\* Slip of step_after_publish: the counters are reset in any case.
step_after_publish_always_resets(success) == "reset"

step_after_publish(success) == IF success THEN "reset" ELSE "check"

\* The same message also goes to state_topic, whatever comes of that.
PublishStatus(success) ==
  /\ upload_pc = "publish"
  /\ upload_pc' = step_after_publish(success)
  /\ \/ /\ success
        /\ LET m == status_message
           IN reported' =
                [on_mains |-> m.on_mains,
                 errors |-> reported.errors \cup m.errors,
                 high_water_mark |-> Highest(reported.high_water_mark, m.high_water_mark)]
     \/ ~success /\ UNCHANGED reported
  /\ UNCHANGED <<pin, on_mains_flag, minute_count, dev_status, fram_vars,
                 status_message, history, lag, changes>>

\* All but the RSSI's mark, which stays at its lowest.
status_resetStruct ==
  /\ upload_pc = "reset"
  /\ dev_status' = [dev_status EXCEPT !.errors = {}, !.high_water_mark = 0]
  /\ upload_pc' = "restart_count"
  /\ UNCHANGED <<pin, on_mains_flag, minute_count, fram_vars, status_message,
                 reported, history, lag, changes>>

RestartCount ==
  /\ upload_pc = "restart_count"
  /\ minute_count' = 1
  /\ quiet' = 0
  /\ upload_pc' = "check"
  /\ UNCHANGED <<pin, on_mains_flag, dev_status, fram_vars, status_message,
                 reported, occurred, late, peak, lag, changes>>

Report == \/ status_evaluatePower \/ get_status_message_json
          \/ \E success \in BOOLEAN : PublishStatus(success)
          \/ status_resetStruct \/ RestartCount

UploadTask == \/ CountUpload \/ status_setRssiLowWaterMark
              \/ CheckHour \/ Report

Next == PowerChanges \/ FramTask \/ UploadTask

Spec == Init /\ [][Next]_vars

(***************************************************************************)
(* Both tasks run, the alarm comes every minute, and a publish that is     *)
(* tried again and again succeeds once.  That the upload task comes round  *)
(* to its test is an assumption: the waits before it have no timeout, and  *)
(* UploadsResume of Connectivity shows that they may never end.            *)
(***************************************************************************)
Fairness == /\ WF_vars(FramTask)
            /\ SF_vars(ReceiveRecord)
            /\ WF_vars(CheckHour \/ Report)
            /\ SF_vars(PublishStatus(TRUE))

FairSpec == Spec /\ Fairness
-------------------------------------------------------------------------------
TypeOK == /\ pin \in {0, 1} /\ on_mains_flag \in {0, 1}
          /\ minute_count \in 0 .. MinuteRange - 1
          /\ {dev_status, status_message} \subseteq Status /\ reported \in Reports
          /\ fram_pc \in {"evaluate", "receive", "count"}
          /\ loaded \in 0 .. MinuteRange - 1
          /\ upload_pc \in {"check", "power", "message", "publish", "reset",
                            "restart_count"}
          /\ occurred \subseteq Errors /\ late \subseteq Errors
          /\ peak \in {0} \cup FramLevels
          /\ lag \in 0 .. MaxLag /\ changes \in 0 .. MaxChanges
          /\ quiet \in Nat

(***************************************************************************)
(* A report is tried at the latest an hour after the last one, give or     *)
(* take two turns of the upload task's loop: neither the race on           *)
(* minute_count nor its overflow while the broker cannot be reached        *)
(* delays it any longer (fram_task.c:86, upload_task.c:440 and 472).       *)
(***************************************************************************)
TriedWithinAnHour == quiet <= QuietBound

(***************************************************************************)
(* A counted error stays in the status struct until a report that brings   *)
(* it was published, and so does the highest number of stored messages;    *)
(* only what is counted between the copy and the reset is lost             *)
(* (upload_task.c:455 and 469).                                            *)
(***************************************************************************)
LostOnlyWhilePublishing ==
  /\ occurred \subseteq dev_status.errors \cup reported.errors \cup late
  /\ peak <= Highest(dev_status.high_water_mark, reported.high_water_mark)

(***************************************************************************)
(* After the last change of the power supply the reports come to tell it,  *)
(* even if the race on minute_count defeats the forced report, as long as  *)
(* the upload task's loop comes round.                                     *)
(***************************************************************************)
PowerComesToBeReported == <>[](reported.on_mains = pin)

(***************************************************************************)
(* fram_task.c:16: "Force the status update if there is a change".  Once   *)
(* mains_flag_evaluation has seen the change and the last report told the  *)
(* other power supply, the loop's next test finds the count over the hour. *)
(* False if the change is seen while a report is being published: setting  *)
(* minute_count back to 1 (upload_task.c:472) undoes the 61, and the       *)
(* change waits an hour.                                                   *)
(***************************************************************************)
ChangeForcesReport ==
  (/\ upload_pc = "check"
   /\ on_mains_flag = pin
   /\ reported.on_mains = 1 - on_mains_flag) => hour_passed
===============================================================================
