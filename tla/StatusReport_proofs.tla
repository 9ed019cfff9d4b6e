-------------------------- MODULE StatusReport_proofs --------------------------
(***************************************************************************)
(* Proofs about StatusReport, for every interval, every width of the       *)
(* count that leaves room for the loop's lag, and every number of changes. *)
(***************************************************************************)
EXTENDS StatusReport, TLAPS

USE MinuteAssumption

C == CONFIG_STATUS_UPLOAD_INTERVAL_MIN
-------------------------------------------------------------------------------
(***************************************************************************)
(* Types.                                                                  *)
(***************************************************************************)
LEMMA StatusParts ==
  ASSUME NEW s \in Status
  PROVE  /\ s.on_mains \in {0, 1} /\ s.errors \subseteq Errors
         /\ s.high_water_mark \in {0} \cup FramLevels
         /\ s.rssi_low_mark \in {0} \cup Rssis
BY DEF Status

LEMMA ReportParts ==
  ASSUME NEW r \in Reports
  PROVE  /\ r.on_mains \in {-1, 0, 1} /\ r.errors \subseteq Errors
         /\ r.high_water_mark \in {0} \cup FramLevels
BY DEF Reports

LEMMA Extremes ==
  ASSUME NEW S, NEW a \in S, NEW b \in S
  PROVE  Highest(a, b) \in S /\ Lowest(a, b) \in S
BY DEF Highest, Lowest

LEMMA TypeInitially == Init => TypeOK
<1> SUFFICES ASSUME Init PROVE TypeOK
  OBVIOUS
<1>1. NoStatus \in Status
  BY DEF NoStatus, Status
<1>2. reported \in Reports
  BY DEF Init, Reports
<1>3. minute_count \in 0 .. MinuteRange - 1
  BY DEF Init, forced_count
<1> QED BY <1>1, <1>2, <1>3 DEF Init, TypeOK

LEMMA TypeFramTask ==
  ASSUME TypeOK, FramTask
  PROVE  TypeOK'
<1> USE DEF fram_vars, upload_vars
<1>1. CASE mains_flag_evaluation
  <2>1. minute_count' \in 0 .. MinuteRange - 1
    BY <1>1 DEF mains_flag_evaluation, TypeOK, forced_count
  <2> QED BY <1>1, <2>1 DEF mains_flag_evaluation, TypeOK, history
<1>2. CASE ReceiveTimeout
  BY <1>2 DEF ReceiveTimeout, TypeOK, history
<1>3. CASE CountMinute
  <2>1. minute_count' \in 0 .. MinuteRange - 1
    BY <1>3 DEF CountMinute, TypeOK, minute_after
  <2>2. quiet' \in Nat
    BY <1>3 DEF CountMinute, TypeOK, Count
  <2> QED BY <1>3, <2>1, <2>2 DEF CountMinute, TypeOK
<1>4. CASE ReceiveRecord
  <2>1. PICK level \in FramLevels : RecordStored /\ status_framHighWaterMark(level)
    BY <1>4 DEF ReceiveRecord
  <2>2. dev_status' \in Status
    BY <2>1, StatusParts, Extremes DEF status_framHighWaterMark, TypeOK, Status
  <2>3. peak' \in {0} \cup FramLevels
    BY <2>1, Extremes DEF status_framHighWaterMark, TypeOK
  <2>4. lag' \in 0 .. MaxLag
    BY <2>1 DEF RecordStored, TypeOK
  <2> QED BY <2>1, <2>2, <2>3, <2>4 DEF RecordStored, status_framHighWaterMark, TypeOK
<1>5. CASE RecordFails
  <2>1. PICK e \in FramErrors : RecordStored /\ UNCHANGED peak /\ status_increment(e)
    BY <1>5 DEF RecordFails
  <2>2. dev_status' \in Status
    BY <2>1, StatusParts DEF status_increment, TypeOK, Status, Errors
  <2>3. occurred' \subseteq Errors /\ late' \subseteq Errors
    BY <2>1 DEF status_increment, TypeOK, Errors
  <2>4. lag' \in 0 .. MaxLag
    BY <2>1 DEF RecordStored, TypeOK
  <2> QED BY <2>1, <2>2, <2>3, <2>4 DEF RecordStored, TypeOK
<1> QED BY <1>1, <1>2, <1>3, <1>4, <1>5 DEF FramTask

LEMMA TypeUploadTask ==
  ASSUME TypeOK, UploadTask
  PROVE  TypeOK'
<1> USE DEF fram_vars, upload_vars
<1>1. CASE CountUpload
  <2>1. PICK e \in UploadErrors : status_increment(e)
    BY <1>1 DEF CountUpload
  <2>2. dev_status' \in Status
    BY <2>1, StatusParts DEF status_increment, TypeOK, Status, Errors
  <2>3. occurred' \subseteq Errors /\ late' \subseteq Errors
    BY <2>1 DEF status_increment, TypeOK, Errors
  <2> QED BY <1>1, <2>2, <2>3 DEF CountUpload, TypeOK
<1>2. CASE status_setRssiLowWaterMark
  <2>1. dev_status' \in Status
    BY <1>2, StatusParts, Extremes DEF status_setRssiLowWaterMark, TypeOK, Status
  <2> QED BY <1>2, <2>1 DEF status_setRssiLowWaterMark, TypeOK, history
<1>3. CASE CheckHour
  BY <1>3 DEF CheckHour, TypeOK
<1>4. CASE status_evaluatePower
  <2>1. dev_status' \in Status
    BY <1>4, StatusParts DEF status_evaluatePower, TypeOK, Status
  <2> QED BY <1>4, <2>1 DEF status_evaluatePower, TypeOK, history
<1>5. CASE get_status_message_json
  BY <1>5 DEF get_status_message_json, TypeOK, history
<1>6. ASSUME NEW success \in BOOLEAN, PublishStatus(success)
      PROVE  TypeOK'
  <2>1. reported' \in Reports
    BY <1>6, StatusParts, ReportParts, Extremes DEF PublishStatus, TypeOK, Reports
  <2> QED BY <1>6, <2>1 DEF PublishStatus, step_after_publish, TypeOK, history
<1>7. CASE status_resetStruct
  <2>1. dev_status' \in Status
    BY <1>7, StatusParts DEF status_resetStruct, TypeOK, Status
  <2> QED BY <1>7, <2>1 DEF status_resetStruct, TypeOK, history
<1>8. CASE RestartCount
  <2>1. 1 \in 0 .. MinuteRange - 1
    OBVIOUS
  <2> QED BY <1>8, <2>1 DEF RestartCount, TypeOK
<1> QED
  BY <1>1, <1>2, <1>3, <1>4, <1>5, <1>6, <1>7, <1>8 DEF UploadTask, Report

LEMMA TypePreserved == TypeOK /\ [Next]_vars => TypeOK'
<1> SUFFICES ASSUME TypeOK, [Next]_vars PROVE TypeOK'
  OBVIOUS
<1>1. CASE PowerChanges
  <2>1. pin' \in {0, 1} /\ changes' \in 0 .. MaxChanges
    BY <1>1 DEF PowerChanges, TypeOK
  <2> QED BY <1>1, <2>1 DEF PowerChanges, TypeOK, fram_vars, upload_vars, history
<1>2. CASE UNCHANGED vars
  BY <1>2 DEF vars, TypeOK, fram_vars, upload_vars, history
<1> QED BY <1>1, <1>2, TypeFramTask, TypeUploadTask DEF Next

(***************************************************************************)
(* minute_count stays within its byte and the status struct and its copies *)
(* hold what the tasks count.                                              *)
(***************************************************************************)
THEOREM TypeCorrect == Spec => []TypeOK
BY TypeInitially, TypePreserved, PTL DEF Spec
-------------------------------------------------------------------------------
(***************************************************************************)
(* Why nothing is lost but what is counted while a report is published:    *)
(* until then the copy that is published covers the status struct, and     *)
(* once the broker has it what was reported does.                          *)
(***************************************************************************)
Covered ==
  /\ upload_pc = "publish" =>
       /\ dev_status.errors \subseteq status_message.errors \cup late
       /\ peak <= Highest(status_message.high_water_mark, reported.high_water_mark)
  /\ upload_pc = "reset" =>
       /\ dev_status.errors \subseteq reported.errors \cup late
       /\ peak <= reported.high_water_mark

LossInv == TypeOK /\ Covered /\ LostOnlyWhilePublishing

\* What the inequalities between marks rest on.
LEMMA LevelsTyped ==
  ASSUME TypeOK
  PROVE  /\ dev_status.high_water_mark \in Nat /\ status_message.high_water_mark \in Nat
         /\ reported.high_water_mark \in Nat /\ peak \in Nat
<1>1. {0} \cup FramLevels \subseteq Nat
  OBVIOUS
<1>2. dev_status \in Status /\ status_message \in Status /\ reported \in Reports
  BY DEF TypeOK
<1>3. peak \in {0} \cup FramLevels
  BY DEF TypeOK
<1> QED BY <1>1, <1>2, <1>3, StatusParts, ReportParts

\* A higher mark still bounds what a lower one did, and the new level.
LEMMA HigherStill ==
  ASSUME NEW p \in Nat, NEW a \in Nat, NEW b \in Nat, NEW level \in Nat,
         p <= Highest(a, b)
  PROVE  /\ p <= Highest(Highest(a, level), b)
         /\ Highest(p, level) <= Highest(Highest(a, level), b)
BY DEF Highest

loss_vars == <<dev_status, status_message, reported, occurred, late, peak, upload_pc>>

LEMMA LossUnchanged ==
  Covered /\ LostOnlyWhilePublishing /\ UNCHANGED loss_vars
    => Covered' /\ LostOnlyWhilePublishing'
<1> SUFFICES ASSUME Covered, LostOnlyWhilePublishing, UNCHANGED loss_vars
             PROVE  Covered' /\ LostOnlyWhilePublishing'
  OBVIOUS
<1>1. /\ dev_status' = dev_status /\ status_message' = status_message
      /\ reported' = reported /\ occurred' = occurred /\ late' = late
      /\ peak' = peak /\ upload_pc' = upload_pc
  BY DEF loss_vars
<1>2. Covered'
  BY <1>1 DEF Covered
<1>3. LostOnlyWhilePublishing'
  BY <1>1 DEF LostOnlyWhilePublishing
<1> QED BY <1>2, <1>3

\* A counter that is incremented while a report is published is late.
LEMMA LossIncrement ==
  ASSUME LossInv, NEW e, status_increment(e),
         UNCHANGED <<status_message, reported, peak, upload_pc>>
  PROVE  Covered' /\ LostOnlyWhilePublishing'
<1>1. /\ dev_status'.errors = dev_status.errors \cup {e}
      /\ dev_status'.high_water_mark = dev_status.high_water_mark
  BY DEF status_increment, LossInv, TypeOK, Status
<1>2. /\ occurred' = occurred \cup {e}
      /\ late \subseteq late'
      /\ upload_pc \in {"publish", "reset"} => e \in late'
  BY DEF status_increment, Publishing
<1> QED BY <1>1, <1>2 DEF LossInv, Covered, LostOnlyWhilePublishing

LEMMA LossLevel ==
  ASSUME LossInv, NEW level \in FramLevels, status_framHighWaterMark(level),
         UNCHANGED <<status_message, reported, upload_pc>>
  PROVE  Covered' /\ LostOnlyWhilePublishing'
<1>1. /\ dev_status'.errors = dev_status.errors
      /\ dev_status'.high_water_mark = Highest(dev_status.high_water_mark, level)
  BY DEF status_framHighWaterMark, LossInv, TypeOK, Status
<1>2. LET mark == Highest(Highest(dev_status.high_water_mark, level), reported.high_water_mark)
      IN peak <= mark /\ Highest(peak, level) <= mark
  <2>1. /\ level \in Nat /\ TypeOK
        /\ peak <= Highest(dev_status.high_water_mark, reported.high_water_mark)
    BY DEF LossInv, LostOnlyWhilePublishing
  <2> QED BY <2>1, LevelsTyped, HigherStill
<1>3. CASE upload_pc \in {"publish", "reset"}
  <2>1. peak' = peak
    BY <1>3 DEF status_framHighWaterMark, Publishing
  <2>2. peak <= Highest(Highest(dev_status.high_water_mark, level), reported.high_water_mark)
    BY <1>2
  <2>3. UNCHANGED <<status_message, reported, upload_pc, occurred, late, peak>>
    BY <2>1 DEF status_framHighWaterMark
  <2>4. LostOnlyWhilePublishing'
    BY <1>1, <2>2, <2>3 DEF LossInv, LostOnlyWhilePublishing
  <2>5. Covered'
    BY <1>1, <2>3 DEF LossInv, Covered
  <2> QED BY <2>4, <2>5
<1>4. CASE upload_pc \notin {"publish", "reset"}
  <2>1. peak' = Highest(peak, level)
    BY <1>4 DEF status_framHighWaterMark, Publishing
  <2>2. Highest(peak, level)
          <= Highest(Highest(dev_status.high_water_mark, level), reported.high_water_mark)
    BY <1>2
  <2> QED BY <1>1, <1>4, <2>1, <2>2 DEF status_framHighWaterMark, LossInv, Covered,
                                        LostOnlyWhilePublishing
<1> QED BY <1>3, <1>4

LEMMA LossFramTask ==
  ASSUME LossInv, FramTask
  PROVE  Covered' /\ LostOnlyWhilePublishing'
<1>1. CASE mains_flag_evaluation \/ ReceiveTimeout \/ CountMinute
  BY <1>1, LossUnchanged DEF mains_flag_evaluation, ReceiveTimeout, CountMinute,
                             upload_vars, history, loss_vars, LossInv
<1>2. CASE ReceiveRecord
  BY <1>2, LossLevel DEF ReceiveRecord, RecordStored, upload_vars
<1>3. CASE RecordFails
  BY <1>3, LossIncrement DEF RecordFails, RecordStored, upload_vars
<1> QED BY <1>1, <1>2, <1>3 DEF FramTask

LEMMA LossUploadTask ==
  ASSUME LossInv, UploadTask
  PROVE  Covered' /\ LostOnlyWhilePublishing'
<1>1. CASE CountUpload
  BY <1>1, LossIncrement DEF CountUpload, upload_vars
<1>2. CASE status_setRssiLowWaterMark \/ status_evaluatePower
  <2>1. /\ dev_status'.errors = dev_status.errors
        /\ dev_status'.high_water_mark = dev_status.high_water_mark
    BY <1>2 DEF status_setRssiLowWaterMark, status_evaluatePower, LossInv, TypeOK, Status
  <2>2. /\ UNCHANGED <<status_message, reported, occurred, late, peak>>
        /\ upload_pc' \notin {"publish", "reset"}
    BY <1>2 DEF status_setRssiLowWaterMark, status_evaluatePower, upload_vars, history
  <2> QED BY <2>1, <2>2 DEF LossInv, Covered, LostOnlyWhilePublishing
<1>3. CASE CheckHour \/ RestartCount
  <2>1. /\ UNCHANGED <<dev_status, status_message, reported, occurred, late, peak>>
        /\ upload_pc' \notin {"publish", "reset"}
    BY <1>3 DEF CheckHour, RestartCount
  <2> QED BY <2>1 DEF LossInv, Covered, LostOnlyWhilePublishing
<1>4. CASE get_status_message_json
  BY <1>4 DEF get_status_message_json, history, LossInv, Covered, LostOnlyWhilePublishing
<1>5. CASE PublishStatus(TRUE)
  <2>1. /\ reported'.errors = reported.errors \cup status_message.errors
        /\ reported'.high_water_mark
             = Highest(reported.high_water_mark, status_message.high_water_mark)
        /\ upload_pc = "publish" /\ upload_pc' = "reset"
        /\ UNCHANGED <<dev_status, occurred, late, peak>>
    BY <1>5 DEF PublishStatus, step_after_publish, history
  <2>2. /\ peak <= Highest(status_message.high_water_mark, reported.high_water_mark)
        /\ peak <= Highest(dev_status.high_water_mark, reported.high_water_mark)
    BY <2>1 DEF LossInv, Covered, LostOnlyWhilePublishing
  <2>3. LET r == Highest(reported.high_water_mark, status_message.high_water_mark)
        IN peak <= r /\ peak <= Highest(dev_status.high_water_mark, r)
    BY <2>2, LevelsTyped DEF Highest, LossInv
  <2> QED BY <2>1, <2>3 DEF LossInv, Covered, LostOnlyWhilePublishing
<1>6. CASE PublishStatus(FALSE)
  <2>1. /\ UNCHANGED <<dev_status, status_message, reported, occurred, late, peak>>
        /\ upload_pc' = "check"
    BY <1>6 DEF PublishStatus, step_after_publish, history
  <2> QED BY <2>1 DEF LossInv, Covered, LostOnlyWhilePublishing
<1>7. CASE status_resetStruct
  <2>1. /\ dev_status'.errors = {} /\ dev_status'.high_water_mark = 0
        /\ upload_pc = "reset" /\ upload_pc' = "restart_count"
        /\ UNCHANGED <<reported, occurred, late, peak>>
    BY <1>7 DEF status_resetStruct, history, LossInv, TypeOK, Status
  <2>2. peak <= Highest(0, reported.high_water_mark)
    BY <2>1, LevelsTyped DEF LossInv, Covered, Highest
  <2> QED BY <2>1, <2>2 DEF LossInv, Covered, LostOnlyWhilePublishing
<1> QED BY <1>1, <1>2, <1>3, <1>4, <1>5, <1>6, <1>7 DEF UploadTask, Report

(***************************************************************************)
(* An error that was counted, and the highest number of stored messages,   *)
(* come with a report unless they were counted between its copy and the    *)
(* reset, for any number of failed publishes (upload_task.c:455, 469).     *)
(***************************************************************************)
THEOREM NothingElseIsLost == Spec => []LostOnlyWhilePublishing
<1>1. Init => LossInv
  <2> SUFFICES ASSUME Init PROVE LossInv
    OBVIOUS
  <2>1. occurred = {} /\ peak = 0 /\ upload_pc = "check"
    BY DEF Init
  <2>2. LostOnlyWhilePublishing
    BY <2>1, TypeInitially, LevelsTyped DEF LostOnlyWhilePublishing, Highest
  <2> QED BY <2>1, <2>2, TypeInitially DEF LossInv, Covered
<1>2. LossInv /\ [Next]_vars => LossInv'
  <2> SUFFICES ASSUME LossInv, [Next]_vars PROVE LossInv'
    OBVIOUS
  <2>1. TypeOK'
    BY TypePreserved DEF LossInv
  <2>2. CASE PowerChanges \/ UNCHANGED vars
    BY <2>1, <2>2, LossUnchanged DEF PowerChanges, vars, upload_vars, history, loss_vars,
                                     LossInv
  <2>3. CASE FramTask \/ UploadTask
    BY <2>1, <2>3, LossFramTask, LossUploadTask DEF LossInv
  <2> QED BY <2>2, <2>3 DEF Next
<1>3. LossInv => LostOnlyWhilePublishing
  BY DEF LossInv
<1> QED BY <1>1, <1>2, <1>3, PTL DEF Spec
-------------------------------------------------------------------------------
(***************************************************************************)
(* Why a report is tried within the hour.  Either one was tried since the  *)
(* upload task's last test (Recent), and then only the loop's lag counts.  *)
(* Or minute_count is behind the minutes without a try by no more than the *)
(* lag of an earlier turn, which an overflow of it may cost, and it is too *)
(* close to the hour to overflow before the next test (Counting); and so   *)
(* is what the FRAM task has loaded of it.  If what it has loaded is stale *)
(* it is the restart of the count after a try that made it so (Stale).     *)
(***************************************************************************)
Slack == MaxLag + 1
InHand == IF fram_pc = "count" THEN 1 ELSE 0   \* a minute between load and store

Recent == quiet + InHand <= lag + 1

Keeps(m) == m <= C => quiet <= m + Slack

Counting ==
  /\ quiet + InHand <= C + Slack + lag + 1
  /\ minute_count + InHand <= C + lag + 1 /\ Keeps(minute_count)
  /\ fram_pc = "count" => loaded + 1 <= C + lag + 1 /\ Keeps(loaded)

Stale == fram_pc = "count" => loaded = minute_count \/ quiet = 0

HourInv == TypeOK /\ Stale /\ (Recent \/ Counting)

\* What the inequalities rest on.
LEMMA MinutesTyped ==
  ASSUME TypeOK
  PROVE  /\ quiet \in Nat /\ lag \in 0 .. MaxLag /\ lag \in Nat
         /\ minute_count \in Nat /\ loaded \in Nat
         /\ minute_count < MinuteRange
         /\ C \in Nat \ {0} /\ Slack \in Nat /\ InHand \in {0, 1}
         /\ lag <= MaxLag /\ MaxLag \in Nat
BY DEF TypeOK, C, Slack, InHand

hour_vars == <<quiet, lag, minute_count, loaded, fram_pc>>

LEMMA HourUnchanged ==
  ASSUME Stale, Recent \/ Counting, UNCHANGED hour_vars
  PROVE  Stale' /\ (Recent \/ Counting)'
<1>1. /\ quiet' = quiet /\ lag' = lag /\ minute_count' = minute_count
      /\ loaded' = loaded /\ fram_pc' = fram_pc
  BY DEF hour_vars
<1> QED BY <1>1 DEF Stale, Recent, Counting, Keeps, InHand

LEMMA HourReceives ==
  ASSUME HourInv, RecordStored, UNCHANGED quiet
  PROVE  Stale' /\ (Recent \/ Counting)'
<1>1. /\ fram_pc = "receive" /\ fram_pc' = "count" /\ loaded' = minute_count
      /\ lag' = lag + 1 /\ minute_count' = minute_count /\ quiet' = quiet
  BY DEF RecordStored
<1>2. TypeOK
  BY DEF HourInv
<1>3. CASE Recent
  BY <1>1, <1>2, <1>3, MinutesTyped DEF Recent, Stale, InHand
<1>4. CASE Counting
  BY <1>1, <1>2, <1>4, MinutesTyped DEF Counting, Keeps, Stale, InHand
<1> QED BY <1>3, <1>4 DEF HourInv

LEMMA HourCounts ==
  ASSUME HourInv, CountMinute
  PROVE  Stale' /\ (Recent \/ Counting)'
<1>1. /\ fram_pc = "count" /\ fram_pc' = "evaluate" /\ lag' = lag
      /\ minute_count' = (loaded + 1) % MinuteRange
  BY DEF CountMinute, minute_after
<1>2. TypeOK
  BY DEF HourInv
<1>3. quiet' \in Nat /\ quiet' <= quiet + 1
  BY <1>2, MinutesTyped DEF CountMinute, Count
<1>4. CASE Recent
  BY <1>1, <1>2, <1>3, <1>4, MinutesTyped DEF Recent, Stale, InHand
<1>5. CASE Counting
  <2>1. loaded + 1 <= C + lag + 1 /\ loaded + 1 < MinuteRange
    BY <1>1, <1>2, <1>5, MinutesTyped DEF Counting, C
  <2>2. minute_count' = loaded + 1
    BY <1>1, <1>2, <2>1, MinutesTyped
  <2> QED BY <1>1, <1>2, <1>3, <1>5, <2>1, <2>2, MinutesTyped
          DEF Counting, Keeps, Stale, InHand
<1> QED BY <1>4, <1>5 DEF HourInv

LEMMA HourTested ==
  ASSUME HourInv, CheckHour
  PROVE  Stale' /\ (Recent \/ Counting)'
<1>1. /\ lag' = 0 /\ minute_count' = minute_count
      /\ loaded' = loaded /\ fram_pc' = fram_pc
  BY DEF CheckHour, fram_vars
<1>2. TypeOK
  BY DEF HourInv
<1>3. CASE quiet' = 0
  BY <1>1, <1>2, <1>3, MinutesTyped DEF Recent, Stale, InHand
<1>4. CASE quiet' # 0
  <2>1. minute_count <= C /\ quiet' = quiet /\ quiet # 0
    BY <1>2, <1>4, MinutesTyped DEF CheckHour, hour_passed, C
  <2>2. fram_pc = "count" => loaded = minute_count
    BY <2>1 DEF HourInv, Stale
  <2>3. quiet <= minute_count + Slack
    <3>1. CASE Recent
      BY <1>2, <3>1, MinutesTyped DEF Recent, Slack
    <3>2. CASE Counting
      BY <2>1, <3>2 DEF Counting, Keeps
    <3> QED BY <3>1, <3>2 DEF HourInv
  <2> QED BY <1>1, <1>2, <2>1, <2>2, <2>3, MinutesTyped
          DEF Counting, Keeps, Stale, InHand
<1> QED BY <1>3, <1>4

\* The forced report and the restart of the count.
LEMMA HourSet ==
  ASSUME HourInv, mains_flag_evaluation \/ RestartCount
  PROVE  Stale' /\ (Recent \/ Counting)'
<1>1. TypeOK
  BY DEF HourInv
<1>2. CASE RestartCount
  <2>1. quiet' = 0 /\ lag' = lag /\ fram_pc' = fram_pc
    BY <1>2 DEF RestartCount, fram_vars
  <2> QED BY <1>1, <2>1, MinutesTyped DEF Recent, Stale, InHand
<1>3. CASE mains_flag_evaluation
  <2>1. /\ quiet' = quiet /\ lag' = lag
        /\ fram_pc = "evaluate" /\ fram_pc' = "receive"
        /\ minute_count' = minute_count \/ minute_count' = C + 1
    BY <1>3 DEF mains_flag_evaluation, history, forced_count, C
  <2>2. CASE Recent
    BY <1>1, <2>1, <2>2, MinutesTyped DEF Recent, Stale, InHand
  <2>3. CASE Counting
    BY <1>1, <2>1, <2>3, MinutesTyped DEF Counting, Keeps, Stale, InHand
  <2> QED BY <2>2, <2>3 DEF HourInv
<1> QED BY <1>2, <1>3

(***************************************************************************)
(* A report is tried within the hour and the lag of two turns, whatever    *)
(* the race on minute_count and its overflow do to it (fram_task.c:86,     *)
(* upload_task.c:440, 472), if the byte has room for an hour and one lag.  *)
(***************************************************************************)
THEOREM ReportIsTriedInTime == Spec => []TriedWithinAnHour
<1>1. Init => HourInv
  BY TypeInitially, MinutesTyped DEF Init, HourInv, Stale, Recent, InHand
<1>2. HourInv /\ [Next]_vars => HourInv'
  <2> SUFFICES ASSUME HourInv, [Next]_vars PROVE HourInv'
    OBVIOUS
  <2>1. TypeOK'
    BY TypePreserved DEF HourInv
  <2>2. CASE PowerChanges \/ ReceiveTimeout \/ UNCHANGED vars
    <3>1. CASE ReceiveTimeout
      BY <2>1, <3>1 DEF ReceiveTimeout, history, HourInv, Stale, Recent, Counting, Keeps,
                        InHand
    <3>2. CASE PowerChanges \/ UNCHANGED vars
      BY <2>1, <3>2, HourUnchanged DEF PowerChanges, vars, fram_vars, history,
                                       hour_vars, HourInv
    <3> QED BY <2>2, <3>1, <3>2
  <2>3. CASE ReceiveRecord \/ RecordFails
    <3>1. RecordStored /\ UNCHANGED quiet
      BY <2>3 DEF ReceiveRecord, RecordFails, RecordStored
    <3> QED BY <2>1, <3>1, HourReceives DEF HourInv
  <2>4. CASE CountMinute \/ CheckHour \/ mains_flag_evaluation \/ RestartCount
    BY <2>1, <2>4, HourCounts, HourTested, HourSet DEF HourInv
  <2>5. CASE \/ CountUpload \/ status_setRssiLowWaterMark \/ status_evaluatePower
             \/ get_status_message_json \/ status_resetStruct
             \/ \E success \in BOOLEAN : PublishStatus(success)
    <3>1. UNCHANGED hour_vars
      BY <2>5 DEF CountUpload, status_setRssiLowWaterMark, status_evaluatePower,
                  get_status_message_json, status_resetStruct, PublishStatus, fram_vars,
                  history, hour_vars
    <3> QED BY <2>1, <3>1, HourUnchanged DEF HourInv
  <2> QED BY <2>2, <2>3, <2>4, <2>5 DEF Next, FramTask, UploadTask, Report
<1>3. HourInv => TriedWithinAnHour
  <2> SUFFICES ASSUME HourInv PROVE quiet <= C + 2 * (MaxLag + 1)
    BY DEF TriedWithinAnHour, QuietBound, C
  <2>1. TypeOK
    BY DEF HourInv
  <2> QED BY <2>1, MinutesTyped DEF HourInv, Recent, Counting, Slack
<1> QED BY <1>1, <1>2, <1>3, PTL DEF Spec
===============================================================================
