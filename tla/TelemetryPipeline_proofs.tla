------------------------ MODULE TelemetryPipeline_proofs ------------------------
(***************************************************************************)
(* Proofs about TelemetryPipeline, for every set of values, every size of  *)
(* the FRAM and of the queue, and every number of alarms, power cuts,      *)
(* restarts and glitches (OldestIsUploaded and NothingSkipped: without     *)
(* glitches).                                                              *)
(***************************************************************************)
EXTENDS TelemetryPipeline, FoldLemmas, SequenceTheorems, TLAPS

USE ValueAssumption, SizeAssumption, BudgetAssumption

\* What the invariants need to know of sequences.
LEMMA HeadTail ==
  ASSUME NEW S, NEW q \in Seq(S), q # <<>>
  PROVE  /\ Head(q) \in S
         /\ Tail(q) \in Seq(S)
         /\ Len(q) \in Nat /\ Len(Tail(q)) = Len(q) - 1
         /\ \A i \in DOMAIN Tail(q) : i + 1 \in DOMAIN q /\ Tail(q)[i] = q[i + 1]
         /\ 1 \in DOMAIN q /\ Head(q) = q[1]
  BY HeadTailProperties, LenProperties, EmptySeq

LEMMA Appended ==
  ASSUME NEW S, NEW q \in Seq(S), NEW t \in S
  PROVE  /\ Append(q, t) \in Seq(S)
         /\ Len(q) \in Nat /\ Len(Append(q, t)) = Len(q) + 1
         /\ \A i \in DOMAIN Append(q, t) :
              \/ i \in DOMAIN q /\ Append(q, t)[i] = q[i]
              \/ Append(q, t)[i] = t
         /\ \A i \in DOMAIN q : i \in DOMAIN Append(q, t) /\ Append(q, t)[i] = q[i]
         /\ Len(q) + 1 \in DOMAIN Append(q, t) /\ Append(q, t)[Len(q) + 1] = t
  BY AppendProperties, LenProperties

LEMMA ZeroInvalid == ~valid(0)
  BY DEF valid, unix_time

\* A value is in a history once it was added to it, and stays there.
Occurs(t, h) == \E i \in DOMAIN h : h[i] = t

LEMMA ExtendedFacts ==
  ASSUME NEW S, NEW h \in Seq(S), NEW t \in S
  PROVE  /\ Extended(h, t) \in Seq(S)
         /\ Occurs(t, Extended(h, t))
         /\ \A u : Occurs(u, h) => Occurs(u, Extended(h, t))
<1>1. CASE h # <<>> /\ h[Len(h)] = t
  <2>1. Len(h) \in DOMAIN h
    BY <1>1, EmptySeq, LenProperties
  <2> QED BY <1>1, <2>1 DEF Extended, Occurs
<1>2. CASE ~(h # <<>> /\ h[Len(h)] = t)
  BY <1>2, Appended DEF Extended, Occurs
<1> QED BY <1>1, <1>2
-------------------------------------------------------------------------------
\* Every call of fram.c keeps the store a sequence of values.
LEMMA WriteTyped ==
  ASSUME FramTypeOK, NEW t \in Telemetry, Fram!Write(t)
  PROVE  FramTypeOK'
<1> USE DEF FramTypeOK, Fram!Returned
<1>1. Append(fram, t) \in Seq(Telemetry)
  BY Appended
<1>2. fram' \in Seq(Telemetry)
  BY <1>1 DEF Fram!Write
<1>3. fram_ret' \in {[op |-> "write", arg |-> t, val |-> 1],
                     [op |-> "write", arg |-> t, val |-> 0]}
  BY DEF Fram!Write
<1> QED BY <1>2, <1>3

LEMMA ResetTyped ==
  ASSUME FramTypeOK, Fram!Reset
  PROVE  FramTypeOK'
  BY EmptySeq DEF FramTypeOK, Fram!Reset, Fram!Returned

LEMMA SpendTyped ==
  ASSUME budget \in [Events -> Nat], NEW e \in Events, Spend(e)
  PROVE  budget' \in [Events -> Nat]
  BY DEF Spend

LEMMA ReadTyped ==
  ASSUME FramTypeOK, budget \in [Events -> Nat], read_telemetry
  PROVE  /\ FramTypeOK' /\ budget' \in [Events -> Nat]
         /\ fram_ret'.val \in Telemetry
<1> USE DEF FramTypeOK, Fram!Returned
<1>1. (IF fram = <<>> THEN 0 ELSE Head(fram)) \in Telemetry
  BY HeadTail
<1>2. fram' = fram /\ \E t \in Telemetry : fram_ret' = [op |-> "read", arg |-> 0, val |-> t]
  BY <1>1 DEF read_telemetry, Fram!Read
<1>3. budget' \in [Events -> Nat]
  BY SpendTyped DEF read_telemetry, Events
<1> QED BY <1>2, <1>3

LEMMA DeleteTyped ==
  ASSUME FramTypeOK, budget \in [Events -> Nat],
         NEW d \in Telemetry, delete_last_read_telemetry(d)
  PROVE  /\ FramTypeOK' /\ budget' \in [Events -> Nat]
         /\ fram_ret'.arg = d
<1> USE DEF FramTypeOK, Fram!Returned
<1>1. fram' = fram \/ (fram # <<>> /\ fram' = Tail(fram))
  BY DEF delete_last_read_telemetry, Fram!Delete, Fram!IsOldest
<1>2. fram' \in Seq(Telemetry)
  <2>1. fram # <<>> => Tail(fram) \in Seq(Telemetry)
    BY HeadTail
  <2> QED BY <1>1, <2>1
<1>3. fram_ret' \in {[op |-> "delete", arg |-> d, val |-> 1],
                     [op |-> "delete", arg |-> d, val |-> 0]}
  BY DEF delete_last_read_telemetry, Fram!Delete
<1>4. budget' \in [Events -> Nat]
  BY SpendTyped DEF delete_last_read_telemetry, Events
<1> QED BY <1>1, <1>2, <1>3, <1>4
-------------------------------------------------------------------------------
LEMMA InitTypeOK == Init => TypeOK
<1> SUFFICES ASSUME Init PROVE TypeOK
  OBVIOUS
<1>1. <<>> \in Seq(Telemetry) /\ Len(<<>>) = 0
  BY EmptySeq
<1>2. FramTypeOK
  BY <1>1 DEF Init, Fram!Init, FramTypeOK
<1>3. FramTaskTypeOK /\ QueuesTypeOK
  BY <1>1 DEF Init, FramTaskTypeOK, QueuesTypeOK
<1>4. UploadTypeOK
  <2>1. upload_error_count \in Nat
    BY DEF Init
  <2>2. need_to_upload_flag \in BOOLEAN
    BY DEF Init
  <2> QED BY <2>1, <2>2 DEF Init, UploadTypeOK
<1>5. HistoryTypeOK
  BY <1>1 DEF Init, HistoryTypeOK
<1> QED BY <1>2, <1>3, <1>4, <1>5 DEF Init, TypeOK

LEMMA RestartTyped ==
  ASSUME TypeOK, Restart, budget' \in [Events -> Nat]
  PROVE  TypeOK'
<1>1. <<>> \in Seq(Telemetry) /\ Len(<<>>) = 0
  BY EmptySeq
<1>2. FramTypeOK'
  BY DEF TypeOK, Restart, FramTypeOK, fram_vars
<1>3. FramTaskTypeOK' /\ QueuesTypeOK'
  BY <1>1 DEF Restart, FramTaskTypeOK, QueuesTypeOK
<1>4. UploadTypeOK'
  <2>1. upload_error_count' \in Nat
    BY DEF Restart
  <2>2. need_to_upload_flag' \in BOOLEAN
    BY DEF Restart
  <2> QED BY <2>1, <2>2 DEF Restart, UploadTypeOK
<1>5. HistoryTypeOK'
  BY DEF TypeOK, Restart, HistoryTypeOK, history
<1> QED BY <1>2, <1>3, <1>4, <1>5 DEF Restart, TypeOK

LEMMA FramTaskTyped ==
  ASSUME TypeOK, FramTask
  PROVE  TypeOK'
<1> USE DEF fram_vars, upload_vars, mqtt_vars, history,
            TypeOK, FramTaskTypeOK, QueuesTypeOK, UploadTypeOK, HistoryTypeOK
<1>1. CASE StoreRecord
  <2>1. CASE fram_store_queue # <<>>
    <3> DEFINE t == Head(fram_store_queue)
    <3>1. /\ t \in Telemetry
          /\ Tail(fram_store_queue) \in Seq(Telemetry)
          /\ Len(Tail(fram_store_queue)) <= StoreQueueLength
      BY <2>1, HeadTail
    <3>2. /\ fram_store_queue' = Tail(fram_store_queue)
          /\ Fram!Write(t)
          /\ stored' = stored \/ stored' = Extended(stored, t)
          /\ fram_pc' = "clear_alarm"
          /\ released' = released
      BY <1>1, <2>1 DEF StoreRecord, ExtendedIfValid, step_after_wait
    <3>3. FramTypeOK'
      BY <3>1, <3>2, WriteTyped
    <3>4. Extended(stored, t) \in Seq(Telemetry)
      BY <3>1, ExtendedFacts
    <3>5. stored' \in Seq(Telemetry)
      BY <3>2, <3>4
    <3> QED BY <1>1, <3>1, <3>2, <3>3, <3>5 DEF StoreRecord
  <2>2. CASE fram_store_queue = <<>>
    BY <1>1, <2>2 DEF StoreRecord, step_after_wait, FramTypeOK
  <2> QED BY <2>1, <2>2
<1>2. CASE rtc_clear_alarm
  BY <1>2 DEF rtc_clear_alarm, FramTypeOK
<1>3. CASE CheckRestart
  BY <1>3 DEF CheckRestart, FramTypeOK
<1>4. CASE ReceiveAck
  <2>1. FramTypeOK' /\ budget' \in [Events -> Nat]
    BY <1>4, HeadTail, DeleteTyped DEF ReceiveAck, FramTypeOK
  <2>2. ack_queue' \in Seq(Telemetry) /\ Len(ack_queue') <= 1
    BY <1>4, HeadTail DEF ReceiveAck
  <2> QED BY <1>4, <2>1, <2>2 DEF ReceiveAck
<1>5. CASE ReadOldest
  BY <1>5, ReadTyped DEF ReadOldest
<1>6. CASE OfferOldest
  <2>1. upload_queue' \in Seq(Telemetry) /\ Len(upload_queue') <= 1
    BY <1>6, Appended DEF OfferOldest, HasSpace
  <2> QED BY <1>6, <2>1 DEF OfferOldest, FramTypeOK
<1>7. CASE DeleteInvalid
  BY <1>7, DeleteTyped DEF DeleteInvalid
<1>8. CASE ResetIfNotDeleted
  <2>1. FramTypeOK'
    BY <1>8, ResetTyped DEF ResetIfNotDeleted, FramTypeOK
  <2> QED BY <1>8, <2>1 DEF ResetIfNotDeleted
<1>9. CASE esp_restart
  BY <1>9, RestartTyped DEF esp_restart
<1> QED BY <1>1, <1>2, <1>3, <1>4, <1>5, <1>6, <1>7, <1>8, <1>9 DEF FramTask

LEMMA UploadTaskTyped ==
  ASSUME TypeOK, UploadTask
  PROVE  TypeOK'
<1> USE DEF fram_vars, upload_vars, mqtt_vars, history,
            TypeOK, FramTypeOK, FramTaskTypeOK, QueuesTypeOK, UploadTypeOK,
            HistoryTypeOK
<1>1. CASE ReceiveTelemetry
  <2>1. CASE need_to_upload_flag \/ upload_queue = <<>>
    BY <1>1, <2>1 DEF ReceiveTelemetry
  <2>2. CASE ~need_to_upload_flag /\ upload_queue # <<>>
    <3>1. /\ Head(upload_queue) \in Telemetry
          /\ Tail(upload_queue) \in Seq(Telemetry)
          /\ Len(Tail(upload_queue)) <= 1
      BY <2>2, HeadTail
    <3>2. ack_queue' \in Seq(Telemetry) /\ Len(ack_queue') <= 1
      BY <1>1, <2>2, <3>1, Appended DEF ReceiveTelemetry, HasSpace
    <3>3. /\ upload_queue' = Tail(upload_queue)
          /\ telemetry_to_upload' = Head(upload_queue)
          /\ need_to_upload_flag' \in BOOLEAN
          /\ upload_pc' \in {"wait", "publish"}
      BY <1>1, <2>2 DEF ReceiveTelemetry
    <3> QED BY <1>1, <3>1, <3>2, <3>3 DEF ReceiveTelemetry
  <2> QED BY <2>1, <2>2
<1>2. CASE PublishAccepted
  <2>1. published' \in Seq(Telemetry)
    BY <1>2, ExtendedFacts DEF PublishAccepted
  <2>2. upload_error_count' \in Nat
    BY <1>2 DEF PublishAccepted
  <2> QED BY <1>2, <2>1, <2>2 DEF PublishAccepted
<1>3. CASE PublishFailed
  <2>1. upload_error_count' \in Nat
    BY <1>3 DEF PublishFailed
  <2>2. /\ restart_required_flag' \in BOOLEAN
        /\ upload_pc' \in {"halted", "wait"}
    BY <1>3 DEF PublishFailed
  <2> QED BY <1>3, <2>1, <2>2 DEF PublishFailed
<1>4. CASE SendAck
  <2>1. ack_queue' \in Seq(Telemetry) /\ Len(ack_queue') <= 1
    BY <1>4, Appended DEF SendAck, HasSpace
  <2> QED BY <1>4, <2>1 DEF SendAck
<1>5. CASE Wait
  BY <1>5 DEF Wait
<1>6. CASE ForceRestart
  BY <1>6, RestartTyped DEF ForceRestart
<1> QED BY <1>1, <1>2, <1>3, <1>4, <1>5, <1>6 DEF UploadTask, UploadStep

LEMMA EnvironmentTyped ==
  ASSUME TypeOK, app_main \/ Environment \/ \E t \in Telemetry : Deliver(t)
  PROVE  TypeOK'
<1> USE DEF fram_vars, upload_vars, mqtt_vars, history,
            TypeOK, FramTypeOK, FramTaskTypeOK, QueuesTypeOK, UploadTypeOK,
            HistoryTypeOK
<1>1. CASE app_main
  <2>1. released' \in Nat
    <3>1. Len(fram_store_queue) \in Nat
      BY Appended
    <3>2. released' = Len(fram_store_queue)
      BY <1>1 DEF app_main
    <3> QED BY <3>1, <3>2
  <2> QED BY <1>1, <2>1 DEF app_main
<1>2. ASSUME NEW t \in Telemetry, Deliver(t) PROVE TypeOK'
  BY <1>2 DEF Deliver
<1>3. ASSUME NEW t \in Telemetry, rtc_alarm_isr(t) PROVE TypeOK'
  <2>1. budget' \in [Events -> Nat]
    BY <1>3, SpendTyped DEF rtc_alarm_isr, Events
  <2>2. /\ fram_store_queue' \in Seq(Telemetry)
        /\ Len(fram_store_queue') <= StoreQueueLength
    <3>1. /\ Append(fram_store_queue, t) \in Seq(Telemetry)
          /\ Len(fram_store_queue) \in Nat
          /\ Len(Append(fram_store_queue, t)) = Len(fram_store_queue) + 1
      BY Appended
    <3>2. \/ /\ Len(fram_store_queue) < StoreQueueLength
             /\ fram_store_queue' = Append(fram_store_queue, t)
          \/ fram_store_queue' = fram_store_queue
      BY <1>3, Zenon DEF rtc_alarm_isr
    <3>3. /\ fram_store_queue \in Seq(Telemetry)
          /\ Len(fram_store_queue) <= StoreQueueLength
      OBVIOUS
    <3> QED BY ONLY SizeAssumption, <3>1, <3>2, <3>3
  <2>3. /\ UNCHANGED <<fram, fram_ret, fram_pc, upload_queue, ack_queue, upload_pc>>
        /\ UNCHANGED <<telemetry_to_upload, previously_uploaded_telemetry>>
        /\ UNCHANGED <<need_to_upload_flag, upload_error_count, outbox, broker>>
        /\ UNCHANGED <<stored, published, released, restart_required_flag>>
        /\ alarm_flag' = TRUE
    BY <1>3 DEF rtc_alarm_isr
  <2>4. FramTypeOK' /\ FramTaskTypeOK'
    BY <2>3
  <2>5. QueuesTypeOK'
    BY <2>2, <2>3
  <2>6. UploadTypeOK' /\ HistoryTypeOK'
    BY <2>3
  <2>7. alarm_flag' \in BOOLEAN /\ restart_required_flag' \in BOOLEAN
    BY <2>3
  <2> QED BY ONLY <2>1, <2>4, <2>5, <2>6, <2>7, Zenon DEF TypeOK
<1>4. CASE rtc_set_date_time
  <2>1. budget' \in [Events -> Nat]
    BY <1>4, SpendTyped DEF rtc_set_date_time, Events
  <2>2. released' \in Nat
    BY <1>4 DEF rtc_set_date_time
  <2> QED BY <1>4, <2>1, <2>2, ZenonT(60) DEF rtc_set_date_time
<1>5. CASE RequestRestart
  <2>1. budget' \in [Events -> Nat]
    BY <1>5, SpendTyped DEF RequestRestart, Events
  <2> QED BY <1>5, <2>1 DEF RequestRestart
<1>6. CASE PowerLoss
  BY <1>6, SpendTyped, RestartTyped DEF PowerLoss, Events
<1> QED BY <1>1, <1>2, <1>3, <1>4, <1>5, <1>6 DEF Environment

LEMMA NextTyped == TypeOK /\ [Next]_vars => TypeOK'
<1> SUFFICES ASSUME TypeOK, [Next]_vars PROVE TypeOK'
  OBVIOUS
<1>1. CASE UNCHANGED vars
  BY <1>1 DEF vars, fram_vars, upload_vars, mqtt_vars, history, TypeOK, FramTypeOK,
              FramTaskTypeOK, QueuesTypeOK, UploadTypeOK, HistoryTypeOK
<1> QED BY <1>1, FramTaskTyped, UploadTaskTyped, EnvironmentTyped DEF Next

(***************************************************************************)
(* Type correctness of the pipeline (fram_task.c, upload_task.c): the      *)
(* queues stay within their lengths and hold only telemetry.               *)
(***************************************************************************)
THEOREM TypeCorrect == Spec => []TypeOK
  BY InitTypeOK, NextTyped, PTL DEF Spec
-------------------------------------------------------------------------------
(***************************************************************************)
(* Only what was published is deleted.  The value to delete comes from     *)
(* ack_queue, so it is followed back to where acknowledgements are made:   *)
(* right after a publish, and for an offer equal to the value published    *)
(* last.  That value is 0 before the first publish, so offers must be      *)
(* valid, which 0 is not.                                                  *)
(***************************************************************************)
AckedWerePublished ==
  /\ \A i \in DOMAIN upload_queue : valid(upload_queue[i])
  /\ \A i \in DOMAIN ack_queue : Occurs(ack_queue[i], published)
  /\ upload_pc = "ack" => Occurs(telemetry_to_upload, published)
  /\ \/ previously_uploaded_telemetry = 0
     \/ Occurs(previously_uploaded_telemetry, published)

LEMMA InitAcked == Init => AckedWerePublished
  BY EmptySeq DEF Init, AckedWerePublished

LEMMA RestartAcked == AckedWerePublished /\ Restart => AckedWerePublished'
  BY EmptySeq DEF Restart, AckedWerePublished

LEMMA FramTaskAcked ==
  ASSUME TypeOK, AckedWerePublished, FramTask
  PROVE  AckedWerePublished'
<1> USE DEF fram_vars, upload_vars, mqtt_vars, history, AckedWerePublished
<1>1. CASE StoreRecord \/ rtc_clear_alarm \/ CheckRestart \/ ReadOldest
           \/ DeleteInvalid \/ ResetIfNotDeleted
  BY <1>1 DEF StoreRecord, rtc_clear_alarm, CheckRestart, ReadOldest, DeleteInvalid,
              ResetIfNotDeleted, Occurs
<1>2. CASE ReceiveAck
  <2>1. \A i \in DOMAIN ack_queue' : Occurs(ack_queue'[i], published)
    BY <1>2, HeadTail DEF ReceiveAck, TypeOK, QueuesTypeOK
  <2> QED BY <1>2, <2>1 DEF ReceiveAck, Occurs
<1>3. CASE OfferOldest
  <2>1. \A i \in DOMAIN upload_queue' : valid(upload_queue'[i])
    BY <1>3, Appended DEF OfferOldest, TypeOK, QueuesTypeOK, FramTaskTypeOK
  <2> QED BY <1>3, <2>1 DEF OfferOldest, Occurs
<1>4. CASE esp_restart
  BY <1>4, RestartAcked DEF esp_restart
<1> QED BY <1>1, <1>2, <1>3, <1>4 DEF FramTask

LEMMA UploadTaskAcked ==
  ASSUME TypeOK, AckedWerePublished, UploadTask
  PROVE  AckedWerePublished'
<1> USE DEF fram_vars, upload_vars, mqtt_vars, history, AckedWerePublished
<1>1. CASE ReceiveTelemetry
  <2>1. CASE need_to_upload_flag \/ upload_queue = <<>>
    BY <1>1, <2>1 DEF ReceiveTelemetry, Occurs
  <2>2. CASE ~need_to_upload_flag /\ upload_queue # <<>>
    <3> DEFINE t == Head(upload_queue)
    <3>1. /\ t \in Telemetry
          /\ valid(t)
          /\ \A i \in DOMAIN Tail(upload_queue) : valid(Tail(upload_queue)[i])
      BY <2>2, HeadTail DEF TypeOK, QueuesTypeOK
    <3>2. already_published(t) => Occurs(t, published)
      BY <3>1, ZeroInvalid DEF already_published
    <3>3. /\ upload_queue' = Tail(upload_queue)
          /\ UNCHANGED <<published, previously_uploaded_telemetry>>
          /\ upload_pc' # "ack"
          /\ \/ ack_queue' = ack_queue
             \/ ack_queue' = Append(ack_queue, t) /\ already_published(t)
      BY <1>1, <2>2 DEF ReceiveTelemetry
    <3>4. \A i \in DOMAIN ack_queue' : Occurs(ack_queue'[i], published)
      BY <3>1, <3>2, <3>3, Appended DEF TypeOK, QueuesTypeOK
    <3> QED BY <3>1, <3>3, <3>4 DEF Occurs
  <2> QED BY <2>1, <2>2
<1>2. CASE PublishAccepted
  <2>1. /\ Occurs(telemetry_to_upload, published')
        /\ \A u : Occurs(u, published) => Occurs(u, published')
    BY <1>2, ExtendedFacts DEF PublishAccepted, TypeOK, UploadTypeOK, HistoryTypeOK
  <2> QED BY <1>2, <2>1 DEF PublishAccepted
<1>3. CASE PublishFailed \/ Wait
  BY <1>3 DEF PublishFailed, Wait, Occurs
<1>4. CASE SendAck
  <2>1. \A i \in DOMAIN ack_queue' : Occurs(ack_queue'[i], published)
    BY <1>4, Appended DEF SendAck, TypeOK, QueuesTypeOK, UploadTypeOK
  <2> QED BY <1>4, <2>1 DEF SendAck, Occurs
<1>5. CASE ForceRestart
  BY <1>5, RestartAcked DEF ForceRestart
<1> QED BY <1>1, <1>2, <1>3, <1>4, <1>5 DEF UploadTask, UploadStep

LEMMA NextAcked == TypeOK /\ AckedWerePublished /\ [Next]_vars => AckedWerePublished'
<1> SUFFICES ASSUME TypeOK, AckedWerePublished, [Next]_vars
             PROVE  AckedWerePublished'
  OBVIOUS
<1> USE DEF fram_vars, upload_vars, mqtt_vars, history
<1>1. CASE app_main
  BY <1>1 DEF app_main, AckedWerePublished, Occurs
<1>2. ASSUME NEW t \in Telemetry, Deliver(t) \/ rtc_alarm_isr(t)
      PROVE  AckedWerePublished'
  BY <1>2 DEF Deliver, rtc_alarm_isr, AckedWerePublished, Occurs
<1>3. CASE rtc_set_date_time \/ RequestRestart
  BY <1>3 DEF rtc_set_date_time, RequestRestart, AckedWerePublished, Occurs
<1>4. CASE PowerLoss
  BY <1>4, RestartAcked DEF PowerLoss
<1>5. CASE UNCHANGED vars
  BY <1>5 DEF vars, AckedWerePublished, Occurs
<1> QED BY <1>1, <1>2, <1>3, <1>4, <1>5, FramTaskAcked, UploadTaskAcked
        DEF Next, Environment

\* What one step may delete.
DeletedWasPublished ==
  (fram' # fram /\ fram_ret'.op = "delete") =>
    \/ ~valid(Head(fram))
    \/ Occurs(Head(fram), published)
    \/ fram_ret'.arg # Head(fram)

LEMMA NextDeletes == TypeOK /\ AckedWerePublished /\ [Next]_vars => DeletedWasPublished
<1> SUFFICES ASSUME TypeOK, AckedWerePublished, [Next]_vars, fram' # fram
             PROVE  DeletedWasPublished
  BY DEF DeletedWasPublished
<1> USE DEF fram_vars, upload_vars, mqtt_vars, history
<1>1. StoreRecord \/ ReceiveAck \/ DeleteInvalid \/ ResetIfNotDeleted
  BY DEF Next, vars, FramTask, UploadTask, UploadStep, Environment, app_main, rtc_clear_alarm,
         CheckRestart, ReadOldest, read_telemetry, Fram!Read, OfferOldest,
         esp_restart, ReceiveTelemetry, PublishAccepted, PublishFailed, SendAck,
         Wait, ForceRestart, Deliver, rtc_alarm_isr, rtc_set_date_time,
         RequestRestart, PowerLoss, Restart
<1>2. CASE StoreRecord
  <2> DEFINE t == Head(fram_store_queue)
  <2>1. Fram!Write(t)
    BY <1>2 DEF StoreRecord
  <2>2. \/ fram_ret' = [op |-> "write", arg |-> t, val |-> 1]
        \/ fram_ret' = [op |-> "write", arg |-> t, val |-> 0]
    BY <2>1 DEF Fram!Write, Fram!Returned
  <2>3. fram_ret'.op = "write"
    BY <2>2
  <2> QED BY <2>3 DEF DeletedWasPublished
<1>3. CASE ReceiveAck
  <2>1. ack_queue # <<>> /\ delete_last_read_telemetry(Head(ack_queue))
    BY <1>3 DEF ReceiveAck
  <2>2. fram_ret'.arg = Head(ack_queue)
    BY <2>1, HeadTail, DeleteTyped DEF TypeOK, QueuesTypeOK
  <2>3. Occurs(Head(ack_queue), published)
    BY <2>1, HeadTail DEF AckedWerePublished, TypeOK, QueuesTypeOK
  <2> QED BY <2>2, <2>3 DEF DeletedWasPublished
<1>4. CASE DeleteInvalid
  <2>1. fram_ret'.arg = fram_ret.val
    BY <1>4, DeleteTyped DEF DeleteInvalid, TypeOK, FramTaskTypeOK
  <2> QED BY <1>4, <2>1 DEF DeleteInvalid, DeletedWasPublished
<1>5. CASE ResetIfNotDeleted
  <2>1. fram_ret'.op = "reset"
    BY <1>5 DEF ResetIfNotDeleted, Fram!Reset, Fram!Returned
  <2> QED BY <2>1 DEF DeletedWasPublished
<1> QED BY <1>1, <1>2, <1>3, <1>4, <1>5

(***************************************************************************)
(* A delete that takes the record it names takes an invalid one or one     *)
(* that was published (fram_task.c:98-140), whatever is lost, repeated,    *)
(* late, cut off or misread before.  A misread in the delete itself may    *)
(* make it take a record that it does not name.                            *)
(***************************************************************************)
THEOREM OnlyPublishedDeleted == Spec => DeletedWerePublished
<1>1. DeletedWasPublished =>
        ((fram' # fram /\ fram_ret'.op = "delete") =>
           \/ ~valid(Head(fram))
           \/ \E i \in DOMAIN published : published[i] = Head(fram)
           \/ fram_ret'.arg # Head(fram))
  BY DEF DeletedWasPublished, Occurs
<1> QED BY <1>1, InitTypeOK, NextTyped, InitAcked, NextAcked, NextDeletes, PTL
        DEF Spec, DeletedWerePublished
-------------------------------------------------------------------------------
(***************************************************************************)
(* At most one alarm is outstanding, beside those that lost the line       *)
(* early.  The invariant is inductive: the line is released by the step    *)
(* that ends the record's way to the FRAM, and taken by the step that      *)
(* begins it.                                                              *)
(***************************************************************************)
LEMMA ShortQueue ==
  ASSUME NEW q \in Seq(Telemetry), q # <<>>
  PROVE  Len(q) \in Nat /\ Len(Tail(q)) = Len(q) - 1
  OBVIOUS

LEMMA FramTaskOneAlarm ==
  ASSUME TypeOK, OneAlarmOutstanding, FramTask
  PROVE  OneAlarmOutstanding'
<1> DEFINE waiting == Len(fram_store_queue)
<1>0. waiting \in Nat /\ released \in Nat /\ alarm_flag \in BOOLEAN
  BY Appended DEF TypeOK, QueuesTypeOK, HistoryTypeOK
<1> USE DEF OneAlarmOutstanding, OneIf, history
<1>1. CASE StoreRecord
  <2>1. CASE fram_store_queue # <<>>
    <3>1. /\ fram_store_queue' = Tail(fram_store_queue)
          /\ released' = released
          /\ alarm_flag' = alarm_flag
          /\ fram_pc = "store"
      BY <1>1, <2>1 DEF StoreRecord
    <3>2. Len(fram_store_queue') = waiting - 1
      BY <2>1, <3>1, ShortQueue DEF TypeOK, QueuesTypeOK
    <3>3. /\ released' = released /\ alarm_flag' = alarm_flag
          /\ OneIf(fram_pc = "clear_alarm") = 0
          /\ OneIf(fram_pc = "clear_alarm")' \in {0, 1}
      BY <3>1
    <3>4. waiting <= OneIf(alarm_flag) + released
      BY <1>0, <3>3
    <3>5. OneIf(alarm_flag)' = OneIf(alarm_flag) /\ OneIf(alarm_flag) \in {0, 1}
      BY <3>3
    <3> HIDE DEF OneIf
    <3> QED BY <1>0, <3>2, <3>3, <3>4, <3>5
  <2>2. CASE fram_store_queue = <<>>
    <3>1. /\ fram_store_queue' = <<>> /\ fram_pc' = "restart"
          /\ released' = 0 /\ alarm_flag' = alarm_flag
      BY <1>1, <2>2 DEF StoreRecord, step_after_wait
    <3> QED BY <1>0, <3>1
  <2> QED BY <2>1, <2>2
<1>2. CASE rtc_clear_alarm
  <2>1. /\ fram_pc = "clear_alarm" /\ fram_pc' = "restart"
        /\ alarm_flag' = FALSE
        /\ UNCHANGED <<fram_store_queue, released>>
    BY <1>2 DEF rtc_clear_alarm
  <2> QED BY <1>0, <2>1
<1>3. CASE CheckRestart \/ ReceiveAck \/ ReadOldest \/ OfferOldest
           \/ DeleteInvalid \/ ResetIfNotDeleted
  <2>1. UNCHANGED <<fram_store_queue, released, alarm_flag>>
    BY <1>3 DEF CheckRestart, ReceiveAck, ReadOldest, OfferOldest, DeleteInvalid,
                ResetIfNotDeleted
  <2>2. fram_pc' # "clear_alarm"
    BY <1>3 DEF CheckRestart, ReceiveAck, ReadOldest, OfferOldest, DeleteInvalid,
                ResetIfNotDeleted
  <2> QED BY <1>0, <2>1, <2>2
<1>4. CASE esp_restart
  <2>1. /\ fram_store_queue' = <<>> /\ fram_pc' = "boot"
        /\ released' = 0 /\ alarm_flag' = alarm_flag
    BY <1>4 DEF esp_restart, Restart
  <2> QED BY <1>0, <2>1
<1> QED BY <1>1, <1>2, <1>3, <1>4 DEF FramTask

LEMMA UploadTaskOneAlarm ==
  ASSUME TypeOK, OneAlarmOutstanding, UploadTask
  PROVE  OneAlarmOutstanding'
<1>0. released \in Nat /\ alarm_flag \in BOOLEAN
  BY DEF TypeOK, HistoryTypeOK
<1> USE DEF OneAlarmOutstanding, OneIf, history
<1>1. CASE ForceRestart
  <2>1. /\ fram_store_queue' = <<>> /\ fram_pc' = "boot"
        /\ released' = 0 /\ alarm_flag' = alarm_flag
    BY <1>1 DEF ForceRestart, Restart
  <2> QED BY <1>0, <2>1
<1>2. CASE ReceiveTelemetry \/ PublishAccepted \/ PublishFailed \/ SendAck \/ Wait
  <2>1. UNCHANGED <<fram_store_queue, released, alarm_flag, fram_pc>>
    BY <1>2 DEF ReceiveTelemetry, PublishAccepted, PublishFailed, SendAck, Wait
  <2> QED BY <2>1
<1> QED BY <1>1, <1>2 DEF UploadTask, UploadStep

LEMMA EnvironmentOneAlarm ==
  ASSUME TypeOK, OneAlarmOutstanding,
         app_main \/ Environment \/ \E t \in Telemetry : Deliver(t)
  PROVE  OneAlarmOutstanding'
<1> DEFINE waiting == Len(fram_store_queue)
<1>0. waiting \in Nat /\ released \in Nat /\ alarm_flag \in BOOLEAN
  BY Appended DEF TypeOK, QueuesTypeOK, HistoryTypeOK
<1> USE DEF OneAlarmOutstanding, OneIf, history
<1>1. CASE app_main
  <2>1. /\ UNCHANGED fram_store_queue /\ fram_pc' = "store"
        /\ released' = waiting /\ alarm_flag' = FALSE
    BY <1>1 DEF app_main
  <2> QED BY <1>0, <2>1
<1>2. ASSUME NEW t \in Telemetry, rtc_alarm_isr(t) PROVE OneAlarmOutstanding'
  <2>1. /\ alarm_flag = FALSE /\ alarm_flag' = TRUE
        /\ UNCHANGED <<released, fram_pc>>
    BY <1>0, <1>2 DEF rtc_alarm_isr
  <2>2. \/ fram_store_queue' = Append(fram_store_queue, t)
        \/ fram_store_queue' = fram_store_queue
    BY <1>2, Zenon DEF rtc_alarm_isr
  <2>3. Len(fram_store_queue') \in {waiting, waiting + 1}
    BY <2>2, Appended DEF TypeOK, QueuesTypeOK
  <2> QED BY <1>0, <2>1, <2>3
<1>3. CASE rtc_set_date_time
  <2>1. /\ alarm_flag = TRUE /\ alarm_flag' = FALSE
        /\ released' = released + 1
        /\ UNCHANGED <<fram_store_queue, fram_pc>>
    BY <1>0, <1>3 DEF rtc_set_date_time
  <2> QED BY <1>0, <2>1
<1>4. CASE PowerLoss
  <2>1. /\ fram_store_queue' = <<>> /\ fram_pc' = "boot"
        /\ released' = 0 /\ alarm_flag' = alarm_flag
    BY <1>4 DEF PowerLoss, Restart
  <2> QED BY <1>0, <2>1
<1>5. CASE RequestRestart \/ \E t \in Telemetry : Deliver(t)
  <2>1. UNCHANGED <<fram_store_queue, released, alarm_flag, fram_pc>>
    BY <1>5 DEF RequestRestart, Deliver
  <2> QED BY <2>1
<1> QED BY <1>1, <1>2, <1>3, <1>4, <1>5 DEF Environment

(***************************************************************************)
(* However late the FRAM task is, fram_store_queue holds no more than one  *)
(* record beside those whose alarm lost the line early (gpio.c:53-76,      *)
(* fram_task.c:57-85): for every length of the queue and every schedule.   *)
(***************************************************************************)
THEOREM AlarmsDoNotPileUp == Spec => []OneAlarmOutstanding
<1>1. Init => OneAlarmOutstanding
  <2> SUFFICES ASSUME Init PROVE OneAlarmOutstanding
    OBVIOUS
  <2>1. /\ fram_store_queue = <<>> /\ fram_pc = "boot" /\ released = 0
        /\ alarm_flag \in BOOLEAN
    BY DEF Init
  <2> QED BY <2>1 DEF OneAlarmOutstanding, OneIf
<1>2. TypeOK /\ OneAlarmOutstanding /\ [Next]_vars => OneAlarmOutstanding'
  <2> SUFFICES ASSUME TypeOK, OneAlarmOutstanding, [Next]_vars
               PROVE  OneAlarmOutstanding'
    OBVIOUS
  <2>1. CASE UNCHANGED vars
    <3>1. UNCHANGED <<fram_store_queue, fram_pc, released, alarm_flag>>
      BY <2>1 DEF vars, history
    <3> QED BY <3>1 DEF OneAlarmOutstanding, OneIf
  <2> QED BY <2>1, FramTaskOneAlarm, UploadTaskOneAlarm, EnvironmentOneAlarm
          DEF Next
<1> QED BY <1>1, <1>2, InitTypeOK, NextTyped, PTL DEF Spec
-------------------------------------------------------------------------------
(***************************************************************************)
(* Offers and acknowledgements are matched by value alone, and both may be *)
(* late.  The invariant says what each place may still hold: an offer is   *)
(* the oldest record or the one published last; an acknowledgement is the  *)
(* one published last or an earlier one, which then differs from the       *)
(* oldest record and so deletes nothing.                                   *)
(***************************************************************************)
Oldest(t) == fram # <<>> /\ Head(fram) = t

Glitchless == /\ budget["glitch"] = 0
              /\ fram_pc = "deleted" => fram_ret.val = 1

OfferIsOldest == fram_pc = "offer" /\ fram_ret.val # 0 => Oldest(fram_ret.val)

QueuedIsOldestOrOld ==
  upload_queue # <<>> =>
    \/ Oldest(Head(upload_queue))
    \/ ~need_to_upload_flag /\ Head(upload_queue) = previously_uploaded_telemetry

HeldIsOldest ==
  /\ need_to_upload_flag => /\ Oldest(telemetry_to_upload)
                            /\ telemetry_to_upload # previously_uploaded_telemetry
                            /\ valid(telemetry_to_upload)
  /\ upload_pc = "publish" => need_to_upload_flag
  /\ upload_pc = "ack" => telemetry_to_upload = previously_uploaded_telemetry

AckIsLastOrStale ==
  ack_queue # <<>> =>
    \/ Head(ack_queue) = previously_uploaded_telemetry
    \/ /\ Oldest(previously_uploaded_telemetry)
       /\ valid(previously_uploaded_telemetry)
       /\ Head(ack_queue) # previously_uploaded_telemetry

OldestInv == /\ Glitchless /\ OfferIsOldest /\ QueuedIsOldestOrOld
             /\ HeldIsOldest /\ AckIsLastOrStale

\* A sequence of at most one element.
LEMMA Single ==
  ASSUME NEW q \in Seq(Telemetry), Len(q) <= 1
  PROVE  /\ q # <<>> => Tail(q) = <<>>
         /\ \A t \in Telemetry : HasSpace(q) =>
              q = <<>> /\ Append(q, t) # <<>> /\ Head(Append(q, t)) = t
  BY DEF HasSpace

\* What the FRAM's calls leave of the oldest record.
LEMMA WriteKeepsOldest ==
  ASSUME fram \in Seq(Telemetry), NEW t \in Telemetry, Fram!Write(t), NEW u, Oldest(u)
  PROVE  Oldest(u)'
<1>1. Append(fram, t) # <<>> /\ Head(Append(fram, t)) = Head(fram)
  BY DEF Oldest
<1>2. fram' = fram \/ fram' = Append(fram, t)
  BY DEF Fram!Write
<1> QED BY <1>1, <1>2 DEF Oldest

LEMMA DeleteWithoutGlitch ==
  ASSUME Glitchless, NEW d, delete_last_read_telemetry(d)
  PROVE  /\ budget' = budget
         /\ Oldest(d) => fram_ret'.val = 1
         /\ \A u : Oldest(u) /\ u # d => Oldest(u)'
<1>1. Fram!Delete(d) /\ budget' = budget
  BY DEF delete_last_read_telemetry, Glitchless, Spend
<1>2. CASE Oldest(d)
  <2>1. fram_ret' = [op |-> "delete", arg |-> d, val |-> 1]
    BY <1>1, <1>2 DEF Fram!Delete, Fram!IsOldest, Fram!Returned, Oldest
  <2> QED BY <1>1, <1>2, <2>1 DEF Oldest
<1>3. CASE ~Oldest(d)
  BY <1>1, <1>3 DEF Fram!Delete, Fram!IsOldest, Oldest
<1> QED BY <1>1, <1>2, <1>3

LEMMA ReadWithoutGlitch ==
  ASSUME Glitchless, read_telemetry
  PROVE  /\ budget' = budget /\ fram' = fram
         /\ fram_ret'.val # 0 => Oldest(fram_ret'.val)
<1>1. Fram!Read /\ budget' = budget
  BY DEF read_telemetry, Glitchless, Spend
<1>2. /\ fram' = fram
      /\ fram_ret'.val = IF fram = <<>> THEN 0 ELSE Head(fram)
  BY <1>1 DEF Fram!Read, Fram!Returned
<1> QED BY <1>1, <1>2 DEF Oldest
-------------------------------------------------------------------------------
LEMMA RestartOldest ==
  ASSUME OldestInv, Restart, budget'["glitch"] = budget["glitch"]
  PROVE  OldestInv'
<1>1. Glitchless' /\ OfferIsOldest'
  BY DEF OldestInv, Glitchless, OfferIsOldest, Restart
<1>2. QueuedIsOldestOrOld' /\ AckIsLastOrStale'
  BY DEF QueuedIsOldestOrOld, AckIsLastOrStale, Restart
<1>3. need_to_upload_flag' = FALSE /\ upload_pc' = "boot"
  BY DEF Restart
<1>4. HeldIsOldest'
  BY <1>3 DEF HeldIsOldest
<1> QED BY <1>1, <1>2, <1>4 DEF OldestInv

\* A step that leaves the upload task's side and both queues alone, and keeps
\* the oldest record, disturbs none of the last three parts.
OtherSide == <<upload_queue, ack_queue, upload_pc, telemetry_to_upload,
               previously_uploaded_telemetry, need_to_upload_flag>>

LEMMA OldestKept ==
  ASSUME OldestInv, UNCHANGED OtherSide, \A u : Oldest(u) => Oldest(u)'
  PROVE  QueuedIsOldestOrOld' /\ HeldIsOldest' /\ AckIsLastOrStale'
<1> USE DEF OldestInv, OtherSide
<1>1. QueuedIsOldestOrOld'
  BY DEF QueuedIsOldestOrOld
<1>2. HeldIsOldest'
  BY DEF HeldIsOldest
<1>3. AckIsLastOrStale'
  BY DEF AckIsLastOrStale
<1> QED BY <1>1, <1>2, <1>3

LEMMA FramTaskOldest ==
  ASSUME TypeOK, AckedWerePublished, OldestInv, FramTask
  PROVE  OldestInv'
<1> USE DEF fram_vars, upload_vars, mqtt_vars, history, OtherSide
<1>0. \A u : fram' = fram => (Oldest(u)' <=> Oldest(u))
  BY DEF Oldest
<1>1. CASE StoreRecord
  <2>1. \A u : Oldest(u) => Oldest(u)'
    <3>1. CASE fram_store_queue # <<>>
      <4>1. /\ Head(fram_store_queue) \in Telemetry
            /\ Fram!Write(Head(fram_store_queue))
        BY <1>1, <3>1, HeadTail DEF StoreRecord, TypeOK, QueuesTypeOK
      <4> QED BY <4>1, WriteKeepsOldest DEF TypeOK, FramTypeOK
    <3>2. CASE fram_store_queue = <<>>
      BY <1>0, <1>1, <3>2 DEF StoreRecord
    <3> QED BY <3>1, <3>2
  <2>2. UNCHANGED OtherSide
    BY <1>1 DEF StoreRecord
  <2>3. fram_pc' \in {"clear_alarm", "restart"} /\ budget' = budget
    BY <1>1 DEF StoreRecord, step_after_wait
  <2>4. Glitchless' /\ OfferIsOldest'
    BY <2>3 DEF OldestInv, Glitchless, OfferIsOldest
  <2> QED BY <2>1, <2>2, <2>4, OldestKept DEF OldestInv
<1>2. CASE rtc_clear_alarm \/ CheckRestart
  <2>1. UNCHANGED OtherSide /\ UNCHANGED <<fram, budget>>
    BY <1>2 DEF rtc_clear_alarm, CheckRestart
  <2>2. fram_pc' \in {"restart", "restarting", "ack"}
    BY <1>2 DEF rtc_clear_alarm, CheckRestart
  <2>3. Glitchless' /\ OfferIsOldest'
    BY <2>1, <2>2 DEF OldestInv, Glitchless, OfferIsOldest
  <2> QED BY <1>0, <2>1, <2>3, OldestKept DEF OldestInv
<1>3. CASE ReceiveAck
  <2>1. /\ UNCHANGED <<upload_queue, upload_pc, telemetry_to_upload,
                       previously_uploaded_telemetry, need_to_upload_flag>>
        /\ fram_pc' = "read"
    BY <1>3 DEF ReceiveAck
  <2>2. \/ UNCHANGED <<fram, budget>>
        \/ ack_queue # <<>> /\ delete_last_read_telemetry(Head(ack_queue))
    BY <1>3 DEF ReceiveAck
  <2>3. ack_queue' = <<>>
    BY <1>3, Single DEF ReceiveAck, TypeOK, QueuesTypeOK
  <2>4. budget' = budget
    BY <2>2, DeleteWithoutGlitch DEF OldestInv
  <2>5. \A u : Oldest(u) =>
          \/ Oldest(u)'
          \/ /\ ack_queue # <<>> /\ u = Head(ack_queue)
             /\ u = previously_uploaded_telemetry
    <3>1. \A u : Oldest(u) => Oldest(u)' \/ (ack_queue # <<>> /\ u = Head(ack_queue))
      BY <1>0, <2>2, DeleteWithoutGlitch DEF OldestInv
    <3>2. \A u : Oldest(u) /\ Oldest(previously_uploaded_telemetry)
                   => u = previously_uploaded_telemetry
      BY DEF Oldest
    <3> QED BY <3>1, <3>2 DEF OldestInv, AckIsLastOrStale
  <2>6. HeldIsOldest'
    BY <2>1, <2>5 DEF OldestInv, HeldIsOldest
  <2>7. QueuedIsOldestOrOld'
    <3>1. \A u : Oldest(u) /\ Oldest(telemetry_to_upload) => u = telemetry_to_upload
      BY DEF Oldest
    <3>2. need_to_upload_flag => ~Oldest(previously_uploaded_telemetry)
      BY <3>1 DEF OldestInv, HeldIsOldest
    <3> QED BY <2>1, <2>5, <3>2 DEF OldestInv, QueuedIsOldestOrOld
  <2>8. Glitchless' /\ OfferIsOldest' /\ AckIsLastOrStale'
    BY <2>1, <2>3, <2>4
    DEF OldestInv, Glitchless, OfferIsOldest, AckIsLastOrStale
  <2> QED BY <2>6, <2>7, <2>8 DEF OldestInv
<1>4. CASE ReadOldest
  <2>1. UNCHANGED OtherSide /\ read_telemetry /\ fram_pc' = "offer"
    BY <1>4 DEF ReadOldest
  <2>2. /\ budget' = budget /\ fram' = fram
        /\ fram_ret'.val # 0 => Oldest(fram_ret'.val)
    BY <2>1, ReadWithoutGlitch DEF OldestInv
  <2>3. Glitchless' /\ OfferIsOldest'
    BY <2>1, <2>2 DEF OldestInv, Glitchless, OfferIsOldest, Oldest
  <2> QED BY <1>0, <2>1, <2>2, <2>3, OldestKept DEF OldestInv
<1>5. CASE OfferOldest
  <2>1. /\ UNCHANGED <<fram, budget, ack_queue, upload_pc, telemetry_to_upload,
                       previously_uploaded_telemetry, need_to_upload_flag>>
        /\ fram_pc' = "store"
    BY <1>5 DEF OfferOldest
  <2>2. \/ upload_queue' = upload_queue
        \/ upload_queue' # <<>> /\ Oldest(Head(upload_queue'))
    <3>1. CASE upload_queue' = upload_queue
      BY <3>1
    <3>2. CASE upload_queue' # upload_queue
      <4>1. /\ valid(fram_ret.val) /\ HasSpace(upload_queue)
            /\ upload_queue' = Append(upload_queue, fram_ret.val)
            /\ fram_pc = "offer"
        BY <1>5, <3>2 DEF OfferOldest
      <4>2. fram_ret.val \in Telemetry /\ fram_ret.val # 0
        BY <4>1, ZeroInvalid DEF TypeOK, FramTaskTypeOK
      <4>3. Oldest(fram_ret.val)
        BY <4>1, <4>2 DEF OldestInv, OfferIsOldest
      <4> QED BY <4>1, <4>2, <4>3, Single DEF TypeOK, QueuesTypeOK
    <3> QED BY <3>1, <3>2
  <2>3. QueuedIsOldestOrOld'
    BY <1>0, <2>1, <2>2 DEF OldestInv, QueuedIsOldestOrOld
  <2>4. HeldIsOldest'
    BY <1>0, <2>1 DEF OldestInv, HeldIsOldest
  <2>5. AckIsLastOrStale'
    BY <1>0, <2>1 DEF OldestInv, AckIsLastOrStale
  <2>6. Glitchless' /\ OfferIsOldest'
    BY <2>1 DEF OldestInv, Glitchless, OfferIsOldest
  <2> QED BY <2>3, <2>4, <2>5, <2>6 DEF OldestInv
<1>6. CASE DeleteInvalid
  <2> DEFINE d == fram_ret.val
  <2>1. /\ UNCHANGED OtherSide /\ fram_pc = "offer" /\ fram_pc' = "deleted"
        /\ d # 0 /\ ~valid(d) /\ delete_last_read_telemetry(d)
    BY <1>6 DEF DeleteInvalid
  <2>2. Oldest(d)
    BY <2>1 DEF OldestInv, OfferIsOldest
  <2>3. /\ budget' = budget /\ fram_ret'.val = 1
        /\ \A u : Oldest(u) /\ u # d => Oldest(u)'
    BY <2>1, <2>2, DeleteWithoutGlitch DEF OldestInv
  <2>4. \A u : Oldest(u) /\ valid(u) => Oldest(u)'
    BY <2>1, <2>3
  <2>5. upload_queue # <<>> => valid(Head(upload_queue))
    BY HeadTail DEF AckedWerePublished, TypeOK, QueuesTypeOK
  <2>6. QueuedIsOldestOrOld'
    BY <2>1, <2>4, <2>5 DEF OldestInv, QueuedIsOldestOrOld
  <2>7. HeldIsOldest'
    BY <2>1, <2>4 DEF OldestInv, HeldIsOldest
  <2>8. AckIsLastOrStale'
    BY <2>1, <2>4 DEF OldestInv, AckIsLastOrStale
  <2>9. Glitchless' /\ OfferIsOldest'
    BY <2>1, <2>3 DEF OldestInv, Glitchless, OfferIsOldest
  <2> QED BY <2>6, <2>7, <2>8, <2>9 DEF OldestInv
<1>7. CASE ResetIfNotDeleted
  <2>1. UNCHANGED OtherSide /\ UNCHANGED <<fram, budget>> /\ fram_pc' = "store"
    BY <1>7 DEF ResetIfNotDeleted, OldestInv, Glitchless
  <2>2. Glitchless' /\ OfferIsOldest'
    BY <2>1 DEF OldestInv, Glitchless, OfferIsOldest
  <2> QED BY <1>0, <2>1, <2>2, OldestKept DEF OldestInv
<1>8. CASE esp_restart
  BY <1>8, RestartOldest DEF esp_restart
<1> QED BY <1>1, <1>2, <1>3, <1>4, <1>5, <1>6, <1>7, <1>8 DEF FramTask

LEMMA UploadTaskOldest ==
  ASSUME TypeOK, AckedWerePublished, OldestInv, UploadTask
  PROVE  OldestInv'
<1> USE DEF fram_vars, upload_vars, mqtt_vars, history
<1>1. CASE ForceRestart
  BY <1>1, RestartOldest DEF ForceRestart
<1> SUFFICES ASSUME ReceiveTelemetry \/ PublishAccepted \/ PublishFailed
                    \/ SendAck \/ Wait
             PROVE  OldestInv'
  BY <1>1 DEF UploadTask, UploadStep
<1>2. UNCHANGED <<fram, fram_ret, fram_pc, budget>>
  BY DEF ReceiveTelemetry, PublishAccepted, PublishFailed, SendAck, Wait
<1>3. \A u : Oldest(u)' <=> Oldest(u)
  BY <1>2 DEF Oldest
<1>4. Glitchless' /\ OfferIsOldest'
  BY <1>2, <1>3 DEF OldestInv, Glitchless, OfferIsOldest, Oldest
<1> SUFFICES QueuedIsOldestOrOld' /\ HeldIsOldest' /\ AckIsLastOrStale'
  BY <1>4 DEF OldestInv
<1>5. CASE ReceiveTelemetry
  <2>1. CASE need_to_upload_flag \/ upload_queue = <<>>
    <3>1. /\ UNCHANGED <<upload_queue, ack_queue, telemetry_to_upload,
                         previously_uploaded_telemetry, need_to_upload_flag>>
          /\ upload_pc' = "wait" \/ (upload_pc' = "publish" /\ need_to_upload_flag)
      BY <1>5, <2>1 DEF ReceiveTelemetry
    <3>2. QueuedIsOldestOrOld'
      BY <1>3, <3>1 DEF OldestInv, QueuedIsOldestOrOld
    <3>3. HeldIsOldest'
      BY <1>3, <3>1 DEF OldestInv, HeldIsOldest
    <3>4. AckIsLastOrStale'
      BY <1>3, <3>1 DEF OldestInv, AckIsLastOrStale
    <3> QED BY <3>2, <3>3, <3>4
  <2>2. CASE ~need_to_upload_flag /\ upload_queue # <<>>
    <3> DEFINE t == Head(upload_queue)
    <3>1. /\ t \in Telemetry /\ valid(t)
          /\ upload_queue' = <<>>
          /\ telemetry_to_upload' = t
          /\ previously_uploaded_telemetry' = previously_uploaded_telemetry
      BY <1>5, <2>2, HeadTail, Single
      DEF ReceiveTelemetry, AckedWerePublished, TypeOK, QueuesTypeOK
    <3>2. QueuedIsOldestOrOld'
      BY <3>1 DEF QueuedIsOldestOrOld
    <3>3. CASE already_published(t)
      <4>1. /\ need_to_upload_flag' = need_to_upload_flag /\ upload_pc' = "wait"
            /\ \/ ack_queue' = ack_queue
               \/ HasSpace(ack_queue) /\ ack_queue' = Append(ack_queue, t)
        BY <1>5, <2>2, <3>3 DEF ReceiveTelemetry
      <4>2. HeldIsOldest'
        BY <2>2, <4>1 DEF HeldIsOldest
      <4>3. ack_queue' = ack_queue \/ Head(ack_queue') = previously_uploaded_telemetry
        BY <3>1, <3>3, <4>1, Single DEF already_published, TypeOK, QueuesTypeOK
      <4>4. AckIsLastOrStale'
        BY <1>3, <3>1, <4>3 DEF OldestInv, AckIsLastOrStale
      <4> QED BY <3>2, <4>2, <4>4
    <3>4. CASE ~already_published(t)
      <4>1. /\ need_to_upload_flag' /\ upload_pc' = "publish"
            /\ ack_queue' = ack_queue
        BY <1>5, <2>2, <3>4 DEF ReceiveTelemetry
      <4>2. t # previously_uploaded_telemetry /\ Oldest(t)
        BY <2>2, <3>4 DEF already_published, OldestInv, QueuedIsOldestOrOld
      <4>3. HeldIsOldest'
        BY <1>3, <3>1, <4>1, <4>2 DEF HeldIsOldest
      <4>4. AckIsLastOrStale'
        BY <1>3, <3>1, <4>1 DEF OldestInv, AckIsLastOrStale
      <4> QED BY <3>2, <4>3, <4>4
    <3> QED BY <3>3, <3>4
  <2> QED BY <2>1, <2>2
<1>6. CASE PublishAccepted
  <2>1. /\ UNCHANGED <<upload_queue, ack_queue, telemetry_to_upload>>
        /\ previously_uploaded_telemetry' = telemetry_to_upload
        /\ need_to_upload_flag' = FALSE
        /\ upload_pc = "publish" /\ upload_pc' = "ack"
    BY <1>6 DEF PublishAccepted
  <2>2. /\ need_to_upload_flag
        /\ Oldest(telemetry_to_upload) /\ valid(telemetry_to_upload)
        /\ telemetry_to_upload # previously_uploaded_telemetry
    BY <2>1 DEF OldestInv, HeldIsOldest
  <2>3. QueuedIsOldestOrOld'
    BY <1>3, <2>1, <2>2 DEF OldestInv, QueuedIsOldestOrOld
  <2>4. HeldIsOldest'
    BY <2>1 DEF HeldIsOldest
  <2>5. ack_queue # <<>> => Head(ack_queue) # telemetry_to_upload
    BY <2>2 DEF OldestInv, AckIsLastOrStale, Oldest
  <2>6. AckIsLastOrStale'
    BY <1>3, <2>1, <2>2, <2>5 DEF AckIsLastOrStale
  <2> QED BY <2>3, <2>4, <2>6
<1>7. CASE PublishFailed \/ Wait
  <2>1. UNCHANGED <<upload_queue, ack_queue, telemetry_to_upload,
                    previously_uploaded_telemetry, need_to_upload_flag>>
    BY <1>7 DEF PublishFailed, Wait
  <2>2. upload_pc' \in {"halted", "wait", "receive"}
    BY <1>7 DEF PublishFailed, Wait
  <2>3. QueuedIsOldestOrOld'
    BY <1>3, <2>1 DEF OldestInv, QueuedIsOldestOrOld
  <2>4. HeldIsOldest'
    BY <1>3, <2>1, <2>2 DEF OldestInv, HeldIsOldest
  <2>5. AckIsLastOrStale'
    BY <1>3, <2>1 DEF OldestInv, AckIsLastOrStale
  <2> QED BY <2>3, <2>4, <2>5
<1>8. CASE SendAck
  <2>1. /\ UNCHANGED <<upload_queue, telemetry_to_upload,
                       previously_uploaded_telemetry, need_to_upload_flag>>
        /\ upload_pc = "ack" /\ upload_pc' = "wait"
        /\ \/ ack_queue' = ack_queue
           \/ HasSpace(ack_queue) /\ ack_queue' = Append(ack_queue, telemetry_to_upload)
    BY <1>8 DEF SendAck
  <2>2. QueuedIsOldestOrOld'
    BY <1>3, <2>1 DEF OldestInv, QueuedIsOldestOrOld
  <2>3. HeldIsOldest'
    BY <1>3, <2>1 DEF OldestInv, HeldIsOldest
  <2>4. telemetry_to_upload = previously_uploaded_telemetry
    BY <2>1 DEF OldestInv, HeldIsOldest
  <2>5. ack_queue' = ack_queue \/ Head(ack_queue') = previously_uploaded_telemetry
    BY <2>1, <2>4, Single DEF TypeOK, QueuesTypeOK, UploadTypeOK
  <2>6. AckIsLastOrStale'
    BY <1>3, <2>1, <2>5 DEF OldestInv, AckIsLastOrStale
  <2> QED BY <2>2, <2>3, <2>6
<1> QED BY <1>5, <1>6, <1>7, <1>8

LEMMA NextOldest ==
  TypeOK /\ AckedWerePublished /\ OldestInv /\ [Next]_vars => OldestInv'
<1> SUFFICES ASSUME TypeOK, AckedWerePublished, OldestInv, [Next]_vars
             PROVE  OldestInv'
  OBVIOUS
<1> USE DEF fram_vars, upload_vars, mqtt_vars, history, OtherSide
<1>1. CASE PowerLoss
  <2>1. budget'["glitch"] = budget["glitch"]
    BY <1>1 DEF PowerLoss, Spend, TypeOK, Events
  <2> QED BY <1>1, <2>1, RestartOldest DEF PowerLoss
<1>2. CASE app_main
  <2>1. /\ UNCHANGED <<fram, budget, upload_queue, ack_queue, telemetry_to_upload,
                       previously_uploaded_telemetry, need_to_upload_flag>>
        /\ fram_pc' = "store" /\ upload_pc' = "receive"
    BY <1>2 DEF app_main
  <2>2. \A u : Oldest(u)' <=> Oldest(u)
    BY <2>1 DEF Oldest
  <2>3. Glitchless' /\ OfferIsOldest'
    BY <2>1 DEF OldestInv, Glitchless, OfferIsOldest
  <2>4. QueuedIsOldestOrOld'
    BY <2>1, <2>2 DEF OldestInv, QueuedIsOldestOrOld
  <2>5. HeldIsOldest'
    BY <2>1, <2>2 DEF OldestInv, HeldIsOldest
  <2>6. AckIsLastOrStale'
    BY <2>1, <2>2 DEF OldestInv, AckIsLastOrStale
  <2> QED BY <2>3, <2>4, <2>5, <2>6 DEF OldestInv
<1>3. ASSUME UNCHANGED OtherSide, UNCHANGED <<fram, fram_ret, fram_pc>>,
             budget'["glitch"] = budget["glitch"]
      PROVE  OldestInv'
  <2>1. \A u : Oldest(u)' <=> Oldest(u)
    BY <1>3 DEF Oldest
  <2>2. Glitchless' /\ OfferIsOldest'
    BY <1>3, <2>1 DEF OldestInv, Glitchless, OfferIsOldest, Oldest
  <2> QED BY <1>3, <2>1, <2>2, OldestKept DEF OldestInv
<1>4. ASSUME NEW t \in Telemetry, Deliver(t) \/ rtc_alarm_isr(t)
      PROVE  OldestInv'
  <2>1. UNCHANGED OtherSide /\ UNCHANGED <<fram, fram_ret, fram_pc>>
    BY <1>4 DEF Deliver, rtc_alarm_isr
  <2>2. budget'["glitch"] = budget["glitch"]
    BY <1>4 DEF Deliver, rtc_alarm_isr, Spend, TypeOK, Events
  <2> QED BY <1>3, <2>1, <2>2
<1>5. CASE rtc_set_date_time \/ RequestRestart
  <2>1. UNCHANGED OtherSide /\ UNCHANGED <<fram, fram_ret, fram_pc>>
    BY <1>5 DEF rtc_set_date_time, RequestRestart
  <2>2. budget'["glitch"] = budget["glitch"]
    BY <1>5 DEF rtc_set_date_time, RequestRestart, Spend, TypeOK, Events
  <2> QED BY <1>3, <2>1, <2>2
<1>6. CASE UNCHANGED vars
  BY <1>3, <1>6 DEF vars
<1> QED BY <1>1, <1>2, <1>4, <1>5, <1>6, FramTaskOldest, UploadTaskOldest
        DEF Next, Environment

LEMMA InitOldest ==
  ASSUME Budget["glitch"] = 0
  PROVE  Init => OldestInv
<1> SUFFICES ASSUME Init PROVE OldestInv
  OBVIOUS
<1>1. need_to_upload_flag = FALSE /\ upload_pc = "boot" /\ fram_pc = "boot"
  BY DEF Init
<1>2. Glitchless /\ OfferIsOldest
  BY <1>1 DEF Init, Glitchless, OfferIsOldest
<1>3. QueuedIsOldestOrOld /\ AckIsLastOrStale
  BY DEF Init, QueuedIsOldestOrOld, AckIsLastOrStale
<1>4. HeldIsOldest
  BY <1>1 DEF HeldIsOldest
<1> QED BY <1>2, <1>3, <1>4 DEF OldestInv

(***************************************************************************)
(* While the SPI bus does not glitch, the upload task publishes the oldest *)
(* record of the FRAM and no other, although offers and acknowledgements   *)
(* are late, repeated or dropped and are matched by value alone            *)
(* (upload_task.c:346-362, fram_task.c:98-130, fram.c:206-245): for every  *)
(* number of alarms, restarts and power cuts.                              *)
(***************************************************************************)
THEOREM OldestIsUploaded ==
  ASSUME Budget["glitch"] = 0
  PROVE  Spec => []UploadHoldsOldest
<1>1. Init => OldestInv
  BY InitOldest
<1>2. OldestInv => UploadHoldsOldest
  BY DEF OldestInv, HeldIsOldest, Oldest, UploadHoldsOldest
<1> QED BY <1>1, <1>2, InitTypeOK, NextTyped, InitAcked, NextAcked, NextOldest, PTL
        DEF Spec
-------------------------------------------------------------------------------
(***************************************************************************)
(* No record is skipped: what was published, followed by what the FRAM     *)
(* holds, is what was stored.  The fold that says so is first shown to be  *)
(* the end of a function on the prefixes of the FRAM's records; a write    *)
(* adds an element to it, a publish or a delete takes the first one off.   *)
(***************************************************************************)
Continued(h, q) == FoldLeft(ExtendedIfValid, h, q)

GoesThrough(f, h, q) ==
  /\ f \in [0 .. Len(q) -> Seq(Telemetry)] /\ f[0] = h
  /\ \A k \in 1 .. Len(q) : f[k] = ExtendedIfValid(f[k - 1], q[k])

LEMMA ContinuedTyped ==
  ASSUME NEW h \in Seq(Telemetry), NEW t \in Telemetry
  PROVE  /\ Extended(h, t) \in Seq(Telemetry)
         /\ ExtendedIfValid(h, t) \in Seq(Telemetry)
  BY ExtendedFacts DEF ExtendedIfValid

LEMMA ContinuedPrefixes ==
  ASSUME NEW h \in Seq(Telemetry), NEW q \in Seq(Telemetry)
  PROVE  \E f : GoesThrough(f, h, q) /\ Continued(h, q) = f[Len(q)]
<1> DEFINE n == Len(q)
           A == Seq(Telemetry)
           step == [p \in A \X (1 .. n) |-> ExtendedIfValid(p[1], q[p[2]])]
           Extends(g) == g = [s \in SUBSET (DOMAIN q) |->
                                IF s = {} THEN h
                                ELSE ExtendedIfValid(g[s \ {Max(s)}], q[Max(s)])]
           c == CHOOSE g : Extends(g)
<1>1. n \in Nat /\ DOMAIN q = 1 .. n /\ \A k \in 1 .. n : q[k] \in Telemetry
  BY ElementOfSeq
<1>2. step \in [A \X (1 .. n) -> A]
  <2> HIDE DEF n
  <2>1. \A p \in A \X (1 .. n) : ExtendedIfValid(p[1], q[p[2]]) \in A
    BY <1>1, ContinuedTyped
  <2> QED BY <2>1
<1>3. PICK g \in [SUBSET (1 .. n) -> A] : Extends(g)
  <2> HIDE DEF n, step, A
  <2>1. PICK g \in [SUBSET (1 .. n) -> A] : TakesOffMax(g, n, h, step)
    <3>1. h \in A
      BY DEF A
    <3> QED BY <1>1, <1>2, <3>1, FoldExists
  <2>2. ASSUME NEW s \in SUBSET (1 .. n), s # {}
        PROVE  step[<<g[s \ {Max(s)}], Max(s)>>] = ExtendedIfValid(g[s \ {Max(s)}], q[Max(s)])
    <3>1. Max(s) \in 1 .. n /\ g[s \ {Max(s)}] \in A
      BY <1>1, <2>2, MaxOfIndices
    <3> QED BY <3>1 DEF step
  <2>3. g = [s \in SUBSET (DOMAIN q) |->
               IF s = {} THEN h ELSE ExtendedIfValid(g[s \ {Max(s)}], q[Max(s)])]
    BY <1>1, <2>1, <2>2 DEF TakesOffMax
  <2> QED BY <2>1, <2>3
<1>4. Extends(c)
  <2> HIDE DEF Extends
  <2> QED BY <1>3
<1>5. Continued(h, q) = c[1 .. n]
  <2>1. Continued(h, q) = c[DOMAIN q]
    BY DEF Continued, FoldLeft, MapThenFoldSet
  <2> QED BY <1>1, <2>1
<1> HIDE DEF c, step, n
<1>6. c[1 .. 0] = h
  <2>1. 1 .. 0 = {}
    OBVIOUS
  <2> QED BY <1>4, <2>1
<1>7. ASSUME NEW k \in 1 .. n PROVE c[1 .. k] = ExtendedIfValid(c[1 .. k - 1], q[k])
  <2>1. 1 .. k \in SUBSET (DOMAIN q) /\ 1 .. k # {} /\ k \in Nat /\ k > 0
    <3>1. k \in Nat /\ k > 0 /\ k <= n /\ 1 \in 1 .. k
      BY <1>1
    <3>2. 1 .. k \subseteq 1 .. n
      BY <1>1, <3>1
    <3> QED BY <1>1, <3>1, <3>2
  <2> QED BY <1>4, <2>1, MaxOfPrefix
<1> DEFINE f == [k \in 0 .. n |-> c[1 .. k]]
<1>8. /\ f[0] = h /\ f[n] = c[1 .. n]
      /\ \A k \in 1 .. n : f[k] = ExtendedIfValid(f[k - 1], q[k])
  <2>1. \A k \in 1 .. n : k \in 0 .. n /\ k - 1 \in 0 .. n
    BY <1>1
  <2> QED BY <1>1, <1>6, <1>7, <2>1
<1>9. f = [k \in 0 .. n |-> f[k]]
  OBVIOUS
<1> HIDE DEF f
<1>10. \A k \in 0 .. n : f[k] \in A
  <2> DEFINE T == {k \in 0 .. n : f[k] \in A}
  <2>1. 0 \in T
    BY <1>1, <1>8
  <2>2. ASSUME NEW k \in 0 .. n - 1, k \in T PROVE k + 1 \in T
    <3>1. k + 1 \in 1 .. n /\ k + 1 - 1 = k /\ k + 1 \in 0 .. n
      BY <1>1
    <3>2. f[k + 1] = ExtendedIfValid(f[k], q[k + 1]) /\ f[k] \in A
      BY <1>8, <2>2, <3>1
    <3>3. f[k + 1] \in A
      BY <1>1, <3>1, <3>2, ContinuedTyped
    <3> QED BY <3>1, <3>3
  <2> HIDE DEF T
  <2>3. 0 .. n \subseteq T
    BY <1>1, <2>1, <2>2, RangeInduction
  <2> QED BY <2>3 DEF T
<1>11. GoesThrough(f, h, q)
  BY <1>8, <1>9, <1>10 DEF GoesThrough, n
<1> QED BY <1>5, <1>8, <1>11 DEF n

\* There is one such function.
LEMMA ContinuedIs ==
  ASSUME NEW h \in Seq(Telemetry), NEW q \in Seq(Telemetry), NEW f, GoesThrough(f, h, q)
  PROVE  Continued(h, q) = f[Len(q)]
<1>1. PICK g : GoesThrough(g, h, q) /\ Continued(h, q) = g[Len(q)]
  BY ContinuedPrefixes
<1> DEFINE n == Len(q)
           T == {k \in 0 .. n : f[k] = g[k]}
<1>2. n \in Nat /\ n \in 0 .. n
  OBVIOUS
<1>3. 0 \in T
  BY <1>1 DEF GoesThrough
<1>4. ASSUME NEW k \in 0 .. n - 1, k \in T PROVE k + 1 \in T
  <2>1. k + 1 \in 1 .. n /\ k + 1 \in 0 .. n /\ k + 1 - 1 = k
    BY <1>2
  <2>2. /\ f[k + 1] = ExtendedIfValid(f[k], q[k + 1])
        /\ g[k + 1] = ExtendedIfValid(g[k], q[k + 1])
    BY <1>1, <2>1 DEF GoesThrough
  <2> QED BY <1>4, <2>1, <2>2
<1> HIDE DEF T
<1>5. 0 .. n \subseteq T
  BY <1>2, <1>3, <1>4, RangeInduction
<1> QED BY <1>1, <1>2, <1>5 DEF T

LEMMA ContinuedByNone ==
  ASSUME NEW h \in Seq(Telemetry) PROVE Continued(h, << >>) = h
<1>1. << >> \in Seq(Telemetry) /\ Len(<< >>) = 0
  OBVIOUS
<1>2. PICK f : GoesThrough(f, h, << >>) /\ Continued(h, << >>) = f[Len(<< >>)]
  BY <1>1, ContinuedPrefixes
<1> QED BY <1>1, <1>2 DEF GoesThrough

\* A record added to the FRAM is the last one that will follow.
LEMMA ContinuedByAppend ==
  ASSUME NEW h \in Seq(Telemetry), NEW q \in Seq(Telemetry), NEW t \in Telemetry
  PROVE  Continued(h, Append(q, t)) = ExtendedIfValid(Continued(h, q), t)
<1> DEFINE n == Len(q)
           more == Append(q, t)
<1>1. /\ n \in Nat /\ more \in Seq(Telemetry) /\ Len(more) = n + 1 /\ more[n + 1] = t
      /\ \A k \in 1 .. n : more[k] = q[k]
  BY AppendProperties
<1>2. PICK f : GoesThrough(f, h, more) /\ Continued(h, more) = f[Len(more)]
  BY <1>1, ContinuedPrefixes
<1> DEFINE g == [k \in 0 .. n |-> f[k]]
<1>3. /\ f \in [0 .. n + 1 -> Seq(Telemetry)] /\ f[0] = h
      /\ \A k \in 1 .. n + 1 : f[k] = ExtendedIfValid(f[k - 1], more[k])
  <2> HIDE DEF more, n
  <2> QED BY <1>1, <1>2 DEF GoesThrough
<1> HIDE DEF more
<1>4. GoesThrough(g, h, q)
  <2>1. \A k \in 0 .. n : f[k] \in Seq(Telemetry)
    <3>1. \A k \in 0 .. n : k \in 0 .. n + 1
      BY <1>1
    <3> QED BY <1>3, <3>1
  <2>2. \A k \in 1 .. n : /\ f[k] = ExtendedIfValid(f[k - 1], q[k])
                          /\ k \in 0 .. n /\ k - 1 \in 0 .. n
    BY <1>3, <1>1
  <2>3. /\ g \in [0 .. n -> Seq(Telemetry)] /\ g[0] = h
        /\ \A k \in 1 .. n : g[k] = ExtendedIfValid(g[k - 1], q[k])
    BY <1>3, <1>1, <2>1, <2>2
  <2> QED BY <2>3 DEF GoesThrough
<1>5. Continued(h, q) = g[n] /\ g[n] = f[n]
  BY <1>1, <1>4, ContinuedIs
<1>6. f[n + 1] = ExtendedIfValid(f[n], t)
  <2>1. n + 1 \in 1 .. n + 1 /\ n + 1 - 1 = n
    BY <1>1
  <2> QED BY <1>3, <1>1, <2>1
<1> QED BY <1>1, <1>2, <1>5, <1>6 DEF more

\* The oldest record is the first one that will follow.
LEMMA ContinuedByTail ==
  ASSUME NEW h \in Seq(Telemetry), NEW q \in Seq(Telemetry), q # << >>
  PROVE  Continued(h, q) = Continued(ExtendedIfValid(h, Head(q)), Tail(q))
<1> DEFINE n == Len(q)
           rest == Tail(q)
           start == ExtendedIfValid(h, Head(q))
<1>1. /\ n \in Nat /\ n > 0 /\ rest \in Seq(Telemetry) /\ Len(rest) = n - 1
      /\ q[1] = Head(q) /\ Head(q) \in Telemetry
      /\ \A k \in 1 .. n - 1 : rest[k] = q[k + 1]
  BY HeadTailProperties, EmptySeq
<1>2. start \in Seq(Telemetry)
  BY <1>1, ContinuedTyped
<1>3. PICK f : GoesThrough(f, h, q) /\ Continued(h, q) = f[n]
  BY ContinuedPrefixes
<1> DEFINE g == [k \in 0 .. n - 1 |-> f[k + 1]]
<1> HIDE DEF rest, start
<1>4. /\ \A k \in 0 .. n - 1 : f[k + 1] \in Seq(Telemetry)
      /\ f[1] = start
      /\ \A k \in 1 .. n - 1 : f[k + 1] = ExtendedIfValid(f[k], rest[k])
  <2>1. /\ f \in [0 .. n -> Seq(Telemetry)] /\ f[0] = h
        /\ \A k \in 1 .. n : f[k] = ExtendedIfValid(f[k - 1], q[k])
    BY <1>3 DEF GoesThrough
  <2>2. f[1] = start
    <3>1. 1 \in 1 .. n /\ 1 - 1 = 0
      BY <1>1
    <3>2. f[1] = ExtendedIfValid(f[0], q[1])
      BY <2>1, <3>1
    <3> QED BY <1>1, <2>1, <3>2 DEF start
  <2>3. ASSUME NEW k \in 1 .. n - 1 PROVE f[k + 1] = ExtendedIfValid(f[k], rest[k])
    <3>1. k + 1 \in 1 .. n /\ k + 1 - 1 = k
      BY <1>1
    <3>2. f[k + 1] = ExtendedIfValid(f[k], q[k + 1])
      BY <2>1, <3>1
    <3> QED BY <1>1, <3>2
  <2>4. \A k \in 0 .. n - 1 : k + 1 \in 0 .. n
    BY <1>1
  <2> QED BY <2>1, <2>2, <2>3, <2>4
<1>5. GoesThrough(g, start, rest)
  <2>1. \A k \in 1 .. n - 1 : k \in 0 .. n - 1 /\ k - 1 \in 0 .. n - 1 /\ k - 1 + 1 = k
    BY <1>1
  <2>2. 0 \in 0 .. n - 1 /\ 0 + 1 = 1
    BY <1>1
  <2>3. /\ g \in [0 .. n - 1 -> Seq(Telemetry)] /\ g[0] = start
        /\ \A k \in 1 .. n - 1 : g[k] = ExtendedIfValid(g[k - 1], rest[k])
    BY <1>4, <2>1, <2>2
  <2> QED BY <1>1, <2>3 DEF GoesThrough
<1>6. Continued(start, rest) = g[n - 1] /\ g[n - 1] = f[n]
  <2>1. n - 1 \in 0 .. n - 1 /\ n - 1 + 1 = n
    BY <1>1
  <2> QED BY <1>1, <1>2, <1>5, <2>1, ContinuedIs
<1> QED BY <1>3, <1>6 DEF rest, start

\* The value that is compared with an offer is the last one published.
LastPublished ==
  previously_uploaded_telemetry # 0 =>
    published # << >> /\ published[Len(published)] = previously_uploaded_telemetry

SkipInv == LastPublished /\ NoRecordSkipped

LEMMA ExtendedTwice ==
  ASSUME NEW h \in Seq(Telemetry), NEW t \in Telemetry
  PROVE  /\ Extended(h, t) # << >> /\ Extended(h, t)[Len(Extended(h, t))] = t
         /\ Extended(Extended(h, t), t) = Extended(h, t)
<1>1. Extended(h, t) # << >> /\ Extended(h, t)[Len(Extended(h, t))] = t
  <2>1. CASE h # << >> /\ h[Len(h)] = t
    BY <2>1 DEF Extended
  <2>2. CASE ~(h # << >> /\ h[Len(h)] = t)
    <3>1. Extended(h, t) = Append(h, t)
      BY <2>2 DEF Extended
    <3>2. Append(h, t) # << >> /\ Append(h, t)[Len(Append(h, t))] = t
      BY AppendProperties
    <3> QED BY <3>1, <3>2
  <2> QED BY <2>1, <2>2
<1> DEFINE e == Extended(h, t)
<1> HIDE DEF e
<1>2. e # << >> /\ e[Len(e)] = t
  BY <1>1 DEF e
<1>3. Extended(e, t) = e
  BY <1>2 DEF Extended
<1> QED BY <1>1, <1>3 DEF e

\* A step that leaves the FRAM and the histories alone.
LEMMA SkipKept ==
  ASSUME SkipInv, fram' = fram, stored' = stored, published' = published,
         \/ previously_uploaded_telemetry' = previously_uploaded_telemetry
         \/ previously_uploaded_telemetry' = 0
  PROVE  SkipInv'
  BY DEF SkipInv, LastPublished, NoRecordSkipped

\* The oldest record may go when it is invalid, or the last one published.
LEMMA DeleteSkipsNone ==
  ASSUME TypeOK, Glitchless, SkipInv, NEW d, delete_last_read_telemetry(d),
         Oldest(d) => ~valid(d) \/ d = previously_uploaded_telemetry,
         stored' = stored, published' = published,
         previously_uploaded_telemetry' = previously_uploaded_telemetry
  PROVE  SkipInv'
<1>1. Fram!Delete(d)
  BY DEF delete_last_read_telemetry, Glitchless, Spend
<1>2. CASE fram' = fram
  BY <1>2, SkipKept
<1>3. CASE Oldest(d) /\ fram' = Tail(fram)
  <2>1. /\ fram \in Seq(Telemetry) /\ published \in Seq(Telemetry)
        /\ fram # << >> /\ Head(fram) = d /\ d \in Telemetry
    BY <1>3, HeadTail DEF TypeOK, FramTypeOK, HistoryTypeOK, Oldest
  <2>2. ExtendedIfValid(published, d) = published
    <3>1. CASE ~valid(d)
      BY <3>1 DEF ExtendedIfValid
    <3>2. CASE valid(d)
      <4>1. d # 0 /\ d = previously_uploaded_telemetry
        BY <1>3, <3>2, ZeroInvalid
      <4>2. published # << >> /\ published[Len(published)] = d
        BY <4>1 DEF SkipInv, LastPublished
      <4> QED BY <3>2, <4>2 DEF ExtendedIfValid, Extended
    <3> QED BY <3>1, <3>2
  <2>3. Continued(published, fram) = Continued(published, Tail(fram))
    BY <2>1, <2>2, ContinuedByTail
  <2>4. LastPublished'
    BY DEF SkipInv, LastPublished
  <2> QED BY <1>3, <2>3, <2>4 DEF SkipInv, NoRecordSkipped, Continued
<1> QED BY <1>1, <1>2, <1>3 DEF Fram!Delete, Fram!IsOldest, Oldest

LEMMA FramTaskSkipsNone ==
  ASSUME TypeOK, OldestInv, SkipInv, FramTask
  PROVE  SkipInv'
<1> USE DEF fram_vars, upload_vars, mqtt_vars, history
<1>1. CASE StoreRecord
  <2>1. UNCHANGED <<published, previously_uploaded_telemetry>>
    BY <1>1 DEF StoreRecord
  <2>2. CASE fram_store_queue = << >>
    BY <1>1, <2>1, <2>2, SkipKept DEF StoreRecord
  <2>3. CASE fram_store_queue # << >>
    <3> DEFINE t == Head(fram_store_queue)
    <3>1. /\ t \in Telemetry
          /\ fram \in Seq(Telemetry) /\ published \in Seq(Telemetry)
      BY <2>3, HeadTail DEF TypeOK, FramTypeOK, QueuesTypeOK, HistoryTypeOK
    <3>2. /\ Fram!Write(t)
          /\ stored' = IF fram_ret'.val = 1 THEN ExtendedIfValid(stored, t) ELSE stored
      BY <1>1, <2>3 DEF StoreRecord
    <3> HIDE DEF t
    <3>3. CASE fram' = Append(fram, t) /\ fram_ret'.val = 1
      <4>1. Continued(published, fram') = ExtendedIfValid(stored, t)
        BY <3>1, <3>3, ContinuedByAppend DEF SkipInv, NoRecordSkipped, Continued
      <4>2. LastPublished'
        BY <2>1 DEF SkipInv, LastPublished
      <4> QED BY <2>1, <3>2, <3>3, <4>1, <4>2 DEF SkipInv, NoRecordSkipped, Continued
    <3>4. CASE fram' = fram /\ fram_ret'.val = 0
      BY <2>1, <3>2, <3>4, SkipKept
    <3> QED BY <3>2, <3>3, <3>4 DEF Fram!Write, Fram!Returned
  <2> QED BY <2>2, <2>3
<1>2. CASE rtc_clear_alarm
  BY <1>2, SkipKept DEF rtc_clear_alarm
<1>3. CASE CheckRestart
  BY <1>3, SkipKept DEF CheckRestart
<1>4. CASE ReceiveAck
  <2>1. UNCHANGED <<stored, published, previously_uploaded_telemetry>>
    BY <1>4 DEF ReceiveAck
  <2>2. CASE fram' = fram
    BY <2>1, <2>2, SkipKept
  <2>3. CASE /\ ack_queue # << >>
             /\ delete_last_read_telemetry(Head(ack_queue))
    <3> DEFINE d == Head(ack_queue)
    <3>1. Oldest(d) => d = previously_uploaded_telemetry
      BY <2>3 DEF OldestInv, AckIsLastOrStale, Oldest
    <3> QED BY <2>1, <2>3, <3>1, DeleteSkipsNone DEF OldestInv
  <2> QED BY <1>4, <2>2, <2>3 DEF ReceiveAck
<1>5. CASE ReadOldest
  <2>1. fram' = fram
    BY <1>5, ReadWithoutGlitch DEF ReadOldest, OldestInv
  <2> QED BY <1>5, <2>1, SkipKept DEF ReadOldest
<1>6. CASE OfferOldest
  BY <1>6, SkipKept DEF OfferOldest
<1>7. CASE DeleteInvalid
  BY <1>7, DeleteSkipsNone DEF DeleteInvalid, OldestInv
<1>8. CASE ResetIfNotDeleted
  <2>1. fram' = fram
    BY <1>8 DEF ResetIfNotDeleted, OldestInv, Glitchless
  <2> QED BY <1>8, <2>1, SkipKept DEF ResetIfNotDeleted
<1>9. CASE esp_restart
  BY <1>9, SkipKept DEF esp_restart, Restart
<1> QED BY <1>1, <1>2, <1>3, <1>4, <1>5, <1>6, <1>7, <1>8, <1>9 DEF FramTask

LEMMA PublishSkipsNone ==
  ASSUME TypeOK, OldestInv, SkipInv, PublishAccepted
  PROVE  SkipInv'
<1> DEFINE t == telemetry_to_upload
<1>1. /\ fram \in Seq(Telemetry) /\ published \in Seq(Telemetry) /\ t \in Telemetry
  BY DEF TypeOK, FramTypeOK, UploadTypeOK, HistoryTypeOK
<1>2. fram # << >> /\ Head(fram) = t /\ valid(t)
  BY DEF PublishAccepted, OldestInv, HeldIsOldest, Oldest
<1>3. /\ published' = Extended(published, t) /\ previously_uploaded_telemetry' = t
      /\ fram' = fram /\ stored' = stored
  BY DEF PublishAccepted, fram_vars
<1> HIDE DEF t
<1>4. LastPublished'
  BY <1>1, <1>3, ExtendedTwice DEF LastPublished
<1> DEFINE p == Extended(published, t)
<1>5. /\ p \in Seq(Telemetry) /\ ExtendedIfValid(published, t) = p
      /\ ExtendedIfValid(p, t) = p
  BY <1>1, <1>2, ContinuedTyped, ExtendedTwice DEF ExtendedIfValid
<1> HIDE DEF p
<1>6. Continued(p, fram) = Continued(published, fram)
  BY <1>1, <1>2, <1>5, ContinuedByTail
<1>7. published' = p
  BY <1>3 DEF p
<1> QED BY <1>3, <1>4, <1>6, <1>7 DEF SkipInv, NoRecordSkipped, Continued

LEMMA NextSkipsNone ==
  ASSUME TypeOK, OldestInv, SkipInv, [Next]_vars
  PROVE  SkipInv'
<1> USE DEF fram_vars, upload_vars, mqtt_vars, history
<1>1. CASE UNCHANGED vars
  BY <1>1, SkipKept DEF vars
<1>2. CASE app_main
  BY <1>2, SkipKept DEF app_main
<1>3. CASE FramTask
  BY <1>3, FramTaskSkipsNone
<1>4. CASE UploadTask
  <2>1. CASE ReceiveTelemetry
    BY <2>1, SkipKept DEF ReceiveTelemetry
  <2>2. CASE PublishFailed
    BY <2>2, SkipKept DEF PublishFailed
  <2>3. CASE SendAck
    BY <2>3, SkipKept DEF SendAck
  <2>4. CASE Wait
    BY <2>4, SkipKept DEF Wait
  <2>5. CASE ForceRestart
    BY <2>5, SkipKept DEF ForceRestart, Restart
  <2> QED BY <1>4, <2>1, <2>2, <2>3, <2>4, <2>5, PublishSkipsNone DEF UploadTask, UploadStep
<1>5. ASSUME NEW t \in Telemetry, Deliver(t) PROVE SkipInv'
  BY <1>5, SkipKept DEF Deliver
<1>6. CASE Environment
  <2>1. ASSUME NEW t \in Telemetry, rtc_alarm_isr(t) PROVE SkipInv'
    BY <2>1, SkipKept DEF rtc_alarm_isr
  <2>2. CASE rtc_set_date_time
    BY <2>2, SkipKept DEF rtc_set_date_time
  <2>3. CASE RequestRestart
    BY <2>3, SkipKept DEF RequestRestart
  <2>4. CASE PowerLoss
    BY <2>4, SkipKept DEF PowerLoss, Restart
  <2> QED BY <1>6, <2>1, <2>2, <2>3, <2>4 DEF Environment
<1> QED BY <1>1, <1>2, <1>3, <1>4, <1>5, <1>6 DEF Next

(***************************************************************************)
(* While the SPI bus does not glitch, every valid record that was stored   *)
(* was published or is still in the FRAM, in the order stored, whatever    *)
(* offers and acknowledgements were lost or repeated and however often the *)
(* device restarted or lost its power (fram_task.c:59-150,                 *)
(* upload_task.c:329-437, fram.c:206-245).                                 *)
(***************************************************************************)
THEOREM NothingSkipped ==
  ASSUME Budget["glitch"] = 0
  PROVE  Spec => []NoRecordSkipped
<1>1. Init => OldestInv
  BY InitOldest
<1>2. Init => SkipInv
  <2> SUFFICES ASSUME Init PROVE SkipInv
    OBVIOUS
  <2>1. /\ published = << >> /\ fram = << >> /\ stored = << >>
        /\ previously_uploaded_telemetry = 0
    BY DEF Init, Fram!Init
  <2>2. << >> \in Seq(Telemetry)
    OBVIOUS
  <2>3. Continued(<< >>, << >>) = << >>
    BY <2>2, ContinuedByNone
  <2> QED BY <2>1, <2>3 DEF SkipInv, LastPublished, NoRecordSkipped, Continued
<1>3. SkipInv => NoRecordSkipped
  BY DEF SkipInv
<1> QED BY <1>1, <1>2, <1>3, InitTypeOK, NextTyped, InitAcked, NextAcked, NextOldest,
           NextSkipsNone, PTL DEF Spec
===============================================================================
