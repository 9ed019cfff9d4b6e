--------------------------- MODULE TelemetryPipeline ---------------------------
(***************************************************************************)
(* The way of a telemetry record from the RTC alarm to the MQTT client:    *)
(*                                                                         *)
(*   rtc_alarm_isr --fram_store_queue--> Fram_Task --upload_queue-->       *)
(*                        FRAM <--> Fram_Task <--ack_queue-- Upload_Task   *)
(*                                                                         *)
(* A record stays in the FRAM until the upload task acknowledges it, and   *)
(* the FRAM task offers the oldest record again in every turn of its loop. *)
(* Offers and acknowledgements may be late, repeated or dropped; records   *)
(* are told apart by their value alone.                                    *)
(*                                                                         *)
(* Each step of a task is one call that touches state others see, so the   *)
(* interrupt handler, the tasks and a power cut interleave between calls.  *)
(* The FRAM is the FIFO of TelemetryFifo, which FramRing implements.  The  *)
(* waits of the upload task for WiFi, MQTT and the JWT are the step Wait,  *)
(* which may never come: most of them have no timeout.                     *)
(***************************************************************************)
EXTENDS Integers, SequencesExt, TelemetryValue

CONSTANTS FramCapacity,       \* records the FRAM holds
          StoreQueueLength,   \* length of fram_store_queue
          max_upload_errors,  \* failed publishes before a restart
          Budget              \* how often each event of the environment occurs

Events == {"alarm", "early_clear", "restart_request", "power_loss", "glitch"}

ASSUME SizeAssumption == /\ FramCapacity \in Nat
                         /\ StoreQueueLength \in Nat \ {0}
                         /\ max_upload_errors \in Nat
ASSUME BudgetAssumption == Budget \in [Events -> Nat]

VARIABLES
  fram, fram_ret,         \* the FRAM's records; what the last call returned
  alarm_flag,             \* A2F in the RTC: the alarm line is held low
  fram_store_queue, upload_queue, ack_queue,
  restart_required_flag,
  fram_pc,                \* the FRAM task's next step
  upload_pc,              \* the upload task's next step
  telemetry_to_upload, previously_uploaded_telemetry, need_to_upload_flag,
  upload_error_count,
  outbox, broker,         \* messages the MQTT client holds; the broker has
  stored, published,      \* history: valid records stored, records published
  released,               \* history: alarms that lost the line while queued
  budget                  \* what is left of Budget

fram_vars == <<fram, fram_ret>>
upload_vars == <<telemetry_to_upload, previously_uploaded_telemetry,
                 need_to_upload_flag, upload_error_count>>
mqtt_vars == <<outbox, broker>>
history == <<stored, published, released>>
vars == <<fram_vars, alarm_flag, fram_store_queue, upload_queue, ack_queue,
          restart_required_flag, fram_pc, upload_pc, upload_vars, mqtt_vars,
          history, budget>>

Fram == INSTANCE TelemetryFifo
        WITH queue <- fram, ret <- fram_ret, Capacity <- FramCapacity

\* Slip of HasSpace: one place more than was created.
HasSpace_of_two(q) == Len(q) < 2

\* upload_queue and ack_queue are created with length 1.
HasSpace(q) == Len(q) < 1

\* A history with immediate repetitions left out.
Extended(h, t) == IF h # <<>> /\ h[Len(h)] = t THEN h ELSE Append(h, t)

ExtendedIfValid(h, t) == IF valid(t) THEN Extended(h, t) ELSE h

Spend(event) == /\ budget[event] > 0
                /\ budget' = [budget EXCEPT ![event] = @ - 1]
-------------------------------------------------------------------------------
Init == /\ fram_store_queue = <<>> /\ upload_queue = <<>> /\ ack_queue = <<>>
        /\ restart_required_flag = FALSE
        /\ fram_pc = "boot" /\ upload_pc = "boot"
        /\ telemetry_to_upload = 0 /\ previously_uploaded_telemetry = 0
        /\ need_to_upload_flag = FALSE
        /\ upload_error_count = 0
        /\ Fram!Init
        /\ alarm_flag \in BOOLEAN
        /\ outbox = {} /\ broker = {}
        /\ stored = <<>> /\ published = <<>> /\ released = 0
        /\ budget = Budget

\* RAM is lost; the FRAM, the RTC and the broker keep what they have.
Restart ==
  /\ fram_store_queue' = <<>> /\ upload_queue' = <<>> /\ ack_queue' = <<>>
  /\ restart_required_flag' = FALSE
  /\ fram_pc' = "boot" /\ upload_pc' = "boot"
  /\ telemetry_to_upload' = 0 /\ previously_uploaded_telemetry' = 0
  /\ need_to_upload_flag' = FALSE
  /\ upload_error_count' = 0
  /\ outbox' = {}
  /\ released' = 0
  /\ UNCHANGED <<fram_vars, alarm_flag, broker, stored, published>>

PowerLoss == Spend("power_loss") /\ Restart

\* app_main: time_init clears the alarm, then the tasks start.
app_main == /\ fram_pc = "boot"
            /\ alarm_flag' = FALSE
            /\ fram_pc' = "store"
            /\ upload_pc' = "receive"
            /\ released' = Len(fram_store_queue)
            /\ UNCHANGED <<fram_vars, fram_store_queue, upload_queue, ack_queue,
                           restart_required_flag, upload_vars, mqtt_vars,
                           stored, published, budget>>
-------------------------------------------------------------------------------
(***************************************************************************)
(* The alarm line falls once a minute, if it was high.  The handler runs   *)
(* at once; it ignores a full queue.  A clock that was not set counts from *)
(* power-on, so the value 0 occurs: no pulse within the first second.      *)
(***************************************************************************)
rtc_alarm_isr(t) ==
  /\ Spend("alarm")
  /\ ~alarm_flag
  /\ alarm_flag' = TRUE
  /\ \/ /\ Len(fram_store_queue) < StoreQueueLength
        /\ fram_store_queue' = Append(fram_store_queue, t)
     \/ /\ Len(fram_store_queue) = StoreQueueLength
        /\ UNCHANGED fram_store_queue
  /\ UNCHANGED <<fram_vars, upload_queue, ack_queue, restart_required_flag,
                 fram_pc, upload_pc, upload_vars, mqtt_vars, history>>

(***************************************************************************)
(* rtc_set_date_time, in the SNTP task, reads the RTC's status register    *)
(* and writes it back without OSF; an alarm between the two is undone.     *)
(***************************************************************************)
rtc_set_date_time ==
  /\ Spend("early_clear")
  /\ alarm_flag
  /\ alarm_flag' = FALSE
  /\ released' = released + 1
  /\ UNCHANGED <<fram_vars, fram_store_queue, upload_queue, ack_queue,
                 restart_required_flag, fram_pc, upload_pc, upload_vars,
                 mqtt_vars, stored, published>>

\* The WiFi and MQTT handlers and the firmware update ask for a restart.
RequestRestart ==
  /\ Spend("restart_request")
  /\ restart_required_flag' = TRUE
  /\ UNCHANGED <<fram_vars, alarm_flag, fram_store_queue, upload_queue,
                 ack_queue, fram_pc, upload_pc, upload_vars, mqtt_vars, history>>

\* The MQTT client sends what it holds, unless stop_mqtt has stopped it.
Deliver(t) ==
  /\ t \in outbox
  /\ upload_pc # "halted"
  /\ outbox' = outbox \ {t}
  /\ broker' = broker \cup {t}
  /\ UNCHANGED <<fram_vars, alarm_flag, fram_store_queue, upload_queue,
                 ack_queue, restart_required_flag, fram_pc, upload_pc,
                 upload_vars, history, budget>>
-------------------------------------------------------------------------------
(***************************************************************************)
(* The FRAM task.  A glitch on the SPI bus makes a read return anything;   *)
(* fram.c does not notice.                                                 *)
(***************************************************************************)
read_telemetry ==
  \/ Fram!Read /\ UNCHANGED budget
  \/ /\ Spend("glitch")
     /\ fram # <<>>
     /\ \E t \in Telemetry : Fram!Returned("read", 0, t)
     /\ UNCHANGED fram

\* The record is read again to be compared, and a misread may equal d, too.
delete_last_read_telemetry(d) ==
  \/ Fram!Delete(d) /\ UNCHANGED budget
  \/ /\ Spend("glitch")
     /\ fram # <<>>
     /\ \/ fram' = Tail(fram) /\ Fram!Returned("delete", d, 1)
        \/ UNCHANGED fram /\ Fram!Returned("delete", d, 0)

\* Slip of step_after_wait: the alarm is cleared in every turn of the loop.
step_after_wait_always_clears(received) == "clear_alarm"

step_after_wait(received) == IF received THEN "clear_alarm" ELSE "restart"

\* Wait for a record and write it; on a timeout go on.
StoreRecord ==
  /\ fram_pc = "store"
  /\ \/ /\ fram_store_queue # <<>>
        /\ fram_store_queue' = Tail(fram_store_queue)
        /\ LET t == Head(fram_store_queue)
           IN  /\ Fram!Write(t)
               /\ stored' = IF fram_ret'.val = 1
                            THEN ExtendedIfValid(stored, t) ELSE stored
        /\ fram_pc' = step_after_wait(TRUE)
        /\ UNCHANGED released
     \/ /\ fram_store_queue = <<>>
        /\ fram_pc' = step_after_wait(FALSE)
        /\ released' = 0
        /\ UNCHANGED <<fram_vars, fram_store_queue, stored>>
  /\ UNCHANGED <<alarm_flag, upload_queue, ack_queue, restart_required_flag,
                 upload_pc, upload_vars, mqtt_vars, published, budget>>

rtc_clear_alarm ==
  /\ fram_pc = "clear_alarm"
  /\ alarm_flag' = FALSE
  /\ fram_pc' = "restart"
  /\ UNCHANGED <<fram_vars, fram_store_queue, upload_queue, ack_queue,
                 restart_required_flag, upload_pc, upload_vars, mqtt_vars,
                 history, budget>>

CheckRestart ==
  /\ fram_pc = "restart"
  /\ fram_pc' = IF restart_required_flag THEN "restarting" ELSE "ack"
  /\ UNCHANGED <<fram_vars, alarm_flag, fram_store_queue, upload_queue, ack_queue,
                 restart_required_flag, upload_pc, upload_vars, mqtt_vars,
                 history, budget>>

\* Slip of ack_is_valid: the value is cut to 32 bits first.
ack_is_valid_truncated(t) == t % Shift > CONFIG_LAST_KNOWN_UNIX

\* The test of an acknowledged value is made on all 64 bits.
ack_is_valid(t) == t > CONFIG_LAST_KNOWN_UNIX

ReceiveAck ==
  /\ fram_pc = "ack"
  /\ \/ /\ ack_queue # <<>>
        /\ ack_queue' = Tail(ack_queue)
        /\ \/ /\ ack_is_valid(Head(ack_queue))
              /\ delete_last_read_telemetry(Head(ack_queue))
           \/ /\ ~ack_is_valid(Head(ack_queue))
              /\ UNCHANGED <<fram_vars, budget>>
     \/ /\ ack_queue = <<>>
        /\ UNCHANGED <<fram_vars, ack_queue, budget>>
  /\ fram_pc' = "read"
  /\ UNCHANGED <<alarm_flag, fram_store_queue, upload_queue, restart_required_flag,
                 upload_pc, upload_vars, mqtt_vars, history>>

ReadOldest ==
  /\ fram_pc = "read"
  /\ read_telemetry
  /\ fram_pc' = "offer"
  /\ UNCHANGED <<alarm_flag, fram_store_queue, upload_queue, ack_queue,
                 restart_required_flag, upload_pc, upload_vars, mqtt_vars, history>>

\* Offer the record to the upload task, which may still have the last offer.
OfferOldest ==
  /\ fram_pc = "offer"
  /\ \/ fram_ret.val = 0 /\ UNCHANGED upload_queue
     \/ /\ valid(fram_ret.val)
        /\ \/ /\ HasSpace(upload_queue)
              /\ upload_queue' = Append(upload_queue, fram_ret.val)
           \/ ~HasSpace(upload_queue) /\ UNCHANGED upload_queue
  /\ fram_pc' = "store"
  /\ UNCHANGED <<fram_vars, alarm_flag, fram_store_queue, ack_queue,
                 restart_required_flag, upload_pc, upload_vars, mqtt_vars,
                 history, budget>>

\* An invalid record is deleted at once ...
DeleteInvalid ==
  /\ fram_pc = "offer"
  /\ fram_ret.val # 0 /\ ~valid(fram_ret.val)
  /\ delete_last_read_telemetry(fram_ret.val)
  /\ fram_pc' = "deleted"
  /\ UNCHANGED <<alarm_flag, fram_store_queue, upload_queue, ack_queue,
                 restart_required_flag, upload_pc, upload_vars, mqtt_vars, history>>

\* ... and if the second read differs from the first, the store is emptied.
ResetIfNotDeleted ==
  /\ fram_pc = "deleted"
  /\ \/ fram_ret.val = 1 /\ UNCHANGED fram_vars
     \/ fram_ret.val = 0 /\ Fram!Reset
  /\ fram_pc' = "store"
  /\ UNCHANGED <<alarm_flag, fram_store_queue, upload_queue, ack_queue,
                 restart_required_flag, upload_pc, upload_vars, mqtt_vars,
                 history, budget>>

\* esp_restart, a second after the flag was seen; the other tasks ran on.
esp_restart == fram_pc = "restarting" /\ Restart /\ UNCHANGED budget

FramTask == \/ StoreRecord \/ rtc_clear_alarm \/ CheckRestart \/ ReceiveAck
            \/ ReadOldest \/ OfferOldest \/ DeleteInvalid \/ ResetIfNotDeleted
            \/ esp_restart
-------------------------------------------------------------------------------
(***************************************************************************)
(* The upload task.  A value received twice in a row is acknowledged again *)
(* and not published; the acknowledgement is dropped if the last one is    *)
(* still there.                                                            *)
(***************************************************************************)
\* Slip of already_published: no repeated offer is expected.
already_published_never(t) == FALSE

\* Slip of already_published: records are taken to come with growing values.
already_published_older(t) == t <= previously_uploaded_telemetry

already_published(t) == t = previously_uploaded_telemetry

ReceiveTelemetry ==
  /\ upload_pc = "receive"
  /\ \/ /\ need_to_upload_flag
        /\ upload_pc' = "publish"
        /\ UNCHANGED <<upload_queue, ack_queue, telemetry_to_upload,
                       need_to_upload_flag>>
     \/ /\ ~need_to_upload_flag /\ upload_queue = <<>>
        /\ upload_pc' = "wait"
        /\ UNCHANGED <<upload_queue, ack_queue, telemetry_to_upload,
                       need_to_upload_flag>>
     \/ /\ ~need_to_upload_flag /\ upload_queue # <<>>
        /\ telemetry_to_upload' = Head(upload_queue)
        /\ upload_queue' = Tail(upload_queue)
        /\ \/ /\ already_published(Head(upload_queue))
              /\ \/ /\ HasSpace(ack_queue)
                    /\ ack_queue' = Append(ack_queue, Head(upload_queue))
                 \/ ~HasSpace(ack_queue) /\ UNCHANGED ack_queue
              /\ upload_pc' = "wait"
              /\ UNCHANGED need_to_upload_flag
           \/ /\ ~already_published(Head(upload_queue))
              /\ need_to_upload_flag' = TRUE
              /\ upload_pc' = "publish"
              /\ UNCHANGED ack_queue
  /\ UNCHANGED <<fram_vars, alarm_flag, fram_store_queue, restart_required_flag,
                 fram_pc, previously_uploaded_telemetry, upload_error_count,
                 mqtt_vars, history, budget>>

\* The MQTT client takes the message; whether the broker has it is not known.
PublishAccepted ==
  /\ upload_pc = "publish"
  /\ outbox' = outbox \cup {telemetry_to_upload}
  /\ published' = Extended(published, telemetry_to_upload)
  /\ previously_uploaded_telemetry' = telemetry_to_upload
  /\ need_to_upload_flag' = FALSE
  /\ upload_error_count' = IF upload_error_count > 0
                           THEN upload_error_count - 1 ELSE 0
  /\ upload_pc' = "ack"
  /\ UNCHANGED <<fram_vars, alarm_flag, fram_store_queue, upload_queue, ack_queue,
                 restart_required_flag, fram_pc, telemetry_to_upload, broker,
                 stored, released, budget>>

\* Too many failures end in a restart, which the FRAM task carries out.
PublishFailed ==
  /\ upload_pc = "publish"
  /\ upload_error_count' = upload_error_count + 1
  /\ \/ /\ upload_error_count' > max_upload_errors
        /\ restart_required_flag' = TRUE
        /\ upload_pc' = "halted"
     \/ /\ upload_error_count' <= max_upload_errors
        /\ upload_pc' = "wait"
        /\ UNCHANGED restart_required_flag
  /\ UNCHANGED <<fram_vars, alarm_flag, fram_store_queue, upload_queue, ack_queue,
                 fram_pc, telemetry_to_upload, previously_uploaded_telemetry,
                 need_to_upload_flag, mqtt_vars, history, budget>>

\* The acknowledgement waits a second for space and is then given up.
SendAck ==
  /\ upload_pc = "ack"
  /\ \/ /\ HasSpace(ack_queue)
        /\ ack_queue' = Append(ack_queue, telemetry_to_upload)
     \/ ~HasSpace(ack_queue) /\ UNCHANGED ack_queue
  /\ upload_pc' = "wait"
  /\ UNCHANGED <<fram_vars, alarm_flag, fram_store_queue, upload_queue,
                 restart_required_flag, fram_pc, upload_vars, mqtt_vars,
                 history, budget>>

\* The end of the turn and, in the next, the waits for WiFi, for the broker and
\* for both again after a refresh of the JWT, none of which has a timeout.
Wait == /\ upload_pc = "wait"
        /\ upload_pc' = "receive"
        /\ UNCHANGED <<fram_vars, alarm_flag, fram_store_queue, upload_queue,
                       ack_queue, restart_required_flag, fram_pc, upload_vars,
                       mqtt_vars, history, budget>>

\* If the FRAM task does not restart the device, the upload task does.
ForceRestart == upload_pc = "halted" /\ Restart /\ UNCHANGED budget

UploadStep == \/ ReceiveTelemetry \/ PublishAccepted \/ PublishFailed
              \/ SendAck \/ ForceRestart

UploadTask == UploadStep \/ Wait
-------------------------------------------------------------------------------
Environment == \/ \E t \in Telemetry : rtc_alarm_isr(t)
               \/ rtc_set_date_time
               \/ RequestRestart
               \/ PowerLoss

Next == \/ app_main
        \/ FramTask
        \/ UploadTask
        \/ \E t \in Telemetry : Deliver(t)
        \/ Environment

Spec == Init /\ [][Next]_vars

(***************************************************************************)
(* The scheduler runs both tasks, and a publish that is tried again and    *)
(* again succeeds once.  The FRAM task's steps and the upload task's other *)
(* steps end by themselves or with a timeout; nothing is assumed of Wait.  *)
(***************************************************************************)
Fairness == /\ WF_vars(app_main)
            /\ WF_vars(FramTask)
            /\ WF_vars(UploadStep)
            /\ SF_vars(PublishAccepted)

FairSpec == Spec /\ Fairness
-------------------------------------------------------------------------------
FramTypeOK ==
  /\ fram \in Seq(Telemetry)
  /\ fram_ret \in [op : {"none", "write", "read", "delete", "reset"},
                   arg : Telemetry, val : Telemetry \cup {1}]

FramTaskTypeOK ==
  /\ fram_pc \in {"boot", "store", "clear_alarm", "restart", "ack", "read",
                  "offer", "deleted", "restarting"}
  /\ fram_pc = "offer" => fram_ret.val \in Telemetry

QueuesTypeOK ==
  /\ fram_store_queue \in Seq(Telemetry) /\ Len(fram_store_queue) <= StoreQueueLength
  /\ upload_queue \in Seq(Telemetry) /\ Len(upload_queue) <= 1
  /\ ack_queue \in Seq(Telemetry) /\ Len(ack_queue) <= 1

UploadTypeOK ==
  /\ upload_pc \in {"boot", "receive", "publish", "ack", "wait", "halted"}
  /\ telemetry_to_upload \in Telemetry
  /\ previously_uploaded_telemetry \in Telemetry
  /\ need_to_upload_flag \in BOOLEAN
  /\ upload_error_count \in Nat

HistoryTypeOK ==
  /\ outbox \subseteq Telemetry /\ broker \subseteq Telemetry
  /\ stored \in Seq(Telemetry) /\ published \in Seq(Telemetry)
  /\ released \in Nat

TypeOK == /\ FramTypeOK /\ FramTaskTypeOK /\ QueuesTypeOK
          /\ UploadTypeOK /\ HistoryTypeOK
          /\ alarm_flag \in BOOLEAN /\ restart_required_flag \in BOOLEAN
          /\ budget \in [Events -> Nat]

(***************************************************************************)
(* An alarm that is queued still holds the alarm line low, so no second    *)
(* one comes before the FRAM task has stored the first (fram_task.c clears *)
(* the alarm after the write).  The exceptions, which released counts, are *)
(* an alarm before time_init and one undone by rtc_set_date_time.  This is *)
(* why the handler may ignore a full queue of 120.                         *)
(***************************************************************************)
OneIf(b) == IF b THEN 1 ELSE 0

OneAlarmOutstanding ==
  Len(fram_store_queue) + OneIf(fram_pc = "clear_alarm")
    <= OneIf(alarm_flag) + released

(***************************************************************************)
(* What the upload task is about to publish is still the oldest record in  *)
(* the FRAM, however late or repeated the offers and acknowledgements are: *)
(* a stale offer is one of the value published last (upload_task.c:350).   *)
(***************************************************************************)
UploadHoldsOldest ==
  need_to_upload_flag => fram # <<>> /\ Head(fram) = telemetry_to_upload

(***************************************************************************)
(* Every valid record ever stored was published or is still in the FRAM,   *)
(* in the order stored, none skipped, whatever restarts and power cuts     *)
(* came between.  Equal successive records count once: nothing tells them  *)
(* apart (upload_task.c:350, fram.c:220).                                  *)
(***************************************************************************)
NoRecordSkipped == FoldLeft(ExtendedIfValid, published, fram) = stored

(***************************************************************************)
(* A delete that takes the record it names takes one that is invalid, or   *)
(* was handed to the MQTT client: however often the FRAM task's reads are  *)
(* misread, no record is offered, acknowledged and deleted unpublished     *)
(* (fram_task.c:98-140).  The comparison in the delete is no defence when  *)
(* its own read is the misread one and gives the value named (fram.c:220): *)
(* then it takes another record, which may be any.                         *)
(***************************************************************************)
DeletedWerePublished ==
  [][(fram' # fram /\ fram_ret'.op = "delete") =>
       \/ ~valid(Head(fram))
       \/ \E i \in DOMAIN published : published[i] = Head(fram)
       \/ fram_ret'.arg # Head(fram)]_vars

(***************************************************************************)
(* Once alarms and faults cease, the store drains, unless a wait of the    *)
(* upload task never ends (Connectivity tells which may): no lost offer,   *)
(* lost acknowledgement or restart leaves the two tasks waiting on each    *)
(* other.  A record 0 at the head is taken for an empty store and stays,   *)
(* with all behind it: reading nothing gives 0 as well (fram.c:183).       *)
(***************************************************************************)
StoreDrains ==
  []<>(upload_pc # "wait") => <>[](fram = <<>> \/ Head(fram) = 0)

(***************************************************************************)
(* upload_task.c:412: "if the power is lost ... that's fine, the ack       *)
(* wouldnt have been sent to FRAM if the data hasn't been uploaded to      *)
(* GCP".  False: the acknowledgement follows the MQTT client's acceptance, *)
(* and what the client holds in RAM is lost with the power.                *)
(***************************************************************************)
KeptUntilUploaded ==
  \A i \in DOMAIN stored :
    \/ stored[i] \in broker \cup outbox
    \/ \E j \in DOMAIN fram : fram[j] = stored[i]
===============================================================================
