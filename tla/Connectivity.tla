------------------------------- MODULE Connectivity -------------------------------
(***************************************************************************)
(* How the device gets and keeps its connection: the WiFi event handler,   *)
(* the MQTT client's event handler, the upload task's waits and its        *)
(* refresh of the JWT, and the restarts by which the program gets out of   *)
(* what it cannot repair.                                                  *)
(*                                                                         *)
(* The WiFi driver and the MQTT client are external.  The driver tries an  *)
(* association once for each esp_wifi_connect and tells the outcome by an  *)
(* event.  The client, while it runs, tries again and again by itself and  *)
(* calls the handler from its own task; esp_mqtt_client_stop waits until   *)
(* that task has ended.  Time is counted in ticks of which the JWT lives   *)
(* CONFIG_JWT_EXP, by the device's clock and by the broker's.              *)
(***************************************************************************)
EXTENDS ConfigMessage

CONSTANTS wifi_max_disconnected_count,  \* 3600
          mqtt_max_error_count,         \* 120
          max_upload_errors,            \* 60
          CONFIG_JWT_EXP,               \* 300 seconds
          Offset,      \* ticks that a wrong RTC is ahead of the broker, or behind
          MaxLosses,   \* losses of the network or of a session
          MaxFailures, \* calls that fail
          Delivered,   \* the version that the device starts with
          Configs      \* configurations, records of a version and a url

ASSUME LimitsAssumption ==
  /\ {wifi_max_disconnected_count, mqtt_max_error_count, max_upload_errors} \subseteq Nat
  /\ {CONFIG_JWT_EXP, Offset, MaxLosses, MaxFailures} \subseteq Nat

\* The operator puts neither quotation marks nor the texts of the keys into values.
ASSUME ConfigAssumption ==
  \A c \in Configs : {c.version, c.url} \cap {quote, version_key, url_key} = {}

VARIABLES
  reach,            \* what is up: nothing, the access point, the broker too
  losses, failures, \* history, see MaxLosses and MaxFailures
  firmware, image,  \* the version that runs; the one that starts next
  clock,            \* unset, ahead, behind or right
  station, wifi_events, wifi_disconnected_count, wifi_connected_bit,
  client, session,  \* the client's task; its connection to the broker
  client_pc,        \* whether it is about to give a broken connection up
  password_age,     \* of its JWT, by the broker's clock
  outbox,           \* whether it holds messages
  config,           \* the configuration that the broker is about to send
  mqtt_connected_flag, mqtt_error_count,
  upload_pc, upload_error_count,
  since_update,     \* now - last_updated, by the device's clock
  restart_required_flag

world == <<reach, losses, failures, firmware, image, clock>>
wifi_vars == <<station, wifi_events, wifi_disconnected_count, wifi_connected_bit>>
client_vars == <<client, session, client_pc, password_age, outbox, config>>
handler_vars == <<mqtt_connected_flag, mqtt_error_count>>
upload_vars == <<upload_pc, upload_error_count, since_update>>
vars == <<world, wifi_vars, client_vars, handler_vars, upload_vars, restart_required_flag>>

NoConfig == [version |-> "none", url |-> "none"]       \* no message
EmptyConfig == [version |-> "empty", url |-> "empty"]  \* one without content
Versions == {Delivered} \cup {c.version : c \in Configs}
Urls == {c.url : c \in Configs}

\* The version of the program that an URL leads to.
VersionAt(url) == (CHOOSE c \in Configs : c.url = url).version

Expired == CONFIG_JWT_EXP + 1        \* ages are not told apart beyond it
OlderBy(ticks, age) == IF age + ticks < Expired THEN age + ticks ELSE Expired
Older(age) == OlderBy(1, age)

jwt_valid == password_age \in 0 .. CONFIG_JWT_EXP
associated == station = "associated"
reachable == associated /\ reach = "broker"
CanConnect == reachable /\ jwt_valid

\* The program waits here until somebody else does something.
Waiting == \/ upload_pc \in {"wait_ip", "clock", "wifi_lost", "halted"}
           \/ upload_pc \in {"mqtt", "jwt_wait"} /\ mqtt_connected_flag = 0
-------------------------------------------------------------------------------
Init ==
  /\ reach \in {"none", "ap", "broker"} /\ losses = 0 /\ failures = 0
  /\ firmware = Delivered /\ image = firmware
  /\ clock \in {"unset", "ahead", "behind", "right"}
  /\ station = "off" /\ wifi_events = << >>
  /\ wifi_disconnected_count = 0 /\ wifi_connected_bit = FALSE
  /\ client = "absent" /\ session = FALSE /\ client_pc = "loop"
  /\ password_age = Expired /\ outbox = FALSE /\ config = NoConfig
  /\ mqtt_connected_flag = 0 /\ mqtt_error_count = 0
  /\ upload_pc = "wifi_init" /\ upload_error_count = 0
  /\ since_update = Expired
  /\ restart_required_flag = FALSE

\* All that is in RAM starts anew, and the RTC gives the time.
esp_restart ==
  /\ firmware' = image
  /\ station' = "off" /\ wifi_events' = << >>
  /\ wifi_disconnected_count' = 0 /\ wifi_connected_bit' = FALSE
  /\ client' = "absent" /\ session' = FALSE /\ client_pc' = "loop"
  /\ password_age' = Expired /\ outbox' = FALSE /\ config' = NoConfig
  /\ mqtt_connected_flag' = 0 /\ mqtt_error_count' = 0
  /\ upload_pc' = "wifi_init" /\ upload_error_count' = 0
  /\ since_update' = Expired
  /\ restart_required_flag' = FALSE
  /\ UNCHANGED <<reach, losses, failures, image, clock>>

\* The FRAM task looks at the flag in every turn.
FramTaskRestart == restart_required_flag /\ esp_restart
-------------------------------------------------------------------------------
\* The world outside.
Loss == losses < MaxLosses /\ losses' = losses + 1 /\ UNCHANGED failures
Failure == failures < MaxFailures /\ failures' = failures + 1

LoseNetwork ==
  /\ Loss
  /\ \/ reach = "broker" /\ reach' \in {"none", "ap"}
     \/ reach = "ap" /\ reach' = "none"
  /\ UNCHANGED <<firmware, image, clock, wifi_vars, client_vars, handler_vars,
                 upload_vars, restart_required_flag>>

RegainNetwork ==
  /\ reach # "broker" /\ reach' = "broker"
  /\ UNCHANGED <<losses, failures, firmware, image, clock, wifi_vars, client_vars,
                 handler_vars, upload_vars, restart_required_flag>>

TimePasses == /\ since_update' = Older(since_update)
              /\ password_age' = Older(password_age)

\* The client tries every ten seconds: what can connect does so within a tick.
Tick ==
  /\ Waiting /\ TimePasses
  /\ ~(client = "running" /\ client_pc = "loop" /\ ~session /\ CanConnect)
  /\ UNCHANGED <<world, wifi_vars, client, session, client_pc, outbox, config,
                 handler_vars, upload_pc, upload_error_count, restart_required_flag>>

\* SNTP corrects the clock; what was updated before may now be in the future.
Synchronise ==
  /\ reachable /\ clock # "right"
  /\ clock' = "right"
  /\ \/ clock = "ahead" /\ since_update' = since_update - Offset
     \/ clock = "behind" /\ since_update' = OlderBy(Offset, since_update)
     \/ (clock = "unset" \/ since_update = Expired) /\ UNCHANGED since_update
  /\ UNCHANGED <<reach, losses, failures, firmware, image, wifi_vars, client_vars,
                 handler_vars, upload_pc, upload_error_count, restart_required_flag>>

World == LoseNetwork \/ RegainNetwork \/ Tick \/ Synchronise
-------------------------------------------------------------------------------
\* The WiFi driver.
StationEvent(next, event) ==
  /\ station' = next
  /\ wifi_events' = Append(wifi_events, event)
  /\ UNCHANGED <<world, wifi_disconnected_count, wifi_connected_bit, client_vars,
                 handler_vars, upload_vars, restart_required_flag>>

Associate == /\ station = "connecting" /\ reach # "none"
             /\ StationEvent("associated", "got_ip")

AssociationEnds == /\ station \in {"connecting", "associated"} /\ reach = "none"
                   /\ StationEvent("idle", "sta_disconnected")

\* Slip of esp_wifi_connect_after: once too often is left to the restart.
esp_wifi_connect_after_few(count) ==
  IF station = "idle" /\ count < wifi_max_disconnected_count THEN "connecting" ELSE station

\* A driver that was shut down does not connect.
esp_wifi_connect_after(count) == IF station = "idle" THEN "connecting" ELSE station

\* wifi.c's event_handler, run by the event loop's task.
OnStart ==
  /\ wifi_events # << >> /\ Head(wifi_events) = "sta_start"
  /\ wifi_events' = Tail(wifi_events)
  /\ station' = esp_wifi_connect_after(0)
  /\ UNCHANGED <<world, wifi_disconnected_count, wifi_connected_bit, client_vars,
                 handler_vars, upload_vars, restart_required_flag>>

OnDisconnected ==
  LET count == wifi_disconnected_count + 1
  IN /\ wifi_events # << >> /\ Head(wifi_events) = "sta_disconnected"
     /\ \/ count > 2 * wifi_max_disconnected_count /\ esp_restart
        \/ /\ count <= 2 * wifi_max_disconnected_count
           /\ wifi_disconnected_count' = count
           /\ restart_required_flag' = (restart_required_flag
                                          \/ count > wifi_max_disconnected_count)
           /\ wifi_events' = Tail(wifi_events)
           /\ station' = esp_wifi_connect_after(count)
           /\ UNCHANGED <<world, wifi_connected_bit, client_vars, handler_vars,
                          upload_vars>>

OnGotIp ==
  /\ wifi_events # << >> /\ Head(wifi_events) = "got_ip"
  /\ wifi_events' = Tail(wifi_events)
  /\ wifi_disconnected_count' = 0
  /\ wifi_connected_bit' = TRUE
  /\ UNCHANGED <<world, station, client_vars, handler_vars, upload_vars,
                 restart_required_flag>>

WifiTask == \/ Associate \/ AssociationEnds
            \/ OnStart \/ OnDisconnected \/ OnGotIp
-------------------------------------------------------------------------------
\* The MQTT client's task and the handler that it calls.
\* MQTT_EVENT_CONNECTED: the handler subscribes, so the broker sends the device's
\* configuration.
Connected ==
  /\ client = "running" /\ client_pc = "loop" /\ ~session /\ CanConnect
  /\ session' = TRUE
  /\ config' \in Configs \cup {EmptyConfig}
  /\ mqtt_connected_flag' = 1
  /\ UNCHANGED <<world, wifi_vars, client, client_pc, password_age, outbox,
                 mqtt_error_count, upload_vars, restart_required_flag>>

\* Slip of error_count_after: an attempt that the broker refuses is not counted.
error_count_after_broken(count) ==
  IF ~session \/ count > mqtt_max_error_count THEN count ELSE count + 1

\* Beyond the limit nothing looks at it any more.
error_count_after(count) == IF count > mqtt_max_error_count THEN count ELSE count + 1

\* MQTT_EVENT_ERROR: no connection, a refused JWT, or a connection that breaks.
\* The handler keeps the client's task for a minute.
Error ==
  LET count == error_count_after(mqtt_error_count)
  IN /\ client = "running" /\ client_pc = "loop" /\ ~CanConnect
     /\ session' = FALSE /\ client_pc' = "abort" /\ config' = NoConfig
     /\ mqtt_error_count' = count
     /\ restart_required_flag' = (restart_required_flag \/ count > mqtt_max_error_count)
     /\ UNCHANGED <<world, wifi_vars, client, password_age, outbox,
                    mqtt_connected_flag, upload_vars>>

\* MQTT_EVENT_DISCONNECTED after an error, or when the broker says nothing any more.
Disconnected ==
  /\ client = "running"
  /\ \/ client_pc = "abort" /\ UNCHANGED <<losses, failures>>
     \/ client_pc = "loop" /\ session /\ Loss
  /\ session' = FALSE /\ client_pc' = "loop" /\ config' = NoConfig
  /\ mqtt_connected_flag' = 0
  /\ UNCHANGED <<reach, firmware, image, clock, wifi_vars, client, password_age,
                 outbox, mqtt_error_count, upload_vars, restart_required_flag>>

\* MQTT_EVENT_PUBLISHED
Published ==
  /\ client_pc = "loop" /\ session /\ outbox
  /\ outbox' = FALSE
  /\ mqtt_error_count' = 0
  /\ UNCHANGED <<world, wifi_vars, client, session, client_pc, password_age, config,
                 mqtt_connected_flag, upload_vars, restart_required_flag>>

\* Slip of may_update: a second message is not kept from another download.
may_update_again == TRUE

may_update == ~restart_required_flag

\* MQTT_EVENT_DATA: a download that succeeds makes the next start run the new
\* program.  One may fail for any reason, one being that getValueFromJson gave
\* the URL's last byte, its terminator, back to the heap.
Data ==
  /\ client_pc = "loop" /\ session /\ config # NoConfig
  /\ config' = NoConfig
  /\ LET json == IF config = EmptyConfig THEN << >> ELSE Text(config)
         urls == IF is_json_valid(json) /\ may_update
                 THEN UpdateUrls(json, firmware) ELSE {}
     IN \/ UNCHANGED <<image, restart_required_flag>>
        \/ \E url \in urls :
             /\ url[1] \in Urls
             /\ image' = VersionAt(url[1])
             /\ restart_required_flag' = TRUE
  /\ UNCHANGED <<reach, losses, failures, firmware, clock, wifi_vars, client, session,
                 client_pc, password_age, outbox, handler_vars, upload_vars>>

MqttTask == Connected \/ Error \/ Disconnected \/ Published \/ Data
-------------------------------------------------------------------------------
\* The upload task.
Goto(next) == upload_pc' = next

Halt == Goto("halted") /\ restart_required_flag' = TRUE

\* esp_mqtt_client_stop: the client may or may not tell that it disconnects, but
\* what it has begun it ends first.
StopClient ==
  /\ client' = "stopped" /\ session' = FALSE /\ client_pc' = "loop"
  /\ config' = NoConfig
  /\ mqtt_connected_flag' \in {0} \cup
       {flag \in {mqtt_connected_flag} : client_pc = "loop"}
  /\ UNCHANGED <<password_age, outbox, mqtt_error_count>>

wifi_init_sta ==
  /\ upload_pc = "wifi_init"
  /\ station' = "idle" /\ wifi_events' = <<"sta_start">>
  /\ Goto("wait_ip")
  /\ UNCHANGED <<world, wifi_disconnected_count, wifi_connected_bit, client_vars,
                 handler_vars, upload_error_count, since_update,
                 restart_required_flag>>

WaitForIp ==
  /\ upload_pc = "wait_ip" /\ wifi_connected_bit
  /\ Goto("clock")
  /\ UNCHANGED <<world, wifi_vars, client_vars, handler_vars, upload_error_count,
                 since_update, restart_required_flag>>

\* The first jwt_update_check only waits for the clock: last_updated is still 0.
WaitForClock ==
  /\ upload_pc = "clock" /\ clock # "unset"
  /\ since_update' = 0
  /\ Goto("create")
  /\ UNCHANGED <<world, wifi_vars, client_vars, handler_vars, upload_error_count,
                 restart_required_flag>>

\* NULL for want of memory ends in char_malloc_checker.
createJwt ==
  /\ \/ /\ \/ upload_pc = "create" /\ Goto("start")
           \/ upload_pc = "jwt_create" /\ Goto("jwt_stop")
        /\ UNCHANGED <<failures, restart_required_flag>>
     \/ upload_pc \in {"create", "jwt_create"} /\ Failure /\ Halt
  /\ UNCHANGED <<reach, losses, firmware, image, clock, wifi_vars, client_vars,
                 handler_vars, upload_error_count, since_update>>

\* The age of the JWT that was made when last_updated was set.
jwt_age == CASE clock = "ahead" -> since_update - Offset
             [] clock = "behind" -> OlderBy(Offset, since_update)
             [] OTHER -> since_update

StartClient ==
  \/ client' = "running" /\ UNCHANGED failures
  \/ client' = "stopped" /\ Failure

esp_mqtt_client_start ==
  /\ upload_pc = "start"
  /\ StartClient
  /\ password_age' = jwt_age
  /\ Goto("wifi")
  /\ UNCHANGED <<reach, losses, firmware, image, clock, wifi_vars, session, client_pc, outbox,
                 config, handler_vars, upload_error_count, since_update,
                 restart_required_flag>>

\* The loop: no client without WiFi.
CheckWifi ==
  /\ \/ /\ upload_pc \in {"wifi", "wifi_lost"} /\ associated
        /\ Goto("mqtt")
        /\ UNCHANGED <<client_vars, handler_vars>>
     \/ /\ upload_pc = "wifi" /\ ~associated
        /\ Goto("wifi_lost")
        /\ IF client = "running" THEN StopClient ELSE UNCHANGED <<client_vars, handler_vars>>
  /\ UNCHANGED <<world, wifi_vars, upload_error_count, since_update,
                 restart_required_flag>>

WaitForMqtt ==
  /\ mqtt_connected_flag = 1
  /\ \/ upload_pc = "mqtt" /\ Goto("jwt")
     \/ upload_pc = "jwt_wait" /\ Goto("publish")
  /\ UNCHANGED <<world, wifi_vars, client_vars, handler_vars, upload_error_count,
                 since_update, restart_required_flag>>

\* Nine tenths of the JWT's life.
refresh_after == (9 * CONFIG_JWT_EXP) \div 10

jwt_update_check ==
  /\ upload_pc = "jwt"
  /\ \/ since_update > refresh_after /\ since_update' = 0 /\ Goto("jwt_create")
     \/ since_update <= refresh_after /\ UNCHANGED since_update /\ Goto("publish")
  /\ UNCHANGED <<world, wifi_vars, client_vars, handler_vars, upload_error_count,
                 restart_required_flag>>

\* Slip of refresh_order: the flag is lowered after the client was started.
refresh_order_flag_last == <<"jwt_stop", "jwt_config", "jwt_start", "jwt_flag", "jwt_wait">>

\* The steps of a refresh when the client can be stopped.
refresh_order == <<"jwt_stop", "jwt_flag", "jwt_config", "jwt_start", "jwt_wait">>

NextOf(step) ==
  LET i == CHOOSE i \in DOMAIN refresh_order : refresh_order[i] = step
  IN refresh_order[i + 1]

JwtStop ==
  /\ upload_pc = "jwt_stop"
  /\ \/ client = "running" /\ StopClient /\ Goto(NextOf("jwt_stop"))
     \/ /\ client # "running" /\ UNCHANGED <<client_vars, handler_vars>>
        /\ Goto("jwt_wait")
  /\ UNCHANGED <<world, wifi_vars, upload_error_count, since_update,
                 restart_required_flag>>

JwtFlag ==
  /\ upload_pc = "jwt_flag"
  /\ mqtt_connected_flag' = 0
  /\ Goto(NextOf("jwt_flag"))
  /\ UNCHANGED <<world, wifi_vars, client_vars, mqtt_error_count,
                 upload_error_count, since_update, restart_required_flag>>

\* If the client has no memory for the new configuration it keeps the old one.
JwtConfig ==
  /\ upload_pc = "jwt_config"
  /\ \/ password_age' = jwt_age /\ UNCHANGED failures
     \/ Failure /\ UNCHANGED password_age
  /\ Goto(NextOf("jwt_config"))
  /\ UNCHANGED <<reach, losses, firmware, image, clock, wifi_vars, client, session, client_pc,
                 outbox, config, handler_vars, upload_error_count, since_update,
                 restart_required_flag>>

JwtStart ==
  /\ upload_pc = "jwt_start"
  /\ StartClient
  /\ Goto(NextOf("jwt_start"))
  /\ UNCHANGED <<reach, losses, firmware, image, clock, wifi_vars, session, client_pc,
                 password_age, outbox, config, handler_vars, upload_error_count,
                 since_update, restart_required_flag>>

\* A turn takes a tick at most: xQueuePeek waits up to 90 seconds.
TurnEnds == /\ Goto("wifi")
            /\ TimePasses \/ UNCHANGED <<since_update, password_age>>

\* Slip of after_success: the count goes below zero.
after_success_unguarded(count) == count - 1

\* decrement_upload_error_count
after_success(count) == IF count > 0 THEN count - 1 ELSE count

\* Without a session the client may take a message for later or refuse it.
Publish ==
  /\ upload_pc = "publish"
  /\ TurnEnds
  /\ \/ outbox' = TRUE /\ upload_error_count' = after_success(upload_error_count)
     \/ UNCHANGED <<outbox, upload_error_count>>    \* nothing to publish
  /\ UNCHANGED <<world, wifi_vars, client, session, client_pc, config, handler_vars,
                 restart_required_flag>>

\* increment_upload_error_count; above the limit stop_mqtt ends all connections.
PublishFails ==
  /\ upload_pc = "publish"
  /\ IF session THEN Failure ELSE UNCHANGED failures
  /\ upload_error_count' = upload_error_count + 1
  /\ \/ /\ upload_error_count < max_upload_errors
        /\ TurnEnds
        /\ UNCHANGED <<wifi_vars, client, session, client_pc, outbox, config,
                       handler_vars, restart_required_flag>>
     \/ /\ upload_error_count >= max_upload_errors
        /\ Halt
        /\ IF client = "running" THEN StopClient ELSE UNCHANGED <<client_vars, handler_vars>>
        /\ station' = "off"
        /\ UNCHANGED <<wifi_events, wifi_disconnected_count, wifi_connected_bit,
                       since_update>>
  /\ UNCHANGED <<reach, losses, firmware, image, clock>>

\* Eight minutes after Halt.
ForceRestart == upload_pc = "halted" /\ esp_restart

UploadTask == \/ wifi_init_sta \/ WaitForIp \/ WaitForClock \/ createJwt
              \/ esp_mqtt_client_start \/ CheckWifi \/ WaitForMqtt
              \/ jwt_update_check \/ JwtStop \/ JwtFlag \/ JwtConfig \/ JwtStart
              \/ Publish \/ PublishFails \/ ForceRestart

Next == World \/ FramTaskRestart \/ WifiTask \/ MqttTask \/ UploadTask

Spec == Init /\ [][Next]_vars

(***************************************************************************)
(* The tasks run: the client's task goes on by itself, the FRAM task looks *)
(* at the flag in every turn.  Nothing is assumed of the WiFi, of SNTP or  *)
(* of the network.                                                         *)
(***************************************************************************)
Fairness == /\ WF_vars(FramTaskRestart)
            /\ WF_vars(Connected \/ Error \/ (client_pc = "abort" /\ Disconnected))
            /\ WF_vars(UploadTask)

FairSpec == Spec /\ Fairness

\* Once faults are over the network is there, and so are the WiFi driver, which
\* answers every attempt, its handler, and SNTP.
NetworkReturns == /\ FairSpec
                  /\ WF_vars(WifiTask) /\ WF_vars(Synchronise)
                  /\ WF_vars(RegainNetwork)
-------------------------------------------------------------------------------
TypeOK ==
  /\ reach \in {"none", "ap", "broker"}
  /\ losses \in 0 .. MaxLosses /\ failures \in 0 .. MaxFailures
  /\ {firmware, image} \subseteq Versions /\ clock \in {"unset", "ahead", "behind", "right"}
  /\ station \in {"off", "idle", "connecting", "associated"}
  /\ wifi_events \in Seq({"sta_start", "sta_disconnected", "got_ip"})
  /\ wifi_disconnected_count \in 0 .. 2 * wifi_max_disconnected_count
  /\ wifi_connected_bit \in BOOLEAN
  /\ client \in {"absent", "stopped", "running"} /\ session \in BOOLEAN
  /\ client_pc \in {"loop", "abort"} /\ outbox \in BOOLEAN
  /\ {password_age, since_update} \subseteq -Offset .. Expired
  /\ config \in Configs \cup {NoConfig, EmptyConfig}
  /\ mqtt_connected_flag \in {0, 1}
  /\ mqtt_error_count \in 0 .. mqtt_max_error_count + 1
  /\ upload_pc \in {"wifi_init", "wait_ip", "clock", "create", "start", "wifi",
                    "wifi_lost", "mqtt", "jwt", "jwt_create", "jwt_wait", "publish",
                    "halted"} \cup {refresh_order[i] : i \in DOMAIN refresh_order}
  /\ upload_error_count \in 0 .. max_upload_errors + 1
  /\ restart_required_flag \in BOOLEAN

(***************************************************************************)
(* While the client runs mqtt_connected_flag tells whether it has a        *)
(* session, but for the moment in which it gives a broken one up: the      *)
(* upload task's reset of the flag in the refresh of the JWT               *)
(* (upload_task.c:305) never hides a connection that was just made, for    *)
(* which the loop at 340 would wait in vain.                               *)
(***************************************************************************)
FlagFollowsSession ==
  (client = "running" /\ client_pc = "loop") => (mqtt_connected_flag = 1 <=> session)

(***************************************************************************)
(* Every wait of the upload task for the client (upload_task.c:279, 337)   *)
(* ends while the client runs: it connects, or its errors make the device  *)
(* restart (mqtt.c:114).  So does the wait with a JWT that has run out     *)
(* meanwhile, and which only the task that waits could renew.              *)
(***************************************************************************)
WaitEnds ==
  (upload_pc \in {"mqtt", "jwt_wait"} /\ client = "running")
    ~> (upload_pc \notin {"mqtt", "jwt_wait"})

(***************************************************************************)
(* A station without access point has an attempt before it: the driver     *)
(* tries only when asked, and every way through the handler asks again or  *)
(* restarts the device (wifi.c:18).                                        *)
(***************************************************************************)
StationTriesAgain ==
  station = "idle" => \E i \in DOMAIN wifi_events : wifi_events[i] # "got_ip"

(***************************************************************************)
(* The next start runs another program only if the configuration asked for *)
(* one other than the running, it is the one that the configuration's url  *)
(* leads to, and no earlier download waits for the restart (mqtt.c:99,     *)
(* 237).                                                                   *)
(***************************************************************************)
UpdateFollowsConfig ==
  [][image' # image => /\ image = firmware
                       /\ config.version # firmware
                       /\ image' = VersionAt(config.url)]_vars

(***************************************************************************)
(* upload_task.c:373: "keep trying to send the message until successful".  *)
(* False: when WiFi is lost the upload task stops the client, and then     *)
(* waits for a connection that only a running client can make.             *)
(***************************************************************************)
UploadsResume == []<>(upload_pc = "publish" /\ session)
===============================================================================
