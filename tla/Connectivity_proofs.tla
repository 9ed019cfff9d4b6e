-------------------------- MODULE Connectivity_proofs --------------------------
(***************************************************************************)
(* Proofs about Connectivity, for every limit, every life of the JWT and   *)
(* every number of losses and failures.                                    *)
(***************************************************************************)
EXTENDS Connectivity, SequenceTheorems, FiniteSetTheorems, TLAPS

\* The order of a refresh, step by step.
LEMMA RefreshSteps ==
  /\ NextOf("jwt_stop") = "jwt_flag" /\ NextOf("jwt_flag") = "jwt_config"
  /\ NextOf("jwt_config") = "jwt_start" /\ NextOf("jwt_start") = "jwt_wait"
<1>1. /\ refresh_order[1] = "jwt_stop" /\ refresh_order[2] = "jwt_flag"
      /\ refresh_order[3] = "jwt_config" /\ refresh_order[4] = "jwt_start"
      /\ refresh_order[5] = "jwt_wait" /\ DOMAIN refresh_order = 1 .. 5
  BY DEF refresh_order
<1>2. ASSUME NEW k \in 1 .. 4
      PROVE  NextOf(refresh_order[k]) = refresh_order[k + 1]
  <2> DEFINE P(i) == i \in DOMAIN refresh_order /\ refresh_order[i] = refresh_order[k]
  <2>1. P(k) /\ \A i : P(i) => i = k
    BY <1>1
  <2>2. (CHOOSE i \in DOMAIN refresh_order : refresh_order[i] = refresh_order[k]) = k
    BY <2>1
  <2> QED BY <2>2 DEF NextOf
<1>3. /\ NextOf(refresh_order[1]) = refresh_order[1 + 1]
      /\ NextOf(refresh_order[2]) = refresh_order[2 + 1]
      /\ NextOf(refresh_order[3]) = refresh_order[3 + 1]
      /\ NextOf(refresh_order[4]) = refresh_order[4 + 1]
  BY <1>2
<1> QED BY <1>1, <1>3
-------------------------------------------------------------------------------
(***************************************************************************)
(* Why the flag follows the session: a client that does not run has no     *)
(* session and nothing to give up; none runs before the first start nor    *)
(* between the stop and the start of a refresh; and in the latter stretch  *)
(* the flag is lowered before the client starts.                           *)
(***************************************************************************)
BeforeStart == {"wifi_init", "wait_ip", "clock", "create", "start"}

FlagInv ==
  /\ client # "running" => ~session /\ client_pc = "loop"
  /\ upload_pc \in BeforeStart => client = "absent" /\ mqtt_connected_flag = 0
  /\ upload_pc \in {"jwt_flag", "jwt_config", "jwt_start"} => client = "stopped"
  /\ upload_pc \in {"jwt_config", "jwt_start"} => mqtt_connected_flag = 0
  /\ FlagFollowsSession

flag_vars == <<client, session, client_pc, mqtt_connected_flag, upload_pc>>

LEMMA FlagInitially == Init => FlagInv
BY DEF Init, FlagInv, FlagFollowsSession, BeforeStart

LEMMA FlagUnchanged == FlagInv /\ UNCHANGED flag_vars => FlagInv'
BY DEF FlagInv, FlagFollowsSession, BeforeStart, flag_vars

LEMMA FlagAfterRestart == esp_restart => FlagInv'
BY DEF esp_restart, FlagInv, FlagFollowsSession, BeforeStart

\* The world, the WiFi driver and its handler leave the client alone or restart.
LEMMA FlagWorld ==
  ASSUME FlagInv, World \/ FramTaskRestart \/ WifiTask
  PROVE  FlagInv'
<1>1. CASE World
  BY <1>1, FlagUnchanged
     DEF World, LoseNetwork, RegainNetwork, Tick, Synchronise, flag_vars, client_vars,
         upload_vars, handler_vars, wifi_vars, world
<1>2. CASE FramTaskRestart
  BY <1>2, FlagAfterRestart DEF FramTaskRestart
<1>3. CASE Associate \/ AssociationEnds \/ OnStart \/ OnGotIp
  BY <1>3, FlagUnchanged
     DEF Associate, AssociationEnds, OnStart, OnGotIp, StationEvent, flag_vars,
         client_vars, upload_vars, handler_vars, world
<1>4. CASE OnDisconnected
  BY <1>4, FlagUnchanged, FlagAfterRestart
     DEF OnDisconnected, flag_vars, client_vars, upload_vars, handler_vars, world
<1> QED BY <1>1, <1>2, <1>3, <1>4 DEF WifiTask

\* The client's task sets flag and session together.
LEMMA FlagMqtt ==
  ASSUME FlagInv, MqttTask
  PROVE  FlagInv'
<1> USE DEF upload_vars
<1>1. CASE Connected
  BY <1>1 DEF Connected, FlagInv, FlagFollowsSession, BeforeStart
<1>2. CASE Error
  BY <1>2 DEF Error, FlagInv, FlagFollowsSession, BeforeStart
<1>3. CASE Disconnected
  BY <1>3 DEF Disconnected, FlagInv, FlagFollowsSession, BeforeStart
<1>4. CASE Published \/ Data
  BY <1>4, FlagUnchanged
     DEF Published, Data, flag_vars, handler_vars, world
<1> QED BY <1>1, <1>2, <1>3, <1>4 DEF MqttTask

\* The steps of a refresh.
LEMMA FlagRefresh ==
  ASSUME FlagInv, JwtStop \/ JwtFlag \/ JwtConfig \/ JwtStart
  PROVE  FlagInv'
<1> USE RefreshSteps DEF Goto, FlagInv, FlagFollowsSession, BeforeStart, client_vars,
                         handler_vars
<1>1. CASE JwtStop
  BY <1>1 DEF JwtStop, StopClient
<1>2. CASE JwtFlag
  BY <1>2 DEF JwtFlag
<1>3. CASE JwtConfig
  BY <1>3 DEF JwtConfig
<1>4. CASE JwtStart
  BY <1>4 DEF JwtStart, StartClient
<1> QED BY <1>1, <1>2, <1>3, <1>4

\* The rest of the upload task.
LEMMA FlagUpload ==
  ASSUME FlagInv, UploadTask
  PROVE  FlagInv'
<1> USE DEF Goto, client_vars, handler_vars
<1>1. CASE wifi_init_sta \/ WaitForIp \/ WaitForClock
  BY <1>1 DEF wifi_init_sta, WaitForIp, WaitForClock, FlagInv, FlagFollowsSession,
              BeforeStart
<1>2. CASE createJwt
  BY <1>2 DEF createJwt, Halt, FlagInv, FlagFollowsSession, BeforeStart
<1>3. CASE esp_mqtt_client_start
  BY <1>3 DEF esp_mqtt_client_start, StartClient, FlagInv, FlagFollowsSession, BeforeStart
<1>4. CASE CheckWifi
  BY <1>4 DEF CheckWifi, StopClient, FlagInv, FlagFollowsSession, BeforeStart
<1>5. CASE WaitForMqtt \/ jwt_update_check
  BY <1>5 DEF WaitForMqtt, jwt_update_check, FlagInv, FlagFollowsSession, BeforeStart
<1>6. CASE Publish
  BY <1>6 DEF Publish, TurnEnds, FlagInv, FlagFollowsSession, BeforeStart
<1>7. CASE PublishFails
  BY <1>7 DEF PublishFails, TurnEnds, Halt, StopClient, FlagInv, FlagFollowsSession,
              BeforeStart
<1>8. CASE ForceRestart
  BY <1>8, FlagAfterRestart DEF ForceRestart
<1> QED
  BY <1>1, <1>2, <1>3, <1>4, <1>5, <1>6, <1>7, <1>8, FlagRefresh DEF UploadTask

(***************************************************************************)
(* mqtt_connected_flag tells whether a running client has a session, for   *)
(* every interleaving of the client's handler with the refresh of the JWT  *)
(* (upload_task.c:300-326, mqtt.c:43-73).                                  *)
(***************************************************************************)
THEOREM FlagIsTrue == Spec => []FlagFollowsSession
<1>1. FlagInv /\ [Next]_vars => FlagInv'
  <2>1. FlagInv /\ Next => FlagInv'
    BY FlagWorld, FlagMqtt, FlagUpload DEF Next
  <2>2. UNCHANGED vars => UNCHANGED flag_vars
    BY DEF vars, flag_vars, client_vars, handler_vars, upload_vars
  <2> QED BY <2>1, <2>2, FlagUnchanged
<1>2. FlagInv => FlagFollowsSession
  BY DEF FlagInv
<1> QED BY FlagInitially, <1>1, <1>2, PTL DEF Spec
-------------------------------------------------------------------------------
(***************************************************************************)
(* Why the station always has an attempt before it: the handler takes one  *)
(* event at a time, and the only one that it answers without a call of     *)
(* esp_wifi_connect is not the one that an idle station waits for.         *)
(***************************************************************************)
Events == {"sta_start", "sta_disconnected", "got_ip"}

StationInv == wifi_events \in Seq(Events) /\ StationTriesAgain

station_vars == <<station, wifi_events>>

LEMMA StationInitially == Init => StationInv
BY EmptySeq DEF Init, StationInv, StationTriesAgain

LEMMA StationUnchanged == StationInv /\ UNCHANGED station_vars => StationInv'
BY DEF StationInv, StationTriesAgain, station_vars

LEMMA StationAfterRestart == esp_restart => StationInv'
BY EmptySeq DEF esp_restart, StationInv, StationTriesAgain

\* The driver adds an event, one that the handler answers if the station is idle.
LEMMA StationDriver ==
  ASSUME StationInv, Associate \/ AssociationEnds
  PROVE  StationInv'
<1>1. PICK e \in Events :
        /\ wifi_events' = Append(wifi_events, e)
        /\ station' = "idle" => e # "got_ip"
  BY DEF Associate, AssociationEnds, StationEvent, Events
<1>2. /\ wifi_events' \in Seq(Events)
      /\ Len(wifi_events) + 1 \in DOMAIN wifi_events'
      /\ wifi_events'[Len(wifi_events) + 1] = e
  BY <1>1, AppendProperties, LenProperties DEF StationInv
<1> QED BY <1>1, <1>2 DEF StationInv, StationTriesAgain

\* The handler asks for an attempt, unless the event was the address.
LEMMA StationHandler ==
  ASSUME StationInv, OnStart \/ OnDisconnected \/ OnGotIp
  PROVE  StationInv'
<1>1. CASE OnDisconnected /\ esp_restart
  BY <1>1, StationAfterRestart
<1>2. CASE ~(OnDisconnected /\ esp_restart)
  <2>1. /\ wifi_events # << >> /\ wifi_events' = Tail(wifi_events)
        /\ \/ station' # "idle"
           \/ station' = station /\ Head(wifi_events) = "got_ip"
    BY <1>2 DEF OnStart, OnDisconnected, OnGotIp, esp_wifi_connect_after
  <2>2. /\ wifi_events' \in Seq(Events)
        /\ Len(wifi_events) \in Nat /\ Len(wifi_events') = Len(wifi_events) - 1
        /\ \A i \in 1 .. Len(wifi_events') : wifi_events'[i] = wifi_events[i + 1]
        /\ Head(wifi_events) = wifi_events[1]
        /\ DOMAIN wifi_events = 1 .. Len(wifi_events)
        /\ DOMAIN wifi_events' = 1 .. Len(wifi_events')
    BY <2>1, HeadTailProperties, LenProperties, EmptySeq DEF StationInv
  <2>3. ASSUME station' = "idle"
        PROVE  \E i \in DOMAIN wifi_events' : wifi_events'[i] # "got_ip"
    <3>1. PICK i \in DOMAIN wifi_events : wifi_events[i] # "got_ip"
      BY <2>1, <2>3 DEF StationInv, StationTriesAgain
    <3>2. i # 1
      BY <2>1, <2>2, <2>3, <3>1
    <3>3. i - 1 \in DOMAIN wifi_events' /\ wifi_events'[i - 1] = wifi_events[i]
      BY <2>2, <3>1, <3>2
    <3> QED BY <3>1, <3>3
  <2> QED BY <2>2, <2>3 DEF StationInv, StationTriesAgain
<1> QED BY <1>1, <1>2

\* The upload task sets WiFi up with the event of its start, and shuts it down.
LEMMA StationUpload ==
  ASSUME StationInv, UploadTask
  PROVE  StationInv'
<1>1. CASE wifi_init_sta
  <2>1. wifi_events' = <<"sta_start">>
    BY <1>1 DEF wifi_init_sta
  <2> QED BY <2>1 DEF StationInv, StationTriesAgain, Events
<1>2. CASE ForceRestart
  BY <1>2, StationAfterRestart DEF ForceRestart
<1>3. CASE PublishFails
  BY <1>3 DEF PublishFails, wifi_vars, StationInv, StationTriesAgain
<1>4. CASE ~(wifi_init_sta \/ ForceRestart \/ PublishFails)
  <2>1. UNCHANGED wifi_vars
    BY <1>4 DEF UploadTask, WaitForIp, WaitForClock, createJwt, esp_mqtt_client_start,
                CheckWifi, WaitForMqtt, jwt_update_check, JwtStop, JwtFlag, JwtConfig,
                JwtStart, Publish
  <2> QED BY <2>1, StationUnchanged DEF wifi_vars, station_vars
<1> QED BY <1>1, <1>2, <1>3, <1>4

(***************************************************************************)
(* A station without access point has an attempt before it, however its    *)
(* events interleave with losses, restarts and the upload task (wifi.c:18).*)
(***************************************************************************)
THEOREM StationNeverGivesUp == Spec => []StationTriesAgain
<1>1. StationInv /\ [Next]_vars => StationInv'
  <2> SUFFICES ASSUME StationInv, [Next]_vars PROVE StationInv'
    OBVIOUS
  <2>1. CASE World \/ MqttTask \/ UNCHANGED vars
    <3>1. UNCHANGED wifi_vars
      BY <2>1 DEF World, LoseNetwork, RegainNetwork, Tick, Synchronise, MqttTask,
                  Connected, Error, Disconnected, Published, Data, vars
    <3> QED BY <3>1, StationUnchanged DEF wifi_vars, station_vars
  <2>2. CASE FramTaskRestart
    BY <2>2, StationAfterRestart DEF FramTaskRestart
  <2>3. CASE WifiTask
    BY <2>3, StationDriver, StationHandler DEF WifiTask
  <2>4. CASE UploadTask
    BY <2>4, StationUpload
  <2> QED BY <2>1, <2>2, <2>3, <2>4 DEF Next
<1>2. StationInv => StationTriesAgain
  BY DEF StationInv
<1> QED BY StationInitially, <1>1, <1>2, PTL DEF Spec
-------------------------------------------------------------------------------
(***************************************************************************)
(* What mqtt.c's search finds: if a key stands at one place only and a     *)
(* quoted value follows it, that value.                                    *)
(***************************************************************************)
LEMMA ValueFound ==
  ASSUME NEW S, NEW json \in Seq(S), NEW key, NEW k \in Nat \ {0},
         k + 5 <= Len(json), json[k] = key,
         json[k + 1] = quote, json[k + 2] # quote, json[k + 3] = quote,
         json[k + 4] # quote, json[k + 5] = quote,
         \A i \in 1 .. Len(json) : json[i] = key => i = k
  PROVE  getValueFromJson(json, key) = <<json[k + 4]>>
<1>0. Len(json) \in Nat
  BY LenProperties
<1>1. Min(QuotesAfter(json, k)) = k + 1
  <2>1. /\ k + 1 \in QuotesAfter(json, k)
        /\ \A j \in QuotesAfter(json, k) : j \in Int /\ k + 1 <= j
    BY <1>0 DEF QuotesAfter
  <2>2. \A m \in QuotesAfter(json, k) :
          (\A j \in QuotesAfter(json, k) : m <= j) => m = k + 1
    BY <2>1
  <2> QED BY <2>1, <2>2 DEF Min
<1>2. Min(QuotesAfter(json, k + 1)) = k + 3
  <2>1. /\ k + 3 \in QuotesAfter(json, k + 1)
        /\ \A j \in QuotesAfter(json, k + 1) : j \in Int /\ k + 3 <= j
    BY <1>0 DEF QuotesAfter
  <2>2. \A m \in QuotesAfter(json, k + 1) :
          (\A j \in QuotesAfter(json, k + 1) : m <= j) => m = k + 3
    BY <2>1
  <2> QED BY <2>1, <2>2 DEF Min
<1>3. Min(QuotesAfter(json, k + 3)) = k + 5
  <2>1. /\ k + 5 \in QuotesAfter(json, k + 3)
        /\ \A j \in QuotesAfter(json, k + 3) : j \in Int /\ k + 5 <= j
    BY <1>0 DEF QuotesAfter
  <2>2. \A m \in QuotesAfter(json, k + 3) :
          (\A j \in QuotesAfter(json, k + 3) : m <= j) => m = k + 5
    BY <2>1
  <2> QED BY <2>1, <2>2 DEF Min
<1>4. ValueAt(json, k) = SubSeq(json, k + 4, k + 4)
  <2>1. ValueAt(json, k) = SubSeq(json, (k + 3) + 1, (k + 5) - 1)
    BY <1>1, <1>2, <1>3, Zenon DEF ValueAt
  <2>2. (k + 3) + 1 = k + 4 /\ (k + 5) - 1 = k + 4
    OBVIOUS
  <2> QED BY <2>1, <2>2, Zenon
<1>5. SubSeq(json, k + 4, k + 4) = <<json[k + 4]>>
  <2> DEFINE t == SubSeq(json, k + 4, k + 4)
             n == k + 4
  <2>1. \A i \in n .. n : json[i] \in S
    BY <1>0, ElementOfSeq
  <2>2. n \in Int /\ n - n + 1 = 1
    OBVIOUS
  <2>3. t \in Seq(S) /\ Len(t) = 1 /\ t[1] = json[n]
    <3>1. n + 1 - 1 = n /\ 1 \in 1 .. n - n + 1 /\ n <= n
      OBVIOUS
    <3> HIDE DEF n
    <3>2. /\ SubSeq(json, n, n) \in Seq(S)
          /\ Len(SubSeq(json, n, n)) = IF n <= n THEN n - n + 1 ELSE 0
          /\ \A i \in 1 .. n - n + 1 : SubSeq(json, n, n)[i] = json[n + i - 1]
      BY <2>1, <2>2, SubSeqProperties
    <3>3. t = SubSeq(json, n, n)
      BY DEF n
    <3> HIDE DEF t
    <3> QED BY <2>2, <3>1, <3>2, <3>3
  <2> HIDE DEF t, n
  <2>4. t = <<t[1]>>
    <3>1. t[1] \in S
      <4>1. 1 \in 1 .. Len(t)
        BY <2>3
      <4> QED BY <2>3, <4>1, ElementOfSeq
    <3>2. <<t[1]>> \in Seq(S) /\ Len(<<t[1]>>) = 1 /\ <<t[1]>>[1] = t[1]
      BY <3>1
    <3>3. \A i \in 1 .. Len(t) : t[i] = <<t[1]>>[i]
      BY <2>3, <3>2
    <3> QED BY <2>3, <3>2, <3>3, SeqEqual
  <2> QED BY <2>3, <2>4 DEF t, n
<1>6. Cardinality(QuotesAfter(json, k)) >= 3
  <2> DEFINE Q == QuotesAfter(json, k)
             A == {k + 1}
             B == A \cup {k + 3}
             C == B \cup {k + 5}
  <2>1. k + 3 \notin A /\ k + 5 \notin B
    OBVIOUS
  <2>2. C \in SUBSET Q
    BY <1>0 DEF QuotesAfter
  <2>3. Q \in SUBSET (k + 1 .. Len(json)) /\ IsFiniteSet(k + 1 .. Len(json))
    <3>1. Q \in SUBSET (k + 1 .. Len(json))
      BY DEF QuotesAfter
    <3>2. k + 1 \in Int /\ Len(json) \in Int
      BY <1>0
    <3>3. IsFiniteSet(k + 1 .. Len(json))
      BY <3>2, FS_Interval, Zenon
    <3> QED BY <3>1, <3>3
  <2>4. IsFiniteSet(A) /\ Cardinality(A) = 1
    BY FS_Singleton
  <2> HIDE DEF A, Q
  <2>5. IsFiniteSet(B) /\ Cardinality(B) = Cardinality(A) + 1
    BY <2>1, <2>4, FS_AddElement, Zenon
  <2> HIDE DEF B
  <2>6. Cardinality(C) = Cardinality(B) + 1
    BY <2>1, <2>5, FS_AddElement, Zenon
  <2> HIDE DEF C
  <2>7. Cardinality(C) <= Cardinality(Q) /\ Cardinality(Q) \in Nat
    <3>1. IsFiniteSet(Q)
      BY <2>3, FS_Subset, Zenon
    <3>2. Cardinality(C) <= Cardinality(Q)
      BY <2>2, <3>1, FS_Subset, Zenon
    <3>3. Cardinality(Q) \in Nat
      BY <3>1, FS_CardinalityType, Zenon
    <3> QED BY <3>2, <3>3
  <2>8. Cardinality(C) = 3
    BY <2>4, <2>5, <2>6
  <2> QED BY <2>7, <2>8 DEF Q
<1> DEFINE found == {i \in 1 .. Len(json) :
                       /\ json[i] = key
                       /\ Cardinality(QuotesAfter(json, i)) >= 3
                       /\ ValueAt(json, i) # << >>}
<1>7. found = {k}
  <2>1. <<json[k + 4]>> # << >>
    OBVIOUS
  <2>2. k \in found
    <3>1. k \in 1 .. Len(json)
      BY <1>0
    <3>2. ValueAt(json, k) # << >>
      BY <1>4, <1>5, <2>1, Zenon
    <3> QED BY <1>6, <3>1, <3>2, Zenon
  <2>3. \A i \in found : i = k
    OBVIOUS
  <2> HIDE DEF found
  <2> QED BY <2>2, <2>3
<1>8. Max({k}) = k
  BY DEF Max
<1> QED BY <1>4, <1>5, <1>7, <1>8 DEF getValueFromJson

\* The places of a concatenation.
LEMMA Joined ==
  ASSUME NEW S, NEW s \in Seq(S), NEW t \in Seq(S)
  PROVE  /\ s \o t \in Seq(S) /\ Len(s \o t) = Len(s) + Len(t)
         /\ \A i \in 1 .. Len(s) : (s \o t)[i] = s[i]
         /\ \A i \in 1 .. Len(t) : (s \o t)[Len(s) + i] = t[i]
<1> DEFINE r == s \o t
           m == Len(s)
           n == Len(t)
<1>1. r \in Seq(S) /\ Len(r) = m + n
  BY ConcatProperties, Zenon
<1>2. \A i \in 1 .. m + n : r[i] = IF i <= m THEN s[i] ELSE t[i - m]
  BY ConcatProperties, Zenon
<1>3. m \in Nat /\ n \in Nat
  BY LenProperties, Zenon
<1> HIDE DEF r, m, n
<1>4. ASSUME NEW i \in 1 .. m PROVE r[i] = s[i]
  <2>1. i \in 1 .. m + n /\ i <= m
    BY <1>3
  <2> QED BY <1>2, <2>1
<1>5. ASSUME NEW i \in 1 .. n PROVE r[m + i] = t[i]
  <2>1. m + i \in 1 .. m + n /\ ~(m + i <= m) /\ (m + i) - m = i
    BY <1>3
  <2> QED BY <1>2, <2>1
<1> QED BY <1>1, <1>4, <1>5 DEF r, m, n

\* The pieces of a configuration's message.
Pieces(c) == {quote, opening, closing, punctuation, version_key, url_key, c.version, c.url}

LEMMA TextOfConfig ==
  ASSUME NEW c
  PROVE  /\ Text(c) \in Seq(Pieces(c)) /\ Len(Text(c)) = 17
         /\ Text(c)[1] = opening /\ Text(c)[17] = closing
         /\ Text(c)[2] = quote /\ Text(c)[3] = version_key /\ Text(c)[4] = quote
         /\ Text(c)[5] = punctuation /\ Text(c)[6] = quote
         /\ Text(c)[7] = c.version /\ Text(c)[8] = quote /\ Text(c)[9] = punctuation
         /\ Text(c)[10] = quote /\ Text(c)[11] = url_key /\ Text(c)[12] = quote
         /\ Text(c)[13] = punctuation /\ Text(c)[14] = quote
         /\ Text(c)[15] = c.url /\ Text(c)[16] = quote
<1> DEFINE v == Entry(version_key, c.version)
           u == Entry(url_key, c.url)
           one == <<opening>>
           mid == <<punctuation>>
           end == <<closing>>
           s1 == one \o v
           s2 == s1 \o mid
           s3 == s2 \o u
           text == s3 \o end
<1>1. /\ v \in Seq(Pieces(c)) /\ Len(v) = 7
      /\ v[1] = quote /\ v[2] = version_key /\ v[3] = quote /\ v[4] = punctuation
      /\ v[5] = quote /\ v[6] = c.version /\ v[7] = quote
  BY DEF Entry, Pieces
<1>2. /\ u \in Seq(Pieces(c)) /\ Len(u) = 7
      /\ u[1] = quote /\ u[2] = url_key /\ u[3] = quote /\ u[4] = punctuation
      /\ u[5] = quote /\ u[6] = c.url /\ u[7] = quote
  BY DEF Entry, Pieces
<1>3. /\ one \in Seq(Pieces(c)) /\ Len(one) = 1 /\ one[1] = opening
      /\ mid \in Seq(Pieces(c)) /\ Len(mid) = 1 /\ mid[1] = punctuation
      /\ end \in Seq(Pieces(c)) /\ Len(end) = 1 /\ end[1] = closing
  BY DEF Pieces
<1>4. Text(c) = text
  BY DEF Text
<1> HIDE DEF v, u, one, mid, end
<1>5. /\ s1 \in Seq(Pieces(c)) /\ Len(s1) = 8 /\ s1[1] = opening
      /\ \A i \in 1 .. 7 : s1[1 + i] = v[i]
  <2> DEFINE m == Len(one)
             n == Len(v)
  <2>0. one \in Seq(Pieces(c)) /\ v \in Seq(Pieces(c))
    BY <1>1, <1>3, Zenon
  <2>1. m = 1 /\ n = 7
    BY <1>1, <1>3, Zenon
  <2>2. /\ s1 \in Seq(Pieces(c)) /\ Len(s1) = m + n
        /\ \A i \in 1 .. m : s1[i] = one[i]
        /\ \A i \in 1 .. n : s1[m + i] = v[i]
    BY <2>0, Joined
  <2> HIDE DEF m, n, s1
  <2>3. m = 1 /\ n = 7 /\ m + n = 8
    BY <2>1
  <2>4. s1 \in Seq(Pieces(c)) /\ Len(s1) = 8
    BY <2>2, <2>3, Zenon
  <2>5. \A i \in 1 .. 1 : s1[i] = one[i]
    BY <2>2, <2>3
  <2>6. \A i \in 1 .. 7 : s1[1 + i] = v[i]
    BY <2>2, <2>3
  <2>7. s1[1] = opening
    BY <1>3, <2>5
  <2> QED BY <2>4, <2>6, <2>7, Zenon
<1> HIDE DEF s1
<1>6. /\ s2 \in Seq(Pieces(c)) /\ Len(s2) = 9 /\ s2[9] = punctuation
      /\ \A i \in 1 .. 8 : s2[i] = s1[i]
  <2> DEFINE m == Len(s1)
             n == Len(mid)
  <2>0. s1 \in Seq(Pieces(c)) /\ mid \in Seq(Pieces(c))
    BY <1>3, <1>5, Zenon
  <2>1. m = 8 /\ n = 1
    BY <1>3, <1>5, Zenon
  <2>2. /\ s2 \in Seq(Pieces(c)) /\ Len(s2) = m + n
        /\ \A i \in 1 .. m : s2[i] = s1[i]
        /\ \A i \in 1 .. n : s2[m + i] = mid[i]
    BY <2>0, Joined
  <2> HIDE DEF m, n, s2
  <2>3. m = 8 /\ n = 1 /\ m + n = 9
    BY <2>1
  <2>4. s2 \in Seq(Pieces(c)) /\ Len(s2) = 9
    BY <2>2, <2>3, Zenon
  <2>5. \A i \in 1 .. 8 : s2[i] = s1[i]
    BY <2>2, <2>3
  <2>6. \A i \in 1 .. 1 : s2[8 + i] = mid[i]
    BY <2>2, <2>3
  <2>7. s2[9] = punctuation
    BY <1>3, <2>6
  <2> QED BY <2>4, <2>5, <2>7, Zenon
<1> HIDE DEF s2
<1>7. /\ s3 \in Seq(Pieces(c)) /\ Len(s3) = 16
      /\ \A i \in 1 .. 9 : s3[i] = s2[i]
      /\ \A i \in 1 .. 7 : s3[9 + i] = u[i]
  <2> DEFINE m == Len(s2)
             n == Len(u)
  <2>0. s2 \in Seq(Pieces(c)) /\ u \in Seq(Pieces(c))
    BY <1>2, <1>6, Zenon
  <2>1. m = 9 /\ n = 7
    BY <1>2, <1>6, Zenon
  <2>2. /\ s3 \in Seq(Pieces(c)) /\ Len(s3) = m + n
        /\ \A i \in 1 .. m : s3[i] = s2[i]
        /\ \A i \in 1 .. n : s3[m + i] = u[i]
    BY <2>0, Joined
  <2> HIDE DEF m, n, s3
  <2>3. m = 9 /\ n = 7 /\ m + n = 16
    BY <2>1
  <2>4. s3 \in Seq(Pieces(c)) /\ Len(s3) = 16
    BY <2>2, <2>3, Zenon
  <2>5. \A i \in 1 .. 9 : s3[i] = s2[i]
    BY <2>2, <2>3
  <2>6. \A i \in 1 .. 7 : s3[9 + i] = u[i]
    BY <2>2, <2>3
  <2> QED BY <2>4, <2>5, <2>6, Zenon
<1> HIDE DEF s3
<1>8. /\ text \in Seq(Pieces(c)) /\ Len(text) = 17 /\ text[17] = closing
      /\ \A i \in 1 .. 16 : text[i] = s3[i]
  <2> DEFINE m == Len(s3)
             n == Len(end)
  <2>0. s3 \in Seq(Pieces(c)) /\ end \in Seq(Pieces(c))
    BY <1>3, <1>7, Zenon
  <2>1. m = 16 /\ n = 1
    BY <1>3, <1>7, Zenon
  <2>2. /\ text \in Seq(Pieces(c)) /\ Len(text) = m + n
        /\ \A i \in 1 .. m : text[i] = s3[i]
        /\ \A i \in 1 .. n : text[m + i] = end[i]
    BY <2>0, Joined
  <2> HIDE DEF m, n, text
  <2>3. m = 16 /\ n = 1 /\ m + n = 17
    BY <2>1
  <2>4. text \in Seq(Pieces(c)) /\ Len(text) = 17
    BY <2>2, <2>3, Zenon
  <2>5. \A i \in 1 .. 16 : text[i] = s3[i]
    BY <2>2, <2>3
  <2>6. \A i \in 1 .. 1 : text[16 + i] = end[i]
    BY <2>2, <2>3
  <2>7. text[17] = closing
    BY <1>3, <2>6
  <2> QED BY <2>4, <2>5, <2>7, Zenon
<1> HIDE DEF text
\* The places one by one.
<1>9. \A i \in 1 .. 8 : i \in 1 .. 9 /\ i \in 1 .. 16
  OBVIOUS
<1>10. \A i \in 1 .. 7 : 1 + i \in 1 .. 8 /\ 9 + i \in 1 .. 16
  OBVIOUS
<1>11. \A i \in 1 .. 8 : text[i] = s1[i]
  BY <1>6, <1>7, <1>8, <1>9, Zenon
<1>12. text[1] = opening /\ text[9] = punctuation
  <2>1. 1 \in 1 .. 8 /\ 9 \in 1 .. 9 /\ 9 \in 1 .. 16
    OBVIOUS
  <2>2. text[1] = s1[1] /\ text[9] = s3[9] /\ s3[9] = s2[9]
    BY <1>7, <1>8, <1>11, <2>1, Zenon
  <2> QED BY <1>5, <1>6, <2>2, Zenon
<1>13. \A i \in 1 .. 7 : text[1 + i] = v[i] /\ text[9 + i] = u[i]
  BY <1>5, <1>7, <1>8, <1>10, <1>11, Zenon
<1>14. /\ text[2] = v[1] /\ text[3] = v[2] /\ text[4] = v[3]
       /\ text[5] = v[4] /\ text[6] = v[5] /\ text[7] = v[6]
       /\ text[8] = v[7]
  BY <1>13
<1>15. /\ text[10] = u[1] /\ text[11] = u[2] /\ text[12] = u[3]
       /\ text[13] = u[4] /\ text[14] = u[5] /\ text[15] = u[6]
       /\ text[16] = u[7]
  BY <1>13
<1> QED BY <1>1, <1>2, <1>8, <1>12, <1>14, <1>15, <1>4, Zenon

\* The search finds the operator's values.
LEMMA ConfigIsRead ==
  ASSUME NEW c \in Configs
  PROVE  /\ getValueFromJson(Text(c), version_key) = <<c.version>>
         /\ getValueFromJson(Text(c), url_key) = <<c.url>>
<1>1. /\ quote # opening /\ quote # closing /\ quote # punctuation
      /\ version_key # url_key
      /\ version_key # quote /\ version_key # opening /\ version_key # closing
      /\ version_key # punctuation
      /\ url_key # quote /\ url_key # opening /\ url_key # closing
      /\ url_key # punctuation
      /\ c.version # quote /\ c.version # version_key /\ c.version # url_key
      /\ c.url # quote /\ c.url # version_key /\ c.url # url_key
  BY TextAssumption, ConfigAssumption
<1>2. \A i \in 1 .. 17 :
        i \in {1, 2, 3, 4, 5, 6, 7, 8, 9, 10, 11, 12, 13, 14, 15, 16, 17}
  OBVIOUS
<1> DEFINE json == Text(c)
<1>3. json \in Seq(Pieces(c)) /\ Len(json) = 17
  BY TextOfConfig
<1>4. \A i \in 1 .. Len(json) : /\ json[i] = version_key => i = 3
                                /\ json[i] = url_key => i = 11
  <2>1. /\ json[1] = opening /\ json[2] = quote /\ json[4] = quote
        /\ json[5] = punctuation /\ json[6] = quote /\ json[7] = c.version
        /\ json[8] = quote /\ json[9] = punctuation
    BY TextOfConfig
  <2>2. /\ json[10] = quote /\ json[12] = quote
        /\ json[13] = punctuation /\ json[14] = quote /\ json[15] = c.url
        /\ json[16] = quote /\ json[17] = closing
    BY TextOfConfig
  <2>3. json[3] = version_key /\ json[11] = url_key
    BY TextOfConfig
  <2> HIDE DEF json
  <2>4. \A i \in {1, 2, 4, 5, 6, 7, 8, 9} : json[i] # version_key /\ json[i] # url_key
    BY <1>1, <2>1
  <2>5. \A i \in {10, 12, 13, 14, 15, 16, 17} :
          json[i] # version_key /\ json[i] # url_key
    BY <1>1, <2>2
  <2>6. SUFFICES ASSUME NEW i \in 1 .. Len(json)
                 PROVE  /\ json[i] = version_key => i = 3
                        /\ json[i] = url_key => i = 11
    OBVIOUS
  <2>7. \/ i \in {1, 2, 4, 5, 6, 7, 8, 9} \/ i \in {10, 12, 13, 14, 15, 16, 17}
        \/ i = 3 \/ i = 11
    BY <1>2, <1>3
  <2>8. CASE i = 3
    BY <1>1, <2>3, <2>8
  <2>9. CASE i = 11
    BY <1>1, <2>3, <2>9
  <2> QED BY <2>4, <2>5, <2>7, <2>8, <2>9
<1>5. getValueFromJson(json, version_key) = <<json[7]>>
  <2>1. PICK k \in Nat \ {0} : k = 3
    OBVIOUS
  <2>2. /\ json[k] = version_key /\ json[k + 1] = quote /\ json[k + 2] = punctuation
        /\ json[k + 3] = quote /\ json[k + 4] = c.version /\ json[k + 5] = quote
    BY <2>1, TextOfConfig
  <2> HIDE DEF json
  <2>3. json[k + 2] # quote /\ json[k + 4] # quote
    BY <1>1, <2>2
  <2>4. \A i \in 1 .. Len(json) : json[i] = version_key => i = k
    BY <1>4, <2>1
  <2>5. k + 5 <= Len(json)
    BY <1>3, <2>1
  <2>6. getValueFromJson(json, version_key) = <<json[k + 4]>>
    BY <1>3, <2>2, <2>3, <2>4, <2>5, ValueFound
  <2> QED BY <2>1, <2>6
<1>6. getValueFromJson(json, url_key) = <<json[15]>>
  <2>1. PICK k \in Nat \ {0} : k = 11
    OBVIOUS
  <2>2. /\ json[k] = url_key /\ json[k + 1] = quote /\ json[k + 2] = punctuation
        /\ json[k + 3] = quote /\ json[k + 4] = c.url /\ json[k + 5] = quote
    BY <2>1, TextOfConfig
  <2> HIDE DEF json
  <2>3. json[k + 2] # quote /\ json[k + 4] # quote
    BY <1>1, <2>2
  <2>4. \A i \in 1 .. Len(json) : json[i] = url_key => i = k
    BY <1>4, <2>1
  <2>5. k + 5 <= Len(json)
    BY <1>3, <2>1
  <2>6. getValueFromJson(json, url_key) = <<json[k + 4]>>
    BY <1>3, <2>2, <2>3, <2>4, <2>5, ValueFound
  <2> QED BY <2>1, <2>6
<1> QED BY <1>5, <1>6, TextOfConfig
-------------------------------------------------------------------------------
(***************************************************************************)
(* Why an update follows the configuration: a download ends in a request   *)
(* for a restart, and until that request no other program waits.           *)
(***************************************************************************)
UpdateInv == /\ config \in Configs \cup {NoConfig, EmptyConfig}
             /\ ~restart_required_flag => image = firmware

update_vars == <<firmware, image, config, restart_required_flag>>

LEMMA UpdateInitially == Init => UpdateInv
BY DEF Init, UpdateInv

LEMMA UpdateUnchanged == UpdateInv /\ UNCHANGED update_vars => UpdateInv'
BY DEF UpdateInv, update_vars

LEMMA UpdateAfterRestart == esp_restart => UpdateInv'
BY DEF esp_restart, UpdateInv

\* Most steps leave the image alone, and lower the flag only by a restart.
Settled == /\ image' = image
           /\ \/ esp_restart
              \/ /\ firmware' = firmware
                 /\ config' \in {config, NoConfig, EmptyConfig} \cup Configs
                 /\ restart_required_flag => restart_required_flag'

LEMMA UpdateSettled == UpdateInv /\ Settled => UpdateInv'
BY UpdateAfterRestart DEF UpdateInv, Settled

LEMMA OthersSettled ==
  ASSUME Next \/ UNCHANGED vars, ~Data
  PROVE  Settled
<1> USE DEF Settled, world, client_vars, handler_vars, wifi_vars, upload_vars, Goto,
            StopClient, StartClient, Halt, TurnEnds, Failure, Loss
<1>1. CASE World \/ UNCHANGED vars
  BY <1>1 DEF World, LoseNetwork, RegainNetwork, Tick, Synchronise, vars
<1>2. CASE FramTaskRestart \/ ForceRestart
  BY <1>2 DEF FramTaskRestart, ForceRestart, esp_restart
<1>3. CASE Associate \/ AssociationEnds \/ OnStart \/ OnGotIp
  BY <1>3 DEF Associate, AssociationEnds, StationEvent, OnStart, OnGotIp
<1>4. CASE OnDisconnected
  <2>1. CASE esp_restart
    BY <2>1 DEF esp_restart
  <2>2. CASE ~esp_restart
    <3>1. UNCHANGED <<firmware, image, config>>
      BY <1>4, <2>2 DEF OnDisconnected
    <3>2. restart_required_flag => restart_required_flag'
      BY <1>4, <2>2, Zenon DEF OnDisconnected
    <3> QED BY <3>1, <3>2
  <2> QED BY <2>1, <2>2
<1>5. CASE Connected \/ Disconnected \/ Published
  BY <1>5 DEF Connected, Disconnected, Published
<1>6. CASE Error
  <2>1. UNCHANGED <<firmware, image>> /\ config' = NoConfig
    BY <1>6 DEF Error
  <2>2. restart_required_flag => restart_required_flag'
    BY <1>6, Zenon DEF Error
  <2> QED BY <2>1, <2>2
<1>7. CASE \/ wifi_init_sta \/ WaitForIp \/ WaitForClock \/ createJwt
           \/ esp_mqtt_client_start \/ CheckWifi \/ WaitForMqtt
  BY <1>7 DEF wifi_init_sta, WaitForIp, WaitForClock, createJwt, esp_mqtt_client_start,
              CheckWifi, WaitForMqtt
<1>8. CASE \/ jwt_update_check \/ JwtStop \/ JwtFlag \/ JwtConfig \/ JwtStart
           \/ Publish
  BY <1>8 DEF jwt_update_check, JwtStop, JwtFlag, JwtConfig, JwtStart, Publish
<1>9. CASE PublishFails
  BY <1>9 DEF PublishFails
<1> QED BY <1>1, <1>2, <1>3, <1>4, <1>5, <1>6, <1>7, <1>8, <1>9
        DEF Next, WifiTask, MqttTask, UploadTask

\* What a step may do to the program that starts next.
UpdateIsAsked == image' # image => /\ image = firmware
                                   /\ config.version # firmware
                                   /\ image' = VersionAt(config.url)

LEMMA DataFollowsConfig ==
  ASSUME UpdateInv, Data
  PROVE  UpdateInv' /\ UpdateIsAsked
<1>1. config' = NoConfig /\ firmware' = firmware
  BY DEF Data
<1>2. CASE UNCHANGED <<image, restart_required_flag>>
  BY <1>1, <1>2 DEF UpdateInv, UpdateIsAsked
<1>3. CASE ~UNCHANGED <<image, restart_required_flag>>
  <2> DEFINE json == IF config = EmptyConfig THEN << >> ELSE Text(config)
  <2>1. PICK url \in UpdateUrls(json, firmware) :
          /\ is_json_valid(json) /\ may_update
          /\ image' = VersionAt(url[1]) /\ restart_required_flag' = TRUE
    BY <1>3 DEF Data
  <2>2. config # EmptyConfig
    BY <2>1, EmptySeq DEF is_json_valid
  <2>3. config \in Configs /\ json = Text(config)
    BY <2>2 DEF UpdateInv, Data
  <2>4. /\ getValueFromJson(json, version_key) = <<config.version>>
        /\ getValueFromJson(json, url_key) = <<config.url>>
    BY <2>3, ConfigIsRead
  <2>5. url = <<config.url>> /\ <<config.version>> # <<firmware>>
    BY <2>1, <2>4 DEF UpdateUrls
  <2>6. url[1] = config.url /\ config.version # firmware
    BY <2>5
  <2> QED BY <1>1, <2>1, <2>6 DEF UpdateInv, UpdateIsAsked, may_update
<1> QED BY <1>2, <1>3

(***************************************************************************)
(* The next start runs another program only if the configuration asked for *)
(* one other than the running, and then the one it names (mqtt.c:99, 237), *)
(* for every configuration whose values are no texts of keys and every     *)
(* number of messages, losses and restarts.                                *)
(***************************************************************************)
THEOREM UpdateIsTheConfigured == Spec => UpdateFollowsConfig
<1>1. UpdateInv /\ [Next]_vars => UpdateInv' /\ UpdateIsAsked
  <2> SUFFICES ASSUME UpdateInv, [Next]_vars PROVE UpdateInv' /\ UpdateIsAsked
    OBVIOUS
  <2>1. CASE Data
    BY <2>1, DataFollowsConfig
  <2>2. CASE ~Data
    <3>1. Settled
      BY <2>2, OthersSettled
    <3> QED BY <3>1, UpdateSettled DEF Settled, UpdateIsAsked
  <2> QED BY <2>1, <2>2
<1>2. UpdateIsAsked <=> (image' # image => /\ image = firmware
                                           /\ config.version # firmware
                                           /\ image' = VersionAt(config.url))
  BY DEF UpdateIsAsked
<1> QED BY <1>1, <1>2, UpdateInitially, PTL DEF Spec, UpdateFollowsConfig
-------------------------------------------------------------------------------
(***************************************************************************)
(* Type correctness, part by part.  The upload errors stay below their     *)
(* limit until the task halts, and a clock that is ahead has not yet been  *)
(* set back behind the last update.                                        *)
(***************************************************************************)
Steps == {"wifi_init", "wait_ip", "clock", "create", "start", "wifi", "wifi_lost", "mqtt",
          "jwt", "jwt_create", "jwt_stop", "jwt_flag", "jwt_config", "jwt_start",
          "jwt_wait", "publish", "halted"}

WorldOK == /\ reach \in {"none", "ap", "broker"}
           /\ losses \in 0 .. MaxLosses /\ failures \in 0 .. MaxFailures
           /\ firmware \in Versions /\ image \in Versions
           /\ clock \in {"unset", "ahead", "behind", "right"}

StationOK == /\ station \in {"off", "idle", "connecting", "associated"}
             /\ wifi_events \in Seq(Events)
             /\ wifi_disconnected_count \in 0 .. 2 * wifi_max_disconnected_count
             /\ wifi_connected_bit \in BOOLEAN

ClientOK == /\ client \in {"absent", "stopped", "running"} /\ session \in BOOLEAN
            /\ client_pc \in {"loop", "abort"} /\ outbox \in BOOLEAN
            /\ config \in Configs \cup {NoConfig, EmptyConfig}
            /\ mqtt_connected_flag \in {0, 1}
            /\ mqtt_error_count \in 0 .. mqtt_max_error_count + 1
            /\ restart_required_flag \in BOOLEAN

Age == -Offset .. Expired

AgesOK == /\ password_age \in Age /\ since_update \in Age
          /\ clock = "ahead" => since_update >= 0

UploadOK == /\ upload_pc \in Steps
            /\ upload_error_count \in 0 .. max_upload_errors + 1
            /\ upload_pc # "halted" => upload_error_count <= max_upload_errors

TypeInv == WorldOK /\ StationOK /\ ClientOK /\ AgesOK /\ UploadOK

LEMMA LimitsTyped ==
  /\ wifi_max_disconnected_count \in Nat /\ mqtt_max_error_count \in Nat
  /\ max_upload_errors \in Nat /\ CONFIG_JWT_EXP \in Nat /\ Offset \in Nat
  /\ MaxLosses \in Nat /\ MaxFailures \in Nat
BY LimitsAssumption

LEMMA AgesTyped ==
  /\ Expired \in Age /\ 0 \in Age /\ Expired >= 0
  /\ \A a \in Age : /\ Older(a) \in Age /\ (a >= 0 => Older(a) >= 0)
                   /\ OlderBy(Offset, a) \in Age
BY LimitsTyped DEF Age, Expired, Older, OlderBy

LEMMA StepsOfRefresh ==
  Steps = {"wifi_init", "wait_ip", "clock", "create", "start", "wifi",
           "wifi_lost", "mqtt", "jwt", "jwt_create", "jwt_wait", "publish",
           "halted"} \cup {refresh_order[i] : i \in DOMAIN refresh_order}
<1>1. DOMAIN refresh_order = {1, 2, 3, 4, 5}
  BY DEF refresh_order
<1>2. /\ refresh_order[1] = "jwt_stop" /\ refresh_order[2] = "jwt_flag"
      /\ refresh_order[3] = "jwt_config" /\ refresh_order[4] = "jwt_start"
      /\ refresh_order[5] = "jwt_wait"
  BY DEF refresh_order
<1> DEFINE r == refresh_order
<1> HIDE DEF r
<1>3. {r[i] : i \in DOMAIN r} = {"jwt_stop", "jwt_flag", "jwt_config", "jwt_start", "jwt_wait"}
  BY <1>1, <1>2 DEF r
<1> QED BY <1>3 DEF Steps, r

LEMMA TypeParts == TypeInv => TypeOK
<1> SUFFICES ASSUME TypeInv PROVE TypeOK
  OBVIOUS
<1>1. upload_pc \in Steps
  BY DEF TypeInv, UploadOK
<1>2. wifi_events \in Seq({"sta_start", "sta_disconnected", "got_ip"})
  BY DEF TypeInv, StationOK, Events
<1>3. {password_age, since_update} \subseteq -Offset .. Expired
  BY DEF TypeInv, AgesOK, Age
<1>4. {firmware, image} \subseteq Versions
  BY DEF TypeInv, WorldOK
<1> QED BY <1>1, <1>2, <1>3, <1>4, StepsOfRefresh, Zenon
        DEF TypeOK, TypeInv, WorldOK, StationOK, ClientOK, UploadOK

LEMMA TypeInitially == Init => TypeInv
<1> SUFFICES ASSUME Init PROVE TypeInv
  OBVIOUS
<1>1. WorldOK
  BY LimitsTyped DEF Init, WorldOK, Versions
<1>2. StationOK
  <2>1. /\ station = "off" /\ wifi_events = << >>
        /\ wifi_disconnected_count = 0 /\ wifi_connected_bit = FALSE
    BY DEF Init
  <2>2. wifi_events \in Seq(Events)
    BY <2>1, EmptySeq
  <2>3. wifi_disconnected_count \in 0 .. 2 * wifi_max_disconnected_count
    BY <2>1, LimitsTyped
  <2> QED BY ONLY <2>1, <2>2, <2>3 DEF StationOK
<1>3. ClientOK
  <2>1. /\ client = "absent" /\ session = FALSE /\ client_pc = "loop"
        /\ outbox = FALSE /\ config = NoConfig /\ mqtt_connected_flag = 0
        /\ mqtt_error_count = 0 /\ restart_required_flag = FALSE
    BY DEF Init
  <2>2. mqtt_error_count \in 0 .. mqtt_max_error_count + 1
    BY <2>1, LimitsTyped
  <2> QED BY ONLY <2>1, <2>2 DEF ClientOK
<1>4. AgesOK
  BY AgesTyped DEF Init, AgesOK
<1>5. UploadOK
  BY LimitsTyped DEF Init, UploadOK, Steps
<1> QED BY <1>1, <1>2, <1>3, <1>4, <1>5 DEF TypeInv

LEMMA TypeAfterRestart == TypeInv /\ esp_restart => TypeInv'
<1> SUFFICES ASSUME TypeInv, esp_restart PROVE TypeInv'
  OBVIOUS
<1>1. WorldOK'
  BY DEF esp_restart, TypeInv, WorldOK
<1>2. StationOK'
  <2>1. /\ station' = "off" /\ wifi_events' = << >>
        /\ wifi_disconnected_count' = 0 /\ wifi_connected_bit' = FALSE
    BY DEF esp_restart
  <2>2. wifi_events' \in Seq(Events)
    BY <2>1, EmptySeq
  <2>3. wifi_disconnected_count' \in 0 .. 2 * wifi_max_disconnected_count
    BY <2>1, LimitsTyped
  <2> QED BY ONLY <2>1, <2>2, <2>3 DEF StationOK
<1>3. ClientOK'
  <2>1. /\ client' = "absent" /\ session' = FALSE /\ client_pc' = "loop"
        /\ outbox' = FALSE /\ config' = NoConfig /\ mqtt_connected_flag' = 0
        /\ mqtt_error_count' = 0 /\ restart_required_flag' = FALSE
    BY DEF esp_restart
  <2>2. mqtt_error_count' \in 0 .. mqtt_max_error_count + 1
    BY <2>1, LimitsTyped
  <2> QED BY ONLY <2>1, <2>2 DEF ClientOK
<1>4. AgesOK'
  BY AgesTyped DEF esp_restart, AgesOK
<1>5. UploadOK'
  BY LimitsTyped DEF esp_restart, UploadOK, Steps
<1> QED BY <1>1, <1>2, <1>3, <1>4, <1>5 DEF TypeInv

\* What a step other than a restart does to each part is proved for itself.
Step == (Next \/ UNCHANGED vars) /\ ~esp_restart

LEMMA StepCases ==
  ASSUME Step
  PROVE  \/ LoseNetwork \/ RegainNetwork \/ Tick \/ Synchronise \/ UNCHANGED vars
         \/ Associate \/ AssociationEnds \/ OnStart \/ OnDisconnected \/ OnGotIp
         \/ Connected \/ Error \/ Disconnected \/ Published \/ Data
         \/ wifi_init_sta \/ WaitForIp \/ WaitForClock \/ createJwt
         \/ esp_mqtt_client_start \/ CheckWifi \/ WaitForMqtt
         \/ jwt_update_check \/ JwtStop \/ JwtFlag \/ JwtConfig \/ JwtStart
         \/ Publish \/ PublishFails
BY DEF Step, Next, World, WifiTask, MqttTask, UploadTask, FramTaskRestart, ForceRestart

LEMMA WorldStep ==
  ASSUME TypeInv, Step
  PROVE  WorldOK'
<1>0. losses + 1 \in Nat /\ failures + 1 \in Nat
  BY LimitsTyped DEF TypeInv, WorldOK
<1>1. ASSUME Loss PROVE losses' \in 0 .. MaxLosses
  BY <1>1, <1>0, LimitsTyped DEF Loss, TypeInv, WorldOK
<1>2. ASSUME Failure PROVE failures' \in 0 .. MaxFailures
  BY <1>2, <1>0, LimitsTyped DEF Failure, TypeInv, WorldOK
<1> DEFINE Most == UNCHANGED <<reach, firmware, image, clock>>
           Bounded == /\ losses' = losses \/ Loss
                      /\ failures' = failures \/ Failure
<1>3. ASSUME Most, Bounded PROVE WorldOK'
  BY <1>1, <1>2, <1>3 DEF TypeInv, WorldOK
<1>4. CASE \/ LoseNetwork \/ RegainNetwork \/ Synchronise
  <2>1. reach' \in {"none", "ap", "broker"} /\ clock' \in {"unset", "ahead", "behind", "right"}
    BY <1>4 DEF LoseNetwork, RegainNetwork, Synchronise, TypeInv, WorldOK
  <2>2. UNCHANGED <<firmware, image>> /\ Bounded
    BY <1>4 DEF LoseNetwork, RegainNetwork, Synchronise, Loss
  <2> QED BY <1>1, <1>2, <2>1, <2>2 DEF TypeInv, WorldOK
<1>5. CASE Data
  <2>1. UNCHANGED <<reach, losses, failures, firmware, clock>>
    BY <1>5 DEF Data
  <2>2. image' \in Versions
    <3>1. CASE image' = image
      BY <3>1 DEF TypeInv, WorldOK
    <3>2. CASE image' # image
      <4>1. PICK url : url[1] \in Urls /\ image' = VersionAt(url[1])
        BY <1>5, <3>2 DEF Data
      <4>2. \E c \in Configs : c.url = url[1]
        BY <4>1 DEF Urls
      <4> QED BY <4>1, <4>2 DEF VersionAt, Versions
    <3> QED BY <3>1, <3>2
  <2> QED BY <2>1, <2>2 DEF TypeInv, WorldOK
<1>6. CASE Tick \/ UNCHANGED vars
  BY <1>6, <1>3 DEF Tick, vars, world
<1>7. CASE \/ Associate \/ AssociationEnds \/ OnStart \/ OnDisconnected \/ OnGotIp
  BY <1>7, <1>3 DEF Associate, AssociationEnds, StationEvent, OnStart, OnDisconnected,
                    OnGotIp, world, Step
<1>8. CASE Connected \/ Error \/ Disconnected \/ Published
  <2>1. CASE Disconnected
    <3>1. Most /\ Bounded
      BY <2>1 DEF Disconnected, Loss
    <3> QED BY <1>3, <3>1
  <2>2. CASE ~Disconnected
    <3>1. Most /\ Bounded
      BY <1>8, <2>2 DEF Connected, Error, Published, world
    <3> QED BY <1>3, <3>1
  <2> QED BY <2>1, <2>2
<1>9. CASE \/ wifi_init_sta \/ WaitForIp \/ WaitForClock \/ createJwt
           \/ esp_mqtt_client_start \/ CheckWifi \/ WaitForMqtt \/ jwt_update_check
  BY <1>9, <1>3 DEF wifi_init_sta, WaitForIp, WaitForClock, createJwt,
       esp_mqtt_client_start, StartClient, CheckWifi, WaitForMqtt, jwt_update_check, world
<1>10. CASE \/ JwtStop \/ JwtFlag \/ JwtConfig \/ JwtStart \/ Publish \/ PublishFails
  BY <1>10, <1>3 DEF JwtStop, JwtFlag, JwtConfig, JwtStart, StartClient, Publish,
       PublishFails, world
<1> QED BY <1>4, <1>5, <1>6, <1>7, <1>8, <1>9, <1>10, StepCases

LEMMA StationStep ==
  ASSUME TypeInv, Step
  PROVE  StationOK'
<1>1. ASSUME UNCHANGED wifi_vars PROVE StationOK'
  BY <1>1 DEF wifi_vars, TypeInv, StationOK
<1>2. /\ "sta_start" \in Events /\ "sta_disconnected" \in Events /\ "got_ip" \in Events
  BY DEF Events
<1>3. /\ wifi_events \in Seq(Events)
      /\ \A e \in Events : Append(wifi_events, e) \in Seq(Events)
      /\ wifi_events # << >> => Tail(wifi_events) \in Seq(Events)
  <2>1. wifi_events \in Seq(Events)
    BY DEF TypeInv, StationOK
  <2>2. \A e \in Events : Append(wifi_events, e) \in Seq(Events)
    BY <2>1, AppendProperties, Zenon
  <2>3. wifi_events # << >> => Tail(wifi_events) \in Seq(Events)
    BY <2>1, HeadTailProperties, Zenon
  <2> QED BY <2>1, <2>2, <2>3
<1>4. CASE Associate \/ AssociationEnds
  <2>1. /\ station' \in {"associated", "idle"}
        /\ \E e \in Events : wifi_events' = Append(wifi_events, e)
        /\ UNCHANGED <<wifi_disconnected_count, wifi_connected_bit>>
    BY <1>2, <1>4 DEF Associate, AssociationEnds, StationEvent
  <2> QED BY <1>3, <2>1 DEF TypeInv, StationOK
<1>5. CASE OnStart \/ OnGotIp
  <2>1. wifi_events' \in Seq(Events)
    BY <1>3, <1>5 DEF OnStart, OnGotIp
  <2>2. /\ station' \in {station, "connecting"}
        /\ wifi_disconnected_count' \in {wifi_disconnected_count, 0}
        /\ wifi_connected_bit' \in {wifi_connected_bit, TRUE}
    BY <1>5 DEF OnStart, OnGotIp, esp_wifi_connect_after
  <2>3. 0 \in 0 .. 2 * wifi_max_disconnected_count
    BY LimitsTyped
  <2> QED BY <2>1, <2>2, <2>3 DEF TypeInv, StationOK
<1>6. CASE OnDisconnected
  <2>1. /\ wifi_events # << >> /\ wifi_events' = Tail(wifi_events)
        /\ wifi_disconnected_count' = wifi_disconnected_count + 1
        /\ wifi_disconnected_count + 1 <= 2 * wifi_max_disconnected_count
        /\ wifi_connected_bit' = wifi_connected_bit
    BY <1>6 DEF OnDisconnected, Step
  <2>2. station' \in {station, "connecting"}
    BY <1>6 DEF OnDisconnected, Step, esp_wifi_connect_after
  <2>3. wifi_disconnected_count' \in 0 .. 2 * wifi_max_disconnected_count
    BY <2>1, LimitsTyped DEF TypeInv, StationOK
  <2> QED BY <1>3, <2>1, <2>2, <2>3 DEF TypeInv, StationOK
<1>7. CASE wifi_init_sta
  <2>1. <<"sta_start">> \in Seq(Events)
    BY <1>2
  <2> QED BY <1>7, <2>1 DEF wifi_init_sta, TypeInv, StationOK
<1>8. CASE PublishFails
  <2>1. /\ station' \in {station, "off"}
        /\ UNCHANGED <<wifi_events, wifi_disconnected_count, wifi_connected_bit>>
    BY <1>8 DEF PublishFails, wifi_vars
  <2> QED BY <2>1 DEF TypeInv, StationOK
<1>9. CASE \/ LoseNetwork \/ RegainNetwork \/ Tick \/ Synchronise \/ UNCHANGED vars
           \/ Connected \/ Error \/ Disconnected \/ Published \/ Data
  BY <1>1, <1>9 DEF LoseNetwork, RegainNetwork, Tick, Synchronise, vars, Connected, Error,
       Disconnected, Published, Data
<1>10. CASE \/ WaitForIp \/ WaitForClock \/ createJwt \/ esp_mqtt_client_start
            \/ CheckWifi \/ WaitForMqtt \/ jwt_update_check \/ JwtStop \/ JwtFlag
            \/ JwtConfig \/ JwtStart \/ Publish
  BY <1>1, <1>10 DEF WaitForIp, WaitForClock, createJwt, esp_mqtt_client_start,
       CheckWifi, WaitForMqtt, jwt_update_check, JwtStop, JwtFlag, JwtConfig, JwtStart,
       Publish
<1> QED BY <1>4, <1>5, <1>6, <1>7, <1>8, <1>9, <1>10, StepCases

LEMMA ClientStep ==
  ASSUME TypeInv, Step
  PROVE  ClientOK'
<1> DEFINE Vars == <<client, session, client_pc, outbox, config, mqtt_connected_flag,
                     mqtt_error_count, restart_required_flag>>
           Counts == 0 .. mqtt_max_error_count + 1
<1>1. ASSUME UNCHANGED Vars PROVE ClientOK'
  BY <1>1 DEF TypeInv, ClientOK
<1>2. 0 \in Counts /\ error_count_after(mqtt_error_count) \in Counts
  BY LimitsTyped DEF error_count_after, TypeInv, ClientOK
<1>3. ASSUME client' \in {client, "stopped", "running"},
             session' \in {session, FALSE, TRUE}, client_pc' \in {client_pc, "loop", "abort"},
             outbox' \in {outbox, FALSE, TRUE},
             config' \in Configs \cup {config, NoConfig, EmptyConfig},
             mqtt_connected_flag' \in {mqtt_connected_flag, 0, 1},
             mqtt_error_count' \in {mqtt_error_count, 0,
                                    error_count_after(mqtt_error_count)},
             restart_required_flag' \in BOOLEAN
      PROVE  ClientOK'
  <2>1. mqtt_error_count' \in Counts
    BY <1>2, <1>3 DEF TypeInv, ClientOK
  <2> HIDE DEF Counts
  <2>2. /\ client' \in {"absent", "stopped", "running"} /\ session' \in BOOLEAN
        /\ client_pc' \in {"loop", "abort"} /\ outbox' \in BOOLEAN
    BY <1>3 DEF TypeInv, ClientOK
  <2>3. /\ config' \in Configs \cup {NoConfig, EmptyConfig}
        /\ mqtt_connected_flag' \in {0, 1}
    BY <1>3 DEF TypeInv, ClientOK
  <2> QED BY <1>3, <2>1, <2>2, <2>3 DEF ClientOK, Counts
<1>4. restart_required_flag \in BOOLEAN
  BY DEF TypeInv, ClientOK
<1> HIDE DEF Counts
<1>5. CASE Connected \/ Published \/ Disconnected
  BY <1>3, <1>4, <1>5 DEF Connected, Published, Disconnected, Loss
<1>6. CASE Error
  <2>1. restart_required_flag' \in BOOLEAN
    BY <1>6, Zenon DEF Error
  <2> QED BY <1>3, <1>6, <2>1 DEF Error
<1>7. CASE Data
  BY <1>3, <1>4, <1>7 DEF Data, handler_vars
<1>8. CASE OnDisconnected
  <2>1. restart_required_flag' \in BOOLEAN
    BY <1>8, Zenon DEF OnDisconnected, Step
  <2>2. UNCHANGED <<client_vars, handler_vars>>
    BY <1>8 DEF OnDisconnected, Step
  <2> QED BY <1>3, <2>1, <2>2 DEF client_vars, handler_vars
<1>9. ASSUME StopClient PROVE /\ client' = "stopped" /\ session' = FALSE
                              /\ client_pc' = "loop" /\ config' = NoConfig
                              /\ mqtt_connected_flag' \in {mqtt_connected_flag, 0, 1}
                              /\ UNCHANGED <<outbox, mqtt_error_count>>
  BY <1>9 DEF StopClient
<1>10. CASE CheckWifi \/ JwtStop
  BY <1>1, <1>3, <1>4, <1>9, <1>10 DEF CheckWifi, JwtStop, client_vars, handler_vars
<1>11. CASE PublishFails
  <2>1. restart_required_flag' \in {restart_required_flag, TRUE}
    BY <1>11 DEF PublishFails, Halt
  <2>2. \/ StopClient
        \/ UNCHANGED <<client, session, client_pc, outbox, config, handler_vars>>
    BY <1>11 DEF PublishFails, client_vars
  <2> QED BY <1>3, <1>4, <1>9, <2>1, <2>2 DEF handler_vars
<1>12. CASE JwtFlag \/ Publish
  BY <1>3, <1>4, <1>12 DEF JwtFlag, Publish, client_vars, handler_vars
<1>13. CASE createJwt
  BY <1>3, <1>4, <1>13 DEF createJwt, Halt, client_vars, handler_vars
<1>14. CASE esp_mqtt_client_start \/ JwtStart \/ JwtConfig
  BY <1>3, <1>4, <1>14 DEF esp_mqtt_client_start, JwtStart, JwtConfig, StartClient,
       handler_vars
<1>15. CASE \/ LoseNetwork \/ RegainNetwork \/ Tick \/ Synchronise \/ UNCHANGED vars
            \/ Associate \/ AssociationEnds \/ OnStart \/ OnGotIp
  BY <1>1, <1>15 DEF LoseNetwork, RegainNetwork, Tick, Synchronise, vars, Associate,
       AssociationEnds, StationEvent, OnStart, OnGotIp, client_vars, handler_vars
<1>16. CASE \/ wifi_init_sta \/ WaitForIp \/ WaitForClock \/ WaitForMqtt
            \/ jwt_update_check
  BY <1>1, <1>16 DEF wifi_init_sta, WaitForIp, WaitForClock, WaitForMqtt,
       jwt_update_check, client_vars, handler_vars
<1> QED BY <1>5, <1>6, <1>7, <1>8, <1>10, <1>11, <1>12, <1>13, <1>14, <1>15, <1>16,
           StepCases

LEMMA AgesStep ==
  ASSUME TypeInv, Step
  PROVE  AgesOK'
<1>1. /\ password_age \in Age /\ since_update \in Age
      /\ clock = "ahead" => since_update >= 0
  BY DEF TypeInv, AgesOK
<1>2. ASSUME UNCHANGED clock,
             password_age' \in {password_age, Older(password_age), jwt_age},
             since_update' \in {since_update, Older(since_update), 0}
      PROVE  AgesOK'
  <2>1. jwt_age \in Age
    <3>1. clock = "ahead" => since_update - Offset \in Age
      BY <1>1, LimitsTyped DEF Age, Expired
    <3>2. jwt_age \in {since_update - Offset, OlderBy(Offset, since_update), since_update}
      BY DEF jwt_age
    <3>3. clock # "ahead" => jwt_age \in {OlderBy(Offset, since_update), since_update}
      BY DEF jwt_age
    <3> QED BY <1>1, <3>1, <3>2, <3>3, AgesTyped
  <2>2. password_age' \in Age
    BY <1>1, <1>2, <2>1, AgesTyped
  <2>3. since_update' \in Age /\ (since_update >= 0 => since_update' >= 0)
    BY <1>1, <1>2, AgesTyped
  <2> QED BY <1>1, <1>2, <2>2, <2>3 DEF AgesOK
<1>3. CASE Synchronise
  <2>1. /\ clock' = "right" /\ password_age' = password_age
        /\ \/ clock = "ahead" /\ since_update' = since_update - Offset
           \/ since_update' = OlderBy(Offset, since_update)
           \/ since_update' = since_update
    BY <1>3 DEF Synchronise, client_vars
  <2>2. clock = "ahead" => since_update - Offset \in Age
    BY <1>1, LimitsTyped DEF Age, Expired
  <2>3. clock' # "ahead" /\ password_age' \in Age /\ since_update' \in Age
    BY <1>1, <2>1, <2>2, AgesTyped
  <2> QED BY <2>3 DEF AgesOK
<1>4. CASE Tick \/ Publish
  BY <1>2, <1>4 DEF Tick, Publish, TurnEnds, TimePasses, world
<1>5. CASE PublishFails
  <2>1. CASE TurnEnds
    BY <1>2, <1>5, <2>1 DEF PublishFails, TurnEnds, TimePasses
  <2>2. CASE ~TurnEnds
    <3>1. UNCHANGED <<clock, password_age, since_update>>
      BY <1>5, <2>2 DEF PublishFails, StopClient, client_vars
    <3> QED BY <1>2, <3>1
  <2> QED BY <2>1, <2>2
<1>6. CASE esp_mqtt_client_start \/ JwtConfig
  BY <1>2, <1>6 DEF esp_mqtt_client_start, JwtConfig
<1>7. CASE WaitForClock \/ jwt_update_check
  BY <1>2, <1>7 DEF WaitForClock, jwt_update_check, world, client_vars
<1>8. CASE CheckWifi \/ JwtStop
  BY <1>2, <1>8 DEF CheckWifi, JwtStop, StopClient, world, client_vars
<1>9. CASE \/ LoseNetwork \/ RegainNetwork \/ UNCHANGED vars
           \/ Associate \/ AssociationEnds \/ OnStart \/ OnDisconnected \/ OnGotIp
  BY <1>2, <1>9 DEF LoseNetwork, RegainNetwork, vars, Associate, AssociationEnds,
       StationEvent, OnStart, OnDisconnected, OnGotIp, Step, world, client_vars,
       upload_vars
<1>10. CASE Connected \/ Error \/ Disconnected \/ Published \/ Data
  BY <1>2, <1>10 DEF Connected, Error, Disconnected, Published, Data, world, upload_vars
<1>11. CASE wifi_init_sta \/ WaitForIp \/ createJwt \/ WaitForMqtt \/ JwtFlag \/ JwtStart
  BY <1>2, <1>11 DEF wifi_init_sta, WaitForIp, createJwt, WaitForMqtt, JwtFlag, JwtStart,
       world, client_vars
<1> QED BY <1>3, <1>4, <1>5, <1>6, <1>7, <1>8, <1>9, <1>10, <1>11, StepCases

LEMMA UploadStep ==
  ASSUME TypeInv, Step
  PROVE  UploadOK'
<1> DEFINE Errors == 0 .. max_upload_errors + 1
<1>1. /\ upload_pc \in Steps /\ upload_error_count \in Errors
      /\ upload_pc # "halted" => upload_error_count <= max_upload_errors
  BY DEF TypeInv, UploadOK
<1>2. ASSUME UNCHANGED <<upload_pc, upload_error_count>> PROVE UploadOK'
  BY <1>1, <1>2 DEF UploadOK
<1>3. ASSUME upload_pc' \in Steps, upload_pc # "halted", UNCHANGED upload_error_count
      PROVE  UploadOK'
  BY <1>1, <1>3 DEF UploadOK
<1>4. CASE Publish
  <2>1. upload_pc = "publish" /\ upload_pc' = "wifi"
    BY <1>4 DEF Publish, TurnEnds, Goto
  <2>2. upload_error_count' \in {upload_error_count, after_success(upload_error_count)}
    BY <1>4 DEF Publish
  <2>3. upload_error_count' \in Errors /\ upload_error_count' <= max_upload_errors
    BY <1>1, <2>1, <2>2, LimitsTyped DEF after_success
  <2> QED BY <2>1, <2>3 DEF UploadOK, Steps
<1>5. CASE PublishFails
  <2>1. /\ upload_pc = "publish" /\ upload_error_count' = upload_error_count + 1
        /\ \/ upload_pc' = "wifi" /\ upload_error_count < max_upload_errors
           \/ upload_pc' = "halted"
    BY <1>5 DEF PublishFails, TurnEnds, Halt, Goto
  <2>2. /\ upload_error_count' \in Errors
        /\ upload_pc' # "halted" => upload_error_count' <= max_upload_errors
    BY <1>1, <2>1, LimitsTyped
  <2>3. upload_pc' \in Steps
    BY <2>1 DEF Steps
  <2> QED BY <2>2, <2>3 DEF UploadOK
<1>6. CASE \/ wifi_init_sta \/ WaitForIp \/ WaitForClock \/ createJwt
           \/ esp_mqtt_client_start \/ CheckWifi \/ WaitForMqtt \/ jwt_update_check
  <2>1. /\ upload_pc' \in {"wait_ip", "clock", "create", "start", "jwt_stop", "halted",
                          "wifi", "mqtt", "wifi_lost", "jwt", "publish", "jwt_create"}
        /\ upload_pc # "halted" /\ UNCHANGED upload_error_count
    BY <1>6 DEF wifi_init_sta, WaitForIp, WaitForClock, createJwt, Halt,
         esp_mqtt_client_start, CheckWifi, WaitForMqtt, jwt_update_check, Goto
  <2> QED BY <1>3, <2>1 DEF Steps
<1>7. CASE JwtStop \/ JwtFlag \/ JwtConfig \/ JwtStart
  <2>1. /\ upload_pc' \in {"jwt_flag", "jwt_config", "jwt_start", "jwt_wait"}
        /\ upload_pc # "halted" /\ UNCHANGED upload_error_count
    BY <1>7, RefreshSteps DEF JwtStop, JwtFlag, JwtConfig, JwtStart, Goto
  <2> QED BY <1>3, <2>1 DEF Steps
<1>8. CASE \/ LoseNetwork \/ RegainNetwork \/ Tick \/ Synchronise \/ UNCHANGED vars
           \/ Associate \/ AssociationEnds \/ OnStart \/ OnDisconnected \/ OnGotIp
  BY <1>2, <1>8 DEF LoseNetwork, RegainNetwork, Tick, Synchronise, vars, Associate,
       AssociationEnds, StationEvent, OnStart, OnDisconnected, OnGotIp, Step, upload_vars
<1>9. CASE Connected \/ Error \/ Disconnected \/ Published \/ Data
  BY <1>2, <1>9 DEF Connected, Error, Disconnected, Published, Data, upload_vars
<1> QED BY <1>4, <1>5, <1>6, <1>7, <1>8, <1>9, StepCases

(***************************************************************************)
(* TypeOK for every limit and life of the JWT: neither the WiFi event      *)
(* handler (wifi.c:18), the MQTT handler (mqtt.c:35) nor the upload task   *)
(* (upload_task.c:47) takes a counter past the value at which it           *)
(* restarts the device, and a clock that SNTP sets back makes no update    *)
(* look further in the future than the clock was ahead.                    *)
(***************************************************************************)
THEOREM TypeCorrect == Spec => []TypeOK
<1>1. TypeInv /\ [Next]_vars => TypeInv'
  <2> SUFFICES ASSUME TypeInv, [Next]_vars PROVE TypeInv'
    OBVIOUS
  <2>1. CASE esp_restart
    BY <2>1, TypeAfterRestart
  <2>2. CASE ~esp_restart
    <3>1. Step
      BY <2>2 DEF Step
    <3> QED BY <3>1, WorldStep, StationStep, ClientStep, AgesStep, UploadStep DEF TypeInv
  <2> QED BY <2>1, <2>2
<1> QED BY <1>1, TypeInitially, TypeParts, PTL DEF Spec
===============================================================================
