---------------------------- MODULE LinkMonitor ----------------------------
(***************************************************************************)
(* How the tr50 plug-in keeps the link to the cloud: the check of the      *)
(* connection and the ping of each iteration of the main loop, the connect *)
(* and reconnect of the MQTT wrapper, and its callbacks.                   *)
(*                                                                         *)
(* Three parties act: Main, the thread that connects and then iterates;    *)
(* the thread of the MQTT library, which calls back; and the network with  *)
(* the cloud.  The wrapper keeps its own idea of the connection, which     *)
(* follows the callbacks; the ping is there for all that it misses.        *)
(***************************************************************************)
EXTENDS Integers, Sequences

CONSTANTS
  TR50_PING_INTERVAL,         \* ticks without a message before a ping
  TR50_TIMEOUT_RECONNECT_MS,  \* ticks between attempts, times their number
  TR50_PING_MISS_ALLOWED,
  Uint8,          \* values of an iot_uint8_t (256; fewer in a run)
  MaxCount,       \* bound: attempts counted (more would only wait longer)
  MaxOutages,     \* bound: how often the network fails or the cloud refuses
  MaxLate,        \* bound: how often an answer takes longer than the wait for it
  MaxPings,       \* bound: pings, and replies, on their way
  MaxCallbacks    \* bound: callbacks the library has not delivered yet

ASSUME LinkAssumption ==
  /\ {TR50_PING_INTERVAL, TR50_TIMEOUT_RECONNECT_MS, MaxCount, MaxPings,
      Uint8} \subseteq Nat \ {0}
  /\ TR50_PING_MISS_ALLOWED < Uint8
  /\ {TR50_PING_MISS_ALLOWED, MaxOutages, MaxLate, MaxCallbacks} \subseteq Nat

VARIABLES
  library,          \* the MQTT library the build has chosen
  untimed,          \* does the application iterate without a time out?
  mqtt,             \* is there a connection object?
  is_connected,     \* what the wrapper believes
  sinceChange,      \* age of time_stamp_changed
  sinceMsg,         \* age of time_last_msg_received
  reconnect_count, ping_miss_count,
  pc, stage,        \* place of Main, and the step of the iteration it is at
  from,             \* what has called tr50_connect
  forever,          \* is max_time_out zero in the loop of the connect?
  loaded,           \* ping_miss_count as Main has read it
  cb, seen,         \* place of the library's thread, the count as it has read it
  signalled,        \* has the signal come since Main waits?
  asked,            \* a connect the library works on
  callbacks,        \* callbacks to come, in order
  attached,         \* does the library have a session with the cloud?
  hears,            \* does the cloud know the session's subscription?
  network, pings, pingReplies,   \* the network and the messages on it
  outages, late     \* counters of the bounds

buildVars == <<library, untimed>>
beliefVars == <<is_connected, sinceChange>>
countVars == <<sinceMsg, reconnect_count, ping_miss_count>>
mainVars == <<pc, stage, from, forever, loaded>>
cbVars == <<cb, seen>>
sessionVars == <<asked, callbacks, attached, hears>>
netVars == <<network, pings, pingReplies>>
boundVars == <<outages, late>>
linkVars == <<buildVars, mqtt, beliefVars, countVars, mainVars, cbVars, signalled,
              sessionVars, netVars, boundVars>>

Least(a, b) == IF a < b THEN a ELSE b
LongAgo == MaxCount * TR50_TIMEOUT_RECONNECT_MS
Stages == {"before", "during", "after"}

LinkInit ==
  /\ library \in {"paho", "mosquitto"} /\ untimed \in BOOLEAN
  /\ mqtt = "none" /\ is_connected = FALSE /\ sinceChange = LongAgo
  /\ sinceMsg = TR50_PING_INTERVAL /\ reconnect_count = 0 /\ ping_miss_count = 0
  /\ pc = "off" /\ stage = "before" /\ from = "first" /\ forever = FALSE /\ loaded = 0
  /\ cb = "idle" /\ seen = 0 /\ signalled = FALSE
  /\ asked = FALSE /\ callbacks = <<>> /\ attached = FALSE /\ hears = FALSE
  /\ network = TRUE /\ pings = 0 /\ pingReplies = 0
  /\ outages = 0 /\ late = 0

-----------------------------------------------------------------------------
(***************************************************************************)
(* Main: iot_mqtt_connect_impl, in the loop of either library.             *)
(***************************************************************************)

\* The object of a first connect is zeroed, so its time stamp is long ago.
FirstConnect ==
  /\ pc = "off"
  /\ forever' \in BOOLEAN                       \* max_time_out of iot_connect
  /\ pc' = "ask" /\ from' = "first"
  /\ is_connected' = FALSE /\ sinceChange' = LongAgo
  /\ UNCHANGED <<buildVars, mqtt, countVars, stage, loaded, cbVars, signalled,
                 sessionVars, netVars, boundVars>>

\* iot_mqtt_reconnect: the belief is dropped, its time stamp is not touched.  The
\* library's own thread iterates with a time out, an application need not.
Reconnect(caller) ==
  /\ is_connected' = FALSE
  /\ pc' = "ask" /\ from' = caller
  /\ forever' = untimed

Accepted ==
  /\ pc = "ask"
  /\ asked' = TRUE /\ signalled' = FALSE
  /\ pc' = "started"
  /\ UNCHANGED <<buildVars, mqtt, beliefVars, countVars, stage, from, forever, loaded,
                 cbVars, callbacks, attached, hears, netVars, boundVars>>

\* MQTTAsync_connect fails at once: the time out is zeroed to break the loop,
\* but zero is what makes the loop go on.
PahoRefuses ==
  /\ pc = "ask" /\ library = "paho"
  /\ forever' = TRUE
  /\ pc' = IF is_connected THEN "done" ELSE "ask"
  /\ UNCHANGED <<buildVars, mqtt, beliefVars, countVars, stage, from, loaded, cbVars,
                 signalled, sessionVars, netVars, boundVars>>

\* MOSQ_ERR_EAI sleeps for the time out and tries again only without one; any
\* other error ends the loop.
MosquittoRefuses ==
  /\ pc = "ask" /\ library = "mosquitto"
  /\ pc' = "done" \/ (forever /\ pc' = "ask")
  /\ UNCHANGED <<buildVars, mqtt, beliefVars, countVars, stage, from, forever, loaded,
                 cbVars, signalled, sessionVars, netVars, boundVars>>

StartWait ==
  /\ pc = "started"
  /\ pc' = "wait"
  /\ UNCHANGED <<buildVars, mqtt, beliefVars, countVars, stage, from, forever, loaded,
                 cbVars, signalled, sessionVars, netVars, boundVars>>

\* The wait of paho always has a time out (a minute at least), that of
\* mosquitto unless max_time_out is zero.  Answers are late MaxLate times.
AnswerToCome == (asked /\ network) \/ callbacks # <<>>
Awake ==
  /\ pc = "wait"
  /\ \/ (signalled \/ ~ AnswerToCome) /\ UNCHANGED late
     \/ ~ signalled /\ AnswerToCome /\ late < MaxLate /\ late' = late + 1
  /\ signalled \/ library = "paho" \/ ~ forever
  /\ pc' = IF library = "paho" /\ forever /\ ~ is_connected THEN "ask" ELSE "done"
  /\ UNCHANGED <<buildVars, mqtt, beliefVars, countVars, stage, from, forever, loaded,
                 cbVars, signalled, sessionVars, netVars, outages>>

(***************************************************************************)
(* The end of tr50_connect, and of a failed iot_mqtt_connect, which        *)
(* destroys the client.                                                    *)
(***************************************************************************)
Checked ==      \* after the check of the connection in a step
  \/ stage = "before" /\ pc' = "check" /\ stage' = "during"
  \/ stage = "during" /\ pc' = "ping" /\ UNCHANGED stage
  \/ stage = "after" /\ pc' = "idle" /\ stage' = "before"

Returns ==
  /\ from' = "first" /\ forever' = FALSE /\ signalled' = FALSE
  /\ \/ from = "first" /\ pc' = "idle" /\ UNCHANGED stage
     \/ from = "check" /\ Checked
     \/ from = "ping" /\ pc' = "zero" /\ UNCHANGED stage

NoSession ==
  /\ asked' = FALSE /\ callbacks' = <<>> /\ attached' = FALSE /\ hears' = FALSE
  /\ pings' = 0 /\ pingReplies' = 0 /\ UNCHANGED network

Connected ==
  /\ pc = "done" /\ is_connected
  /\ sinceMsg' = 0 /\ ping_miss_count' = 0
  /\ mqtt' = "live" /\ reconnect_count' = 1
  /\ hears' = (hears \/ attached)               \* iot_mqtt_subscribe, unchecked
  /\ Returns
  /\ UNCHANGED <<buildVars, beliefVars, loaded, cbVars, asked, callbacks, attached, netVars,
                 boundVars>>

ConnectFails ==
  /\ pc = "done" /\ ~ is_connected
  /\ sinceMsg' = 0 /\ ping_miss_count' = 0
  /\ IF from = "first"
     THEN /\ NoSession /\ pc' = "off"
          /\ forever' = FALSE /\ signalled' = FALSE /\ UNCHANGED <<from, stage>>
     ELSE Returns /\ UNCHANGED <<sessionVars, netVars>>
  /\ UNCHANGED <<buildVars, mqtt, beliefVars, reconnect_count, loaded, cbVars, boundVars>>

\* tr50_ping clears the count once more when tr50_connect has returned.
Zero ==
  /\ pc = "zero"
  /\ ping_miss_count' = 0
  /\ pc' = "check" /\ stage' = "after"
  /\ UNCHANGED <<buildVars, mqtt, beliefVars, sinceMsg, reconnect_count, from, forever,
                 loaded, cbVars, signalled, sessionVars, netVars, boundVars>>

\* iot_disconnect: the main thread has been joined, so it is between iterations.
Disconnect ==
  /\ pc = "idle" /\ cb = "idle"
  /\ reconnect_count' = 0
  /\ mqtt' = "none" /\ is_connected' = FALSE /\ NoSession
  /\ pc' = "off"
  /\ UNCHANGED <<buildVars, sinceChange, sinceMsg, ping_miss_count, stage, from, forever,
                 loaded, cbVars, signalled, boundVars>>

-----------------------------------------------------------------------------
(***************************************************************************)
(* Main: an iteration.  Each of the three steps of iot_plugin_perform      *)
(* checks the connection; the second one pings as well.                    *)
(***************************************************************************)
Iterate ==
  /\ pc = "idle"
  /\ pc' = "check" /\ stage' = "before"
  /\ UNCHANGED <<buildVars, mqtt, beliefVars, countVars, from, forever, loaded, cbVars,
                 signalled, sessionVars, netVars, boundVars>>

Due == /\ ~ is_connected /\ reconnect_count > 0
       /\ sinceChange >= Least(reconnect_count, MaxCount) * TR50_TIMEOUT_RECONNECT_MS

CheckLeaves ==
  /\ pc = "check" /\ ~ Due
  /\ Checked
  /\ UNCHANGED <<buildVars, mqtt, beliefVars, countVars, from, forever, loaded, cbVars,
                 signalled, sessionVars, netVars, boundVars>>

CheckReconnects ==
  /\ pc = "check" /\ Due
  /\ reconnect_count' = Least(reconnect_count + 1, MaxCount)
  /\ Reconnect("check")
  /\ UNCHANGED <<buildVars, mqtt, sinceChange, sinceMsg, ping_miss_count, stage, loaded,
                 cbVars, signalled, sessionVars, netVars, boundVars>>

Silent == sinceMsg >= TR50_PING_INTERVAL

NoPing ==
  /\ pc = "ping" /\ ~ Silent
  /\ pc' = "check" /\ stage' = "after"
  /\ UNCHANGED <<buildVars, mqtt, beliefVars, countVars, from, forever, loaded, cbVars,
                 signalled, sessionVars, netVars, boundVars>>

PingReconnects ==
  /\ pc = "ping" /\ Silent
  /\ ping_miss_count > TR50_PING_MISS_ALLOWED
  /\ Reconnect("ping")
  /\ UNCHANGED <<buildVars, mqtt, sinceChange, countVars, stage, loaded, cbVars, signalled,
                 sessionVars, netVars, boundVars>>

\* The ping is published before it is counted.
PublishPing ==
  /\ pc = "ping" /\ Silent
  /\ ping_miss_count <= TR50_PING_MISS_ALLOWED
  /\ pings' = IF attached THEN Least(pings + 1, MaxPings) ELSE pings
  /\ pc' = "load"
  /\ UNCHANGED <<buildVars, mqtt, beliefVars, countVars, stage, from, forever, loaded,
                 cbVars, signalled, sessionVars, network, pingReplies, boundVars>>

LoadMissed ==
  /\ pc = "load"
  /\ sinceMsg' = 0
  /\ loaded' = ping_miss_count
  /\ pc' = "store"
  /\ UNCHANGED <<buildVars, mqtt, beliefVars, reconnect_count, ping_miss_count, stage, from,
                 forever, cbVars, signalled, sessionVars, netVars, boundVars>>

\* Mutant: the count of missed pings has no width.
StoreWide ==
  /\ pc = "store"
  /\ ping_miss_count' = loaded + 1 /\ loaded' = 0
  /\ pc' = "check" /\ stage' = "after"
  /\ UNCHANGED <<buildVars, mqtt, beliefVars, sinceMsg, reconnect_count, from, forever,
                 cbVars, signalled, sessionVars, netVars, boundVars>>

\* Mutant: a ping that is sent is not counted.
StoreNothing ==
  /\ pc = "store"
  /\ ping_miss_count' = loaded /\ loaded' = 0
  /\ pc' = "check" /\ stage' = "after"
  /\ UNCHANGED <<buildVars, mqtt, beliefVars, sinceMsg, reconnect_count, from, forever,
                 cbVars, signalled, sessionVars, netVars, boundVars>>

StoreMissed ==
  /\ pc = "store"
  /\ ping_miss_count' = (loaded + 1) % Uint8 /\ loaded' = 0
  /\ pc' = "check" /\ stage' = "after"
  /\ UNCHANGED <<buildVars, mqtt, beliefVars, sinceMsg, reconnect_count, from, forever,
                 cbVars, signalled, sessionVars, netVars, boundVars>>

Main == \/ FirstConnect \/ Accepted \/ PahoRefuses \/ MosquittoRefuses \/ StartWait
        \/ Awake \/ Connected \/ ConnectFails \/ Zero \/ Iterate \/ CheckLeaves
        \/ CheckReconnects \/ NoPing \/ PingReconnects \/ PublishPing \/ LoadMissed
        \/ StoreMissed

-----------------------------------------------------------------------------
(***************************************************************************)
(* The thread of the MQTT library: its callbacks and the messages.         *)
(***************************************************************************)
CallsBack(kind) ==
  /\ cb = "idle" /\ callbacks # <<>> /\ Head(callbacks) = kind
  /\ callbacks' = Tail(callbacks)

\* Both libraries tell of a connect; mosquitto also of a refused one, and the
\* result code is not looked at.  A signal to nobody is lost.
OnSuccess ==
  /\ CallsBack("success")
  /\ is_connected' = TRUE
  /\ sinceChange' = IF is_connected THEN sinceChange ELSE 0
  /\ signalled' = (signalled \/ (pc = "wait" /\ (library = "paho" \/ ~ is_connected)))
  /\ UNCHANGED <<buildVars, mqtt, countVars, mainVars, cbVars, asked, attached, hears,
                 netVars, boundVars>>

OnFailure ==
  /\ CallsBack("failure")
  /\ is_connected' = FALSE
  /\ sinceChange' = IF is_connected THEN 0 ELSE sinceChange
  /\ signalled' = (signalled \/ pc = "wait")
  /\ UNCHANGED <<buildVars, mqtt, countVars, mainVars, cbVars, asked, attached, hears,
                 netVars, boundVars>>

\* Mutant: a loss of the connection is only stamped with its time.
OnDisconnectStamped ==
  /\ CallsBack("lost")
  /\ sinceChange' = 0 /\ UNCHANGED is_connected
  /\ UNCHANGED <<buildVars, mqtt, countVars, mainVars, cbVars, signalled, asked, attached,
                 hears, netVars, boundVars>>

OnDisconnect ==
  /\ CallsBack("lost")
  /\ is_connected' = FALSE /\ sinceChange' = 0
  /\ UNCHANGED <<buildVars, mqtt, countVars, mainVars, cbVars, signalled, asked, attached,
                 hears, netVars, boundVars>>

OnMessage ==
  /\ cb = "idle" /\ pingReplies > 0
  /\ pingReplies' = pingReplies - 1
  /\ sinceMsg' = 0
  /\ cb' = "test"
  /\ UNCHANGED <<buildVars, mqtt, beliefVars, reconnect_count, ping_miss_count, mainVars,
                 seen, signalled, sessionVars, network, pings, boundVars>>

TestMissed ==
  /\ cb = "test"
  /\ cb' = IF ping_miss_count > 0 THEN "decrement" ELSE "idle"
  /\ seen' = ping_miss_count          \* zero when it is idle
  /\ UNCHANGED <<buildVars, mqtt, beliefVars, countVars, mainVars, signalled, sessionVars,
                 netVars, boundVars>>

\* Nothing protects the count: the build may decrement what the test has read,
\* or read it again.
Decrement ==
  /\ cb = "decrement"
  /\ \E v \in {seen, ping_miss_count} : ping_miss_count' = (v + Uint8 - 1) % Uint8
  /\ cb' = "idle" /\ seen' = 0
  /\ UNCHANGED <<buildVars, mqtt, beliefVars, sinceMsg, reconnect_count, mainVars,
                 signalled, sessionVars, netVars, boundVars>>

CallbackThread == \/ OnSuccess \/ OnFailure \/ OnDisconnect \/ OnMessage \/ TestMissed
                  \/ Decrement

-----------------------------------------------------------------------------
(***************************************************************************)
(* The library, the network and the cloud.                                 *)
(***************************************************************************)
Room == Len(callbacks) < MaxCallbacks

\* A new session has no subscription unless the cloud has kept the one of an
\* earlier session, which paho asks for in a reconnect.
Establish ==
  /\ asked /\ network /\ Room
  /\ asked' = FALSE /\ attached' = TRUE
  /\ hears' \in IF library = "paho" /\ mqtt = "live" THEN {FALSE, hears} ELSE {FALSE}
  /\ callbacks' = Append(callbacks, "success")
  /\ pings' = 0 /\ pingReplies' = 0
  /\ UNCHANGED <<buildVars, mqtt, beliefVars, countVars, mainVars, cbVars, signalled,
                 network, boundVars>>

Refused ==
  /\ asked /\ Room
  /\ \/ network /\ outages < MaxOutages /\ outages' = outages + 1
     \/ ~ network /\ library = "paho" /\ UNCHANGED outages
  /\ asked' = FALSE /\ attached' = FALSE
  /\ callbacks' = callbacks \o (IF library = "paho" THEN <<"failure">>
                                ELSE <<"success", "lost">>)
  /\ pings' = 0 /\ pingReplies' = 0
  /\ UNCHANGED <<buildVars, mqtt, beliefVars, countVars, mainVars, cbVars, signalled, hears,
                 network, late>>

\* The loop thread of mosquitto connects again by itself.
Retry ==
  /\ library = "mosquitto" /\ mqtt = "live" /\ ~ asked /\ ~ attached
  /\ asked' = TRUE
  /\ UNCHANGED <<buildVars, mqtt, beliefVars, countVars, mainVars, cbVars, signalled,
                 callbacks, attached, hears, netVars, boundVars>>

Outage ==
  /\ network /\ outages < MaxOutages /\ Room
  /\ outages' = outages + 1
  /\ network' = FALSE /\ attached' = FALSE
  /\ callbacks' = IF attached THEN Append(callbacks, "lost") ELSE callbacks
  /\ pings' = 0 /\ pingReplies' = 0
  /\ UNCHANGED <<buildVars, mqtt, beliefVars, countVars, mainVars, cbVars, signalled,
                 asked, hears, late>>

Restored ==
  /\ ~ network
  /\ network' = TRUE
  /\ UNCHANGED <<buildVars, mqtt, beliefVars, countVars, mainVars, cbVars, signalled,
                 sessionVars, pings, pingReplies, boundVars>>

AnswerPing ==
  /\ attached /\ pings > 0
  /\ pings' = pings - 1
  /\ pingReplies' = IF hears THEN Least(pingReplies + 1, MaxPings) ELSE pingReplies
  /\ UNCHANGED <<buildVars, mqtt, beliefVars, countVars, mainVars, cbVars, signalled,
                 sessionVars, network, boundVars>>

\* Ages count up to where they make no difference any more.
Tick ==
  /\ sinceMsg < TR50_PING_INTERVAL \/ sinceChange < LongAgo
  /\ sinceMsg' = Least(sinceMsg + 1, TR50_PING_INTERVAL)
  /\ sinceChange' = Least(sinceChange + 1, LongAgo)
  /\ UNCHANGED <<buildVars, mqtt, is_connected, reconnect_count, ping_miss_count, mainVars,
                 cbVars, signalled, sessionVars, netVars, boundVars>>

Outside == Establish \/ Refused \/ Retry \/ Outage \/ Restored \/ AnswerPing

LinkNext == Main \/ Disconnect \/ CallbackThread \/ Outside \/ Tick

LinkSpec == LinkInit /\ [][LinkNext]_linkVars

(***************************************************************************)
(* Threads run, time passes, the network comes back, the cloud answers,    *)
(* and the library does not turn a connect away for ever.                  *)
(***************************************************************************)
Fairness ==
  /\ WF_linkVars(Main) /\ SF_linkVars(Accepted)
  /\ WF_linkVars(CallbackThread) /\ WF_linkVars(Tick)
  /\ WF_linkVars(Restored) /\ WF_linkVars(AnswerPing) /\ WF_linkVars(Retry)
  /\ SF_linkVars(Establish)

LinkFairSpec == LinkSpec /\ Fairness

-----------------------------------------------------------------------------
(***************************************************************************)
(* Properties.                                                             *)
(***************************************************************************)

\* Every variable has its type.
LinkTypeOK ==
  /\ library \in {"paho", "mosquitto"} /\ mqtt \in {"none", "live"}
  /\ {untimed, is_connected, forever, signalled, asked, attached, hears, network}
       \subseteq BOOLEAN
  /\ sinceChange \in 0 .. LongAgo /\ sinceMsg \in 0 .. TR50_PING_INTERVAL
  /\ reconnect_count \in 0 .. MaxCount
  /\ {ping_miss_count, loaded, seen} \subseteq 0 .. Uint8 - 1
  /\ pc \in {"off", "ask", "started", "wait", "done", "zero", "idle", "check", "ping",
             "load", "store"}
  /\ stage \in Stages /\ from \in {"first", "check", "ping"}
  /\ cb \in {"idle", "test", "decrement"}
  /\ callbacks \in Seq({"success", "failure", "lost"})
  /\ {pings, pingReplies} \subseteq 0 .. MaxPings
  /\ outages \in 0 .. MaxOutages /\ late \in 0 .. MaxLate

Pending == {callbacks[i] : i \in 1 .. Len(callbacks)}

(* The wrapper never goes on believing in a connection that is gone: when   *)
(* it says connected and there is no session, the callback that says        *)
(* otherwise is still to come, whatever order connects, refusals and        *)
(* outages come in, and late answers with them (iot_mqtt_on_disconnect).    *)
BeliefIsCorrected ==
  is_connected /\ ~ attached => {"lost", "failure"} \cap Pending # {}

(* A connection that has not been shut down comes back: after every outage, *)
(* refusal, late answer and lost subscription the device is sooner or later *)
(* connected again with a subscription the cloud knows, if its iterations   *)
(* have a time out, as those of the library's own thread                    *)
(* (tr50_connect_check and tr50_ping together; neither suffices).           *)
Linked == attached /\ is_connected /\ hears
Recovers == (mqtt = "live" /\ ~ untimed) ~> (Linked \/ mqtt = "none")

(* A connect that the library refuses at once ends: "failure, so break      *)
(* loop" (iot_mqtt.c:693).                                                  *)
RefusalEndsConnect ==
  [][ PahoRefuses => pc' = "done" ]_linkVars
=============================================================================
