------------------------------ MODULE Samples ------------------------------
(***************************************************************************)
(* What the application tells the cloud: samples of telemetry, alarms,     *)
(* attributes and events.                                                  *)
(*                                                                         *)
(* Any thread publishes.  A sample is published under the mutex of the     *)
(* list of telemetry; the time of the next sample of a telemetry is kept   *)
(* in it until a publication succeeds, and is set without the mutex.  The  *)
(* other three keep nothing; their time and place come with the call, as   *)
(* options, and an option of another type than the one expected is left    *)
(* out.  Numbers, texts and identifiers are left out here.                 *)
(***************************************************************************)
EXTENDS Naturals, Sequences, FiniteSets

CONSTANTS
  Callers,      \* threads of the application
  NoCaller,
  Telemetry,
  Type,         \* of each telemetry: a type, or "null" for any
  Data,         \* values to publish: [type, has_value, flags]
  Given,        \* options to give: sets of [name, type]
  MaxTimes,     \* bound: times set
  MaxSamples    \* bound: samples published, and other messages

VARIABLES
  time_stamp,        \* of each telemetry: number of the setting, 0 when there is none
  telemetry_mutex,   \* the thread that has it
  pc, item, data,    \* of each thread: place, telemetry and value
  msg,               \* the message it has built
  samples,           \* history: samples that have been sent, in order
  told,              \* the last of the other messages
  times, refused     \* counter of the bound; history: samples not sent

threadVars == <<pc, item, data, msg>>
vars == <<time_stamp, telemetry_mutex, threadVars, samples, told, times, refused>>

NoMessage == [command |-> "none"]

Init ==
  /\ time_stamp = [t \in Telemetry |-> 0] /\ telemetry_mutex = NoCaller
  /\ pc = [c \in Callers |-> "idle"]
  /\ item \in [Callers -> {CHOOSE t \in Telemetry : TRUE}]
  /\ data \in [Callers -> {CHOOSE d \in Data : TRUE}]
  /\ msg = [c \in Callers |-> NoMessage]
  /\ samples = <<>> /\ told = [command |-> "none", members |-> {}] /\ times = 0 /\ refused = 0

-----------------------------------------------------------------------------
(***************************************************************************)
(* Telemetry.                                                              *)
(***************************************************************************)
\* iot_telemetry_timestamp_set.
SetTime(t) ==
  /\ times < MaxTimes
  /\ times' = times + 1
  /\ time_stamp' = [time_stamp EXCEPT ![t] = times + 1]
  /\ UNCHANGED <<telemetry_mutex, threadVars, samples, told, refused>>

\* Mutant: the mutex is not taken.
BeginUnlocked(c, t, d) ==
  /\ pc[c] = "idle" /\ Type[t] \in {"null", d.type}
  /\ Len(samples) + refused < MaxSamples
  /\ pc' = [pc EXCEPT ![c] = "build"]
  /\ item' = [item EXCEPT ![c] = t] /\ data' = [data EXCEPT ![c] = d]
  /\ UNCHANGED <<time_stamp, telemetry_mutex, msg, samples, told, times, refused>>

\* A value of another type than the telemetry's is refused at once.
Begin(c, t, d) ==
  /\ pc[c] = "idle" /\ Type[t] \in {"null", d.type}
  /\ Len(samples) + refused < MaxSamples
  /\ telemetry_mutex = NoCaller /\ telemetry_mutex' = c
  /\ pc' = [pc EXCEPT ![c] = "build"]
  /\ item' = [item EXCEPT ![c] = t] /\ data' = [data EXCEPT ![c] = d]
  /\ UNCHANGED <<time_stamp, msg, samples, told, times, refused>>

\* tr50_telemetry_publish: everything but a location, a text and bytes is sent
\* as a number.
Command(d) ==
  CASE d.type = "location" -> "location.publish"
    [] d.type \in {"string", "raw"} -> "attribute.publish"
    [] OTHER -> "property.publish"

\* Latitude and longitude, and the parts that have been set; nothing is sent of
\* the accuracy of the altitude.
Located(d) ==
  IF d.type = "location" THEN {"lat", "lng"} \cup (d.flags \ {"altitude_accuracy"}) ELSE {}

Build(c) ==
  /\ pc[c] = "build"
  /\ IF data[c].has_value
     THEN /\ msg' = [msg EXCEPT ![c] =
               [command |-> Command(data[c]), key |-> item[c], ts |-> time_stamp[item[c]],
                members |-> Located(data[c])]]
          /\ pc' = [pc EXCEPT ![c] = "publish"]
          /\ UNCHANGED refused
     ELSE /\ pc' = [pc EXCEPT ![c] = "unlock"]
          /\ refused' = refused + 1
          /\ UNCHANGED msg
  /\ UNCHANGED <<time_stamp, telemetry_mutex, item, data, samples, told, times>>

Publish(c) ==
  /\ pc[c] = "publish"
  /\ \/ /\ samples' = Append(samples, msg[c])
        /\ pc' = [pc EXCEPT ![c] = "reset"]
        /\ UNCHANGED refused
     \/ /\ refused' = refused + 1
        /\ pc' = [pc EXCEPT ![c] = "unlock"]
        /\ UNCHANGED samples
  /\ msg' = [msg EXCEPT ![c] = NoMessage]
  /\ UNCHANGED <<time_stamp, telemetry_mutex, item, data, told, times>>

\* A time set since the message was built is lost here.
Reset(c) ==
  /\ pc[c] = "reset"
  /\ time_stamp' = [time_stamp EXCEPT ![item[c]] = 0]
  /\ pc' = [pc EXCEPT ![c] = "unlock"]
  /\ UNCHANGED <<telemetry_mutex, item, data, msg, samples, told, times, refused>>

Unlock(c) ==
  /\ pc[c] = "unlock"
  /\ telemetry_mutex' = NoCaller
  /\ pc' = [pc EXCEPT ![c] = "idle"]
  /\ UNCHANGED <<time_stamp, item, data, msg, samples, told, times, refused>>

-----------------------------------------------------------------------------
(***************************************************************************)
(* Alarms, attributes and events: one message from the call alone.         *)
(***************************************************************************)
\* tr50_optional: the members an option gives.
Optional(given, name, type, members) == IF [name |-> name, type |-> type] \in given THEN members ELSE {}

Told(command, members) ==
  /\ told' = [command |-> command, members |-> members]
  /\ UNCHANGED <<time_stamp, telemetry_mutex, threadVars, samples, times, refused>>

\* Of a location only the position.
AlarmPublish(given) ==
  Told("alarm.publish",
       {"thingKey", "key", "state"} \cup Optional(given, "time_stamp", "int64", {"ts"})
         \cup Optional(given, "location", "location", {"lat", "lng"})
         \cup Optional(given, "republish", "bool", {"republish"}))

AttributePublish(given) ==
  Told("attribute.publish",
       {"thingKey", "key", "value"} \cup Optional(given, "time_stamp", "int64", {"ts"})
         \cup Optional(given, "republish", "bool", {"republish"}))

\* The level may be given as any integer.
EventPublish(given) ==
  Told("log.publish",
       {"thingKey", "msg"} \cup Optional(given, "time_stamp", "int64", {"ts"})
         \cup Optional(given, "global", "bool", {"global"})
         \cup Optional(given, "level", "int64", {"level"})
         \cup Optional(given, "level", "uint64", {"level"}))

Next ==
  \/ \E t \in Telemetry : SetTime(t)
  \/ \E c \in Callers :
       \/ \E t \in Telemetry, d \in Data : Begin(c, t, d)
       \/ Build(c) \/ Publish(c) \/ Reset(c) \/ Unlock(c)
  \/ \E given \in Given :
       AlarmPublish(given) \/ AttributePublish(given) \/ EventPublish(given)

Spec == Init /\ [][Next]_vars

-----------------------------------------------------------------------------
(***************************************************************************)
(* Properties.                                                             *)
(***************************************************************************)

\* Every variable has its type.
TypeOK ==
  /\ time_stamp \in [Telemetry -> 0 .. times] /\ times \in 0 .. MaxTimes
  /\ telemetry_mutex \in Callers \cup {NoCaller}
  /\ pc \in [Callers -> {"idle", "build", "publish", "reset", "unlock"}]
  /\ item \in [Callers -> Telemetry] /\ data \in [Callers -> Data]
  /\ refused \in 0 .. MaxSamples /\ Len(samples) + refused <= MaxSamples + Cardinality(Callers)
  /\ told.command \in {"none", "alarm.publish", "attribute.publish", "log.publish"}
  /\ \A n \in 1 .. Len(samples) : samples[n].key \in Telemetry /\ samples[n].ts \in 0 .. times

(* A time that was set goes with one sample only: of the samples of a        *)
(* telemetry that have been sent, each has a time set later than those of    *)
(* the samples before it, or none, whichever threads publish and set times,  *)
(* and whichever publications fail (iot_telemetry_publish_data).             *)
TimesUsedOnce ==
  \A m, n \in 1 .. Len(samples) :
    m < n /\ samples[m].key = samples[n].key /\ samples[n].ts # 0
      => samples[m].ts < samples[n].ts
=============================================================================
