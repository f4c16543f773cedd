---------------------------- MODULE Tr50_proofs ----------------------------
(***************************************************************************)
(* Proofs about the plug-in of the cloud: how it keeps the link, and its   *)
(* transfers of files.  The two have no variable in common.                *)
(***************************************************************************)
EXTENDS LinkMonitor, FileTransfers, FiniteSetTheorems, TLAPS

-----------------------------------------------------------------------------
(***************************************************************************)
(* The link, for either library, any intervals, limits and width of the    *)
(* count of missed pings, and any number of outages and late answers: the  *)
(* types, and that a wrong belief is always about to be corrected.         *)
(***************************************************************************)
\* The constants are numbers.
LEMMA Limits ==
  /\ TR50_PING_INTERVAL \in Nat /\ TR50_PING_INTERVAL > 0
  /\ TR50_TIMEOUT_RECONNECT_MS \in Nat
  /\ MaxCount \in Nat /\ MaxCount > 0 /\ Uint8 \in Nat /\ Uint8 > 0
  /\ MaxPings \in Nat /\ MaxOutages \in Nat /\ MaxLate \in Nat
  BY LinkAssumption

\* Least is the minimum of two numbers.
LEMMA LeastIs ==
  ASSUME NEW a \in Nat, NEW b \in Nat
  PROVE  Least(a, b) \in Nat /\ Least(a, b) <= a /\ Least(a, b) <= b
                     /\ (a > 0 /\ b > 0 => Least(a, b) > 0)
  BY DEF Least

\* What an unsigned integer wraps to is one of its values.
LEMMA Wraps ==
  ASSUME NEW v \in Nat
  PROVE  v % Uint8 \in 0 .. Uint8 - 1
  BY Limits

\* Ages are counted up to a natural number.
LEMMA AgeLimit == LongAgo \in Nat
  BY Limits DEF LongAgo

-----------------------------------------------------------------------------
(***************************************************************************)
(* Types, a part for each group of variables.                              *)
(***************************************************************************)
Callbacks == {"success", "failure", "lost"}

FlagTypes ==
  /\ is_connected \in BOOLEAN /\ forever \in BOOLEAN /\ signalled \in BOOLEAN
  /\ asked \in BOOLEAN /\ attached \in BOOLEAN /\ hears \in BOOLEAN /\ network \in BOOLEAN
BuildTypes ==
  /\ library \in {"paho", "mosquitto"} /\ mqtt \in {"none", "live"} /\ untimed \in BOOLEAN
AgeTypes == sinceChange \in 0 .. LongAgo /\ sinceMsg \in 0 .. TR50_PING_INTERVAL
CountTypes ==
  /\ reconnect_count \in 0 .. MaxCount
  /\ ping_miss_count \in 0 .. Uint8 - 1 /\ loaded \in 0 .. Uint8 - 1 /\ seen \in 0 .. Uint8 - 1
PlaceTypes ==
  /\ pc \in {"off", "ask", "started", "wait", "done", "zero", "idle", "check", "ping",
             "load", "store"}
  /\ stage \in Stages /\ from \in {"first", "check", "ping"}
  /\ cb \in {"idle", "test", "decrement"}
CallbackTypes == callbacks \in Seq(Callbacks)
MessageTypes == pings \in 0 .. MaxPings /\ pingReplies \in 0 .. MaxPings
BoundTypes == outages \in 0 .. MaxOutages /\ late \in 0 .. MaxLate

Types == /\ FlagTypes /\ BuildTypes /\ AgeTypes /\ CountTypes /\ PlaceTypes
         /\ CallbackTypes /\ MessageTypes /\ BoundTypes

\* A counter that is only raised below its bound keeps to it.
LEMMA RaisedInBounds ==
  ASSUME NEW m \in Nat, NEW x \in 0 .. m, NEW y, y = x \/ (x < m /\ y = x + 1)
  PROVE  y \in 0 .. m
OBVIOUS

\* The parts are the type invariant.
LEMMA TypeParts == Types <=> LinkTypeOK
  BY DEF Types, LinkTypeOK, FlagTypes, BuildTypes, AgeTypes, CountTypes, PlaceTypes,
         CallbackTypes, MessageTypes, BoundTypes, Callbacks

LEMMA InitTypes == LinkInit => Types
  <1>. SUFFICES ASSUME LinkInit PROVE Types
    OBVIOUS
  <1>. USE Limits, AgeLimit DEF LinkInit
  <1>1. FlagTypes /\ BuildTypes /\ PlaceTypes
    BY DEF FlagTypes, BuildTypes, PlaceTypes, Stages
  <1>2. AgeTypes /\ CountTypes
    BY DEF AgeTypes, CountTypes
  <1>3. CallbackTypes /\ MessageTypes /\ BoundTypes
    BY DEF CallbackTypes, MessageTypes, BoundTypes
  <1>. QED  BY <1>1, <1>2, <1>3 DEF Types

\* A part keeps its types when none of its variables changes.
LEMMA Kept ==
  ASSUME Types
  PROVE  /\ UNCHANGED <<buildVars, mqtt>> => BuildTypes'
         /\ UNCHANGED <<sinceChange, sinceMsg>> => AgeTypes'
         /\ UNCHANGED <<reconnect_count, ping_miss_count, loaded, seen>> => CountTypes'
         /\ UNCHANGED <<pc, stage, from, cb>> => PlaceTypes'
         /\ UNCHANGED callbacks => CallbackTypes'
         /\ UNCHANGED <<pings, pingReplies>> => MessageTypes'
         /\ UNCHANGED boundVars => BoundTypes'
  BY DEF Types, BuildTypes, AgeTypes, CountTypes, PlaceTypes, CallbackTypes, MessageTypes,
         BoundTypes, boundVars, buildVars

LEMMA NextTypes == Types /\ [LinkNext]_linkVars => Types'
  <1>a. SUFFICES ASSUME Types, [LinkNext]_linkVars PROVE Types'
    OBVIOUS
  <1>. USE <1>a, Limits, AgeLimit, LeastIs
       DEF Types, buildVars, beliefVars, countVars, mainVars, cbVars, sessionVars, netVars, boundVars
  <1>1. CASE FirstConnect
    <2>1. FlagTypes'
      BY <1>1 DEF FlagTypes, FirstConnect
    <2>2. AgeTypes'
      BY <1>1 DEF AgeTypes, FirstConnect
    <2>3. PlaceTypes'
      BY <1>1 DEF PlaceTypes, Stages, FirstConnect
    <2>4. BuildTypes' /\ CountTypes' /\ CallbackTypes' /\ MessageTypes' /\ BoundTypes'
      BY <1>1, Kept DEF FirstConnect
    <2>. QED  BY <2>1, <2>2, <2>3, <2>4
  <1>2. CASE Accepted
    <2>1. FlagTypes'
      BY <1>2 DEF FlagTypes, Accepted
    <2>2. PlaceTypes'
      BY <1>2 DEF PlaceTypes, Stages, Accepted
    <2>3. BuildTypes' /\ AgeTypes' /\ CountTypes' /\ CallbackTypes' /\ MessageTypes'
          /\ BoundTypes'
      BY <1>2, Kept DEF Accepted
    <2>. QED  BY <2>1, <2>2, <2>3
  <1>3. CASE PahoRefuses
    <2>1. FlagTypes'
      BY <1>3 DEF FlagTypes, PahoRefuses
    <2>2. PlaceTypes'
      BY <1>3 DEF PlaceTypes, Stages, PahoRefuses
    <2>3. BuildTypes' /\ AgeTypes' /\ CountTypes' /\ CallbackTypes' /\ MessageTypes'
          /\ BoundTypes'
      BY <1>3, Kept DEF PahoRefuses
    <2>. QED  BY <2>1, <2>2, <2>3
  <1>4. CASE MosquittoRefuses
    <2>1. FlagTypes'
      BY <1>4 DEF FlagTypes, MosquittoRefuses
    <2>2. PlaceTypes'
      BY <1>4 DEF PlaceTypes, Stages, MosquittoRefuses
    <2>3. BuildTypes' /\ AgeTypes' /\ CountTypes' /\ CallbackTypes' /\ MessageTypes'
          /\ BoundTypes'
      BY <1>4, Kept DEF MosquittoRefuses
    <2>. QED  BY <2>1, <2>2, <2>3
  <1>5. CASE StartWait
    <2>1. FlagTypes'
      BY <1>5 DEF FlagTypes, StartWait
    <2>2. PlaceTypes'
      BY <1>5 DEF PlaceTypes, Stages, StartWait
    <2>3. BuildTypes' /\ AgeTypes' /\ CountTypes' /\ CallbackTypes' /\ MessageTypes'
          /\ BoundTypes'
      BY <1>5, Kept DEF StartWait
    <2>. QED  BY <2>1, <2>2, <2>3
  <1>6. CASE Awake
    <2>1. FlagTypes'
      BY <1>6 DEF FlagTypes, Awake
    <2>2. PlaceTypes'
      BY <1>6 DEF PlaceTypes, Stages, Awake
    <2>3. BoundTypes'
      <3>1. outages' = outages /\ (late' = late \/ (late < MaxLate /\ late' = late + 1))
        BY <1>6 DEF Awake
      <3>2. outages \in 0 .. MaxOutages /\ late \in 0 .. MaxLate
        BY DEF BoundTypes
      <3>3. MaxLate \in Nat
        BY LinkAssumption
      <3>4. late' \in 0 .. MaxLate
        BY <3>1, <3>2, <3>3, RaisedInBounds, Zenon
      <3>. QED  BY <3>1, <3>2, <3>4 DEF BoundTypes
    <2>4. BuildTypes' /\ AgeTypes' /\ CountTypes' /\ CallbackTypes' /\ MessageTypes'
      BY <1>6, Kept DEF Awake
    <2>. QED  BY <2>1, <2>2, <2>3, <2>4
  <1>7. CASE Connected
    <2>1. FlagTypes'
      BY <1>7 DEF FlagTypes, Connected, Returns, Checked
    <2>2. AgeTypes'
      BY <1>7 DEF AgeTypes, Connected, Returns, Checked
    <2>3. CountTypes'
      BY <1>7 DEF CountTypes, Connected, Returns, Checked
    <2>4. BuildTypes'
      BY <1>7 DEF BuildTypes, Connected, Returns, Checked
    <2>5. PlaceTypes'
      BY <1>7 DEF PlaceTypes, Stages, Connected, Returns, Checked
    <2>6. CallbackTypes' /\ MessageTypes' /\ BoundTypes'
      BY <1>7, Kept DEF Connected, Returns, Checked
    <2>. QED  BY <2>1, <2>2, <2>3, <2>4, <2>5, <2>6
  <1>8. CASE ConnectFails
    <2>1. FlagTypes'
      BY <1>8 DEF FlagTypes, ConnectFails, Returns, Checked, NoSession
    <2>2. AgeTypes'
      BY <1>8 DEF AgeTypes, ConnectFails, Returns, Checked, NoSession
    <2>3. CountTypes'
      BY <1>8 DEF CountTypes, ConnectFails, Returns, Checked, NoSession
    <2>4. CallbackTypes'
      <3>1. CASE from = "first"
        BY <1>8, <3>1 DEF CallbackTypes, Callbacks, ConnectFails, NoSession
      <3>2. CASE from # "first"
        BY <1>8, <3>2, Kept DEF ConnectFails
      <3>. QED  BY <3>1, <3>2
    <2>5. MessageTypes'
      <3>1. CASE from = "first"
        BY <1>8, <3>1 DEF MessageTypes, ConnectFails, NoSession
      <3>2. CASE from # "first"
        BY <1>8, <3>2, Kept DEF ConnectFails
      <3>. QED  BY <3>1, <3>2
    <2>6. PlaceTypes'
      BY <1>8 DEF PlaceTypes, Stages, ConnectFails, Returns, Checked, NoSession
    <2>7. BuildTypes' /\ BoundTypes'
      BY <1>8, Kept DEF ConnectFails, Returns, Checked, NoSession
    <2>. QED  BY <2>1, <2>2, <2>3, <2>4, <2>5, <2>6, <2>7
  <1>9. CASE Zero
    <2>1. FlagTypes'
      BY <1>9 DEF FlagTypes, Zero
    <2>2. CountTypes'
      BY <1>9 DEF CountTypes, Zero
    <2>3. PlaceTypes'
      BY <1>9 DEF PlaceTypes, Stages, Zero
    <2>4. BuildTypes' /\ AgeTypes' /\ CallbackTypes' /\ MessageTypes' /\ BoundTypes'
      BY <1>9, Kept DEF Zero
    <2>. QED  BY <2>1, <2>2, <2>3, <2>4
  <1>10. CASE Iterate
    <2>1. FlagTypes'
      BY <1>10 DEF FlagTypes, Iterate
    <2>2. PlaceTypes'
      BY <1>10 DEF PlaceTypes, Stages, Iterate
    <2>3. BuildTypes' /\ AgeTypes' /\ CountTypes' /\ CallbackTypes' /\ MessageTypes'
          /\ BoundTypes'
      BY <1>10, Kept DEF Iterate
    <2>. QED  BY <2>1, <2>2, <2>3
  <1>11. CASE CheckLeaves
    <2>1. FlagTypes'
      BY <1>11 DEF FlagTypes, CheckLeaves, Checked
    <2>2. PlaceTypes'
      BY <1>11 DEF PlaceTypes, Stages, CheckLeaves, Checked
    <2>3. BuildTypes' /\ AgeTypes' /\ CountTypes' /\ CallbackTypes' /\ MessageTypes'
          /\ BoundTypes'
      BY <1>11, Kept DEF CheckLeaves, Checked
    <2>. QED  BY <2>1, <2>2, <2>3
  <1>12. CASE CheckReconnects
    <2>1. FlagTypes'
      BY <1>12 DEF FlagTypes, BuildTypes, CheckReconnects, Reconnect
    <2>2. CountTypes'
      BY <1>12 DEF CountTypes, CheckReconnects, Reconnect
    <2>3. PlaceTypes'
      BY <1>12 DEF PlaceTypes, Stages, CheckReconnects, Reconnect
    <2>4. BuildTypes' /\ AgeTypes' /\ CallbackTypes' /\ MessageTypes' /\ BoundTypes'
      BY <1>12, Kept DEF CheckReconnects, Reconnect
    <2>. QED  BY <2>1, <2>2, <2>3, <2>4
  <1>13. CASE NoPing
    <2>1. FlagTypes'
      BY <1>13 DEF FlagTypes, NoPing
    <2>2. PlaceTypes'
      BY <1>13 DEF PlaceTypes, Stages, NoPing
    <2>3. BuildTypes' /\ AgeTypes' /\ CountTypes' /\ CallbackTypes' /\ MessageTypes'
          /\ BoundTypes'
      BY <1>13, Kept DEF NoPing
    <2>. QED  BY <2>1, <2>2, <2>3
  <1>14. CASE PingReconnects
    <2>1. FlagTypes'
      BY <1>14 DEF FlagTypes, BuildTypes, PingReconnects, Reconnect
    <2>2. PlaceTypes'
      BY <1>14 DEF PlaceTypes, Stages, PingReconnects, Reconnect
    <2>3. BuildTypes' /\ AgeTypes' /\ CountTypes' /\ CallbackTypes' /\ MessageTypes'
          /\ BoundTypes'
      BY <1>14, Kept DEF PingReconnects, Reconnect
    <2>. QED  BY <2>1, <2>2, <2>3
  <1>15. CASE PublishPing
    <2>1. FlagTypes'
      BY <1>15 DEF FlagTypes, PublishPing
    <2>2. MessageTypes'
      BY <1>15 DEF MessageTypes, PublishPing
    <2>3. PlaceTypes'
      BY <1>15 DEF PlaceTypes, Stages, PublishPing
    <2>4. BuildTypes' /\ AgeTypes' /\ CountTypes' /\ CallbackTypes' /\ BoundTypes'
      BY <1>15, Kept DEF PublishPing
    <2>. QED  BY <2>1, <2>2, <2>3, <2>4
  <1>16. CASE LoadMissed
    <2>1. FlagTypes'
      BY <1>16 DEF FlagTypes, LoadMissed
    <2>2. AgeTypes'
      BY <1>16 DEF AgeTypes, LoadMissed
    <2>3. CountTypes'
      BY <1>16 DEF CountTypes, LoadMissed
    <2>4. PlaceTypes'
      BY <1>16 DEF PlaceTypes, Stages, LoadMissed
    <2>5. BuildTypes' /\ CallbackTypes' /\ MessageTypes' /\ BoundTypes'
      BY <1>16, Kept DEF LoadMissed
    <2>. QED  BY <2>1, <2>2, <2>3, <2>4, <2>5
  <1>17. CASE StoreMissed
    <2>1. FlagTypes'
      BY <1>17 DEF FlagTypes, StoreMissed
    <2>2. CountTypes'
      <3>1. loaded + 1 \in Nat
        BY DEF CountTypes
      <3>2. ping_miss_count' \in 0 .. Uint8 - 1
        BY <1>17, <3>1, Wraps DEF StoreMissed
      <3>. QED  BY <1>17, <3>2 DEF CountTypes, StoreMissed
    <2>3. PlaceTypes'
      BY <1>17 DEF PlaceTypes, Stages, StoreMissed
    <2>4. BuildTypes' /\ AgeTypes' /\ CallbackTypes' /\ MessageTypes' /\ BoundTypes'
      BY <1>17, Kept DEF StoreMissed
    <2>. QED  BY <2>1, <2>2, <2>3, <2>4
  <1>18. CASE Disconnect
    <2>1. FlagTypes'
      BY <1>18 DEF FlagTypes, Disconnect, NoSession
    <2>2. CountTypes'
      BY <1>18 DEF CountTypes, Disconnect, NoSession
    <2>3. BuildTypes'
      BY <1>18 DEF BuildTypes, Disconnect, NoSession
    <2>4. CallbackTypes'
      BY <1>18 DEF CallbackTypes, Callbacks, Disconnect, NoSession
    <2>5. MessageTypes'
      BY <1>18 DEF MessageTypes, Disconnect, NoSession
    <2>6. PlaceTypes'
      BY <1>18 DEF PlaceTypes, Stages, Disconnect, NoSession
    <2>7. AgeTypes' /\ BoundTypes'
      BY <1>18, Kept DEF Disconnect, NoSession
    <2>. QED  BY <2>1, <2>2, <2>3, <2>4, <2>5, <2>6, <2>7
  <1>19. CASE OnSuccess
    <2>1. FlagTypes'
      BY <1>19 DEF FlagTypes, OnSuccess, CallsBack
    <2>2. AgeTypes'
      BY <1>19 DEF AgeTypes, OnSuccess, CallsBack
    <2>3. CallbackTypes'
      BY <1>19 DEF CallbackTypes, Callbacks, OnSuccess, CallsBack
    <2>4. BuildTypes' /\ CountTypes' /\ PlaceTypes' /\ MessageTypes' /\ BoundTypes'
      BY <1>19, Kept DEF OnSuccess, CallsBack
    <2>. QED  BY <2>1, <2>2, <2>3, <2>4
  <1>20. CASE OnFailure
    <2>1. FlagTypes'
      BY <1>20 DEF FlagTypes, OnFailure, CallsBack
    <2>2. AgeTypes'
      BY <1>20 DEF AgeTypes, OnFailure, CallsBack
    <2>3. CallbackTypes'
      BY <1>20 DEF CallbackTypes, Callbacks, OnFailure, CallsBack
    <2>4. BuildTypes' /\ CountTypes' /\ PlaceTypes' /\ MessageTypes' /\ BoundTypes'
      BY <1>20, Kept DEF OnFailure, CallsBack
    <2>. QED  BY <2>1, <2>2, <2>3, <2>4
  <1>21. CASE OnDisconnect
    <2>1. FlagTypes'
      BY <1>21 DEF FlagTypes, OnDisconnect, CallsBack
    <2>2. AgeTypes'
      BY <1>21 DEF AgeTypes, OnDisconnect, CallsBack
    <2>3. CallbackTypes'
      BY <1>21 DEF CallbackTypes, Callbacks, OnDisconnect, CallsBack
    <2>4. BuildTypes' /\ CountTypes' /\ PlaceTypes' /\ MessageTypes' /\ BoundTypes'
      BY <1>21, Kept DEF OnDisconnect, CallsBack
    <2>. QED  BY <2>1, <2>2, <2>3, <2>4
  <1>22. CASE OnMessage
    <2>1. FlagTypes'
      BY <1>22 DEF FlagTypes, OnMessage
    <2>2. AgeTypes'
      BY <1>22 DEF AgeTypes, OnMessage
    <2>3. MessageTypes'
      BY <1>22 DEF MessageTypes, OnMessage
    <2>4. PlaceTypes'
      BY <1>22 DEF PlaceTypes, Stages, OnMessage
    <2>5. BuildTypes' /\ CountTypes' /\ CallbackTypes' /\ BoundTypes'
      BY <1>22, Kept DEF OnMessage
    <2>. QED  BY <2>1, <2>2, <2>3, <2>4, <2>5
  <1>23. CASE TestMissed
    <2>1. FlagTypes'
      BY <1>23 DEF FlagTypes, TestMissed
    <2>2. CountTypes'
      BY <1>23 DEF CountTypes, TestMissed
    <2>3. PlaceTypes'
      BY <1>23 DEF PlaceTypes, Stages, TestMissed
    <2>4. BuildTypes' /\ AgeTypes' /\ CallbackTypes' /\ MessageTypes' /\ BoundTypes'
      BY <1>23, Kept DEF TestMissed
    <2>. QED  BY <2>1, <2>2, <2>3, <2>4
  <1>24. CASE Decrement
    <2>1. FlagTypes'
      BY <1>24 DEF FlagTypes, Decrement
    <2>2. CountTypes'
      <3>1. PICK v \in {seen, ping_miss_count} : ping_miss_count' = (v + Uint8 - 1) % Uint8
        BY <1>24 DEF Decrement
      <3>2. v + Uint8 - 1 \in Nat
        BY DEF CountTypes
      <3>3. ping_miss_count' \in 0 .. Uint8 - 1
        BY <3>1, <3>2, Wraps
      <3>. QED  BY <1>24, <3>3 DEF CountTypes, Decrement
    <2>3. PlaceTypes'
      BY <1>24 DEF PlaceTypes, Stages, Decrement
    <2>4. BuildTypes' /\ AgeTypes' /\ CallbackTypes' /\ MessageTypes' /\ BoundTypes'
      BY <1>24, Kept DEF Decrement
    <2>. QED  BY <2>1, <2>2, <2>3, <2>4
  <1>25. CASE Establish
    <2>1. FlagTypes'
      BY <1>25 DEF FlagTypes, Establish
    <2>2. CallbackTypes'
      BY <1>25 DEF CallbackTypes, Callbacks, Establish
    <2>3. MessageTypes'
      BY <1>25 DEF MessageTypes, Establish
    <2>4. BuildTypes' /\ AgeTypes' /\ CountTypes' /\ PlaceTypes' /\ BoundTypes'
      BY <1>25, Kept DEF Establish
    <2>. QED  BY <2>1, <2>2, <2>3, <2>4
  <1>26. CASE Refused
    <2>1. FlagTypes'
      BY <1>26 DEF FlagTypes, Refused
    <2>2. CallbackTypes'
      <3>1. callbacks' \in {callbacks \o <<"failure">>, callbacks \o <<"success", "lost">>}
        BY <1>26 DEF Refused
      <3>2. callbacks \in Seq(Callbacks)
        BY DEF CallbackTypes
      <3>3. /\ callbacks \o <<"failure">> \in Seq(Callbacks)
            /\ callbacks \o <<"success", "lost">> \in Seq(Callbacks)
        BY <3>2 DEF Callbacks
      <3>. QED  BY <3>1, <3>3 DEF CallbackTypes
    <2>3. MessageTypes'
      BY <1>26 DEF MessageTypes, Refused
    <2>4. BoundTypes'
      <3>1. CASE outages' = outages
        BY <1>26, <3>1 DEF BoundTypes, Refused
      <3>2. CASE outages' = outages + 1 /\ outages < MaxOutages
        BY <1>26, <3>2 DEF BoundTypes, Refused
      <3>. QED  BY <1>26, <3>1, <3>2 DEF Refused
    <2>5. BuildTypes' /\ AgeTypes' /\ CountTypes' /\ PlaceTypes'
      BY <1>26, Kept DEF Refused
    <2>. QED  BY <2>1, <2>2, <2>3, <2>4, <2>5
  <1>27. CASE Retry
    <2>1. FlagTypes'
      BY <1>27 DEF FlagTypes, Retry
    <2>2. BuildTypes' /\ AgeTypes' /\ CountTypes' /\ PlaceTypes' /\ CallbackTypes'
          /\ MessageTypes' /\ BoundTypes'
      BY <1>27, Kept DEF Retry
    <2>. QED  BY <2>1, <2>2
  <1>28. CASE Outage
    <2>1. FlagTypes'
      BY <1>28 DEF FlagTypes, Outage
    <2>2. CallbackTypes'
      BY <1>28 DEF CallbackTypes, Callbacks, Outage
    <2>3. MessageTypes'
      BY <1>28 DEF MessageTypes, Outage
    <2>4. BoundTypes'
      BY <1>28 DEF BoundTypes, Outage
    <2>5. BuildTypes' /\ AgeTypes' /\ CountTypes' /\ PlaceTypes'
      BY <1>28, Kept DEF Outage
    <2>. QED  BY <2>1, <2>2, <2>3, <2>4, <2>5
  <1>29. CASE Restored
    <2>1. FlagTypes'
      BY <1>29 DEF FlagTypes, Restored
    <2>2. BuildTypes' /\ AgeTypes' /\ CountTypes' /\ PlaceTypes' /\ CallbackTypes'
          /\ MessageTypes' /\ BoundTypes'
      BY <1>29, Kept DEF Restored
    <2>. QED  BY <2>1, <2>2
  <1>30. CASE AnswerPing
    <2>1. FlagTypes'
      BY <1>30 DEF FlagTypes, AnswerPing
    <2>2. MessageTypes'
      BY <1>30 DEF MessageTypes, AnswerPing
    <2>3. BuildTypes' /\ AgeTypes' /\ CountTypes' /\ PlaceTypes' /\ CallbackTypes'
          /\ BoundTypes'
      BY <1>30, Kept DEF AnswerPing
    <2>. QED  BY <2>1, <2>2, <2>3
  <1>31. CASE Tick
    <2>1. FlagTypes'
      BY <1>31 DEF FlagTypes, Tick
    <2>2. AgeTypes'
      BY <1>31 DEF AgeTypes, Tick
    <2>3. BuildTypes' /\ CountTypes' /\ PlaceTypes' /\ CallbackTypes' /\ MessageTypes'
          /\ BoundTypes'
      BY <1>31, Kept DEF Tick
    <2>. QED  BY <2>1, <2>2, <2>3
  <1>32. CASE UNCHANGED linkVars
    BY <1>32, Kept DEF FlagTypes, linkVars
  <1>. QED  BY <1>1, <1>2, <1>3, <1>4, <1>5, <1>6, <1>7, <1>8, <1>9, <1>10, <1>11, <1>12,
               <1>13, <1>14, <1>15, <1>16, <1>17, <1>18, <1>19, <1>20, <1>21, <1>22,
               <1>23, <1>24, <1>25, <1>26, <1>27, <1>28, <1>29, <1>30, <1>31, <1>32
           DEF LinkNext, Main, CallbackThread, Outside

\* Every variable has its type (the members of the plug-in and of the wrapper).
THEOREM LinkTypes == LinkSpec => []LinkTypeOK
  <1>1. LinkInit => Types
    BY InitTypes
  <1>2. Types /\ [LinkNext]_linkVars => Types'
    BY NextTypes
  <1>3. Types => LinkTypeOK
    BY TypeParts
  <1>. QED  BY <1>1, <1>2, <1>3, PTL DEF LinkSpec

-----------------------------------------------------------------------------
(***************************************************************************)
(* The belief of the wrapper.  Without a session with the cloud the last   *)
(* callback that is still to come tells of the loss, and when none is to   *)
(* come the wrapper knows.                                                 *)
(***************************************************************************)
LastWord ==
  ~ attached => /\ callbacks = <<>> => ~ is_connected
                /\ callbacks # <<>> => callbacks[Len(callbacks)] # "success"

BeliefInv == Types /\ LastWord

\* The last callback is still the last when an earlier one is delivered.
LEMMA LastStays ==
  ASSUME NEW q \in Seq(Callbacks), q # <<>>, Tail(q) # <<>>
  PROVE  Tail(q)[Len(Tail(q))] = q[Len(q)]
  OBVIOUS

\* A callback with none after it is the last.
LEMMA OnlyOne ==
  ASSUME NEW q \in Seq(Callbacks), q # <<>>, Tail(q) = <<>>
  PROVE  q[Len(q)] = Head(q)
  <1>1. Len(Tail(q)) = Len(q) - 1 /\ Len(q) \in Nat
    OBVIOUS
  <1>2. Len(<<>>) = 0
    OBVIOUS
  <1>3. Len(Tail(q)) = 0
    BY <1>2
  <1>4. Len(q) = 1
    BY <1>1, <1>3
  <1>. QED  BY <1>4

\* A callback is delivered.
LEMMA CallbackDelivered ==
  ASSUME Types, LastWord, UNCHANGED attached, NEW kind, CallsBack(kind),
         kind # "success" => ~ is_connected'
  PROVE  LastWord'
  <1>1. CASE attached
    BY <1>1 DEF LastWord
  <1>2. CASE ~ attached /\ Tail(callbacks) # <<>>
    <2>1. callbacks[Len(callbacks)] # "success" /\ callbacks # <<>>
      BY <1>2 DEF LastWord, CallsBack
    <2>2. callbacks'[Len(callbacks')] = callbacks[Len(callbacks)]
      BY <1>2, <2>1, LastStays DEF CallsBack, Types, CallbackTypes
    <2>. QED  BY <1>2, <2>1, <2>2 DEF LastWord, CallsBack
  <1>3. CASE ~ attached /\ Tail(callbacks) = <<>>
    <2>1. callbacks \in Seq(Callbacks) /\ callbacks # <<>> /\ callbacks[Len(callbacks)] # "success"
      BY <1>3 DEF LastWord, CallsBack, Types, CallbackTypes
    <2>2. callbacks[Len(callbacks)] = Head(callbacks)
      BY <1>3, <2>1, OnlyOne
    <2>3. kind # "success"
      BY <2>1, <2>2 DEF CallsBack
    <2>. QED  BY <1>3, <2>3 DEF LastWord, CallsBack
  <1>. QED  BY <1>1, <1>2, <1>3

\* Nothing that LastWord is about changes, but the belief may be dropped.
LEMMA LastWordKept ==
  ASSUME LastWord, UNCHANGED <<attached, callbacks>>,
         is_connected' = is_connected \/ ~ is_connected'
  PROVE  LastWord'
  BY DEF LastWord

LEMMA BeliefInit == LinkInit => LastWord
  BY DEF LinkInit, LastWord

\* The steps that neither touch the session nor raise the belief.
LEMMA BeliefAlone ==
  ASSUME LastWord, Main \/ Tick \/ Restored \/ AnswerPing \/ Retry \/ OnMessage
                   \/ TestMissed \/ Decrement \/ UNCHANGED linkVars, ~ ConnectFails
  PROVE  LastWord'
  <1>1. UNCHANGED <<attached, callbacks>>
    BY DEF Main, FirstConnect, Accepted, PahoRefuses, MosquittoRefuses, StartWait, Awake,
           Connected, Zero, Iterate, CheckLeaves, CheckReconnects, NoPing, PingReconnects,
           PublishPing, LoadMissed, StoreMissed, Tick, Restored, AnswerPing, Retry, OnMessage,
           TestMissed, Decrement, linkVars, sessionVars
  <1>2. is_connected' = is_connected \/ ~ is_connected'
    BY DEF Main, FirstConnect, Accepted, PahoRefuses, MosquittoRefuses, StartWait, Awake,
           Connected, Zero, Iterate, CheckLeaves, CheckReconnects, Reconnect, NoPing,
           PingReconnects, PublishPing, LoadMissed, StoreMissed, Tick, Restored, AnswerPing,
           Retry, OnMessage, TestMissed, Decrement, linkVars, beliefVars
  <1>. QED  BY <1>1, <1>2, LastWordKept

LEMMA BeliefNext == Types /\ LastWord /\ [LinkNext]_linkVars => LastWord'
  <1>a. SUFFICES ASSUME Types, LastWord, [LinkNext]_linkVars PROVE LastWord'
    OBVIOUS
  <1>1. CASE ConnectFails
    <2>1. CASE from = "first"
      BY <1>1, <2>1 DEF ConnectFails, NoSession, beliefVars, LastWord
    <2>2. CASE from # "first"
      BY <1>a, <1>1, <2>2, LastWordKept DEF ConnectFails, beliefVars, sessionVars
    <2>. QED  BY <2>1, <2>2
  <1>2. CASE Disconnect
    BY <1>2 DEF Disconnect, NoSession, LastWord
  <1>3. CASE OnSuccess
    BY <1>a, <1>3, CallbackDelivered DEF OnSuccess
  <1>4. CASE OnFailure
    BY <1>a, <1>4, CallbackDelivered DEF OnFailure
  <1>5. CASE OnDisconnect
    BY <1>a, <1>5, CallbackDelivered DEF OnDisconnect
  <1>6. CASE Establish
    BY <1>6 DEF Establish, LastWord
  <1>7. CASE Refused
    <2>1. callbacks' = callbacks \o <<"failure">> \/ callbacks' = callbacks \o <<"success", "lost">>
      BY <1>7 DEF Refused
    <2>2. callbacks \in Seq(Callbacks)
      BY <1>a DEF Types, CallbackTypes
    <2>3. callbacks' # <<>> /\ callbacks'[Len(callbacks')] # "success"
      BY <2>1, <2>2 DEF Callbacks
    <2>. QED  BY <2>3 DEF LastWord
  <1>8. CASE Outage
    <2>1. CASE attached
      <3>1. callbacks' = Append(callbacks, "lost")
        BY <1>8, <2>1 DEF Outage
      <3>2. callbacks \in Seq(Callbacks)
        BY <1>a DEF Types, CallbackTypes
      <3>3. callbacks' # <<>> /\ callbacks'[Len(callbacks')] # "success"
        BY <3>1, <3>2 DEF Callbacks
      <3>. QED  BY <3>3 DEF LastWord
    <2>2. CASE ~ attached
      BY <1>a, <1>8, <2>2 DEF Outage, LastWord, beliefVars
    <2>. QED  BY <2>1, <2>2
  <1>9. CASE ~ (ConnectFails \/ Disconnect \/ OnSuccess \/ OnFailure \/ OnDisconnect
                \/ Establish \/ Refused \/ Outage)
    BY <1>a, <1>9, BeliefAlone DEF LinkNext, CallbackThread, Outside
  <1>. QED  BY <1>1, <1>2, <1>3, <1>4, <1>5, <1>6, <1>7, <1>8, <1>9

LEMMA LastWordTells == Types /\ LastWord => BeliefIsCorrected
  <1>. SUFFICES ASSUME Types, LastWord, is_connected, ~ attached
                PROVE  {"lost", "failure"} \cap Pending # {}
    BY DEF BeliefIsCorrected
  <1>1. callbacks \in Seq(Callbacks) /\ callbacks # <<>>
    BY DEF Types, CallbackTypes, LastWord
  <1>2. Len(callbacks) \in 1 .. Len(callbacks) /\ callbacks[Len(callbacks)] \in Callbacks
    BY <1>1
  <1>3. callbacks[Len(callbacks)] \in {"lost", "failure"}
    BY <1>1, <1>2 DEF LastWord, Callbacks
  <1>. QED  BY <1>2, <1>3 DEF Pending

(* When the wrapper believes in a connection that is gone, the callback     *)
(* that says otherwise is still to come (iot_mqtt_on_disconnect).           *)
THEOREM BeliefCorrected == LinkSpec => []BeliefIsCorrected
  <1>1. LinkInit => BeliefInv
    BY InitTypes, BeliefInit DEF BeliefInv
  <1>2. BeliefInv /\ [LinkNext]_linkVars => BeliefInv'
    BY NextTypes, BeliefNext DEF BeliefInv
  <1>3. BeliefInv => BeliefIsCorrected
    BY LastWordTells DEF BeliefInv
  <1>. QED  BY <1>1, <1>2, <1>3, PTL DEF LinkSpec

-----------------------------------------------------------------------------
(***************************************************************************)
(* Transfers of files, for any number of them under way and any size of    *)
(* the array.  What a transfer holds is told by the place it is noted in:  *)
(* as long as the array is used as a stack, that place is its own until it *)
(* takes it away.  The types hold however the array is used.               *)
(***************************************************************************)
Active == {"open", "move", "check", "report", "remove"}
Phases == Active \cup {"none", "ended"}
Over == {"check", "report", "remove", "ended"}

ArrayTypes ==
  /\ file_transfer_queue \in [Slots -> Places]
  /\ file_transfer_count \in 0 .. TR50_FILE_TRANSFER_MAX
AskTypes ==
  /\ prepared \subseteq Transfers /\ sending \subseteq Transfers /\ refused \subseteq Transfers
  /\ requests \subseteq [file : Transfers, id : Slots]
  /\ answers \subseteq [file : Transfers, id : Slots, success : BOOLEAN]
ThreadTypes ==
  /\ thread \in [Transfers -> Phases] /\ slot \in [Transfers -> Slots]
  /\ file_path \in [Transfers -> Files] /\ url \in [Transfers -> Files \cup {Mixed}]
ResultTypes ==
  /\ result \in [Transfers -> Results \cup {"none"}]
  /\ \A f \in Transfers : thread[f] \in Over => result[f] \in Results
DiskTypes ==
  /\ saved \in [Transfers -> Files \cup {Mixed}]
  /\ uploaded \subseteq Files /\ deleted \subseteq Transfers
ReportTypes == reports \in [Transfers -> SUBSET (Transfers \X (Results \cup {"INVOKED"}))]
StateTypes == disturbed \in BOOLEAN /\ wild \in BOOLEAN

FileTypes == /\ ArrayTypes /\ AskTypes /\ ThreadTypes /\ ResultTypes /\ DiskTypes
             /\ ReportTypes /\ StateTypes

\* A part keeps its types when none of its variables changes.
LEMMA FileKept ==
  ASSUME FileTypes
  PROVE  /\ UNCHANGED queueVars => ArrayTypes'
         /\ UNCHANGED askVars => AskTypes'
         /\ UNCHANGED <<thread, threadVars>> => ThreadTypes'
         /\ UNCHANGED <<thread, result>> => ResultTypes'
         /\ UNCHANGED diskVars => DiskTypes'
         /\ UNCHANGED reports => ReportTypes'
         /\ UNCHANGED stateVars => StateTypes'
  BY DEF FileTypes, ArrayTypes, AskTypes, ThreadTypes, ResultTypes, DiskTypes, ReportTypes,
         StateTypes, queueVars, askVars, threadVars, diskVars, stateVars

\* A thread goes on to another step, its result being kept.
LEMMA GoesOn ==
  ASSUME FileTypes, NEW f \in Transfers, NEW p \in Phases,
         thread' = [thread EXCEPT ![f] = p], p \in Over => thread[f] \in Over
  PROVE  /\ thread'[f] = p /\ \A g \in Transfers : g # f => thread'[g] = thread[g]
         /\ UNCHANGED threadVars => ThreadTypes'
         /\ UNCHANGED result => ResultTypes'
  BY DEF FileTypes, ThreadTypes, ResultTypes, threadVars

\* One place of the array is written.
LEMMA OnePlace ==
  ASSUME NEW q \in [Slots -> Places], NEW i \in Slots, NEW p \in Places
  PROVE  /\ [q EXCEPT ![i] = p] \in [Slots -> Places] /\ [q EXCEPT ![i] = p][i] = p
         /\ \A j \in Slots : j # i => [q EXCEPT ![i] = p][j] = q[j]
  OBVIOUS

LEMMA NoFileIs == NoFile \in Files /\ NoFile \notin Transfers /\ Transfers \subseteq Files
  BY FilesAssumption DEF Files

\* A place of which some fields are written is one again.
LEMMA PlaceWritten ==
  ASSUME NEW p \in Places, NEW a \in Files, NEW b \in Files
  PROVE  /\ [p EXCEPT !.url = a, !.crc32 = b] \in Places
         /\ [p EXCEPT !.callback = a, !.crc32 = b] \in Places
         /\ [p EXCEPT !.lib_curl = a] \in Places
  BY DEF Places

\* The removal writes the place that is closed, and clears the last one.
Cleared(q, i) == [q EXCEPT ![i].callback = NoFile, ![i].crc32 = NoFile]

LEMMA ClosedTypes ==
  ASSUME NEW q \in [Slots -> Places], NEW i \in Slots
  PROVE  Cleared(q, i) \in [Slots -> Places]
  <1>1. [q[i] EXCEPT !.callback = NoFile, !.crc32 = NoFile] \in Places
    BY NoFileIs, PlaceWritten
  <1>2. [q EXCEPT ![i].callback = NoFile, ![i].crc32 = NoFile]
          = [q EXCEPT ![i] = [q[i] EXCEPT !.callback = NoFile, !.crc32 = NoFile]]
    OBVIOUS
  <1>. QED  BY <1>1, <1>2, OnePlace DEF Cleared

LEMMA MovedTypes ==
  ASSUME NEW q \in [Slots -> Places], NEW i \in Slots, NEW p \in Places
  PROVE  /\ [q EXCEPT ![i].callback = p.callback, ![i].crc32 = p.crc32] \in [Slots -> Places]
         /\ [q EXCEPT ![i].callback = p.callback, ![i].crc32 = p.crc32,
                      ![i].lib_curl = p.lib_curl] \in [Slots -> Places]
  <1> DEFINE c == [q[i] EXCEPT !.callback = p.callback, !.crc32 = p.crc32]
  <1>1. p.callback \in Files /\ p.crc32 \in Files /\ p.lib_curl \in Files
    BY DEF Places
  <1>2. c \in Places /\ [c EXCEPT !.lib_curl = p.lib_curl] \in Places
    BY <1>1, PlaceWritten
  <1>3. [q EXCEPT ![i].callback = p.callback, ![i].crc32 = p.crc32] = [q EXCEPT ![i] = c]
    OBVIOUS
  <1>4. [q EXCEPT ![i].callback = p.callback, ![i].crc32 = p.crc32,
                  ![i].lib_curl = p.lib_curl]
          = [q EXCEPT ![i] = [c EXCEPT !.lib_curl = p.lib_curl]]
    OBVIOUS
  <1>. QED  BY <1>2, <1>3, <1>4, OnePlace

LEMMA FileInitTypes == FileInit => FileTypes
  <1> SUFFICES ASSUME FileInit PROVE FileTypes
    OBVIOUS
  <1>1. ArrayTypes
    BY SizeAssumption, NoFileIs DEF FileInit, ArrayTypes, Places, Zeroed
  <1>2. AskTypes /\ StateTypes /\ ReportTypes
    BY DEF FileInit, AskTypes, StateTypes, ReportTypes
  <1>3. ThreadTypes /\ ResultTypes /\ DiskTypes
    BY SizeAssumption, NoFileIs
    DEF FileInit, ThreadTypes, ResultTypes, DiskTypes, Phases, Over, Slots
  <1>. QED  BY <1>1, <1>2, <1>3 DEF FileTypes

\* The steps of the application and of the cloud.
LEMMA AskingTypes ==
  ASSUME FileTypes,
         \/ \E f \in Transfers : Prepare(f) \/ Request(f) \/ Full(f)
         \/ \E r \in requests, b \in BOOLEAN : Answer(r, b)
         \/ \E r \in answers : Drop(r)
  PROVE  FileTypes'
  <1>1. UNCHANGED <<queueVars, thread, threadVars, result, diskVars, reports>>
    BY DEF Prepare, Request, Full, Answer, Drop
  <1>2. StateTypes'
    BY DEF Prepare, Request, Full, Answer, Drop, FileTypes, StateTypes, stateVars
  <1>3. AskTypes'
    <2>1. ASSUME NEW f \in Transfers, Prepare(f) \/ Full(f) PROVE AskTypes'
      BY <2>1 DEF Prepare, Full, FileTypes, AskTypes
    <2>2. ASSUME NEW f \in Transfers, Request(f) PROVE AskTypes'
      <3>1. file_transfer_count \in Slots
        BY <2>2, SizeAssumption DEF Request, FileTypes, ArrayTypes, Slots
      <3>2. [file |-> f, id |-> file_transfer_count] \in [file : Transfers, id : Slots]
        BY <3>1
      <3>. QED  BY <2>2, <3>2 DEF Request, FileTypes, AskTypes
    <2>3. ASSUME NEW r \in requests, NEW b \in BOOLEAN, Answer(r, b) PROVE AskTypes'
      <3>1. r \in [file : Transfers, id : Slots]
        BY DEF FileTypes, AskTypes
      <3>2. [file |-> r.file, id |-> r.id, success |-> b]
              \in [file : Transfers, id : Slots, success : BOOLEAN]
        BY <3>1
      <3>. QED  BY <2>3, <3>2 DEF Answer, FileTypes, AskTypes
    <2>4. ASSUME NEW r \in answers, Drop(r) PROVE AskTypes'
      <3>1. r \in [file : Transfers, id : Slots, success : BOOLEAN]
        BY DEF FileTypes, AskTypes
      <3>. QED  BY <2>4, <3>1 DEF Drop, FileTypes, AskTypes
    <2>. QED  BY <2>1, <2>2, <2>3, <2>4
  <1>. QED  BY <1>1, <1>2, <1>3, FileKept DEF FileTypes

LEMMA NoteTypes ==
  ASSUME FileTypes, NEW f \in Transfers, Note(f)
  PROVE  FileTypes'
  <1>1. UNCHANGED <<thread, threadVars, result, diskVars, reports>>
        /\ disturbed' = disturbed /\ wild' \in {wild, TRUE}
    BY DEF Note
  <1>2. AskTypes' /\ StateTypes'
    BY <1>1 DEF Note, FileTypes, AskTypes, StateTypes
  <1>3. ArrayTypes'
    <2>1. CASE file_transfer_count < TR50_FILE_TRANSFER_MAX
      <3>1. file_transfer_count \in Slots
            /\ file_transfer_count + 1 \in 0 .. TR50_FILE_TRANSFER_MAX
        BY <2>1, SizeAssumption DEF FileTypes, ArrayTypes, Slots
      <3>2. [Zeroed EXCEPT !.path = f, !.callback = f] \in Places
        BY NoFileIs DEF Zeroed, Places
      <3>. QED  BY <2>1, <3>1, <3>2, OnePlace DEF Note, FileTypes, ArrayTypes
    <2>2. CASE ~ (file_transfer_count < TR50_FILE_TRANSFER_MAX)
      BY <2>2, FileKept DEF Note
    <2>. QED  BY <2>1, <2>2
  <1>. QED  BY <1>1, <1>2, <1>3, FileKept DEF FileTypes

LEMMA BeginTypes ==
  ASSUME FileTypes, NEW r \in answers, Begin(r)
  PROVE  FileTypes'
  <1>1. r \in [file : Transfers, id : Slots, success : BOOLEAN]
    BY DEF FileTypes, AskTypes
  <1> DEFINE p == [file_transfer_queue[r.id] EXCEPT !.url = r.file, !.crc32 = r.file]
  <1>2. p \in Places
    BY <1>1, NoFileIs, PlaceWritten DEF FileTypes, ArrayTypes
  <1>3. file_transfer_queue' = [file_transfer_queue EXCEPT ![r.id] = p]
    BY DEF Begin
  <1>4. ArrayTypes'
    BY <1>1, <1>2, <1>3, OnePlace DEF Begin, FileTypes, ArrayTypes
  <1>5. AskTypes'
    BY <1>1 DEF Begin, FileTypes, AskTypes
  <1>6. ThreadTypes' /\ ResultTypes'
    BY <1>1 DEF Begin, FileTypes, ThreadTypes, ResultTypes, Phases, Active, Over
  <1>7. StateTypes'
    BY DEF Begin, FileTypes, StateTypes
  <1>8. DiskTypes' /\ ReportTypes'
    BY FileKept DEF Begin
  <1>. QED  BY <1>4, <1>5, <1>6, <1>7, <1>8 DEF FileTypes

LEMMA PlaceIs ==
  ASSUME FileTypes, NEW f \in Transfers
  PROVE  /\ slot[f] \in Slots /\ Place(f) \in Places
         /\ Place(f).path \in Files /\ Place(f).callback \in Files
         /\ Place(f).crc32 \in Files /\ Place(f).url \in Files
  <1>1. slot[f] \in Slots /\ Place(f) \in Places
    BY DEF FileTypes, ThreadTypes, ArrayTypes, Place
  <1>. QED  BY <1>1 DEF Places

\* The steps of a thread.
LEMMA OpenTypes ==
  ASSUME FileTypes, NEW f \in Transfers, Open(f)
  PROVE  FileTypes'
  <1>1. slot[f] \in Slots /\ Place(f) \in Places /\ f \in Files
    BY NoFileIs DEF FileTypes, ThreadTypes, ArrayTypes, Place
  <1>2. \E h \in {NoFile, f} : file_transfer_queue' =
          [file_transfer_queue EXCEPT ![slot[f]] = [Place(f) EXCEPT !.lib_curl = h]]
    BY DEF Open, Place
  <1>3. ArrayTypes'
    <2>1. PICK h \in {NoFile, f} : file_transfer_queue' =
            [file_transfer_queue EXCEPT ![slot[f]] = [Place(f) EXCEPT !.lib_curl = h]]
      BY <1>2
    <2> DEFINE p == [Place(f) EXCEPT !.lib_curl = h]
    <2>2. p \in Places
      BY <1>1, NoFileIs, PlaceWritten
    <2>3. file_transfer_queue' = [file_transfer_queue EXCEPT ![slot[f]] = p]
      BY <2>1
    <2> HIDE DEF p
    <2>. QED  BY <1>1, <2>2, <2>3, OnePlace DEF Open, FileTypes, ArrayTypes
  <1>4. ThreadTypes' /\ ResultTypes'
    <2>1. Place(f).path \in Files /\ Place(f).url \in Files
      BY <1>1 DEF Places
    <2>2. CASE /\ file_path' = [file_path EXCEPT ![f] = Place(f).path]
               /\ url' = [url EXCEPT ![f] = Place(f).url]
               /\ thread' = [thread EXCEPT ![f] = "move"] /\ UNCHANGED <<result, slot>>
      BY <2>1, <2>2 DEF FileTypes, ThreadTypes, ResultTypes, Phases, Active, Over
    <2>3. CASE /\ result' = [result EXCEPT ![f] = "BAD_PARAMETER"]
               /\ thread' = [thread EXCEPT ![f] = "check"] /\ UNCHANGED <<file_path, url, slot>>
      BY <2>3 DEF FileTypes, ThreadTypes, ResultTypes, Phases, Active, Over, Results
    <2>. QED  BY <2>2, <2>3 DEF Open
  <1>5. AskTypes' /\ DiskTypes' /\ ReportTypes' /\ StateTypes'
    BY FileKept DEF Open
  <1>. QED  BY <1>3, <1>4, <1>5 DEF FileTypes

LEMMA StrayTypes ==
  ASSUME FileTypes, NEW f \in Transfers, Stray(f)
  PROVE  FileTypes'
  <1>1. StateTypes'
    BY DEF Stray, FileTypes, StateTypes
  <1>. QED  BY <1>1, FileKept DEF Stray, FileTypes

LEMMA MoveTypes ==
  ASSUME FileTypes, NEW f \in Transfers, Move(f)
  PROVE  FileTypes'
  <1>1. file_path[f] \in Files /\ url[f] \in Files \cup {Mixed}
    BY DEF FileTypes, ThreadTypes
  <1>2. ThreadTypes'
    BY <1>1 DEF Move, FileTypes, ThreadTypes, Phases, Active
  <1>3. ResultTypes'
    BY DEF Move, FileTypes, ThreadTypes, ResultTypes, Results, Over
  <1>4. DiskTypes'
    BY <1>1 DEF Move, FileTypes, DiskTypes
  <1>5. ArrayTypes' /\ AskTypes' /\ ReportTypes' /\ StateTypes'
    BY FileKept DEF Move
  <1>. QED  BY <1>2, <1>3, <1>4, <1>5 DEF FileTypes

LEMMA ProgressTypes ==
  ASSUME FileTypes, NEW f \in Transfers, Progress(f)
  PROVE  FileTypes'
  <1>1. Place(f).callback \in Transfers
    BY PlaceIs DEF Progress, Files
  <1>2. ReportTypes'
    BY <1>1 DEF Progress, FileTypes, ReportTypes
  <1>. QED  BY <1>2, FileKept DEF Progress, FileTypes

LEMMA CheckTypes ==
  ASSUME FileTypes, NEW f \in Transfers, Check(f)
  PROVE  FileTypes'
  <1>1. thread' = [thread EXCEPT ![f] = "report"] /\ thread[f] = "check"
        /\ UNCHANGED <<queueVars, askVars, threadVars, uploaded, reports, stateVars>>
    BY DEF Check
  <1>2. /\ deleted' \in {deleted, deleted \cup {Place(f).path}}
        /\ deleted' # deleted => Place(f).path \in Archives
        /\ \/ saved' = saved
           \/ saved' = [saved EXCEPT ![Place(f).path] = url[f]]
        /\ \/ result' = result
           \/ result' = [result EXCEPT ![f] = "FAILURE"]
    BY DEF Check
  <1>3. DiskTypes'
    BY <1>1, <1>2, FilesAssumption DEF FileTypes, DiskTypes, ThreadTypes
  <1>4. ThreadTypes'
    BY <1>1 DEF FileTypes, ThreadTypes, Phases, Active, threadVars
  <1>5. ResultTypes'
    BY <1>1, <1>2 DEF FileTypes, ThreadTypes, ResultTypes, Results, Over
  <1>6. ArrayTypes' /\ AskTypes' /\ ReportTypes' /\ StateTypes'
    BY <1>1, FileKept
  <1>. QED  BY <1>3, <1>4, <1>5, <1>6 DEF FileTypes

LEMMA ReportTypesNext ==
  ASSUME FileTypes, NEW f \in Transfers, Report(f)
  PROVE  FileTypes'
  <1>1. result[f] \in Results
    BY DEF Report, FileTypes, ResultTypes, Over
  <1>2. ReportTypes'
    <2>1. CASE Place(f).callback = NoFile
      BY <2>1 DEF Report, FileTypes, ReportTypes
    <2>2. CASE Place(f).callback # NoFile
      <3>1. Place(f).callback \in Transfers
        BY <2>2, PlaceIs DEF Files
      <3>. QED  BY <1>1, <2>2, <3>1 DEF Report, FileTypes, ReportTypes
    <2>. QED  BY <2>1, <2>2
  <1>3. ThreadTypes' /\ ResultTypes'
    BY GoesOn DEF Report, Phases, Active, Over
  <1>. QED  BY <1>2, <1>3, FileKept DEF Report, FileTypes

LEMMA RemoveTypes ==
  ASSUME FileTypes, NEW f \in Transfers, Remove(f)
  PROVE  FileTypes'
  <1>1. ThreadTypes' /\ ResultTypes'
    BY GoesOn DEF Remove, Phases, Active, Over
  <1>2. StateTypes'
    BY DEF Remove, FileTypes, StateTypes
  <1>3. ArrayTypes'
    <2>1. CASE Length(slot[f]) < 0
      BY <2>1, FileKept DEF Remove
    <2>2. CASE ~ (Length(slot[f]) < 0)
      <3> DEFINE i == slot[f]  last == file_transfer_count - 1
      <3>1. /\ i \in Slots /\ file_transfer_queue \in [Slots -> Places]
            /\ file_transfer_count \in 0 .. TR50_FILE_TRANSFER_MAX
        BY DEF FileTypes, ThreadTypes, ArrayTypes
      <3>2. /\ last \in Slots /\ last \in 0 .. TR50_FILE_TRANSFER_MAX /\ Length(i) \in Nat
            /\ Length(i) # 0 => i + 1 \in Slots
        BY <2>2, <3>1, SizeAssumption DEF Slots, Length
      <3> HIDE DEF i, last
      <3>3. Closed(i) \in [Slots -> Places]
        <4>1. CASE Length(i) = 0
          <5>1. Closed(i) = Cleared(file_transfer_queue, last)
            BY <4>1 DEF Closed, Cleared, last
          <5>. QED  BY <3>1, <3>2, <5>1, ClosedTypes
        <4>2. CASE Length(i) = 1
          <5> DEFINE q == [file_transfer_queue EXCEPT
                 ![i].callback = file_transfer_queue[i + 1].callback,
                 ![i].crc32 = file_transfer_queue[i + 1].crc32]
          <5>1. Closed(i) = Cleared(q, last)
            BY <4>2 DEF Closed, Cleared, last, q
          <5>2. file_transfer_queue[i + 1] \in Places
            BY <3>1, <3>2, <4>2
          <5>3. q \in [Slots -> Places]
            BY <3>1, <5>2, MovedTypes
          <5> HIDE DEF q
          <5>. QED  BY <3>2, <5>1, <5>3, ClosedTypes
        <4>3. CASE Length(i) \notin {0, 1}
          <5> DEFINE q == [file_transfer_queue EXCEPT
                 ![i].callback = file_transfer_queue[i + 1].callback,
                 ![i].crc32 = file_transfer_queue[i + 1].crc32,
                 ![i].lib_curl = file_transfer_queue[i + 1].lib_curl]
          <5>1. Closed(i) = Cleared(q, last)
            BY <4>3 DEF Closed, Cleared, last, q
          <5>2. file_transfer_queue[i + 1] \in Places
            BY <3>1, <3>2, <4>3
          <5>3. q \in [Slots -> Places]
            BY <3>1, <5>2, MovedTypes
          <5> HIDE DEF q
          <5>. QED  BY <3>2, <5>1, <5>3, ClosedTypes
        <4>. QED  BY <4>1, <4>2, <4>3
      <3>. QED  BY <2>2, <3>2, <3>3 DEF Remove, ArrayTypes, i, last
    <2>. QED  BY <2>1, <2>2
  <1>. QED  BY <1>1, <1>2, <1>3, FileKept DEF Remove, FileTypes

LEMMA FileNextTypes == FileTypes /\ [FileNext]_fileVars => FileTypes'
  <1> SUFFICES ASSUME FileTypes, [FileNext]_fileVars PROVE FileTypes'
    OBVIOUS
  <1>1. ASSUME NEW f \in Transfers, Prepare(f) \/ Request(f) \/ Full(f) PROVE FileTypes'
    BY <1>1, AskingTypes
  <1>2. ASSUME NEW f \in Transfers, Note(f) PROVE FileTypes'
    BY <1>2, NoteTypes
  <1>3. ASSUME NEW f \in Transfers, Transfer(f) PROVE FileTypes'
    BY <1>3, OpenTypes, StrayTypes, MoveTypes, ProgressTypes, CheckTypes, ReportTypesNext,
       RemoveTypes DEF Transfer
  <1>4. ASSUME NEW r \in requests, NEW b \in BOOLEAN, Answer(r, b) PROVE FileTypes'
    BY <1>4, AskingTypes
  <1>5. ASSUME NEW r \in answers, Begin(r) \/ Drop(r) PROVE FileTypes'
    BY <1>5, AskingTypes, BeginTypes
  <1>6. CASE UNCHANGED fileVars
    BY <1>6, FileKept DEF FileTypes, fileVars, queueVars, askVars, threadVars, diskVars, stateVars
  <1>. QED  BY <1>1, <1>2, <1>3, <1>4, <1>5, <1>6 DEF FileNext

-----------------------------------------------------------------------------
(***************************************************************************)
(* The array as a stack.  A message on its way belongs to a transfer whose *)
(* thread has not begun, and carries the place it is noted in, or, while   *)
(* it is not noted yet, the place it will be noted in; a thread holds the  *)
(* place that is noted for it.                                             *)
(***************************************************************************)
JustNoted(f) == [Zeroed EXCEPT !.path = f, !.callback = f]
Held(p, f) == /\ p.path = f /\ p.callback = f /\ p.crc32 = f /\ p.url = f
              /\ p.lib_curl \in {f, NoFile}

MessageRight(r) ==
  /\ thread[r.file] = "none" /\ r.file \notin prepared
  /\ r.file \in sending => r.id = file_transfer_count
  /\ r.file \notin sending => /\ r.id < file_transfer_count
                              /\ file_transfer_queue[r.id] = JustNoted(r.file)
SendingRight(f) == sending = {f} /\ file_transfer_count < TR50_FILE_TRANSFER_MAX
ThreadRight(f) ==
  thread[f] \in Active => slot[f] < file_transfer_count /\ Held(file_transfer_queue[slot[f]], f)

RequestsRight == \A r \in requests : MessageRight(r)
AnswersRight == \A r \in answers : MessageRight(r)
SendersRight == \A f \in sending : SendingRight(f)
ThreadsRight == \A f \in Transfers : ThreadRight(f)
PreparedRight == \A f \in prepared : thread[f] = "none"
\* A transfer has one message on its way.
Single == /\ \A r, s \in requests : r.file = s.file => r = s
          /\ \A r, s \in answers : r.file = s.file => r = s
          /\ \A r \in requests, s \in answers : r.file # s.file

Stack == /\ RequestsRight /\ AnswersRight /\ SendersRight /\ ThreadsRight /\ PreparedRight
         /\ Single

\* What the thread of a transfer has done so far.
Done(f) ==
  /\ saved[f] \in {NoFile, f}
  /\ \A report \in reports[f] : report[1] = f
  /\ thread[f] \in {"none", "open", "move", "check", "report"} =>
       reports[f] \subseteq {<<f, "INVOKED">>}
  /\ thread[f] \in {"remove", "ended"} =>
       reports[f] \ {<<f, "INVOKED">>} = {<<f, result[f]>>}
  /\ thread[f] = "move" => file_path[f] = f /\ url[f] = f
  /\ thread[f] = "check" /\ result[f] = "SUCCESS" =>
       url[f] \in {f, Mixed} /\ (f \in Uploads => f \in uploaded)

History == ArchiveKept /\ \A f \in Transfers : Done(f)

Good == ~ wild /\ Stack /\ History
FileInv == FileTypes /\ (~ disturbed => Good)

LEMMA FilesPromised == FileInv => FileTypeOK /\ FilesRight /\ EndReported
  <1> SUFFICES ASSUME FileInv PROVE FileTypeOK /\ FilesRight /\ EndReported
    OBVIOUS
  <1>1. FileTypeOK
    BY DEF FileInv, Good, FileTypes, FileTypeOK, ArrayTypes, AskTypes, ThreadTypes, ResultTypes,
           DiskTypes, ReportTypes, StateTypes, Phases, Active
  <1>2. FilesRight
    BY DEF FileInv, Good, History, Done, FilesRight, RightContent
  <1>3. EndReported
    BY DEF FileInv, Good, History, Done, EndReported
  <1>. QED  BY <1>1, <1>2, <1>3

\* Once disturbed, always disturbed.
LEMMA DisturbedStays == [FileNext]_fileVars /\ disturbed => disturbed'
  BY DEF FileNext, fileVars, stateVars, Prepare, Request, Full, Note, Answer, Begin, Drop,
         Transfer, Open, Stray, Move, Progress, Check, Report, Remove

LEMMA FileInitInv == FileInit => FileInv
  <1> SUFFICES ASSUME FileInit PROVE FileInv
    OBVIOUS
  <1>1. Stack
    BY DEF FileInit, Stack, RequestsRight, AnswersRight, SendersRight, ThreadsRight, ThreadRight,
           PreparedRight, Single, Active
  <1>2. History
    BY DEF FileInit, History, Done, ArchiveKept
  <1>. QED  BY <1>1, <1>2, FileInitTypes DEF FileInv, Good, FileInit

\* What no step but those of its thread changes.
LEMMA HistoryKept ==
  ASSUME History, UNCHANGED <<file_path, url, result, diskVars, reports, thread>>
  PROVE  History'
  BY DEF History, Done, ArchiveKept, diskVars

\* The steps of one thread leave what the others have done.
LEMMA OthersDone ==
  ASSUME History, NEW f \in Transfers,
         \A g \in Transfers : g # f =>
           /\ thread'[g] = thread[g] /\ file_path'[g] = file_path[g] /\ url'[g] = url[g]
           /\ result'[g] = result[g] /\ saved'[g] = saved[g] /\ reports'[g] = reports[g],
         uploaded \subseteq uploaded', ArchiveKept', Done(f)'
  PROVE  History'
  <1>1. ASSUME NEW g \in Transfers, g # f PROVE Done(g)'
    BY <1>1 DEF History, Done
  <1>. QED  BY <1>1 DEF History

\* The messages and the threads use places of their own.
LEMMA Apart ==
  ASSUME FileTypes, Stack
  PROVE  /\ \A r \in requests \cup answers, g \in Transfers :
              r.file \notin sending /\ thread[g] \in Active => r.id # slot[g]
         /\ \A f, g \in Transfers :
              thread[f] \in Active /\ thread[g] \in Active /\ f # g => slot[f] # slot[g]
         /\ \A r, s \in requests \cup answers :
              r.file \notin sending /\ s.file \notin sending /\ r.file # s.file => r.id # s.id
  <1>1. \A f \in Transfers : JustNoted(f).path = f
    BY DEF JustNoted, Zeroed
  <1>2. \A r \in requests \cup answers : MessageRight(r) /\ r.file \in Transfers
    BY DEF Stack, RequestsRight, AnswersRight, FileTypes, AskTypes
  <1>3. \A r \in requests \cup answers :
          r.file \notin sending => file_transfer_queue[r.id].path = r.file
    BY <1>1, <1>2 DEF MessageRight
  <1>4. \A g \in Transfers : thread[g] \in Active => file_transfer_queue[slot[g]].path = g
    BY DEF Stack, ThreadsRight, ThreadRight, Held
  <1>5. \A r \in requests \cup answers : thread[r.file] \notin Active
    BY <1>2 DEF MessageRight, Active
  <1>. QED  BY <1>2, <1>3, <1>4, <1>5

-----------------------------------------------------------------------------
(***************************************************************************)
(* The steps of the application and of the cloud.                          *)
(***************************************************************************)
LEMMA PrepareGood ==
  ASSUME FileTypes, Good, NEW f \in Transfers, Prepare(f)
  PROVE  Good'
  <1>1. UNCHANGED <<queueVars, sending, requests, answers, thread, slot>>
        /\ prepared' \in {prepared, prepared \cup {f}} /\ Fresh(f)
    BY DEF Prepare, threadVars
  <1>2. RequestsRight' /\ AnswersRight'
    BY <1>1 DEF Good, Stack, RequestsRight, AnswersRight, MessageRight, Fresh, queueVars
  <1>3. SendersRight' /\ ThreadsRight' /\ PreparedRight' /\ Single'
    BY <1>1 DEF Good, Stack, SendersRight, SendingRight, ThreadsRight, ThreadRight,
                PreparedRight, Single, Fresh, queueVars
  <1>4. History' /\ ~ wild'
    BY HistoryKept DEF Good, Prepare, threadVars, stateVars
  <1>. QED  BY <1>2, <1>3, <1>4 DEF Good, Stack

LEMMA RequestGood ==
  ASSUME FileTypes, Good, NEW f \in Transfers, Request(f), ~ disturbed'
  PROVE  Good'
  <1>1. /\ UNCHANGED <<queueVars, answers, thread, slot, wild>>
        /\ prepared' = prepared \ {f} /\ f \in prepared
        /\ file_transfer_count < TR50_FILE_TRANSFER_MAX
    BY DEF Request, threadVars
  <1>2. History' /\ ~ wild'
    BY HistoryKept DEF Good, Request, threadVars
  <1>3. ThreadsRight' /\ PreparedRight'
    BY <1>1 DEF Good, Stack, ThreadsRight, ThreadRight, PreparedRight, queueVars
  <1>4. thread[f] = "none" /\ \A r \in requests \cup answers : r.file # f
    BY <1>1 DEF Good, Stack, PreparedRight, RequestsRight, AnswersRight, MessageRight
  <1>0. PICK new : new = [file |-> f, id |-> file_transfer_count]
    OBVIOUS
  <1>5. CASE requests' = requests \cup {new} /\ sending' = sending \cup {f} /\ sending = {}
    <2>1. sending' = {f} /\ \A r \in requests \cup answers : r.file \notin sending'
      BY <1>4, <1>5
    <2>2. new.file = f /\ new.id = file_transfer_count
      BY <1>0
    <2>3. \A r \in requests \cup answers : MessageRight(r)'
      BY <1>1, <1>5, <2>1 DEF Good, Stack, RequestsRight, AnswersRight, MessageRight, queueVars
    <2>4. MessageRight(new)'
      BY <1>1, <1>4, <2>1, <2>2 DEF MessageRight, queueVars
    <2>5. RequestsRight' /\ AnswersRight'
      BY <1>1, <1>5, <2>3, <2>4 DEF RequestsRight, AnswersRight
    <2>6. Single'
      BY <1>1, <1>4, <1>5, <2>2 DEF Good, Stack, Single
    <2>7. SendersRight'
      BY <1>1, <2>1 DEF SendersRight, SendingRight, queueVars
    <2>. QED  BY <1>2, <1>3, <2>5, <2>6, <2>7 DEF Good, Stack
  <1>6. CASE UNCHANGED <<requests, sending>>
    <2>1. RequestsRight' /\ AnswersRight' /\ SendersRight' /\ Single'
      BY <1>1, <1>6 DEF Good, Stack, RequestsRight, AnswersRight, MessageRight, SendersRight,
                        SendingRight, Single, queueVars
    <2>. QED  BY <1>2, <1>3, <2>1 DEF Good, Stack
  <1>. QED  BY <1>0, <1>5, <1>6 DEF Request

LEMMA FullGood ==
  ASSUME FileTypes, Good, NEW f \in Transfers, Full(f)
  PROVE  Good'
  <1>1. UNCHANGED <<queueVars, sending, requests, answers, thread, slot>>
        /\ prepared' = prepared \ {f}
    BY DEF Full, threadVars
  <1>2. RequestsRight' /\ AnswersRight'
    BY <1>1 DEF Good, Stack, RequestsRight, AnswersRight, MessageRight, queueVars
  <1>3. SendersRight' /\ ThreadsRight' /\ PreparedRight' /\ Single'
    BY <1>1 DEF Good, Stack, SendersRight, SendingRight, ThreadsRight, ThreadRight,
                PreparedRight, Single, queueVars
  <1>4. History' /\ ~ wild'
    BY HistoryKept DEF Good, Full, threadVars, stateVars
  <1>. QED  BY <1>2, <1>3, <1>4 DEF Good, Stack

\* The place the request went out with is still the next one.
LEMMA NoteGood ==
  ASSUME FileTypes, Good, NEW f \in Transfers, Note(f)
  PROVE  Good'
  <1> DEFINE c == file_transfer_count
  <1>1. sending = {f} /\ c < TR50_FILE_TRANSFER_MAX /\ c \in Slots
    BY SizeAssumption DEF Note, Good, Stack, SendersRight, SendingRight, FileTypes, ArrayTypes,
                          Slots
  <1>2. /\ file_transfer_queue' = [file_transfer_queue EXCEPT ![c] = JustNoted(f)]
        /\ c' = c + 1 /\ sending' = {}
        /\ UNCHANGED <<prepared, requests, answers, thread, slot, wild>>
    BY <1>1 DEF Note, JustNoted, threadVars
  <1>3. /\ file_transfer_queue'[c] = JustNoted(f)
        /\ \A i \in Slots : i # c => file_transfer_queue'[i] = file_transfer_queue[i]
    BY <1>1, <1>2 DEF FileTypes, ArrayTypes
  <1>4. c \in Int /\ c' = c + 1
    BY <1>1, <1>2, SizeAssumption DEF Slots
  <1> HIDE DEF c
  <1>5. ASSUME NEW r \in requests \cup answers PROVE MessageRight(r)'
    <2>1. MessageRight(r) /\ r.file \in Transfers /\ r.id \in Slots /\ r.id \in Int
      BY SizeAssumption
      DEF Good, Stack, RequestsRight, AnswersRight, FileTypes, AskTypes, Slots
    <2>2. CASE r.file = f
      BY <1>1, <1>2, <1>3, <1>4, <2>1, <2>2 DEF MessageRight, c
    <2>3. CASE r.file # f
      BY <1>1, <1>2, <1>3, <1>4, <2>1, <2>3 DEF MessageRight, c
    <2>. QED  BY <2>2, <2>3
  <1>6. RequestsRight' /\ AnswersRight'
    BY <1>2, <1>5 DEF RequestsRight, AnswersRight
  <1>7. ThreadsRight'
    <2> SUFFICES ASSUME NEW g \in Transfers, thread[g] \in Active
                 PROVE  /\ slot'[g] < file_transfer_count'
                        /\ Held(file_transfer_queue'[slot'[g]], g)
      BY <1>2 DEF ThreadsRight, ThreadRight
    <2>1. slot[g] \in Slots /\ slot[g] \in Int /\ slot[g] < c /\ Held(file_transfer_queue[slot[g]], g)
      BY SizeAssumption DEF Good, Stack, ThreadsRight, ThreadRight, FileTypes, ThreadTypes, Slots, c
    <2>2. file_transfer_queue'[slot[g]] = file_transfer_queue[slot[g]]
      BY <1>3, <1>4, <2>1
    <2>3. slot[g] < c'
      BY <1>4, <2>1
    <2>. QED  BY <1>2, <2>1, <2>2, <2>3 DEF c
  <1>8. SendersRight' /\ PreparedRight' /\ Single'
    BY <1>2 DEF Good, Stack, SendersRight, PreparedRight, Single
  <1>9. History' /\ ~ wild'
    BY <1>2, HistoryKept DEF Good, Note, threadVars
  <1>. QED  BY <1>6, <1>7, <1>8, <1>9 DEF Good, Stack

LEMMA AnswerGood ==
  ASSUME FileTypes, Good, NEW r \in requests, NEW b \in BOOLEAN, Answer(r, b)
  PROVE  Good'
  <1> DEFINE new == [file |-> r.file, id |-> r.id, success |-> b]
  <1>1. UNCHANGED <<queueVars, sending, prepared, thread, slot>>
        /\ requests' = requests \ {r} /\ answers' = answers \cup {new}
    BY DEF Answer, threadVars
  <1>2. new.file = r.file /\ new.id = r.id
    OBVIOUS
  <1> HIDE DEF new
  <1>3. \A s \in requests \cup answers : MessageRight(s)'
    BY <1>1 DEF Good, Stack, RequestsRight, AnswersRight, MessageRight, queueVars
  <1>4. MessageRight(new)'
    BY <1>2, <1>3 DEF MessageRight
  <1>5. RequestsRight' /\ AnswersRight'
    BY <1>1, <1>3, <1>4 DEF RequestsRight, AnswersRight
  <1>6. Single'
    BY <1>1, <1>2 DEF Good, Stack, Single
  <1>7. SendersRight' /\ ThreadsRight' /\ PreparedRight'
    BY <1>1 DEF Good, Stack, SendersRight, SendingRight, ThreadsRight, ThreadRight,
                PreparedRight, queueVars
  <1>8. History' /\ ~ wild'
    BY HistoryKept DEF Good, Answer, threadVars, stateVars
  <1>. QED  BY <1>5, <1>6, <1>7, <1>8 DEF Good, Stack

LEMMA DropGood ==
  ASSUME FileTypes, Good, NEW r \in answers, Drop(r)
  PROVE  Good'
  <1>1. UNCHANGED <<queueVars, sending, prepared, requests, thread, slot>>
        /\ answers' = answers \ {r}
    BY DEF Drop, threadVars
  <1>2. RequestsRight' /\ AnswersRight'
    BY <1>1 DEF Good, Stack, RequestsRight, AnswersRight, MessageRight, queueVars
  <1>3. SendersRight' /\ ThreadsRight' /\ PreparedRight' /\ Single'
    BY <1>1 DEF Good, Stack, SendersRight, SendingRight, ThreadsRight, ThreadRight,
                PreparedRight, Single, queueVars
  <1>4. History' /\ ~ wild'
    BY HistoryKept DEF Good, Drop, threadVars, stateVars
  <1>. QED  BY <1>2, <1>3, <1>4 DEF Good, Stack

\* The place of the reply is noted for its transfer.
LEMMA BeginGood ==
  ASSUME FileTypes, Good, NEW r \in answers, Begin(r), ~ disturbed'
  PROVE  Good'
  <1> DEFINE f == r.file
             i == r.id
  <1>1. f \in Transfers /\ i \in Slots /\ f \notin sending
    BY DEF FileTypes, AskTypes, Begin
  <1>2. /\ thread[f] = "none" /\ f \notin prepared /\ i < file_transfer_count
        /\ file_transfer_queue[i] = JustNoted(f)
    BY <1>1 DEF Good, Stack, AnswersRight, MessageRight
  <1>3. /\ file_transfer_queue' = [file_transfer_queue EXCEPT ![i].url = f, ![i].crc32 = f]
        /\ answers' = answers \ {r}
        /\ UNCHANGED <<file_transfer_count, prepared, sending, requests, file_path, url, result,
                       diskVars, reports, wild>>
        /\ \/ thread' = [thread EXCEPT ![f] = "open"] /\ slot' = [slot EXCEPT ![f] = i]
           \/ UNCHANGED <<thread, slot>>
    BY DEF Begin
  <1> HIDE DEF f, i
  <1>4. /\ \A j \in Slots : j # i => file_transfer_queue'[j] = file_transfer_queue[j]
        /\ file_transfer_queue'[i] = [file_transfer_queue[i] EXCEPT !.url = f, !.crc32 = f]
    BY <1>1, <1>3 DEF FileTypes, ArrayTypes
  <1>5. Held(file_transfer_queue'[i], f)
    BY <1>2, <1>4 DEF Held, JustNoted, Zeroed
  <1>6. /\ \A g \in Transfers : g # f => thread'[g] = thread[g] /\ slot'[g] = slot[g]
        /\ \/ thread'[f] = "open" /\ slot'[f] = i
           \/ thread'[f] = "none"
    BY <1>1, <1>2, <1>3 DEF FileTypes, ThreadTypes
  <1>7. \A s \in requests \cup answers' : s.file # f
    BY <1>3 DEF Good, Stack, Single, f
  <1>8. ASSUME NEW s \in requests \cup answers' PROVE MessageRight(s)'
    <2>1. s \in requests \cup answers /\ s.file # f
      BY <1>3, <1>7
    <2>2. MessageRight(s) /\ s.file \in Transfers /\ s.id \in Slots
      BY <2>1 DEF Good, Stack, RequestsRight, AnswersRight, FileTypes, AskTypes
    <2>3. s.file \notin sending => s.id # i
      BY <1>1, <2>1, Apart DEF Good, f, i
    <2>4. s.file \notin sending => file_transfer_queue'[s.id] = file_transfer_queue[s.id]
      BY <1>4, <2>2, <2>3
    <2>. QED  BY <1>3, <1>6, <2>1, <2>2, <2>4 DEF MessageRight
  <1>9. RequestsRight' /\ AnswersRight'
    BY <1>3, <1>8 DEF RequestsRight, AnswersRight
  <1>10. ASSUME NEW g \in Transfers, thread'[g] \in Active
         PROVE  slot'[g] < file_transfer_count' /\ Held(file_transfer_queue'[slot'[g]], g)
    <2>1. CASE g = f
      BY <1>2, <1>3, <1>5, <1>6, <1>10, <2>1 DEF Active
    <2>2. CASE g # f
      <3>1. thread[g] \in Active /\ slot'[g] = slot[g] /\ slot[g] \in Slots
        BY <1>6, <1>10, <2>2 DEF FileTypes, ThreadTypes
      <3>2. slot[g] # i
        BY <1>1, <3>1, Apart DEF Good, f, i
      <3>3. slot[g] < file_transfer_count /\ Held(file_transfer_queue[slot[g]], g)
        BY <3>1 DEF Good, Stack, ThreadsRight, ThreadRight
      <3>. QED  BY <1>3, <1>4, <3>1, <3>2, <3>3
    <2>. QED  BY <2>1, <2>2
  <1>11. ThreadsRight'
    BY <1>10 DEF ThreadsRight, ThreadRight
  <1>12. SendersRight' /\ PreparedRight' /\ Single'
    <2>1. PreparedRight'
      BY <1>2, <1>3, <1>6 DEF Good, Stack, PreparedRight, FileTypes, AskTypes
    <2>2. SendersRight' /\ Single'
      BY <1>3 DEF Good, Stack, SendersRight, SendingRight, Single
    <2>. QED  BY <2>1, <2>2
  <1>13. History'
    <2>1. Done(f)'
      BY <1>1, <1>2, <1>3, <1>6 DEF Good, History, Done, diskVars
    <2>2. ArchiveKept' /\ uploaded' = uploaded
      BY <1>3 DEF Good, History, ArchiveKept, diskVars
    <2>. QED  BY <1>1, <1>3, <1>6, <2>1, <2>2, OthersDone DEF Good, diskVars
  <1>. QED  BY <1>3, <1>9, <1>11, <1>12, <1>13 DEF Good, Stack

-----------------------------------------------------------------------------
(***************************************************************************)
(* The steps of a thread.                                                  *)
(***************************************************************************)
LEMMA AtItsPlace ==
  ASSUME FileTypes, Good, NEW f \in Transfers, thread[f] \in Active
  PROVE  /\ Held(Place(f), f) /\ OwnHandle(f) /\ Done(f)
         /\ slot[f] \in Slots /\ slot[f] < file_transfer_count
  BY DEF Good, Stack, ThreadsRight, ThreadRight, History, Place, Held, OwnHandle, FileTypes,
         ThreadTypes

\* The thread goes on, and the array stays as it is.
LEMMA StillStack ==
  ASSUME FileTypes, Good, NEW f \in Transfers, thread[f] \in Active, NEW p \in Active,
         thread' = [thread EXCEPT ![f] = p], UNCHANGED <<queueVars, askVars, slot>>
  PROVE  Stack' /\ thread'[f] = p /\ \A g \in Transfers : g # f => thread'[g] = thread[g]
  <1>1. thread'[f] = p /\ \A g \in Transfers : g # f => thread'[g] = thread[g]
    BY DEF FileTypes, ThreadTypes
  <1>2. \A g \in Transfers : /\ thread[g] = "none" => thread'[g] = "none"
                             /\ thread'[g] \in Active => thread[g] \in Active
    BY <1>1 DEF Active
  <1>3. ASSUME NEW r \in requests \cup answers PROVE MessageRight(r)'
    <2>1. MessageRight(r) /\ r.file \in Transfers
      BY DEF Good, Stack, RequestsRight, AnswersRight, FileTypes, AskTypes
    <2>. QED  BY <1>2, <2>1 DEF MessageRight, queueVars, askVars
  <1>4. RequestsRight' /\ AnswersRight'
    BY <1>3 DEF RequestsRight, AnswersRight, askVars
  <1>5. ThreadsRight'
    BY <1>2 DEF Good, Stack, ThreadsRight, ThreadRight, queueVars
  <1>6. PreparedRight'
    BY <1>2 DEF Good, Stack, PreparedRight, FileTypes, AskTypes, askVars
  <1>7. SendersRight' /\ Single'
    BY DEF Good, Stack, SendersRight, SendingRight, Single, queueVars, askVars
  <1>. QED  BY <1>1, <1>4, <1>5, <1>6, <1>7 DEF Stack

\* The handle is noted in the thread's own place.
LEMMA OpenStack ==
  ASSUME FileTypes, Good, NEW f \in Transfers, Open(f)
  PROVE  Stack' /\ \A g \in Transfers : g # f => thread'[g] = thread[g]
  <1> DEFINE i == slot[f]
  <1>1. /\ thread[f] = "open" /\ thread[f] \in Active /\ UNCHANGED <<file_transfer_count, askVars, slot>>
        /\ \E h \in {NoFile, f} :
             file_transfer_queue' = [file_transfer_queue EXCEPT ![i].lib_curl = h]
        /\ \E p \in {"move", "check"} : thread' = [thread EXCEPT ![f] = p]
    BY DEF Open, Active
  <1>2. Held(file_transfer_queue[i], f) /\ i \in Slots /\ i < file_transfer_count
    BY <1>1, AtItsPlace DEF Place
  <1> HIDE DEF i
  <1>3. PICK h \in {NoFile, f} :
          file_transfer_queue' = [file_transfer_queue EXCEPT ![i].lib_curl = h]
    BY <1>1
  <1>4. /\ \A j \in Slots : j # i => file_transfer_queue'[j] = file_transfer_queue[j]
        /\ file_transfer_queue'[i] = [file_transfer_queue[i] EXCEPT !.lib_curl = h]
        /\ file_transfer_queue[i] \in Places
    BY <1>2, <1>3 DEF FileTypes, ArrayTypes
  <1>5. Held(file_transfer_queue'[i], f)
    BY <1>2, <1>4 DEF Held, Places
  <1>6. /\ \A g \in Transfers : g # f => thread'[g] = thread[g]
        /\ thread'[f] \in Active
    BY <1>1 DEF FileTypes, ThreadTypes, Active
  <1>7. \A g \in Transfers : /\ thread[g] = "none" => thread'[g] = "none"
                             /\ thread'[g] \in Active => thread[g] \in Active
    BY <1>1, <1>6 DEF Active
  <1>8. ASSUME NEW r \in requests \cup answers PROVE MessageRight(r)'
    <2>1. MessageRight(r) /\ r.file \in Transfers /\ r.id \in Slots
      BY DEF Good, Stack, RequestsRight, AnswersRight, FileTypes, AskTypes
    <2>2. r.file \notin sending => file_transfer_queue'[r.id] = file_transfer_queue[r.id]
      <3>1. r.file \notin sending => r.id # i
        BY <1>1, Apart DEF Good, i
      <3>. QED  BY <1>4, <2>1, <3>1
    <2>. QED  BY <1>1, <1>7, <2>1, <2>2 DEF MessageRight, askVars
  <1>9. RequestsRight' /\ AnswersRight'
    BY <1>1, <1>8 DEF RequestsRight, AnswersRight, askVars
  <1>10. ASSUME NEW g \in Transfers, thread'[g] \in Active
         PROVE  slot[g] < file_transfer_count /\ Held(file_transfer_queue'[slot[g]], g)
    <2>1. CASE g = f
      BY <1>2, <1>5, <2>1 DEF i
    <2>2. CASE g # f
      <3>1. thread[g] \in Active /\ slot[g] \in Slots
        BY <1>7, <1>10 DEF FileTypes, ThreadTypes
      <3>2. slot[g] # i
        BY <1>1, <2>2, <3>1, Apart DEF Good, i
      <3>. QED  BY <1>4, <3>1, <3>2 DEF Good, Stack, ThreadsRight, ThreadRight
    <2>. QED  BY <2>1, <2>2
  <1>11. ThreadsRight'
    BY <1>1, <1>10 DEF ThreadsRight, ThreadRight
  <1>12. PreparedRight'
    BY <1>1, <1>7 DEF Good, Stack, PreparedRight, FileTypes, AskTypes, askVars
  <1>13. SendersRight' /\ Single'
    BY <1>1 DEF Good, Stack, SendersRight, SendingRight, Single, askVars
  <1>. QED  BY <1>6, <1>9, <1>11, <1>12, <1>13 DEF Stack

LEMMA OpenGood ==
  ASSUME FileTypes, Good, NEW f \in Transfers, Open(f)
  PROVE  Good'
  <1>1. Stack' /\ \A g \in Transfers : g # f => thread'[g] = thread[g]
    BY OpenStack
  <1>2. thread[f] = "open" /\ Held(Place(f), f) /\ Done(f)
    BY AtItsPlace DEF Open, Active
  <1>3. UNCHANGED <<diskVars, reports, wild>> /\ ArchiveKept'
    BY DEF Open, stateVars, diskVars, Good, History, ArchiveKept
  <1>4. CASE /\ file_path' = [file_path EXCEPT ![f] = Place(f).path]
             /\ url' = [url EXCEPT ![f] = Place(f).url]
             /\ thread' = [thread EXCEPT ![f] = "move"] /\ UNCHANGED result
    <2>1. /\ file_path'[f] = f /\ url'[f] = f /\ thread'[f] = "move"
          /\ \A g \in Transfers : g # f => file_path'[g] = file_path[g] /\ url'[g] = url[g]
      BY <1>2, <1>4 DEF FileTypes, ThreadTypes, Held
    <2>2. Done(f)'
      BY <1>2, <1>3, <1>4, <2>1 DEF Done, diskVars
    <2>3. History'
      BY <1>1, <1>3, <1>4, <2>1, <2>2, OthersDone DEF Good, diskVars
    <2>. QED  BY <1>1, <1>3, <2>3 DEF Good
  <1>5. CASE /\ result' = [result EXCEPT ![f] = "BAD_PARAMETER"]
             /\ thread' = [thread EXCEPT ![f] = "check"] /\ UNCHANGED <<file_path, url>>
    <2>1. /\ result'[f] = "BAD_PARAMETER" /\ thread'[f] = "check"
          /\ \A g \in Transfers : g # f => result'[g] = result[g]
      BY <1>5 DEF FileTypes, ThreadTypes, ResultTypes
    <2>2. Done(f)'
      BY <1>2, <1>3, <1>5, <2>1 DEF Done, diskVars
    <2>3. History'
      BY <1>1, <1>3, <1>5, <2>1, <2>2, OthersDone DEF Good, diskVars
    <2>. QED  BY <1>1, <1>3, <2>3 DEF Good
  <1>. QED  BY <1>4, <1>5 DEF Open

LEMMA MoveGood ==
  ASSUME FileTypes, Good, NEW f \in Transfers, Move(f)
  PROVE  Good'
  <1>1. thread[f] = "move" /\ Place(f).path = f /\ Done(f) /\ file_path[f] = f /\ url[f] = f
    BY AtItsPlace DEF Move, Active, Held, Done
  <1>2. UNCHANGED <<queueVars, askVars, slot, file_path, saved, deleted, reports, wild>>
        /\ thread' = [thread EXCEPT ![f] = "check"]
    BY DEF Move, stateVars
  <1>3. Stack' /\ thread'[f] = "check" /\ \A g \in Transfers : g # f => thread'[g] = thread[g]
    BY <1>1, <1>2, StillStack DEF Active
  <1>4. /\ uploaded \subseteq uploaded'
        /\ \A g \in Transfers : g # f => url'[g] = url[g] /\ result'[g] = result[g]
        /\ result'[f] = "SUCCESS" =>
             url'[f] \in {f, Mixed} /\ (f \in Uploads => f \in uploaded')
    <2>1. CASE /\ result' = [result EXCEPT ![f] = "SUCCESS"]
               /\ \E content \in {url[f], Mixed} : url' = [url EXCEPT ![f] = content]
               /\ uploaded' = IF Place(f).path \in Uploads THEN uploaded \cup {file_path[f]}
                              ELSE uploaded
      <3>1. uploaded' = IF f \in Uploads THEN uploaded \cup {f} ELSE uploaded
        BY <1>1, <2>1
      <3>2. PICK content \in {f, Mixed} : url' = [url EXCEPT ![f] = content]
        BY <1>1, <2>1
      <3>. QED  BY <2>1, <3>1, <3>2 DEF FileTypes, ThreadTypes, ResultTypes
    <2>2. CASE result' = [result EXCEPT ![f] = "BAD_PARAMETER"] /\ UNCHANGED <<uploaded, url>>
      BY <2>2 DEF FileTypes, ResultTypes
    <2>. QED  BY <2>1, <2>2 DEF Move
  <1>5. Done(f)'
    BY <1>1, <1>2, <1>3, <1>4 DEF Done
  <1>6. ArchiveKept'
    BY <1>2, <1>4 DEF Good, History, ArchiveKept
  <1>7. History'
    BY <1>2, <1>3, <1>4, <1>5, <1>6, OthersDone DEF Good
  <1>. QED  BY <1>2, <1>3, <1>7 DEF Good

LEMMA ProgressGood ==
  ASSUME FileTypes, Good, NEW f \in Transfers, Progress(f)
  PROVE  Good'
  <1>1. thread[f] = "move" /\ Place(f).callback = f /\ Done(f)
    BY AtItsPlace DEF Progress, Active, Held
  <1>2. UNCHANGED <<queueVars, askVars, thread, threadVars, result, diskVars, wild>>
        /\ reports' = [reports EXCEPT ![f] = @ \cup {<<f, "INVOKED">>}]
    BY <1>1 DEF Progress, stateVars
  <1>3. Stack'
    BY <1>2 DEF Good, Stack, RequestsRight, AnswersRight, MessageRight, SendersRight,
                SendingRight, ThreadsRight, ThreadRight, PreparedRight, Single, queueVars,
                askVars, threadVars
  <1>4. reports'[f] = reports[f] \cup {<<f, "INVOKED">>}
        /\ \A g \in Transfers : g # f => reports'[g] = reports[g]
    BY <1>2 DEF FileTypes, ReportTypes
  <1>5. Done(f)'
    BY <1>1, <1>2, <1>4 DEF Done, threadVars, diskVars
  <1>6. ArchiveKept'
    BY <1>2 DEF Good, History, ArchiveKept, diskVars
  <1>7. History'
    BY <1>2, <1>4, <1>5, <1>6, OthersDone DEF Good, threadVars, diskVars
  <1>. QED  BY <1>2, <1>3, <1>7 DEF Good

LEMMA CheckGood ==
  ASSUME FileTypes, Good, NEW f \in Transfers, Check(f)
  PROVE  Good'
  <1>1. /\ thread[f] = "check" /\ Place(f).path = f /\ Place(f).crc32 = f /\ Done(f)
        /\ saved[f] \in {NoFile, f} /\ deleted \subseteq uploaded
    BY AtItsPlace DEF Check, Active, Held, Done, Good, History, ArchiveKept
  <1>2. UNCHANGED <<queueVars, askVars, slot, file_path, url, uploaded, reports, wild>>
        /\ thread' = [thread EXCEPT ![f] = "report"]
    BY DEF Check, stateVars, threadVars
  <1>3. Stack' /\ thread'[f] = "report" /\ \A g \in Transfers : g # f => thread'[g] = thread[g]
    BY <1>1, <1>2, StillStack DEF Active
  <1>4. /\ deleted' \subseteq uploaded /\ saved'[f] \in {NoFile, f}
        /\ \A g \in Transfers : g # f => saved'[g] = saved[g] /\ result'[g] = result[g]
    <2>1. CASE UNCHANGED <<result, saved, deleted>>
      BY <1>1, <2>1
    <2>2. CASE /\ result[f] = "SUCCESS" /\ f \in Uploads
               /\ deleted' = IF f \in Archives THEN deleted \cup {f} ELSE deleted
               /\ UNCHANGED <<result, saved>>
      <3>1. f \in uploaded
        BY <1>1, <2>2 DEF Done
      <3>. QED  BY <1>1, <2>2, <3>1
    <2>3. CASE /\ url[f] = f /\ UNCHANGED <<result, deleted>>
               /\ saved' = [saved EXCEPT ![f] = url[f]]
      BY <1>1, <2>3 DEF FileTypes, DiskTypes
    <2>4. CASE result' = [result EXCEPT ![f] = "FAILURE"] /\ UNCHANGED <<saved, deleted>>
      BY <1>1, <2>4 DEF FileTypes, ResultTypes
    <2>. QED  BY <1>1, <2>1, <2>2, <2>3, <2>4, Zenon DEF Check
  <1>5. Done(f)'
    BY <1>1, <1>2, <1>3, <1>4 DEF Done
  <1>6. ArchiveKept'
    BY <1>2, <1>4 DEF ArchiveKept
  <1>7. History'
    BY <1>2, <1>3, <1>4, <1>5, <1>6, OthersDone DEF Good
  <1>. QED  BY <1>2, <1>3, <1>7 DEF Good

LEMMA ReportGood ==
  ASSUME FileTypes, Good, NEW f \in Transfers, Report(f)
  PROVE  Good'
  <1>1. thread[f] = "report" /\ Place(f).callback = f /\ Done(f)
    BY AtItsPlace DEF Report, Active, Held
  <1>2. UNCHANGED <<queueVars, askVars, slot, file_path, url, result, diskVars, wild>>
        /\ thread' = [thread EXCEPT ![f] = "remove"]
    BY DEF Report, stateVars, threadVars
  <1>3. reports' = [reports EXCEPT ![f] = @ \cup {<<f, result[f]>>}]
    BY <1>1, NoFileIs DEF Report
  <1>4. Stack' /\ thread'[f] = "remove" /\ \A g \in Transfers : g # f => thread'[g] = thread[g]
    BY <1>1, <1>2, StillStack DEF Active
  <1>5. /\ reports'[f] = reports[f] \cup {<<f, result[f]>>}
        /\ \A g \in Transfers : g # f => reports'[g] = reports[g]
    BY <1>3 DEF FileTypes, ReportTypes
  <1>6. result[f] \in Results /\ reports[f] \subseteq {<<f, "INVOKED">>}
    BY <1>1 DEF Done, FileTypes, ResultTypes, Over
  <1>7. reports'[f] \ {<<f, "INVOKED">>} = {<<f, result[f]>>}
    <2>1. <<f, result[f]>> # <<f, "INVOKED">>
      BY <1>6 DEF Results
    <2>. QED  BY <1>5, <1>6, <2>1
  <1>8. Done(f)'
    <2>1. \A report \in reports'[f] : report[1] = f
      BY <1>5, <1>6
    <2>. QED  BY <1>1, <1>2, <1>4, <1>7, <2>1 DEF Done, diskVars
  <1>9. ArchiveKept'
    BY <1>2 DEF Good, History, ArchiveKept, diskVars
  <1>10. History'
    BY <1>2, <1>4, <1>5, <1>8, <1>9, OthersDone DEF Good, diskVars
  <1>. QED  BY <1>2, <1>4, <1>10 DEF Good

\* The place that is taken away is the last, so that nothing moves.
LEMMA RemoveGood ==
  ASSUME FileTypes, Good, NEW f \in Transfers, Remove(f), ~ disturbed'
  PROVE  Good'
  <1> DEFINE i == slot[f]
             c == file_transfer_count
  <1>1. /\ thread[f] = "remove" /\ thread[f] \in Active /\ Length(i) = 0 /\ sending = {}
        /\ UNCHANGED <<askVars, threadVars, result, diskVars, reports>>
        /\ thread' = [thread EXCEPT ![f] = "ended"]
    BY DEF Remove, Active
  <1>2. i \in Slots /\ i < c /\ Done(f)
    BY <1>1, AtItsPlace
  <1>3. file_transfer_queue' = Closed(i) /\ c' = c - 1 /\ wild' = wild
    BY <1>1 DEF Remove
  <1>4. i \in Int /\ c \in Int /\ i = c - 1
    BY <1>1, <1>2, SizeAssumption DEF Length, Slots, FileTypes, ArrayTypes
  <1>5. file_transfer_queue' = [file_transfer_queue EXCEPT ![i].callback = NoFile, ![i].crc32 = NoFile]
    BY <1>1, <1>3, <1>4 DEF Closed
  <1> HIDE DEF i, c
  <1>6. \A j \in Slots : j # i => file_transfer_queue'[j] = file_transfer_queue[j]
    BY <1>2, <1>5 DEF FileTypes, ArrayTypes
  <1>7. thread'[f] = "ended" /\ \A g \in Transfers : g # f => thread'[g] = thread[g]
    BY <1>1 DEF FileTypes, ThreadTypes
  <1>8. \A g \in Transfers : /\ thread[g] = "none" => thread'[g] = "none"
                             /\ thread'[g] \in Active => thread[g] \in Active /\ g # f
    BY <1>1, <1>7 DEF Active
  <1>9. ASSUME NEW j \in Slots, j # i, j < c PROVE j < c'
    <2>1. j \in Int
      BY SizeAssumption DEF Slots
    <2>. QED  BY <1>3, <1>4, <1>9, <2>1
  <1>10. ASSUME NEW r \in requests \cup answers PROVE MessageRight(r)'
    <2>1. MessageRight(r) /\ r.file \in Transfers /\ r.id \in Slots /\ r.file \notin sending
      BY <1>1 DEF Good, Stack, RequestsRight, AnswersRight, FileTypes, AskTypes
    <2>2. r.id # i
      BY <1>1, <2>1, Apart DEF Good, i
    <2>3. file_transfer_queue'[r.id] = file_transfer_queue[r.id] /\ r.id < c'
      BY <1>6, <1>9, <2>1, <2>2 DEF MessageRight, c
    <2>. QED  BY <1>1, <1>8, <2>1, <2>3 DEF MessageRight, askVars, c
  <1>11. RequestsRight' /\ AnswersRight'
    BY <1>1, <1>10 DEF RequestsRight, AnswersRight, askVars
  <1>12. ASSUME NEW g \in Transfers, thread'[g] \in Active
         PROVE  slot[g] < c' /\ Held(file_transfer_queue'[slot[g]], g)
    <2>1. thread[g] \in Active /\ g # f /\ slot[g] \in Slots
      BY <1>8, <1>12 DEF FileTypes, ThreadTypes
    <2>2. slot[g] # i
      BY <1>1, <2>1, Apart DEF Good, i
    <2>3. slot[g] < c /\ Held(file_transfer_queue[slot[g]], g)
      BY <2>1 DEF Good, Stack, ThreadsRight, ThreadRight, c
    <2>. QED  BY <1>6, <1>9, <2>1, <2>2, <2>3
  <1>13. ThreadsRight'
    BY <1>1, <1>12 DEF ThreadsRight, ThreadRight, threadVars, c
  <1>14. PreparedRight'
    BY <1>1, <1>8 DEF Good, Stack, PreparedRight, FileTypes, AskTypes, askVars
  <1>15. SendersRight' /\ Single'
    BY <1>1 DEF Good, Stack, SendersRight, Single, askVars
  <1>16. Done(f)'
    BY <1>1, <1>2, <1>7 DEF Done, threadVars, diskVars
  <1>17. ArchiveKept'
    BY <1>1 DEF Good, History, ArchiveKept, diskVars
  <1>18. History'
    BY <1>1, <1>7, <1>16, <1>17, OthersDone DEF Good, threadVars, diskVars
  <1>. QED  BY <1>3, <1>11, <1>13, <1>14, <1>15, <1>18 DEF Good, Stack

-----------------------------------------------------------------------------
(***************************************************************************)
(* The theorems.                                                           *)
(***************************************************************************)
LEMMA FileNextGood ==
  ASSUME FileTypes, Good, [FileNext]_fileVars, ~ disturbed'
  PROVE  Good'
  <1>1. ASSUME NEW f \in Transfers, Prepare(f) \/ Request(f) \/ Full(f) \/ Note(f) PROVE Good'
    BY <1>1, PrepareGood, RequestGood, FullGood, NoteGood
  <1>2. ASSUME NEW f \in Transfers, Transfer(f) PROVE Good'
    <2>1. ~ Stray(f)
      BY AtItsPlace DEF Stray, Active
    <2>. QED  BY <1>2, <2>1, OpenGood, MoveGood, ProgressGood, CheckGood, ReportGood, RemoveGood
              DEF Transfer
  <1>3. ASSUME NEW r \in requests, NEW b \in BOOLEAN, Answer(r, b) PROVE Good'
    BY <1>3, AnswerGood
  <1>4. ASSUME NEW r \in answers, Begin(r) \/ Drop(r) PROVE Good'
    BY <1>4, BeginGood, DropGood
  <1>5. CASE UNCHANGED fileVars
    <2>1. Stack'
      BY <1>5 DEF Good, Stack, RequestsRight, AnswersRight, MessageRight, SendersRight,
                  SendingRight, ThreadsRight, ThreadRight, PreparedRight, Single, fileVars
    <2>2. History' /\ ~ wild'
      BY <1>5, HistoryKept DEF Good, fileVars, diskVars
    <2>. QED  BY <2>1, <2>2 DEF Good
  <1>. QED  BY <1>1, <1>2, <1>3, <1>4, <1>5 DEF FileNext

LEMMA FileInductive == FileSpec => []FileInv
  <1>1. FileInv /\ [FileNext]_fileVars => FileInv'
    <2> SUFFICES ASSUME FileInv, [FileNext]_fileVars PROVE FileInv'
      OBVIOUS
    <2>1. FileTypes'
      BY FileNextTypes DEF FileInv
    <2>2. ~ disturbed' => ~ disturbed
      BY DisturbedStays
    <2>3. ~ disturbed' => Good'
      BY <2>2, FileNextGood DEF FileInv
    <2>. QED  BY <2>1, <2>3 DEF FileInv
  <1>. QED  BY <1>1, FileInitInv, PTL DEF FileSpec

\* Every variable has its type, however many transfers are under way; and an
\* array used as a stack moves no memory but its own, and no thread to another's
\* handle (tr50_file_request_send, tr50_file_transfer).
THEOREM TransferTypes == FileSpec => []FileTypeOK
  BY FileInductive, FilesPromised, PTL

\* As long as the array is used as a stack, what a download keeps is what was
\* asked for at that path, and a local archive is deleted only when the cloud has
\* it, however many transfers are under way (tr50_file_transfer).
THEOREM FilesAreRight == FileSpec => []FilesRight
  BY FileInductive, FilesPromised, PTL

\* As long as the array is used as a stack, a transfer that has ended has reported
\* its own result to its own callback, once, and nothing else has, however many
\* transfers are under way (tr50_file_transfer, tr50_file_progress).
THEOREM EndIsReported == FileSpec => []EndReported
  BY FileInductive, FilesPromised, PTL
=============================================================================
