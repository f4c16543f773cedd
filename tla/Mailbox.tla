------------------------------ MODULE Mailbox ------------------------------
(***************************************************************************)
(* How the tr50 plug-in fetches action requests from the mailbox of the    *)
(* cloud.                                                                  *)
(*                                                                         *)
(* The cloud notifies the device of mail; the device answers with a check, *)
(* and gets one request at most.  Three kinds of threads check: the MQTT   *)
(* thread when a notice or a request has come in, the thread that connects *)
(* and reconnects, and each worker when it has processed a request.  They  *)
(* share the time of the last check, which only a test and set protects,   *)
(* and the count of the records in use, which they read without a lock.    *)
(***************************************************************************)
EXTENDS Integers, Sequences, FiniteSets

CONSTANTS
  Mails,         \* requests the cloud may have for the device
  Workers,       \* worker threads
  Mqtt, Main,    \* the thread of the MQTT library, and the one that connects
  Nothing,       \* no request
  Notice,        \* a message of notify/mailbox_activity
  IOT_ACTION_QUEUE_MAX,
  SingleThread,  \* IOT_FLAG_SINGLE_THREAD: Main processes the requests
  MaxDrops,      \* bound: losses of the link
  MaxIntervals   \* bound: checks that stay unanswered for TR50_MAILBOX_CHECK_INTERVAL

ASSUME BoundAssumption ==
  /\ IOT_ACTION_QUEUE_MAX \in Nat \ {0} /\ MaxDrops \in Nat /\ MaxIntervals \in Nat
  /\ SingleThread \in BOOLEAN /\ IsFiniteSet(Workers)
ASSUME NameAssumption ==
  /\ Main # Mqtt /\ Main \notin Workers /\ Mqtt \notin Workers
  /\ Nothing # Notice /\ {Nothing, Notice} \cap Mails = {}

Threads == Workers \cup {Mqtt, Main}
Processors == IF SingleThread THEN {Main} ELSE Workers

VARIABLES
  mailbox,   \* requests that wait at the cloud
  checks,    \* mailbox.check messages on their way to the cloud
  toDevice,  \* messages on their way to the device
  link,      \* is the device connected?
  recent,    \* is time_last_mailbox_check less than the interval ago?
  pc,        \* place of each thread
  busy,      \* the request each thread handles
  waiting,   \* requests in request_queue_wait
  done,      \* requests processed and reported
  refused,   \* requests answered with IOT_STATUS_FULL
  told,      \* what iot_connect has returned
  lost,      \* history: requests that were in a lost message
  early,     \* history: was a check allowed while another one was pending?
  drops, intervals \* counters of the bounds

vars == <<mailbox, checks, toDevice, link, recent, pc, busy, waiting, done,
          refused, told, lost, early, drops, intervals>>
cloudVars == <<mailbox, checks, toDevice, link>>
queueVars == <<busy, waiting, done, refused>>
boundVars == <<drops, intervals>>

Init ==
  /\ mailbox = {} /\ checks = 0 /\ toDevice = <<>>
  /\ link = FALSE /\ recent = FALSE
  /\ pc = [t \in Threads |-> "idle"]
  /\ busy = [t \in Threads |-> Nothing]
  /\ waiting = {} /\ done = {} /\ refused = {} /\ lost = {}
  /\ told = "none" /\ early = FALSE
  /\ drops = 0 /\ intervals = 0

Messages == {toDevice[i] : i \in 1 .. Len(toDevice)}
Replies == {i \in 1 .. Len(toDevice) : toDevice[i] # Notice}
Publishing == {t \in Threads : pc[t] = "publish"}
\* Checks the device has sent, or is about to send, and has no reply to.
Pending == checks + Cardinality(Replies) + Cardinality(Publishing)

-----------------------------------------------------------------------------
(***************************************************************************)
(* The cloud and the network.  Messages stay in order; what is on its way  *)
(* when the link goes is lost.                                             *)
(***************************************************************************)
Seen == mailbox \cup waiting \cup done \cup refused \cup lost
          \cup Messages \cup {busy[t] : t \in Threads}

Post(m) ==
  /\ m \in Mails \ Seen
  /\ mailbox' = mailbox \cup {m}
  /\ toDevice' = IF link THEN Append(toDevice, Notice) ELSE toDevice
  /\ UNCHANGED <<checks, link, recent, pc, queueVars, told, lost, early, boundVars>>

Answer ==
  /\ link /\ checks > 0
  /\ checks' = checks - 1
  /\ \/ /\ mailbox = {}
        /\ toDevice' = Append(toDevice, Nothing)
        /\ UNCHANGED mailbox
     \/ \E m \in mailbox :                     \* TR50_MAILBOX_CHECK_LIMIT is one
          /\ toDevice' = Append(toDevice, m)
          /\ mailbox' = mailbox \ {m}
  /\ UNCHANGED <<link, recent, pc, queueVars, told, lost, early, boundVars>>

Drop ==
  /\ link /\ drops < MaxDrops
  /\ drops' = drops + 1
  /\ link' = FALSE
  /\ checks' = 0 /\ toDevice' = <<>>
  /\ lost' = lost \cup (Messages \cap Mails)
  /\ UNCHANGED <<mailbox, recent, pc, queueVars, told, early, intervals>>

IntervalPasses ==
  /\ recent /\ intervals < MaxIntervals
  /\ intervals' = intervals + 1
  /\ recent' = FALSE
  /\ early' = (early \/ Pending > 0)
  /\ UNCHANGED <<cloudVars, pc, queueVars, told, lost, drops>>

-----------------------------------------------------------------------------
(***************************************************************************)
(* tr50_check_mailbox: reads the count of the records in use, tests and    *)
(* sets the time under mail_check_mutex, and publishes outside of it.      *)
(***************************************************************************)
InUse ==
  (waiting \cup {busy[t] : t \in {u \in Threads : pc[u] # "allocate"}}) \ {Nothing}

\* Where a thread goes on after the check, and what iot_connect makes of it.
Return(t, result) ==
  /\ pc' = [pc EXCEPT ![t] = IF t = Mqtt /\ busy[t] # Nothing THEN "execute" ELSE "idle"]
  /\ told' = IF t = Main /\ told = "none" THEN result ELSE told

Count(t) ==
  /\ pc[t] = "count"
  /\ \/ /\ Cardinality(InUse) < IOT_ACTION_QUEUE_MAX
        /\ pc' = [pc EXCEPT ![t] = "test"]
        /\ UNCHANGED told
     \/ /\ Cardinality(InUse) >= IOT_ACTION_QUEUE_MAX
        /\ Return(t, "BAD_PARAMETER")
  /\ UNCHANGED <<cloudVars, recent, queueVars, lost, early, boundVars>>

\* Mutant: the time is set and not tested.
TestNothing(t) ==
  /\ pc[t] = "test"
  /\ recent' = TRUE
  /\ pc' = [pc EXCEPT ![t] = "publish"]
  /\ UNCHANGED <<told, cloudVars, queueVars, lost, early, boundVars>>

Test(t) ==
  /\ pc[t] = "test"
  /\ \/ /\ ~ recent
        /\ recent' = TRUE
        /\ pc' = [pc EXCEPT ![t] = "publish"]
        /\ UNCHANGED told
     \/ /\ recent
        /\ Return(t, "FAILURE")
        /\ UNCHANGED recent
  /\ UNCHANGED <<cloudVars, queueVars, lost, early, boundVars>>

Publish(t) ==
  /\ pc[t] = "publish"
  /\ checks' = IF link THEN checks + 1 ELSE checks
  /\ Return(t, IF link THEN "SUCCESS" ELSE "FAILURE")
  /\ UNCHANGED <<mailbox, toDevice, link, recent, queueVars, lost, early, boundVars>>

-----------------------------------------------------------------------------
(***************************************************************************)
(* tr50_connect, for iot_connect and for a lost link.  Whatever comes of   *)
(* it, the time of the last check is cleared, without the mutex.           *)
(***************************************************************************)
MayConnect ==
  /\ ~ link /\ pc[Main] = "idle" /\ busy[Main] = Nothing
  /\ told \in {"none", "SUCCESS"}

LinkUp ==
  /\ MayConnect
  /\ link' = TRUE
  /\ pc' = [pc EXCEPT ![Main] = "clear"]
  /\ UNCHANGED <<mailbox, checks, toDevice, recent, queueVars, told, lost, early, boundVars>>

ClearTime ==
  /\ recent' = FALSE
  /\ early' = (early \/ Pending > 0)

LinkFails ==
  /\ MayConnect
  /\ ClearTime
  /\ told' = IF told = "none" THEN "FAILURE" ELSE told
  /\ UNCHANGED <<cloudVars, pc, queueVars, lost, boundVars>>

Connected ==
  /\ pc[Main] = "clear"
  /\ ClearTime
  /\ pc' = [pc EXCEPT ![Main] = "count"]
  /\ UNCHANGED <<cloudVars, queueVars, told, lost, boundVars>>

-----------------------------------------------------------------------------
(***************************************************************************)
(* tr50_on_message: a notice leads to a check.  A reply clears the time of *)
(* the last check first; a request in it gets a record, the device checks  *)
(* for more, and then queues the request.                                  *)
(***************************************************************************)
Incoming == Head(toDevice)
\* The first connection has no message callback before tr50_connect sets it.
Deaf == told = "none" /\ pc[Main] = "clear"

Unheard ==
  /\ link /\ Deaf /\ toDevice # <<>>
  /\ toDevice' = Tail(toDevice)
  /\ UNCHANGED <<mailbox, checks, link, recent, pc, queueVars, told, lost, early, boundVars>>

Receive ==
  /\ link /\ ~ Deaf /\ pc[Mqtt] = "idle" /\ toDevice # <<>>
  /\ toDevice' = Tail(toDevice)
  /\ recent' = (recent /\ Incoming = Notice)
  /\ pc' = [pc EXCEPT ![Mqtt] = CASE Incoming = Notice -> "count"
                                  [] Incoming = Nothing -> "idle"
                                  [] OTHER -> "allocate"]
  /\ busy' = [busy EXCEPT ![Mqtt] = IF Incoming = Notice THEN Nothing ELSE Incoming]
  /\ UNCHANGED <<mailbox, checks, link, waiting, done, refused, told, lost, early, boundVars>>

Allocate ==
  /\ pc[Mqtt] = "allocate"
  /\ pc' = [pc EXCEPT ![Mqtt] = "count"]
  /\ \/ /\ Cardinality(InUse) < IOT_ACTION_QUEUE_MAX
        /\ UNCHANGED <<busy, refused>>
     \/ /\ Cardinality(InUse) >= IOT_ACTION_QUEUE_MAX
        /\ refused' = refused \cup {busy[Mqtt]}
        /\ busy' = [busy EXCEPT ![Mqtt] = Nothing]
  /\ UNCHANGED <<cloudVars, recent, waiting, done, told, lost, early, boundVars>>

Execute ==
  /\ pc[Mqtt] = "execute"
  /\ waiting' = waiting \cup {busy[Mqtt]}
  /\ busy' = [busy EXCEPT ![Mqtt] = Nothing]
  /\ pc' = [pc EXCEPT ![Mqtt] = "idle"]
  /\ UNCHANGED <<cloudVars, recent, done, refused, told, lost, early, boundVars>>

-----------------------------------------------------------------------------
(***************************************************************************)
(* A processor takes a request (ActionQueue has the details), and a worker *)
(* thread checks the mailbox when it has freed its record.                 *)
(***************************************************************************)
Take(t) ==
  /\ told = "SUCCESS" /\ pc[t] = "idle" /\ busy[t] = Nothing
  /\ \E m \in waiting :
       /\ busy' = [busy EXCEPT ![t] = m]
       /\ waiting' = waiting \ {m}
  /\ UNCHANGED <<cloudVars, recent, pc, done, refused, told, lost, early, boundVars>>

\* Mutant: the worker does not check the mailbox.
FinishOnly(t) ==
  /\ pc[t] = "idle" /\ busy[t] # Nothing
  /\ done' = done \cup {busy[t]}
  /\ busy' = [busy EXCEPT ![t] = Nothing]
  /\ UNCHANGED <<pc, cloudVars, recent, waiting, refused, told, lost, early, boundVars>>

\* Mutant: it does not look whether it has taken a request.
FinishNothing(t) ==
  /\ pc[t] = "idle"
  /\ done' = done \cup {busy[t]}
  /\ busy' = [busy EXCEPT ![t] = Nothing]
  /\ UNCHANGED <<pc, cloudVars, recent, waiting, refused, told, lost, early, boundVars>>

Finish(t) ==
  /\ pc[t] = "idle" /\ busy[t] # Nothing
  /\ done' = done \cup {busy[t]}
  /\ busy' = [busy EXCEPT ![t] = Nothing]
  /\ pc' = [pc EXCEPT ![t] = IF SingleThread THEN "idle" ELSE "count"]
  /\ UNCHANGED <<cloudVars, recent, waiting, refused, told, lost, early, boundVars>>

-----------------------------------------------------------------------------
CheckMailbox(t) == Count(t) \/ Test(t) \/ Publish(t)
OnMessage == Unheard \/ Receive \/ Allocate \/ Execute
Process(t) == Take(t) \/ Finish(t)

Next ==
  \/ \E m \in Mails : Post(m)
  \/ Answer \/ Drop \/ IntervalPasses
  \/ \E t \in Threads : CheckMailbox(t)
  \/ LinkUp \/ LinkFails \/ Connected
  \/ OnMessage
  \/ \E t \in Processors : Process(t)

Spec == Init /\ [][Next]_vars

\* Threads are scheduled, actions return, the cloud answers, and an attempt to
\* connect succeeds in the end.
FairSpec ==
  /\ Spec
  /\ WF_vars(Answer) /\ WF_vars(OnMessage)
  /\ SF_vars(LinkUp) /\ WF_vars(Connected)
  /\ \A t \in Threads : WF_vars(CheckMailbox(t))
  /\ \A t \in Processors : WF_vars(Process(t))

-----------------------------------------------------------------------------
(***************************************************************************)
(* Properties.                                                             *)
(***************************************************************************)

\* Every variable has its type.
TypeOK ==
  /\ mailbox \subseteq Mails /\ checks \in Nat
  /\ toDevice \in Seq(Mails \cup {Nothing, Notice})
  /\ link \in BOOLEAN /\ recent \in BOOLEAN /\ early \in BOOLEAN
  /\ pc \in [Threads -> {"idle", "count", "test", "publish", "clear", "allocate", "execute"}]
  /\ busy \in [Threads -> Mails \cup {Nothing}]
  /\ waiting \subseteq Mails /\ done \subseteq Mails
  /\ refused \subseteq Mails /\ lost \subseteq Mails
  /\ told \in {"none", "SUCCESS", "FAILURE", "BAD_PARAMETER"}
  /\ drops \in 0 .. MaxDrops /\ intervals \in 0 .. MaxIntervals

\* tr50_check_mailbox does not allow simultaneous pending checks, whichever
\* threads check, unless the interval has passed or a reconnect has cleared the
\* time; and when the time is clear no check is pending.
OneCheckPending == early \/ Pending <= IF recent THEN 1 ELSE 0

\* Mail does not stay at the cloud: whatever the order of notices, replies,
\* checks that are skipped, workers that finish and losses of the link, a
\* request that waits while the library runs is fetched, and processed or
\* refused or lost with the link.
MailServed ==
  \A m \in Mails :
    m \in mailbox /\ told = "SUCCESS" ~> m \in done \cup refused \cup lost

\* When iot_connect says that it has not connected, the device is not connected.
ConnectTellsTruth == told = "FAILURE" \/ told = "BAD_PARAMETER" => ~ link
=============================================================================
