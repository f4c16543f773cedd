--------------------------- MODULE Mailbox_proofs ---------------------------
(***************************************************************************)
(* Proofs about Mailbox, for any number of workers, records, requests,     *)
(* losses of the link and intervals, in both threading modes: the types,   *)
(* and that checks are not simultaneous.                                   *)
(***************************************************************************)
EXTENDS Mailbox, FiniteSetTheorems, TLAPS

(***************************************************************************)
(* Who may be where: only the MQTT thread allocates and queues, and it has *)
(* a request in its hands while it does.                                   *)
(***************************************************************************)
Hands ==
  /\ \A t \in Threads : pc[t] \in {"allocate", "execute"} => t = Mqtt
  /\ pc[Mqtt] \in {"allocate", "execute"} => busy[Mqtt] # Nothing

TypeInv == TypeOK /\ Hands

\* Mqtt and Main are threads, and no processor is the MQTT thread.
LEMMA ThreadFacts ==
  /\ Mqtt \in Threads /\ Main \in Threads /\ Main # Mqtt
  /\ Processors \subseteq Threads /\ Mqtt \notin Processors
  BY NameAssumption DEF Threads, Processors

\* What the first message of the queue may be, and what is left.
LEMMA HeadTail ==
  ASSUME NEW S, NEW q \in Seq(S), q # <<>>
  PROVE  Head(q) \in S /\ Tail(q) \in Seq(S)
  OBVIOUS

-----------------------------------------------------------------------------
(***************************************************************************)
(* Types.                                                                  *)
(***************************************************************************)
LEMMA InitTypes == Init => TypeInv
  <1>. SUFFICES ASSUME Init PROVE TypeInv
    OBVIOUS
  <1>1. drops \in 0 .. MaxDrops /\ intervals \in 0 .. MaxIntervals
    BY BoundAssumption DEF Init
  <1>2. toDevice \in Seq(Mails \cup {Nothing, Notice})
    BY DEF Init
  <1>. QED  BY <1>1, <1>2, ThreadFacts DEF Init, TypeInv, TypeOK, Hands

LEMMA NextTypes == TypeInv /\ [Next]_vars => TypeInv'
  <1>a. SUFFICES ASSUME TypeInv, [Next]_vars PROVE TypeInv'
    OBVIOUS
  <1>. USE ThreadFacts
  <1>1. ASSUME NEW m \in Mails, Post(m) PROVE TypeInv'
    <2>1. Append(toDevice, Notice) \in Seq(Mails \cup {Nothing, Notice})
      BY <1>a DEF TypeInv, TypeOK
    <2>. QED  BY <1>a, <1>1, <2>1 DEF TypeInv, TypeOK, Hands, Post, queueVars, boundVars
  <1>2. CASE Answer
    <2>1. \A m \in Mails \cup {Nothing} :
            Append(toDevice, m) \in Seq(Mails \cup {Nothing, Notice})
      BY <1>a DEF TypeInv, TypeOK
    <2>2. toDevice' \in Seq(Mails \cup {Nothing, Notice}) /\ mailbox' \subseteq Mails
      BY <1>a, <1>2, <2>1 DEF TypeInv, TypeOK, Answer
    <2>3. checks' \in Nat
      BY <1>a, <1>2 DEF TypeInv, TypeOK, Answer
    <2>. QED  BY <1>a, <1>2, <2>2, <2>3 DEF TypeInv, TypeOK, Hands, Answer, queueVars, boundVars
  <1>3. CASE Drop
    <2>1. drops' \in 0 .. MaxDrops
      BY <1>a, <1>3, BoundAssumption DEF TypeInv, TypeOK, Drop
    <2>2. <<>> \in Seq(Mails \cup {Nothing, Notice})
      OBVIOUS
    <2>. QED  BY <1>a, <1>3, <2>1, <2>2 DEF TypeInv, TypeOK, Hands, Drop, queueVars
  <1>4. CASE IntervalPasses
    <2>1. intervals' \in 0 .. MaxIntervals
      BY <1>a, <1>4, BoundAssumption DEF TypeInv, TypeOK, IntervalPasses
    <2>2. early' \in BOOLEAN
      BY <1>4 DEF IntervalPasses
    <2>. QED  BY <1>a, <1>4, <2>1, <2>2 DEF TypeInv, TypeOK, Hands, IntervalPasses, cloudVars, queueVars
  <1>5. ASSUME NEW t \in Threads, CheckMailbox(t) PROVE TypeInv'
    <2>1. ASSUME NEW v, Return(t, v), v \in {"SUCCESS", "FAILURE", "BAD_PARAMETER"},
                 UNCHANGED busy
          PROVE  /\ pc' \in [Threads -> {"idle", "count", "test", "publish", "clear",
                                         "allocate", "execute"}]
                 /\ told' \in {"none", "SUCCESS", "FAILURE", "BAD_PARAMETER"}
                 /\ Hands'
      BY <1>a, <2>1 DEF TypeInv, TypeOK, Hands, Return
    <2>2. CASE Count(t)
      BY <1>a, <2>1, <2>2 DEF TypeInv, TypeOK, Hands, Count, cloudVars, queueVars, boundVars
    <2>3. CASE Test(t)
      BY <1>a, <2>1, <2>3 DEF TypeInv, TypeOK, Hands, Test, cloudVars, queueVars, boundVars
    <2>4. CASE Publish(t)
      <3>1. checks' \in Nat
        BY <1>a, <2>4 DEF TypeInv, TypeOK, Publish
      <3>. QED  BY <1>a, <2>1, <2>4, <3>1 DEF TypeInv, TypeOK, Publish, queueVars, boundVars
    <2>. QED  BY <1>5, <2>2, <2>3, <2>4 DEF CheckMailbox
  <1>6. CASE LinkUp
    BY <1>a, <1>6 DEF TypeInv, TypeOK, Hands, LinkUp, queueVars, boundVars
  <1>7. CASE LinkFails
    BY <1>a, <1>7 DEF TypeInv, TypeOK, Hands, LinkFails, ClearTime, cloudVars, queueVars, boundVars
  <1>8. CASE Connected
    BY <1>a, <1>8 DEF TypeInv, TypeOK, Hands, Connected, ClearTime, cloudVars, queueVars, boundVars
  <1>9. CASE OnMessage
    <2>1. CASE Unheard
      <3>1. Tail(toDevice) \in Seq(Mails \cup {Nothing, Notice})
        BY <1>a, <2>1, HeadTail DEF TypeInv, TypeOK, Unheard
      <3>. QED  BY <1>a, <2>1, <3>1 DEF TypeInv, TypeOK, Hands, Unheard, queueVars, boundVars
    <2>2. CASE Receive
      <3>1. /\ Incoming \in Mails \cup {Nothing, Notice}
            /\ Tail(toDevice) \in Seq(Mails \cup {Nothing, Notice})
        BY <1>a, <2>2, HeadTail DEF TypeInv, TypeOK, Receive, Incoming
      <3>2. recent' \in BOOLEAN
        BY <2>2 DEF Receive
      <3>3. busy' \in [Threads -> Mails \cup {Nothing}]
        BY <1>a, <2>2, <3>1 DEF TypeInv, TypeOK, Receive
      <3>4. /\ pc' \in [Threads -> {"idle", "count", "test", "publish", "clear",
                                    "allocate", "execute"}]
            /\ Hands'
        BY <1>a, <2>2, <3>1 DEF TypeInv, TypeOK, Hands, Receive
      <3>. QED  BY <1>a, <2>2, <3>1, <3>2, <3>3, <3>4 DEF TypeInv, TypeOK, Receive, boundVars
    <2>3. CASE Allocate
      BY <1>a, <2>3 DEF TypeInv, TypeOK, Hands, Allocate, cloudVars, boundVars
    <2>4. CASE Execute
      BY <1>a, <2>4 DEF TypeInv, TypeOK, Hands, Execute, cloudVars, boundVars
    <2>. QED  BY <1>9, <2>1, <2>2, <2>3, <2>4 DEF OnMessage
  <1>10. ASSUME NEW t \in Processors, Process(t) PROVE TypeInv'
    <2>1. CASE Take(t)
      BY <1>a, <2>1 DEF TypeInv, TypeOK, Hands, Take, cloudVars, boundVars
    <2>2. CASE Finish(t)
      BY <1>a, <2>2 DEF TypeInv, TypeOK, Hands, Finish, cloudVars, boundVars
    <2>. QED  BY <1>10, <2>1, <2>2 DEF Process
  <1>11. CASE UNCHANGED vars
    BY <1>a, <1>11 DEF TypeInv, TypeOK, Hands, vars
  <1>. QED  BY <1>a, <1>1, <1>2, <1>3, <1>4, <1>5, <1>6, <1>7, <1>8, <1>9, <1>10, <1>11 DEF Next

\* Types hold for every size of the system, the requests in the hands of the
\* MQTT thread included (tr50_on_message, iot_action_request_allocate).
THEOREM MailboxTypes == Spec => []TypeOK
  <1>1. Spec => []TypeInv
    BY InitTypes, NextTypes, PTL DEF Spec
  <1>2. TypeInv => TypeOK
    BY DEF TypeInv
  <1>. QED  BY <1>1, <1>2, PTL

-----------------------------------------------------------------------------
(***************************************************************************)
(* One check at a time.  A check is in one of three places: a thread that  *)
(* is about to publish it, the way to the cloud, or the reply on its way   *)
(* back; while it is in one, the time of the last check is recent.         *)
(***************************************************************************)
RepliesIn(q) == {i \in 1 .. Len(q) : q[i] # Notice}

Quiet      == checks = 0 /\ Replies = {} /\ Publishing = {}
OneSent    == checks = 1 /\ Replies = {} /\ Publishing = {}
OneReplied == checks = 0 /\ (\E i \in Nat : Replies = {i}) /\ Publishing = {}
OneLeaving == checks = 0 /\ Replies = {} /\ (\E t \in Threads : Publishing = {t})

SingleCheck == early \/ Quiet \/ (recent /\ (OneSent \/ OneReplied \/ OneLeaving))

LEMMA AppendReplies ==
  ASSUME NEW S, NEW q \in Seq(S), NEW x \in S
  PROVE  /\ x = Notice => RepliesIn(Append(q, x)) = RepliesIn(q)
         /\ x # Notice => RepliesIn(Append(q, x)) = RepliesIn(q) \cup {Len(q) + 1}
  <1>1. /\ Len(Append(q, x)) = Len(q) + 1 /\ Len(q) \in Nat
        /\ \A i \in 1 .. Len(q) : Append(q, x)[i] = q[i]
        /\ Append(q, x)[Len(q) + 1] = x
    OBVIOUS
  <1>2. 1 .. Len(q) + 1 = (1 .. Len(q)) \cup {Len(q) + 1}
    BY <1>1
  <1>. QED  BY <1>1, <1>2 DEF RepliesIn

LEMMA TailReplies ==
  ASSUME NEW S, NEW q \in Seq(S), q # <<>>
  PROVE  /\ RepliesIn(q) = {} => Head(q) = Notice /\ RepliesIn(Tail(q)) = {}
         /\ \A i \in Nat : RepliesIn(q) = {i} =>
              IF Head(q) = Notice THEN i - 1 \in Nat /\ RepliesIn(Tail(q)) = {i - 1}
              ELSE RepliesIn(Tail(q)) = {}
  <1>1. /\ Len(q) \in Nat /\ Len(q) >= 1 /\ Len(Tail(q)) = Len(q) - 1 /\ Head(q) = q[1]
        /\ \A j \in 1 .. Len(q) - 1 : Tail(q)[j] = q[j + 1]
    OBVIOUS
  <1>2. \A j \in 1 .. Len(q) - 1 : j \in RepliesIn(Tail(q)) <=> j + 1 \in RepliesIn(q)
    BY <1>1 DEF RepliesIn
  <1>3. 1 \in RepliesIn(q) <=> Head(q) # Notice
    BY <1>1 DEF RepliesIn
  <1>4. RepliesIn(Tail(q)) \subseteq 1 .. Len(q) - 1 /\ RepliesIn(q) \subseteq 1 .. Len(q)
    BY <1>1 DEF RepliesIn
  <1>5. RepliesIn(q) = {} => Head(q) = Notice /\ RepliesIn(Tail(q)) = {}
    BY <1>1, <1>2, <1>3, <1>4
  <1>6. ASSUME NEW i \in Nat, RepliesIn(q) = {i}
        PROVE  IF Head(q) = Notice THEN i - 1 \in Nat /\ RepliesIn(Tail(q)) = {i - 1}
               ELSE RepliesIn(Tail(q)) = {}
    <2>1. i \in 1 .. Len(q)
      BY <1>4, <1>6
    <2>2. CASE Head(q) = Notice
      <3>1. i # 1
        BY <1>3, <1>6, <2>2
      <3>2. i - 1 \in 1 .. Len(q) - 1 /\ i - 1 \in Nat /\ (i - 1) + 1 = i
        BY <2>1, <3>1, <1>1
      <3>3. i - 1 \in RepliesIn(Tail(q))
        BY <1>2, <1>6, <3>2
      <3>4. \A j \in RepliesIn(Tail(q)) : j = i - 1
        BY <1>1, <1>2, <1>4, <1>6
      <3>. QED  BY <2>2, <3>2, <3>3, <3>4
    <2>3. CASE Head(q) # Notice
      <3>1. i = 1
        BY <1>3, <1>6, <2>3
      <3>2. \A j \in RepliesIn(Tail(q)) : j + 1 = 1 /\ j \in 1 .. Len(q) - 1
        BY <1>2, <1>4, <1>6, <3>1
      <3>. QED  BY <1>1, <2>3, <3>2
    <2>. QED  BY <2>2, <2>3
  <1>. QED  BY <1>5, <1>6

\* What Pending counts is finite, and it is zero only when nothing is pending.
LEMMA PendingFacts ==
  ASSUME TypeOK
  PROVE  /\ Pending \in Nat
         /\ ~ (Pending > 0) => Quiet
         /\ Quiet => Pending = 0
         /\ OneSent \/ OneReplied \/ OneLeaving => Pending = 1
  <1>1. IsFiniteSet(Replies) /\ Cardinality(Replies) \in Nat
    <2>1. Len(toDevice) \in Nat
      BY DEF TypeOK
    <2>2. IsFiniteSet(1 .. Len(toDevice)) /\ Replies \in SUBSET (1 .. Len(toDevice))
      BY <2>1, FS_Interval DEF Replies
    <2>. QED  BY <2>2, FS_Subset, FS_CardinalityType
  <1>2. IsFiniteSet(Publishing) /\ Cardinality(Publishing) \in Nat
    <2>1. IsFiniteSet(Workers \cup {Mqtt})
      BY BoundAssumption, FS_AddElement
    <2>2. IsFiniteSet((Workers \cup {Mqtt}) \cup {Main})
      BY <2>1, FS_AddElement
    <2>3. (Workers \cup {Mqtt}) \cup {Main} = Threads
      BY DEF Threads
    <2>4. IsFiniteSet(Threads) /\ Publishing \in SUBSET Threads
      BY <2>2, <2>3 DEF Publishing
    <2>. QED  BY <2>4, FS_Subset, FS_CardinalityType
  <1>3. checks \in Nat
    BY DEF TypeOK
  <1>4. Pending \in Nat /\ (~ (Pending > 0) =>
           checks = 0 /\ Cardinality(Replies) = 0 /\ Cardinality(Publishing) = 0)
    BY <1>1, <1>2, <1>3 DEF Pending
  <1>5. ~ (Pending > 0) => Quiet
    BY <1>1, <1>2, <1>4, FS_EmptySet DEF Quiet
  <1>c. Cardinality({}) = 0
    BY FS_EmptySet
  <1>o. \A S, x : S = {x} => Cardinality(S) = 1
    BY FS_Singleton
  <1>6. Quiet => Pending = 0
    <2>1. Quiet => checks = 0 /\ Cardinality(Replies) = 0 /\ Cardinality(Publishing) = 0
      BY <1>c DEF Quiet
    <2>. QED  BY <2>1 DEF Pending
  <1>7. OneSent => Pending = 1
    <2>1. OneSent => checks = 1 /\ Cardinality(Replies) = 0 /\ Cardinality(Publishing) = 0
      BY <1>c DEF OneSent
    <2>. QED  BY <2>1 DEF Pending
  <1>8. OneReplied => Pending = 1
    <2>1. OneReplied => checks = 0 /\ Cardinality(Replies) = 1 /\ Cardinality(Publishing) = 0
      BY <1>c, <1>o DEF OneReplied
    <2>. QED  BY <2>1 DEF Pending
  <1>9. OneLeaving => Pending = 1
    <2>1. OneLeaving => checks = 0 /\ Cardinality(Replies) = 0 /\ Cardinality(Publishing) = 1
      BY <1>c, <1>o DEF OneLeaving
    <2>. QED  BY <2>1 DEF Pending
  <1>. QED  BY <1>4, <1>5, <1>6, <1>7, <1>8, <1>9

LEMMA SameReplies ==
  /\ Replies = RepliesIn(toDevice)
  /\ Replies' = RepliesIn(toDevice')
  BY DEF Replies, RepliesIn

\* A thread that does not come to publish, or comes from there, leaves the others.
LEMMA SamePublishing ==
  ASSUME TypeOK, NEW t \in Threads, NEW v, pc' = [pc EXCEPT ![t] = v]
  PROVE  /\ pc[t] # "publish" /\ v # "publish" => Publishing' = Publishing
         /\ v = "publish" => Publishing' = Publishing \cup {t}
         /\ v # "publish" => Publishing' = Publishing \ {t}
  BY DEF TypeOK, Publishing

LEMMA InitSingle == Init => SingleCheck
  BY DEF Init, SingleCheck, Quiet, Replies, Publishing

\* The invariant reads five things only.
LEMMA SameSingle ==
  ASSUME SingleCheck, UNCHANGED <<checks, recent, early>>, Replies' = Replies,
         Publishing' = Publishing
  PROVE  SingleCheck'
  BY DEF SingleCheck, Quiet, OneSent, OneReplied, OneLeaving

LEMMA NextSingle == TypeInv /\ SingleCheck /\ [Next]_vars => SingleCheck'
  <1>a. SUFFICES ASSUME TypeInv, SingleCheck, [Next]_vars PROVE SingleCheck'
    OBVIOUS
  <1>b. TypeOK /\ toDevice \in Seq(Mails \cup {Nothing, Notice})
    BY <1>a DEF TypeInv, TypeOK
  <1>. USE ThreadFacts
  <1>c. ASSUME UNCHANGED toDevice PROVE Replies' = Replies
    BY <1>c DEF Replies
  <1>d. ASSUME UNCHANGED pc PROVE Publishing' = Publishing
    BY <1>d DEF Publishing
  <1>1. ASSUME NEW m \in Mails, Post(m) PROVE SingleCheck'
    <2>1. Replies' = Replies
      BY <1>1, <1>b, <1>c, AppendReplies, SameReplies DEF Post
    <2>2. Publishing' = Publishing
      BY <1>1, <1>d DEF Post
    <2>. QED  BY <1>1, <1>a, <2>1, <2>2, SameSingle DEF Post
  <1>2. CASE Answer
    <2>1. Publishing' = Publishing
      BY <1>2, <1>d DEF Answer
    <2>2. CASE early
      BY <1>2, <2>2 DEF Answer, SingleCheck
    <2>3. CASE ~ early
      <3>1. recent /\ OneSent
        BY <1>a, <1>2, <2>3 DEF Answer, SingleCheck, Quiet, OneReplied, OneLeaving
      <3>2. PICK x \in Mails \cup {Nothing} : toDevice' = Append(toDevice, x)
        BY <1>b, <1>2 DEF Answer, TypeOK
      <3>3. x # Notice /\ Len(toDevice) + 1 \in Nat
        BY <1>b, NameAssumption
      <3>4. Replies' = {Len(toDevice) + 1}
        BY <1>b, <3>1, <3>2, <3>3, AppendReplies, SameReplies DEF OneSent
      <3>5. checks' = 0
        BY <1>2, <3>1 DEF Answer, OneSent
      <3>6. OneReplied'
        BY <2>1, <3>1, <3>3, <3>4, <3>5 DEF OneReplied, OneSent
      <3>. QED  BY <1>2, <3>1, <3>6 DEF Answer, SingleCheck
    <2>. QED  BY <2>2, <2>3
  <1>3. CASE Drop
    <2>1. Publishing' = Publishing
      BY <1>3, <1>d DEF Drop
    <2>2. checks' = 0 /\ Replies' = {}
      BY <1>3 DEF Drop, Replies
    <2>3. UNCHANGED <<recent, early>>
      BY <1>3 DEF Drop
    <2>. QED  BY <1>a, <2>1, <2>2, <2>3 DEF SingleCheck, Quiet, OneSent, OneReplied, OneLeaving
  <1>4. CASE IntervalPasses
    <2>1. UNCHANGED <<checks, toDevice, pc>> /\ early' = (early \/ Pending > 0)
      BY <1>4 DEF IntervalPasses, cloudVars
    <2>2. Replies' = Replies /\ Publishing' = Publishing
      BY <1>c, <1>d, <2>1
    <2>. QED  BY <1>b, <2>1, <2>2, PendingFacts DEF SingleCheck, Quiet
  <1>5. ASSUME NEW t \in Threads, CheckMailbox(t) PROVE SingleCheck'
    <2>1. \A v : Return(t, v) => /\ pc[t] # "publish" => Publishing' = Publishing
                                 /\ Publishing' = Publishing \ {t}
      <3>1. ASSUME NEW v, Return(t, v)
            PROVE  /\ pc[t] # "publish" => Publishing' = Publishing
                   /\ Publishing' = Publishing \ {t}
        <4>1. PICK w \in {"execute", "idle"} : pc' = [pc EXCEPT ![t] = w]
          BY <3>1 DEF Return
        <4>. QED  BY <1>b, <4>1, SamePublishing
      <3>. QED  BY <3>1
    <2>2. CASE Count(t)
      <3>1. Replies' = Replies
        BY <1>c, <2>2 DEF Count, cloudVars
      <3>2. Publishing' = Publishing
        BY <1>b, <2>1, <2>2, SamePublishing DEF Count
      <3>. QED  BY <1>a, <2>2, <3>1, <3>2, SameSingle DEF Count, cloudVars
    <2>3. CASE Test(t)
      <3>1. Replies' = Replies /\ UNCHANGED <<checks, early>>
        BY <1>c, <2>3 DEF Test, cloudVars
      <3>2. CASE recent
        <4>1. Publishing' = Publishing
          BY <2>1, <2>3, <3>2 DEF Test
        <4>. QED  BY <1>a, <2>3, <3>1, <3>2, <4>1, SameSingle DEF Test
      <3>3. CASE ~ recent
        <4>1. Publishing' = Publishing \cup {t} /\ recent'
          BY <1>b, <2>3, <3>3, SamePublishing DEF Test
        <4>2. early \/ Quiet
          BY <1>a, <3>3 DEF SingleCheck
        <4>. QED  BY <3>1, <4>1, <4>2 DEF SingleCheck, Quiet, OneLeaving
      <3>. QED  BY <3>2, <3>3
    <2>4. CASE Publish(t)
      <3>1. Replies' = Replies /\ UNCHANGED <<recent, early>>
        BY <1>c, <2>4 DEF Publish
      <3>2. Publishing' = Publishing \ {t} /\ t \in Publishing
        BY <2>1, <2>4 DEF Publish, Publishing
      <3>3. CASE early
        BY <3>1, <3>3 DEF SingleCheck
      <3>4. CASE ~ early
        <4>1. recent /\ OneLeaving
          BY <1>a, <3>2, <3>4 DEF SingleCheck, Quiet, OneSent, OneReplied
        <4>2. Publishing' = {} /\ Replies' = {}
          BY <3>1, <3>2, <4>1 DEF OneLeaving
        <4>3. checks' = 0 \/ checks' = 1
          BY <2>4, <4>1 DEF Publish, OneLeaving
        <4>. QED  BY <3>1, <4>1, <4>2, <4>3 DEF SingleCheck, Quiet, OneSent
      <3>. QED  BY <3>3, <3>4
    <2>. QED  BY <1>5, <2>2, <2>3, <2>4 DEF CheckMailbox
  <1>6. CASE LinkUp
    <2>1. Publishing' = Publishing
      BY <1>b, <1>6, SamePublishing DEF LinkUp, MayConnect
    <2>. QED  BY <1>a, <1>c, <1>6, <2>1, SameSingle DEF LinkUp
  <1>7. CASE LinkFails
    <2>1. UNCHANGED <<checks, toDevice, pc>> /\ early' = (early \/ Pending > 0)
      BY <1>7 DEF LinkFails, ClearTime, cloudVars
    <2>2. Replies' = Replies /\ Publishing' = Publishing
      BY <1>c, <1>d, <2>1
    <2>. QED  BY <1>b, <2>1, <2>2, PendingFacts DEF SingleCheck, Quiet
  <1>8. CASE Connected
    <2>1. UNCHANGED <<checks, toDevice>> /\ early' = (early \/ Pending > 0)
      BY <1>8 DEF Connected, ClearTime, cloudVars
    <2>2. Replies' = Replies /\ Publishing' = Publishing
      BY <1>b, <1>c, <1>8, <2>1, SamePublishing DEF Connected
    <2>. QED  BY <1>b, <2>1, <2>2, PendingFacts DEF SingleCheck, Quiet
  <1>9. CASE OnMessage
    <2>1. CASE Unheard
      <3>1. Publishing' = Publishing /\ UNCHANGED <<checks, recent, early>>
        BY <1>d, <2>1 DEF Unheard
      <3>2. /\ Replies = {} => Replies' = {}
            /\ \A i \in Nat : Replies = {i} => Replies' = {} \/ \E j \in Nat : Replies' = {j}
        BY <1>b, <2>1, TailReplies, SameReplies DEF Unheard
      <3>. QED  BY <1>a, <3>1, <3>2 DEF SingleCheck, Quiet, OneSent, OneReplied, OneLeaving
    <2>2. CASE Receive
      <3>1. Publishing' = Publishing
        <4>. DEFINE w == CASE Incoming = Notice -> "count"
                           [] Incoming = Nothing -> "idle"
                           [] OTHER -> "allocate"
        <4>1. pc' = [pc EXCEPT ![Mqtt] = w]
          BY <2>2 DEF Receive
        <4>3. w # "publish"
          OBVIOUS
        <4>2. pc[Mqtt] # "publish"
          BY <2>2 DEF Receive
        <4>. HIDE DEF w
        <4>. QED  BY <1>b, <4>1, <4>2, <4>3, SamePublishing
      <3>2. UNCHANGED <<checks, early>> /\ recent' = (recent /\ Incoming = Notice)
        BY <2>2 DEF Receive
      <3>3. /\ Replies = {} => Incoming = Notice /\ Replies' = {}
            /\ \A i \in Nat : Replies = {i} =>
                 IF Incoming = Notice THEN \E j \in Nat : Replies' = {j} ELSE Replies' = {}
        BY <1>b, <2>2, TailReplies, SameReplies DEF Receive, Incoming
      <3>4. CASE Incoming = Notice
        <4>1. recent' = recent
          BY <1>b, <3>2, <3>4 DEF TypeOK
        <4>. QED  BY <1>a, <3>1, <3>2, <3>3, <3>4, <4>1
                  DEF SingleCheck, Quiet, OneSent, OneReplied, OneLeaving
      <3>5. CASE Incoming # Notice
        BY <1>a, <3>1, <3>2, <3>3, <3>5 DEF SingleCheck, Quiet, OneSent, OneReplied, OneLeaving
      <3>. QED  BY <3>4, <3>5
    <2>3. CASE Allocate
      <3>1. Publishing' = Publishing
        <4>1. pc' = [pc EXCEPT ![Mqtt] = "count"] /\ pc[Mqtt] # "publish"
          BY <2>3 DEF Allocate
        <4>. QED  BY <1>b, <4>1, SamePublishing
      <3>. QED  BY <1>a, <1>c, <2>3, <3>1, SameSingle DEF Allocate, cloudVars
    <2>4. CASE Execute
      <3>1. Publishing' = Publishing
        BY <1>b, <2>4, SamePublishing DEF Execute
      <3>. QED  BY <1>a, <1>c, <2>4, <3>1, SameSingle DEF Execute, cloudVars
    <2>. QED  BY <1>9, <2>1, <2>2, <2>3, <2>4 DEF OnMessage
  <1>10. ASSUME NEW t \in Processors, Process(t) PROVE SingleCheck'
    <2>1. CASE Take(t)
      BY <1>a, <1>c, <1>d, <2>1, SameSingle DEF Take, cloudVars
    <2>2. CASE Finish(t)
      <3>1. Publishing' = Publishing
        <4>1. PICK v \in {"idle", "count"} : pc' = [pc EXCEPT ![t] = v]
          BY <2>2 DEF Finish
        <4>. QED  BY <1>b, <2>2, <4>1, SamePublishing DEF Finish
      <3>. QED  BY <1>a, <1>c, <2>2, <3>1, SameSingle DEF Finish, cloudVars
    <2>. QED  BY <1>10, <2>1, <2>2 DEF Process
  <1>11. CASE UNCHANGED vars
    BY <1>a, <1>c, <1>d, <1>11, SameSingle DEF vars
  <1>. QED  BY <1>a, <1>1, <1>2, <1>3, <1>4, <1>5, <1>6, <1>7, <1>8, <1>9, <1>10, <1>11 DEF Next

\* No thread checks the mailbox while a check is pending, unless the interval has
\* passed or a connection was made meanwhile: for any number of threads, and
\* although tr50_connect and tr50_on_message clear the time without the mutex.
THEOREM ChecksAreSingle == Spec => []OneCheckPending
  <1>1. Init => TypeInv /\ SingleCheck
    BY InitTypes, InitSingle
  <1>2. TypeInv /\ SingleCheck /\ [Next]_vars => (TypeInv /\ SingleCheck)'
    BY NextTypes, NextSingle
  <1>3. TypeInv /\ SingleCheck => OneCheckPending
    BY PendingFacts DEF TypeInv, SingleCheck, OneCheckPending
  <1>. QED  BY <1>1, <1>2, <1>3, PTL DEF Spec
=============================================================================
