-------------------------- MODULE Programs_proofs ---------------------------
(***************************************************************************)
(* Proofs about the programs: the relay, for a buffer of any size and      *)
(* streams of any length; a software update, for any package; the device   *)
(* manager, for any configuration file and any requests of the cloud.      *)
(***************************************************************************)
EXTENDS Programs, FiniteSetTheorems, SequenceTheorems, TLAPS

-----------------------------------------------------------------------------
(***************************************************************************)
(* Facts about sequences.                                                  *)
(***************************************************************************)
LEMMA CountProperties ==
  ASSUME NEW n \in Nat
  PROVE  Counting(n) \in Seq(Nat) /\ Len(Counting(n)) = n /\ \A i \in 1 .. n : Counting(n)[i] = i
BY DEF Counting

\* Bytes read after the first k, put behind them.
LEMMA CountOn ==
  ASSUME NEW k \in Nat, NEW n \in Nat
  PROVE  /\ [i \in 1 .. n |-> k + i] \in Seq(Nat)
         /\ Counting(k) \o [i \in 1 .. n |-> k + i] = Counting(k + n)
<1> DEFINE more == [i \in 1 .. n |-> k + i]
<1>1. more \in Seq(Nat) /\ Len(more) = n /\ \A i \in 1 .. n : more[i] = k + i
  OBVIOUS
<1> HIDE DEF more
<1>2. /\ Counting(k) \o more \in Seq(Nat) /\ Len(Counting(k) \o more) = k + n
      /\ \A i \in 1 .. k + n : (Counting(k) \o more)[i] = IF i <= k THEN Counting(k)[i] ELSE more[i - k]
  <2>1. Counting(k) \in Seq(Nat) /\ Len(Counting(k)) = k
    BY CountProperties
  <2>2. more \in Seq(Nat) /\ Len(more) = n
    BY <1>1
  <2>3. /\ Counting(k) \o more \in Seq(Nat) /\ Len(Counting(k) \o more) = Len(Counting(k)) + Len(more)
        /\ \A i \in 1 .. Len(Counting(k)) + Len(more) : (Counting(k) \o more)[i] =
             IF i <= Len(Counting(k)) THEN Counting(k)[i] ELSE more[i - Len(Counting(k))]
    BY <2>1, <2>2, ConcatProperties, Zenon
  <2>4. QED
    BY <2>1, <2>2, <2>3, Zenon
<1>3. \A i \in 1 .. k + n : (Counting(k) \o more)[i] = i
  <2> SUFFICES ASSUME NEW i \in 1 .. k + n PROVE (Counting(k) \o more)[i] = i
    OBVIOUS
  <2>1. CASE i \in 1 .. k
    BY <2>1, <1>2, CountProperties
  <2>2. CASE i \notin 1 .. k
    <3>1. ~ (i <= k) /\ i - k \in 1 .. n /\ k + (i - k) = i
      BY <2>2
    <3>2. QED
      BY <3>1, <1>1, <1>2
  <2>3. QED
    BY <2>1, <2>2
<1>4. Counting(k + n) \in Seq(Nat) /\ Len(Counting(k + n)) = k + n
      /\ \A i \in 1 .. k + n : Counting(k + n)[i] = i
  BY CountProperties
<1>5. Counting(k) \o more = Counting(k + n)
  BY <1>2, <1>3, <1>4, SeqEqual
<1>6. QED
  BY <1>1, <1>5 DEF more

LEMMA Associative ==
  \A s, t, u \in Seq(Nat) : (s \o t) \o u = s \o (t \o u)
<1>1. \A S : \A s, t, u \in Seq(S) : (s \o t) \o u = s \o (t \o u)
  BY ConcatAssociative, Zenon
<1> DEFINE S == Nat
<1> HIDE DEF S
<1>2. \A s, t, u \in Seq(S) : (s \o t) \o u = s \o (t \o u)
  BY <1>1
<1>3. QED
  BY <1>2 DEF S

\* A sequence cut in two.
LEMMA CutInTwo ==
  ASSUME NEW s \in Seq(Nat), NEW n \in 0 .. Len(s)
  PROVE  /\ SubSeq(s, 1, n) \in Seq(Nat) /\ SubSeq(s, n + 1, Len(s)) \in Seq(Nat)
         /\ Len(SubSeq(s, n + 1, Len(s))) <= Len(s)
         /\ SubSeq(s, 1, n) \o SubSeq(s, n + 1, Len(s)) = s
<1>1. Len(s) \in Nat /\ \A i \in 1 .. Len(s) : s[i] \in Nat
  BY LenProperties, ElementOfSeq
<1>2. SubSeq(s, 1, n) \in Seq(Nat)
  BY <1>1, SubSeqProperties
<1>3. /\ SubSeq(s, n + 1, Len(s)) \in Seq(Nat)
      /\ Len(SubSeq(s, n + 1, Len(s))) <= Len(s)
  BY <1>1, SubSeqProperties
<1>4. SubSeq(s, 1, n) \o SubSeq(s, n + 1, Len(s)) = SubSeq(s, 1, Len(s))
  <2>1. 1 \in 1 .. Len(s) + 1 /\ n \in 1 - 1 .. Len(s) /\ Len(s) \in n .. Len(s)
    BY <1>1
  <2>2. QED
    BY <2>1, ConcatAdjacentSubSeq, Zenon
<1>5. QED
  BY <1>2, <1>3, <1>4, SubSeqFull

\* The last element taken away and put back.
LEMMA LastPutBack ==
  ASSUME NEW s \in Seq(Nat), Len(s) > 0
  PROVE  /\ SubSeq(s, 1, Len(s) - 1) \in Seq(Nat)
         /\ Append(SubSeq(s, 1, Len(s) - 1), s[Len(s)]) = s
<1>1. Len(s) \in Nat /\ Len(s) \in 1 .. Len(s) /\ 1 \in 1 .. Len(s) /\ s[Len(s)] \in Nat
      /\ Len(s) - 1 \in 0 .. Len(s)
  BY LenProperties, ElementOfSeq
<1>2. SubSeq(s, 1, Len(s) - 1) \in Seq(Nat)
  BY <1>1, CutInTwo
<1>3. Append(SubSeq(s, 1, Len(s) - 1), s[Len(s)]) = SubSeq(s, 1, Len(s) - 1) \o <<s[Len(s)]>>
  BY <1>1, <1>2, AppendIsConcat
<1>4. SubSeq(s, 1, Len(s)) = SubSeq(s, 1, Len(s) - 1) \o <<s[Len(s)]>>
  BY <1>1, SubSeqRecursiveSecond
<1>5. QED
  BY <1>2, <1>3, <1>4, SubSeqFull

LEMMA LastTakenOff ==
  ASSUME NEW s \in Seq(Nat), NEW e \in Nat
  PROVE  /\ Append(s, e) \in Seq(Nat) /\ Len(Append(s, e)) = Len(s) + 1
         /\ Append(s, e)[Len(s) + 1] = e
         /\ SubSeq(Append(s, e), 1, Len(s)) = s
<1>1. /\ Append(s, e) \in Seq(Nat) /\ Len(Append(s, e)) = Len(s) + 1
      /\ Append(s, e)[Len(s) + 1] = e
      /\ \A i \in 1 .. Len(s) : Append(s, e)[i] = s[i]
      /\ Len(s) \in Nat /\ \A i \in 1 .. Len(s) : s[i] \in Nat
  BY AppendProperties, LenProperties, ElementOfSeq
<1> DEFINE t == SubSeq(Append(s, e), 1, Len(s))
<1>2. t \in Seq(Nat) /\ Len(t) = Len(s) /\ \A i \in 1 .. Len(s) : t[i] = Append(s, e)[i]
  <2>1. \A i \in 1 .. Len(s) : Append(s, e)[i] \in Nat
    BY <1>1
  <2>2. /\ t \in Seq(Nat) /\ Len(t) = (IF 1 <= Len(s) THEN Len(s) - 1 + 1 ELSE 0)
        /\ \A i \in 1 .. Len(s) - 1 + 1 : t[i] = Append(s, e)[1 + i - 1]
    BY <1>1, <2>1, SubSeqProperties
  <2> HIDE DEF t
  <2>3. \A i \in 1 .. Len(s) : i \in 1 .. Len(s) - 1 + 1 /\ 1 + i - 1 = i
    BY <1>1
  <2>4. QED
    BY <1>1, <2>2, <2>3
<1>3. t = s
  <2> HIDE DEF t
  <2>1. \A i \in 1 .. Len(t) : t[i] = s[i]
    BY <1>1, <1>2
  <2>2. QED
    BY <1>1, <1>2, <2>1, SeqEqual
<1>4. QED
  BY <1>1, <1>3

-----------------------------------------------------------------------------
(***************************************************************************)
(* The relay: what is promised, and what the frame in hand is.             *)
(***************************************************************************)
Types ==
  /\ tx_buffer \in Seq(Nat) /\ sent \in Seq(Nat) /\ taken \in Nat
  /\ frames \in Seq(Nat) /\ written \in Seq(Nat) /\ arrived \in Nat
  /\ receiving \in [key : BOOLEAN, number : Nat]

\* Once the relay has closed, what it had not sent is gone.
Over == {"closed", "done", "crashed"}
AllThere == sent \o tx_buffer = Counting(taken)
SentInOrder == sent = Counting(Len(sent)) /\ Len(sent) <= taken
Dropped == pc \in Over /\ tx_buffer = <<>>
ToCloud == SentInOrder /\ (AllThere \/ Dropped)

InHand == receiving # NoFrame /\ ~ receiving.key

ToDevice ==
  /\ InHand => Len(frames) > 0 /\ frames[Len(frames)] = receiving.number
  /\ ~ cut => written = (IF InHand THEN SubSeq(frames, 1, Len(frames) - 1) ELSE frames)

IInv == Types /\ ToCloud /\ ToDevice

\* What has been sent is a beginning of what has been read.
LEMMA SentIsFirst == Types /\ AllThere => SentInOrder
<1> SUFFICES ASSUME Types, AllThere PROVE SentInOrder
  OBVIOUS
<1>1. sent \in Seq(Nat) /\ tx_buffer \in Seq(Nat) /\ taken \in Nat
      /\ sent \o tx_buffer = Counting(taken)
  BY DEF Types, AllThere
<1>2. Len(sent) \in Nat /\ Len(tx_buffer) \in Nat
  BY <1>1, LenProperties
<1>3. Len(sent) + Len(tx_buffer) = taken
  BY <1>1, CountProperties, ConcatProperties
<1>4. Len(sent) <= taken
  BY <1>1, <1>2, <1>3
<1>5. \A i \in 1 .. Len(sent) : sent[i] = i
  <2> TAKE i \in 1 .. Len(sent)
  <2>1. (sent \o tx_buffer)[i] = sent[i]
    BY <1>1, <1>2, ConcatProperties
  <2>2. i \in 1 .. taken
    BY <1>1, <1>2, <1>4
  <2>3. Counting(taken)[i] = i
    BY <1>1, <2>2, CountProperties
  <2>4. QED
    BY <1>1, <2>1, <2>3
<1>6. /\ Counting(Len(sent)) \in Seq(Nat) /\ Len(Counting(Len(sent))) = Len(sent)
      /\ \A i \in 1 .. Len(sent) : Counting(Len(sent))[i] = i
  BY <1>2, CountProperties
<1>7. sent = Counting(Len(sent))
  BY <1>1, <1>5, <1>6, SeqEqual
<1>8. QED
  BY <1>4, <1>7 DEF SentInOrder

LEMMA Promised == IInv => StreamsKept
BY DEF IInv, ToCloud, AllThere, SentInOrder, Over, Dropped, ToDevice, InHand, StreamsKept

LEMMA InitInv == Init => IInv
<1> SUFFICES ASSUME Init PROVE IInv
  OBVIOUS
<1>1. Types
  BY DEF Init, Types, NoFrame
<1>2. ToCloud
  <2>1. <<>> \o <<>> = <<>> /\ <<>> \in Seq(Nat) /\ Len(<<>>) = 0
    BY ConcatEmptySeq, EmptySeq
  <2>2. Counting(0) \in Seq(Nat) /\ Len(Counting(0)) = 0
    BY CountProperties
  <2>3. Counting(0) = <<>>
    BY <2>1, <2>2, SeqEqual
  <2>4. AllThere
    BY <2>1, <2>3 DEF Init, AllThere
  <2>5. QED
    BY <1>1, <2>4, SentIsFirst DEF ToCloud
<1>3. ToDevice
  BY DEF Init, ToDevice, InHand
<1>4. QED
  BY <1>1, <1>2, <1>3 DEF IInv

LEMMA AllThereAgain == Types' /\ AllThere' /\ ToDevice' => IInv'
BY SentIsFirst, PTL DEF IInv, ToCloud

\* What is sent, read and waiting is left alone.
LEMMA CloudAlone ==
  ASSUME ToCloud, UNCHANGED <<tx_buffer, sent, taken>>, pc \in Over => pc' \in Over
  PROVE  ToCloud'
BY DEF ToCloud, AllThere, SentInOrder, Dropped

\* The socket is read: what comes is put behind what waits.
LEMMA ReadInv ==
  ASSUME IInv, Read
  PROVE  IInv'
<1>1. Types /\ AllThere /\ ToDevice
  BY DEF IInv, ToCloud, Over, Dropped, Read
<1>2. UNCHANGED <<receiving, sent, frames, written, cut, arrived>>
  BY DEF Read
<1>3. ToDevice'
  BY <1>1, <1>2 DEF ToDevice, InHand
<1>4. CASE UNCHANGED <<tx_buffer, taken>>
  <2>1. Types' /\ AllThere'
    BY <1>1, <1>2, <1>4 DEF Types, AllThere
  <2>2. QED
    BY <1>3, <2>1, AllThereAgain
<1>5. CASE \E n \in 0 .. Room :
             tx_buffer' = tx_buffer \o [i \in 1 .. n |-> taken + i] /\ taken' = taken + n
  <2>1. PICK n \in 0 .. Room :
          tx_buffer' = tx_buffer \o [i \in 1 .. n |-> taken + i] /\ taken' = taken + n
    BY <1>5
  <2> DEFINE more == [i \in 1 .. n |-> taken + i]
  <2>2. n \in Nat
    BY <1>1, LenProperties DEF Room, Types
  <2>3. more \in Seq(Nat) /\ Counting(taken) \o more = Counting(taken + n)
    BY <1>1, <2>2, CountOn DEF Types
  <2> HIDE DEF more
  <2>4. tx_buffer' = tx_buffer \o more
    BY <2>1 DEF more
  <2>5. tx_buffer' \in Seq(Nat) /\ taken' \in Nat
    BY <1>1, <2>1, <2>2, <2>3, <2>4, ConcatProperties DEF Types
  <2>6. (sent \o tx_buffer) \o more = sent \o (tx_buffer \o more)
    <3>1. sent \in Seq(Nat) /\ tx_buffer \in Seq(Nat) /\ more \in Seq(Nat)
      BY <1>1, <2>3 DEF Types
    <3>2. QED
      BY <3>1, Associative, Zenon
  <2>7. sent \o tx_buffer' = Counting(taken')
    BY <1>1, <2>1, <2>3, <2>4, <2>6 DEF AllThere
  <2>8. Types' /\ AllThere'
    BY <1>1, <1>2, <2>5, <2>7 DEF Types, AllThere
  <2>9. QED
    BY <1>3, <2>8, AllThereAgain
<1>6. QED
  BY <1>4, <1>5 DEF Read

\* relay_on_send: whatever the library takes leaves the buffer at its front.
LEMMA SendInv ==
  ASSUME IInv, Send
  PROVE  IInv'
<1>1. Types /\ AllThere /\ ToDevice
  BY DEF IInv, ToCloud, Over, Dropped, Send
<1>2. UNCHANGED <<receiving, taken, frames, written, cut, arrived>>
  BY DEF Send
<1>3. PICK n \in 0 .. Len(tx_buffer) : OnSend(n)
  BY DEF Send
<1> DEFINE first == SubSeq(tx_buffer, 1, n)
           rest == SubSeq(tx_buffer, n + 1, Len(tx_buffer))
<1>4. first \in Seq(Nat) /\ rest \in Seq(Nat) /\ first \o rest = tx_buffer
  BY <1>1, CutInTwo DEF Types
<1>5. tx_buffer' = rest /\ sent' = sent \o first
  BY <1>3 DEF OnSend
<1> HIDE DEF first, rest
<1>6. (sent \o first) \o rest = sent \o (first \o rest)
  <2>1. sent \in Seq(Nat) /\ first \in Seq(Nat) /\ rest \in Seq(Nat)
    BY <1>1, <1>4 DEF Types
  <2>2. QED
    BY <2>1, Associative, Zenon
<1>7. sent' \o tx_buffer' = Counting(taken)
  BY <1>1, <1>4, <1>5, <1>6 DEF AllThere
<1>8. sent' \in Seq(Nat) /\ tx_buffer' \in Seq(Nat)
  BY <1>1, <1>4, <1>5, ConcatProperties DEF Types
<1>9. Types' /\ AllThere'
  BY <1>1, <1>2, <1>7, <1>8 DEF Types, AllThere
<1>10. ToDevice'
  BY <1>1, <1>2 DEF ToDevice, InHand
<1>11. QED
  BY <1>9, <1>10, AllThereAgain

\* relay_on_receive begins: a frame of data is the last that has come.
LEMMA OnReceiveInv ==
  ASSUME IInv, OnReceive
  PROVE  IInv'
<1>1. Types /\ ToCloud /\ ToDevice
  BY DEF IInv
<1>2. UNCHANGED <<pc, tx_buffer, taken, sent, written, cut>> /\ arrived' = arrived + 1
      /\ receiving = NoFrame
  BY DEF OnReceive
<1>3. PICK key \in BOOLEAN :
        /\ receiving' = [key |-> key, number |-> arrived + 1]
        /\ frames' = IF key THEN frames ELSE Append(frames, arrived + 1)
  BY DEF OnReceive
<1>4. /\ receiving' \in [key : BOOLEAN, number : Nat]
      /\ receiving'.key = key /\ receiving'.number = arrived + 1 /\ receiving' # NoFrame
  BY <1>1, <1>3 DEF Types, NoFrame
<1>5. ~ InHand
  BY <1>2 DEF InHand
<1>6. arrived \in Nat /\ arrived + 1 \in Nat /\ frames \in Seq(Nat)
  BY <1>1 DEF Types
<1>7. frames' \in Seq(Nat) /\ ToDevice'
  <2>1. CASE key
    BY <2>1, <1>1, <1>2, <1>3, <1>4, <1>5, <1>6 DEF ToDevice, InHand
  <2>2. CASE ~ key
    <3>1. frames' = Append(frames, arrived + 1) /\ InHand'
      BY <2>2, <1>3, <1>4 DEF InHand
    <3>2. /\ frames' \in Seq(Nat) /\ Len(frames') = Len(frames) + 1
          /\ frames'[Len(frames) + 1] = arrived + 1
          /\ SubSeq(frames', 1, Len(frames)) = frames
      BY <3>1, <1>6, LastTakenOff
    <3>3. Len(frames) \in Nat
      BY <1>6, LenProperties
    <3>4. Len(frames') > 0 /\ Len(frames') - 1 = Len(frames)
      BY <3>2, <3>3
    <3>5. ~ cut => written = frames
      BY <1>1, <1>5 DEF ToDevice
    <3>6. QED
      BY <1>2, <1>4, <3>1, <3>2, <3>4, <3>5 DEF ToDevice
  <2>3. QED
    BY <2>1, <2>2
<1>8. ToCloud'
  BY <1>1, <1>2, CloudAlone
<1>9. QED
  BY <1>1, <1>2, <1>4, <1>6, <1>7, <1>8 DEF IInv, Types

\* relay_on_receive ends: the frame is written, or the write is cut short.
LEMMA WriteInv ==
  ASSUME IInv, Write
  PROVE  IInv'
<1>1. Types /\ ToCloud /\ ToDevice
  BY DEF IInv
<1>2. UNCHANGED <<pc, tx_buffer, taken, sent, frames, arrived>> /\ receiving' = NoFrame
      /\ receiving # NoFrame
  BY DEF Write
<1>3. ~ InHand' /\ receiving' \in [key : BOOLEAN, number : Nat]
  BY <1>2 DEF InHand, NoFrame
<1>4. written' \in Seq(Nat) /\ ToDevice'
  <2>1. CASE receiving.key /\ UNCHANGED <<written, cut>>
    BY <2>1, <1>1, <1>2, <1>3 DEF ToDevice, InHand, Types
  <2>2. CASE ~ receiving.key /\ written' = Append(written, receiving.number) /\ UNCHANGED cut
    <3>1. InHand /\ receiving.number \in Nat /\ written \in Seq(Nat) /\ frames \in Seq(Nat)
      BY <2>2, <1>1, <1>2 DEF InHand, Types
    <3>2. written' \in Seq(Nat)
      BY <2>2, <3>1, AppendProperties
    <3>3. ~ cut => written = SubSeq(frames, 1, Len(frames) - 1)
      BY <1>1, <3>1 DEF ToDevice
    <3>4. Append(SubSeq(frames, 1, Len(frames) - 1), receiving.number) = frames
      BY <1>1, <3>1, LastPutBack DEF ToDevice
    <3>5. QED
      BY <2>2, <1>2, <1>3, <3>2, <3>3, <3>4 DEF ToDevice
  <2>3. CASE cut' = TRUE /\ UNCHANGED written
    BY <2>3, <1>1, <1>3 DEF ToDevice, Types
  <2>4. QED
    BY <2>1, <2>2, <2>3 DEF Write
<1>5. ToCloud'
  BY <1>1, <1>2, CloudAlone
<1>6. QED
  BY <1>1, <1>2, <1>3, <1>4, <1>5 DEF IInv, Types

\* A callback that outlives the program writes nothing more.
LEMMA WriteClosedInv ==
  ASSUME IInv, WriteClosed
  PROVE  IInv'
<1>1. Types /\ ToCloud /\ ToDevice
  BY DEF IInv
<1>2. UNCHANGED <<tx_buffer, taken, sent, frames, written, arrived>> /\ receiving' = NoFrame
      /\ cut' = TRUE /\ pc' \in Over
  BY DEF WriteClosed, Over
<1>3. Types'
  BY <1>1, <1>2 DEF Types, NoFrame
<1>4. ToCloud'
  BY <1>1, <1>2, CloudAlone
<1>5. ToDevice'
  BY <1>2 DEF ToDevice, InHand
<1>6. QED
  BY <1>3, <1>4, <1>5 DEF IInv

\* The relay closes: what waits is thrown away.
LEMMA CloseInv ==
  ASSUME IInv, Close
  PROVE  IInv'
<1>1. Types /\ ToCloud /\ ToDevice
  BY DEF IInv
<1>2. UNCHANGED <<receiving, taken, sent, frames, written, cut, arrived>>
      /\ tx_buffer' = <<>> /\ pc' \in Over
  BY DEF Close, Over, streamVars
<1>3. Types'
  <2>1. <<>> \in Seq(Nat)
    OBVIOUS
  <2>2. QED
    BY <1>1, <1>2, <2>1 DEF Types
<1>4. ToCloud'
  BY <1>1, <1>2 DEF ToCloud, SentInOrder, Dropped
<1>5. ToDevice'
  BY <1>1, <1>2 DEF ToDevice, InHand
<1>6. QED
  BY <1>3, <1>4, <1>5 DEF IInv

LEMMA OtherInv ==
  ASSUME IInv, UNCHANGED <<tx_buffer, receiving, streamVars>>, pc \in Over => pc' \in Over
  PROVE  IInv'
<1>1. ToCloud'
  BY CloudAlone DEF IInv, streamVars
<1>2. QED
  BY <1>1 DEF IInv, Types, ToDevice, InHand, streamVars

\* Every step of the relay keeps its invariant.
LEMMA RelayInv == IInv /\ [Next]_vars => IInv'
<1> SUFFICES ASSUME IInv, [Next]_vars PROVE IInv'
  OBVIOUS
<1>1. CASE Main \/ Open \/ SetUp \/ ConnectWebsocket
  BY <1>1, OtherInv DEF Main, Open, SetUp, ConnectWebsocket, Over
<1>2. CASE Wait \/ Crash \/ Stop \/ Exit
  BY <1>2, OtherInv DEF Wait, Crash, Stop, Exit, Over
<1>3. CASE OnClose \/ Signal \/ UNCHANGED vars
  BY <1>3, OtherInv DEF OnClose, Signal, vars, relayVars, Over
<1>4. CASE Read
  BY <1>4, ReadInv
<1>5. CASE Send
  BY <1>5, SendInv
<1>6. CASE OnReceive
  BY <1>6, OnReceiveInv
<1>7. CASE Write
  BY <1>7, WriteInv
<1>8. CASE Close
  BY <1>8, CloseInv
<1>9. CASE WriteClosed
  BY <1>9, WriteClosedInv
<1>10. QED
  BY <1>1, <1>2, <1>3, <1>4, <1>5, <1>6, <1>7, <1>8, <1>9 DEF Next, Steps

(* The cloud receives the bytes of the device, each once and in order, for   *)
(* any size of the buffer and whatever the library leaves unwritten; what it *)
(* has not received waits in the buffer until the relay closes and throws it *)
(* away; the device receives the frames of data until a write to it is cut   *)
(* short (relay_client, relay_on_send, relay_on_receive).                    *)
THEOREM StreamsAreKept == Spec => []StreamsKept
BY RelayInv, InitInv, Promised, PTL DEF Spec

-----------------------------------------------------------------------------
(***************************************************************************)
(* A software update: which scripts have run when a phase is reached, and  *)
(* what is left of one that failed.                                        *)
(***************************************************************************)
Notes ==
  [name : {"pre_install", "install", "post_install", "error"}, started : BOOLEAN, ok : BOOLEAN]
Ends == {"finish", "report", "done"}
IsPhase(n) == n # "error"
Precedes(a, b) ==
  \E i, j \in 1 .. Len(U!Phases) : i < j /\ U!Phases[i] = a /\ U!Phases[j] = b

RanTypes == ran \in Seq(Notes) /\ phase \in 1 .. 4 /\ updateResult \in BOOLEAN

\* Until the phases begin no script has run.
NotBegun ==
  updatePc \notin Ends \cup {"phase"} => phase = 1 /\ ran = <<>> /\ ~ rebooting

\* The scripts that ran are those of the phases that are over, in their order.
OfPastPhases ==
  \A i \in 1 .. Len(ran) :
    IsPhase(ran[i].name) => \E p \in 1 .. 3 : p < phase /\ U!Phases[p] = ran[i].name

InOrder ==
  \A i, j \in 1 .. Len(ran) :
    i < j /\ IsPhase(ran[i].name) /\ IsPhase(ran[j].name)
      => Precedes(ran[i].name, ran[j].name)

AllOfPastPhases ==
  \A p \in 1 .. 3 : p < phase /\ U!Phases[p] \in scripts
                      => \E i \in 1 .. Len(ran) : ran[i].name = U!Phases[p]

\* A failure that no script of the error phase follows is the last or last but
\* one script, and the program ends without success.
Unrepaired(i) == U!Bad(i) /\ ~ U!Repaired(i)
FailureEnds ==
  \A i \in 1 .. Len(ran) :
    Unrepaired(i) => i >= Len(ran) - 1 /\ updatePc \in Ends /\ ~ updateResult

\* A success on VxWorks, and a reboot, come after the last phase.
EndReached ==
  /\ updatePc = "phase" => updateResult
  /\ rebooting => phase = 4 /\ updatePc \in Ends /\ updateResult
  /\ updateSystem = "vxworks" /\ updatePc \in Ends /\ updateResult => phase = 4

ScriptInv ==
  /\ RanTypes /\ NotBegun /\ OfPastPhases /\ InOrder /\ AllOfPastPhases /\ FailureEnds
  /\ EndReached
  /\ scripts \subseteq {"pre_install", "install", "post_install", "error"}

\* The scripts are named by an update.json that is there, which is that of an
\* earlier update only in its directory.
JsonInv ==
  /\ json \in {"none", "stale", "fresh"}
  /\ json = "stale" => directory = "stale"
  /\ updatePc = "phase" \/ ran # <<>> => json # "none"

LEMMA PhasesAre ==
  /\ Len(U!Phases) = 3
  /\ U!Phases[1] = "pre_install" /\ U!Phases[2] = "install" /\ U!Phases[3] = "post_install"
  /\ \A p \in 1 .. 3 : U!Phases[p] \in {"pre_install", "install", "post_install"}
BY DEF U!Phases

LEMMA ScriptsPromised == ScriptInv /\ JsonInv => U!ScriptsInOrder
<1> SUFFICES ASSUME ScriptInv, JsonInv PROVE U!ScriptsInOrder
  OBVIOUS
<1>1. ran \in Seq(Notes) /\ Len(ran) \in Nat
  BY DEF ScriptInv, RanTypes
<1>2. ASSUME NEW i \in 1 .. Len(ran), NEW j \in 1 .. Len(ran), i < j
      PROVE  U!Bad(i) => U!Repaired(i) \/ j = i + 1
  <2>1. Unrepaired(i) => i >= Len(ran) - 1
    BY <1>2 DEF ScriptInv, FailureEnds
  <2>2. QED
    BY <2>1, <1>1, <1>2 DEF Unrepaired
<1>3. ASSUME NEW i \in 1 .. Len(ran), NEW j \in 1 .. Len(ran), i < j,
             {ran[i].name, ran[j].name} \cap {"error"} = {}
      PROVE  Precedes(ran[i].name, ran[j].name)
  BY <1>3 DEF ScriptInv, InOrder, IsPhase
<1>4. ASSUME (updatePc = "done" /\ updateResult /\ updateSystem = "vxworks") \/ rebooting
      PROVE  /\ \A i \in 1 .. Len(ran) : U!Bad(i) => U!Repaired(i)
             /\ \A p \in scripts \ {"error"} : \E i \in 1 .. Len(ran) : ran[i].name = p
  <2>1. phase = 4 /\ updateResult
    BY <1>4 DEF ScriptInv, EndReached, Ends
  <2>2. \A i \in 1 .. Len(ran) : U!Bad(i) => U!Repaired(i)
    BY <2>1 DEF ScriptInv, FailureEnds, Unrepaired
  <2>3. ASSUME NEW p \in scripts \ {"error"}
        PROVE  \E i \in 1 .. Len(ran) : ran[i].name = p
    <3>1. \E q \in 1 .. 3 : U!Phases[q] = p
      <4>1. p \in {"pre_install", "install", "post_install"}
        BY DEF ScriptInv
      <4>2. QED
        BY <4>1, PhasesAre
    <3>2. PICK q \in 1 .. 3 : U!Phases[q] = p
      BY <3>1
    <3>3. q < phase
      BY <2>1
    <3>4. QED
      BY <3>2, <3>3 DEF ScriptInv, AllOfPastPhases
  <2>4. QED
    BY <2>2, <2>3
<1>5. ran # <<>> => json = "fresh" \/ (json = "stale" /\ directory = "stale")
  BY DEF JsonInv
<1>6. QED
  BY <1>2, <1>3, <1>4, <1>5 DEF U!ScriptsInOrder, Precedes

LEMMA ScriptInit == U!Init => ScriptInv
<1> SUFFICES ASSUME U!Init PROVE ScriptInv
  OBVIOUS
<1>1. ran = <<>> /\ phase = 1 /\ updateResult = FALSE /\ updatePc = "idle" /\ rebooting = FALSE
      /\ scripts \subseteq {"pre_install", "install", "post_install", "error"}
  BY DEF U!Init
<1>2. ran \in Seq(Notes) /\ Len(ran) = 0 /\ 1 .. Len(ran) = {}
  BY <1>1
<1>3. RanTypes /\ NotBegun
  <2>1. updateResult \in BOOLEAN
    BY <1>1
  <2>2. phase \in 1 .. 4
    BY <1>1
  <2>3. QED
    BY <2>1, <2>2, <1>1, <1>2 DEF RanTypes, NotBegun
<1>4. OfPastPhases /\ InOrder /\ FailureEnds
  BY <1>2 DEF OfPastPhases, InOrder, FailureEnds
<1>5. AllOfPastPhases /\ EndReached
  BY <1>1 DEF AllOfPastPhases, EndReached, Ends
<1>6. QED
  BY <1>1, <1>3, <1>4, <1>5 DEF ScriptInv

\* The steps that run no script.
LEMMA ScriptKept ==
  ASSUME ScriptInv, UNCHANGED <<ran, phase, scripts>>, updateResult' \in BOOLEAN,
         NotBegun', EndReached',
         updatePc \in Ends \cup {"phase"} => updateResult' = updateResult /\ updatePc' \in Ends \cup {"phase"},
         updatePc \in Ends => updatePc' \in Ends
  PROVE  ScriptInv'
<1>1. RanTypes' /\ OfPastPhases' /\ InOrder' /\ AllOfPastPhases'
  BY DEF ScriptInv, RanTypes, OfPastPhases, InOrder, AllOfPastPhases, Precedes
<1>2. FailureEnds'
  <2> SUFFICES ASSUME NEW i \in 1 .. Len(ran), Unrepaired(i)'
               PROVE  i >= Len(ran) - 1 /\ updatePc' \in Ends /\ ~ updateResult'
    BY DEF FailureEnds
  <2>1. Unrepaired(i)
    BY DEF Unrepaired, U!Bad, U!Repaired
  <2>2. i >= Len(ran) - 1 /\ updatePc \in Ends /\ ~ updateResult
    BY <2>1 DEF ScriptInv, FailureEnds
  <2>3. QED
    BY <2>2
<1>3. QED
  BY <1>1, <1>2 DEF ScriptInv

\* What is noted of a script.
LEMMA RunType ==
  ASSUME NEW run \in U!Runs
  PROVE  run.started \in BOOLEAN /\ run.ok \in BOOLEAN
<1>1. \/ run = [started |-> FALSE, ok |-> FALSE] \/ run = [started |-> TRUE, ok |-> FALSE]
      \/ run = [started |-> TRUE, ok |-> TRUE]
  BY DEF U!Runs
<1>2. CASE run = [started |-> FALSE, ok |-> FALSE]
  BY <1>2
<1>3. CASE run = [started |-> TRUE, ok |-> FALSE]
  BY <1>3
<1>4. CASE run = [started |-> TRUE, ok |-> TRUE]
  BY <1>4
<1>5. QED
  BY <1>1, <1>2, <1>3, <1>4, Zenon

LEMMA NoteType ==
  ASSUME NEW name \in {"pre_install", "install", "post_install", "error"}, NEW run \in U!Runs
  PROVE  U!Note(name, run) \in Notes
BY RunType DEF Notes, U!Note

\* A script has run, and after one that failed perhaps that of the error
\* phase.
LEMMA ScriptAdded ==
  ASSUME ScriptInv, U!RunScript
  PROVE  ScriptInv'
<1> DEFINE n == Len(ran)
           name == U!Phases[phase]
<1>1. /\ ran \in Seq(Notes) /\ n \in Nat /\ phase \in 1 .. 3 /\ name \in scripts
      /\ updatePc = "phase" /\ phase' = phase + 1 /\ scripts' = scripts
      /\ rebooting' = rebooting /\ updateSystem' = updateSystem /\ updateResult
      /\ ~ rebooting
  <2>1. phase \in 1 .. 4 /\ phase <= 3
    BY PhasesAre DEF ScriptInv, RanTypes, U!RunScript, U!HasScript
  <2>2. ran \in Seq(Notes) /\ n \in Nat
    BY DEF ScriptInv, RanTypes
  <2>3. /\ name \in scripts /\ updatePc = "phase" /\ phase' = phase + 1 /\ scripts' = scripts
        /\ rebooting' = rebooting /\ updateSystem' = updateSystem
    BY DEF U!RunScript, U!HasScript, U!packageVars
  <2>4. updateResult /\ ~ rebooting
    BY <2>3 DEF ScriptInv, EndReached, Ends
  <2>5. QED
    BY <2>1, <2>2, <2>3, <2>4
<1>2. name \in {"pre_install", "install", "post_install"} /\ IsPhase(name)
  BY <1>1, PhasesAre DEF IsPhase
<1> HIDE DEF n, name
\* What happens to the list, whatever comes of the script.
<1>3. ASSUME NEW more \in Seq(Notes), ran' = ran \o more, Len(more) \in 1 .. 2,
             more[1].name = name, Len(more) = 2 => more[2].name = "error",
             \/ /\ updateResult' = TRUE /\ updatePc' = "phase"
                /\ more[1].ok = TRUE \/ (Len(more) = 2 /\ more[2].started = TRUE)
             \/ updateResult' = FALSE /\ updatePc' = "finish"
      PROVE  ScriptInv'
  <2>1. /\ ran' \in Seq(Notes) /\ Len(ran') = n + Len(more)
        /\ \A i \in 1 .. n : ran'[i] = ran[i]
        /\ \A i \in 1 .. Len(more) : ran'[n + i] = more[i]
    <3>1. /\ ran' \in Seq(Notes) /\ Len(ran') = n + Len(more)
          /\ \A i \in 1 .. n + Len(more) :
               ran'[i] = IF i <= n THEN ran[i] ELSE more[i - n]
      BY <1>1, <1>3, ConcatProperties DEF n
    <3>2. \A i \in 1 .. n : ran'[i] = ran[i]
      BY <3>1, <1>1, <1>3
    <3>3. ASSUME NEW i \in 1 .. Len(more) PROVE ran'[n + i] = more[i]
      <4>1. n + i \in 1 .. n + Len(more) /\ ~ (n + i <= n) /\ (n + i) - n = i
        BY <1>1, <1>3
      <4>2. QED
        BY <4>1, <3>1
    <3>4. QED
      BY <3>1, <3>2, <3>3
  <2>2. ASSUME NEW i \in 1 .. Len(ran')
        PROVE  \/ i \in 1 .. n /\ ran'[i] = ran[i]
               \/ i = n + 1 /\ ran'[i].name = name
               \/ i = n + 2 /\ Len(more) = 2 /\ ran'[i].name = "error"
    <3>1. i \in 1 .. n \/ i = n + 1 \/ (i = n + 2 /\ Len(more) = 2)
      <4>1. i \in 1 .. n + Len(more) /\ Len(more) \in 1 .. 2
        BY <2>1, <1>3
      <4>2. Len(more) = 1 \/ Len(more) = 2
        BY <4>1
      <4>3. CASE Len(more) = 1
        BY <4>1, <4>3, <1>1
      <4>4. CASE Len(more) = 2
        BY <4>1, <4>4, <1>1
      <4>5. QED
        BY <4>2, <4>3, <4>4
    <3>2. CASE i \in 1 .. n
      BY <3>2, <2>1
    <3>3. CASE i = n + 1
      BY <3>3, <2>1, <1>3
    <3>4. CASE i = n + 2 /\ Len(more) = 2
      <4>1. 2 \in 1 .. Len(more) /\ n + 2 = i
        BY <3>4
      <4>2. ran'[i].name = "error"
        BY <4>1, <2>1, <1>3, <3>4
      <4>3. QED
        BY <4>2, <3>4
    <3>5. QED
      BY <3>1, <3>2, <3>3, <3>4
  <2>3. RanTypes'
    <3>1. phase' \in 1 .. 4
      BY <1>1
    <3>2. updateResult' \in BOOLEAN
      BY <1>3
    <3>3. QED
      BY <3>1, <3>2, <2>1 DEF RanTypes
  <2>4. NotBegun'
    BY <1>3 DEF NotBegun, Ends
  <2>5. OfPastPhases'
    <3> SUFFICES ASSUME NEW i \in 1 .. Len(ran'), IsPhase(ran'[i].name)
                 PROVE  \E p \in 1 .. 3 : p < phase' /\ U!Phases[p] = ran'[i].name
      BY DEF OfPastPhases, U!Phases
    <3>1. CASE i \in 1 .. n /\ ran'[i] = ran[i]
      <4>1. PICK p \in 1 .. 3 : p < phase /\ U!Phases[p] = ran[i].name
        BY <3>1 DEF ScriptInv, OfPastPhases, n
      <4>2. p < phase'
        BY <4>1, <1>1
      <4>3. QED
        BY <4>1, <4>2, <3>1
    <3>2. CASE i = n + 1 /\ ran'[i].name = name
      <4>1. phase < phase'
        BY <1>1
      <4>2. QED
        BY <4>1, <3>2, <1>1 DEF name
    <3>3. QED
      BY <3>1, <3>2, <2>2 DEF IsPhase
  <2>6. InOrder'
    <3> SUFFICES ASSUME NEW i \in 1 .. Len(ran'), NEW j \in 1 .. Len(ran'), i < j,
                        IsPhase(ran'[i].name), IsPhase(ran'[j].name)
                 PROVE  Precedes(ran'[i].name, ran'[j].name)
      BY DEF InOrder, Precedes, U!Phases
    <3>1. CASE j \in 1 .. n /\ ran'[j] = ran[j]
      <4>1. i \in 1 .. n /\ ran'[i] = ran[i]
        BY <3>1, <2>1, <1>1
      <4>2. QED
        BY <3>1, <4>1 DEF ScriptInv, InOrder, n
    <3>2. CASE j = n + 1 /\ ran'[j].name = name
      <4>1. i \in 1 .. n /\ ran'[i] = ran[i]
        <5>1. i \in 1 .. n
          BY <3>2, <2>1, <1>1, <1>3
        <5>2. QED
          BY <5>1, <2>1
      <4>2. PICK p \in 1 .. 3 : p < phase /\ U!Phases[p] = ran[i].name
        BY <4>1 DEF ScriptInv, OfPastPhases, n
      <4>3. QED
        BY <4>1, <4>2, <3>2, <1>1, PhasesAre DEF Precedes, name
    <3>3. QED
      BY <3>1, <3>2, <2>2 DEF IsPhase
  <2>7. AllOfPastPhases'
    <3> SUFFICES ASSUME NEW p \in 1 .. 3, p < phase', U!Phases[p] \in scripts
                 PROVE  \E i \in 1 .. Len(ran') : ran'[i].name = U!Phases[p]
      BY <1>1 DEF AllOfPastPhases, U!Phases
    <3>1. CASE p < phase
      <4>1. PICK i \in 1 .. n : ran[i].name = U!Phases[p]
        BY <3>1 DEF ScriptInv, AllOfPastPhases, n
      <4>2. i \in 1 .. Len(ran') /\ ran'[i] = ran[i]
        BY <2>1, <1>1, <1>3
      <4>3. QED
        BY <4>1, <4>2
    <3>2. CASE p = phase
      <4>1. n + 1 \in 1 .. Len(ran') /\ ran'[n + 1] = more[1]
        BY <2>1, <1>1, <1>3
      <4>2. QED
        BY <4>1, <3>2, <1>3 DEF name
    <3>3. p < phase \/ p = phase
      BY <1>1
    <3>4. QED
      BY <3>1, <3>2, <3>3
  <2>8. FailureEnds'
    <3> SUFFICES ASSUME NEW i \in 1 .. Len(ran'), Unrepaired(i)'
                 PROVE  i >= Len(ran') - 1 /\ updatePc' \in Ends /\ ~ updateResult'
      BY DEF FailureEnds, Ends
    <3>1. CASE i \in 1 .. n /\ ran'[i] = ran[i]
      <4>1. Unrepaired(i)
        <5>1. U!Bad(i)
          BY <3>1 DEF Unrepaired, U!Bad
        <5>2. U!Repaired(i) => U!Repaired(i)'
          <6> SUFFICES ASSUME i < n, ran[i + 1].name = "error", ran[i + 1].started
                       PROVE  i < Len(ran') /\ ran'[i + 1].name = "error" /\ ran'[i + 1].started
            BY DEF U!Repaired, n
          <6>1. i + 1 \in 1 .. n /\ i < Len(ran')
            BY <3>1, <2>1, <1>1, <1>3
          <6>2. QED
            BY <6>1, <2>1
        <5>3. QED
          BY <5>1, <5>2 DEF Unrepaired
      <4>2. updatePc \in Ends
        BY <4>1, <3>1 DEF ScriptInv, FailureEnds, n
      <4>3. QED
        BY <4>2, <1>1 DEF Ends
    <3>2. CASE i = n + 1 /\ ran'[i].name = name
      <4>1. ran'[n + 1] = more[1] /\ i >= Len(ran') - 1
        <5>1. Len(more) \in {1, 2} /\ 1 \in 1 .. Len(more)
          BY <1>3
        <5>2. ran'[n + 1] = more[1]
          BY <5>1, <2>1
        <5>3. i >= Len(ran') - 1
          <6>1. Len(ran') = n + Len(more) /\ n \in Nat
            BY <2>1, <1>1
          <6>2. CASE Len(more) = 1
            BY <6>1, <6>2, <3>2
          <6>3. CASE Len(more) = 2
            BY <6>1, <6>3, <3>2
          <6>4. QED
            BY <5>1, <6>2, <6>3
        <5>4. QED
          BY <5>2, <5>3
      <4>2. more[1].ok # TRUE
        BY <4>1, <3>2 DEF Unrepaired, U!Bad
      <4>3. Len(more) = 2 => more[2].started # TRUE
        <5> SUFFICES ASSUME Len(more) = 2, more[2].started = TRUE PROVE FALSE
          OBVIOUS
        <5>1. 2 \in 1 .. Len(more) /\ i + 1 = n + 2 /\ i < Len(ran')
          BY <3>2, <2>1, <1>1
        <5>2. ran'[i + 1] = more[2]
          BY <5>1, <2>1
        <5>3. ran'[i + 1].name = "error" /\ ran'[i + 1].started = TRUE
          BY <5>2, <1>3
        <5>4. QED
          BY <5>1, <5>3 DEF Unrepaired, U!Repaired
      <4>4. ~ updateResult'
        BY <4>2, <4>3, <1>3
      <4>5. QED
        BY <4>1, <4>4, <1>3 DEF Ends
    <3>3. CASE ran'[i].name = "error"
      BY <3>3 DEF Unrepaired, U!Bad
    <3>4. QED
      BY <3>1, <3>2, <3>3, <2>2
  <2>9. EndReached'
    BY <1>1, <1>3 DEF EndReached, Ends
  <2>10. QED
    BY <2>3, <2>4, <2>5, <2>6, <2>7, <2>8, <2>9, <1>1 DEF ScriptInv
<1>4. ASSUME NEW run \in U!Runs
      PROVE  /\ <<U!Note(name, run)>> \in Seq(Notes)
             /\ <<U!Note(name, run)>>[1].name = name /\ <<U!Note(name, run)>>[1].ok = run.ok
             /\ Len(<<U!Note(name, run)>>) \in 1 .. 2 /\ Len(<<U!Note(name, run)>>) # 2
             /\ Append(ran, U!Note(name, run)) = ran \o <<U!Note(name, run)>>
  <2>1. U!Note(name, run) \in Notes
    BY <1>2, NoteType
  <2>2. Append(ran, U!Note(name, run)) = ran \o <<U!Note(name, run)>>
    BY <2>1, <1>1
  <2>3. U!Note(name, run).name = name /\ U!Note(name, run).ok = run.ok
    BY DEF U!Note
  <2>4. QED
    BY <2>1, <2>2, <2>3
<1>5. ASSUME NEW run \in U!Runs, run.ok, ran' = Append(ran, U!Note(name, run)),
             UNCHANGED <<updatePc, updateResult>>
      PROVE  ScriptInv'
  <2>1. updateResult' = TRUE /\ updatePc' = "phase"
    <3>1. updateResult \in BOOLEAN /\ updateResult
      BY <1>1 DEF ScriptInv, RanTypes
    <3>2. QED
      BY <3>1, <1>1, <1>5
  <2>2. run.ok = TRUE
    BY <1>5, RunType
  <2> DEFINE more == <<U!Note(name, run)>>
  <2>3. /\ more \in Seq(Notes) /\ more[1].name = name /\ more[1].ok = TRUE
        /\ Len(more) \in 1 .. 2 /\ Len(more) # 2 /\ ran' = ran \o more
    BY <1>4, <1>5, <2>2
  <2> HIDE DEF more
  <2>4. QED
    BY <2>1, <2>3, <1>3
<1>6. ASSUME NEW run \in U!Runs, NEW repair \in U!Runs,
             ran' = ran \o <<U!Note(name, run), U!Note("error", repair)>>,
             updateResult' = repair.started,
             updatePc' = IF repair.started THEN "phase" ELSE "finish"
      PROVE  ScriptInv'
  <2> DEFINE more == <<U!Note(name, run), U!Note("error", repair)>>
  <2>1. U!Note(name, run) \in Notes /\ U!Note("error", repair) \in Notes
    BY <1>2, NoteType
  <2>2. /\ more \in Seq(Notes) /\ Len(more) = 2
        /\ more[1] = U!Note(name, run) /\ more[2] = U!Note("error", repair)
    <3>1. more[1] = U!Note(name, run) /\ more[2] = U!Note("error", repair) /\ Len(more) = 2
      OBVIOUS
    <3>2. \A a, b \in Notes : <<a, b>> \in Seq(Notes)
      OBVIOUS
    <3>3. QED
      BY <2>1, <3>1, <3>2
  <2>3. ran' = ran \o more
    BY <1>6
  <2> HIDE DEF more
  <2>4. more[1].name = name /\ more[2].name = "error" /\ more[2].started = repair.started
    BY <2>2 DEF U!Note
  <2>5. Len(more) \in 1 .. 2
    BY <2>2
  <2>6. repair.started = TRUE \/ repair.started = FALSE
    BY RunType
  <2>7. CASE repair.started = TRUE
    <3>1. updateResult' = TRUE /\ updatePc' = "phase" /\ more[2].started = TRUE
      BY <1>6, <2>4, <2>7
    <3>2. QED
      BY <3>1, <2>2, <2>3, <2>4, <2>5, <1>3
  <2>8. CASE repair.started = FALSE
    <3>1. updateResult' = FALSE /\ updatePc' = "finish"
      BY <1>6, <2>8
    <3>2. QED
      BY <3>1, <2>2, <2>3, <2>4, <2>5, <1>3
  <2>9. QED
    BY <2>6, <2>7, <2>8
<1>7. ASSUME NEW run \in U!Runs, ran' = Append(ran, U!Note(name, run)),
             updateResult' = FALSE, updatePc' = "finish"
      PROVE  ScriptInv'
  <2> DEFINE more == <<U!Note(name, run)>>
  <2>1. /\ more \in Seq(Notes) /\ more[1].name = name
        /\ Len(more) \in 1 .. 2 /\ Len(more) # 2 /\ ran' = ran \o more
    BY <1>4, <1>7
  <2> HIDE DEF more
  <2>2. QED
    BY <2>1, <1>3, <1>7
<1>8. PICK run \in U!Runs :
        \/ run.ok /\ ran' = Append(ran, U!Note(name, run)) /\ UNCHANGED <<updatePc, updateResult>>
        \/ \E repair \in U!Runs :
             /\ ran' = ran \o <<U!Note(name, run), U!Note("error", repair)>>
             /\ updateResult' = repair.started
             /\ updatePc' = IF repair.started THEN "phase" ELSE "finish"
        \/ ran' = Append(ran, U!Note(name, run)) /\ updateResult' = FALSE /\ updatePc' = "finish"
  BY Zenon DEF U!RunScript, name
<1>9. QED
  BY <1>5, <1>6, <1>7, <1>8, Zenon

\* The steps before the phases.
LEMMA ScriptEarly ==
  ASSUME ScriptInv, UNCHANGED <<ran, phase, scripts, rebooting, updateSystem>>,
         updatePc \notin Ends \cup {"phase"},
         \/ updatePc' \notin Ends \cup {"phase"} /\ updateResult' \in {FALSE, TRUE, updateResult}
         \/ updatePc' \in Ends /\ updateResult' = FALSE
         \/ updatePc' = "finish" /\ updateSystem # "vxworks" /\ updateResult' = TRUE
         \/ updatePc' = "phase" /\ updateResult' = TRUE
  PROVE  ScriptInv'
<1>1. phase = 1 /\ ran = <<>> /\ ~ rebooting
  BY DEF ScriptInv, NotBegun
<1>2. updateResult' \in BOOLEAN
  BY DEF ScriptInv, RanTypes
<1>3. NotBegun'
  BY <1>1 DEF NotBegun
<1>4. EndReached'
  BY <1>1 DEF EndReached, Ends
<1>5. QED
  BY <1>2, <1>3, <1>4, ScriptKept

LEMMA ScriptStep == ScriptInv /\ [U!Next]_(U!vars) => ScriptInv'
<1> SUFFICES ASSUME ScriptInv, [U!Next]_(U!vars) PROVE ScriptInv'
  OBVIOUS
<1> USE DEF Ends
<1>1. CASE U!RunScript
  BY <1>1, ScriptAdded
<1>2. CASE U!NoScript
  <2>1. /\ ran' = ran /\ phase \in 1 .. 3 /\ phase' = phase + 1 /\ updatePc = "phase"
        /\ U!Phases[phase] \notin scripts
        /\ UNCHANGED <<updatePc, updateResult, scripts, rebooting, updateSystem>>
    BY <1>2, PhasesAre DEF ScriptInv, RanTypes, U!NoScript, U!HasScript, U!packageVars
  <2>2. phase' \in 1 .. 4 /\ \A p \in 1 .. 3 : p < phase' => p < phase \/ p = phase
    BY <2>1
  <2>3. RanTypes' /\ NotBegun'
    BY <2>1, <2>2 DEF ScriptInv, RanTypes, NotBegun
  <2>4. OfPastPhases'
    <3> SUFFICES ASSUME NEW i \in 1 .. Len(ran), IsPhase(ran[i].name)
                 PROVE  \E p \in 1 .. 3 : p < phase' /\ U!Phases[p] = ran[i].name
      BY <2>1 DEF OfPastPhases, U!Phases
    <3>1. PICK p \in 1 .. 3 : p < phase /\ U!Phases[p] = ran[i].name
      BY DEF ScriptInv, OfPastPhases
    <3>2. p < phase'
      BY <3>1, <2>1
    <3>3. QED
      BY <3>1, <3>2
  <2>5. InOrder' /\ AllOfPastPhases'
    BY <2>1, <2>2 DEF ScriptInv, InOrder, AllOfPastPhases, Precedes, U!Phases
  <2>6. FailureEnds'
    BY <2>1 DEF ScriptInv, FailureEnds, Unrepaired, U!Bad, U!Repaired, U!Note
  <2>7. EndReached'
    BY <2>1 DEF ScriptInv, EndReached
  <2>8. QED
    BY <2>1, <2>3, <2>4, <2>5, <2>6, <2>7 DEF ScriptInv
<1> USE DEF U!packageVars, U!fileVars, U!installVars
<1>3. CASE U!Prepare \/ U!Download
  BY <1>3, ScriptEarly DEF U!Prepare, U!Download
<1>4. CASE U!WaitForFile \/ U!OpenArchive \/ U!Unpack \/ U!Unpacked
  BY <1>4, ScriptEarly DEF U!WaitForFile, U!OpenArchive, U!Unpack, U!Unpacked
<1>5. CASE U!CopyProgram \/ U!RunFails
  BY <1>5, ScriptEarly DEF U!CopyProgram, U!RunFails
<1>6. CASE U!Start \/ U!ParseJson
  <2>1. CASE U!Start
    BY <2>1, ScriptEarly DEF U!Start
  <2>2. CASE U!ParseJson
    BY <2>2, ScriptEarly DEF U!ParseJson
  <2>3. QED
    BY <1>6, <2>1, <2>2
<1> USE DEF ScriptInv, NotBegun, EndReached, RanTypes
<1>7. CASE U!PhasesDone
  BY <1>7, ScriptKept, PhasesAre DEF U!PhasesDone
<1>8. CASE U!Finish \/ U!Report
  BY <1>8, ScriptKept DEF U!Finish, U!Report
<1>9. CASE U!Transfer \/ UNCHANGED U!vars
  <2>1. UNCHANGED <<ran, phase, scripts, rebooting, updateSystem, updatePc, updateResult>>
    BY <1>9 DEF U!Transfer, U!vars
  <2>2. QED
    BY <2>1, ScriptKept
<1>10. QED
  BY <1>1, <1>2, <1>3, <1>4, <1>5, <1>6, <1>7, <1>8, <1>9
  DEF U!Next, U!Steps, U!DeviceManager, U!IotUpdate

\* The steps that leave update.json alone.
LEMMA JsonKept ==
  ASSUME JsonInv, UNCHANGED <<json, directory>>, ran' # <<>> => ran # <<>> \/ updatePc = "phase",
         updatePc' = "phase" => updatePc = "phase" \/ json # "none"
  PROVE  JsonInv'
BY DEF JsonInv

LEMMA JsonInit == U!Init => JsonInv
BY DEF U!Init, JsonInv

LEMMA JsonStep == ScriptInv /\ JsonInv /\ [U!Next]_(U!vars) => JsonInv'
<1> SUFFICES ASSUME ScriptInv, JsonInv, [U!Next]_(U!vars) PROVE JsonInv'
  OBVIOUS
<1>1. updatePc \in {"idle", "unpack"} => ran = <<>>
  BY DEF ScriptInv, NotBegun, Ends
<1>2. CASE U!Prepare
  <2>1. ran' = <<>> /\ updatePc' \in {"download", "report"}
    BY <1>1, <1>2 DEF U!Prepare, U!installVars
  <2>2. \/ json' = "none"
        \/ directory' = "stale" /\ json' \in {json, "none"}
    BY <1>2 DEF U!Prepare
  <2>3. QED
    BY <2>1, <2>2 DEF JsonInv
<1>3. CASE U!Unpack
  <2>1. ran' = <<>> /\ updatePc' \in {"unpack", "report"} /\ json' \in {json, "fresh"}
        /\ directory' = directory
    BY <1>1, <1>3 DEF U!Unpack, U!installVars
  <2>2. QED
    BY <2>1 DEF JsonInv
<1> USE DEF U!fileVars, U!installVars
<1>4. CASE U!Download \/ U!WaitForFile \/ U!OpenArchive \/ U!Unpacked
  BY <1>4, JsonKept DEF U!Download, U!WaitForFile, U!OpenArchive, U!Unpacked
<1>5. CASE U!CopyProgram \/ U!RunFails \/ U!Start \/ U!ParseJson
  BY <1>5, JsonKept DEF U!CopyProgram, U!RunFails, U!Start, U!ParseJson
<1>6. CASE U!NoScript \/ U!PhasesDone \/ U!Finish \/ U!Report
  BY <1>6, JsonKept DEF U!NoScript, U!PhasesDone, U!Finish, U!Report
<1>7. CASE U!RunScript
  <2>1. updatePc = "phase" /\ UNCHANGED <<json, directory>>
    BY <1>7 DEF U!RunScript
  <2>2. QED
    BY <2>1, JsonKept
<1>8. CASE U!Transfer \/ UNCHANGED U!vars
  <2>1. UNCHANGED <<json, directory, ran, updatePc>>
    BY <1>8 DEF U!Transfer, U!vars
  <2>2. QED
    BY <2>1, JsonKept
<1>9. QED
  BY <1>2, <1>3, <1>4, <1>5, <1>6, <1>7, <1>8
  DEF U!Next, U!Steps, U!DeviceManager, U!IotUpdate

(* Whatever the package holds and whichever step fails, the scripts of an    *)
(* update run in the order of their phases, none after one that failed       *)
(* unless the script of the error phase could be run, and a success on       *)
(* VxWorks or a reboot comes only when all of them ran; they are those of an *)
(* earlier update only in a directory that could not be deleted (update,     *)
(* update_main.c).                                                           *)
THEOREM ScriptsRunInOrder == U!Spec => []ScriptsInOrder
<1>1. ScriptInv /\ JsonInv => ScriptsInOrder
  BY ScriptsPromised DEF ScriptsInOrder
<1>2. QED
  BY <1>1, ScriptInit, ScriptStep, JsonInit, JsonStep, PTL DEF U!Spec

-----------------------------------------------------------------------------
(***************************************************************************)
(* The device manager: what is enabled, registered, served and run is      *)
(* allowed by the configuration, and where a decommissioning is.           *)
(***************************************************************************)
\* Before the file is read the table holds what the build enables; a program
\* that a signal ended keeps whatever it had.
TableRight ==
  /\ managerPc = "configure" => enabled = Defaults
  /\ managerPc \notin {"configure", "exited"} => \A c \in enabled : D!Allowed(c)

\* Once the actions are deregistered they stay so.
Gone == {"stop", "join", "free", "exited"}
RegisteredRight ==
  /\ \A a \in registered : D!Allowed(D!Id(a))
  /\ managerPc \in Gone => registered = {}

ServedRight == \A a \in work : D!Allowed(D!Id(a)) /\ managerPc \notin {"free", "exited"}

\* Without the library nothing is registered and nothing served.
LibRight ==
  /\ ~ iot_lib => registered = {} /\ work = {}
  /\ managerPc = "register" => iot_lib
  /\ managerPc \in {"configure", "initialize"} => ~ iot_lib

ControlsRight ==
  /\ "reboot" \in controls => D!Allowed("reboot_device")
  /\ "shutdown" \in controls => D!Allowed("shutdown_device")

CauseRight ==
  /\ cause = "reboot" => D!Allowed("reboot_device")
  /\ cause = "shutdown" => D!Allowed("shutdown_device")
  /\ cause = "decommission" => D!Allowed("decommission_device") /\ "id" \notin files
  /\ quitter = "quit_app" => D!Allowed("quit_app")

\* The identifier is the last of the files, and a file that is left is not a
\* success unless it is the first.
Decommissioning ==
  /\ steps \in 0 .. 4
  /\ steps > 0 => D!Allowed("decommission_device")
  /\ steps = 4 /\ verdict = "success" => "id" \notin files

ManagerInv ==
  TableRight /\ RegisteredRight /\ ServedRight /\ ControlsRight /\ CauseRight /\ Decommissioning

LEMMA FilesAre == Len(D!DeviceFiles) = 3 /\ D!DeviceFiles[3] = "id"
BY DEF D!DeviceFiles

\* Most identifiers are the names of the actions.
LEMMA IdIs ==
  \A a : a \notin {"file_download", "file_upload"} => D!Id(a) = a
BY DEF D!Id

LEMMA ManagerPromised == ManagerInv => D!CommandsObeyed
BY DEF ManagerInv, CauseRight, ServedRight, Decommissioning, D!CommandsObeyed

LEMMA ManagerInit == D!Init => ManagerInv
<1> SUFFICES ASSUME D!Init PROVE ManagerInv
  OBVIOUS
<1> USE DEF D!Init
<1>1. TableRight /\ RegisteredRight /\ ServedRight
  BY DEF TableRight, RegisteredRight, ServedRight
<1>2. ControlsRight /\ CauseRight
  BY DEF ControlsRight, CauseRight
<1>3. Decommissioning
  <2>1. steps = 0
    OBVIOUS
  <2> HIDE DEF D!Init
  <2>2. QED
    BY <2>1 DEF Decommissioning
<1>4. QED
  BY <1>1, <1>2, <1>3 DEF ManagerInv

\* What is allowed stays so: the file is read once.
LEMMA AllowedStays ==
  ASSUME UNCHANGED <<file, says>>
  PROVE  \A c : D!Allowed(c)' <=> D!Allowed(c)
BY DEF D!Allowed

\* Steps of the main thread that neither register nor end.
LEMMA ConfigReadKeeps == ManagerInv /\ D!ConfigRead => ManagerInv'
<1> SUFFICES ASSUME ManagerInv, D!ConfigRead PROVE ManagerInv'
  OBVIOUS
<1>1. /\ UNCHANGED <<file, says, registered, work, controls, cause, quitter, files, steps, verdict>>
      /\ managerPc = "configure" /\ managerPc' = "initialize"
      /\ enabled' = IF file = "good" THEN {c \in D!Ids : D!Entry(c, c \in Defaults)} ELSE enabled
  BY DEF D!ConfigRead, D!quitVars, D!controlVars
<1>2. \A c : D!Allowed(c)' <=> D!Allowed(c)
  BY <1>1, AllowedStays
<1>3. TableRight'
  <2>1. enabled = Defaults
    BY <1>1 DEF ManagerInv, TableRight
  <2>2. \A c \in enabled' : D!Allowed(c)
    <3>1. CASE file = "good"
      BY <3>1, <1>1 DEF D!Allowed, D!Entry
    <3>2. CASE file # "good"
      BY <3>2, <1>1, <2>1 DEF D!Allowed
    <3>3. QED
      BY <3>1, <3>2
  <2>3. QED
    BY <2>2, <1>1, <1>2 DEF TableRight
<1>4. RegisteredRight' /\ ServedRight'
  BY <1>1, <1>2 DEF ManagerInv, RegisteredRight, ServedRight, Gone
<1>5. QED
  BY <1>1, <1>2, <1>3, <1>4 DEF ManagerInv, ControlsRight, CauseRight, Decommissioning

\* A step that changes none of what the parts of the invariant speak of, but
\* for the place of the main thread.
LEMMA PlaceOnly ==
  ASSUME ManagerInv, UNCHANGED <<file, says, enabled, registered, work>>,
         \/ managerPc' = managerPc
         \/ /\ managerPc \notin {"configure"} \cup Gone
            /\ managerPc' \notin {"configure"} \cup Gone
  PROVE  TableRight' /\ RegisteredRight' /\ ServedRight'
<1>1. \A c : D!Allowed(c)' <=> D!Allowed(c)
  BY AllowedStays
<1>2. QED
  BY <1>1 DEF ManagerInv, TableRight, RegisteredRight, ServedRight, Gone

LEMMA CommandsUntouched ==
  ASSUME ManagerInv, UNCHANGED <<file, says, D!controlVars, quitter>>
  PROVE  ControlsRight' /\ CauseRight' /\ Decommissioning'
<1>1. \A c : D!Allowed(c)' <=> D!Allowed(c)
  BY AllowedStays
<1>2. QED
  BY <1>1 DEF ManagerInv, ControlsRight, CauseRight, Decommissioning, D!controlVars

LEMMA RegisterKeeps == ManagerInv /\ D!Register => ManagerInv'
<1> SUFFICES ASSUME ManagerInv, D!Register PROVE ManagerInv'
  OBVIOUS
<1>1. /\ UNCHANGED <<file, says, enabled, managerPc, work, D!controlVars, quitter>>
      /\ managerPc = "register"
      /\ \/ registered' = registered
         \/ D!Id(D!Actions[next]) \in enabled /\ registered' = registered \cup {D!Actions[next]}
  BY DEF D!Register, D!configVars, D!quitVars
<1>2. \A c : D!Allowed(c)' <=> D!Allowed(c)
  BY <1>1, AllowedStays
<1>3. \A c \in enabled : D!Allowed(c)
  BY <1>1 DEF ManagerInv, TableRight
<1>4. RegisteredRight'
  <2>1. \A a \in registered' : a \in registered \/ D!Id(a) \in enabled
    BY <1>1
  <2>2. \A a \in registered' : D!Allowed(D!Id(a))
    BY <2>1, <1>3 DEF ManagerInv, RegisteredRight
  <2>3. \A a \in registered' : D!Allowed(D!Id(a))'
    BY <2>2, <1>1 DEF D!Allowed, D!Id
  <2>4. QED
    BY <2>3, <1>1 DEF RegisteredRight, Gone
<1>5. TableRight' /\ ServedRight'
  BY <1>1, <1>2 DEF ManagerInv, TableRight, ServedRight
<1>6. QED
  BY <1>1, <1>4, <1>5, CommandsUntouched DEF ManagerInv

\* The program ends, by itself or by a signal: nothing is served any more.
LEMMA EndKeeps ==
  ASSUME ManagerInv, UNCHANGED <<file, says, enabled, D!controlVars, quitter>>,
         managerPc' = "exited", registered' = {}, work' = {}
  PROVE  ManagerInv'
<1>1. TableRight' /\ RegisteredRight' /\ ServedRight'
  BY DEF TableRight, RegisteredRight, ServedRight
<1>2. QED
  BY <1>1, CommandsUntouched DEF ManagerInv

\* A step of device_manager_terminate: the actions stay deregistered, and the
\* threads are waited for.
LEMMA StopKeeps ==
  ASSUME ManagerInv, UNCHANGED <<file, says, enabled, D!controlVars, quitter, work>>,
         managerPc \notin {"configure", "exited"}, managerPc' \in Gone, registered' = {},
         managerPc' \in {"free", "exited"} => work = {}
  PROVE  ManagerInv'
<1>1. \A c : D!Allowed(c)' <=> D!Allowed(c)
  BY AllowedStays
<1>2. TableRight' /\ RegisteredRight' /\ ServedRight'
  BY <1>1 DEF ManagerInv, TableRight, RegisteredRight, ServedRight, Gone
<1>3. QED
  BY <1>2, CommandsUntouched DEF ManagerInv

LEMMA SignalKeeps == ManagerInv /\ D!Signal => ManagerInv'
<1> SUFFICES ASSUME ManagerInv, D!Signal PROVE ManagerInv'
  OBVIOUS
<1>1. UNCHANGED <<file, says, enabled, D!controlVars>>
  BY DEF D!Signal, D!configVars
<1>2. CASE managerPc' = "exited" /\ registered' = {} /\ work' = {} /\ UNCHANGED D!quitVars
  BY <1>1, <1>2, EndKeeps DEF D!quitVars
<1>3. CASE quitter' = "signal" /\ UNCHANGED <<managerPc, registered, work>>
  <2>1. TableRight' /\ RegisteredRight' /\ ServedRight'
    BY <1>1, <1>3, PlaceOnly
  <2>2. \A c : D!Allowed(c)' <=> D!Allowed(c)
    BY <1>1, AllowedStays
  <2>3. ControlsRight' /\ CauseRight' /\ Decommissioning'
    BY <1>1, <1>3, <2>2 DEF ManagerInv, ControlsRight, CauseRight, Decommissioning, D!controlVars
  <2>4. QED
    BY <2>1, <2>3 DEF ManagerInv
<1>4. QED
  BY <1>2, <1>3 DEF D!Signal

LEMMA TakeKeeps == ASSUME NEW a PROVE ManagerInv /\ D!Take(a) => ManagerInv'
<1> SUFFICES ASSUME ManagerInv, D!Take(a) PROVE ManagerInv'
  OBVIOUS
<1>1. /\ UNCHANGED <<file, says, enabled, managerPc, registered, D!controlVars, quitter>>
      /\ a \in registered /\ work' = work \cup {a}
  BY DEF D!Take, D!configVars, D!mainVars, D!quitVars
<1>2. \A c : D!Allowed(c)' <=> D!Allowed(c)
  BY <1>1, AllowedStays
<1>3. D!Allowed(D!Id(a)) /\ managerPc \notin {"free", "exited"}
  BY <1>1 DEF ManagerInv, RegisteredRight, Gone
<1>4. ServedRight'
  <2>1. \A b \in work' : D!Allowed(D!Id(b)) /\ managerPc \notin {"free", "exited"}
    BY <1>1, <1>3 DEF ManagerInv, ServedRight
  <2>2. \A b \in work' : D!Allowed(D!Id(b))'
    BY <2>1, <1>1 DEF D!Allowed, D!Id
  <2>3. QED
    BY <2>1, <2>2, <1>1 DEF ServedRight
<1>5. TableRight' /\ RegisteredRight'
  BY <1>1, <1>2 DEF ManagerInv, TableRight, RegisteredRight
<1>6. QED
  BY <1>1, <1>4, <1>5, CommandsUntouched DEF ManagerInv

\* What is served shrinks; what the callback changes besides is looked at
\* elsewhere.
LEMMA LessServed ==
  ASSUME ManagerInv, UNCHANGED <<file, says, enabled, managerPc, registered>>,
         work' \subseteq work
  PROVE  TableRight' /\ RegisteredRight' /\ ServedRight'
<1>1. \A c : D!Allowed(c)' <=> D!Allowed(c)
  BY AllowedStays
<1>2. QED
  BY <1>1 DEF ManagerInv, TableRight, RegisteredRight, ServedRight

LEMMA CallbackKeeps ==
  ASSUME NEW a
  PROVE  ManagerInv /\ (D!FileAction(a) \/ D!Answer(a) \/ D!RemoteLogin) => ManagerInv'
<1> SUFFICES ASSUME ManagerInv, D!FileAction(a) \/ D!Answer(a) \/ D!RemoteLogin
             PROVE  ManagerInv'
  OBVIOUS
<1>1. /\ UNCHANGED <<file, says, enabled, managerPc, registered, D!controlVars, quitter>>
      /\ work' \subseteq work
  BY DEF D!FileAction, D!Answer, D!RemoteLogin, D!Served, D!configVars, D!mainVars, D!quitVars
<1>2. QED
  BY <1>1, LessServed, CommandsUntouched DEF ManagerInv

LEMMA AgentQuitKeeps == ManagerInv /\ D!AgentQuit => ManagerInv'
<1> SUFFICES ASSUME ManagerInv, D!AgentQuit PROVE ManagerInv'
  OBVIOUS
<1>1. /\ UNCHANGED <<file, says, enabled, managerPc, registered, D!controlVars>>
      /\ work' \subseteq work /\ "quit_app" \in work
  BY DEF D!AgentQuit, D!Served, D!configVars, D!mainVars
<1>2. \A c : D!Allowed(c)' <=> D!Allowed(c)
  BY <1>1, AllowedStays
<1>3. D!Allowed("quit_app")
  <2>1. D!Id("quit_app") = "quit_app"
    BY IdIs
  <2>2. QED
    BY <2>1, <1>1 DEF ManagerInv, ServedRight
<1>4. ControlsRight' /\ CauseRight' /\ Decommissioning'
  BY <1>1, <1>2, <1>3 DEF ManagerInv, ControlsRight, CauseRight, Decommissioning, D!controlVars
<1>5. QED
  BY <1>1, <1>4, LessServed DEF ManagerInv

LEMMA RunControlKeeps == ASSUME NEW a PROVE ManagerInv /\ D!RunControl(a) => ManagerInv'
<1> SUFFICES ASSUME ManagerInv, D!RunControl(a) PROVE ManagerInv'
  OBVIOUS
<1>1. /\ UNCHANGED <<file, says, enabled, managerPc, registered, quitter, files, steps, verdict, cause>>
      /\ work' \subseteq work /\ a \in work
      /\ a \in {"reboot_device", "shutdown_device", "reset_agent"}
      /\ controls' \in {controls, controls \cup {D!Option(a)}}
  BY DEF D!RunControl, D!Served, D!configVars, D!mainVars, D!quitVars
<1>2. \A c : D!Allowed(c)' <=> D!Allowed(c)
  BY <1>1, AllowedStays
<1>3. D!Allowed(a)
  <2>1. D!Id(a) = a
    BY <1>1, IdIs
  <2>2. QED
    BY <2>1, <1>1 DEF ManagerInv, ServedRight
<1>4. /\ a = "reboot_device" => D!Option(a) = "reboot"
      /\ a = "shutdown_device" => D!Option(a) = "shutdown"
      /\ a = "reset_agent" => D!Option(a) = "restart"
  BY DEF D!Option
<1>5. ControlsRight'
  <2>1. CASE controls' = controls
    BY <2>1, <1>2 DEF ManagerInv, ControlsRight
  <2>2. CASE controls' = controls \cup {D!Option(a)}
    BY <2>2, <1>1, <1>2, <1>3, <1>4 DEF ManagerInv, ControlsRight
  <2>3. QED
    BY <2>1, <2>2, <1>1
<1>6. CauseRight' /\ Decommissioning'
  BY <1>1, <1>2 DEF ManagerInv, CauseRight, Decommissioning
<1>7. QED
  BY <1>1, <1>5, <1>6, LessServed DEF ManagerInv

LEMMA RunControlAndWaitKeeps ==
  ASSUME NEW a PROVE ManagerInv /\ D!RunControlAndWait(a) => ManagerInv'
<1> SUFFICES ASSUME ManagerInv, D!RunControlAndWait(a) PROVE ManagerInv'
  OBVIOUS
<1>1. /\ UNCHANGED <<file, says, enabled, managerPc, registered, quitter, files, cause>>
      /\ work' \subseteq work /\ a \in work
      /\ a \in {"decommission_device", "dump_log_files"}
  BY DEF D!RunControlAndWait, D!Served, D!configVars, D!mainVars, D!quitVars
<1>2. \A c : D!Allowed(c)' <=> D!Allowed(c)
  BY <1>1, AllowedStays
<1>3. D!Allowed(a)
  <2>1. D!Id(a) = a
    BY <1>1, IdIs
  <2>2. QED
    BY <2>1, <1>1 DEF ManagerInv, ServedRight
<1>4. /\ controls' = controls \/ controls' = controls \cup {a}
      /\ \/ UNCHANGED <<steps, verdict>>
         \/ a = "decommission_device" /\ steps' = 1
  BY DEF D!RunControlAndWait
<1>5. ControlsRight'
  BY <1>1, <1>2, <1>4 DEF ManagerInv, ControlsRight
<1>6. CauseRight'
  BY <1>1, <1>2 DEF ManagerInv, CauseRight
<1>7. Decommissioning'
  <2>1. CASE UNCHANGED <<steps, verdict>>
    BY <2>1, <1>1, <1>2 DEF ManagerInv, Decommissioning
  <2>2. CASE a = "decommission_device" /\ steps' = 1
    BY <2>2, <1>1, <1>2, <1>3 DEF Decommissioning
  <2>3. QED
    BY <2>1, <2>2, <1>4
<1>8. QED
  BY <1>1, <1>5, <1>6, <1>7, LessServed DEF ManagerInv

-----------------------------------------------------------------------------
(***************************************************************************)
(* The steps of iot-control.                                               *)
(***************************************************************************)
LEMMA ControlKeeps ==
  ASSUME NEW o
  PROVE  ManagerInv /\ (D!ControlShutdown(o) \/ D!ControlUsage(o)) => ManagerInv'
<1> SUFFICES ASSUME ManagerInv, D!ControlShutdown(o) \/ D!ControlUsage(o) PROVE ManagerInv'
  OBVIOUS
<1>1. /\ UNCHANGED <<file, says, enabled, managerPc, registered, quitter, files, steps, verdict>>
      /\ work' \subseteq work /\ controls' \subseteq controls
  BY DEF D!ControlShutdown, D!ControlUsage, D!configVars, D!mainVars, D!quitVars
<1>2. \A c : D!Allowed(c)' <=> D!Allowed(c)
  BY <1>1, AllowedStays
<1>3. cause' = cause \/ (cause' = o /\ o \in controls \cap {"reboot", "shutdown"})
  BY DEF D!ControlShutdown, D!ControlUsage, D!Shutdown
<1>4. ControlsRight' /\ Decommissioning'
  BY <1>1, <1>2 DEF ManagerInv, ControlsRight, Decommissioning
<1>5. CauseRight'
  <2>1. CASE cause' = cause
    BY <2>1, <1>1, <1>2 DEF ManagerInv, CauseRight
  <2>2. CASE cause' = o /\ o \in controls \cap {"reboot", "shutdown"}
    BY <2>2, <1>1, <1>2 DEF ManagerInv, CauseRight, ControlsRight
  <2>3. QED
    BY <2>1, <2>2, <1>3
<1>6. QED
  BY <1>1, <1>4, <1>5, LessServed DEF ManagerInv

\* The last of the files is the identifier: deleted, it is gone; left, it is
\* no success.
LEMMA DeleteStepKeeps == ManagerInv /\ D!DeleteStep => ManagerInv'
<1> SUFFICES ASSUME ManagerInv, D!DeleteStep PROVE ManagerInv'
  OBVIOUS
<1>1. /\ UNCHANGED <<file, says, enabled, managerPc, registered, work, quitter, controls, cause>>
      /\ files' \subseteq files /\ steps \in 1 .. 3 /\ steps' = steps + 1
  BY FilesAre DEF D!DeleteStep, D!configVars, D!mainVars, D!quitVars
<1>2. \A c : D!Allowed(c)' <=> D!Allowed(c)
  BY <1>1, AllowedStays
<1>3. steps = 3 /\ verdict' = "success" => "id" \notin files'
  <2> SUFFICES ASSUME steps = 3, verdict' = "success" PROVE "id" \notin files'
    OBVIOUS
  <2>1. D!DeviceFiles[steps] = "id" /\ D!FailedStep = "no permission"
    BY FilesAre DEF D!FailedStep
  <2>2. QED
    BY <2>1 DEF D!DeleteStep
<1>4. Decommissioning'
  <2>1. steps' \in 0 .. 4 /\ (steps' = 4 => steps = 3) /\ steps > 0
    BY <1>1
  <2>2. D!Allowed("decommission_device")'
    BY <2>1, <1>2 DEF ManagerInv, Decommissioning
  <2>3. QED
    BY <2>1, <2>2, <1>3 DEF Decommissioning
<1>5. ControlsRight' /\ CauseRight'
  BY <1>1, <1>2 DEF ManagerInv, ControlsRight, CauseRight
<1>6. QED
  BY <1>1, <1>4, <1>5, PlaceOnly DEF ManagerInv

LEMMA DecommissionKeeps == ManagerInv /\ D!Decommission => ManagerInv'
<1> SUFFICES ASSUME ManagerInv, D!Decommission PROVE ManagerInv'
  OBVIOUS
<1>1. /\ UNCHANGED <<file, says, enabled, managerPc, registered, quitter, files>>
      /\ work' \subseteq work /\ controls' \subseteq controls /\ steps' = 0 /\ steps > 3
  BY FilesAre DEF D!Decommission, D!configVars, D!mainVars, D!quitVars
<1>2. \A c : D!Allowed(c)' <=> D!Allowed(c)
  BY <1>1, AllowedStays
<1>3. cause' = cause \/ (cause' = "decommission" /\ verdict = "success")
  BY DEF D!Decommission, D!Shutdown
<1>4. steps = 4 /\ D!Allowed("decommission_device")
  <2>1. steps \in 0 .. 4 /\ steps > 0
    BY <1>1 DEF ManagerInv, Decommissioning
  <2>2. QED
    BY <2>1, <1>1 DEF ManagerInv, Decommissioning
<1>5. CauseRight'
  <2>1. CASE cause' = cause
    BY <2>1, <1>1, <1>2 DEF ManagerInv, CauseRight
  <2>2. CASE cause' = "decommission" /\ verdict = "success"
    BY <2>2, <1>1, <1>2, <1>4 DEF ManagerInv, CauseRight, Decommissioning
  <2>3. QED
    BY <2>1, <2>2, <1>3
<1>6. ControlsRight' /\ Decommissioning'
  BY <1>1, <1>2 DEF ManagerInv, ControlsRight, Decommissioning
<1>7. QED
  BY <1>1, <1>5, <1>6, LessServed DEF ManagerInv

\* The library is there as long as anything is registered or served.
LEMMA LibInit == D!Init => LibRight
BY DEF D!Init, LibRight

LEMMA LibKept ==
  ASSUME LibRight, UNCHANGED iot_lib, registered' \subseteq registered, work' \subseteq work,
         managerPc' \in {"configure", "initialize", "register"} => managerPc' = managerPc
  PROVE  LibRight'
BY DEF LibRight

LEMMA LibStep == LibRight /\ [D!Next]_(D!vars) => LibRight'
<1> SUFFICES ASSUME LibRight, [D!Next]_(D!vars) PROVE LibRight'
  OBVIOUS
<1> USE DEF D!configVars, D!mainVars, D!quitVars
<1>1. CASE D!ConfigRead
  BY <1>1 DEF D!ConfigRead, LibRight
<1>2. CASE D!Initialize
  BY <1>2 DEF D!Initialize, LibRight
<1>3. CASE D!Register
  <2>1. iot_lib' = iot_lib /\ managerPc = "register" /\ managerPc' = "register"
    BY <1>3 DEF D!Register
  <2>2. QED
    BY <2>1 DEF LibRight
<1>4. CASE \E a \in Requests : D!Take(a)
  <2>1. /\ UNCHANGED <<iot_lib, managerPc, registered>> /\ registered # {}
    BY <1>4 DEF D!Take
  <2>2. QED
    BY <2>1 DEF LibRight
<1>5. CASE D!Publish \/ D!Poll \/ D!Deregister
  BY <1>5, LibKept DEF D!Publish, D!Poll, D!Deregister
<1>6. CASE D!LoopStop \/ D!Join \/ D!Terminate
  BY <1>6, LibKept DEF D!LoopStop, D!Join, D!Terminate
<1>7. CASE D!Signal
  BY <1>7, LibKept DEF D!Signal
<1>8. CASE D!Callbacks
  <2>1. UNCHANGED <<iot_lib, managerPc, registered>> /\ work' \subseteq work
    BY <1>8 DEF D!Callbacks, D!AgentQuit, D!RemoteLogin, D!FileAction, D!Answer, D!Served,
      D!RunControl, D!RunControlAndWait
  <2>2. QED
    BY <2>1, LibKept
<1>9. CASE D!Control
  <2>1. UNCHANGED <<iot_lib, managerPc, registered>> /\ work' \subseteq work
    BY <1>9 DEF D!Control, D!DeleteStep, D!Decommission, D!ControlShutdown, D!ControlUsage
  <2>2. QED
    BY <2>1, LibKept
<1>10. CASE UNCHANGED D!vars
  <2>1. UNCHANGED <<iot_lib, managerPc, registered, work>>
    BY <1>10 DEF D!vars
  <2>2. QED
    BY <2>1, LibKept
<1>11. QED
  BY <1>1, <1>2, <1>3, <1>4, <1>5, <1>6, <1>7, <1>8, <1>9, <1>10 DEF D!Next, D!Main

LEMMA ManagerStep == ManagerInv /\ LibRight /\ [D!Next]_(D!vars) => ManagerInv'
<1> SUFFICES ASSUME ManagerInv, LibRight, [D!Next]_(D!vars) PROVE ManagerInv'
  OBVIOUS
<1>1. CASE D!Initialize \/ D!Publish \/ D!Poll
  <2>1. /\ UNCHANGED <<file, says, enabled, registered, work, D!controlVars, quitter>>
        /\ managerPc \notin {"configure"} \cup Gone /\ managerPc' \notin {"configure"} \cup Gone
    BY <1>1 DEF D!Initialize, D!Publish, D!Poll, D!configVars, D!quitVars, Gone
  <2>2. QED
    BY <2>1, PlaceOnly, CommandsUntouched DEF ManagerInv
<1>2. CASE D!Deregister \/ D!LoopStop \/ D!Join \/ D!Terminate
  <2>1. CASE D!Deregister
    BY <2>1, StopKeeps DEF D!Deregister, D!configVars, D!quitVars, Gone
  <2>2. CASE D!LoopStop
    <3>1. /\ UNCHANGED <<file, says, enabled, D!controlVars, quitter, work, registered>>
          /\ managerPc = "stop" /\ managerPc' \in {"join", "exited"}
          /\ managerPc' = "exited" => ~ iot_lib
      BY <2>2 DEF D!LoopStop, D!configVars
    <3>2. registered = {}
      BY <3>1 DEF ManagerInv, RegisteredRight, Gone
    <3>3. managerPc' \in {"free", "exited"} => work = {}
      BY <3>1 DEF LibRight
    <3>4. managerPc' \in Gone
      BY <3>1 DEF Gone
    <3>5. QED
      BY <3>1, <3>2, <3>3, <3>4, StopKeeps
  <2>3. CASE D!Join \/ D!Terminate
    <3>1. /\ UNCHANGED <<file, says, enabled, D!controlVars, quitter, work, registered>>
          /\ managerPc \in {"join", "free"} /\ managerPc' \in {"free", "exited"}
          /\ managerPc = "free" \/ work = {}
      BY <2>3 DEF D!Join, D!Terminate, D!configVars, D!quitVars
    <3>2. registered = {} /\ managerPc' \in Gone
      BY <3>1 DEF ManagerInv, RegisteredRight, Gone
    <3>3. work = {}
      BY <3>1 DEF ManagerInv, ServedRight
    <3>4. QED
      BY <3>1, <3>2, <3>3, StopKeeps
  <2>4. QED
    BY <1>2, <2>1, <2>2, <2>3
<1>3. CASE UNCHANGED D!vars
  <2>1. UNCHANGED <<file, says, enabled, registered, work, managerPc, D!controlVars, quitter>>
    BY <1>3 DEF D!vars, D!configVars, D!mainVars, D!quitVars
  <2>2. QED
    BY <2>1, PlaceOnly, CommandsUntouched DEF ManagerInv
<1>4. QED
  BY <1>1, <1>2, <1>3, ConfigReadKeeps, RegisterKeeps, SignalKeeps, TakeKeeps, CallbackKeeps,
     AgentQuitKeeps, RunControlKeeps, RunControlAndWaitKeeps, ControlKeeps, DeleteStepKeeps,
     DecommissionKeeps
  DEF D!Next, D!Main, D!Callbacks, D!Control

(* Whatever the configuration file says and whatever the cloud asks for, the *)
(* device reboots, shuts down, is decommissioned or stops its agent only     *)
(* when that is allowed, a decommissioned one has lost its identifier, and   *)
(* nothing is served after the end (device_manager_main.c, control_main.c).  *)
THEOREM CommandsAreObeyed == D!Spec => []CommandsObeyed
<1>1. ManagerInv => CommandsObeyed
  BY ManagerPromised DEF CommandsObeyed
<1>2. QED
  BY <1>1, ManagerInit, ManagerStep, LibInit, LibStep, PTL DEF D!Spec
-----------------------------------------------------------------------------
(***************************************************************************)
(* The dialogue of iot-control: how the items of the schema are inside one *)
(* another, what has been asked, and what has been set and is still        *)
(* written.                                                                *)
(***************************************************************************)
LEMMA LeastNumber ==
  ASSUME NEW T \in SUBSET Nat, T # {}
  PROVE  \E n \in T : \A m \in T : n <= m
<1> DEFINE Below(n) == 0 .. n
           Starts == {Below(n) : n \in T}
<1>1. IsWellFoundedOn(StrictSubsetOrdering(Nat), FiniteSubsetsOf(Nat))
  BY FS_StrictSubsetOrderingWellFounded
<1>2. \A n \in Nat : IsFiniteSet(0 .. n)
  BY FS_Interval
<1>3. Starts \subseteq FiniteSubsetsOf(Nat) /\ Starts # {}
  <2>1. \A n \in T : 0 .. n \in SUBSET Nat /\ IsFiniteSet(0 .. n)
    BY <1>2
  <2>2. \A n \in T : 0 .. n \in FiniteSubsetsOf(Nat)
    BY <2>1 DEF FiniteSubsetsOf
  <2>3. QED
    BY <2>2
<1>4. \E x \in Starts : \A y \in Starts : ~ (<<y, x>> \in StrictSubsetOrdering(Nat))
  <2> HIDE DEF Starts
  <2> QED BY <1>1, <1>3, WFMin
<1>5. PICK n \in T : \A m \in T : ~ (<<0 .. m, 0 .. n>> \in StrictSubsetOrdering(Nat))
  BY <1>4
<1>6. ASSUME NEW m \in T, m < n PROVE FALSE
  <2>1. 0 .. m \subseteq 0 .. n /\ n \in 0 .. n /\ n \notin 0 .. m
    BY <1>6
  <2>2. 0 .. m \in SUBSET Nat /\ 0 .. n \in SUBSET Nat
    OBVIOUS
  <2>3. QED
    BY <2>1, <2>2, <1>5 DEF StrictSubsetOrdering
<1>7. QED
  BY <1>6

\* The document in terms of numbers: which item is above which.
Path(i) == Document[i].path
Ahead(s, t) == Len(s) <= Len(t) /\ \A n \in 1 .. Len(s) : s[n] = t[n]

\* What the assumption on the schema says, in terms of numbers and of paths.
LEMMA SchemaFacts ==
  /\ Len(Document) \in Nat /\ C!Items = 1 .. Len(Document) /\ C!Root = 1 /\ C!Root \in C!Items
  /\ C!NoItem = 0
  /\ \A i \in C!Items : /\ Document[i] \in SchemaItems /\ Path(i) \in Seq(STRING)
                        /\ Document[i].type \in {"object", "integer", "string", "boolean"}
  /\ Path(C!Root) = <<>> /\ C!IsObject(C!Root)
  /\ \A i, j \in C!Items : Path(i) = Path(j) => i = j
  /\ \A i, p \in C!Items : Inside(i, p) => p <= i /\ \A k \in p .. i : Inside(k, p)
<1>1. Document \in Seq(SchemaItems) /\ Len(Document) > 0
  BY SchemaAssumption
<1>2. Len(Document) \in Nat /\ \A i \in 1 .. Len(Document) : Document[i] \in SchemaItems
  BY <1>1
<1>3. C!Items = 1 .. Len(Document) /\ C!Root = 1 /\ C!NoItem = 0
  BY DEF C!Items, C!Root, C!NoItem
<1>4. \A i \in C!Items : /\ Document[i] \in SchemaItems /\ Path(i) \in Seq(STRING)
                         /\ Document[i].type \in {"object", "integer", "string", "boolean"}
  BY <1>2, <1>3 DEF SchemaItems, Path
<1>5. QED
  BY <1>1, <1>2, <1>3, <1>4, SchemaAssumption DEF Path

\* The library compares the beginnings as sequences; name by name it is the same.
LEMMA PrefixIs ==
  ASSUME NEW s \in Seq(STRING), NEW t \in Seq(STRING)
  PROVE  C!IsPrefix(s, t) <=> Ahead(s, t)
<1>1. ASSUME Len(s) <= Len(t)
      PROVE  SubSeq(s, 1, Len(s)) = SubSeq(t, 1, Len(s)) <=> \A n \in 1 .. Len(s) : s[n] = t[n]
  <2>1. Len(s) \in Nat /\ Len(t) \in Nat
    OBVIOUS
  <2>2. SubSeq(s, 1, Len(s)) = [n \in 1 .. Len(s) |-> s[n]]
    BY <2>1
  <2>3. SubSeq(t, 1, Len(s)) = [n \in 1 .. Len(s) |-> t[n]]
    BY <2>1, <1>1
  <2>4. QED
    BY <2>2, <2>3
<1>2. QED
  BY <1>1 DEF C!IsPrefix, Ahead

\* Inside is a comparison of paths.
LEMMA InsideIs == \A i, p \in C!Items : Inside(i, p) <=> Ahead(Path(p), Path(i))
  BY SchemaFacts, PrefixIs DEF Inside, Path

\* Inside is an order, and what an item is inside of is a chain that ends at the root.
LEMMA InsideOrder ==
  ASSUME NEW i \in C!Items, NEW p \in C!Items, NEW q \in C!Items
  PROVE  /\ Inside(i, i) /\ Inside(i, C!Root)
         /\ Inside(i, p) /\ Inside(p, q) => Inside(i, q)
         /\ Inside(i, p) /\ Inside(i, q) => Inside(p, q) \/ Inside(q, p)
<1>1. \A k \in C!Items : Path(k) \in Seq(STRING) /\ Len(Path(k)) \in Nat
  BY SchemaFacts
<1>2. Len(Path(C!Root)) = 0
  BY SchemaFacts
<1>3. Inside(i, i) /\ Inside(i, C!Root)
  BY <1>1, <1>2, InsideIs, SchemaFacts DEF Ahead
<1>4. Inside(i, p) /\ Inside(p, q) => Inside(i, q)
  BY <1>1, InsideIs DEF Ahead
<1>5. Inside(i, p) /\ Inside(i, q) => Inside(p, q) \/ Inside(q, p)
  BY <1>1, InsideIs DEF Ahead
<1>6. QED
  BY <1>3, <1>4, <1>5

\* The object that an item is in.
LEMMA ParentIs ==
  ASSUME NEW i \in C!Items
  PROVE  /\ C!Parent(C!Root) = C!NoItem
         /\ i # C!Root => LET p == C!Parent(i)
                          IN  /\ p \in C!Items /\ C!IsObject(p) /\ p < i /\ Inside(i, p)
                              /\ Len(Path(p)) = Len(Path(i)) - 1
<1>1. C!Parent(C!Root) = C!NoItem
  BY SchemaFacts DEF C!Parent, Path
<1>2. ASSUME i # C!Root
      PROVE  LET p == C!Parent(i)
             IN  /\ p \in C!Items /\ C!IsObject(p) /\ p < i /\ Inside(i, p)
                 /\ Len(Path(p)) = Len(Path(i)) - 1
  <2> DEFINE n == Len(Path(i)) - 1
  <2>1. Path(i) \in Seq(STRING) /\ Path(i) # <<>> /\ n \in Nat
    <3>1. Path(i) \in Seq(STRING) /\ Path(i) # Path(C!Root)
      BY <1>2, SchemaFacts
    <3>2. Path(i) # <<>>
      BY <3>1, SchemaFacts
    <3>3. QED
      BY <3>1, <3>2
  <2>2. C!Above(i) = SubSeq(Path(i), 1, n)
    BY DEF C!Above, C!Front, Path
  <2>3. PICK p \in C!Items : C!IsObject(p) /\ Path(p) = SubSeq(Path(i), 1, n)
    <3>1. \A m \in 0 .. Len(Path(i)) - 1 :
            \E p \in C!Items : C!IsObject(p) /\ Path(p) = SubSeq(Path(i), 1, m)
      BY SchemaAssumption, Zenon DEF Path
    <3>2. n \in 0 .. Len(Path(i)) - 1
      BY <2>1
    <3> HIDE DEF n
    <3>3. QED
      BY <3>1, <3>2
  <2>4. C!Parent(i) = CHOOSE q \in C!Items : Path(q) = C!Above(i)
    BY <2>1 DEF C!Parent, Path
  <2>5. C!Parent(i) = p
    BY <2>2, <2>3, <2>4, SchemaFacts
  <2>6. Len(Path(p)) = n /\ \A k \in 1 .. n : Path(p)[k] = Path(i)[k]
    <3>1. ASSUME NEW s \in Seq(STRING), NEW m \in Nat, m = Len(s) - 1
          PROVE  Len(SubSeq(s, 1, m)) = m /\ \A k \in 1 .. m : SubSeq(s, 1, m)[k] = s[k]
      BY <3>1
    <3>2. QED
      BY <3>1, <2>1, <2>3
  <2>7. Inside(i, p)
    BY <2>1, <2>6, InsideIs DEF Ahead
  <2>8. p # i
    BY <2>1, <2>6
  <2>9. p < i
    BY <2>7, <2>8, SchemaFacts
  <2>10. QED
    BY <2>3, <2>5, <2>6, <2>7, <2>9
<1>3. QED
  BY <1>1, <1>2

\* What is inside an item, and is not the item, has its own object inside it.
LEMMA ParentInside ==
  ASSUME NEW i \in C!Items, NEW p \in C!Items, Inside(i, p), i # p
  PROVE  i # C!Root /\ C!Parent(i) \in C!Items /\ Inside(C!Parent(i), p)
<1>1. i # C!Root
  BY SchemaFacts
<1>2. /\ C!Parent(i) \in C!Items /\ Inside(i, C!Parent(i))
      /\ Len(Path(C!Parent(i))) = Len(Path(i)) - 1
  BY <1>1, ParentIs
<1>3. \A k \in C!Items : Path(k) \in Seq(STRING) /\ Len(Path(k)) \in Nat
  BY SchemaFacts
<1>4. Path(i) # Path(p)
  BY SchemaFacts
<1>5. Ahead(Path(p), Path(i)) /\ Ahead(Path(C!Parent(i)), Path(i))
  BY <1>2, InsideIs
<1>6. Len(Path(p)) # Len(Path(i))
  <2> SUFFICES ASSUME Len(Path(p)) = Len(Path(i)) PROVE FALSE
    OBVIOUS
  <2>1. Path(p) = Path(i)
    <3> DEFINE s == Path(p)
               t == Path(i)
    <3>1. s \in Seq(STRING) /\ t \in Seq(STRING) /\ Len(s) = Len(t) /\ \A n \in 1 .. Len(s) : s[n] = t[n]
      BY <1>3, <1>5 DEF Ahead
    <3> HIDE DEF s, t
    <3>2. s = t
      BY <3>1, SeqEqual
    <3>3. QED
      BY <3>2 DEF s, t
  <2>2. QED
    BY <2>1, <1>4
<1>7. Ahead(Path(p), Path(C!Parent(i)))
  BY <1>2, <1>3, <1>5, <1>6 DEF Ahead
<1>8. QED
  BY <1>1, <1>2, <1>7, InsideIs

\* The member of an object on the way to what is deep inside it.
LEMMA MemberAbove ==
  ASSUME NEW i \in C!Items, NEW p \in C!Items, Inside(i, p), i # p
  PROVE  \E c \in C!Items : c # C!Root /\ C!Parent(c) = p /\ Inside(i, c)
<1> DEFINE S == {c \in C!Items : Inside(i, c) /\ Inside(c, p) /\ c # p}
<1>1. S \in SUBSET Nat /\ i \in S
  BY InsideOrder, SchemaFacts
<1>2. PICK c \in S : \A m \in S : c <= m
  <2> HIDE DEF S
  <2> QED BY <1>1, LeastNumber
<1>3. c # C!Root /\ C!Parent(c) \in C!Items /\ Inside(C!Parent(c), p)
  BY ParentInside
<1>4. C!Parent(c) < c /\ Inside(c, C!Parent(c))
  BY <1>3, ParentIs
<1>5. Inside(i, C!Parent(c))
  BY <1>3, <1>4, InsideOrder
<1>6. C!Parent(c) \notin S
  BY <1>2, <1>3, <1>4, <1>1, SchemaFacts
<1>7. C!Parent(c) = p
  BY <1>3, <1>5, <1>6
<1>8. QED
  BY <1>3, <1>7

\* app_json_schema_allocate_item: the index after the last child.
LEMMA LastChildIs ==
  ASSUME NEW i \in C!Items
  PROVE  /\ C!LastChild(i) \in i + 1 .. Len(Document) + 1
         /\ \A k \in C!Items : Inside(k, i) <=> k \in i .. C!LastChild(i) - 1
<1> DEFINE len == Len(Document)
           T == {d \in Nat : d <= len /\ len - d \in C!Items /\ Inside(len - d, i)}
           Last(n) == /\ Inside(n, i)
                      /\ \A k \in C!Items : Inside(k, i) => k <= n
<1>1. len \in Nat /\ C!Items = 1 .. len
  BY SchemaFacts
<1>2. len - i \in T
  <2>1. len - i \in Nat /\ len - i <= len /\ len - (len - i) = i
    BY <1>1
  <2>2. QED
    BY <2>1, InsideOrder
<1>3. PICK d \in T : \A m \in T : d <= m
  <2> HIDE DEF T
  <2>1. T \in SUBSET Nat
    BY DEF T
  <2>2. QED
    BY <1>2, <2>1, LeastNumber
<1>4. len - d \in C!Items /\ Last(len - d)
  <2>1. ASSUME NEW k \in C!Items, Inside(k, i) PROVE k <= len - d
    <3>1. len - k \in Nat /\ len - k <= len /\ len - (len - k) = k
      BY <1>1
    <3>2. len - k \in T
      BY <2>1, <3>1
    <3>3. d <= len - k
      BY <1>3, <3>2
    <3>4. QED
      BY <3>1, <3>3, <1>1
  <2>2. QED
    BY <1>3, <2>1
<1> DEFINE n == CHOOSE m \in C!Items : Last(m)
<1>5. n \in C!Items /\ Last(n)
  <2> HIDE DEF Last
  <2> QED BY <1>4
<1>6. C!LastChild(i) = 1 + n
  BY DEF C!LastChild, Inside
<1> HIDE DEF n
<1>7. i <= n /\ \A k \in i .. n : Inside(k, i)
  BY <1>5, SchemaFacts
<1>8. \A k \in C!Items : Inside(k, i) => k \in i .. n
  BY <1>1, <1>5, SchemaFacts
<1>9. QED
  BY <1>1, <1>5, <1>6, <1>7, <1>8

\* What has something else inside it is an object, and has a member.
LEMMA HoldsIs ==
  ASSUME NEW i \in C!Items, NEW p \in C!Items, Inside(i, p), i # p
  PROVE  C!IsObject(p)
<1>1. PICK c \in C!Items : c # C!Root /\ C!Parent(c) = p
  BY MemberAbove
<1>2. QED
  BY <1>1, ParentIs

\* Two items that are inside each other are one.
LEMMA InsideBoth ==
  ASSUME NEW i \in C!Items, NEW j \in C!Items, Inside(i, j), Inside(j, i)
  PROVE  i = j
BY SchemaFacts

\* A value ends with itself.
LEMMA ValueLast ==
  ASSUME NEW i \in C!Items, ~ C!IsObject(i)
  PROVE  C!LastChild(i) = i + 1
<1>1. C!LastChild(i) \in i + 1 .. Len(Document) + 1 /\ C!Items = 1 .. Len(Document)
      /\ Len(Document) \in Nat
  BY LastChildIs, SchemaFacts
<1>2. SUFFICES ASSUME C!LastChild(i) > i + 1 PROVE FALSE
  BY <1>1
<1>3. i + 1 \in C!Items /\ i + 1 \in i .. C!LastChild(i) - 1
  BY <1>1, <1>2
<1>4. Inside(i + 1, i)
  BY <1>3, LastChildIs
<1>5. i + 1 # i
  BY <1>1
<1>6. QED
  BY <1>3, <1>4, <1>5, HoldsIs

\* The root ends with the document.
LEMMA RootLast == C!LastChild(C!Root) = Len(Document) + 1
<1>1. C!Items = 1 .. Len(Document) /\ Len(Document) \in C!Items /\ C!Root = 1 /\ Len(Document) \in Nat
  BY SchemaFacts
<1>2. Inside(Len(Document), C!Root)
  BY <1>1, InsideOrder
<1>3. C!LastChild(C!Root) \in 2 .. Len(Document) + 1 /\ Len(Document) \in 1 .. C!LastChild(C!Root) - 1
  BY <1>1, <1>2, LastChildIs
<1>4. QED
  BY <1>1, <1>3

\* The members of an object, and what is inside them, end where it ends.
LEMMA LastWithin ==
  ASSUME NEW i \in C!Items, NEW p \in C!Items, Inside(i, p)
  PROVE  C!LastChild(i) <= C!LastChild(p)
<1>1. C!LastChild(i) \in i + 1 .. Len(Document) + 1 /\ C!Items = 1 .. Len(Document)
      /\ C!LastChild(p) \in p + 1 .. Len(Document) + 1 /\ Len(Document) \in Nat
  BY LastChildIs, SchemaFacts
<1> DEFINE l == C!LastChild(i) - 1
<1>2. l \in C!Items /\ l \in i .. l
  BY <1>1
<1>3. Inside(l, i)
  BY <1>2, LastChildIs
<1>4. Inside(l, p)
  BY <1>2, <1>3, InsideOrder
<1>5. l \in p .. C!LastChild(p) - 1
  BY <1>2, <1>4, LastChildIs
<1>6. QED
  BY <1>1, <1>5

\* app_json_schema_object_iterator: the first member comes right after the object.
LEMMA FirstMember ==
  ASSUME NEW p \in C!Items, C!IsObject(p)
  PROVE  C!ObjectIterator(p) = p + 1 /\ p + 1 \in C!Items /\ C!Parent(p + 1) = p /\ p + 1 < C!LastChild(p)
<1>1. PICK i \in C!Items : C!Parent(i) = p
  BY SchemaAssumption
<1>2. C!Items = 1 .. Len(Document) /\ Len(Document) \in Nat /\ C!NoItem = 0 /\ C!Root \in C!Items
      /\ C!LastChild(p) \in p + 1 .. Len(Document) + 1
  BY SchemaFacts, LastChildIs
<1>3. i # C!Root
  BY <1>1, <1>2, ParentIs
<1>4. p < i /\ Inside(i, p)
  BY <1>1, <1>3, ParentIs
<1>5. p + 1 \in C!Items /\ p + 1 \in p .. i
  BY <1>2, <1>4
<1>6. Inside(p + 1, p) /\ p + 1 # p
  <2>1. Inside(p + 1, p)
    BY <1>4, <1>5, SchemaFacts
  <2>2. QED
    BY <2>1, <1>2
<1>7. p + 1 # C!Root /\ C!Parent(p + 1) \in C!Items /\ Inside(C!Parent(p + 1), p)
  BY <1>5, <1>6, ParentInside
<1>8. C!Parent(p + 1) < p + 1
  BY <1>5, <1>7, ParentIs
<1>9. p <= C!Parent(p + 1)
  BY <1>7, SchemaFacts
<1>10. C!Parent(p + 1) = p
  BY <1>2, <1>7, <1>8, <1>9
<1>11. \A k \in C!Items : C!Parent(k) = p => p < k
  <2> SUFFICES ASSUME NEW k \in C!Items, C!Parent(k) = p PROVE p < k
    OBVIOUS
  <2>1. k # C!Root
    BY <1>2, ParentIs
  <2>2. QED
    BY <2>1, ParentIs
<1>12. \A k \in C!Items : (C!Parent(k) = p /\ \A j \in p .. k - 1 : C!Parent(j) # p) => k = p + 1
  <2> SUFFICES ASSUME NEW k \in C!Items, C!Parent(k) = p, \A j \in p .. k - 1 : C!Parent(j) # p
               PROVE  k = p + 1
    OBVIOUS
  <2>1. p < k
    BY <1>11
  <2>2. p + 1 \notin p .. k - 1
    BY <1>10
  <2>3. QED
    BY <1>2, <2>1, <2>2
<1>13. \A j \in p .. (p + 1) - 1 : C!Parent(j) # p
  <2>1. \A j \in p .. (p + 1) - 1 : j = p
    BY <1>2
  <2>2. C!Parent(p) # p
    BY <1>11, <1>2
  <2>3. QED
    BY <2>1, <2>2
<1>14. C!ObjectIterator(p) = p + 1
  <2> DEFINE First(k) == C!Parent(k) = p /\ \A j \in p .. k - 1 : C!Parent(j) # p
  <2>1. C!ObjectIterator(p) = CHOOSE k \in C!Items : First(k)
    BY <1>1 DEF C!ObjectIterator
  <2>2. First(p + 1)
    BY <1>10, <1>13
  <2>3. \A k \in C!Items : First(k) => k = p + 1
    BY <1>12
  <2> HIDE DEF First
  <2>4. QED
    BY <2>1, <2>2, <2>3, <1>5
<1>15. p + 1 < C!LastChild(p)
  <2>1. p + 1 \in p .. C!LastChild(p) - 1
    BY <1>5, <1>6, LastChildIs
  <2>2. QED
    BY <1>2, <2>1
<1>16. QED
  BY <1>2, <1>5, <1>10, <1>14, <1>15

\* app_json_schema_object_iterator_next: the next member comes right after what
\* is inside this one, if the object does not end there.
LEMMA NextMember ==
  ASSUME NEW i \in C!Items, i # C!Root
  PROVE  LET p == C!Parent(i)
         IN  /\ C!ObjectIteratorNext(p, i) # C!NoItem =>
                  /\ C!ObjectIteratorNext(p, i) = C!LastChild(i)
                  /\ C!LastChild(i) \in C!Items /\ C!Parent(C!LastChild(i)) = p
             /\ C!ObjectIteratorNext(p, i) = C!NoItem => C!LastChild(p) = C!LastChild(i)
<1> DEFINE p == C!Parent(i)
           e == C!LastChild(i)
           later == {k \in i + 1 .. C!LastChild(p) - 1 : C!Parent(k) = C!Parent(i)}
<1>1. p \in C!Items /\ Inside(i, p) /\ p < i
  BY ParentIs
<1>2. /\ C!Items = 1 .. Len(Document) /\ Len(Document) \in Nat /\ C!NoItem = 0
      /\ e \in i + 1 .. Len(Document) + 1 /\ C!LastChild(p) \in p + 1 .. Len(Document) + 1
      /\ e <= C!LastChild(p)
  BY <1>1, SchemaFacts, LastChildIs, LastWithin
<1>3. \A k \in later : k \in C!Items /\ e <= k
  <2> SUFFICES ASSUME NEW k \in i + 1 .. C!LastChild(p) - 1, C!Parent(k) = p
               PROVE  k \in C!Items /\ e <= k
    OBVIOUS
  <2>1. k \in C!Items /\ k # i
    BY <1>1, <1>2
  <2>2. ~ Inside(k, i)
    <3>1. SUFFICES ASSUME Inside(k, i) PROVE FALSE
      OBVIOUS
    <3>2. Inside(p, i)
      BY <2>1, <3>1, ParentInside
    <3>3. QED
      BY <1>1, <3>2, SchemaFacts
  <2>3. k \notin i .. e - 1
    BY <2>1, <2>2, LastChildIs
  <2>4. QED
    BY <1>2, <2>1, <2>3
<1>4. CASE e < C!LastChild(p)
  <2>1. e \in C!Items /\ e \in p .. C!LastChild(p) - 1 /\ e # p
    BY <1>1, <1>2, <1>4
  <2>2. Inside(e, p)
    BY <1>1, <2>1, LastChildIs
  <2>3. e # C!Root /\ C!Parent(e) \in C!Items /\ Inside(C!Parent(e), p)
    BY <1>1, <2>1, <2>2, ParentInside
  <2>4. C!Parent(e) < e /\ Inside(e, C!Parent(e)) /\ C!Parent(e) >= p
    BY <2>1, <2>3, <1>1, ParentIs, SchemaFacts
  <2>5. ~ Inside(e, i)
    <3>1. e \notin i .. e - 1
      BY <1>2
    <3>2. QED
      BY <2>1, <3>1, LastChildIs
  <2>6. ~ Inside(C!Parent(e), i)
    BY <2>1, <2>3, <2>4, <2>5, InsideOrder
  <2>7. C!Parent(e) \notin i .. e - 1
    BY <2>3, <2>6, LastChildIs
  <2>8. C!Parent(e) < i
    BY <2>3, <2>4, <2>7, <1>2
  <2>9. C!Parent(e) = p
    <3>1. SUFFICES ASSUME C!Parent(e) # p PROVE FALSE
      OBVIOUS
    <3>2. i \in C!Parent(e) .. e
      BY <1>2, <2>3, <2>8
    <3>3. Inside(i, C!Parent(e))
      BY <2>1, <2>3, <2>4, <3>2, SchemaFacts
    <3>4. Inside(p, C!Parent(e))
      BY <2>3, <2>8, <3>3, <1>2, ParentInside
    <3>5. QED
      BY <1>1, <2>3, <3>1, <3>4, InsideBoth
  <2>10. e \in later
    BY <1>2, <1>4, <2>9
  <2>11. C!ObjectIteratorNext(p, i) = e
    <3>1. C!ObjectIteratorNext(p, i) = CHOOSE k \in later : \A j \in later : k <= j
      BY <2>10 DEF C!ObjectIteratorNext
    <3>2. \A k \in later : (\A j \in later : k <= j) => k = e
      BY <1>2, <1>3, <2>10
    <3>3. \A j \in later : e <= j
      BY <1>3
    <3> HIDE DEF later, e
    <3>4. QED
      BY <2>10, <3>1, <3>2, <3>3
  <2>12. e # C!NoItem
    BY <1>2, <2>1
  <2>13. QED
    BY <2>1, <2>9, <2>11, <2>12
<1>5. CASE ~ (e < C!LastChild(p))
  <2>1. e = C!LastChild(p)
    BY <1>2, <1>5
  <2>2. later = {}
    BY <1>2, <1>3, <2>1
  <2>3. C!ObjectIteratorNext(p, i) = C!NoItem
    BY <2>2 DEF C!ObjectIteratorNext
  <2>4. QED
    BY <2>1, <2>3
<1>6. QED
  BY <1>4, <1>5

Visible(k) ==
  /\ k \in C!Items /\ ~ C!IsObject(k)
  /\ C!Dependencies(k) = {} /\ C!Dependencies(C!Parent(k)) = {}
Needed(k) == k \in C!Items /\ ~ C!IsObject(k) /\ C!Required(k)

\* How far the dialogue has come: everything before this item is behind it.
Pos ==
  IF at = C!NoItem THEN Len(Document) + 1 ELSE IF leaving THEN C!LastChild(at) ELSE at
\* The object is behind the dialogue.
Behind(a) == C!LastChild(a) <= Pos /\ (at = C!NoItem \/ ~ Inside(at, a))

DialogueTypes ==
  /\ at \in C!Items \cup {C!NoItem} /\ leaving \in BOOLEAN /\ set \subseteq C!Items
  /\ \A w \in configWritten : w.item \in C!Items
  /\ asked \in Seq(C!Items) /\ config \in {"none", "old", "new"}
Place ==
  /\ leaving => at \in C!Items /\ C!IsObject(at)
  /\ config = "new" => at = C!NoItem
AskedInOrder ==
  /\ \A i, j \in 1 .. Len(asked) : i < j => asked[i] < asked[j]
  /\ \A n \in 1 .. Len(asked) : asked[n] < Pos
AskedAll ==
  \A k \in C!Items : Visible(k) /\ k < Pos => \E n \in 1 .. Len(asked) : asked[n] = k
NeededHeld ==
  \A k \in C!Items : Needed(k) /\ k < Pos =>
    /\ k \in set /\ \E w \in configWritten : w.item = k
    /\ \A a \in C!Items : Inside(k, a) /\ a # k /\ a # C!Root /\ Behind(a) => a \in set

Dialogue == DialogueTypes /\ Place /\ AskedInOrder /\ AskedAll /\ NeededHeld

\* A value is in an object, and inside whatever that object is inside of.
LEMMA ParentOf ==
  ASSUME NEW k \in C!Items, ~ C!IsObject(k)
  PROVE  /\ k # C!Root /\ C!Parent(k) \in C!Items /\ C!IsObject(C!Parent(k)) /\ Inside(k, C!Parent(k))
         /\ \A a \in C!Items : Inside(k, a) /\ a # k => Inside(C!Parent(k), a)
<1>1. k # C!Root
  BY SchemaFacts
<1>2. QED
  BY <1>1, ParentIs, ParentInside

\* What is to be asked for in every case, or is required, is in no object that
\* could be hidden.
LEMMA NotHidden ==
  ASSUME NEW k \in C!Items, Visible(k) \/ Needed(k), NEW a \in C!Items, Inside(k, a)
  PROVE  C!Dependencies(a) = {}
<1>1. ~ C!IsObject(k) /\ C!Dependencies(k) = {} /\ C!Dependencies(C!Parent(k)) = {}
  BY DependenciesAssumption DEF Visible, Needed
<1>2. CASE a = k
  BY <1>1, <1>2
<1>3. CASE a # k
  <2>1. /\ C!Parent(k) \in C!Items /\ C!IsObject(C!Parent(k)) /\ Inside(C!Parent(k), a)
    BY <1>1, <1>3, ParentOf
  <2>2. QED
    BY <1>1, <2>1, DependenciesAssumption
<1>4. QED
  BY <1>2, <1>3

\* Where the dialogue goes on.
LEMMA GoesOn ==
  ASSUME at \in C!Items, at # C!Root, C!GoOn
  PROVE  /\ at' \in C!Items /\ leaving' \in BOOLEAN /\ Pos' = C!LastChild(at)
         /\ leaving' => C!IsObject(at)'
         /\ \A a \in C!Items : Inside(at, a) /\ a # at => Inside(at', a)
<1> DEFINE p == C!Parent(at)
           e == C!ObjectIteratorNext(p, at)
<1>1. p \in C!Items /\ C!IsObject(p) /\ \A a \in C!Items : Inside(at, a) /\ a # at => Inside(p, a)
  BY ParentIs, ParentInside
<1>2. C!NoItem = 0 /\ C!NoItem \notin C!Items
  BY SchemaFacts
<1>3. CASE e # C!NoItem
  <2>1. at' = e /\ leaving' = FALSE
    BY <1>3 DEF C!GoOn
  <2>2. e = C!LastChild(at) /\ e \in C!Items /\ C!Parent(e) = p
    BY <1>3, NextMember
  <2>3. Pos' = C!LastChild(at)
    BY <1>2, <2>1, <2>2 DEF Pos
  <2>4. e # C!Root
    BY <1>1, <1>2, <2>2, ParentIs
  <2>5. Inside(e, p)
    BY <2>2, <2>4, ParentIs
  <2>6. \A a \in C!Items : Inside(at, a) /\ a # at => Inside(e, a)
    BY <1>1, <2>2, <2>5, InsideOrder
  <2>7. QED
    BY <2>1, <2>2, <2>3, <2>6
<1>4. CASE e = C!NoItem
  <2>1. at' = p /\ leaving' = TRUE
    BY <1>4 DEF C!GoOn
  <2>2. C!LastChild(p) = C!LastChild(at)
    BY <1>4, NextMember
  <2>3. Pos' = C!LastChild(at)
    BY <1>1, <1>2, <2>1, <2>2 DEF Pos
  <2>4. QED
    BY <1>1, <2>1, <2>3
<1>5. QED
  BY <1>3, <1>4

\* What comes to be behind the dialogue when it goes on.
LEMMA PassedBy ==
  ASSUME DialogueTypes, at \in C!Items, at # C!Root, C!GoOn,
         NEW a \in C!Items, Behind(a)', ~ Behind(a)
  PROVE  Inside(a, at)
<1>1. /\ at' \in C!Items /\ Pos' = C!LastChild(at)
      /\ Inside(at, a) /\ a # at => Inside(at', a)
  BY GoesOn
<1>2. C!LastChild(a) <= C!LastChild(at) /\ ~ Inside(at', a) /\ C!NoItem \notin C!Items
  <2>1. C!NoItem \notin C!Items
    BY SchemaFacts
  <2>2. QED
    BY <1>1, <2>1 DEF Behind, Inside
<1>3. CASE Inside(at, a)
  BY <1>1, <1>2, <1>3, InsideOrder
<1>4. CASE ~ Inside(at, a)
  <2>1. /\ C!Items = 1 .. Len(Document) /\ Len(Document) \in Nat
        /\ C!LastChild(a) \in a + 1 .. Len(Document) + 1 /\ C!LastChild(at) \in at + 1 .. Len(Document) + 1
    BY SchemaFacts, LastChildIs
  <2> DEFINE l == C!LastChild(a) - 1
  <2>2. C!LastChild(a) > at
    <3>1. ~ (C!LastChild(a) <= Pos)
      BY <1>4 DEF Behind
    <3>2. Pos = C!LastChild(at) \/ Pos = at
      BY <1>2 DEF Pos
    <3>3. QED
      BY <2>1, <3>1, <3>2
  <2>3. l \in C!Items /\ l \in at .. C!LastChild(at) - 1 /\ l \in a .. C!LastChild(a) - 1
    BY <1>2, <2>1, <2>2
  <2>4. Inside(l, at) /\ Inside(l, a)
    BY <2>3, LastChildIs
  <2>5. Inside(a, at) \/ Inside(at, a)
    BY <2>3, <2>4, InsideOrder
  <2>6. QED
    BY <1>4, <2>5
<1>5. QED
  BY <1>3, <1>4

\* The dialogue begins with nothing behind it.
LEMMA DialogueInit == C!Init => Dialogue
<1> SUFFICES ASSUME C!Init PROVE Dialogue
  OBVIOUS
<1>1. at = C!Root /\ leaving = FALSE /\ set = {} /\ configWritten = {} /\ asked = <<>>
      /\ config \in {"none", "old"}
  BY DEF C!Init
<1>2. C!Items = 1 .. Len(Document) /\ C!Root = 1 /\ C!Root \in C!Items /\ C!NoItem = 0
  BY SchemaFacts
<1>3. Pos = 1
  BY <1>1, <1>2 DEF Pos
<1>4. Len(asked) = 0 /\ asked \in Seq(C!Items)
  BY <1>1
<1>5. DialogueTypes /\ Place
  BY <1>1, <1>2, <1>4 DEF DialogueTypes, Place
<1>6. AskedInOrder
  BY <1>4 DEF AskedInOrder
<1>7. \A k \in C!Items : ~ (k < Pos)
  BY <1>2, <1>3
<1>8. AskedAll /\ NeededHeld
  BY <1>7 DEF AskedAll, NeededHeld
<1>9. QED
  BY <1>5, <1>6, <1>8 DEF Dialogue

\* A member that is passed over holds nothing that is always asked for or required.
LEMMA HideKeeps == Dialogue /\ C!Hide => Dialogue'
<1> SUFFICES ASSUME Dialogue, C!Hide PROVE Dialogue'
  OBVIOUS
<1>1. /\ at \in C!Items /\ at # C!Root /\ ~ leaving /\ C!GoOn
      /\ set' = set /\ configWritten' = configWritten /\ asked' = asked /\ config' = config
      /\ C!Dependencies(at) # {}
  BY DEF C!Hide, C!Shown, C!DependenciesAchieved, Dialogue, DialogueTypes
<1>2. /\ at' \in C!Items /\ leaving' \in BOOLEAN /\ Pos' = C!LastChild(at)
      /\ leaving' => C!IsObject(at)'
  BY <1>1, GoesOn
<1>3. DialogueTypes' /\ Place'
  <2>1. DialogueTypes'
    BY <1>1, <1>2 DEF Dialogue, DialogueTypes
  <2>2. config # "new"
    BY <1>1, SchemaFacts DEF Dialogue, Place
  <2>3. QED
    BY <1>1, <1>2, <2>1, <2>2 DEF Place
<1>4. Pos = at /\ C!Items = 1 .. Len(Document) /\ Len(Document) \in Nat
      /\ C!LastChild(at) \in at + 1 .. Len(Document) + 1 /\ C!NoItem \notin C!Items
      /\ at \in Nat /\ C!LastChild(at) \in Nat
  BY <1>1, SchemaFacts, LastChildIs DEF Pos
<1>5. AskedInOrder'
  <2>1. \A n \in 1 .. Len(asked) : asked[n] \in C!Items
    BY DEF Dialogue, DialogueTypes
  <2>2. QED
    BY <1>1, <1>2, <1>4, <2>1 DEF Dialogue, AskedInOrder
<1>6. ASSUME NEW k \in C!Items, Visible(k) \/ Needed(k), k < Pos' PROVE k < Pos
  <2>1. ~ Inside(k, at)
    BY <1>1, <1>6, NotHidden
  <2>2. k \notin at .. C!LastChild(at) - 1
    BY <1>1, <2>1, LastChildIs
  <2>3. k \in Nat /\ k < C!LastChild(at)
    BY <1>2, <1>4, <1>6
  <2>4. QED
    BY <1>4, <2>2, <2>3
<1>7. AskedAll'
  BY <1>1, <1>6 DEF Dialogue, AskedAll
<1>8. NeededHeld'
  <2> SUFFICES ASSUME NEW k \in C!Items, Needed(k), k < Pos'
               PROVE  /\ k \in set /\ \E w \in configWritten : w.item = k
                      /\ \A a \in C!Items : Inside(k, a) /\ a # k /\ a # C!Root /\ Behind(a)' => a \in set
    BY <1>1 DEF NeededHeld, Needed
  <2>1. k < Pos
    BY <1>6
  <2>2. /\ k \in set /\ \E w \in configWritten : w.item = k
        /\ \A a \in C!Items : Inside(k, a) /\ a # k /\ a # C!Root /\ Behind(a) => a \in set
    BY <2>1 DEF Dialogue, NeededHeld
  <2>3. ASSUME NEW a \in C!Items, Inside(k, a), Behind(a)', ~ Behind(a) PROVE FALSE
    <3>1. Inside(a, at)
      BY <1>1, <2>3, PassedBy DEF Dialogue
    <3>2. Inside(k, at)
      BY <1>1, <2>3, <3>1, InsideOrder
    <3>3. QED
      BY <1>1, <3>2, NotHidden
  <2>4. QED
    BY <2>2, <2>3
<1>9. QED
  BY <1>3, <1>5, <1>7, <1>8 DEF Dialogue

\* Only the object itself comes to be behind the dialogue, and it is entered, not left.
LEMMA EnterKeeps == Dialogue /\ C!EnterObject => Dialogue'
<1> SUFFICES ASSUME Dialogue, C!EnterObject PROVE Dialogue'
  OBVIOUS
<1>1. /\ at \in C!Items /\ leaving = FALSE /\ C!IsObject(at) /\ at' = C!ObjectIterator(at)
      /\ set' = set /\ configWritten' = configWritten /\ asked' = asked /\ config' = config
      /\ leaving' = FALSE
  BY DEF C!EnterObject, Dialogue, DialogueTypes
<1>2. at' = at + 1 /\ at + 1 \in C!Items /\ C!Parent(at + 1) = at /\ at + 1 < C!LastChild(at)
  BY <1>1, FirstMember
<1>3. DialogueTypes' /\ Place'
  <2>1. DialogueTypes'
    BY <1>1, <1>2 DEF Dialogue, DialogueTypes
  <2>2. config # "new"
    BY <1>1, SchemaFacts DEF Dialogue, Place
  <2>3. QED
    BY <1>1, <2>1, <2>2 DEF Place
<1>4. C!Items = 1 .. Len(Document) /\ Len(Document) \in Nat /\ C!NoItem \notin C!Items
      /\ C!LastChild(at) \in at + 1 .. Len(Document) + 1
      /\ at \in Nat /\ C!LastChild(at) \in Nat
  BY SchemaFacts, <1>1, LastChildIs
<1>5. Pos = at /\ Pos' = at + 1
  BY <1>1, <1>2, <1>4 DEF Pos
<1>6. AskedInOrder'
  <2>1. \A n \in 1 .. Len(asked) : asked[n] \in C!Items
    BY DEF Dialogue, DialogueTypes
  <2>2. QED
    BY <1>1, <1>4, <1>5, <2>1 DEF Dialogue, AskedInOrder
<1>7. ASSUME NEW k \in C!Items, Visible(k) \/ Needed(k), k < Pos' PROVE k < Pos
  <2>1. k # at
    BY <1>1, <1>7 DEF Visible, Needed
  <2>2. k \in Nat /\ k < at + 1
    BY <1>4, <1>5, <1>7
  <2>3. QED
    BY <1>4, <1>5, <2>1, <2>2
<1>8. AskedAll'
  BY <1>1, <1>7 DEF Dialogue, AskedAll
<1>9. Inside(at', at)
  <2>1. at + 1 \in at .. C!LastChild(at) - 1
    BY <1>2, <1>4
  <2>2. QED
    BY <1>1, <1>2, <2>1, LastChildIs
<1>10. NeededHeld'
  <2> SUFFICES ASSUME NEW k \in C!Items, Needed(k), k < Pos'
               PROVE  /\ k \in set /\ \E w \in configWritten : w.item = k
                      /\ \A a \in C!Items : Inside(k, a) /\ a # k /\ a # C!Root /\ Behind(a)' => a \in set
    BY <1>1 DEF NeededHeld, Needed
  <2>1. k < Pos
    BY <1>7
  <2>2. /\ k \in set /\ \E w \in configWritten : w.item = k
        /\ \A a \in C!Items : Inside(k, a) /\ a # k /\ a # C!Root /\ Behind(a) => a \in set
    BY <2>1 DEF Dialogue, NeededHeld
  <2>3. ASSUME NEW a \in C!Items, Behind(a)', ~ Behind(a) PROVE FALSE
    <3>1. C!LastChild(a) <= at + 1 /\ ~ Inside(at', a) /\ C!LastChild(a) \in a + 1 .. Len(Document) + 1
      <4>1. C!LastChild(a) <= at + 1
        BY <1>5, <2>3 DEF Behind
      <4>2. ~ Inside(at', a)
        BY <1>2, <1>4, <2>3 DEF Behind, Inside
      <4>3. QED
        BY <4>1, <4>2, LastChildIs
    <3>2. ~ Inside(at, a)
      BY <1>1, <1>2, <1>9, <3>1, InsideOrder
    <3>3. ~ (C!LastChild(a) <= at)
      BY <1>1, <1>5, <2>3, <3>2 DEF Behind
    <3>4. at \in a .. C!LastChild(a) - 1
      BY <1>4, <1>1, <3>1, <3>3
    <3>5. QED
      BY <1>1, <3>2, <3>4, LastChildIs
  <2>4. QED
    BY <2>2, <2>3
<1>11. QED
  BY <1>3, <1>6, <1>8, <1>10 DEF Dialogue

\* An object that needs a value is not cancelled: a member of it was set.
LEMMA LeaveKeeps == Dialogue /\ C!LeaveObject => Dialogue'
<1> SUFFICES ASSUME Dialogue, C!LeaveObject PROVE Dialogue'
  OBVIOUS
<1>1. /\ at \in C!Items /\ at # C!Root /\ leaving /\ C!GoOn
      /\ asked' = asked /\ config' = config
  BY DEF C!LeaveObject, Dialogue, Place
<1>2. /\ at' \in C!Items /\ leaving' \in BOOLEAN /\ Pos' = C!LastChild(at)
      /\ leaving' => C!IsObject(at)'
  BY <1>1, GoesOn
<1>3. C!Items = 1 .. Len(Document) /\ Len(Document) \in Nat /\ C!NoItem \notin C!Items
      /\ C!LastChild(at) \in at + 1 .. Len(Document) + 1
  BY SchemaFacts, <1>1, LastChildIs
<1>4. Pos' = Pos
  BY <1>1, <1>2, <1>3 DEF Pos
<1>5. /\ set' \subseteq set \cup {at} /\ set \subseteq set' /\ configWritten' \subseteq configWritten
  BY DEF C!LeaveObject
<1>6. DialogueTypes' /\ Place'
  <2>1. DialogueTypes'
    BY <1>1, <1>2, <1>5 DEF Dialogue, DialogueTypes
  <2>2. Place'
    <3>1. config # "new"
      BY <1>1, SchemaFacts DEF Dialogue, Place
    <3>2. QED
      BY <1>1, <1>2, <3>1 DEF Place
  <2>3. QED
    BY <2>1, <2>2
<1>7. AskedInOrder' /\ AskedAll'
  BY <1>1, <1>4 DEF Dialogue, AskedInOrder, AskedAll
<1>8. ASSUME NEW k \in C!Items, Needed(k), Inside(k, at) PROVE \E c \in set : C!Parent(c) = at
  <2>1. k # at /\ ~ C!IsObject(k)
    BY <1>1, <1>8 DEF Needed, Dialogue, Place
  <2>2. PICK c \in C!Items : c # C!Root /\ C!Parent(c) = at /\ Inside(k, c)
    BY <1>1, <1>8, <2>1, MemberAbove
  <2>3. k < Pos
    <3>1. k \in at .. C!LastChild(at) - 1
      BY <1>1, <1>8, LastChildIs
    <3>2. QED
      BY <1>2, <1>3, <1>4, <3>1
  <2>4. /\ k \in set
        /\ \A a \in C!Items : Inside(k, a) /\ a # k /\ a # C!Root /\ Behind(a) => a \in set
    BY <1>8, <2>3 DEF Dialogue, NeededHeld
  <2>5. CASE c = k
    BY <2>2, <2>4, <2>5
  <2>6. CASE c # k
    <3>1. Inside(c, at) /\ at < c
      BY <2>2, ParentIs
    <3>2. C!LastChild(c) <= Pos
      BY <1>1, <1>2, <1>4, <2>2, <3>1, LastWithin
    <3>3. ~ Inside(at, c)
      BY <1>1, <1>3, <2>2, <3>1, SchemaFacts
    <3>4. Behind(c)
      BY <3>2, <3>3 DEF Behind
    <3>5. QED
      BY <2>2, <2>4, <2>6, <3>4
  <2>7. QED
    BY <2>5, <2>6
<1>9. NeededHeld'
  <2> SUFFICES ASSUME NEW k \in C!Items, Needed(k), k < Pos'
               PROVE  /\ k \in set' /\ \E w \in configWritten' : w.item = k
                      /\ \A a \in C!Items : Inside(k, a) /\ a # k /\ a # C!Root /\ Behind(a)' => a \in set'
    BY DEF NeededHeld, Needed
  <2>1. k < Pos
    BY <1>4
  <2>2. /\ k \in set /\ \E w \in configWritten : w.item = k
        /\ \A a \in C!Items : Inside(k, a) /\ a # k /\ a # C!Root /\ Behind(a) => a \in set
    BY <2>1 DEF Dialogue, NeededHeld
  <2>3. PICK w \in configWritten : w.item = k
    BY <2>2
  <2>4. w \in configWritten'
    <3>1. CASE \E c \in set : C!Parent(c) = at
      BY <3>1 DEF C!LeaveObject
    <3>2. CASE ~ \E c \in set : C!Parent(c) = at
      <4>1. ~ Inside(k, at)
        BY <1>8, <3>2
      <4>2. configWritten' =
              {x \in configWritten : ~ C!IsPrefix(Document[at].path, Document[x.item].path)}
        BY <3>2 DEF C!LeaveObject
      <4>3. QED
        BY <2>3, <4>1, <4>2 DEF Inside
    <3>3. QED
      BY <3>1, <3>2
  <2>5. ASSUME NEW a \in C!Items, Inside(k, a), a # k, a # C!Root, Behind(a)' PROVE a \in set'
    <3>1. CASE Behind(a)
      BY <1>5, <2>2, <2>5, <3>1
    <3>2. CASE ~ Behind(a)
      <4>1. Inside(a, at)
        BY <1>1, <2>5, <3>2, PassedBy DEF Dialogue
      <4>2. C!LastChild(a) <= Pos
        BY <1>1, <1>2, <1>4, <4>1, LastWithin
      <4>3. Inside(at, a)
        BY <3>2, <4>2 DEF Behind
      <4>4. a = at
        BY <1>1, <4>1, <4>3, InsideBoth
      <4>5. \E c \in set : C!Parent(c) = at
        BY <1>8, <2>5, <4>4
      <4>6. set' = set \cup {at}
        BY <4>5 DEF C!LeaveObject
      <4>7. QED
        BY <4>4, <4>6
    <3>3. QED
      BY <3>1, <3>2
  <2>6. QED
    BY <1>5, <2>2, <2>3, <2>4, <2>5
<1>10. QED
  BY <1>6, <1>7, <1>9 DEF Dialogue

\* The answer that is accepted for a value that is required is not blank.
LEMMA NeededWritten ==
  ASSUME NEW k \in C!Items, ~ C!IsObject(k), C!Required(k), NEW v, C!Accepts(k, v)
  PROVE  v # C!Blank /\ \E w \in C!Value(k, v) : w.item = k
<1>1. Document[k].type \in {"integer", "string", "boolean"}
  BY SchemaFacts DEF C!IsObject
<1>2. v # C!Blank
  BY <1>1 DEF C!Accepts, C!SchemaInteger, C!SchemaString, C!SchemaBool
<1>3. \E x : C!Value(k, v) = {[item |-> k, value |-> x]}
  BY <1>2 DEF C!Value
<1>4. QED
  BY <1>2, <1>3

\* What is written for an answer is written for the item asked for.
LEMMA ValueIs ==
  ASSUME NEW k \in C!Items, ~ C!IsObject(k), NEW v, NEW w \in C!Value(k, v)
  PROVE  w.item = k
<1>1. Document[k].type \in {"integer", "string", "boolean"}
  BY SchemaFacts DEF C!IsObject
<1>2. QED
  BY <1>1 DEF C!Value

\* An answer that is accepted is noted, set and written if the value is required.
LEMMA AnswerKeeps == Dialogue /\ C!Answer => Dialogue'
<1> SUFFICES ASSUME Dialogue, C!Answer PROVE Dialogue'
  OBVIOUS
<1>1. /\ at \in C!Items /\ ~ leaving /\ ~ C!IsObject(at) /\ config' = config
  BY DEF C!Answer, C!Asking, Dialogue, DialogueTypes
<1>2. at # C!Root
  BY <1>1, SchemaFacts
<1>3. PICK v : /\ set' = IF v = C!Blank THEN set ELSE set \cup {at}
               /\ IF C!Accepts(at, v)
                  THEN /\ configWritten' = configWritten \cup C!Value(at, v)
                       /\ asked' = Append(asked, at) /\ C!GoOn
                  ELSE /\ configWritten' = configWritten /\ asked' = asked
                       /\ at' = at /\ leaving' = leaving
  BY DEF C!Answer
<1>4. C!Items = 1 .. Len(Document) /\ Len(Document) \in Nat /\ C!NoItem \notin C!Items
      /\ Pos = at /\ C!LastChild(at) = at + 1 /\ at \in Nat /\ C!Items \subseteq Nat
  BY SchemaFacts, <1>1, ValueLast DEF Pos
<1>5. set' \subseteq set \cup {at} /\ set \subseteq set'
  BY <1>3
<1>6. CASE ~ C!Accepts(at, v)
  <2>1. /\ configWritten' = configWritten /\ asked' = asked /\ at' = at /\ leaving' = leaving
        /\ Pos' = Pos
    BY <1>3, <1>6 DEF Pos
  <2>2. DialogueTypes' /\ Place'
    BY <1>1, <1>5, <2>1 DEF Dialogue, DialogueTypes, Place
  <2>3. AskedInOrder' /\ AskedAll'
    BY <2>1 DEF Dialogue, AskedInOrder, AskedAll
  <2>4. \A a : Behind(a)' <=> Behind(a)
    BY <2>1 DEF Behind, Inside
  <2>5. NeededHeld'
    BY <1>5, <2>1, <2>4 DEF Dialogue, NeededHeld, Needed
  <2>6. QED
    BY <2>2, <2>3, <2>5 DEF Dialogue
<1>7. CASE C!Accepts(at, v)
  <2>1. configWritten' = configWritten \cup C!Value(at, v) /\ asked' = Append(asked, at) /\ C!GoOn
    BY <1>3, <1>7
  <2>2. /\ at' \in C!Items /\ leaving' \in BOOLEAN /\ Pos' = at + 1
        /\ leaving' => C!IsObject(at)'
    BY <1>1, <1>2, <1>4, <2>1, GoesOn
  <2>3. DialogueTypes' /\ Place'
    <3>1. \A w \in C!Value(at, v) : w.item \in C!Items
      BY <1>1, ValueIs
    <3>2. asked' \in Seq(C!Items)
      BY <1>1, <2>1 DEF Dialogue, DialogueTypes
    <3>3. \A w \in configWritten' : w.item \in C!Items
      BY <2>1, <3>1 DEF Dialogue, DialogueTypes
    <3>4. config # "new"
      BY <1>1, SchemaFacts DEF Dialogue, Place
    <3>5. DialogueTypes'
      BY <1>1, <1>5, <2>2, <3>2, <3>3 DEF Dialogue, DialogueTypes
    <3>6. QED
      BY <1>1, <2>2, <3>4, <3>5 DEF Place
  <2>4. /\ asked \in Seq(C!Items) /\ Len(asked) \in Nat /\ Len(asked') = Len(asked) + 1
        /\ \A n \in 1 .. Len(asked) : asked'[n] = asked[n] /\ asked[n] \in C!Items /\ asked[n] < at
        /\ asked'[Len(asked) + 1] = at
    BY <1>1, <1>4, <2>1 DEF Dialogue, DialogueTypes, AskedInOrder
  <2>5. AskedInOrder'
    <3>1. \A i, j \in 1 .. Len(asked) : i < j => asked[i] < asked[j]
      BY DEF Dialogue, AskedInOrder
    <3>2. \A i, j \in 1 .. Len(asked') : i < j => asked'[i] < asked'[j]
      BY <2>4, <3>1
    <3>3. \A n \in 1 .. Len(asked') : asked'[n] < Pos'
      <4>1. \A n \in 1 .. Len(asked) : asked'[n] < at + 1
        BY <1>4, <2>4
      <4>2. asked'[Len(asked) + 1] < at + 1
        BY <1>4, <2>4
      <4>3. 1 .. Len(asked') = 1 .. Len(asked) \cup {Len(asked) + 1}
        BY <2>4
      <4>4. QED
        BY <2>2, <4>1, <4>2, <4>3
    <3>4. QED
      BY <3>2, <3>3 DEF AskedInOrder
  <2>6. \A k \in C!Items : k < Pos' => k < Pos \/ k = at
    <3>1. \A k \in Nat : k < at + 1 => k < at \/ k = at
      BY <1>4
    <3>2. QED
      BY <1>4, <2>2, <3>1
  <2>7. AskedAll'
    <3> SUFFICES ASSUME NEW k \in C!Items, Visible(k), k < Pos'
                 PROVE  \E n \in 1 .. Len(asked') : asked'[n] = k
      BY DEF AskedAll, Visible
    <3>1. CASE k = at
      BY <2>4, <3>1
    <3>2. CASE k # at
      <4>1. PICK n \in 1 .. Len(asked) : asked[n] = k
        BY <2>6, <3>2 DEF Dialogue, AskedAll
      <4>2. n \in 1 .. Len(asked') /\ asked'[n] = k
        BY <2>4, <4>1
      <4>3. QED
        BY <4>2
    <3>3. QED
      BY <3>1, <3>2
  <2>8. NeededHeld'
    <3> SUFFICES ASSUME NEW k \in C!Items, Needed(k), k < Pos'
                 PROVE  /\ k \in set' /\ \E w \in configWritten' : w.item = k
                        /\ \A a \in C!Items : Inside(k, a) /\ a # k /\ a # C!Root /\ Behind(a)' => a \in set'
      BY DEF NeededHeld, Needed
    <3>1. ASSUME NEW a \in C!Items, Inside(k, a), a # k, Behind(a)', ~ Behind(a) PROVE FALSE
      <4>1. Inside(a, at)
        BY <1>1, <1>2, <2>1, <3>1, PassedBy DEF Dialogue
      <4>2. C!IsObject(a)
        BY <3>1, HoldsIs
      <4>3. QED
        BY <1>1, <4>1, <4>2, HoldsIs
    <3>2. CASE k = at
      <4>1. v # C!Blank /\ \E w \in C!Value(at, v) : w.item = at
        BY <1>7, <3>2, NeededWritten DEF Needed
      <4>2. at \in set' /\ \E w \in configWritten' : w.item = k
        BY <1>3, <2>1, <3>2, <4>1
      <4>3. ASSUME NEW a \in C!Items, Inside(k, a), a # k, Behind(a)' PROVE FALSE
        BY <1>1, <3>1, <3>2, <4>3, <1>4 DEF Behind
      <4>4. QED
        BY <3>2, <4>2, <4>3
    <3>3. CASE k # at
      <4>1. /\ k \in set /\ \E w \in configWritten : w.item = k
            /\ \A a \in C!Items : Inside(k, a) /\ a # k /\ a # C!Root /\ Behind(a) => a \in set
        BY <2>6, <3>3 DEF Dialogue, NeededHeld
      <4>2. QED
        BY <1>5, <2>1, <3>1, <4>1
    <3>4. QED
      BY <3>2, <3>3
  <2>9. QED
    BY <2>3, <2>5, <2>7, <2>8 DEF Dialogue
<1>8. QED
  BY <1>6, <1>7

\* The end of the root: nothing is left to ask for.
LEMMA WriteKeeps == Dialogue /\ C!Write => Dialogue'
<1> SUFFICES ASSUME Dialogue, C!Write PROVE Dialogue'
  OBVIOUS
<1>1. /\ at = C!Root /\ leaving /\ at' = C!NoItem /\ leaving' = FALSE
      /\ set' = set /\ configWritten' = configWritten /\ asked' = asked
      /\ config' \in {"none", "old", "new"}
  BY DEF C!Write, Dialogue, DialogueTypes
<1>2. C!Items = 1 .. Len(Document) /\ C!Root = 1 /\ C!Root \in C!Items /\ C!NoItem = 0
      /\ Len(Document) \in Nat
  BY SchemaFacts
<1>3. Pos' = Pos
  BY <1>1, <1>2, RootLast DEF Pos
<1>4. DialogueTypes' /\ Place'
  BY <1>1 DEF Dialogue, DialogueTypes, Place
<1>5. AskedInOrder' /\ AskedAll'
  BY <1>1, <1>3 DEF Dialogue, AskedInOrder, AskedAll
<1>6. \A a \in C!Items : a # C!Root /\ Behind(a)' => Behind(a)
  <2> SUFFICES ASSUME NEW a \in C!Items, a # C!Root, Behind(a)' PROVE Behind(a)
    OBVIOUS
  <2>1. C!LastChild(a) <= Pos
    BY <1>3 DEF Behind
  <2>2. ~ Inside(C!Root, a)
    BY <1>2, SchemaFacts
  <2>3. QED
    BY <1>1, <2>1, <2>2 DEF Behind
<1>7. NeededHeld'
  BY <1>1, <1>3, <1>6 DEF Dialogue, NeededHeld, Needed
<1>8. QED
  BY <1>4, <1>5, <1>7 DEF Dialogue

\* The invariant is kept by every step of the dialogue.
LEMMA DialogueNext == Dialogue /\ [C!Next]_(C!vars) => Dialogue'
<1>1. ASSUME Dialogue, UNCHANGED C!vars PROVE Dialogue'
  BY <1>1 DEF C!vars, Dialogue, DialogueTypes, Place, AskedInOrder, AskedAll, NeededHeld, Needed,
    Visible, Pos, Behind, Inside
<1>2. QED
  BY <1>1, HideKeeps, EnterKeeps, LeaveKeeps, AnswerKeeps, WriteKeeps DEF C!Next

\* The invariant says all that is promised.
LEMMA DialogueRight == Dialogue => C!TypeOK /\ PromptsRight
<1> SUFFICES ASSUME Dialogue PROVE C!TypeOK /\ C!PromptsRight
  BY DEF PromptsRight
<1>1. C!TypeOK
  BY DEF C!TypeOK, Dialogue, DialogueTypes
<1>2. C!Items = 1 .. Len(Document) /\ Len(Document) \in Nat
  BY SchemaFacts
<1>3. ASSUME at = C!NoItem PROVE \A k \in C!Items : k < Pos
  BY <1>2, <1>3 DEF Pos
<1>4. \A i, j \in 1 .. Len(asked) : i < j => asked[i] < asked[j]
  BY DEF Dialogue, AskedInOrder
<1>5. at = C!NoItem =>
        \A i \in C!Items : ~ C!IsObject(i) /\ C!Dependencies(i) = {}
          => \/ \E n \in 1 .. Len(asked) : asked[n] = i
             \/ C!Dependencies(C!Parent(i)) # {}
  BY <1>3 DEF Dialogue, AskedAll, Visible
<1>6. ASSUME config = "new", NEW i \in C!Items, ~ C!IsObject(i),
             C!Name(i) \in Document[C!Parent(i)].required
      PROVE  \E w \in configWritten : w.item = i
  <2>1. at = C!NoItem
    BY <1>6 DEF Dialogue, Place
  <2>2. C!Required(i)
    <3>1. C!Parent(i) \in C!Items /\ C!NoItem \notin C!Items
      BY <1>6, ParentOf, SchemaFacts
    <3>2. QED
      BY <1>6, <3>1 DEF C!Required
  <2>3. QED
    BY <1>3, <1>6, <2>1, <2>2 DEF Dialogue, NeededHeld, Needed
<1>7. C!PromptsRight
  BY <1>4, <1>5, <1>6 DEF C!PromptsRight
<1>8. QED
  BY <1>1, <1>7

-----------------------------------------------------------------------------
(***************************************************************************)
(* The types of the relay.                                                 *)
(***************************************************************************)
RelayTypes ==
  /\ library \in Libraries /\ bind \in BOOLEAN
  /\ pc \in {"main", "open", "setup", "websocket", "wait", "read", "send", "close", "closed",
              "done", "crashed"}
  /\ lws \in BOOLEAN
  /\ state \in {"CONNECT", "BIND", "CONNECTED", "BOUND"}
  /\ buffered \in BOOLEAN /\ TO_QUIT \in BOOLEAN /\ result \in BOOLEAN /\ cut \in BOOLEAN
RelaySizes ==
  /\ Len(tx_buffer) <= RELAY_BUFFER_SIZE /\ taken <= MaxBytes
  /\ receiving.number \in 0 .. MaxFrames /\ arrived \in 0 .. MaxFrames
  /\ frames \in Seq(1 .. MaxFrames) /\ written \in Seq(1 .. MaxFrames)

\* An element of a sequence is of its set.
LEMMA ElementIn ==
  ASSUME NEW S, NEW s \in Seq(S), NEW i \in 1 .. Len(s)
  PROVE  s[i] \in S
OBVIOUS

\* A sequence stays one over its set when an element of the set is appended.
LEMMA AppendIn ==
  ASSUME NEW S, NEW s \in Seq(S), NEW e \in S
  PROVE  Append(s, e) \in Seq(S)
OBVIOUS

\* A sequence whose elements are all in a set is a sequence over it.
LEMMA EntriesIn ==
  ASSUME NEW S, NEW T, NEW s \in Seq(T), \A i \in 1 .. Len(s) : s[i] \in S
  PROVE  s \in Seq(S)
BY SeqDef

\* The relay begins with the types and sizes.
LEMMA RelayInit == Init => RelayTypes /\ RelaySizes
<1> SUFFICES ASSUME Init PROVE RelayTypes /\ RelaySizes
  OBVIOUS
<1>1. RelayTypes
  BY DEF Init, RelayTypes
<1>2. RELAY_BUFFER_SIZE \in Nat /\ MaxBytes \in Nat /\ MaxFrames \in Nat
  BY BoundsAssumption
<1>3. Len(tx_buffer) = 0 /\ frames \in Seq(1 .. MaxFrames) /\ written \in Seq(1 .. MaxFrames)
  BY DEF Init
<1>4. QED
  BY <1>1, <1>2, <1>3 DEF Init, RelaySizes, NoFrame

\* Every step of the relay keeps the types of its flags and places.
LEMMA RelayTypesStep == RelayTypes /\ [Next]_vars => RelayTypes'
<1> SUFFICES ASSUME RelayTypes, [Next]_vars PROVE RelayTypes'
  OBVIOUS
<1>1. CASE Main \/ Open \/ SetUp \/ ConnectWebsocket
  <2>1. CASE Main
    BY <2>1 DEF RelayTypes, Main, streamVars
  <2>2. CASE Open
    BY <2>2 DEF RelayTypes, Open, streamVars
  <2>3. CASE SetUp
    <3>1. PICK created \in BOOLEAN :
            /\ result' = IF library = "civetweb" THEN TRUE ELSE buffered' /\ created
            /\ pc' = IF result' THEN "websocket" ELSE "close"
      BY <2>3, Zenon DEF SetUp
    <3>2. buffered' \in BOOLEAN
      BY <2>3, Zenon DEF SetUp
    <3>3. result' \in BOOLEAN
      BY <3>1, <3>2, Zenon
    <3>4. pc' \in {"websocket", "close"}
      BY <3>1
    <3>5. UNCHANGED <<library, bind, state, lws, TO_QUIT, cut>>
      BY <2>3 DEF SetUp, streamVars
    <3>6. QED
      BY <3>2, <3>3, <3>4, <3>5 DEF RelayTypes
  <2>4. CASE ConnectWebsocket
    BY <2>4 DEF RelayTypes, ConnectWebsocket, streamVars
  <2>5. QED
    BY <1>1, <2>1, <2>2, <2>3, <2>4
<1>2. CASE Wait \/ Read \/ Crash \/ Send \/ Stop \/ Close \/ Exit \/ Write \/ WriteClosed
  <2>1. CASE Wait
    BY <2>1 DEF RelayTypes, Wait, streamVars
  <2>2. CASE Read
    BY <2>2 DEF RelayTypes, Read
  <2>3. CASE Crash
    BY <2>3 DEF RelayTypes, Crash, streamVars
  <2>4. CASE Send
    BY <2>4 DEF RelayTypes, Send
  <2>5. CASE Stop
    BY <2>5 DEF RelayTypes, Stop, streamVars
  <2>6. CASE Close
    BY <2>6 DEF RelayTypes, Close, streamVars
  <2>7. CASE Write
    BY <2>7 DEF RelayTypes, Write
  <2>8. CASE Exit
    BY <2>8 DEF RelayTypes, Exit, streamVars
  <2>9. CASE WriteClosed
    BY <2>9 DEF RelayTypes, WriteClosed
  <2>10. QED
    BY <1>2, <2>1, <2>2, <2>3, <2>4, <2>5, <2>6, <2>7, <2>8, <2>9
<1>3. CASE OnReceive \/ OnClose \/ Signal \/ UNCHANGED vars
  <2>1. CASE OnReceive
    BY <2>1 DEF RelayTypes, OnReceive
  <2>2. CASE OnClose
    BY <2>2 DEF RelayTypes, OnClose, streamVars
  <2>3. CASE Signal
    BY <2>3 DEF RelayTypes, Signal, streamVars
  <2>4. CASE UNCHANGED vars
    BY <2>4 DEF RelayTypes, vars, relayVars, streamVars
  <2>5. QED
    BY <1>3, <2>1, <2>2, <2>3, <2>4
<1>4. QED
  BY <1>1, <1>2, <1>3 DEF Next, Steps

\* The buffer takes no more than there is room for, and a frame written is one that came.
LEMMA RelaySizesStep == IInv /\ RelaySizes /\ [Next]_vars => RelaySizes'
<1> SUFFICES ASSUME IInv, RelaySizes, [Next]_vars PROVE RelaySizes'
  OBVIOUS
<1>1. /\ tx_buffer \in Seq(Nat) /\ sent \in Seq(Nat) /\ taken \in Nat
      /\ frames \in Seq(Nat) /\ written \in Seq(Nat) /\ arrived \in Nat
      /\ RELAY_BUFFER_SIZE \in Nat /\ MaxBytes \in Nat /\ MaxFrames \in Nat
      /\ Len(tx_buffer) \in Nat
  BY BoundsAssumption DEF IInv, Types
<1>2. CASE UNCHANGED <<tx_buffer, receiving, streamVars>>
  BY <1>2 DEF RelaySizes, streamVars
<1>3. CASE Read
  <2>1. UNCHANGED <<receiving, frames, written, arrived>>
    BY <1>3 DEF Read
  <2>2. CASE UNCHANGED <<tx_buffer, taken>>
    BY <2>1, <2>2 DEF RelaySizes
  <2>3. CASE \E n \in 0 .. Room :
               /\ taken + n <= MaxBytes
               /\ tx_buffer' = tx_buffer \o [i \in 1 .. n |-> taken + i] /\ taken' = taken + n
    <3>1. PICK n \in 0 .. Room :
            /\ taken + n <= MaxBytes
            /\ tx_buffer' = tx_buffer \o [i \in 1 .. n |-> taken + i] /\ taken' = taken + n
      BY <2>3
    <3>2. n \in Nat /\ Len(tx_buffer) + n <= RELAY_BUFFER_SIZE
      BY <1>1 DEF Room
    <3> DEFINE more == [i \in 1 .. n |-> taken + i]
    <3>3. more \in Seq(Nat) /\ Len(more) = n
      BY <1>1, <3>2
    <3> HIDE DEF more
    <3>4. tx_buffer' = tx_buffer \o more
      BY <3>1 DEF more
    <3>5. Len(tx_buffer') = Len(tx_buffer) + n
      BY <1>1, <3>3, <3>4, ConcatProperties
    <3>6. QED
      BY <2>1, <3>1, <3>2, <3>5 DEF RelaySizes
  <2>4. QED
    BY <1>3, <2>2, <2>3 DEF Read
<1>4. CASE Send
  <2>1. UNCHANGED <<receiving, taken, frames, written, arrived>>
    BY <1>4 DEF Send
  <2>2. PICK n \in 0 .. Len(tx_buffer) : tx_buffer' = SubSeq(tx_buffer, n + 1, Len(tx_buffer))
    BY <1>4 DEF Send, OnSend
  <2>3. Len(tx_buffer') <= Len(tx_buffer)
    BY <1>1, <2>2
  <2>4. Len(tx_buffer') \in Nat
    BY <1>1, <2>2
  <2>5. Len(tx_buffer') <= RELAY_BUFFER_SIZE
    BY <1>1, <2>3, <2>4 DEF RelaySizes
  <2>6. QED
    BY <2>1, <2>5 DEF RelaySizes
<1>5. CASE OnReceive
  <2>1. UNCHANGED <<tx_buffer, taken, written>> /\ arrived' = arrived + 1 /\ arrived < MaxFrames
    BY <1>5 DEF OnReceive
  <2>2. PICK key \in BOOLEAN :
          /\ receiving' = [key |-> key, number |-> arrived + 1]
          /\ frames' = IF key THEN frames ELSE Append(frames, arrived + 1)
    BY <1>5 DEF OnReceive
  <2>3. arrived + 1 \in 1 .. MaxFrames /\ receiving'.number = arrived + 1
    BY <1>1, <2>1, <2>2
  <2>4. frames' \in Seq(1 .. MaxFrames)
    <3>1. Append(frames, arrived + 1) \in Seq(1 .. MaxFrames)
      BY <2>3, AppendIn DEF RelaySizes
    <3>2. QED
      BY <2>2, <3>1 DEF RelaySizes
  <2>5. QED
    BY <1>1, <2>1, <2>3, <2>4 DEF RelaySizes
<1>6. CASE Write
  <2>1. UNCHANGED <<tx_buffer, taken, frames, arrived>> /\ receiving' = NoFrame /\ receiving # NoFrame
    BY <1>6 DEF Write
  <2>2. receiving'.number = 0
    BY <2>1 DEF NoFrame
  <2>3. written' \in Seq(1 .. MaxFrames)
    <3>1. CASE UNCHANGED written
      BY <3>1 DEF RelaySizes
    <3>2. CASE ~ receiving.key /\ written' = Append(written, receiving.number)
      <4>1. Len(frames) > 0 /\ frames[Len(frames)] = receiving.number
        BY <2>1, <3>2 DEF IInv, ToDevice, InHand
      <4>2. Len(frames) \in 1 .. Len(frames)
        BY <1>1, <4>1
      <4>3. receiving.number \in 1 .. MaxFrames
        BY <4>1, <4>2, ElementIn DEF RelaySizes
      <4>4. QED
        BY <3>2, <4>3, AppendIn DEF RelaySizes
    <3>3. QED
      BY <1>6, <3>1, <3>2 DEF Write
  <2>4. QED
    BY <1>1, <2>1, <2>2, <2>3 DEF RelaySizes
<1>7. CASE Close
  <2>1. UNCHANGED <<receiving, taken, frames, written, arrived>> /\ tx_buffer' = <<>>
    BY <1>7 DEF Close, streamVars
  <2>2. Len(<<>>) = 0
    OBVIOUS
  <2>3. QED
    BY <1>1, <2>1, <2>2 DEF RelaySizes
<1>8. CASE WriteClosed
  <2>1. UNCHANGED <<tx_buffer, taken, frames, written, arrived>> /\ receiving'.number = 0
    BY <1>8 DEF WriteClosed, NoFrame
  <2>2. QED
    BY <1>1, <2>1 DEF RelaySizes
<1>9. QED
  <2>1. CASE Main \/ Open \/ SetUp \/ ConnectWebsocket
    BY <2>1, <1>2 DEF Main, Open, SetUp, ConnectWebsocket
  <2>2. CASE Wait \/ Crash \/ Stop \/ Exit
    BY <2>2, <1>2 DEF Wait, Crash, Stop, Exit
  <2>3. CASE OnClose \/ Signal \/ UNCHANGED vars
    BY <2>3, <1>2 DEF OnClose, Signal, vars, relayVars
  <2>4. QED
    BY <1>3, <1>4, <1>5, <1>6, <1>7, <1>8, <2>1, <2>2, <2>3 DEF Next, Steps

\* The bytes in the buffer and beyond are among those read.
LEMMA BytesAre ==
  ASSUME NEW s \in Seq(Nat), NEW t \in Seq(Nat), NEW n \in Nat, NEW m \in Nat, n <= m,
         s \o t = Counting(n)
  PROVE  s \in Seq(1 .. m) /\ t \in Seq(1 .. m)
<1>1. Len(s) \in Nat /\ Len(t) \in Nat
  OBVIOUS
<1>2. Len(s) + Len(t) = n
  BY CountProperties, ConcatProperties
<1>3. \A i \in 1 .. Len(s) : s[i] = Counting(n)[i]
  BY <1>1, ConcatProperties
<1>4. \A i \in 1 .. Len(t) : t[i] = Counting(n)[Len(s) + i]
  <2> TAKE i \in 1 .. Len(t)
  <2>1. Len(s) + i \in 1 .. Len(s) + Len(t) /\ ~ (Len(s) + i <= Len(s)) /\ Len(s) + i - Len(s) = i
    BY <1>1
  <2>2. (s \o t)[Len(s) + i] = t[Len(s) + i - Len(s)]
    BY <1>1, <2>1, ConcatProperties
  <2>3. QED
    BY <2>1, <2>2
<1>5. \A i \in 1 .. n : Counting(n)[i] \in 1 .. m
  BY DEF Counting
<1>6. \A i \in 1 .. Len(s) : s[i] \in 1 .. m
  BY <1>1, <1>2, <1>3, <1>5
<1>7. \A i \in 1 .. Len(t) : t[i] \in 1 .. m
  <2> TAKE i \in 1 .. Len(t)
  <2>1. Len(s) + i \in 1 .. n
    BY <1>1, <1>2
  <2>2. QED
    BY <1>4, <1>5, <2>1
<1>8. QED
  BY <1>6, <1>7, EntriesIn

\* The type invariant of the relay follows, the bytes from the order they are in.
LEMMA RelayTypeOK == IInv /\ RelayTypes /\ RelaySizes => TypeOK
<1> SUFFICES ASSUME IInv, RelayTypes, RelaySizes PROVE TypeOK
  OBVIOUS
<1>1. MaxBytes \in Nat /\ taken \in 0 .. MaxBytes
  BY BoundsAssumption DEF IInv, Types, RelaySizes
<1>2. tx_buffer \in Seq(1 .. MaxBytes) /\ sent \in Seq(1 .. MaxBytes)
  <2>1. tx_buffer \in Seq(Nat) /\ sent \in Seq(Nat) /\ taken \in Nat /\ taken <= MaxBytes
    BY <1>1 DEF IInv, Types
  <2>2. CASE AllThere
    <3>1. sent \o tx_buffer = Counting(taken)
      BY <2>2 DEF AllThere
    <3>2. QED
      BY <1>1, <2>1, <3>1, BytesAre
  <2>3. CASE SentInOrder /\ tx_buffer = <<>>
    <3>1. PICK n \in Nat : Len(sent) = n /\ sent = Counting(n) /\ n <= taken
      BY <2>1, <2>3, LenProperties DEF SentInOrder
    <3>2. \A i \in 1 .. n : i \in 1 .. MaxBytes
      BY <1>1, <2>1, <3>1
    <3>3. sent \in Seq(1 .. MaxBytes)
      <4>1. \A i \in 1 .. n : Counting(n)[i] = i
        BY CountProperties
      <4>2. \A i \in 1 .. Len(sent) : sent[i] \in 1 .. MaxBytes
        BY <3>1, <3>2, <4>1
      <4>3. QED
        BY <2>1, <4>2, EntriesIn
    <3>4. tx_buffer \in Seq(1 .. MaxBytes)
      <4>1. Len(tx_buffer) = 0
        BY <2>3
      <4>2. QED
        BY <2>1, <4>1, EntriesIn
    <3>5. QED
      BY <3>3, <3>4
  <2>4. QED
    BY <2>2, <2>3 DEF IInv, ToCloud, Dropped
<1>3. receiving \in [key : BOOLEAN, number : 0 .. MaxFrames]
  <2>1. receiving \in [key : BOOLEAN, number : Nat] /\ receiving.number \in 0 .. MaxFrames
    BY DEF IInv, Types, RelaySizes
  <2>2. QED
    BY <2>1
<1>4. {buffered, lws, TO_QUIT, result, cut} \subseteq BOOLEAN
  BY DEF RelayTypes
<1>5. {frames, written} \subseteq Seq(1 .. MaxFrames)
  BY DEF RelaySizes
<1>6. QED
  BY <1>1, <1>2, <1>3, <1>4, <1>5 DEF TypeOK, RelayTypes, RelaySizes

-----------------------------------------------------------------------------
(***************************************************************************)
(* The types of the update and of the device manager.                      *)
(***************************************************************************)
UpdateTypes ==
  /\ updateSystem \in Systems
  /\ scripts \subseteq {"pre_install", "install", "post_install", "error"}
  /\ reboots \in BOOLEAN /\ rebooting \in BOOLEAN /\ copied \in BOOLEAN
  /\ updatePc \in {"idle", "download", "wait", "open", "unpack", "copy", "start", "json",
                   "phase", "finish", "report", "done"}
  /\ directory \in {"none", "stale", "fresh"} /\ package \in {"none", "stale", "fresh"}
  /\ transfer \in {"none", "under way", "arrived", "failed"}
EntryRight == entry \in 1 .. MaxEntries + 1

\* An update begins with the types.
LEMMA UpdateInit == U!Init => UpdateTypes /\ EntryRight
<1> SUFFICES ASSUME U!Init PROVE UpdateTypes /\ EntryRight
  OBVIOUS
<1>1. UpdateTypes
  BY DEF U!Init, UpdateTypes
<1>2. MaxEntries \in Nat /\ entry = 1
  BY BoundsAssumption DEF U!Init
<1>3. EntryRight
  BY <1>2 DEF EntryRight
<1>4. QED
  BY <1>1, <1>3

\* Every step of an update keeps the types.
LEMMA UpdateStep == UpdateTypes /\ [U!Next]_(U!vars) => UpdateTypes'
<1> SUFFICES ASSUME UpdateTypes, [U!Next]_(U!vars) PROVE UpdateTypes'
  OBVIOUS
<1> USE DEF UpdateTypes, U!packageVars, U!fileVars, U!installVars
<1>1. CASE U!Prepare
  BY <1>1 DEF U!Prepare
<1>2. CASE U!Download
  BY <1>2 DEF U!Download
<1>3. CASE U!WaitForFile
  BY <1>3 DEF U!WaitForFile
<1>4. CASE U!OpenArchive
  BY <1>4 DEF U!OpenArchive
<1>5. CASE U!Unpack
  BY <1>5 DEF U!Unpack
<1>6. CASE U!Unpacked
  BY <1>6 DEF U!Unpacked
<1>7. CASE U!CopyProgram
  BY <1>7 DEF U!CopyProgram
<1>8. CASE U!RunFails
  BY <1>8 DEF U!RunFails
<1>9. CASE U!Start
  BY <1>9 DEF U!Start
<1>10. CASE U!ParseJson
  BY <1>10 DEF U!ParseJson
<1>11. CASE U!NoScript
  BY <1>11 DEF U!NoScript
<1>12. CASE U!RunScript
  <2>1. UNCHANGED <<U!packageVars, U!fileVars, rebooting, copied>>
    BY <1>12 DEF U!RunScript
  <2>2. updatePc' \in {"phase", "finish"}
    BY <1>12 DEF U!RunScript
  <2>3. QED
    BY <2>1, <2>2
<1>13. CASE U!PhasesDone
  <2>1. rebooting' \in BOOLEAN
    BY <1>13, Zenon DEF U!PhasesDone
  <2>2. updatePc' = "finish" /\ UNCHANGED <<U!packageVars, U!fileVars, copied>>
    BY <1>13 DEF U!PhasesDone
  <2>3. QED
    BY <2>1, <2>2
<1>14. CASE U!Finish
  BY <1>14 DEF U!Finish
<1>15. CASE U!Report
  BY <1>15 DEF U!Report
<1>16. CASE U!Transfer
  <2>1. transfer' \in {"arrived", "failed"} /\ package' \in {package, "fresh"}
    BY <1>16 DEF U!Transfer
  <2>2. UNCHANGED <<U!packageVars, updatePc, directory, entry, U!installVars, copied>>
    BY <1>16 DEF U!Transfer
  <2>3. UNCHANGED <<updateSystem, scripts, reboots, rebooting>>
    BY <2>2
  <2>4. /\ package' \in {"none", "stale", "fresh"}
        /\ transfer' \in {"none", "under way", "arrived", "failed"}
    BY <2>1
  <2>5. QED
    BY <2>2, <2>3, <2>4
<1>17. CASE UNCHANGED U!vars
  <2>1. UNCHANGED <<updateSystem, scripts, reboots, updatePc, directory, package, transfer>>
    BY <1>17 DEF U!vars
  <2>2. UNCHANGED <<rebooting, copied>>
    BY <1>17 DEF U!vars
  <2>3. updateSystem' \in Systems /\ reboots' \in BOOLEAN
    BY <2>1, <2>2, Zenon
  <2>4. rebooting' \in BOOLEAN /\ copied' \in BOOLEAN
    BY <2>2, Zenon
  <2>5. scripts' \subseteq {"pre_install", "install", "post_install", "error"}
    BY <2>1, Zenon
  <2>6. updatePc' \in {"idle", "download", "wait", "open", "unpack", "copy", "start", "json",
                      "phase", "finish", "report", "done"}
    BY <2>1, Zenon
  <2>7. /\ directory' \in {"none", "stale", "fresh"} /\ package' \in {"none", "stale", "fresh"}
        /\ transfer' \in {"none", "under way", "arrived", "failed"}
    BY <2>1, Zenon
  <2>8. QED
    BY <2>3, <2>4, <2>5, <2>6, <2>7, Zenon
<1>18. QED
  BY <1>1, <1>2, <1>3, <1>4, <1>5, <1>6, <1>7, <1>8, <1>9, <1>10, <1>11, <1>12, <1>13, <1>14,
     <1>15, <1>16, <1>17 DEF U!Next, U!Steps, U!DeviceManager, U!IotUpdate

\* The entries of a package are counted up to the bound.
LEMMA EntryStep == EntryRight /\ [U!Next]_(U!vars) => EntryRight'
<1> SUFFICES ASSUME EntryRight, [U!Next]_(U!vars) PROVE EntryRight'
  OBVIOUS
<1>1. CASE U!Unpack
  <2>1. MaxEntries \in Nat /\ entry <= MaxEntries /\ entry' \in {entry, entry + 1}
    BY <1>1, BoundsAssumption DEF U!Unpack
  <2>2. QED
    BY <2>1 DEF EntryRight
<1>2. CASE entry' = entry
  BY <1>2 DEF EntryRight
<1>3. QED
  BY <1>1, <1>2 DEF U!Next, U!Steps, U!DeviceManager, U!IotUpdate, U!Prepare, U!Download,
    U!WaitForFile, U!OpenArchive, U!Unpacked, U!CopyProgram, U!RunFails, U!Start, U!ParseJson,
    U!NoScript, U!RunScript, U!PhasesDone, U!Finish, U!Report, U!Transfer, U!vars, U!fileVars

\* The type invariant of the update follows, the scripts that ran from ScriptInv.
LEMMA UpdateTypeOK == ScriptInv /\ JsonInv /\ UpdateTypes /\ EntryRight => U!TypeOK
<1> SUFFICES ASSUME ScriptInv, JsonInv, UpdateTypes, EntryRight PROVE U!TypeOK
  OBVIOUS
<1>1. RanTypes /\ Len(U!Phases) = 3
  BY PhasesAre DEF ScriptInv
<1>2. {reboots, updateResult, rebooting, copied} \subseteq BOOLEAN
  BY <1>1 DEF RanTypes, UpdateTypes
<1>3. {directory, package, json} \subseteq {"none", "stale", "fresh"}
  BY DEF UpdateTypes, JsonInv
<1>4. phase \in 1 .. Len(U!Phases) + 1
  BY <1>1 DEF RanTypes
<1>5. ran \in Seq([name : {"pre_install", "install", "post_install", "error"},
                    started : BOOLEAN, ok : BOOLEAN])
  BY <1>1 DEF RanTypes, Notes
<1>6. QED
  BY <1>2, <1>3, <1>4, <1>5 DEF U!TypeOK, UpdateTypes, EntryRight

Tasks == {D!Actions[i] : i \in 1 .. Len(D!Actions)}
ConfigTypes ==
  /\ file \in {"none", "too large", "malformed", "good"}
  /\ says \in [Configurable -> {"absent", "true", "false", "not a boolean"}]
  /\ service \in BOOLEAN
MainTypes ==
  /\ iot_lib \in BOOLEAN /\ handler \in BOOLEAN /\ to_quit \in BOOLEAN
  /\ managerPc \in {"configure", "initialize", "register", "poll", "terminate", "stop", "join",
                   "free", "exited"}
  /\ quitter \in {"nobody", "signal", "quit_app"}
SupportTypes == support \in {"none", "empty", "listed"}
TableTypes == enabled \subseteq D!Ids /\ registered \subseteq Tasks
WorkTypes == work \subseteq Tasks
ControlTypes ==
  controls \subseteq {"reboot", "shutdown", "restart", "dump_log_files", "decommission_device"}
EndTypes ==
  /\ files \subseteq {"config", "runtime", "id"}
  /\ verdict \in {"none", "not found", "no permission", "success"}
  /\ system \in {"up", "rebooting", "shut down"}
  /\ cause \in {"none", "reboot", "shutdown", "decommission"}
ManagerSizes == next \in 1 .. 12 /\ failures \in 0 .. MaxFailures

ManagerTypes ==
  /\ ConfigTypes /\ MainTypes /\ SupportTypes /\ TableTypes /\ WorkTypes /\ ControlTypes
  /\ EndTypes /\ ManagerSizes

\* The device manager begins with the types.
LEMMA ManagerTypesInit == D!Init => ManagerTypes
<1> SUFFICES ASSUME D!Init PROVE ManagerTypes
  OBVIOUS
<1>1. MaxFailures \in Nat /\ Defaults \subseteq D!Ids
  BY BoundsAssumption
<1>2. ConfigTypes
  BY DEF D!Init, ConfigTypes
<1>3. MainTypes /\ SupportTypes /\ WorkTypes /\ ControlTypes
  BY DEF D!Init, MainTypes, SupportTypes, WorkTypes, ControlTypes
<1>4. TableTypes /\ EndTypes
  BY <1>1 DEF D!Init, TableTypes, EndTypes
<1>5. next = 1 /\ failures = 0
  BY DEF D!Init
<1>6. ManagerSizes
  BY <1>1, <1>5 DEF ManagerSizes
<1>7. QED
  BY <1>2, <1>3, <1>4, <1>6 DEF ManagerTypes

\* The configuration file stays what it is.
LEMMA ConfigTypesStep == ConfigTypes /\ [D!Next]_(D!vars) => ConfigTypes'
<1> SUFFICES ASSUME ConfigTypes, [D!Next]_(D!vars) PROVE ConfigTypes'
  OBVIOUS
<1>1. CASE D!ConfigRead
  BY <1>1 DEF ConfigTypes, D!ConfigRead
<1>2. CASE UNCHANGED D!configVars
  BY <1>2 DEF ConfigTypes, D!configVars
<1>3. CASE (D!Main \/ D!Join) /\ ~ D!ConfigRead
  BY <1>2, <1>3 DEF D!Main, D!Initialize, D!Register, D!Publish, D!Poll, D!Deregister,
    D!LoopStop, D!Join, D!Terminate
<1>4. CASE D!Signal \/ \E a \in Requests : D!Take(a)
  BY <1>2, <1>4 DEF D!Signal, D!Take
<1>5. CASE D!Callbacks
  BY <1>2, <1>5 DEF D!Callbacks, D!AgentQuit, D!RemoteLogin, D!FileAction, D!Answer, D!RunControl,
    D!RunControlAndWait
<1>6. CASE D!Control
  BY <1>2, <1>6 DEF D!Control, D!DeleteStep, D!Decommission, D!ControlShutdown, D!ControlUsage
<1>7. CASE UNCHANGED D!vars
  BY <1>2, <1>7 DEF D!vars
<1>8. QED
  BY <1>1, <1>3, <1>4, <1>5, <1>6, <1>7 DEF D!Next

\* The flags, the place of the main thread and who asked it to quit.
LEMMA MainTypesStep == MainTypes /\ [D!Next]_(D!vars) => MainTypes'
<1> SUFFICES ASSUME MainTypes, [D!Next]_(D!vars) PROVE MainTypes'
  OBVIOUS
<1> USE DEF MainTypes, D!configVars, D!mainVars, D!quitVars
<1>1. CASE D!ConfigRead \/ D!Initialize \/ D!Poll
  BY <1>1 DEF D!ConfigRead, D!Initialize, D!Poll
<1>2. CASE D!Register \/ D!Publish \/ D!Terminate
  BY <1>2 DEF D!Register, D!Publish, D!Terminate
<1>10. CASE D!Deregister \/ D!Join
  BY <1>10 DEF D!Deregister, D!Join
<1>11. CASE D!LoopStop
  <2>1. to_quit' \in BOOLEAN
    BY <1>11, Zenon DEF D!LoopStop
  <2>2. managerPc' \in {"join", "exited"} /\ UNCHANGED <<iot_lib, handler, quitter>>
    BY <1>11 DEF D!LoopStop
  <2>3. QED
    BY <2>1, <2>2
<1>3. CASE D!Signal
  BY <1>3 DEF D!Signal
<1>4. CASE D!AgentQuit
  BY <1>4 DEF D!AgentQuit
<1>5. CASE UNCHANGED <<D!configVars, D!mainVars, D!quitVars>>
  BY <1>5
<1>6. CASE \E a \in Requests :
             D!Take(a) \/ D!FileAction(a) \/ D!Answer(a) \/ D!RunControl(a) \/ D!RunControlAndWait(a)
  BY <1>5, <1>6 DEF D!Take, D!FileAction, D!Answer, D!RunControl, D!RunControlAndWait
<1>7. CASE D!RemoteLogin \/ D!Control
  BY <1>5, <1>7 DEF D!RemoteLogin, D!Control, D!DeleteStep, D!Decommission, D!ControlShutdown,
    D!ControlUsage
<1>8. CASE UNCHANGED D!vars
  BY <1>8 DEF D!vars
<1>9. QED
  BY <1>1, <1>2, <1>3, <1>4, <1>6, <1>7, <1>8, <1>10, <1>11 DEF D!Next, D!Main, D!Callbacks

\* The list of remote access.
LEMMA SupportTypesStep == SupportTypes /\ [D!Next]_(D!vars) => SupportTypes'
<1> SUFFICES ASSUME SupportTypes, [D!Next]_(D!vars) PROVE SupportTypes'
  OBVIOUS
<1>1. CASE UNCHANGED support
  BY <1>1 DEF SupportTypes
<1>2. CASE D!Publish
  BY <1>1, <1>2 DEF D!Publish, D!RemoteLoginUpdate, SupportTypes
<1>3. CASE (D!Main \/ D!Join) /\ ~ D!Publish
  BY <1>1, <1>3 DEF D!Main, D!ConfigRead, D!Initialize, D!Register, D!Poll, D!Deregister,
    D!LoopStop, D!Join, D!Terminate
<1>4. CASE D!Signal \/ \E a \in Requests : D!Take(a)
  BY <1>1, <1>4 DEF D!Signal, D!Take
<1>5. CASE D!Callbacks
  BY <1>1, <1>5 DEF D!Callbacks, D!AgentQuit, D!RemoteLogin, D!FileAction, D!Answer, D!RunControl,
    D!RunControlAndWait
<1>6. CASE D!Control
  BY <1>1, <1>6 DEF D!Control, D!DeleteStep, D!Decommission, D!ControlShutdown, D!ControlUsage
<1>7. CASE UNCHANGED D!vars
  BY <1>1, <1>7 DEF D!vars
<1>8. QED
  BY <1>2, <1>3, <1>4, <1>5, <1>6, <1>7 DEF D!Next

\* The steps that leave alone what iot-control does.
LEMMA ControlIdle ==
  ASSUME D!Main \/ D!Join \/ D!Signal \/ (\E a \in Requests : D!Take(a)) \/ D!AgentQuit \/ D!RemoteLogin
           \/ (\E a \in Requests : D!FileAction(a) \/ D!Answer(a)) \/ UNCHANGED D!vars
  PROVE  UNCHANGED <<controls, files, steps, verdict, system, cause>>
<1>1. CASE UNCHANGED D!controlVars
  BY <1>1 DEF D!controlVars
<1>2. CASE D!Main \/ D!Join
  BY <1>1, <1>2 DEF D!Main, D!ConfigRead, D!Initialize, D!Register, D!Publish, D!Poll, D!Deregister,
    D!LoopStop, D!Join, D!Terminate
<1>3. CASE D!Signal \/ \E a \in Requests : D!Take(a)
  BY <1>1, <1>3 DEF D!Signal, D!Take
<1>4. CASE D!AgentQuit \/ D!RemoteLogin \/ \E a \in Requests : D!FileAction(a) \/ D!Answer(a)
  BY <1>1, <1>4 DEF D!AgentQuit, D!RemoteLogin, D!FileAction, D!Answer
<1>5. CASE UNCHANGED D!vars
  BY <1>1, <1>5 DEF D!vars
<1>6. QED
  BY <1>2, <1>3, <1>4, <1>5

\* The runs of iot-control.
LEMMA ControlTypesStep == ControlTypes /\ [D!Next]_(D!vars) => ControlTypes'
<1> SUFFICES ASSUME ControlTypes, [D!Next]_(D!vars) PROVE ControlTypes'
  OBVIOUS
<1>1. CASE controls' \subseteq controls
  BY <1>1 DEF ControlTypes
<1>2. CASE \E a \in Requests : D!RunControl(a)
  BY <1>2 DEF D!RunControl, D!Option, ControlTypes
<1>3. CASE \E a \in Requests : D!RunControlAndWait(a)
  BY <1>3 DEF D!RunControlAndWait, ControlTypes
<1>4. CASE D!Control
  BY <1>1, <1>4 DEF D!Control, D!DeleteStep, D!Decommission, D!ControlShutdown, D!ControlUsage
<1>5. CASE UNCHANGED <<controls, files, steps, verdict, system, cause>>
  BY <1>1, <1>5
<1>6. QED
  BY <1>2, <1>3, <1>4, <1>5, ControlIdle DEF D!Next, D!Callbacks

\* The files, and what became of the device.
LEMMA EndTypesStep == EndTypes /\ [D!Next]_(D!vars) => EndTypes'
<1> SUFFICES ASSUME EndTypes, [D!Next]_(D!vars) PROVE EndTypes'
  OBVIOUS
<1>1. CASE UNCHANGED <<files, verdict, system, cause>>
  BY <1>1 DEF EndTypes
<1>2. CASE \E a \in Requests : D!RunControl(a)
  BY <1>1, <1>2 DEF D!RunControl
<1>3. CASE \E a \in Requests : D!RunControlAndWait(a)
  BY <1>3 DEF D!RunControlAndWait, EndTypes
<1>4. CASE D!DeleteStep
  <2>1. files' \subseteq files /\ UNCHANGED <<system, cause>>
    BY <1>4 DEF D!DeleteStep
  <2>2. verdict' \in {verdict, "success", "no permission"}
    BY <1>4 DEF D!DeleteStep, D!FailedStep
  <2>3. QED
    BY <2>1, <2>2 DEF EndTypes
<1>5. CASE D!Decommission
  BY <1>5 DEF D!Decommission, D!Shutdown, EndTypes
<1>6. CASE \E o \in {"reboot", "shutdown", "restart", "dump_log_files"} : D!ControlShutdown(o)
  BY <1>6 DEF D!ControlShutdown, D!Shutdown, EndTypes
<1>7. CASE \E o \in {"reboot", "shutdown", "restart", "dump_log_files"} : D!ControlUsage(o)
  BY <1>1, <1>7 DEF D!ControlUsage
<1>8. CASE UNCHANGED <<controls, files, steps, verdict, system, cause>>
  BY <1>1, <1>8
<1>9. QED
  BY <1>2, <1>3, <1>4, <1>5, <1>6, <1>7, <1>8, ControlIdle DEF D!Next, D!Callbacks, D!Control

\* The next action to register is one of the table.
LEMMA NextTask ==
  ASSUME ManagerSizes, next <= Len(D!Actions)
  PROVE  D!Actions[next] \in Tasks
<1>1. Len(D!Actions) = 11
  BY DEF D!Actions
<1>2. next \in 1 .. Len(D!Actions)
  BY <1>1 DEF ManagerSizes
<1>3. QED
  BY <1>2 DEF Tasks

\* What is registered and served is in the table of actions.
LEMMA TableTypesStep == TableTypes /\ WorkTypes /\ ManagerSizes /\ [D!Next]_(D!vars) => TableTypes' /\ WorkTypes'
<1> SUFFICES ASSUME TableTypes, WorkTypes, ManagerSizes, [D!Next]_(D!vars) PROVE TableTypes' /\ WorkTypes'
  OBVIOUS
<1>1. CASE D!Register
  <2>1. D!Actions[next] \in Tasks
    BY <1>1, NextTask DEF D!Register
  <2>2. registered' \subseteq registered \cup {D!Actions[next]} /\ enabled' = enabled /\ work' = work
    BY <1>1 DEF D!Register, D!configVars
  <2>3. QED
    BY <2>1, <2>2 DEF TableTypes, WorkTypes
<1>2. CASE D!ConfigRead
  BY <1>2 DEF D!ConfigRead, TableTypes, WorkTypes
<1>3. CASE \E a \in Requests : D!Take(a)
  BY <1>3 DEF D!Take, D!configVars, D!mainVars, TableTypes, WorkTypes
<1>4. CASE work' \subseteq work /\ registered' \subseteq registered /\ enabled' = enabled
  BY <1>4 DEF TableTypes, WorkTypes
<1>5. CASE (D!Main \/ D!Join) /\ ~ D!Register /\ ~ D!ConfigRead
  BY <1>4, <1>5 DEF D!Main, D!Initialize, D!Publish, D!Poll, D!Deregister,
    D!LoopStop, D!Join, D!Terminate,
    D!configVars
<1>6. CASE D!Signal
  BY <1>4, <1>6 DEF D!Signal, D!configVars
<1>7. CASE D!Callbacks
  BY <1>4, <1>7 DEF D!Callbacks, D!AgentQuit, D!RemoteLogin, D!FileAction, D!Answer, D!Served,
    D!RunControl, D!RunControlAndWait, D!configVars, D!mainVars
<1>8. CASE D!Control
  BY <1>4, <1>8 DEF D!Control, D!DeleteStep, D!Decommission, D!ControlShutdown, D!ControlUsage,
    D!configVars, D!mainVars
<1>9. CASE UNCHANGED D!vars
  BY <1>4, <1>9 DEF D!vars, D!configVars, D!mainVars
<1>10. QED
  BY <1>1, <1>2, <1>3, <1>5, <1>6, <1>7, <1>8, <1>9 DEF D!Next

\* The table is gone through once, and failures are bounded.
LEMMA ManagerSizesStep == ManagerSizes /\ [D!Next]_(D!vars) => ManagerSizes'
<1> SUFFICES ASSUME ManagerSizes, [D!Next]_(D!vars) PROVE ManagerSizes'
  OBVIOUS
<1>1. CASE D!Register
  <2>1. Len(D!Actions) = 11
    BY DEF D!Actions
  <2>2. next <= Len(D!Actions) /\ next' = next + 1
    BY <1>1 DEF D!Register
  <2>3. next' \in 1 .. 12
    BY <2>1, <2>2 DEF ManagerSizes
  <2>4. MaxFailures \in Nat
    BY BoundsAssumption
  <2>5. failures' = failures \/ (failures < MaxFailures /\ failures' = failures + 1)
    BY <1>1 DEF D!Register
  <2>6. QED
    BY <2>3, <2>4, <2>5 DEF ManagerSizes
<1>2. CASE UNCHANGED <<next, failures>>
  BY <1>2 DEF ManagerSizes
<1>3. CASE (D!Main \/ D!Join) /\ ~ D!Register
  BY <1>2, <1>3 DEF D!Main, D!ConfigRead, D!Initialize, D!Publish, D!Poll, D!Deregister,
    D!LoopStop, D!Join, D!Terminate
<1>4. CASE D!Signal \/ (\E a \in Requests : D!Take(a))
  BY <1>2, <1>4 DEF D!Signal, D!Take, D!mainVars
<1>5. CASE D!Callbacks
  BY <1>2, <1>5 DEF D!Callbacks, D!AgentQuit, D!RemoteLogin, D!FileAction, D!Answer,
    D!RunControl, D!RunControlAndWait, D!mainVars
<1>6. CASE D!Control
  BY <1>2, <1>6 DEF D!Control, D!DeleteStep, D!Decommission, D!ControlShutdown, D!ControlUsage,
    D!mainVars
<1>7. CASE UNCHANGED D!vars
  BY <1>2, <1>7 DEF D!vars, D!mainVars
<1>8. QED
  BY <1>1, <1>3, <1>4, <1>5, <1>6, <1>7 DEF D!Next

\* Every step of the device manager keeps the types.
LEMMA ManagerTypesStep == ManagerTypes /\ [D!Next]_(D!vars) => ManagerTypes'
BY ConfigTypesStep, MainTypesStep, SupportTypesStep, ControlTypesStep, EndTypesStep,
   TableTypesStep, ManagerSizesStep
DEF ManagerTypes

\* The type invariant of the device manager follows, the steps from ManagerInv.
LEMMA ManagerTypeOK == ManagerTypes /\ ManagerInv => D!TypeOK
<1> SUFFICES ASSUME ManagerTypes, ManagerInv PROVE D!TypeOK
  OBVIOUS
<1>1. {service, iot_lib, handler, to_quit} \subseteq BOOLEAN
  BY DEF ManagerTypes, ConfigTypes, MainTypes
<1>2. Len(D!DeviceFiles) + 1 = 4
  BY FilesAre
<1>3. next \in 1 .. Len(D!Actions) + 1
  <2>1. Len(D!Actions) + 1 = 12
    BY DEF D!Actions
  <2>2. QED
    BY <2>1 DEF ManagerTypes, ManagerSizes
<1>4. failures \in 0 .. MaxFailures
  BY DEF ManagerTypes, ManagerSizes
<1>5. steps \in 0 .. Len(D!DeviceFiles) + 1
  BY <1>2 DEF ManagerInv, Decommissioning
<1>6. QED
  BY <1>1, <1>3, <1>4, <1>5 DEF D!TypeOK, ManagerTypes, ConfigTypes, MainTypes,
    SupportTypes, TableTypes, WorkTypes, ControlTypes, EndTypes, Tasks

-----------------------------------------------------------------------------
(***************************************************************************)
(* The composition.                                                        *)
(***************************************************************************)
LEMMA PartsStep ==
  [AllNext]_allVars => [Next]_vars /\ [U!Next]_(U!vars) /\ [D!Next]_(D!vars) /\ [C!Next]_(C!vars)
<1> SUFFICES ASSUME [AllNext]_allVars
             PROVE  [Next]_vars /\ [U!Next]_(U!vars) /\ [D!Next]_(D!vars) /\ [C!Next]_(C!vars)
  OBVIOUS
<1>1. UNCHANGED managerAll => UNCHANGED D!vars
  BY DEF managerAll, D!vars, D!configVars, D!mainVars, D!quitVars, D!controlVars
<1>2. UNCHANGED updateAll => UNCHANGED U!vars
  BY DEF updateAll, U!vars, U!packageVars, U!fileVars, U!installVars
<1>3. UNCHANGED controlAll => UNCHANGED C!vars
  BY DEF controlAll, C!vars
<1>4. CASE AllNext
  BY <1>1, <1>2, <1>3, <1>4 DEF AllNext
<1>5. CASE UNCHANGED allVars
  BY <1>1, <1>2, <1>3, <1>5 DEF allVars
<1>6. QED
  BY <1>4, <1>5

Whole ==
  /\ IInv /\ RelayTypes /\ RelaySizes
  /\ ScriptInv /\ JsonInv /\ UpdateTypes /\ EntryRight
  /\ ManagerInv /\ LibRight /\ ManagerTypes
  /\ Dialogue

(* The dialogue of iot-control, for every schema that is built like the one  *)
(* of the connect file and whatever the user types: every value that can be  *)
(* asked for in any case is asked for once and in the order of the schema,   *)
(* and a file that is written holds what its objects require                 *)
(* (control_config_schema_object).                                           *)
THEOREM PromptsAreRight == C!Spec => []PromptsRight
<1>1. Dialogue => PromptsRight
  BY DialogueRight
<1>2. QED
  BY <1>1, DialogueInit, DialogueNext, PTL DEF C!Spec

(* In every behaviour that the model checker explores, and for any           *)
(* constants, the variables of the four programs have their types.           *)
THEOREM TypesAreKept == AllSpec => []TypesOK
<1>1. AllInit => Whole
  BY InitInv, RelayInit, ScriptInit, JsonInit, UpdateInit, ManagerInit,
     LibInit, ManagerTypesInit, DialogueInit
  DEF AllInit, Whole
<1>2. Whole /\ [AllNext]_allVars => Whole'
  BY PartsStep, RelayInv, RelayTypesStep, RelaySizesStep, ScriptStep, JsonStep, UpdateStep,
     EntryStep, ManagerStep, LibStep, ManagerTypesStep, DialogueNext
  DEF Whole
<1>3. Whole => TypesOK
  BY RelayTypeOK, UpdateTypeOK, ManagerTypeOK, DialogueRight DEF Whole, TypesOK
<1>4. QED
  BY <1>1, <1>2, <1>3, PTL DEF AllSpec

(* The four programs together: what is shown of each holds in every          *)
(* behaviour that the model checker explores.                                *)
THEOREM ProgramsAreRight ==
  AllSpec => [](StreamsKept /\ ScriptsInOrder /\ CommandsObeyed /\ PromptsRight)
<1>1. AllInit => Whole
  BY InitInv, RelayInit, ScriptInit, JsonInit, UpdateInit, ManagerInit,
     LibInit, ManagerTypesInit, DialogueInit
  DEF AllInit, Whole
<1>2. Whole /\ [AllNext]_allVars => Whole'
  BY PartsStep, RelayInv, RelayTypesStep, RelaySizesStep, ScriptStep, JsonStep, UpdateStep,
     EntryStep, ManagerStep, LibStep, ManagerTypesStep, DialogueNext
  DEF Whole
<1>3. Whole => StreamsKept /\ ScriptsInOrder /\ CommandsObeyed /\ PromptsRight
  BY Promised, ScriptsPromised, ManagerPromised, DialogueRight
  DEF Whole, ScriptsInOrder, CommandsObeyed
<1>4. QED
  BY <1>1, <1>2, <1>3, PTL DEF AllSpec
=============================================================================
