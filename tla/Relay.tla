------------------------------- MODULE Relay -------------------------------
(***************************************************************************)
(* The relay program (relay_main.c): it carries bytes between a socket of  *)
(* the device and a websocket of the cloud.  The callbacks of the          *)
(* websocket run inside the loop with libwebsockets and on a thread of     *)
(* their own with civetweb; either library may write less than it is asked *)
(* to.                                                                     *)
(*                                                                         *)
(* Bytes of the device are numbers in the order in which they are read;    *)
(* the cloud sends frames, each of which is the connection key or data.    *)
(***************************************************************************)
EXTENDS Integers, Sequences

CONSTANTS
  Libraries,          \* subset of libwebsockets, civetweb
  RELAY_BUFFER_SIZE,
  MaxBytes,           \* bound: bytes the device sends
  MaxFrames           \* bound: frames the cloud sends

VARIABLES
  library, bind,      \* build and argument of the program
  pc,                 \* place in relay_client
  state,              \* enum relay_state
  tx_buffer,          \* bytes waiting for the websocket
  buffered,           \* has the buffer been allocated?
  lws,                \* is there a connection of the websocket?
  TO_QUIT,
  result,             \* EXIT_SUCCESS?
  receiving,          \* the frame in relay_on_receive, or NoFrame
  taken, sent,        \* bytes read from the socket, and written to the websocket
  frames, written,    \* data frames received, and written to the socket
  cut,                \* history: has a write to the socket been cut short?
  arrived             \* counter of the bound

relayVars == <<pc, state, tx_buffer, buffered, lws, TO_QUIT, result, receiving>>
streamVars == <<taken, sent, frames, written, cut, arrived>>
vars == <<library, bind, relayVars, streamVars>>

NoFrame == [key |-> FALSE, number |-> 0]

Init ==
  /\ library \in Libraries /\ bind \in BOOLEAN
  /\ pc = "main" /\ state = "CONNECT" /\ tx_buffer = <<>> /\ buffered = FALSE /\ lws = FALSE
  /\ TO_QUIT = FALSE /\ result = FALSE /\ receiving = NoFrame
  /\ taken = 0 /\ sent = <<>> /\ frames = <<>> /\ written = <<>> /\ cut = FALSE
  /\ arrived = 0

-----------------------------------------------------------------------------
(***************************************************************************)
(* relay_main, and relay_client up to the websocket.                       *)
(***************************************************************************)
\* Wrong arguments, a library that cannot be initialised or a host that is not
\* found end the program; until the handler is set, so does a signal.
Main ==
  /\ pc = "main"
  /\ pc' \in {"open", "done"}
  /\ UNCHANGED <<library, bind, state, tx_buffer, buffered, lws, TO_QUIT, result, receiving,
                 streamVars>>

\* The socket is opened, and with "bind" a program of the device has
\* connected to it; either may fail.
Open ==
  /\ pc = "open"
  /\ \/ /\ state' = IF bind THEN "BOUND" ELSE "CONNECT"
        /\ result' = TRUE /\ pc' = "setup"
     \/ /\ state' \in IF bind THEN {"CONNECT", "BIND"} ELSE {"CONNECT"}
        /\ result' = FALSE /\ pc' = "close"
  /\ UNCHANGED <<library, bind, tx_buffer, buffered, lws, TO_QUIT, receiving, streamVars>>

\* With civetweb the result of parsing the address replaces the failure of
\* the allocation.
SetUp ==
  /\ pc = "setup"
  /\ buffered' \in BOOLEAN
  /\ \E created \in BOOLEAN :
       /\ result' = IF library = "civetweb" THEN TRUE ELSE buffered' /\ created
       /\ pc' = IF result' THEN "websocket" ELSE "close"
  /\ UNCHANGED <<library, bind, state, tx_buffer, lws, TO_QUIT, receiving, streamVars>>

ConnectWebsocket ==
  /\ pc = "websocket"
  /\ lws' \in BOOLEAN
  /\ pc' = IF lws' THEN "wait" ELSE "close"
  /\ UNCHANGED <<library, bind, state, tx_buffer, buffered, TO_QUIT, result, receiving,
                 streamVars>>

-----------------------------------------------------------------------------
(***************************************************************************)
(* The two loops.                                                          *)
(***************************************************************************)
\* With libwebsockets a callback is a part of the loop's step.
Free == library = "civetweb" \/ receiving = NoFrame

\* Mutant: the wait does not look at the flag.
WaitDeaf ==
  /\ pc = "wait" /\ state = "CONNECTED"
  /\ pc' = "read"
  /\ UNCHANGED <<library, bind, state, tx_buffer, buffered, lws, TO_QUIT, result, receiving,
                 streamVars>>

Wait ==
  /\ Free /\ pc = "wait"
  /\ \/ state = "CONNECTED" /\ pc' = "read" /\ UNCHANGED result
     \/ state # "CONNECTED" /\ TO_QUIT /\ pc' = "close" /\ result' = FALSE
  /\ UNCHANGED <<library, bind, state, tx_buffer, buffered, lws, TO_QUIT, receiving, streamVars>>

\* Mutant: what waits in the buffer is not counted.
RoomWhole == RELAY_BUFFER_SIZE

\* One round of the second loop first reads from the socket, as much as there
\* is room for.
Room == RELAY_BUFFER_SIZE - Len(tx_buffer)

Read ==
  /\ Free /\ pc = "read" /\ ~ TO_QUIT
  /\ buffered
  /\ \/ \E n \in 0 .. Room :
          /\ taken + n <= MaxBytes
          /\ tx_buffer' = tx_buffer \o [i \in 1 .. n |-> taken + i]
          /\ taken' = taken + n /\ UNCHANGED TO_QUIT
     \/ TO_QUIT' = TRUE /\ UNCHANGED <<tx_buffer, taken>>       \* the read fails
  /\ pc' = "send"
  /\ UNCHANGED <<library, bind, state, buffered, lws, result, receiving, sent, frames, written,
                 cut, arrived>>

\* Without a buffer the read writes to nowhere.
Crash ==
  /\ pc = "read" /\ ~ TO_QUIT /\ ~ buffered
  /\ pc' = "crashed"
  /\ UNCHANGED <<library, bind, state, tx_buffer, buffered, lws, TO_QUIT, result, receiving,
                 streamVars>>

\* Mutant: what is left after a write cut short is not moved up.
SendForgets(n) ==
  /\ tx_buffer' = SubSeq(tx_buffer, 1, Len(tx_buffer) - n)
  /\ sent' = sent \o SubSeq(tx_buffer, 1, n)

\* relay_on_send: the library has written n bytes.
OnSend(n) ==
  /\ tx_buffer' = SubSeq(tx_buffer, n + 1, Len(tx_buffer))
  /\ sent' = sent \o SubSeq(tx_buffer, 1, n)

Send ==
  /\ Free /\ pc = "send"
  /\ \E n \in 0 .. Len(tx_buffer) : OnSend(n)
  /\ pc' = "read"
  /\ UNCHANGED <<library, bind, state, buffered, lws, TO_QUIT, result, receiving, taken, frames,
                 written, cut, arrived>>

Stop ==
  /\ Free /\ pc = "read" /\ TO_QUIT
  /\ pc' = "close"
  /\ UNCHANGED <<library, bind, state, tx_buffer, buffered, lws, TO_QUIT, result, receiving,
                 streamVars>>

(* The end of relay_client: what has not been sent is thrown away with the   *)
(* buffer.  libwebsockets closes the connection and calls back for it;       *)
(* civetweb is not told, and its thread goes on.                             *)
Close ==
  /\ Free /\ pc = "close"
  /\ pc' = "closed"
  /\ tx_buffer' = <<>> /\ buffered' = FALSE
  /\ lws' = (lws /\ library = "civetweb")
  /\ TO_QUIT' \in {TO_QUIT, TO_QUIT \/ library = "libwebsockets"}
  /\ UNCHANGED <<library, bind, state, result, receiving, streamVars>>

Exit ==
  /\ pc = "closed"
  /\ pc' = "done"
  /\ UNCHANGED <<library, bind, state, tx_buffer, buffered, lws, TO_QUIT, result, receiving,
                 streamVars>>

-----------------------------------------------------------------------------
(***************************************************************************)
(* What the websocket and the signals do.                                  *)
(***************************************************************************)
\* libwebsockets calls back from lws_service, in either loop; civetweb from
\* its thread, as long as the program runs.
Serviced ==
  /\ lws
  /\ \/ library = "libwebsockets" /\ pc \in {"wait", "send"}
     \/ library = "civetweb" /\ pc \in {"wait", "read", "send", "close", "closed"}

\* relay_on_receive: the first frame makes the relay connect its socket.
OnReceive ==
  /\ Serviced /\ receiving = NoFrame /\ arrived < MaxFrames
  /\ arrived' = arrived + 1
  /\ \E key \in BOOLEAN :
       /\ receiving' = [key |-> key, number |-> arrived + 1]
       /\ frames' = IF key THEN frames ELSE Append(frames, arrived + 1)
  /\ \/ state = "CONNECT" /\ state' = "CONNECTED" /\ UNCHANGED TO_QUIT
     \/ state = "CONNECT" /\ TO_QUIT' = TRUE /\ UNCHANGED state
     \/ state # "CONNECT" /\ UNCHANGED <<state, TO_QUIT>>
  /\ UNCHANGED <<library, bind, pc, tx_buffer, buffered, lws, result, taken, sent, written, cut>>

\* The data then goes to the socket; what is not written is forgotten.  An
\* unconnected socket takes nothing.
Write ==
  /\ receiving # NoFrame /\ pc \notin {"closed", "done", "crashed"}
  /\ \/ receiving.key /\ UNCHANGED <<written, cut>>
     \/ ~ receiving.key /\ state # "CONNECT"
        /\ written' = Append(written, receiving.number) /\ UNCHANGED cut
     \/ ~ receiving.key /\ cut' = TRUE /\ UNCHANGED written
  /\ receiving' = NoFrame
  /\ UNCHANGED <<library, bind, pc, state, tx_buffer, buffered, lws, TO_QUIT, result, taken,
                 sent, frames, arrived>>

\* Once relay_client has returned, the callback uses a closed socket and memory
\* that is no longer its own.
WriteClosed ==
  /\ receiving # NoFrame /\ pc = "closed"
  /\ pc' \in {"closed", "crashed"}
  /\ cut' = TRUE /\ receiving' = NoFrame
  /\ UNCHANGED <<library, bind, state, tx_buffer, buffered, lws, TO_QUIT, result, taken,
                 sent, frames, written, arrived>>

\* The websocket is closed (LWS_CALLBACK_CLOSED, relay_civetweb_on_close), or
\* a signal asks the program to end.
OnClose ==
  /\ Serviced /\ receiving = NoFrame /\ ~ TO_QUIT
  /\ TO_QUIT' = TRUE
  /\ UNCHANGED <<library, bind, pc, state, tx_buffer, buffered, lws, result, receiving,
                 streamVars>>

Signal ==
  /\ pc \notin {"main", "done", "crashed"} /\ ~ TO_QUIT
  /\ TO_QUIT' = TRUE
  /\ UNCHANGED <<library, bind, pc, state, tx_buffer, buffered, lws, result, receiving,
                 streamVars>>

Steps == \/ SetUp \/ ConnectWebsocket \/ Wait \/ Read \/ Crash \/ Send \/ Stop \/ Close \/ Exit
         \/ Write \/ WriteClosed
Next == Main \/ Open \/ Steps \/ OnReceive \/ OnClose \/ Signal

(* The program's own steps go on: its reads and waits have time limits, and  *)
(* a callback returns.  The wait for a program of the device has no limit.   *)
Spec == Init /\ [][Next]_vars /\ WF_vars(Steps)

-----------------------------------------------------------------------------
(***************************************************************************)
(* Properties.                                                             *)
(***************************************************************************)

\* Every variable has its type; the buffer is never overfull.
TypeOK ==
  /\ library \in Libraries /\ bind \in BOOLEAN
  /\ pc \in {"main", "open", "setup", "websocket", "wait", "read", "send", "close", "closed",
             "done", "crashed"}
  /\ state \in {"CONNECT", "BIND", "CONNECTED", "BOUND"}
  /\ tx_buffer \in Seq(1 .. MaxBytes) /\ Len(tx_buffer) <= RELAY_BUFFER_SIZE
  /\ {buffered, lws, TO_QUIT, result, cut} \subseteq BOOLEAN
  /\ receiving \in [key : BOOLEAN, number : 0 .. MaxFrames]
  /\ taken \in 0 .. MaxBytes /\ sent \in Seq(1 .. MaxBytes)
  /\ {frames, written} \subseteq Seq(1 .. MaxFrames) /\ arrived \in 0 .. MaxFrames

Counting(n) == [i \in 1 .. n |-> i]

(* Whatever the library leaves unwritten, and whenever a callback comes, the *)
(* cloud receives the bytes of the device in order and none twice or left    *)
(* out; what has been read and not sent is there until the relay closes,     *)
(* which throws it away; and as long as no write to the socket was cut       *)
(* short, the device receives the frames that are data (relay_client,        *)
(* relay_on_send, relay_on_receive).                                         *)
StreamsKept ==
  /\ sent = Counting(Len(sent)) /\ Len(sent) <= taken
  /\ pc \notin {"closed", "done", "crashed"} => sent \o tx_buffer = Counting(taken)
  /\ ~ cut => written = (IF receiving = NoFrame \/ receiving.key THEN frames
                         ELSE SubSeq(frames, 1, Len(frames) - 1))

(* A close of the websocket or a signal ends the program, wherever it is     *)
(* once its socket is open (relay_client).                                   *)
Quits == (TO_QUIT /\ pc # "open") ~> (pc \in {"done", "crashed"})
=============================================================================
