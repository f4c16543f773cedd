--------------------------- MODULE FileTransfers ---------------------------
(***************************************************************************)
(* File transfers of the tr50 plug-in.                                     *)
(*                                                                         *)
(* A thread of the application looks at the local side of a transfer, asks *)
(* the cloud for it and notes it in the array data->file_transfer_queue;   *)
(* the place in the array is the identifier of the request.  The reply     *)
(* makes the MQTT thread start a thread for that place, which moves the    *)
(* file, reports to the application, and closes the gap in the array.      *)
(* Nothing locks the array, and the thread holds a pointer to its place    *)
(* while others move the contents.                                         *)
(*                                                                         *)
(* An array that is used like a stack needs no lock: as long as only the   *)
(* last place is taken away, no request overlaps another one or a removal, *)
(* and no reply overtakes the note of its request, every place belongs to  *)
(* one transfer.  `disturbed' says that something else has happened.       *)
(***************************************************************************)
EXTENDS Integers, FiniteSets

CONSTANTS
  Transfers,  \* calls of iot_file_download and iot_file_upload
  Archives,   \* the uploads of a .tar file, deleted when they are done
  Uploads,    \* the uploads
  NoFile,     \* zeroed memory
  Mixed,      \* content that is no file of the cloud's: a partial file left by an
              \* earlier attempt, continued with another file
  TR50_FILE_TRANSFER_MAX   \* places in the array

ASSUME SizeAssumption == TR50_FILE_TRANSFER_MAX \in Nat \ {0}
ASSUME FilesAssumption == /\ Archives \subseteq Uploads /\ Uploads \subseteq Transfers
                          /\ {NoFile, Mixed} \cap Transfers = {} /\ NoFile # Mixed

Slots == 0 .. TR50_FILE_TRANSFER_MAX - 1
Files == Transfers \cup {NoFile}
\* A place: whose path, operation and user data; the callback and the checksum,
\* which a removal moves; the url of the last reply; whose handle of libcurl.
Places == [path : Files, callback : Files, crc32 : Files, url : Files, lib_curl : Files]
Zeroed == [path |-> NoFile, callback |-> NoFile, crc32 |-> NoFile, url |-> NoFile,
           lib_curl |-> NoFile]

VARIABLES
  file_transfer_queue, file_transfer_count,
  prepared,       \* transfers whose local side iot_file_transfer has accepted
  sending,        \* transfers tr50_file_request_send has asked for and will note
  requests, answers, \* requests and replies on their way
  thread, slot,   \* place of each transfer's thread, and its pointer
  file_path, url, \* what the thread copied when it began, and then the content
                  \* it has received
  result,         \* its result
  saved, uploaded, deleted, \* content of each local file; files that reached
                  \* the cloud; local files deleted
  reports,        \* history: reports to each callback
  refused,        \* history: transfers that will not begin
  disturbed,      \* history: has the array been used otherwise than as a stack?
  wild            \* has memory beyond the array been moved, or the handle of
                  \* another thread been used?

fileVars == <<file_transfer_queue, file_transfer_count, prepared, sending, requests, answers,
          thread, slot, file_path, url, result, saved, uploaded, deleted,
          reports, refused, disturbed, wild>>
queueVars  == <<file_transfer_queue, file_transfer_count>>
askVars   == <<prepared, sending, requests, answers, refused>>
threadVars == <<slot, file_path, url>>
diskVars   == <<saved, uploaded, deleted>>
stateVars  == <<disturbed, wild>>

FileInit ==
  /\ file_transfer_queue = [i \in Slots |-> Zeroed]
  /\ file_transfer_count = 0
  /\ prepared = {} /\ sending = {} /\ requests = {} /\ answers = {}
  /\ thread = [f \in Transfers |-> "none"]
  /\ slot = [f \in Transfers |-> 0]
  /\ file_path = [f \in Transfers |-> NoFile]
  /\ url = [f \in Transfers |-> NoFile]
  /\ result = [f \in Transfers |-> "none"]
  /\ saved = [f \in Transfers |-> NoFile]
  /\ uploaded = {} /\ deleted = {} /\ refused = {}
  /\ reports = [f \in Transfers |-> {}]
  /\ disturbed = FALSE /\ wild = FALSE

-----------------------------------------------------------------------------
(***************************************************************************)
(* iot_file_transfer: a relative path is put below a directory of the      *)
(* library; the file of an upload must be there, and a directory is packed *)
(* into an archive (iot_file_archive_directory), which must not be empty;  *)
(* the directory of a download is made when it is missing.                 *)
(***************************************************************************)
Fresh(f) == /\ f \notin prepared \cup sending \cup refused /\ thread[f] = "none"
            /\ \A r \in requests \cup answers : r.file # f

Prepare(f) ==
  /\ ~ wild /\ Fresh(f)
  /\ \/ prepared' = prepared \cup {f} /\ UNCHANGED refused
     \/ refused' = refused \cup {f} /\ UNCHANGED prepared
  /\ UNCHANGED <<queueVars, sending, requests, answers, thread, threadVars, result,
                 diskVars, reports, stateVars>>

(***************************************************************************)
(* tr50_file_request_send: the request goes out with the place it will     *)
(* have, and is noted afterwards, in the place that is then the next one.  *)
(***************************************************************************)
Request(f) ==
  /\ ~ wild /\ f \in prepared
  /\ file_transfer_count < TR50_FILE_TRANSFER_MAX
  /\ prepared' = prepared \ {f}
  /\ \/ /\ requests' = requests \cup {[file |-> f, id |-> file_transfer_count]}
        /\ sending' = sending \cup {f}
        /\ disturbed' = (disturbed \/ sending # {})
        /\ UNCHANGED refused
     \/ /\ refused' = refused \cup {f}       \* the publication fails
        /\ UNCHANGED <<requests, sending, disturbed>>
  /\ UNCHANGED <<queueVars, answers, thread, threadVars, result, diskVars, reports, wild>>

Full(f) ==
  /\ ~ wild /\ f \in prepared
  /\ file_transfer_count >= TR50_FILE_TRANSFER_MAX
  /\ prepared' = prepared \ {f}
  /\ refused' = refused \cup {f}
  /\ UNCHANGED <<queueVars, sending, requests, answers, thread, threadVars, result,
                 diskVars, reports, stateVars>>

\* The room has been tested before the request went out, not here.
Note(f) ==
  /\ ~ wild /\ f \in sending
  /\ sending' = sending \ {f}
  /\ IF file_transfer_count < TR50_FILE_TRANSFER_MAX
     THEN /\ file_transfer_queue' = [file_transfer_queue EXCEPT ![file_transfer_count] =
               [Zeroed EXCEPT !.path = f, !.callback = f]]
          /\ file_transfer_count' = file_transfer_count + 1
          /\ UNCHANGED wild
     ELSE wild' = TRUE /\ UNCHANGED queueVars
  /\ UNCHANGED <<prepared, requests, answers, refused, thread, threadVars, result,
                 diskVars, reports, disturbed>>

(***************************************************************************)
(* The cloud grants a request, with the identifier it came with, or refuses*)
(* it.  The thread that asks may be slower than the cloud.                 *)
(***************************************************************************)
Answer(r, success) ==
  /\ ~ wild /\ r \in requests
  /\ requests' = requests \ {r}
  /\ answers' = answers \cup {[file |-> r.file, id |-> r.id, success |-> success]}
  /\ UNCHANGED <<queueVars, prepared, sending, refused, thread, threadVars, result, diskVars,
                 reports, stateVars>>

(***************************************************************************)
(* tr50_on_message: a place with a path gets the url and the checksum of   *)
(* the reply, and a thread.  Every other reply is dropped.                 *)
(***************************************************************************)
Granted(r) == r.success /\ file_transfer_queue[r.id].path # NoFile

Begin(r) ==
  /\ ~ wild /\ r \in answers /\ Granted(r)
  /\ answers' = answers \ {r}
  /\ file_transfer_queue' = [file_transfer_queue EXCEPT
       ![r.id].url = r.file, ![r.id].crc32 = r.file]
  /\ \/ /\ thread' = [thread EXCEPT ![r.file] = "open"]
        /\ slot' = [slot EXCEPT ![r.file] = r.id]
        /\ UNCHANGED refused
     \/ /\ refused' = refused \cup {r.file}  \* os_thread_create fails
        /\ UNCHANGED <<thread, slot>>
  /\ disturbed' = (disturbed \/ r.file \in sending)
  /\ UNCHANGED <<file_transfer_count, prepared, sending, requests, file_path, url, result,
                 diskVars, reports, wild>>

Drop(r) ==
  /\ ~ wild /\ r \in answers /\ ~ Granted(r)
  /\ answers' = answers \ {r}
  /\ refused' = refused \cup {r.file}
  /\ UNCHANGED <<queueVars, prepared, sending, requests, thread, threadVars, result, diskVars,
                 reports, stateVars>>

-----------------------------------------------------------------------------
(***************************************************************************)
(* tr50_file_transfer.                                                     *)
(***************************************************************************)
Place(f) == file_transfer_queue[slot[f]]

\* The URL library does not start, or the file does not open: BAD_PARAMETER.
Open(f) ==
  /\ ~ wild /\ thread[f] = "open"
  /\ \/ /\ file_path' = [file_path EXCEPT ![f] = Place(f).path]
        /\ url' = [url EXCEPT ![f] = Place(f).url]
        /\ file_transfer_queue' = [file_transfer_queue EXCEPT ![slot[f]].lib_curl = f]
        /\ thread' = [thread EXCEPT ![f] = "move"]
        /\ UNCHANGED result
     \/ /\ result' = [result EXCEPT ![f] = "BAD_PARAMETER"]
        /\ \E handle \in {NoFile, f} : file_transfer_queue' =
             [file_transfer_queue EXCEPT ![slot[f]].lib_curl = handle]
        /\ thread' = [thread EXCEPT ![f] = "check"]
        /\ UNCHANGED <<file_path, url>>
  /\ UNCHANGED <<file_transfer_count, askVars, slot, diskVars, reports, stateVars>>

\* The thread finds its handle of libcurl in the place each time it needs it: it
\* can lose the handle to a note, but it must not use that of another thread.
OwnHandle(f) == Place(f).lib_curl \in {f, NoFile}

Stray(f) ==
  /\ ~ wild /\ thread[f] = "move" /\ ~ OwnHandle(f)
  /\ wild' = TRUE
  /\ UNCHANGED <<queueVars, askVars, thread, threadVars, result, diskVars, reports, disturbed>>

\* One attempt after another, without a limit (IOT_TRANSFER_MAX_RETRIES is -1),
\* until one succeeds or the cloud refuses; a download goes on where the partial
\* file it finds ends.
Move(f) ==
  /\ ~ wild /\ thread[f] = "move" /\ OwnHandle(f)
  /\ \/ /\ result' = [result EXCEPT ![f] = "SUCCESS"]
        /\ \E content \in {url[f], Mixed} : url' = [url EXCEPT ![f] = content]
        /\ uploaded' = IF Place(f).path \in Uploads THEN uploaded \cup {file_path[f]}
                       ELSE uploaded
     \/ /\ result' = [result EXCEPT ![f] = "BAD_PARAMETER"]
        /\ UNCHANGED <<uploaded, url>>
  /\ thread' = [thread EXCEPT ![f] = "check"]
  /\ UNCHANGED <<queueVars, askVars, slot, file_path, saved, deleted, reports, stateVars>>

\* tr50_file_progress, called by the attempts: it reports to the callback now in
\* the place.  It would stop a transfer whose flag cancel is set; nothing sets it.
Progress(f) ==
  /\ ~ wild /\ thread[f] = "move" /\ OwnHandle(f) /\ Place(f).callback # NoFile
  /\ reports' = [reports EXCEPT ![Place(f).callback] = @ \cup {<<f, "INVOKED">>}]
  /\ UNCHANGED <<queueVars, askVars, thread, threadVars, result, diskVars, stateVars>>

\* Mutants: a download is kept whatever its checksum; an archive is deleted
\* whatever the result.
CheckNothing(f) ==
  /\ ~ wild /\ thread[f] = "check"
  /\ IF result[f] = "SUCCESS" /\ Place(f).path \notin Uploads
     THEN saved' = [saved EXCEPT ![Place(f).path] = url[f]] /\ UNCHANGED <<deleted, result>>
     ELSE UNCHANGED <<saved, deleted, result>>
  /\ thread' = [thread EXCEPT ![f] = "report"]
  /\ UNCHANGED <<queueVars, askVars, threadVars, uploaded, reports, stateVars>>
CheckAndDelete(f) ==
  /\ ~ wild /\ thread[f] = "check"
  /\ deleted' = IF Place(f).path \in Archives THEN deleted \cup {Place(f).path} ELSE deleted
  /\ thread' = [thread EXCEPT ![f] = "report"]
  /\ UNCHANGED <<queueVars, askVars, threadVars, result, saved, uploaded, reports, stateVars>>

Check(f) ==
  /\ ~ wild /\ thread[f] = "check"
  /\ LET place == Place(f) IN
       CASE result[f] = "BAD_PARAMETER" -> UNCHANGED <<result, saved, deleted>>
         [] result[f] = "SUCCESS" /\ place.path \in Uploads ->
              /\ deleted' = IF place.path \in Archives THEN deleted \cup {place.path}
                            ELSE deleted
              /\ UNCHANGED <<result, saved>>
         [] result[f] = "SUCCESS" /\ place.path \notin Uploads /\ url[f] = place.crc32 ->
              /\ \/ saved' = [saved EXCEPT ![place.path] = url[f]]
                 \/ UNCHANGED saved  \* it does not open again, or the move fails
              /\ UNCHANGED <<result, deleted>>
         [] OTHER ->                             \* the partial file is deleted
              /\ result' = [result EXCEPT ![f] = "FAILURE"]
              /\ UNCHANGED <<saved, deleted>>
  /\ thread' = [thread EXCEPT ![f] = "report"]
  /\ UNCHANGED <<queueVars, askVars, threadVars, uploaded, reports, stateVars>>

\* Mutant: a failed transfer is not reported.
ReportSuccess(f) ==
  /\ ~ wild /\ thread[f] = "report"
  /\ reports' = IF Place(f).callback = NoFile \/ result[f] # "SUCCESS" THEN reports
                ELSE [reports EXCEPT ![Place(f).callback] = @ \cup {<<f, result[f]>>}]
  /\ thread' = [thread EXCEPT ![f] = "remove"]
  /\ UNCHANGED <<queueVars, askVars, threadVars, result, diskVars, stateVars>>

Report(f) ==
  /\ ~ wild /\ thread[f] = "report"
  /\ reports' = IF Place(f).callback = NoFile THEN reports
                ELSE [reports EXCEPT ![Place(f).callback] = @ \cup {<<f, result[f]>>}]
  /\ thread' = [thread EXCEPT ![f] = "remove"]
  /\ UNCHANGED <<queueVars, askVars, threadVars, result, diskVars, stateVars>>

(***************************************************************************)
(* The removal copies count - i - 1 times the size of iot_file_transfer_t, *)
(* a structure of four words, where the array holds far larger ones: what  *)
(* moves is the beginning of one place, the callback and the checksum and, *)
(* with two places behind or more, the handle of libcurl; only the first   *)
(* two are cleared of the last place.  The length is unsigned.             *)
(***************************************************************************)
Length(i) == file_transfer_count - i - 1

Closed(i) ==
  LET next  == file_transfer_queue[i + 1]
      moved == CASE Length(i) = 0 -> file_transfer_queue
                 [] Length(i) = 1 -> [file_transfer_queue EXCEPT
                      ![i].callback = next.callback, ![i].crc32 = next.crc32]
                 [] OTHER -> [file_transfer_queue EXCEPT
                      ![i].callback = next.callback, ![i].crc32 = next.crc32,
                      ![i].lib_curl = next.lib_curl]
  IN  [moved EXCEPT ![file_transfer_count - 1].callback = NoFile,
                    ![file_transfer_count - 1].crc32 = NoFile]

\* Mutant: the count is lowered for the closed place and for the cleared one.
RemoveCountedTwice(f) ==
  /\ ~ wild /\ thread[f] = "remove"
  /\ file_transfer_queue' = IF Length(slot[f]) >= 0 THEN Closed(slot[f]) ELSE file_transfer_queue
  /\ file_transfer_count' = file_transfer_count - 2
  /\ wild' = (Length(slot[f]) < 0)
  /\ disturbed' = (disturbed \/ Length(slot[f]) # 0 \/ sending # {})
  /\ thread' = [thread EXCEPT ![f] = "ended"]
  /\ UNCHANGED <<askVars, threadVars, result, diskVars, reports>>

Remove(f) ==
  /\ ~ wild /\ thread[f] = "remove"
  /\ IF Length(slot[f]) < 0
     THEN wild' = TRUE /\ UNCHANGED queueVars
     ELSE /\ file_transfer_queue' = Closed(slot[f])
          /\ file_transfer_count' = file_transfer_count - 1
          /\ UNCHANGED wild
  /\ disturbed' = (disturbed \/ Length(slot[f]) # 0 \/ sending # {})
  /\ thread' = [thread EXCEPT ![f] = "ended"]
  /\ UNCHANGED <<askVars, threadVars, result, diskVars, reports>>

Transfer(f) == \/ Open(f) \/ Stray(f) \/ Move(f) \/ Progress(f) \/ Check(f) \/ Report(f)
               \/ Remove(f)

FileNext ==
  \/ \E f \in Transfers : Prepare(f) \/ Request(f) \/ Full(f) \/ Note(f) \/ Transfer(f)
  \/ \E r \in requests, b \in BOOLEAN : Answer(r, b)
  \/ \E r \in answers : Begin(r) \/ Drop(r)

FileSpec == FileInit /\ [][FileNext]_fileVars

-----------------------------------------------------------------------------
(***************************************************************************)
(* Properties.                                                             *)
(***************************************************************************)

Results == {"SUCCESS", "FAILURE", "BAD_PARAMETER"}

\* Every variable has its type; the count stays within the array; and an array
\* used as a stack moves no memory but its own and no thread to another's handle
\* (tr50_file_transfer).
FileTypeOK ==
  /\ file_transfer_queue \in [Slots -> Places]
  /\ file_transfer_count \in 0 .. TR50_FILE_TRANSFER_MAX
  /\ prepared \subseteq Transfers /\ sending \subseteq Transfers
  /\ requests \subseteq [file : Transfers, id : Slots]
  /\ answers \subseteq [file : Transfers, id : Slots, success : BOOLEAN]
  /\ thread \in [Transfers -> {"none", "open", "move", "check", "report", "remove", "ended"}]
  /\ slot \in [Transfers -> Slots]
  /\ file_path \in [Transfers -> Files]
  /\ url \in [Transfers -> Files \cup {Mixed}]
  /\ result \in [Transfers -> Results \cup {"none"}]
  /\ saved \in [Transfers -> Files \cup {Mixed}]
  /\ uploaded \subseteq Files /\ deleted \subseteq Transfers
  /\ refused \subseteq Transfers
  /\ reports \in [Transfers -> SUBSET (Transfers \X (Results \cup {"INVOKED"}))]
  /\ disturbed \in BOOLEAN /\ wild \in BOOLEAN
  /\ wild => disturbed

\* A download that is kept has the content of the file that was asked for at
\* that path (tr50_on_message finds the place by the identifier of the reply,
\* tr50_file_transfer compares the checksums).
RightContent == \A f \in Transfers : saved[f] \in {NoFile, f}

\* A local archive is deleted only when it has reached the cloud
\* (tr50_file_transfer, the end of an upload).
ArchiveKept == deleted \subseteq uploaded

\* However many transfers are under way: as long as the array is used as a stack,
\* what is kept at a path is what was asked for there, and an archive stays until
\* the cloud has it.
FilesRight == ~ disturbed => RightContent /\ ArchiveKept

\* However many transfers are under way: as long as the array is used as a stack,
\* a transfer whose thread has ended has reported its own result to its own
\* callback, once, and nobody else has reported to it, be it on the way or at the
\* end (iot_file_download, iot_file_upload).
EndReported ==
  ~ disturbed =>
    \A f \in Transfers :
      /\ \A report \in reports[f] : report[1] = f
      /\ thread[f] = "ended" => reports[f] \ {<<f, "INVOKED">>} = {<<f, result[f]>>}
=============================================================================
