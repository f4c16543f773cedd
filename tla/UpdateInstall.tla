--------------------------- MODULE UpdateInstall ---------------------------
(***************************************************************************)
(* A software update: the action of the device manager that downloads the  *)
(* package, unpacks it and runs the program iot-update                     *)
(* (device_manager_ota.c), and that program, which reads update.json and   *)
(* runs the scripts it names (update_main.c).  The device manager waits    *)
(* for iot-update, so one of the two is at work at any time; the transfer  *)
(* of the package goes on beside them.                                     *)
(*                                                                         *)
(* A file has a version.  "stale" stands for what is left of an earlier    *)
(* update.  The update.json that iot-update finds, of whichever version,   *)
(* names scripts for some of the phases; a script that is given as "" or   *)
(* " " counts as none.                                                     *)
(***************************************************************************)
EXTENDS Integers, Sequences

CONSTANTS
  Systems,        \* subset of posix, vxworks: how iot-update is built
  MaxEntries      \* bound: files in a package

Phases == <<"pre_install", "install", "post_install">>

VARIABLES
  system,
  scripts,        \* phases update.json has a script for; "error" among them
  reboots,        \* update.json says reboot: yes
  pc, result,     \* place in the two programs; did the last step succeed?
  directory,      \* the update directory: "none", "stale" or "fresh"
  package,        \* the file of the package there: "none", "stale" or "fresh"
  transfer,       \* "none", "under way", "arrived" or "failed"
  entry,          \* next file of the package to unpack
  json,           \* update.json there: "none", "stale" or "fresh"
  phase,          \* next phase of iot-update
  ran,            \* history: the scripts that were run: could they be started,
                  \* and did they return zero?
  rebooting,
  copied          \* does the copy of iot-update lie beside it?

packageVars == <<system, scripts, reboots>>
fileVars == <<directory, package, transfer, entry, json>>
installVars == <<phase, ran, rebooting>>
vars == <<packageVars, pc, result, fileVars, installVars, copied>>

Init ==
  /\ system \in Systems
  /\ scripts \in SUBSET {"pre_install", "install", "post_install", "error"}
  /\ reboots \in BOOLEAN
  /\ pc = "idle" /\ result = FALSE
  /\ directory \in {"none", "stale"}
  /\ package \in (IF directory = "stale" THEN {"none", "stale"} ELSE {"none"})
  /\ json \in (IF directory = "stale" THEN {"none", "stale"} ELSE {"none"})
  /\ transfer = "none" /\ entry = 1
  /\ phase = 1 /\ ran = <<>> /\ rebooting = FALSE /\ copied \in BOOLEAN

-----------------------------------------------------------------------------
(***************************************************************************)
(* device_manager_ota.                                                     *)
(***************************************************************************)
\* Mutant: the directory of the last update is used as it is.
PrepareNothing ==
  /\ pc = "idle"
  /\ directory' = "fresh" /\ UNCHANGED <<package, json>>
  /\ \/ result' = TRUE /\ pc' = "download"
     \/ result' = FALSE /\ pc' = "report"
  /\ UNCHANGED <<packageVars, transfer, entry, installVars, copied>>

\* The directory of the last update is deleted, which may fail half done and is
\* not looked at, and a new one made.
Prepare ==
  /\ pc = "idle"
  /\ \/ directory' = "fresh" /\ package' = "none" /\ json' = "none"
     \/ directory = "stale" /\ UNCHANGED directory
        /\ package' \in {package, "none"} /\ json' \in {json, "none"}
  /\ \/ result' = TRUE /\ pc' = "download"
     \/ result' = FALSE /\ pc' = "report"
  /\ UNCHANGED <<packageVars, transfer, entry, installVars, copied>>

Download ==
  /\ pc = "download"
  /\ \/ transfer' = "under way" /\ result' = TRUE /\ pc' = "wait"
     \/ transfer' = "none" /\ result' = FALSE /\ pc' = "report"
  /\ UNCHANGED <<packageVars, directory, package, entry, json, installVars, copied>>

\* The transfer (module FileTransfers) puts the file in place when it is
\* complete; its callback only takes a note that nothing reads.
Transfer ==
  /\ transfer = "under way"
  /\ \/ transfer' = "arrived" /\ package' = "fresh"
     \/ transfer' = "failed" /\ UNCHANGED package
  /\ UNCHANGED <<packageVars, pc, result, directory, entry, json, installVars, copied>>

\* The wait for the file to exist has no other end.
WaitForFile ==
  /\ pc = "wait" /\ package # "none"
  /\ pc' = "open"
  /\ UNCHANGED <<packageVars, result, fileVars, installVars, copied>>

\* Mutant: a package that cannot be opened is waited for again.
OpenRetried ==
  /\ pc = "open"
  /\ \/ package # "none" /\ pc' \in {"unpack", "wait"} /\ UNCHANGED result
     \/ package = "none" /\ pc' = "report" /\ result' = FALSE
  /\ UNCHANGED <<packageVars, fileVars, installVars, copied>>

\* A package that cannot be opened as an archive counts as unpacked.
OpenArchive ==
  /\ pc = "open"
  /\ \/ package # "none" /\ pc' \in {"unpack", "copy"} /\ UNCHANGED result
     \/ package = "none" /\ pc' = "report" /\ result' = FALSE
  /\ UNCHANGED <<packageVars, fileVars, installVars, copied>>

(* One file of the archive: its header is read and written, its data copied, *)
(* and it is finished.  A block that cannot be written ends the copy with    *)
(* the good result of the read (device_manager_ota_copy_data).  Any of the   *)
(* files may be update.json.                                                 *)
Unpack ==
  /\ pc = "unpack" /\ entry <= MaxEntries
  /\ json' \in {json, "fresh"}
  /\ \/ entry' = entry + 1 /\ UNCHANGED <<pc, result>>
     \/ result' = FALSE /\ pc' = "report" /\ UNCHANGED entry
  /\ UNCHANGED <<packageVars, directory, package, transfer, installVars, copied>>

Unpacked ==
  /\ pc = "unpack" /\ entry > MaxEntries
  /\ pc' = "copy"
  /\ UNCHANGED <<packageVars, result, fileVars, installVars, copied>>

\* iot-update is run from a copy of itself, or itself when there is none.
CopyProgram ==
  /\ pc = "copy"
  /\ \/ pc' = "report" /\ result' = FALSE /\ UNCHANGED copied     \* not found
     \/ pc' = "start" /\ copied' \in {copied, TRUE} /\ UNCHANGED result
  /\ UNCHANGED <<packageVars, fileVars, installVars>>

\* The command cannot be run.
RunFails ==
  /\ pc = "start"
  /\ pc' = "report" /\ result' = FALSE /\ copied' = FALSE
  /\ UNCHANGED <<packageVars, fileVars, installVars>>

-----------------------------------------------------------------------------
(***************************************************************************)
(* update, in the program iot-update.                                      *)
(***************************************************************************)
(* Without the identifier of the device nothing is done, and only on VxWorks *)
(* does the program get a handle of the library, without which it does       *)
(* nothing either, and reports success.                                      *)
Start ==
  /\ pc = "start"
  /\ \/ system = "vxworks" /\ result' = TRUE /\ pc' = "json"
     \/ system = "posix" /\ result' = TRUE /\ pc' = "finish"
     \/ result' = FALSE /\ pc' = "finish"
  /\ UNCHANGED <<packageVars, fileVars, installVars, copied>>

\* The file must be there, parse, and have all five fields as strings; it need
\* not be that of the package, nor the package be complete.
ParseJson ==
  /\ pc = "json"
  /\ \/ json # "none" /\ result' = TRUE /\ pc' = "phase"
     \/ result' = FALSE /\ pc' = "finish"
  /\ UNCHANGED <<packageVars, fileVars, installVars, copied>>

HasScript == phase <= Len(Phases) /\ Phases[phase] \in scripts
Runs == {[started |-> FALSE, ok |-> FALSE], [started |-> TRUE, ok |-> FALSE],
         [started |-> TRUE, ok |-> TRUE]}
Note(name, run) == [name |-> name, started |-> run.started, ok |-> run.ok]

NoScript ==
  /\ pc = "phase" /\ phase <= Len(Phases) /\ ~ HasScript
  /\ phase' = phase + 1
  /\ UNCHANGED <<packageVars, pc, result, fileVars, ran, rebooting, copied>>

\* Mutant: the result of the command is not looked at.
RunScriptBlind ==
  /\ pc = "phase" /\ HasScript
  /\ \E run \in Runs : ran' = Append(ran, Note(Phases[phase], run))
  /\ phase' = phase + 1
  /\ UNCHANGED <<packageVars, pc, result, fileVars, rebooting, copied>>

(* A script that cannot be run or returns other than zero is followed by     *)
(* that of the error phase.  If that one can be run, whatever it returns,    *)
(* the phase counts as done and the next one follows.                        *)
RunScript ==
  /\ pc = "phase" /\ HasScript
  /\ \E run \in Runs :
       \/ run.ok /\ ran' = Append(ran, Note(Phases[phase], run)) /\ UNCHANGED <<pc, result>>
       \/ /\ ~ run.ok /\ "error" \in scripts
          /\ \E repair \in Runs :
               /\ ran' = ran \o <<Note(Phases[phase], run), Note("error", repair)>>
               /\ result' = repair.started
               /\ pc' = IF repair.started THEN "phase" ELSE "finish"
       \/ ~ run.ok /\ "error" \notin scripts
          /\ ran' = Append(ran, Note(Phases[phase], run))
          /\ result' = FALSE /\ pc' = "finish"
  /\ phase' = phase + 1
  /\ UNCHANGED <<packageVars, fileVars, rebooting, copied>>

PhasesDone ==
  /\ pc = "phase" /\ phase > Len(Phases)
  /\ rebooting' = reboots
  /\ pc' = "finish"
  /\ UNCHANGED <<packageVars, result, fileVars, phase, ran, copied>>

\* iot-update ends and its copy is deleted.
Finish ==
  /\ pc = "finish"
  /\ pc' = "report" /\ copied' = FALSE
  /\ UNCHANGED <<packageVars, result, fileVars, installVars>>

Report ==
  /\ pc = "report"
  /\ pc' = "done"
  /\ UNCHANGED <<packageVars, result, fileVars, installVars, copied>>

DeviceManager == Prepare \/ Download \/ WaitForFile \/ OpenArchive \/ Unpack \/ Unpacked
                   \/ CopyProgram \/ RunFails \/ Report
IotUpdate == Start \/ ParseJson \/ NoScript \/ RunScript \/ PhasesDone \/ Finish

Steps == DeviceManager \/ IotUpdate
Next == Steps \/ Transfer

(* The thread of the action and the program it waits for are scheduled by    *)
(* the system.                                                               *)
Spec == Init /\ [][Next]_vars /\ WF_vars(Steps)

-----------------------------------------------------------------------------
(***************************************************************************)
(* Properties.                                                             *)
(***************************************************************************)

\* Every variable has its type.
TypeOK ==
  /\ system \in Systems /\ scripts \subseteq {"pre_install", "install", "post_install", "error"}
  /\ {reboots, result, rebooting, copied} \subseteq BOOLEAN
  /\ pc \in {"idle", "download", "wait", "open", "unpack", "copy", "start", "json", "phase",
             "finish", "report", "done"}
  /\ {directory, package, json} \subseteq {"none", "stale", "fresh"}
  /\ transfer \in {"none", "under way", "arrived", "failed"}
  /\ entry \in 1 .. MaxEntries + 1 /\ phase \in 1 .. Len(Phases) + 1
  /\ ran \in Seq([name : {"pre_install", "install", "post_install", "error"},
                  started : BOOLEAN, ok : BOOLEAN])

Bad(i) == ran[i].name # "error" /\ ~ ran[i].ok
Repaired(i) == i < Len(ran) /\ ran[i + 1].name = "error" /\ ran[i + 1].started

(* Scripts run in the order of their phases, none of them after one that     *)
(* failed unless the script of the error phase could be run; with iot-update *)
(* built for VxWorks a report of success says that all of them ran, each     *)
(* well or followed by that script, and only then does the device reboot;    *)
(* and the scripts of an earlier update run only where its directory could   *)
(* not be deleted (device_manager_ota, update).                              *)
ScriptsInOrder ==
  LET Before(a, b) == \E i, j \in 1 .. Len(Phases) : i < j /\ Phases[i] = a /\ Phases[j] = b
  IN  /\ \A i, j \in 1 .. Len(ran) :
           i < j => /\ Bad(i) => Repaired(i) \/ j = i + 1
                    /\ {ran[i].name, ran[j].name} \cap {"error"} = {}
                         => Before(ran[i].name, ran[j].name)
      /\ (pc = "done" /\ result /\ system = "vxworks") \/ rebooting =>
           /\ \A i \in 1 .. Len(ran) : Bad(i) => Repaired(i)
           /\ \A p \in scripts \ {"error"} : \E i \in 1 .. Len(ran) : ran[i].name = p
      /\ ran # <<>> => json = "fresh" \/ (json = "stale" /\ directory = "stale")

(* An update whose package arrives is brought to its report; the wait for    *)
(* the file does not miss it (device_manager_ota).                           *)
ArrivedIsReported == (transfer = "arrived") ~> (pc = "done")

(* "IOT_STATUS_SUCCESS on success" (update_main.c): a report of success says *)
(* that the scripts of the package were run.                                 *)
SuccessMeansRun ==
  pc = "done" /\ result => \A p \in scripts \ {"error"} :
                             \E i \in 1 .. Len(ran) : ran[i].name = p
=============================================================================
