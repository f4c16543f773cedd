--------------------------- MODULE DeviceManager ---------------------------
(***************************************************************************)
(* The device manager (device_manager_main.c) and the program iot-control  *)
(* it runs for the commands that concern the whole device                  *)
(* (control_main.c).  Three kinds of processes are at work: the main       *)
(* thread, from the configuration file to the end of the program; the      *)
(* threads of the library, which serve the actions that are registered     *)
(* while the main thread still registers others; and the runs of           *)
(* iot-control.                                                            *)
(*                                                                         *)
(* The software update and the transfers themselves are the modules        *)
(* UpdateInstall and FileTransfers, how requests reach a thread is         *)
(* ActionQueue.                                                            *)
(***************************************************************************)
EXTENDS Integers, Sequences, FiniteSets

CONSTANTS
  Defaults,       \* identifiers enabled by the build (iot_build.h.in)
  Configurable,   \* bound: identifiers a configuration file may name
  Requests,       \* bound: actions the cloud asks for
  MaxWork,        \* IOT_WORKER_THREADS
  MaxFailures     \* bound: actions that cannot be registered

VARIABLES
  file, says,     \* the configuration file, and what it says of an identifier
  service,        \* was the program started as a service?
  enabled,        \* actions[].enabled
  pc,             \* place of the main thread
  iot_lib,        \* is APP_DATA.iot_lib set?
  handler,        \* is the handler of signals installed?
  next,           \* next action to register
  registered, failures,
  to_quit,
  quitter,        \* history: who set to_quit
  work,           \* actions being served
  support,        \* remote access offered to the cloud: none, or a list
  controls,       \* runs of iot-control under way, by option
  files,          \* what identifies the device: connect file, its copy, identifier
  steps, verdict, \* decommissioning: files to come, result so far
  system,         \* "up", "rebooting" or "shut down"
  cause           \* history: the option that took the system down

configVars == <<file, says, service, enabled>>
mainVars == <<pc, iot_lib, handler, next, registered, failures>>
quitVars == <<to_quit, quitter>>
controlVars == <<controls, files, steps, verdict, system, cause>>
vars == <<configVars, mainVars, quitVars, work, support, controlVars>>

\* The actions in the order of their registration, with the identifier that
\* enables each; restore_factory_images is never registered.
Actions == <<"file_download", "file_upload", "quit_app", "ping", "shutdown_device",
             "decommission_device", "reset_agent", "dump_log_files", "software_update",
             "remote_login", "reboot_device">>

Id(a) == IF a \in {"file_download", "file_upload"} THEN "file_transfers" ELSE a
Ids == {Id(Actions[i]) : i \in 1 .. Len(Actions)}

Exclusive == {"quit_app", "shutdown_device", "decommission_device", "reset_agent",
              "dump_log_files", "software_update", "reboot_device"}

DeviceFiles == <<"config", "runtime", "id">>

Init ==
  /\ file \in {"none", "too large", "malformed", "good"}
  /\ says \in [Configurable -> {"absent", "true", "false", "not a boolean"}]
  /\ file # "good" => says = [c \in Configurable |-> "absent"]
  /\ service \in BOOLEAN
  /\ enabled = Defaults
  /\ pc = "configure" /\ iot_lib = FALSE /\ handler = service
  /\ next = 1 /\ registered = {} /\ failures = 0
  /\ to_quit = FALSE /\ quitter = "nobody" /\ work = {} /\ support = "none"
  /\ controls = {} /\ files \in SUBSET {"config", "runtime", "id"}
  /\ steps = 0 /\ verdict = "none" /\ system = "up" /\ cause = "none"

Up == system = "up"

-----------------------------------------------------------------------------
(***************************************************************************)
(* The main thread.                                                        *)
(***************************************************************************)
\* A value that is not a boolean is read as false (iot_json_decode_bool).
Entry(c, default) ==
  IF c \in Configurable /\ says[c] # "absent" THEN says[c] = "true" ELSE default

\* Only a file below 4096 bytes is read.
ConfigRead ==
  /\ Up /\ pc = "configure"
  /\ enabled' = IF file = "good" THEN {c \in Ids : Entry(c, c \in Defaults)} ELSE enabled
  /\ pc' = "initialize"
  /\ UNCHANGED <<file, says, service, iot_lib, handler, next, registered, failures, quitVars,
                 work, support, controlVars>>

\* iot_connect, which also clears to_quit; a failure terminates the library.
Initialize ==
  /\ Up /\ pc = "initialize"
  /\ \/ iot_lib' = TRUE /\ pc' = "register"
     \/ iot_lib' = FALSE /\ pc' = "terminate"
  /\ UNCHANGED <<configVars, handler, next, registered, failures, quitVars, work, support,
                 controlVars>>

\* One action; one that cannot be registered is left out.
Register ==
  /\ Up /\ pc = "register" /\ next <= Len(Actions)
  /\ \/ Id(Actions[next]) \in enabled
        /\ registered' = registered \cup {Actions[next]} /\ UNCHANGED failures
     \/ Id(Actions[next]) \in enabled /\ failures < MaxFailures
        /\ failures' = failures + 1 /\ UNCHANGED registered
     \/ Id(Actions[next]) \notin enabled /\ UNCHANGED <<registered, failures>>
  /\ next' = next + 1
  /\ UNCHANGED <<configVars, pc, iot_lib, handler, quitVars, work, support, controlVars>>

(* on_action_remote_login_update: the list of what listens on the device, or *)
(* an empty one when the file cannot be read as JSON.  A service whose       *)
(* socket cannot be opened counts as listening (check_listening_service).    *)
RemoteLoginUpdate ==
  support' \in IF file = "none" THEN {support}
               ELSE IF file = "malformed" THEN {"empty"} ELSE {"empty", "listed"}

\* The attributes are published, the list by a request of the program itself,
\* and from then on the signals are handled.
Publish ==
  /\ Up /\ pc = "register" /\ next > Len(Actions)
  /\ IF "remote_login" \in registered THEN RemoteLoginUpdate ELSE UNCHANGED support
  /\ handler' = TRUE
  /\ pc' = "poll"
  /\ UNCHANGED <<configVars, iot_lib, next, registered, failures, quitVars, work, controlVars>>

Poll ==
  /\ Up /\ pc = "poll" /\ to_quit
  /\ pc' = "terminate"
  /\ UNCHANGED <<configVars, iot_lib, handler, next, registered, failures, quitVars, work,
                 support, controlVars>>

(* device_manager_terminate, in three steps: the actions are deregistered;   *)
(* iot_disconnect stops the threads of the library and joins them, which     *)
(* takes at least as long as the actions they serve, and can last for ever   *)
(* (module ActionQueue); iot_terminate.                                      *)
Deregister ==
  /\ Up /\ pc = "terminate"
  /\ registered' = {}
  /\ pc' = "stop"
  /\ UNCHANGED <<configVars, iot_lib, handler, next, failures, quitVars, work, support,
                 controlVars>>

\* Mutant: the program does not wait for the threads it stops.
LoopStopForced ==
  /\ Up /\ pc = "stop"
  /\ to_quit' = (to_quit \/ iot_lib)
  /\ pc' = "exited"
  /\ UNCHANGED <<configVars, iot_lib, handler, next, registered, failures, quitter, work,
                 support, controlVars>>

\* Without the library there is nothing to stop.
LoopStop ==
  /\ Up /\ pc = "stop"
  /\ to_quit' = (to_quit \/ iot_lib)
  /\ pc' = IF iot_lib THEN "join" ELSE "exited"
  /\ UNCHANGED <<configVars, iot_lib, handler, next, registered, failures, quitter, work,
                 support, controlVars>>

Join ==
  /\ Up /\ pc = "join" /\ work = {}
  /\ pc' = "free"
  /\ UNCHANGED <<configVars, iot_lib, handler, next, registered, failures, quitVars, work,
                 support, controlVars>>

Terminate ==
  /\ Up /\ pc = "free"
  /\ pc' = "exited"
  /\ UNCHANGED <<configVars, iot_lib, handler, next, registered, failures, quitVars, work,
                 support, controlVars>>

\* Without the handler a signal ends the program; before there is a library it
\* is forgotten.
Signal ==
  /\ Up /\ pc # "exited"
  /\ \/ handler /\ iot_lib /\ ~ to_quit /\ to_quit' = TRUE /\ quitter' = "signal"
        /\ UNCHANGED <<pc, registered, work>>
     \/ ~ handler /\ pc' = "exited" /\ registered' = {} /\ work' = {} /\ UNCHANGED quitVars
  /\ UNCHANGED <<configVars, iot_lib, handler, next, failures, support, controlVars>>

-----------------------------------------------------------------------------
(***************************************************************************)
(* The callbacks of the actions, on the threads of the library.            *)
(***************************************************************************)
Alone(a) == IF a \in Exclusive THEN work = {} ELSE work \cap Exclusive = {}

Take(a) ==
  /\ Up /\ a \in registered /\ ~ to_quit /\ a \notin work
  /\ Cardinality(work) < MaxWork /\ Alone(a)
  /\ work' = work \cup {a}
  /\ UNCHANGED <<configVars, mainVars, quitVars, support, controlVars>>

Served(a) == Up /\ a \in work /\ work' = work \ {a}

\* The file actions start a transfer, of a file in the directory of the
\* program unless they name another one, and do not wait for it.
FileAction(a) ==
  /\ a \in {"file_download", "file_upload"}
  /\ Served(a)
  /\ UNCHANGED <<configVars, mainVars, quitVars, support, controlVars>>

\* remote-access starts a relay (module Relay) and looks at it for a while.
RemoteLogin ==
  /\ Served("remote_login")
  /\ UNCHANGED <<configVars, mainVars, quitVars, support, controlVars>>

\* ping answers; software_update runs its own program (module UpdateInstall).
Answer(a) ==
  /\ a \in {"ping", "software_update"}
  /\ Served(a)
  /\ UNCHANGED <<configVars, mainVars, quitVars, support, controlVars>>

AgentQuit ==
  /\ Served("quit_app")
  /\ to_quit' = TRUE /\ quitter' = "quit_app"
  /\ UNCHANGED <<configVars, mainVars, support, controlVars>>

\* iot-control is started and not waited for; or it cannot be started.
Option(a) == CASE a = "reboot_device" -> "reboot" [] a = "shutdown_device" -> "shutdown"
               [] a = "reset_agent" -> "restart"

RunControl(a) ==
  /\ a \in {"reboot_device", "shutdown_device", "reset_agent"}
  /\ Served(a)
  /\ controls' \in {controls, controls \cup {Option(a)}}
  /\ UNCHANGED <<configVars, mainVars, quitVars, support, files, steps, verdict, system, cause>>

\* The thread waits for a decommissioning and for a dump of the logs.
RunControlAndWait(a) ==
  /\ Up /\ a \in work /\ a \in {"decommission_device", "dump_log_files"}
  /\ a \notin controls
  /\ \/ Served(a) /\ UNCHANGED <<controls, steps, verdict>>
     \/ /\ controls' = controls \cup {a} /\ UNCHANGED work
        /\ IF a = "decommission_device" THEN steps' = 1 /\ verdict' = "not found"
           ELSE UNCHANGED <<steps, verdict>>
  /\ UNCHANGED <<configVars, mainVars, quitVars, support, files, system, cause>>

-----------------------------------------------------------------------------
(***************************************************************************)
(* iot-control.                                                            *)
(***************************************************************************)
Shutdown(option, how) ==
  \/ system' = how /\ cause' = option
  \/ UNCHANGED <<system, cause>>

ControlShutdown(option) ==
  /\ Up /\ option \in controls \cap {"reboot", "shutdown"}
  /\ controls' = controls \ {option}
  /\ Shutdown(option, IF option = "reboot" THEN "rebooting" ELSE "shut down")
  /\ UNCHANGED <<configVars, mainVars, quitVars, work, support, files, steps, verdict>>

(* The program has neither --restart nor --dump: it prints its usage and     *)
(* ends.  The thread that waits for the dump goes on.                        *)
ControlUsage(option) ==
  /\ Up /\ option \in controls \cap {"restart", "dump_log_files"}
  /\ controls' = controls \ {option}
  /\ work' = work \ {option}
  /\ UNCHANGED <<configVars, mainVars, quitVars, support, files, steps, verdict, system, cause>>

\* Mutant: a failure is only reported when the first file cannot be deleted.
FailedStepFirst == IF steps = 1 THEN "no permission" ELSE verdict

\* A first file that cannot be deleted is not noted, a later one is.
FailedStep == IF steps = 1 THEN verdict ELSE "no permission"

\* One file; a later success replaces an earlier failure.
DeleteStep ==
  /\ Up /\ steps \in 1 .. Len(DeviceFiles)
  /\ \/ /\ DeviceFiles[steps] \in files
        /\ \/ files' = files \ {DeviceFiles[steps]} /\ verdict' = "success"
           \/ verdict' = FailedStep /\ UNCHANGED files
     \/ DeviceFiles[steps] \notin files /\ UNCHANGED <<files, verdict>>
  /\ steps' = steps + 1
  /\ UNCHANGED <<configVars, mainVars, quitVars, work, support, controls, system, cause>>

Decommission ==
  /\ Up /\ steps > Len(DeviceFiles)
  /\ IF verdict = "success" THEN Shutdown("decommission", "rebooting")
     ELSE UNCHANGED <<system, cause>>
  /\ steps' = 0 /\ verdict' = "none"
  /\ controls' = controls \ {"decommission_device"}
  /\ work' = work \ {"decommission_device"}
  /\ UNCHANGED <<configVars, mainVars, quitVars, support, files>>

-----------------------------------------------------------------------------
Main == ConfigRead \/ Initialize \/ Register \/ Publish \/ Poll \/ Deregister \/ LoopStop
          \/ Terminate
Callbacks ==
  \/ AgentQuit \/ RemoteLogin
  \/ \E a \in Requests : FileAction(a) \/ Answer(a) \/ RunControl(a) \/ RunControlAndWait(a)
Control == DeleteStep \/ Decommission
             \/ \E o \in {"reboot", "shutdown", "restart", "dump_log_files"} :
                  ControlShutdown(o) \/ ControlUsage(o)
Next == Main \/ Join \/ Signal \/ (\E a \in Requests : Take(a)) \/ Callbacks \/ Control

(* The main thread sleeps between two looks at to_quit, callbacks return and *)
(* iot-control ends: the file transfers run on threads of their own, and the *)
(* update is taken to end (see UpdateInstall for when it does).  Nothing is  *)
(* assumed of the join.                                                      *)
Fairness == WF_vars(Main) /\ WF_vars(Callbacks) /\ WF_vars(Control)
Spec == Init /\ [][Next]_vars /\ Fairness

-----------------------------------------------------------------------------
(***************************************************************************)
(* Properties.                                                             *)
(***************************************************************************)

\* Every variable has its type.
TypeOK ==
  /\ file \in {"none", "too large", "malformed", "good"}
  /\ says \in [Configurable -> {"absent", "true", "false", "not a boolean"}]
  /\ enabled \subseteq Ids /\ {service, iot_lib, handler, to_quit} \subseteq BOOLEAN
  /\ pc \in {"configure", "initialize", "register", "poll", "terminate", "stop", "join",
             "free", "exited"}
  /\ next \in 1 .. Len(Actions) + 1 /\ failures \in 0 .. MaxFailures
  /\ work \subseteq {Actions[i] : i \in 1 .. Len(Actions)}
  /\ registered \subseteq {Actions[i] : i \in 1 .. Len(Actions)}
  /\ quitter \in {"nobody", "signal", "quit_app"} /\ support \in {"none", "empty", "listed"}
  /\ controls \subseteq {"reboot", "shutdown", "restart", "dump_log_files",
                         "decommission_device"}
  /\ files \subseteq {"config", "runtime", "id"} /\ steps \in 0 .. Len(DeviceFiles) + 1
  /\ verdict \in {"none", "not found", "no permission", "success"}
  /\ system \in {"up", "rebooting", "shut down"}
  /\ cause \in {"none", "reboot", "shutdown", "decommission"}

\* The configuration allows an identifier: the file says so, or the build
\* does and the file is silent.
Allowed(c) ==
  IF file = "good" /\ c \in Configurable /\ says[c] # "absent" THEN says[c] = "true"
  ELSE c \in Defaults

(* What the cloud does to the device is allowed by the configuration, at any *)
(* time from the registration of the first action; a device that reboots     *)
(* because it is decommissioned has lost its identifier, whichever of the    *)
(* files could not be deleted; and nothing is served once the threads of the *)
(* library are stopped (device_manager_config_read,                          *)
(* device_manager_actions_register, control_device_decommission).            *)
CommandsObeyed ==
  /\ cause = "reboot" => Allowed("reboot_device")
  /\ cause = "shutdown" => Allowed("shutdown_device")
  /\ cause = "decommission" => Allowed("decommission_device") /\ "id" \notin files
  /\ steps > 0 => Allowed("decommission_device")
  /\ quitter = "quit_app" => Allowed("quit_app")
  /\ \A a \in work : Allowed(Id(a)) /\ pc \notin {"free", "exited"}

(* Once to_quit is set, by a signal or by the action, the main thread comes  *)
(* to the stop of the library and every action under way is served to its    *)
(* end, unless the system goes down first: what may still keep the program   *)
(* is the join of a thread that has nothing to do (device_manager_main,      *)
(* iot_disconnect).                                                          *)
QuitEnds == to_quit ~> ((pc \in {"join", "free", "exited"} /\ work = {}) \/ ~ Up)
=============================================================================
