------------------------------ MODULE Programs ------------------------------
(***************************************************************************)
(* The programs beside the library, one in each behaviour: the relay       *)
(* (module Relay), a software update (UpdateInstall), the device manager   *)
(* (DeviceManager) and the dialogue of iot-control (ControlConfig).  They  *)
(* share no state; a behaviour of one of them is followed with the others  *)
(* in their initial state.                                                 *)
(***************************************************************************)
EXTENDS Relay, FiniteSets

CONSTANTS
  Systems, MaxEntries,                                  \* of UpdateInstall
  Defaults, Configurable, Requests, MaxWork, MaxFailures,   \* of DeviceManager
  Document, Entries, Unlimited                          \* of ControlConfig

VARIABLES
  active,
  file, says, service, enabled, managerPc, iot_lib, handler, next, registered, failures,
  to_quit, quitter, work, support, controls, files, steps, verdict, system, cause,
  updateSystem, scripts, reboots, updatePc, updateResult, directory, package, transfer,
  entry, json, phase, ran, rebooting, copied,
  at, leaving, set, configWritten, asked, config

D == INSTANCE DeviceManager WITH pc <- managerPc
U == INSTANCE UpdateInstall WITH
       pc <- updatePc, result <- updateResult, system <- updateSystem
C == INSTANCE ControlConfig WITH written <- configWritten

\* The bounds are numbers, and the build enables actions that there are.
ASSUME BoundsAssumption ==
  /\ {RELAY_BUFFER_SIZE, MaxBytes, MaxFrames, MaxEntries, MaxFailures} \subseteq Nat
  /\ Defaults \subseteq D!Ids

(* The schema built into iot-control (iot-connect.schema.json): the objects   *)
(* and values in the order of the file, each object with what is in it after *)
(* it, and none empty.                                                       *)
SchemaItems ==
  [path : Seq(STRING), type : {"object", "integer", "string", "boolean"},
   required : SUBSET STRING, dependencies : SUBSET [name : STRING, needs : SUBSET STRING],
   enum : SUBSET STRING, minimum : Int \cup {Unlimited}, maximum : Int \cup {Unlimited}]
Inside(i, p) == C!IsPrefix(Document[p].path, Document[i].path)

ASSUME SchemaAssumption ==
  /\ Document \in Seq(SchemaItems) /\ Len(Document) > 0
  /\ Document[C!Root].path = <<>> /\ C!IsObject(C!Root)
  /\ \A i, j \in C!Items : Document[i].path = Document[j].path => i = j
  /\ \A i \in C!Items : \A n \in 0 .. Len(Document[i].path) - 1 :
       \E p \in C!Items : C!IsObject(p) /\ Document[p].path = SubSeq(Document[i].path, 1, n)
  /\ \A i, p \in C!Items : Inside(i, p) => p <= i /\ \A k \in p .. i : Inside(k, p)
  /\ \A p \in C!Items : C!IsObject(p) => \E i \in C!Items : C!Parent(i) = p

(* An object without dependencies is in none that has some, and a value that *)
(* is required has none, nor has its object: what is required is asked for.  *)
ASSUME DependenciesAssumption ==
  /\ \A i, p \in C!Items :
       C!IsObject(i) /\ Inside(i, p) /\ C!Dependencies(i) = {} => C!Dependencies(p) = {}
  /\ \A i \in C!Items : ~ C!IsObject(i) /\ C!Required(i) =>
       C!Dependencies(i) = {} /\ C!Dependencies(C!Parent(i)) = {}

managerAll == <<file, says, service, enabled, managerPc, iot_lib, handler, next, registered,
                failures, to_quit, quitter, work, support, controls, files, steps, verdict,
                system, cause>>
updateAll == <<updateSystem, scripts, reboots, updatePc, updateResult, directory, package,
               transfer, entry, json, phase, ran, rebooting, copied>>
controlAll == <<at, leaving, set, configWritten, asked, config>>
allVars == <<active, vars, managerAll, updateAll, controlAll>>

\* A program that does not run starts in one state only.
AllInit ==
  /\ active \in {"relay", "update", "manager", "control"}
  /\ D!Init /\ (active # "manager" => file = "none" /\ ~ service /\ files = {})
  /\ Init /\ (active # "relay" => library = "civetweb" /\ bind)
  /\ U!Init /\ (active # "update" => updateSystem = "posix" /\ scripts = {} /\ ~ reboots
                                     /\ directory = "none" /\ ~ copied)
  /\ C!Init /\ (active # "control" => config = "none")

AllNext ==
  /\ UNCHANGED active
  /\ \/ active = "manager" /\ D!Next /\ UNCHANGED <<vars, updateAll, controlAll>>
     \/ active = "relay" /\ Next /\ UNCHANGED <<managerAll, updateAll, controlAll>>
     \/ active = "update" /\ U!Next /\ UNCHANGED <<vars, managerAll, controlAll>>
     \/ active = "control" /\ C!Next /\ UNCHANGED <<vars, managerAll, updateAll>>

\* The fairness of the three modules, each for the program that runs.
Beside(others) == UNCHANGED <<active, others, controlAll>>
AllFairness ==
  /\ WF_allVars(active = "relay" /\ Steps /\ Beside(<<managerAll, updateAll>>))
  /\ WF_allVars(active = "update" /\ U!Steps /\ Beside(<<vars, managerAll>>))
  /\ WF_allVars(active = "manager" /\ D!Main /\ Beside(<<vars, updateAll>>))
  /\ WF_allVars(active = "manager" /\ D!Callbacks /\ Beside(<<vars, updateAll>>))
  /\ WF_allVars(active = "manager" /\ D!Control /\ Beside(<<vars, updateAll>>))

AllSpec == AllInit /\ [][AllNext]_allVars /\ AllFairness

\* Every variable of the modules has its type.
TypesOK == TypeOK /\ D!TypeOK /\ U!TypeOK /\ C!TypeOK

\* ScriptsInOrder of UpdateInstall, CommandsObeyed of DeviceManager and
\* PromptsRight of ControlConfig, as they are stated there.
CommandsObeyed == D!CommandsObeyed
ScriptsInOrder == U!ScriptsInOrder
PromptsRight == C!PromptsRight

(* Each of the programs comes to its end: the relay after a signal or a      *)
(* close, an update whose package arrived, and the device manager, once it   *)
(* is to quit, to the join of its idle threads (Quits of Relay,              *)
(* ArrivedIsReported of UpdateInstall, QuitEnds of DeviceManager).           *)
ProgramsEnd == Quits /\ U!ArrivedIsReported /\ D!QuitEnds

\* ConfigConforms of ControlConfig, as it is stated there.
ConfigConforms == C!ConfigConforms
=============================================================================
