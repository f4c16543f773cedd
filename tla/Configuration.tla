--------------------------- MODULE Configuration ---------------------------
(***************************************************************************)
(* What a program has from files: the identifier of the device, made by    *)
(* the first program that starts (iot_initialize), and the settings of the *)
(* two configuration files, read again at each connect (iot_base.c).       *)
(* Programs start and crash on their own and share the files.              *)
(***************************************************************************)
EXTENDS Naturals, FiniteSets, SequencesExt

CONSTANTS
  Programs,
  Files,    \* configuration files: state is "absent", "unreadable" or "document"; the
            \* members come in the order of the text, each with depth, name and value,
            \* "object" when the ones that follow are one level deeper, or "array"
  MaxIds    \* bound: identifiers generated

VARIABLES
  device_file,   \* identifier in the file: 0 when empty, and how much of it
  global, own,   \* configuration files: iot-connect.cfg and the program's
  at,            \* where each program is
  device_id,
  options_config,
  ids,           \* identifiers generated
  alone,         \* history: the program that began its start when no other was starting
  settled        \* history: identifiers of programs that started alone

vars == <<device_file, global, own, at, device_id, options_config, ids, alone, settled>>

NoId == [uuid |-> 0, part |-> "absent"]
Empty == [uuid |-> 0, part |-> "empty"]
Printable(id) == id.part \in {"some", "whole", "mixed"}

\* Keys of options: the names on the way to a member, "proxy.host".
PathAt(doc, i) ==
  LET up(d) == Max({j \in 1 .. i : doc[j].depth = d})
  IN  [d \in 1 .. doc[i].depth |-> doc[up(d)].name]
Scalar(m) == m.value \notin {"object", "array"}

Init ==
  /\ device_file = NoId
  /\ global \in Files /\ own \in Files
  /\ at = [p \in Programs |-> "off"]
  /\ device_id = [p \in Programs |-> NoId]
  /\ options_config = [p \in Programs |-> <<>>]
  /\ ids = 0 /\ alone = {} /\ settled = {}

-----------------------------------------------------------------------------
(***************************************************************************)
(* iot_initialize: the identifier of the device is read, or generated and  *)
(* written.  The file is opened twice, so that other programs, and a crash *)
(* of this one, may come between.  An identifier that is there can be read. *)
(***************************************************************************)
Starting == {p \in Programs : at[p] \in {"create", "write"}}

Started(p, id, undisturbed) ==
  /\ device_id' = [device_id EXCEPT ![p] = id]
  /\ at' = [at EXCEPT ![p] = "ready"]
  /\ settled' = IF undisturbed THEN settled \cup {id} ELSE settled

ReadId(p) ==
  /\ at[p] = "off" /\ Printable(device_file)
  /\ Started(p, device_file, Starting = {})
  /\ UNCHANGED <<device_file, ids, alone>>

GenerateId(p) ==
  /\ at[p] = "off" /\ ~ Printable(device_file) /\ ids < MaxIds
  /\ ids' = ids + 1
  /\ device_id' = [device_id EXCEPT ![p] = [uuid |-> ids + 1, part |-> "whole"]]
  /\ at' = [at EXCEPT ![p] = "create"]
  /\ alone' = IF Starting = {} THEN {p} ELSE {}
  /\ UNCHANGED <<device_file, settled>>

CreateFile(p) ==
  /\ at[p] = "create"
  /\ \/ /\ device_file' \in {Empty} \cup ({device_file} \ {NoId})   \* truncated or not
        /\ at' = [at EXCEPT ![p] = "write"]
     \/ at' = [at EXCEPT ![p] = "off"] /\ UNCHANGED device_file
  /\ UNCHANGED <<device_id, ids, alone, settled>>

\* The program goes by as much of the identifier as it could write; a file with
\* the identifier of another program keeps the rest of that one.
WriteId(p) ==
  /\ at[p] = "write"
  /\ \E part \in {"some", "whole"} :
       LET id == [device_id[p] EXCEPT !.part = part]
       IN  /\ \/ device_file' = id
              \/ /\ part = "some" /\ Printable(device_file)
                 /\ device_file' = [id EXCEPT !.part = "mixed"]
           /\ Started(p, id, p \in alone)
  /\ UNCHANGED <<ids, alone>>

WriteFails(p) ==
  /\ at[p] = "write"
  /\ at' = [at EXCEPT ![p] = "off"]
  /\ UNCHANGED <<device_file, device_id, ids, alone, settled>>

-----------------------------------------------------------------------------
(***************************************************************************)
(* iot_base_configuration_load, at each connect.                           *)
(***************************************************************************)
\* iot_config_set.
Set(config, key, value) ==
  [k \in DOMAIN config \cup {key} |-> IF k = key THEN value ELSE config[k]]

\* Mutant: a name is appended to the whole key before it.
ParseObjectDeeper(doc, config) ==
  LET parsed[i \in 0 .. Len(doc)] ==
        IF i = 0 THEN [key |-> <<>>, config |-> config]
        ELSE LET key == Append(parsed[i - 1].key, doc[i].name)
             IN  [key    |-> key,
                  config |-> IF Scalar(doc[i])
                             THEN Set(parsed[i - 1].config, key, doc[i].value)
                             ELSE parsed[i - 1].config]
  IN  parsed[Len(doc)].config

\* iot_base_configuration_parse_object goes down with one buffer for the key,
\* which it cuts to the length of the level when it writes the next name.
ParseObject(doc, config) ==
  LET parsed[i \in 0 .. Len(doc)] ==
        IF i = 0 THEN [key |-> <<>>, config |-> config]
        ELSE LET key == Append(SubSeq(parsed[i - 1].key, 1, doc[i].depth - 1), doc[i].name)
             IN  [key    |-> key,
                  config |-> IF Scalar(doc[i])
                             THEN Set(parsed[i - 1].config, key, doc[i].value)
                             ELSE parsed[i - 1].config]
  IN  parsed[Len(doc)].config

\* A file that is not there is passed over; any other failure ends the connect.
ReadFile(p, file, next) ==
  /\ at' = [at EXCEPT ![p] = IF file.state \in {"absent", "document"} THEN next ELSE "failed"]
  /\ options_config' = [options_config EXCEPT ![p] =
       IF file.state = "document" THEN ParseObject(file.members, @) ELSE @]

ReadGlobal(p) == at[p] \in {"ready", "failed"} /\ ReadFile(p, global, "own")
ReadOwn(p)    == at[p] = "own" /\ ReadFile(p, own, "connected")

\* iot_disconnect keeps the settings.
Disconnect(p) ==
  /\ at[p] = "connected"
  /\ at' = [at EXCEPT ![p] = "ready"]
  /\ UNCHANGED options_config

\* iot_terminate, or a crash at any moment.
End(p) ==
  /\ at[p] # "off"
  /\ at' = [at EXCEPT ![p] = "off"]
  /\ options_config' = [options_config EXCEPT ![p] = <<>>]

\* A file is edited while no program is connecting or connected.
Edit ==
  /\ \A p \in Programs : at[p] \notin {"own", "connected"}
  /\ \/ global' \in Files /\ UNCHANGED own
     \/ own' \in Files /\ UNCHANGED global
  /\ UNCHANGED <<device_file, at, device_id, options_config, ids, alone, settled>>

Next ==
  \/ \E p \in Programs :
       \/ (ReadId(p) \/ GenerateId(p) \/ CreateFile(p) \/ WriteId(p) \/ WriteFails(p))
            /\ UNCHANGED <<global, own, options_config>>
       \/ (ReadGlobal(p) \/ ReadOwn(p) \/ Disconnect(p) \/ End(p))
            /\ UNCHANGED <<global, own, device_file, device_id, ids, alone, settled>>
  \/ Edit

Spec == Init /\ [][Next]_vars

-----------------------------------------------------------------------------
(***************************************************************************)
(* Properties.                                                             *)
(***************************************************************************)

\* Every variable has its type.
TypeOK ==
  /\ device_file.uuid \in 0 .. MaxIds
  /\ device_file.part \in {"absent", "empty", "some", "whole", "mixed"}
  /\ global \in Files /\ own \in Files
  /\ at \in [Programs -> {"off", "create", "write", "ready", "own", "connected", "failed"}]
  /\ \A p \in Programs : device_id[p].uuid \in 0 .. MaxIds
  /\ ids \in 0 .. MaxIds /\ alone \subseteq Programs

\* The keys that a document gives a value for, and the last value of a key.
KeysOf(file) == {PathAt(file.members, i) : i \in {j \in DOMAIN file.members : Scalar(file.members[j])}}
Setting(file, k) ==
  file.members[Max({i \in DOMAIN file.members :
    Scalar(file.members[i]) /\ PathAt(file.members, i) = k})].value

(* A connected program has every setting of its own file, and of the global  *)
(* file what its own does not give, each under the names that lead to it     *)
(* (iot_base_configuration_parse_object); and all programs with no other in  *)
(* the middle of its start while they start have one identifier of the       *)
(* device, through crashes and partial writes (iot_base_device_id_set).      *)
FilesAreRead ==
  /\ \A p \in Programs : at[p] = "connected" =>
       /\ KeysOf(own) \cup KeysOf(global) \subseteq DOMAIN options_config[p]
       /\ \A k \in KeysOf(own) : options_config[p][k] = Setting(own, k)
       /\ \A k \in KeysOf(global) \ KeysOf(own) : options_config[p][k] = Setting(global, k)
  /\ Cardinality(settled) <= 1
=============================================================================
