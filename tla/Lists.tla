------------------------------- MODULE Lists -------------------------------
(***************************************************************************)
(* The collections of the library, one in each behaviour: the sorted lists *)
(* of items (module ItemLists), the named values (Options), the plug-ins   *)
(* (PluginList), a JSON document (JsonEncoder), the configuration files    *)
(* (Configuration) and what is published (Samples).  They share no state;  *)
(* a behaviour of one of them is followed with the others in their initial *)
(* state.                                                                  *)
(***************************************************************************)
EXTENDS Samples, Integers

CONSTANTS
  Kinds, Threads, BuiltIn, Heap, Max, Names, ItemFailures, None,    \* of ItemLists
  Holders, Keys, Spellings, Values, NoName, NoValue, IOT_OPTION_MAX,
  OptionFailures,                                                   \* of Options
  Plugins, Order, Loaded, IOT_PLUGIN_MAX, NoFile,                   \* of PluginList
  Members, MaxCalls,                                                \* of JsonEncoder
  Readers, Files, MaxIds                                            \* of Configuration

VARIABLES
  active,
  kind, ptr, count, struct, lock, step, mem, name, at, goal, handles, closing,
  search, wanted, looking, found, disturbed, failures,
  holder, option, capacity, call, optionUndefined, optionFailures,
  plugin, plugin_ptr, plugin_count, plugin_enabled, overwritten, pluginUndefined,
  text, structs, nodes, j_cur, calls, phase,
  device_file, global, own, where, device_id, options_config, ids, alone, settled

itemVars   == <<kind, ptr, count, struct, lock, step, mem, name, at, goal, handles, closing,
                search, wanted, looking, found, disturbed, failures>>
optionVars == <<holder, option, capacity, call, optionUndefined, optionFailures>>
pluginVars == <<plugin, plugin_ptr, plugin_count, plugin_enabled, overwritten,
                pluginUndefined>>
jsonVars   == <<text, structs, nodes, j_cur, calls, phase>>
fileVars   == <<device_file, global, own, where, device_id, options_config, ids, alone,
                settled>>
allVars    == <<active, vars, itemVars, optionVars, pluginVars, jsonVars, fileVars>>

I == INSTANCE ItemLists WITH MaxFailures <- ItemFailures, item <- struct, pc <- step
O == INSTANCE Options WITH
       MaxFailures <- OptionFailures, undefined <- optionUndefined,
       failures <- optionFailures
P == INSTANCE PluginList WITH
       Files <- Plugins, BuiltIn <- Loaded, undefined <- pluginUndefined
J == INSTANCE JsonEncoder WITH Names <- Members
C == INSTANCE Configuration WITH Programs <- Readers, at <- where

(***************************************************************************)
(* The values of the constants that the lists are made for.                *)
(***************************************************************************)
ItemBounds ==
  /\ Max \in Nat /\ Names \subseteq Nat \ {0}
  /\ IsFiniteSet(BuiltIn) /\ Cardinality(BuiltIn) <= Max /\ BuiltIn \cap Heap = {}
  /\ None \notin BuiltIn \cup Heap /\ None \notin Threads

OptionBounds == Keys \subseteq Int /\ NoName \notin Keys \X Spellings
OptionLimits == IOT_OPTION_MAX \in Nat /\ OptionFailures \in Nat

PluginBounds ==
  /\ IOT_PLUGIN_MAX \in Nat /\ Order \in [Plugins -> Int] /\ NoFile \notin Plugins
  /\ Loaded \in Seq(Plugins) /\ Len(Loaded) <= IOT_PLUGIN_MAX

SampleBounds ==
  /\ NoCaller \notin Callers /\ IsFiniteSet(Callers) /\ Telemetry # {} /\ Data # {}
  /\ MaxTimes \in Nat /\ MaxSamples \in Nat

\* Members as iot_base_configuration_parse_object meets them: it goes down one
\* level at a time.
WellNested(doc) ==
  /\ \A i \in 1 .. Len(doc) : doc[i].depth \in Nat /\ 1 <= doc[i].depth
  /\ Len(doc) > 0 => doc[1].depth = 1
  /\ \A i \in 2 .. Len(doc) : doc[i].depth <= doc[i - 1].depth + 1

\* Files as the program can meet them: a file that cannot be used gives nothing.
FileBounds ==
  /\ MaxIds \in Nat
  /\ \A f \in Files :
       /\ f.state \in {"absent", "unreadable", "document"}
       /\ f.members \in Seq({f.members[i] : i \in DOMAIN f.members}) /\ WellNested(f.members)
       /\ f.state # "document" => f.members = <<>>

\* A name of a member is a string that is not empty.
MemberBounds == \A key \in Members : key # J!NoKey /\ key \in Seq({key[i] : i \in DOMAIN key})

ASSUME CollectionsAssumption ==
  /\ ItemBounds /\ OptionBounds /\ OptionLimits /\ PluginBounds /\ SampleBounds /\ FileBounds
  /\ MemberBounds
  /\ ItemFailures \in Nat /\ MaxCalls \in Nat

\* A part that is not followed starts in one state only.
AllInit ==
  /\ active \in {"items", "options", "plugins", "json", "files", "samples"}
  /\ I!Init /\ (active # "items" => kind = "alarm")
  /\ O!Init /\ (active # "options" => holder = "list")
  /\ P!Init
  /\ J!Init
  /\ C!Init /\ (active # "files" => global.state = "absent" /\ own.state = "absent")
  /\ Init

AllNext ==
  /\ UNCHANGED active
  /\ \/ active = "items" /\ I!Next /\ UNCHANGED <<optionVars, pluginVars, jsonVars, fileVars, vars>>
     \/ active = "options" /\ O!Next /\ UNCHANGED <<itemVars, pluginVars, jsonVars, fileVars, vars>>
     \/ active = "plugins" /\ P!Next /\ UNCHANGED <<itemVars, optionVars, jsonVars, fileVars, vars>>
     \/ active = "json" /\ J!Next /\ UNCHANGED <<itemVars, optionVars, pluginVars, fileVars, vars>>
     \/ active = "files" /\ C!Next /\ UNCHANGED <<itemVars, optionVars, pluginVars, jsonVars, vars>>
     \/ active = "samples" /\ Next
        /\ UNCHANGED <<itemVars, optionVars, pluginVars, jsonVars, fileVars>>

AllSpec == AllInit /\ [][AllNext]_allVars

\* Every variable of the six modules has its type.
TypesOK ==
  TypeOK /\ I!TypeOK /\ O!TypeOK /\ P!TypeOK /\ J!TypeOK /\ (active = "files" => C!TypeOK)

\* SlotsKept and SearchRight of ItemLists, OthersKept and StoredIsRead of Options
\* and EnabledOnceInOrder of PluginList, as they are stated there.
SlotsKept == I!SlotsKept
SearchRight == I!SearchRight
OthersKept == O!OthersKept
StoredIsRead == O!StoredIsRead
EnabledOnceInOrder == P!EnabledOnceInOrder

\* CalledInOrder of PluginList, as it is stated there.
CalledInOrder == P!CalledInOrder

(* What is read is what was written: a JSON document by the decoder, and     *)
(* configuration files and the identifier of the device by the programs that *)
(* share them (ReadAsBuilt of JsonEncoder, FilesAreRead of Configuration).   *)
ReadAsBuilt ==
  /\ active = "json" => J!ReadAsBuilt
  /\ active = "files" => C!FilesAreRead
=============================================================================
