----------------------------- MODULE PluginList -----------------------------
(***************************************************************************)
(* The plug-ins of the library (iot_plugin.c): an array of structures, an  *)
(* array of pointers to them in the order of loading, and the plug-ins     *)
(* that are enabled, in the order in which iot_plugin_perform calls them.  *)
(*                                                                         *)
(* A plug-in is known by the file it comes from.  Its own functions may    *)
(* fail.  Unloading the last plug-in moves a negative number of pointers;  *)
(* what happens then is undefined and the behaviour ends.  Unloading any   *)
(* other leaves the structures where they are, so that the next plug-in    *)
(* that is loaded can take a structure that is in use.                     *)
(***************************************************************************)
EXTENDS Halving, Sequences

CONSTANTS
  Files,            \* plug-ins
  Order,            \* the order each of them gives in its "info"
  BuiltIn,          \* sequence of those loaded by iot_initialize
  IOT_PLUGIN_MAX,
  NoFile

VARIABLES
  plugin,           \* the structures: the plug-in each holds
  plugin_ptr,       \* indexes of structures
  plugin_count,
  plugin_enabled,   \* sequence of [ptr, order]
  overwritten,      \* history: was a structure taken that an enabled plug-in had?
  undefined

vars == <<plugin, plugin_ptr, plugin_count, plugin_enabled, overwritten, undefined>>

Slots == 0 .. IOT_PLUGIN_MAX - 1

Init ==
  /\ plugin = [s \in Slots |-> IF s < Len(BuiltIn) THEN BuiltIn[s + 1] ELSE NoFile]
  /\ plugin_ptr = [s \in Slots |-> s]
  /\ plugin_count = Len(BuiltIn)
  /\ plugin_enabled = <<>> /\ overwritten = FALSE /\ undefined = FALSE

Enabled(s) == \E i \in 1 .. Len(plugin_enabled) : plugin_enabled[i].ptr = s

\* The place before the first enabled plug-in whose order is not lower.
PlaceOf(order) ==
  LET places == 1 .. Len(plugin_enabled)
      Lower == {i \in places : order > plugin_enabled[i].order}
  IN  Halve(1, Len(plugin_enabled) + 1, Lower, places \ Lower).at

\* Mutant: a plug-in that is enabled is not looked for.
CanEnableTwice(s, file) == file # NoFile

\* enable_by_ptr: one that is enabled already is refused.
CanEnable(s, file) == ~ Enabled(s) /\ file # NoFile
With(s, file) ==
  LET at == PlaceOf(Order[file])
  IN  SubSeq(plugin_enabled, 1, at - 1) \o <<[ptr |-> s, order |-> Order[file]]>>
        \o SubSeq(plugin_enabled, at, Len(plugin_enabled))

\* iot_plugin_disable_by_ptr: the first that has the structure leaves the array.
Without(s) ==
  LET at == CHOOSE i \in 1 .. Len(plugin_enabled) :
              /\ plugin_enabled[i].ptr = s
              /\ \A j \in 1 .. i - 1 : plugin_enabled[j].ptr # s
  IN  IF Enabled(s)
      THEN SubSeq(plugin_enabled, 1, at - 1)
             \o SubSeq(plugin_enabled, at + 1, Len(plugin_enabled))
      ELSE plugin_enabled

\* The first plug-in of the list with that name.
FirstOf(file) ==
  CHOOSE i \in 0 .. plugin_count :
    /\ i = plugin_count \/ plugin[plugin_ptr[i]] = file
    /\ \A j \in 0 .. i - 1 : plugin[plugin_ptr[j]] # file

Enable(file) ==
  /\ ~ undefined /\ Len(plugin_enabled) < IOT_PLUGIN_MAX
  /\ FirstOf(file) < plugin_count
  /\ LET s == plugin_ptr[FirstOf(file)]
     IN  CanEnable(s, plugin[s]) /\ plugin_enabled' = With(s, plugin[s])
  /\ UNCHANGED <<plugin, plugin_ptr, plugin_count, overwritten, undefined>>

Disable(file) ==
  /\ ~ undefined
  /\ \E i \in 1 .. Len(plugin_enabled) :
       /\ plugin[plugin_enabled[i].ptr] = file
       /\ \A j \in 1 .. i - 1 : plugin[plugin_enabled[j].ptr] # file
       /\ plugin_enabled' = Without(plugin_enabled[i].ptr)
  /\ UNCHANGED <<plugin, plugin_ptr, plugin_count, overwritten, undefined>>

(* The new plug-in takes the structure behind as many as are loaded, which   *)
(* after an unload need not be free: a plug-in enabled there is called no    *)
(* longer, the new one counts as enabled, in the old one's place.  To enable *)
(* it may fail.  No name is looked for: a file can be loaded twice.          *)
Load(file) ==
  /\ ~ undefined /\ plugin_count < IOT_PLUGIN_MAX
  /\ plugin' = [plugin EXCEPT ![plugin_count] = file]
  /\ plugin_count' = plugin_count + 1
  /\ overwritten' = (overwritten \/ Enabled(plugin_count))
  /\ \/ CanEnable(plugin_count, file) /\ plugin_enabled' = With(plugin_count, file)
     \/ UNCHANGED plugin_enabled
  /\ UNCHANGED <<plugin_ptr, undefined>>

(* The loop that finds the plug-in ends one past it, and the pointers are    *)
(* closed up from there: the plug-in stays in the list and its neighbour     *)
(* leaves it.                                                                *)
Unload(file) ==
  /\ ~ undefined /\ FirstOf(file) < plugin_count - 1
  /\ LET at == FirstOf(file)
         last == plugin_count - 1
     IN  /\ plugin_enabled' = Without(plugin_ptr[at])
         /\ plugin_ptr' = [i \in Slots |->
                             IF i = last THEN plugin_ptr[at]
                             ELSE IF i > at /\ i < last THEN plugin_ptr[i + 1]
                             ELSE plugin_ptr[i]]
         /\ plugin_count' = last
  /\ UNCHANGED <<plugin, overwritten, undefined>>

UnloadLast(file) ==
  /\ ~ undefined /\ FirstOf(file) = plugin_count - 1
  /\ plugin_enabled' = Without(plugin_ptr[plugin_count - 1])
  /\ undefined' = TRUE
  /\ UNCHANGED <<plugin, plugin_ptr, plugin_count, overwritten>>

\* iot_terminate disables all, from the last to the first, by force.
DisableAll ==
  /\ ~ undefined /\ plugin_enabled # <<>>
  /\ plugin_enabled' = Without(plugin_enabled[Len(plugin_enabled)].ptr)
  /\ UNCHANGED <<plugin, plugin_ptr, plugin_count, overwritten, undefined>>

Next ==
  \/ \E file \in Files : Enable(file) \/ Disable(file) \/ Load(file) \/ Unload(file)
                         \/ UnloadLast(file)
  \/ DisableAll

Spec == Init /\ [][Next]_vars

-----------------------------------------------------------------------------
(***************************************************************************)
(* Properties.                                                             *)
(***************************************************************************)

\* Every variable has its type.
TypeOK ==
  /\ plugin \in [Slots -> Files \cup {NoFile}] /\ plugin_ptr \in [Slots -> Slots]
  /\ plugin_count \in 0 .. IOT_PLUGIN_MAX /\ {overwritten, undefined} \subseteq BOOLEAN
  /\ plugin_enabled \in Seq([ptr : Slots, order : {Order[f] : f \in Files}])
  /\ Len(plugin_enabled) <= IOT_PLUGIN_MAX

\* The plug-in that iot_plugin_perform calls in the i-th place.
Called(i) == plugin[plugin_enabled[i].ptr]

(* "A lower number will be called first" (iot_plugin.h, of the order in the  *)
(* "info" of a plug-in), whatever has been loaded, enabled and unloaded.     *)
CalledInOrder ==
  \A i, j \in 1 .. Len(plugin_enabled) : i < j => Order[Called(i)] <= Order[Called(j)]

(* However plug-ins are loaded, enabled, disabled and unloaded, the list     *)
(* holds no structure twice, and until a plug-in takes the structure of one  *)
(* that is enabled, iot_plugin_perform calls them in the order they ask for  *)
(* (iot_plugin_enable_by_ptr).                                               *)
EnabledOnceInOrder ==
  /\ \A i, j \in 1 .. Len(plugin_enabled) :
       i < j => plugin_enabled[i].ptr # plugin_enabled[j].ptr
  /\ ~ overwritten => CalledInOrder
=============================================================================
