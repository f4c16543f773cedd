# Verification of device-cloud-lib

TLA+ models of the C client library of Wind River's Device Cloud, the TLC runs
that check them on small instances, and TLAPS proofs of their main safety
properties for every value of their constants. Paths below are relative to the
root of the repository; the library is in `src/api`, so a line of it appears as
`src/src/api/...` in `PROJECT.json`, whose `map` ties each definition to the
lines it models.

* [1. The system](#1-the-system)
* [2. The modules and the code](#2-the-modules-and-the-code)
* [3. Runs, bounds and what they show](#3-runs-bounds-and-what-they-show)
* [4. Fairness](#4-fairness)
* [5. Proofs](#5-proofs)
* [6. Findings and further disagreements](#6-findings-and-further-disagreements)
* [7. What is left out](#7-what-is-left-out)
* [8. Plan](#8-plan)

## 1. The system

An application links the library, registers *actions*, telemetry and alarms,
and calls `iot_connect`. The library talks MQTT to the cloud through a plug-in
(`tr50` in practice). The cloud keeps a *mailbox* of action requests for each
device. The library fetches a request when it has room for it, queues it, runs
the callback of the action in a worker thread, and publishes the answer. The
application publishes samples, alarms, events, attributes and log lines, and
transfers files.

Four kinds of threads run the code:

| thread | started by | what it runs |
|---|---|---|
| application | - | `iot_connect`, `iot_disconnect`, `iot_loop_start/stop`, every publishing call |
| main | `iot_loop_start` | `iot_loop_forever`: an iteration of every plug-in, i.e. pings, reconnecting; requests too, with `IOT_FLAG_SINGLE_THREAD` |
| workers | `iot_loop_start` | `iot_base_worker_thread_main`: `iot_action_process`, then `iot_action_check` |
| MQTT | the MQTT library | `tr50_on_message` on each message, connect and disconnect callbacks |

and one thread for each file transfer. They share `struct iot` (the queue of
requests under `worker_mutex`, a read/write lock for exclusive actions, the
counter of transactions without any lock) and `struct tr50_data` (mailbox timer
under `mail_check_mutex`, the array of transfers and the statuses of
transactions without any lock).

| component | state it keeps | operations | what is hard | what makes it correct |
|---|---|---|---|---|
| request queue (`iot_action.c`, `iot_base.c`) | array of records, stack of free ones, list of waiting ones, thread handles, `to_quit` | allocate, execute, process, free; connect, start, stop, disconnect | four kinds of threads, condition variable, start that fails half way, stop during work | no record shared or lost, each request run at most once and reported once in order, exclusive actions alone, no thread outlives the stop, no queued work slept through |
| transactions (`iot_plugin.c`, `tr50.c`) | 8-bit counter, 2 bits of status for each identifier | perform in three steps, publish, reply, status | unlocked read-modify-write from several threads, wrap of the counter, reply before the last step | a status belongs to the message it is read for, and is the last thing that happened to it |
| file transfers (`tr50.c`, `iot_file.c`) | array of transfers and its count | prepare, request, reply, transfer, remove | the place is the identifier; removals move places under other threads; nothing locks the array | right content at the right path, own result to own callback, no archive lost, no memory moved beyond the array: while the array is used as a stack |
| mailbox (`tr50.c`, `iot_mqtt.c`) | time of the last check, link | check, notice, reply, connect, loss of the link | three kinds of threads check; skipped and unanswered checks; stale count of free records | one check at a time; no mail stays at the cloud for ever |
| link monitor (`tr50.c`, `iot_mqtt.c`) | ping counter, reconnect times, the wrapper's belief | ping, check, connect, callbacks | late answers against reconnects, callbacks before the wait, two libraries | the belief is corrected, the link comes back with a live subscription |
| parameters and execution (`iot_action.c`, `tr50.c`) | parameters of the request and of the action | set, check and convert, read, set, run a command, complete | types of cloud, action and callback differ; each conversion has bounds of its own; refusals half way | numbers arrive unchanged or are refused, callbacks and commands get what they require, success has what it owes |
| values (`iot_common.c`) | none | convert in place, read as another type | 12 types squared, widths, signs, undefined casts | exact or refused |
| registries: actions, telemetry, alarms (`iot_action.c`, `iot_telemetry.c`, `iot_alarm.c`) | sorted lists over structures of the library and of the heap | allocate, register, deregister, free, search, terminate | searched without a lock while they shift, failures half way | no structure lost or listed twice, sorted, search finds what is there |
| samples (`iot_telemetry.c`, `iot_alarm.c`, `tr50.c`) | time of the next sample of each telemetry | publish a sample, an alarm, an attribute, an event | the time is set outside the mutex and survives a failure | a time goes with one sample |
| options (`iot_option.c` and three copies of it) | sorted array of owned values | set, get, delete | failures half way, search by halving | a call touches its own option only; what is stored is read |
| plug-in list (`iot_plugin.c`) | array by order of loading, list by order of call | load, enable, disable, unload | two arrays that shift, structures that do not | each enabled once, called in order |
| configuration (`iot_base.c`) | settings, identifier of the device on disk | start, read at each connect | several programs, crash between create and write | own file before the global one, one identifier for all |
| JSON (`app_json_encode.c`, `app_json_decode.c`) | text or tree under construction, tokens | open, close, cancel, clear; iterate, find | implicit parents, cancelling after other structures were closed | what is built is what is read |
| relay (`src/relay`) | two sockets, a buffer, state of the client | connect, forward, close | partial writes, close on one side, two websocket libraries | bytes in order and none lost before the close, no wait for a state that cannot come |
| software update (`device_manager_ota.c`, `src/update`) | files on disk, phases | download, wait, unpack, install, report | polls for a file another thread moves, remains of an earlier update, error phase | scripts in order, those of this package, package that arrives is reported |
| device manager, control (`device_manager_main.c`, `control_main.c`) | registered actions, `to_quit`, files of the device | configure, register, serve, decommission, terminate | served while others are being registered, deletion that fails half way | only what the configuration allows, no reboot with the identity kept |
| dialogue of iot-control (`control_config.c`, `app_json_schema.c`) | items of the schema, set and written | prompt, check, write | items that depend on others, rejected and blank answers | each asked once, required ones written, file conforms |
| base64, checksum, utilities, operating system layer, locations | little or none | | | pure functions and wrappers |

`PROJECT.json` lists them all under `components` with what is and is not
modelled, and under `hazards` what is hard to test in this code, at its line.
Hazards of the code that no model covers and that stand only here:
`iot_option.c:377` (the result of a deletion is overwritten), `iot_plugin.c:366`
(the entry closed over after an unload), `iot_mqtt.c:855` (a refusal of the
broker is taken for a connection), `tr50.c:1251` (`data->mqtt` is left dangling
by a disconnect), `iot_base.c:1263` (`iot_terminate` frees the lists before the
threads have stopped).

## 2. The modules and the code

Each module has one action for each step of the code that other threads can see
apart: a critical section is one step; what the code does outside of it (a
load, a store, a signal, a publish) is a step of its own. Variables have the
names of the C members where they stand for one; the rest are places of threads
(`pc`, `worker`, `mqtt`, `app`), what is on the network, and *history*
variables, marked as such, that properties need.

### Requests

**ActionQueue** (`iot_action.c` 1246-1333, 1404-1476, 1756-1862; `iot_base.c`
622-634, 782-886, 1126-1252; `tr50.c` 2193-2310). `request_queue` with its stack
of free records and its list of waiting ones; the MQTT thread does `Receive`/
`Refuse`, `Fill`, `Submit`, `Signal`; each worker does `TestQuit`,
`EnterTake`/`EnterWait`, `WokenTake`/`WokenExit`, `Look`, `Lock`, `Executed`,
`Complete`, `Clear`, `Release`; the application connects, starts, stops and
disconnects one thread handle at a time. `request_queue_free_count` is, as in
the code, the number of records in *use*. A signal wakes one waiter, a broadcast
all that wait at that moment, and a condition may wake a thread unasked. The
`memcpy` on overlapping memory that takes the head off the list of waiting
records is modelled as the shift it is meant to be.

**RequestLedger** is what ActionQueue promises, without threads, records or
locks: a line for each request that goes from inbox to accepted or refused, to
queued, taken, running, finished and reported, in the order of arrival and
within the capacity. `ImplementsLedger` in ActionQueue is
`INSTANCE RequestLedger WITH` the stage computed from who has the record.

**Transactions** (`iot_plugin.c` 227-285; `tr50.c` 1349-1373, 2024-2043,
2105-2147, 2729-2791). Every load and store of the counter and of a word of
statuses is a step. Identifiers and words have any width (`TxnMax`, `DataBlks`;
255 and 16 in the code). `raced` notes that two threads were taking identifiers at
once.

**DataConversion** (`iot_common.c` 69-291, 409-558, 713-1043, 1150-1440,
1720-1728). The twelve types, with widths given by `Top`; a float is its
integral part and a mark for a fraction, and a float of 64 bits that is too
large for 32 is not converted to one (`FitsFloat32`); a conversion returns the
*set* of its possible outcomes, as a cast of a float out of range is undefined
in C. The tables of the code (which pair of types is tested against which bound)
are `Unchecked` and `NoUpperTest`; `Member` is the slip by which two conversions
read the wrong member of the union.

**ActionExecute** (`iot_action.c` 317-1112, 1156-1217, 1323-1329, 2032-2134;
`tr50.c` 658-816, 2238-2306) extends it: one request from the message to the
answer. `Parse` is a parameter of the message, `CheckParameter` one turn of the
loop of `iot_action_execute` with its conversion in place, `EndChecks` its tests
after the loop, `CallbackReads`/`CallbackSets` the callback, the command's
actions the command line, its return code and its output, `CheckOut` the test of
required outputs, `Complete` the end of `iot_action_process` with
`tr50_action_complete`. Data have a value exactly when they are of a type
(`iot_common_arg_set`); an output without one is not written at all. A command
line is taken to fit in PATH_MAX (in a longer one numbers are cut, other values
dropped, and the command runs all the same).

ActionQueue, Transactions, Mailbox and ActionExecute are about the same requests
at different grains and share no variable: Mailbox takes from ActionQueue that a
worker takes and releases one record, ActionExecute that one worker holds the
request while it runs (`NoSlotShared`, proved).

### The link

**Mailbox** (`tr50.c` 1000-1222, 2047-2310; `iot_base.c` 622-634, 1142-1160).
`tr50_check_mailbox` is `Count` (unlocked), `Test` (under `mail_check_mutex`)
and `Publish`; any of the threads runs it. `recent` abstracts the time of the
last check: true for less than the interval. The requests that wait are a set
here; ActionQueue has their order.

**LinkMonitor** (`tr50.c` 1066-1239, 2055-2068, 2119-2127, 2512-2550;
`iot_mqtt.c` 250-394, 422-690, 767-978, 1079-1096). Main runs
`tr50_connect_check` and `tr50_ping` at each iteration and the connect of the
wrapper inside of them; the thread of the MQTT library calls back, in two steps
where it tests and then lowers `ping_miss_count`; the network fails, the cloud
refuses, forgets a subscription, answers late. The wrapper's belief
(`is_connected`) and the session that exists (`attached`, `hears`) are two
variables: the module is about how the one follows the other. It covers the
asynchronous Paho client and mosquitto (`library`). Times are ticks. A library
asked to connect while it is attached makes a new session. An iteration has the
time limit of its caller: the library's own thread gives 1000 ms, an application
may give none (`untimed`), and then the wait of a reconnect has none either.

**FileTransfers** (`tr50.c` 1445-1948, 2314-2382; `iot_file.c` 246-395).
`Prepare` looks at the local side (and may archive a directory), `Request` and
`Note` are the request and its entry, which a quick reply may come between; the
identifier of a request is `file_transfer_count` at the time of sending; a reply
starts the thread of the place with that number; `Progress` and the failures to
open and to transfer follow. A removal (`Closed`) copies the length of another
structure than the array holds, so that only the beginning of one place moves.
Any number of transfers is under way at once. `wild` says that memory beyond the
array has been moved, as the unsigned length of a removal wraps or a note finds
the array full, or that a thread has used libcurl's handle of another, which it
finds in the place each time (`Stray`); the behaviour ends there. Nothing locks
the array. Used as a stack it needs no lock: only the last place is taken away,
and no request overlaps another one, a removal, or its own reply. `disturbed`
says that something else has happened, and the properties are about behaviours
until then; section 6 tells what comes after.

**CloudRequests** puts Transactions and FileTransfers beside each other, `part`
says which of the two a behaviour follows: both match replies of the cloud with
what was asked, by identifiers of their own. **MCCloudRequests** has the values.

### Collections

**ItemLists** is the lists of actions, telemetry and alarms: one behaviour
follows one of them. The array `ptr` has the items in use, sorted, then the
unused structures inside the library, then nothing. Allocation is search, take,
shift, insert, count, each a step with its failure; the lists of telemetry and
alarms have a mutex, that of actions has none, so application threads take turns
(`Sole`) but a worker's search (`BeginSearch`, `ReadEntry`, `Compare`) runs
between any two of these steps. `Terminate` frees from the end.

**Options** is `iot_option.c` and its three copies (options of an action, of a
request, of a telemetry) under failing allocations: a name is a key with a
spelling, as some comparisons ignore case and others do not. **PluginList** is
the array of structures, the pointers to them in the order of loading, and the
list of enabled ones. An unload closes up the pointers and leaves the
structures, so that the next plug-in may be loaded over one that is in use
(`overwritten`). **JsonDecoder** gives the tokens of a text, going through it
mark by mark (`Advance`), and walks them as `app_json_decode.c` does with jsmn;
**JsonEncoder** drives the text encoder (jsmn) and the tree encoder (jansson,
json-c) by the same calls. **Configuration** is the files at start and at each
connect, for several programs that may crash between any two writes. **Samples**
is publishing: `SetTime` outside the mutex, `Begin`, `Build`, `Publish`,
`Reset`, `Unlock` inside; alarms, attributes and events are one message each.

**Halving** is the search by halving, of which the code has a copy for each of
the sorted arrays (`iot_option.c:161`, `iot_plugin.c:177`, `iot_action.c:237`,
`iot_telemetry.c:123`, `iot_alarm.c:79`): a recursive function over what is left
to search, with the comparison abstracted to the places that are lower and those
that are higher. ItemLists, Options and PluginList extend it.

**Lists** puts the six beside each other, for any values of their constants;
`active` says which one a behaviour follows. They share nothing, so nothing is
lost. **MCLists** has the values of the run.

### Programs

**Relay** (`relay_main.c`): the loop of `relay_client` with its partial writes,
the callbacks of libwebsockets (inside the loop) and civetweb (a thread of its
own), signals and closes; its end throws away what the buffer holds, while the
thread of civetweb may still be in a callback (`WriteClosed`). **UpdateInstall**
(`device_manager_ota.c`, `update_main.c`): the action that waits for the
package, unpacks and starts `iot-update`, and the phases of that program, built
for posix or VxWorks. The update.json it finds may be that of an earlier update
whose directory could not be deleted, or come from a package that was not
unpacked to its end. **DeviceManager** (`device_manager_main.c`,
`control_main.c`): configuration, registration while actions are already served,
`to_quit`, the end in the order of the code (deregister, stop, join, free),
`iot-control` with the decommissioning of the device. **JsonSchema** and
**ControlConfig** (`app_json_schema.c`, `control_config.c`): the iterators over
the built-in schema and the dialogue. **Programs** puts them beside each other
as Lists does with its six; **MCPrograms** has the values of the runs.

## 3. Runs, bounds and what they show

`MC*.tla` give the constants their values, `*.cfg` name them.

| run | instance | result |
|---|---|---|
| `queue_safety` | 2 records, 2 workers, 3 requests (ordinary, exclusive, unknown), 2 connects, spurious wakeups, failing thread creation; 369 000 states | types, `NoSlotShared`, `NoSlotLost`, `QueueNeverFull`, `ExclusiveAlone`, `NoThreadOutlivesStop`, refinement of RequestLedger, `Served` |
| `stop_hangs` | the same, 1 connect, no faults | violates `StopReturns` (finding) |
| `requests_checks` | 2 publishing threads, identifiers 0-3, 2 words of 2, 4 messages; 2 downloads and an archive in 3 places; 1 194 000 states | messages: types, `StatusHasCause`, `NoDeafId`, `IdsDistinct`; transfers: `FileTypeOK`, `FilesRight`, `EndReported` |
| `txn_answer_lost` | 1 publishing thread | violates `AnswerKept` (finding) |
| `file_swapped` | 2 places | violates `RightContent` (finding) |
| `mail_checks` | 3 requests, 1 record, 2 workers, one loss of the link, one unanswered check; 369 000 states | types, `OneCheckPending`, `MailServed` |
| `execute_checks` | 15 actions, three of them commands; messages of 2 parameters out of 9 values; a callback or command that reads and sets one; 481 000 states | types, `NumbersArrive`, `CalledRight`, `AnswerComplete` |
| `link_checks` | both libraries, one outage or refusal, one late answer, iterations with and without a limit; 318 000 states | types, `BeliefIsCorrected`, `Recovers` |
| `lists_checks` | MCLists; 925 000 states | types, `SlotsKept`, `SearchRight`, `StoredIsRead`, `OthersKept`, `EnabledOnceInOrder`, `ReadAsBuilt`, `TimesUsedOnce` |
| `plugins_disordered` | the same | violates `CalledInOrder` (finding) |
| `programs_checks` | MCPrograms; 288 000 states | types, `StreamsKept`, `ScriptsInOrder`, `CommandsObeyed`, `PromptsRight`, `ProgramsEnd` |
| `config_conforms` | MCPrograms | violates `ConfigConforms` (finding) |

One more configuration is not among the runs and shows what section 6 tells:
`Mailbox_single.cfg` (mail left in single-thread mode).

Why the bounds are enough to make the cases happen:

* queue: three requests on two records make a request wait, be refused and
  reuse a record; two workers are the least for a shared record, an exclusive
  action beside another, a wakeup that finds nothing; two connects are the least
  for a handle that is left and a `to_quit` that is stale. `MemoryFails` is
  FALSE in the runs (it only lets a request be refused more often) and is
  covered by the proofs.
* transactions: two bits of identifier wrap within four messages, two
  identifiers share a word, two words tell words apart; two threads race. From
  the third message on only numbering without a race and without replies is
  followed (`LateMessages` in MCCloudRequests): the wrap needs no more.
* transfers: with three places a removal of the first has two places behind it,
  the least at which all three members that a removal may move are moved; three
  transfers reuse a place. Behaviours in which the array is no stack any more go
  on with two transfers (`Disturbances`), which is where places are swapped and
  the length of a removal wraps; a third could only be disturbed again, and the
  properties claim nothing then but types and that a count stays in the array.
* mailbox: three requests on one record give a notice that finds no room and
  mail behind mail; one loss and one unanswered check can each happen at any
  moment.
* execution: widths of 3, 4, 5 and 7 bits keep every relation the code's widths
  have (`TopAssumption`) but let TLC enumerate; the values sent include the
  least, the greatest, -1, and values between the limits of neighbouring types.
  Floats are exact up to 8 and 32, so rounding happens.
* link: one outage is enough to fail in each state of a connect, and a second
  answer late is the case of a reply to a ping of the session before. Counters
  of 2 bits wrap when they are lowered below 0. `TR50_PING_MISS_ALLOWED` is 0 as
  in the code (`tr50.c:54`); intervals of one tick and `MaxCount` = 1 only shorten
  waits.
* items: two structures in the library and two on the heap make an item come
  from either; three items of two names have a neighbour of the same name on
  either side of a shift; two threads and a worker. Options and plug-ins: three
  entries have a first, a middle and a last one; two failures fail a call and
  the one after it; two plug-ins share an order. JSON: five calls open two
  levels, cancel behind a closed one, and one name begins another. Files: three
  levels, a key that is given twice, a list inside, an unreadable file.
  Samples: two threads and three samples let a failed publication lie between
  two that succeed.
* programs: a buffer of two bytes and three bytes to send leave a rest after a
  partial write; two frames are the key and data; a package of two files has one
  to go wrong behind one that went well; all phases; a configuration file that
  names one identifier and leaves the rest to the build; a schema with a number,
  an enumeration, required items and dependencies inside and across objects.

`CHECK_DEADLOCK FALSE` is set where a bound on calls or on messages ends every
behaviour (all modules but ActionQueue; ActionQueue can always stop once more).

Every property has a mutant of the code in `PROJECT.json` that breaks it: a
count lowered twice, a record stored in the wrong place, a flag ignored, a
signal or a check left out, a bound not tested, a mutex not taken.

Stated without a run of their own (section 6): `StatusIsOwn` (Transactions),
`ConnectTellsTruth` (Mailbox), `RefusalEndsConnect` (LinkMonitor),
`SuccessMeansRun` (UpdateInstall).

## 4. Fairness

* ActionQueue, `FairSpec`: weak fairness of the MQTT thread's own steps, of each
  worker, of the main thread's exit and of a start or stop under way: the
  operating system schedules threads, and actions return. Nobody owes a message,
  a connect, a disconnect or a spurious wakeup. A lock is granted only if it
  stays free: nothing promises a writer its turn among readers. `Served`
  therefore says no more than the code can: work that waits is reported, or all
  workers have ended.
* Mailbox, `FairSpec`: the same for the threads that check and process, weak
  fairness of the cloud's answers and of the handler of messages, and strong
  fairness of `LinkUp`: a device that loses its link tries again
  (`tr50_connect_check` has no last attempt) and is not refused for ever. Losses
  and time outs are bounded and never owed.
* LinkMonitor, `LinkFairSpec`: the main thread and the thread of the MQTT library
  run, time passes, an outage ends, the cloud answers pings, mosquitto retries
  by itself; strong fairness of `Accepted` and `Establish`, as a connect that is
  attempted again and again is not turned away for ever. Outages and late
  answers are bounded and never owed. `Recovers` is about behaviours whose
  iterations have a time limit, as those of the library's own thread have.
* Programs: weak fairness of the relay's own steps, of the update's own steps
  (not of the transfer of the package: `ProgramsEnd` is about one that arrives),
  of the device manager's main thread, of its callbacks and of `iot-control`.
  Signals, requests and closes are never owed. The update as an action of the
  device manager is taken to end; UpdateInstall says when it does. Nothing is
  assumed of the join of the library's threads, which may last for ever
  (`stop_hangs`): `QuitEnds`, in `ProgramsEnd`, brings the device manager to that
  join with nothing left to serve, and no further.

The other modules have safety properties only.

## 5. Proofs

All are for every value of the constants that meets the named assumptions; eight
modules hold them.

**ActionQueue_proofs.** `IInv` is the types, `HandsInv` (a thread holds a record
exactly at certain places), `ThreadInv` (which handles exist at which place of
start and stop), `NoSlotShared`, `NoSlotLost`, and `LockInv` (who owns the
lock). None is inductive alone: a release stores at `free_count - 1`, which is a
legal and unused index only because the records in hand, waiting and free are
disjoint and together all (`NoSlotShared`, `NoSlotLost`), and whose hands hold a
record follows from places (`HandsInv`). `QueueNeverFull` follows by the
pigeonhole principle: the waiting records are distinct and differ from the
incoming one. Theorems: `TypeCorrect`, `RecordsConserved`, `RecordsKept`,
`NeverFull`, `RunsAlone`, `StopLeavesNothing`.

The module also proves the *refinement*: `KeepsLedger` is
`Spec => ImplementsLedger`, by which every behaviour of the threads, locks and
records is one of RequestLedger's lines. The mapping computes the stage of a
request from who has it (`LedgerStage`), the order from the list of waiting
records (`LedgerOrder`) and the verdict from the status in the hands of the
worker that is about to report it (`LedgerVerdict`). A step of the code is a step
of one line or a stutter: `Receive` accepts or `Refuse` refuses, `Submit` queues,
`EnterTake` and `WokenTake` take the head, `Lock` runs, `Executed` finishes,
`Look` skips, `Complete` reports, `Release` gives the place back. `IInv` is about
records only, so it is joined by `LedgerInv` (theorem `LedgerHeld`), about what
is in them: every request accepted and not reported has exactly one live record
(`RecordsInv`), none is reported that has not arrived or was refused
(`SettledInv`), a worker gives back only what it reported and brings no status of
an earlier request along (`DutyInv`). That an exclusive line runs alone comes
from `LockInv`, that a place is only given back when one is over from counting
the records not free (`RoomToRelease`).

**Transactions_proofs.** A status travels from a message to a thread's
`tx_status`, to the word it has loaded, to the array; what is claimed of the
array is claimed of each of them, and causes never disappear. Arithmetic lemmas
show that an identifier is found again from its word and place for any width.
As long as no two threads take identifiers at once (`One`: one of them at most is
between the test of the counter and its store), `TurnInv` says that the n-th number
issued stands at its place of a lap from 1 to `TxnMax`, whichever threads take
them: two messages less than a lap apart differ. Theorems: `TransactionTypes`,
`StatusCaused`, `RepliesAreRecorded`, `IdentifiersGoRound`.

**Mailbox_proofs.** `OneCheckPending` is strengthened with what each place of a
thread implies about `recent`; `early` records that an interval or a reconnect
has let a second check through. Theorems: `MailboxTypes`, `ChecksAreSingle`.

**Tr50_proofs**, about two parts of the plug-in that share nothing.
*Transfers*, for any number of them at once and any size of the array
(`SizeAssumption`: there is a place). What the properties claim while the array
is used as a stack needs to know what every place and message stands for
(`Stack`): a message on its way carries the place that its request is noted in,
or, while it is not noted, the place it will be noted in, which is the count; a
transfer that is asked for is the only one in `sending`; a thread holds the place
noted for it, with its own path, callback, checksum, url and handle. Requests that
were refused keep their places for ever, so the array need not be empty. A removal
of the last place moves nothing and disturbs no other; any other removal sets
`disturbed`, which is for good, and only the types are claimed then. `Done` is what
a thread has done so far. Theorems: `TransferTypes`, `FilesAreRight`,
`EndIsReported`. Section 6 has what is lost with an array that is no stack.

*Link.* `BeliefIsCorrected` says that some callback that tells of
the loss is still to come. What is inductive is what the *last* one says
(`LastWord`): without a session the last callback that is to come is not a
success, and when none is to come the wrapper knows. Callbacks are delivered in
order, so delivering one leaves the last in its place unless it was the last. The
types (`LinkTypes`) need the bounds of the counters and the wrap of the unsigned
one. Theorems: `LinkTypes`, `BeliefCorrected`.

**ActionExecute_proofs.** First the data: casts stay in range and keep what fits
(`CastInRange`, `CastKeeps`); the tests of the 56 conversions between integer
types are together the range of the type (`FitsIsRange`); `ConvertIsExact` puts
them together. Then the request: `TInv` (types and limit); `VInv` adds `Origin`,
by which a value is what the cloud has sent until its parameter is checked and
converted once afterwards (`VInvCommand` for the command's steps). Names of an
action differ (`ActionsAssumption`, as `iot_action_parameter_add` finds an
existing name), so no value is converted twice. `CInv` adds what each checked
parameter fulfils and where the flags of a parameter come from. `AInv` is for
the answer: an output that was set is in the request as it was made
(`MadeIsThere`), none is made before the action runs (`Unmade`), and once a
success has passed the test of required outputs nothing is owed (`OwesNothing`).
That such an output is then written rests on its value not being null, which no
conversion makes of a value (`ConvertIsNoNull`, `ValueIsNoNull`), and that an
integer is written unchanged on its range fitting the 64-bit member it goes
through (`PublishedAsIs`). Theorems: `ExecuteTypes`, `IntegersArrive`,
`CallbacksCalledRight`, `AnswersComplete`.

**Lists_proofs**, about each of six collections and then about the composition.
What the constants must be is stated once in Lists, as `CollectionsAssumption`,
whose parts are named below; TLC evaluates it on the run.

*Searching by halving.* What a recursive function computes for every input is out
of the prover's reach as an induction, because the induction theorems of the
library take an operator. The least member of a set of numbers takes its place:
that every such set has one follows from the well-foundedness of inclusion
(`LeastNumber`), and so the shortest stretch on which a search could go wrong
exists and leads to a contradiction. `HalvingExists` shows that the function is
defined on each stretch, `HalveRight` what it returns whatever the array holds,
sorted or not: a hit is neither lower nor higher, and otherwise the entry directly
before the place is lower and the one at it higher. That then *all* entries before
it are lower follows, for each collection, from the order of its array.

*Plug-ins* (`PluginBounds`: orders are integers, the plug-ins loaded at the start
fit). `PluginInv` is the types and that the list is ranked; a plug-in is put in
behind all of lower order (`WithIsRanked`), and taking one out leaves the order
of the rest. That list keeps the order each plug-in had when it was enabled;
`OwnOrders` says that it is the order of the plug-in now in the structure, until
one is loaded over it. Theorem: `PluginsAreOrdered`.

*Options* (`OptionBounds`: keys are integers, `NoName` is no name). `OptionTidy`
says what the array must be for a search to be right, which differs among the
four holders (`Apart`): the list is strictly sorted, the options of an action
differ in their keys, the others in their names. It is claimed while every option
has a name, as `StoredIsRead` and `OthersKept` are. From it the
value that is read is that of the one option with the name (`ValueIs`), and each
step is an `OptionStep` that changes at most the options with the key it was
given. Theorems: `StoredOptionsAreRead`, `OtherOptionsAreKept`.

*Items* (`ItemBounds`: names are ordered as positive numbers; the structures
inside the library are finitely many, fit into the array and are not on the
heap). `SlotsKept` speaks of the moments when nobody writes the array, and is
not inductive: while entries shift, one structure stands in two places, or in
none. `ItemInv` says what the array is at *every* step: but for one place, which
may be written over, and one structure, which is on its way in or out, it is
laid out as it should be (`Layout`: in use, sorted, each structure in one place,
none lost, the unused ones behind, every item listed). `Shifting` (at each turn
of the loop the free place is one lower, with the goal between the names),
`Counting` and `Closing` are that claim for the places of a thread that writes,
`Still` for the rest; `Alone` is why there is only one such thread, from the
mutex or, in the list of actions, from the application taking turns, and why
`iot_terminate` counts off only what is there. `EntryMoves` is the lemma on one
turn of a `memmove`. `SearchInv` is the worker's search: as long as no change of
the list has met it, no entry before the one it looks at has the name. TLC
checked `ItemInv` as an invariant of the same instance before it was proved.
Theorems: `SlotsAreKept`, `SearchIsRight`.

*Samples.* `TimesUsedOnce` compares samples that were sent; what makes
it inductive is the thread that holds the mutex: the time kept in a telemetry is
later than those of all its samples unless that thread is about to reset it
(`StampIsNew`), and the message built but not sent has a time later than those
sent (`MessageIsNew`). Theorem: `TimesAreSpent`.

*Configuration files* (`FileBounds`: a file that can be read has members that go
down one level at a time, as those of a JSON document do; any other gives none).
What parsing a file yields is a recursive function over its members. That it is
defined is shown by the least number it could fail for (`ParsingExists`), and
then followed round by round: after each member the key built so far is the path
that leads to it (`KeyIs`, `KeyNext`: one level deeper appends a name, one that
is less deep cuts the key back), and the settings are those of the members seen
so far, a later one in the place of an earlier one of the same path (`ConfigIs`,
`ConfigNext`). So a whole file gives every setting of its own and leaves the
others alone (`ObjectIsParsed`). `FileInv` carries this over the steps of
several programs: one that has read the global file has all of it
(`GlobalRead`), one that is connected has its own above it (`BothRead`), and
once a program has started alone the file of the identifier is the one that all
later ones read (`IdKept`). Two programs that write the file at once may leave a
mixture; one that began when no other was starting (`alone`) has found the file
settled. Theorem: `FilesAreReadRight`, the half of `ReadAsBuilt` about files.

*The encoders of JSON.* The encoder of text keeps three bits to a level, the
encoder of a tree a list of open nodes. `SameOpen` says that they stand for the
same structures; that a cancel or an end meets the same one in both, and that a
cancel leaves no open node behind the cut, needs the order of the open nodes
(`OpenNodes`) and that no object is ever put around a key but the first
(`NoParent`, as the library names the members of objects and nothing else).
`TextBegins`, that the mark a cancel cuts at is never the first of a text that is
still built on, keeps the text from becoming empty inside an open structure.
Theorem: `EncodersAgree`.

*Types.* Most bounds of `TypesOK` need more than their own variable: that no more
plug-ins are enabled than there are structures is the pigeonhole principle on the
ranked list (`PluginsFit`); that the options fit is `OptionTidy` with the counter
of the array (`OptionSizes`); that a worker's place stays in the list needs that
the search by halving ends in it (`ItemPlace`); that the samples fit counts those
that threads have begun (`SampleSizes`); that a parent is an earlier node needs
the order of the open ones.

*Together.* A step of the composition is a step of one part and leaves the others
alone (`PartsStep`), so all of this holds in the specification that `lists_checks`
explores. Theorems: `CollectionsAreRight`, `TypesAreKept`.

**Documents_proofs**, on top of Lists_proofs: what the encoder of text writes is
read by the decoder as the tree that the encoder of trees builds
(`MemberBounds`: names are strings that are not empty, as the empty one stands
for no name). A token's size and end depend on marks that come later, so the
claim is made of every *beginning* of a text, with what is still open in it.
`Place` says which token is that of a node: nodes and names count in the order
of the text. `Core` relates the parser after a beginning (its tokens, the
structure it counts into) to a tree and the list of its open nodes: each node
has its token, each name one before it; sizes count the children so far; the
open nodes are those whose token has no end; tokens begin in order and lie
inside that of their parent. A node that joins (`CoreGrows`), a bracket that
closes (`CoreCloses`) and a comma (`CoreApart`) keep it, and `Reads` adds where
a comma is due. That is enough for all calls but two:
`app_json_encode_object_cancel` and `_clear` cut the text at a bracket that the
code finds by counting braces backwards. `History` therefore records, for each
open structure, where its bracket is, on which level of braces, and that the
text up to it reads as the nodes up to it, with the levels that were open then;
`BraceFound` shows that the code's search meets that bracket, and `CancelDoc`
and `ClearDoc` that the rest is what `History` has kept. Brackets of arrays are
not counted by the code; that is right because what is closed inside has as many
opening braces as closing ones (`Evened`). `DocInv` with `JsonInv` is the
inductive invariant. `DumpReads` closes the open levels one after the other,
after which nothing is open, and `Reading` is what is then known of every token.
The rest is the decoder's side: the iterator goes from a child to the next one
(`NextStop`), the n-th turn and `app_json_decode_array_at` give the n-th child,
the search by name gives the first child whose name begins with what is looked
for (the code compares no further, section 6). Theorems: `DocumentsReadRight`;
`ContentsAreRead`, which with `FilesAreReadRight` is `ReadAsBuilt` in the
specification that `lists_checks` explores.

**Programs_proofs**, each about the specification of its program and then about
the composition. *Relay:* bytes written followed by those in the buffer are
those read, in order, until the close throws the buffer away (`ToCloud`:
`AllThere` or `Dropped`); frames written followed by the one in hand are those
received, until a write is cut short (`ToDevice`). *Update:* `ScriptInv` has
what each place of the program owes: before the phases nothing has run; the
scripts that ran belong to phases that are over (`OfPastPhases`), all of those
that the package has did (`AllOfPastPhases`), and a failure whose error script
could not be started is at the end of the list and has ended the program without
success (`FailureEnds`); the last phase is behind every success on VxWorks and
every reboot (`EndReached`). The update.json that is read is an earlier one only
where the directory is (`JsonInv`). *Device manager:* permission is handed on,
from the table (`TableRight`, from the end of `ConfigRead`) to the actions
registered, to those served, to the runs of iot-control, to what takes the
system down; a signal may end the program before the table is right, but then
nothing is registered. Without the library nothing is registered or served
(`LibRight`), so what is under way when the threads are joined is what the join
waits for, and none is left after it. A decommissioning deletes the identifier
last, so at its end a success means the identifier is gone (`Decommissioning`),
although a success may hide that another file was left. *Control program:* the
dialogue walks the schema, which is any that is laid out as the one built into
the program (`SchemaAssumption`: each object is followed by what is in it and
has something in it; the paths differ) and in which what is required depends on
nothing (`DependenciesAssumption`). Both hold of
`src/src/control/iot-connect.schema.json`: its required values are `host` and
`token` of `cloud`, which depend on nothing (`port`, `ca_bundle_file` and values
of the proxy do). Without the second `PromptsRight` would be false, for a
required value of an object that is itself hidden. The walk is one of a tree by
its document order; `Dialogue` says that the place of the dialogue is after all
that was asked (`Place`, `AskedInOrder`), that everything before it was asked or
may be left out (`AskedAll`), and that an object is only left with what it
requires held (`NeededHeld`). *Types:* the relay takes what fits into its buffer
(`RelaySizes`), and for the update and the device manager each counter is
bounded with the places at which it moves. Theorems: `StreamsAreKept`,
`ScriptsRunInOrder`, `CommandsAreObeyed`, `PromptsAreRight`, `ProgramsAreRight`,
`TypesAreKept`.

Only model-checked: liveness (`Served`, `MailServed`, `Recovers`,
`ProgramsEnd`) and anything about ENABLED, which the prover does not handle.
Every invariant and action property of a passing run is stated by a theorem.
No module has a RECURSIVE operator; `Round` uses
CHOOSE over an interval and the proofs use nothing of it.

## 6. Findings and further disagreements

Five runs are violations of what a comment or a schema of the repository says;
`findings` quotes it:

1. `stop_hangs`: a worker misses the only broadcast of a stop and is joined for
   ever (`iot_base.c:1237`).
2. `txn_answer_lost`: the step AFTER overwrites the recorded answer
   (`tr50.c:1368`).
3. `file_swapped`: two downloads at once get one identifier, and one is kept at
   the path of the other (`tr50.c:1483`).
4. `plugins_disordered`: after an unload a plug-in is loaded over the structure of
   one that is enabled and is called in its place (`iot_plugin.c:320`).
5. `config_conforms`: a number out of the bounds of the schema, and a setting
   without the one it depends on, reach the connect file
   (`app_json_schema.c:1006`, `control_config.c:300`).

Seen with the models, or while writing them, and kept out of the list of runs:

*Queue.*
* A worker that is woken while a busy worker has taken the request returns with
  nothing done, and its thread ends for good (`iot_action.c:1248-1254`,
  `iot_base.c:622-634`). `Served` allows for it.
* On a restart new threads may read the old `to_quit` and end
  (`iot_base.c:1207`).
* The reason of a refused request is freed before it is published
  (`iot_action.c:1324`).

*Transactions.* Two publishing threads may get one identifier, and then one
status (`iot_plugin.c:260`): `StatusIsOwn` in Transactions.

*Transfers.*
* Two under way may get the same place (`file_swapped`). The last place is not the
  only one that is removed: then the length of the move is that of another
  structure, and only the callback and the checksum, or with more places behind
  also the handle of libcurl, go to the place before while path and url stay
  (`tr50.c:1847-1855`), so reports and checksums meet the wrong transfer and a
  thread works with the handle of another. A thread whose place is beyond the
  shrunk array moves memory over a length that has wrapped below zero.
* Requests that overlap find room for both and are noted beyond the array
  (`tr50.c:1456`, 1525): `Note`.
* A reply that comes before the note finds an empty place and is dropped, or one
  with the path of an earlier transfer, and writes to that path (`tr50.c:1525`).
* A refused request keeps its place for ever: nothing reads `expiry_time`,
  whatever the comment at `tr50.c:38` says. Retries have no limit.
* The result of moving a download into place is not looked at (`tr50.c:1806`); a
  download that cannot be opened again for its checksum reports success. An
  upload that is tried again goes on from where its file handle stands.
* The archive of a directory stays when its upload fails or is refused; a file
  that cannot be read ends the archiving with success.

*Mailbox.*
* In single-thread mode nobody checks when a record comes free
  (`iot_base.c:1158`; `MailServed` with `Mailbox_single.cfg`).
* A check is sent on a stale count of free records, and the request is refused
  (`tr50.c:1006`). `tr50.c:1044` says "worst case ... we wait out the timer",
  but nothing checks again when it has run out.
* A notice that is handled before the check of `tr50_connect` makes
  `iot_connect` return a failure while the link is up (`tr50.c:1178`):
  `ConnectTellsTruth` with `Mailbox_single.cfg` and `SingleThread` FALSE.

*Link.* A reconnect in `iot_loop_iteration(lib, 0)` waits without a limit
(`tr50.c:2525`, `iot_mqtt.c:524`): `untimed` in LinkMonitor. The loop of the
Paho connect sets its time out to 0 "failure, so break loop", although 0 is the
condition to go on (`iot_mqtt.c:693`): `RefusalEndsConnect`. A refusal of the
broker counts as a connection (`iot_mqtt.c:855`).

*Conversions and answers.*
* A float is compared only with the upper bound, so -1.0 passes for an unsigned
  type and the cast is undefined (`iot_common.c:1245`);
  `iot_common_data_no_decimal` has an undefined cast of its own (1720); INT32 to
  INT64 and UINT32 to INT64 read each other's member (1305-1308); a float read as
  a boolean is true for zero (and unit tests assert it). The test whether a text
  is base64 and the conversion after it disagree (about 1640).
* A FLOAT32 output is always published as 0.0, as nothing converts to floats
  (`iot_common.c` 137-141), and a large UINT64 as a negative number: `Writable`
  in ActionExecute excludes them. A parameter that is only a required *output*
  may be sent by the cloud: it is not found unknown, though `iot_action.c:383`
  says none is left at this point, and it then counts as set.
* An output whose name cannot be allocated frees the array of parameters the
  request still points to (`iot_action.c:2080`).

*Collections.*
* Items: an action in a structure of the library whose name cannot be allocated
  is returned although it is not in the list (`iot_action.c:267`); a search that
  a change of the list meets may miss an action that is there
  (`iot_action.c:1274`).
* Options: names of the options of an action ignore case, those of the others do
  not (`iot_action.c:936`); the second option of a telemetry is written behind
  an allocation for one (`iot_telemetry.c:232`); an update that runs out of
  memory leaves an option without a name, after which a search may go anywhere
  (`iot_option.c:439`; the properties are about behaviours until then); the
  result of a deletion is overwritten (`iot_option.c:359-377`); the copy of a
  location shares the pointer to its tag.
* Plug-ins: a plug-in loaded over an enabled structure replaces that one in the
  list of calls, and counts as enabled even if it could not be; a file that is
  loaded twice is called twice (`iot_plugin.c:320`); unloading the last moves a
  negative number of pointers (`iot_plugin.c:366`), where the behaviour ends;
  that a plug-in is enabled already is never reported, as the result is
  overwritten (`iot_plugin.c:170`).
* Configuration: two programs that start at once both write the file of the
  identifier, which is not truncated, and may leave a mixture of both; a file that
  is named but missing counts as success; options of
  an earlier connect stay; the global settings stay applied when the program's
  own file fails.
* JSON: a search by name takes any member whose name *begins* with it; the
  cancelling of a first member, or of an item of an array, spoils the text
  encoder (`control_config.c:348` does it); a static buffer without indentation
  keeps no room for the closing brackets; the two encoders have different limits
  of depth (21 and 10); after a failed allocation an implicit parent stays open;
  a key at the root or in an array differs between the encoders; an iterator at
  the end reads behind the last token; a number may begin with "+".
* Samples: a time that is set during a publication is lost, and one kept over a
  failed publication goes with the next sample; the accuracy of the altitude is
  never sent; of the location of an alarm only latitude and longitude are; a
  time given as uint64 is left out without a word; integers beyond 2^53 lose
  digits; bytes are sent unencoded when memory fails.

*Programs.*
* Relay: bytes read but not sent when the relay closes are freed with the buffer
  (`relay_main.c:931-937`), on a signal and on a close of either side; civetweb's
  thread may still be in the callback then, on a closed socket and freed memory.
* Device manager: its end joins the threads of the library and hangs with them
  (`stop_hangs`); a configuration file of 4096 bytes or more is ignored; a
  command that ends with any code but a negative one counts as a success
  (`device_manager_main.c:1558`).
* Update: the result of clearing the directory of an earlier update and a block
  of a file that cannot be written are not looked at, and a package that cannot
  be opened counts as unpacked (`device_manager_ota.c` 258, 661, 548), so that the
  update.json of an earlier update, or of a package cut short, is followed
  (`update_main.c` 339-343); the return code of the error script is not tested,
  unlike that of a phase (`update_main.c` 439-441 against 421), and a failing one
  counts as a repair; on posix a package whose scripts never ran
  is reported as a success (`update_main.c` 253-261 against 128):
  `SuccessMeansRun`.
* Control: a later success hides an earlier failure to delete a file
  (`control_main.c:72`); a rejected answer counts as set, a blank number or
  boolean is written as 0 or true, and the old connect file is deleted before
  the new one is opened; `exclusiveMinimum` and `exclusiveMaximum` are swapped
  in `app_json_schema.c`.

## 7. What is left out

* Forced stops (`iot_loop_stop` with `force`), single-thread mode of ActionQueue
  (Mailbox has it), the death of worker threads in Mailbox. `iot_terminate` is
  in ItemLists, without the threads that still run.
* One enabled plug-in in Transactions; acknowledgements of the transport and the
  `id` option.
* Duplicate replies to file requests; which files the archive of a directory
  holds; `queue_check` of this version finds nothing to do.
* In Mailbox a request inside a lost message counts as lost (the cloud's
  redelivery is another request). LinkMonitor leaves out certificates, proxy and
  the synchronous Paho client.
* Memory failures of a request other than of its record; locations as values;
  `IOT_CONVERSION_ADVANCED`, which nothing in the library asks for; the 512
  bytes of the answer's buffer; command lines beyond PATH_MAX.
* JSON: documents that a cancel of a first member, or of an item of an array,
  has spoiled; the text of numbers and strings, indentation, limits of size and
  depth. JSON schema: reals, patterns, `multipleOf`, exclusive bounds, which the
  built-in schema does not use.
* Programs: arguments, Windows services, starting and stopping of services.
* Pure functions and wrappers: base64, checksum, locations, argument parsing,
  log, paths; the operating system layer is a package of its own that is not in
  the repository (its promises about mutexes and conditions are assumed).
* Tests, samples, build files: read as documentation.

## 8. Plan

Done: ActionQueue with RequestLedger, Transactions, Mailbox, FileTransfers,
DataConversion with ActionExecute; then LinkMonitor, ItemLists, Options,
PluginList, the JSON encoder and decoder, Configuration, Samples, and the
programs Relay, UpdateInstall, DeviceManager, JsonSchema with ControlConfig; the
proofs of section 5, the refinement of RequestLedger among them.

Twelve runs are what the project keeps at a time, so a new question takes the
place of one that says less. Left, the most important first:

1. Forced stop and `iot_terminate` while workers run, in ActionQueue; the death
   of workers in Mailbox.
2. Several enabled plug-ins in Transactions; time outs of the steps.
3. Argument parsing and the flat configuration file (`app_arg.c`,
   `app_config.c`) against a reference definition.
