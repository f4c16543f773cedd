---------------------------- MODULE ActionExecute ----------------------------
(***************************************************************************)
(* The parameters of one action request, from the message of the cloud to  *)
(* the answer.  The plug-in stores what the cloud has sent; a worker checks *)
(* it against the parameters of the action and converts the values in       *)
(* place; the callback of the action reads and sets parameters; the worker  *)
(* checks what the action owes, and the plug-in publishes the answer.       *)
(* ActionQueue models how the request gets to the worker.                  *)
(***************************************************************************)
EXTENDS DataConversion, Sequences, FiniteSets

CONSTANTS
  Actions,       \* what the application may have registered
  Names,         \* names of parameters
  BadNames,      \* names with a character of IOT_PARAMETER_NAME_BAD_CHARACTERS
  Sent,          \* values the cloud sends: data of type bool, int64, float64, string
  Produced,      \* values a callback or a command sets
  Commands,      \* actions that have a command and no callback
  NoReturn,      \* actions with IOT_ACTION_NO_RETURN
  Retval, Stdout, Stderr,   \* names of what a command returns
  None,          \* no value, no message
  IOT_PARAMETER_MAX,
  MaxSent,       \* bound: parameters in the message
  MaxSet,        \* bound: parameters the callback sets
  MaxReads       \* bound: parameters the callback reads

\* An integer fits its type.
DataOK(d) ==
  /\ d = [type |-> d.type, value |-> d.value, has |-> d.has]
  /\ d.type \in Types /\ d.has \in BOOLEAN
  /\ d.type \in IntTypes => d.value \in Ints(d.type)

Flags == {"in", "in_required", "out", "out_required"}

\* What iot_action_parameter_add stores: a required parameter is also an in
\* or an out parameter.
Use(flags) == flags \cup (IF "in_required" \in flags THEN {"in"} ELSE {})
                    \cup (IF "out_required" \in flags THEN {"out"} ELSE {})

\* An action is the sequence of its parameters, each [name, flags, type].
ASSUME ActionsAssumption ==
  \A a \in Actions :
    /\ a \in Seq([name : Names, flags : SUBSET Flags, type : Types])
    /\ Len(a) <= IOT_PARAMETER_MAX
    /\ \A i, j \in DOMAIN a : a[i].name = a[j].name => i = j
\* What iot_action_execute finds wrong with a request.
Reasons == {"required IN parameter missing", "invalid value for parameter",
            "unknown IN parameter", "required OUT parameter missing"}

ASSUME ValueAssumption ==
  /\ None \notin Names \cup Produced /\ None \notin Reasons
  /\ \A d \in Sent : d.type \in {"bool", "int64", "float64", "string"} /\ d.has
  \* iot_common_arg_set: only a null has no value.
  /\ \A d \in Sent \cup Produced : DataOK(d) /\ (d.has <=> d.type # "null")
  /\ \A d \in Sent : d.type = "float64" => d.value.n >= -FLT_MAX
  /\ {Retval, Stdout, Stderr} \subseteq Names
ASSUME LimitAssumption == {IOT_PARAMETER_MAX, MaxSent, MaxSet, MaxReads} \subseteq Nat

VARIABLES
  action,    \* the action that is requested
  stage,     \* how far the request is
  request,   \* the parameters of the request by name, each [use, data]
  next,      \* the parameter of the action to be checked next
  required, badType,  \* param_required_name, param_bad_type_name
  result, message,    \* status of the request, and the reason of a failure
  answer,    \* what is published
  sent,      \* count: parameters of the message handled so far
  given,     \* history: the value the cloud has given each parameter
  made,      \* history: the value the callback or command has set for each parameter
  reads      \* history: what the callback has read, or the command was given

vars == <<action, stage, request, next, required, badType, result, message,
          answer, sent, given, made, reads>>
checkVars == <<next, required, badType>>
historyVars == <<sent, given, made, reads>>

Init ==
  /\ action \in Actions
  /\ stage = "parsing"
  /\ request = <<>>
  /\ next = 1 /\ required = None /\ badType = None
  /\ result = "not_found" /\ message = None /\ answer = None
  /\ sent = 0
  /\ given = [n \in Names |-> None]
  /\ made = [n \in Names |-> None]
  /\ reads = {}

Known == DOMAIN request

-----------------------------------------------------------------------------
(***************************************************************************)
(* iot_action_request_parameter_set_args: a value of another type, a bad    *)
(* name and a parameter that has no place are refused.  Names are looked up *)
(* first, so none occurs twice.                                            *)
(***************************************************************************)
\* Mutant: the count is not compared with the limit.
MaySetMore(n, d) ==
  n \notin BadNames /\ (n \in Known => request[n].data.type \in {d.type, "null"})
MaySet(n, d) ==
  /\ n \notin BadNames
  /\ IF n \in Known THEN request[n].data.type \in {d.type, "null"}
                    ELSE Cardinality(Known) < IOT_PARAMETER_MAX

Stored(n, use, d) ==
  [m \in Known \cup {n} |-> IF m = n THEN [use |-> use, data |-> d] ELSE request[m]]
ParameterSet(n, d) == request' = Stored(n, {"out"}, d)

\* The plug-in takes no notice of a refusal.
Parse(n, d) ==
  /\ stage = "parsing" /\ sent < MaxSent
  /\ sent' = sent + 1
  /\ \/ /\ MaySet(n, d)
        /\ ParameterSet(n, d)
        /\ given' = [given EXCEPT ![n] = d]
     \/ ~MaySet(n, d) /\ UNCHANGED <<request, given>>
  /\ UNCHANGED <<action, stage, checkVars, result, message, answer, made, reads>>

\* iot_action_request_execute; a worker takes the request from the queue.
Dispatch ==
  /\ stage = "parsing"
  /\ stage' = "checking"
  /\ UNCHANGED <<action, request, checkVars, result, message, answer, historyVars>>

-----------------------------------------------------------------------------
(***************************************************************************)
(* iot_action_execute: one step for each parameter of the action, until one *)
(* is missing or of a bad type.                                            *)
(***************************************************************************)
Checking ==
  stage = "checking" /\ required = None /\ badType = None /\ next <= Len(action)

HasValue(n) == n \in Known /\ request[n].data.has

CheckParameter ==
  LET n == action[next].name
      use == Use(action[next].flags)
      missing == "in_required" \in use /\ ~HasValue(n)
  IN
  /\ Checking
  /\ next' = next + 1
  /\ required' = IF missing THEN n ELSE None
  /\ \/ /\ n \notin Known \/ missing
        /\ request' = IF n \in Known THEN Stored(n, use, request[n].data) ELSE request
        /\ UNCHANGED badType
     \/ /\ n \in Known /\ ~missing
        /\ \E c \in Convert(request[n].data, action[next].type) :
             /\ request' = Stored(n, use, c.data)
             /\ badType' = IF c.ok THEN None ELSE n
  /\ UNCHANGED <<action, stage, result, message, answer, historyVars>>

\* Mutant: nothing looks for parameters the action does not have.
NoUnknown == {}
Unknown == {n \in Known : request[n].use = {"out"}}

Reason ==
  IF required # None THEN "required IN parameter missing"
  ELSE IF badType # None THEN "invalid value for parameter"
  ELSE IF Unknown # {} THEN "unknown IN parameter" ELSE None

EndChecks ==
  /\ stage = "checking" /\ ~Checking
  /\ message' = Reason
  /\ result' = IF Reason = None THEN "failure" ELSE "bad_request"
  /\ stage' = IF Reason = None THEN "running" ELSE "executed"
  /\ UNCHANGED <<action, request, checkVars, answer, historyVars>>

-----------------------------------------------------------------------------
(***************************************************************************)
(* The callback of the action: iot_action_parameter_get and _set.          *)
(***************************************************************************)
CallbackReads(n, t, convert) ==
  /\ stage = "running" /\ action \notin Commands /\ Cardinality(reads) < MaxReads
  /\ n \in Known
  /\ \E v \in Read(request[n].data, t, convert) :
       reads' = reads \cup {[name |-> n, type |-> t, value |-> v,
                             from |-> request[n].data.type, sent |-> made[n] = None]}
  /\ UNCHANGED <<action, stage, request, checkVars, result, message, answer,
                 sent, given, made>>

CallbackSets(n, d) ==
  /\ stage = "running" /\ action \notin Commands
  /\ Cardinality({m \in Names : made[m] # None}) < MaxSet
  /\ MaySet(n, d)
  /\ ParameterSet(n, d)
  /\ made' = [made EXCEPT ![n] = d]
  /\ UNCHANGED <<action, stage, checkVars, result, message, answer, sent, given, reads>>

CallbackReturns(status) ==
  /\ stage = "running" /\ action \notin Commands
  /\ stage' = "returned"
  /\ result' = status
  /\ UNCHANGED <<action, request, checkVars, message, answer, historyVars>>

-----------------------------------------------------------------------------
(***************************************************************************)
(* iot_action_execute_command: the command line has every parameter of the *)
(* request, as a value of its own type; it is taken to fit into PATH_MAX.  *)
(* When the command has ended, its return code and what it has written     *)
(* become parameters of the request, unless they are refused.              *)
(***************************************************************************)
CommandLine ==
  {[name |-> n, type |-> request[n].data.type, value |-> request[n].data.value,
    from |-> request[n].data.type, sent |-> made[n] = None] : n \in Known}

CommandStarts ==
  /\ stage = "running" /\ action \in Commands
  /\ stage' = "started"
  /\ reads' = reads \cup CommandLine
  /\ UNCHANGED <<action, request, checkVars, result, message, answer, sent, given, made>>

\* It cannot be run or takes too long, or the system does not wait for it.
CommandLeft ==
  /\ stage = "started"
  /\ stage' = "returned"
  /\ \/ result' = "failure"
     \/ action \in NoReturn /\ result' = "invoked"
  /\ UNCHANGED <<action, request, checkVars, message, answer, historyVars>>

TakeOver(n, d) ==
  \/ /\ MaySet(n, d)
     /\ ParameterSet(n, d)
     /\ made' = [made EXCEPT ![n] = d]
  \/ ~MaySet(n, d) /\ UNCHANGED <<request, made>>

CommandEnds(code) ==
  /\ stage = "started" /\ code.type = "int32"
  /\ result' = IF code.value = 0 THEN "success" ELSE "execution_error"
  /\ \/ /\ action \in NoReturn
        /\ stage' = "returned"
        /\ UNCHANGED <<request, made>>
     \/ /\ action \notin NoReturn
        /\ stage' = "stdout"
        /\ TakeOver(Retval, code)
  /\ UNCHANGED <<action, checkVars, message, answer, sent, given, reads>>

CommandWrote(n, d) ==
  /\ n = IF stage = "stdout" THEN Stdout ELSE Stderr
  /\ stage \in {"stdout", "stderr"}
  /\ stage' = IF stage = "stdout" THEN "stderr" ELSE "returned"
  /\ d.type = "string" /\ TakeOver(n, d)
  /\ UNCHANGED <<action, checkVars, result, message, answer, sent, given, reads>>

WroteNothing ==
  /\ stage \in {"stdout", "stderr"}
  /\ stage' = IF stage = "stdout" THEN "stderr" ELSE "returned"
  /\ UNCHANGED <<action, request, checkVars, result, message, answer, historyVars>>

-----------------------------------------------------------------------------
\* Required out parameters without a value.
\* Mutant: it is enough that the request knows the parameter.
OwedByName ==
  {i \in DOMAIN action : /\ "out_required" \in Use(action[i].flags)
                         /\ action[i].name \notin Known}
Owed ==
  {i \in DOMAIN action : /\ "out_required" \in Use(action[i].flags)
                         /\ ~HasValue(action[i].name)}

CheckOut ==
  /\ stage = "returned"
  /\ stage' = "executed"
  /\ \/ /\ result = "success" /\ Owed # {}
        /\ result' = "bad_request" /\ message' = "required OUT parameter missing"
     \/ /\ result # "success" \/ Owed = {}
        /\ UNCHANGED <<result, message>>
  /\ UNCHANGED <<action, request, checkVars, answer, historyVars>>

-----------------------------------------------------------------------------
(***************************************************************************)
(* The end of iot_action_process: iot_action_request_set_status without a   *)
(* format drops the message; tr50_action_complete writes the parameters     *)
(* that are marked out, whatever the status.                               *)
(***************************************************************************)
Bare(d) == [type |-> d.type, value |-> d.value]

\* Values in JSON: an integer is read as int64, a float as float64, and the
\* variable keeps its initial zero when the value cannot be read.
OrZero(values, zero) == IF values = {} THEN {zero} ELSE values
Published(d) ==
  CASE d.type \in IntTypes   -> {[type |-> "int64", value |-> v] :
                                   v \in OrZero(Read(d, "int64", TRUE), 0)}
    [] d.type \in FloatTypes -> {[type |-> "float64", value |-> v] :
                                   v \in OrZero(Read(d, "float64", TRUE), Float(0, FALSE))}
    [] OTHER                 -> {Bare(d)}

\* A null is not written.
Written == {n \in Known : "out" \in request[n].use /\ request[n].data.type # "null"}

Complete ==
  /\ stage = "executed"
  /\ stage' = "answered"
  /\ message' = None
  /\ \E params \in [Written -> UNION {Published(request[n].data) : n \in Written}] :
       /\ \A n \in Written : params[n] \in Published(request[n].data)
       /\ answer' = [status |-> result, reason |-> message', params |-> params]
  /\ UNCHANGED <<action, request, checkVars, result, historyVars>>

Next ==
  \/ \E n \in Names, d \in Sent : Parse(n, d)
  \/ Dispatch
  \/ CheckParameter
  \/ EndChecks
  \/ \E n \in Names, t \in Types, convert \in BOOLEAN : CallbackReads(n, t, convert)
  \/ \E n \in Names, d \in Produced : CallbackSets(n, d)
  \/ \E s \in {"success", "failure"} : CallbackReturns(s)
  \/ CommandStarts
  \/ CommandLeft
  \/ \E d \in Produced : CommandEnds(d)
  \/ \E n \in {Stdout, Stderr}, d \in Produced : CommandWrote(n, d)
  \/ WroteNothing
  \/ CheckOut
  \/ Complete

Spec == Init /\ [][Next]_vars

-----------------------------------------------------------------------------
\* The callback or the command has been called.
Executing == {"running", "started", "stdout", "stderr", "returned"}

\* Types; every integer fits its type, and the array of parameters does not
\* grow beyond its limit (iot_action_request_parameter_set_args).
TypeOK ==
  /\ action \in Actions
  /\ stage \in Executing \cup {"parsing", "checking", "executed", "answered"}
  /\ Known \subseteq Names /\ Cardinality(Known) <= IOT_PARAMETER_MAX
  /\ request = [n \in Known |-> [use |-> request[n].use, data |-> request[n].data]]
  /\ \A n \in Known : request[n].use \subseteq Flags /\ DataOK(request[n].data)
  /\ next \in 1 .. Len(action) + 1
  /\ {required, badType} \subseteq Names \cup {None}
  /\ result \in {"not_found", "failure", "bad_request", "success", "execution_error", "invoked"}
  /\ message \in Reasons \cup {None}

\* The number n, as a value of type d.type.
SameNumber(n, d) ==
  \/ d.type \in IntTypes /\ n \in Ints(d.type) /\ d.value = n
  \/ d.type \in FloatTypes /\ d.value = Float(Round(n, d.type), FALSE)

\* An integer of the cloud reaches the callback: whatever type the action has
\* registered for it, the value is converted exactly or refused, and a
\* callback that reads it as a type that can hold it reads the same number, as
\* does a command on its command line (iot_common_data_convert in place, then
\* iot_common_arg_get or iot_action_execute_command).
NumbersArrive ==
  /\ \A n \in Known :
       made[n] = None /\ given[n].type = "int64" => SameNumber(given[n].value, request[n].data)
  /\ \A r \in reads :
       r.sent /\ given[r.name].type = "int64" /\ {r.type, r.from} \subseteq IntTypes
         /\ given[r.name].value \in Ints(r.type)
       => r.value = given[r.name].value

\* A callback or command runs with all the parameters the action requires, each of the
\* type it has registered, and with none it did not register as input or as
\* required output (the tests of iot_action_execute).
CalledRight ==
  stage \in Executing =>
    /\ \A i \in DOMAIN action :
         LET n == action[i].name IN
         made[n] = None =>
           /\ "in_required" \in action[i].flags => HasValue(n)
           /\ HasValue(n) => request[n].data.type = action[i].type
    /\ \A n \in Known :
         made[n] = None =>
           \E i \in DOMAIN action : action[i].name = n /\ action[i].flags # {"out"}

\* Values tr50_action_complete can write: a float32 is not converted to
\* float64, and a large uint64 has no int64.
Writable(d) ==
  /\ d.type \notin {"float32", "null"}
  /\ d.type = "uint64" => d.value <= Top["int64"]

\* An answer of success has a value for each output the action owes, and
\* carries the values its callback or its command has set (iot_action_execute's test of the
\* out parameters, and the loop of tr50_action_complete).
AnswerComplete ==
  answer # None /\ answer.status = "success" =>
    /\ \A i \in DOMAIN action :
         "out_required" \in action[i].flags => action[i].name \in DOMAIN answer.params
    /\ \A n \in Names :
         made[n] # None /\ Writable(made[n]) =>
           /\ n \in DOMAIN answer.params
           /\ answer.params[n].value = made[n].value

\* A request that is refused is answered with the reason.
ReasonTold ==
  answer # None /\ answer.status = "bad_request" => answer.reason # None
=============================================================================
