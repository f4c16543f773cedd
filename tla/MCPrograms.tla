----------------------------- MODULE MCPrograms -----------------------------
(* Values for Programs: the relay has buffers of two bytes, an update has   *)
(* two files, the configuration file of the device manager may name one     *)
(* identifier, and the dialogue asks for two of the four groups of          *)
(* settings.                                                                *)
EXTENDS Programs

Object(path, required, dependencies) ==
  [path |-> path, type |-> "object", required |-> required, dependencies |-> dependencies,
   enum |-> {}, minimum |-> Unlimited, maximum |-> Unlimited]
Leaf(path, type, enum, minimum, maximum) ==
  [path |-> path, type |-> type, required |-> {}, dependencies |-> {},
   enum |-> enum, minimum |-> minimum, maximum |-> maximum]
Dep(name, needs) == [name |-> name, needs |-> needs]

Settings == <<
  Object(<<>>, {"cloud"}, {Dep("ca_bundle_file", {"validate_cloud_cert"})}),
  Object(<<"cloud">>, {"host", "token"}, {Dep("port", {"host"})}),
  Leaf(<<"cloud", "host">>, "string", {}, Unlimited, Unlimited),
  Leaf(<<"cloud", "port">>, "integer", {}, 0, 65535),
  Leaf(<<"cloud", "token">>, "string", {}, 16, 16),
  Leaf(<<"validate_cloud_cert">>, "boolean", {}, Unlimited, Unlimited),
  Leaf(<<"ca_bundle_file">>, "string", {}, Unlimited, Unlimited),
  Object(<<"proxy">>, {}, {Dep("host", {"type"})}),
  Leaf(<<"proxy", "type">>, "string", {"http", "socks5"}, Unlimited, Unlimited),
  Leaf(<<"proxy", "host">>, "string", {}, Unlimited, Unlimited)
>>

Number(sign, digits) == [kind |-> "number", sign |-> sign, digits |-> digits]
Text(word, length, begins) ==
  [kind |-> "text", word |-> word, length |-> length, begins |-> begins]
Typed == {Number("", <<8, 0, 8, 0>>), Number("", <<7, 0, 0, 0, 0>>),
          Text("a host", 6, {}), Text("a token", 16, {}), Text("httpx", 5, {"http"}),
          [kind |-> "truth", word |-> "false"]}

\* What the build enables, and what the cloud asks the device manager for.
Enabled == {"file_transfers", "ping", "quit_app", "reboot_device", "remote_login"}
Asked == {"quit_app", "decommission_device", "reboot_device", "dump_log_files", "file_upload",
          "ping", "remote_login"}
=============================================================================
