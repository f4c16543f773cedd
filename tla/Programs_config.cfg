CONSTANTS
  Unlimited = Unlimited
  Libraries = {"libwebsockets", "civetweb"}
  RELAY_BUFFER_SIZE = 2
  MaxBytes = 3
  MaxFrames = 2
  Systems = {"posix", "vxworks"}
  MaxEntries = 2
  Defaults <- Enabled
  Configurable = {"decommission_device"}
  Requests <- Asked
  MaxWork = 2
  MaxFailures = 1
  Document <- Settings
  Entries <- Typed
SPECIFICATION AllSpec
CHECK_DEADLOCK FALSE
INVARIANT
  ConfigConforms
