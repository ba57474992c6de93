CONSTANTS
  s1 = s1
  s2 = s2
  Streams = {s1}
  Advertised = {s1}
  Raisable = {"TaskNotCancelableError", "ExtensionSupportRequiredError", "OtherA2AError"}
  ErrorReasons <- SdkReasons
  Nested <- FromBelow
  MaxEvents = 3
SPECIFICATION FairSpec
INVARIANT NoReadAhead
PROPERTIES ImplementsContract Settles HandleIsLeft
CHECK_DEADLOCK FALSE
