CONSTANTS
  s1 = s1
  s2 = s2
  Streams = {s1}
  Advertised = {}
  Raisable = {"TaskNotFoundError"}
  ErrorReasons <- SdkReasons
  Nested <- FromBelow
  MaxEvents = 1
SPECIFICATION Spec
INVARIANT A2AErrorCarriesReason
CHECK_DEADLOCK FALSE
