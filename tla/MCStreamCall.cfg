CONSTANTS
  s1 = s1
  s2 = s2
  Streams = {s1, s2}
  Advertised = {s1}
  Raisable = {"TaskNotFoundError"}
  ErrorReasons <- SdkReasons
  Nested <- FromBelow
  MaxEvents = 1
SPECIFICATION Spec
INVARIANTS IInv CompleteEnd FaithfulFailure ErrorsAreNamed
CHECK_DEADLOCK FALSE
