CONSTANTS
  s1 = s1
  s2 = s2
  Streams = {s1, s2}
  Watched = s1
  Called <- SendMessageOnly
  Notifying = {s1}
  Raisable = {"TaskNotCancelableError"}
  ErrorReasons <- SdkReasons
  Nested <- FromBelow
SPECIFICATION Spec
INVARIANT OneResponsePerAgent
CHECK_DEADLOCK FALSE
