CONSTANTS
  s1 = s1
  Streams = {s1}
  Called <- EveryRoute
  Notifying = {}
  Raisable <- EveryError
  ErrorReasons <- SdkReasons
  Nested <- FromBelow
SPECIFICATION FairSpec
INVARIANTS UnaryInv AnswerIsTheResult BareInternal SameCodeInBothVersions
PROPERTIES ImplementsContract CallSettles
CHECK_DEADLOCK FALSE
