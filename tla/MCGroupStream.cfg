CONSTANTS
  s1 = s1
  s2 = s2
  Streams = {s1, s2}
  Watched = s1
  Advertised = {s1, s2}
  Raisable = {"TaskNotFoundError"}
  ErrorReasons <- SdkReasons
  Nested <- FromBelow
  MaxEvents = 2
SPECIFICATION FairSpec
INVARIANTS GroupInv DemuxInOrder EndOfAll GroupFailure
PROPERTIES MemberImplementsContract GroupSettles
CHECK_DEADLOCK FALSE
