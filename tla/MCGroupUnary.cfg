CONSTANTS
  s1 = s1
  s2 = s2
  Streams = {s1, s2}
  Watched = s1
  Called <- GroupRoutes
  Notifying = {s1}
  Raisable = {"TaskNotCancelableError"}
  ErrorReasons <- SdkReasons
  Nested <- FromBelow
SPECIFICATION FairSpec
INVARIANTS GroupInv RepliesAreResults EndHasEveryReply OneMemberFailed
PROPERTIES MemberImplementsContract GroupCallSettles
CHECK_DEADLOCK FALSE
