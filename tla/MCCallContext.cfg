CONSTANTS
  c1 = c1
  c2 = c2
  Calls = {c1, c2}
  Members <- Callers
  Subjects = {"alice", "bob"}
  SubjectOf <- Verified
  IssuerOf <- VerifiedBy
  Tenants = {"", "t", "u"}
  Extensions = {"x"}
  Servicers <- SomeServicers
  MayAsk <- SomeRequests
SPECIFICATION ContextSpec
INVARIANTS ReachesOwnVersion UserIsSender ContextIsOwn
CHECK_DEADLOCK FALSE
