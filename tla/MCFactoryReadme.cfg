CONSTANTS
  Labels = {"slimrpc", "grpc"}
  AgentCards <- AllCards
  Lists <- SomeLists
  Configs <- ReadmeConfigs
  RegisterCalls <- ReadmeRegistrations
  MaxCalls = 2
SPECIFICATION FactorySpec
INVARIANT ListGivesMulticast
CHECK_DEADLOCK FALSE
