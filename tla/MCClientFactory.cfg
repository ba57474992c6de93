CONSTANTS
  Labels = {"slimrpc", "grpc"}
  AgentCards <- AllCards
  Lists <- SomeLists
  Configs <- AllConfigs
  RegisterCalls <- AllRegistrations
  MaxCalls = 3
SPECIFICATION FactorySpec
INVARIANTS FactoryInv GroupIsAsked
PROPERTIES OneChannelPerClient
CHECK_DEADLOCK FALSE
