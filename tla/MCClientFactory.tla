-------------------------- MODULE MCClientFactory --------------------------
EXTENDS ClientFactory

Slim(url) == Interface("slimrpc", url, TRUE)
Grpc(url) == Interface("grpc", url, TRUE)

SlimOnly  == { Slim("a/b/one") }
Both      == { Slim("a/b/two"), Slim("a/b/three"), Grpc("a/b/two") }
GrpcOnly  == { Grpc("a/b/four") }
Malformed == { Interface("slimrpc", "five", FALSE), Grpc("a/b/five") }

AllCards == { SlimOnly, Both, GrpcOnly, Malformed }

\* None, each card alone, and the groups that differ in what they share.
SomeLists ==
  { << >>, <<SlimOnly, Both>>, <<Both, SlimOnly>>, <<Both, GrpcOnly>>,
    <<SlimOnly, Malformed>>, <<Both, Malformed>>, <<Both, SlimOnly, Both>>,
    <<GrpcOnly, GrpcOnly>> } \cup { <<card>> : card \in AllCards }

ClientConfig(bindings, factory, groupFactory) ==
  [ bindings |-> bindings, factory |-> factory, groupFactory |-> groupFactory ]

AllConfigs ==
  { ClientConfig(b, f, g) :
      b \in { << >>, <<"slimrpc">>, <<"grpc", "slimrpc">> },
      f \in BOOLEAN, g \in BOOLEAN }

AllRegistrations ==
  [ label : Labels, producer : { SRPC, Compat }, multiagent : BOOLEAN ]

\* README, `Talking to an A2A v0.3 agent', with its configuration for several
\* agents at once.
ReadmeConfigs == { ClientConfig(<<"slimrpc">>, TRUE, TRUE) }
ReadmeRegistrations ==
  { [ label |-> "slimrpc", producer |-> Compat, multiagent |-> TRUE ] }
=============================================================================
