---------------------------- MODULE ClientFactory ----------------------------
(***************************************************************************)
(* MultiAgentClientFactory: which producer is registered for which label,  *)
(* which labels count as multiagent, and what create makes of one card or  *)
(* of a list of them: a unicast client, a MulticastClient over one group   *)
(* channel, or an exception.  A producer is one of the library's two       *)
(* create class methods.  What ClientFactory of a2a-sdk does for one card  *)
(* (choose an interface, call its label's producer) is external.           *)
(***************************************************************************)
EXTENDS Naturals, Sequences

CONSTANTS
  Labels,          \* the protocol bindings that occur
  AgentCards,      \* the agent cards: sets of interfaces
  Lists,           \* the lists of cards given to create
  Configs,         \* the client configurations
  RegisterCalls,   \* the arguments register is called with
  MaxCalls         \* bound: calls of register and create

SRPC   == "SRPCTransport.create"
Compat == "SRPCCompatTransport.create"

\* A url is well formed when it has the three components of a SLIM name.
Interface(binding, url, wellFormed) ==
  [ binding |-> binding, url |-> url, wellFormed |-> wellFormed ]

ASSUME ClientFactoryAssumption ==
  /\ "slimrpc" \in Labels
  /\ \A card \in AgentCards : \A i \in card : i.binding \in Labels
  /\ Lists \subseteq Seq(AgentCards)
  /\ \A c \in Configs : \A n \in DOMAIN c.bindings : c.bindings[n] \in Labels
  /\ RegisterCalls \subseteq
       [ label : Labels, producer : { SRPC, Compat }, multiagent : BOOLEAN ]

VARIABLES
  config,        \* supported_protocol_bindings and the two channel factories
  registry,      \* registry[l]: the producer of label l, or "none"
  multiagent,    \* _multiagent_labels
  opened,        \* the channels opened so far, in order
  last,          \* the last create: what was asked and what came of it
  calls          \* calls made

factoryVars == <<config, registry, multiagent, opened, last, calls>>

Channel(group, members) == [ group |-> group, members |-> members ]

Urls     == { i.url : i \in UNION AgentCards }
Channels == [ group : BOOLEAN, members : Seq(Urls) \ { << >> } ]

Outcome(list, result) == [ asked |-> list, result |-> result ]

Clients == { "SRPCTransport", "SRPCCompatTransport", "MulticastClient" }
Errors  == { "no transport", "no factory", "invalid remote", "no common protocol",
             "no slimrpc", "no group factory", "TypeError", "AttributeError" }

FactoryInit ==
  /\ config \in Configs
  /\ registry   = [l \in Labels |-> IF l = "slimrpc" THEN SRPC ELSE "none"]
  /\ multiagent = { "slimrpc" }
  /\ opened = << >>
  /\ last   = Outcome(<< >>, "none")
  /\ calls  = 0

\* A faulty variant: the label is marked and the producer not kept.
RegisterForgets(r) ==
  /\ calls < MaxCalls
  /\ multiagent' = multiagent \cup { l \in { r.label } : r.multiagent }
  /\ calls' = calls + 1
  /\ UNCHANGED <<config, registry, opened, last>>

Register(r) ==
  /\ calls < MaxCalls
  /\ registry'   = [registry EXCEPT ![r.label] = r.producer]
  /\ multiagent' = multiagent \cup { l \in { r.label } : r.multiagent }
  /\ calls' = calls + 1
  /\ UNCHANGED <<config, opened, last>>

-----------------------------------------------------------------------------
Raises(list, error) == last' = Outcome(list, error) /\ UNCHANGED opened

Gives(list, client, channel) ==
  last' = Outcome(list, client) /\ opened' = Append(opened, channel)

\* The producers with one card and a url; slimrpc_channel_factory.
ProduceOne(producer, card, i) ==
  LET client == IF producer = SRPC THEN "SRPCTransport" ELSE "SRPCCompatTransport" IN
  \/ ~config.factory /\ Raises(<<card>>, "no factory")
  \/ config.factory /\ ~i.wellFormed /\ Raises(<<card>>, "invalid remote")
  \/ /\ config.factory /\ i.wellFormed
     /\ Gives(<<card>>, client, Channel(FALSE, <<i.url>>))

\* ClientFactory.create: an interface of the card that the client supports and
\* has a producer for; with no preference of the client, the library's choice.
CreateOne(card) ==
  LET usable == { i \in card : /\ registry[i.binding] # "none"
                               /\ \/ config.bindings = << >>
                                  \/ \E n \in DOMAIN config.bindings :
                                       config.bindings[n] = i.binding } IN
  \/ \E i \in usable : ProduceOne(registry[i.binding], card, i)
  \/ /\ usable = {} \/ config.bindings = << >>
     /\ Raises(<<card>>, "no transport")

-----------------------------------------------------------------------------
Bindings(card) == { i.binding : i \in card }

Common(list) == { l \in Labels : \A n \in DOMAIN list : l \in Bindings(list[n]) }

\* _find_common_multiagent_protocol: the first of the client's preferences, or
\* any multiagent label (the order of a set); none when it raises.
CommonProtocols(list) ==
  LET able == Common(list) \cap multiagent
      isAble(l) == l \in able
      preferred == SelectSeq(config.bindings, isAble) IN
  IF config.bindings = << >> THEN able
  ELSE IF preferred = << >> THEN {} ELSE { Head(preferred) }

SlimInterfaces(card) == { i \in card : i.binding = "slimrpc" }

\* A faulty variant: cards without a slimrpc interface are passed over.
ChoicesSkipping(list) ==
  LET has(card) == SlimInterfaces(card) # {}
      able == SelectSeq(list, has) IN
  { f \in [DOMAIN able -> UNION AgentCards] :
      \A n \in DOMAIN able : f[n] \in SlimInterfaces(able[n]) }

\* The interface _find_best_interface picks for each card: any slimrpc one.
\* None when a card has no such interface, and create raises.
Choices(list) ==
  { f \in [DOMAIN list -> UNION AgentCards] :
      \A n \in DOMAIN list : f[n] \in SlimInterfaces(list[n]) }

\* A faulty variant: the group's channel is opened member by member.
OpenGroupStepwise(list, chosen) ==
  LET bad == { n \in DOMAIN chosen : ~chosen[n].wellFormed } IN
  /\ last' = Outcome(list, IF bad = {} THEN "MulticastClient" ELSE "invalid remote")
  /\ opened' = Append(opened, Channel(TRUE, [ n \in DOMAIN chosen |-> chosen[n].url ]))

\* MulticastClient.create, SRPCMulticastTransport.create and
\* slimrpc_group_channel_factory: every name is parsed before the channel is
\* opened.
OpenGroup(list, chosen) ==
  IF \E n \in DOMAIN chosen : ~chosen[n].wellFormed
  THEN Raises(list, "invalid remote")
  ELSE Gives(list, "MulticastClient",
             Channel(TRUE, [ n \in DOMAIN chosen |-> chosen[n].url ]))

\* SRPCTransport.create with a list: it asks for slimrpc interfaces, whatever
\* label it was registered for.
ProduceGroup(list) ==
  \/ Choices(list) = {} /\ Raises(list, "no slimrpc")
  \/ /\ Choices(list) # {} /\ ~config.groupFactory
     /\ Raises(list, "no group factory")
  \/ config.groupFactory /\ \E chosen \in Choices(list) : OpenGroup(list, chosen)

\* SRPCCompatTransport.create takes the list for a card and None for its url,
\* which the channel factory cannot split.
ProduceGroupCompat(list) ==
  Raises(list, IF config.factory THEN "AttributeError" ELSE "no factory")

CreateMany(list) ==
  \/ /\ CommonProtocols(list) = {}
     /\ Raises(list, "no common protocol")
  \/ \E l \in CommonProtocols(list) :
       IF registry[l] = SRPC THEN ProduceGroup(list) ELSE ProduceGroupCompat(list)

\* A list of one is its card; of an empty list set.intersection has no set.
Create(list) ==
  /\ calls < MaxCalls
  /\ \/ Len(list) = 0 /\ Raises(list, "TypeError")
     \/ Len(list) = 1 /\ CreateOne(list[1])
     \/ Len(list) > 1 /\ CreateMany(list)
  /\ calls' = calls + 1
  /\ UNCHANGED <<config, registry, multiagent>>

FactoryNext ==
  \/ \E r \in RegisterCalls : Register(r)
  \/ \E list \in Lists : Create(list)

FactorySpec == FactoryInit /\ [][FactoryNext]_factoryVars

-----------------------------------------------------------------------------
FactoryInv ==
  /\ registry \in [Labels -> { SRPC, Compat, "none" }]
  /\ last.result \in Clients \cup Errors \cup { "none" }
  /\ opened \in Seq(Channels)
  \* The lookup of create never misses.
  /\ \A l \in multiagent : l \in Labels /\ registry[l] # "none"

\* A multicast client's group is the agents asked for, each once and in order,
\* each at an interface its own card gives for slimrpc.
GroupIsAsked ==
  last.result = "MulticastClient" =>
    LET channel == opened[Len(opened)] IN
      /\ channel.group /\ Len(channel.members) = Len(last.asked)
      /\ \A n \in DOMAIN last.asked :
           \E i \in last.asked[n] :
             i.binding = "slimrpc" /\ i.wellFormed /\ channel.members[n] = i.url

\* A create that gives a client has opened the one channel it speaks on; one
\* that raises, wherever it does, has opened none.
OneChannel ==
  last' # last \/ opened' # opened =>
    IF last'.result \in Clients
    THEN Len(opened') = Len(opened) + 1 ELSE opened' = opened

OneChannelPerClient == [][OneChannel]_factoryVars

\* README: a list of agent cards gives a MulticastClient, which requires the
\* group channel factory.  Here for cards that can be reached over slimrpc.
ListGivesMulticast ==
  /\ Len(last.asked) > 1 /\ config.groupFactory /\ config.bindings = << "slimrpc" >>
  /\ \A n \in DOMAIN last.asked :
       /\ SlimInterfaces(last.asked[n]) # {}
       /\ \A i \in last.asked[n] : i.wellFormed
  => last.result = "MulticastClient"

=============================================================================
