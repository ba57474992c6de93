-------------------------- MODULE AroundCallsProofs --------------------------
(***************************************************************************)
(* Theorems about the four components around a call: the agent card a      *)
(* transport holds, the set-up of SLIM, the client factory, and the method *)
(* table with the context an operation is given.  The components share no  *)
(* state and no constant; each section proves about one of them, from the  *)
(* assumption its own module makes.                                        *)
(***************************************************************************)
EXTENDS ExtendedCard, SlimSetup, ClientFactory, CallContext, TLAPS

-----------------------------------------------------------------------------
(***************************************************************************)
(* ExtendedCard.                                                           *)
(***************************************************************************)
\* What is proved inductive: besides the invariant, that a returned card was
\* fresh.
CardIInv == CardInv /\ CardIsFresh

\* A card with a revision is no card of the caller's making.
LEMMA RevisedCard ==
  ASSUME NEW card \in Cards, card.rev # 0
  PROVE  card.face \in { "public", "extended" }
BY DEF Cards, Card, NoCard, Minimal

\* A transport is made with no card, the minimal one or the agent's public one.
LEMMA CardInitInv ==
  ASSUME CardInit
  PROVE  CardIInv
<1>1. NoCard \in Cards /\ Minimal \in Cards
  BY DEF Cards
<1>2. \A r \in Revisions : Card("public", r, FALSE) \in Cards
  <2>1. \A f \in { "public", "extended" }, r \in Revisions, m \in BOOLEAN :
          Card(f, r, m) \in Cards
    BY DEF Cards
  <2> QED
    BY <2>1
<1>3. held \in Cards /\ version \in { "v1", "v03" }
  BY <1>1, <1>2 DEF CardInit
<1>4. CardTypeOK
  BY <1>1, <1>3 DEF CardInit, CardTypeOK, CardStates, Revisions
<1> QED
  BY <1>4 DEF CardInit, CardIInv, CardInv, CardIsFresh, NotThePublicCard

\* A new card of the agent and a call that returns are the two steps that could
\* make a card in hand a stale one.
LEMMA CardStepInv ==
  ASSUME CardIInv, [CardNext]_cardVars
  PROVE  CardIInv'
<1> USE DEF CardIInv, CardInv, CardIsFresh
<1>1. CASE Publish
  BY <1>1, ExtendedCardAssumption
     DEF Publish, CardTypeOK, Revisions, NotThePublicCard, Advertises
<1>2. ASSUME NEW c \in Fetches, GetExtendedAgentCard(c)
      PROVE  CardIInv'
  BY <1>2
     DEF GetExtendedAgentCard, OwnCard, CardTypeOK, CardStates, Revisions,
         NotThePublicCard, Advertises
<1>3. ASSUME NEW c \in Fetches, Serve(c)
      PROVE  CardIInv'
  <2>1. \A card \in Served : /\ card \in Cards /\ card.rev = revision
    BY ExtendedCardAssumption DEF Served, Cards, Card, CardTypeOK
  <2>2. version = "v1" =>
          \A card \in Served : /\ card.face = "extended" /\ Advertises(card)
                               /\ card.modified = Modifier
    BY DEF Served, Card, Advertises
  <2> QED
    BY <1>3, <2>1, <2>2
       DEF Serve, CardTypeOK, CardStates, Revisions, NotThePublicCard, Advertises
<1>4. ASSUME NEW c \in Fetches, Return(c)
      PROVE  CardIInv'
  <2>1. reply[c].rev \in since[c] .. revision /\ reply[c].rev # 0
    BY <1>4 DEF Return, CardTypeOK, Revisions, CardStates
  <2>2. reply[c].face # "minimal"
    BY <2>1, RevisedCard DEF CardTypeOK
  <2> QED
    BY <1>4, <2>1, <2>2
       DEF Return, Holds, CardTypeOK, CardStates, NotThePublicCard, Advertises
<1>5. ASSUME NEW c \in Fetches, Fail(c) \/ Leave(c)
      PROVE  CardIInv'
  BY <1>5 DEF Fail, Leave, CardTypeOK, CardStates, NotThePublicCard, Advertises
<1>6. CASE UNCHANGED cardVars
  BY <1>6 DEF cardVars, CardTypeOK, NotThePublicCard, Advertises
<1> QED
  BY <1>1, <1>2, <1>3, <1>4, <1>5, <1>6 DEF CardNext

\* It holds of every fetch of a card.
LEMMA CardInductive == CardSpec => []CardIInv
BY CardInitInv, CardStepInv, PTL DEF CardSpec

\* CardInv of ExtendedCard: a card on its way is one the agent had since the
\* call began and, for v1.0, never the public one.
THEOREM CardInvariance == CardSpec => []CardInv
<1>1. CardIInv => CardInv
  BY DEF CardIInv
<1> QED
  BY <1>1, CardInductive, PTL

\* CardIsFresh of ExtendedCard: a card returned was the agent's during the call,
\* or is the v1.0 transport's own.
THEOREM CardIsFreshHolds == CardSpec => []CardIsFresh
<1>1. CardIInv => CardIsFresh
  BY DEF CardIInv
<1> QED
  BY <1>1, CardInductive, PTL

\* HeldFollowsCalls of ExtendedCard: the held card moves only to that of a call
\* that returns.
THEOREM HeldFollowsCallsHolds == CardSpec => HeldFollowsCalls
<1>1. ASSUME CardIInv, CardNext PROVE HeldFollows
  <2>1. ASSUME NEW c \in Fetches, Return(c) PROVE HeldFollows
    <3>1. reply[c].rev >= since[c]
      BY <1>1, <2>1 DEF Return, CardIInv, CardInv, CardTypeOK, Revisions
    <3> QED
      BY <1>1, <2>1, <3>1
         DEF HeldFollows, Return, Holds, CardIInv, CardInv, CardTypeOK
  <2>2. ~(\E c \in Fetches : Return(c)) => held' = held
    BY <1>1 DEF CardNext, Publish, GetExtendedAgentCard, Serve, Fail, Leave
  <2> QED
    BY <2>1, <2>2 DEF HeldFollows
<1>2. CardIInv /\ [CardNext]_cardVars => [HeldFollows]_cardVars
  BY <1>1
<1> QED
  BY <1>2, CardInductive, PTL DEF CardSpec, HeldFollowsCalls

-----------------------------------------------------------------------------
(***************************************************************************)
(* SlimSetup.                                                              *)
(***************************************************************************)
\* What is proved inductive: besides the invariant, that an app has the
\* credential of its call, and where slim_bindings calls back.
SetupIInv ==
  /\ SetupInv
  /\ \A a \in Setups : Given(app[a]) => app[a] = Credential(opts[a])
  /\ CallbacksOnRunningLoop

\* What _resolve_connect_options returns for options it does not reject.
LEMMA AcceptedOptions ==
  ASSUME NEW o \in Options
  PROVE  /\ Endpoint(o) \in Endpoints
         /\ Credential(o) \in { o.secret, o.identity }
         /\ Accepted(o) =>
              /\ Credential(o) \in { "key", "slim" }
              /\ ~(Given(o.secret) <=> Given(o.identity))
              /\ ~(Given(o.slim_url) /\ Given(o.client_config))
              /\ IF Given(o.slim_url) \/ Given(o.client_config)
                 THEN Endpoint(o) \in { o.slim_url, o.client_config }
                 ELSE Endpoint(o) = "default"
BY DEF Options, Accepted, Endpoint, Endpoints, Credential, Given

\* The options an abandoned await leaves open: a connection or a subscription
\* that was under way, and nothing else.
LEMMA AbandonsLeaves ==
  ASSUME NEW gone \in SUBSET Setups, Abandons(gone)
  PROVE  /\ conns \subseteq conns' /\ names \subseteq names'
         /\ \A e \in conns' \ conns :
              \E a \in gone : pc[a] = "connecting" /\ e = Endpoint(opts[a])
         /\ \A a \in names' \ names : a \in gone /\ pc[a] = "subscribing"
         /\ pc' = [a \in Setups |-> IF a \in gone THEN "cancelled" ELSE pc[a]]
BY DEF Abandons

\* Before any loop runs nothing is set up.
LEMMA SetupInitInv ==
  ASSUME SetupInit
  PROVE  SetupIInv
<1>1. Blank \in Options
  BY DEF Blank, Options
<1>2. SetupTypeOK
  <2>1. loops \in 0 .. MaxLoops /\ callbacks \in 0 .. loops
    BY SlimSetupAssumption DEF SetupInit
  <2>2. home \in [Setups -> 0 .. loops]
    BY DEF SetupInit
  <2> QED
    BY <1>1, <2>1, <2>2 DEF SetupInit, SetupTypeOK, SetupStates
<1>3. ASSUME NEW a \in Setups PROVE Stages(a)
  BY DEF SetupInit, Stages, UnderWay, Given
<1>4. LeakedByFailure
  BY DEF SetupInit, LeakedByFailure
<1>5. \A a \in Setups : ~Given(app[a])
  BY DEF SetupInit, Given
<1>6. CallbacksOnRunningLoop
  BY DEF SetupInit, CallbacksOnRunningLoop
<1> QED
  BY <1>2, <1>3, <1>4, <1>5, <1>6 DEF SetupIInv, SetupInv

\* Cancelling calls under way keeps what is proved inductive, as far as the
\* loop stays the one it was or stops.
LEMMA AbandonsInv ==
  ASSUME SetupIInv, NEW gone \in SUBSET Setups, Abandons(gone),
         \A a \in gone : pc[a] \in UnderWay,
         running' \in { running, FALSE },
         UNCHANGED <<loops, callbacks, service, entry, home, opts, app>>
  PROVE  SetupIInv'
<1> USE DEF SetupIInv, SetupInv
<1>1. /\ conns \subseteq conns' /\ names \subseteq names'
      /\ \A e \in conns' \ conns :
           \E a \in gone : pc[a] = "connecting" /\ e = Endpoint(opts[a])
      /\ \A a \in names' \ names : a \in gone /\ pc[a] = "subscribing"
      /\ pc' = [a \in Setups |-> IF a \in gone THEN "cancelled" ELSE pc[a]]
  BY AbandonsLeaves
<1>2. SetupTypeOK'
  <2>1. conns' \subseteq Endpoints
    BY <1>1, AcceptedOptions DEF SetupTypeOK
  <2> QED
    BY <1>1, <2>1 DEF SetupTypeOK, SetupStates, Over
<1>3. ASSUME NEW a \in Setups PROVE Stages(a)'
  BY <1>1 DEF Stages, UnderWay, Given
<1>4. LeakedByFailure'
  <2>1. ASSUME NEW e \in conns
        PROVE  \E a \in Setups :
                 /\ Endpoint(opts'[a]) = e /\ Accepted(opts'[a])
                 /\ pc'[a] \in UnderWay \cup { "returned", "failed", "cancelled" }
    BY <1>1 DEF LeakedByFailure
  <2>2. ASSUME NEW e \in conns' \ conns
        PROVE  \E a \in Setups :
                 /\ Endpoint(opts'[a]) = e /\ Accepted(opts'[a])
                 /\ pc'[a] \in UnderWay \cup { "returned", "failed", "cancelled" }
    BY <1>1 DEF Stages
  <2> QED
    BY <2>1, <2>2 DEF LeakedByFailure
<1>5. CallbacksOnRunningLoop'
  BY <1>1 DEF CallbacksOnRunningLoop, UnderWay, SetupTypeOK
<1> QED
  BY <1>2, <1>3, <1>4, <1>5

\* Every step of a setup, and every way its loop can go on without it.
LEMMA SetupStepInv ==
  ASSUME SetupIInv, [SetupNext]_setupVars
  PROVE  SetupIInv'
<1> USE DEF SetupIInv, SetupInv
<1>1. CASE RunLoop
  BY <1>1, SlimSetupAssumption
     DEF RunLoop, SetupTypeOK, Stages, LeakedByFailure, CallbacksOnRunningLoop
<1>2. CASE CloseLoop
  <2>1. { a \in Setups : pc[a] \in UnderWay } \in SUBSET Setups
    OBVIOUS
  <2> QED
    BY <1>2, <2>1, AbandonsInv DEF CloseLoop
<1>3. CASE InitializeSlimService
  BY <1>3 DEF InitializeSlimService, Initializes, SetupTypeOK, Stages,
              LeakedByFailure, CallbacksOnRunningLoop
<1>4. ASSUME NEW a \in Setups, SetupSlimClient(a)
      PROVE  SetupIInv'
  <2>1. PICK o \in Tried[a] :
          /\ Called(a, "setup_slim_client", o) /\ UNCHANGED conns
          /\ \/ ~Accepted(o) /\ Goto(a, "rejected") /\ UNCHANGED <<callbacks, service>>
             \/ /\ Accepted(o)
                /\ \E ok \in BOOLEAN :
                     Initializes(ok) /\ Goto(a, IF ok THEN "connecting" ELSE "failed")
    BY <1>4 DEF SetupSlimClient
  <2>2. o \in Options
    BY SlimSetupAssumption
  <2> QED
    BY <2>1, <2>2
       DEF Called, Goto, Initializes, SetupTypeOK, SetupStates, UnderWay, Over,
           Stages, Given, LeakedByFailure, CallbacksOnRunningLoop
<1>5. ASSUME NEW a \in Setups, ConnectAndSubscribe(a)
      PROVE  SetupIInv'
  <2>1. PICK o \in Tried[a] :
          /\ service
          /\ Called(a, "connect_and_subscribe", o)
          /\ Goto(a, IF Accepted(o) THEN "connecting" ELSE "rejected")
          /\ UNCHANGED <<callbacks, service, conns>>
    BY <1>5 DEF ConnectAndSubscribe
  <2>2. o \in Options
    BY SlimSetupAssumption
  <2> QED
    BY <2>1, <2>2
       DEF Called, Goto, SetupTypeOK, SetupStates, UnderWay, Over,
           Stages, Given, LeakedByFailure, CallbacksOnRunningLoop
<1>6. ASSUME NEW a \in Setups, Connects(a)
      PROVE  SetupIInv'
  <2>1. Endpoint(opts[a]) \in Endpoints
    BY AcceptedOptions DEF SetupTypeOK
  <2> QED
    BY <1>6, <2>1
       DEF Connects, Goto, SetupTypeOK, SetupStates, UnderWay, Over,
           Stages, Given, LeakedByFailure, CallbacksOnRunningLoop
<1>7. ASSUME NEW a \in Setups, CreateApp(a)
      PROVE  SetupIInv'
  <2>1. Credential(opts[a]) \in { "key", "slim" }
    BY <1>7, AcceptedOptions DEF CreateApp, SetupTypeOK, Stages, UnderWay
  <2> QED
    BY <1>7, <2>1
       DEF CreateApp, Goto, globalVars, SetupTypeOK, SetupStates, UnderWay, Over,
           Stages, Given, LeakedByFailure, CallbacksOnRunningLoop
<1>8. ASSUME NEW a \in Setups,
             \/ ConnectRaises(a) \/ CreateAppRaises(a)
             \/ SubscribeRaises(a) \/ Returns(a)
      PROVE  SetupIInv'
  BY <1>8
     DEF ConnectRaises, CreateAppRaises, SubscribeRaises, Returns, Goto,
         globalVars, SetupTypeOK, SetupStates, UnderWay, Over,
         Stages, Given, LeakedByFailure, CallbacksOnRunningLoop
<1>9. ASSUME NEW a \in Setups, Subscribes(a)
      PROVE  SetupIInv'
  BY <1>9
     DEF Subscribes, Goto, globalVars, SetupTypeOK, SetupStates, UnderWay, Over,
         Stages, Given, LeakedByFailure, CallbacksOnRunningLoop
<1>10. ASSUME NEW a \in Setups, Cancel(a)
       PROVE  SetupIInv'
  BY <1>10, AbandonsInv DEF Cancel
<1>11. CASE UNCHANGED setupVars
  BY <1>11 DEF setupVars, globalVars, SetupTypeOK, Stages, LeakedByFailure,
               CallbacksOnRunningLoop
<1> QED
  BY <1>1, <1>2, <1>3, <1>4, <1>5, <1>6, <1>7, <1>8, <1>9, <1>10, <1>11
     DEF SetupNext, SetupStep

\* It holds of every process that sets SLIM up.
LEMMA SetupInductive == SetupSpec => []SetupIInv
<1>1. SetupInit => SetupIInv
  BY SetupInitInv
<1>2. SetupIInv /\ [SetupNext]_setupVars => SetupIInv'
  BY SetupStepInv
<1> QED
  BY <1>1, <1>2, PTL DEF SetupSpec

\* Whatever step of whichever setup fails or is cancelled, on whatever loop,
\* what slim_helper leaves behind is a prefix of connection, app and
\* subscription of a call that dialled; a call that returns has all three.
THEOREM SetupInvariance == SetupSpec => []SetupInv
<1>1. SetupIInv => SetupInv
  BY DEF SetupIInv
<1> QED
  BY <1>1, SetupInductive, PTL

\* The options of every setup that dials are honoured: one credential, not
\* both a URL and a configuration, the endpoint and the credential given.
THEOREM OptionsHonouredHolds == SetupSpec => []OptionsHonoured
<1>1. SetupIInv => OptionsHonoured
  <2> SUFFICES ASSUME SetupIInv, NEW a \in Setups
               PROVE
        /\ pc[a] \in UnderWay \cup { "returned" } =>
             /\ ~(Given(opts[a].secret) <=> Given(opts[a].identity))
             /\ ~(Given(opts[a].slim_url) /\ Given(opts[a].client_config))
        /\ pc[a] \in { "connected", "subscribing", "subscribed", "returned" } =>
             IF Given(opts[a].slim_url) \/ Given(opts[a].client_config)
             THEN conns \cap { opts[a].slim_url, opts[a].client_config } # {}
             ELSE "default" \in conns
        /\ Given(app[a]) => app[a] \in { opts[a].secret, opts[a].identity }
    BY DEF OptionsHonoured
  <2>1. opts[a] \in Options /\ Stages(a)
        /\ (Given(app[a]) => app[a] = Credential(opts[a]))
    BY DEF SetupIInv, SetupInv, SetupTypeOK
  <2>2. pc[a] \in { "connected", "subscribing", "subscribed", "returned" } =>
          Endpoint(opts[a]) \in conns /\ Accepted(opts[a])
    BY <2>1 DEF Stages, UnderWay
  <2> QED
    BY <2>1, <2>2, AcceptedOptions DEF Stages, UnderWay
<1> QED
  BY <1>1, SetupInductive, PTL

\* slim_bindings calls back on the loop a setup_slim_client runs on.
THEOREM CallbacksOnRunningLoopHolds == SetupSpec => []CallbacksOnRunningLoop
<1>1. SetupIInv => CallbacksOnRunningLoop
  BY DEF SetupIInv
<1> QED
  BY <1>1, SetupInductive, PTL

\* A setup that raises for its options has touched nothing before.
THEOREM RejectedTouchesNothingHolds == SetupSpec => RejectedTouchesNothing
<1>1. ASSUME SetupIInv, [SetupNext]_setupVars, NEW a \in Setups
      PROVE  RejectionIsFirst(a)
  <2> SUFFICES ASSUME pc[a] # "rejected", pc'[a] = "rejected"
               PROVE  UNCHANGED <<callbacks, service, conns, app, names>>
    BY DEF RejectionIsFirst
  <2> USE DEF Goto
  <2>1. pc \in [Setups -> SetupStates]
    BY <1>1 DEF SetupIInv, SetupInv, SetupTypeOK
  <2>2. CASE RunLoop \/ InitializeSlimService \/ UNCHANGED setupVars
    BY <2>2 DEF RunLoop, InitializeSlimService, setupVars
  <2>3. ASSUME NEW gone \in SUBSET Setups, Abandons(gone)
        PROVE  FALSE
    BY <2>3, AbandonsLeaves
  <2>4. CASE CloseLoop
    <3>1. { b \in Setups : pc[b] \in UnderWay } \in SUBSET Setups
      OBVIOUS
    <3> QED
      BY <2>3, <2>4, <3>1 DEF CloseLoop
  <2>5. ASSUME NEW b \in Setups, Cancel(b)
        PROVE  FALSE
    BY <2>3, <2>5 DEF Cancel
  <2>6. ASSUME NEW b \in Setups, SetupStep(b)
        PROVE  FALSE
    BY <2>1, <2>6
       DEF SetupStep, Connects, ConnectRaises, CreateApp, CreateAppRaises,
           Subscribes, SubscribeRaises, Returns
  <2>7. ASSUME NEW b \in Setups, SetupSlimClient(b)
        PROVE  UNCHANGED <<callbacks, service, conns, app, names>>
    <3>1. PICK o \in Tried[b] :
            /\ Called(b, "setup_slim_client", o) /\ UNCHANGED conns
            /\ \/ ~Accepted(o) /\ Goto(b, "rejected") /\ UNCHANGED <<callbacks, service>>
               \/ /\ Accepted(o)
                  /\ \E ok \in BOOLEAN :
                       Initializes(ok) /\ Goto(b, IF ok THEN "connecting" ELSE "failed")
      BY <2>7 DEF SetupSlimClient
    <3> QED
      BY <2>1, <3>1 DEF Called
  <2>8. ASSUME NEW b \in Setups, ConnectAndSubscribe(b)
        PROVE  UNCHANGED <<callbacks, service, conns, app, names>>
    BY <2>8 DEF ConnectAndSubscribe, Called
  <2> QED
    BY <1>1, <2>2, <2>4, <2>5, <2>6, <2>7, <2>8 DEF SetupNext
<1>2. SetupIInv /\ [SetupNext]_setupVars =>
        [\A a \in Setups : RejectionIsFirst(a)]_setupVars
  BY <1>1
<1> QED
  BY <1>2, SetupInductive, PTL DEF SetupSpec, RejectedTouchesNothing

-----------------------------------------------------------------------------
(***************************************************************************)
(* ClientFactory.                                                          *)
(***************************************************************************)
\* What is proved inductive.
FactoryIInv == FactoryInv /\ GroupIsAsked

\* What a create comes to: an error and no channel, or a client and its
\* channel, which for a list is its group's.
Failed == opened' = opened /\ last'.result \in Errors

GaveOne ==
  \E card \in AgentCards, url \in Urls,
     client \in { "SRPCTransport", "SRPCCompatTransport" } :
    Gives(<<card>>, client, Channel(FALSE, <<url>>))

GroupOf(list, chosen) ==
  Channel(TRUE, [ n \in DOMAIN chosen |-> chosen[n].url ])

GaveGroup(list) ==
  /\ Len(list) > 1
  /\ \E chosen \in Choices(list) :
       /\ \A n \in DOMAIN chosen : chosen[n].wellFormed
       /\ Gives(list, "MulticastClient", GroupOf(list, chosen))

\* The outcomes of create, over every producer, preference and list of cards.
LEMMA CreateComesTo ==
  ASSUME FactoryIInv, NEW list \in Lists, Create(list)
  PROVE  Failed \/ GaveOne \/ GaveGroup(list)
<1>1. ASSUME NEW l, NEW e \in Errors, Raises(l, e)
      PROVE  Failed
  BY <1>1 DEF Raises, Failed, Outcome
<1>2. \/ Len(list) = 0
      \/ Len(list) = 1
      \/ Len(list) > 1 /\ Len(list) # 0 /\ Len(list) # 1
  <2>1. list \in Seq(AgentCards)
    BY ClientFactoryAssumption
  <2>2. \A q \in Seq(AgentCards) :
          \/ Len(q) = 0
          \/ Len(q) = 1
          \/ Len(q) > 1 /\ Len(q) # 0 /\ Len(q) # 1
    OBVIOUS
  <2> QED
    BY <2>1, <2>2
<1>3. CASE Len(list) = 0
  <2>1. Raises(list, "TypeError")
    BY <1>3 DEF Create
  <2> QED
    BY <1>1, <2>1 DEF Errors
<1>4. CASE Len(list) = 1
  <2>0. list[1] \in AgentCards
    <3>1. \A q \in Seq(AgentCards) : Len(q) = 1 => q[1] \in AgentCards
      OBVIOUS
    <3> QED
      BY <1>4, <3>1, ClientFactoryAssumption
  <2>1. CreateOne(list[1])
    BY <1>4 DEF Create
  <2>2. CASE Raises(<<list[1]>>, "no transport")
    BY <1>1, <2>2 DEF Errors
  <2>3. CASE \E i \in list[1] : ProduceOne(registry[i.binding], list[1], i)
    <3>1. PICK i \in list[1] : ProduceOne(registry[i.binding], list[1], i)
      BY <2>3
    <3>2. i.url \in Urls
      BY <2>0 DEF Urls
    <3>3. \/ Raises(<<list[1]>>, "no factory")
          \/ Raises(<<list[1]>>, "invalid remote")
          \/ \E client \in { "SRPCTransport", "SRPCCompatTransport" } :
               Gives(<<list[1]>>, client, Channel(FALSE, <<i.url>>))
      BY <3>1 DEF ProduceOne
    <3> QED
      BY <1>1, <2>0, <3>2, <3>3 DEF GaveOne, Errors
  <2> QED
    BY <2>1, <2>2, <2>3 DEF CreateOne
<1>5. CASE Len(list) > 1 /\ Len(list) # 0 /\ Len(list) # 1
  <2>1. CreateMany(list)
    BY <1>5 DEF Create
  <2>2. CASE Raises(list, "no common protocol")
    BY <1>1, <2>2 DEF Errors
  <2>3. CASE ProduceGroupCompat(list)
    BY <1>1, <2>3 DEF ProduceGroupCompat, Errors
  <2>4. CASE ProduceGroup(list)
    <3>1. \/ Raises(list, "no slimrpc")
          \/ Raises(list, "no group factory")
          \/ \E chosen \in Choices(list) : OpenGroup(list, chosen)
      BY <2>4 DEF ProduceGroup
    <3>2. ASSUME NEW chosen \in Choices(list), OpenGroup(list, chosen)
          PROVE  Failed \/ GaveGroup(list)
      BY <1>1, <1>5, <3>2 DEF OpenGroup, GaveGroup, GroupOf, Errors
    <3> QED
      BY <1>1, <3>1, <3>2 DEF Errors
  <2> QED
    BY <2>1, <2>2, <2>3, <2>4 DEF CreateMany
<1> QED
  BY <1>2, <1>3, <1>4, <1>5

\* A group's channel lists the chosen interfaces' urls, card by card.
LEMMA GroupChannel ==
  ASSUME NEW list \in Seq(AgentCards), Len(list) > 1,
         NEW chosen \in Choices(list)
  PROVE  /\ GroupOf(list, chosen) \in Channels
         /\ GroupOf(list, chosen).group
         /\ Len(GroupOf(list, chosen).members) = Len(list)
         /\ \A n \in DOMAIN list :
              /\ chosen[n] \in list[n] /\ chosen[n].binding = "slimrpc"
              /\ GroupOf(list, chosen).members[n] = chosen[n].url
<1> DEFINE urls == [ n \in 1 .. Len(list) |-> chosen[n].url ]
<1>1. DOMAIN list = 1 .. Len(list) /\ DOMAIN chosen = DOMAIN list
  BY DEF Choices
<1>2. \A n \in DOMAIN list :
        chosen[n] \in list[n] /\ chosen[n].binding = "slimrpc"
  BY DEF Choices, SlimInterfaces
<1>3. \A n \in 1 .. Len(list) : chosen[n].url \in Urls
  BY <1>1, <1>2 DEF Urls
<1>4. urls \in Seq(Urls) /\ Len(urls) = Len(list) /\ urls # << >>
  BY <1>3
<1>5. GroupOf(list, chosen) = [ group |-> TRUE, members |-> urls ]
  BY <1>1 DEF GroupOf, Channel
<1> QED
  BY <1>1, <1>2, <1>4, <1>5 DEF Channels, Urls

\* The channels after one more was opened.
LEMMA OneChannelMore ==
  ASSUME NEW q \in Seq(Channels), NEW ch \in Channels
  PROVE  /\ Append(q, ch) \in Seq(Channels)
         /\ Len(Append(q, ch)) = Len(q) + 1
         /\ Append(q, ch)[Len(Append(q, ch))] = ch
OBVIOUS

\* A new factory has the one producer the library registers.
LEMMA FactoryInitInv ==
  ASSUME FactoryInit
  PROVE  FactoryIInv
<1>1. SRPC # "none" /\ "slimrpc" \in Labels
  BY ClientFactoryAssumption DEF SRPC
<1>2. registry \in [Labels -> { SRPC, Compat, "none" }]
  BY DEF FactoryInit
<1>3. \A l \in multiagent : l \in Labels /\ registry[l] # "none"
  BY <1>1 DEF FactoryInit
<1>4. last.result = "none" /\ opened \in Seq(Channels)
  BY DEF FactoryInit, Outcome
<1> QED
  BY <1>2, <1>3, <1>4 DEF FactoryIInv, FactoryInv, GroupIsAsked

\* A register changes no channel; a create comes to one of its outcomes.
LEMMA FactoryStepInv ==
  ASSUME FactoryIInv, FactoryNext
  PROVE  FactoryIInv' /\ OneChannel
<1> USE DEF FactoryIInv
<1>1. ASSUME NEW r \in RegisterCalls, Register(r)
      PROVE  FactoryIInv' /\ OneChannel
  <2>1. /\ r.label \in Labels
        /\ r.producer \in { SRPC, Compat }
        /\ r.producer # "none"
    BY ClientFactoryAssumption DEF SRPC, Compat
  <2>2. FactoryInv'
    BY <1>1, <2>1 DEF Register, FactoryInv
  <2> QED
    BY <1>1, <2>2 DEF Register, GroupIsAsked, OneChannel
<1>2. ASSUME NEW list \in Lists, Create(list)
      PROVE  FactoryIInv' /\ OneChannel
  <2> SUFFICES /\ opened' \in Seq(Channels)
               /\ last'.result \in Clients \cup Errors
               /\ GroupIsAsked' /\ OneChannel
    BY <1>2 DEF Create, FactoryInv
  <2>0. opened \in Seq(Channels) /\ list \in Seq(AgentCards)
    BY ClientFactoryAssumption DEF FactoryInv
  <2>1. CASE Failed
    BY <2>0, <2>1 DEF Failed, GroupIsAsked, OneChannel, Errors, Clients
  <2>2. CASE GaveOne
    <3>1. PICK card \in AgentCards, url \in Urls,
               client \in { "SRPCTransport", "SRPCCompatTransport" } :
            Gives(<<card>>, client, Channel(FALSE, <<url>>))
      BY <2>2 DEF GaveOne
    <3>2. Channel(FALSE, <<url>>) \in Channels
      BY <3>1 DEF Channel, Channels, Urls
    <3>3. /\ opened' \in Seq(Channels) /\ Len(opened') = Len(opened) + 1
          /\ last'.result = client
      BY <2>0, <3>1, <3>2, OneChannelMore DEF Gives, Outcome
    <3> QED
      BY <3>1, <3>3 DEF GroupIsAsked, OneChannel, Clients
  <2>3. CASE GaveGroup(list)
    <3>1. Len(list) > 1
      BY <2>3 DEF GaveGroup
    <3>2. PICK chosen \in Choices(list) :
            /\ \A n \in DOMAIN chosen : chosen[n].wellFormed
            /\ Gives(list, "MulticastClient", GroupOf(list, chosen))
      BY <2>3 DEF GaveGroup
    <3>3. /\ GroupOf(list, chosen) \in Channels
          /\ GroupOf(list, chosen).group
          /\ Len(GroupOf(list, chosen).members) = Len(list)
          /\ \A n \in DOMAIN list :
               /\ chosen[n] \in list[n] /\ chosen[n].binding = "slimrpc"
               /\ GroupOf(list, chosen).members[n] = chosen[n].url
      BY <2>0, <3>1, GroupChannel
    <3>4. DOMAIN chosen = DOMAIN list
      BY DEF Choices
    <3>5. /\ opened' \in Seq(Channels) /\ Len(opened') = Len(opened) + 1
          /\ opened'[Len(opened')] = GroupOf(list, chosen)
          /\ last'.asked = list /\ last'.result = "MulticastClient"
      BY <2>0, <3>2, <3>3, OneChannelMore DEF Gives, Outcome
    <3> QED
      BY <3>2, <3>3, <3>4, <3>5 DEF GroupIsAsked, OneChannel, Clients
  <2> QED
    BY <1>2, <2>1, <2>2, <2>3, CreateComesTo
<1> QED
  BY <1>1, <1>2 DEF FactoryNext

\* It holds of every use of a factory.
LEMMA FactoryInductive == FactorySpec => []FactoryIInv
<1>1. FactoryIInv /\ UNCHANGED factoryVars => FactoryIInv'
  BY DEF FactoryIInv, FactoryInv, GroupIsAsked, factoryVars
<1> QED
  BY <1>1, FactoryInitInv, FactoryStepInv, PTL DEF FactorySpec

\* FactoryInv of ClientFactory: every label that counts as multiagent has a
\* producer, and every channel has members.
THEOREM FactoryInvariance == FactorySpec => []FactoryInv
<1>1. FactoryIInv => FactoryInv
  BY DEF FactoryIInv
<1> QED
  BY <1>1, FactoryInductive, PTL

\* GroupIsAsked of ClientFactory: a multicast client's group is the agents asked
\* for, each once and in order, at an interface of its own card.
THEOREM GroupIsAskedHolds == FactorySpec => []GroupIsAsked
<1>1. FactoryIInv => GroupIsAsked
  BY DEF FactoryIInv
<1> QED
  BY <1>1, FactoryInductive, PTL

\* OneChannelPerClient of ClientFactory: a create gives a client and one
\* channel, or an exception and none.
THEOREM OneChannelPerClientHolds == FactorySpec => OneChannelPerClient
<1>1. FactoryIInv /\ [FactoryNext]_factoryVars => [OneChannel]_factoryVars
  BY FactoryStepInv
<1> QED
  BY <1>1, FactoryInductive, PTL DEF FactorySpec, OneChannelPerClient

-----------------------------------------------------------------------------
(***************************************************************************)
(* CallContext, on MethodTable.                                            *)
(***************************************************************************)
\* Under each name a version registers stands nothing, or a handler of that
\* kind that belongs to a servicer of that version.
TableHolds(v, r) ==
  \/ table[<<ServiceName(v), r.method>>] = NoEntry
  \/ \E x \in Servicers :
       x.version = v /\ table[<<ServiceName(v), r.method>>] = Entry(r.kind, x)

TableInv ==
  \A v \in Versions : \A r \in Registrations(v) :
    r.method \in MethodNames => TableHolds(v, r)

\* The three fields of the context that is built for a request.
BuiltFor(built, req, metadata) ==
  /\ built.user = UserFromContext(req.sender, metadata)
  /\ built.extensions = metadata.extensions
  /\ built.tenant = IF VersionOf(req.transport) = "v1" THEN req.tenant ELSE ""

\* What the builder returns has them.
LEMMA ContextFields ==
  ASSUME NEW req, NEW metadata
  PROVE  BuiltFor(ServerCallContext(req, metadata), req, metadata)
BY DEF ServerCallContext, BuiltFor

\* What a call carries at each of its stages; the object it reads is its own.
CallInv(c) ==
  /\ stage[c] \in { "idle", "sent", "built", "done", "over" }
  /\ stage[c] \in { "sent", "built", "done" } =>
       /\ asked[c] \in Requests /\ Named(asked[c]) # NoMethod
       /\ sent[c] = Sent(asked[c])
  /\ stage[c] \in { "built", "done" } =>
       by[c].version = VersionOf(asked[c].transport)
  /\ stage[c] = "built" /\ BuildsContext(Named(asked[c]).method) =>
       context[c] = c /\ BuiltFor(objects[c], asked[c], sent[c])
  /\ stage[c] = "done" =>
       /\ result[c] = asked[c].operation
       /\ BuildsContext(Named(asked[c]).method) =>
            BuiltFor(saw[c], asked[c], sent[c])
  /\ result[c] # "mismatch"

\* Every call has a place in each of the functions.
CallDomains ==
  /\ DOMAIN stage = Calls /\ DOMAIN asked = Calls /\ DOMAIN sent = Calls
  /\ DOMAIN by = Calls /\ DOMAIN objects = Calls /\ DOMAIN context = Calls
  /\ DOMAIN saw = Calls /\ DOMAIN result = Calls

\* What is proved inductive.
ContextIInv ==
  /\ TableInv /\ CallDomains
  /\ \A c \in Calls : CallInv(c)

\* The names of the three methods that stream, in either version.
Streaming == { "SendStreamingMessage", "SubscribeToTask", "TaskSubscription" }

\* A name is registered as one kind of method, the same in both versions.
LEMMA OneKind ==
  ASSUME NEW v \in Versions, NEW r \in Registrations(v)
  PROVE  r.kind = IF r.method \in Streaming THEN "unary_stream" ELSE "unary_unary"
<1>1. CASE v = "v1"
  BY <1>1 DEF Registrations, Unary, Stream, Streaming
<1>2. CASE v = "v03"
  BY <1>2 DEF Registrations, Unary, Stream, Streaming
<1> QED
  BY <1>1, <1>2 DEF Versions

\* What a transport's operation calls is registered by the add function of the
\* transport's version, and asks the request handler for that operation.
LEMMA StubIsRegistered ==
  ASSUME NEW t \in Transports, NEW op \in Operations,
         StubMethod(t, op) # NoMethod
  PROVE  /\ VersionOf(t) \in Versions
         /\ StubMethod(t, op) \in Registrations(VersionOf(t))
         /\ StubMethod(t, op).method \in MethodNames
         /\ Performs(StubMethod(t, op).method) = op
<1>1. VersionOf(t) \in Versions
  BY DEF VersionOf, Versions
<1>2. CASE VersionOf(t) = "v1"
  <2>1. /\ StubMethod(t, op) \in Registrations("v1")
        /\ StubMethod(t, op).method # "none"
        /\ Performs(StubMethod(t, op).method) = op
    BY <1>2 DEF StubMethod, Registrations, Performs, Operations, Unary, Stream, NoMethod
  <2> QED
    BY <1>1, <1>2, <2>1 DEF MethodNames
<1>3. CASE VersionOf(t) = "v03"
  <2>1. /\ StubMethod(t, op) \in Registrations("v03")
        /\ StubMethod(t, op).method # "none"
        /\ Performs(StubMethod(t, op).method) = op
    BY <1>3 DEF StubMethod, Registrations, Performs, Operations, Unary, Stream, NoMethod
  <2> QED
    BY <1>1, <1>3, <2>1 DEF MethodNames
<1> QED
  BY <1>1, <1>2, <1>3 DEF Versions

\* A servicer that is added is told from none, and so is its entry.
LEMMA AServicer ==
  ASSUME NEW x \in Servicers, NEW kind
  PROVE  x.version \in Versions /\ x # NoServicer /\ Entry(kind, x) # NoEntry
BY MethodTableAssumption
   DEF Versions, NoServicer, Servicer, Entry, NoEntry

\* Of an empty table nothing is found.
LEMMA TableInitInv ==
  ASSUME TableInit
  PROVE  TableInv
<1>1. ASSUME NEW v \in Versions, NEW r \in Registrations(v), r.method \in MethodNames
      PROVE  TableHolds(v, r)
  <2>1. <<ServiceName(v), r.method>> \in Keys
    BY <1>1 DEF Keys
  <2> QED
    BY <2>1 DEF TableInit, TableHolds
<1> QED
  BY <1>1 DEF TableInv

\* Adding a servicer registers every method of its version, and no other.
LEMMA AddInv ==
  ASSUME TableInv, NEW x \in Servicers, Add(x)
  PROVE  TableInv'
<1>1. x.version \in Versions
  BY AServicer
<1>2. table' = [k \in Keys |-> Registered(x, k)]
  BY DEF Add
<1>3. ASSUME NEW v \in Versions, NEW r \in Registrations(v), r.method \in MethodNames
      PROVE  TableHolds(v, r)'
  <2> DEFINE k == <<ServiceName(v), r.method>>
  <2>1. k \in Keys
    BY <1>3 DEF Keys
  <2>2. table'[k] = Registered(x, k)
    BY <1>2, <2>1
  <2>3. CASE v = x.version
    <3>1. \E s \in Registrations(x.version) : k = <<ServiceName(x.version), s.method>>
      BY <2>3
    <3> DEFINE s == CHOOSE s \in Registrations(x.version) : s.method = k[2]
    <3>2. s \in Registrations(v) /\ s.method = r.method
      BY <2>3
    <3>3. s.kind = r.kind
      BY <3>2, OneKind
    <3>4. Registered(x, k) = Entry(r.kind, x)
      BY <3>1, <3>3 DEF Registered
    <3> QED
      BY <2>2, <2>3, <3>4 DEF TableHolds
  <2>4. CASE v # x.version
    <3>1. ServiceName(v) # ServiceName(x.version)
      BY <1>1, <2>4 DEF ServiceName, Versions
    <3>2. Registered(x, k) = table[k]
      BY <3>1 DEF Registered
    <3> QED
      BY <1>3, <2>2, <3>2 DEF TableInv, TableHolds
  <2> QED
    BY <2>3, <2>4
<1> QED
  BY <1>3 DEF TableInv

\* What the bindings find for a call that was sent is nothing, or what its stub
\* asks for, of a servicer of its transport's version.
LEMMA FoundIsOwn ==
  ASSUME TableInv, NEW c \in Calls, CallInv(c), stage[c] = "sent"
  PROVE  \/ Found(c) = NoEntry
         \/ \E x \in Servicers :
              /\ x.version = VersionOf(asked[c].transport)
              /\ Found(c) = Entry(Named(asked[c]).kind, x)
<1>1. /\ asked[c].transport \in Transports /\ asked[c].operation \in Operations
      /\ StubMethod(asked[c].transport, asked[c].operation) # NoMethod
  BY DEF CallInv, Requests, Named
<1>2. /\ VersionOf(asked[c].transport) \in Versions
      /\ Named(asked[c]) \in Registrations(VersionOf(asked[c].transport))
      /\ Named(asked[c]).method \in MethodNames
  BY <1>1, StubIsRegistered DEF Named
<1>3. TableHolds(VersionOf(asked[c].transport), Named(asked[c]))
  BY <1>2 DEF TableInv
<1> QED
  BY <1>3 DEF TableHolds, Found, Lookup

\* A call is never refused for its kind; one that is served has found a servicer
\* of its version.
LEMMA RefusalIsOwn ==
  ASSUME TableInv, NEW c \in Calls, CallInv(c), stage[c] = "sent"
  PROVE  /\ Refusal(c) \in { "none", "UNIMPLEMENTED" }
         /\ Refusal(c) = "none" =>
              Found(c).servicer.version = VersionOf(asked[c].transport)
<1>1. CASE Found(c) = NoEntry
  BY <1>1 DEF Refusal
<1>2. ASSUME NEW x \in Servicers,
             x.version = VersionOf(asked[c].transport),
             Found(c) = Entry(Named(asked[c]).kind, x)
      PROVE  /\ Refusal(c) \in { "none", "UNIMPLEMENTED" }
             /\ Refusal(c) = "none" =>
                  Found(c).servicer.version = VersionOf(asked[c].transport)
  <2>1. /\ Found(c).kind = Named(asked[c]).kind /\ Found(c).servicer = x
        /\ Found(c) # NoEntry
    BY <1>2, AServicer DEF Entry
  <2> QED
    BY <1>2, <2>1 DEF Refusal
<1> QED
  BY <1>1, <1>2, FoundIsOwn

\* No call has been made of an empty table.
LEMMA ContextInitInv ==
  ASSUME ContextInit
  PROVE  ContextIInv
<1>1. TableInv
  BY TableInitInv DEF ContextInit
<1> QED
  BY <1>1 DEF ContextInit, ContextIInv, CallDomains, CallInv

\* A server is filled before it serves, and its calls go on next to each other.
LEMMA ContextStepInv ==
  ASSUME ContextIInv, [ContextNext]_contextVars
  PROVE  ContextIInv'
<1> USE DEF ContextIInv
<1>1. ASSUME NEW x \in Servicers, Fill(x)
      PROVE  ContextIInv'
  BY <1>1, AddInv DEF Fill, callVars, CallDomains, CallInv
<1>2. ASSUME UNCHANGED table PROVE TableInv'
  BY <1>2 DEF TableInv, TableHolds
<1>3. ASSUME NEW c \in Calls, Send(c)
      PROVE  ContextIInv'
  <2>1. PICK req \in MayAsk[c] :
          /\ Named(req) # NoMethod
          /\ asked' = [asked EXCEPT ![c] = req]
          /\ sent'  = [sent EXCEPT ![c] = Sent(req)]
    BY <1>3 DEF Send
  <2>2. req \in Requests
    BY CallContextAssumption
  <2>3. CallDomains'
    BY <1>3, <2>1 DEF Send, CallDomains
  <2>4. ASSUME NEW d \in Calls PROVE CallInv(d)'
    BY <1>3, <2>1, <2>2 DEF Send, CallDomains, CallInv
  <2> QED
    BY <1>2, <1>3, <2>3, <2>4 DEF Send
<1>4. ASSUME NEW c \in Calls, NotSupported(c)
      PROVE  ContextIInv'
  <2>1. PICK req \in MayAsk[c] :
          Named(req) = NoMethod /\ asked' = [asked EXCEPT ![c] = req]
    BY <1>4 DEF NotSupported
  <2>2. CallDomains'
    BY <1>4, <2>1 DEF NotSupported, CallDomains
  <2>3. ASSUME NEW d \in Calls PROVE CallInv(d)'
    BY <1>4, <2>1 DEF NotSupported, CallDomains, CallInv
  <2> QED
    BY <1>2, <1>4, <2>2, <2>3 DEF NotSupported
<1>5. ASSUME NEW c \in Calls, Refuse(c)
      PROVE  ContextIInv'
  <2>1. CallDomains'
    BY <1>5 DEF Refuse, CallDomains
  <2>2. Refusal(c) # "mismatch"
    BY <1>5, RefusalIsOwn DEF Refuse
  <2>3. ASSUME NEW d \in Calls PROVE CallInv(d)'
    BY <1>5, <2>2 DEF Refuse, CallDomains, CallInv
  <2> QED
    BY <1>2, <1>5, <2>1, <2>3 DEF Refuse
<1>6. ASSUME NEW c \in Calls, Build(c)
      PROVE  ContextIInv'
  <2>1. CallDomains'
    BY <1>6 DEF Build, CallDomains
  <2>2. Found(c).servicer.version = VersionOf(asked[c].transport)
    BY <1>6, RefusalIsOwn DEF Build
  <2>3. ASSUME NEW d \in Calls PROVE CallInv(d)'
    BY <1>6, <2>2, ContextFields DEF Build, NewObject, CallDomains, CallInv
  <2> QED
    BY <1>2, <1>6, <2>1, <2>3 DEF Build
<1>7. ASSUME NEW c \in Calls, Operation(c)
      PROVE  ContextIInv'
  <2>1. CallDomains'
    BY <1>7 DEF Operation, CallDomains
  <2>2. Performs(Named(asked[c]).method) = asked[c].operation
    BY <1>7, StubIsRegistered DEF Operation, CallInv, Requests, Named
  <2>3. asked[c].operation # "mismatch"
    BY <1>7 DEF Operation, CallInv, Requests, Operations
  <2>4. ASSUME NEW d \in Calls PROVE CallInv(d)'
    BY <1>7, <2>2, <2>3 DEF Operation, CallDomains, CallInv
  <2> QED
    BY <1>2, <1>7, <2>1, <2>4 DEF Operation
<1>8. CASE UNCHANGED contextVars
  BY <1>2, <1>8 DEF contextVars, callVars, CallDomains, CallInv
<1> QED
  BY <1>1, <1>3, <1>4, <1>5, <1>6, <1>7, <1>8 DEF ContextNext

\* It holds of every call to every server.
LEMMA ContextInductive == ContextSpec => []ContextIInv
<1>1. ContextInit => ContextIInv
  BY ContextInitInv
<1>2. ContextIInv /\ [ContextNext]_contextVars => ContextIInv'
  BY ContextStepInv
<1> QED
  BY <1>1, <1>2, PTL DEF ContextSpec

\* Serving v1.0 and v0.3 from one server mixes up nothing: what is performed is
\* the operation the transport was asked for, by a servicer of its version.
THEOREM ReachesOwnVersionHolds == ContextSpec => []ReachesOwnVersion
<1>1. ContextIInv => ReachesOwnVersion
  BY DEF ContextIInv, CallInv, ReachesOwnVersion, Done
<1> QED
  BY <1>1, ContextInductive, PTL

\* A user with a subject that is not the missing key's mark is one.
LEMMA AUser ==
  ASSUME NEW user, NEW subject, NEW issuer, subject # "-",
         user = [ subject |-> subject, issuer |-> issuer ]
  PROVE  user # Unauthenticated /\ user.subject = subject /\ user.issuer = issuer
BY DEF Unauthenticated

\* The user an operation sees is the verified subject of the sender, or nobody.
THEOREM UserIsSenderHolds == ContextSpec => []UserIsSender
<1>1. ASSUME ContextIInv, NEW c \in Calls, Aware(c), NEW m, m = asked[c].sender
      PROVE  /\ saw[c].user = Unauthenticated <=> SubjectOf[m] \in { "None", "" }
             /\ saw[c].user # Unauthenticated =>
                  /\ saw[c].user.subject = SubjectOf[m]
                  /\ saw[c].user.issuer \in { IssuerOf[m], "-" }
  <2>1. BuiltFor(saw[c], asked[c], sent[c]) /\ asked[c] \in Requests
    BY <1>1 DEF ContextIInv, CallInv, Aware, Done
  <2>2. saw[c].user = UserFromContext(m, sent[c])
    BY <1>1, <2>1 DEF BuiltFor
  <2>3. m \in Members
    BY <1>1, <2>1 DEF Requests
  <2>4. SubjectOf[m] # "-"
    BY <2>3, CallContextAssumption
  <2>5. CASE Falsy(SubjectOf[m])
    BY <2>2, <2>5 DEF UserFromContext, Falsy
  <2>6. CASE ~Falsy(SubjectOf[m])
    <3>1. PICK issuer \in { "-", IssuerOf[m] } :
            saw[c].user = [ subject |-> SubjectOf[m], issuer |-> issuer ]
      BY <2>2, <2>6 DEF UserFromContext, SlimUser
    <3> QED
      <4>1. /\ saw[c].user # Unauthenticated
            /\ saw[c].user.subject = SubjectOf[m] /\ saw[c].user.issuer = issuer
        BY <2>4, <3>1, AUser
      <4> QED
        BY <2>6, <4>1 DEF Falsy
  <2> QED
    BY <2>5, <2>6
<1>2. ContextIInv => UserIsSender
  BY <1>1 DEF UserIsSender
<1> QED
  BY <1>2, ContextInductive, PTL

\* An operation works for the tenant, and with the extensions, of its own
\* request, although other calls had their contexts built in between.
THEOREM ContextIsOwnHolds == ContextSpec => []ContextIsOwn
<1>1. ASSUME ContextIInv, NEW c \in Calls, Aware(c), NEW req, req = asked[c]
      PROVE  IF VersionOf(req.transport) = "v1"
             THEN /\ saw[c].tenant = req.tenant
                  /\ saw[c].extensions = {} /\ sent[c] = NoMetadata
             ELSE /\ saw[c].tenant = ""
                  /\ saw[c].extensions = req.params.extensions
                  /\ sent[c].version \in { "0.3", req.params.version } \ { "-" }
                  /\ req.params.version # "-" => sent[c].version = req.params.version
  <2>1. /\ BuiltFor(saw[c], req, sent[c]) /\ sent[c] = Sent(req)
        /\ req \in Requests
    BY <1>1 DEF ContextIInv, CallInv, Aware, Done
  <2>2. req.params \in ServiceParameters
    BY <2>1 DEF Requests
  <2>3. PICK v \in { "-", "1.0" }, x \in SUBSET Extensions, s \in Subjects \cup { "-" } :
          req.params = Metadata(v, x, s)
    BY <2>2 DEF ServiceParameters
  <2>4. CASE VersionOf(req.transport) = "v1"
    BY <2>1, <2>4 DEF BuiltFor, Sent, NoMetadata, Metadata
  <2>5. CASE VersionOf(req.transport) # "v1"
    <3>1. VersionOf(req.transport) = "v03"
      BY <2>5 DEF VersionOf
    <3>2. sent[c] = GetMetadata(Metadata(v, x, s))
      BY <2>1, <2>3, <3>1 DEF Sent
    <3>3. /\ saw[c].tenant = "" /\ saw[c].extensions = sent[c].extensions
      BY <2>1, <2>5 DEF BuiltFor
    <3>4. /\ sent[c].extensions = x
          /\ sent[c].version = IF v = "-" THEN "0.3" ELSE v
      BY <3>2 DEF GetMetadata, Metadata
    <3>5. req.params.version = v /\ req.params.extensions = x
      BY <2>3 DEF Metadata
    <3> QED
      BY <2>5, <3>3, <3>4, <3>5
  <2> QED
    BY <2>4, <2>5
<1>2. ContextIInv => ContextIsOwn
  BY <1>1 DEF ContextIsOwn
<1> QED
  BY <1>2, ContextInductive, PTL

=============================================================================
