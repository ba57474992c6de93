---------------------------- MODULE ExtendedCard ----------------------------
(***************************************************************************)
(* get_extended_agent_card: the card a transport holds, the card its agent *)
(* publishes meanwhile, and the calls that fetch it, concurrently.  The    *)
(* v1.0 transport asks only an agent whose held card advertises an         *)
(* extended card, and never replaces the card it holds; the v0.3 transport *)
(* always asks for the public card and holds what it was last answered.    *)
(* How a call fails is in UnaryCall; here it only fails.                   *)
(***************************************************************************)
EXTENDS Naturals

CONSTANTS
  Fetches,        \* the calls of get_extended_agent_card
  MaxRevision,    \* bound: cards the agent publishes
  Advertising,    \* the revisions with capabilities.extended_agent_card
  Modifier        \* the servicer has a card_modifier

Revisions == 1 .. MaxRevision

ASSUME ExtendedCardAssumption ==
  /\ MaxRevision \in Nat \ { 0 }
  /\ Advertising \subseteq Revisions
  /\ Modifier \in BOOLEAN

VARIABLES
  version,     \* the protocol version of the transport
  revision,    \* the card the agent has now
  held,        \* the transport's agent_card
  phase,       \* phase[c]: where the call stands
  since,       \* since[c]: the revision when the call began
  reply,       \* reply[c]: the card on its way back, or none
  got          \* got[c]: the card the call returned

cardVars == <<version, revision, held, phase, since, reply, got>>

\* A card by what it shows of the agent: its public or its extended face at a
\* revision, and whether card_modifier changed it.
Card(face, rev, modified) == [ face |-> face, rev |-> rev, modified |-> modified ]

NoCard  == Card("none", 0, FALSE)
\* minimal_agent_card, made by the caller.
Minimal == Card("minimal", 0, FALSE)

Cards ==
  { NoCard, Minimal } \cup
  { Card(f, r, m) : f \in { "public", "extended" }, r \in Revisions, m \in BOOLEAN }

Advertises(card) == card.rev \in Advertising

CardStates ==
  { "idle", "asked", "served", "refused", "returned", "failed", "left" }

CardInit ==
  /\ version \in { "v1", "v03" }
  /\ revision \in Revisions
  /\ held \in { NoCard, Minimal, Card("public", revision, FALSE) }
  /\ phase = [c \in Fetches |-> "idle"]
  /\ since = [c \in Fetches |-> 0]
  /\ reply = [c \in Fetches |-> NoCard]
  /\ got   = [c \in Fetches |-> NoCard]

\* The agent's owner changes its card, or restarts it with another.
Publish ==
  /\ revision < MaxRevision
  /\ revision' = revision + 1
  /\ UNCHANGED <<version, held, phase, since, reply, got>>

\* A faulty variant: any card that is held is returned.
OwnCardIfAny == held # NoCard

\* `if card and not card.capabilities.extended_agent_card: return card'.
OwnCard == version = "v1" /\ held # NoCard /\ ~Advertises(held)

GetExtendedAgentCard(c) ==
  /\ phase[c] = "idle"
  /\ since' = [since EXCEPT ![c] = revision]
  /\ \/ OwnCard /\ phase' = [phase EXCEPT ![c] = "returned"]
                /\ got' = [got EXCEPT ![c] = held]
     \/ ~OwnCard /\ phase' = [phase EXCEPT ![c] = "asked"] /\ UNCHANGED got
  /\ UNCHANGED <<version, revision, held, reply>>

\* A faulty variant: the card the servicer was made with.
ServedFromServicer == { Card("public", 1, Modifier) }

\* What the servicer makes of its card: on_get_extended_agent_card refuses
\* with UnsupportedOperationError when the agent does not advertise one, the
\* v0.3 servicer hands out its public card; card_modifier is applied once.
Served ==
  IF version = "v03" THEN { Card("public", revision, Modifier) }
  ELSE { Card("extended", r, Modifier) : r \in Advertising \cap { revision } }

Serve(c) ==
  /\ phase[c] = "asked"
  /\ \/ \E card \in Served : /\ reply' = [reply EXCEPT ![c] = card]
                             /\ phase' = [phase EXCEPT ![c] = "served"]
     \/ Served = {} /\ phase' = [phase EXCEPT ![c] = "refused"] /\ UNCHANGED reply
  /\ UNCHANGED <<version, revision, held, since, got>>

\* `self.agent_card = card', in the v0.3 transport.
Holds(card) == held' = IF version = "v03" THEN card ELSE held

Return(c) ==
  /\ phase[c] = "served"
  /\ got' = [got EXCEPT ![c] = reply[c]]
  /\ Holds(reply[c])
  /\ phase' = [phase EXCEPT ![c] = "returned"]
  /\ UNCHANGED <<version, revision, since, reply>>

\* A faulty variant: a call that fails forgets the card.
FailForgets(c) ==
  /\ phase[c] \in { "asked", "served", "refused" }
  /\ phase' = [phase EXCEPT ![c] = "failed"]
  /\ held' = NoCard
  /\ UNCHANGED <<version, revision, since, reply, got>>

\* The agent refused or failed, the session was lost, or the answer could not
\* be converted.
Fail(c) ==
  /\ phase[c] \in { "asked", "served", "refused" }
  /\ phase' = [phase EXCEPT ![c] = "failed"]
  /\ UNCHANGED <<version, revision, held, since, reply, got>>

\* The await is cancelled.
Leave(c) ==
  /\ phase[c] \in { "asked", "served", "refused" }
  /\ phase' = [phase EXCEPT ![c] = "left"]
  /\ UNCHANGED <<version, revision, held, since, reply, got>>

CardNext ==
  \/ Publish
  \/ \E c \in Fetches :
       GetExtendedAgentCard(c) \/ Serve(c) \/ Return(c) \/ Fail(c) \/ Leave(c)

CardSpec == CardInit /\ [][CardNext]_cardVars

-----------------------------------------------------------------------------
CardTypeOK ==
  /\ version \in { "v1", "v03" } /\ revision \in Revisions
  /\ held \in Cards
  /\ phase \in [Fetches -> CardStates] /\ since \in [Fetches -> 0 .. revision]
  /\ reply \in [Fetches -> Cards] /\ got \in [Fetches -> Cards]

\* The docstring of the v1.0 servicer's method: the public card is never
\* handed out for the extended one (A2A REQ-SEC-025); what comes from the
\* agent was advertised, and went through card_modifier if there is one.
NotThePublicCard(c) ==
  version = "v1" /\ reply[c] # NoCard =>
    /\ reply[c].face = "extended" /\ Advertises(reply[c])
    /\ reply[c].modified = Modifier

\* What a call has in hand where it stands: a card on its way is one the agent
\* had since the call began, and for v1.0 never the public one.
CardInv ==
  /\ CardTypeOK
  /\ \A c \in Fetches :
       /\ phase[c] # "idle" => since[c] \in Revisions
       /\ phase[c] = "served" => reply[c].rev \in since[c] .. revision
       /\ NotThePublicCard(c)

\* A card returned to the caller was the agent's at some time during the call,
\* whatever other calls are doing, or it is the v1.0 transport's own, which
\* the caller made it with and which does not advertise another.
CardIsFresh ==
  \A c \in Fetches : phase[c] = "returned" =>
    \/ got[c].rev \in since[c] .. revision /\ got[c].face # "minimal"
    \/ version = "v1" /\ got[c] = held /\ ~Advertises(got[c])

\* The held card moves only to the card of a call that returns, one the agent
\* still had when that call began or has had since: a card older than what the
\* caller was given before may come back only when two calls overlap.
HeldFollows ==
  held' # held =>
    \E c \in Fetches :
      /\ phase[c] = "served" /\ phase'[c] = "returned"
      /\ held' = got'[c] /\ held'.rev >= since[c]

HeldFollowsCalls == [][HeldFollows]_cardVars

=============================================================================
