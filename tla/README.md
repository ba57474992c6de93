# Verification of slim-a2a-python

TLA+ models, TLC runs and TLAPS proofs for `slima2a/`: the glue that carries the
Agent-to-Agent protocol (A2A v1.0 and v0.3) over SLIM RPC.  Paths below are
relative to the repository root (`src/`).

What the library has to get right is small and hard to test.  A call crosses
five layers of somebody else's coroutines (request handler, servicer, generated
handler, bindings, generated stub, transport), each of which may raise, be
cancelled or be abandoned at every `await`, and the answer has to come out at
the other end as what the agent meant: all its events in order, then its own
end or its own error.

## 1. Inventory

| part | code | state it keeps | operations |
|------|------|----------------|------------|
| error translation | `slima2a/handler.py` 28-66 and 138-145, `slima2a/compat/v3_0/handler.py` 43-54 and 118-125, the `except` clauses of `types/v*/a2a_pb2_slimrpc.py` | none (two code maps) | `raise_error_response`, `_status_details`, `except RpcError`, `except Exception` |
| generated streaming handlers and streaming servicer methods | `types/v1` and `types/v0` `a2a_pb2_slimrpc.py` `UnaryStreamHandler` classes; `SendStreamingMessage`, `SubscribeToTask`, `TaskSubscription` | the task running `handle`, the servicer's generator, the `ResponseSink` | `handle`, `send_async`, `close_async`, `send_error_async` |
| generated unary handlers and unary servicer methods | the `UnaryUnaryHandler` classes; 9 methods of v1.0, 8 of v0.3 | the task running `handle` | `handle`, the methods, `@validate`, `card_modifier` |
| unicast client | generated stubs, `SRPCTransport`, `SRPCCompatTransport` | the generator chain between consumer and `next_async` | one method per A2A operation |
| multicast client | `A2AServiceGroupStub`, `SRPCMulticastTransport`, `MulticastClient` | the one loop on the merged reader | the same, answering `(source, response)` pairs |
| client factory | `client_transport.py` 41-139, 250-315, `compat/v3_0/client_transport.py` 47-58 | registry of transports, set of multiagent labels | `register`, `create`, the transports' `create`, the channel factories |
| SLIM setup | `slim_helper.py` | the process-wide service, the event loop, the connection | `initialize_slim_service`, `connect_and_subscribe`, `setup_slim_client` |
| extended card | `client_transport.py` 233-243, `compat/v3_0/client_transport.py` 262-280 | the transport's `agent_card` | `get_extended_agent_card` |
| method registration | `add_A2AServiceServicer_to_server`, the base servicers and the stubs of both versions | the server's table of handlers | `register_unary_unary`, `register_unary_stream`, lookup |
| caller identity and call context | `identity.py`, `slima2a/handler.py` 67-136, `compat/v3_0/handler.py` 62-92, `compat/v3_0/client_transport.py` 60-66 | the `ServerCallContext` of each call | `_get_metadata`, `build`, `user_from_context`, `_build_call_context` |
| a2a-sdk conversions, examples, packaging | outside the core | none | none |

How they interact.  A transport awaits its stub; the stub calls the channel of
slim_bindings; the bindings carry one request to the agent (or to every agent
of a group), find the handler by name and schedule `handle` as an asyncio task;
`handle` awaits or iterates the servicer, which awaits or iterates a2a-sdk's
request handler.  Streaming: `handle` pushes each event into the sink before it
pulls the next one, and the caller pulls from `next_async`.  Unary: `handle`
returns or raises, and the bindings put the answer on the session.  Multicast:
one reader merges the members' responses.  There is no retry, no buffering and
no deadline in this library: no transport passes a timeout to a stub.

What is hard about it, and which property each hazard is covered by, is listed
line by line under `hazards` in `PROJECT.json`.  In short:

* **Cancellation.** `CancelledError` is no `Exception`: a cancelled `handle`
  leaves its stream without a closing message.  Nobody may take that for an
  end, and everybody else must still be answered.
* **The broken sink.** The `except` clause of `handle` answers a failed
  `send_async` with another operation on the same broken sink.
* **Where a `try` begins.** `@validate` wraps a method from outside its `try`
  block, `card_modifier` runs after it and `SendStreamingMessage` builds its
  context before it, so the same `A2AError` gets a different status.
* **Two copies of everything.** v1.0 and v0.3 have their own code map and
  generated code; several `A2AError`s share one code.
* **Abandonment.** A consumer that breaks out of its loop tells nobody.
* **Merging.** Members' events interleave; one error ends the loop for all.
* **Setup.** A step that fails or is cancelled after an earlier one took effect;
  a second event loop in a process whose service is initialised already.
* **The factory.** What was registered for one card is called with a list.
* **Cards.** Calls that fetch the card overlap; the agent's card changes under
  them; one transport never replaces the card it was made with.
* **Who is asking.** One session carries the calls of several members, and one
  servicer several calls at once; contexts are built before an `await` and read
  after it.
* **Two versions on one server.** They share most method names.

What makes each part correct:

* *error translation*: an error both versions know has one code; an `A2AError` is
  told by its name, in v1.0 with a reason; a bare INTERNAL means no `A2AError`
  rose inside a `try`.
* *streaming*: a good end is the agent's own and complete; a failure is the
  agent's own, after all its events, or the loss of the session; no more than
  one event is ever ahead of the sink; every call ends.
* *unary*: at most once; an answer is the operation's result; every call ends.
* *multicast*: `source` is enough to rebuild each member's stream; the end is
  everybody's; an error is some member's.
* *factory*: a client is made with one channel and an exception with none; a
  group is the agents asked for, each at an interface of its own card.
* *setup*: the options are honoured, or the call is rejected before it touches
  anything; what a failure leaves is a prefix of connection, app, subscription;
  the callbacks run on the loop that lives.
* *extended card*: a returned card is one the agent had during the call, or the
  one the v1.0 transport was made with when that advertises no other.
* *context*: an operation sees its own sender, tenant and extensions.
* *registration*: what is performed is the operation asked for, in the caller's
  version.

## 2. The modules

```
A2AErrors ── SlimRpc ─┬─ StreamServer ─┬─ StreamCall ── implements ── StreamContract
                      │                └─ GroupStream ─ per member ── StreamContract
                      ├─ GroupReader ──┬─ GroupStream
                      │                └─ GroupUnary
                      └─ UnaryServer ──┬─ GroupUnary ── per member ── UnaryContract
                                       └─ UnaryCall ─── implements ── UnaryContract

MethodTable ── CallContext        SlimSetup        ClientFactory        ExtendedCard
```

The modules of the last line stand beside the calls: they have no variable in
common with them.  They are about what a program does before a call (setup,
factory, registration), and about what several calls meet in (the table of
handlers, the call's context, the held card).

**A2AErrors**: pure operators.  `StatusFor(version, guarded, e)` composes the
servicer's layer and the generated layer; `guarded` says whether `e` rose inside
the servicer's `try`.  A status is its code, its `ErrorInfo` reason and the type
name its message starts with; the wording is left out.  Each version has its own
code map, as in the code (`SlimErrorCodeMap`, `CompatSlimErrorCodeMap`), and
`NewErrors` are the types the v0.3 handler does not import.  `ErrorReasons`,
a2a-sdk's table of reasons, is a constant: it is not in this repository, and
nothing is assumed of it but that no reason is the mark of a missing `ErrorInfo`.
`OtherA2AError` stands for every class the maps do not list, subclasses of
listed ones included, because the lookup is by exact type.

**SlimRpc**: what travels (`Data`, `EndMark`, `ErrorOf`) and the two variables
the sides share: `wire[s]`, the messages put on a response, and `up[s]`, the
session being alive.  `Nested` is the set of statuses an agent's own slimrpc
calls may fail with: an `RpcError` passes both layers unchanged, so a status made
by an agent further down, a bare INTERNAL or UNAVAILABLE included, comes out at
the caller.

**StreamServer**: one asyncio task per stream.  `task[s]` is the line the task
stands at: `start` (the first step of the servicer's generator), `pull` (inside
the request handler's generator), `send`/`close`/`fail` (at the three sink
operations), `done`, `dead` (left by an exception nobody catches).  One action
per way to go on: `ValidateRejects`, `BuildRaises`, `Begin`, `Yield`, `Return`,
`HandlerRaises`, `Send`, `Close`, `SendError`, `SinkRaises`, `SendErrorRaises`;
`Cancel` and `Drop` are the environment's.

**StreamCall**: StreamServer and a caller per stream.  Consumer, transport and
stub are nested generators of one task with nothing buffered between them, so
they are one control state: `reading` (at `next_async`), `held` (at the stub's
`yield`), and three ways to be over.

**StreamContract**: what a stream promises whatever carries it.  StreamCall
implements it with `source <- emitted`, the verdict read off the agent's
exception or the closed sink, and the outcome read off the caller.

**UnaryServer**, **UnaryCall**, **UnaryContract**: the same for the 17 unary
methods, as data: a route is a version and a method, and `Validated`, `HasTry`,
`ParsesName`, `ChecksTask`, `Modifies` say which steps it has.

**GroupReader**: the loop of the group stub on the merged reader.
**GroupStream**, **GroupUnary**: that reader over one server task per member.
In both, `Member` reads the group call as one member's own contract: `Outcome`
of GroupUnary is complete once the member's pair was handed over, whatever ends
the loop later, and failed, gone or open by the way the loop was left.

**SlimSetup**: `slim_helper.py`.  `pc[a]` is the line a call of
`setup_slim_client` or `connect_and_subscribe` stands at.  Everything between two
`await`s is one step: a call that passes its checks runs `initialize_slim_service`
to its end (it contains no `await`) and stands at `connect_async`; `CreateApp`
goes from there to `subscribe_async`.  Each await has an action that completes
its future and one that fails it.  `Initializes(ok)` sets the callback loop before
the part that may raise, as the code does.  `RunLoop` and `CloseLoop` are
`asyncio.run`, one loop after the other; a closing loop cancels what is under
way, and `Abandons` lets the bindings carry on, or not, with what was awaited.
`service` and `conns` outlive the loops.

**ClientFactory**: `registry`, `multiagent`, and the history `opened` of channels.
`Create` follows the code down: the factory, the producer registered for the
label, the interface per card, the channel factory, which parses every name
before it opens anything.  A producer is one of the library's two; the exception
of each early exit is told apart.

**ExtendedCard**: a card is its face (public, extended, or a minimal card made by
the caller), the revision the agent published it at and whether `card_modifier`
changed it; the conversions of the v0.3 transport keep all three.  `OwnCard` is
the early return of v1.0, `Served` what the agent's servicer makes of it.

**MethodTable**: a component, with no specification of its own.  `StubMethod`,
`Registrations` and `Performs` are the three places where the method names are
spelled out; `table` maps a service and a method to the handler found there.
`Add` is `add_A2AServiceServicer_to_server`, at most once for each version: what
the bindings do with a name that is registered again is not in this repository,
and no property speaks of it.

**CallContext**: a call from the transport's method to the request handler's
operation, over that table.  `Fill` adds a servicer before the first call, as the
programs in `examples/` do before they serve; the table is read when the request
arrives (`Refuse`, `Build`).  `Build` makes the context object, `Operation` reads it after other
calls had theirs built; the objects' identities are explicit, so that two calls
could share one.

**StreamServerProofs**, **StreamCallProofs**, **GroupReaderProofs**,
**GroupStreamProofs**, **UnaryServerProofs**, **UnaryCallProofs**,
**GroupUnaryProofs**, **AroundCallsProofs**: the lemmas and theorems.  The last
one is about the four modules beside the calls, and extends all of them: that is
why their definitions carry the component's name (`CardInit`, `SetupInit`,
`FactoryInit`, `ContextInit`).  StreamServer and UnaryServer share variable
names, and no module extends both; so the few lemmas about statuses and messages
stand in both servers' proof modules.
**MC\***: constants for TLC.  Operators introduced as *a faulty variant* are the
plausible bugs used to show that each property can fail; no specification uses
them.

### What is assumed about code outside the repository

* *The sink* (slim_bindings): an operation on a live session puts one message
  at the end of the response; on a lost one it raises `RpcError` and puts
  nothing.  Messages of a session are neither reordered nor duplicated (the
  stubs have no code for it); they may be lost with the session (`ReadLost` and
  `Lost` may fire before everything on the wire was read).
* *A lost session does not come back.*  A new call is a new session.
* *The group reader* keeps each member's order, merges members in any order and
  reports `is_end` once, when all have ended.
* *The request handler* (a2a-sdk) may raise anything at any step, return `None`
  for a task, and ends.
* *Setup*: the global service holds one connection per node endpoint, as
  `tests/test_identity_e2e.py:191` says; a `connect_async` or `subscribe_async`
  whose task was cancelled may still take effect.
* *The server's table*: handlers of different service names do not meet, and a
  name nobody registered is answered UNIMPLEMENTED.
* *`ClientFactory.create` of a2a-sdk* chooses an interface the client supports
  and has a producer for, and calls that producer with the card, the url and the
  configuration; which of several is its own choice.
* *`on_get_extended_agent_card`* refuses when the agent does not advertise an
  extended card: the servicer's comment (`slima2a/handler.py:322`) relies on it.
* *A request always parses*: `FromString` of the request runs on bytes the
  generated stub made.  A failing conversion on the client's side is a caller
  that leaves its loop (`Leave`).

## 3. The runs

| run | question | bounds |
|-----|----------|--------|
| `stream_safety` | two concurrent streams of all four routes, one agent without streaming: the inductive invariant `IInv`, `CompleteEnd`, `FaithfulFailure`, `ErrorsAreNamed` | 2 streams, 1 event, 1 error type |
| `stream_contract` | one stream in depth: refinement of StreamContract, `NoReadAhead`, and under fairness `Settles`, `HandleIsLeft` | 1 stream, 3 events, 3 error types, two of one code, two without a reason, 3 statuses from below |
| `stream_error_info` | finding 1 (violation) | 1 stream |
| `unary_contract` | every method of both versions: `UnaryInv`, `AnswerIsTheResult`, `BareInternal`, `SameCodeInBothVersions`, refinement of UnaryContract, and under fairness `CallSettles` | 1 call, 17 routes, every error type, 3 statuses from below, agent without push |
| `group_stream` | two members, all interleavings: `GroupInv`, `DemuxInOrder`, `EndOfAll`, `GroupFailure`, per-member refinement, and under fairness `GroupSettles` | 2 members, 2 events |
| `group_unary` | `GroupInv`, `RepliesAreResults`, `EndHasEveryReply`, `OneMemberFailed`, per-member refinement of UnaryContract, and under fairness `GroupCallSettles` | 2 members, 5 methods |
| `group_replies` | finding 2 (violation) | 2 members, `SendMessage` |
| `slim_setup` | `SetupInv`, `OptionsHonoured`, `CallbacksOnRunningLoop`, `RejectedTouchesNothing` | 2 calls, one with all 72 combinations of options beside one with 4 (one rejected), 2 loops |
| `client_factory` | `FactoryInv`, `GroupIsAsked`, `OneChannelPerClient` | 3 calls of register and create, 12 configurations, 4 cards, 12 lists |
| `factory_readme` | finding 3 (violation) | 2 calls |
| `extended_card` | `CardInv`, `CardIsFresh`, `HeldFollowsCalls` | 3 calls, 3 revisions, the second not advertising |
| `call_context` | `ReachesOwnVersion`, `UserIsSender`, `ContextIsOwn` | 2 calls: one of 11 operations over 3 transports beside one of 3 members (verified, without issuer, unverified); 3 servicers (one partial), one of a version or none |

`CHECK_DEADLOCK FALSE` everywhere: calls end and no new ones are opened, so
every behaviour stops.

Why the bounds are enough.  The only unbounded counter is the number of events
of a stream, cut by `MaxEvents` in `Yield`.  The interesting positions of an
event are first, last and in between; a loss or an error can fall before, at
and after each, so three events show them all for one stream.  With two
members two events each are the least that can interleave out of order.
Streaming and unary calls share no state in this library, so a second one can
only show that steps of one do not disturb the other; `SameCodeInBothVersions`
compares what one call was told with what the other version would have told.  Two setups meet in the global service
and in one endpoint, and two loops are the least where one is stale.  Three card
calls let one overtake another while a third has returned.  A factory needs two
registrations and one create for a label to be stale.  Two servicers in
one table are both versions; two calls let one context be
built between the making and the reading of another.  For every safety property and
every refinement the proofs of section 5 remove the bounds altogether; what they
leave to the runs is liveness.

Fairness.  `TaskStep` is weakly fair per task: asyncio runs a ready task and a
sink operation ends, in one way or another.  That the request handler's
generator goes on, and with `MaxEvents` that it ends, is an assumption on the
agent, not on this library.  `Read` (`Await`, `ReadGroup`): `next_async` returns
what is there.  `Resume`: a consumer that stays in its loop asks for the next
event.  Nothing is assumed of `Cancel`, `Drop`, `Leave` and `Open`.  The modules
beside the calls state no fairness: their code is straight-line from one await
to the next.  The liveness properties have one exception, stated in them: a task
cancelled under a live session leaves a stream nobody closes, and its caller,
having no deadline, may wait for ever.  That is what the code does; it is not
hidden by fairness.

## 4. Findings

1. `stream_error_info`.  The docstring of `_status_details`
   (`slima2a/handler.py:51`) says that A2A §11.6 requires an `ErrorInfo` whose
   reason names the A2A error.  `@validate` (line 165) raises its
   `UnsupportedOperationError` outside the method's `try`, and line 175 builds
   the context before it, so such an error reaches its v1.0 caller as a bare
   INTERNAL without any `ErrorInfo`.
2. `group_replies`.  A multicast `SendMessage`: `MulticastClient.send_message` documents "one complete
   response per agent" (`slima2a/client_transport.py:488`).  The group stub
   raises the first error any member sends and stops, so the responses the other
   members gave, on the wire already, are never yielded.

3. `factory_readme`.  The README registers the v0.3 transport with
   `multiagent=True` (`README.md:340`) and says that a list of cards gives a
   `MulticastClient` (`README.md:345`).  `SRPCCompatTransport.create` takes one
   card; `create` calls it with the list and `None` for the url, and the channel
   factory fails on `None.split` (`slima2a/client_transport.py:47`).

Seen on the way, with no document to hold them against, and modelled as they
are: `create([])` raises `TypeError`, not the `ValueError` of a list without a
common protocol; a label once multiagent stays so; a `setup_slim_client` that
fails after `connect_async` returns nobody the connection's id; the v1.0
transport drops the `ClientCallContext` it is given, the v0.3 one sends its
service parameters, which may overwrite the version header.

## 5. What is proved

Every safety property, action property and refinement a passing run checks is
also a theorem: for any set of calls or members, agents, cards, labels and
members' names, any error types and any number of events.  The assumptions are
the named ones of the modules, checked by TLC on every run, and no others:

| assumption | what it says |
|------------|--------------|
| `ErrorReasonsAssumption` | no reason of a2a-sdk is the mark of a missing `ErrorInfo` |
| `NestedAssumption` | what an agent's own calls fail with are statuses |
| `StreamServerAssumption`, `UnaryServerAssumption` | the agents, types and routes of a behaviour are some of all; `MaxEvents` is a natural number |
| `WatchedAssumption` | the watched member is one of the group |
| `SlimSetupAssumption`, `ClientFactoryAssumption`, `ExtendedCardAssumption`, `MethodTableAssumption`, `CallContextAssumption` | each constant is of the shape its comment gives |

The proofs have one form.  A property that looks at the end of a call says
nothing of how it came there and is not inductive; so each module has an
invariant that says what every party knows at every line it can stand at, the
proof that Init gives it and each action keeps it (one lemma per action, or per
group of actions that touch the same variables), and a lemma per property that
needs no more than one state, or one step, of it.

**Streams, unicast.**  `IInv` of StreamCall (`Invariance`) adds, stream by
stream: `WireInOrder` (the k-th message is the k-th event and only the last
closes), `LockStep` (the task's position fixes how many events are on the wire),
`ClosingFaithful` (what the closing message says of the agent),
`PendingFaithful` (the status about to be sent is the agent's unless the sink
raised first, which takes a lost session) and `ReadsPrefix` (the caller has read
a prefix of the wire).  The first four are the server's alone and live in
StreamServer, so that the group modules use them as they are;
`ServerStepIsLocal` says that a step of one stream does not disturb another.
From it: `CompleteEndHolds`, `FaithfulFailureHolds`, `NoReadAheadHolds`,
`ErrorsAreNamedHolds`, and `Refinement`: StreamCall implements StreamContract, each
action being a step of it or a stutter.  `ErrorsAreNamed` needs one fact more,
kept beside `IInv`: `EarlyRise`, that an `A2AError` no `except` clause of the
servicer saw rose before the first event, in `@validate` or in the context builder
of v1.0 `SendStreamingMessage`.  The end of the call does not show where it rose.

**Streams, multicast.**  `GroupInv` of GroupStream (`GroupInvariance`) is the
server's invariant per member, that the request went to all of them at once to a
v1.0 method, and `ReaderInv`: the reader has handed over what it took of each
member and nothing else (`ReadsMember`), the pairs of a source are in order
without a gap (`ItemsInOrder`), and the way the loop was left agrees with the
wires (`ReaderVerdict`).  GroupReaderProofs shows that the reader keeps
`ReaderInv` over any wires in order, and that a wire that only grows keeps it
too; the server's lemmas show that each member's is one.  From it:
`DemuxInOrderHolds`, `EndOfAllHolds`, `GroupFailureHolds`.
`MemberRefinement` is that any one member's part of the merged call implements
StreamContract.  What it hinges on is `RebuiltFromSource`: the subsequence of
the consumer's pairs that carry one source is that member's events 1, 2, ..., up
to the last taken.  `YieldedFrom` defines that subsequence by the places of the
pairs and not with `SelectSeq`, which is recursive; the k-th place is found by
counting, and `PlacesCounted` counts by the bijection between places and events.
That the caller is told the right code, and not only some error, needs the last
part of the invariant: the route is a v1.0 one.

**Unary calls, unicast.**  `UnaryInv` (`UnaryInvariance`) is, per call,
`ReplyFaithful` (how far the task is fixes whether the operation ran and what
the reply is: its result, or the agent's error), `RaisedInPlace` (the exception
is one the agent can raise, and an `A2AError` from outside the `try` block comes
from a route that has a step there) and `CallerFaithful` (what the caller was
told is on the wire, or the session is lost).  `RaisedInPlace` is the part the
end of a call does not show: without it nothing excludes an `A2AError` that
rises unguarded in a method with no step outside its `try`, and `BareInternal`
and the statuses of the contract depend on that.  `SameCodeInBothVersions` also
needs `MapsAgree`: the two code maps, compared entry by entry, agree on every
type but `NewErrors`, and on the types neither lists.  From `UnaryInv`:
`AnswerIsTheResultHolds`, `SameCodeInBothVersionsHolds`, `BareInternalHolds`,
and `UnaryRefinement`: UnaryCall implements UnaryContract.

**Unary calls, multicast.**  `GroupInv` of GroupUnary is the unary server's
invariant per member and the same `ReaderInv`.  `ReadOfAnswer` says what the
reader took of a wire that holds one answer.  From it:
`RepliesAreResultsHolds`, `EndHasEveryReplyHolds`, `OneMemberFailedHolds`, and
`MemberRefinement`: any one member's part of the call implements UnaryContract.

**Around the calls** (AroundCallsProofs).
* Extended card.  `CardIInv` is `CardInv` and `CardIsFresh` together: what a
  call returned is judged against revisions that go on being published after it.
  Theorems:
  `CardInvariance`, `CardIsFreshHolds`, and the action property
  `HeldFollowsCallsHolds`.
* Setup.  `SetupIInv` adds to `SetupInv` that an app has its call's own
  credential, and where slim_bindings calls back.  Theorems: `SetupInvariance`,
  `OptionsHonouredHolds`, `CallbacksOnRunningLoopHolds`, and the action property
  `RejectedTouchesNothingHolds`.
* Factory.  `FactoryIInv` is `FactoryInv` and `GroupIsAsked`; the lemmas follow
  `create` down and say what each part of it gives or raises.  Theorems:
  `FactoryInvariance`, `GroupIsAskedHolds`, and the action property
  `OneChannelPerClientHolds`.
* Registration and context.  `ContextIInv` is what the table holds under each
  version's names (`TableInv`), and what a call
  carries at each stage, its context being an object of its own (`CallDomains`,
  `CallInv`).  Theorems: `ReachesOwnVersionHolds`, `UserIsSenderHolds`,
  `ContextIsOwnHolds`.

Only model-checked: liveness (`Settles`, `HandleIsLeft`, `CallSettles`,
`GroupSettles`, `GroupCallSettles`), which is beyond the prover.  The three runs
of section 4 are counterexamples and need no proof.

## 6. Not modelled

* a2a-sdk conversions between v0.3 and v1.0: a third-party library of pure
  functions; where they are called, a step may fail.  So are the patterns that
  take the ids out of a v0.3 resource name; their refusal is `NameRejected`.
* What a `CallContextBuilder` of the user's own does beyond raising.
* Trace spans, log levels, the wording of messages: no property is about them.
* A deadline: no transport passes one.
* A reconnect: `slim_helper` has none; a lost session ends its calls.
* Two servicers of one version on one server: what becomes of the first is the
  bindings' choice.
* Examples, CI, packaging; of the examples only that they add their servicers
  before they serve (`Fill`).

## 7. Plan

Done, the most important behaviour first: error translation, streaming server,
unicast stream with its contract and proofs, multicast stream with its proofs,
unary server, unicast unary call with its contract, multicast unary call with a
contract per member; then setup, factory, registration, extended card and call
context.

All safety properties are proved (section 5).  What is left: theorems that
relate components and that no run states yet, such as that a lost session is the
only way a caller of a live task can be told a status its agent did not give,
for both call kinds in one form; and lemmas about `StatusFor` over all types and
both versions that the proofs now use in pieces.
