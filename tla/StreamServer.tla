---------------------------- MODULE StreamServer ----------------------------
(***************************************************************************)
(* The server side of a server-streaming call: the asyncio task that runs  *)
(* the generated UnaryStreamHandler.handle, which pulls the servicer's     *)
(* asynchronous generator and feeds a ResponseSink.  Both protocol         *)
(* versions and all four streaming methods are here; they differ in what   *)
(* runs before the first event and inside which try block.                 *)
(*                                                                         *)
(* The sink is modelled by what handle relies on: an operation on a live   *)
(* session puts one message at the end of the stream, on a lost session it *)
(* raises RpcError and puts nothing.  The wire is kept whole, with the     *)
(* reader's position in the modules that read it.  Streams are the         *)
(* streaming calls.                                                        *)
(***************************************************************************)
EXTENDS SlimRpc

CONSTANTS
  Advertised,   \* those served by an agent whose card has capabilities.streaming
  Raisable,     \* the A2AError types raised in a behaviour
  MaxEvents     \* bound: events a request handler yields in one call

ASSUME StreamServerAssumption ==
  /\ Advertised \subseteq Streams
  /\ Raisable \subseteq ErrorTypes
  /\ MaxEvents \in Nat

VARIABLES
  route,     \* route[s]: the servicer method the call addresses
  task,      \* task[s]: where the asyncio task that runs handle stands
  emitted,   \* emitted[s]: events the servicer's generator has yielded
  thrown,    \* thrown[s]: the exception that ended the servicer's generator
  guarded,   \* guarded[s]: it rose inside the servicer's try block
  pending    \* pending[s]: the status handle is about to send_error_async

serverVars == <<route, task, emitted, thrown, guarded, pending, wire, up>>

Routes ==
  { "v1.SendStreamingMessage", "v1.SubscribeToTask",
    "v03.SendStreamingMessage", "v03.TaskSubscription" }

\* idle    no call yet                 send   sink.send_async
\* called  handle not yet scheduled    close  sink.close_async
\* start   first step of the generator fail   sink.send_error_async
\* pull    request handler's generator done   handle returned
\* dead    handle left by an exception nobody catches
TaskStates ==
  { "idle", "called", "start", "pull", "send", "close", "fail", "done", "dead" }

VersionOf(r) == IF r \in { "v1.SendStreamingMessage", "v1.SubscribeToTask" }
                THEN "v1" ELSE "v03"

\* @validate wraps the v1.0 methods only.
Validated(r) == VersionOf(r) = "v1"

\* SendStreamingMessage of v1.0 builds the call context before its try.
BuildsInsideTry(r) == r # "v1.SendStreamingMessage"

Raised == RaisedBy(Raisable)

ServerInit ==
  /\ route   = [s \in Streams |-> "none"]
  /\ task    = [s \in Streams |-> "idle"]
  /\ emitted = [s \in Streams |-> 0]
  /\ thrown  = [s \in Streams |-> NoException]
  /\ guarded = [s \in Streams |-> FALSE]
  /\ pending = [s \in Streams |-> NoStatus]
  /\ wire    = [s \in Streams |-> << >>]
  /\ up      = [s \in Streams |-> TRUE]

-----------------------------------------------------------------------------
\* The request reaches the agent: slimrpc looks the method up and runs handle.
Accept(s) ==
  /\ task[s] = "called"
  /\ up[s]
  /\ task' = [task EXCEPT ![s] = "start"]
  /\ UNCHANGED <<route, emitted, thrown, guarded, pending, wire, up>>

\* An exception leaves the servicer's generator and reaches handle, whose two
\* `except' clauses pick the status to send.
Throw(s, e, inTry) ==
  /\ thrown'  = [thrown EXCEPT ![s] = e]
  /\ guarded' = [guarded EXCEPT ![s] = inTry]
  /\ pending' = [pending EXCEPT ![s] = StatusFor(VersionOf(route[s]), inTry, e)]
  /\ task'    = [task EXCEPT ![s] = "fail"]
  /\ UNCHANGED <<route, emitted, wire, up>>

\* The decorator's generator raises before the method's own body runs.
ValidateRejects(s) ==
  /\ task[s] = "start"
  /\ Validated(route[s])
  /\ s \notin Advertised
  /\ Throw(s, A2AError("UnsupportedOperationError"), FALSE)

\* context_builder.build, or for v0.3 the conversion of the request, raises.
BuildRaises(s) ==
  /\ task[s] = "start"
  /\ Validated(route[s]) => s \in Advertised
  /\ \E e \in Raised : Throw(s, e, BuildsInsideTry(route[s]))

Begin(s) ==
  /\ task[s] = "start"
  /\ Validated(route[s]) => s \in Advertised
  /\ task' = [task EXCEPT ![s] = "pull"]
  /\ UNCHANGED <<route, emitted, thrown, guarded, pending, wire, up>>

\* A faulty variant: the next event is pulled while one is being sent.
YieldAhead(s) ==
  /\ task[s] \in { "pull", "send" }
  /\ emitted[s] < MaxEvents
  /\ emitted' = [emitted EXCEPT ![s] = @ + 1]
  /\ task'    = [task EXCEPT ![s] = "send"]
  /\ UNCHANGED <<route, thrown, guarded, pending, wire, up>>

\* The request handler yields an event; the servicer converts and yields it.
Yield(s) ==
  /\ task[s] = "pull"
  /\ emitted[s] < MaxEvents
  /\ emitted' = [emitted EXCEPT ![s] = @ + 1]
  /\ task'    = [task EXCEPT ![s] = "send"]
  /\ UNCHANGED <<route, thrown, guarded, pending, wire, up>>

Return(s) ==
  /\ task[s] = "pull"
  /\ task' = [task EXCEPT ![s] = "close"]
  /\ UNCHANGED <<route, emitted, thrown, guarded, pending, wire, up>>

\* A faulty variant: the try block ends before the request handler's generator
\* is iterated.
HandlerRaisesOutside(s) ==
  /\ task[s] = "pull"
  /\ \E e \in Raised : Throw(s, e, FALSE)

HandlerRaises(s) ==
  /\ task[s] = "pull"
  /\ \E e \in Raised : Throw(s, e, TRUE)

\* One operation on the sink, of handle's step `from': it puts a message on
\* a live session and goes on with `next', or raises RpcError on a lost one.
SinkOp(s, from, message, next) ==
  /\ task[s] = from
  /\ up[s]
  /\ wire' = [wire EXCEPT ![s] = Append(@, message)]
  /\ task' = [task EXCEPT ![s] = next]
  /\ UNCHANGED <<route, emitted, thrown, guarded, pending, up>>

\* A faulty variant: every error is answered as the catch-all answers it.
SendErrorInternal(s) == SinkOp(s, "fail", ErrorOf(InternalStatus), "done")

Send(s)      == SinkOp(s, "send", Data(emitted[s]), "pull")
Close(s)     == SinkOp(s, "close", EndMark, "done")
SendError(s) == SinkOp(s, "fail", ErrorOf(pending[s]), "done")

\* Faulty variants: the failure of the sink is ignored, or the operation is
\* tried again.
SinkRaisesIgnored(s) ==
  /\ task[s] \in { "send", "close" }
  /\ ~up[s]
  /\ task' = [task EXCEPT ![s] = IF @ = "send" THEN "pull" ELSE "done"]
  /\ UNCHANGED <<route, emitted, thrown, guarded, pending, wire, up>>

SinkRaisesRetried(s) ==
  /\ task[s] \in { "send", "close" }
  /\ ~up[s]
  /\ UNCHANGED serverVars

\* send_async or close_async raises: handle answers with send_error_async.
SinkRaises(s) ==
  /\ task[s] \in { "send", "close" }
  /\ ~up[s]
  /\ pending' = [pending EXCEPT ![s] = TransportStatus]
  /\ task'    = [task EXCEPT ![s] = "fail"]
  /\ UNCHANGED <<route, emitted, thrown, guarded, wire, up>>

\* send_error_async raises inside the except clause and escapes handle.
SendErrorRaises(s) ==
  /\ task[s] = "fail"
  /\ ~up[s]
  /\ task' = [task EXCEPT ![s] = "dead"]
  /\ UNCHANGED <<route, emitted, thrown, guarded, pending, wire, up>>

-----------------------------------------------------------------------------
\* A faulty variant: a `finally' that closes the sink.
CancelCloses(s) ==
  /\ task[s] \in { "start", "pull", "send" }
  /\ task' = [task EXCEPT ![s] = "close"]
  /\ UNCHANGED <<route, emitted, thrown, guarded, pending, wire, up>>

\* The task is cancelled at one of its awaits (server shutdown, the bindings
\* dropping the call).  CancelledError is no Exception: no clause catches it
\* and the sink is left without a closing message.
Cancel(s) ==
  /\ task[s] \in { "start", "pull", "send", "close", "fail" }
  /\ task' = [task EXCEPT ![s] = "dead"]
  /\ UNCHANGED <<route, emitted, thrown, guarded, pending, wire, up>>

\* The session is lost.  It does not come back: a new call is a new session.
Drop(s) ==
  /\ task[s] # "idle"
  /\ up[s]
  /\ up' = [up EXCEPT ![s] = FALSE]
  /\ UNCHANGED <<route, task, emitted, thrown, guarded, pending, wire>>

\* The steps of the task itself, which asyncio runs until handle is left.
TaskStep(s) ==
  \/ Accept(s)
  \/ ValidateRejects(s) \/ BuildRaises(s) \/ Begin(s)
  \/ Yield(s) \/ Return(s) \/ HandlerRaises(s)
  \/ Send(s) \/ Close(s) \/ SendError(s)
  \/ SinkRaises(s) \/ SendErrorRaises(s)

ServerStep(s) == TaskStep(s) \/ Cancel(s) \/ Drop(s)

-----------------------------------------------------------------------------
ServerTypeOK ==
  /\ route   \in [Streams -> Routes \cup { "none" }]
  /\ task    \in [Streams -> TaskStates]
  /\ emitted \in [Streams -> Nat]
  /\ thrown  \in [Streams -> Exceptions]
  /\ guarded \in [Streams -> BOOLEAN]
  /\ pending \in [Streams -> Statuses]
  /\ wire    \in [Streams -> Seq(Messages)]
  /\ up      \in [Streams -> BOOLEAN]

-----------------------------------------------------------------------------
(***************************************************************************)
(* What the server keeps true of each stream, whoever reads it.            *)
(***************************************************************************)
\* The status the agent's exception is answered with.
Answer(s) == StatusFor(VersionOf(route[s]), guarded[s], thrown[s])

\* How far the task has come fixes how many events are on the wire: handle
\* pulls the next event only when the one before has been sent.
LockStep(s) ==
  /\ task[s] \in { "idle", "called", "start" } =>
       emitted[s] = 0 /\ wire[s] = << >>
  /\ task[s] \in { "pull", "close" } => Len(wire[s]) = emitted[s]
  /\ task[s] = "send" => Len(wire[s]) + 1 = emitted[s]
  /\ task[s] \notin { "done", "dead" } => ~Closed(s)
  /\ ~Closed(s) => emitted[s] \in { Len(wire[s]), Len(wire[s]) + 1 }
  /\ Closed(s) => emitted[s] + 1 = Len(wire[s])

\* What the closing message says about the agent.
ClosingFaithful(s) ==
  Closed(s) =>
    \/ Closing(s).kind = "end" /\ thrown[s].kind = "ok"
    \/ /\ Closing(s).kind = "error" /\ thrown[s].kind # "ok"
       /\ Closing(s).status = Answer(s)

\* Until handle is left, its pending error is the one the agent raised unless
\* the sink raised first, which only a lost session makes it do.
PendingFaithful(s) ==
  /\ task[s] = "fail" /\ up[s] =>
       /\ thrown[s].kind # "ok"
       /\ pending[s] = Answer(s)
  /\ task[s] \in { "idle", "called", "start", "pull", "send", "close" } =>
       thrown[s].kind = "ok"
  /\ thrown[s].kind # "ok" /\ ~Closed(s) => emitted[s] = Len(wire[s])

ServerInv(s) ==
  /\ WireInOrder(s) /\ LockStep(s) /\ ClosingFaithful(s) /\ PendingFaithful(s)

ServerIInv == ServerTypeOK /\ \A s \in Streams : ServerInv(s)

=============================================================================
