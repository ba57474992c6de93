----------------------------- MODULE StreamCall -----------------------------
(***************************************************************************)
(* A unicast server-streaming call from end to end: StreamServer plus the  *)
(* caller.  The caller's side is three nested asynchronous generators run  *)
(* by one task: the consumer's `async for' over SRPCTransport (or its v0.3 *)
(* twin), which re-yields what the generated stub yields, which loops on   *)
(* response_stream.next_async().  Nothing is buffered between them, so     *)
(* they are one control state per call.  No deadline is modelled: no       *)
(* transport passes a timeout to the stub.                                 *)
(***************************************************************************)
EXTENDS StreamServer

VARIABLES
  caller,     \* caller[s]: where the caller stands
  cursor,     \* cursor[s]: messages of wire[s] that next_async has returned
  delivered,  \* delivered[s]: the events the consumer was given, in order
  seen        \* seen[s]: the status of the RpcError raised to the consumer

clientVars == <<caller, cursor, delivered, seen>>
vars == <<serverVars, clientVars>>

\* reading  awaiting next_async      held  suspended at the stub's yield
\* ended    the loop broke on is_end raised  it raised the error
\* left     the consumer broke out of its loop, or its task was cancelled
CallerStates == { "idle", "reading", "held", "ended", "raised", "left" }

Init ==
  /\ ServerInit
  /\ caller    = [s \in Streams |-> "idle"]
  /\ cursor    = [s \in Streams |-> 0]
  /\ delivered = [s \in Streams |-> << >>]
  /\ seen      = [s \in Streams |-> NoStatus]

\* The first step of the stub's generator: call_unary_stream_async.
Open(s) ==
  /\ caller[s] = "idle"
  /\ \E r \in Routes : route' = [route EXCEPT ![s] = r]
  /\ task'   = [task EXCEPT ![s] = "called"]
  /\ caller' = [caller EXCEPT ![s] = "reading"]
  /\ UNCHANGED <<emitted, thrown, guarded, pending, wire, up,
                 cursor, delivered, seen>>

\* next_async returns the next message of the stream.
Next_async(s, kind) ==
  /\ caller[s] = "reading"
  /\ cursor[s] < Len(wire[s])
  /\ wire[s][cursor[s] + 1].kind = kind
  /\ cursor' = [cursor EXCEPT ![s] = @ + 1]
  /\ UNCHANGED serverVars

ReadData(s) ==
  /\ Next_async(s, "data")
  /\ delivered' = [delivered EXCEPT ![s] = Append(@, wire[s][cursor[s] + 1].event)]
  /\ caller' = [caller EXCEPT ![s] = "held"]
  /\ UNCHANGED seen

\* Faulty variants: no `break' on is_end, no `raise' on is_error.
ReadEndLoops(s) == Next_async(s, "end") /\ UNCHANGED <<caller, delivered, seen>>

ReadErrorEnds(s) ==
  /\ Next_async(s, "error")
  /\ caller' = [caller EXCEPT ![s] = "ended"]
  /\ UNCHANGED <<delivered, seen>>

ReadEnd(s) ==
  /\ Next_async(s, "end")
  /\ caller' = [caller EXCEPT ![s] = "ended"]
  /\ UNCHANGED <<delivered, seen>>

ReadError(s) ==
  /\ Next_async(s, "error")
  /\ seen'   = [seen EXCEPT ![s] = wire[s][cursor[s] + 1].status]
  /\ caller' = [caller EXCEPT ![s] = "raised"]
  /\ UNCHANGED delivered

\* The session is lost: the bindings report it, with whatever was in flight
\* lost as well or not.
ReadLost(s) ==
  /\ caller[s] = "reading"
  /\ ~up[s]
  /\ seen'   = [seen EXCEPT ![s] = TransportStatus]
  /\ caller' = [caller EXCEPT ![s] = "raised"]
  /\ UNCHANGED <<serverVars, cursor, delivered>>

\* The consumer asks for the next event.
Resume(s) ==
  /\ caller[s] = "held"
  /\ caller' = [caller EXCEPT ![s] = "reading"]
  /\ UNCHANGED <<serverVars, cursor, delivered, seen>>

\* The consumer stops iterating between two events, or is cancelled while it
\* waits for one (asyncio.wait_for).  Nothing is sent to the agent.
Leave(s) ==
  /\ caller[s] \in { "reading", "held" }
  /\ caller' = [caller EXCEPT ![s] = "left"]
  /\ UNCHANGED <<serverVars, cursor, delivered, seen>>

Read(s) == ReadData(s) \/ ReadEnd(s) \/ ReadError(s) \/ ReadLost(s)

Next ==
  \E s \in Streams :
    \/ Open(s) \/ Read(s) \/ Resume(s) \/ Leave(s)
    \/ ServerStep(s) /\ UNCHANGED clientVars

Spec == Init /\ [][Next]_vars

(***************************************************************************)
(* Fairness: asyncio runs a ready task, next_async returns what is there,  *)
(* and a consumer that stays in its loop asks for the next event.  That    *)
(* the request handler's generator goes on is an assumption on the agent.  *)
(* Nothing forces a cancellation, a lost session or a caller that leaves.  *)
(***************************************************************************)
Fairness ==
  \A s \in Streams :
    /\ WF_vars(TaskStep(s) /\ UNCHANGED clientVars)
    /\ WF_vars(Read(s))
    /\ WF_vars(Resume(s))

FairSpec == Spec /\ Fairness

-----------------------------------------------------------------------------
TypeOK ==
  /\ ServerTypeOK
  /\ caller    \in [Streams -> CallerStates]
  /\ cursor    \in [Streams -> Nat]
  /\ delivered \in [Streams -> Seq(Nat)]
  /\ seen      \in [Streams -> Statuses]

-----------------------------------------------------------------------------
(***************************************************************************)
(* The invariant that carries the safety properties, one stream at a time: *)
(* the server's and what the caller has read.                              *)
(***************************************************************************)
\* The caller has read a prefix of the wire and kept its events.
ReadsPrefix(s) ==
  /\ caller[s] = "idle" <=> task[s] = "idle"
  /\ delivered[s] = [k \in 1 .. Len(delivered[s]) |-> k]
  /\ cursor[s] <= Len(wire[s])
  /\ caller[s] \in { "idle", "reading", "held", "left" } =>
       /\ cursor[s] = Len(delivered[s])
       /\ Closed(s) => cursor[s] < Len(wire[s])
  /\ caller[s] = "ended" =>
       /\ Closed(s) /\ Closing(s).kind = "end"
       /\ Len(delivered[s]) = emitted[s]
  /\ caller[s] = "raised" =>
       \/ seen[s] = TransportStatus /\ ~up[s]
       \/ /\ Closed(s) /\ Closing(s).kind = "error"
          /\ seen[s] = Closing(s).status
          /\ Len(delivered[s]) = emitted[s]

StreamInv(s) == ServerInv(s) /\ ReadsPrefix(s)

IInv == TypeOK /\ \A s \in Streams : StreamInv(s)

-----------------------------------------------------------------------------
(***************************************************************************)
(* Safety properties.                                                      *)
(***************************************************************************)

\* A stream that ends well for the consumer was ended by the agent's own
\* generator, and every event it yielded was delivered, once and in order:
\* a stream cut short by an error, a cancelled task or a lost session is
\* never taken for a complete one.
CompleteEnd ==
  \A s \in Streams : caller[s] = "ended" =>
    /\ thrown[s].kind = "ok"
    /\ task[s] \in { "done", "dead" }
    /\ delivered[s] = [k \in 1 .. emitted[s] |-> k]

\* An RpcError raised to the consumer is either the loss of the session or
\* the status of the exception that ended the agent's generator, and then
\* every event yielded before it has been delivered first.
FaithfulFailure ==
  \A s \in Streams : caller[s] = "raised" =>
    \/ seen[s] = TransportStatus /\ ~up[s]
    \/ /\ thrown[s].kind # "ok"
       /\ seen[s] = Answer(s)
       /\ delivered[s] = [k \in 1 .. emitted[s] |-> k]

\* The agent's generator is never more than one event ahead of what the sink
\* has taken, in every state of the task: a failing sink loses at most the
\* event handle was sending.
NoReadAhead ==
  \A s \in Streams : \A n \in 1 .. emitted[s] - 1 :
    n \in DOMAIN wire[s] /\ wire[s][n].kind = "data" /\ wire[s][n].event = n

\* An A2AError that ends a stream is told to the consumer by its name, and over
\* v1.0 with an ErrorInfo, whatever code it shares with others and however many
\* events came before it.  The exceptions are those that rise before a v1.0
\* method's try block, and so before the first event: @validate's, and what the
\* context builder raises in SendStreamingMessage; they are a bare INTERNAL.
ErrorsAreNamed ==
  \A s \in Streams :
    /\ caller[s] = "raised" /\ seen[s] # TransportStatus
    /\ thrown[s].kind = "a2a"
    => \/ /\ seen[s].title = thrown[s].type
          /\ VersionOf(route[s]) = "v1" => seen[s].reason # "none"
       \/ /\ seen[s] = InternalStatus /\ emitted[s] = 0
          /\ \/ Validated(route[s]) /\ s \notin Advertised
             \/ route[s] = "v1.SendStreamingMessage"

\* What _status_details asks for: an A2AError that ends a v1.0 stream reaches
\* its caller with an ErrorInfo that names a reason.
A2AErrorCarriesReason ==
  \A s \in Streams :
    /\ caller[s] = "raised" /\ seen[s] # TransportStatus
    /\ thrown[s].kind = "a2a" /\ VersionOf(route[s]) = "v1"
    => seen[s].reason # "none"

-----------------------------------------------------------------------------
(***************************************************************************)
(* The call implements StreamContract.  The source is the agent's          *)
(* generator; it concludes badly when it raises and well when handle has   *)
(* closed the sink.                                                        *)
(***************************************************************************)
Verdict(s) ==
  CASE thrown[s].kind # "ok" ->
         [ how |-> "failed", status |-> Answer(s) ]
    [] thrown[s].kind = "ok" /\ Closed(s) ->
         [ how |-> "complete", status |-> NoStatus ]
    [] OTHER -> [ how |-> "open", status |-> NoStatus ]

Outcome(s) ==
  CASE caller[s] = "ended"  -> [ how |-> "complete", status |-> NoStatus ]
    [] caller[s] = "raised" -> [ how |-> "failed", status |-> seen[s] ]
    [] caller[s] = "left"   -> [ how |-> "gone", status |-> NoStatus ]
    [] OTHER                -> [ how |-> "open", status |-> NoStatus ]

\* The statuses the two except layers can make of what an agent raises.
AgentStatuses ==
  { StatusFor(v, g, e) : v \in Versions, g \in BOOLEAN,
                         e \in Raised \cup { A2AError("UnsupportedOperationError") } }

Contract == INSTANCE StreamContract WITH
  Statuses  <- AgentStatuses,
  Transport <- TransportStatus,
  None      <- NoStatus,
  source    <- emitted,
  verdict   <- [s \in Streams |-> Verdict(s)],
  outcome   <- [s \in Streams |-> Outcome(s)]

\* Every behaviour of the two generators, handle, the sink and a session that
\* may be lost is one the abstract stream allows.
ImplementsContract == Contract!Spec

-----------------------------------------------------------------------------
(***************************************************************************)
(* Liveness, under FairSpec.  A task that was cancelled while its session  *)
(* lives leaves the stream without a closing message: that caller may wait *)
(* for ever, for it has no deadline.  Every other caller is answered.      *)
(***************************************************************************)
Silenced(s) == task[s] = "dead" /\ up[s]

\* Every consumer that opens a stream and stays in its loop is told how the
\* stream ended, unless the agent's task was cancelled under a live session.
Settles ==
  \A s \in Streams :
    caller[s] = "reading" ~>
      (caller[s] \in { "ended", "raised", "left" } \/ Silenced(s))

\* Every handle that started is left, whether the caller still reads or has
\* gone and whether the session lives or is lost.
HandleIsLeft ==
  \A s \in Streams : task[s] = "start" ~> task[s] \in { "done", "dead" }

=============================================================================
