----------------------------- MODULE UnaryCall -----------------------------
(***************************************************************************)
(* A unicast unary call from end to end: UnaryServer plus the coroutine    *)
(* that awaits SRPCTransport (or its v0.3 twin), the generated stub and    *)
(* call_unary_async.  There is no retry and no deadline anywhere on the    *)
(* way: a caller that wants one cancels the await.                         *)
(***************************************************************************)
EXTENDS UnaryServer

VARIABLES
  caller,    \* caller[s]: where the caller stands
  answer,    \* answer[s]: the result the await returned
  seen       \* seen[s]: the status of the RpcError it raised

clientVars == <<caller, answer, seen>>
vars == <<serverVars, clientVars>>

CallerStates == { "idle", "waiting", "answered", "raised", "left" }

Init ==
  /\ ServerInit
  /\ caller = [s \in Streams |-> "idle"]
  /\ answer = [s \in Streams |-> Blank]
  /\ seen   = [s \in Streams |-> NoStatus]

Call(s) ==
  /\ caller[s] = "idle"
  /\ \E r \in Called : route' = [route EXCEPT ![s] = r]
  /\ task'   = [task EXCEPT ![s] = "called"]
  /\ caller' = [caller EXCEPT ![s] = "waiting"]
  /\ UNCHANGED <<ran, thrown, guarded, reply, wire, up, answer, seen>>

Answered(s) ==
  /\ caller[s] = "waiting"
  /\ Closed(s) /\ Closing(s).kind = "end"
  /\ answer' = [answer EXCEPT ![s] = wire[s][1].event]
  /\ caller' = [caller EXCEPT ![s] = "answered"]
  /\ UNCHANGED <<serverVars, seen>>

\* A faulty variant: an error is no answer yet.
FailedIgnored(s) ==
  /\ caller[s] = "waiting"
  /\ Closed(s) /\ Closing(s).kind = "error"
  /\ UNCHANGED vars

Failed(s) ==
  /\ caller[s] = "waiting"
  /\ Closed(s) /\ Closing(s).kind = "error"
  /\ seen'   = [seen EXCEPT ![s] = Closing(s).status]
  /\ caller' = [caller EXCEPT ![s] = "raised"]
  /\ UNCHANGED <<serverVars, answer>>

\* The session is lost, and with it an answer in flight or not.
Lost(s) ==
  /\ caller[s] = "waiting"
  /\ ~up[s]
  /\ seen'   = [seen EXCEPT ![s] = TransportStatus]
  /\ caller' = [caller EXCEPT ![s] = "raised"]
  /\ UNCHANGED <<serverVars, answer>>

\* The await is cancelled (asyncio.wait_for); the agent is not told.
Leave(s) ==
  /\ caller[s] = "waiting"
  /\ caller' = [caller EXCEPT ![s] = "left"]
  /\ UNCHANGED <<serverVars, answer, seen>>

Await(s) == Answered(s) \/ Failed(s) \/ Lost(s)

Next ==
  \E s \in Streams :
    \/ Call(s) \/ Await(s) \/ Leave(s)
    \/ ServerStep(s) /\ UNCHANGED clientVars

Spec == Init /\ [][Next]_vars

\* asyncio runs a ready task, the await returns what is there, and the
\* request handler's operation ends.
Fairness ==
  \A s \in Streams :
    /\ WF_vars(TaskStep(s) /\ UNCHANGED clientVars)
    /\ WF_vars(Await(s))

FairSpec == Spec /\ Fairness

-----------------------------------------------------------------------------
TypeOK ==
  /\ ServerTypeOK
  /\ caller \in [Streams -> CallerStates]
  /\ answer \in [Streams -> Nat]
  /\ seen   \in [Streams -> Statuses]

\* What the caller was told is what the server put on the wire.
CallerFaithful(s) ==
  /\ caller[s] = "idle" <=> task[s] = "idle"
  /\ caller[s] = "answered" =>
       /\ Closed(s) /\ Closing(s).kind = "end"
       /\ answer[s] = wire[s][1].event
  /\ caller[s] = "raised" =>
       \/ seen[s] = TransportStatus /\ ~up[s]
       \/ /\ Closed(s) /\ Closing(s).kind = "error"
          /\ seen[s] = Closing(s).status

UnaryInv ==
  TypeOK /\ \A s \in Streams : ServerInv(s) /\ CallerFaithful(s)

-----------------------------------------------------------------------------
(***************************************************************************)
(* Safety properties.                                                      *)
(***************************************************************************)
\* An await that returns gives the result of an operation that was completed
\* once, never the blank message a servicer method makes up after its try
\* block, and nothing was raised on the way.
AnswerIsTheResult ==
  \A s \in Streams : caller[s] = "answered" =>
    answer[s] = Result /\ ran[s] = 1 /\ thrown[s].kind = "ok"

\* An A2AError raised inside the try block is told to its caller with the code
\* that a caller of the other protocol version would be told, although each
\* version has a code map of its own and looks types up exactly: a client may be
\* moved to the other transport and keep its error handling.  The types only
\* v1.0 has a code for are the exception.
SameCodeInBothVersions ==
  \A s \in Streams :
    /\ caller[s] = "raised" /\ seen[s] # TransportStatus
    /\ thrown[s].kind = "a2a" /\ guarded[s]
    /\ thrown[s].type \notin NewErrors
    => \A v \in Versions : seen[s].code = StatusFor(v, TRUE, thrown[s]).code

\* Only what the servicer does not catch is told as a bare INTERNAL, or what was
\* one already when a downstream agent answered with it: a caller that reads no
\* A2A error name knows that no A2AError of the operation, of the context
\* builder or of the resource name was raised.
BareInternal ==
  \A s \in Streams :
    /\ caller[s] = "raised" /\ seen[s] = InternalStatus
    => \/ thrown[s].kind = "py"
       \/ thrown[s] = RpcError(InternalStatus)
       \/ thrown[s].kind = "a2a" /\ ~guarded[s]
          /\ (Validated(route[s]) \/ Modifies(route[s]))

-----------------------------------------------------------------------------
Outcome(s) ==
  CASE caller[s] = "answered" -> [ how |-> "complete", status |-> NoStatus ]
    [] caller[s] = "raised"   -> [ how |-> "failed", status |-> seen[s] ]
    [] caller[s] = "left"     -> [ how |-> "gone", status |-> NoStatus ]
    [] OTHER                  -> [ how |-> "open", status |-> NoStatus ]

Contract == INSTANCE UnaryContract WITH
  Calls     <- Streams,
  Statuses  <- AgentStatuses,
  Transport <- TransportStatus,
  None      <- NoStatus,
  effect    <- ran,
  verdict   <- [s \in Streams |-> Verdict(s)],
  outcome   <- [s \in Streams |-> Outcome(s)]

\* Servicer, generated handler, session and stub together keep the abstract
\* promise, at-most-once included.
ImplementsContract == Contract!Spec

-----------------------------------------------------------------------------
Silenced(s) == task[s] = "dead" /\ up[s]

\* A caller that goes on waiting is told how its call ended, unless the
\* agent's task was cancelled under a live session.
CallSettles ==
  \A s \in Streams :
    caller[s] = "waiting" ~>
      (caller[s] \in { "answered", "raised", "left" } \/ Silenced(s))

=============================================================================
