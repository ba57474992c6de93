---------------------------- MODULE UnaryServer ----------------------------
(***************************************************************************)
(* The server side of a unary call: the asyncio task that runs the         *)
(* generated UnaryUnaryHandler.handle, which awaits the servicer's method; *)
(* that awaits the request handler's operation.  handle returns the answer *)
(* or raises an RpcError, and the bindings put it on the session.  Both    *)
(* protocol versions and all their unary methods are here; they differ in  *)
(* what runs before and after the operation and inside which try block.    *)
(*                                                                         *)
(* An answer is Data(Result) and an end mark when it carries what the      *)
(* operation returned; Data(Blank) would be the message a method makes up  *)
(* after its try block.                                                    *)
(***************************************************************************)
EXTENDS SlimRpc

CONSTANTS
  Called,       \* the routes called in a behaviour
  Notifying,    \* the calls to an agent with capabilities.push_notifications
  Raisable      \* the A2AError types raised in a behaviour

VARIABLES
  route,     \* route[s]: the servicer method the call addresses
  task,      \* task[s]: where the asyncio task that runs handle stands
  ran,       \* ran[s]: times the operation behind the method was completed
  thrown,    \* thrown[s]: the exception that ended the servicer's method
  guarded,   \* guarded[s]: it rose inside the method's try block
  reply      \* reply[s]: what handle is about to return, as messages

serverVars == <<route, task, ran, thrown, guarded, reply, wire, up>>

PushMethods ==
  { "CreateTaskPushNotificationConfig", "GetTaskPushNotificationConfig",
    "ListTaskPushNotificationConfigs", "DeleteTaskPushNotificationConfig" }

Route(version, method) == [ version |-> version, method |-> method ]

NoRoute == Route("none", "none")

\* v0.3 spells ListTaskPushNotificationConfigs in the singular.
Routes ==
  { Route("v1", m) : m \in { "SendMessage", "GetTask", "CancelTask", "ListTasks",
                             "GetExtendedAgentCard" } \cup PushMethods } \cup
  { Route("v03", m) : m \in { "SendMessage", "GetTask", "CancelTask",
                              "GetAgentCard" } \cup PushMethods }

ASSUME UnaryServerAssumption ==
  /\ Called \subseteq Routes
  /\ Notifying \subseteq Streams
  /\ Raisable \subseteq ErrorTypes

\* idle    no call yet               after  its result is being made an answer
\* called  handle not yet scheduled  reply  handle returns or raises
\* start   before the operation      done   the call is over at the server
\* run     the operation             dead   handle was cancelled
TaskStates ==
  { "idle", "called", "start", "run", "after", "reply", "done", "dead" }

Validated(r) == r = Route("v1", "CreateTaskPushNotificationConfig")

\* GetAgentCard of v0.3 has no try block and builds no context.
HasTry(r) == r.method # "GetAgentCard"

\* The methods that parse a resource name before the operation.
ParsesName(r) ==
  r.version = "v03" /\
  r.method \in PushMethods \ { "CreateTaskPushNotificationConfig" }

\* `if task: return task' / `raise_error_response(TaskNotFoundError())'.
ChecksTask(r) == r.version = "v1" /\ r.method \in { "GetTask", "CancelTask" }

\* card_modifier runs after, or without, a try block.
Modifies(r) == r.method \in { "GetExtendedAgentCard", "GetAgentCard" }

Raised == RaisedBy(Raisable)

\* The A2AErrors the servicers raise themselves.
ServicerErrors ==
  { "UnsupportedOperationError", "InvalidParamsError", "TaskNotFoundError" }

AgentErrors == RaisedBy(Raisable \cup ServicerErrors)

Result == 1
Blank  == 0
Answer(event) == << Data(event), EndMark >>

ServerInit ==
  /\ route   = [s \in Streams |-> NoRoute]
  /\ task    = [s \in Streams |-> "idle"]
  /\ ran     = [s \in Streams |-> 0]
  /\ thrown  = [s \in Streams |-> NoException]
  /\ guarded = [s \in Streams |-> FALSE]
  /\ reply   = [s \in Streams |-> << >>]
  /\ wire    = [s \in Streams |-> << >>]
  /\ up      = [s \in Streams |-> TRUE]

-----------------------------------------------------------------------------
Accept(s) ==
  /\ task[s] = "called"
  /\ up[s]
  /\ task' = [task EXCEPT ![s] = "start"]
  /\ UNCHANGED <<route, ran, thrown, guarded, reply, wire, up>>

\* A faulty variant: raise_error_response reports the error and returns, so
\* that the method goes on to the blank message after its try block.
ThrowFallsThrough(s, e, inTry) ==
  /\ thrown'  = [thrown EXCEPT ![s] = e]
  /\ guarded' = [guarded EXCEPT ![s] = inTry]
  /\ reply'   = [reply EXCEPT ![s] =
                   IF inTry /\ e.kind = "a2a" THEN Answer(Blank)
                   ELSE << ErrorOf(StatusFor(route[s].version, inTry, e)) >>]
  /\ task'    = [task EXCEPT ![s] = "reply"]
  /\ UNCHANGED <<route, ran, wire, up>>

\* A faulty variant: handle's catch-all stands before its `except RpcError'.
ThrowSwapped(s, e, inTry) ==
  /\ thrown'  = [thrown EXCEPT ![s] = e]
  /\ guarded' = [guarded EXCEPT ![s] = inTry]
  /\ reply'   = [reply EXCEPT ![s] = << ErrorOf(InternalStatus) >>]
  /\ task'    = [task EXCEPT ![s] = "reply"]
  /\ UNCHANGED <<route, ran, wire, up>>

\* An exception leaves the method; raise_error_response and handle's two
\* clauses, all of which raise, make an RpcError of it.
Throw(s, e, inTry) ==
  /\ thrown'  = [thrown EXCEPT ![s] = e]
  /\ guarded' = [guarded EXCEPT ![s] = inTry]
  /\ reply'   = [reply EXCEPT ![s] =
                   << ErrorOf(StatusFor(route[s].version, inTry, e)) >>]
  /\ task'    = [task EXCEPT ![s] = "reply"]
  /\ UNCHANGED <<route, ran, wire, up>>

ValidateRejects(s) ==
  /\ task[s] = "start"
  /\ Validated(route[s])
  /\ s \notin Notifying
  /\ Throw(s, A2AError("UnsupportedOperationError"), FALSE)

\* A faulty variant: the name is parsed before the try block.
NameRejectedBeforeTry(s) ==
  /\ task[s] = "start"
  /\ ParsesName(route[s])
  /\ Throw(s, A2AError("InvalidParamsError"), FALSE)

\* _extract_task_id and _extract_task_and_config_id find no match.
NameRejected(s) ==
  /\ task[s] = "start"
  /\ ParsesName(route[s])
  /\ Throw(s, A2AError("InvalidParamsError"), TRUE)

\* context_builder.build, or for v0.3 the conversion of the request, raises.
BuildRaises(s) ==
  /\ task[s] = "start"
  /\ HasTry(route[s])
  /\ Validated(route[s]) => s \in Notifying
  /\ \E e \in Raised : Throw(s, e, TRUE)

Begin(s) ==
  /\ task[s] = "start"
  /\ Validated(route[s]) => s \in Notifying
  /\ task' = [task EXCEPT ![s] = "run"]
  /\ UNCHANGED <<route, ran, thrown, guarded, reply, wire, up>>

\* The operation of the request handler; for GetAgentCard, reading the card.
OperationReturns(s) ==
  /\ task[s] = "run"
  /\ ran'  = [ran EXCEPT ![s] = @ + 1]
  /\ task' = [task EXCEPT ![s] = "after"]
  /\ UNCHANGED <<route, thrown, guarded, reply, wire, up>>

\* on_get_task and on_cancel_task may return None.
TaskAbsent(s) ==
  /\ task[s] = "run"
  /\ ChecksTask(route[s])
  /\ Throw(s, A2AError("TaskNotFoundError"), TRUE)

OperationRaises(s) ==
  /\ task[s] = "run"
  /\ HasTry(route[s])
  /\ \E e \in Raised : Throw(s, e, TRUE)

\* The result cannot be made the method's response type.
ConversionRaises(s) ==
  /\ task[s] = "after"
  /\ Throw(s, PyException, HasTry(route[s]))

ModifierRaises(s) ==
  /\ task[s] = "after"
  /\ Modifies(route[s])
  /\ \E e \in Raised : Throw(s, e, FALSE)

MethodReturns(s) ==
  /\ task[s] = "after"
  /\ reply' = [reply EXCEPT ![s] = Answer(Result)]
  /\ task'  = [task EXCEPT ![s] = "reply"]
  /\ UNCHANGED <<route, ran, thrown, guarded, wire, up>>

\* The bindings put the answer on the session, if it still lives.
Respond(s) ==
  /\ task[s] = "reply"
  /\ wire' = [wire EXCEPT ![s] = IF up[s] THEN reply[s] ELSE @]
  /\ task' = [task EXCEPT ![s] = "done"]
  /\ UNCHANGED <<route, ran, thrown, guarded, reply, up>>

\* A faulty variant: a cancelled method still answers.
CancelAnswers(s) ==
  /\ task[s] \in { "start", "run" }
  /\ task' = [task EXCEPT ![s] = "after"]
  /\ UNCHANGED <<route, ran, thrown, guarded, reply, wire, up>>

\* CancelledError at an await of the method: no clause catches it.
Cancel(s) ==
  /\ task[s] \in { "start", "run" }
  /\ task' = [task EXCEPT ![s] = "dead"]
  /\ UNCHANGED <<route, ran, thrown, guarded, reply, wire, up>>

Drop(s) ==
  /\ task[s] # "idle"
  /\ up[s]
  /\ up' = [up EXCEPT ![s] = FALSE]
  /\ UNCHANGED <<route, task, ran, thrown, guarded, reply, wire>>

TaskStep(s) ==
  \/ Accept(s)
  \/ ValidateRejects(s) \/ NameRejected(s) \/ BuildRaises(s) \/ Begin(s)
  \/ OperationReturns(s) \/ TaskAbsent(s) \/ OperationRaises(s)
  \/ ConversionRaises(s) \/ ModifierRaises(s) \/ MethodReturns(s)
  \/ Respond(s)

ServerStep(s) == TaskStep(s) \/ Cancel(s) \/ Drop(s)

-----------------------------------------------------------------------------
ServerTypeOK ==
  /\ route   \in [Streams -> Routes \cup { NoRoute }]
  /\ task    \in [Streams -> TaskStates]
  /\ ran     \in [Streams -> Nat]
  /\ thrown  \in [Streams -> Exceptions]
  /\ guarded \in [Streams -> BOOLEAN]
  /\ reply   \in [Streams -> Seq(Messages)]
  /\ wire    \in [Streams -> Seq(Messages)]
  /\ up      \in [Streams -> BOOLEAN]

\* The status the method's exception is answered with.
ErrorStatus(s) == StatusFor(route[s].version, guarded[s], thrown[s])

\* What handle is about to return, or the bindings have put, tells how the
\* method ended; a result is the one of a completed operation.
ReplyFaithful(s) ==
  /\ task[s] \in { "idle", "called", "start", "run", "after" } =>
       thrown[s].kind = "ok" /\ reply[s] = << >>
  /\ task[s] \in { "idle", "called", "start", "run" } => ran[s] = 0
  /\ task[s] = "after" => ran[s] = 1
  /\ task[s] \in { "reply", "done" } =>
       IF thrown[s].kind = "ok"
       THEN ran[s] = 1 /\ reply[s] = Answer(Result)
       ELSE reply[s] = << ErrorOf(ErrorStatus(s)) >>
  /\ wire[s] # << >> => task[s] = "done" /\ wire[s] = reply[s]

\* Only the steps outside the try block let an A2AError through to handle.
RaisedInPlace(s) ==
  /\ task[s] # "idle" => route[s] \in Called
  /\ thrown[s] \in AgentErrors \cup { NoException }
  /\ thrown[s].kind = "a2a" /\ ~guarded[s] =>
       Validated(route[s]) \/ Modifies(route[s])

ServerInv(s) == ReplyFaithful(s) /\ RaisedInPlace(s)

ServerIInv == ServerTypeOK /\ \A s \in Streams : ServerInv(s)

\* How the operation ended, and the statuses it can fail with, for the
\* refinement mappings.
Verdict(s) ==
  CASE thrown[s].kind # "ok" -> [ how |-> "failed", status |-> ErrorStatus(s) ]
    [] thrown[s].kind = "ok" /\ reply[s] # << >> ->
         [ how |-> "complete", status |-> NoStatus ]
    [] OTHER -> [ how |-> "open", status |-> NoStatus ]

AgentStatuses ==
  { StatusFor(v, g, e) : v \in Versions, g \in BOOLEAN, e \in AgentErrors }

=============================================================================
