-------------------------- MODULE UnaryServerProofs --------------------------
(***************************************************************************)
(* Proofs about the server side of unary calls, for every module that      *)
(* reads the answers: each of its steps keeps the types and ServerInv of   *)
(* its own call, and leaves every other call as it is.                     *)
(***************************************************************************)
EXTENDS UnaryServer, TLAPS

\* Whatever exception reaches the two except layers, they make a status of it.
LEMMA StatusForType ==
  ASSUME NEW v, NEW g \in BOOLEAN, NEW e \in Exceptions
  PROVE  StatusFor(v, g, e) \in Statuses
<1>1. /\ \A t \in DOMAIN SlimErrorCodeMap : SlimErrorCodeMap[t] \in Codes
      /\ \A t \in DOMAIN CompatSlimErrorCodeMap : CompatSlimErrorCodeMap[t] \in Codes
  BY DEF SlimErrorCodeMap, CompatSlimErrorCodeMap, Codes
<1>2. \A t \in ErrorTypes : SlimErrorCode(v, t) \in Codes
  BY <1>1 DEF SlimErrorCode, Codes
<1>3. \A t \in ErrorTypes : ReasonOf(t) \in Reasons
  BY DEF ReasonOf, Reasons
<1>4. \A t \in ErrorTypes : RaiseErrorResponse(v, t) \in Statuses
  BY <1>2, <1>3 DEF RaiseErrorResponse, Status, Statuses
<1>5. InternalStatus \in Statuses
  BY DEF InternalStatus, Status, Statuses, Codes
<1>6. CASE e.kind = "a2a"
  <2>1. e.type \in ErrorTypes
    BY <1>6 DEF Exceptions, PyException, NoException
  <2> QED
    BY <1>4, <1>5, <1>6, <2>1
       DEF StatusFor, ServicerCatch, GeneratedCatch, RpcError
<1>7. CASE e.kind # "a2a"
  <2>1. e.kind = "rpc" => e.status \in Statuses
    BY DEF Exceptions, PyException, NoException
  <2> QED
    BY <1>5, <1>7, <2>1 DEF StatusFor, ServicerCatch, GeneratedCatch
<1> QED
  BY <1>6, <1>7

LEMMA StatusTypes ==
  /\ NoStatus \in Statuses /\ TransportStatus \in Statuses
  /\ NoException \in Exceptions
BY DEF NoStatus, TransportStatus, Status, Statuses, Codes, Exceptions

LEMMA MessageTypes ==
  /\ EndMark \in Messages
  /\ \A n \in Nat : Data(n) \in Messages
  /\ \A st \in Statuses : ErrorOf(st) \in Messages
BY StatusTypes DEF EndMark, Data, ErrorOf, Messages

\* Everything an agent can raise is one of the exceptions, and none is "ok".
LEMMA RaisedByType ==
  ASSUME NEW types \in SUBSET ErrorTypes
  PROVE  /\ RaisedBy(types) \subseteq Exceptions
         /\ \A e \in RaisedBy(types) : e.kind # "ok"
<1>1. \A st \in Nested : RpcError(st) \in Exceptions /\ RpcError(st).kind # "ok"
  BY NestedAssumption DEF RpcError, Exceptions
<1>2. PyException \in Exceptions /\ PyException.kind # "ok"
  BY DEF PyException, Exceptions
<1>3. \A t \in ErrorTypes :
        A2AError(t) \in Exceptions /\ A2AError(t).kind # "ok"
  BY DEF A2AError, Exceptions
<1> QED
  BY <1>1, <1>2, <1>3 DEF RaisedBy

-----------------------------------------------------------------------------
\* What an agent or its servicer can raise are exceptions.
LEMMA AgentErrorType ==
  /\ AgentErrors \subseteq Exceptions
  /\ \A e \in AgentErrors : e.kind # "ok"
  /\ Raised \subseteq AgentErrors
  /\ \A t \in ServicerErrors : A2AError(t) \in AgentErrors
  /\ PyException \in AgentErrors
<1>1. Raisable \cup ServicerErrors \subseteq ErrorTypes
  BY UnaryServerAssumption DEF ServicerErrors, ErrorTypes, SlimErrorCodeMap
<1>2. /\ AgentErrors \subseteq Exceptions
      /\ \A e \in AgentErrors : e.kind # "ok"
  BY <1>1, RaisedByType DEF AgentErrors
<1> QED
  BY <1>2 DEF AgentErrors, Raised, RaisedBy

\* Every way by which an exception leaves the servicer's method, with what can
\* leave by it: outside the try block no A2AError but the validation's and the
\* card modifier's.
LEMMA ThrowSteps ==
  ASSUME NEW s \in Streams,
         \/ ValidateRejects(s) \/ NameRejected(s) \/ BuildRaises(s)
         \/ TaskAbsent(s) \/ OperationRaises(s) \/ ConversionRaises(s)
         \/ ModifierRaises(s)
  PROVE  \E e \in AgentErrors, inTry \in BOOLEAN :
           /\ Throw(s, e, inTry) /\ task[s] \in { "start", "run", "after" }
           /\ e.kind = "a2a" /\ ~inTry =>
                Validated(route[s]) \/ Modifies(route[s])
<1> USE AgentErrorType
<1>1. CASE ValidateRejects(s)
  <2>1. A2AError("UnsupportedOperationError") \in AgentErrors
    BY DEF ServicerErrors
  <2> QED
    BY <1>1, <2>1 DEF ValidateRejects
<1>2. CASE NameRejected(s)
  <2>1. A2AError("InvalidParamsError") \in AgentErrors
    BY DEF ServicerErrors
  <2> QED
    BY <1>2, <2>1 DEF NameRejected
<1>3. CASE BuildRaises(s) \/ OperationRaises(s)
  BY <1>3 DEF BuildRaises, OperationRaises
<1>4. CASE TaskAbsent(s)
  <2>1. A2AError("TaskNotFoundError") \in AgentErrors
    BY DEF ServicerErrors
  <2> QED
    BY <1>4, <2>1 DEF TaskAbsent
<1>5. CASE ConversionRaises(s)
  <2>1. HasTry(route[s]) \in BOOLEAN /\ PyException.kind # "a2a"
    BY DEF HasTry, PyException
  <2> QED
    BY <1>5, <2>1 DEF ConversionRaises
<1>6. CASE ModifierRaises(s)
  BY <1>6 DEF ModifierRaises
<1> QED
  BY <1>1, <1>2, <1>3, <1>4, <1>5, <1>6

\* The two answers as sequences of messages.
LEMMA AnswerTypes ==
  /\ Answer(Result) \in Seq(Messages)
  /\ Len(Answer(Result)) = 2 /\ Answer(Result) # << >>
  /\ Answer(Result)[1] = Data(Result) /\ Answer(Result)[2] = EndMark
  /\ \A st \in Statuses : << ErrorOf(st) >> \in Seq(Messages)
BY MessageTypes DEF Answer, Result

-----------------------------------------------------------------------------
LEMMA ServerInitType == ServerInit => ServerTypeOK
BY StatusTypes DEF ServerInit, ServerTypeOK, TaskStates

\* Every step of the agent, its server and the session keeps the types.
LEMMA ServerStepType ==
  ASSUME ServerTypeOK, NEW s \in Streams, ServerStep(s)
  PROVE  ServerTypeOK'
<1>1. CASE Accept(s) \/ Begin(s) \/ OperationReturns(s) \/ Cancel(s) \/ Drop(s)
  <2>1. CASE Accept(s) \/ Begin(s)
    BY <2>1 DEF ServerTypeOK, Accept, Begin, TaskStates
  <2>2. CASE OperationReturns(s)
    BY <2>2 DEF ServerTypeOK, OperationReturns, TaskStates
  <2>3. CASE Cancel(s) \/ Drop(s)
    BY <2>3 DEF ServerTypeOK, Cancel, Drop, TaskStates
  <2> QED
    BY <1>1, <2>1, <2>2, <2>3
<1>2. CASE \/ ValidateRejects(s) \/ NameRejected(s) \/ BuildRaises(s)
           \/ TaskAbsent(s) \/ OperationRaises(s) \/ ConversionRaises(s)
           \/ ModifierRaises(s)
  <2>1. PICK e \in Exceptions, inTry \in BOOLEAN : Throw(s, e, inTry)
    BY <1>2, ThrowSteps, AgentErrorType
  <2>2. << ErrorOf(StatusFor(route[s].version, inTry, e)) >> \in Seq(Messages)
    BY StatusForType, AnswerTypes
  <2> QED
    BY <2>1, <2>2 DEF ServerTypeOK, Throw, TaskStates
<1>3. CASE MethodReturns(s)
  BY <1>3, AnswerTypes DEF ServerTypeOK, MethodReturns, TaskStates
<1>4. CASE Respond(s)
  BY <1>4 DEF ServerTypeOK, Respond, TaskStates
<1> QED
  BY <1>1, <1>2, <1>3, <1>4 DEF ServerStep, TaskStep

-----------------------------------------------------------------------------
\* A call none of whose variables change keeps its invariant.
LEMMA ServerFrame ==
  ASSUME NEW t, ServerInv(t),
         route'[t] = route[t], task'[t] = task[t], ran'[t] = ran[t],
         thrown'[t] = thrown[t], guarded'[t] = guarded[t],
         reply'[t] = reply[t], wire'[t] = wire[t]
  PROVE  ServerInv(t)'
BY DEF ServerInv, ReplyFaithful, RaisedInPlace, ErrorStatus

\* Before any call there is nothing to keep.
LEMMA ServerInitInv ==
  ASSUME ServerInit, NEW s \in Streams
  PROVE  ServerInv(s) /\ ~Closed(s)
BY DEF ServerInit, ServerInv, ReplyFaithful, RaisedInPlace, NoException,
       Closed, IsClosed

\* An exception leaves the method: the answer is made of this very exception.
LEMMA ThrowInv ==
  ASSUME ServerIInv, NEW s \in Streams, NEW e \in AgentErrors,
         NEW inTry \in BOOLEAN, task[s] \in { "start", "run", "after" },
         e.kind = "a2a" /\ ~inTry => Validated(route[s]) \/ Modifies(route[s]),
         Throw(s, e, inTry)
  PROVE  ServerInv(s)'
<1>1. /\ task'[s] = "reply" /\ thrown'[s] = e /\ guarded'[s] = inTry
      /\ reply'[s] = << ErrorOf(StatusFor(route[s].version, inTry, e)) >>
      /\ route'[s] = route[s] /\ wire'[s] = wire[s]
  BY DEF Throw, ServerIInv, ServerTypeOK
<1>2. ServerInv(s) /\ e.kind # "ok"
  BY AgentErrorType DEF ServerIInv
<1>3. ErrorStatus(s)' = StatusFor(route[s].version, inTry, e)
  BY <1>1 DEF ErrorStatus
<1>4. ReplyFaithful(s)'
  BY <1>1, <1>2, <1>3 DEF ServerInv, ReplyFaithful
<1>5. RaisedInPlace(s)'
  BY <1>1, <1>2 DEF ServerInv, RaisedInPlace, AgentErrors
<1> QED
  BY <1>4, <1>5 DEF ServerInv

\* The steps that raise nothing.
LEMMA QuietTaskInv ==
  ASSUME ServerIInv, NEW s \in Streams,
         \/ Accept(s) \/ Begin(s) \/ OperationReturns(s) \/ MethodReturns(s)
         \/ Respond(s) \/ Cancel(s) \/ Drop(s)
  PROVE  ServerInv(s)'
<1> USE DEF ServerIInv, ServerTypeOK
<1>1. /\ thrown'[s] = thrown[s] /\ route'[s] = route[s]
      /\ guarded'[s] = guarded[s] /\ task[s] # "idle" /\ ServerInv(s)
  BY DEF Accept, Begin, OperationReturns, MethodReturns, Respond, Cancel, Drop
<1>2. RaisedInPlace(s)' /\ ErrorStatus(s)' = ErrorStatus(s)
  BY <1>1 DEF ServerInv, RaisedInPlace, ErrorStatus
<1>3. ReplyFaithful(s)'
  <2>1. CASE Accept(s) \/ Begin(s) \/ Cancel(s)
    BY <1>1, <2>1 DEF ServerInv, ReplyFaithful, Accept, Begin, Cancel
  <2>2. CASE OperationReturns(s)
    BY <1>1, <2>2 DEF ServerInv, ReplyFaithful, OperationReturns
  <2>3. CASE MethodReturns(s)
    BY <1>1, <2>3 DEF ServerInv, ReplyFaithful, MethodReturns
  <2>4. CASE Respond(s)
    BY <1>1, <1>2, <2>4 DEF ServerInv, ReplyFaithful, Respond
  <2>5. CASE Drop(s)
    BY <1>1, <1>2, <2>5 DEF ServerInv, ReplyFaithful, Drop
  <2> QED
    BY <2>1, <2>2, <2>3, <2>4, <2>5
<1> QED
  BY <1>2, <1>3 DEF ServerInv

\* Every step of the agent, its server and the session.
LEMMA ServerStepInv ==
  ASSUME ServerIInv, NEW s \in Streams, ServerStep(s)
  PROVE  ServerInv(s)'
<1>1. CASE \/ ValidateRejects(s) \/ NameRejected(s) \/ BuildRaises(s)
           \/ TaskAbsent(s) \/ OperationRaises(s) \/ ConversionRaises(s)
           \/ ModifierRaises(s)
  BY <1>1, ThrowSteps, ThrowInv
<1>2. CASE \/ Accept(s) \/ Begin(s) \/ OperationReturns(s) \/ MethodReturns(s)
           \/ Respond(s) \/ Cancel(s) \/ Drop(s)
  BY <1>2, QuietTaskInv
<1> QED
  BY <1>1, <1>2 DEF ServerStep, TaskStep

-----------------------------------------------------------------------------
\* A step of one call leaves every other call as it was.
LEMMA ServerStepIsLocal ==
  ASSUME ServerTypeOK, NEW s \in Streams, NEW t \in Streams \ { s },
         ServerStep(s)
  PROVE  /\ route'[t] = route[t] /\ task'[t] = task[t] /\ ran'[t] = ran[t]
         /\ thrown'[t] = thrown[t] /\ guarded'[t] = guarded[t]
         /\ reply'[t] = reply[t] /\ wire'[t] = wire[t] /\ up'[t] = up[t]
<1> USE DEF ServerTypeOK
<1>1. CASE Accept(s) \/ Begin(s) \/ OperationReturns(s) \/ Cancel(s) \/ Drop(s)
  BY <1>1 DEF Accept, Begin, OperationReturns, Cancel, Drop
<1>2. CASE \/ ValidateRejects(s) \/ NameRejected(s) \/ BuildRaises(s)
           \/ TaskAbsent(s) \/ OperationRaises(s) \/ ConversionRaises(s)
           \/ ModifierRaises(s)
  BY <1>2, ThrowSteps DEF Throw
<1>3. CASE MethodReturns(s) \/ Respond(s)
  BY <1>3 DEF MethodReturns, Respond
<1> QED
  BY <1>1, <1>2, <1>3 DEF ServerStep, TaskStep

\* What has been put on a wire, as a reader of it sees it.
LEMMA WireValues ==
  ASSUME ServerTypeOK, NEW s \in Streams, ServerInv(s)
  PROVE  /\ WireInOrder(s)
         /\ wire[s] # << >> => Closed(s) /\ task[s] = "done"
         /\ Closed(s) => wire[s] # << >>
         /\ Closed(s) /\ thrown[s].kind = "ok" =>
              /\ wire[s] = Answer(Result) /\ Len(wire[s]) = 2
              /\ Closing(s).kind = "end" /\ ran[s] = 1
              /\ wire[s][1].kind = "data" /\ wire[s][1].event = Result
         /\ Closed(s) /\ thrown[s].kind # "ok" =>
              /\ wire[s] = << ErrorOf(ErrorStatus(s)) >> /\ Len(wire[s]) = 1
              /\ Closing(s).kind = "error"
              /\ Closing(s).status = ErrorStatus(s)
<1>1. CASE wire[s] = << >>
  BY <1>1 DEF WireInOrder, Closed, IsClosed
<1>2. CASE wire[s] # << >> /\ thrown[s].kind = "ok"
  <2>1. wire[s] = Answer(Result) /\ ran[s] = 1 /\ task[s] = "done"
    BY <1>2 DEF ServerInv, ReplyFaithful
  <2>2. /\ Len(wire[s]) = 2 /\ DOMAIN wire[s] = 1 .. 2
        /\ wire[s][1] = Data(Result) /\ wire[s][2] = EndMark
    BY <2>1, AnswerTypes
  <2>3. /\ wire[s][1].kind = "data" /\ wire[s][1].event = 1
        /\ wire[s][2].kind = "end"
    BY <2>2 DEF Data, EndMark, Result
  <2>4. WireInOrder(s)
    BY <2>2, <2>3 DEF WireInOrder
  <2>5. Closed(s) /\ Closing(s).kind = "end"
    BY <1>2, <2>2, <2>3 DEF Closed, IsClosed, Closing, LastOf
  <2> QED
    BY <1>2, <2>1, <2>2, <2>3, <2>4, <2>5 DEF Result
<1>3. CASE wire[s] # << >> /\ thrown[s].kind # "ok"
  <2>1. wire[s] = << ErrorOf(ErrorStatus(s)) >> /\ task[s] = "done"
    BY <1>3 DEF ServerInv, ReplyFaithful
  <2>2. /\ Len(wire[s]) = 1 /\ DOMAIN wire[s] = 1 .. 1
        /\ wire[s][1] = ErrorOf(ErrorStatus(s))
    BY <2>1
  <2> QED
    BY <1>3, <2>1, <2>2
       DEF WireInOrder, Closed, IsClosed, Closing, LastOf, ErrorOf
<1> QED
  BY <1>1, <1>2, <1>3

\* What a reader of the wire may count on while the server steps: an answer
\* that was put stays, and a lost session stays lost.
LEMMA ServerStepGrows ==
  ASSUME ServerIInv, NEW s \in Streams, ServerStep(s)
  PROVE  /\ task[s] # "idle" /\ task'[s] # "idle"
         /\ up'[s] => up[s]
         /\ wire[s] # << >> => UNCHANGED <<wire, ran, route, thrown, guarded>>
         /\ wire'[s] = wire[s] \/ Respond(s)
<1> USE DEF ServerIInv, ServerTypeOK
<1>1. ServerInv(s)
  OBVIOUS
<1>2. wire[s] # << >> => task[s] = "done"
  BY <1>1 DEF ServerInv, ReplyFaithful
<1>3. CASE Accept(s) \/ Begin(s) \/ OperationReturns(s) \/ Cancel(s)
  BY <1>2, <1>3 DEF Accept, Begin, OperationReturns, Cancel
<1>4. CASE \/ ValidateRejects(s) \/ NameRejected(s) \/ BuildRaises(s)
           \/ TaskAbsent(s) \/ OperationRaises(s) \/ ConversionRaises(s)
           \/ ModifierRaises(s)
  BY <1>2, <1>4, ThrowSteps DEF Throw
<1>5. CASE MethodReturns(s) \/ Respond(s) \/ Drop(s)
  BY <1>2, <1>5 DEF MethodReturns, Respond, Drop
<1> QED
  BY <1>3, <1>4, <1>5 DEF ServerStep, TaskStep

=============================================================================
