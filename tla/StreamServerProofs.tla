------------------------- MODULE StreamServerProofs -------------------------
(***************************************************************************)
(* Proofs about the server side of streaming calls, for every module that  *)
(* reads what it puts on the wire: each of its steps keeps the types and   *)
(* ServerInv of its own stream, and leaves every other stream as it is.    *)
(***************************************************************************)
EXTENDS StreamServer, TLAPS

\* Whatever exception reaches the two except layers, they make a status of it.
LEMMA StatusForType ==
  ASSUME NEW v, NEW g \in BOOLEAN, NEW e \in Exceptions
  PROVE  StatusFor(v, g, e) \in Statuses
<1>1. /\ \A t \in DOMAIN SlimErrorCodeMap : SlimErrorCodeMap[t] \in Codes
      /\ \A t \in DOMAIN CompatSlimErrorCodeMap : CompatSlimErrorCodeMap[t] \in Codes
  BY DEF SlimErrorCodeMap, CompatSlimErrorCodeMap, Codes
<1>2. \A t \in ErrorTypes : SlimErrorCode(v, t) \in Codes
  BY <1>1 DEF SlimErrorCode, Codes
<1>3. \A t \in ErrorTypes : ReasonOf(t) \in Reasons
  BY DEF ReasonOf, Reasons
<1>4. \A t \in ErrorTypes : RaiseErrorResponse(v, t) \in Statuses
  BY <1>2, <1>3 DEF RaiseErrorResponse, Status, Statuses
<1>5. InternalStatus \in Statuses
  BY DEF InternalStatus, Status, Statuses, Codes
<1>6. CASE e.kind = "a2a"
  <2>1. e.type \in ErrorTypes
    BY <1>6 DEF Exceptions, PyException, NoException
  <2> QED
    BY <1>4, <1>5, <1>6, <2>1
       DEF StatusFor, ServicerCatch, GeneratedCatch, RpcError
<1>7. CASE e.kind # "a2a"
  <2>1. e.kind = "rpc" => e.status \in Statuses
    BY DEF Exceptions, PyException, NoException
  <2> QED
    BY <1>5, <1>7, <2>1 DEF StatusFor, ServicerCatch, GeneratedCatch
<1> QED
  BY <1>6, <1>7

LEMMA StatusTypes ==
  /\ NoStatus \in Statuses /\ TransportStatus \in Statuses
  /\ NoException \in Exceptions
BY DEF NoStatus, TransportStatus, Status, Statuses, Codes, Exceptions

LEMMA MessageTypes ==
  /\ EndMark \in Messages
  /\ \A n \in Nat : Data(n) \in Messages
  /\ \A st \in Statuses : ErrorOf(st) \in Messages
BY StatusTypes DEF EndMark, Data, ErrorOf, Messages

\* Everything an agent can raise is one of the exceptions, and none is "ok".
LEMMA RaisedByType ==
  ASSUME NEW types \in SUBSET ErrorTypes
  PROVE  /\ RaisedBy(types) \subseteq Exceptions
         /\ \A e \in RaisedBy(types) : e.kind # "ok"
<1>1. \A st \in Nested : RpcError(st) \in Exceptions /\ RpcError(st).kind # "ok"
  BY NestedAssumption DEF RpcError, Exceptions
<1>2. PyException \in Exceptions /\ PyException.kind # "ok"
  BY DEF PyException, Exceptions
<1>3. \A t \in ErrorTypes :
        A2AError(t) \in Exceptions /\ A2AError(t).kind # "ok"
  BY DEF A2AError, Exceptions
<1> QED
  BY <1>1, <1>2, <1>3 DEF RaisedBy

-----------------------------------------------------------------------------
\* What the server's code can raise, and the decorator's own error.
LEMMA RaisedType ==
  /\ Raised \subseteq Exceptions
  /\ \A e \in Raised : e.kind # "ok"
  /\ A2AError("UnsupportedOperationError") \in Exceptions
  /\ A2AError("UnsupportedOperationError").kind # "ok"
<1>1. Raised \subseteq Exceptions /\ \A e \in Raised : e.kind # "ok"
  BY StreamServerAssumption, RaisedByType DEF Raised
<1>2. "UnsupportedOperationError" \in ErrorTypes
  BY DEF ErrorTypes, SlimErrorCodeMap
<1> QED
  BY <1>1, <1>2 DEF A2AError, Exceptions

\* The exits of the servicer's generator by an exception keep the types.
LEMMA ThrowType ==
  ASSUME ServerTypeOK, NEW s \in Streams, NEW e \in Exceptions,
         NEW inTry \in BOOLEAN, Throw(s, e, inTry)
  PROVE  ServerTypeOK'
<1>1. StatusFor(VersionOf(route[s]), inTry, e) \in Statuses
  BY StatusForType
<1> QED
  BY <1>1 DEF ServerTypeOK, Throw, TaskStates

\* So does an operation on the sink.
LEMMA SinkOpType ==
  ASSUME ServerTypeOK, NEW s \in Streams, NEW from, NEW m \in Messages,
         NEW next \in TaskStates, SinkOp(s, from, m, next)
  PROVE  ServerTypeOK'
<1>1. Append(wire[s], m) \in Seq(Messages)
  BY DEF ServerTypeOK
<1> QED
  BY <1>1 DEF ServerTypeOK, SinkOp

LEMMA ServerInitType == ServerInit => ServerTypeOK
BY StatusTypes DEF ServerInit, ServerTypeOK, TaskStates

\* Every step of the agent, its server and the session keeps the types.
LEMMA ServerStepType ==
  ASSUME ServerTypeOK, NEW s \in Streams, ServerStep(s)
  PROVE  ServerTypeOK'
<1>1. CASE Accept(s) \/ Begin(s) \/ Return(s)
  BY <1>1 DEF ServerTypeOK, Accept, Begin, Return, TaskStates
<1>2. CASE ValidateRejects(s) \/ BuildRaises(s) \/ HandlerRaises(s)
  <2>1. PICK e \in Exceptions, inTry \in BOOLEAN : Throw(s, e, inTry)
    BY <1>2, RaisedType
       DEF ValidateRejects, BuildRaises, HandlerRaises, BuildsInsideTry
  <2> QED
    BY <2>1, ThrowType
<1>3. CASE Send(s) \/ Close(s) \/ SendError(s)
  <2>1. emitted[s] \in Nat /\ pending[s] \in Statuses
    BY DEF ServerTypeOK
  <2>2. PICK from \in { "send", "close", "fail" }, m \in Messages,
             next \in TaskStates : SinkOp(s, from, m, next)
    BY <1>3, <2>1, MessageTypes DEF Send, Close, SendError, TaskStates
  <2> QED
    BY <2>2, SinkOpType
<1>4. CASE SinkRaises(s)
  BY <1>4, StatusTypes DEF ServerTypeOK, SinkRaises, TaskStates
<1>5. CASE SendErrorRaises(s) \/ Cancel(s) \/ Drop(s)
  BY <1>5 DEF ServerTypeOK, SendErrorRaises, Cancel, Drop, TaskStates
<1>6. CASE Yield(s)
  BY <1>6 DEF ServerTypeOK, Yield, TaskStates
<1> QED
  BY <1>1, <1>2, <1>3, <1>4, <1>5, <1>6 DEF ServerStep, TaskStep

-----------------------------------------------------------------------------
\* A stream none of whose variables change keeps its invariant.
LEMMA ServerFrame ==
  ASSUME NEW t, ServerInv(t),
         route'[t] = route[t], task'[t] = task[t], emitted'[t] = emitted[t],
         thrown'[t] = thrown[t], guarded'[t] = guarded[t],
         pending'[t] = pending[t], wire'[t] = wire[t], up'[t] = up[t]
  PROVE  ServerInv(t)'
BY DEF ServerInv, WireInOrder, LockStep, ClosingFaithful, PendingFaithful,
       Closed, IsClosed, Closing, LastOf, Answer

\* Before any call there is nothing to keep.
LEMMA ServerInitInv ==
  ASSUME ServerInit, NEW s \in Streams
  PROVE  ServerInv(s) /\ ~Closed(s)
<1>1. wire[s] = << >> /\ Len(<< >>) = 0
  BY DEF ServerInit
<1> QED
  BY <1>1 DEF ServerInit, ServerInv, WireInOrder, LockStep, NoException,
    ClosingFaithful, PendingFaithful, Closed, IsClosed

\* The servicer's generator raises: nothing has closed the stream yet and the
\* pending status is made of this very exception.
LEMMA ThrowInv ==
  ASSUME ServerIInv, NEW s \in Streams, NEW e \in Exceptions, e.kind # "ok",
         NEW inTry \in BOOLEAN, task[s] \in { "start", "pull" },
         Throw(s, e, inTry)
  PROVE  ServerInv(s)'
<1> USE DEF ServerIInv, ServerTypeOK
<1>1. /\ task'[s] = "fail" /\ thrown'[s] = e /\ guarded'[s] = inTry
      /\ pending'[s] = StatusFor(VersionOf(route[s]), inTry, e)
      /\ route'[s] = route[s] /\ emitted'[s] = emitted[s]
      /\ wire'[s] = wire[s] /\ up'[s] = up[s]
  BY DEF Throw
<1>2. ServerInv(s) /\ ~Closed(s) /\ emitted[s] = Len(wire[s])
  BY DEF ServerInv, LockStep
<1>3. WireInOrder(s)'
  BY <1>1, <1>2 DEF ServerInv, WireInOrder
<1>4. ~Closed(s)'
  BY <1>1, <1>2 DEF Closed, IsClosed
<1>5. LockStep(s)'
  BY <1>1, <1>2, <1>4 DEF ServerInv, LockStep
<1>6. ClosingFaithful(s)'
  BY <1>4 DEF ClosingFaithful
<1>7. PendingFaithful(s)'
  BY <1>1, <1>2, <1>4 DEF PendingFaithful, Answer
<1> QED
  BY <1>3, <1>5, <1>6, <1>7 DEF ServerInv

\* The sink takes a message at the end of the stream.
LEMMA SinkOpFacts ==
  ASSUME ServerIInv, NEW s \in Streams, NEW from, NEW m \in Messages, NEW next,
         SinkOp(s, from, m, next)
  PROVE  /\ task'[s] = next /\ wire'[s] = Append(wire[s], m)
         /\ Len(wire'[s]) = Len(wire[s]) + 1
         /\ wire'[s][Len(wire'[s])] = m
         /\ \A k \in 1 .. Len(wire[s]) : wire'[s][k] = wire[s][k]
         /\ DOMAIN wire'[s] = 1 .. Len(wire[s]) + 1
         /\ Len(wire[s]) \in Nat
         /\ wire'[s] # << >>
         /\ route'[s] = route[s] /\ emitted'[s] = emitted[s]
         /\ thrown'[s] = thrown[s] /\ guarded'[s] = guarded[s]
         /\ pending'[s] = pending[s] /\ up'[s] = up[s] /\ up[s]
<1>1. wire[s] \in Seq(Messages)
  BY DEF ServerIInv, ServerTypeOK
<1>2. task'[s] = next /\ wire'[s] = Append(wire[s], m)
  BY DEF ServerIInv, ServerTypeOK, SinkOp
<1>3. /\ Len(wire'[s]) = Len(wire[s]) + 1
      /\ wire'[s][Len(wire'[s])] = m
      /\ \A k \in 1 .. Len(wire[s]) : wire'[s][k] = wire[s][k]
      /\ DOMAIN wire'[s] = 1 .. Len(wire[s]) + 1
      /\ Len(wire[s]) \in Nat
      /\ wire'[s] # << >>
  BY <1>1, <1>2
<1> QED
  BY <1>2, <1>3 DEF SinkOp

\* An event is sent: the wire grows by the event the generator yielded last.
LEMMA SendInv ==
  ASSUME ServerIInv, NEW s \in Streams, Send(s)
  PROVE  ServerInv(s)'
<1>1. PICK m \in Messages :
        /\ SinkOp(s, "send", m, "pull")
        /\ m.kind = "data" /\ m.event = emitted[s]
  <2>1. emitted[s] \in Nat
    BY DEF ServerIInv, ServerTypeOK
  <2>2. /\ Data(emitted[s]) \in Messages /\ Data(emitted[s]).kind = "data"
        /\ Data(emitted[s]).event = emitted[s]
    BY <2>1, MessageTypes DEF Data
  <2> QED
    BY <2>2 DEF Send
<1>2. task[s] = "send"
  BY DEF Send, SinkOp
<1>3. /\ task'[s] = "pull" /\ Len(wire'[s]) = Len(wire[s]) + 1
      /\ wire'[s][Len(wire'[s])] = m
      /\ \A k \in 1 .. Len(wire[s]) : wire'[s][k] = wire[s][k]
      /\ DOMAIN wire'[s] = 1 .. Len(wire[s]) + 1
      /\ Len(wire[s]) \in Nat /\ wire'[s] # << >>
      /\ emitted'[s] = emitted[s] /\ thrown'[s] = thrown[s]
      /\ up'[s] = up[s]
  BY <1>1, <1>2, SinkOpFacts
<1>4. ServerInv(s) /\ DOMAIN wire[s] = 1 .. Len(wire[s])
  BY DEF ServerIInv, ServerTypeOK
<1>5. ~Closed(s) /\ ~Closed(s)' /\ Len(wire[s]) + 1 = emitted[s]
  BY <1>1, <1>2, <1>3, <1>4 DEF ServerInv, LockStep, Closed, IsClosed
<1>6. \A k \in DOMAIN wire[s] : wire[s][k].kind = "data"
  BY <1>4, <1>5 DEF ServerInv, WireInOrder, Closed, IsClosed
<1>7. WireInOrder(s)'
  <2> SUFFICES ASSUME NEW k \in 1 .. Len(wire[s]) + 1
               PROVE  wire'[s][k].kind = "data" /\ wire'[s][k].event = k
    BY <1>3 DEF WireInOrder
  <2>1. CASE k \in 1 .. Len(wire[s])
    BY <1>3, <1>4, <1>6, <2>1 DEF ServerInv, WireInOrder
  <2>2. CASE k = Len(wire[s]) + 1
    BY <1>1, <1>3, <1>5, <2>2
  <2> QED
    BY <1>3, <2>1, <2>2
<1>8. LockStep(s)'
  BY <1>3, <1>4, <1>5 DEF ServerInv, LockStep
<1>9. ClosingFaithful(s)' /\ PendingFaithful(s)'
  BY <1>2, <1>3, <1>4, <1>5 DEF ServerInv, ClosingFaithful, PendingFaithful
<1> QED
  BY <1>7, <1>8, <1>9 DEF ServerInv

\* The stream is closed, by an end mark or by the pending error.
LEMMA ClosingInv ==
  ASSUME ServerIInv, NEW s \in Streams, Close(s) \/ SendError(s)
  PROVE  ServerInv(s)'
<1>1. PICK from \in { "close", "fail" }, m \in Messages :
        /\ SinkOp(s, from, m, "done") /\ task[s] = from
        /\ \/ from = "close" /\ m.kind = "end"
           \/ from = "fail" /\ m.kind = "error" /\ m.status = pending[s]
  <2>1. CASE Close(s)
    <3>1. EndMark \in Messages /\ EndMark.kind = "end"
      BY MessageTypes DEF EndMark
    <3>2. SinkOp(s, "close", EndMark, "done") /\ task[s] = "close"
      BY <2>1 DEF Close, SinkOp
    <3> QED
      BY <3>1, <3>2
  <2>2. CASE SendError(s)
    <3> DEFINE m == ErrorOf(pending[s])
    <3>1. pending[s] \in Statuses
      BY DEF ServerIInv, ServerTypeOK
    <3>2. m \in Messages /\ m.kind = "error" /\ m.status = pending[s]
      BY <3>1, MessageTypes DEF ErrorOf
    <3>3. SinkOp(s, "fail", m, "done") /\ task[s] = "fail"
      BY <2>2 DEF SendError, SinkOp
    <3> HIDE DEF m
    <3> QED
      BY <3>2, <3>3
  <2> QED
    BY <2>1, <2>2
<1>2. /\ task'[s] = "done" /\ Len(wire'[s]) = Len(wire[s]) + 1
      /\ wire'[s][Len(wire'[s])] = m
      /\ \A k \in 1 .. Len(wire[s]) : wire'[s][k] = wire[s][k]
      /\ DOMAIN wire'[s] = 1 .. Len(wire[s]) + 1
      /\ Len(wire[s]) \in Nat /\ wire'[s] # << >>
      /\ route'[s] = route[s] /\ guarded'[s] = guarded[s]
      /\ emitted'[s] = emitted[s] /\ thrown'[s] = thrown[s]
      /\ up[s]
      /\ up'[s] = up[s]
  BY <1>1, SinkOpFacts
<1>3. ServerInv(s) /\ DOMAIN wire[s] = 1 .. Len(wire[s])
  BY DEF ServerIInv, ServerTypeOK
<1>4. ~Closed(s) /\ Closed(s)' /\ emitted[s] = Len(wire[s])
  BY <1>1, <1>2, <1>3 DEF ServerInv, LockStep, PendingFaithful, Closed, IsClosed
<1>5. \A k \in DOMAIN wire[s] : wire[s][k].kind = "data"
  BY <1>3, <1>4 DEF ServerInv, WireInOrder, Closed, IsClosed
<1>6. WireInOrder(s)'
  <2> SUFFICES ASSUME NEW k \in 1 .. Len(wire[s]) + 1
               PROVE  /\ wire'[s][k].kind = "data" => wire'[s][k].event = k
                      /\ wire'[s][k].kind # "data" => k = Len(wire'[s])
    BY <1>2 DEF WireInOrder
  <2>1. CASE k \in 1 .. Len(wire[s])
    BY <1>2, <1>3, <1>5, <2>1 DEF ServerInv, WireInOrder
  <2>2. CASE k = Len(wire[s]) + 1
    BY <1>1, <1>2, <2>2
  <2> QED
    BY <1>2, <2>1, <2>2
<1>7. LockStep(s)'
  BY <1>2, <1>4 DEF LockStep
<1>8. ClosingFaithful(s)'
  BY <1>1, <1>2, <1>3, <1>4
     DEF ServerInv, ClosingFaithful, PendingFaithful, Closing, LastOf, Answer
<1>9. PendingFaithful(s)'
  BY <1>2, <1>4 DEF PendingFaithful
<1> QED
  BY <1>6, <1>7, <1>8, <1>9 DEF ServerInv

\* The steps of the task that touch neither the wire nor the exception.
LEMMA QuietTaskInv ==
  ASSUME ServerIInv, NEW s \in Streams,
         \/ Accept(s) \/ Begin(s) \/ Yield(s) \/ Return(s) \/ SinkRaises(s)
         \/ SendErrorRaises(s) \/ Cancel(s) \/ Drop(s)
  PROVE  ServerInv(s)'
<1> USE DEF ServerIInv, ServerTypeOK
<1>1. /\ wire'[s] = wire[s] /\ thrown'[s] = thrown[s] /\ route'[s] = route[s]
      /\ guarded'[s] = guarded[s]
  BY DEF Accept, Begin, Yield, Return, SinkRaises, SendErrorRaises, Cancel, Drop
<1>2. ServerInv(s) /\ Len(wire[s]) \in Nat
  OBVIOUS
<1>3. WireInOrder(s)' /\ Closed(s)' = Closed(s) /\ Closing(s)' = Closing(s)
      /\ Answer(s)' = Answer(s)
  BY <1>1, <1>2
     DEF ServerInv, WireInOrder, Closed, IsClosed, Closing, LastOf, Answer
<1>4. ClosingFaithful(s)'
  BY <1>1, <1>2, <1>3 DEF ServerInv, ClosingFaithful
<1>5. LockStep(s)'
  BY <1>1, <1>2, <1>3
     DEF ServerInv, LockStep, Accept, Begin, Yield, Return, SinkRaises,
         SendErrorRaises, Cancel, Drop
<1>6. PendingFaithful(s)'
  BY <1>1, <1>2, <1>3
     DEF ServerInv, LockStep, PendingFaithful, Accept, Begin, Yield, Return,
         SinkRaises, SendErrorRaises, Cancel, Drop
<1> QED
  BY <1>3, <1>4, <1>5, <1>6 DEF ServerInv

\* Every step of the agent, its server and the session.
LEMMA ServerStepInv ==
  ASSUME ServerIInv, NEW s \in Streams, ServerStep(s)
  PROVE  ServerInv(s)'
<1>1. CASE ValidateRejects(s) \/ BuildRaises(s) \/ HandlerRaises(s)
  <2>1. PICK e \in Exceptions, inTry \in BOOLEAN :
          e.kind # "ok" /\ Throw(s, e, inTry) /\ task[s] \in { "start", "pull" }
    BY <1>1, RaisedType
       DEF ValidateRejects, BuildRaises, HandlerRaises, BuildsInsideTry
  <2> QED
    BY <2>1, ThrowInv
<1>2. CASE Send(s)
  BY <1>2, SendInv
<1>3. CASE Close(s) \/ SendError(s)
  BY <1>3, ClosingInv
<1>4. CASE \/ Accept(s) \/ Begin(s) \/ Yield(s) \/ Return(s) \/ SinkRaises(s)
           \/ SendErrorRaises(s) \/ Cancel(s) \/ Drop(s)
  BY <1>4, QuietTaskInv
<1> QED
  BY <1>1, <1>2, <1>3, <1>4 DEF ServerStep, TaskStep

\* A step of one call leaves every other call as it was.
LEMMA ServerStepIsLocal ==
  ASSUME ServerTypeOK, NEW s \in Streams, NEW t \in Streams \ { s },
         ServerStep(s)
  PROVE  /\ route'[t] = route[t] /\ task'[t] = task[t]
         /\ emitted'[t] = emitted[t] /\ thrown'[t] = thrown[t]
         /\ guarded'[t] = guarded[t] /\ pending'[t] = pending[t]
         /\ wire'[t] = wire[t] /\ up'[t] = up[t]
<1> USE DEF ServerTypeOK
<1>1. CASE Accept(s) \/ Begin(s) \/ Yield(s) \/ Return(s)
  BY <1>1 DEF Accept, Begin, Yield, Return
<1>2. CASE ValidateRejects(s) \/ BuildRaises(s) \/ HandlerRaises(s)
  BY <1>2 DEF ValidateRejects, BuildRaises, HandlerRaises, Throw
<1>3. CASE Send(s) \/ Close(s) \/ SendError(s)
  BY <1>3 DEF Send, Close, SendError, SinkOp
<1>4. CASE SinkRaises(s) \/ SendErrorRaises(s) \/ Cancel(s) \/ Drop(s)
  BY <1>4 DEF SinkRaises, SendErrorRaises, Cancel, Drop
<1> QED
  BY <1>1, <1>2, <1>3, <1>4 DEF ServerStep, TaskStep

\* What a reader of the wire may count on while the server steps: a closed
\* response stays as it is, an open one only grows, by one message at most.
LEMMA ServerStepGrows ==
  ASSUME ServerIInv, NEW s \in Streams, ServerStep(s)
  PROVE  /\ task[s] # "idle" /\ task'[s] # "idle"
         /\ up'[s] => up[s]
         /\ Closed(s) => wire'[s] = wire[s] /\ emitted'[s] = emitted[s]
         /\ Len(wire[s]) \in Nat /\ Len(wire[s]) <= Len(wire'[s])
         /\ Closed(s)' /\ ~Closed(s) => Len(wire'[s]) = Len(wire[s]) + 1
         /\ \A k \in 1 .. Len(wire[s]) : wire'[s][k] = wire[s][k]
<1> USE DEF ServerIInv, ServerTypeOK
<1>1. ServerInv(s)
  OBVIOUS
<1>2. CASE Send(s) \/ Close(s) \/ SendError(s)
  <2>1. PICK from \in { "send", "close", "fail" }, m \in Messages,
             next \in { "pull", "done" } : SinkOp(s, from, m, next)
    BY <1>2, MessageTypes DEF Send, Close, SendError
  <2>2. task[s] \in { "send", "close", "fail" } /\ ~Closed(s)
    BY <1>1, <2>1 DEF SinkOp, ServerInv, LockStep
  <2> QED
    BY <2>1, <2>2, SinkOpFacts
<1>3. CASE UNCHANGED <<wire, emitted>>
  <2>1. task[s] # "idle" /\ task'[s] # "idle" /\ (up'[s] => up[s])
    <3>1. CASE Accept(s) \/ Begin(s) \/ Yield(s) \/ Return(s)
      BY <3>1 DEF Accept, Begin, Yield, Return
    <3>2. CASE ValidateRejects(s) \/ BuildRaises(s) \/ HandlerRaises(s)
      BY <3>2 DEF ValidateRejects, BuildRaises, HandlerRaises, Throw
    <3>3. CASE Send(s) \/ Close(s) \/ SendError(s)
      BY <3>3 DEF Send, Close, SendError, SinkOp
    <3>4. CASE SinkRaises(s) \/ SendErrorRaises(s) \/ Cancel(s) \/ Drop(s)
      BY <3>4 DEF SinkRaises, SendErrorRaises, Cancel, Drop
    <3> QED
      BY <3>1, <3>2, <3>3, <3>4 DEF ServerStep, TaskStep
  <2> QED
    BY <1>3, <2>1 DEF Closed, IsClosed
<1>4. CASE Yield(s)
  <2>1. ~Closed(s)
    BY <1>1, <1>4 DEF Yield, ServerInv, LockStep
  <2> QED
    BY <1>4, <2>1 DEF Yield, Closed, IsClosed
<1> QED
  BY <1>2, <1>3, <1>4
     DEF ServerStep, TaskStep, Accept, Begin, Return, ValidateRejects,
         BuildRaises, HandlerRaises, Throw, SinkRaises, SendErrorRaises, Cancel,
         Drop

=============================================================================
