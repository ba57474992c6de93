-------------------------- MODULE UnaryCallProofs --------------------------
(***************************************************************************)
(* Proofs about UnaryCall, for every set of calls, of routes called, of    *)
(* agents with push notifications and of A2AError types raised: the        *)
(* invariant UnaryInv, the safety properties that follow from it, and that *)
(* UnaryCall implements UnaryContract.                                     *)
(***************************************************************************)
EXTENDS UnaryCall, UnaryServerProofs

\* The server's side of the invariant is the server's own.
LEMMA ServerPart == UnaryInv => ServerIInv
BY DEF UnaryInv, TypeOK, ServerIInv

\* A call none of whose variables change keeps its invariant.
LEMMA FrameCall ==
  ASSUME NEW t, ServerInv(t), CallerFaithful(t),
         route'[t] = route[t], task'[t] = task[t], ran'[t] = ran[t],
         thrown'[t] = thrown[t], guarded'[t] = guarded[t],
         reply'[t] = reply[t], wire'[t] = wire[t], up'[t] = up[t],
         caller'[t] = caller[t], answer'[t] = answer[t], seen'[t] = seen[t]
  PROVE  ServerInv(t)' /\ CallerFaithful(t)'
<1>1. ServerInv(t)'
  BY ServerFrame
<1>2. CallerFaithful(t)'
  BY DEF CallerFaithful, Closed, IsClosed, Closing, LastOf
<1> QED
  BY <1>1, <1>2

\* Before any call there is nothing to keep.
LEMMA InitInv == Init => UnaryInv
<1> SUFFICES ASSUME Init PROVE UnaryInv
  OBVIOUS
<1>1. TypeOK
  BY ServerInitType, StatusTypes DEF Init, TypeOK, CallerStates, Blank
<1>2. ASSUME NEW s \in Streams PROVE ServerInv(s) /\ CallerFaithful(s)
  <2>1. ServerInv(s)
    BY ServerInitInv DEF Init
  <2>2. CallerFaithful(s)
    BY DEF Init, ServerInit, CallerFaithful
  <2> QED
    BY <2>1, <2>2
<1> QED
  BY <1>1, <1>2 DEF UnaryInv

-----------------------------------------------------------------------------
\* The caller makes the call, with one of the routes.
LEMMA CallInv ==
  ASSUME UnaryInv, NEW s \in Streams, Call(s)
  PROVE  TypeOK' /\ ServerInv(s)' /\ CallerFaithful(s)'
<1>1. PICK r \in Called : route' = [route EXCEPT ![s] = r]
  BY DEF Call
<1>2. TypeOK /\ r \in Routes
  BY UnaryServerAssumption DEF UnaryInv
<1>3. TypeOK'
  BY <1>1, <1>2 DEF TypeOK, ServerTypeOK, Call, TaskStates, CallerStates
<1>4. /\ task'[s] = "called" /\ caller'[s] = "waiting" /\ caller[s] = "idle"
      /\ route'[s] = r /\ thrown'[s] = thrown[s] /\ reply'[s] = reply[s]
      /\ ran'[s] = ran[s] /\ wire'[s] = wire[s]
  BY <1>1, <1>2 DEF TypeOK, ServerTypeOK, Call
<1>5. ServerInv(s) /\ task[s] = "idle"
  BY <1>4 DEF UnaryInv, CallerFaithful
<1>6. thrown[s].kind = "ok" /\ reply[s] = << >> /\ ran[s] = 0 /\ wire[s] = << >>
  BY <1>5 DEF ServerInv, ReplyFaithful
<1>7. ReplyFaithful(s)'
  BY <1>4, <1>6 DEF ReplyFaithful
<1>8. RaisedInPlace(s)'
  BY <1>4, <1>5, <1>6 DEF ServerInv, RaisedInPlace
<1>9. CallerFaithful(s)'
  BY <1>4 DEF CallerFaithful
<1> QED
  BY <1>3, <1>7, <1>8, <1>9 DEF ServerInv

\* The other moves of the caller leave the server's side as it is.
LEMMA CallerInv ==
  ASSUME UnaryInv, NEW s \in Streams, Await(s) \/ Leave(s)
  PROVE  TypeOK' /\ ServerInv(s)' /\ CallerFaithful(s)'
<1>1. TypeOK /\ ServerInv(s) /\ CallerFaithful(s) /\ UNCHANGED serverVars
  BY DEF UnaryInv, Await, Answered, Failed, Lost, Leave
<1>2. ServerTypeOK' /\ ServerInv(s)'
  BY <1>1, ServerFrame DEF TypeOK, ServerTypeOK, serverVars
<1>3. /\ caller[s] = "waiting" /\ task[s] # "idle"
      /\ Closed(s)' = Closed(s) /\ Closing(s)' = Closing(s)
      /\ wire' = wire /\ up' = up /\ task' = task
  BY <1>1 DEF Await, Answered, Failed, Lost, Leave, CallerFaithful,
              Closed, Closing, serverVars
<1>4. CASE Answered(s)
  <2>1. Closed(s) /\ Closing(s).kind = "end" /\ wire[s] # << >>
    BY <1>4 DEF Answered, Closed, IsClosed
  <2>2. wire[s][1].event \in Nat
    BY <1>1, <2>1, WireValues DEF TypeOK, Result
  <2>3. TypeOK'
    BY <1>1, <1>2, <1>4, <2>2 DEF TypeOK, Answered, CallerStates
  <2>4. caller'[s] = "answered" /\ answer'[s] = wire[s][1].event
    BY <1>1, <1>4 DEF TypeOK, Answered
  <2> QED
    BY <1>2, <1>3, <2>1, <2>3, <2>4 DEF CallerFaithful
<1>5. CASE Failed(s)
  <2>1. Closed(s) /\ Closing(s).kind = "error"
    BY <1>5 DEF Failed
  <2>2. Closing(s).status \in Statuses
    <3>1. wire[s] \in Seq(Messages) /\ wire[s] # << >>
      BY <1>1, <2>1 DEF TypeOK, ServerTypeOK, Closed, IsClosed
    <3>2. Closing(s) \in Messages
      BY <3>1 DEF Closing, LastOf
    <3> QED
      BY <3>2 DEF Messages
  <2>3. TypeOK'
    BY <1>1, <1>2, <1>5, <2>2 DEF TypeOK, Failed, CallerStates
  <2>4. caller'[s] = "raised" /\ seen'[s] = Closing(s).status
    BY <1>1, <1>5 DEF TypeOK, Failed
  <2> QED
    BY <1>2, <1>3, <2>1, <2>3, <2>4 DEF CallerFaithful
<1>6. CASE Lost(s)
  <2>1. TypeOK'
    BY <1>1, <1>2, <1>6, StatusTypes DEF TypeOK, Lost, CallerStates
  <2>2. caller'[s] = "raised" /\ seen'[s] = TransportStatus /\ ~up[s]
    BY <1>1, <1>6 DEF TypeOK, Lost
  <2> QED
    BY <1>2, <1>3, <2>1, <2>2 DEF CallerFaithful
<1>7. CASE Leave(s)
  <2>1. TypeOK'
    BY <1>1, <1>2, <1>7 DEF TypeOK, Leave, CallerStates
  <2>2. caller'[s] = "left"
    BY <1>1, <1>7 DEF TypeOK, Leave
  <2> QED
    BY <1>2, <1>3, <2>1, <2>2 DEF CallerFaithful
<1> QED
  BY <1>4, <1>5, <1>6, <1>7 DEF Await

\* The server steps: what the caller was told stays what is on the wire.
LEMMA ServerKeepsCaller ==
  ASSUME UnaryInv, NEW s \in Streams, ServerStep(s), UNCHANGED clientVars
  PROVE  CallerFaithful(s)'
<1>1. /\ task[s] # "idle" /\ task'[s] # "idle" /\ (up'[s] => up[s])
      /\ wire[s] # << >> => wire' = wire
  BY ServerPart, ServerStepGrows
<1>2. CallerFaithful(s)
  BY DEF UnaryInv
<1>3. /\ caller' = caller /\ answer' = answer /\ seen' = seen
  BY DEF clientVars
<1>4. Closed(s) => Closed(s)' /\ Closing(s)' = Closing(s) /\ wire' = wire
  BY <1>1 DEF Closed, IsClosed, Closing, LastOf
<1>5. caller[s] \in { "answered", "raised" } /\ up[s] => Closed(s)
  BY <1>2 DEF CallerFaithful
<1> QED
  BY <1>1, <1>2, <1>3, <1>4, <1>5 DEF CallerFaithful

\* A step of one call leaves every other call as it was.
LEMMA StepIsLocal ==
  ASSUME TypeOK, NEW s \in Streams, NEW t \in Streams \ { s },
         \/ Call(s) \/ Await(s) \/ Leave(s)
         \/ ServerStep(s) /\ UNCHANGED clientVars
  PROVE  /\ route'[t] = route[t] /\ task'[t] = task[t] /\ ran'[t] = ran[t]
         /\ thrown'[t] = thrown[t] /\ guarded'[t] = guarded[t]
         /\ reply'[t] = reply[t] /\ wire'[t] = wire[t] /\ up'[t] = up[t]
         /\ caller'[t] = caller[t] /\ answer'[t] = answer[t]
         /\ seen'[t] = seen[t]
<1>1. CASE Call(s) \/ Await(s) \/ Leave(s)
  BY <1>1 DEF TypeOK, ServerTypeOK, serverVars, Call, Await, Answered, Failed,
              Lost, Leave
<1>2. CASE ServerStep(s) /\ UNCHANGED clientVars
  BY <1>2, ServerStepIsLocal DEF TypeOK, clientVars
<1> QED
  BY <1>1, <1>2

LEMMA NextInv ==
  ASSUME UnaryInv, [Next]_vars
  PROVE  UnaryInv'
<1>1. CASE UNCHANGED vars
  <2>1. TypeOK'
    BY <1>1 DEF UnaryInv, TypeOK, ServerTypeOK, vars, serverVars, clientVars
  <2>2. \A s \in Streams : ServerInv(s)' /\ CallerFaithful(s)'
    BY <1>1, FrameCall DEF UnaryInv, vars, serverVars, clientVars
  <2> QED
    BY <2>1, <2>2 DEF UnaryInv
<1>2. ASSUME NEW s \in Streams,
             \/ Call(s) \/ Await(s) \/ Leave(s)
             \/ ServerStep(s) /\ UNCHANGED clientVars
      PROVE  UnaryInv'
  <2>1. ASSUME NEW t \in Streams \ { s }
        PROVE  ServerInv(t)' /\ CallerFaithful(t)'
    <3>1. TypeOK /\ ServerInv(t) /\ CallerFaithful(t)
      BY DEF UnaryInv
    <3>2. /\ route'[t] = route[t] /\ task'[t] = task[t] /\ ran'[t] = ran[t]
          /\ thrown'[t] = thrown[t] /\ guarded'[t] = guarded[t]
          /\ reply'[t] = reply[t] /\ wire'[t] = wire[t] /\ up'[t] = up[t]
          /\ caller'[t] = caller[t] /\ answer'[t] = answer[t]
          /\ seen'[t] = seen[t]
      BY <1>2, <3>1, StepIsLocal
    <3>3. ServerInv(t)' /\ CallerFaithful(t)'
      BY ONLY <3>1, <3>2, FrameCall
    <3> QED
      BY <3>3
  <2>2. TypeOK' /\ ServerInv(s)' /\ CallerFaithful(s)'
    <3>1. CASE Call(s) \/ Await(s) \/ Leave(s)
      BY <3>1, CallInv, CallerInv
    <3>2. CASE ServerStep(s) /\ UNCHANGED clientVars
      <4>1. ServerTypeOK' /\ ServerInv(s)'
        BY <3>2, ServerPart, ServerStepType, ServerStepInv DEF ServerIInv
      <4>2. TypeOK'
        BY <3>2, <4>1 DEF UnaryInv, TypeOK, clientVars
      <4> QED
        BY <3>2, <4>1, <4>2, ServerKeepsCaller
    <3> QED
      BY <1>2, <3>1, <3>2
  <2> QED
    BY <2>1, <2>2 DEF UnaryInv
<1> QED
  BY <1>1, <1>2 DEF Next

\* The inductive invariant: what the servicer's method did, the answer made of
\* it, the wire and the caller of every call stay in step.
THEOREM UnaryInvariance == Spec => []UnaryInv
BY InitInv, NextInv, PTL DEF Spec

-----------------------------------------------------------------------------
LEMMA InvImpliesAnswerIsTheResult == UnaryInv => AnswerIsTheResult
<1> SUFFICES ASSUME UnaryInv, NEW s \in Streams, caller[s] = "answered"
             PROVE  answer[s] = Result /\ ran[s] = 1 /\ thrown[s].kind = "ok"
  BY DEF AnswerIsTheResult
<1>1. Closed(s) /\ Closing(s).kind = "end" /\ answer[s] = wire[s][1].event
  BY DEF UnaryInv, CallerFaithful
<1> QED
  BY <1>1, WireValues DEF UnaryInv, TypeOK

\* A status that is not the carrier's is the answer to the exception raised.
LEMMA RaisedIsAnswered ==
  ASSUME UnaryInv, NEW s \in Streams, caller[s] = "raised",
         ~(seen[s] = TransportStatus /\ ~up[s])
  PROVE  /\ Closed(s) /\ thrown[s] \in AgentErrors
         /\ seen[s] = Closing(s).status /\ seen[s] = ErrorStatus(s)
         /\ route[s].version \in Versions /\ RaisedInPlace(s)
<1>1. /\ Closed(s) /\ Closing(s).kind = "error" /\ seen[s] = Closing(s).status
  BY DEF UnaryInv, CallerFaithful
<1>2. /\ thrown[s].kind # "ok" /\ seen[s] = ErrorStatus(s) /\ task[s] = "done"
  BY <1>1, WireValues DEF UnaryInv, TypeOK
<1>3. RaisedInPlace(s) /\ thrown[s] \in AgentErrors
  BY <1>2 DEF UnaryInv, ServerInv, RaisedInPlace, NoException
<1>4. route[s].version \in Versions
  BY <1>2, <1>3, UnaryServerAssumption DEF RaisedInPlace, Routes, Route, Versions
<1> QED
  BY <1>1, <1>2, <1>3, <1>4

\* What is raised inside the try block is answered by the servicer.
LEMMA GuardedAnswer ==
  ASSUME NEW v, NEW e, e.kind = "a2a"
  PROVE  /\ StatusFor(v, TRUE, e).code = SlimErrorCode(v, e.type)
         /\ StatusFor(v, TRUE, e).title = e.type
<1>1. StatusFor(v, TRUE, e) = RaiseErrorResponse(v, e.type)
  BY DEF StatusFor, ServicerCatch, GeneratedCatch, RpcError
<1>2. /\ RaiseErrorResponse(v, e.type).code = SlimErrorCode(v, e.type)
      /\ RaiseErrorResponse(v, e.type).title = e.type
  BY DEF RaiseErrorResponse, Status
<1> QED
  BY ONLY <1>1, <1>2

\* The two maps agree on every type the v0.3 handler knows, and neither has a
\* code for the types outside both.
LEMMA MapsAgree ==
  ASSUME NEW t \in ErrorTypes \ NewErrors
  PROVE  SlimErrorCode("v1", t) = SlimErrorCode("v03", t)
<1>1. CASE t = "OtherA2AError"
  BY <1>1 DEF SlimErrorCode, SlimErrorCodeMap, CompatSlimErrorCodeMap
<1>2. CASE t # "OtherA2AError"
  <2>1. t \in DOMAIN SlimErrorCodeMap /\ t \in DOMAIN CompatSlimErrorCodeMap
    BY <1>2 DEF ErrorTypes, NewErrors, SlimErrorCodeMap, CompatSlimErrorCodeMap
  <2>2. SlimErrorCodeMap[t] = CompatSlimErrorCodeMap[t]
    BY <1>2, <2>1 DEF ErrorTypes, NewErrors, SlimErrorCodeMap, CompatSlimErrorCodeMap
  <2> QED
    BY <2>1, <2>2 DEF SlimErrorCode
<1> QED
  BY <1>1, <1>2

LEMMA InvImpliesSameCodeInBothVersions == UnaryInv => SameCodeInBothVersions
<1> SUFFICES ASSUME UnaryInv, NEW s \in Streams,
                    caller[s] = "raised", seen[s] # TransportStatus,
                    thrown[s].kind = "a2a", guarded[s],
                    thrown[s].type \notin NewErrors,
                    NEW v \in Versions
             PROVE  seen[s].code = StatusFor(v, TRUE, thrown[s]).code
  BY DEF SameCodeInBothVersions
<1>1. seen[s] = StatusFor(route[s].version, TRUE, thrown[s])
  <2>1. guarded[s] = TRUE
    BY DEF UnaryInv, TypeOK, ServerTypeOK
  <2> QED
    BY <2>1, RaisedIsAnswered DEF ErrorStatus
<1>2. thrown[s].type \in ErrorTypes \ NewErrors
  <2>1. thrown[s] \in Exceptions
    BY DEF UnaryInv, TypeOK, ServerTypeOK
  <2> QED
    BY <2>1 DEF Exceptions, PyException, NoException
<1>3. route[s].version \in Versions
  BY RaisedIsAnswered
<1>4. \A w \in Versions :
        SlimErrorCode(w, thrown[s].type) = SlimErrorCode("v1", thrown[s].type)
  BY <1>2, MapsAgree DEF Versions
<1>5. \A w \in Versions : StatusFor(w, TRUE, thrown[s]).code =
                            SlimErrorCode("v1", thrown[s].type)
  BY <1>4, GuardedAnswer
<1> QED
  BY <1>1, <1>3, <1>5

LEMMA InvImpliesBareInternal == UnaryInv => BareInternal
<1> SUFFICES ASSUME UnaryInv, NEW s \in Streams,
                    caller[s] = "raised", seen[s] = InternalStatus,
                    thrown[s].kind # "py", thrown[s] # RpcError(InternalStatus)
             PROVE  /\ thrown[s].kind = "a2a" /\ ~guarded[s]
                    /\ Validated(route[s]) \/ Modifies(route[s])
  BY DEF BareInternal
<1>1. seen[s] # TransportStatus
  BY DEF InternalStatus, TransportStatus, Status
<1>2. /\ thrown[s] \in AgentErrors /\ seen[s] = ErrorStatus(s)
      /\ RaisedInPlace(s)
  BY <1>1, RaisedIsAnswered
<1>3. ASSUME NEW st \in Nested, thrown[s] = RpcError(st) PROVE FALSE
  <2>1. thrown[s].kind = "rpc" /\ thrown[s].status = st
    BY <1>3 DEF RpcError
  <2>2. ErrorStatus(s) = st
    BY <2>1 DEF ErrorStatus, StatusFor, ServicerCatch, GeneratedCatch
  <2> QED
    BY <1>2, <1>3, <2>2
<1>4. PICK type \in Raisable \cup ServicerErrors : thrown[s] = A2AError(type)
  BY <1>2, <1>3 DEF AgentErrors, RaisedBy, PyException
<1>5. thrown[s].kind = "a2a" /\ thrown[s].type = type /\ type # "none"
  BY <1>4, UnaryServerAssumption
     DEF A2AError, ErrorTypes, SlimErrorCodeMap, CompatSlimErrorCodeMap,
         ServicerErrors
<1>6. ~guarded[s]
  <2>1. ASSUME guarded[s] PROVE FALSE
    <3>1. guarded[s] = TRUE
      BY <2>1 DEF UnaryInv, TypeOK, ServerTypeOK
    <3>2. ErrorStatus(s).title = type
      BY <1>5, <3>1, GuardedAnswer DEF ErrorStatus
    <3> QED
      BY <1>2, <1>5, <3>2 DEF InternalStatus, Status
  <2> QED
    BY <2>1
<1> QED
  BY <1>2, <1>5, <1>6 DEF RaisedInPlace

\* An await that returns gives the result of an operation completed once.
THEOREM AnswerIsTheResultHolds == Spec => []AnswerIsTheResult
BY UnaryInvariance, InvImpliesAnswerIsTheResult, PTL

\* Clients of both protocol versions read the same code off an A2AError, those
\* new in v1.0 apart, wherever in a method's try block it was raised.
THEOREM SameCodeInBothVersionsHolds == Spec => []SameCodeInBothVersions
BY UnaryInvariance, InvImpliesSameCodeInBothVersions, PTL

\* A bare INTERNAL comes of no A2AError raised where the servicer looks, but may
\* be one a downstream agent answered with, for every set of such statuses.
THEOREM BareInternalHolds == Spec => []BareInternal
BY UnaryInvariance, InvImpliesBareInternal, PTL

-----------------------------------------------------------------------------
(***************************************************************************)
(* UnaryCall implements UnaryContract: every step of a call is a step of   *)
(* the abstract call, or leaves it as it is.                               *)
(***************************************************************************)
LEMMA VerdictValues ==
  ASSUME NEW s
  PROVE  /\ thrown[s].kind # "ok" =>
              Verdict(s) = Contract!Failed(ErrorStatus(s))
         /\ thrown[s].kind = "ok" /\ reply[s] # << >> =>
              Verdict(s) = Contract!Complete
         /\ thrown[s].kind = "ok" /\ reply[s] = << >> =>
              Verdict(s) = Contract!Open
BY DEF Verdict, Contract!Failed, Contract!Complete, Contract!Open,
       Contract!Ending

LEMMA OutcomeValues ==
  ASSUME NEW s, caller[s] \in CallerStates
  PROVE  /\ caller[s] = "answered" => Outcome(s) = Contract!Complete
         /\ caller[s] = "raised" => Outcome(s) = Contract!Failed(seen[s])
         /\ caller[s] = "left" => Outcome(s) = Contract!Gone
         /\ caller[s] \in { "idle", "waiting" } => Outcome(s) = Contract!Open
BY DEF Outcome, CallerStates, Contract!Failed, Contract!Complete,
       Contract!Open, Contract!Gone, Contract!Ending

\* The mapped state of the calls that do not step stays; that of the call that
\* does is the function changed at one place.
LEMMA MappedExcept ==
  ASSUME TypeOK, NEW s \in Streams,
         \/ Call(s) \/ Await(s) \/ Leave(s)
         \/ ServerStep(s) /\ UNCHANGED clientVars
  PROVE  /\ [t \in Streams |-> Verdict(t)]' =
              [[t \in Streams |-> Verdict(t)] EXCEPT ![s] = Verdict(s)']
         /\ [t \in Streams |-> Outcome(t)]' =
              [[t \in Streams |-> Outcome(t)] EXCEPT ![s] = Outcome(s)']
<1>1. ASSUME NEW t \in Streams \ { s }
      PROVE  Verdict(t)' = Verdict(t) /\ Outcome(t)' = Outcome(t)
  BY StepIsLocal DEF Verdict, Outcome, ErrorStatus
<1> QED
  BY <1>1

LEMMA InitMapped == Init => Contract!Init
<1> SUFFICES ASSUME Init PROVE Contract!Init
  OBVIOUS
<1>1. ASSUME NEW s \in Streams
      PROVE  Verdict(s) = Contract!Open /\ Outcome(s) = Contract!Open
  BY VerdictValues, OutcomeValues
     DEF Init, ServerInit, NoException, CallerStates
<1> QED
  BY <1>1 DEF Init, ServerInit, Contract!Init

\* The operation is completed: for the first time, and nothing was answered.
LEMMA OperationMapped ==
  ASSUME UnaryInv, NEW s \in Streams, UNCHANGED clientVars,
         OperationReturns(s)
  PROVE  Contract!Perform(s)
<1>1. /\ task[s] = "run" /\ ran' = [ran EXCEPT ![s] = @ + 1]
      /\ UNCHANGED <<route, thrown, guarded, reply>>
  BY DEF OperationReturns
<1>2. ran[s] = 0 /\ Verdict(s) = Contract!Open
  BY <1>1, VerdictValues DEF UnaryInv, ServerInv, ReplyFaithful
<1>3. Verdict(s)' = Verdict(s) /\ Outcome(s)' = Outcome(s)
  BY <1>1 DEF Verdict, Outcome, ErrorStatus, clientVars
<1>4. ServerStep(s) /\ TypeOK
  BY DEF ServerStep, TaskStep, UnaryInv
<1>5. ran' = [ran EXCEPT ![s] = 1]
  BY <1>1, <1>2
<1> QED
  BY <1>2, <1>3, <1>4, <1>5, MappedExcept DEF Contract!Perform, clientVars

\* The method raises, before the operation or after it: the call fails with
\* the answer made of the exception.
LEMMA ThrowMapped ==
  ASSUME UnaryInv, NEW s \in Streams, UNCHANGED clientVars,
         \/ ValidateRejects(s) \/ NameRejected(s) \/ BuildRaises(s)
         \/ TaskAbsent(s) \/ OperationRaises(s) \/ ConversionRaises(s)
         \/ ModifierRaises(s)
  PROVE  Contract!Conclude(s)
<1>1. PICK e \in AgentErrors, inTry \in BOOLEAN :
        /\ Throw(s, e, inTry) /\ task[s] \in { "start", "run", "after" }
        /\ e.kind # "ok"
  BY ThrowSteps, AgentErrorType
<1>2. /\ thrown'[s] = e /\ guarded'[s] = inTry /\ route'[s] = route[s]
      /\ ran' = ran
  BY <1>1 DEF UnaryInv, TypeOK, ServerTypeOK, Throw
<1>3. ErrorStatus(s)' \in AgentStatuses
  <2>1. route[s].version \in Versions
    <3>1. route[s] \in Routes
      BY <1>1, UnaryServerAssumption DEF UnaryInv, ServerInv, RaisedInPlace
    <3> QED
      BY <3>1 DEF Routes, Route, Versions
  <2> QED
    BY <1>2, <2>1 DEF ErrorStatus, AgentStatuses
<1>4. Verdict(s)' = Contract!Failed(ErrorStatus(s)')
  BY <1>1, <1>2 DEF Verdict, Contract!Failed, Contract!Ending, ErrorStatus
<1>5. Verdict(s) = Contract!Open
  BY <1>1, VerdictValues DEF UnaryInv, ServerInv, ReplyFaithful
<1>6. Outcome(s)' = Outcome(s)
  BY DEF Outcome, clientVars
<1>7. ServerStep(s) /\ TypeOK
  BY DEF ServerStep, TaskStep, UnaryInv
<1> QED
  BY <1>2, <1>3, <1>4, <1>5, <1>6, <1>7, MappedExcept
     DEF Contract!Conclude, clientVars

\* The method returns the result of the operation it has completed.
LEMMA ReturnMapped ==
  ASSUME UnaryInv, NEW s \in Streams, UNCHANGED clientVars, MethodReturns(s)
  PROVE  Contract!Conclude(s)
<1>1. /\ task[s] = "after" /\ reply'[s] = Answer(Result)
      /\ UNCHANGED <<route, ran, thrown, guarded>>
  BY DEF MethodReturns, UnaryInv, TypeOK, ServerTypeOK
<1>2. /\ ran[s] = 1 /\ thrown[s].kind = "ok" /\ reply[s] = << >>
  BY <1>1 DEF UnaryInv, ServerInv, ReplyFaithful
<1>3. Verdict(s) = Contract!Open
  BY <1>2, VerdictValues
<1>4. Verdict(s)' = Contract!Complete
  BY <1>1, <1>2, AnswerTypes DEF Verdict, Contract!Complete, Contract!Ending
<1>5. Outcome(s)' = Outcome(s)
  BY DEF Outcome, clientVars
<1>6. ServerStep(s) /\ TypeOK
  BY DEF ServerStep, TaskStep, UnaryInv
<1> QED
  BY <1>1, <1>2, <1>3, <1>4, <1>5, <1>6, MappedExcept
     DEF Contract!Conclude, clientVars

\* The steps of the server no caller can tell from nothing.
LEMMA SilentServerMapped ==
  ASSUME UnaryInv, NEW s \in Streams, UNCHANGED clientVars,
         Accept(s) \/ Begin(s) \/ Respond(s) \/ Cancel(s) \/ Drop(s)
  PROVE  UNCHANGED Contract!vars
<1>1. UNCHANGED <<route, ran, thrown, guarded, reply>>
  BY DEF Accept, Begin, Respond, Cancel, Drop
<1>2. ASSUME NEW t \in Streams
      PROVE  Verdict(t)' = Verdict(t) /\ Outcome(t)' = Outcome(t)
  BY <1>1 DEF Verdict, Outcome, ErrorStatus, clientVars
<1> QED
  BY <1>1, <1>2 DEF Contract!vars

\* The await returns or raises: what the call concluded with, or the loss of
\* the session.
LEMMA AwaitMapped ==
  ASSUME UnaryInv, NEW s \in Streams, Await(s)
  PROVE  Contract!Settle(s)
<1>1. /\ caller[s] = "waiting" /\ TypeOK /\ TypeOK'
      /\ UNCHANGED <<route, ran, thrown, guarded, reply, wire>>
  BY CallerInv DEF UnaryInv, Await, Answered, Failed, Lost, serverVars
<1>2. Outcome(s) = Contract!Open
  BY <1>1, OutcomeValues DEF CallerStates
<1>3. Verdict(s)' = Verdict(s)
  BY <1>1 DEF Verdict, ErrorStatus
<1>4. CASE Lost(s)
  <2>1. caller'[s] = "raised" /\ seen'[s] = TransportStatus
    BY <1>1, <1>4 DEF Lost, TypeOK
  <2>2. Outcome(s)' = Contract!Failed(TransportStatus)
    BY <2>1 DEF Outcome, Contract!Failed, Contract!Ending
  <2> QED
    BY <1>1, <1>2, <1>3, <2>2, MappedExcept DEF Contract!Settle
<1>5. CASE Answered(s) \/ Failed(s)
  <2>1. /\ Closed(s)
        /\ \/ caller'[s] = "answered" /\ Closing(s).kind = "end"
           \/ /\ caller'[s] = "raised" /\ Closing(s).kind = "error"
              /\ seen'[s] = Closing(s).status
    BY <1>1, <1>5 DEF Answered, Failed, TypeOK
  <2>2. ServerInv(s) /\ ServerTypeOK
    BY DEF UnaryInv, TypeOK
  <2>3. task[s] = "done" /\ wire[s] = reply[s] /\ reply[s] # << >>
    BY <2>1, <2>2, WireValues DEF ServerInv, ReplyFaithful
  <2>4. ASSUME caller'[s] = "answered"
        PROVE  Outcome(s)' = Verdict(s) /\ Verdict(s) # Contract!Open
    <3>1. thrown[s].kind = "ok"
      BY <2>1, <2>2, <2>4, WireValues
    <3>2. Verdict(s) = Contract!Complete
      BY <2>3, <3>1, VerdictValues
    <3>3. Outcome(s)' = Contract!Complete
      BY <2>4 DEF Outcome, Contract!Complete, Contract!Ending
    <3> QED
      BY <3>2, <3>3 DEF Contract!Complete, Contract!Open, Contract!Ending
  <2>5. ASSUME caller'[s] = "raised"
        PROVE  Outcome(s)' = Verdict(s) /\ Verdict(s) # Contract!Open
    <3>1. thrown[s].kind # "ok" /\ seen'[s] = ErrorStatus(s)
      BY <2>1, <2>2, <2>5, WireValues
    <3>2. Verdict(s) = Contract!Failed(seen'[s])
      BY <3>1, VerdictValues
    <3>3. Outcome(s)' = Contract!Failed(seen'[s])
      BY <2>5 DEF Outcome, Contract!Failed, Contract!Ending
    <3> QED
      BY <3>2, <3>3 DEF Contract!Failed, Contract!Open, Contract!Ending
  <2> QED
    BY <2>1, <2>4, <2>5, <1>1, <1>2, <1>3, <1>5, MappedExcept DEF Contract!Settle
<1> QED
  BY <1>4, <1>5 DEF Await

\* Making the call is not seen yet; a caller that gives up is gone.
LEMMA CallerRestMapped ==
  ASSUME UnaryInv, NEW s \in Streams, Call(s) \/ Leave(s)
  PROVE  Contract!Leave(s) \/ UNCHANGED Contract!vars
<1>1. TypeOK /\ UNCHANGED <<ran, thrown, guarded, reply>>
  BY DEF UnaryInv, Call, Leave, serverVars
<1>2. Verdict(s)' = Verdict(s)
  <2>1. CASE Call(s)
    <3>1. thrown[s].kind = "ok"
      BY <2>1 DEF Call, UnaryInv, CallerFaithful, ServerInv, ReplyFaithful
    <3> QED
      BY <1>1, <3>1 DEF Verdict
  <2>2. CASE Leave(s)
    BY <2>2 DEF Leave, Verdict, ErrorStatus, serverVars
  <2> QED
    BY <2>1, <2>2
<1>3. CASE Call(s)
  <2>1. caller[s] = "idle" /\ caller'[s] = "waiting"
    BY <1>1, <1>3 DEF Call, TypeOK
  <2>2. Outcome(s)' = Outcome(s)
    BY <2>1 DEF Outcome
  <2> QED
    BY <1>1, <1>2, <1>3, <2>2, MappedExcept DEF Contract!vars
<1>4. CASE Leave(s)
  <2>1. caller[s] = "waiting" /\ caller'[s] = "left"
    BY <1>1, <1>4 DEF Leave, TypeOK
  <2>2. Outcome(s) = Contract!Open /\ Outcome(s)' = Contract!Gone
    BY <2>1 DEF Outcome, Contract!Open, Contract!Gone, Contract!Ending
  <2> QED
    BY <1>1, <1>2, <1>4, <2>2, MappedExcept DEF Contract!Leave
<1> QED
  BY <1>3, <1>4

LEMMA NextMapped ==
  ASSUME UnaryInv, [Next]_vars
  PROVE  [Contract!Next]_(Contract!vars)
<1>1. CASE UNCHANGED vars
  BY <1>1 DEF vars, serverVars, clientVars, Contract!vars, Verdict, Outcome,
              ErrorStatus
<1>2. ASSUME NEW s \in Streams,
             \/ Call(s) \/ Await(s) \/ Leave(s)
             \/ ServerStep(s) /\ UNCHANGED clientVars
      PROVE  [Contract!Next]_(Contract!vars)
  <2>1. CASE Call(s) \/ Leave(s)
    BY <2>1, CallerRestMapped DEF Contract!Next
  <2>2. CASE Await(s)
    BY <2>2, AwaitMapped DEF Contract!Next
  <2>3. CASE ServerStep(s) /\ UNCHANGED clientVars
    BY <2>3, OperationMapped, ThrowMapped, ReturnMapped, SilentServerMapped
       DEF ServerStep, TaskStep, Contract!Next
  <2> QED
    BY <1>2, <2>1, <2>2, <2>3
<1> QED
  BY <1>1, <1>2 DEF Next

\* The whole path, from the servicer's method to the caller's await, behaves
\* as the abstract call: the operation at most once, a result only of a
\* completed one, a failure only of one that failed or of the carrier.
THEOREM UnaryRefinement == Spec => ImplementsContract
BY InitMapped, NextMapped, UnaryInvariance, PTL
   DEF Spec, ImplementsContract, Contract!Spec

=============================================================================
