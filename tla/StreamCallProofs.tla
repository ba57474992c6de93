-------------------------- MODULE StreamCallProofs --------------------------
(***************************************************************************)
(* Proofs about StreamCall, for every set of streams, every choice of the  *)
(* agents that advertise streaming, every set of A2AError types they       *)
(* raise and every bound on the events of a call: types, the invariant     *)
(* IInv and what follows from it, and that StreamCall implements           *)
(* StreamContract.                                                         *)
(***************************************************************************)
EXTENDS StreamCall, StreamServerProofs

-----------------------------------------------------------------------------
\* What next_async returns is a message.
LEMMA NextMessage ==
  ASSUME TypeOK, NEW s \in Streams, NEW kind, Next_async(s, kind)
  PROVE  wire[s][cursor[s] + 1] \in Messages
<1>1. wire[s] \in Seq(Messages) /\ cursor[s] \in Nat
  BY DEF TypeOK, ServerTypeOK
<1>2. cursor[s] + 1 \in 1 .. Len(wire[s])
  BY <1>1 DEF Next_async
<1> QED
  BY <1>1, <1>2

LEMMA InitType == Init => TypeOK
BY StatusTypes, ServerInitType DEF Init, TypeOK, CallerStates

LEMMA NextType ==
  ASSUME TypeOK, [Next]_vars
  PROVE  TypeOK'
<1>1. CASE UNCHANGED vars
  BY <1>1 DEF TypeOK, ServerTypeOK, vars, serverVars, clientVars
<1>2. ASSUME NEW s \in Streams, Open(s)
      PROVE  TypeOK'
  BY <1>2 DEF TypeOK, ServerTypeOK, Open, Routes, TaskStates, CallerStates
<1>3. ASSUME NEW s \in Streams, Read(s) \/ Resume(s) \/ Leave(s)
      PROVE  TypeOK'
  <2>1. CASE ReadData(s)
    <3>1. delivered[s] \in Seq(Nat) /\ wire[s][cursor[s] + 1].event \in Nat
      BY <2>1, NextMessage DEF TypeOK, ReadData, Messages
    <3>2. Append(delivered[s], wire[s][cursor[s] + 1].event) \in Seq(Nat)
      BY <3>1
    <3> QED
      BY <2>1, <3>2
         DEF TypeOK, ServerTypeOK, ReadData, Next_async, serverVars,
             CallerStates
  <2>2. CASE ReadEnd(s)
    BY <2>2
       DEF TypeOK, ServerTypeOK, ReadEnd, Next_async, serverVars, CallerStates
  <2>3. CASE ReadError(s)
    <3>1. wire[s][cursor[s] + 1].status \in Statuses
      BY <2>3, NextMessage DEF ReadError, Messages
    <3> QED
      BY <2>3, <3>1
         DEF TypeOK, ServerTypeOK, ReadError, Next_async, serverVars,
             CallerStates
  <2>4. CASE ReadLost(s)
    BY <2>4, StatusTypes
       DEF TypeOK, ServerTypeOK, ReadLost, serverVars, CallerStates
  <2>5. CASE Resume(s)
    BY <2>5 DEF TypeOK, ServerTypeOK, Resume, serverVars, CallerStates
  <2>6. CASE Leave(s)
    BY <2>6 DEF TypeOK, ServerTypeOK, Leave, serverVars, CallerStates
  <2> QED
    BY <1>3, <2>1, <2>2, <2>3, <2>4, <2>5, <2>6 DEF Read
<1>4. ASSUME NEW s \in Streams, ServerStep(s), UNCHANGED clientVars
      PROVE  TypeOK'
  <2>1. ServerTypeOK'
    BY <1>4, ServerStepType DEF TypeOK
  <2> QED
    BY <1>4, <2>1 DEF TypeOK, clientVars
<1> QED
  BY <1>1, <1>2, <1>3, <1>4 DEF Next

\* In every reachable state each variable has its type, whatever the agents
\* raise and whenever tasks are cancelled and sessions lost.
THEOREM TypeCorrect == Spec => []TypeOK
BY InitType, NextType, PTL DEF Spec

-----------------------------------------------------------------------------
\* A call none of whose variables change keeps its invariant.
LEMMA FrameStream ==
  ASSUME NEW t, StreamInv(t),
         route'[t] = route[t], task'[t] = task[t], emitted'[t] = emitted[t],
         thrown'[t] = thrown[t], guarded'[t] = guarded[t],
         pending'[t] = pending[t], wire'[t] = wire[t], up'[t] = up[t],
         caller'[t] = caller[t], cursor'[t] = cursor[t],
         delivered'[t] = delivered[t], seen'[t] = seen[t]
  PROVE  StreamInv(t)'
<1>1. ServerInv(t)'
  BY ServerFrame DEF StreamInv
<1>2. ReadsPrefix(t)'
  BY DEF StreamInv, ReadsPrefix, Closed, IsClosed, Closing, LastOf
<1> QED
  BY <1>1, <1>2 DEF StreamInv

\* The agent's side of the invariant is the server's own.
LEMMA ServerPart == IInv => ServerIInv
BY DEF IInv, TypeOK, StreamInv, ServerIInv

\* Before any call there is nothing to keep.
LEMMA InitInv == Init => IInv
<1> SUFFICES ASSUME Init PROVE IInv
  OBVIOUS
<1>1. TypeOK
  BY InitType
<1>2. ASSUME NEW s \in Streams PROVE StreamInv(s)
  <2>1. ServerInv(s) /\ ~Closed(s)
    BY ServerInitInv DEF Init
  <2>2. wire[s] = << >> /\ delivered[s] = << >> /\ Len(<< >>) = 0
    BY DEF Init, ServerInit
  <2>3. ReadsPrefix(s)
    BY <2>1, <2>2 DEF Init, ServerInit, ReadsPrefix
  <2> QED
    BY <2>1, <2>3 DEF StreamInv
<1> QED
  BY <1>1, <1>2 DEF IInv

\* The caller opens the call.
LEMMA OpenInv ==
  ASSUME IInv, NEW s \in Streams, Open(s)
  PROVE  StreamInv(s)'
<1> USE DEF IInv, TypeOK, ServerTypeOK
<1>1. /\ task'[s] = "called" /\ caller'[s] = "reading"
      /\ wire'[s] = wire[s] /\ thrown'[s] = thrown[s]
      /\ emitted'[s] = emitted[s] /\ cursor'[s] = cursor[s]
      /\ delivered'[s] = delivered[s] /\ caller[s] = "idle"
  BY DEF Open
<1>2. StreamInv(s) /\ task[s] = "idle" /\ ~Closed(s)
  BY <1>1 DEF StreamInv, ServerInv, ReadsPrefix, LockStep
<1>3. WireInOrder(s)' /\ ~Closed(s)'
  BY <1>1, <1>2 DEF StreamInv, ServerInv, WireInOrder, Closed, IsClosed
<1>4. LockStep(s)' /\ ClosingFaithful(s)'
  BY <1>1, <1>2, <1>3 DEF StreamInv, ServerInv, LockStep, ClosingFaithful
<1>5. PendingFaithful(s)'
  BY <1>1, <1>2 DEF StreamInv, ServerInv, PendingFaithful
<1>6. ReadsPrefix(s)'
  BY <1>1, <1>2, <1>3 DEF StreamInv, ServerInv, ReadsPrefix
<1> QED
  BY <1>3, <1>4, <1>5, <1>6 DEF StreamInv, ServerInv

\* The caller leaves the agent's side as it is: only its reading is at stake.
LEMMA CallerFrame ==
  ASSUME NEW s \in Streams, StreamInv(s), UNCHANGED serverVars, ReadsPrefix(s)'
  PROVE  StreamInv(s)'
<1>1. ServerInv(s)'
  BY ServerFrame DEF serverVars, StreamInv
<1> QED
  BY <1>1 DEF StreamInv

\* Counting on: the events 1 .. n followed by n + 1.
LEMMA CountOn ==
  ASSUME NEW q \in Seq(Nat), q = [k \in 1 .. Len(q) |-> k]
  PROVE  /\ Len(Append(q, Len(q) + 1)) = Len(q) + 1
         /\ Append(q, Len(q) + 1) = [k \in 1 .. Len(q) + 1 |-> k]
<1> DEFINE r == Append(q, Len(q) + 1)
<1>1. /\ Len(q) \in Nat /\ r \in Seq(Nat) /\ Len(r) = Len(q) + 1
      /\ r[Len(q) + 1] = Len(q) + 1
      /\ \A k \in 1 .. Len(q) : r[k] = q[k]
  OBVIOUS
<1> HIDE DEF r
<1>2. \A k \in 1 .. Len(q) : q[k] = k
  OBVIOUS
<1>3. \A k \in 1 .. Len(q) + 1 : r[k] = k
  BY <1>1, <1>2
<1>4. r = [k \in 1 .. Len(q) + 1 |-> r[k]]
  BY <1>1
<1>5. r = [k \in 1 .. Len(q) + 1 |-> k]
  BY <1>3, <1>4
<1> QED
  BY <1>1, <1>5 DEF r

\* A data message read is the next event, for none before it was skipped.
LEMMA ReadDataInv ==
  ASSUME IInv, NEW s \in Streams, ReadData(s)
  PROVE  ReadsPrefix(s)'
<1> DEFINE n == cursor[s] + 1
<1>1. StreamInv(s) /\ caller[s] = "reading" /\ cursor[s] < Len(wire[s])
  BY DEF IInv, ReadData, Next_async
<1>2. /\ cursor[s] \in Nat /\ wire[s] \in Seq(Messages) /\ Len(wire[s]) \in Nat
      /\ delivered[s] \in Seq(Nat)
  BY DEF IInv, TypeOK, ServerTypeOK
<1>3. cursor[s] = Len(delivered[s])
  BY <1>1 DEF StreamInv, ServerInv, ReadsPrefix
<1>4. wire[s][n].kind = "data" /\ n \in DOMAIN wire[s]
  BY <1>1, <1>2 DEF ReadData, Next_async
<1>5. wire[s][n].event = n
  BY <1>1, <1>4 DEF StreamInv, ServerInv, WireInOrder
<1>6. Closed(s) => n < Len(wire[s])
  BY <1>1, <1>2, <1>4 DEF Closed, IsClosed
<1>7. /\ cursor'[s] = n /\ caller'[s] = "held" /\ wire' = wire
      /\ delivered'[s] = Append(delivered[s], n) /\ task' = task
  BY <1>5 DEF IInv, TypeOK, ReadData, Next_async, serverVars
<1>8. /\ delivered'[s] = [k \in 1 .. Len(delivered'[s]) |-> k]
      /\ Len(delivered'[s]) = n
  <2>1. delivered[s] = [k \in 1 .. Len(delivered[s]) |-> k]
    BY <1>1 DEF StreamInv, ServerInv, ReadsPrefix
  <2> QED
    BY <1>2, <1>3, <1>7, <2>1, CountOn
<1>9. caller[s] = "idle" <=> task[s] = "idle"
  BY <1>1 DEF StreamInv, ServerInv, ReadsPrefix
<1>10. Closed(s)' = Closed(s)
  BY <1>7 DEF Closed, IsClosed
<1>11. n <= Len(wire[s])
  BY <1>1, <1>2
<1> HIDE DEF n
<1>12. /\ cursor'[s] <= Len(wire'[s])
       /\ cursor'[s] = Len(delivered'[s])
       /\ Closed(s)' => cursor'[s] < Len(wire'[s])
       /\ task'[s] # "idle" /\ caller'[s] = "held"
  BY <1>1, <1>6, <1>7, <1>8, <1>9, <1>10, <1>11
<1> QED
  BY <1>8, <1>12 DEF ReadsPrefix

\* A closing message is the last of the wire, and every event came before it.
LEMMA ReadClosingInv ==
  ASSUME IInv, NEW s \in Streams, ReadEnd(s) \/ ReadError(s)
  PROVE  ReadsPrefix(s)'
<1> DEFINE n == cursor[s] + 1
<1>1. StreamInv(s) /\ caller[s] = "reading" /\ cursor[s] < Len(wire[s])
  BY DEF IInv, ReadEnd, ReadError, Next_async
<1>2. /\ cursor[s] \in Nat /\ wire[s] \in Seq(Messages) /\ Len(wire[s]) \in Nat
      /\ emitted[s] \in Nat
  BY DEF IInv, TypeOK, ServerTypeOK
<1>3. cursor[s] = Len(delivered[s])
  BY <1>1 DEF StreamInv, ServerInv, ReadsPrefix
<1>4. wire[s][n].kind # "data" /\ n \in DOMAIN wire[s]
  BY <1>1, <1>2 DEF ReadEnd, ReadError, Next_async
<1>5. n = Len(wire[s]) /\ Closed(s) /\ wire[s][n] = Closing(s)
  BY <1>1, <1>2, <1>4
     DEF StreamInv, ServerInv, WireInOrder, Closed, IsClosed, Closing, LastOf
<1>6. emitted[s] = Len(delivered[s])
  BY <1>1, <1>2, <1>3, <1>5 DEF StreamInv, ServerInv, LockStep
<1>7. /\ cursor'[s] = n /\ delivered' = delivered /\ wire' = wire
      /\ task' = task /\ emitted' = emitted /\ up' = up
      /\ \/ caller'[s] = "ended" /\ wire[s][n].kind = "end"
         \/ /\ caller'[s] = "raised" /\ wire[s][n].kind = "error"
            /\ seen'[s] = wire[s][n].status
  BY DEF IInv, TypeOK, ReadEnd, ReadError, Next_async, serverVars
<1>8. Closed(s)' /\ Closing(s)' = Closing(s)
  BY <1>5, <1>7 DEF Closed, IsClosed, Closing, LastOf
<1>9. /\ caller[s] = "idle" <=> task[s] = "idle"
      /\ delivered[s] = [k \in 1 .. Len(delivered[s]) |-> k]
  BY <1>1 DEF StreamInv, ServerInv, ReadsPrefix
<1> QED
  BY <1>1, <1>2, <1>5, <1>6, <1>7, <1>8, <1>9 DEF ReadsPrefix

\* The other moves of the caller read nothing.
LEMMA QuietCallerInv ==
  ASSUME IInv, NEW s \in Streams, ReadLost(s) \/ Resume(s) \/ Leave(s)
  PROVE  ReadsPrefix(s)'
<1>1. StreamInv(s) /\ UNCHANGED serverVars /\ UNCHANGED <<cursor, delivered>>
  BY DEF IInv, ReadLost, Resume, Leave
<1>2. /\ caller[s] \in { "reading", "held" }
      /\ \/ caller'[s] \in { "reading", "left" }
         \/ caller'[s] = "raised" /\ seen'[s] = TransportStatus /\ ~up[s]
  BY DEF IInv, TypeOK, ReadLost, Resume, Leave
<1> QED
  BY <1>1, <1>2
     DEF StreamInv, ServerInv, ReadsPrefix, serverVars, Closed, IsClosed,
         Closing, LastOf

\* While the agent's side steps, what the caller has read stays a prefix of
\* the wire, and one it has read to the end stays as it is.
LEMMA ServerKeepsReading ==
  ASSUME IInv, NEW s \in Streams, ServerStep(s), UNCHANGED clientVars
  PROVE  ReadsPrefix(s)'
<1>1. StreamInv(s) /\ cursor[s] \in Nat /\ ServerIInv
  BY ServerPart DEF IInv, TypeOK
<1>2. /\ task[s] # "idle" /\ task'[s] # "idle"
      /\ up'[s] => up[s]
      /\ Closed(s) => wire'[s] = wire[s] /\ emitted'[s] = emitted[s]
      /\ Len(wire[s]) \in Nat /\ Len(wire[s]) <= Len(wire'[s])
      /\ Closed(s)' /\ ~Closed(s) => Len(wire'[s]) = Len(wire[s]) + 1
  BY <1>1, ServerStepGrows
<1>3. Len(wire'[s]) \in Nat
  BY <1>1, ServerStepType DEF ServerIInv, ServerTypeOK
<1>4. Closed(s) => Closed(s)' /\ Closing(s)' = Closing(s)
  BY <1>2 DEF Closed, IsClosed, Closing, LastOf
<1>5. /\ caller'[s] = caller[s] /\ cursor'[s] = cursor[s]
      /\ delivered'[s] = delivered[s] /\ seen'[s] = seen[s]
  BY DEF clientVars
<1>6. ReadsPrefix(s)
  BY <1>1 DEF StreamInv
<1>7. cursor[s] <= Len(wire'[s])
  BY <1>1, <1>2, <1>3, <1>6 DEF ReadsPrefix
<1>8. caller[s] \in { "idle", "reading", "held", "left" } /\ Closed(s)' =>
        cursor[s] < Len(wire'[s])
  BY <1>1, <1>2, <1>3, <1>6 DEF ReadsPrefix
<1> QED
  BY <1>2, <1>4, <1>5, <1>6, <1>7, <1>8 DEF ReadsPrefix

\* A step of one call leaves every other call as it was.
LEMMA StepIsLocal ==
  ASSUME TypeOK, NEW s \in Streams, NEW t \in Streams \ { s },
         \/ Open(s) \/ Read(s) \/ Resume(s) \/ Leave(s)
         \/ ServerStep(s) /\ UNCHANGED clientVars
  PROVE  /\ route'[t] = route[t] /\ task'[t] = task[t]
         /\ emitted'[t] = emitted[t] /\ thrown'[t] = thrown[t]
         /\ guarded'[t] = guarded[t] /\ pending'[t] = pending[t]
         /\ wire'[t] = wire[t] /\ up'[t] = up[t]
         /\ caller'[t] = caller[t] /\ cursor'[t] = cursor[t]
         /\ delivered'[t] = delivered[t] /\ seen'[t] = seen[t]
<1>1. CASE Open(s) \/ Read(s) \/ Resume(s) \/ Leave(s)
  BY <1>1 DEF TypeOK, ServerTypeOK, serverVars, Open, Read, ReadData, ReadEnd,
              ReadError, ReadLost, Next_async, Resume, Leave
<1>2. CASE ServerStep(s) /\ UNCHANGED clientVars
  BY <1>2, ServerStepIsLocal DEF TypeOK, clientVars
<1> QED
  BY <1>1, <1>2

LEMMA NextInv ==
  ASSUME IInv, [Next]_vars
  PROVE  IInv'
<1>1. TypeOK /\ TypeOK'
  BY NextType DEF IInv
<1>2. CASE UNCHANGED vars
  BY <1>1, <1>2, FrameStream DEF IInv, vars, serverVars, clientVars
<1>3. ASSUME NEW s \in Streams,
             \/ Open(s) \/ Read(s) \/ Resume(s) \/ Leave(s)
             \/ ServerStep(s) /\ UNCHANGED clientVars
      PROVE  IInv'
  <2>1. ASSUME NEW t \in Streams \ { s } PROVE StreamInv(t)'
    <3>1. StreamInv(t)
      BY DEF IInv
    <3> QED
      BY <1>1, <1>3, <3>1, StepIsLocal, FrameStream
  <2>2. StreamInv(s)'
    <3>1. CASE Open(s)
      BY <3>1, OpenInv
    <3>2. CASE Read(s) \/ Resume(s) \/ Leave(s)
      <4>1. ReadsPrefix(s)'
        BY <3>2, ReadDataInv, ReadClosingInv, QuietCallerInv DEF Read
      <4>2. UNCHANGED serverVars /\ StreamInv(s)
        BY <3>2 DEF IInv, Read, ReadData, ReadEnd, ReadError, ReadLost,
                    Next_async, Resume, Leave
      <4> QED
        BY <4>1, <4>2, CallerFrame
    <3>3. CASE ServerStep(s) /\ UNCHANGED clientVars
      <4>1. ReadsPrefix(s)'
        BY <3>3, ServerKeepsReading
      <4>2. ServerInv(s)'
        BY <3>3, ServerPart, ServerStepInv
      <4> QED
        BY <4>1, <4>2 DEF StreamInv
    <3> QED
      BY <1>3, <3>1, <3>2, <3>3
  <2> QED
    BY <1>1, <2>1, <2>2 DEF IInv
<1> QED
  BY <1>2, <1>3 DEF Next

\* The inductive invariant: wire, task, exception and caller of every call
\* stay in step, whatever is cancelled or lost on the way.
THEOREM Invariance == Spec => []IInv
BY InitInv, NextInv, PTL DEF Spec

-----------------------------------------------------------------------------
LEMMA InvImpliesCompleteEnd == IInv => CompleteEnd
<1> SUFFICES ASSUME IInv, NEW s \in Streams, caller[s] = "ended"
             PROVE  /\ thrown[s].kind = "ok" /\ task[s] \in { "done", "dead" }
                    /\ delivered[s] = [k \in 1 .. emitted[s] |-> k]
  BY DEF CompleteEnd
<1> QED
  BY
     DEF IInv, TypeOK, ServerTypeOK, StreamInv, ServerInv, LockStep,
         ClosingFaithful,
         ReadsPrefix

LEMMA InvImpliesFaithfulFailure == IInv => FaithfulFailure
<1> SUFFICES ASSUME IInv, NEW s \in Streams, caller[s] = "raised",
                    ~(seen[s] = TransportStatus /\ ~up[s])
             PROVE  /\ thrown[s].kind # "ok" /\ seen[s] = Answer(s)
                    /\ delivered[s] = [k \in 1 .. emitted[s] |-> k]
  BY DEF FaithfulFailure
<1>1. /\ Closed(s) /\ Closing(s).kind = "error"
      /\ seen[s] = Closing(s).status /\ Len(delivered[s]) = emitted[s]
      /\ delivered[s] = [k \in 1 .. Len(delivered[s]) |-> k]
  BY DEF IInv, StreamInv, ServerInv, ReadsPrefix
<1> QED
  BY <1>1 DEF IInv, StreamInv, ServerInv, ClosingFaithful

LEMMA InvImpliesNoReadAhead == IInv => NoReadAhead
<1> SUFFICES ASSUME IInv, NEW s \in Streams, NEW n \in 1 .. emitted[s] - 1
             PROVE  /\ n \in DOMAIN wire[s] /\ wire[s][n].kind = "data"
                    /\ wire[s][n].event = n
  BY DEF NoReadAhead
<1>1. /\ wire[s] \in Seq(Messages) /\ Len(wire[s]) \in Nat /\ emitted[s] \in Nat
      /\ LockStep(s) /\ WireInOrder(s)
  BY DEF IInv, TypeOK, ServerTypeOK, StreamInv, ServerInv
<1>2. Closed(s) => n < Len(wire[s])
  BY <1>1 DEF LockStep
<1>3. ~Closed(s) => n <= Len(wire[s])
  BY <1>1 DEF LockStep
<1>4. n \in DOMAIN wire[s]
  BY <1>1, <1>2, <1>3
<1>5. wire[s][n].kind = "data"
  BY <1>1, <1>2, <1>4 DEF WireInOrder, Closed, IsClosed
<1> QED
  BY <1>1, <1>4, <1>5 DEF WireInOrder

\* A stream that ends well for its consumer is complete: no cancelled task,
\* lost session or raised error is ever taken for the end of the events.
THEOREM CompleteEndHolds == Spec => []CompleteEnd
BY Invariance, InvImpliesCompleteEnd, PTL

\* A status raised to a consumer is the loss of its session or the answer to
\* the exception its own agent raised, after all the events before it.
THEOREM FaithfulFailureHolds == Spec => []FaithfulFailure
BY Invariance, InvImpliesFaithfulFailure, PTL

\* The agent is at most one event ahead of the sink.
THEOREM NoReadAheadHolds == Spec => []NoReadAhead
BY Invariance, InvImpliesNoReadAhead, PTL

\* An A2AError that is not answered by the servicer rose before the first event,
\* in one of the two places that are before a v1.0 method's try block.
EarlyRise(s) ==
  thrown[s].kind = "a2a" /\ ~guarded[s] =>
    /\ emitted[s] = 0
    /\ \/ Validated(route[s]) /\ s \notin Advertised
       \/ route[s] = "v1.SendStreamingMessage"

LEMMA InitEarlyRise == Init => \A s \in Streams : EarlyRise(s)
BY DEF Init, ServerInit, NoException, EarlyRise

\* Where the servicer's generator raises decides whether its try block sees it.
LEMMA ThrowsInPlace ==
  ASSUME IInv, NEW s \in Streams,
         ValidateRejects(s) \/ BuildRaises(s) \/ HandlerRaises(s)
  PROVE  EarlyRise(s)'
<1>1. LockStep(s) /\ guarded \in [Streams -> BOOLEAN]
  BY DEF IInv, StreamInv, ServerInv, TypeOK, ServerTypeOK
<1>2. CASE ValidateRejects(s)
  BY <1>1, <1>2
     DEF ValidateRejects, Throw, LockStep, EarlyRise, Validated, VersionOf
<1>3. CASE BuildRaises(s)
  <2>1. emitted'[s] = 0 /\ route' = route
        /\ guarded'[s] = (route[s] # "v1.SendStreamingMessage")
    BY <1>1, <1>3 DEF BuildRaises, BuildsInsideTry, Throw, LockStep
  <2> QED
    BY <2>1 DEF EarlyRise
<1>4. CASE HandlerRaises(s)
  BY <1>1, <1>4 DEF HandlerRaises, Throw, EarlyRise
<1> QED
  BY <1>2, <1>3, <1>4

LEMMA NextEarlyRise ==
  ASSUME IInv, \A s \in Streams : EarlyRise(s), [Next]_vars
  PROVE  (\A s \in Streams : EarlyRise(s))'
<1>1. CASE UNCHANGED vars
  BY <1>1 DEF vars, serverVars, EarlyRise
<1>2. ASSUME NEW s \in Streams,
             \/ Open(s) \/ Read(s) \/ Resume(s) \/ Leave(s)
             \/ ServerStep(s) /\ UNCHANGED clientVars,
             NEW t \in Streams
      PROVE  EarlyRise(t)'
  <2>1. CASE t # s
    <3>1. /\ route'[t] = route[t] /\ emitted'[t] = emitted[t]
          /\ thrown'[t] = thrown[t] /\ guarded'[t] = guarded[t]
      BY <1>2, <2>1, StepIsLocal DEF IInv
    <3> QED
      BY <3>1 DEF EarlyRise
  <2>2. ASSUME t = s, Open(s) \/ Yield(s) PROVE EarlyRise(s)'
    <3>1. thrown[s].kind = "ok" /\ thrown' = thrown
      BY <2>2 DEF Open, Yield, IInv, StreamInv, ServerInv, PendingFaithful,
                  ReadsPrefix
    <3> QED
      BY <3>1 DEF EarlyRise
  <2>3. ASSUME t = s, ValidateRejects(s) \/ BuildRaises(s) \/ HandlerRaises(s)
        PROVE  EarlyRise(s)'
    BY <2>3, ThrowsInPlace
  <2>4. ASSUME t = s,
               \/ Read(s) \/ Resume(s) \/ Leave(s)
               \/ Accept(s) \/ Begin(s) \/ Return(s)
               \/ Send(s) \/ Close(s) \/ SendError(s)
               \/ SinkRaises(s) \/ SendErrorRaises(s) \/ Cancel(s) \/ Drop(s)
        PROVE  EarlyRise(s)'
    <3>1. UNCHANGED <<route, emitted, thrown, guarded>>
      BY <2>4 DEF Read, ReadData, ReadEnd, ReadError, ReadLost, Next_async,
                  Resume, Leave, serverVars, Accept, Begin, Return, Send, Close,
                  SendError, SinkOp, SinkRaises, SendErrorRaises, Cancel, Drop
    <3> QED
      BY <3>1 DEF EarlyRise
  <2> QED
    BY <1>2, <2>1, <2>2, <2>3, <2>4 DEF ServerStep, TaskStep
<1> QED
  BY <1>1, <1>2 DEF Next

\* What the two except layers tell of an A2AError, in and out of the try block.
LEMMA ToldOfA2AError ==
  ASSUME NEW v, NEW e, e.kind = "a2a"
  PROVE  /\ StatusFor(v, TRUE, e).title = e.type
         /\ v = "v1" => StatusFor(v, TRUE, e).reason # "none"
         /\ StatusFor(v, FALSE, e) = InternalStatus
<1>1. StatusFor(v, TRUE, e) = RaiseErrorResponse(v, e.type)
  BY DEF StatusFor, ServicerCatch, GeneratedCatch, RpcError
<1>2. /\ RaiseErrorResponse(v, e.type).title = e.type
      /\ v = "v1" => RaiseErrorResponse(v, e.type).reason = ReasonOf(e.type)
  BY DEF RaiseErrorResponse, Status
<1>3. ReasonOf(e.type) # "none"
  BY ErrorReasonsAssumption DEF ReasonOf, Reasons
<1>4. StatusFor(v, FALSE, e) = InternalStatus
  BY DEF StatusFor, GeneratedCatch
<1> QED
  BY ONLY <1>1, <1>2, <1>3, <1>4

LEMMA InvImpliesErrorsAreNamed ==
  IInv /\ (\A s \in Streams : EarlyRise(s)) => ErrorsAreNamed
<1> SUFFICES ASSUME IInv, NEW s \in Streams, EarlyRise(s),
                    caller[s] = "raised", seen[s] # TransportStatus,
                    thrown[s].kind = "a2a"
             PROVE  \/ /\ seen[s].title = thrown[s].type
                       /\ VersionOf(route[s]) = "v1" => seen[s].reason # "none"
                    \/ /\ seen[s] = InternalStatus /\ emitted[s] = 0
                       /\ \/ Validated(route[s]) /\ s \notin Advertised
                          \/ route[s] = "v1.SendStreamingMessage"
  BY DEF ErrorsAreNamed
<1>1. seen[s] = Answer(s)
  BY InvImpliesFaithfulFailure DEF FaithfulFailure
<1>2. CASE guarded[s] = TRUE
  <2>1. seen[s] = StatusFor(VersionOf(route[s]), TRUE, thrown[s])
    BY <1>1, <1>2, Zenon DEF Answer
  <2> DEFINE told == StatusFor(VersionOf(route[s]), TRUE, thrown[s])
  <2>2. told.title = thrown[s].type
    BY ToldOfA2AError
  <2>3. VersionOf(route[s]) = "v1" => told.reason # "none"
    BY ToldOfA2AError
  <2> QED
    BY ONLY <2>1, <2>2, <2>3
<1>3. CASE guarded[s] = FALSE
  <2>1. seen[s] = StatusFor(VersionOf(route[s]), FALSE, thrown[s])
    BY <1>1, <1>3, Zenon DEF Answer
  <2>2. seen[s] = InternalStatus
    BY <2>1, ToldOfA2AError
  <2> QED
    BY <1>3, <2>2 DEF EarlyRise
<1>4. guarded[s] \in BOOLEAN
  BY DEF IInv, TypeOK, ServerTypeOK
<1> QED
  BY <1>2, <1>3, <1>4

\* An A2AError is told to the consumer by its name wherever in the stream it
\* rose, for every table of reasons; the bare INTERNAL is left to the errors
\* that precede a v1.0 method's try block and every event.
THEOREM ErrorsAreNamedHolds == Spec => []ErrorsAreNamed
<1>1. Spec => [](IInv /\ \A s \in Streams : EarlyRise(s))
  BY InitInv, InitEarlyRise, NextInv, NextEarlyRise, PTL DEF Spec
<1> QED
  BY <1>1, InvImpliesErrorsAreNamed, PTL

-----------------------------------------------------------------------------
(***************************************************************************)
(* StreamCall implements StreamContract: every step of a call is a step of *)
(* the abstract stream, or leaves it as it is.                             *)
(***************************************************************************)
LEMMA VerdictValues ==
  ASSUME NEW s
  PROVE  /\ thrown[s].kind # "ok" => Verdict(s) = Contract!Failed(Answer(s))
         /\ thrown[s].kind = "ok" /\ Closed(s) => Verdict(s) = Contract!Complete
         /\ thrown[s].kind = "ok" /\ ~Closed(s) => Verdict(s) = Contract!Open
BY DEF Verdict, Contract!Failed, Contract!Complete, Contract!Open,
       Contract!Ending

LEMMA OutcomeValues ==
  ASSUME NEW s, caller[s] \in CallerStates
  PROVE  /\ caller[s] = "ended" => Outcome(s) = Contract!Complete
         /\ caller[s] = "raised" => Outcome(s) = Contract!Failed(seen[s])
         /\ caller[s] = "left" => Outcome(s) = Contract!Gone
         /\ caller[s] \in { "idle", "reading", "held" } =>
              Outcome(s) = Contract!Open
BY DEF Outcome, CallerStates, Contract!Failed, Contract!Complete,
       Contract!Open, Contract!Gone, Contract!Ending

\* The mapped state of the calls that do not step.
LEMMA OthersMapped ==
  ASSUME TypeOK, NEW s \in Streams, NEW t \in Streams \ { s },
         \/ Open(s) \/ Read(s) \/ Resume(s) \/ Leave(s)
         \/ ServerStep(s) /\ UNCHANGED clientVars
  PROVE  Verdict(t)' = Verdict(t) /\ Outcome(t)' = Outcome(t)
BY StepIsLocal DEF Verdict, Outcome, Answer, Closed, IsClosed

\* A step that changes neither how the source concluded nor what the caller
\* was told maps to what it does to the events.
LEMMA MappedExcept ==
  ASSUME TypeOK, NEW s \in Streams,
         \/ Open(s) \/ Read(s) \/ Resume(s) \/ Leave(s)
         \/ ServerStep(s) /\ UNCHANGED clientVars
  PROVE  /\ [t \in Streams |-> Verdict(t)]' =
              [[t \in Streams |-> Verdict(t)] EXCEPT ![s] = Verdict(s)']
         /\ [t \in Streams |-> Outcome(t)]' =
              [[t \in Streams |-> Outcome(t)] EXCEPT ![s] = Outcome(s)']
BY OthersMapped

LEMMA InitMapped == Init => Contract!Init
<1> SUFFICES ASSUME Init PROVE Contract!Init
  OBVIOUS
<1>1. ASSUME NEW s \in Streams
      PROVE  Verdict(s) = Contract!Open /\ Outcome(s) = Contract!Open
  BY VerdictValues, OutcomeValues
     DEF Init, ServerInit, NoException, Closed, IsClosed, CallerStates
<1> QED
  BY <1>1 DEF Init, ServerInit, Contract!Init

\* The statuses agents are answered with are those the contract is given.
LEMMA AnswerIsAgentStatus ==
  ASSUME NEW r, NEW e \in Raised \cup { A2AError("UnsupportedOperationError") },
         NEW inTry \in BOOLEAN
  PROVE  StatusFor(VersionOf(r), inTry, e) \in AgentStatuses
BY DEF AgentStatuses, VersionOf, Versions

\* The generator raises: the source concludes with the answer.
LEMMA ThrowMapped ==
  ASSUME IInv, NEW s \in Streams, UNCHANGED clientVars,
         ValidateRejects(s) \/ BuildRaises(s) \/ HandlerRaises(s)
  PROVE  Contract!Conclude(s)
<1>1. PICK e \in Raised \cup { A2AError("UnsupportedOperationError") },
           inTry \in BOOLEAN :
        Throw(s, e, inTry) /\ task[s] \in { "start", "pull" } /\ e.kind # "ok"
  BY RaisedType DEF ValidateRejects, BuildRaises, HandlerRaises, BuildsInsideTry
<1>2. /\ thrown'[s] = e /\ guarded'[s] = inTry /\ route'[s] = route[s]
      /\ emitted' = emitted
  BY <1>1 DEF IInv, TypeOK, ServerTypeOK, Throw
<1>3. Answer(s)' \in AgentStatuses
  BY <1>2, AnswerIsAgentStatus DEF Answer
<1>4. Verdict(s)' = Contract!Failed(Answer(s)')
  BY <1>1, <1>2 DEF Verdict, Contract!Failed, Contract!Ending, Answer
<1>5. Verdict(s) = Contract!Open
  BY <1>1, VerdictValues
     DEF IInv, StreamInv, ServerInv, PendingFaithful, LockStep
<1>6. Outcome(s)' = Outcome(s)
  BY DEF Outcome, clientVars
<1>7. ServerStep(s) /\ TypeOK
  BY DEF ServerStep, TaskStep, IInv
<1> QED
  BY <1>2, <1>3, <1>4, <1>5, <1>6, <1>7, MappedExcept
     DEF Contract!Conclude, clientVars

\* handle closes the sink: the source concludes well.
LEMMA CloseMapped ==
  ASSUME IInv, NEW s \in Streams, UNCHANGED clientVars, Close(s)
  PROVE  Contract!Conclude(s)
<1>1. EndMark \in Messages /\ EndMark.kind = "end"
  BY MessageTypes DEF EndMark
<1>2. SinkOp(s, "close", EndMark, "done") /\ task[s] = "close"
  BY DEF Close, SinkOp
<1>3. Closed(s)' /\ thrown'[s] = thrown[s]
  BY <1>1, <1>2, ServerPart, SinkOpFacts DEF Closed, IsClosed
<1>4. thrown[s].kind = "ok" /\ ~Closed(s)
  BY <1>2 DEF IInv, StreamInv, ServerInv, PendingFaithful, LockStep
<1>5. Verdict(s) = Contract!Open
  BY <1>4, VerdictValues
<1>6. Verdict(s)' = Contract!Complete
  BY <1>3, <1>4 DEF Verdict, Contract!Complete, Contract!Ending
<1>7. Outcome(s)' = Outcome(s)
  BY DEF Outcome, clientVars
<1>8. ServerStep(s) /\ TypeOK /\ emitted' = emitted
  BY <1>2 DEF ServerStep, TaskStep, IInv, SinkOp
<1> QED
  BY <1>5, <1>6, <1>7, <1>8, MappedExcept DEF Contract!Conclude, clientVars

LEMMA YieldMapped ==
  ASSUME IInv, NEW s \in Streams, UNCHANGED clientVars, Yield(s)
  PROVE  Contract!Produce(s)
<1>1. task[s] = "pull" /\ emitted' = [emitted EXCEPT ![s] = @ + 1]
      /\ UNCHANGED <<route, thrown, guarded, wire>>
  BY DEF Yield
<1>2. Verdict(s) = Contract!Open
  BY <1>1, VerdictValues
     DEF IInv, StreamInv, ServerInv, PendingFaithful, LockStep
<1>3. Verdict(s)' = Verdict(s) /\ Outcome(s)' = Outcome(s)
  BY <1>1 DEF Verdict, Outcome, Answer, Closed, IsClosed, clientVars
<1>4. ServerStep(s) /\ TypeOK
  BY DEF ServerStep, TaskStep, IInv
<1> QED
  BY <1>1, <1>2, <1>3, <1>4, MappedExcept DEF Contract!Produce, clientVars

\* The steps of the server no caller can tell from nothing: those before the
\* first event, those that move a message, and the ends without a message.
LEMMA SilentServerMapped ==
  ASSUME IInv, NEW s \in Streams, UNCHANGED clientVars,
         \/ Accept(s) \/ Begin(s) \/ Return(s) \/ Send(s) \/ SendError(s)
         \/ SinkRaises(s) \/ SendErrorRaises(s) \/ Cancel(s) \/ Drop(s)
  PROVE  UNCHANGED Contract!vars
<1>1. /\ emitted' = emitted /\ thrown' = thrown /\ route' = route
      /\ guarded' = guarded
  BY DEF Accept, Begin, Return, Send, SendError, SinkOp, SinkRaises,
         SendErrorRaises, Cancel, Drop
<1>2. thrown[s].kind = "ok" => Closed(s)' = Closed(s)
  <2>1. CASE Send(s)
    <3>1. PICK m \in Messages : SinkOp(s, "send", m, "pull") /\ m.kind = "data"
      <4>1. Data(emitted[s]) \in Messages /\ Data(emitted[s]).kind = "data"
        BY MessageTypes DEF IInv, TypeOK, ServerTypeOK, Data
      <4> QED
        BY <2>1, <4>1 DEF Send
    <3>2. ~Closed(s)'
      BY <3>1, ServerPart, SinkOpFacts DEF Closed, IsClosed
    <3>3. ~Closed(s)
      BY <2>1 DEF Send, SinkOp, IInv, StreamInv, ServerInv, LockStep
    <3> QED
      BY <3>2, <3>3 DEF Closed, IsClosed
  <2>2. CASE SendError(s)
    BY <2>2 DEF SendError, SinkOp, IInv, StreamInv, ServerInv, PendingFaithful
  <2>3. CASE UNCHANGED wire
    BY <2>3 DEF Closed, IsClosed
  <2> QED
    BY <2>1, <2>2, <2>3
       DEF Accept, Begin, Return, SinkRaises, SendErrorRaises, Cancel, Drop
<1>3. Verdict(s)' = Verdict(s) /\ Outcome(s)' = Outcome(s)
  BY <1>1, <1>2 DEF Verdict, Outcome, Answer, clientVars
<1>4. ServerStep(s) /\ TypeOK
  BY DEF ServerStep, TaskStep, IInv
<1> QED
  BY <1>1, <1>3, <1>4, MappedExcept DEF Contract!vars, clientVars

\* A data message read is the next event handed over.
LEMMA ReadDataMapped ==
  ASSUME IInv, NEW s \in Streams, ReadData(s)
  PROVE  Contract!Deliver(s)
<1> DEFINE n == cursor[s] + 1
<1>1. StreamInv(s) /\ caller[s] = "reading" /\ cursor[s] < Len(wire[s])
  BY DEF IInv, ReadData, Next_async
<1>2. /\ cursor[s] \in Nat /\ wire[s] \in Seq(Messages) /\ Len(wire[s]) \in Nat
      /\ delivered[s] \in Seq(Nat) /\ emitted[s] \in Nat
  BY DEF IInv, TypeOK, ServerTypeOK
<1>3. cursor[s] = Len(delivered[s])
  BY <1>1 DEF StreamInv, ServerInv, ReadsPrefix
<1>4. wire[s][n].kind = "data" /\ n \in DOMAIN wire[s]
  BY <1>1, <1>2 DEF ReadData, Next_async
<1>5. wire[s][n].event = n
  BY <1>1, <1>4 DEF StreamInv, ServerInv, WireInOrder
<1>6. delivered' = [delivered EXCEPT ![s] = Append(@, Len(@) + 1)]
  BY <1>3, <1>5 DEF ReadData, IInv, TypeOK
<1>7. Closed(s) => n < Len(wire[s])
  BY <1>1, <1>2, <1>4 DEF Closed, IsClosed
<1>8. Len(delivered[s]) < emitted[s]
  BY <1>1, <1>2, <1>3, <1>7 DEF StreamInv, ServerInv, LockStep
<1>9. /\ UNCHANGED serverVars /\ caller'[s] = "held"
  BY DEF ReadData, Next_async, IInv, TypeOK
<1>10. Outcome(s) = Contract!Open /\ Outcome(s)' = Contract!Open
  BY <1>1, <1>9 DEF Outcome, Contract!Open, Contract!Ending
<1>11. Verdict(s)' = Verdict(s)
  BY <1>9 DEF Verdict, Answer, Closed, IsClosed, serverVars
<1>12. Read(s) /\ TypeOK
  BY DEF Read, IInv
<1> QED
  BY <1>6, <1>8, <1>9, <1>10, <1>11, <1>12, MappedExcept
     DEF Contract!Deliver, serverVars

\* A closing message read tells the caller how the source concluded, when all
\* the events have been handed over; a lost session is the carrier's failure.
LEMMA ReadRestMapped ==
  ASSUME IInv, NEW s \in Streams, ReadEnd(s) \/ ReadError(s) \/ ReadLost(s)
  PROVE  Contract!Settle(s)
<1>1. /\ UNCHANGED <<emitted, thrown, route, guarded, wire, delivered>>
      /\ caller[s] = "reading"
  BY DEF ReadEnd, ReadError, ReadLost, Next_async, serverVars
<1>2. Outcome(s) = Contract!Open
  BY <1>1 DEF Outcome, Contract!Open, Contract!Ending
<1>3. Verdict(s)' = Verdict(s)
  BY <1>1 DEF Verdict, Answer, Closed, IsClosed
<1>4. Read(s) /\ TypeOK
  BY DEF Read, IInv
<1>5. CASE ReadLost(s)
  <2>1. caller'[s] = "raised" /\ seen'[s] = TransportStatus
    BY <1>5 DEF ReadLost, IInv, TypeOK
  <2>2. Outcome(s)' = Contract!Failed(TransportStatus)
    BY <2>1 DEF Outcome, Contract!Failed, Contract!Ending
  <2> QED
    BY <1>1, <1>2, <1>3, <1>4, <2>2, MappedExcept DEF Contract!Settle
<1>6. CASE ReadEnd(s) \/ ReadError(s)
  <2>1. StreamInv(s)' /\ StreamInv(s)
    <3>1. UNCHANGED serverVars /\ StreamInv(s)
      BY <1>6 DEF IInv, ReadEnd, ReadError, Next_async
    <3> QED
      BY <1>6, <3>1, ReadClosingInv, CallerFrame
  <2>2. \/ caller'[s] = "ended"
        \/ /\ caller'[s] = "raised" /\ seen'[s] = wire[s][cursor[s] + 1].status
           /\ wire[s][cursor[s] + 1].kind = "error"
    BY <1>6 DEF ReadEnd, ReadError, Next_async, IInv, TypeOK
  <2>3. /\ cursor[s] \in Nat /\ cursor[s] < Len(wire[s]) /\ wire[s] \in Seq(Messages)
        /\ Len(wire[s]) \in Nat
    BY <1>6 DEF ReadEnd, ReadError, Next_async, IInv, TypeOK, ServerTypeOK
  <2>4. wire[s][cursor[s] + 1].kind \in { "end", "error" }
    BY <1>6 DEF ReadEnd, ReadError, Next_async
  <2>5. Closed(s) /\ wire[s][cursor[s] + 1] = Closing(s)
    BY <2>1, <2>3, <2>4
       DEF StreamInv, ServerInv, WireInOrder, Closed, IsClosed, Closing, LastOf
  <2>6. Len(delivered[s]) = emitted[s]
    BY <2>1, <2>3, <2>4, <2>5, <1>1, <1>6
       DEF StreamInv, ServerInv, WireInOrder, LockStep, ReadsPrefix, Closing,
           LastOf, IInv, TypeOK,
           ServerTypeOK
  <2>7. Outcome(s)' = Verdict(s) /\ Verdict(s) # Contract!Open
    <3>1. CASE caller'[s] = "ended"
      <4>1. Closing(s).kind = "end"
        BY <1>1, <2>1, <3>1
           DEF StreamInv, ServerInv, ReadsPrefix, Closing, LastOf
      <4>2. Verdict(s) = Contract!Complete
        BY <2>1, <2>5, <4>1, VerdictValues
           DEF StreamInv, ServerInv, ClosingFaithful
      <4>3. Outcome(s)' = Contract!Complete
        BY <3>1 DEF Outcome, Contract!Complete, Contract!Ending
      <4> QED
        BY <4>2, <4>3 DEF Contract!Complete, Contract!Open, Contract!Ending
    <3>2. CASE caller'[s] = "raised"
      <4>1. /\ seen'[s] = Closing(s).status /\ Closing(s).kind = "error"
        BY <2>2, <2>5, <3>2
      <4>2. Verdict(s) = Contract!Failed(Closing(s).status)
        BY <2>1, <2>5, <4>1, VerdictValues
           DEF StreamInv, ServerInv, ClosingFaithful
      <4>3. Outcome(s)' = Contract!Failed(seen'[s])
        BY <3>2 DEF Outcome, Contract!Failed, Contract!Ending
      <4> QED
        BY <4>1, <4>2, <4>3 DEF Contract!Failed, Contract!Open, Contract!Ending
    <3> QED
      BY <2>2, <3>1, <3>2
  <2> QED
    BY <1>1, <1>2, <1>3, <1>4, <2>6, <2>7, MappedExcept DEF Contract!Settle
<1> QED
  BY <1>5, <1>6

LEMMA CallerRestMapped ==
  ASSUME IInv, NEW s \in Streams, Open(s) \/ Resume(s) \/ Leave(s)
  PROVE  Contract!Leave(s) \/ UNCHANGED Contract!vars
<1>1. TypeOK /\ UNCHANGED <<emitted, thrown, guarded, wire, delivered>>
  BY DEF IInv, Open, Resume, Leave, serverVars
<1>2. Verdict(s)' = Verdict(s)
  <2>1. CASE Open(s)
    <3>1. thrown[s].kind = "ok"
      BY <2>1 DEF Open, IInv, StreamInv, ServerInv, ReadsPrefix, PendingFaithful
    <3> QED
      BY <1>1, <3>1 DEF Verdict, Closed, IsClosed
  <2>2. CASE Resume(s) \/ Leave(s)
    BY <2>2 DEF Resume, Leave, Verdict, Answer, Closed, IsClosed, serverVars
  <2> QED
    BY <2>1, <2>2
<1>3. CASE Open(s) \/ Resume(s)
  <2>1. Outcome(s)' = Outcome(s)
    <3>1. /\ caller[s] \in { "idle", "held" } /\ caller'[s] = "reading"
      BY <1>3 DEF Open, Resume, IInv, TypeOK
    <3> QED
      BY <3>1 DEF Outcome
  <2> QED
    BY <1>1, <1>2, <1>3, <2>1, MappedExcept DEF Contract!vars
<1>4. CASE Leave(s)
  <2>1. caller[s] \in { "reading", "held" } /\ caller'[s] = "left"
    BY <1>4 DEF Leave, IInv, TypeOK
  <2>2. Outcome(s) = Contract!Open /\ Outcome(s)' = Contract!Gone
    BY <2>1 DEF Outcome, Contract!Open, Contract!Gone, Contract!Ending
  <2> QED
    BY <1>1, <1>2, <1>4, <2>2, MappedExcept DEF Contract!Leave
<1> QED
  BY <1>3, <1>4

LEMMA NextMapped ==
  ASSUME IInv, [Next]_vars
  PROVE  [Contract!Next]_(Contract!vars)
<1>1. CASE UNCHANGED vars
  BY <1>1 DEF vars, serverVars, clientVars, Contract!vars, Verdict, Outcome,
              Answer, Closed, IsClosed
<1>2. ASSUME NEW s \in Streams,
             \/ Open(s) \/ Read(s) \/ Resume(s) \/ Leave(s)
             \/ ServerStep(s) /\ UNCHANGED clientVars
      PROVE  [Contract!Next]_(Contract!vars)
  <2>1. CASE Open(s) \/ Resume(s) \/ Leave(s)
    BY <2>1, CallerRestMapped DEF Contract!Next
  <2>2. CASE Read(s)
    BY <2>2, ReadDataMapped, ReadRestMapped DEF Read, Contract!Next
  <2>3. CASE ServerStep(s) /\ UNCHANGED clientVars
    BY <2>3, ThrowMapped, CloseMapped, YieldMapped, SilentServerMapped
       DEF ServerStep, TaskStep, Contract!Next
  <2> QED
    BY <1>2, <2>1, <2>2, <2>3
<1> QED
  BY <1>1, <1>2 DEF Next

\* The whole path, from the agent's generator to the consumer's loop, behaves
\* as the abstract stream: events in order, the agent's verdict last, and only
\* a lost session may cut it short.
THEOREM Refinement == Spec => ImplementsContract
BY InitMapped, NextMapped, Invariance, PTL
   DEF Spec, ImplementsContract, Contract!Spec

=============================================================================
