-------------------------- MODULE GroupStreamProofs --------------------------
(***************************************************************************)
(* Proofs about GroupStream, for every group, every choice of the members  *)
(* that advertise streaming, every set of A2AError types they raise and    *)
(* every bound on their events: the invariant GroupInv and the safety      *)
(* properties that follow from it.                                         *)
(***************************************************************************)
EXTENDS GroupStream, StreamServerProofs, GroupReaderProofs

\* What the two sides' lemmas need of the invariant.
LEMMA GroupParts ==
  ASSUME GroupInv
  PROVE  /\ ServerTypeOK /\ ServerIInv
         /\ ReaderTypeOK /\ ReaderInv /\ WiresInOrder
BY DEF GroupInv, TypeOK, ServerIInv, WiresInOrder, ServerTypeOK, ServerInv

LEMMA GroupInitInv == Init => GroupInv
<1> SUFFICES ASSUME Init PROVE GroupInv
  OBVIOUS
<1>1. \A s \in Streams : wire[s] = << >> /\ task[s] = "idle"
  BY DEF Init, ServerInit
<1>2. ServerTypeOK /\ ReaderTypeOK /\ ReaderInv
  BY <1>1, ServerInitType, ReaderInitHolds DEF Init
<1>3. \A s \in Streams : ServerInv(s)
  BY ServerInitInv DEF Init
<1> QED
  BY <1>1, <1>2, <1>3 DEF GroupInv, TypeOK, Init, ReaderInit

\* The request goes to every member: no wire and no reading changes.
LEMMA OpenGroupInv ==
  ASSUME GroupInv, OpenGroup
  PROVE  GroupInv'
<1> USE GroupParts DEF ServerTypeOK
<1>1. TypeOK'
  BY DEF TypeOK, ReaderTypeOK, OpenGroup, GroupRoutes, TaskStates, ReaderStates
<1>2. ASSUME NEW s \in Streams
      PROVE  ServerInv(s)' /\ task'[s] # "idle" /\ route'[s] \in GroupRoutes
  <2>1. /\ task'[s] = "called" /\ task[s] = "idle" /\ wire'[s] = wire[s]
        /\ thrown'[s] = thrown[s] /\ emitted'[s] = emitted[s]
        /\ route'[s] \in GroupRoutes
    BY DEF OpenGroup, GroupInv
  <2>2. ServerInv(s) /\ ~Closed(s)
    BY <2>1 DEF GroupInv, ServerInv, LockStep
  <2>3. WireInOrder(s)' /\ ~Closed(s)'
    BY <2>1, <2>2 DEF ServerInv, WireInOrder, Closed, IsClosed
  <2>4. LockStep(s)' /\ ClosingFaithful(s)'
    BY <2>1, <2>2, <2>3 DEF ServerInv, LockStep, ClosingFaithful
  <2>5. PendingFaithful(s)'
    BY <2>1, <2>2 DEF ServerInv, PendingFaithful
  <2> QED
    BY <2>1, <2>3, <2>4, <2>5 DEF ServerInv
<1>3. ReaderInv'
  <2>1. /\ taken' = taken /\ yielded' = yielded /\ error' = error
        /\ wire' = wire /\ up' = up
        /\ reader = "idle" /\ reader' = "reading"
    BY DEF OpenGroup
  <2>2. \A s \in Streams : ~Blamed(s) /\ ~Blamed(s)'
    BY <2>1 DEF ReaderInv, ReadsMember, Blamed, Closed
  <2>3. \A s \in Streams : \A e : Got(s, e)' <=> Got(s, e)
    BY <2>1 DEF Got
  <2>4. ASSUME NEW s \in Streams PROVE ReadsMember(s)'
    BY <2>1, <2>2, <2>3 DEF ReaderInv, ReadsMember
  <2> QED
    BY <2>1, <2>4 DEF ReaderInv, ItemsInOrder, ReaderVerdict
<1>4. reader' # "idle"
  BY DEF OpenGroup
<1> QED
  BY <1>1, <1>2, <1>3, <1>4 DEF GroupInv, GroupRoutes

\* The caller reads; the members stay as they are.
LEMMA ReaderStepGroupInv ==
  ASSUME GroupInv, ReaderStep, UNCHANGED serverVars
  PROVE  GroupInv'
<1>1. ReaderTypeOK' /\ ReaderInv'
  BY GroupParts, ReaderStepType, ReaderStepInv DEF serverVars
<1>2. ServerTypeOK'
  BY DEF GroupInv, TypeOK, ServerTypeOK, serverVars
<1>3. \A s \in Streams : ServerInv(s)'
  BY ServerFrame DEF GroupInv, serverVars
<1>4. reader # "idle" /\ reader' # "idle"
  BY
     DEF ReaderStep, ReadGroup, ReadItem, ReadItemError, ReadMemberLost,
         Pending,
         ReadAllEnd, ResumeReading, LeaveGroup
<1> QED
  BY <1>1, <1>2, <1>3, <1>4 DEF GroupInv, TypeOK, GroupRoutes, serverVars

\* What a call addresses is fixed when it is opened.
LEMMA ServerStepRoute ==
  ASSUME NEW s, ServerStep(s)
  PROVE  route' = route
BY DEF ServerStep, TaskStep, Accept, Begin, Return, Yield, ValidateRejects,
       BuildRaises, HandlerRaises, Throw, Send, Close, SendError, SinkOp,
       SinkRaises, SendErrorRaises, Cancel, Drop

\* A member steps; the others and the caller stay as they are.
LEMMA MemberStepGroupInv ==
  ASSUME GroupInv, NEW s \in Streams, ServerStep(s), UNCHANGED readerVars
  PROVE  GroupInv'
<1>1. ServerTypeOK'
  BY GroupParts, ServerStepType
<1>2. ASSUME NEW t \in Streams \ { s }
      PROVE  /\ route'[t] = route[t] /\ task'[t] = task[t]
             /\ emitted'[t] = emitted[t] /\ thrown'[t] = thrown[t]
             /\ guarded'[t] = guarded[t] /\ pending'[t] = pending[t]
             /\ wire'[t] = wire[t] /\ up'[t] = up[t]
  BY GroupParts, ServerStepIsLocal
<1>3. /\ task[s] # "idle" /\ task'[s] # "idle" /\ (up'[s] => up[s])
      /\ Closed(s) => wire'[s] = wire[s]
      /\ Len(wire[s]) \in Nat /\ Len(wire[s]) <= Len(wire'[s])
      /\ Closed(s)' /\ ~Closed(s) => Len(wire'[s]) = Len(wire[s]) + 1
  BY GroupParts, ServerStepGrows
<1>4. ASSUME NEW t \in Streams
      PROVE  /\ ServerInv(t)' /\ (task'[t] = "idle" <=> task[t] = "idle")
             /\ route'[t] = route[t]
  <2>1. CASE t = s
    BY <1>3, <2>1, GroupParts, ServerStepInv, ServerStepRoute
  <2>2. CASE t # s
    BY <1>2, <2>2, ServerFrame DEF GroupInv
  <2> QED
    BY <2>1, <2>2
<1>5. ReaderTypeOK'
  BY DEF GroupInv, TypeOK, ReaderTypeOK, readerVars
<1>6. ReaderInv'
  <2>1. ASSUME NEW t \in Streams
        PROVE  /\ up'[t] => up[t]
               /\ Closed(t) => wire'[t] = wire[t]
               /\ Len(wire'[t]) \in Nat /\ Len(wire[t]) <= Len(wire'[t])
               /\ Closed(t)' /\ ~Closed(t) => Len(wire[t]) < Len(wire'[t])
    <3>1. Len(wire'[t]) \in Nat
      BY <1>1 DEF ServerTypeOK
    <3>2. CASE t = s
      BY <1>3, <3>1, <3>2
    <3>3. CASE t # s
      BY <1>2, <3>1, <3>3 DEF Closed
    <3> QED
      BY <3>2, <3>3
  <2> QED
    BY <2>1, GroupParts, GrowingWireInv
<1> QED
  BY <1>1, <1>4, <1>5, <1>6 DEF GroupInv, GroupRoutes, TypeOK, readerVars

LEMMA GroupNextInv ==
  ASSUME GroupInv, [Next]_vars
  PROVE  GroupInv'
<1>1. CASE UNCHANGED vars
  <2>1. TypeOK'
    BY <1>1 DEF GroupInv, TypeOK, ServerTypeOK, ReaderTypeOK, vars, serverVars,
                readerVars
  <2>2. \A s \in Streams : ServerInv(s)'
    BY <1>1, ServerFrame DEF GroupInv, vars, serverVars
  <2>3. ReaderInv'
    <3>1. \A s \in Streams : Len(wire[s]) \in Nat
      BY GroupParts DEF ServerTypeOK
    <3> QED
      BY <1>1, <3>1, GroupParts, GrowingWireInv
         DEF vars, serverVars, readerVars,
         Closed
  <2> QED
    BY <1>1, <2>1, <2>2, <2>3
       DEF GroupInv, GroupRoutes, vars, serverVars, readerVars
<1> QED
  BY <1>1, OpenGroupInv, ReaderStepGroupInv, MemberStepGroupInv DEF Next

\* The inductive invariant: members, wires and the one reader stay in step
\* whatever is interleaved, cancelled or lost.
THEOREM GroupInvariance == Spec => []GroupInv
BY GroupInitInv, GroupNextInv, PTL DEF Spec

-----------------------------------------------------------------------------
\* How far a member's reading can be, seen from its agent.
LEMMA ReadUpTo ==
  ASSUME GroupInv, NEW s \in Streams
  PROVE  /\ taken[s] \in Nat /\ emitted[s] \in Nat /\ Len(wire[s]) \in Nat
         /\ taken[s] <= Len(wire[s])
         /\ Closed(s) => emitted[s] + 1 = Len(wire[s])
         /\ Blamed(s) => emitted[s] = taken[s] - 1
         /\ ~Blamed(s) => taken[s] <= emitted[s]
         /\ Blamed(s) => \A e \in 1 .. taken[s] - 1 : Got(s, e)
         /\ ~Blamed(s) => \A e \in 1 .. taken[s] : Got(s, e)
<1>1. taken[s] \in Nat /\ emitted[s] \in Nat /\ Len(wire[s]) \in Nat
  BY GroupParts DEF ServerTypeOK, ReaderTypeOK
<1>2. LockStep(s) /\ ReadsMember(s)
  BY DEF GroupInv, ServerInv, ReaderInv
<1>3. /\ taken[s] <= Len(wire[s])
      /\ Blamed(s) => \A e \in 1 .. taken[s] - 1 : Got(s, e)
      /\ ~Blamed(s) => \A e \in 1 .. taken[s] : Got(s, e)
  BY <1>2 DEF ReadsMember
<1>4. /\ Closed(s) => emitted[s] + 1 = Len(wire[s])
      /\ ~Closed(s) => emitted[s] \in { Len(wire[s]), Len(wire[s]) + 1 }
  BY <1>2 DEF LockStep
<1> QED
  BY <1>1, <1>3, <1>4 DEF Blamed

LEMMA InvImpliesDemuxInOrder == GroupInv => DemuxInOrder
<1> SUFFICES ASSUME GroupInv, NEW i \in DOMAIN yielded
             PROVE  yielded[i].event \in 1 .. emitted[yielded[i].source]
  BY DEF DemuxInOrder, GroupInv, ReaderInv
<1> DEFINE s == yielded[i].source
<1>1. yielded \in Seq([ source : Streams, event : Nat ])
  BY GroupParts DEF ReaderTypeOK
<1>2. yielded[i] \in [ source : Streams, event : Nat ]
  <2> DEFINE S == [ source : Streams, event : Nat ]
  <2>1. yielded \in Seq(S)
    BY <1>1
  <2> HIDE DEF S
  <2>2. yielded[i] \in S
    BY <2>1
  <2> QED
    BY <2>2 DEF S
<1>3. s \in Streams
  BY <1>2
<1>4. ReadsMember(s)
  BY <1>3 DEF GroupInv, ReaderInv
<1>5. /\ Blamed(s) => yielded[i].event \in 1 .. taken[s] - 1
      /\ ~Blamed(s) => yielded[i].event \in 1 .. taken[s]
  BY <1>4 DEF ReadsMember
<1> QED
  BY <1>3, <1>5, ReadUpTo

LEMMA InvImpliesEndOfAll == GroupInv => EndOfAll
<1> SUFFICES ASSUME GroupInv, reader = "ended", NEW s \in Streams
             PROVE  /\ thrown[s].kind = "ok"
                    /\ \A e \in 1 .. emitted[s] : Got(s, e)
  BY DEF EndOfAll
<1>1. HasEnded(s)
  BY DEF GroupInv, ReaderInv, ReaderVerdict
<1>2. Closed(s) /\ Closing(s).kind = "end" /\ taken[s] + 1 = Len(wire[s])
  BY <1>1 DEF HasEnded
<1>3. ~Blamed(s) /\ taken[s] = emitted[s]
  BY <1>2, ReadUpTo DEF Blamed
<1>4. ClosingFaithful(s)
  BY DEF GroupInv, ServerInv
<1> QED
  BY <1>2, <1>3, <1>4, ReadUpTo DEF ClosingFaithful

LEMMA InvImpliesGroupFailure == GroupInv => GroupFailure
<1> SUFFICES ASSUME GroupInv, reader = "raised",
                    ~(error = TransportStatus /\ \E s \in Streams : ~up[s])
             PROVE  \E s \in Streams :
                      /\ thrown[s].kind # "ok" /\ error = Answer(s)
                      /\ \A e \in 1 .. emitted[s] : Got(s, e)
  BY DEF GroupFailure
<1>1. PICK s \in Streams : Blamed(s) /\ error = Closing(s).status
  BY DEF GroupInv, ReaderInv, ReaderVerdict
<1>2. Closed(s) /\ Closing(s).kind = "error"
  BY <1>1 DEF GroupInv, ReaderInv, ReadsMember, Blamed
<1>3. ClosingFaithful(s)
  BY DEF GroupInv, ServerInv
<1>4. thrown[s].kind # "ok" /\ error = Answer(s)
  BY <1>1, <1>2, <1>3 DEF ClosingFaithful
<1>5. \A e \in 1 .. emitted[s] : Got(s, e)
  BY <1>1, ReadUpTo
<1> QED
  BY <1>4, <1>5

\* The pairs of one source are that member's events, in order and each once.
THEOREM DemuxInOrderHolds == Spec => []DemuxInOrder
BY GroupInvariance, InvImpliesDemuxInOrder, PTL

\* A merged loop that ends well has handed over all that anybody yielded.
THEOREM EndOfAllHolds == Spec => []EndOfAll
BY GroupInvariance, InvImpliesEndOfAll, PTL

\* A raised error is a lost session's, or one member's own after its events.
THEOREM GroupFailureHolds == Spec => []GroupFailure
BY GroupInvariance, InvImpliesGroupFailure, PTL

-----------------------------------------------------------------------------
(***************************************************************************)
(* Watched's part of the group call implements StreamContract, and Watched *)
(* is any member.                                                          *)
(***************************************************************************)
LEMMA VerdictValues ==
  ASSUME NEW s
  PROVE  /\ thrown[s].kind # "ok" => Verdict(s) = Member!Failed(Answer(s))
         /\ thrown[s].kind = "ok" /\ Closed(s) => Verdict(s) = Member!Complete
         /\ thrown[s].kind = "ok" /\ ~Closed(s) => Verdict(s) = Member!Open
BY DEF Verdict, Member!Failed, Member!Complete, Member!Open, Member!Ending

LEMMA OutcomeValues ==
  ASSUME NEW s, reader \in ReaderStates
  PROVE  /\ reader = "ended" => Outcome(s) = Member!Complete
         /\ reader = "raised" /\ (Blamed(s) \/ error = TransportStatus) =>
              Outcome(s) = Member!Failed(error)
         /\ reader = "raised" /\ ~(Blamed(s) \/ error = TransportStatus) =>
              Outcome(s) = Member!Gone
         /\ reader = "left" => Outcome(s) = Member!Gone
         /\ reader \in { "idle", "reading", "held" } => Outcome(s) = Member!Open
BY DEF Outcome, ReaderStates, Member!Failed, Member!Complete, Member!Open,
       Member!Gone, Member!Ending

\* Of Watched, the consumer can rebuild the events 1, 2, ... up to the last
\* handed over.
LEMMA DeliveredNumbers ==
  GroupInv => /\ HandedOver(Watched) \in Nat
              /\ Delivered(Watched) = [k \in 1 .. HandedOver(Watched) |-> k]
<1> SUFFICES ASSUME GroupInv
             PROVE  /\ HandedOver(Watched) \in Nat
                    /\ Delivered(Watched) =
                         [k \in 1 .. HandedOver(Watched) |-> k]
  OBVIOUS
<1> DEFINE n == HandedOver(Watched)
<1>1. n \in Nat
  BY GroupParts, WatchedAssumption, PlacesAreEvents
<1>2. YieldedFrom(Watched) = [k \in 1 .. n |-> Item(Watched, k)]
  BY GroupParts, WatchedAssumption, RebuiltFromSource
<1> HIDE DEF n
<1>3. DOMAIN YieldedFrom(Watched) = 1 .. n
  BY <1>2
<1>4. \A k \in 1 .. n : YieldedFrom(Watched)[k].event = k
  BY <1>2 DEF Item
<1>5. Delivered(Watched) = [k \in 1 .. n |-> k]
  BY <1>3, <1>4 DEF Delivered
<1> QED
  BY <1>1, <1>5 DEF n

\* Counting on by one.
LEMMA NumbersAppend ==
  ASSUME NEW n \in Nat
  PROVE  /\ Len([k \in 1 .. n |-> k]) = n
         /\ [k \in 1 .. n + 1 |-> k] = Append([k \in 1 .. n |-> k], n + 1)
<1> DEFINE q == [k \in 1 .. n |-> k]
<1>1. q \in Seq(Nat) /\ Len(q) = n /\ DOMAIN q = 1 .. n
  OBVIOUS
<1>2. \A k \in 1 .. n : q[k] = k
  OBVIOUS
<1> HIDE DEF q
<1>3. /\ Append(q, n + 1) \in Seq(Nat) /\ DOMAIN Append(q, n + 1) = 1 .. n + 1
      /\ \A k \in 1 .. n : Append(q, n + 1)[k] = q[k]
      /\ Append(q, n + 1)[n + 1] = n + 1
  BY <1>1
<1>4. \A k \in 1 .. n + 1 : Append(q, n + 1)[k] = k
  BY <1>2, <1>3
<1>5. Append(q, n + 1) = [k \in DOMAIN Append(q, n + 1) |-> Append(q, n + 1)[k]]
  BY <1>3
<1>6. [k \in 1 .. n + 1 |-> k] = Append(q, n + 1)
  BY <1>3, <1>4, <1>5
<1> QED
  BY <1>1, <1>6 DEF q

\* A step that changes nothing the contract sees of Watched.
LEMMA Unseen ==
  ASSUME emitted'[Watched] = emitted[Watched],
         Verdict(Watched)' = Verdict(Watched),
         yielded' = yielded,
         Outcome(Watched)' = Outcome(Watched)
  PROVE  UNCHANGED Member!vars
<1>1. Delivered(Watched)' = Delivered(Watched)
  BY DEF Delivered, YieldedFrom, Places, Place
<1>2. /\ [s \in { Watched } |-> emitted[s]]' = [s \in { Watched } |-> emitted[s]]
      /\ [s \in { Watched } |-> Verdict(s)]' =
           [s \in { Watched } |-> Verdict(s)]
      /\ [s \in { Watched } |-> Delivered(s)]' =
           [s \in { Watched } |-> Delivered(s)]
      /\ [s \in { Watched } |-> Outcome(s)]' =
           [s \in { Watched } |-> Outcome(s)]
  BY <1>1
<1> QED
  BY <1>2 DEF Member!vars

LEMMA InitMapped == Init => Member!Init
<1> SUFFICES ASSUME Init PROVE Member!Init
  OBVIOUS
<1>1. GroupInv
  BY GroupInitInv
<1>2. /\ wire[Watched] = << >> /\ thrown[Watched].kind = "ok"
      /\ emitted[Watched] = 0 /\ taken[Watched] = 0 /\ reader = "idle"
  BY WatchedAssumption DEF Init, ServerInit, ReaderInit, NoException
<1>3. Verdict(Watched) = Member!Open
  BY <1>2, VerdictValues DEF Closed, IsClosed
<1>4. Outcome(Watched) = Member!Open
  BY <1>2, OutcomeValues DEF ReaderStates
<1>5. Delivered(Watched) = << >>
  <2>1. HandedOver(Watched) = 0
    BY <1>2 DEF HandedOver, Blamed, Closed, IsClosed
  <2> QED
    BY <1>1, <2>1, DeliveredNumbers
<1>6. /\ [s \in { Watched } |-> emitted[s]] = [s \in { Watched } |-> 0]
      /\ [s \in { Watched } |-> Verdict(s)] =
           [s \in { Watched } |-> Member!Open]
      /\ [s \in { Watched } |-> Delivered(s)] =
           [s \in { Watched } |-> << >>]
      /\ [s \in { Watched } |-> Outcome(s)] =
           [s \in { Watched } |-> Member!Open]
  BY <1>2, <1>3, <1>4, <1>5
<1> QED
  BY <1>6 DEF Member!Init

\* The request is not seen yet.
LEMMA OpenGroupMapped ==
  ASSUME GroupInv, OpenGroup
  PROVE  UNCHANGED Member!vars
<1>1. /\ UNCHANGED <<emitted, thrown, wire, yielded>>
      /\ reader = "idle" /\ reader' = "reading"
  BY DEF OpenGroup
<1>2. thrown[Watched].kind = "ok"
  BY <1>1, WatchedAssumption DEF GroupInv, ServerInv, PendingFaithful
<1>3. Verdict(Watched)' = Verdict(Watched)
  BY <1>1, <1>2 DEF Verdict, Closed, IsClosed
<1>4. Outcome(Watched)' = Outcome(Watched)
  BY <1>1 DEF Outcome
<1> QED
  BY <1>1, <1>3, <1>4, Unseen

-----------------------------------------------------------------------------
\* The reader's steps leave the members, and so the verdict, as they are.
LEMMA VerdictWhileRead ==
  ASSUME UNCHANGED serverVars
  PROVE  /\ emitted' = emitted
         /\ Verdict(Watched)' = Verdict(Watched)
BY DEF Verdict, Answer, Closed, IsClosed, serverVars

\* A pair is handed over: Watched's next event, or another's.
LEMMA ReadItemMapped ==
  ASSUME GroupInv, NEW s \in Streams, ReadItem(s), UNCHANGED serverVars
  PROVE  [Member!Next]_(Member!vars)
<1> DEFINE n == HandedOver(Watched)
<1>1. reader = "reading" /\ reader' = "held"
  BY DEF ReadItem, Pending
<1>2. Outcome(Watched) = Member!Open /\ Outcome(Watched)' = Member!Open
  BY <1>1 DEF Outcome, Member!Open, Member!Ending
<1>3. /\ n \in Nat
      /\ Delivered(Watched) = [k \in 1 .. n |-> k]
  BY DeliveredNumbers
<1>4. Delivered(Watched)' = [k \in 1 .. n' |-> k]
  <2>1. GroupInv'
    BY ReaderStepGroupInv DEF ReaderStep, ReadGroup
  <2>2. (Delivered(Watched) = [k \in 1 .. HandedOver(Watched) |-> k])'
    BY <2>1, DeliveredNumbers, PTL
  <2> QED
    BY <2>2
<1>5. ~Blamed(Watched) /\ ~Blamed(Watched)'
  <2>1. ReadsMember(Watched) /\ ReadsMember(Watched)'
    <3>1. GroupInv'
      BY ReaderStepGroupInv DEF ReaderStep, ReadGroup
    <3> QED
      BY <3>1, WatchedAssumption DEF GroupInv, ReaderInv
  <2> QED
    BY <1>1, <2>1 DEF ReadsMember
<1>6. n = taken[Watched] /\ n' = taken'[Watched]
  BY <1>5 DEF HandedOver
<1>7. CASE s # Watched
  <2>1. n' = n
    BY <1>6, <1>7, GroupParts, WatchedAssumption DEF ReadItem, ReaderTypeOK
  <2>2. Delivered(Watched)' = Delivered(Watched)
    BY <1>3, <1>4, <2>1
  <2>3. UNCHANGED Member!vars
    <3>1. /\ [t \in { Watched } |-> emitted[t]]' =
               [t \in { Watched } |-> emitted[t]]
          /\ [t \in { Watched } |-> Verdict(t)]' =
               [t \in { Watched } |-> Verdict(t)]
          /\ [t \in { Watched } |-> Delivered(t)]' =
               [t \in { Watched } |-> Delivered(t)]
          /\ [t \in { Watched } |-> Outcome(t)]' =
               [t \in { Watched } |-> Outcome(t)]
      BY <1>2, <2>2, VerdictWhileRead
    <3> QED
      BY <3>1 DEF Member!vars
  <2> QED
    BY <2>3
<1>8. CASE s = Watched
  <2>1. n' = n + 1
    BY <1>6, <1>8, GroupParts DEF ReadItem, ReaderTypeOK
  <2>2. n < emitted[Watched]
    <3>1. /\ taken[s] \in Nat /\ Len(wire[s]) \in Nat
          /\ wire[s][taken[s] + 1].kind = "data" /\ taken[s] < Len(wire[s])
      BY GroupParts, PendingMessage DEF ReadItem, Pending
    <3>2. Closed(s) => taken[s] + 1 # Len(wire[s])
      BY <3>1 DEF Closed, IsClosed
    <3>3. LockStep(s) /\ emitted[s] \in Nat
      BY GroupParts DEF GroupInv, ServerInv, ServerTypeOK
    <3> QED
      BY <1>6, <1>8, <3>1, <3>2, <3>3 DEF LockStep
  <2>3. /\ Len(Delivered(Watched)) = n
        /\ Delivered(Watched)' = Append(Delivered(Watched), n + 1)
    <3> HIDE DEF n
    <3> QED
      BY <1>3, <1>4, <2>1, NumbersAppend
  <2>4. /\ [t \in { Watched } |-> emitted[t]]' =
             [t \in { Watched } |-> emitted[t]]
        /\ [t \in { Watched } |-> Verdict(t)]' =
             [t \in { Watched } |-> Verdict(t)]
        /\ [t \in { Watched } |-> Outcome(t)]' =
             [t \in { Watched } |-> Outcome(t)]
    BY <1>2, VerdictWhileRead
  <2>5. [t \in { Watched } |-> Delivered(t)]' =
          [[t \in { Watched } |-> Delivered(t)]
             EXCEPT ![Watched] = Append(@, Len(@) + 1)]
    BY <2>3
  <2>6. Member!Deliver(Watched)
    BY <1>2, <2>2, <2>3, <2>4, <2>5 DEF Member!Deliver
  <2> QED
    BY <2>6 DEF Member!Next
<1> QED
  BY <1>7, <1>8

\* The end of the reader's loop, seen from Watched.
LEMMA SettledByReader ==
  ASSUME UNCHANGED serverVars, yielded' = yielded,
         Outcome(Watched) = Member!Open,
         \/ Outcome(Watched)' = Member!Gone
         \/ Outcome(Watched)' = Member!Failed(TransportStatus)
         \/ /\ Verdict(Watched) # Member!Open
            /\ Len(Delivered(Watched)) = emitted[Watched]
            /\ Outcome(Watched)' = Verdict(Watched)
  PROVE  Member!Next
<1>1. Delivered(Watched)' = Delivered(Watched)
  BY DEF Delivered, YieldedFrom, Places, Place
<1>2. /\ [s \in { Watched } |-> emitted[s]]' = [s \in { Watched } |-> emitted[s]]
      /\ [s \in { Watched } |-> Verdict(s)]' =
           [s \in { Watched } |-> Verdict(s)]
      /\ [s \in { Watched } |-> Delivered(s)]' =
           [s \in { Watched } |-> Delivered(s)]
      /\ [s \in { Watched } |-> Outcome(s)]' =
           [[s \in { Watched } |-> Outcome(s)]
              EXCEPT ![Watched] = Outcome(Watched)']
  BY <1>1, VerdictWhileRead
<1>3. CASE Outcome(Watched)' = Member!Gone
  <2>1. Member!Leave(Watched)
    BY <1>2, <1>3 DEF Member!Leave
  <2> QED
    BY <2>1 DEF Member!Next
<1>4. CASE \/ Outcome(Watched)' = Member!Failed(TransportStatus)
           \/ /\ Verdict(Watched) # Member!Open
              /\ Len(Delivered(Watched)) = emitted[Watched]
              /\ Outcome(Watched)' = Verdict(Watched)
  <2>1. Member!Settle(Watched)
    BY <1>2, <1>4 DEF Member!Settle
  <2> QED
    BY <2>1 DEF Member!Next
<1> QED
  BY <1>3, <1>4

\* How many events have been handed over when the closing message is next.
LEMMA AllDelivered ==
  ASSUME GroupInv, reader = "reading", Closed(Watched),
         taken[Watched] + 1 = Len(wire[Watched])
  PROVE  Len(Delivered(Watched)) = emitted[Watched]
<1>1. /\ taken[Watched] \in Nat /\ emitted[Watched] \in Nat
      /\ emitted[Watched] + 1 = Len(wire[Watched])
  BY WatchedAssumption, ReadUpTo
<1>2. taken[Watched] = emitted[Watched] /\ ~Blamed(Watched)
  BY <1>1 DEF Blamed
<1>3. Delivered(Watched) = [k \in 1 .. emitted[Watched] |-> k]
  BY <1>2, DeliveredNumbers DEF HandedOver
<1> QED
  BY <1>1, <1>3, NumbersAppend

\* A member's error, or a lost session, is raised: the caller is told Watched's
\* own error after its last event, the carrier's failure, or, when the error is
\* another member's, leaves Watched's call.
LEMMA RaisedMapped ==
  ASSUME GroupInv, NEW s \in Streams, ReadItemError(s) \/ ReadMemberLost(s),
         UNCHANGED serverVars
  PROVE  Member!Next
<1>1. reader = "reading" /\ reader' = "raised" /\ yielded' = yielded
  BY DEF ReadItemError, ReadMemberLost, Pending
<1>2. Outcome(Watched) = Member!Open
  BY <1>1 DEF Outcome, Member!Open, Member!Ending
<1>3. /\ Blamed(Watched)' \/ error' = TransportStatus =>
           Outcome(Watched)' = Member!Failed(error')
      /\ ~(Blamed(Watched)' \/ error' = TransportStatus) =>
           Outcome(Watched)' = Member!Gone
  BY <1>1 DEF Outcome, Member!Failed, Member!Gone, Member!Ending
<1>4. CASE error' = TransportStatus
  BY <1>1, <1>2, <1>3, <1>4, SettledByReader
<1>5. CASE ~Blamed(Watched)' /\ error' # TransportStatus
  BY <1>1, <1>2, <1>3, <1>5, SettledByReader
<1>6. CASE Blamed(Watched)' /\ error' # TransportStatus
  <2>1. ReadItemError(s)
    BY <1>6 DEF ReadMemberLost
  <2>2. s = Watched
    <3>1. ~Blamed(Watched)
      BY <1>1, WatchedAssumption DEF GroupInv, ReaderInv, ReadsMember
    <3>2. s # Watched => taken'[Watched] = taken[Watched]
      BY <2>1, GroupParts, WatchedAssumption DEF ReadItemError, ReaderTypeOK
    <3> QED
      BY <1>6, <3>1, <3>2 DEF Blamed, Closed, serverVars
  <2>3. /\ Closed(s) /\ taken[s] + 1 = Len(wire[s])
        /\ error' = Closing(s).status /\ Closing(s).kind = "error"
    <3>1. /\ taken[s] + 1 = Len(wire[s]) /\ taken[s] + 1 \in DOMAIN wire[s]
          /\ wire[s][taken[s] + 1].kind = "error"
      BY <2>1, GroupParts, PendingMessage DEF ReadItemError
    <3>2. error' = wire[s][taken[s] + 1].status
      BY <2>1 DEF ReadItemError
    <3>3. wire[s] # << >>
      BY <3>1
    <3> QED
      BY <3>1, <3>2, <3>3 DEF Closed, IsClosed, Closing, LastOf
  <2>4. thrown[s].kind # "ok" /\ error' = Answer(s)
    BY <2>3 DEF GroupInv, ServerInv, ClosingFaithful
  <2>5. Verdict(Watched) = Member!Failed(error')
    BY <2>2, <2>4, VerdictValues
  <2>6. Member!Failed(error') # Member!Open
    BY DEF Member!Failed, Member!Open, Member!Ending
  <2>7. Len(Delivered(Watched)) = emitted[Watched]
    BY <1>1, <2>2, <2>3, AllDelivered
  <2>8. Outcome(Watched)' = Verdict(Watched)
    BY <1>3, <1>6, <2>5
  <2> QED
    BY <1>1, <1>2, <2>5, <2>6, <2>7, <2>8, SettledByReader
<1> QED
  BY <1>4, <1>5, <1>6

\* The loop ends when every member's response has, Watched's among them.
LEMMA ReadAllEndMapped ==
  ASSUME GroupInv, ReadAllEnd, UNCHANGED serverVars
  PROVE  Member!Next
<1>1. reader = "reading" /\ reader' = "ended" /\ yielded' = yielded
  BY DEF ReadAllEnd
<1>2. /\ Outcome(Watched) = Member!Open
      /\ Outcome(Watched)' = Member!Complete
  BY <1>1 DEF Outcome, Member!Open, Member!Complete, Member!Ending
<1>3. /\ Closed(Watched) /\ Closing(Watched).kind = "end"
      /\ taken[Watched] + 1 = Len(wire[Watched])
  BY WatchedAssumption DEF ReadAllEnd, HasEnded
<1>4. thrown[Watched].kind = "ok"
  BY <1>3, WatchedAssumption DEF GroupInv, ServerInv, ClosingFaithful
<1>5. Verdict(Watched) = Member!Complete
  BY <1>3, <1>4, VerdictValues
<1>6. Member!Complete # Member!Open
  BY DEF Member!Complete, Member!Open, Member!Ending
<1>7. Len(Delivered(Watched)) = emitted[Watched]
  BY <1>1, <1>3, AllDelivered
<1> QED
  BY <1>1, <1>2, <1>5, <1>6, <1>7, SettledByReader

\* The caller asks for the next pair, or leaves the loop.
LEMMA QuietReaderMapped ==
  ASSUME GroupInv, ResumeReading \/ LeaveGroup, UNCHANGED serverVars
  PROVE  [Member!Next]_(Member!vars)
<1>1. /\ reader \in { "reading", "held" } /\ yielded' = yielded
      /\ reader' \in { "reading", "left" }
  BY DEF ResumeReading, LeaveGroup
<1>2. Outcome(Watched) = Member!Open
  BY <1>1 DEF Outcome, Member!Open, Member!Ending
<1>3. CASE reader' = "reading"
  <2>1. Outcome(Watched)' = Member!Open
    BY <1>3 DEF Outcome, Member!Open, Member!Ending
  <2> QED
    BY <1>1, <1>2, <2>1, VerdictWhileRead, Unseen
<1>4. CASE reader' = "left"
  <2>1. Outcome(Watched)' = Member!Gone
    BY <1>4 DEF Outcome, Member!Gone, Member!Ending
  <2> QED
    BY <1>1, <1>2, <2>1, SettledByReader
<1> QED
  BY <1>1, <1>3, <1>4

-----------------------------------------------------------------------------
\* While members step the outcome stays: nothing is handed over, and a member
\* to blame stays the one to blame.
LEMMA OutcomeWhileMembersStep ==
  ASSUME GroupInv, NEW s \in Streams, ServerStep(s), UNCHANGED readerVars
  PROVE  Outcome(Watched)' = Outcome(Watched)
<1>1. reader' = reader /\ error' = error /\ taken' = taken
  BY DEF readerVars
<1>2. /\ Closed(Watched) => wire'[Watched] = wire[Watched]
      /\ Closed(Watched)' /\ ~Closed(Watched) =>
           Len(wire'[Watched]) = Len(wire[Watched]) + 1
  <2>1. CASE s = Watched
    BY <2>1, GroupParts, ServerStepGrows
  <2>2. CASE s # Watched
    <3>1. wire'[Watched] = wire[Watched]
      BY <2>2, GroupParts, WatchedAssumption, ServerStepIsLocal
    <3> QED
      BY <3>1 DEF Closed
  <2> QED
    BY <2>1, <2>2
<1>3. /\ Len(wire[Watched]) \in Nat /\ taken[Watched] \in Nat
      /\ taken[Watched] <= Len(wire[Watched])
  BY WatchedAssumption, ReadUpTo
<1>4. Blamed(Watched)' <=> Blamed(Watched)
  BY <1>1, <1>2, <1>3 DEF Blamed, Closed
<1> QED
  BY <1>1, <1>4 DEF Outcome

\* A step of Watched's own that leaves its verdict open or as it was.
LEMMA SeenOfWatched ==
  ASSUME Outcome(Watched)' = Outcome(Watched), yielded' = yielded
  PROVE  /\ [t \in { Watched } |-> Outcome(t)]' =
              [t \in { Watched } |-> Outcome(t)]
         /\ [t \in { Watched } |-> Delivered(t)]' =
              [t \in { Watched } |-> Delivered(t)]
         /\ [t \in { Watched } |-> Verdict(t)]' =
              [[t \in { Watched } |-> Verdict(t)]
                 EXCEPT ![Watched] = Verdict(Watched)']
         /\ [t \in { Watched } |-> emitted[t]]' =
              [[t \in { Watched } |-> emitted[t]]
                 EXCEPT ![Watched] = emitted'[Watched]]
<1>1. Delivered(Watched)' = Delivered(Watched)
  BY DEF Delivered, YieldedFrom, Places, Place
<1> QED
  BY <1>1

\* The statuses a member's agent is answered with are those the contract is
\* given: the multicast transport calls v1.0 methods only.
LEMMA AnswerIsAgentStatus ==
  ASSUME NEW r \in GroupRoutes,
         NEW e \in Raised \cup { A2AError("UnsupportedOperationError") },
         NEW inTry \in BOOLEAN
  PROVE  StatusFor(VersionOf(r), inTry, e) \in AgentStatuses
BY DEF AgentStatuses, GroupRoutes

\* Watched's generator raises: its source concludes with the answer.
LEMMA ThrowMapped ==
  ASSUME GroupInv, UNCHANGED readerVars,
         \/ ValidateRejects(Watched) \/ BuildRaises(Watched)
         \/ HandlerRaises(Watched)
  PROVE  Member!Conclude(Watched)
<1>1. PICK e \in Raised \cup { A2AError("UnsupportedOperationError") },
           inTry \in BOOLEAN :
        /\ Throw(Watched, e, inTry) /\ task[Watched] \in { "start", "pull" }
        /\ e.kind # "ok"
  BY RaisedType DEF ValidateRejects, BuildRaises, HandlerRaises, BuildsInsideTry
<1>2. /\ thrown'[Watched] = e /\ guarded'[Watched] = inTry
      /\ route'[Watched] = route[Watched] /\ emitted' = emitted
  BY <1>1, GroupParts, WatchedAssumption DEF ServerTypeOK, Throw
<1>3. Answer(Watched)' \in AgentStatuses
  <2>1. route[Watched] \in GroupRoutes
    BY <1>1, WatchedAssumption DEF GroupInv
  <2> QED
    BY <1>2, <2>1, AnswerIsAgentStatus DEF Answer
<1>4. Verdict(Watched)' = Member!Failed(Answer(Watched)')
  BY <1>1, <1>2 DEF Verdict, Member!Failed, Member!Ending, Answer
<1>5. Verdict(Watched) = Member!Open
  BY <1>1, WatchedAssumption, VerdictValues
     DEF GroupInv, ServerInv, PendingFaithful, LockStep
<1>6. Outcome(Watched)' = Outcome(Watched)
  BY WatchedAssumption, OutcomeWhileMembersStep DEF ServerStep, TaskStep
<1>7. [t \in { Watched } |-> emitted[t]]' = [t \in { Watched } |-> emitted[t]]
  BY <1>2
<1> QED
  BY <1>3, <1>4, <1>5, <1>6, <1>7, SeenOfWatched
     DEF Member!Conclude, readerVars

\* handle closes Watched's sink: its source concludes well.
LEMMA CloseMapped ==
  ASSUME GroupInv, UNCHANGED readerVars, Close(Watched)
  PROVE  Member!Conclude(Watched)
<1>1. EndMark \in Messages /\ EndMark.kind = "end"
  BY MessageTypes DEF EndMark
<1>2. SinkOp(Watched, "close", EndMark, "done") /\ task[Watched] = "close"
  BY DEF Close, SinkOp
<1>3. Closed(Watched)' /\ thrown'[Watched] = thrown[Watched]
  BY <1>1, <1>2, GroupParts, WatchedAssumption, SinkOpFacts DEF Closed, IsClosed
<1>4. thrown[Watched].kind = "ok" /\ ~Closed(Watched)
  BY <1>2, WatchedAssumption DEF GroupInv, ServerInv, PendingFaithful, LockStep
<1>5. Verdict(Watched) = Member!Open
  BY <1>4, VerdictValues
<1>6. Verdict(Watched)' = Member!Complete
  BY <1>3, <1>4 DEF Verdict, Member!Complete, Member!Ending
<1>7. Outcome(Watched)' = Outcome(Watched)
  BY WatchedAssumption, OutcomeWhileMembersStep DEF ServerStep, TaskStep
<1>8. [t \in { Watched } |-> emitted[t]]' = [t \in { Watched } |-> emitted[t]]
  BY <1>2 DEF SinkOp
<1> QED
  BY <1>5, <1>6, <1>7, <1>8, SeenOfWatched DEF Member!Conclude, readerVars

LEMMA YieldMapped ==
  ASSUME GroupInv, UNCHANGED readerVars, Yield(Watched)
  PROVE  Member!Produce(Watched)
<1>1. /\ task[Watched] = "pull" /\ emitted'[Watched] = emitted[Watched] + 1
      /\ UNCHANGED <<route, thrown, guarded, wire>>
  BY GroupParts, WatchedAssumption DEF Yield, ServerTypeOK
<1>2. Verdict(Watched) = Member!Open
  BY <1>1, WatchedAssumption, VerdictValues
     DEF GroupInv, ServerInv, PendingFaithful, LockStep
<1>3. Verdict(Watched)' = Verdict(Watched)
  BY <1>1 DEF Verdict, Answer, Closed, IsClosed
<1>4. Outcome(Watched)' = Outcome(Watched)
  BY WatchedAssumption, OutcomeWhileMembersStep DEF ServerStep, TaskStep
<1>5. [t \in { Watched } |-> Verdict(t)]' = [t \in { Watched } |-> Verdict(t)]
  BY <1>3
<1>6. [t \in { Watched } |-> emitted[t]]' =
        [[t \in { Watched } |-> emitted[t]] EXCEPT ![Watched] = @ + 1]
  BY <1>1
<1> QED
  BY <1>2, <1>4, <1>5, <1>6, SeenOfWatched DEF Member!Produce, readerVars

\* The steps of Watched's task that its caller cannot tell from nothing.
LEMMA SilentServerMapped ==
  ASSUME GroupInv, UNCHANGED readerVars,
         \/ Accept(Watched) \/ Begin(Watched) \/ Return(Watched)
         \/ Send(Watched) \/ SendError(Watched) \/ SinkRaises(Watched)
         \/ SendErrorRaises(Watched) \/ Cancel(Watched) \/ Drop(Watched)
  PROVE  UNCHANGED Member!vars
<1>1. /\ emitted' = emitted /\ thrown' = thrown /\ route' = route
      /\ guarded' = guarded
  BY DEF Accept, Begin, Return, Send, SendError, SinkOp, SinkRaises,
         SendErrorRaises, Cancel, Drop
<1>2. ServerInv(Watched) /\ ServerIInv
  BY GroupParts, WatchedAssumption DEF GroupInv
<1>3. ASSUME thrown[Watched].kind = "ok"
      PROVE  Closed(Watched)' = Closed(Watched)
  <2>1. CASE Send(Watched)
    <3>1. PICK m \in Messages :
            SinkOp(Watched, "send", m, "pull") /\ m.kind = "data"
      <4>1. emitted[Watched] \in Nat
        BY <1>2, WatchedAssumption DEF ServerIInv, ServerTypeOK
      <4>2. /\ Data(emitted[Watched]) \in Messages
            /\ Data(emitted[Watched]).kind = "data"
        BY <4>1, MessageTypes DEF Data
      <4> QED
        BY <2>1, <4>2 DEF Send
    <3>2. ~Closed(Watched)'
      BY <1>2, <3>1, WatchedAssumption, SinkOpFacts DEF Closed, IsClosed
    <3>3. ~Closed(Watched)
      BY <1>2, <2>1 DEF Send, SinkOp, ServerInv, LockStep
    <3> QED
      BY <3>2, <3>3 DEF Closed, IsClosed
  <2>2. CASE SendError(Watched)
    BY <1>2, <1>3, <2>2 DEF SendError, SinkOp, ServerInv, PendingFaithful
  <2>3. CASE UNCHANGED wire
    BY <2>3 DEF Closed, IsClosed
  <2> QED
    BY <2>1, <2>2, <2>3
       DEF Accept, Begin, Return, SinkRaises, SendErrorRaises, Cancel, Drop
<1>4. Verdict(Watched)' = Verdict(Watched)
  BY <1>1, <1>3 DEF Verdict, Answer
<1>5. Outcome(Watched)' = Outcome(Watched)
  BY WatchedAssumption, OutcomeWhileMembersStep DEF ServerStep, TaskStep
<1> QED
  BY <1>1, <1>4, <1>5, Unseen DEF readerVars

\* A member's step, seen from Watched: another's is nothing.
LEMMA MemberStepMapped ==
  ASSUME GroupInv, NEW s \in Streams, ServerStep(s), UNCHANGED readerVars
  PROVE  [Member!Next]_(Member!vars)
<1>1. CASE s # Watched
  <2>1. emitted'[Watched] = emitted[Watched]
        /\ Verdict(Watched)' = Verdict(Watched)
    BY <1>1, GroupParts, WatchedAssumption, ServerStepIsLocal
       DEF Verdict, Answer, Closed
  <2>2. Outcome(Watched)' = Outcome(Watched)
    BY OutcomeWhileMembersStep
  <2> QED
    BY <2>1, <2>2, Unseen DEF readerVars
<1>2. CASE s = Watched
  BY <1>2, ThrowMapped, CloseMapped, YieldMapped, SilentServerMapped
     DEF ServerStep, TaskStep, Member!Next
<1> QED
  BY <1>1, <1>2

LEMMA NextMapped ==
  ASSUME GroupInv, [Next]_vars
  PROVE  [Member!Next]_(Member!vars)
<1>1. CASE UNCHANGED vars
  <2>1. /\ emitted'[Watched] = emitted[Watched] /\ yielded' = yielded
        /\ Verdict(Watched)' = Verdict(Watched)
        /\ Outcome(Watched)' = Outcome(Watched)
    BY <1>1 DEF vars, serverVars, readerVars, Verdict, Answer, Outcome, Blamed,
                Closed
  <2> QED
    BY <2>1, Unseen
<1>2. CASE OpenGroup
  BY <1>2, OpenGroupMapped
<1>3. CASE ReaderStep /\ UNCHANGED serverVars
  BY <1>3, ReadItemMapped, RaisedMapped, ReadAllEndMapped, QuietReaderMapped
     DEF ReaderStep, ReadGroup
<1>4. ASSUME NEW s \in Streams, ServerStep(s) /\ UNCHANGED readerVars
      PROVE  [Member!Next]_(Member!vars)
  BY <1>4, MemberStepMapped
<1> QED
  BY <1>1, <1>2, <1>3, <1>4 DEF Next

\* Whatever the rest of the group does, each member's part of the merged call
\* is a stream the contract allows: its events in order, its agent's verdict
\* only after the last of them, and nothing else unless the call is left, ended
\* by another member's error, or its session lost.
THEOREM MemberRefinement == Spec => MemberImplementsContract
BY InitMapped, NextMapped, GroupInvariance, PTL
   DEF Spec, MemberImplementsContract, Member!Spec

=============================================================================
