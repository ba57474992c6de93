-------------------------- MODULE GroupUnaryProofs --------------------------
(***************************************************************************)
(* Proofs about GroupUnary, for every group, every set of routes called,   *)
(* every choice of the members with push notifications and every set of    *)
(* A2AError types they raise: the invariant GroupInv, the safety           *)
(* properties that follow from it, and that each member's part of the call *)
(* implements UnaryContract.                                               *)
(***************************************************************************)
EXTENDS GroupUnary, UnaryServerProofs, GroupReaderProofs

\* What the two sides' lemmas need of the invariant.
LEMMA GroupParts ==
  ASSUME GroupInv
  PROVE  /\ ServerTypeOK /\ ServerIInv
         /\ ReaderTypeOK /\ ReaderInv /\ WiresInOrder
<1>1. ServerTypeOK /\ ServerIInv /\ ReaderTypeOK /\ ReaderInv
  BY DEF GroupInv, TypeOK, ServerIInv
<1>2. \A s \in Streams : WireInOrder(s)
  BY <1>1, WireValues DEF ServerIInv
<1> QED
  BY <1>1, <1>2 DEF WiresInOrder, ServerTypeOK

LEMMA GroupInitInv == Init => GroupInv
<1> SUFFICES ASSUME Init PROVE GroupInv
  OBVIOUS
<1>1. \A s \in Streams : wire[s] = << >> /\ task[s] = "idle"
  BY DEF Init, ServerInit
<1>2. ServerTypeOK /\ ReaderTypeOK /\ ReaderInv
  BY <1>1, ServerInitType, ReaderInitHolds DEF Init
<1>3. \A s \in Streams : ServerInv(s)
  BY ServerInitInv DEF Init
<1> QED
  BY <1>1, <1>2, <1>3 DEF GroupInv, TypeOK, Init, ReaderInit

\* The request goes to every member: no wire and no reading changes.
LEMMA OpenGroupInv ==
  ASSUME GroupInv, OpenGroup
  PROVE  GroupInv'
<1>1. PICK r \in Called : route' = [s \in Streams |-> r]
  BY DEF OpenGroup
<1>2. r \in Routes
  BY UnaryServerAssumption
<1>3. TypeOK'
  BY <1>1, <1>2
     DEF GroupInv, TypeOK, ServerTypeOK, ReaderTypeOK, OpenGroup, TaskStates,
         ReaderStates
<1>4. ASSUME NEW s \in Streams PROVE ServerInv(s)' /\ task'[s] # "idle"
  <2>1. /\ task'[s] = "called" /\ task[s] = "idle" /\ route'[s] = r
        /\ wire'[s] = wire[s] /\ thrown'[s] = thrown[s]
        /\ ran'[s] = ran[s] /\ reply'[s] = reply[s] /\ ServerInv(s)
    BY <1>1 DEF OpenGroup, GroupInv
  <2>2. /\ thrown[s].kind = "ok" /\ reply[s] = << >> /\ ran[s] = 0
        /\ wire[s] = << >>
    BY <2>1 DEF ServerInv, ReplyFaithful
  <2>3. ReplyFaithful(s)'
    BY <2>1, <2>2 DEF ReplyFaithful
  <2>4. RaisedInPlace(s)'
    BY <2>1, <2>2 DEF ServerInv, RaisedInPlace
  <2> QED
    BY <2>1, <2>3, <2>4 DEF ServerInv
<1>5. ReaderInv'
  <2>1. /\ taken' = taken /\ yielded' = yielded /\ error' = error
        /\ wire' = wire /\ up' = up
        /\ reader = "idle" /\ reader' = "reading"
    BY DEF OpenGroup
  <2>2. \A s \in Streams : ~Blamed(s) /\ ~Blamed(s)'
    BY <2>1 DEF GroupInv, ReaderInv, ReadsMember, Blamed, Closed
  <2>3. \A s \in Streams : \A e : Got(s, e)' <=> Got(s, e)
    BY <2>1 DEF Got
  <2>4. ASSUME NEW s \in Streams PROVE ReadsMember(s)'
    BY <2>1, <2>2, <2>3 DEF GroupInv, ReaderInv, ReadsMember
  <2> QED
    BY <2>1, <2>4 DEF GroupInv, ReaderInv, ItemsInOrder, ReaderVerdict
<1> QED
  BY <1>3, <1>4, <1>5 DEF GroupInv, OpenGroup

\* The caller reads; the members stay as they are.
LEMMA ReaderStepGroupInv ==
  ASSUME GroupInv, ReaderStep, UNCHANGED serverVars
  PROVE  GroupInv'
<1>1. ReaderTypeOK' /\ ReaderInv'
  BY GroupParts, ReaderStepType, ReaderStepInv DEF serverVars
<1>2. ServerTypeOK'
  BY DEF GroupInv, TypeOK, ServerTypeOK, serverVars
<1>3. \A s \in Streams : ServerInv(s)'
  BY ServerFrame DEF GroupInv, serverVars
<1>4. reader # "idle" /\ reader' # "idle"
  BY DEF ReaderStep, ReadGroup, ReadItem, ReadItemError, ReadMemberLost,
         Pending, ReadAllEnd, ResumeReading, LeaveGroup
<1> QED
  BY <1>1, <1>2, <1>3, <1>4 DEF GroupInv, TypeOK, serverVars

\* While a member steps, each wire stays as it is or gets its one answer.
LEMMA MemberStepWires ==
  ASSUME GroupInv, NEW s \in Streams, ServerStep(s), NEW t \in Streams
  PROVE  /\ up'[t] => up[t]
         /\ Closed(t) => wire'[t] = wire[t]
         /\ Len(wire'[t]) \in Nat /\ Len(wire[t]) <= Len(wire'[t])
         /\ Closed(t)' /\ ~Closed(t) => Len(wire[t]) < Len(wire'[t])
         /\ ServerInv(t)' /\ (task'[t] = "idle" <=> task[t] = "idle")
<1>1. ServerTypeOK /\ ServerIInv /\ ServerInv(t) /\ ServerTypeOK'
  BY GroupParts, ServerStepType DEF GroupInv
<1>2. /\ Len(wire[t]) \in Nat /\ Len(wire'[t]) \in Nat
      /\ wire[t] = << >> => Len(wire[t]) = 0
      /\ Closed(t)' => Len(wire'[t]) > 0
  BY <1>1 DEF ServerTypeOK, Closed, IsClosed
<1>3. wire[t] # << >> <=> Closed(t)
  BY <1>1, WireValues
<1>4. CASE t = s
  <2>1. /\ task[s] # "idle" /\ task'[s] # "idle" /\ (up'[s] => up[s])
        /\ wire[s] # << >> => wire' = wire
    BY <1>1, ServerStepGrows
  <2>2. ServerInv(s)'
    BY <1>1, ServerStepInv
  <2> QED
    BY <1>2, <1>3, <1>4, <2>1, <2>2
<1>5. CASE t # s
  <2>1. /\ route'[t] = route[t] /\ task'[t] = task[t] /\ ran'[t] = ran[t]
        /\ thrown'[t] = thrown[t] /\ guarded'[t] = guarded[t]
        /\ reply'[t] = reply[t] /\ wire'[t] = wire[t] /\ up'[t] = up[t]
    BY <1>1, <1>5, ServerStepIsLocal
  <2>2. ServerInv(t)'
    BY <1>1, <2>1, ServerFrame
  <2>3. Closed(t)' = Closed(t)
    BY <2>1 DEF Closed
  <2> QED
    BY <1>2, <2>1, <2>2, <2>3
<1> QED
  BY <1>4, <1>5

\* A member steps; the others and the caller stay as they are.
LEMMA MemberStepGroupInv ==
  ASSUME GroupInv, NEW s \in Streams, ServerStep(s), UNCHANGED readerVars
  PROVE  GroupInv'
<1>1. ServerTypeOK'
  BY GroupParts, ServerStepType
<1>2. ReaderTypeOK'
  BY DEF GroupInv, TypeOK, ReaderTypeOK, readerVars
<1>3. ReaderInv'
  BY GroupParts, MemberStepWires, GrowingWireInv
<1>4. \A t \in Streams :
        ServerInv(t)' /\ (task'[t] = "idle" <=> task[t] = "idle")
  BY MemberStepWires
<1> QED
  BY <1>1, <1>2, <1>3, <1>4 DEF GroupInv, TypeOK, readerVars

LEMMA GroupNextInv ==
  ASSUME GroupInv, [Next]_vars
  PROVE  GroupInv'
<1>1. CASE UNCHANGED vars
  <2>1. TypeOK'
    BY <1>1 DEF GroupInv, TypeOK, ServerTypeOK, ReaderTypeOK, vars, serverVars,
                readerVars
  <2>2. \A s \in Streams : ServerInv(s)'
    BY <1>1, ServerFrame DEF GroupInv, vars, serverVars
  <2>3. ReaderInv'
    <3>1. \A s \in Streams : Len(wire[s]) \in Nat
      BY GroupParts DEF ServerTypeOK
    <3> QED
      BY <1>1, <3>1, GroupParts, GrowingWireInv
         DEF vars, serverVars, readerVars, Closed
  <2> QED
    BY <1>1, <2>1, <2>2, <2>3 DEF GroupInv, vars, serverVars, readerVars
<1> QED
  BY <1>1, OpenGroupInv, ReaderStepGroupInv, MemberStepGroupInv DEF Next

\* The inductive invariant: members, wires and the one reader stay in step
\* whatever is interleaved, cancelled or lost.
THEOREM GroupInvariance == Spec => []GroupInv
BY GroupInitInv, GroupNextInv, PTL DEF Spec

-----------------------------------------------------------------------------
\* How a member's reading stands to its answer: a result is handed over once,
\* an error never as a pair.
LEMMA ReadOfAnswer ==
  ASSUME GroupInv, NEW s \in Streams
  PROVE  /\ \A i \in DOMAIN yielded : yielded[i].source = s =>
              /\ yielded[i].event = Result /\ Closed(s) /\ taken[s] = 1
              /\ thrown[s].kind = "ok" /\ ran[s] = 1
         /\ HasEnded(s) => Got(s, Result)
         /\ Blamed(s) =>
              /\ thrown[s].kind # "ok" /\ Closed(s)
              /\ Closing(s).status = ErrorStatus(s)
<1>1. /\ ServerTypeOK /\ ServerInv(s) /\ ReadsMember(s) /\ taken[s] \in Nat
  BY GroupParts DEF GroupInv, ReaderInv, ReaderTypeOK
<1>2. /\ wire[s] # << >> <=> Closed(s)
      /\ Closed(s) /\ thrown[s].kind = "ok" =>
           Len(wire[s]) = 2 /\ Closing(s).kind = "end" /\ ran[s] = 1
      /\ Closed(s) /\ thrown[s].kind # "ok" =>
           /\ Len(wire[s]) = 1 /\ Closing(s).kind = "error"
           /\ Closing(s).status = ErrorStatus(s)
  BY <1>1, WireValues
<1>3. wire[s] = << >> => Len(wire[s]) = 0
  OBVIOUS
<1>4. Blamed(s) => Closed(s) /\ Closing(s).kind = "error"
  BY <1>1 DEF ReadsMember, Blamed
<1>5. /\ taken[s] <= Len(wire[s])
      /\ ~Blamed(s) => \A e \in 1 .. taken[s] : Got(s, e)
      /\ \A i \in DOMAIN yielded : yielded[i].source = s =>
           /\ Blamed(s) => yielded[i].event \in 1 .. taken[s] - 1
           /\ ~Blamed(s) => yielded[i].event \in 1 .. taken[s]
  BY <1>1 DEF ReadsMember
<1>6. ASSUME NEW i \in DOMAIN yielded, yielded[i].source = s
      PROVE  /\ yielded[i].event = Result /\ Closed(s) /\ taken[s] = 1
             /\ thrown[s].kind = "ok" /\ ran[s] = 1
  <2>1. yielded[i].event \in 1 .. taken[s]
    BY <1>1, <1>5, <1>6
  <2>2. taken[s] >= 1 /\ Closed(s)
    BY <1>1, <1>2, <1>3, <1>5, <2>1
  <2>3. thrown[s].kind = "ok"
    <3>1. ASSUME thrown[s].kind # "ok" PROVE FALSE
      <4>1. Len(wire[s]) = 1
        BY <1>2, <2>2, <3>1
      <4>2. taken[s] = 1
        BY <1>1, <1>5, <2>2, <4>1
      <4>3. Blamed(s)
        BY <2>2, <4>1, <4>2 DEF Blamed
      <4> QED
        BY <1>5, <1>6, <4>2, <4>3
    <3> QED
      BY <3>1
  <2>4. ~Blamed(s) /\ Len(wire[s]) = 2
    BY <1>2, <1>4, <2>2, <2>3
  <2>5. taken[s] = 1
    BY <1>1, <1>5, <2>2, <2>4 DEF Blamed
  <2>6. yielded[i].event = Result
    BY <2>1, <2>5 DEF Result
  <2>7. ran[s] = 1
    BY <1>2, <2>2, <2>3
  <2> QED
    BY <2>2, <2>3, <2>5, <2>6, <2>7
<1>7. ASSUME HasEnded(s) PROVE Got(s, Result)
  <2>1. Closed(s) /\ Closing(s).kind = "end" /\ taken[s] + 1 = Len(wire[s])
    BY <1>7 DEF HasEnded
  <2>2. Len(wire[s]) = 2 /\ ~Blamed(s)
    BY <1>2, <1>4, <2>1
  <2>3. taken[s] = 1
    BY <1>1, <2>1, <2>2
  <2> QED
    BY <1>5, <2>2, <2>3 DEF Result
<1> QED
  BY <1>2, <1>4, <1>6, <1>7

LEMMA InvImpliesRepliesAreResults == GroupInv => RepliesAreResults
<1> SUFFICES ASSUME GroupInv, NEW i \in DOMAIN yielded
             PROVE  LET s == yielded[i].source IN
                      /\ yielded[i].event = Result /\ ran[s] = 1
                      /\ thrown[s].kind = "ok"
                      /\ \A j \in DOMAIN yielded :
                           yielded[j].source = s => i = j
  BY DEF RepliesAreResults
<1> DEFINE s == yielded[i].source
<1>1. yielded \in Seq([ source : Streams, event : Nat ])
  BY GroupParts DEF ReaderTypeOK
<1>2. DOMAIN yielded = 1 .. Len(yielded) /\ Len(yielded) \in Nat
  BY <1>1
<1>3. s \in Streams
  <2> DEFINE S == [ source : Streams, event : Nat ]
  <2>1. yielded \in Seq(S)
    BY <1>1
  <2> HIDE DEF S
  <2>2. yielded[i] \in S
    BY <2>1
  <2> QED
    BY <2>2 DEF S
<1>4. \A j \in DOMAIN yielded : yielded[j].source = s =>
        yielded[j].event = Result
  BY <1>3, ReadOfAnswer
<1>5. ASSUME NEW j \in DOMAIN yielded, yielded[j].source = s
      PROVE  i = j
  <2>1. ItemsInOrder /\ yielded[i].event = 1 /\ yielded[j].event = 1
    BY <1>4, <1>5 DEF GroupInv, ReaderInv, Result
  <2>2. ~(j \in 1 .. i - 1) /\ ~(i \in 1 .. j - 1)
    BY <1>5, <2>1 DEF ItemsInOrder
  <2> QED
    BY <1>2, <2>2
<1> QED
  BY <1>3, <1>5, ReadOfAnswer

LEMMA InvImpliesEndHasEveryReply == GroupInv => EndHasEveryReply
BY ReadOfAnswer DEF GroupInv, ReaderInv, ReaderVerdict, EndHasEveryReply

LEMMA InvImpliesOneMemberFailed == GroupInv => OneMemberFailed
BY ReadOfAnswer DEF GroupInv, ReaderInv, ReaderVerdict, OneMemberFailed

\* Each pair is one member's own result, heard once.
THEOREM RepliesAreResultsHolds == Spec => []RepliesAreResults
BY GroupInvariance, InvImpliesRepliesAreResults, PTL

\* A loop that ends without an error has heard every member of the group.
THEOREM EndHasEveryReplyHolds == Spec => []EndHasEveryReply
BY GroupInvariance, InvImpliesEndHasEveryReply, PTL

\* A raised error is a lost session's or that of a member's own exception.
THEOREM OneMemberFailedHolds == Spec => []OneMemberFailed
BY GroupInvariance, InvImpliesOneMemberFailed, PTL

-----------------------------------------------------------------------------
(***************************************************************************)
(* Watched's part of the group call implements UnaryContract, and Watched  *)
(* is any member.                                                          *)
(***************************************************************************)
LEMMA VerdictValues ==
  ASSUME NEW s
  PROVE  /\ thrown[s].kind # "ok" => Verdict(s) = Member!Failed(ErrorStatus(s))
         /\ thrown[s].kind = "ok" /\ reply[s] # << >> =>
              Verdict(s) = Member!Complete
         /\ thrown[s].kind = "ok" /\ reply[s] = << >> =>
              Verdict(s) = Member!Open
BY DEF Verdict, Member!Failed, Member!Complete, Member!Open, Member!Ending

LEMMA OutcomeValues ==
  ASSUME NEW s
  PROVE  /\ Got(s, Result) => Outcome(s) = Member!Complete
         /\ ~Got(s, Result) /\ reader \notin { "raised", "left" } =>
              Outcome(s) = Member!Open
BY DEF Outcome, Member!Complete, Member!Open, Member!Ending

\* A step that changes nothing the contract sees of Watched.
LEMMA Unseen ==
  ASSUME ran'[Watched] = ran[Watched], Verdict(Watched)' = Verdict(Watched),
         Outcome(Watched)' = Outcome(Watched)
  PROVE  UNCHANGED Member!vars
<1>1. /\ [s \in { Watched } |-> ran[s]]' = [s \in { Watched } |-> ran[s]]
      /\ [s \in { Watched } |-> Verdict(s)]' =
           [s \in { Watched } |-> Verdict(s)]
      /\ [s \in { Watched } |-> Outcome(s)]' =
           [s \in { Watched } |-> Outcome(s)]
  OBVIOUS
<1> QED
  BY <1>1 DEF Member!vars

\* The outcome before a step of the reader, and what it may become.
LEMMA SeenByReader ==
  ASSUME ran' = ran, Verdict(Watched)' = Verdict(Watched),
         \/ Outcome(Watched)' = Outcome(Watched)
         \/ /\ Outcome(Watched) = Member!Open
            /\ \/ Outcome(Watched)' = Member!Gone
               \/ Outcome(Watched)' = Member!Failed(TransportStatus)
               \/ /\ Verdict(Watched) # Member!Open
                  /\ Outcome(Watched)' = Verdict(Watched)
  PROVE  [Member!Next]_(Member!vars)
<1>1. CASE Outcome(Watched)' = Outcome(Watched)
  BY <1>1, Unseen
<1>2. CASE Outcome(Watched) = Member!Open
  <2>1. /\ [s \in { Watched } |-> ran[s]]' = [s \in { Watched } |-> ran[s]]
        /\ [s \in { Watched } |-> Verdict(s)]' =
             [s \in { Watched } |-> Verdict(s)]
        /\ [s \in { Watched } |-> Outcome(s)]' =
             [[s \in { Watched } |-> Outcome(s)]
                EXCEPT ![Watched] = Outcome(Watched)']
    OBVIOUS
  <2>2. CASE Outcome(Watched)' = Member!Gone
    <3>1. Member!Leave(Watched)
      BY <1>2, <2>1, <2>2 DEF Member!Leave
    <3> QED
      BY <3>1 DEF Member!Next
  <2>3. CASE \/ Outcome(Watched)' = Member!Failed(TransportStatus)
             \/ /\ Verdict(Watched) # Member!Open
                /\ Outcome(Watched)' = Verdict(Watched)
    <3>1. Member!Settle(Watched)
      BY <1>2, <2>1, <2>3 DEF Member!Settle
    <3> QED
      BY <3>1 DEF Member!Next
  <2> QED
    BY <1>1, <2>2, <2>3
<1> QED
  BY <1>1, <1>2

LEMMA InitMapped == Init => Member!Init
<1> SUFFICES ASSUME Init PROVE Member!Init
  OBVIOUS
<1>1. Verdict(Watched) = Member!Open
  BY WatchedAssumption, VerdictValues DEF Init, ServerInit, NoException
<1>2. Outcome(Watched) = Member!Open
  <2>1. ~Got(Watched, Result) /\ reader = "idle"
    BY DEF Init, ReaderInit, Got
  <2> QED
    BY <2>1, OutcomeValues
<1>3. ran[Watched] = 0
  BY WatchedAssumption DEF Init, ServerInit
<1>4. /\ [s \in { Watched } |-> ran[s]] = [s \in { Watched } |-> 0]
      /\ [s \in { Watched } |-> Verdict(s)] =
           [s \in { Watched } |-> Member!Open]
      /\ [s \in { Watched } |-> Outcome(s)] =
           [s \in { Watched } |-> Member!Open]
  BY <1>1, <1>2, <1>3
<1> QED
  BY <1>4 DEF Member!Init

\* The request is not seen yet.
LEMMA OpenGroupMapped ==
  ASSUME GroupInv, OpenGroup
  PROVE  UNCHANGED Member!vars
<1>1. /\ UNCHANGED <<ran, thrown, reply, yielded>>
      /\ reader = "idle" /\ reader' = "reading"
  BY DEF OpenGroup
<1>2. thrown[Watched].kind = "ok"
  BY <1>1, WatchedAssumption DEF GroupInv, ServerInv, ReplyFaithful
<1>3. Verdict(Watched)' = Verdict(Watched)
  BY <1>1, <1>2 DEF Verdict
<1>4. Outcome(Watched)' = Outcome(Watched)
  BY <1>1 DEF Outcome, Got
<1> QED
  BY <1>1, <1>3, <1>4, Unseen

\* A pair is handed over: Watched's, which is its result, or another's.
LEMMA ReadItemMapped ==
  ASSUME GroupInv, NEW s \in Streams, ReadItem(s), UNCHANGED serverVars
  PROVE  [Member!Next]_(Member!vars)
<1>1. /\ ran' = ran /\ Verdict(Watched)' = Verdict(Watched)
      /\ reader = "reading" /\ reader' = "held"
  BY DEF ReadItem, Pending, Verdict, ErrorStatus, serverVars
<1>2. /\ \A i \in DOMAIN yielded :
           yielded[i] = yielded'[i] /\ i \in DOMAIN yielded'
      /\ \A i \in DOMAIN yielded' \ DOMAIN yielded : yielded'[i].source = s
  <2> DEFINE S == [ source : Streams, event : Nat ]
             x == Item(s, wire[s][taken[s] + 1].event)
  <2>1. yielded \in Seq(S) /\ yielded' = Append(yielded, x)
    BY GroupParts DEF ReaderTypeOK, ReadItem
  <2>2. x \in S
    BY GroupParts, PendingMessage DEF ReadItem, Item, Messages
  <2>3. x.source = s
    BY DEF Item
  <2> HIDE DEF S, x
  <2> QED
    BY <2>1, <2>2, <2>3
<1>3. CASE Got(Watched, Result)
  <2>1. Got(Watched, Result)'
    BY <1>2, <1>3 DEF Got
  <2>2. Outcome(Watched) = Member!Complete /\ Outcome(Watched)' = Member!Complete
    BY <1>3, <2>1 DEF Outcome, Member!Complete, Member!Ending
  <2> QED
    BY <1>1, <2>2, SeenByReader
<1>4. CASE ~Got(Watched, Result)
  <2>1. Outcome(Watched) = Member!Open
    BY <1>1, <1>4, OutcomeValues
  <2>2. CASE Got(Watched, Result)'
    <3>1. s = Watched
      BY <1>2, <1>4, <2>2 DEF Item, Got
    <3>2. wire[Watched] # << >> /\ thrown[Watched].kind = "ok"
      <4>1. /\ taken[s] + 1 \in DOMAIN wire[s]
            /\ wire[s][taken[s] + 1].kind = "data"
            /\ taken[s] \in Nat
        BY GroupParts, PendingMessage DEF ReadItem
      <4>2. wire[s] # << >> /\ Closed(s)
        BY <4>1, GroupParts, WireValues DEF ServerIInv
      <4>3. ASSUME thrown[s].kind # "ok" PROVE FALSE
        <5>1. wire[s] = << ErrorOf(ErrorStatus(s)) >>
          BY <4>2, <4>3, GroupParts, WireValues DEF ServerIInv
        <5>2. taken[s] + 1 = 1 /\ wire[s][1].kind = "error"
          BY <4>1, <5>1 DEF ErrorOf
        <5> QED
          BY <4>1, <5>2
      <4> QED
        BY <3>1, <4>2, <4>3
    <3>3. reply[Watched] # << >>
      BY <3>2, WatchedAssumption DEF GroupInv, ServerInv, ReplyFaithful
    <3>4. Verdict(Watched) = Member!Complete
      BY <3>2, <3>3, VerdictValues
    <3>5. Outcome(Watched)' = Member!Complete
      BY <2>2 DEF Outcome, Member!Complete, Member!Ending
    <3>6. Member!Complete # Member!Open
      BY DEF Member!Complete, Member!Open, Member!Ending
    <3> QED
      BY <1>1, <2>1, <3>4, <3>5, <3>6, SeenByReader
  <2>3. CASE ~Got(Watched, Result)'
    <3>1. Outcome(Watched)' = Member!Open
      BY <1>1, <2>3 DEF Outcome, Member!Open, Member!Ending
    <3> QED
      BY <1>1, <2>1, <3>1, SeenByReader
  <2> QED
    BY <2>2, <2>3
<1> QED
  BY <1>3, <1>4

\* A member's error, or a lost session, is raised: a result already handed over
\* stays; without one the caller is told Watched's own error or the carrier's,
\* or, when the error is another member's, leaves Watched's call.
LEMMA RaisedMapped ==
  ASSUME GroupInv, NEW s \in Streams, ReadItemError(s) \/ ReadMemberLost(s),
         UNCHANGED serverVars
  PROVE  [Member!Next]_(Member!vars)
<1>1. /\ ran' = ran /\ Verdict(Watched)' = Verdict(Watched)
      /\ reader = "reading" /\ reader' = "raised"
      /\ Got(Watched, Result)' <=> Got(Watched, Result)
  BY DEF ReadItemError, ReadMemberLost, Pending, Verdict, ErrorStatus, Got,
         serverVars
<1>2. CASE Got(Watched, Result)
  <2>1. Outcome(Watched) = Member!Complete /\ Outcome(Watched)' = Member!Complete
    BY <1>1, <1>2 DEF Outcome, Member!Complete, Member!Ending
  <2> QED
    BY <1>1, <2>1, SeenByReader
<1>3. CASE ~Got(Watched, Result)
  <2>1. Outcome(Watched) = Member!Open
    BY <1>1, <1>3, OutcomeValues
  <2>2. /\ Blamed(Watched)' \/ error' = TransportStatus =>
             Outcome(Watched)' = Member!Failed(error')
        /\ ~(Blamed(Watched)' \/ error' = TransportStatus) =>
             Outcome(Watched)' = Member!Gone
    BY <1>1, <1>3
       DEF Outcome, Member!Failed, Member!Gone, Member!Ending
  <2>3. CASE error' = TransportStatus
    BY <1>1, <2>1, <2>2, <2>3, SeenByReader
  <2>4. CASE ~Blamed(Watched)'
    BY <1>1, <2>1, <2>2, <2>3, <2>4, SeenByReader
  <2>5. CASE Blamed(Watched)' /\ error' # TransportStatus
    <3>1. ReadItemError(s)
      BY <2>5 DEF ReadMemberLost
    <3>2. s = Watched
      <4>1. ~Blamed(Watched)
        BY <1>1, WatchedAssumption DEF GroupInv, ReaderInv, ReadsMember
      <4>2. s # Watched => taken'[Watched] = taken[Watched]
        BY <3>1, GroupParts, WatchedAssumption DEF ReadItemError, ReaderTypeOK
      <4> QED
        BY <2>5, <4>1, <4>2 DEF Blamed, Closed, serverVars
    <3>3. Closed(s) /\ error' = Closing(s).status /\ Closing(s).kind = "error"
      <4>1. /\ taken[s] + 1 = Len(wire[s]) /\ taken[s] + 1 \in DOMAIN wire[s]
            /\ wire[s][taken[s] + 1].kind = "error"
        BY <3>1, GroupParts, PendingMessage DEF ReadItemError
      <4>2. error' = wire[s][taken[s] + 1].status
        BY <3>1 DEF ReadItemError
      <4>3. wire[s] # << >>
        BY <4>1
      <4> QED
        BY <4>1, <4>2, <4>3 DEF Closed, IsClosed, Closing, LastOf
    <3>4. thrown[s].kind # "ok" /\ error' = ErrorStatus(s)
      BY <3>3, GroupParts, WireValues DEF ServerIInv
    <3>5. Verdict(Watched) = Member!Failed(error')
      BY <3>2, <3>4, VerdictValues
    <3>6. Member!Failed(error') # Member!Open
      BY DEF Member!Failed, Member!Open, Member!Ending
    <3> QED
      BY <1>1, <2>1, <2>2, <2>5, <3>5, <3>6, SeenByReader
  <2> QED
    BY <2>3, <2>4, <2>5
<1> QED
  BY <1>2, <1>3

\* The loop ends, goes on or is left: only leaving it before Watched's result
\* is seen.
LEMMA QuietReaderMapped ==
  ASSUME GroupInv, ReadAllEnd \/ ResumeReading \/ LeaveGroup,
         UNCHANGED serverVars
  PROVE  [Member!Next]_(Member!vars)
<1>1. /\ ran' = ran /\ Verdict(Watched)' = Verdict(Watched)
      /\ reader \in { "reading", "held" }
      /\ reader' \in { "reading", "ended", "left" }
      /\ Got(Watched, Result)' <=> Got(Watched, Result)
  BY DEF ReadAllEnd, ResumeReading, LeaveGroup, Verdict, ErrorStatus, Got,
         serverVars
<1>2. CASE Got(Watched, Result)
  <2>1. Outcome(Watched) = Member!Complete /\ Outcome(Watched)' = Member!Complete
    BY <1>1, <1>2 DEF Outcome, Member!Complete, Member!Ending
  <2> QED
    BY <1>1, <2>1, SeenByReader
<1>3. CASE ~Got(Watched, Result)
  <2>1. Outcome(Watched) = Member!Open
    BY <1>1, <1>3, OutcomeValues
  <2>2. \/ Outcome(Watched)' = Member!Open
        \/ Outcome(Watched)' = Member!Gone
    BY <1>1, <1>3 DEF Outcome, Member!Open, Member!Gone, Member!Ending
  <2> QED
    BY <1>1, <2>1, <2>2, SeenByReader
<1> QED
  BY <1>2, <1>3

\* While members step the outcome stays: nothing is handed over, and a member
\* to blame stays the one to blame.
LEMMA OutcomeWhileMembersStep ==
  ASSUME GroupInv, NEW s \in Streams, ServerStep(s), UNCHANGED readerVars
  PROVE  Outcome(Watched)' = Outcome(Watched)
<1>1. /\ reader' = reader /\ error' = error /\ taken' = taken
      /\ Got(Watched, Result)' <=> Got(Watched, Result)
  BY DEF readerVars, Got
<1>2. /\ Closed(Watched) => wire'[Watched] = wire[Watched]
      /\ Len(wire'[Watched]) \in Nat /\ Len(wire[Watched]) \in Nat
      /\ Closed(Watched)' /\ ~Closed(Watched) =>
           Len(wire[Watched]) < Len(wire'[Watched])
      /\ taken[Watched] \in Nat /\ taken[Watched] <= Len(wire[Watched])
  BY MemberStepWires, WatchedAssumption, GroupParts
     DEF WiresInOrder, ReaderTypeOK, ReaderInv, ReadsMember
<1>3. Closed(Watched) => Closed(Watched)'
  BY <1>2 DEF Closed, IsClosed
<1>4. Blamed(Watched)' <=> Blamed(Watched)
  BY <1>1, <1>2, <1>3 DEF Blamed
<1> QED
  BY <1>1, <1>4 DEF Outcome

\* A member's step, seen from Watched: an operation of its own completed, a
\* conclusion of its own, or nothing.
LEMMA MemberStepMapped ==
  ASSUME GroupInv, NEW s \in Streams, ServerStep(s), UNCHANGED readerVars
  PROVE  [Member!Next]_(Member!vars)
<1>1. Outcome(Watched)' = Outcome(Watched)
  BY OutcomeWhileMembersStep
<1>2. CASE s # Watched
  <2>1. ran'[Watched] = ran[Watched] /\ Verdict(Watched)' = Verdict(Watched)
    BY <1>2, GroupParts, WatchedAssumption, ServerStepIsLocal
       DEF Verdict, ErrorStatus
  <2> QED
    BY <1>1, <2>1, Unseen
<1>3. CASE s = Watched
  <2>1. ServerTypeOK /\ ServerInv(s)
    BY GroupParts DEF GroupInv
  <2>2. /\ [t \in { Watched } |-> Outcome(t)]' =
             [t \in { Watched } |-> Outcome(t)]
        /\ [t \in { Watched } |-> Verdict(t)]' =
             [[t \in { Watched } |-> Verdict(t)]
                EXCEPT ![s] = Verdict(s)']
        /\ [t \in { Watched } |-> ran[t]]' =
             [[t \in { Watched } |-> ran[t]] EXCEPT ![s] = ran'[s]]
    BY <1>1, <1>3
  <2>3. CASE OperationReturns(s)
    <3>1. task[s] = "run" /\ UNCHANGED <<route, thrown, guarded, reply>>
      BY <2>3 DEF OperationReturns
    <3>2. ran[s] = 0 /\ Verdict(s) = Member!Open
      BY <2>1, <3>1, VerdictValues DEF ServerInv, ReplyFaithful
    <3>3. ran'[s] = 1
      BY <2>1, <2>3, <3>2 DEF OperationReturns, ServerTypeOK
    <3>4. Verdict(s)' = Verdict(s)
      BY <3>1 DEF Verdict, ErrorStatus
    <3>5. /\ [t \in { Watched } |-> Verdict(t)]' =
               [t \in { Watched } |-> Verdict(t)]
      BY <1>3, <3>4
    <3>6. Member!Perform(s)
      BY <1>3, <2>2, <3>2, <3>3, <3>5 DEF Member!Perform
    <3> QED
      BY <1>3, <3>6 DEF Member!Next
  <2>4. CASE \/ ValidateRejects(s) \/ NameRejected(s) \/ BuildRaises(s)
             \/ TaskAbsent(s) \/ OperationRaises(s) \/ ConversionRaises(s)
             \/ ModifierRaises(s)
    <3>1. PICK e \in AgentErrors, inTry \in BOOLEAN :
            /\ Throw(s, e, inTry) /\ task[s] \in { "start", "run", "after" }
            /\ e.kind # "ok"
      BY <2>4, ThrowSteps, AgentErrorType
    <3>2. /\ thrown'[s] = e /\ guarded'[s] = inTry /\ route'[s] = route[s]
          /\ ran' = ran
      BY <2>1, <3>1 DEF ServerTypeOK, Throw
    <3>3. ErrorStatus(s)' \in AgentStatuses
      <4>1. route[s] \in Routes
        BY <2>1, <3>1, UnaryServerAssumption DEF ServerInv, RaisedInPlace
      <4>2. route[s].version \in Versions
        BY <4>1 DEF Routes, Route, Versions
      <4> QED
        BY <3>2, <4>2 DEF ErrorStatus, AgentStatuses
    <3>4. Verdict(s)' = Member!Failed(ErrorStatus(s)')
      BY <3>1, <3>2 DEF Verdict, Member!Failed, Member!Ending, ErrorStatus
    <3>5. Verdict(s) = Member!Open
      BY <2>1, <3>1, VerdictValues DEF ServerInv, ReplyFaithful
    <3>6. [t \in { Watched } |-> ran[t]]' = [t \in { Watched } |-> ran[t]]
      BY <3>2
    <3>7. Member!Conclude(s)
      BY <1>3, <2>2, <3>3, <3>4, <3>5, <3>6 DEF Member!Conclude
    <3> QED
      BY <1>3, <3>7 DEF Member!Next
  <2>5. CASE MethodReturns(s)
    <3>1. /\ task[s] = "after" /\ reply'[s] = Answer(Result)
          /\ UNCHANGED <<route, ran, thrown, guarded>>
      BY <2>1, <2>5 DEF MethodReturns, ServerTypeOK
    <3>2. ran[s] = 1 /\ thrown[s].kind = "ok" /\ reply[s] = << >>
      BY <2>1, <3>1 DEF ServerInv, ReplyFaithful
    <3>3. Verdict(s) = Member!Open
      BY <3>2, VerdictValues
    <3>4. Verdict(s)' = Member!Complete
      BY <3>1, <3>2, AnswerTypes DEF Verdict, Member!Complete, Member!Ending
    <3>5. [t \in { Watched } |-> ran[t]]' = [t \in { Watched } |-> ran[t]]
      BY <3>1
    <3>6. Member!Conclude(s)
      BY <1>3, <2>2, <3>2, <3>3, <3>4, <3>5 DEF Member!Conclude
    <3> QED
      BY <1>3, <3>6 DEF Member!Next
  <2>6. CASE Accept(s) \/ Begin(s) \/ Respond(s) \/ Cancel(s) \/ Drop(s)
    <3>1. UNCHANGED <<route, ran, thrown, guarded, reply>>
      BY <2>6 DEF Accept, Begin, Respond, Cancel, Drop
    <3>2. Verdict(Watched)' = Verdict(Watched)
      BY <3>1 DEF Verdict, ErrorStatus
    <3> QED
      BY <1>1, <3>1, <3>2, Unseen
  <2> QED
    BY <2>3, <2>4, <2>5, <2>6 DEF ServerStep, TaskStep
<1> QED
  BY <1>2, <1>3

LEMMA NextMapped ==
  ASSUME GroupInv, [Next]_vars
  PROVE  [Member!Next]_(Member!vars)
<1>1. CASE UNCHANGED vars
  <2>1. /\ ran'[Watched] = ran[Watched] /\ Verdict(Watched)' = Verdict(Watched)
        /\ Outcome(Watched)' = Outcome(Watched)
    BY <1>1 DEF vars, serverVars, readerVars, Verdict, ErrorStatus, Outcome,
                Got, Blamed, Closed
  <2> QED
    BY <2>1, Unseen
<1>2. CASE OpenGroup
  BY <1>2, OpenGroupMapped
<1>3. CASE ReaderStep /\ UNCHANGED serverVars
  BY <1>3, ReadItemMapped, RaisedMapped, QuietReaderMapped
     DEF ReaderStep, ReadGroup
<1>4. ASSUME NEW s \in Streams, ServerStep(s) /\ UNCHANGED readerVars
      PROVE  [Member!Next]_(Member!vars)
  BY <1>4, MemberStepMapped
<1> QED
  BY <1>1, <1>2, <1>3, <1>4 DEF Next

\* Whatever the rest of the group does, each member's part of the call is a
\* unary call the contract allows: at most once, and told as it ended.
THEOREM MemberRefinement == Spec => MemberImplementsContract
BY InitMapped, NextMapped, GroupInvariance, PTL
   DEF Spec, MemberImplementsContract, Member!Spec

=============================================================================
