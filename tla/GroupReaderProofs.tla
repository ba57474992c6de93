-------------------------- MODULE GroupReaderProofs --------------------------
(***************************************************************************)
(* Proofs about the caller's side of multicast calls, for every module     *)
(* that puts members behind it: its own steps keep ReaderInv over wires    *)
(* that are in order, and so does a wire that grows.                       *)
(***************************************************************************)
EXTENDS GroupReader, FiniteSetTheorems, FunctionTheorems, TLAPS

\* What `error' is set to when it is not a member's status.
LEMMA ReaderStatuses == NoStatus \in Statuses /\ TransportStatus \in Statuses
BY DEF NoStatus, TransportStatus, Status, Statuses, Codes

\* What the reader needs of the members' wires.
WiresInOrder ==
  /\ wire \in [Streams -> Seq(Messages)]
  /\ \A s \in Streams : WireInOrder(s)

\* Before the call nothing has been read.
LEMMA ReaderInitHolds ==
  ASSUME ReaderInit, \A s \in Streams : wire[s] = << >>
  PROVE  ReaderTypeOK /\ ReaderInv
<1>1. ReaderTypeOK
  BY ReaderStatuses DEF ReaderInit, ReaderTypeOK, ReaderStates
<1>2. ASSUME NEW s \in Streams PROVE ReadsMember(s)
  <2>1. ~Blamed(s) /\ taken[s] = 0 /\ Len(wire[s]) = 0
    BY DEF ReaderInit, Blamed, Closed, IsClosed
  <2>2. yielded = << >>
    BY DEF ReaderInit
  <2> QED
    BY <2>1, <2>2 DEF ReadsMember, Got
<1>3. ItemsInOrder
  BY DEF ReaderInit, ItemsInOrder
<1>4. ReaderVerdict
  BY DEF ReaderInit, ReaderVerdict
<1> QED
  BY <1>1, <1>2, <1>3, <1>4 DEF ReaderInv

\* What next_async returns of a member is a message.
LEMMA PendingMessage ==
  ASSUME ReaderTypeOK, WiresInOrder, NEW s \in Streams, NEW kind,
         Pending(s, kind)
  PROVE  /\ taken[s] \in Nat /\ Len(wire[s]) \in Nat
         /\ taken[s] + 1 \in DOMAIN wire[s]
         /\ wire[s][taken[s] + 1] \in Messages
         /\ wire[s][taken[s] + 1].kind = kind
         /\ kind = "data" => wire[s][taken[s] + 1].event = taken[s] + 1
         /\ kind # "data" => taken[s] + 1 = Len(wire[s])
<1>1. wire[s] \in Seq(Messages) /\ taken[s] \in Nat
  BY DEF WiresInOrder, ReaderTypeOK
<1>2. taken[s] + 1 \in 1 .. Len(wire[s])
  BY <1>1 DEF Pending
<1> QED
  BY <1>1, <1>2 DEF Pending, WiresInOrder, WireInOrder

LEMMA ReaderStepType ==
  ASSUME ReaderTypeOK, WiresInOrder, ReaderStep
  PROVE  ReaderTypeOK'
<1>1. ASSUME NEW s \in Streams, ReadItem(s) PROVE ReaderTypeOK'
  <2>1. Item(s, wire[s][taken[s] + 1].event)
          \in [ source : Streams, event : Nat ]
    BY <1>1, PendingMessage DEF ReadItem, Item, Messages
  <2>2. yielded' \in Seq([ source : Streams, event : Nat ])
    BY <1>1, <2>1 DEF ReaderTypeOK, ReadItem
  <2> QED
    BY <1>1, <2>2 DEF ReaderTypeOK, ReadItem, ReaderStates
<1>2. ASSUME NEW s \in Streams, ReadItemError(s) PROVE ReaderTypeOK'
  <2>1. wire[s][taken[s] + 1].status \in Statuses
    BY <1>2, PendingMessage DEF ReadItemError, Messages
  <2> QED
    BY <1>2, <2>1 DEF ReaderTypeOK, ReadItemError, ReaderStates
<1>3. ASSUME NEW s \in Streams, ReadMemberLost(s) PROVE ReaderTypeOK'
  BY <1>3, ReaderStatuses DEF ReaderTypeOK, ReadMemberLost, ReaderStates
<1>4. CASE ReadAllEnd \/ ResumeReading \/ LeaveGroup
  BY <1>4 DEF ReaderTypeOK, ReadAllEnd, ResumeReading, LeaveGroup, ReaderStates
<1> QED
  BY <1>1, <1>2, <1>3, <1>4 DEF ReaderStep, ReadGroup

-----------------------------------------------------------------------------
\* A sequence that grows at its end.
LEMMA GrowsByOne ==
  ASSUME NEW S, NEW q \in Seq(S), NEW x \in S
  PROVE  /\ Len(q) + 1 \in Nat /\ Len(q) + 1 >= 1
         /\ DOMAIN q = 1 .. Len(q) + 1 - 1
         /\ DOMAIN Append(q, x) = 1 .. Len(q) + 1
         /\ Append(q, x)[Len(q) + 1] = x
         /\ \A i \in 1 .. Len(q) + 1 - 1 : Append(q, x)[i] = q[i] /\ q[i] \in S
<1>1. Len(q) + 1 - 1 = Len(q) /\ DOMAIN q = 1 .. Len(q) /\ Len(q) \in Nat
  OBVIOUS
<1>2. /\ Append(q, x) \in Seq(S) /\ Len(Append(q, x)) = Len(q) + 1
      /\ \A i \in 1 .. Len(q) : Append(q, x)[i] = q[i] /\ q[i] \in S
      /\ Append(q, x)[Len(q) + 1] = x
  OBVIOUS
<1> QED
  BY <1>1, <1>2

\* The next pair of a member goes to the end of what was handed over.
LEMMA ReadItemInv ==
  ASSUME ReaderTypeOK, WiresInOrder, ReaderInv, NEW s \in Streams,
         ReadItem(s), UNCHANGED <<wire, up>>
  PROVE  ReaderInv'
<1> DEFINE n == taken[s] + 1
           m == Len(yielded) + 1
<1>1. /\ n - 1 = taken[s] /\ taken[s] \in Nat /\ n \in DOMAIN wire[s]
      /\ wire[s][n].kind = "data" /\ wire[s][n].event = n
      /\ wire[s] \in Seq(Messages) /\ n <= Len(wire[s])
  BY PendingMessage DEF ReadItem, WiresInOrder
<1>2. /\ taken' = [taken EXCEPT ![s] = n]
      /\ yielded' = Append(yielded, Item(s, n))
      /\ reader = "reading" /\ reader' = "held" /\ error' = error
  BY <1>1 DEF ReadItem, Pending
<1>3. /\ taken'[s] = n
      /\ \A t \in Streams \ { s } : taken'[t] = taken[t]
  BY <1>2 DEF ReaderTypeOK
<1>4. /\ m \in Nat /\ m >= 1
      /\ DOMAIN yielded = 1 .. m - 1 /\ DOMAIN yielded' = 1 .. m
      /\ yielded'[m] = Item(s, n)
      /\ \A i \in 1 .. m - 1 : yielded'[i] = yielded[i]
      /\ \A i \in 1 .. m - 1 :
           yielded[i] \in [ source : Streams, event : Nat ]
  <2>1. yielded \in Seq([ source : Streams, event : Nat ]) /\ n \in Nat
    BY <1>1 DEF ReaderTypeOK
  <2>2. Item(s, n) \in [ source : Streams, event : Nat ]
    BY <2>1 DEF Item
  <2>3. /\ m \in Nat /\ m >= 1 /\ DOMAIN yielded = 1 .. m - 1
        /\ DOMAIN Append(yielded, Item(s, n)) = 1 .. m
        /\ Append(yielded, Item(s, n))[m] = Item(s, n)
        /\ \A i \in 1 .. m - 1 :
             /\ Append(yielded, Item(s, n))[i] = yielded[i]
             /\ yielded[i] \in [ source : Streams, event : Nat ]
    <3> DEFINE S == [ source : Streams, event : Nat ]
               x == Item(s, n)
    <3>1. yielded \in Seq(S) /\ x \in S
      BY <2>1, <2>2
    <3> HIDE DEF S, x, n
    <3>2. /\ m \in Nat /\ m >= 1 /\ DOMAIN yielded = 1 .. m - 1
          /\ DOMAIN Append(yielded, x) = 1 .. m
          /\ Append(yielded, x)[m] = x
          /\ \A i \in 1 .. m - 1 :
               Append(yielded, x)[i] = yielded[i] /\ yielded[i] \in S
      BY <3>1, GrowsByOne
    <3> HIDE DEF m
    <3> QED
      BY <3>2 DEF S, x
  <2> HIDE DEF n, m
  <2> QED
    BY <1>2, <2>3
<1>5. Item(s, n).source = s /\ Item(s, n).event = n
  BY DEF Item
<1>6. \A t \in Streams : ~Blamed(t)
  BY <1>2 DEF ReaderInv, ReadsMember
<1>7. \A t \in Streams : ~Blamed(t)'
  <2>1. Closed(s)' => n # Len(wire[s])
    BY <1>1 DEF Closed, IsClosed
  <2>2. ~Blamed(s)'
    BY <1>3, <2>1 DEF Blamed
  <2>3. \A t \in Streams \ { s } : ~Blamed(t)'
    BY <1>3, <1>6 DEF Blamed, Closed
  <2> QED
    BY <2>2, <2>3
<1>8. \A t \in Streams :
        /\ taken[t] \in Nat /\ taken[t] <= Len(wire[t])
        /\ \A e \in 1 .. taken[t] : Got(t, e)
        /\ \A i \in 1 .. m - 1 :
             yielded[i].source = t => yielded[i].event \in 1 .. taken[t]
  BY <1>4, <1>6 DEF ReaderInv, ReadsMember, ReaderTypeOK
<1> HIDE DEF n, m
<1>9. \A t \in Streams : \A e :
        Got(t, e) => \E i \in 1 .. m - 1 : yielded'[i] = Item(t, e)
  BY <1>4 DEF Got
<1>10. 1 .. m = 1 .. m - 1 \cup { m } /\ 1 .. n = 1 .. n - 1 \cup { n }
  BY <1>1, <1>4
<1>11. ASSUME NEW t \in Streams PROVE ReadsMember(t)'
  <2>1. taken'[t] <= Len(wire'[t])
    BY <1>1, <1>3, <1>8
  <2>2. \A e \in 1 .. taken'[t] : \E i \in 1 .. m : yielded'[i] = Item(t, e)
    <3>1. CASE t = s
      BY <1>1, <1>3, <1>4, <1>8, <1>9, <1>10, <3>1
    <3>2. CASE t # s
      BY <1>3, <1>8, <1>9, <1>10, <3>2
    <3> QED
      BY <3>1, <3>2
  <2>3. \A i \in 1 .. m :
          yielded'[i].source = t => yielded'[i].event \in 1 .. taken'[t]
    <3>1. taken'[t] \in Nat /\ taken[t] \in Nat /\ taken[t] <= taken'[t]
      BY <1>1, <1>3, <1>8
    <3>2. ASSUME NEW i \in 1 .. m - 1, yielded'[i].source = t
          PROVE  yielded'[i].event \in 1 .. taken'[t]
      <4>1. yielded[i].event \in 1 .. taken[t]
        BY <1>4, <1>8, <3>2
      <4> QED
        BY <1>4, <3>1, <3>2, <4>1
    <3>3. yielded'[m].source = t => yielded'[m].event \in 1 .. taken'[t]
      BY <1>1, <1>3, <1>4, <1>5
    <3> QED
      BY <1>10, <3>2, <3>3
  <2> QED
    BY <1>4, <1>7, <2>1, <2>2, <2>3 DEF ReadsMember, Got
<1>12. ItemsInOrder'
  <2>1. ASSUME NEW i \in 1 .. m
        PROVE  /\ \A j \in 1 .. i - 1 :
                    yielded'[j].source = yielded'[i].source =>
                    yielded'[j].event < yielded'[i].event
               /\ \A e \in 1 .. yielded'[i].event - 1 :
                    \E j \in 1 .. i - 1 :
                      yielded'[j] = Item(yielded'[i].source, e)
    <3>1. CASE i = m
      <4>1. \A j \in 1 .. m - 1 :
              yielded'[j].source = s => yielded'[j].event < n
        BY <1>1, <1>4, <1>8
      <4>2. \A e \in 1 .. n - 1 : \E j \in 1 .. m - 1 : yielded'[j] = Item(s, e)
        BY <1>1, <1>8, <1>9
      <4> QED
        BY <1>4, <1>5, <3>1, <4>1, <4>2
    <3>2. CASE i # m
      <4>1. i \in 1 .. m - 1
        BY <1>4, <3>2
      <4>2. /\ \A j \in 1 .. i - 1 :
                 j \in 1 .. m - 1 /\ yielded'[j] = yielded[j]
            /\ yielded'[i] = yielded[i]
        BY <1>4, <4>1
      <4>3. /\ \A j \in 1 .. i - 1 : yielded[j].source = yielded[i].source =>
                 yielded[j].event < yielded[i].event
            /\ \A e \in 1 .. yielded[i].event - 1 :
                 \E j \in 1 .. i - 1 : yielded[j] = Item(yielded[i].source, e)
        BY <1>4, <4>1 DEF ReaderInv, ItemsInOrder
      <4> QED
        BY <4>2, <4>3
    <3> QED
      BY <3>1, <3>2
  <2> QED
    BY <1>4, <2>1 DEF ItemsInOrder
<1>13. ReaderVerdict'
  BY <1>2 DEF ReaderVerdict
<1> QED
  BY <1>11, <1>12, <1>13 DEF ReaderInv

\* The error of a member closes its wire and the call.
LEMMA ReadItemErrorInv ==
  ASSUME ReaderTypeOK, WiresInOrder, ReaderInv, NEW s \in Streams,
         ReadItemError(s), UNCHANGED <<wire, up>>
  PROVE  ReaderInv'
<1> DEFINE n == taken[s] + 1
<1>1. /\ taken[s] \in Nat /\ n \in DOMAIN wire[s] /\ n = Len(wire[s])
      /\ wire[s][n].kind = "error" /\ wire[s] \in Seq(Messages)
  BY PendingMessage DEF ReadItemError, WiresInOrder
<1>2. /\ taken'[s] = n /\ yielded' = yielded /\ reader' = "raised"
      /\ \A t \in Streams \ { s } : taken'[t] = taken[t]
      /\ error' = wire[s][n].status /\ reader = "reading"
  BY DEF ReadItemError, Pending, ReaderTypeOK
<1>3. \A t \in Streams : ~Blamed(t)
  BY <1>2 DEF ReaderInv, ReadsMember
<1>4. Blamed(s)' /\ Closing(s)'.kind = "error" /\ error' = Closing(s)'.status
  BY <1>1, <1>2 DEF Blamed, Closed, IsClosed, Closing, LastOf
<1>5. \A t \in Streams \ { s } : ~Blamed(t)'
  BY <1>2, <1>3 DEF Blamed, Closed
<1>6. ASSUME NEW t \in Streams PROVE ReadsMember(t)'
  <2>1. /\ taken[t] \in Nat /\ taken[t] <= Len(wire[t])
        /\ \A e \in 1 .. taken[t] : Got(t, e)
        /\ \A i \in DOMAIN yielded :
             yielded[i].source = t => yielded[i].event \in 1 .. taken[t]
    BY <1>3 DEF ReaderInv, ReadsMember, ReaderTypeOK
  <2>2. \A e : Got(t, e)' <=> Got(t, e)
    BY <1>2 DEF Got
  <2>3. CASE t = s
    BY <1>1, <1>2, <1>4, <2>1, <2>2, <2>3 DEF ReadsMember
  <2>4. CASE t # s
    BY <1>2, <1>5, <2>1, <2>2, <2>4 DEF ReadsMember
  <2> QED
    BY <2>3, <2>4
<1>7. ItemsInOrder'
  BY <1>2 DEF ReaderInv, ItemsInOrder
<1>8. ReaderVerdict'
  BY <1>2, <1>4 DEF ReaderVerdict
<1> QED
  BY <1>6, <1>7, <1>8 DEF ReaderInv

\* The other moves take nothing from a wire.
LEMMA QuietReaderInv ==
  ASSUME ReaderTypeOK, ReaderInv, UNCHANGED <<wire, up>>,
         \/ ReadAllEnd \/ ResumeReading \/ LeaveGroup
         \/ \E s \in Streams : ReadMemberLost(s)
  PROVE  ReaderInv'
<1>1. /\ taken' = taken /\ yielded' = yielded
      /\ reader \in { "reading", "held" }
      /\ reader' = "ended" => \A s \in Streams : HasEnded(s)
      /\ reader' = "raised" =>
           error' = TransportStatus /\ \E s \in Streams : ~up[s]
  BY DEF ReadAllEnd, ResumeReading, LeaveGroup, ReadMemberLost
<1>2. \A t \in Streams : ~Blamed(t) /\ (Blamed(t)' <=> Blamed(t))
  BY <1>1 DEF ReaderInv, ReadsMember, Blamed, Closed
<1>3. \A t \in Streams : \A e : Got(t, e)' <=> Got(t, e)
  BY <1>1 DEF Got
<1>4. ASSUME NEW t \in Streams PROVE ReadsMember(t)'
  BY <1>1, <1>2, <1>3 DEF ReaderInv, ReadsMember
<1>5. ItemsInOrder'
  BY <1>1 DEF ReaderInv, ItemsInOrder
<1>6. ReaderVerdict'
  BY <1>1 DEF ReaderVerdict, HasEnded, Closed, Closing
<1> QED
  BY <1>4, <1>5, <1>6 DEF ReaderInv

\* A step of the caller keeps what it knows of every member.
LEMMA ReaderStepInv ==
  ASSUME ReaderTypeOK, WiresInOrder, ReaderInv, ReaderStep,
         UNCHANGED <<wire, up>>
  PROVE  ReaderInv'
BY ReadItemInv, ReadItemErrorInv, QuietReaderInv DEF ReaderStep, ReadGroup

-----------------------------------------------------------------------------
\* A member's wire that only grows, and no more once closed, takes nothing
\* from the reader.
LEMMA GrowingWireInv ==
  ASSUME ReaderTypeOK, WiresInOrder, ReaderInv, UNCHANGED readerVars,
         \A t \in Streams :
           /\ up'[t] => up[t]
           /\ Closed(t) => wire'[t] = wire[t]
           /\ Len(wire'[t]) \in Nat /\ Len(wire[t]) <= Len(wire'[t])
           /\ Closed(t)' /\ ~Closed(t) => Len(wire[t]) < Len(wire'[t])
  PROVE  ReaderInv'
<1>1. /\ taken' = taken /\ yielded' = yielded
      /\ reader' = reader /\ error' = error
  BY DEF readerVars
<1>2. ASSUME NEW t \in Streams
      PROVE  /\ Closed(t) => Closed(t)' /\ Closing(t)' = Closing(t)
             /\ Blamed(t)' <=> Blamed(t)
             /\ HasEnded(t) => HasEnded(t)'
             /\ taken[t] \in Nat /\ Len(wire[t]) \in Nat
             /\ taken[t] <= Len(wire'[t])
  <2>1. /\ taken[t] \in Nat /\ Len(wire[t]) \in Nat /\ taken[t] <= Len(wire[t])
    BY DEF ReaderTypeOK, WiresInOrder, ReaderInv, ReadsMember
  <2>2. Closed(t) => Closed(t)' /\ Closing(t)' = Closing(t)
    BY DEF Closed, IsClosed, Closing, LastOf
  <2>3. HasEnded(t) => HasEnded(t)'
    BY <1>1, <2>2 DEF HasEnded
  <2>4. Blamed(t)' <=> Blamed(t)
    BY <1>1, <2>1, <2>2 DEF Blamed
  <2> QED
    BY <2>1, <2>2, <2>3, <2>4
<1>3. \A t \in Streams : \A e : Got(t, e)' <=> Got(t, e)
  BY <1>1 DEF Got
<1>4. ASSUME NEW t \in Streams PROVE ReadsMember(t)'
  <2>1. ReadsMember(t)
    BY DEF ReaderInv
  <2>2. Blamed(t) => Closed(t)
    BY DEF Blamed
  <2> QED
    BY <1>1, <1>2, <1>3, <2>1, <2>2 DEF ReadsMember
<1>5. ItemsInOrder'
  BY <1>1 DEF ReaderInv, ItemsInOrder
<1>6. ReaderVerdict'
  BY <1>1, <1>2 DEF ReaderInv, ReaderVerdict, Blamed
<1> QED
  BY <1>4, <1>5, <1>6 DEF ReaderInv

-----------------------------------------------------------------------------
(***************************************************************************)
(* A member's stream rebuilt from the pairs of its source: in the order    *)
(* they were given, they are its events from the first on.                 *)
(***************************************************************************)
HandedOver(s) == IF Blamed(s) THEN taken[s] - 1 ELSE taken[s]

\* What a place of a member holds, and that no event of it holds two places.
LEMMA PlacesAreEvents ==
  ASSUME ReaderTypeOK, WiresInOrder, ReaderInv, NEW s \in Streams
  PROVE  /\ HandedOver(s) \in Nat
         /\ \A i \in Places(s) :
              /\ i \in Nat /\ i >= 1
              /\ yielded[i] = Item(s, yielded[i].event)
              /\ yielded[i].event \in 1 .. HandedOver(s)
         /\ \A e \in 1 .. HandedOver(s) :
              \E i \in Places(s) : yielded[i].event = e
         /\ \A i, j \in Places(s) :
              /\ j < i => yielded[j].event < yielded[i].event
              /\ yielded[i].event = yielded[j].event => i = j
<1> DEFINE S == [ source : Streams, event : Nat ]
<1>1. yielded \in Seq(S) /\ taken[s] \in Nat /\ ReadsMember(s)
  BY DEF ReaderTypeOK, ReaderInv
<1>2. HandedOver(s) \in Nat
  <2>1. ASSUME Blamed(s) PROVE taken[s] # 0
    BY <2>1 DEF Blamed, Closed, IsClosed, WiresInOrder
  <2> QED
    BY <1>1, <2>1 DEF HandedOver
<1>3. ASSUME NEW i \in Places(s)
      PROVE  /\ i \in DOMAIN yielded /\ i \in Nat /\ i >= 1
             /\ yielded[i] \in S /\ yielded[i].source = s
  <2> HIDE DEF S
  <2> QED
    BY <1>1 DEF Places
<1>4. ASSUME NEW i \in Places(s)
      PROVE  /\ yielded[i] = Item(s, yielded[i].event)
             /\ yielded[i].event \in 1 .. HandedOver(s)
  BY <1>1, <1>3 DEF Item, ReadsMember, HandedOver
<1>5. ASSUME NEW e \in 1 .. HandedOver(s)
      PROVE  \E i \in Places(s) : yielded[i].event = e
  BY <1>1 DEF ReadsMember, HandedOver, Got, Places, Item
<1>6. ASSUME NEW i \in Places(s), NEW j \in Places(s), j < i
      PROVE  yielded[j].event < yielded[i].event
  <2>1. j \in 1 .. i - 1 /\ i \in DOMAIN yielded
        /\ yielded[j].source = yielded[i].source
    BY <1>3, <1>6
  <2> QED
    BY <2>1 DEF ReaderInv, ItemsInOrder
<1>7. ASSUME NEW i \in Places(s), NEW j \in Places(s),
             yielded[i].event = yielded[j].event
      PROVE  i = j
  <2>1. yielded[i].event \in Nat /\ yielded[j].event \in Nat
    BY <1>2, <1>4
  <2>2. ~(j < i) /\ ~(i < j)
    BY <1>6, <1>7, <2>1
  <2> QED
    BY <1>3, <2>2
<1> QED
  BY <1>2, <1>3, <1>4, <1>5, <1>6, <1>7

\* As many places as there are events in them.
LEMMA PlacesCounted ==
  ASSUME ReaderTypeOK, WiresInOrder, ReaderInv, NEW s \in Streams,
         NEW P \in SUBSET Places(s), NEW n \in Nat,
         \A i \in P : yielded[i].event \in 1 .. n,
         \A e \in 1 .. n : \E i \in P : yielded[i].event = e
  PROVE  Cardinality(P) = n
<1> DEFINE F == [i \in P |-> yielded[i].event]
<1>1. F \in [P -> 1 .. n]
  OBVIOUS
<1>2. \A i, j \in P : F[i] = F[j] => i = j
  BY PlacesAreEvents
<1>3. \A e \in 1 .. n : \E i \in P : F[i] = e
  OBVIOUS
<1> HIDE DEF F
<1>4. F \in Bijection(P, 1 .. n)
  BY <1>1, <1>2, <1>3, Fun_IsBij
<1>5. ExistsBijection(1 .. n, P)
  BY <1>4, Fun_ExistsBij, Fun_ExistsBijSymmetric
<1>6. IsFiniteSet(1 .. n) /\ Cardinality(1 .. n) = n
  BY FS_Interval
<1> QED
  BY <1>5, <1>6, FS_Bijection

\* The k-th pair of a source is its k-th event, up to the last handed over.
LEMMA RebuiltFromSource ==
  ASSUME ReaderTypeOK, WiresInOrder, ReaderInv, NEW s \in Streams
  PROVE  YieldedFrom(s) = [k \in 1 .. HandedOver(s) |-> Item(s, k)]
<1> DEFINE n == HandedOver(s)
<1>1. n \in Nat
  BY PlacesAreEvents
<1>2. Cardinality(Places(s)) = n
  <2>1. Places(s) \in SUBSET Places(s)
    OBVIOUS
  <2> QED
    BY <1>1, <2>1, PlacesAreEvents, PlacesCounted
<1>3. ASSUME NEW i \in Places(s)
      PROVE  Cardinality(Places(s) \cap 1 .. i) = yielded[i].event
  <2> DEFINE P == Places(s) \cap 1 .. i
             m == yielded[i].event
  <2>1. P \in SUBSET Places(s) /\ m \in 1 .. n /\ m \in Nat
    BY <1>1, PlacesAreEvents
  <2>2. ASSUME NEW j \in P PROVE yielded[j].event \in 1 .. m
    <3>1. j \in Places(s) /\ j \in Nat /\ i \in Nat /\ (j < i \/ j = i)
      BY PlacesAreEvents
    <3>2. yielded[j].event \in 1 .. n
      BY <3>1, PlacesAreEvents
    <3>3. yielded[j].event < m \/ yielded[j].event = m
      BY <3>1, PlacesAreEvents
    <3> QED
      BY <1>1, <2>1, <3>2, <3>3
  <2>3. ASSUME NEW e \in 1 .. m PROVE \E j \in P : yielded[j].event = e
    <3>1. e \in 1 .. n
      BY <1>1, <2>1
    <3>2. PICK j \in Places(s) : yielded[j].event = e
      BY <3>1, PlacesAreEvents
    <3>3. j \in Nat /\ i \in Nat /\ j >= 1 /\ ~(i < j)
      <4>1. i < j => m < yielded[j].event
        BY <3>2, PlacesAreEvents
      <4> QED
        BY <2>1, <3>2, <4>1, PlacesAreEvents
    <3> QED
      BY <3>2, <3>3
  <2> HIDE DEF P, m
  <2>4. Cardinality(P) = m
    BY <2>1, <2>2, <2>3, PlacesCounted
  <2> QED
    BY <2>4 DEF P, m
<1>4. ASSUME NEW k \in 1 .. n PROVE yielded[Place(s, k)] = Item(s, k)
  <2>1. PICK i \in Places(s) : yielded[i].event = k
    BY PlacesAreEvents
  <2>2. Cardinality(Places(s) \cap 1 .. i) = k
    BY <1>3, <2>1
  <2>3. /\ Place(s, k) \in Places(s)
        /\ Cardinality(Places(s) \cap 1 .. Place(s, k)) = k
    BY <2>2 DEF Place
  <2>4. yielded[Place(s, k)].event = k
    BY <1>3, <2>3
  <2> QED
    BY <2>3, <2>4, PlacesAreEvents
<1> QED
  BY <1>2, <1>4 DEF YieldedFrom

=============================================================================
