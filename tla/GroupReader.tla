---------------------------- MODULE GroupReader ----------------------------
(***************************************************************************)
(* The caller's side of a multicast call: MulticastClient re-yields what   *)
(* SRPCMulticastTransport yields, which re-yields what a method of         *)
(* A2AServiceGroupStub yields while it loops on reader.next_async().  The  *)
(* consumer gets (source, response) pairs as they arrive from any member   *)
(* of the group.  Streams are the members; one call is modelled.           *)
(*                                                                         *)
(* The reader is modelled by what the stub relies on: it merges the        *)
(* members' responses in any order but keeps each member's own order, it   *)
(* reports is_end once, after every member's response has ended, and an    *)
(* error of a member as one is_error message.                              *)
(***************************************************************************)
EXTENDS SlimRpc, FiniteSets

VARIABLES
  reader,     \* where the caller stands
  taken,      \* taken[s]: messages of wire[s] that next_async has returned
  yielded,    \* the (source, event) pairs the consumer was given, in order
  error       \* the status of the RpcError raised to the consumer

readerVars == <<reader, taken, yielded, error>>

\* As in StreamCall: reading at next_async, held at the stub's yield.
ReaderStates == { "idle", "reading", "held", "ended", "raised", "left" }

\* A pair the consumer is given.
Item(s, e) == [ source |-> s, event |-> e ]

ReaderInit ==
  /\ reader  = "idle"
  /\ taken   = [s \in Streams |-> 0]
  /\ yielded = << >>
  /\ error   = NoStatus

\* The next message of member s.
Pending(s, kind) ==
  /\ reader = "reading"
  /\ taken[s] < Len(wire[s])
  /\ wire[s][taken[s] + 1].kind = kind

\* `if msg.is_data(): yield msg.item.context, ...'.
ReadItem(s) ==
  /\ Pending(s, "data")
  /\ taken'   = [taken EXCEPT ![s] = @ + 1]
  /\ yielded' = Append(yielded, Item(s, wire[s][taken[s] + 1].event))
  /\ reader'  = "held"
  /\ UNCHANGED error

\* A faulty variant: an error is skipped as a message that is not data.
ReadErrorSkipped(s) ==
  /\ Pending(s, "error")
  /\ taken'  = [taken EXCEPT ![s] = @ + 1]
  /\ UNCHANGED <<reader, yielded, error>>

\* `if msg.is_error(): raise msg.error': the call is over for every member,
\* and the error does not say whose it is.
ReadItemError(s) ==
  /\ Pending(s, "error")
  /\ taken'  = [taken EXCEPT ![s] = @ + 1]
  /\ error'  = wire[s][taken[s] + 1].status
  /\ reader' = "raised"
  /\ UNCHANGED yielded

\* A member has nothing more to say.
HasEnded(s) ==
  /\ Closed(s) /\ Closing(s).kind = "end"
  /\ taken[s] + 1 = Len(wire[s])

\* A faulty variant: the first member to end ends the call.
ReadFirstEnd ==
  /\ reader = "reading"
  /\ \E s \in Streams : HasEnded(s)
  /\ reader' = "ended"
  /\ UNCHANGED <<taken, yielded, error>>

\* `if msg.is_end(): break'.
ReadAllEnd ==
  /\ reader = "reading"
  /\ \A s \in Streams : HasEnded(s)
  /\ reader' = "ended"
  /\ UNCHANGED <<taken, yielded, error>>

\* A member's session is lost before its response was read to the end.
ReadMemberLost(s) ==
  /\ reader = "reading"
  /\ ~up[s] /\ ~HasEnded(s)
  /\ error'  = TransportStatus
  /\ reader' = "raised"
  /\ UNCHANGED <<taken, yielded>>

ResumeReading ==
  /\ reader = "held"
  /\ reader' = "reading"
  /\ UNCHANGED <<taken, yielded, error>>

\* The consumer leaves its loop or is cancelled; nothing is sent.
LeaveGroup ==
  /\ reader \in { "reading", "held" }
  /\ reader' = "left"
  /\ UNCHANGED <<taken, yielded, error>>

ReadGroup ==
  \/ \E s \in Streams : ReadItem(s) \/ ReadItemError(s) \/ ReadMemberLost(s)
  \/ ReadAllEnd

ReaderStep == ReadGroup \/ ResumeReading \/ LeaveGroup

-----------------------------------------------------------------------------
ReaderTypeOK ==
  /\ reader  \in ReaderStates
  /\ taken   \in [Streams -> Nat]
  /\ yielded \in Seq([ source : Streams, event : Nat ])
  /\ error   \in Statuses

\* The places of a member's pairs among those the consumer was given.
Places(s) == { i \in DOMAIN yielded : yielded[i].source = s }

\* The k-th of them.
Place(s, k) == CHOOSE i \in Places(s) : Cardinality(Places(s) \cap 1 .. i) = k

\* What the consumer received from one member, told apart by source.
YieldedFrom(s) == [k \in 1 .. Cardinality(Places(s)) |-> yielded[Place(s, k)]]

Got(s, e) == \E i \in DOMAIN yielded : yielded[i] = Item(s, e)

\* The member whose error was raised.
Blamed(s) == Closed(s) /\ taken[s] = Len(wire[s])

-----------------------------------------------------------------------------
(***************************************************************************)
(* What the reader keeps true, for members that put their events on the    *)
(* wire in order and close it last.                                        *)
(***************************************************************************)
\* It has handed over what it took of a member, and nothing else.
ReadsMember(s) ==
  LET n == IF Blamed(s) THEN taken[s] - 1 ELSE taken[s] IN
    /\ taken[s] <= Len(wire[s])
    /\ \A e \in 1 .. n : Got(s, e)
    /\ \A i \in DOMAIN yielded : yielded[i].source = s => yielded[i].event \in 1 .. n
    /\ Blamed(s) => reader = "raised" /\ Closing(s).kind = "error"

\* The events of one source are handed over in order and without a gap.
ItemsInOrder ==
  \A i \in DOMAIN yielded :
    /\ \A j \in 1 .. i - 1 : yielded[j].source = yielded[i].source =>
         yielded[j].event < yielded[i].event
    /\ \A e \in 1 .. yielded[i].event - 1 :
         \E j \in 1 .. i - 1 : yielded[j] = Item(yielded[i].source, e)

\* How the loop was left.
ReaderVerdict ==
  /\ reader = "ended" => \A s \in Streams : HasEnded(s)
  /\ reader = "raised" =>
       \/ error = TransportStatus /\ \E s \in Streams : ~up[s]
       \/ \E s \in Streams : Blamed(s) /\ error = Closing(s).status

ReaderInv ==
  /\ \A s \in Streams : ReadsMember(s)
  /\ ItemsInOrder
  /\ ReaderVerdict

=============================================================================
