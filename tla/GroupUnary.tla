----------------------------- MODULE GroupUnary -----------------------------
(***************************************************************************)
(* A multicast unary call from end to end: one UnaryServer task per member *)
(* of the group and one GroupReader.  The multicast transport calls v1.0   *)
(* methods; a group stub of v0.3 is generated as well.                     *)
(***************************************************************************)
EXTENDS UnaryServer, GroupReader

CONSTANT
  Watched    \* any member: what is shown of it is shown of each of them

ASSUME WatchedAssumption == Watched \in Streams

vars == <<serverVars, readerVars>>

Init == ServerInit /\ ReaderInit

\* call_multicast_unary_async: one request to every member.
OpenGroup ==
  /\ reader = "idle"
  /\ \E r \in Called : route' = [s \in Streams |-> r]
  /\ task'   = [s \in Streams |-> "called"]
  /\ reader' = "reading"
  /\ UNCHANGED <<ran, thrown, guarded, reply, wire, up, taken, yielded, error>>

Next ==
  \/ OpenGroup
  \/ ReaderStep /\ UNCHANGED serverVars
  \/ \E s \in Streams : ServerStep(s) /\ UNCHANGED readerVars

Spec == Init /\ [][Next]_vars

\* As in UnaryCall, for each member's task and for the one reader.
Fairness ==
  /\ \A s \in Streams : WF_vars(TaskStep(s) /\ UNCHANGED readerVars)
  /\ WF_vars(ReadGroup /\ UNCHANGED serverVars)
  /\ WF_vars(ResumeReading /\ UNCHANGED serverVars)

FairSpec == Spec /\ Fairness

TypeOK == ServerTypeOK /\ ReaderTypeOK

\* The members', the reader's, and that the request went to all at once.
GroupInv ==
  /\ TypeOK
  /\ \A s \in Streams : ServerInv(s) /\ (reader = "idle" <=> task[s] = "idle")
  /\ ReaderInv

-----------------------------------------------------------------------------
\* Each pair is one member's own result, of an operation it completed once and
\* without raising, and no member is heard twice.
RepliesAreResults ==
  \A i \in DOMAIN yielded :
    LET s == yielded[i].source IN
      /\ yielded[i].event = Result /\ ran[s] = 1 /\ thrown[s].kind = "ok"
      /\ \A j \in DOMAIN yielded : yielded[j].source = s => i = j

\* A loop that ends without an error has handed over every member's result.
EndHasEveryReply ==
  reader = "ended" => \A s \in Streams : Got(s, Result)

\* A raised error is a lost session's or that of a member's own exception.
OneMemberFailed ==
  reader = "raised" =>
    \/ error = TransportStatus /\ \E s \in Streams : ~up[s]
    \/ \E s \in Streams : thrown[s].kind # "ok" /\ error = ErrorStatus(s)

\* What MulticastClient.send_message documents, for a group whose sessions all
\* live: when the call is over, the response of every agent that gave one has
\* been handed over.
OneResponsePerAgent ==
  /\ reader \in { "ended", "raised" }
  /\ \A s \in Streams : up[s]
  => \A s \in Streams : wire[s] = Answer(Result) => Got(s, Result)

-----------------------------------------------------------------------------
(***************************************************************************)
(* Seen from one member, the group call is a UnaryContract of its own.     *)
(* The caller has its answer once the pair was handed over, and then keeps *)
(* it whatever ends the loop; when another member's error does before, the *)
(* caller is gone for this one.                                            *)
(***************************************************************************)
Outcome(s) ==
  CASE Got(s, Result) -> [ how |-> "complete", status |-> NoStatus ]
    [] ~Got(s, Result) /\ reader = "raised"
         /\ (Blamed(s) \/ error = TransportStatus) ->
         [ how |-> "failed", status |-> error ]
    [] ~Got(s, Result) /\ reader = "raised"
         /\ ~(Blamed(s) \/ error = TransportStatus) ->
         [ how |-> "gone", status |-> NoStatus ]
    [] ~Got(s, Result) /\ reader = "left" -> [ how |-> "gone", status |-> NoStatus ]
    [] OTHER -> [ how |-> "open", status |-> NoStatus ]

Member == INSTANCE UnaryContract WITH
  Calls     <- { Watched },
  Statuses  <- AgentStatuses,
  Transport <- TransportStatus,
  None      <- NoStatus,
  effect    <- [s \in { Watched } |-> ran[s]],
  verdict   <- [s \in { Watched } |-> Verdict(s)],
  outcome   <- [s \in { Watched } |-> Outcome(s)]

\* A member's part of the group call is a unary call the contract allows,
\* whatever the other members do: at most once, and told as it ended.
MemberImplementsContract == Member!Spec

\* Every consumer that stays in its loop is told how the group call ended,
\* unless a member's task was cancelled under a live session.
GroupCallSettles ==
  reader = "reading" ~>
    (reader \in { "ended", "raised", "left" }
     \/ \E s \in Streams : task[s] = "dead" /\ up[s])

=============================================================================
