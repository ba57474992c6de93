---------------------------- MODULE GroupStream ----------------------------
(***************************************************************************)
(* A multicast server-streaming call from end to end: one StreamServer     *)
(* task per member of the group and one GroupReader.                       *)
(***************************************************************************)
EXTENDS StreamServer, GroupReader

CONSTANT
  Watched    \* any member: what is shown of it is shown of each of them

ASSUME WatchedAssumption == Watched \in Streams

vars == <<serverVars, readerVars>>

Init == ServerInit /\ ReaderInit

\* The streaming methods the multicast transport calls; it has no v0.3 twin.
GroupRoutes == { r \in Routes : VersionOf(r) = "v1" }

\* call_multicast_unary_stream_async: one request to every member.
OpenGroup ==
  /\ reader = "idle"
  /\ \E r \in GroupRoutes : route' = [s \in Streams |-> r]
  /\ task'   = [s \in Streams |-> "called"]
  /\ reader' = "reading"
  /\ UNCHANGED <<emitted, thrown, guarded, pending, wire, up,
                 taken, yielded, error>>

Next ==
  \/ OpenGroup
  \/ ReaderStep /\ UNCHANGED serverVars
  \/ \E s \in Streams : ServerStep(s) /\ UNCHANGED readerVars

Spec == Init /\ [][Next]_vars

\* As in StreamCall, for each member's task and for the one reader.
Fairness ==
  /\ \A s \in Streams : WF_vars(TaskStep(s) /\ UNCHANGED readerVars)
  /\ WF_vars(ReadGroup /\ UNCHANGED serverVars)
  /\ WF_vars(ResumeReading /\ UNCHANGED serverVars)

FairSpec == Spec /\ Fairness

TypeOK == ServerTypeOK /\ ReaderTypeOK

\* The inductive invariant: the members', the reader's, and that the request
\* went to all of them at once, to a method the multicast transport calls.
GroupInv ==
  /\ TypeOK
  /\ \A s \in Streams :
       /\ ServerInv(s)
       /\ reader = "idle" <=> task[s] = "idle"
       /\ task[s] # "idle" => route[s] \in GroupRoutes
  /\ ReaderInv

-----------------------------------------------------------------------------
(***************************************************************************)
(* Safety properties.                                                      *)
(***************************************************************************)
\* Whatever the interleaving, the pairs of one source are that member's
\* events, each once, without a gap and in the order its agent yielded them:
\* source is enough to rebuild every member's stream.
DemuxInOrder ==
  /\ ItemsInOrder
  /\ \A i \in DOMAIN yielded : yielded[i].event \in 1 .. emitted[yielded[i].source]

\* The loop ends without an error only when every member's generator returned
\* and all that any of them yielded was handed over.
EndOfAll ==
  reader = "ended" =>
    \A s \in Streams :
      thrown[s].kind = "ok" /\ \A e \in 1 .. emitted[s] : Got(s, e)

\* An error raised to the consumer is a lost session's, or the answer to what
\* one member's agent raised, all of whose earlier events were handed over.
GroupFailure ==
  reader = "raised" =>
    \/ error = TransportStatus /\ \E s \in Streams : ~up[s]
    \/ \E s \in Streams :
         /\ thrown[s].kind # "ok" /\ error = Answer(s)
         /\ \A e \in 1 .. emitted[s] : Got(s, e)

-----------------------------------------------------------------------------
(***************************************************************************)
(* Seen from one member, the group call is a StreamContract of its own.    *)
(* When another member's error ends the loop, this member's caller is      *)
(* gone, however far its stream had come.                                  *)
(***************************************************************************)
Verdict(s) ==
  CASE thrown[s].kind # "ok" -> [ how |-> "failed", status |-> Answer(s) ]
    [] thrown[s].kind = "ok" /\ Closed(s) ->
         [ how |-> "complete", status |-> NoStatus ]
    [] OTHER -> [ how |-> "open", status |-> NoStatus ]

Outcome(s) ==
  CASE reader = "ended" -> [ how |-> "complete", status |-> NoStatus ]
    [] reader = "raised" /\ (Blamed(s) \/ error = TransportStatus) ->
         [ how |-> "failed", status |-> error ]
    [] reader = "raised" /\ ~Blamed(s) /\ error # TransportStatus ->
         [ how |-> "gone", status |-> NoStatus ]
    [] reader = "left" -> [ how |-> "gone", status |-> NoStatus ]
    [] OTHER -> [ how |-> "open", status |-> NoStatus ]

\* The events of the pairs of one source, in the order they were given.
Delivered(s) ==
  LET given == YieldedFrom(s) IN [k \in DOMAIN given |-> given[k].event]

AgentStatuses ==
  { StatusFor("v1", g, e) : g \in BOOLEAN,
      e \in Raised \cup { A2AError("UnsupportedOperationError") } }

Member == INSTANCE StreamContract WITH
  Streams   <- { Watched },
  Statuses  <- AgentStatuses,
  Transport <- TransportStatus,
  None      <- NoStatus,
  source    <- [s \in { Watched } |-> emitted[s]],
  verdict   <- [s \in { Watched } |-> Verdict(s)],
  delivered <- [s \in { Watched } |-> Delivered(s)],
  outcome   <- [s \in { Watched } |-> Outcome(s)]

\* A member's part of the merged call is a stream the contract allows,
\* whatever the other members do: they may only end it early.
MemberImplementsContract == Member!Spec

-----------------------------------------------------------------------------
\* Every consumer that stays in its loop is told how the group call ended,
\* unless a member's task was cancelled under a live session.
GroupSettles ==
  reader = "reading" ~>
    (reader \in { "ended", "raised", "left" }
     \/ \E s \in Streams : task[s] = "dead" /\ up[s])

=============================================================================
