------------------------------ MODULE SlimRpc ------------------------------
(***************************************************************************)
(* The part of slim_bindings the library relies on, as its generated code  *)
(* uses it: a response travels as a sequence of messages, of which only    *)
(* the last may close it.  A streamed response is its events and an end    *)
(* mark or an error; a unary response is one event and an end mark, put    *)
(* there at once when handle returns, or an error.                         *)
(*                                                                         *)
(* An event is its position in the sequence the agent yields.              *)
(***************************************************************************)
EXTENDS Integers, Sequences, A2AErrors

CONSTANTS
  Streams,   \* the responses: one per call, or per member of a group call
  Nested     \* the statuses an agent's own slimrpc calls may end with

ASSUME NestedAssumption == Nested \subseteq Statuses

VARIABLES
  wire,      \* wire[s]: the messages put on the response stream
  up         \* up[s]: the session under the call is alive

Data(n)     == [ kind |-> "data",  event |-> n, status |-> NoStatus ]
EndMark     == [ kind |-> "end",   event |-> 0, status |-> NoStatus ]
ErrorOf(st) == [ kind |-> "error", event |-> 0, status |-> st ]

Messages ==
  [ kind : { "data", "end", "error" }, event : Nat, status : Statuses ]

\* Whether a response has been closed, and by what.
IsClosed(w) == w # << >> /\ w[Len(w)].kind # "data"
LastOf(w)   == w[Len(w)]
Closed(s)   == IsClosed(wire[s])
Closing(s)  == LastOf(wire[s])

\* The k-th message is the k-th event, and only the last may close the stream.
WireInOrder(s) ==
  \A k \in DOMAIN wire[s] :
    /\ wire[s][k].kind = "data" => wire[s][k].event = k
    /\ wire[s][k].kind # "data" => k = Len(wire[s])

\* What code that may raise the A2AError types of `types' can raise.  An agent
\* that is itself a slimrpc client fails with any RpcError it was answered with
\* or that its transport reports, a bare INTERNAL included.
RaisedBy(types) ==
  { A2AError(t) : t \in types } \cup { RpcError(st) : st \in Nested }
  \cup { PyException }

=============================================================================
