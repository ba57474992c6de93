--------------------------- MODULE StreamContract ---------------------------
(***************************************************************************)
(* What a server-streaming A2A call promises its caller, whatever carries  *)
(* it.  A source (the request handler's generator) produces numbered       *)
(* events and concludes; the caller is handed the events one by one, in    *)
(* order, and is then told how the call ended.  The two sides are          *)
(* asynchronous.  The caller may walk away, and the carrier may fail at    *)
(* any time, but only the source can make the call end well, and only      *)
(* after every event has been handed over.                                 *)
(***************************************************************************)
EXTENDS Naturals, Sequences

CONSTANTS
  Streams,     \* the calls
  Statuses,    \* the error statuses a source can conclude with
  Transport,   \* the status of a failure of the carrier
  None         \* no status

VARIABLES
  source,      \* source[s]: how many events the source of s has produced
  verdict,     \* verdict[s]: how the source concluded, an Ending
  delivered,   \* delivered[s]: the events handed to the caller, in order
  outcome      \* outcome[s]: what the caller was told, an Ending

vars == <<source, verdict, delivered, outcome>>

Ending(how, status) == [ how |-> how, status |-> status ]
Open        == Ending("open", None)
Complete    == Ending("complete", None)
Gone        == Ending("gone", None)
Failed(st)  == Ending("failed", st)

Init ==
  /\ source    = [s \in Streams |-> 0]
  /\ verdict   = [s \in Streams |-> Open]
  /\ delivered = [s \in Streams |-> << >>]
  /\ outcome   = [s \in Streams |-> Open]

Produce(s) ==
  /\ verdict[s] = Open
  /\ source' = [source EXCEPT ![s] = @ + 1]
  /\ UNCHANGED <<verdict, delivered, outcome>>

Conclude(s) ==
  /\ verdict[s] = Open
  /\ \E v \in { Complete } \cup { Failed(st) : st \in Statuses } :
       verdict' = [verdict EXCEPT ![s] = v]
  /\ UNCHANGED <<source, delivered, outcome>>

Deliver(s) ==
  /\ outcome[s] = Open
  /\ Len(delivered[s]) < source[s]
  /\ delivered' = [delivered EXCEPT ![s] = Append(@, Len(@) + 1)]
  /\ UNCHANGED <<source, verdict, outcome>>

\* A good end and a failure of the source are reported once every event has
\* been handed over; only a failure of the carrier may cut a stream short.
Settle(s) ==
  /\ outcome[s] = Open
  /\ \/ /\ verdict[s] # Open
        /\ Len(delivered[s]) = source[s]
        /\ outcome' = [outcome EXCEPT ![s] = verdict[s]]
     \/ outcome' = [outcome EXCEPT ![s] = Failed(Transport)]
  /\ UNCHANGED <<source, verdict, delivered>>

Leave(s) ==
  /\ outcome[s] = Open
  /\ outcome' = [outcome EXCEPT ![s] = Gone]
  /\ UNCHANGED <<source, verdict, delivered>>

Next ==
  \E s \in Streams :
    Produce(s) \/ Conclude(s) \/ Deliver(s) \/ Settle(s) \/ Leave(s)

Spec == Init /\ [][Next]_vars

=============================================================================
