--------------------------- MODULE UnaryContract ---------------------------
(***************************************************************************)
(* What a unary A2A call promises its caller, whatever carries it: the     *)
(* operation is carried out at most once; the caller is told of a result   *)
(* only if it was, and of a failure of the operation only if it failed.    *)
(* The carrier may fail and the caller may walk away at any time, and then *)
(* nothing is known of the operation.                                      *)
(***************************************************************************)
EXTENDS Naturals

CONSTANTS
  Calls,       \* the calls
  Statuses,    \* the error statuses an operation can fail with
  Transport,   \* the status of a failure of the carrier
  None         \* no status

VARIABLES
  effect,      \* effect[c]: how often the operation of c was carried out
  verdict,     \* verdict[c]: how the operation ended, an Ending
  outcome      \* outcome[c]: what the caller was told, an Ending

vars == <<effect, verdict, outcome>>

Ending(how, status) == [ how |-> how, status |-> status ]
Open       == Ending("open", None)
Complete   == Ending("complete", None)
Gone       == Ending("gone", None)
Failed(st) == Ending("failed", st)

Init ==
  /\ effect  = [c \in Calls |-> 0]
  /\ verdict = [c \in Calls |-> Open]
  /\ outcome = [c \in Calls |-> Open]

Perform(c) ==
  /\ effect[c] = 0 /\ verdict[c] = Open
  /\ effect' = [effect EXCEPT ![c] = 1]
  /\ UNCHANGED <<verdict, outcome>>

\* An operation that was carried out may still fail afterwards.
Conclude(c) ==
  /\ verdict[c] = Open
  /\ \/ effect[c] = 1 /\ verdict' = [verdict EXCEPT ![c] = Complete]
     \/ \E st \in Statuses : verdict' = [verdict EXCEPT ![c] = Failed(st)]
  /\ UNCHANGED <<effect, outcome>>

Settle(c) ==
  /\ outcome[c] = Open
  /\ \/ verdict[c] # Open /\ outcome' = [outcome EXCEPT ![c] = verdict[c]]
     \/ outcome' = [outcome EXCEPT ![c] = Failed(Transport)]
  /\ UNCHANGED <<effect, verdict>>

Leave(c) ==
  /\ outcome[c] = Open
  /\ outcome' = [outcome EXCEPT ![c] = Gone]
  /\ UNCHANGED <<effect, verdict>>

Next == \E c \in Calls : Perform(c) \/ Conclude(c) \/ Settle(c) \/ Leave(c)

Spec == Init /\ [][Next]_vars

=============================================================================
