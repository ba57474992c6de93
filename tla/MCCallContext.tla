--------------------------- MODULE MCCallContext ---------------------------
EXTENDS CallContext

CONSTANTS c1, c2

Callers == { "alice", "bob", "eve" }

\* Verified with and without an issuer, and not verified.
Verified  == [ m \in Callers |-> IF m = "eve" THEN "" ELSE m ]
VerifiedBy == [ m \in Callers |-> IF m = "bob" THEN "" ELSE "iss" ]

Methods(v) == { r.method : r \in Registrations(v) }

\* The library's two, and a v1.0 one that streams no messages.
SomeServicers ==
  { Servicer("SRPCHandler", "v1", Methods("v1")),
    Servicer("SRPCCompatHandler", "v03", Methods("v03")),
    Servicer("partial", "v1", Methods("v1") \ { "SendStreamingMessage" }) }

Request(t, op, sender, params, tenant) ==
  [ transport |-> t, operation |-> op, sender |-> sender,
    params |-> params, tenant |-> tenant ]

\* One call of every operation over every transport, and one of every caller
\* with any service parameters beside it.
EveryOperation ==
  { Request(t, op, "alice", Metadata("-", { "x" }, "bob"), "t") :
      t \in Transports, op \in Operations }
EveryCaller ==
  { Request(t, "send_message", m, p, tenant) :
      t \in { "SRPCTransport", "SRPCCompatTransport" }, m \in Callers,
      p \in { NoMetadata, Metadata("1.0", {}, "alice"),
              Metadata("-", { "x" }, "alice") }, tenant \in { "", "u" } }

SomeRequests == [ c \in Calls |-> IF c = c1 THEN EveryOperation ELSE EveryCaller ]
=============================================================================
