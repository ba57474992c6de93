---------------------------- MODULE CallContext ----------------------------
(***************************************************************************)
(* A call from the transport's method to the request handler's operation:  *)
(* the method the stub names, the metadata sent with it, the servicer that *)
(* is found for it, and the ServerCallContext that is built for it and     *)
(* read by the operation.  The calls share one session, the session's      *)
(* members are the callers, and the servicers of one server serve them     *)
(* concurrently: a context is built when the method starts and read after  *)
(* other calls had theirs built.  The servicers are added before the       *)
(* server serves.  v1.0 sends no metadata and takes the tenant of the      *)
(* request; v0.3 sends the caller's service parameters and knows no        *)
(* tenant.  How an operation fails is in StreamServer and UnaryServer.     *)
(***************************************************************************)
EXTENDS MethodTable

CONSTANTS
  Calls,        \* the calls
  Members,      \* the members of the session
  Subjects,     \* the names a verified subject or a caller may use
  SubjectOf,    \* SubjectOf[m]: Context.peer_subject() of a call m sends
  IssuerOf,     \* IssuerOf[m]: Context.peer_issuer()
  Tenants,      \* the tenants of requests, "" for none
  Extensions,   \* the extensions a caller may ask for
  MayAsk        \* MayAsk[c]: the requests call c may make

\* Metadata by its keys: the version header, the extension header (a set), and
\* anything that claims to be a subject.  "-" and {} are a missing key.
Metadata(ver, exts, claim) ==
  [ version |-> ver, extensions |-> exts, claim |-> claim ]

NoMetadata == Metadata("-", {}, "-")

ServiceParameters ==
  { Metadata(v, x, s) : v \in { "-", "1.0" }, x \in SUBSET Extensions,
                        s \in Subjects \cup { "-" } }

Requests ==
  [ transport : Transports, operation : Operations, sender : Members,
    params : ServiceParameters, tenant : Tenants ]

\* peer_subject() and peer_issuer() may be None or the empty string; "-" marks a
\* missing key.
ASSUME CallContextAssumption ==
  /\ SubjectOf \in [Members -> Subjects \cup { "None", "" }]
  /\ IssuerOf \in [Members -> { "None", "", "iss" }]
  /\ Subjects \cap { "None", "", "-" } = {}
  /\ \A c \in Calls : MayAsk[c] \subseteq Requests

VARIABLES
  stage,     \* stage[c]: where the call stands
  asked,     \* asked[c]: what the caller asked for
  sent,      \* sent[c]: the metadata that travels with it
  by,        \* by[c]: the servicer that serves it
  objects,   \* the ServerCallContext objects, by their identity
  context,   \* context[c]: the identity of the object the method holds
  saw,       \* saw[c]: what the operation read from it
  result     \* result[c]: the operation performed, or why none was

callVars == <<stage, asked, sent, by, objects, context, saw, result>>
contextVars == <<table, callVars>>

-----------------------------------------------------------------------------
(***************************************************************************)
(* The caller.                                                             *)
(***************************************************************************)
\* _get_metadata: the version header first, then the service parameters, which
\* may overwrite it.
GetMetadata(params) ==
  [ params EXCEPT !.version = IF params.version = "-" THEN "0.3" ELSE @ ]

\* The v1.0 transports take a context and hand none of it on.
Sent(req) ==
  IF VersionOf(req.transport) = "v03" THEN GetMetadata(req.params) ELSE NoMetadata

-----------------------------------------------------------------------------
(***************************************************************************)
(* The servicer.                                                           *)
(***************************************************************************)
Unauthenticated == [ subject |-> "-", issuer |-> "-" ]

SlimUser(subject, issuer) == [ subject |-> subject, issuer |-> issuer ]

Falsy(text) == text \in { "None", "" }

\* A faulty variant: a session without a subject is named by the metadata.
UserFromMetadata(m, metadata) ==
  IF Falsy(SubjectOf[m])
  THEN IF metadata.claim = "-" THEN Unauthenticated
       ELSE SlimUser(metadata.claim, "-")
  ELSE SlimUser(SubjectOf[m], IF Falsy(IssuerOf[m]) THEN "-" ELSE IssuerOf[m])

\* user_from_context; the metadata is at hand and is not looked at.
UserFromContext(m, metadata) ==
  IF Falsy(SubjectOf[m]) THEN Unauthenticated
  ELSE SlimUser(SubjectOf[m], IF Falsy(IssuerOf[m]) THEN "-" ELSE IssuerOf[m])

NoContext == [ user |-> Unauthenticated, extensions |-> {}, tenant |-> "" ]

\* DefaultCallContextBuilder.build, and for v1.0 _build_call_context.
ServerCallContext(req, metadata) ==
  [ user       |-> UserFromContext(req.sender, metadata),
    extensions |-> metadata.extensions,
    tenant     |-> IF VersionOf(req.transport) = "v1" THEN req.tenant ELSE "" ]

\* GetAgentCard of v0.3 is the one method that builds no context.
BuildsContext(m) == m # "GetAgentCard"

\* A faulty variant: the builder keeps one object for all calls.
SharedObject(c) == CHOOSE d \in Calls : TRUE

\* The identity of the object build returns: a new one for each call.
NewObject(c) == c

-----------------------------------------------------------------------------
Nobody == [ transport |-> "none", operation |-> "none" ]

ContextInit ==
  /\ TableInit
  /\ stage   = [c \in Calls |-> "idle"]
  /\ asked   = [c \in Calls |-> Nobody]
  /\ sent    = [c \in Calls |-> NoMetadata]
  /\ by      = [c \in Calls |-> NoServicer]
  /\ objects = [c \in Calls |-> NoContext]
  /\ context = [c \in Calls |-> c]
  /\ saw     = [c \in Calls |-> NoContext]
  /\ result  = [c \in Calls |-> "none"]

Named(req) == StubMethod(req.transport, req.operation)

\* The transport's method is called: it calls the stub's.
Send(c) ==
  /\ stage[c] = "idle"
  /\ \E req \in MayAsk[c] :
       /\ Named(req) # NoMethod
       /\ asked' = [asked EXCEPT ![c] = req]
       /\ sent'  = [sent EXCEPT ![c] = Sent(req)]
  /\ stage' = [stage EXCEPT ![c] = "sent"]
  /\ UNCHANGED <<table, by, objects, context, saw, result>>

\* `raise NotImplementedError', before anything is sent.
NotSupported(c) ==
  /\ stage[c] = "idle"
  /\ \E req \in MayAsk[c] :
       Named(req) = NoMethod /\ asked' = [asked EXCEPT ![c] = req]
  /\ stage'  = [stage EXCEPT ![c] = "over"]
  /\ result' = [result EXCEPT ![c] = "NotImplementedError"]
  /\ UNCHANGED <<table, sent, by, objects, context, saw>>

Found(c) == Lookup(VersionOf(asked[c].transport), Named(asked[c]).method)

\* Why the call is not served: no handler of that name, a handler of the other
\* kind, or the base servicer's method, which the class does not override.
Refusal(c) ==
  LET e == Found(c)
      r == Named(asked[c]) IN
  CASE e = NoEntry -> "UNIMPLEMENTED"
    [] e # NoEntry /\ e.kind # r.kind -> "mismatch"
    [] e # NoEntry /\ e.kind = r.kind /\ r.method \notin e.servicer.overrides ->
         "UNIMPLEMENTED"
    [] OTHER -> "none"

Refuse(c) ==
  /\ stage[c] = "sent" /\ Refusal(c) # "none"
  /\ result' = [result EXCEPT ![c] = Refusal(c)]
  /\ stage'  = [stage EXCEPT ![c] = "over"]
  /\ UNCHANGED <<table, asked, sent, by, objects, context, saw>>

\* The servicer's method starts: it builds its context and awaits the operation.
Build(c) ==
  /\ stage[c] = "sent" /\ Refusal(c) = "none"
  /\ by' = [by EXCEPT ![c] = Found(c).servicer]
  /\ IF BuildsContext(Named(asked[c]).method)
     THEN /\ context' = [context EXCEPT ![c] = NewObject(c)]
          /\ objects' = [objects EXCEPT ![NewObject(c)] =
                           ServerCallContext(asked[c], sent[c])]
     ELSE UNCHANGED <<objects, context>>
  /\ stage' = [stage EXCEPT ![c] = "built"]
  /\ UNCHANGED <<table, asked, sent, saw, result>>

\* The operation reads the context it was given.
Operation(c) ==
  /\ stage[c] = "built"
  /\ result' = [result EXCEPT ![c] = Performs(Named(asked[c]).method)]
  /\ saw' = [saw EXCEPT ![c] = IF BuildsContext(Named(asked[c]).method)
                               THEN objects[context[c]] ELSE NoContext]
  /\ stage'  = [stage EXCEPT ![c] = "done"]
  /\ UNCHANGED <<table, asked, sent, by, objects, context>>

\* A server is filled before it serves.
Fill(x) ==
  /\ \A c \in Calls : stage[c] = "idle"
  /\ Add(x)
  /\ UNCHANGED callVars

ContextNext ==
  \/ \E x \in Servicers : Fill(x)
  \/ \E c \in Calls :
       Send(c) \/ NotSupported(c) \/ Refuse(c) \/ Build(c) \/ Operation(c)

ContextSpec == ContextInit /\ [][ContextNext]_contextVars

-----------------------------------------------------------------------------
Done(c) == stage[c] = "done"

\* Done with a context in hand.
Aware(c) == Done(c) /\ BuildsContext(Named(asked[c]).method)

\* Whatever transport asks, what an agent performs is the operation it was
\* asked for, as the kind of call the stub made and by a servicer of the
\* transport's own version: serving both versions, or one of them to clients of
\* both, mixes up nothing, in whatever order they are added and whatever method
\* names they share.
ReachesOwnVersion ==
  \A c \in Calls :
    /\ result[c] # "mismatch"
    /\ Done(c) => /\ by[c].version = VersionOf(asked[c].transport)
                  /\ result[c] = asked[c].operation

\* Whatever the metadata claims and whoever else is being served, the user an
\* operation sees is the verified subject of the member that sent its request,
\* and nobody when there is none.
UserIsSender ==
  \A c \in Calls : Aware(c) =>
    LET m == asked[c].sender IN
      /\ saw[c].user = Unauthenticated <=> SubjectOf[m] \in { "None", "" }
      /\ saw[c].user # Unauthenticated =>
           /\ saw[c].user.subject = SubjectOf[m]
           /\ saw[c].user.issuer \in { IssuerOf[m], "-" }

\* An operation works for the tenant of its own request, never of one that was
\* served in between (v0.3 has none), and with the extensions its own caller
\* asked for in its service parameters, which also win over the version header
\* the transport sets; a v1.0 caller's parameters are not heard at all.
ContextIsOwn ==
  \A c \in Calls : Aware(c) =>
    LET req == asked[c] IN
      IF VersionOf(req.transport) = "v1"
      THEN /\ saw[c].tenant = req.tenant
           /\ saw[c].extensions = {} /\ sent[c] = NoMetadata
      ELSE /\ saw[c].tenant = ""
           /\ saw[c].extensions = req.params.extensions
           /\ sent[c].version \in { "0.3", req.params.version } \ { "-" }
           /\ req.params.version # "-" => sent[c].version = req.params.version

=============================================================================
