---------------------------- MODULE MethodTable ----------------------------
(***************************************************************************)
(* The methods of one server: add_A2AServiceServicer_to_server of the two  *)
(* protocol versions fills one table; the bindings look up the service and *)
(* method a stub names and run the handler found there.  The README serves *)
(* v0.3 and v1.0 from one server; most of their methods have the same      *)
(* names.                                                                  *)
(***************************************************************************)
CONSTANT
  Servicers      \* the servicer objects: their version and what they override

Unary(m)  == [ method |-> m, kind |-> "unary_unary" ]
Stream(m) == [ method |-> m, kind |-> "unary_stream" ]
NoMethod  == [ method |-> "none", kind |-> "none" ]

\* A faulty variant: SubscribeToTask is registered as a unary method.
RegistrationsUnary(v) ==
  IF v = "v1"
  THEN { Unary("SendMessage"), Stream("SendStreamingMessage"),
         Unary("GetTask"), Unary("SubscribeToTask") }
  ELSE { Unary("SendMessage"), Stream("SendStreamingMessage"),
         Unary("GetTask"), Unary("TaskSubscription") }

\* The register calls of add_A2AServiceServicer_to_server.
Registrations(v) ==
  { Unary("SendMessage"), Stream("SendStreamingMessage"),
    Unary("GetTask"), Unary("CancelTask"),
    Unary("CreateTaskPushNotificationConfig"),
    Unary("GetTaskPushNotificationConfig"),
    Unary("DeleteTaskPushNotificationConfig") }
  \cup IF v = "v1"
       THEN { Unary("ListTasks"), Stream("SubscribeToTask"),
              Unary("ListTaskPushNotificationConfigs"),
              Unary("GetExtendedAgentCard") }
       ELSE { Stream("TaskSubscription"), Unary("ListTaskPushNotificationConfig"),
              Unary("GetAgentCard") }

Versions == { "v1", "v03" }

Transports == { "SRPCTransport", "SRPCMulticastTransport", "SRPCCompatTransport" }

VersionOf(t) == IF t = "SRPCCompatTransport" THEN "v03" ELSE "v1"

Operations ==
  { "send_message", "send_message_streaming", "subscribe", "get_task",
    "list_tasks", "cancel_task", "create_config", "get_config", "list_configs",
    "delete_config", "get_extended_agent_card" }

\* The stub's method a transport calls for an operation.  The v0.3 transport
\* raises NotImplementedError for list_tasks.
StubMethod(t, op) ==
  LET v1 == VersionOf(t) = "v1" IN
  CASE op = "send_message" -> Unary("SendMessage")
    [] op = "send_message_streaming" -> Stream("SendStreamingMessage")
    [] op = "subscribe" -> Stream(IF v1 THEN "SubscribeToTask" ELSE "TaskSubscription")
    [] op = "get_task" -> Unary("GetTask")
    [] op = "list_tasks" -> IF v1 THEN Unary("ListTasks") ELSE NoMethod
    [] op = "cancel_task" -> Unary("CancelTask")
    [] op = "create_config" -> Unary("CreateTaskPushNotificationConfig")
    [] op = "get_config" -> Unary("GetTaskPushNotificationConfig")
    [] op = "list_configs" -> Unary(IF v1 THEN "ListTaskPushNotificationConfigs"
                                    ELSE "ListTaskPushNotificationConfig")
    [] op = "delete_config" -> Unary("DeleteTaskPushNotificationConfig")
    [] OTHER -> Unary(IF v1 THEN "GetExtendedAgentCard" ELSE "GetAgentCard")

\* What a servicer's method asks its request handler for, by the operation's
\* name; GetAgentCard of v0.3 is answered by the servicer itself.
Performs(m) ==
  CASE m = "SendMessage" -> "send_message"
    [] m = "SendStreamingMessage" -> "send_message_streaming"
    [] m \in { "SubscribeToTask", "TaskSubscription" } -> "subscribe"
    [] m = "GetTask" -> "get_task"
    [] m = "ListTasks" -> "list_tasks"
    [] m = "CancelTask" -> "cancel_task"
    [] m = "CreateTaskPushNotificationConfig" -> "create_config"
    [] m = "GetTaskPushNotificationConfig" -> "get_config"
    [] m \in { "ListTaskPushNotificationConfigs",
               "ListTaskPushNotificationConfig" } -> "list_configs"
    [] m = "DeleteTaskPushNotificationConfig" -> "delete_config"
    [] OTHER -> "get_extended_agent_card"

ServiceName(v) ==
  IF v = "v1" THEN "lf.a2a.v1.A2AService" ELSE "a2a.v1.A2AService"

MethodNames ==
  { r.method : r \in { StubMethod(t, op) : t \in Transports, op \in Operations } }
    \ { "none" }

Servicer(name, v, overridden) ==
  [ name |-> name, version |-> v, overrides |-> overridden ]

NoServicer == Servicer("none", "none", {})

ASSUME MethodTableAssumption ==
  \A x \in Servicers :
    x.version \in Versions /\ x.overrides \subseteq MethodNames

VARIABLE
  table        \* table[<<service, method>>]: the handler's kind and servicer

Keys == { ServiceName(v) : v \in Versions } \X MethodNames

Entry(kind, servicer) == [ kind |-> kind, servicer |-> servicer ]
NoEntry == Entry("none", NoServicer)

TableInit == table = [k \in Keys |-> NoEntry]

\* What the register calls of x's version put at a key.
Registered(x, k) ==
  IF \E r \in Registrations(x.version) : k = <<ServiceName(x.version), r.method>>
  THEN Entry((CHOOSE r \in Registrations(x.version) : r.method = k[2]).kind, x)
  ELSE table[k]

\* add_A2AServiceServicer_to_server, at most once for each version: what the
\* bindings make of a name that is registered again is not this repository's.
Add(x) ==
  /\ \A k \in Keys : table[k].servicer.version # x.version
  /\ table' = [k \in Keys |-> Registered(x, k)]

\* What the bindings find under the service and method a stub names.
Lookup(v, method) == table[<<ServiceName(v), method>>]

=============================================================================
