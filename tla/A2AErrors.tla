----------------------------- MODULE A2AErrors -----------------------------
(***************************************************************************)
(* How an exception raised while an A2A request is served becomes the      *)
(* slimrpc status the caller receives.  Two `except' layers decide it:     *)
(*                                                                         *)
(*   - the servicer (slima2a/handler.py for A2A v1.0,                      *)
(*     slima2a/compat/v3_0/handler.py for v0.3) turns an A2AError raised   *)
(*     INSIDE its try block into an RpcError (raise_error_response);       *)
(*   - the generated handler (types/*/a2a_pb2_slimrpc.py) lets an RpcError *)
(*     through and turns every other Exception into INTERNAL.              *)
(*                                                                         *)
(* The text of a message is abstracted to the type name it starts with.    *)
(***************************************************************************)

CONSTANT
  ErrorReasons   \* a2a-sdk's A2A_ERROR_REASONS: a reason for some A2AError types

\* _SLIM_ERROR_CODE_MAP of handler.py.
SlimErrorCodeMap ==
  [ InvalidRequestError                 |-> "INVALID_ARGUMENT",
    MethodNotFoundError                 |-> "NOT_FOUND",
    InvalidParamsError                  |-> "INVALID_ARGUMENT",
    InternalError                       |-> "INTERNAL",
    TaskNotFoundError                   |-> "NOT_FOUND",
    TaskNotCancelableError              |-> "FAILED_PRECONDITION",
    PushNotificationNotSupportedError   |-> "UNIMPLEMENTED",
    UnsupportedOperationError           |-> "UNIMPLEMENTED",
    ContentTypeNotSupportedError        |-> "INVALID_ARGUMENT",
    InvalidAgentResponseError           |-> "INTERNAL",
    ExtendedAgentCardNotConfiguredError |-> "FAILED_PRECONDITION",
    ExtensionSupportRequiredError       |-> "FAILED_PRECONDITION",
    VersionNotSupportedError            |-> "UNIMPLEMENTED" ]

\* A faulty variant: an entry of the copy is missing.
CompatSlimErrorCodeMapStale ==
  [ InvalidRequestError               |-> "INVALID_ARGUMENT",
    InvalidParamsError                |-> "INVALID_ARGUMENT",
    InternalError                     |-> "INTERNAL",
    TaskNotFoundError                 |-> "NOT_FOUND",
    TaskNotCancelableError            |-> "FAILED_PRECONDITION",
    PushNotificationNotSupportedError |-> "UNIMPLEMENTED",
    UnsupportedOperationError         |-> "UNIMPLEMENTED",
    ContentTypeNotSupportedError      |-> "INVALID_ARGUMENT",
    InvalidAgentResponseError         |-> "INTERNAL" ]

\* _SLIM_ERROR_CODE_MAP of compat/v3_0/handler.py.
CompatSlimErrorCodeMap ==
  [ InvalidRequestError               |-> "INVALID_ARGUMENT",
    MethodNotFoundError               |-> "NOT_FOUND",
    InvalidParamsError                |-> "INVALID_ARGUMENT",
    InternalError                     |-> "INTERNAL",
    TaskNotFoundError                 |-> "NOT_FOUND",
    TaskNotCancelableError            |-> "FAILED_PRECONDITION",
    PushNotificationNotSupportedError |-> "UNIMPLEMENTED",
    UnsupportedOperationError         |-> "UNIMPLEMENTED",
    ContentTypeNotSupportedError      |-> "INVALID_ARGUMENT",
    InvalidAgentResponseError         |-> "INTERNAL" ]

\* The A2AErrors that compat/v3_0/handler.py does not import.
NewErrors ==
  { "ExtendedAgentCardNotConfiguredError", "ExtensionSupportRequiredError",
    "VersionNotSupportedError" }

\* "OtherA2AError" stands for every A2AError class the maps do not list: the
\* lookup is by exact type, so a subclass of a listed class is one of them.
ErrorTypes ==
  DOMAIN SlimErrorCodeMap \cup DOMAIN CompatSlimErrorCodeMap \cup { "OtherA2AError" }

Versions == { "v1", "v03" }

Codes ==
  { "INVALID_ARGUMENT", "NOT_FOUND", "INTERNAL", "FAILED_PRECONDITION",
    "UNIMPLEMENTED", "UNKNOWN", "UNAVAILABLE", "DEADLINE_EXCEEDED" }

\* _SLIM_ERROR_CODE_MAP.get(type(error), UNKNOWN), each handler with its map.
SlimErrorCode(version, t) ==
  LET map == IF version = "v1" THEN SlimErrorCodeMap ELSE CompatSlimErrorCodeMap
  IN  IF t \in DOMAIN map THEN map[t] ELSE "UNKNOWN"

\* The reasons an ErrorInfo can carry.
Reasons == { ErrorReasons[t] : t \in DOMAIN ErrorReasons } \cup { "UNKNOWN_ERROR" }

\* "none" is left for a status without an ErrorInfo.
ASSUME ErrorReasonsAssumption == "none" \notin Reasons

\* ErrorInfo.reason: A2A_ERROR_REASONS.get(type(error), "UNKNOWN_ERROR").
ReasonOf(t) == IF t \in DOMAIN ErrorReasons THEN ErrorReasons[t] ELSE "UNKNOWN_ERROR"

\* What a caller can read off an RpcError: the code, the ErrorInfo reason of
\* `details' ("none" when details is None) and the type name that opens the
\* message ("none" when the message names no A2AError).
Status(code, reason, title) ==
  [ code |-> code, reason |-> reason, title |-> title ]

\* raise_error_response of the two servicers; v0.3 sends details=None.
RaiseErrorResponse(version, t) ==
  Status(SlimErrorCode(version, t),
         IF version = "v1" THEN ReasonOf(t) ELSE "none",
         t)

\* The INTERNAL status of the generated catch-all, details=None.
InternalStatus == Status("INTERNAL", "none", "none")

\* What the bindings report when the session is lost under a call.
TransportStatus == Status("UNAVAILABLE", "none", "none")

NoStatus == Status("none", "none", "none")

(***************************************************************************)
(* Exceptions: an A2AError of a type, an RpcError carrying a status, any   *)
(* other Exception.  CancelledError is a BaseException and no `except' of  *)
(* the two layers sees it; it is not one of these values.                  *)
(***************************************************************************)
A2AError(t)  == [ kind |-> "a2a", type |-> t,           status |-> NoStatus ]
RpcError(st) == [ kind |-> "rpc", type |-> "RpcError",  status |-> st ]
PyException  == [ kind |-> "py",  type |-> "Exception", status |-> NoStatus ]
NoException  == [ kind |-> "ok",  type |-> "none",      status |-> NoStatus ]

\* `except A2AError as e: await self.raise_error_response(e)'.
ServicerCatch(version, e) ==
  IF e.kind = "a2a" THEN RpcError(RaiseErrorResponse(version, e.type)) ELSE e

\* `except RpcError: raise' / `except Exception: raise RpcError.Rpc(INTERNAL)'.
GeneratedCatch(e) == IF e.kind = "rpc" THEN e.status ELSE InternalStatus

\* Both layers; `guarded' says whether e rose inside the servicer's try block.
StatusFor(version, guarded, e) ==
  GeneratedCatch(IF guarded THEN ServicerCatch(version, e) ELSE e)

Statuses ==
  [ code   : Codes \cup { "none" },
    reason : Reasons \cup { "none" },
    title  : ErrorTypes \cup { "none" } ]

Exceptions ==
  [ kind : { "a2a" }, type : ErrorTypes, status : { NoStatus } ] \cup
  [ kind : { "rpc" }, type : { "RpcError" }, status : Statuses ] \cup
  { PyException, NoException }

=============================================================================
