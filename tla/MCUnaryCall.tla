----------------------------- MODULE MCUnaryCall -----------------------------
EXTENDS UnaryCall

CONSTANT s1

SdkReasons == [ TaskNotCancelableError |-> "TASK_NOT_CANCELABLE" ]

\* What an agent further down may answer with: the two statuses handle and the
\* bindings make up themselves, and an A2AError's.
FromBelow == { InternalStatus, TransportStatus,
               Status("FAILED_PRECONDITION", "TASK_NOT_CANCELABLE",
                      "TaskNotCancelableError") }

\* Every A2AError of the two code maps and one of neither.
EveryError == ErrorTypes

\* Every method of both versions.
EveryRoute == Routes
=============================================================================
