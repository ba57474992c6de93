---------------------------- MODULE MCStreamCall ----------------------------
EXTENDS StreamCall

CONSTANTS s1, s2

\* The SDK has a reason for some types and for others none.
SdkReasons == [ TaskNotCancelableError |-> "TASK_NOT_CANCELABLE",
                TaskNotFoundError      |-> "TASK_NOT_FOUND" ]

\* What an agent further down may answer with: the two statuses handle and the
\* bindings make up themselves, and an A2AError's.
FromBelow == { InternalStatus, TransportStatus,
               Status("FAILED_PRECONDITION", "TASK_NOT_CANCELABLE",
                      "TaskNotCancelableError") }
=============================================================================
