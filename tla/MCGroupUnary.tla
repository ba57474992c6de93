---------------------------- MODULE MCGroupUnary ----------------------------
EXTENDS GroupUnary

CONSTANTS s1, s2

SdkReasons == [ TaskNotCancelableError |-> "TASK_NOT_CANCELABLE" ]

\* What is hardest to tell from the group's own: a transport's failure.
FromBelow == { TransportStatus }

\* One method of each kind the multicast transport calls, and one of v0.3.
GroupRoutes ==
  { Route("v1", m) : m \in { "SendMessage", "CancelTask",
                             "CreateTaskPushNotificationConfig",
                             "GetExtendedAgentCard" } }
  \cup { Route("v03", "GetTaskPushNotificationConfig") }

SendMessageOnly == { Route("v1", "SendMessage") }
=============================================================================
