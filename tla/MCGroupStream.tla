---------------------------- MODULE MCGroupStream ----------------------------
EXTENDS GroupStream

CONSTANTS s1, s2

SdkReasons == [ TaskNotFoundError |-> "TASK_NOT_FOUND" ]

\* What is hardest to tell from the group's own: a transport's failure.
FromBelow == { TransportStatus }
=============================================================================
