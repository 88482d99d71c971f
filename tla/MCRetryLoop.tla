----------------------------- MODULE MCRetryLoop ----------------------------
(* RetryLoop on small instances.                                            *)
EXTENDS RetryLoop

\* One agent configuration, and two that take turns.
OneConfig == <<3>>
TwoConfigs == <<2, 3>>
=============================================================================
