---------------------------- MODULE MCStoppedRing ----------------------------
EXTENDS StoppedRing

FailedOrNot ==
    {[state |-> "complete", errCode |-> "success", child |-> FALSE],
     [state |-> "error", errCode |-> "unknown", child |-> FALSE]}
==============================================================================
