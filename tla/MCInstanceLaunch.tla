-------------------------- MODULE MCInstanceLaunch --------------------------
EXTENDS InstanceLaunch

MCDomains == {"f1", "f2", "f3"}

OneAD == <<<<"f1", "f2", "f3">>>>
SmallAD == <<<<"f1", "f2">>>>
ThreeADs == <<<<"f1", "f2">>, <<"f1">>, <<"f1">>>>

\* A machine with a failure domain while capacity changes, and one whose
\* instance is slow to be listed; machines without one in a small region and
\* in a region of three availability domains.
MCSettings ==
  {[fds |-> OneAD, key |-> 2, lag |-> FALSE, steady |-> FALSE],
   [fds |-> OneAD, key |-> 2, lag |-> TRUE, steady |-> TRUE],
   [fds |-> SmallAD, key |-> 0, lag |-> FALSE, steady |-> FALSE],
   [fds |-> ThreeADs, key |-> 0, lag |-> TRUE, steady |-> FALSE]}
=============================================================================
