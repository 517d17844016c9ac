------------------------------ MODULE MCRelease ------------------------------
EXTENDS Release, TLC

\* The second commit has dropped a file of the first; the flavors share one.
MCTracked ==
  [full |-> <<{"shared", "go"}, {"shared"}>>, runtime |-> <<{"shared"}, {"shared", "host"}>>]
==============================================================================
