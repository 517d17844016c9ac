---------------------------- MODULE MCGoCompiler ----------------------------
(* GoCompiler on small sets of calls and Closes, under fairness; liveness  *)
(* is checked with it, so the calls are not declared symmetric.            *)
EXTENDS GoCompiler
=============================================================================
