--------------------------- MODULE MCWorkerClient ---------------------------
(* WorkerClient on small sets of calls, and its refinement of              *)
(* CompilerService; with the cell and without it.                          *)
EXTENDS WorkerClient
=============================================================================
