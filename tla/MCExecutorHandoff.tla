--------------------------- MODULE MCExecutorHandoff ---------------------------
(* Model checking ExecutorHandoff on a few threads.                           *)
EXTENDS ExecutorHandoff

==============================================================================
