---------------------------- MODULE MCEventExecutor ----------------------------
(* Model checking EventExecutor on a few threads.                            *)
EXTENDS EventExecutor

==============================================================================
