--------------------------- MODULE MCEventDistributor ---------------------------
(* Model checking EventDistributor on a few connections.                      *)
EXTENDS EventDistributor

==============================================================================
