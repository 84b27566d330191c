-------------------------------- MODULE MCLogger --------------------------------
(* Model checking Logger: two threads and buffers of three places.             *)
EXTENDS Logger

==============================================================================
