---------------------------- MODULE MCLogReader ----------------------------
(* Two threads; a tick is a round of the log thread, and the queue spans so many. *)
EXTENDS LogReader
=============================================================================
