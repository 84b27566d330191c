------------------------------- MODULE MCText -------------------------------
(* Log calls with one or two arguments of every type, and every input. *)
EXTENDS Text

MCArgs == {<<t>> : t \in ArgType} \cup {<<t, u>> : t \in ArgType, u \in ArgType}
=============================================================================
