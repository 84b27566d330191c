----------------------------- MODULE MCWebFiles -----------------------------
(* The web folder /c with the folders a, ab and ab/c: the path of ab starts with that of a,  *)
(* and the path of the web folder with a slash and the name of the last.                     *)
EXTENDS WebFiles

MCRoot == <<"/", "c">>
MCa == MCRoot \o <<"/", "a">>
MCFolders == {MCRoot, MCa, MCa \o <<"b">>, MCa \o <<"b", "/", "c">>}
MCInodes == 1 .. 4
=============================================================================
