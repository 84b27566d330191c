-------------------------------- MODULE MCHttp2 --------------------------------
(* Model checking Http2: a file of five units in frames of three, tables of a  *)
(* few lines.                                                                  *)
EXTENDS Http2

Get(path, same_etag) == [method |-> "GET", path |-> path, same_etag |-> same_etag]

(* A request that nothing is known of is answered 404 or 405. *)
AllRequests == {Get("/a", FALSE), Get("/a", TRUE)}
OneRequest  == {Get("/none", FALSE)}
TheFiles    == [path \in {"/a"} |-> 5]
TheLines    == {<<"ETag", "/a">>}
TwoLines    == {<<"User_Agent", "u">>, <<"Accept", "*">>}
===============================================================================
