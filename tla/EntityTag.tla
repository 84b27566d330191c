----------------------------- MODULE EntityTag -----------------------------
(***************************************************************************)
(* http_header_request::match_etag: is an entity tag one of those that     *)
(* If-None-Match lists?  The code scans the list once, a character at a    *)
(* time.  The tag is without the terminator that the code takes off.       *)
(***************************************************************************)
EXTENDS Integers, Sequences

(* What sets the tags of a list apart *)
Separator == {" ", ",", "\""}

(* found: the loop has returned; index: how much of the tag was read in the current piece
   of the list; ignore: the piece is another tag. *)
ScanInit == [found |-> FALSE, ignore |-> FALSE, index |-> 0]

AtTag(r, etag) == r.index = Len(etag) /\ ~r.ignore

(* Mutant: a tag that goes on after the etag matches. *)
ScannedPrefix(r, ch, etag) ==
    IF r.found THEN r
    ELSE IF ch \in Separator THEN [found |-> AtTag(r, etag), ignore |-> FALSE, index |-> 0]
    ELSE IF r.ignore \/ r.index = Len(etag) THEN r
    ELSE [r EXCEPT !.ignore = (ch # etag[r.index + 1]), !.index = @ + 1]

(* One character of the list *)
Scanned(r, ch, etag) ==
    IF r.found THEN r
    ELSE IF ch \in Separator THEN [found |-> AtTag(r, etag), ignore |-> FALSE, index |-> 0]
    ELSE IF r.ignore THEN r
    ELSE IF r.index = Len(etag) THEN [r EXCEPT !.ignore = TRUE]
    ELSE [r EXCEPT !.ignore = (ch # etag[r.index + 1]), !.index = @ + 1]

(* The scan after each number of characters *)
TagScan(list, etag) ==
    LET scan[n \in 0 .. Len(list)] == IF n = 0 THEN ScanInit ELSE Scanned(scan[n - 1], list[n], etag)
    IN  scan

MatchEtag(list, etag) ==
    LET end == TagScan(list, etag)[Len(list)]
    IN  end.found \/ AtTag(end, etag)

-----------------------------------------------------------------------------
(* What it promises: a list has the tag when the tag stands in it between two separators
   or ends of the list, and has no separator itself. *)
StandsAt(list, etag, i) ==
    /\ i = 0 \/ list[i] \in Separator
    /\ \A k \in 1 .. Len(etag) : list[i + k] = etag[k] /\ etag[k] \notin Separator
    /\ i + Len(etag) = Len(list) \/ list[i + Len(etag) + 1] \in Separator

Lists(list, etag) == \E i \in 0 .. Len(list) - Len(etag) : StandsAt(list, etag, i)

=============================================================================
