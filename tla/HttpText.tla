------------------------------ MODULE HttpText ------------------------------
(***************************************************************************)
(* HTTP/1.1 as text: the tokens and the grammar of a request, and the      *)
(* replies of iothttpevent::read_helper, line by line.  A text is a        *)
(* sequence of words; "NUL" is the terminator a C string carries, whose    *)
(* place the code adds and takes off by hand, and lengths are counted in   *)
(* words.                                                                  *)
(***************************************************************************)
EXTENDS Codecs, EntityTag

Method == {"GET", "POST", "PRI"}
Version == {"HTTP/1.1", "HTTP/2.0"}
Path == {"/index", "/other"}

(* The fields the answer depends on, another one the scanner knows, and one it does not. *)
Field == {"If-None-Match", "Upgrade", "HTTP2-Settings", "Host"}
CustomField == {"X-Custom"}

Tok(kind, value) == [kind |-> kind, value |-> value]

-----------------------------------------------------------------------------
(* http11scanner: in the request line a word is a method, a version or a path, and the
   version ends it; in the header a line is a name, a colon and a value, and a colon with no
   blank after it is no token at all: it is skipped, and what follows is another name. *)
LineTokens(word) ==
    CASE word \in Method -> <<Tok("METHOD", word)>>
      [] word \in Version -> <<Tok("VERSION", word)>>
      [] word = "SP" -> <<Tok("SPACE", word)>>
      [] word = "CRLF" -> <<Tok("NEWLINE", word)>>
      [] OTHER -> <<Tok("PATH", word)>>

FieldTokens(field) ==
    <<IF field.name \in Field THEN Tok("FIELD", field.name) ELSE Tok("FIELD_CUSTOM", field.name)>>
    \o (IF field.blank THEN <<Tok("FIELD_VALUE", field.value)>>
        ELSE <<Tok("FIELD_CUSTOM", field.value)>>)
    \o <<Tok("NEWLINE", "CRLF")>>

(* The parser of the grammar: which token comes next.  The request line is stored when the
   token after it is seen, whatever that token is; a field when its line ends, the first of
   each name only; and everything after the blank line is ignored (YYACCEPT). *)
RequestLine == <<"METHOD", "SPACE", "PATH", "SPACE", "VERSION", "NEWLINE">>
Fields == 7
FieldValue == 8
FieldEnd == 9

ParseInit == [at |-> 1, result |-> "none", line |-> << >>, name |-> "none", value |-> << >>,
              method |-> "none", path |-> "none", version |-> "none", fields |-> << >>]

Stored(p) == [p EXCEPT !.method = p.line[1], !.path = p.line[3], !.version = p.line[5]]

Insert(fields, name, value) ==
    IF name \in Field /\ \A f \in Range(fields) : f[1] # name
    THEN Append(fields, <<name, value>>) ELSE fields

ParseToken(p, t) ==
    CASE p.result # "none" -> p
      [] p.result = "none" /\ p.at < Fields /\ t.kind = RequestLine[p.at] ->
            [p EXCEPT !.at = @ + 1, !.line = Append(@, t.value)]
      [] p.result = "none" /\ p.at = Fields /\ t.kind = "NEWLINE" ->
            [Stored(p) EXCEPT !.result = "accept"]
      [] p.result = "none" /\ p.at = Fields /\ t.kind \in {"FIELD", "FIELD_CUSTOM"} ->
            [Stored(p) EXCEPT !.at = FieldValue, !.name = t.value]
      [] p.result = "none" /\ p.at = FieldValue /\ t.kind = "FIELD_VALUE" ->
            [p EXCEPT !.at = FieldEnd, !.value = t.value]
      [] p.result = "none" /\ p.at = FieldEnd /\ t.kind = "NEWLINE" ->
            [p EXCEPT !.at = Fields, !.fields = Insert(@, p.name, p.value)]
      [] OTHER -> [(IF p.at < Fields THEN p ELSE Stored(p)) EXCEPT !.result = "error"]

(* http11driver::parse: the end of the text is a token too. *)
Parse(tokens) == FoldLeft(ParseToken, ParseInit, Append(tokens, Tok("END", "EOF")))

Has(p, name) == \E f \in Range(p.fields) : f[1] = name
FieldOf(p, name) == SelectInSeq(p.fields, LAMBDA f : f[1] = name)

-----------------------------------------------------------------------------
(* copy_http_header_response: values and names come with their terminators. *)
CodeString(code) == CASE code = 200 -> <<"200", "OK", "NUL">>
                      [] code = 304 -> <<"304", "Not Modified", "NUL">>
                      [] code = 400 -> <<"400", "Bad Request", "NUL">>
                      [] code = 404 -> <<"404", "Not Found", "NUL">>
                      [] code = 405 -> <<"405", "Method Not Allowed", "NUL">>
                      [] OTHER -> <<"505", "HTTP Version Not Supported", "NUL">>

(* Mutant: the value is copied with its terminator. *)
HeaderLineWithNul(field, value) == <<field, ":", " ">> \o value \o <<"CRLF">>

HeaderLine(field, value) == <<field, ":", " ">> \o Front(value) \o <<"CRLF">>

HeaderLines(lines) == FlattenSeq([i \in DOMAIN lines |-> HeaderLine(lines[i][1], lines[i][2])])

StatusAndLines(code, lines) ==
    <<"HTTP/1.1", " ">> \o Front(CodeString(code)) \o <<"CRLF">> \o HeaderLines(lines)

ContentLength(n) == HeaderLine("Content-Length", Append(UnsignedToString(n, 10), "NUL"))

Date == <<"date", "NUL">>
Server == <<"server", "NUL">>
Common == << <<"Date", Date>>, <<"Server", Server>> >>

(* http11_error_html *)
ErrorHtml(code, message, address) ==
    <<"<title>">> \o Front(CodeString(code)) \o <<"<h1>">> \o Front(Tail(CodeString(code)))
        \o <<"</h1>">> \o Front(message) \o <<"<hr>">> \o SocketAddrToString(address)
        \o <<"</html>">>

(* http_add_404_Not_Found, http_add_400_Bad_Request, http_add_405_Method_Not_Allowed and
   http_add_505_HTTP_Version_Not_Supported. *)
ErrorLines(code) ==
    Append(Common, <<"Content-Type", <<"text/html", "NUL">> >>)
        \o CASE code \in {400, 505} -> << <<"Connection", <<"close", "NUL">> >> >>
             [] code = 405 -> << <<"Allow", <<"GET, PRI", "NUL">> >> >>
             [] OTHER -> << >>

ErrorReply(code, address) ==
    LET message == IF code = 400 THEN <<"<p>unable to parse</p>", "<p>https on http?</p>", "NUL">>
                   ELSE <<"<p>not</p>", "NUL">>
        body == ErrorHtml(code, message, address)
    IN  StatusAndLines(code, ErrorLines(code)) \o ContentLength(Len(body)) \o <<"CRLF">> \o body

(* The file and the not-modified replies of read_helper; the latter ends with a bare line
   feed. *)
FileHeader(file) ==
    StatusAndLines(200, Common \o << <<"Cache-Control", <<"private", "NUL">> >>,
                                     <<"ETag", Append(file.etags, "NUL")>>,
                                     <<"Content-Type", <<file.type, "NUL">> >> >>)
        \o ContentLength(Len(file.content))

FileReply(file) == FileHeader(file) \o <<"CRLF">> \o file.content

NotModifiedReply(file) ==
    StatusAndLines(304, Append(Common, <<"ETag", Append(file.etags, "NUL")>>)) \o <<"LF">>

(* read_helper: the entries that one request adds to the write queue.  For a text that was
   not parsed the 400 is only put into write_buffer, and the request is then answered as far
   as it was understood: by the reply that is built over it, or, behind a file, whose reply
   has a buffer of its own, by as much of write_buffer as the 400 was long. *)
Overlay(text, over) == [i \in DOMAIN text |-> IF i \in DOMAIN over THEN over[i] ELSE text[i]]

Behind(p, file, address) ==
    IF p.result = "accept" THEN << >>
    ELSE <<Overlay(ErrorReply(400, address), FileHeader(file))>>

AnswerGet(p, cache, address) ==
    IF p.path \notin DOMAIN cache THEN <<ErrorReply(404, address)>>
    ELSE LET file == cache[p.path]
         IN  IF /\ Has(p, "If-None-Match")
                /\ MatchEtag(p.fields[FieldOf(p, "If-None-Match")][2], file.etags)
             THEN <<NotModifiedReply(file)>>
             ELSE <<FileReply(file)>> \o Behind(p, file, address)

(* The change to HTTP/2, in place of replies. *)
Http2 == << <<"HTTP/2">> >>

UpgradeVersion(p) ==
    /\ Has(p, "Upgrade") /\ p.fields[FieldOf(p, "Upgrade")][2] = <<"h2c">>
    /\ Has(p, "HTTP2-Settings")

Answer(p, ssl, cache, address) ==
    CASE p.method = "PRI" ->
            IF ssl THEN <<ErrorReply(400, address)>>
            ELSE IF p.version = "HTTP/2.0" THEN Http2 ELSE <<ErrorReply(505, address)>>
      [] p.method # "PRI" /\ ~ssl /\ UpgradeVersion(p) -> Http2
      [] OTHER -> IF p.method = "GET" THEN AnswerGet(p, cache, address)
                  ELSE <<ErrorReply(405, address)>>

(* Method and version of a request whose line was not stored are not initialized. *)
Answers(p, ssl, cache, address) ==
    LET lines == IF p.method = "none" THEN Method \X Version ELSE {<<p.method, p.version>>}
    IN  {Answer([p EXCEPT !.method = l[1], !.version = l[2]], ssl, cache, address) : l \in lines}

-----------------------------------------------------------------------------
(* The requests and replies the properties are checked for. *)
SomeFields ==
    {[name |-> "If-None-Match", value |-> <<"a", "b">>, blank |-> TRUE],
     [name |-> "If-None-Match", value |-> <<"a">>, blank |-> TRUE],
     [name |-> "Upgrade", value |-> <<"h2c">>, blank |-> TRUE],
     [name |-> "HTTP2-Settings", value |-> <<"AAMA">>, blank |-> TRUE],
     [name |-> "X-Custom", value |-> <<"x">>, blank |-> TRUE],
     [name |-> "Host", value |-> <<"x">>, blank |-> FALSE]}

Requests == [method : Method, path : Path, version : Version,
             fields : UNION {[1 .. n -> SomeFields] : n \in 0 .. 2}]

TokensOf(r) ==
    FlattenSeq([i \in 1 .. 6 |-> LineTokens(<<r.method, "SP", r.path, "SP", r.version, "CRLF">>[i])])
        \o FlattenSeq([i \in DOMAIN r.fields |-> FieldTokens(r.fields[i])])
        \o LineTokens("CRLF")

WellFormed(r) == \A f \in Range(r.fields) : f.blank

(* The first field of a name, as the request says it. *)
First(r, name) == LET s == SelectSeq(r.fields, LAMBDA f : f.name = name)
                  IN  IF s = << >> THEN << >> ELSE s[1].value

SomeFile == [content |-> <<"<html>", "text", "</html>">>, type |-> "text/html",
             etags |-> <<"a", "b">>]
SomeCache == [path \in {"/index"} |-> SomeFile]
SomeAddress == [addr |-> <<0, 0, 0, 0, 0, 0, 0, 1>>, port |-> 8080]
SomeLists == UNION {[1 .. n -> {"a", "b", ",", " "}] : n \in 0 .. 5}

(* What HTTP asks of this server for a whole request; over TLS it speaks HTTP/2 only when
   ALPN has chosen it. *)
Expected(r, ssl) ==
    CASE r.method = "PRI" ->
            IF ssl THEN <<ErrorReply(400, SomeAddress)>>
            ELSE IF r.version = "HTTP/2.0" THEN Http2 ELSE <<ErrorReply(505, SomeAddress)>>
      [] /\ r.method # "PRI" /\ ~ssl
         /\ First(r, "Upgrade") = <<"h2c">> /\ First(r, "HTTP2-Settings") # << >> -> Http2
      [] OTHER ->
            IF r.method # "GET" THEN <<ErrorReply(405, SomeAddress)>>
            ELSE IF r.path # "/index" THEN <<ErrorReply(404, SomeAddress)>>
            ELSE IF Lists(First(r, "If-None-Match"), SomeFile.etags)
                 THEN <<NotModifiedReply(SomeFile)>> ELSE <<FileReply(SomeFile)>>

(* The answers to the beginning of a request that holds n tokens, or to one with a malformed
   field.  Without its line it gets one reply, but never a file.  With the line it gets what
   the fields ask for that end before the cut and before the malformed one, and behind a file
   a second entry, as long as the 400 that nobody sends. *)
LineLength == 6
FieldLength == 3

UpToMalformed(fields) ==
    LET at == SelectInSeq(fields, LAMBDA f : ~f.blank)
    IN  IF at = 0 THEN fields ELSE SubSeq(fields, 1, at - 1)

Understood(r, n) ==
    [r EXCEPT !.fields = UpToMalformed(SubSeq(@, 1, Min({(n - LineLength) \div FieldLength,
                                                         Len(@)})))]

PartIsAnswered(r, n, ssl) ==
    LET p       == Parse(SubSeq(TokensOf(r), 1, n))
        answers == Answers(p, ssl, SomeCache, SomeAddress)
    IN  /\ p.result = "error"
        /\ n < LineLength =>
              answers \subseteq {Http2} \cup {<<ErrorReply(code, SomeAddress)>> :
                                               code \in {400, 404, 405, 505}}
        /\ n >= LineLength =>
              LET asked == Expected(Understood(r, n), ssl)
              IN  IF asked # <<FileReply(SomeFile)>> THEN answers = {asked}
                  ELSE \A answer \in answers :
                          /\ Len(answer) = 2 /\ answer[1] = asked[1]
                          /\ Len(answer[2]) = Len(ErrorReply(400, SomeAddress))

RequestIsUnderstood(r, ssl) ==
    \A n \in 0 .. Len(TokensOf(r)) :
        IF n = Len(TokensOf(r)) /\ WellFormed(r)
        THEN \A rest \in {<< >>, LineTokens("POST"), TokensOf(r)} :
                LET p == Parse(TokensOf(r) \o rest)
                IN  /\ p.result = "accept"
                    /\ Answers(p, ssl, SomeCache, SomeAddress) = {Expected(r, ssl)}
        ELSE PartIsAnswered(r, n, ssl)

(* A request that the parser does not understand is told so. *)
UnparsedIsToldSo(r, ssl) ==
    \A n \in 0 .. Len(TokensOf(r)) :
        LET p == Parse(SubSeq(TokensOf(r), 1, n))
        IN  p.result = "error" =>
               Answers(p, ssl, SomeCache, SomeAddress) = {<<ErrorReply(400, SomeAddress)>>}

ListIsUnderstood(list) == MatchEtag(list, SomeFile.etags) <=> Lists(list, SomeFile.etags)

(* How a client takes a reply off the connection: lines up to an empty one, then as many
   words as Content-Length says, none without it. *)
EndOfHeader(reply) ==
    CHOOSE i \in 2 .. Len(reply) : /\ reply[i - 1] = "CRLF" /\ reply[i] \in {"CRLF", "LF"}
                                   /\ \A j \in 2 .. i - 1 : reply[j - 1] = "CRLF" =>
                                                             reply[j] \notin {"CRLF", "LF"}

ClientLength(header) ==
    IF "Content-Length" \notin Range(header) THEN 0
    ELSE LET at == SelectInSeq(header, LAMBDA w : w = "Content-Length") + 3
             end == CHOOSE e \in at .. Len(header) :
                        header[e] = "CRLF" /\ \A j \in at .. e - 1 : header[j] # "CRLF"
         IN  ToUint(16, 10, SubSeq(header, at, end - 1))

SomeReplies == {ErrorReply(code, SomeAddress) : code \in {400, 404, 405, 505}}
                 \cup {FileReply(SomeFile), FileReply([SomeFile EXCEPT !.content = << >>]),
                       NotModifiedReply(SomeFile)}

ReplyIsFramed(reply) ==
    LET end == EndOfHeader(reply)
    IN  /\ Len(reply) = end + ClientLength(SubSeq(reply, 1, end))
        /\ "NUL" \notin Range(reply)
=============================================================================
