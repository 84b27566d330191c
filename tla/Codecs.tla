------------------------------- MODULE Codecs -------------------------------
(***************************************************************************)
(* The conversions between values and text: numbers, GUIDs, IPv6 addresses *)
(* and the two base64 codings.  They print the log, the device registry    *)
(* and the etags, and read the command line, the registry and the          *)
(* HTTP2-Settings field.  A text is a sequence of characters, a character  *)
(* a string of length one; base64 characters are their six-bit values.     *)
(*                                                                         *)
(* The readers of numbers reject nothing: a character that is no digit     *)
(* counts as 0 and a number that is too large wraps.                       *)
(***************************************************************************)
EXTENDS Integers, FiniteSets, SequencesExt

HexDigits == <<"0", "1", "2", "3", "4", "5", "6", "7", "8", "9", "a", "b", "c", "d", "e", "f">>

(* char_to_int *)
CharToInt(c) == IF c \in Range(HexDigits)
                THEN (CHOOSE d \in 1 .. 16 : HexDigits[d] = c) - 1 ELSE 0

-----------------------------------------------------------------------------
(* to_string of an unsigned value, and of a signed one (the least signed value is not
   covered: abs is not defined for it). *)
UnsignedToString(val, radix) ==
    LET digits[n \in Nat] == IF n < radix THEN <<HexDigits[n + 1]>>
                             ELSE Append(digits[n \div radix], HexDigits[(n % radix) + 1])
    IN  digits[val]

SignedToString(val) == IF val < 0 THEN <<"-">> \o UnsignedToString(-val, 10) ELSE UnsignedToString(val, 10)

(* to_uint<T> and to_int<T>, for a T of so many bits. *)
ToUint(bits, radix, text) ==
    FoldLeft(LAMBDA val, c : (val * radix + CharToInt(c)) % 2^bits, 0, text)

AsSigned(bits, val) == IF val >= 2^(bits - 1) THEN val - 2^bits ELSE val

ToInt(bits, text) ==
    LET signed == text # << >> /\ text[1] \in {"-", "+"}
        digits == IF signed THEN Tail(text) ELSE text
        val == ToUint(bits, 10, digits)
    IN  AsSigned(bits, (IF signed /\ text[1] = "-" THEN -val ELSE val) % 2^bits)

-----------------------------------------------------------------------------
(* to_string(guid_t) and to_guid: groups of 4, 2, 2, 2 and 6 bytes. *)
ByteToString(b) == <<HexDigits[b \div 16 + 1], HexDigits[(b % 16) + 1]>>

GuidToString(guid) ==
    LET bytes(from, to) == FlattenSeq([i \in 1 .. to - from + 1 |-> ByteToString(guid[from + i - 1])])
    IN  bytes(1, 4) \o <<"-">> \o bytes(5, 6) \o <<"-">> \o bytes(7, 8) \o <<"-">>
            \o bytes(9, 10) \o <<"-">> \o bytes(11, 16)

ToGuid(text) ==
    LET dashes(i) == Cardinality({n \in {4, 6, 8, 10} : n < i})
        at(i) == 2 * (i - 1) + dashes(i) + 1
    IN  [i \in 1 .. 16 |-> CharToInt(text[at(i)]) * 16 + CharToInt(text[at(i) + 1])]

-----------------------------------------------------------------------------
(* to_string(ipv6_addr_t): eight groups, the first of the longest runs of at least two zero
   groups written as "::". *)
ZeroRun(addr, i) ==
    LET run[k \in 0 .. 8] == IF k = 0 \/ addr[k] # 0 THEN 0 ELSE run[k - 1] + 1
    IN  run[i]

(* Mutant: the run starts one group early. *)
CompactionEarly(addr) ==
    FoldLeft(LAMBDA best, i : IF ZeroRun(addr, i) > best.size
                              THEN [start |-> i - ZeroRun(addr, i), size |-> ZeroRun(addr, i)]
                              ELSE best,
             [start |-> 9, size |-> 1], <<1, 2, 3, 4, 5, 6, 7, 8>>)

Compaction(addr) ==
    FoldLeft(LAMBDA best, i : IF ZeroRun(addr, i) > best.size
                              THEN [start |-> i + 1 - ZeroRun(addr, i), size |-> ZeroRun(addr, i)]
                              ELSE best,
             [start |-> 9, size |-> 1], <<1, 2, 3, 4, 5, 6, 7, 8>>)

AddrToString(addr) ==
    LET c == Compaction(addr)
        rest[i \in 1 .. 16] ==
            IF i > 8 THEN << >>
            ELSE IF i = c.start THEN (IF i = 1 THEN <<":">> ELSE << >>) \o <<":">> \o rest[i + c.size]
            ELSE UnsignedToString(addr[i], 16) \o (IF i # 8 THEN <<":">> ELSE << >>) \o rest[i + 1]
    IN  rest[1]

(* to_ipv6_addr_t: the first walk counts the colons and finds the compaction, the second
   stores the groups (numbered from 0 here) and skips the compacted ones.  It is defined
   when the walk ends at the last group: the code asserts pos == 7. *)
FindCompaction(text) ==
    FoldLeft(LAMBDA r, c : IF c # ":" THEN [r EXCEPT !.lastcolon = FALSE]
                           ELSE [start |-> IF r.lastcolon THEN r.pos ELSE r.start,
                                 lastcolon |-> TRUE, pos |-> r.pos + 1],
             [start |-> 8, lastcolon |-> FALSE, pos |-> 0], text)

AddrWalk(text) ==
    LET found == FindCompaction(text)
        step(r, c) ==
            IF c # ":" THEN [r EXCEPT !.hexval = (@ * 16 + CharToInt(c)) % 2^16]
            ELSE [addr |-> [r.addr EXCEPT ![r.pos] = r.hexval],
                  pos |-> IF r.pos = found.start THEN r.pos + (8 - found.pos) ELSE r.pos + 1,
                  hexval |-> IF r.pos = found.start THEN r.hexval ELSE 0]
    IN  FoldLeft(step, [addr |-> [i \in 0 .. 7 |-> 0], pos |-> 0, hexval |-> 0], text)

ToAddr(text) ==
    LET w == AddrWalk(text) IN [i \in 1 .. 8 |-> IF i = w.pos + 1 THEN w.hexval ELSE w.addr[i - 1]]

(* ipv6_socket_addr_t: "[address]:port". *)
SocketAddrToString(s) ==
    <<"[">> \o AddrToString(s.addr) \o <<"]", ":">> \o UnsignedToString(s.port, 10)

ToSocketAddr(text) ==
    LET end == CHOOSE i \in DOMAIN text : text[i] = "]"
    IN  [addr |-> ToAddr(SubSeq(text, 2, end - 1)),
         port |-> ToUint(16, 10, SubSeq(text, end + 2, Len(text)))]

(* to_type: the value of an option of the given type; FALSE for a type that has no text.
   The options of type string_t, filepath_t and stdstring_t take the text itself. *)
ToType(id, text) ==
    CASE id = "bool_t" -> [value |-> text # << >> /\ text[1] \in {"T", "t"}]
      [] id = "uint8_t" -> [value |-> ToUint(8, 10, text)]
      [] id = "uint16_t" -> [value |-> ToUint(16, 10, text)]
      [] id = "int8_t" -> [value |-> ToInt(8, text)]
      [] id = "int16_t" -> [value |-> ToInt(16, text)]
      [] id = "guid_t" -> [value |-> ToGuid(text)]
      [] id = "ipv6_addr_t" -> [value |-> ToAddr(text)]
      [] id = "ipv6_port_t" -> [value |-> ToUint(16, 10, text)]
      [] id = "ipv6_socket_addr_t" -> [value |-> ToSocketAddr(text)]
      [] id \in {"string_t", "filepath_t", "stdstring_t"} -> [value |-> text]
      [] OTHER -> [value |-> FALSE]

-----------------------------------------------------------------------------
(* base64: "=" is 64. *)
Pad == 64
FromBase64(c) == IF c = Pad THEN 0 ELSE c

Base64DecodeLen(buffer) ==
    LET n == Len(buffer)
        decode_len == (n * 3) \div 4
    IN  IF n < 4 THEN 0
        ELSE IF buffer[n - 1] = Pad THEN decode_len - 2
        ELSE IF buffer[n] = Pad THEN decode_len - 1
        ELSE decode_len

(* base64_decode: groups of four characters, up to the first "=", and whatever is left after
   the last whole group is ignored. *)
Base64Decode(buffer) ==
    LET val(i) == FromBase64(buffer[i])
        b1(i) == (val(i) * 4 + val(i + 1) \div 16) % 256
        b2(i) == (val(i + 1) * 16 + val(i + 2) \div 4) % 256
        b3(i) == (val(i + 2) * 64 + val(i + 3)) % 256
        from[i \in Nat] ==
            IF i > 4 * (Len(buffer) \div 4) THEN << >>
            ELSE IF buffer[i + 2] = Pad THEN <<b1(i)>>
            ELSE IF buffer[i + 3] = Pad THEN <<b1(i), b2(i)>>
            ELSE <<b1(i), b2(i), b3(i)>> \o from[i + 4]
    IN  from[1]

(* to_string64_hash: the size of the text of a value of so many bits, without the
   terminator, and the text, six bits at a time from the lowest. *)
HashSize(bits) == (bits + 5) \div 6

HashChars(bits) == LET chars[b \in Nat] == IF b + 6 < bits THEN chars[b + 6] + 1 ELSE 1
                   IN  1 + chars[6]

Hash64(bits, val) == [i \in 1 .. HashChars(bits) |-> (val \div 2^(6 * (i - 1))) % 64]

-----------------------------------------------------------------------------
(* The values the round trips are checked for. *)
Int8 == -127 .. 127
Uint16 == {0, 1, 9, 10, 99, 100, 255, 256, 4095, 4096, 9999, 10000, 65534, 65535}
Guids == {[i \in 1 .. 16 |-> (i * k + k \div 2) % 256] : k \in {0, 1, 16, 17, 99, 255}}
Addrs == [1 .. 8 -> {0, 2571}] \cup {[i \in 1 .. 8 |-> IF i \in z THEN 0 ELSE 8191 * i] :
                                        z \in SUBSET {1, 2, 4, 5, 8}}
Bytes == {<< >>} \cup [1 .. 1 -> 0 .. 255]
            \cup UNION {[1 .. n -> {0, 5, 77, 250, 255}] : n \in 2 .. 5}

(* The coding of RFC 4648, with padding, that base64_decode is meant to read. *)
Base64Of(bytes) ==
    LET n == Len(bytes)
        byte(i) == IF i <= n THEN bytes[i] ELSE 0
        six(i) == LET g == 3 * ((i - 1) \div 4)
                      bits24 == byte(g + 1) * 65536 + byte(g + 2) * 256 + byte(g + 3)
                  IN  (bits24 \div 2^(6 * (3 - ((i - 1) % 4)))) % 64
        used == n + (n + 2) \div 3
    IN  [i \in 1 .. 4 * ((n + 2) \div 3) |-> IF i <= used THEN six(i) ELSE Pad]

NumberReadsBack(v) ==
    IF v \in Int8 THEN ToType("int8_t", SignedToString(v)).value = v
    ELSE /\ ToType("uint16_t", UnsignedToString(v, 10)).value = v
         /\ ToUint(16, 16, UnsignedToString(v, 16)) = v

GuidReadsBack(g) == ToType("guid_t", GuidToString(g)).value = g

(* The walk over the text of an address ends at its last group, as the code asserts. *)
AddrReadsBack(a) ==
    /\ AddrWalk(AddrToString(a)).pos = 7
    /\ \A p \in {0, 80, 65535} :
          LET s == [addr |-> a, port |-> p]
          IN  ToType("ipv6_socket_addr_t", SocketAddrToString(s)).value = s

Base64ReadsBack(b) == LET text == Base64Of(b)
                      IN  Base64Decode(text) = b /\ Base64DecodeLen(text) = Len(b)

(* The text of a value of eight bits is that of no other, and a text fits its buffer. *)
HashReadsBack(u) ==
    /\ \A bits \in {8, 16, 32, 64} : HashChars(bits) <= HashSize(bits)
    /\ \A v \in 0 .. 255 : Hash64(8, u) = Hash64(8, v) => u = v
=============================================================================
