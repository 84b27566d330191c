---------------------------- MODULE HpackStrings ----------------------------
(***************************************************************************)
(* The strings and integers of HPACK header blocks: the Huffman code, the  *)
(* tree that decodes it, and what add_header_string writes for a header    *)
(* value and get_header_string takes back.  A string of the block is a     *)
(* record of its head (whether it is coded, and its length in octets) and  *)
(* its content: bits when coded, octets when not.                          *)
(***************************************************************************)
EXTENDS Integers, TLC, SequencesExt

(* static_huffman: the code and its length, of octet i - 1 at place i; the last is EOS. *)
StaticHuffman ==
  <<<<\h1ff8, 13>>, <<\h7fffd8, 23>>, <<\hfffffe2, 28>>, <<\hfffffe3, 28>>, <<\hfffffe4, 28>>,
     <<\hfffffe5, 28>>, <<\hfffffe5, 28>>, <<\hfffffe7, 28>>, <<\hfffffe8, 28>>, <<\hffffea, 24>>,
     <<\h3ffffffc, 30>>, <<\hfffffe9, 28>>, <<\hfffffea, 28>>, <<\h3ffffffd, 30>>,
     <<\hfffffeb, 28>>, <<\hfffffec, 28>>, <<\hfffffed, 28>>, <<\hfffffee, 28>>,
     <<\hfffffef, 28>>, <<\hffffff0, 28>>, <<\hffffff1, 28>>, <<\hffffff2, 28>>,
     <<\h3ffffffe, 30>>, <<\hffffff3, 28>>, <<\hffffff4, 28>>, <<\hffffff5, 28>>,
     <<\hffffff6, 28>>, <<\hffffff7, 28>>, <<\hffffff8, 28>>, <<\hffffff9, 28>>,
     <<\hffffffa, 28>>, <<\hffffffb, 28>>, <<\h14, 6>>, <<\h3f8, 10>>, <<\h3f9, 10>>,
     <<\hffa, 12>>, <<\h1ff9, 13>>, <<\h15, 6>>, <<\hf8, 8>>, <<\h7fa, 11>>, <<\h3fa, 10>>,
     <<\h3fb, 10>>, <<\hf9, 8>>, <<\h7fb, 11>>, <<\hfa, 8>>, <<\h16, 6>>, <<\h17, 6>>,
     <<\h18, 6>>, <<\h0, 5>>, <<\h1, 5>>, <<\h2, 5>>, <<\h19, 6>>, <<\h1a, 6>>, <<\h1b, 6>>,
     <<\h1c, 6>>, <<\h1d, 6>>, <<\h1e, 6>>, <<\h1f, 6>>, <<\h5c, 7>>, <<\hfb, 8>>, <<\h7ffc, 15>>,
     <<\h20, 6>>, <<\hffb, 12>>, <<\h3fc, 10>>, <<\h1ffa, 13>>, <<\h21, 6>>, <<\h5d, 7>>,
     <<\h5e, 7>>, <<\h5f, 7>>, <<\h60, 7>>, <<\h61, 7>>, <<\h62, 7>>, <<\h63, 7>>, <<\h64, 7>>,
     <<\h65, 7>>, <<\h66, 7>>, <<\h67, 7>>, <<\h68, 7>>, <<\h69, 7>>, <<\h6a, 7>>, <<\h6b, 7>>,
     <<\h6c, 7>>, <<\h6d, 7>>, <<\h6e, 7>>, <<\h6f, 7>>, <<\h70, 7>>, <<\h71, 7>>, <<\h72, 7>>,
     <<\hfc, 8>>, <<\h73, 7>>, <<\hfd, 8>>, <<\h1ffb, 13>>, <<\h7fff0, 19>>, <<\h1ffc, 13>>,
     <<\h3ffc, 14>>, <<\h22, 6>>, <<\h7ffd, 15>>, <<\h3, 5>>, <<\h23, 6>>, <<\h4, 5>>,
     <<\h24, 6>>, <<\h5, 5>>, <<\h25, 6>>, <<\h26, 6>>, <<\h27, 6>>, <<\h6, 5>>, <<\h74, 7>>,
     <<\h75, 7>>, <<\h28, 6>>, <<\h29, 6>>, <<\h2a, 6>>, <<\h7, 5>>, <<\h2b, 6>>, <<\h76, 7>>,
     <<\h2c, 6>>, <<\h8, 5>>, <<\h9, 5>>, <<\h2d, 6>>, <<\h77, 7>>, <<\h78, 7>>, <<\h79, 7>>,
     <<\h7a, 7>>, <<\h7b, 7>>, <<\h7ffe, 15>>, <<\h7fc, 11>>, <<\h3ffd, 14>>, <<\h1ffd, 13>>,
     <<\hffffffc, 28>>, <<\hfffe6, 20>>, <<\h3fffd2, 22>>, <<\hfffe7, 20>>, <<\hfffe8, 20>>,
     <<\h3fffd3, 22>>, <<\h3fffd4, 22>>, <<\h3fffd5, 22>>, <<\h7fffd9, 23>>, <<\h3fffd6, 22>>,
     <<\h7fffda, 23>>, <<\h7fffdb, 23>>, <<\h7fffdc, 23>>, <<\h7fffdd, 23>>, <<\h7fffde, 23>>,
     <<\hffffeb, 24>>, <<\h7fffdf, 23>>, <<\hffffec, 24>>, <<\hffffed, 24>>, <<\h3fffd7, 22>>,
     <<\h7fffe0, 23>>, <<\hffffee, 24>>, <<\h7fffe1, 23>>, <<\h7fffe2, 23>>, <<\h7fffe3, 23>>,
     <<\h7fffe4, 23>>, <<\h1fffdc, 21>>, <<\h3fffd8, 22>>, <<\h7fffe5, 23>>, <<\h3fffd9, 22>>,
     <<\h7fffe6, 23>>, <<\h7fffe7, 23>>, <<\hffffef, 24>>, <<\h3fffda, 22>>, <<\h1fffdd, 21>>,
     <<\hfffe9, 20>>, <<\h3fffdb, 22>>, <<\h3fffdc, 22>>, <<\h7fffe8, 23>>, <<\h7fffe9, 23>>,
     <<\h1fffde, 21>>, <<\h7fffea, 23>>, <<\h3fffdd, 22>>, <<\h3fffde, 22>>, <<\hfffff0, 24>>,
     <<\h1fffdf, 21>>, <<\h3fffdf, 22>>, <<\h7fffeb, 23>>, <<\h7fffec, 23>>, <<\h1fffe0, 21>>,
     <<\h1fffe1, 21>>, <<\h3fffe0, 22>>, <<\h1fffe2, 21>>, <<\h7fffed, 23>>, <<\h3fffe1, 22>>,
     <<\h7fffee, 23>>, <<\h7fffef, 23>>, <<\hfffea, 20>>, <<\h3fffe2, 22>>, <<\h3fffe3, 22>>,
     <<\h3fffe4, 22>>, <<\h7ffff0, 23>>, <<\h3fffe5, 22>>, <<\h3fffe6, 22>>, <<\h7ffff1, 23>>,
     <<\h3ffffe0, 26>>, <<\h3ffffe1, 26>>, <<\hfffeb, 20>>, <<\h7fff1, 19>>, <<\h3fffe7, 22>>,
     <<\h7ffff2, 23>>, <<\h3fffe8, 22>>, <<\h1ffffec, 25>>, <<\h3ffffe2, 26>>, <<\h3ffffe3, 26>>,
     <<\h3ffffe4, 26>>, <<\h7ffffde, 27>>, <<\h7ffffdf, 27>>, <<\h3ffffe5, 26>>, <<\hfffff1, 24>>,
     <<\h1ffffed, 25>>, <<\h7fff2, 19>>, <<\h1fffe3, 21>>, <<\h3ffffe6, 26>>, <<\h7ffffe0, 27>>,
     <<\h7ffffe1, 27>>, <<\h3ffffe7, 26>>, <<\h7ffffe2, 27>>, <<\hfffff2, 24>>, <<\h1fffe4, 21>>,
     <<\h1fffe5, 21>>, <<\h3ffffe8, 26>>, <<\h3ffffe9, 26>>, <<\hffffffd, 28>>, <<\h7ffffe3, 27>>,
     <<\h7ffffe4, 27>>, <<\h7ffffe5, 27>>, <<\hfffec, 20>>, <<\hfffff3, 24>>, <<\hfffed, 20>>,
     <<\h1fffe6, 21>>, <<\h3fffe9, 22>>, <<\h1fffe7, 21>>, <<\h1fffe8, 21>>, <<\h7ffff3, 23>>,
     <<\h3fffea, 22>>, <<\h3fffeb, 22>>, <<\h1ffffee, 25>>, <<\h1ffffef, 25>>, <<\hfffff4, 24>>,
     <<\hfffff5, 24>>, <<\h3ffffea, 26>>, <<\h7ffff4, 23>>, <<\h3ffffeb, 26>>, <<\h7ffffe6, 27>>,
     <<\h3ffffec, 26>>, <<\h3ffffed, 26>>, <<\h7ffffe7, 27>>, <<\h7ffffe8, 27>>,
     <<\h7ffffe9, 27>>, <<\h7ffffea, 27>>, <<\h7ffffeb, 27>>, <<\hffffffe, 28>>,
     <<\h7ffffec, 27>>, <<\h7ffffed, 27>>, <<\h7ffffee, 27>>, <<\h7ffffef, 27>>,
     <<\h7fffff0, 27>>, <<\h3ffffee, 26>>, <<\h3fffffff, 30>>>>

EOS == 256

(* The bits of the code of a symbol, the highest first. *)
Code(symbol) ==
    LET e == StaticHuffman[symbol + 1]
    IN  [i \in 1 .. e[2] |-> (e[1] \div 2^(e[2] - i)) % 2]

(* created_huffman_tree: the leaf at the end of a path has the last symbol inserted there. *)
HuffmanTree ==
    FoldLeft(LAMBDA tree, s : (Code(s) :> s) @@ tree, << >>, [i \in 1 .. 257 |-> i - 1])

(* huffman_string_size, in octets *)
HuffmanSize(value) ==
    FoldLeft(LAMBDA size, s : size + StaticHuffman[s + 1][2], 7, value) \div 8

(* add_huffman_string: the codes one after the other; the last octet is filled with ones. *)
AddHuffman(value) ==
    LET bits == FlattenSeq([i \in DOMAIN value |-> Code(value[i])])
    IN  bits \o [i \in 1 .. (8 - (Len(bits) % 8)) % 8 |-> 1]

(* get_huffman_string: walk down the tree from the root, a symbol at each leaf; EOS ends it
   and the ones at the end reach no leaf. *)
GetHuffman(bits) ==
    LET walk == FoldLeft(LAMBDA r, b :
                    LET path == Append(r.path, b)
                    IN  IF r.done THEN r
                        ELSE IF path \notin DOMAIN HuffmanTree THEN [r EXCEPT !.path = path]
                        ELSE IF HuffmanTree[path] = EOS THEN [r EXCEPT !.done = TRUE]
                        ELSE [r EXCEPT !.path = << >>, !.value = Append(@, HuffmanTree[path])],
                    [path |-> << >>, value |-> << >>, done |-> FALSE], bits)
    IN  walk.value

-----------------------------------------------------------------------------
(* encode_integer<N> with a head of the bits above N: from 2^N - 1 on the octets that follow
   hold the rest, seven bits each.  The code keeps bit 0x80 of the remainder instead of
   setting it, so an octet that should say "more" is 0. *)
Mask(N) == 2^N - 1

EncodeInteger(N, head, value) ==
    LET more[v \in Nat] == IF v >= 128 THEN <<0>> \o more[v \div 128] ELSE <<v>>
    IN  IF value < Mask(N) THEN <<head + value>> ELSE <<head + Mask(N)>> \o more[value - Mask(N)]

(* decode_integer<N>: the value, and how many octets it took.  A value of more octets is the
   last of them: nothing is added up. *)
DecodeInteger(N, octets) ==
    LET first == octets[1] % 2^N
        last[i \in Nat] ==
            IF i > Len(octets) THEN [value |-> Mask(N), size |-> Len(octets)]
            ELSE IF octets[i] < 128 THEN [value |-> octets[i], size |-> i]
            ELSE IF i = Len(octets) THEN [value |-> octets[i] - 128, size |-> i]
            ELSE last[i + 1]
    IN  IF first < Mask(N) THEN [value |-> first, size |-> 1] ELSE last[2]

(* add_header_string: the shorter of the two forms.  The head of both has the bit that says
   the content is coded. *)
AddHeaderString(value) ==
    IF HuffmanSize(value) < Len(value)
    THEN [head |-> EncodeInteger(7, 128, HuffmanSize(value)), content |-> AddHuffman(value)]
    ELSE [head |-> EncodeInteger(7, 128, Len(value)), content |-> value]

(* get_header_string: one octet of head, so no string of 127 octets or more; and where the
   next field starts. *)
GetHeaderString(string) ==
    LET len == string.head[1] % 128
    IN  IF string.head[1] >= 128
        THEN [value |-> GetHuffman(SubSeq(string.content, 1, 8 * len)), size |-> 1 + len]
        ELSE [value |-> SubSeq(string.content, 1, len), size |-> 1 + len]

-----------------------------------------------------------------------------
(* Values of up to three characters: digits, letters, a blank, a slash, and a few of the
   octets whose codes are long; and longer ones. *)
Samples == [1 .. 3 -> {47, 48, 97, 101, 90, 5, 255}]
             \cup {[i \in 1 .. n |-> IF i % 5 = 0 THEN 61 ELSE 48 + (i % 10)] : n \in {4, 7, 8, 13}}

CodeIsPrefixFree(s) ==
    \A t \in 0 .. EOS : s # t /\ {s, t} # {5, 6} => ~IsPrefix(Code(s), Code(t))

(* Values for which the coded form is the shorter; octet 5 reads back as 6. *)
StringReadsBack(v) ==
    HuffmanSize(v) < Len(v) /\ 5 \notin Range(v) =>
        LET s == AddHeaderString(v)
        IN  /\ Len(s.content) = 8 * HuffmanSize(v)
            /\ GetHeaderString(s).value = v
            /\ GetHeaderString(s).size = Len(s.head) + HuffmanSize(v)

(* Integers that fit the first octet. *)
IntegerReadsBack(N, v) ==
    v < Mask(N) => /\ DecodeInteger(N, EncodeInteger(N, 0, v)).value = v
                   /\ DecodeInteger(N, EncodeInteger(N, 0, v)).size = 1
=============================================================================
