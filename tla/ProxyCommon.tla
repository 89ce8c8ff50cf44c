----------------------------- MODULE ProxyCommon -----------------------------
(***************************************************************************)
(* The text helpers of the proxy (src/proxy_common.cpp, the template       *)
(* split() of src/proxy_common.h, and the scan for the empty line in       *)
(* ProxyTunnel::parseHttpHeader): pure functions on sequences of           *)
(* characters.  A character is its code.  A pointer is a position, NULL is *)
(* 0; a loop is a recursive function of the position that it has reached.  *)
(***************************************************************************)
EXTENDS Integers, Sequences, SequencesExt, FiniteSetsExt

NULL == 0

-----------------------------------------------------------------------------
(* Searching.                                                              *)

Lower == 97 .. 122
Upper == 65 .. 90

\* tmpDiff: what to add to a letter for the other case.
TmpDiff(c) == IF c \in Lower THEN -32 ELSE IF c \in Upper THEN 32 ELSE 0

SameICase(c, d) == c = d \/ c + TmpDiff(c) = d

\* The inner loop of strstrICase: how many characters of substr are found from
\* p1 on.
Matched(text, start, substr) ==
  LET from[q \in 1 .. Len(substr) + 1] ==
        IF q <= Len(substr) /\ start + q - 1 <= Len(text)
             /\ SameICase(text[start + q - 1], substr[q])
        THEN from[q + 1] ELSE q - 1
  IN  from[1]

\* MUTANT of StrstrICase: the search goes on where the comparison stopped.
StrstrICaseSkip(text, substr) ==
  LET from[p2 \in 1 .. 2 * Len(text) + 1] ==
        IF p2 > Len(text) THEN NULL
        ELSE LET n == Matched(text, p2, substr)
             IN  IF n = Len(substr) THEN p2 ELSE from[p2 + n + 1]
  IN  from[1]

StrstrICase(text, substr) ==
  LET from[p2 \in 1 .. Len(text) + 1] ==
        IF p2 > Len(text) THEN NULL
        ELSE IF Matched(text, p2, substr) = Len(substr) THEN p2
        ELSE from[p2 + 1]
  IN  from[1]

CR == 13
LF == 10

\* strstr(line_head, "\r\n")
LineTail(text, head) ==
  LET ends == {i \in head .. Len(text) - 1 : text[i] = CR /\ text[i + 1] = LF}
  IN  IF ends = {} THEN NULL ELSE Min(ends)

\* parseHttpHeader walks from line to line until one is empty.
FullHeader(text) ==
  LET walk[head \in 1 .. Len(text) + 1] ==
        LET tail == LineTail(text, head)
        IN  tail # NULL /\ (tail = head \/ walk[tail + 2])
  IN  walk[1]

\* split(): the empty fields are left out.
Split(s, c) ==
  LET field(i, n) == IF n > 0 THEN <<SubSeq(s, i, i + n - 1)>> ELSE <<>>
      rest[i \in 1 .. Len(s) + 1] ==
        LET found == {j \in i .. Len(s) : s[j] = c}
        IN  IF found = {} THEN field(i, Len(s) - i + 1)
            ELSE field(i, Min(found) - i) \o rest[Min(found) + 1]
  IN  rest[1]

-----------------------------------------------------------------------------
(* Base64.                                                                 *)

B64_ENCODE_TABLE ==
  [v \in 0 .. 63 |-> CASE v \in  0 .. 25 -> 65 + v
                       [] v \in 26 .. 51 -> 97 + v - 26
                       [] v \in 52 .. 61 -> 48 + v - 52
                       [] v = 62         -> 43
                       [] v = 63         -> 47]

B64_DECODE_TABLE ==
  [c \in 0 .. 255 |-> CASE c \in Upper    -> c - 65
                        [] c \in Lower    -> c - 97 + 26
                        [] c \in 48 .. 57 -> c - 48 + 52
                        [] c = 43         -> 62
                        [] c = 47         -> 63
                        [] OTHER          -> -1]

PadChar == 61
TooSmall == <<-1>>   \* the result -1

\* space[space_idx++] = c for each c, or -1 where size ends.
Stored(space, cs, size) ==
  IF space = TooSmall \/ Len(space) + Len(cs) > size THEN TooSmall ELSE space \o cs

\* One round of the encoder's loop.  The bits that `|' joins never overlap.
EncodeByte(s, b, size) ==
  LET enc(v) == B64_ENCODE_TABLE[v]
      last   == Len(s.space)
      joined(v) == [s.space EXCEPT ![last] = enc(B64_DECODE_TABLE[@] + v)]
  IN  IF s.space = TooSmall THEN s
      ELSE CASE s.phase = 0 ->
                  [space |-> Stored(s.space, <<enc(b \div 4), enc((b % 4) * 16)>>, size),
                   phase |-> 1]
             [] s.phase = 1 ->
                  [space |-> Stored(joined(b \div 16), <<enc((b % 16) * 4)>>, size),
                   phase |-> 2]
             [] s.phase = 2 ->
                  [space |-> Stored(joined(b \div 64), <<enc(b % 64)>>, size), phase |-> 0]

\* The padding fills up to a multiple of four, and adds three characters to a
\* text that needs none.
Base64Encode(bytes, size) ==
  LET end == FoldLeft(LAMBDA s, b : EncodeByte(s, b, size), [space |-> <<>>, phase |-> 0],
                      bytes)
      pad == [i \in 1 .. 3 - end.phase |-> PadChar]
  IN  IF bytes = <<>> THEN <<>> ELSE Stored(end.space, pad, size)

\* What the digit d adds to the digit before it.
DecodedByte(s, d) ==
  CASE s.phase = 0 -> <<>>
    [] s.phase = 1 -> <<((s.prev * 4) % 256) + (d \div 16)>>
    [] s.phase = 2 -> <<((s.prev % 16) * 16) + (d \div 4)>>
    [] s.phase = 3 -> <<((s.prev % 4) * 64) + d>>

\* What the decoder finds for a character: it indexes the table with a signed
\* char, so only the characters below 128 have their entry.
DecodeEntry == [c \in 0 .. 127 |-> B64_DECODE_TABLE[c]]

\* MUTANT of DecodeChar: prev_d is set for the characters that are ignored too.
DecodeCharStale(s, c, size) ==
  LET d == DecodeEntry[c]
  IN  IF s.space = TooSmall THEN s
      ELSE IF d = -1 THEN [s EXCEPT !.prev = d]
      ELSE [space |-> Stored(s.space, DecodedByte(s, d), size),
            phase |-> (s.phase + 1) % 4, prev |-> d]

\* One round of the decoder's loop; prev is prev_d.
DecodeChar(s, c, size) ==
  LET d == DecodeEntry[c]
  IN  IF s.space = TooSmall \/ d = -1 THEN s
      ELSE [space |-> Stored(s.space, DecodedByte(s, d), size),
            phase |-> (s.phase + 1) % 4, prev |-> d]

Base64Decode(text, size) ==
  FoldLeft(LAMBDA s, c : DecodeChar(s, c, size), [space |-> <<>>, phase |-> 0, prev |-> 0],
           text).space
=============================================================================
