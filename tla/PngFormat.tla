----------------------------- MODULE PngFormat -----------------------------
(***************************************************************************)
(* PNG files, as the formats of images and of compressed data define them  *)
(* and not as the code reads them: filters, code words, blocks, streams.   *)
(***************************************************************************)
EXTENDS Integers, Sequences, FiniteSets, FiniteSetsExt, SequencesExt

-----------------------------------------------------------------------------
(* Compressed data.  Items are literals and copies of what came before.    *)

Lit(byte) == [length |-> 0, byte |-> byte]
Copy(length, distance) == [length |-> length, distance |-> distance]
Lits(bytes) == [k \in DOMAIN bytes |-> Lit(bytes[k])]

Repeated(bytes, length, distance) ==
  bytes \o [k \in 1..length |->
              bytes[Len(bytes) - distance + 1 + ((k - 1) % distance)]]

RECURSIVE Expansion(_)
Expansion(items) ==
  IF items = <<>> THEN <<>>
  ELSE LET bytes == Expansion(Front(items))
           item == Last(items)
       IN  IF item.length = 0 THEN Append(bytes, item.byte)
           ELSE Repeated(bytes, item.length, item.distance)

RECURSIVE Joined(_)
Joined(seqs) ==
  LET half == Len(seqs) \div 2
  IN  CASE seqs = <<>> -> <<>>
        [] Len(seqs) = 1 -> seqs[1]
        [] OTHER -> Joined(SubSeq(seqs, 1, half))
                    \o Joined(SubSeq(seqs, half + 1, Len(seqs)))

(* A number, lowest bit first; a code word, highest bit first.             *)
Number(n, bits) == [k \in 1..bits |-> (n \div 2^(k - 1)) % 2]
Word(n, bits) == [k \in 1..bits |-> (n \div 2^(bits - k)) % 2]

(* Shorter code words come before longer ones, and those of one length are *)
(* in the order of their symbols: each is the sum of the space that those  *)
(* before it take.  len has the lengths of the symbols that are used.      *)
CodeWord(len, s) ==
  LET before(l) == {t \in DOMAIN len : len[t] = l /\ (l = len[s] => t < s)}
  IN  Word(MapThenSumSet(LAMBDA l : 2^(len[s] - l) * Cardinality(before(l)),
                         1..len[s]),
           len[s])

LengthBases ==
  <<3, 4, 5, 6, 7, 8, 9, 10, 11, 13, 15, 17, 19, 23, 27, 31, 35, 43, 51, 59,
    67, 83, 99, 115, 131, 163, 195, 227, 258>>
LengthBits ==
  <<0, 0, 0, 0, 0, 0, 0, 0, 1, 1, 1, 1, 2, 2, 2, 2, 3, 3, 3, 3, 4, 4, 4, 4,
    5, 5, 5, 5, 0>>
DistanceBases ==
  <<1, 2, 3, 4, 5, 7, 9, 13, 17, 25, 33, 49, 65, 97, 129, 193, 257, 385>>
DistanceBits == <<0, 0, 0, 0, 1, 1, 2, 2, 3, 3, 4, 4, 5, 5, 6, 6, 7, 7>>

(* The last entry of a table that begins at or before n.                   *)
Entry(bases, n) == Max({k \in DOMAIN bases : bases[k] <= n})
LengthSymbol(length) == 256 + Entry(LengthBases, length)
DistanceSymbol(distance) == Entry(DistanceBases, distance) - 1

Symbols(items) ==
  {256} \cup {IF i.length = 0 THEN i.byte ELSE LengthSymbol(i.length) :
                i \in ToSet(items)}
Distances(items) ==
  {DistanceSymbol(i.distance) : i \in {i \in ToSet(items) : i.length > 0}}

ItemBits(lit, dist, item) ==
  IF item.length = 0 THEN CodeWord(lit, item.byte)
  ELSE LET l == Entry(LengthBases, item.length)
           d == Entry(DistanceBases, item.distance)
       IN  CodeWord(lit, 256 + l)
           \o Number(item.length - LengthBases[l], LengthBits[l])
           \o CodeWord(dist, d - 1)
           \o Number(item.distance - DistanceBases[d], DistanceBits[d])

ItemsBits(lit, dist, items) ==
  Joined([k \in DOMAIN items |-> ItemBits(lit, dist, items[k])])
  \o CodeWord(lit, 256)

FixedLit == [s \in 0..287 |-> IF s < 144 THEN 8 ELSE IF s < 256 THEN 9
                              ELSE IF s < 280 THEN 7 ELSE 8]
FixedDist == [s \in 0..31 |-> 5]

(* The lengths of `n' symbols, as a sequence; and the tokens that give     *)
(* them, in runs if they are to be short.                                  *)
Listed(len, n) ==
  [k \in 1..n |-> IF (k - 1) \in DOMAIN len THEN len[k - 1] ELSE 0]

RunOf(list) ==
  LET other == {k \in DOMAIN list : list[k] # list[1]}
  IN  IF other = {} THEN Len(list) ELSE Min(other) - 1
Least(n, m) == IF n < m THEN n ELSE m

Token(symbol, extra) == [symbol |-> symbol, extra |-> extra]
RECURSIVE ShortTokens(_, _)
ShortTokens(list, previous) ==
  IF list = <<>> THEN <<>>
  ELSE LET run == RunOf(list)
           take(symbol, n, extra) ==
             <<Token(symbol, extra)>>
             \o ShortTokens(SubSeq(list, n + 1, Len(list)), list[1])
       IN  IF list[1] = 0 /\ run >= 11
           THEN take(18, Least(run, 138), Number(Least(run, 138) - 11, 7))
           ELSE IF list[1] = 0 /\ run >= 3
           THEN take(17, Least(run, 10), Number(Least(run, 10) - 3, 3))
           ELSE IF list[1] = previous /\ run >= 3
           THEN take(16, Least(run, 6), Number(Least(run, 6) - 3, 2))
           ELSE take(list[1], 1, <<>>)
Tokens(list, short) ==
  IF short THEN ShortTokens(list, -1)
  ELSE [k \in DOMAIN list |-> Token(list[k], <<>>)]

LengthOrder ==
  <<16, 17, 18, 0, 8, 7, 9, 6, 10, 5, 11, 4, 12, 3, 13, 2, 14, 1, 15>>

(* A block's codes: how many literals and distances it has lengths of,     *)
(* what they are, what the lengths of lengths are, and whether lengths     *)
(* are given in runs.  Runs do not go on from the literals to the          *)
(* distances, which the format allows.                                     *)
Codes(lit, dist, len, short) ==
  [lit |-> lit, dist |-> dist, len |-> len, short |-> short]

CodesBits(codes) ==
  LET hlit == Max({256} \cup DOMAIN codes.lit) + 1
      hdist == Max({0} \cup DOMAIN codes.dist) + 1
      hclen == Max({4} \cup {k \in 1..19 : LengthOrder[k] \in DOMAIN codes.len})
      tokens == Tokens(Listed(codes.lit, hlit), codes.short)
                \o Tokens(Listed(codes.dist, hdist), codes.short)
  IN  Number(hlit - 257, 5) \o Number(hdist - 1, 5) \o Number(hclen - 4, 4)
      \o Joined([k \in 1..hclen |->
           Number(IF LengthOrder[k] \in DOMAIN codes.len
                  THEN codes.len[LengthOrder[k]] ELSE 0, 3)])
      \o Joined([k \in DOMAIN tokens |->
           CodeWord(codes.len, tokens[k].symbol) \o tokens[k].extra])

(* Blocks, of all of which the last one is final.                          *)
Stored(bytes) == [type |-> 0, items |-> Lits(bytes)]
Fixed(items) == [type |-> 1, items |-> items]
Dynamic(items, codes) == [type |-> 2, items |-> items, codes |-> codes]

Bytes(bytes) ==
  Joined([k \in DOMAIN bytes |-> Number(bytes[k], 8)])
Padding(bits) == [k \in 1..((8 - (Len(bits) % 8)) % 8) |-> 0]

WithBlock(bits, block, final) ==
  LET head == bits \o <<final>> \o Number(block.type, 2)
      n == Len(block.items)
  IN  CASE block.type = 0 ->
             head \o Padding(head) \o Number(n, 16) \o Number(65535 - n, 16)
             \o Bytes([k \in 1..n |-> block.items[k].byte])
        [] block.type = 1 ->
             head \o ItemsBits(FixedLit, FixedDist, block.items)
        [] block.type = 2 ->
             head \o CodesBits(block.codes)
             \o ItemsBits(block.codes.lit, block.codes.dist, block.items)

StreamStart == Bytes(<<120, 156>>)
Checksum == Bytes(<<0, 0, 0, 0>>)  \* which nothing reads

Stream(blocks) ==
  LET bits == FoldLeft(
        LAMBDA b, k : WithBlock(b, blocks[k], IF k = Len(blocks) THEN 1 ELSE 0),
        StreamStart, [k \in DOMAIN blocks |-> k])
  IN  bits \o Padding(bits) \o Checksum

Content(blocks) ==
  Expansion(Joined([k \in DOMAIN blocks |-> blocks[k].items]))

-----------------------------------------------------------------------------
(* Headers: the depths that each type of colour may have, and how many     *)
(* samples a pixel has.  Interlaced images are left out.                   *)

LegalSamples ==
  {<<0, 1>>, <<0, 2>>, <<0, 4>>, <<0, 8>>, <<0, 16>>, <<2, 8>>, <<2, 16>>,
   <<3, 1>>, <<3, 2>>, <<3, 4>>, <<3, 8>>, <<4, 8>>, <<4, 16>>, <<6, 8>>,
   <<6, 16>>}
LegalHeader(header) ==
  /\ header.width > 0 /\ header.height > 0
  /\ <<header.colorType, header.bitDepth>> \in LegalSamples
  /\ header.compression = 0 /\ header.filter = 0 /\ header.interlace = 0

(* The bytes of a line: its filter, and its bits.                          *)
Samples(color) == CASE color = 2 -> 3 [] color = 4 -> 2 [] color = 6 -> 4
                    [] OTHER -> 1
LineBytes(header) ==
  1 + (header.width * header.bitDepth * Samples(header.colorType) + 7) \div 8

-----------------------------------------------------------------------------
(* Filters: what is stored of a byte is its difference to what the bytes   *)
(* of the pixels to the left (a), above (b) and both (c) predict.          *)

Distance(n, m) == IF n < m THEN m - n ELSE n - m

Nearest(a, b, c) ==
  LET p == a + b - c
      least == Min({Distance(p, a), Distance(p, b), Distance(p, c)})
  IN  IF Distance(p, a) = least THEN a ELSE IF Distance(p, b) = least THEN b
      ELSE c

Prediction(filter, a, b, c) ==
  CASE filter = 0 -> 0
    [] filter = 1 -> a
    [] filter = 2 -> b
    [] filter = 3 -> (a + b) \div 2
    [] filter = 4 -> Nearest(a, b, c)

(* Lines of bytes, each with its filter; `size' is that of a pixel.        *)
Filtered(lines, filters, size) ==
  LET byte(r, i) == IF r < 1 \/ i < 1 THEN 0 ELSE lines[r][i]
      stored(r, i) ==
        (lines[r][i] - Prediction(filters[r], byte(r, i - size),
                                  byte(r - 1, i), byte(r - 1, i - size))) % 256
  IN  Joined([r \in DOMAIN lines |->
        <<filters[r]>> \o [i \in DOMAIN lines[r] |-> stored(r, i)]])
=============================================================================
