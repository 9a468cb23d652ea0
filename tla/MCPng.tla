------------------------------- MODULE MCPng -------------------------------
(***************************************************************************)
(* Files of four sorts: one line whose data is compressed in many ways;    *)
(* a few lines with every choice of filters; a small image whose chunks    *)
(* are split, mixed with others, damaged or lost; and files that are not   *)
(* what they should be.                                                    *)
(***************************************************************************)
EXTENDS Png

ChunkOf(type, length, data) ==
  [type |-> type, length |-> length, data |-> data, crc |-> TRUE]
IHDR(header) == ChunkOf("IHDR", 13, header)
IDAT(bits) == ChunkOf("IDAT", Len(bits) \div 8, bits)
PLTE(bytes) == ChunkOf("PLTE", Len(bytes), bytes)
IEND == ChunkOf("IEND", 0, <<>>)
Text == ChunkOf("ancillary", 5, <<>>)
Strange == ChunkOf("critical", 5, <<>>)

FileOf(chunks, made) ==
  [signed |-> TRUE, corrupt |-> FALSE, chunks |-> chunks, made |-> made]
Plain == <<0, 0, 0>>

-----------------------------------------------------------------------------
(* One line of grey pixels; the first byte of its data is the filter.      *)

Row(blocks) ==
  LET bytes == Content(blocks)
  IN  FileOf(<<IHDR(Header(Len(bytes) - 1, 1, 8, 0, Plain)),
               IDAT(Stream(blocks)), IEND>>,
             [content |-> bytes, image |-> Tail(bytes)])

Run(length) == <<Fixed(<<Lit(0), Lit(9), Copy(length, 1), Lit(3)>>)>>

LengthEdges ==
  {n \in 3..258 : {n - 1, n, n + 1} \cap ToSet(LengthBases) # {}}

Varied(n) == [k \in 1..n |-> Lit((k * 37 - 37) % 256)]
Far(distance) ==
  <<Fixed(Varied(41) \o <<Copy(258, 41), Copy(5, distance), Lit(1)>>)>>
Edges ==
  {1, 2, 3, 4, 5, 6, 7, 8, 9, 12, 13, 16, 17, 24, 25, 32, 33, 48, 49, 64, 65,
   96, 97, 128, 129, 192, 193, 256, 257, 299}

(* Codes whose words have lengths 1 to 15, of 3 bits, of two words; lengths*)
(* of lengths that are all the same, or as few as suffice.                 *)
AllLens == [s \in 0..18 |-> 5]
FewLens ==
  (18 :> 1) @@ (0 :> 3) @@ (1 :> 3) @@ (2 :> 3) @@ (17 :> 4)
  @@ (3 :> 5) @@ (16 :> 5)
Long ==
  [s \in (0..13) \cup {256, 258} |->
     IF s < 14 THEN 15 - s ELSE 15]
Even == [s \in {0, 1, 2, 3, 4, 5, 256, 258} |-> 3]
Short == (0 :> 2) @@ (7 :> 1) @@ (256 :> 3) @@ (258 :> 3)
One == (0 :> 1)
Two == (0 :> 1) @@ (3 :> 1)

Coded(lit, dist, len, short) ==
  LET used == {s \in DOMAIN lit : s < 256}
      byte(k) == Lit(CHOOSE s \in used :
                   Cardinality({t \in used : t < s}) = k % Cardinality(used))
      items == [k \in 1..(Cardinality(used) + 1) |-> byte(k - 1)]
               \o [k \in 1..Cardinality(DOMAIN dist) |->
                     Copy(4, IF k = 1 THEN 1 ELSE 4)]
  IN  Dynamic(items, Codes(lit, dist, len, short))

DynamicBlocks ==
  {Coded(lit, dist, AllLens, short) :
     lit \in {Long, Even, Short}, dist \in {One, Two}, short \in BOOLEAN}
  \cup {Coded(lit, dist, FewLens, TRUE) :
          lit \in {Even, Short}, dist \in {One, Two}}

Back == Fixed(<<Lit(200), Copy(3, 3), Copy(6, 2), Lit(143), Lit(144)>>)
Several ==
  {<<Stored(<<0, 255, 7>>), Back>>,
   <<Stored(<<0, 1, 2>>), Stored(<<>>), Stored(<<3>>)>>,
   <<Coded(Short, Two, FewLens, TRUE), Back, Stored(<<9, 8, 7>>)>>,
   <<Coded(Even, One, AllLens, FALSE), Coded(Short, Two, AllLens, TRUE)>>,
   <<Fixed(<<Lit(0)>>), Stored(<<5>>), Coded(Long, Two, AllLens, TRUE), Back>>}

StreamFiles ==
  {Row(Run(length)) : length \in LengthEdges}
  \cup {Row(Far(distance)) : distance \in Edges}
  \cup {Row(<<block>>) : block \in DynamicBlocks}
  \cup {Row(blocks) : blocks \in Several}

-----------------------------------------------------------------------------
(* Lines of pixels of two or four bytes, of all that is claimed.           *)

Kinds == {<<8, 4>>, <<16, 0>>, <<16, 4>>, <<8, 6>>}
PixelSize(kind) ==
  (kind[1] \div 8) * CASE kind[2] = 0 -> 1 [] kind[2] = 4 -> 2
                       [] kind[2] = 6 -> 4
Pictures ==
  {<<<<10, 20, 30, 40, 50, 60, 70, 80>>, <<15, 19, 200, 3, 255, 0, 254, 1>>,
     <<0, 90, 91, 7, 128, 129, 4, 66>>>>,
   <<<<255, 254, 1, 0, 3, 255, 9, 8>>, <<128, 127, 2, 250, 251, 4, 100, 101>>,
     <<60, 50, 40, 30, 20, 10, 0, 255>>>>}

HostOrder(bytes) ==
  [k \in DOMAIN bytes |-> bytes[IF k % 2 = 1 THEN k + 1 ELSE k - 1]]

Picture(lines, filters, kind) ==
  LET bytes == Filtered(lines, filters, PixelSize(kind))
      image == FlattenSeq(lines)
      width == Len(lines[1]) \div PixelSize(kind)
  IN  FileOf(<<IHDR(Header(width, Len(lines), kind[1], kind[2], Plain)),
               IDAT(Stream(<<Stored(bytes)>>)), IEND>>,
             [content |-> bytes,
              image |-> IF kind[1] = 8 THEN image ELSE HostOrder(image)])

Filters == 0..4
FilterFiles ==
  {Picture(lines, filters, kind) :
     lines \in Pictures, filters \in Filters \X Filters \X Filters,
     kind \in Kinds}

-----------------------------------------------------------------------------
(* Chunks: two pixels, split anywhere, with others in between.             *)

Small == Stream(<<Stored(<<0, 7, 8>>)>>)
SmallMade == [content |-> <<0, 7, 8>>, image |-> <<7, 8>>]
Top == IHDR(Header(2, 1, 8, 0, Plain))
Part(first, last) == IDAT(SubSeq(Small, 8 * first - 7, 8 * last))
Size == Len(Small) \div 8

Whole == <<Top, Part(1, Size), IEND>>
Split(n) == <<Top, Part(1, n), Part(n + 1, Size), IEND>>
Mixed ==
  {<<Top, Text, PLTE(<<1, 2, 3>>), Part(1, 4), Part(5, 4), Part(5, Size), Text,
     IEND>>,
   <<Top, Part(1, 4), Text, Part(5, Size), IEND>>,
   <<Top, Part(1, Size), PLTE(<<1, 2, 3>>), IEND, Text>>,
   <<Top, PLTE(<<1, 2, 3>>), PLTE(<<1, 2, 3>>), Part(1, Size), IEND>>,
   <<Top, PLTE(<<1, 2>>), Part(1, Size), IEND>>,
   <<Top, Strange, Part(1, Size), IEND>>,
   <<Text, Top, Part(1, Size), IEND>>,
   <<Part(1, Size), IEND>>, <<Top, IEND>>, <<Top, Top, Part(1, Size), IEND>>,
   <<ChunkOf("IHDR", 12, Top.data), Part(1, Size), IEND>>}
Intact == {Whole} \cup {Split(n) : n \in 0..Size} \cup Mixed

Lost(chunks) == {SubSeq(chunks, 1, n) : n \in 0..(Len(chunks) - 1)}
Flipped(chunks) ==
  {[chunks EXCEPT ![k].crc = FALSE] : k \in DOMAIN chunks}
ChunkFiles ==
  {FileOf(chunks, SmallMade) :
     chunks \in Intact \cup UNION {Lost(c) \cup Flipped(c) : c \in Mixed}}
  \cup {[FileOf(Whole, SmallMade) EXCEPT !.signed = FALSE]}

-----------------------------------------------------------------------------
(* Headers of every sort, few of them legal, with data that fits; and data *)
(* that is corrupt: its own header, its blocks and codes, its filters, or  *)
(* more than there is room for, by a byte, by a copy or by a block.        *)

Headers ==
  {Header(0, 1, 8, 0, Plain), Header(2, 0, 8, 0, Plain)}
  \cup {Header(2, 1, depth, color, <<c, f, i>>) :
          depth \in {1, 2, 3, 4, 8, 16}, color \in 0..7,
          c \in 0..1, f \in 0..1, i \in 0..2}
WithHeader(header, more, data) ==
  FileOf(<<IHDR(header)>> \o more \o <<IDAT(data), IEND>>, <<>>)

Zeros ==
  [n \in 1..17 |-> Stream(<<Fixed(
     IF n < 4 THEN [k \in 1..n |-> Lit(0)] ELSE <<Lit(0), Copy(n - 1, 1)>>)>>)]
Corrupt ==
  {Bytes(<<121, 156>>) \o Small, Bytes(<<120, 157>>) \o Small,
   Bytes(<<120, 156, 7>>) \o Small,
   StreamStart \o <<1>> \o Number(0, 7) \o Number(3, 16) \o Number(3, 16),
   StreamStart \o <<1>> \o Number(1, 2) \o CodeWord(FixedLit, 286)
   \o Number(0, 4),
   Stream(<<Stored(<<5, 7, 8>>)>>)}
  \cup {Stream(<<Fixed(items)>>) : items \in
          {Lits(<<0, 7, 8, 9>>), <<Lit(0), Copy(3, 1)>>, <<Lit(0), Copy(258, 1)>>,
           <<Copy(3, 1)>>}}
  \cup {Stream(<<Fixed(Lits(<<0>>)), Stored(<<1, 2, 3>>)>>)}
FarCopy == Stream(<<Fixed(<<Lit(0), Copy(4, 2)>>)>>)
TooShort == Stream(<<Stored(<<>>)>>)

Damage(f) == [f EXCEPT !.corrupt = TRUE]
OtherFiles ==
  {WithHeader(header, more, Zeros[LineBytes(header)]) :
     header \in Headers, more \in {<<>>, <<PLTE([k \in 1..9 |-> k])>>}}
  \cup {Damage(WithHeader(Top.data, <<>>, data)) : data \in Corrupt}
  \cup {Damage(WithHeader(Header(9, 1, 8, 0, Plain), <<>>, FarCopy)),
        WithHeader(Top.data, <<>>, TooShort)}

MCFiles == StreamFiles \cup FilterFiles \cup ChunkFiles \cup OtherFiles
=============================================================================
