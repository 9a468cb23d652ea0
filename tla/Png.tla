-------------------------------- MODULE Png --------------------------------
(***************************************************************************)
(* loadPNG (sg/src/DataPNG.cxx): the chunks of a file are read up to the   *)
(* last one (PNG::init), and then the data is decompressed, its filters    *)
(* are reversed line by line, and its samples are copied                   *)
(* (PNG::imageData).                                                       *)
(***************************************************************************)
EXTENDS Inflate, PngFormat

CONSTANT Files

VARIABLES
  file,   \* the file: its signature, its chunks, and what it was made of
  next,   \* how many chunks were read
  ihdr,   \* the header
  plte,   \* the palette
  row,    \* how many lines were restored
  idata,  \* the image
  status

pngVars == <<file, next, ihdr, plte, row, idata, status>>
allVars == <<zVars, pngVars>>

Header(width, height, bitDepth, colorType, methods) ==
  [width |-> width, height |-> height, bitDepth |-> bitDepth,
   colorType |-> colorType, compression |-> methods[1],
   filter |-> methods[2], interlace |-> methods[3]]

Init ==
  /\ file \in Files
  /\ next = 0
  /\ ihdr = Header(0, 0, 0, 0, <<0, 0, 0>>)
  /\ plte = <<>>
  /\ row = 0
  /\ idata = <<>>
  /\ status = "opened"
  /\ InflateInit

-----------------------------------------------------------------------------
(* PNG::init.                                                              *)

Throw ==
  /\ status' = "thrown"
  /\ UNCHANGED <<zVars, file, next, ihdr, plte, row, idata>>

CheckSignature ==
  /\ status = "opened"
  /\ IF file.signed
     THEN /\ status' = "chunks"
          /\ UNCHANGED <<zVars, file, next, ihdr, plte, row, idata>>
     ELSE Throw

Chunk == file.chunks[next + 1]
HasMore == next < Len(file.chunks)

(* computeCRC: of a chunk, whether its checksum is that of its contents.   *)
CrcRight(chunk) == chunk.crc

(* Mutant of Takes: the checksums are not compared.                        *)
TakesUnchecked(type) ==
  /\ status = "chunks" /\ HasMore
  /\ Chunk.type = type
  /\ next' = next + 1
  /\ UNCHANGED <<file, row, idata>>
Takes(type) ==
  /\ status = "chunks" /\ HasMore
  /\ CrcRight(Chunk) /\ Chunk.type = type
  /\ next' = next + 1
  /\ UNCHANGED <<file, row, idata>>

TakeIHDR ==
  /\ Takes("IHDR")
  /\ Chunk.length >= 13
  /\ ihdr' = Chunk.data
  /\ UNCHANGED <<zVars, plte, status>>

TakePLTE ==
  /\ Takes("PLTE")
  /\ Len(Chunk.data) % 3 = 0 /\ plte = <<>>
  /\ plte' = Chunk.data
  /\ UNCHANGED <<zVars, ihdr, status>>

TakeIDAT ==
  /\ Takes("IDAT")
  /\ src' = src \o Chunk.data
  /\ UNCHANGED <<at, dst, room, lengths, trees, copy, mode, ihdr, plte, status>>

TakeIEND ==
  /\ Takes("IEND")
  /\ status' = "validate"
  /\ UNCHANGED <<zVars, ihdr, plte>>

TakeAncillary ==
  /\ Takes("ancillary")
  /\ UNCHANGED <<zVars, ihdr, plte, status>>

RefuseChunk ==
  /\ status = "chunks"
  /\ \/ ~HasMore
     \/ HasMore /\ \/ ~CrcRight(Chunk)
                   \/ Chunk.type = "IHDR" /\ Chunk.length < 13
                   \/ Chunk.type = "PLTE" /\ \/ Len(Chunk.data) % 3 # 0
                                             \/ plte # <<>>
                   \/ Chunk.type = "critical"
  /\ Throw

DepthsOf ==
  (0 :> {1, 2, 4, 8, 16}) @@ (2 :> {8, 16}) @@ (3 :> {1, 2, 4, 8})
  @@ (4 :> {8, 16}) @@ (6 :> {8, 16})

Valid ==
  /\ ihdr.width # 0 /\ ihdr.height # 0
  /\ ihdr.compression = 0 /\ ihdr.filter = 0
  /\ src # <<>>
  /\ ihdr.colorType \in DOMAIN DepthsOf
  /\ ihdr.bitDepth \in DepthsOf[ihdr.colorType]
  /\ ihdr.colorType = 3 => plte # <<>>
  /\ ihdr.interlace = 0  \* 1 is valid, but not supported

(* Lines begin at bytes, with their filter.                                *)
Components ==
  CASE ihdr.colorType \in {0, 3} -> 1
    [] ihdr.colorType = 2 -> 3
    [] ihdr.colorType = 4 -> 2
    [] ihdr.colorType = 6 -> 4
BitsPerPixel == Components * ihdr.bitDepth
Bpp == IF BitsPerPixel >= 8 THEN BitsPerPixel \div 8 ELSE 1
ScanlineSize ==
  1 + IF BitsPerPixel % 8 = 0 THEN ihdr.width * Bpp
      ELSE (ihdr.width * BitsPerPixel + 7) \div 8

Validate ==
  /\ status = "validate"
  /\ IF Valid
     THEN /\ status' = "decompress"
          /\ mode' = "header"
          /\ room' = ScanlineSize * ihdr.height
          /\ UNCHANGED <<src, at, dst, lengths, trees, copy>>
          /\ UNCHANGED <<file, next, ihdr, plte, row, idata>>
     ELSE Throw

-----------------------------------------------------------------------------
(* PNG::decompress.  What the stream does not fill stays zero.             *)

Decompress ==
  /\ status = "decompress"
  /\ InflateStep
  /\ UNCHANGED pngVars

DecompressThrows ==
  /\ status = "decompress" /\ mode = "thrown"
  /\ Throw

Filled(data, size) ==
  data \o [k \in 1..(size - Len(data)) |-> 0]

Decompressed ==
  /\ status = "decompress" /\ mode = "done"
  /\ dst' = Filled(dst, room)
  /\ status' = "unfilter"
  /\ UNCHANGED <<src, at, room, lengths, trees, copy, mode>>
  /\ UNCHANGED <<file, next, ihdr, plte, row, idata>>

-----------------------------------------------------------------------------
(* PNG::unfilter.  A line begins with its filter; the bytes of the pixel   *)
(* to the left, and above, are restored before they are needed.            *)

Byte(n) == n % 256
Line(r) == SubSeq(dst, r * ScanlineSize + 1, (r + 1) * ScanlineSize)
Abs(n) == IF n < 0 THEN -n ELSE n

Paeth(a, b, c) ==
  LET p == a + b - c
  IN  IF Abs(p - a) <= Abs(p - b) /\ Abs(p - a) <= Abs(p - c) THEN a
      ELSE IF Abs(p - b) <= Abs(p - c) THEN b ELSE c

(* Mutant of Start: of a line's first pixel nothing is above.              *)
StartUnpredicted(filter, above) == 0

(* The first pixel has none to its left.                                   *)
Start(filter, above) ==
  CASE filter \in {0, 1} -> 0
    [] filter = 3 -> above \div 2
    [] filter \in {2, 4} -> above

(* reverse: all others.                                                    *)
Rest(filter, left, above, diagonal) ==
  CASE filter = 0 -> 0
    [] filter = 1 -> left
    [] filter = 2 -> above
    [] filter = 3 -> (left + above) \div 2
    [] filter = 4 -> Paeth(left, above, diagonal)

(* reverse0: nothing is above the first line.                              *)
Alone(filter, left) ==
  CASE filter \in {0, 2} -> 0
    [] filter \in {1, 4} -> left
    [] filter = 3 -> left \div 2

Restored(r) ==
  LET stored == Line(r)
      filter == stored[1]
      prior == Line(r - 1)
      line[i \in DOMAIN stored] ==
        IF i = 1 THEN filter
        ELSE Byte(stored[i] +
               IF r = 0
               THEN IF i <= Bpp + 1 THEN 0 ELSE Alone(filter, line[i - Bpp])
               ELSE IF i <= Bpp + 1 THEN Start(filter, prior[i])
               ELSE Rest(filter, line[i - Bpp], prior[i], prior[i - Bpp]))
  IN  line

Unfilter ==
  /\ status = "unfilter" /\ row < ihdr.height
  /\ IF Line(row)[1] > 4 THEN Throw
     ELSE /\ dst' = SubSeq(dst, 1, row * ScanlineSize) \o Restored(row)
                  \o SubSeq(dst, (row + 1) * ScanlineSize + 1, Len(dst))
          /\ row' = row + 1
          /\ UNCHANGED <<src, at, room, lengths, trees, copy, mode>>
          /\ UNCHANGED <<file, next, ihdr, plte, idata, status>>

-----------------------------------------------------------------------------
(* PNG::imageData.                                                         *)

(* The sample of a pixel narrower than a byte: it is taken from the low    *)
(* end of the byte.                                                        *)
Narrow(line, j) ==
  LET bit == j * ihdr.bitDepth
      byte == line[2 + bit \div 8]
  IN  (byte \div 2^(bit % 8)) % 2^ihdr.bitDepth

(* An index counts bytes of the palette.                                   *)
Color(index) == SubSeq(plte, index + 1, index + 3)

(* The host stores the low byte of a 16-bit sample first.                  *)
Swapped(bytes) ==
  [k \in DOMAIN bytes |-> bytes[IF k % 2 = 1 THEN k + 1 ELSE k - 1]]

LineData(r) ==
  LET pixels == [j \in 1..ihdr.width |-> j - 1]
      bytes == Tail(Line(r))
  IN  CASE ihdr.colorType = 3 ->
             FlattenSeq([j \in DOMAIN pixels |->
                           Color(Narrow(Line(r), pixels[j]))])
        [] ihdr.colorType # 3 /\ ihdr.bitDepth < 8 ->
             [j \in DOMAIN pixels |-> Narrow(Line(r), pixels[j])]
        [] ihdr.colorType # 3 /\ ihdr.bitDepth = 8 -> bytes
        [] ihdr.colorType # 3 /\ ihdr.bitDepth = 16 -> Swapped(bytes)

ImageData ==
  /\ status = "unfilter" /\ row = ihdr.height
  /\ idata' = FlattenSeq([r \in 1..ihdr.height |-> LineData(r - 1)])
  /\ status' = "done"
  /\ UNCHANGED <<zVars, file, next, ihdr, plte, row>>

Next ==
  \/ CheckSignature
  \/ TakeIHDR \/ TakePLTE \/ TakeIDAT \/ TakeIEND \/ TakeAncillary
  \/ RefuseChunk \/ Validate
  \/ Decompress \/ DecompressThrows \/ Decompressed
  \/ Unfilter \/ ImageData

Spec == Init /\ [][Next]_allVars

-----------------------------------------------------------------------------
(* inflate: what is decompressed is what was compressed, whatever blocks,  *)
(* codes, lengths and distances the encoder chose and however the stream   *)
(* is split into chunks.                                                   *)
Inflated ==
  status = "unfilter" /\ row = 0 /\ file.made # <<>> =>
    dst = file.made.content

(* PNG::unfilter and imageData: the image is the one that was stored,      *)
(* whatever filter each line has.  Samples narrower than a byte and those  *)
(* of a palette are not claimed: neither is read in the right place.       *)
ImageRight ==
  status = "done" /\ file.made # <<>> /\ ihdr.colorType # 3
    /\ ihdr.bitDepth >= 8 =>
      idata = file.made.image

Before(k, type) == \E j \in 1..(k - 1) : file.chunks[j].type = type
Reached(k) == ~Before(k, "IEND")

(* A file that is damaged: its signature or a checksum is wrong, its end   *)
(* is missing, or its data is not what the formats allow.                  *)
Damaged ==
  \/ ~file.signed \/ file.corrupt
  \/ \A k \in DOMAIN file.chunks : file.chunks[k].type # "IEND"
  \/ \E k \in DOMAIN file.chunks : Reached(k) /\ ~file.chunks[k].crc

(* It has a legal header, of those the last one, and what goes with it.    *)
WellMade ==
  LET heads == {k \in DOMAIN file.chunks :
                  Reached(k) /\ file.chunks[k].type = "IHDR"}
      has(type) == \E k \in DOMAIN file.chunks :
                     Reached(k) /\ file.chunks[k].type = type
  IN  /\ heads # {} /\ LegalHeader(file.chunks[Max(heads)].data)
      /\ has("IDAT")
      /\ file.chunks[Max(heads)].data.colorType = 3 => has("PLTE")

(* A file that is as the format says, and not interlaced.                  *)
Standard ==
  LET chunks == file.chunks
      of(type) == {k \in DOMAIN chunks : chunks[k].type = type}
  IN  /\ WellMade
      /\ of("IHDR") = {1} /\ chunks[1].length = 13
      /\ of("IEND") = {Len(chunks)}
      /\ of("critical") = {}
      /\ \A j, k \in of("IDAT") : j..k \subseteq of("IDAT")
      /\ Cardinality(of("PLTE")) <= 1
      /\ \A k \in of("PLTE") : /\ Len(chunks[k].data) \in {3 * n : n \in 1..256}
                               /\ ~Before(k, "IDAT")

(* PNG::init, inflate and unfilter: a file that is damaged, or whose       *)
(* header is not legal, is never taken for an image, and a file that is    *)
(* neither damaged nor against the format is always read: it is not        *)
(* refused, nor does an assertion fail.  (Chunks in an illegal order, and  *)
(* data that is too short, are accepted.)                                  *)
RefusesOnlyBadFiles ==
  /\ status = "done" => ~Damaged /\ WellMade
  /\ status = "thrown" \/ mode = "failed" => Damaged \/ ~Standard
=============================================================================
