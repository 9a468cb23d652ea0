------------------------------ MODULE Inflate ------------------------------
(***************************************************************************)
(* The decoder of compressed data in sg/src/DataPNG.cxx: code trees made   *)
(* from code lengths, and the blocks of a stream, whose symbols are read   *)
(* bit by bit.  A step reads the header of a block, a code length or a     *)
(* symbol.  The code asserts that the stream is longer than its header,    *)
(* and relies on it to be complete: the streams here are.  It also asserts *)
(* that what is written has room, and that what is copied was written: the *)
(* program stops where that fails.                                         *)
(***************************************************************************)
EXTENDS Integers, Sequences, FiniteSets, SequencesExt

VARIABLES
  src,     \* the stream, bit by bit
  at,      \* how many of its bits were read
  dst,     \* the bytes that were written
  room,    \* how many there may be, dst.size(): the others stay zero
  lengths, \* the code lengths read so far: of literals, and of distances
  trees,   \* the code trees of this block, and how many lengths it has
  copy,    \* how many bytes are left to copy, and from what distance
  mode     \* what comes next, "done", "thrown" or, asserting, "failed"

zVars == <<src, at, dst, room, lengths, trees, copy, mode>>

(* Of `n' bits the first one is the lowest.  The code leaves the order of  *)
(* the calls in `nextBit() | (nextBit() << 1)' to the compiler.            *)
RECURSIVE Bits(_, _)
Bits(from, n) ==
  IF n = 0 THEN 0 ELSE src[from + 1] + 2 * Bits(from + 1, n - 1)

-----------------------------------------------------------------------------
(* Code trees.  The nodes that are leaves are told by the bits that lead   *)
(* to them from the root, as their number and the number that they make,   *)
(* highest bit first.  No other nodes matter: no leaf is above another     *)
(* unless the lengths are wrong, nor is there a way to no leaf that data   *)
(* which was coded with the tree takes.                                    *)

MaxLength == 15
CountOf(codeLengths, len) ==
  IF len = 0 THEN 0
  ELSE Cardinality({i \in DOMAIN codeLengths : codeLengths[i] = len})

(* The first code of each length.                                          *)
NextCode(codeLengths) ==
  LET code[len \in 0..MaxLength] ==
        IF len = 0 THEN 0
        ELSE (code[len - 1] + CountOf(codeLengths, len - 1)) * 2
  IN  code

(* The values of one length get its codes in order.                        *)
CreateCodeTree(codeLengths) ==
  LET first == NextCode(codeLengths)
      used == {i \in DOMAIN codeLengths : codeLengths[i] # 0}
      code == [i \in used |->
                 first[codeLengths[i]]
                 + Cardinality({j \in 1..(i - 1) :
                                  codeLengths[j] = codeLengths[i]})]
  IN  {[length |-> codeLengths[i], code |-> code[i], value |-> i - 1] :
         i \in used}

RECURSIVE CodeAt(_, _)
CodeAt(from, n) ==
  IF n = 0 THEN 0 ELSE 2 * CodeAt(from, n - 1) + src[from + n]

(* A value is decoded by a walk from the root to a leaf.                   *)
Decode(tree, from) ==
  LET leaf == CHOOSE leaf \in tree : leaf.code = CodeAt(from, leaf.length)
  IN  [value |-> leaf.value, at |-> from + leaf.length]

-----------------------------------------------------------------------------
(* Streams and blocks.                                                     *)

InflateInit ==
  /\ src = <<>>
  /\ at = 0
  /\ dst = <<>>
  /\ room = 0
  /\ lengths = [lit |-> <<>>, dist |-> <<>>]
  /\ trees = <<>>
  /\ copy = <<0, 0>>
  /\ mode = "idle"

HeaderRight ==
  /\ Bits(0, 4) = 8 /\ Bits(4, 4) <= 7
  /\ Bits(13, 1) = 0
  /\ (Bits(0, 8) * 256 + Bits(8, 8)) % 31 = 0

Stop(how) ==
  mode' = how /\ UNCHANGED <<src, at, dst, room, lengths, trees, copy>>
ThrowData == Stop("thrown")

(* assert(condition)                                                       *)
Asserting(condition, step) == IF condition THEN step ELSE Stop("failed")
HasRoom(bytes) == Len(dst) + bytes <= room

StreamHeader ==
  /\ mode = "header"
  /\ IF HeaderRight
     THEN /\ at' = 16 /\ mode' = "block"
          /\ UNCHANGED <<src, dst, room, lengths, trees, copy>>
     ELSE ThrowData

(* The last block is followed by nothing that is read.                     *)
Final(begin) == Bits(begin, 1) = 1
AfterBlock(final) == IF final THEN "done" ELSE "block"
TypeOfBlock == Bits(at + 1, 2)

(* A block that is not compressed begins with the next byte.               *)
Aligned(bit) == ((bit + 7) \div 8) * 8

StoredBlock ==
  /\ mode = "block" /\ TypeOfBlock = 0
  /\ LET begin == Aligned(at + 3)
         len == Bits(begin, 16)
     IN  IF Bits(begin + 16, 16) # 65535 - len THEN ThrowData
         ELSE Asserting(HasRoom(len),
                /\ dst' = dst \o [k \in 1..len |->
                                    Bits(begin + 32 + 8 * (k - 1), 8)]
                /\ at' = begin + 32 + 8 * len
                /\ mode' = AfterBlock(Final(at))
                /\ UNCHANGED <<src, room, lengths, trees, copy>>)

FixedLiterals ==
  CreateCodeTree([i \in 1..288 |-> IF i <= 144 THEN 8 ELSE IF i <= 256 THEN 9
                                   ELSE IF i <= 280 THEN 7 ELSE 8])
FixedDistances == CreateCodeTree([i \in 1..32 |-> 5])

FixedBlock ==
  /\ mode = "block" /\ TypeOfBlock = 1
  /\ trees' = [final |-> Final(at), lit |-> FixedLiterals,
               dist |-> FixedDistances]
  /\ at' = at + 3
  /\ mode' = "data"
  /\ UNCHANGED <<src, dst, room, lengths, copy>>

LenMap ==
  <<16, 17, 18, 0, 8, 7, 9, 6, 10, 5, 11, 4, 12, 3, 13, 2, 14, 1, 15>>

DynamicBlock ==
  /\ mode = "block" /\ TypeOfBlock = 2
  /\ LET hlit == 257 + Bits(at + 3, 5)
         hdist == 1 + Bits(at + 8, 5)
         hclen == 4 + Bits(at + 13, 4)
         given == [i \in 1..hclen |-> Bits(at + 17 + 3 * (i - 1), 3)]
         lenLengths == [v \in 1..19 |->
           LET i == CHOOSE i \in 1..19 : LenMap[i] = v - 1
           IN  IF i <= hclen THEN given[i] ELSE 0]
     IN  /\ trees' = [final |-> Final(at), hlit |-> hlit, hdist |-> hdist,
                      len |-> CreateCodeTree(lenLengths)]
         /\ at' = at + 17 + 3 * hclen
  /\ lengths' = [lit |-> <<>>, dist |-> <<>>]
  /\ mode' = "lengths"
  /\ UNCHANGED <<src, dst, room, copy>>

InvalidBlock ==
  /\ mode = "block" /\ TypeOfBlock = 3
  /\ ThrowData

-----------------------------------------------------------------------------
(* Code lengths: of as many literals as the block has, then of distances.  *)

Which == IF Len(lengths.lit) < trees.hlit THEN "lit" ELSE "dist"
Reading ==
  /\ mode = "lengths"
  /\ Len(lengths.lit) < trees.hlit \/ Len(lengths.dist) < trees.hdist

AddLengths(more, bits) ==
  /\ lengths' = [lengths EXCEPT ![Which] = @ \o more]
  /\ at' = bits
  /\ UNCHANGED <<src, dst, room, trees, copy, mode>>

CodeLength ==
  /\ Reading
  /\ LET code == Decode(trees.len, at)
     IN  code.value < 16 /\ AddLengths(<<code.value>>, code.at)

CopyPrevious ==
  /\ Reading
  /\ LET code == Decode(trees.len, at)
         times == 3 + Bits(code.at, 2)
     IN  /\ code.value = 16
         /\ AddLengths([k \in 1..times |-> Last(lengths[Which])], code.at + 2)

RepeatZero ==
  /\ Reading
  /\ LET code == Decode(trees.len, at)
         bits == IF code.value = 17 THEN 3 ELSE 7
         times == (IF code.value = 17 THEN 3 ELSE 11) + Bits(code.at, bits)
     IN  /\ code.value \in {17, 18}
         /\ AddLengths([k \in 1..times |-> 0], code.at + bits)

LengthsRead ==
  /\ mode = "lengths" /\ ~Reading
  /\ trees' = [final |-> trees.final, lit |-> CreateCodeTree(lengths.lit),
               dist |-> CreateCodeTree(lengths.dist)]
  /\ lengths' = [lit |-> <<>>, dist |-> <<>>]
  /\ mode' = "data"
  /\ UNCHANGED <<src, at, dst, room, copy>>

-----------------------------------------------------------------------------
(* Symbols.                                                                *)

Literal ==
  /\ mode = "data"
  /\ LET code == Decode(trees.lit, at)
     IN  /\ code.value < 256
         /\ Asserting(HasRoom(1),
              /\ dst' = Append(dst, code.value)
              /\ at' = code.at
              /\ UNCHANGED <<src, room, lengths, trees, copy, mode>>)

EndOfBlock ==
  /\ mode = "data"
  /\ LET code == Decode(trees.lit, at)
     IN  /\ code.value = 256
         /\ at' = code.at
  /\ mode' = AfterBlock(trees.final)
  /\ trees' = <<>>
  /\ UNCHANGED <<src, dst, room, lengths, copy>>

(* What a value of either tree stands for, without its extra bits.         *)
LengthExtra(value) ==
  IF value \in 265..284 THEN 1 + ((value - 265) \div 4) ELSE 0
(* Mutant of LengthBase: the longest is computed as the others are.        *)
LengthBaseOf(value) ==
  IF value <= 264 THEN 10 - (264 - value)
  ELSE 3 + (4 + ((value - 265) % 4)) * 2^LengthExtra(value)
LengthBase(value) ==
  CASE value <= 264 -> 10 - (264 - value)
    [] value \in 265..284 ->
         3 + 4 * 2^LengthExtra(value)
         + ((value - 265) % 4) * 2^LengthExtra(value)
    [] OTHER -> 258

DistanceExtra(value) == IF value <= 3 THEN 0 ELSE 1 + ((value - 4) \div 2)
DistanceBase(value) ==
  IF value <= 3 THEN value + 1
  ELSE 1 + 2 * 2^DistanceExtra(value)
       + ((value - 4) % 2) * 2^DistanceExtra(value)

Pair ==
  /\ mode = "data"
  /\ LET code == Decode(trees.lit, at)
         lenBits == LengthExtra(code.value)
         length == LengthBase(code.value) + Bits(code.at, lenBits)
         dist == Decode(trees.dist, code.at + lenBits)
         distBits == DistanceExtra(dist.value)
         distance == DistanceBase(dist.value) + Bits(dist.at, distBits)
     IN  /\ code.value \in 257..285
         /\ Asserting(distance <= Len(dst) /\ HasRoom(length),
              /\ copy' = <<length, distance>>
              /\ at' = dist.at + distBits
              /\ mode' = "copy"
              /\ UNCHANGED <<src, dst, room, lengths, trees>>)

(* Byte by byte: what is copied may be part of the copy.                   *)
CopyByte ==
  /\ mode = "copy" /\ copy[1] > 0
  /\ dst' = Append(dst, dst[Len(dst) + 1 - copy[2]])
  /\ copy' = [copy EXCEPT ![1] = @ - 1]
  /\ UNCHANGED <<src, at, room, lengths, trees, mode>>

CopyDone ==
  /\ mode = "copy" /\ copy[1] = 0
  /\ copy' = <<0, 0>>
  /\ mode' = "data"
  /\ UNCHANGED <<src, at, dst, room, lengths, trees>>

InvalidCode ==
  /\ mode = "data"
  /\ Decode(trees.lit, at).value > 285
  /\ ThrowData

InflateStep ==
  \/ StreamHeader \/ StoredBlock \/ FixedBlock \/ DynamicBlock \/ InvalidBlock
  \/ CodeLength \/ CopyPrevious \/ RepeatZero \/ LengthsRead
  \/ Literal \/ EndOfBlock \/ Pair \/ CopyByte \/ CopyDone
  \/ InvalidCode
=============================================================================
