------------------------------ MODULE Segments ------------------------------
(***************************************************************************)
(* The memory of meshes (sg/src/Mesh.cxx).  All primitives keep their      *)
(* vertex attributes and indices in one buffer; a list of segments, sorted *)
(* by offset, says which parts of the buffer are free.                     *)
(***************************************************************************)
EXTENDS Integers, Sequences, SequencesExt

CONSTANTS
  Primitives,
  Semantics,    \* VxData: vertex attributes and indices
  Sizes,        \* of the data that setData() is given, in units of memory
  BufferSize,
  NoEntry       \* an entry without memory, offset UINT64_MAX

(* Empty data, which setData() does not refuse, is left out: its entry     *)
(* comes back as an empty segment inside another one.                      *)
ASSUME SegmentsAssumption ==
  /\ Sizes \subseteq Nat \ {0}
  /\ BufferSize \in Nat \ {0}
  /\ IsFiniteSet(Semantics)
  /\ NoEntry \notin [offset : 0..BufferSize, size : 0..BufferSize]

VARIABLES
  segments,   \* Primitive::Impl::segments_
  entries,    \* attributes_ and indices_ of each primitive that exists
  dataMask,   \* dataMask_ of each primitive
  undefined   \* was an object used that does not exist?

vars == <<segments, entries, dataMask, undefined>>

End(s) == s.offset + s.size
Ranges == [offset : 0..BufferSize, size : 0..BufferSize]

TypeOK ==
  /\ segments \in Seq(Ranges)
  /\ entries \in [Primitives -> [Semantics -> Ranges \cup {NoEntry}]]
  /\ dataMask \in [Primitives -> SUBSET Semantics]
  /\ undefined \in BOOLEAN

Init ==
  /\ segments = <<[offset |-> 0, size |-> BufferSize]>>
  /\ entries = [p \in Primitives |-> [s \in Semantics |-> NoEntry]]
  /\ dataMask = [p \in Primitives |-> {}]
  /\ undefined = FALSE

-----------------------------------------------------------------------------
(* yieldEntry(): the memory of an entry becomes free.                      *)

(* How many segments come before the first that does not begin before the  *)
(* end of the entry.                                                       *)
Passed(segs, e) ==
  CHOOSE n \in 0..Len(segs) :
    /\ \A i \in 1..n : segs[i].offset < End(e)
    /\ n < Len(segs) => segs[n + 1].offset >= End(e)

Before(segs, e) == SubSeq(segs, 1, Passed(segs, e))
After(segs, e) == SubSeq(segs, Passed(segs, e) + 1, Len(segs))

(* Mutant of Joined: segments that touch are not merged.                   *)
Inserted(prevs, e, nexts) == prevs \o <<e>> \o nexts

(* The entry is merged with the segment that it continues and with the one *)
(* that continues it, if there are such.                                   *)
Joined(prevs, e, nexts) ==
  LET joinsPrev == prevs # <<>> /\ End(Last(prevs)) = e.offset
      joinsNext == nexts # <<>> /\ Head(nexts).offset = End(e)
      offset == IF joinsPrev THEN Last(prevs).offset ELSE e.offset
      end == IF joinsNext THEN End(Head(nexts)) ELSE End(e)
  IN (IF joinsPrev THEN Front(prevs) ELSE prevs)
       \o <<[offset |-> offset, size |-> end - offset]>>
       \o (IF joinsNext THEN Tail(nexts) ELSE nexts)

Yielded(segs, e) ==
  IF e = NoEntry THEN segs ELSE Joined(Before(segs, e), e, After(segs, e))

-----------------------------------------------------------------------------
(* setData()                                                               *)

(* The segments that are large enough.                                     *)
Fitting(segs, size) == {i \in DOMAIN segs : segs[i].size >= size}

(* Mutant of Shrunk: the segment keeps its size.                           *)
ShrunkAtStart(s, size) == [s EXCEPT !.offset = @ + size]

Shrunk(s, size) == [offset |-> s.offset + size, size |-> s.size - size]

(* Segment i gives its first units and goes when it has no more.           *)
Carved(segs, i, size) ==
  IF segs[i].size = size THEN RemoveAt(segs, i)
                         ELSE [segs EXCEPT ![i] = Shrunk(@, size)]

(* The memory that the semantic had before is free again before the new    *)
(* data is given some: the first segment in which it fits.                 *)
SetDataFits(p, sem, size) ==
  LET segs == Yielded(segments, entries[p][sem])
      fitting == Fitting(segs, size)
      i == CHOOSE j \in fitting : \A k \in fitting : j <= k
  IN /\ fitting # {}
     /\ segments' = Carved(segs, i, size)
     /\ entries' = [entries EXCEPT ![p][sem] = [offset |-> segs[i].offset,
                                                size |-> size]]
     /\ dataMask' = [dataMask EXCEPT ![p] = @ \cup {sem}]
     /\ UNCHANGED undefined

(* Mutant of MaskDropped: the mask keeps the semantic that lost its memory.*)
KeptInMask(p, sem) == UNCHANGED dataMask

MaskDropped(p, sem) == dataMask' = [dataMask EXCEPT ![p] = @ \ {sem}]

(* When it fits nowhere the buffer has to grow.  If no larger buffer can   *)
(* be created the call throws; if one can, resizeBuffer() stores it in     *)
(* buffer_ and copies to newBuf, which is still null.                      *)
SetDataGrows(p, sem, size) ==
  LET segs == Yielded(segments, entries[p][sem]) IN
  /\ Fitting(segs, size) = {}
  /\ segments' = segs
  /\ entries' = [entries EXCEPT ![p][sem] = NoEntry]
  /\ MaskDropped(p, sem)
  /\ undefined' \in BOOLEAN

SetData(p, sem, size) ==
  /\ ~undefined
  /\ SetDataFits(p, sem, size) \/ SetDataGrows(p, sem, size)

(* The list once the entries es are free, one after the other.             *)
AllYielded(segs, es) ==
  LET list[i \in 0..Len(es)] ==
        IF i = 0 THEN segs ELSE Yielded(list[i - 1], es[i])
  IN list[Len(es)]

(* ~Impl; another primitive may be made in its place.                      *)
DestroyPrimitive(p) ==
  /\ ~undefined
  /\ segments' = AllYielded(segments, [i \in 1..Cardinality(Semantics) |->
                                         entries[p][SetToSeq(Semantics)[i]]])
  /\ entries' = [entries EXCEPT ![p] = [s \in Semantics |-> NoEntry]]
  /\ dataMask' = [dataMask EXCEPT ![p] = {}]
  /\ UNCHANGED undefined

(* The program is not defined any more.                                    *)
Undefined == undefined /\ UNCHANGED vars

Next ==
  \/ \E p \in Primitives :
       \/ \E sem \in Semantics, size \in Sizes : SetData(p, sem, size)
       \/ DestroyPrimitive(p)
  \/ Undefined

Spec == Init /\ [][Next]_vars

-----------------------------------------------------------------------------
(* Properties.                                                             *)

EntryOf(h) == entries[h[1]][h[2]]
Held == {h \in Primitives \X Semantics : EntryOf(h) # NoEntry}
Covers(r, x) == r.offset <= x /\ x < End(r)

(* Each unit of the buffer is free or belongs to one attribute of one      *)
(* primitive, and to one only, after any sequence of calls that replace,   *)
(* remove and refuse data: none is lost, none is given twice.              *)
Partition ==
  TypeOK /\
  \A x \in 0..(BufferSize - 1) :
    Cardinality({i \in DOMAIN segments : Covers(segments[i], x)})
      + Cardinality({h \in Held : Covers(EntryOf(h), x)}) = 1

(* The list is sorted and no segment touches the next one, so that a free  *)
(* range is found whenever there is one ("Merge segments if they are       *)
(* contiguous", in yieldEntry).                                            *)
Coalesced ==
  \A i \in DOMAIN segments, j \in DOMAIN segments :
    i < j => End(segments[i]) < segments[j].offset

(* yieldEntry and setData keep both in any order of calls.                 *)
FreeListRight == Partition /\ Coalesced

(* The mask, by which states are made and bindings encoded, has the        *)
(* semantics that have memory: data that was refused is not drawn with,    *)
(* even if there was data before.                                          *)
MaskIsHeld ==
  \A p \in Primitives : dataMask[p] = {s \in Semantics : entries[p][s] # NoEntry}
=============================================================================
