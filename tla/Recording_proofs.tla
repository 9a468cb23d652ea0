-------------------------- MODULE Recording_proofs --------------------------
(***************************************************************************)
(* Proofs about Recording and RenderPasses, for any operations of targets, *)
(* states, descriptor tables, buffers and images.                          *)
(***************************************************************************)
EXTENDS Recording, Numbers_proofs, SequenceTheorems, FiniteSetTheorems, TLAPS

-----------------------------------------------------------------------------
(* The slots of a PassVK.                                                  *)

(* Slots are filled from the first, each for different operations.         *)
SlotsDistinct ==
  \A i \in Slots : renderPasses[i] # None =>
    /\ Full(i)
    /\ \A j \in Slots : j # i => renderPasses[j] # renderPasses[i]

(* As many combinations as there are slots need no slot twice: each render *)
(* pass that exists is for one that was asked for.                         *)
PassesInv ==
  /\ used \in SUBSET AllOps /\ IsFiniteSet(used)
  /\ renderPasses \in [Slots -> {Made(o) : o \in used} \cup {None}]
  /\ recorded \in SUBSET Slots
  /\ dangling \in BOOLEAN
  /\ Cardinality(used) <= 4 => ~dangling /\ SlotsDistinct

(* The slot for a new render pass is the first that is empty, if any is.   *)
LEMMA SlotForFirst ==
  ASSUME NEW ops
  PROVE  /\ SlotFor(ops) \in Slots
         /\ Full(4) => SlotFor(ops) = 1
         /\ ~Full(4) => /\ renderPasses[SlotFor(ops)] = None
                        /\ \A j \in 1..(SlotFor(ops) - 1) : renderPasses[j] # None
<1>1. CASE Full(4)
  BY <1>1 DEF SlotFor, Slots
<1>2. CASE ~Full(4)
  <2> DEFINE E == {i \in Slots : ~Full(i)}
  <2>1. E \in SUBSET Nat /\ 4 \in E
    BY <1>2 DEF Slots
  <2>2. PICK n \in E : \A m \in E : n <= m
    <3> HIDE DEF E
    <3> QED BY <2>1, LeastNumber
  <2>3. /\ SlotFor(ops) \in E /\ \A m \in E : SlotFor(ops) <= m
    BY <1>2, <2>2 DEF SlotFor, Min
  <2>4. PICK s \in Slots : s = SlotFor(ops)
    BY <2>3
  <2>5. \A j \in 1..(s - 1) : renderPasses[j] # None
    <3> SUFFICES ASSUME NEW j \in 1..(s - 1) PROVE renderPasses[j] # None
      OBVIOUS
    <3>1. j \in Slots /\ j \notin E
      BY <2>3, <2>4 DEF Slots
    <3> QED BY <3>1 DEF Full, Slots
  <2>6. renderPasses[s] = None
    BY <2>3, <2>4, <2>5 DEF Full, Slots
  <2> QED BY <1>2, <2>4, <2>5, <2>6
<1> QED BY <1>1, <1>2

(* A render pass that nothing matches is for operations that none is for.  *)
LEMMA MatchingMade ==
  ASSUME NEW ops \in AllOps, Matching(ops) = {}
  PROVE  \A i \in Slots : Full(i) => renderPasses[i] # Made(ops)
<1> SUFFICES ASSUME NEW i \in Slots, Full(i), renderPasses[i] = Made(ops)
             PROVE  FALSE
  OBVIOUS
<1>1. EqualOp(renderPasses[i], ops)
  BY DEF EqualOp, Made
<1> QED BY <1>1 DEF Matching

(* Four slots in use, and operations that none is for, are five.           *)
LEMMA FiveUsed ==
  ASSUME PassesInv, NEW ops \in AllOps, Full(4), SlotsDistinct, Matching(ops) = {}
  PROVE  Cardinality(used \cup {ops}) > 4
<1>1. \A i \in Slots : Full(i) /\ renderPasses[i] # None
  BY DEF Full, Slots
<1>2. \A i \in Slots : \E o \in used : renderPasses[i] = Made(o)
  BY <1>1 DEF PassesInv
<1>3. PICK a \in used : renderPasses[1] = Made(a)
  BY <1>2 DEF Slots
<1>4. PICK b \in used : renderPasses[2] = Made(b)
  BY <1>2 DEF Slots
<1>5. PICK c \in used : renderPasses[3] = Made(c)
  BY <1>2 DEF Slots
<1>6. PICK d \in used : renderPasses[4] = Made(d)
  BY <1>2 DEF Slots
<1>7. \A i \in Slots : renderPasses[i] # Made(ops)
  BY <1>1, MatchingMade
<1>8. \A i, j \in Slots : i # j => renderPasses[i] # renderPasses[j]
  BY <1>1 DEF SlotsDistinct
<1>9. /\ a # b /\ a # c /\ a # d /\ b # c /\ b # d /\ c # d
      /\ ops # a /\ ops # b /\ ops # c /\ ops # d
  BY <1>3, <1>4, <1>5, <1>6, <1>7, <1>8 DEF Slots
<1>10. /\ IsFiniteSet({ops}) /\ Cardinality({ops}) = 1
  BY FS_Singleton
<1>11. /\ IsFiniteSet({ops} \cup {a}) /\ Cardinality({ops} \cup {a}) = 2
  BY <1>9, <1>10, FS_AddElement
<1>12. /\ IsFiniteSet({ops} \cup {a} \cup {b})
       /\ Cardinality({ops} \cup {a} \cup {b}) = 3
  BY <1>9, <1>11, FS_AddElement
<1>13. /\ IsFiniteSet({ops} \cup {a} \cup {b} \cup {c})
       /\ Cardinality({ops} \cup {a} \cup {b} \cup {c}) = 4
  BY <1>9, <1>12, FS_AddElement
<1>14. Cardinality({ops} \cup {a} \cup {b} \cup {c} \cup {d}) = 5
  <2>1. PICK four : four = {ops} \cup {a} \cup {b} \cup {c}
    OBVIOUS
  <2>2. d \notin four
    BY <1>9, <2>1
  <2>3. IsFiniteSet(four) /\ Cardinality(four) = 4
    BY <1>13, <2>1
  <2>4. Cardinality(four \cup {d}) = 4 + 1
    BY <2>2, <2>3, FS_AddElement
  <2> QED BY <2>1, <2>4
<1>15. /\ {ops} \cup {a} \cup {b} \cup {c} \cup {d} \subseteq used \cup {ops}
       /\ IsFiniteSet(used \cup {ops})
  BY FS_AddElement DEF PassesInv
<1>16. /\ Cardinality({ops} \cup {a} \cup {b} \cup {c} \cup {d})
            <= Cardinality(used \cup {ops})
       /\ Cardinality(used \cup {ops}) \in Nat
  BY <1>15, FS_Subset, FS_CardinalityType
<1> QED BY <1>14, <1>16

(* A search for a render pass that is destroyed for it at worst.           *)
LEMMA PassSearched ==
  ASSUME PassesInv, NEW ops \in AllOps,
         (\E i \in Slots : RenderPass(ops, i)) \/ NoRenderPass(ops),
         dangling' \in BOOLEAN, dangling' => dangling \/ Destroys(ops),
         recorded' \in SUBSET Slots
  PROVE  PassesInv'
<1>1. /\ used' = used \cup {ops} /\ used' \in SUBSET AllOps
      /\ IsFiniteSet(used') /\ used \in SUBSET used'
  <2>1. used' = used \cup {ops}
    BY DEF RenderPass, NoRenderPass
  <2>2. IsFiniteSet(used \cup {ops})
    BY FS_AddElement DEF PassesInv
  <2> QED BY <2>1, <2>2 DEF PassesInv
<1>2. Made(ops) # None
  BY MadeAssumption
<1>3. \/ renderPasses' = renderPasses
      \/ /\ Matching(ops) = {}
         /\ \E new \in {Made(ops), None} :
              renderPasses' = [renderPasses EXCEPT ![SlotFor(ops)] = new]
  BY DEF RenderPass, NoRenderPass
<1>4. renderPasses' \in [Slots -> {Made(o) : o \in used'} \cup {None}]
  BY <1>1, <1>3, SlotForFirst DEF PassesInv
<1>5. ASSUME Cardinality(used') <= 4 PROVE ~dangling' /\ SlotsDistinct'
  <2>1. Cardinality(used) <= 4
    <3>1. Cardinality(used) <= Cardinality(used')
      BY <1>1, FS_Subset
    <3>2. Cardinality(used) \in Nat /\ Cardinality(used') \in Nat
      BY <1>1, FS_CardinalityType DEF PassesInv
    <3> QED BY <1>5, <3>1, <3>2
  <2>2. ~dangling /\ SlotsDistinct
    BY <2>1 DEF PassesInv
  <2>3. ASSUME Matching(ops) = {} PROVE ~Full(4)
    <3>1. Cardinality(used') \in Nat
      BY <1>1, FS_CardinalityType
    <3> QED BY <1>1, <1>5, <2>2, <2>3, <3>1, FiveUsed
  <2>4. ~dangling'
    BY <2>2, <2>3, SlotForFirst DEF Destroys
  <2>5. SlotsDistinct'
    <3>1. CASE renderPasses' = renderPasses
      BY <2>2, <3>1 DEF SlotsDistinct, Full
    <3>2. CASE /\ Matching(ops) = {}
               /\ \E new \in {Made(ops), None} :
                    renderPasses' = [renderPasses EXCEPT ![SlotFor(ops)] = new]
      <4>1. PICK s \in Slots : s = SlotFor(ops)
        BY SlotForFirst
      <4>2. PICK new \in {Made(ops), None} :
              renderPasses' = [renderPasses EXCEPT ![s] = new]
        BY <3>2, <4>1
      <4>3. /\ renderPasses[s] = None
            /\ \A j \in 1..(s - 1) : renderPasses[j] # None
        BY <2>3, <3>2, <4>1, SlotForFirst
      <4>4. \A i \in Slots : Full(i) => renderPasses[i] # Made(ops)
        BY <3>2, MatchingMade
      <4>5. /\ renderPasses'[s] = new
            /\ \A i \in Slots : i # s => renderPasses'[i] = renderPasses[i]
        BY <4>2 DEF PassesInv
      <4>6. \A i \in Slots : renderPasses[i] # None => Full(i) /\ i < s
        <5> SUFFICES ASSUME NEW i \in Slots, renderPasses[i] # None
                     PROVE  Full(i) /\ i < s
          OBVIOUS
        <5>1. Full(i)
          BY <2>2 DEF SlotsDistinct
        <5> QED BY <4>3, <5>1 DEF Full, Slots
      <4>7. ASSUME NEW i \in Slots, renderPasses'[i] # None
            PROVE  /\ Full(i)'
                   /\ \A j \in Slots : j # i => renderPasses'[j] # renderPasses'[i]
        <5>1. CASE i = s
          <6>1. new = Made(ops) /\ \A j \in 1..i : renderPasses'[j] # None
            BY <1>2, <4>3, <4>5, <4>7, <5>1 DEF Slots
          <6>2. \A j \in Slots : j # i => renderPasses[j] # Made(ops)
            BY <1>2, <4>4, <4>6
          <6> QED BY <4>5, <5>1, <6>1, <6>2 DEF Full
        <5>2. CASE i # s
          <6>1. renderPasses'[i] = renderPasses[i] /\ renderPasses[i] # None
            BY <4>5, <4>7, <5>2
          <6>2. Full(i) /\ i < s /\ renderPasses[i] # Made(ops)
            BY <4>4, <4>6, <6>1
          <6>3. Full(i)'
            BY <4>5, <6>2 DEF Full, Slots
          <6>4. \A j \in Slots : j # i => renderPasses[j] # renderPasses[i]
            BY <2>2, <6>1 DEF SlotsDistinct
          <6> QED BY <4>5, <6>1, <6>2, <6>3, <6>4
        <5> QED BY <5>1, <5>2
      <4> QED BY <4>7 DEF SlotsDistinct
    <3> QED BY <1>3, <3>1, <3>2
  <2> QED BY <2>4, <2>5
<1> QED BY <1>1, <1>4, <1>5 DEF PassesInv

(* The slots are empty at first.                                           *)
LEMMA PassesInit == Init => PassesInv
<1> SUFFICES ASSUME Init PROVE PassesInv
  OBVIOUS
<1>1. IsFiniteSet({})
  BY FS_EmptySet
<1>2. renderPasses = [i \in Slots |-> None] /\ recorded = {} /\ used = {}
      /\ dangling = FALSE
  BY DEF Init, PassInit
<1> QED BY <1>1, <1>2 DEF PassesInv, SlotsDistinct

(* The commands are gone, the render passes are still there.               *)
LEMMA PassesEmptied ==
  ASSUME PassesInv, Emptied, UNCHANGED <<renderPasses, used>>
  PROVE  PassesInv'
<1> QED BY DEF PassesInv, Emptied, SlotsDistinct, Full

(* Nothing happens to the render passes.                                   *)
LEMMA PassesSame ==
  ASSUME PassesInv, UNCHANGED passVars
  PROVE  PassesInv'
<1> QED BY DEF PassesInv, passVars, SlotsDistinct, Full

(* Targets and states ask for the default operations.                      *)
LEMMA PassesDefault ==
  ASSUME PassesInv, DefaultPassMade \/ DefaultPassRefused
  PROVE  PassesInv'
<1>1. /\ (\E i \in Slots : RenderPass(DefaultOps, i)) \/ NoRenderPass(DefaultOps)
      /\ dangling' = (dangling \/ Destroys(DefaultOps))
      /\ recorded' = recorded
  BY DEF DefaultPassMade, DefaultPassRefused
<1>2. DefaultOps \in AllOps
  BY DEF AllOps
<1>3. dangling' \in BOOLEAN /\ recorded' \in SUBSET Slots
  BY <1>1 DEF PassesInv, Destroys
<1> QED BY <1>1, <1>2, <1>3, PassSearched

(* What each command does to the render passes.                            *)
LEMMA PassesCommand ==
  ASSUME PassesInv, Command
  PROVE  PassesInv'
<1>1. ASSUME NEW what \in Dynamic, SetDynamic(what) PROVE PassesInv'
  BY <1>1, PassesSame DEF SetDynamic
<1>2. ASSUME SetSecondViewport PROVE PassesInv'
  BY <1>2, PassesEmptied DEF SetSecondViewport, Throw
<1>3. ASSUME NEW op \in TargetOps, SetTarget(op) PROVE PassesInv'
  <2>1. OpsOf(op) \in AllOps
    BY DEF AllOps
  <2>2. PICK i \in Slots :
          /\ RenderPass(OpsOf(op), i)
          /\ dangling' = (dangling \/ Destroys(OpsOf(op)))
          /\ recorded' = recorded \cup {i}
    BY <1>3 DEF SetTarget
  <2>3. dangling' \in BOOLEAN /\ recorded' \in SUBSET Slots
    BY <2>2 DEF PassesInv, Destroys
  <2> QED BY <2>1, <2>2, <2>3, PassSearched
<1>4. ASSUME NEW op \in TargetOps, SetTargetThrows(op) PROVE PassesInv'
  <2>1. OpsOf(op) \in AllOps
    BY DEF AllOps
  <2>2. NoRenderPass(OpsOf(op)) /\ recorded' = {} /\ dangling' = FALSE
    BY <1>4 DEF SetTargetThrows, Emptied
  <2> QED BY <2>1, <2>2, PassSearched
<1>5. ASSUME NEW s \in states, SetState(s) PROVE PassesInv'
  BY <1>5, PassesSame DEF SetState
<1>6. ASSUME NEW i \in 1..MaxTables, NEW j \in 0..(i - 1), SetDcTable(i, j)
      PROVE PassesInv'
  BY <1>6, PassesSame DEF SetDcTable
<1>7. ASSUME NEW indexed \in BOOLEAN, Draw(indexed) PROVE PassesInv'
  BY <1>7, PassesSame DEF Draw
<1>8. ASSUME NEW indexed \in BOOLEAN, DrawThrows(indexed) PROVE PassesInv'
  BY <1>8, PassesEmptied DEF DrawThrows, Throw
<1>9. ASSUME CopyBuffer \/ CopyImage PROVE PassesInv'
  BY <1>9, PassesSame DEF CopyBuffer, CopyImage, Copy
<1>10. ASSUME CopyThrows PROVE PassesInv'
  BY <1>10, PassesEmptied DEF CopyThrows, Throw
<1> QED BY <1>1, <1>2, <1>3, <1>4, <1>5, <1>6, <1>7, <1>8, <1>9, <1>10 DEF Command

(* What each step does to them.                                            *)
LEMMA PassesNext == PassesInv /\ [Next]_vars => PassesInv'
<1> SUFFICES ASSUME PassesInv, [Next]_vars PROVE PassesInv'
  OBVIOUS
<1>1. ASSUME Create PROVE PassesInv'
  <2>1. DefaultPassMade \/ DefaultPassRefused \/ UNCHANGED passVars
    BY <1>1 DEF Create, NewTarget, NewState, NewStateThrows
  <2> QED BY <2>1, PassesDefault, PassesSame
<1>2. ASSUME NEW kind \in Points \cup {"transfer"}, Begin(kind) PROVE PassesInv'
  BY <1>2, PassesSame DEF Begin
<1>3. ASSUME EndEncoding PROVE PassesInv'
  BY <1>3, PassesSame DEF EndEncoding
<1>4. ASSUME Reset PROVE PassesInv'
  BY <1>4, PassesEmptied DEF Reset, Throw
<1>5. ASSUME Enqueue PROVE PassesInv'
  BY <1>5, PassesSame, PassesEmptied DEF Enqueue
<1>6. ASSUME Executed PROVE PassesInv'
  BY <1>6, PassesEmptied DEF Executed
<1>7. ASSUME UNCHANGED vars PROVE PassesInv'
  BY <1>7, PassesSame DEF vars
<1> QED BY <1>1, <1>2, <1>3, <1>4, <1>5, <1>6, <1>7, PassesCommand DEF Next

(* A PassVK may destroy a render pass that the commands of a buffer still  *)
(* refer to, whether recorded or executing, only when more combinations of *)
(* operations are in use than it has slots.                                *)
THEOREM PassesStayAlive == Spec => []PassesAlive
<1>1. PassesInv => PassesAlive
  BY DEF PassesInv, PassesAlive
<1> QED BY <1>1, PassesInit, PassesNext, PTL DEF Spec

-----------------------------------------------------------------------------
(* Copies.                                                                 *)

(* The larger of two numbers is one, and neither exceeds it.               *)
LEMMA MaxOfTwo ==
  ASSUME NEW a \in Int, NEW b \in Int
  PROVE  Max({a, b}) \in Int /\ Max({a, b}) >= a /\ Max({a, b}) >= b
<1>1. \E x \in {a, b} : \A y \in {a, b} : x >= y
  OBVIOUS
<1>2. Max({a, b}) \in {a, b} /\ \A y \in {a, b} : Max({a, b}) >= y
  BY <1>1 DEF Max
<1> QED BY <1>2

(* A sum that does not exceed 64 bits is not wrapped, and a difference     *)
(* that does is wrapped to a smaller one.                                  *)
LEMMA WrapSmall ==
  ASSUME NEW n \in 0..(2 * Half - 1)
  PROVE  Wrap(n) = n
<1>1. PICK w \in Nat : w = 2 * Half /\ w > 0 /\ n < w
  BY RecordingAssumption
<1>2. n \in Nat /\ n % w = n
  BY <1>1
<1> QED BY <1>1, <1>2 DEF Wrap

(* The distance of two offsets that the difference of unsigned integers    *)
(* computes is never longer than it should be, which is what the bounds    *)
(* checks of the copies rest on.                                           *)
LEMMA DistanceSmall ==
  ASSUME NEW m \in 0..(2 * Half - 1), NEW n \in 0..(2 * Half - 1)
  PROVE  /\ Distance(m, n) \in Int
         /\ m >= n => Distance(m, n) <= m - n
         /\ m < n => Distance(m, n) <= n - m
<1>0. Half \in Nat /\ Half > 0 /\ m \in Int /\ n \in Int
  BY RecordingAssumption
<1>1. PICK d \in Int : d = m - n /\ d < 2 * Half /\ d > -(2 * Half)
  BY <1>0
<1>2. CASE d >= 0
  <2>1. Wrap(d) = d
    BY <1>0, <1>1, <1>2, WrapSmall
  <2>2. Distance(m, n) = LET e == Signed(d) IN IF e < 0 THEN -e ELSE e
    BY <1>1, <2>1 DEF Distance
  <2>3. CASE d >= Half
    <3>1. Signed(d) = d - 2 * Half
      BY <2>3 DEF Signed
    <3>2. Distance(m, n) = 2 * Half - d
      BY <1>0, <1>1, <2>2, <3>1
    <3> QED BY <1>0, <1>1, <1>2, <2>3, <3>2
  <2>4. CASE d < Half
    <3>1. Signed(d) = d
      BY <1>0, <1>1, <2>4 DEF Signed
    <3>2. Distance(m, n) = d
      BY <1>0, <1>1, <1>2, <2>2, <3>1
    <3> QED BY <1>0, <1>1, <1>2, <3>2
  <2> QED BY <1>0, <1>1, <2>3, <2>4
<1>3. CASE d < 0
  <2>1. Wrap(d) = d + 2 * Half
    <3>1. PICK w \in Nat : w = 2 * Half /\ w > 0 /\ d + w \in 0..(w - 1)
      BY <1>0, <1>1, <1>3
    <3>2. d % w = d + w
      BY <1>3, <3>1
    <3> QED BY <3>1, <3>2 DEF Wrap
  <2>2. Distance(m, n) = LET e == Signed(d + 2 * Half) IN IF e < 0 THEN -e ELSE e
    BY <1>1, <2>1 DEF Distance
  <2>3. CASE d + 2 * Half >= Half
    <3>1. Signed(d + 2 * Half) = d
      BY <1>0, <1>1, <2>3 DEF Signed
    <3>2. Distance(m, n) = -d
      BY <1>0, <1>1, <1>3, <2>2, <3>1
    <3> QED BY <1>0, <1>1, <1>3, <3>2
  <2>4. CASE d + 2 * Half < Half
    <3>1. Signed(d + 2 * Half) = d + 2 * Half
      BY <1>0, <1>1, <2>4 DEF Signed
    <3>2. Distance(m, n) = d + 2 * Half
      BY <1>0, <1>1, <1>3, <2>2, <3>1
    <3> QED BY <1>0, <1>1, <1>3, <2>4, <3>2
  <2> QED BY <1>0, <1>1, <2>3, <2>4
<1> QED BY <1>0, <1>1, <1>2, <1>3

(* What copyBB lets through is in the range of both buffers.               *)
LEMMA BufferCopyRight ==
  ASSUME NEW c \in BufferCopies, MayCopyBuffer(c)
  PROVE  BufferRangesRight(c)
<1> DEFINE dstEnd == c.dstOffset + c.size
           srcEnd == c.srcOffset + c.size
<1>0. Half \in Nat /\ Half > 0
  BY RecordingAssumption
<1>1. /\ c.dstOffset \in 0..(2 * Half - 1) /\ c.srcOffset \in 0..(2 * Half - 1)
      /\ c.size \in 0..(2 * Half - 1)
  BY DEF BufferCopies
<1>2. dstEnd \in Nat /\ srcEnd \in Nat
  BY <1>0, <1>1
<1> SUFFICES ASSUME Max({dstEnd, srcEnd}) < 2 * Half
             PROVE  /\ dstEnd <= Buffers[c.dst] /\ srcEnd <= Buffers[c.src]
                    /\ c.dst = c.src => dstEnd <= c.srcOffset \/ srcEnd <= c.dstOffset
  BY DEF BufferRangesRight
<1>3. dstEnd \in 0..(2 * Half - 1) /\ srcEnd \in 0..(2 * Half - 1)
  <2>1. PICK m \in Int : /\ m = Max({dstEnd, srcEnd}) /\ m >= dstEnd /\ m >= srcEnd
    <3> HIDE DEF dstEnd, srcEnd
    <3> QED BY <1>2, MaxOfTwo
  <2>2. m < 2 * Half
    BY <2>1
  <2> HIDE DEF dstEnd, srcEnd
  <2> QED BY <1>0, <1>2, <2>1, <2>2
<1>4. Wrap(dstEnd) = dstEnd /\ Wrap(srcEnd) = srcEnd
  <2> HIDE DEF dstEnd, srcEnd
  <2> QED BY <1>3, WrapSmall
<1>5. dstEnd <= Buffers[c.dst] /\ srcEnd <= Buffers[c.src]
  BY <1>4 DEF MayCopyBuffer
<1>6. ASSUME c.dst = c.src PROVE dstEnd <= c.srcOffset \/ srcEnd <= c.dstOffset
  <2>1. Distance(c.srcOffset, c.dstOffset) >= c.size
    BY <1>6 DEF MayCopyBuffer
  <2>2. PICK m, n, size \in 0..(2 * Half - 1) :
          m = c.srcOffset /\ n = c.dstOffset /\ size = c.size
    BY <1>1
  <2>3. PICK d \in Int :
          /\ d = Distance(m, n)
          /\ m >= n => d <= m - n
          /\ m < n => d <= n - m
    BY DistanceSmall
  <2>4. d >= size
    BY <2>1, <2>2, <2>3
  <2>5. m \in Int /\ n \in Int /\ size \in Int
    BY <1>0
  <2>6. n + size <= m \/ m + size <= n
    BY <2>3, <2>4, <2>5
  <2> QED BY <2>2, <2>6
<1> QED BY <1>5, <1>6

(* What copyII lets through is in the range of both levels.                *)
LEMMA ImageCopyRight ==
  ASSUME NEW c \in ImageCopies, MayCopyImage(c)
  PROVE  /\ ImageRangeRight(c, Images[c.dst], c.dstOffset, c.dstLayer, c.dstLevel)
         /\ ImageRangeRight(c, Images[c.src], c.srcOffset, c.srcLayer, c.srcLevel)
<1>1. /\ c.dstLevel \in 0..1 /\ c.srcLevel \in 0..1 /\ c.size \in 0..2
      /\ c.dstOffset \in 0..2 /\ c.srcOffset \in 0..2
      /\ c.dst \in DOMAIN Images /\ c.src \in DOMAIN Images
  BY DEF ImageCopies
<1>2. ASSUME NEW image \in DOMAIN Images, NEW level \in 0..1
      PROVE  /\ Images[image].size \div 2 ^ level \in Int
             /\ Max({1, Images[image].size \div 2 ^ level})
                  >= Images[image].size \div 2 ^ level
             /\ Max({1, Images[image].size \div 2 ^ level}) \in Int
  <2>1. PICK size \in Nat : size = Images[image].size
    BY RecordingAssumption
  <2>2. size \div 1 \in Int /\ size \div 2 \in Int
    OBVIOUS
  <2>3. 2 ^ 0 = 1 /\ 2 ^ 1 = 2
    OBVIOUS
  <2>4. size \div 2 ^ level \in Int
    <3>1. CASE level = 0
      BY <2>2, <2>3, <3>1
    <3>2. CASE level = 1
      BY <2>2, <2>3, <3>2
    <3> QED BY <3>1, <3>2
  <2>5. PICK e \in Int : e = size \div 2 ^ level
    BY <2>4
  <2>6. Max({1, e}) \in Int /\ Max({1, e}) >= e
    BY MaxOfTwo
  <2> QED BY <2>1, <2>5, <2>6
<1>3. ASSUME NEW image \in DOMAIN Images, NEW level \in 0..1, NEW offset \in 0..2,
             offset + c.size <= Images[image].size \div 2 ^ level
      PROVE  offset + c.size <= Max({1, Images[image].size \div 2 ^ level})
  <2>1. PICK s \in Int : s = offset + c.size
    BY <1>1
  <2>2. PICK e \in Int : e = Images[image].size \div 2 ^ level
    BY <1>2
  <2>3. Max({1, e}) \in Int /\ Max({1, e}) >= e
    BY MaxOfTwo
  <2>4. s <= e
    BY <1>3, <2>1, <2>2
  <2> QED BY <2>1, <2>2, <2>3, <2>4
<1>4. /\ c.dstOffset + c.size <= Images[c.dst].size \div 2 ^ c.dstLevel
      /\ c.srcOffset + c.size <= Images[c.src].size \div 2 ^ c.srcLevel
      /\ c.dstLevel < Images[c.dst].levels /\ c.srcLevel < Images[c.src].levels
      /\ c.dstLayer + c.layers <= Images[c.dst].layers
      /\ c.srcLayer + c.layers <= Images[c.src].layers
  BY DEF MayCopyImage
<1> QED BY <1>1, <1>3, <1>4 DEF ImageRangeRight

(* The copy that was recorded last was let through.                        *)
CopiesInv ==
  copied # None =>
    \/ copied \in BufferCopies /\ MayCopyBuffer(copied)
    \/ copied \in ImageCopies /\ MayCopyImage(copied)

(* The encoders keep all pending copies in range: a copy is checked when   *)
(* it is encoded, and what it is checked against never changes.            *)
LEMMA CopiesNext == CopiesInv /\ [Next]_vars => CopiesInv'
<1> SUFFICES ASSUME CopiesInv, [Next]_vars PROVE CopiesInv'
  OBVIOUS
<1>1. ASSUME NEW c, Copy(c),
             \/ c \in BufferCopies /\ MayCopyBuffer(c)
             \/ c \in ImageCopies /\ MayCopyImage(c)
      PROVE  CopiesInv'
  BY <1>1 DEF Copy, CopiesInv
<1>2. ASSUME copied' = None \/ UNCHANGED copied PROVE CopiesInv'
  BY <1>2 DEF CopiesInv
<1>3. CASE CopyBuffer
  BY <1>1, <1>3 DEF CopyBuffer
<1>4. CASE CopyImage
  BY <1>1, <1>4 DEF CopyImage
<1>5. ASSUME Command, ~CopyBuffer, ~CopyImage
      PROVE  copied' = None \/ UNCHANGED copied
  BY <1>5 DEF Command, SetDynamic, SetSecondViewport, SetTarget, SetTargetThrows,
     SetState, SetDcTable, Draw, DrawThrows, CopyThrows, Throw, Emptied, Recorded
<1>6. ASSUME Next, ~Command PROVE copied' = None \/ UNCHANGED copied
  BY <1>6 DEF Next, Create, Begin, EndEncoding, Reset, Enqueue, Executed, Throw,
     Emptied
<1>7. CASE UNCHANGED vars
  BY <1>2, <1>7 DEF vars
<1> QED BY <1>2, <1>3, <1>4, <1>5, <1>6, <1>7

(* A copy that is recorded reads and writes nothing outside of its buffers *)
(* or levels, and nothing that it writes within one buffer, for 64 bits as *)
(* for any other even number of values.                                    *)
THEOREM CopiesStayInRange == Spec => []CopiesInRange
<1>1. Init => CopiesInv
  BY DEF Init, CopiesInv
<1>2. CopiesInv => CopiesInRange
  <2> SUFFICES ASSUME CopiesInv, copied # None
               PROVE  IF copied.dst \in DOMAIN Buffers
                        THEN BufferRangesRight(copied)
                        ELSE LET c == copied IN
                          /\ ImageRangeRight(c, Images[c.dst], c.dstOffset,
                                             c.dstLayer, c.dstLevel)
                          /\ ImageRangeRight(c, Images[c.src], c.srcOffset,
                                             c.srcLayer, c.srcLevel)
    BY DEF CopiesInRange
  <2>1. CASE copied \in BufferCopies /\ MayCopyBuffer(copied)
    <3>1. copied.dst \in DOMAIN Buffers
      BY <2>1 DEF BufferCopies
    <3> QED BY <2>1, <3>1, BufferCopyRight
  <2>2. CASE copied \in ImageCopies /\ MayCopyImage(copied)
    <3>1. copied.dst \notin DOMAIN Buffers
      BY <2>2, RecordingAssumption DEF ImageCopies
    <3> QED BY <2>2, <3>1, ImageCopyRight
  <2> QED BY <2>1, <2>2 DEF CopiesInv
<1> QED BY <1>1, <1>2, CopiesNext, PTL DEF Spec

-----------------------------------------------------------------------------
(* Passes that are begun.                                                  *)

(* What is at the places of a list that has one more element, or not.      *)
LEMMA OneMore ==
  ASSUME NEW n \in Nat, NEW f, f = [i \in 1..n |-> f[i]], NEW e, NEW more \in {<<>>, <<e>>}
  PROVE  /\ \A i \in 1..n : (f \o more)[i] = f[i]
         /\ more = <<e>> => (f \o more)[n + 1] = e
<1> DEFINE S == {f[i] : i \in 1..n} \cup {e}
<1>1. f \in [1..n -> S]
  OBVIOUS
<1>2. f \in Seq(S) /\ Len(f) = n
  <2> HIDE DEF S
  <2> QED BY <1>1
<1>3. more \in Seq(S) /\ (more = <<e>> => Len(more) = 1 /\ more[1] = e)
  <2>1. e \in S
    OBVIOUS
  <2> HIDE DEF S
  <2>2. <<>> \in Seq(S)
    OBVIOUS
  <2>3. <<e>> \in Seq(S) /\ Len(<<e>>) = 1 /\ <<e>>[1] = e
    BY <2>1
  <2> QED BY <2>2, <2>3
<1>4. /\ Len(f \o more) = Len(f) + Len(more)
      /\ \A i \in 1..(Len(f) + Len(more)) :
           (f \o more)[i] = IF i <= Len(f) THEN f[i] ELSE more[i - Len(f)]
  <2> HIDE DEF S
  <2> QED BY <1>2, <1>3, ConcatProperties
<1>5. Len(more) \in Nat
  BY <1>3, LenProperties
<1>6. ASSUME NEW i \in 1..n PROVE (f \o more)[i] = f[i]
  BY <1>2, <1>4, <1>5
<1>7. ASSUME more = <<e>> PROVE (f \o more)[n + 1] = e
  BY <1>2, <1>3, <1>4, <1>7
<1> QED BY <1>6, <1>7

(* A pass of op does what op says.                                         *)
LEMMA PassOfRight ==
  ASSUME asked.op \in TargetOps, gpu.pass = PassOf(asked.op)
  PROVE  PassRight
<1> DEFINE op == asked.op
           ops == OpsOf(op)
           colors == [i \in 1..NumColors |-> Color(ops.colors[i])]
           depth == DepthStencil(ops.depth, ops.stencil)
           values == [i \in 1..NumColors |->
                        IF op.colorOps[i] = "clear"
                          THEN op.colorValues[Clears(op, i)] ELSE None]
           value == <<op.depthValue, op.stencilValue>>
           hasValue == HasDepth /\ "clear" \in {op.depthOp, op.stencilOp}
<1>1. /\ gpu.pass.attachments = colors \o IF HasDepth THEN <<depth>> ELSE <<>>
      /\ gpu.pass.clears = values \o IF hasValue THEN <<value>> ELSE <<>>
  <2>1. gpu.pass.attachments = Attachments(ops) /\ gpu.pass.clears = ClearValues(op)
    BY DEF PassOf
  <2>2. Attachments(ops) = colors \o IF HasDepth THEN <<depth>> ELSE <<>>
    BY DEF Attachments
  <2>3. ClearValues(op) = values \o IF hasValue THEN <<value>> ELSE <<>>
    BY DEF ClearValues
  <2> QED BY <2>1, <2>2, <2>3
<1>2. NumColors \in Nat /\ HasDepth \in BOOLEAN
  BY PassAssumption
<1>3. /\ \A i \in 1..NumColors : gpu.pass.attachments[i] = colors[i]
      /\ HasDepth => gpu.pass.attachments[NumColors + 1] = depth
  <2>1. PICK more \in {<<>>, <<depth>>} :
          /\ more = IF HasDepth THEN <<depth>> ELSE <<>>
          /\ HasDepth => more = <<depth>>
    BY <1>2
  <2>2. colors = [i \in 1..NumColors |-> colors[i]]
    OBVIOUS
  <2>3. gpu.pass.attachments = colors \o more
    BY <1>1, <2>1
  <2> HIDE DEF colors, depth
  <2> QED BY <1>2, <2>1, <2>2, <2>3, OneMore
<1>4. /\ \A i \in 1..NumColors : gpu.pass.clears[i] = values[i]
      /\ hasValue => gpu.pass.clears[NumColors + 1] = value
  <2>1. PICK more \in {<<>>, <<value>>} :
          /\ more = IF hasValue THEN <<value>> ELSE <<>>
          /\ hasValue => more = <<value>>
    BY <1>2
  <2>2. values = [i \in 1..NumColors |-> values[i]]
    OBVIOUS
  <2>3. gpu.pass.clears = values \o more
    BY <1>1, <2>1
  <2> HIDE DEF values, value, hasValue
  <2> QED BY <1>2, <2>1, <2>2, <2>3, OneMore
<1>5. ASSUME NEW i \in 1..NumColors
      PROVE  /\ gpu.pass.attachments[i].load = op.colorOps[i]
             /\ op.colorOps[i] = "load" => gpu.pass.attachments[i].initial = "general"
             /\ op.colorOps[i] = "clear" =>
                  gpu.pass.clears[i] = op.colorValues[Clears(op, i)]
  <2>1. gpu.pass.attachments[i] = Color(op.colorOps[i])
    BY <1>3 DEF OpsOf
  <2>2. op.colorOps[i] = "clear" => gpu.pass.clears[i] = op.colorValues[Clears(op, i)]
    BY <1>4
  <2> QED BY <2>1, <2>2 DEF Color
<1>6. ASSUME HasDepth
      PROVE  LET d == gpu.pass.attachments[NumColors + 1] IN
             /\ d.load = op.depthOp /\ d.stencilLoad = op.stencilOp
             /\ "load" \in {op.depthOp, op.stencilOp} => d.initial = "general"
             /\ "clear" \in {op.depthOp, op.stencilOp} =>
                  gpu.pass.clears[NumColors + 1] = value
  <2>1. gpu.pass.attachments[NumColors + 1] = DepthStencil(op.depthOp, op.stencilOp)
    BY <1>3, <1>6 DEF OpsOf
  <2>2. "clear" \in {op.depthOp, op.stencilOp} =>
          gpu.pass.clears[NumColors + 1] = value
    BY <1>4, <1>6
  <2> QED BY <2>1, <2>2 DEF DepthStencil
<1> QED BY <1>5, <1>6 DEF PassRight

(* The render pass that is given back is the one for the operations.       *)
LEMMA PassFound ==
  ASSUME PassesInv, NEW ops \in AllOps, NEW i \in Slots, RenderPass(ops, i)
  PROVE  renderPasses'[i].attachments = Attachments(ops)
<1>1. CASE Matching(ops) = {}
  <2>1. renderPasses'[i] = Made(ops)
    BY <1>1 DEF RenderPass, PassesInv
  <2> QED BY <2>1 DEF Made
<1>2. CASE Matching(ops) # {}
  <2>1. renderPasses' = renderPasses /\ i = Min(Matching(ops))
    BY <1>2 DEF RenderPass
  <2>2. i \in Matching(ops)
    <3>1. Matching(ops) \in SUBSET Nat
      BY DEF Matching, Slots
    <3>2. PICK n \in Matching(ops) : \A m \in Matching(ops) : n <= m
      BY <1>2, <3>1, LeastNumber
    <3> QED BY <2>1, <3>2 DEF Min
  <2>3. EqualOp(renderPasses[i], ops) /\ renderPasses[i] # None
    BY <2>2 DEF Matching, Full, Slots
  <2>4. PICK o \in AllOps : renderPasses[i] = Made(o)
    BY <2>3 DEF PassesInv
  <2>5. o.depth = ops.depth /\ o.stencil = ops.stencil
    BY <2>3, <2>4 DEF EqualOp, Made
  <2>6. \A k \in 1..NumColors : o.colors[k] = ops.colors[k]
    <3>1. \A k \in DOMAIN o.colors : o.colors[k] = ops.colors[k]
      BY <2>3, <2>4 DEF EqualOp, Made
    <3>2. DOMAIN o.colors = 1..NumColors
      <4>1. CASE o = DefaultOps
        BY <4>1 DEF DefaultOps
      <4>2. ASSUME NEW op \in TargetOps, o = OpsOf(op)
            PROVE  DOMAIN o.colors = 1..NumColors
        <5>1. o.colors = op.colorOps
          BY <4>2 DEF OpsOf
        <5> QED BY <5>1, PassAssumption
      <4> QED BY <4>1, <4>2 DEF AllOps
    <3> QED BY <3>1, <3>2
  <2>7. Attachments(o) = Attachments(ops)
    BY <2>5, <2>6 DEF Attachments
  <2>8. renderPasses[i].attachments = Attachments(o)
    BY <2>4 DEF Made
  <2> QED BY <2>1, <2>7, <2>8
<1> QED BY <1>1, <1>2

-----------------------------------------------------------------------------
(* Sets that are bound.                                                    *)

(* The smaller of two numbers is one of them.                              *)
LEMMA MinOfTwo ==
  ASSUME NEW a \in Int, NEW b \in Int
  PROVE  Min({a, b}) = IF a <= b THEN a ELSE b
<1>1. \E x \in {a, b} : \A y \in {a, b} : x <= y
  OBVIOUS
<1>2. Min({a, b}) \in {a, b} /\ \A y \in {a, b} : Min({a, b}) <= y
  BY <1>1 DEF Min
<1> QED BY <1>2

(* What a list starts with.                                                *)
LEMMA StartRight ==
  ASSUME NEW S, NEW t \in Seq(S), NEW l \in Nat, l = Len(t), NEW q \in 0..l
  PROVE  /\ SubSeq(t, 1, q) \in Seq(S)
         /\ Len(SubSeq(t, 1, q)) = q
         /\ \A k \in 1..q : SubSeq(t, 1, q)[k] = t[k]
<1>1. q \in Int /\ 1 \in Int /\ \A k \in 1..q : t[k] \in S
  OBVIOUS
<1>2. SubSeq(t, 1, q) \in Seq(S)
  BY <1>1, SubSeqProperties
<1>3. Len(SubSeq(t, 1, q)) = IF 1 <= q THEN q - 1 + 1 ELSE 0
  BY <1>1, SubSeqProperties
<1>4. \A k \in 1..(q - 1 + 1) : SubSeq(t, 1, q)[k] = t[1 + k - 1]
  BY <1>1, SubSeqProperties
<1>5. \A k \in 1..q : k \in 1..(q - 1 + 1) /\ 1 + k - 1 = k
  OBVIOUS
<1>6. \A k \in 1..q : SubSeq(t, 1, q)[k] = t[k]
  BY <1>4, <1>5
<1> QED BY <1>2, <1>3, <1>6

(* The tables of what starts with the same tables are the same.            *)
LEMMA PrefixRight ==
  ASSUME NEW S, NEW t \in Seq(S), NEW i \in Nat
  PROVE  /\ Prefix(t, i) \in Seq(S)
         /\ \A n \in 0..i : Prefix(Prefix(t, i), n) = Prefix(t, n)
<1>1. PICK l \in Nat : l = Len(t)
  OBVIOUS
<1>2. \A k \in 1..l : t[k] \in S
  BY <1>1
<1>3. PICK p \in 0..l : p = Min({i, l}) /\ p = IF i <= l THEN i ELSE l
  BY <1>1, MinOfTwo
<1>4. PICK u : u = SubSeq(t, 1, p)
  OBVIOUS
<1>5. u \in Seq(S) /\ Len(u) = p /\ \A k \in 1..p : u[k] = t[k]
  BY <1>1, <1>4, StartRight
<1>6. Prefix(t, i) = u
  BY <1>1, <1>3, <1>4 DEF Prefix
<1>7. ASSUME NEW n \in 0..i PROVE Prefix(u, n) = Prefix(t, n)
  <2>1. PICK q \in 0..p : q = Min({n, p}) /\ q = IF n <= p THEN n ELSE p
    BY <1>3, MinOfTwo
  <2>2. Min({n, l}) = q
    BY <1>3, <2>1, MinOfTwo
  <2>3. PICK v, w : v = SubSeq(u, 1, q) /\ w = SubSeq(t, 1, q)
    OBVIOUS
  <2>4. v \in Seq(S) /\ Len(v) = q /\ \A k \in 1..q : v[k] = t[k]
    <3>0. p \in Nat /\ q \in Nat /\ q <= p
      BY <1>1, <1>3, <2>1
    <3>1. p \in Nat /\ \A k \in 1..q : k \in 1..p
      BY <3>0
    <3>2. v \in Seq(S) /\ Len(v) = q /\ \A k \in 1..q : v[k] = u[k]
      BY <1>5, <2>1, <2>3, <3>1, StartRight
    <3> QED BY <1>5, <3>1, <3>2
  <2>5. w \in Seq(S) /\ Len(w) = q /\ \A k \in 1..q : w[k] = t[k]
    <3>1. q \in 0..l
      BY <1>1, <1>3, <2>1
    <3> QED BY <1>1, <2>3, <3>1, StartRight
  <2>6. v = w
    BY <2>1, <2>4, <2>5, SeqEqual
  <2>7. Prefix(u, n) = v
    BY <1>5, <2>1, <2>3 DEF Prefix
  <2>8. Prefix(t, n) = w
    BY <1>1, <2>2, <2>3 DEF Prefix
  <2> QED BY <2>6, <2>7, <2>8
<1> QED BY <1>5, <1>6, <1>7

(* A state has a sequence of tables, of which any prefix is one of its     *)
(* prefixes.                                                               *)
LEMMA TablesTyped ==
  ASSUME NEW s \in States \cup {None}, NEW i \in Nat
  PROVE  /\ Tables(s) \in Seq(DOMAIN Allocations) /\ Len(Tables(s)) <= MaxTables
         /\ UpTo(s, i) \in Seq(DOMAIN Allocations)
         /\ \A n \in 0..i : Prefix(UpTo(s, i), n) = UpTo(s, n)
<1>1. Tables(s) \in Seq(DOMAIN Allocations) /\ Len(Tables(s)) <= MaxTables
  <2>1. CASE s = None
    <3>1. Len(<<>>) = 0 /\ <<>> \in Seq(DOMAIN Allocations) /\ MaxTables \in Nat
      BY RecordingAssumption
    <3> QED BY <2>1, <3>1 DEF Tables
  <2>2. CASE s # None
    BY <2>2, RecordingAssumption DEF Tables
  <2> QED BY <2>1, <2>2
<1>2. UpTo(s, i) \in Seq(DOMAIN Allocations)
  BY <1>1, PrefixRight DEF UpTo
<1>3. \A n \in 0..i : Prefix(UpTo(s, i), n) = UpTo(s, n)
  <2>1. PICK t \in Seq(DOMAIN Allocations) : t = Tables(s)
    BY <1>1
  <2>2. \A n \in 0..i : Prefix(Prefix(t, i), n) = Prefix(t, n)
    BY PrefixRight
  <2> QED BY <2>1, <2>2 DEF UpTo
<1> QED BY <1>1, <1>2, <1>3

(* The set that a draw with state s is to find at the i-th place, if the   *)
(* allocation j was set there.                                             *)
SetFor(s, i, j) == [under |-> UpTo(s, i), allocation |-> j]
Bindings == [1..MaxTables -> Sets \cup {None}]

(* Binding one set leaves alone those that are bound for the same state.   *)
LEMMA BindKeeps ==
  ASSUME NEW sets \in Bindings, NEW s \in States \cup {None},
         NEW i \in 1..MaxTables, NEW j \in Nat
  PROVE  /\ Bind(sets, s, i, j) \in Bindings
         /\ Bind(sets, s, i, j)[i] = SetFor(s, i, j)
         /\ \A k \in 1..MaxTables, a \in Nat :
              k # i /\ sets[k] = SetFor(s, k, a)
                => Bind(sets, s, i, j)[k] = SetFor(s, k, a)
<1>0. MaxTables \in Nat
  BY RecordingAssumption
<1>1. \A k \in 1..MaxTables, a \in Nat : SetFor(s, k, a) \in Sets
  BY <1>0, TablesTyped DEF SetFor, Sets
<1>2. PICK new : new = Bind(sets, s, i, j)
  OBVIOUS
<1>3. new \in Bindings
  <2>1. \A k \in 1..MaxTables :
          (IF k = i THEN [under |-> UpTo(s, i), allocation |-> j]
           ELSE IF /\ sets[k] # None
                   /\ LET n == Min({i, k}) IN Prefix(sets[k].under, n) = UpTo(s, n)
             THEN sets[k] ELSE None) \in Sets \cup {None}
    BY <1>1 DEF SetFor, Bindings
  <2> QED BY <1>2, <2>1 DEF Bind, Bindings
<1>4. new[i] = SetFor(s, i, j)
  BY <1>2 DEF Bind, SetFor
<1>5. ASSUME NEW k \in 1..MaxTables, NEW a \in Nat,
             k # i, sets[k] = SetFor(s, k, a)
      PROVE  new[k] = sets[k]
  <2>1. sets[k] # None
    BY <1>1, <1>5, NoneAssumption
  <2>2. PICK n \in 0..k : n = Min({i, k})
    BY <1>0, MinOfTwo
  <2>3. Prefix(sets[k].under, n) = UpTo(s, n)
    <3>1. sets[k].under = UpTo(s, k) /\ k \in Nat
      BY <1>0, <1>5 DEF SetFor
    <3> QED BY <3>1, TablesTyped
  <2> QED BY <1>2, <1>5, <2>1, <2>2, <2>3 DEF Bind
<1> QED BY <1>2, <1>3, <1>4, <1>5

(* The sets after each of the tables ts was bound.                         *)
AreBound(g, sets, s, ts, n) ==
  g = [i \in 0..n |->
         IF i = 0 THEN sets ELSE Bind(g[i - 1], s, ts[i][1], ts[i][2])]

(* There are such.                                                         *)
LEMMA BoundExist ==
  ASSUME NEW sets, NEW s, NEW ts, NEW n \in Nat
  PROVE  \E g : AreBound(g, sets, s, ts, n)
<1> USE DEF AreBound
<1> DEFINE To(k) == \E g : AreBound(g, sets, s, ts, k)
           Reached == {k \in 0..n : To(k)}
<1>1. 0 \in Reached
  <2>1. PICK g : g = [i \in 0..0 |-> sets]
    OBVIOUS
  <2>2. g = [i \in 0..0 |->
               IF i = 0 THEN sets ELSE Bind(g[i - 1], s, ts[i][1], ts[i][2])]
    BY <2>1
  <2> QED BY <2>2
<1>2. ASSUME NEW k \in 0..(n - 1), k \in Reached PROVE k + 1 \in Reached
  <2>1. PICK g : g = [i \in 0..k |->
                        IF i = 0 THEN sets
                        ELSE Bind(g[i - 1], s, ts[i][1], ts[i][2])]
    BY <1>2
  <2>2. PICK h : h = [i \in 0..(k + 1) |->
                        IF i = k + 1 THEN Bind(g[k], s, ts[k + 1][1], ts[k + 1][2])
                        ELSE g[i]]
    OBVIOUS
  <2>3. \A i \in 0..(k + 1) :
          h[i] = IF i = 0 THEN sets ELSE Bind(h[i - 1], s, ts[i][1], ts[i][2])
    <3> TAKE i \in 0..(k + 1)
    <3>1. CASE i = 0
      BY <2>1, <2>2, <3>1
    <3>2. CASE i = k + 1
      <4>1. h[k + 1] = Bind(g[k], s, ts[k + 1][1], ts[k + 1][2]) /\ h[k] = g[k]
        BY <2>2
      <4> QED BY <3>2, <4>1
    <3>3. CASE i # 0 /\ i # k + 1
      <4>1. i \in 0..k /\ i - 1 \in 0..(k + 1) /\ i - 1 # k + 1
        BY <3>3
      <4>2. h[i] = g[i] /\ h[i - 1] = g[i - 1]
        BY <2>2, <3>3, <4>1
      <4>3. g[i] = Bind(g[i - 1], s, ts[i][1], ts[i][2])
        BY <2>1, <3>3, <4>1
      <4> QED BY <3>3, <4>2, <4>3
    <3> QED BY <3>1, <3>2, <3>3
  <2>4. h = [i \in 0..(k + 1) |->
               IF i = 0 THEN sets ELSE Bind(h[i - 1], s, ts[i][1], ts[i][2])]
    BY <2>2, <2>3
  <2> QED BY <2>4
<1>3. 0..n \subseteq Reached
  <2> HIDE DEF Reached
  <2> QED BY <1>1, <1>2, CountUp
<1> QED BY <1>3

(* The allocation that the i-th set is to be of once the first n of the    *)
(* tables ts are bound: the last of theirs, or else the one that is bound. *)
NoneFor(ts, n, i) == \A m \in 1..n : ts[m][1] # i
LastFor(ts, n, i, a) ==
  \E m \in 1..n : ts[m] = <<i, a>> /\ \A l \in (m + 1)..n : ts[l][1] # i
Promised(sets, s, ts, n, i, a) ==
  \/ LastFor(ts, n, i, a)
  \/ NoneFor(ts, n, i) /\ sets[i] = SetFor(s, i, a)

TableCalls == Seq((1..MaxTables) \X Nat)

(* bindSets: each set is of the table that was set last.                   *)
LEMMA AllBoundRight ==
  ASSUME NEW sets \in Bindings, NEW s \in States \cup {None},
         NEW ts \in TableCalls, NEW n \in Nat, n = Len(ts)
  PROVE  /\ AllBound(sets, s, ts) \in Bindings
         /\ \A i \in 1..MaxTables, a \in Nat :
              Promised(sets, s, ts, n, i, a)
                => AllBound(sets, s, ts)[i] = SetFor(s, i, a)
<1> DEFINE bound == CHOOSE g : AreBound(g, sets, s, ts, n)
<1>1. AreBound(bound, sets, s, ts, n)
  BY BoundExist
<1>2. AllBound(sets, s, ts) = bound[n]
  BY DEF AllBound, AreBound
<1> HIDE DEF bound
<1>3. \A k \in 0..n : bound[k] = IF k = 0 THEN sets
                        ELSE Bind(bound[k - 1], s, ts[k][1], ts[k][2])
  BY <1>1 DEF AreBound
<1> DEFINE Right(k) == /\ bound[k] \in Bindings
                       /\ \A i \in 1..MaxTables, a \in Nat :
                            Promised(sets, s, ts, k, i, a)
                              => bound[k][i] = SetFor(s, i, a)
           Reached == {k \in 0..n : Right(k)}
<1>4. 0 \in Reached
  <2>1. 0 \in 0..n /\ bound[0] = sets
    BY <1>3
  <2>2. \A i \in 1..MaxTables, a \in Nat :
          Promised(sets, s, ts, 0, i, a) => sets[i] = SetFor(s, i, a)
    BY DEF Promised, LastFor
  <2> QED BY <2>1, <2>2
<1>5. ASSUME NEW k \in 0..(n - 1), k \in Reached PROVE k + 1 \in Reached
  <2>1. k + 1 \in 1..n /\ k + 1 \in 0..n /\ k + 1 # 0 /\ (k + 1) - 1 = k
    OBVIOUS
  <2>2. PICK b, j : b = ts[k + 1][1] /\ j = ts[k + 1][2]
    OBVIOUS
  <2>3. b \in 1..MaxTables /\ j \in Nat /\ ts[k + 1] = <<b, j>>
    <3>1. ts[k + 1] \in (1..MaxTables) \X Nat
      BY <2>1 DEF TableCalls
    <3> QED BY <2>2, <3>1
  <2>4. bound[k + 1] = Bind(bound[k], s, b, j)
    BY <1>3, <2>1, <2>2
  <2>5. bound[k] \in Bindings
    BY <1>5
  <2>6. /\ bound[k + 1] \in Bindings
        /\ bound[k + 1][b] = SetFor(s, b, j)
        /\ \A i \in 1..MaxTables, a \in Nat :
             i # b /\ bound[k][i] = SetFor(s, i, a)
               => bound[k + 1][i] = SetFor(s, i, a)
    <3>1. PICK old : old = bound[k]
      OBVIOUS
    <3>2. old \in Bindings /\ bound[k + 1] = Bind(old, s, b, j)
      BY <2>4, <2>5, <3>1
    <3>3. b \in 1..MaxTables /\ j \in Nat
      BY <2>3
    <3>4. Bind(old, s, b, j) \in Bindings
      BY <3>2, <3>3, BindKeeps
    <3>5. Bind(old, s, b, j)[b] = SetFor(s, b, j)
      BY <3>2, <3>3, BindKeeps
    <3>6. \A i \in 1..MaxTables, a \in Nat :
               i # b /\ old[i] = SetFor(s, i, a)
                 => Bind(old, s, b, j)[i] = SetFor(s, i, a)
      BY <3>2, <3>3, BindKeeps
    <3> QED BY <3>1, <3>2, <3>4, <3>5, <3>6, Zenon
  <2>7. ASSUME NEW i \in 1..MaxTables, NEW a \in Nat,
               Promised(sets, s, ts, k + 1, i, a)
        PROVE  bound[k + 1][i] = SetFor(s, i, a)
    <3>1. CASE i = b
      <4>1. ~NoneFor(ts, k + 1, i)
        BY <2>1, <2>2, <3>1 DEF NoneFor
      <4>2. PICK m \in 1..(k + 1) :
              ts[m] = <<i, a>> /\ \A l \in (m + 1)..(k + 1) : ts[l][1] # i
        BY <2>7, <4>1 DEF Promised, LastFor
      <4>3. m = k + 1
        BY <2>2, <3>1, <4>2
      <4>4. a = j
        BY <2>2, <4>2, <4>3
      <4> QED BY <2>6, <3>1, <4>4
    <3>2. CASE i # b
      <4>1. Promised(sets, s, ts, k, i, a)
        <5>1. CASE LastFor(ts, k + 1, i, a)
          <6>1. PICK m \in 1..(k + 1) :
                  ts[m] = <<i, a>> /\ \A l \in (m + 1)..(k + 1) : ts[l][1] # i
            BY <5>1 DEF LastFor
          <6>2. m # k + 1
            BY <2>2, <3>2, <6>1
          <6>3. m \in 1..k /\ \A l \in (m + 1)..k : ts[l][1] # i
            BY <6>1, <6>2
          <6> QED BY <6>1, <6>3 DEF Promised, LastFor
        <5>2. CASE NoneFor(ts, k + 1, i) /\ sets[i] = SetFor(s, i, a)
          BY <5>2 DEF Promised, NoneFor
        <5> QED BY <2>7, <5>1, <5>2 DEF Promised
      <4>2. bound[k][i] = SetFor(s, i, a)
        BY <1>5, <4>1
      <4> QED BY <2>6, <3>2, <4>2
    <3> QED BY <3>1, <3>2
  <2> QED BY <2>1, <2>6, <2>7
<1>6. 0..n \subseteq Reached
  <2> HIDE DEF Reached
  <2> QED BY <1>4, <1>5, CountUp
<1>7. n \in Reached
  BY <1>6
<1> QED BY <1>2, <1>7

-----------------------------------------------------------------------------
(* Encodings.                                                              *)

EncodingTyped ==
  /\ enc \in Encodings \cup {None}
  /\ enc # None => enc.tables \in TableCalls
  /\ states \subseteq States
  /\ gpu \in [pass : {PassOf(op) : op \in TargetOps} \cup {None},
              pipeline : [Points -> States \cup {None}],
              sets : [Points -> Bindings]]
  /\ asked \in [op : TargetOps \cup {None}, state : States \cup {None},
                tables : [1..MaxTables -> Nat \cup {None}],
                stale : SUBSET (1..MaxTables)]

(* Between encodings no pass is open and nothing is asked for.             *)
Idle == enc = None => gpu.pass = None /\ drew = None /\ asked = NothingAsked

(* The pass that is open is the one that was asked for.                    *)
PassBegun ==
  gpu.pass # None => asked.op \in TargetOps /\ gpu.pass = PassOf(asked.op)

(* What encode() knows is so.                                              *)
StateFollows ==
  enc # None =>
    /\ enc.state = asked.state
    /\ enc.kind \in Points /\ asked.state # None =>
         gpu.pipeline[enc.kind] = asked.state
    /\ "target" \in enc.status => gpu.pass # None
    /\ "state" \in enc.status => asked.state # None

(* The table that was set last is pending or bound.                        *)
TablesFollow ==
  enc # None /\ enc.kind \in Points =>
    \A i \in (1..MaxTables) \ asked.stale : asked.tables[i] # None =>
      \/ LastFor(enc.tables, Len(enc.tables), i, asked.tables[i])
      \/ /\ NoneFor(enc.tables, Len(enc.tables), i)
         /\ asked.state # None
         /\ gpu.sets[enc.kind][i] = SetFor(asked.state, i, asked.tables[i])

(* After a draw or dispatch nothing is pending.                            *)
NothingPending ==
  drew # None =>
    /\ enc # None /\ enc.kind \in Points /\ drew = enc.kind
    /\ drew = "graphics" => gpu.pass # None
    /\ asked.state # None /\ enc.tables = <<>>

EncodingInv ==
  /\ EncodingTyped /\ Idle /\ PassBegun /\ StateFollows /\ TablesFollow
  /\ NothingPending

(* Nothing of an encoding is changed.                                      *)
LEMMA EncodingSame ==
  ASSUME EncodingInv, UNCHANGED <<enc, gpu, asked, drew>>, states' \subseteq States
  PROVE  EncodingInv'
<1>1. EncodingTyped' /\ Idle' /\ PassBegun'
  BY DEF EncodingInv, EncodingTyped, Idle, PassBegun
<1>2. StateFollows'
  BY DEF EncodingInv, StateFollows
<1>3. TablesFollow'
  BY DEF EncodingInv, TablesFollow
<1>4. NothingPending'
  BY DEF EncodingInv, NothingPending
<1> QED BY <1>1, <1>2, <1>3, <1>4 DEF EncodingInv

(* Nothing is set up or asked for.                                         *)
LEMMA NothingTyped ==
  /\ NoGpu \in [pass : {PassOf(op) : op \in TargetOps} \cup {None},
                pipeline : [Points -> States \cup {None}],
                sets : [Points -> Bindings]]
  /\ NothingAsked \in [op : TargetOps \cup {None}, state : States \cup {None},
                       tables : [1..MaxTables -> Nat \cup {None}],
                       stale : SUBSET (1..MaxTables)]
<1>1. [p \in Points |-> [i \in 1..MaxTables |-> None]] \in [Points -> Bindings]
  BY DEF Bindings
<1>2. [p \in Points |-> None] \in [Points -> States \cup {None}]
  OBVIOUS
<1>3. [i \in 1..MaxTables |-> None] \in [1..MaxTables -> Nat \cup {None}]
  OBVIOUS
<1> QED BY <1>1, <1>2, <1>3 DEF NoGpu, NothingAsked

(* The invariant of the encoding holds when nothing was asked for.         *)
LEMMA EncodingEmpty ==
  ASSUME enc = None, gpu = NoGpu, asked = NothingAsked, drew = None,
         states \subseteq States
  PROVE  EncodingInv
<1>1. gpu.pass = None
  BY DEF NoGpu
<1>2. EncodingTyped
  BY NothingTyped DEF EncodingTyped
<1> QED BY <1>1, <1>2 DEF EncodingInv, Idle, PassBegun, StateFollows, TablesFollow,
        NothingPending

(* It holds again when all that was encoded is dropped or begun anew.      *)
LEMMA EncodingEmptied ==
  ASSUME EncodingInv, Emptied, UNCHANGED states
  PROVE  EncodingInv'
<1>1. states' \subseteq States
  BY DEF EncodingInv, EncodingTyped
<1>2. enc' = None /\ gpu' = NoGpu /\ asked' = NothingAsked /\ drew' = None
  BY DEF Emptied
<1>3. gpu'.pass = None
  BY <1>2 DEF NoGpu
<1>4. EncodingTyped'
  BY <1>1, <1>2, NothingTyped DEF EncodingTyped
<1> QED BY <1>2, <1>3, <1>4 DEF EncodingInv, Idle, PassBegun, StateFollows,
        TablesFollow, NothingPending

(* An encoding begins with nothing set.                                    *)
LEMMA EncodingBegins ==
  ASSUME EncodingInv, NEW kind \in Points \cup {"transfer"}, Begin(kind)
  PROVE  EncodingInv'
<1>1. /\ enc = None /\ asked' = NothingAsked /\ drew' = None
      /\ gpu' = gpu /\ states' = states
      /\ enc' = [kind |-> kind, status |-> {}, target |-> None, state |-> None,
                 tables |-> <<>>]
  BY DEF Begin
<1>2. <<>> \in Seq(Nat \X Nat) /\ <<>> \in TableCalls
  BY DEF TableCalls
<1>3. enc' \in Encodings /\ enc'.tables \in TableCalls
  BY <1>1, <1>2 DEF Encodings
<1>4. gpu'.pass = None
  BY <1>1 DEF EncodingInv, Idle
<1>5. EncodingTyped'
  BY <1>1, <1>3, NothingTyped DEF EncodingInv, EncodingTyped
<1>6. Idle' /\ PassBegun'
  BY <1>1, <1>3, <1>4, NoneAssumption DEF Idle, PassBegun
<1>7. StateFollows' /\ NothingPending'
  BY <1>1 DEF StateFollows, NothingPending, NothingAsked
<1>8. TablesFollow'
  <2>1. \A i \in 1..MaxTables : asked'.tables[i] = None
    BY <1>1 DEF NothingAsked
  <2> QED BY <2>1 DEF TablesFollow
<1> QED BY <1>5, <1>6, <1>7, <1>8 DEF EncodingInv

(* Dynamic state is all that is set.                                       *)
LEMMA EncodingDynamic ==
  ASSUME EncodingInv, NEW what \in Dynamic, SetDynamic(what)
  PROVE  EncodingInv'
<1>1. /\ enc # None /\ enc' = [enc EXCEPT !.status = @ \cup {what}]
      /\ gpu' = gpu /\ asked' = asked /\ states' = states /\ drew' = None
  BY DEF SetDynamic, In, Recorded, Encoding
<1>2. enc \in Encodings /\ enc.tables \in TableCalls
  BY <1>1 DEF EncodingInv, EncodingTyped
<1>3. /\ enc' \in Encodings
      /\ enc'.kind = enc.kind /\ enc'.state = enc.state /\ enc'.tables = enc.tables
      /\ enc'.status = enc.status \cup {what}
  <2> DEFINE U == SUBSET Statuses
             Q == Seq(Nat \X Nat)
             E == [kind : Points \cup {"transfer"}, status : U,
                   target : TargetOps \cup {None}, state : States \cup {None},
                   tables : Q]
  <2>0. what \in Statuses
    BY DEF Statuses
  <2>5. enc.status \in SUBSET Statuses
    BY <1>2 DEF Encodings
  <2>6. enc.status \cup {what} \in U
    BY <2>0, <2>5
  <2>1. PICK status \in U : status = enc.status \cup {what}
    BY <2>6
  <2>2. enc \in E
    BY <1>2 DEF Encodings
  <2> HIDE DEF U, Q
  <2>3. enc' = [enc EXCEPT !.status = status]
    BY <1>1, <2>1
  <2>4. /\ enc' \in E /\ enc'.status = status
        /\ enc'.kind = enc.kind /\ enc'.state = enc.state /\ enc'.tables = enc.tables
    BY <2>2, <2>3
  <2> QED BY <2>1, <2>4 DEF Encodings, U, Q
<1>4. what # "target" /\ what # "state"
  BY DEF Dynamic
<1>5. EncodingTyped'
  BY <1>1, <1>2, <1>3 DEF EncodingInv, EncodingTyped
<1>6. Idle' /\ PassBegun' /\ NothingPending'
  BY <1>1, <1>3, NoneAssumption DEF EncodingInv, Idle, PassBegun, NothingPending
<1>7. StateFollows'
  BY <1>1, <1>3, <1>4 DEF EncodingInv, StateFollows
<1>8. TablesFollow'
  BY <1>1, <1>3 DEF EncodingInv, TablesFollow
<1> QED BY <1>5, <1>6, <1>7, <1>8 DEF EncodingInv

(* setTarget opens the pass that it is given.                              *)
LEMMA EncodingTarget ==
  ASSUME PassesInv, EncodingInv, NEW op \in TargetOps, SetTarget(op)
  PROVE  EncodingInv'
<1>1. /\ enc # None
      /\ enc' = [enc EXCEPT !.target = op, !.status = @ \cup {"target"}]
      /\ asked' = [asked EXCEPT !.op = op] /\ states' = states /\ drew' = None
  BY DEF SetTarget, In, Recorded, Encoding
<1>2. PICK i \in Slots :
        /\ RenderPass(OpsOf(op), i)
        /\ gpu' = [gpu EXCEPT !.pass =
                     [attachments |-> renderPasses'[i].attachments,
                      clears |-> ClearValues(op)]]
  BY DEF SetTarget
<1>3. renderPasses'[i].attachments = Attachments(OpsOf(op))
  BY <1>2, PassFound DEF AllOps
<1>4. gpu' = [gpu EXCEPT !.pass = PassOf(op)] /\ PassOf(op) # None
  BY <1>2, <1>3, NoneAssumption DEF PassOf
<1>5. enc \in Encodings /\ enc.tables \in TableCalls
  BY <1>1 DEF EncodingInv, EncodingTyped
<1>6. /\ enc' \in Encodings
      /\ enc'.kind = enc.kind /\ enc'.state = enc.state /\ enc'.tables = enc.tables
      /\ enc'.status = enc.status \cup {"target"}
  <2> DEFINE U == SUBSET Statuses
             Q == Seq(Nat \X Nat)
             E == [kind : Points \cup {"transfer"}, status : U,
                   target : TargetOps \cup {None}, state : States \cup {None},
                   tables : Q]
  <2>0. "target" \in Statuses
    BY DEF Statuses
  <2>5. enc.status \in SUBSET Statuses
    BY <1>5 DEF Encodings
  <2>6. enc.status \cup {"target"} \in U
    BY <2>0, <2>5
  <2>1. PICK status \in U : status = enc.status \cup {"target"}
    BY <2>6
  <2>2. enc \in E
    BY <1>5 DEF Encodings
  <2> HIDE DEF U, Q
  <2>3. enc' = [enc EXCEPT !.target = op, !.status = status]
    BY <1>1, <2>1
  <2>4. /\ enc' \in E /\ enc'.status = status
        /\ enc'.kind = enc.kind /\ enc'.state = enc.state /\ enc'.tables = enc.tables
    BY <2>2, <2>3
  <2> QED BY <2>1, <2>4 DEF Encodings, U, Q
<1>7. /\ gpu'.pass = PassOf(op) /\ gpu'.pipeline = gpu.pipeline
      /\ gpu'.sets = gpu.sets
      /\ gpu' \in [pass : {PassOf(o) : o \in TargetOps} \cup {None},
                   pipeline : [Points -> States \cup {None}],
                   sets : [Points -> Bindings]]
  BY <1>4 DEF EncodingInv, EncodingTyped
<1>8. /\ asked'.op = op /\ asked'.state = asked.state
      /\ asked'.tables = asked.tables /\ asked'.stale = asked.stale
      /\ asked' \in [op : TargetOps \cup {None}, state : States \cup {None},
                     tables : [1..MaxTables -> Nat \cup {None}],
                     stale : SUBSET (1..MaxTables)]
  BY <1>1 DEF EncodingInv, EncodingTyped
<1>9. EncodingTyped'
  BY <1>1, <1>5, <1>6, <1>7, <1>8 DEF EncodingInv, EncodingTyped
<1>10. Idle' /\ PassBegun' /\ NothingPending'
  BY <1>1, <1>6, <1>7, <1>8, NoneAssumption DEF Idle, PassBegun, NothingPending
<1>11. StateFollows'
  BY <1>1, <1>4, <1>6, <1>7, <1>8 DEF EncodingInv, StateFollows
<1>12. TablesFollow'
  BY <1>1, <1>6, <1>7, <1>8 DEF EncodingInv, TablesFollow
<1> QED BY <1>9, <1>10, <1>11, <1>12 DEF EncodingInv

(* setState: what is bound and not stale is for the new state as well.     *)
LEMMA EncodingState ==
  ASSUME EncodingInv, NEW s \in states, SetState(s)
  PROVE  EncodingInv'
<1>0. s \in States /\ s # None
  BY NoneAssumption DEF EncodingInv, EncodingTyped
<1>1. /\ enc # None /\ enc.kind \in Points
      /\ enc' = [enc EXCEPT !.state = s, !.status = @ \cup {"state"}]
      /\ gpu' = IF enc.kind = "graphics" /\ s = enc.state
                  THEN gpu ELSE [gpu EXCEPT !.pipeline[enc.kind] = s]
      /\ asked' = [asked EXCEPT !.state = s,
                                !.stale = @ \cup Changed(asked.state, s)]
      /\ states' = states /\ drew' = None
  BY DEF SetState, StateSet, In, Recorded, Encoding
<1>2. enc \in Encodings /\ enc.tables \in TableCalls
  BY <1>1 DEF EncodingInv, EncodingTyped
<1>3. /\ enc' \in Encodings /\ enc'.state = s
      /\ enc'.kind = enc.kind /\ enc'.tables = enc.tables
      /\ enc'.status = enc.status \cup {"state"}
  <2> DEFINE U == SUBSET Statuses
             Q == Seq(Nat \X Nat)
             E == [kind : Points \cup {"transfer"}, status : U,
                   target : TargetOps \cup {None}, state : States \cup {None},
                   tables : Q]
  <2>0. "state" \in Statuses
    BY DEF Statuses
  <2>5. enc.status \in SUBSET Statuses
    BY <1>2 DEF Encodings
  <2>6. enc.status \cup {"state"} \in U
    BY <2>0, <2>5
  <2>1. PICK status \in U : status = enc.status \cup {"state"}
    BY <2>6
  <2>2. enc \in E
    BY <1>2 DEF Encodings
  <2> HIDE DEF U, Q
  <2>3. enc' = [enc EXCEPT !.state = s, !.status = status]
    BY <1>1, <2>1
  <2>4. /\ enc' \in E /\ enc'.status = status
        /\ enc'.state = s /\ enc'.kind = enc.kind /\ enc'.tables = enc.tables
    BY <1>0, <2>2, <2>3
  <2> QED BY <2>1, <2>4 DEF Encodings, U, Q
<1>4. /\ gpu'.pass = gpu.pass /\ gpu'.sets = gpu.sets
      /\ gpu'.pipeline[enc.kind] = s
      /\ gpu' \in [pass : {PassOf(o) : o \in TargetOps} \cup {None},
                   pipeline : [Points -> States \cup {None}],
                   sets : [Points -> Bindings]]
  <2>1. CASE enc.kind = "graphics" /\ s = enc.state
    <3>1. gpu' = gpu /\ gpu.pipeline[enc.kind] = s
      BY <1>0, <1>1, <2>1 DEF EncodingInv, StateFollows
    <3> QED BY <3>1 DEF EncodingInv, EncodingTyped
  <2>2. CASE ~(enc.kind = "graphics" /\ s = enc.state)
    <3>1. gpu' = [gpu EXCEPT !.pipeline[enc.kind] = s]
      BY <1>1, <2>2
    <3> QED BY <1>0, <1>1, <3>1 DEF EncodingInv, EncodingTyped
  <2> QED BY <2>1, <2>2
<1>5. /\ asked'.op = asked.op /\ asked'.state = s /\ asked'.tables = asked.tables
      /\ asked'.stale = asked.stale \cup Changed(asked.state, s)
      /\ asked' \in [op : TargetOps \cup {None}, state : States \cup {None},
                     tables : [1..MaxTables -> Nat \cup {None}],
                     stale : SUBSET (1..MaxTables)]
  BY <1>0, <1>1 DEF EncodingInv, EncodingTyped, Changed
<1>6. EncodingTyped'
  BY <1>1, <1>2, <1>3, <1>4, <1>5 DEF EncodingInv, EncodingTyped
<1>7. Idle' /\ PassBegun' /\ NothingPending'
  BY <1>1, <1>3, <1>4, <1>5, NoneAssumption DEF EncodingInv, Idle, PassBegun,
     NothingPending
<1>8. StateFollows'
  BY <1>0, <1>1, <1>3, <1>4, <1>5 DEF EncodingInv, StateFollows
<1>9. TablesFollow'
  <2> SUFFICES ASSUME NEW i \in 1..MaxTables, i \notin asked'.stale,
                      asked'.tables[i] # None
               PROVE  \/ LastFor(enc.tables, Len(enc.tables), i, asked.tables[i])
                      \/ /\ NoneFor(enc.tables, Len(enc.tables), i)
                         /\ gpu.sets[enc.kind][i] = SetFor(s, i, asked.tables[i])
    BY <1>0, <1>3, <1>4, <1>5 DEF TablesFollow
  <2>1. i \notin asked.stale /\ i \notin Changed(asked.state, s)
        /\ asked.tables[i] # None
    BY <1>5
  <2>2. asked.state # None => UpTo(asked.state, i) = UpTo(s, i)
    BY <2>1 DEF Changed
  <2>3. asked.state # None =>
          SetFor(asked.state, i, asked.tables[i]) = SetFor(s, i, asked.tables[i])
    BY <2>2 DEF SetFor
  <2> QED BY <1>1, <2>1, <2>3 DEF EncodingInv, TablesFollow
<1> QED BY <1>6, <1>7, <1>8, <1>9 DEF EncodingInv

(* One more table that was set is the last for its index, and for no other.*)
LEMMA CallAdded ==
  ASSUME NEW ts \in TableCalls, NEW i \in 1..MaxTables, NEW j \in Nat,
         NEW n \in Nat, n = Len(ts), NEW new, new = Append(ts, <<i, j>>)
  PROVE  /\ new \in TableCalls /\ Len(new) = n + 1
         /\ LastFor(new, n + 1, i, j)
         /\ \A k \in 1..MaxTables, a \in Nat : k # i =>
              /\ LastFor(ts, n, k, a) => LastFor(new, n + 1, k, a)
              /\ NoneFor(ts, n, k) => NoneFor(new, n + 1, k)
<1> DEFINE P == (1..MaxTables) \X Nat
<1>1. PICK c \in P : c = <<i, j>>
  OBVIOUS
<1>2. ts \in Seq(P) /\ new = Append(ts, c)
  BY <1>1 DEF TableCalls
<1>3. /\ new \in Seq(P) /\ Len(new) = n + 1
      /\ \A m \in 1..n : new[m] = ts[m]
      /\ new[n + 1] = c
  <2> HIDE DEF P
  <2>1. new \in Seq(P)
    BY <1>2, AppendProperties
  <2>2. Len(new) = Len(ts) + 1
    BY <1>2, AppendProperties
  <2>3. \A m \in 1..Len(ts) : new[m] = ts[m]
    BY <1>2, AppendProperties
  <2>4. new[Len(ts) + 1] = c
    <3>1. Append(ts, c)[Len(ts) + 1] = c
      BY <1>2, AppendProperties, Zenon
    <3> QED BY <1>2, <3>1, Zenon
  <2> QED BY <2>1, <2>2, <2>3, <2>4
<1>4. new[n + 1] = <<i, j>> /\ new[n + 1][1] = i
  BY <1>1, <1>3
<1>5. LastFor(new, n + 1, i, j)
  <2>1. n + 1 \in 1..(n + 1) /\ \A l \in ((n + 1) + 1)..(n + 1) : FALSE
    OBVIOUS
  <2> QED BY <1>4, <2>1 DEF LastFor
<1>6. ASSUME NEW k \in 1..MaxTables, NEW a \in Nat, k # i, LastFor(ts, n, k, a)
      PROVE  LastFor(new, n + 1, k, a)
  <2>1. PICK m \in 1..n : ts[m] = <<k, a>> /\ \A l \in (m + 1)..n : ts[l][1] # k
    BY <1>6 DEF LastFor
  <2>2. m \in 1..(n + 1) /\ new[m] = <<k, a>>
    BY <1>3, <2>1
  <2>3. ASSUME NEW l \in (m + 1)..(n + 1) PROVE new[l][1] # k
    <3>1. CASE l = n + 1
      BY <1>4, <1>6, <3>1
    <3>2. CASE l # n + 1
      <4>1. l \in (m + 1)..n /\ l \in 1..n
        BY <3>2
      <4> QED BY <1>3, <2>1, <4>1
    <3> QED BY <3>1, <3>2
  <2> QED BY <2>2, <2>3 DEF LastFor
<1>7. ASSUME NEW k \in 1..MaxTables, k # i, NoneFor(ts, n, k)
      PROVE  NoneFor(new, n + 1, k)
  <2> SUFFICES ASSUME NEW m \in 1..(n + 1) PROVE new[m][1] # k
    BY DEF NoneFor
  <2>1. CASE m = n + 1
    BY <1>4, <1>7, <2>1
  <2>2. CASE m # n + 1
    <3>1. m \in 1..n
      BY <2>2
    <3> QED BY <1>3, <1>7, <3>1 DEF NoneFor
  <2> QED BY <2>1, <2>2
<1>8. new \in TableCalls
  BY <1>3 DEF TableCalls
<1> QED BY <1>3, <1>5, <1>6, <1>7, <1>8

(* setDcTable: the table is pending.                                       *)
LEMMA EncodingTable ==
  ASSUME EncodingInv, NEW i \in 1..MaxTables, NEW j \in 0..(i - 1),
         SetDcTable(i, j)
  PROVE  EncodingInv'
<1>1. /\ enc # None /\ enc.kind \in Points
      /\ enc' = [enc EXCEPT !.tables = Append(@, <<i, j>>)]
      /\ asked' = [asked EXCEPT !.tables[i] = j, !.stale = @ \ {i}]
      /\ gpu' = gpu /\ states' = states /\ drew' = None
  BY DEF SetDcTable, In, Recorded, Encoding
<1>2. enc \in Encodings /\ enc.tables \in TableCalls
  BY <1>1 DEF EncodingInv, EncodingTyped
<1>3. PICK ts \in TableCalls, n \in Nat : ts = enc.tables /\ n = Len(ts)
  <2>1. Len(enc.tables) \in Nat
    BY <1>2 DEF TableCalls
  <2> QED BY <1>2, <2>1
<1>4. PICK new : new = Append(ts, <<i, j>>)
  OBVIOUS
<1>5. i \in Nat /\ j \in Nat /\ MaxTables \in Nat
  BY RecordingAssumption
<1>6. /\ new \in TableCalls /\ Len(new) = n + 1
      /\ LastFor(new, n + 1, i, j)
      /\ \A k \in 1..MaxTables, a \in Nat : k # i =>
           /\ LastFor(ts, n, k, a) => LastFor(new, n + 1, k, a)
           /\ NoneFor(ts, n, k) => NoneFor(new, n + 1, k)
  <2>1. new \in TableCalls
    BY <1>3, <1>4, <1>5, CallAdded
  <2>2. Len(new) = n + 1
    BY <1>3, <1>4, <1>5, CallAdded
  <2>3. LastFor(new, n + 1, i, j)
    BY <1>3, <1>4, <1>5, CallAdded
  <2>4. \A k \in 1..MaxTables, a \in Nat : k # i =>
           /\ LastFor(ts, n, k, a) => LastFor(new, n + 1, k, a)
           /\ NoneFor(ts, n, k) => NoneFor(new, n + 1, k)
    <3>1. /\ ts \in TableCalls /\ n \in Nat /\ n = Len(ts) /\ i \in 1..MaxTables
          /\ j \in Nat /\ new = Append(ts, <<i, j>>)
      BY <1>3, <1>4, <1>5
    <3> QED BY <3>1, CallAdded, Zenon
  <2> QED BY <2>1, <2>2, <2>3, <2>4
<1>7. /\ enc' \in Encodings /\ enc'.tables = new
      /\ enc'.kind = enc.kind /\ enc'.state = enc.state /\ enc'.status = enc.status
  <2>1. new \in Seq(Nat \X Nat)
    <3>1. /\ \A c \in (1..MaxTables) \X Nat : c \in Nat \X Nat
      BY <1>5
    <3>2. new \in [1..(n + 1) -> (1..MaxTables) \X Nat]
      BY <1>6 DEF TableCalls
    <3>3. new \in [1..(n + 1) -> Nat \X Nat]
      BY <3>1, <3>2
    <3>4. n + 1 \in Nat
      OBVIOUS
    <3> QED BY <3>3, <3>4, SeqDef
  <2>2. enc' = [enc EXCEPT !.tables = new]
    BY <1>1, <1>3, <1>4
  <2> DEFINE U == SUBSET Statuses
             Q == Seq(Nat \X Nat)
             E == [kind : Points \cup {"transfer"}, status : U,
                   target : TargetOps \cup {None}, state : States \cup {None},
                   tables : Q]
  <2>3. enc \in E /\ new \in Q
    BY <1>2, <2>1 DEF Encodings
  <2> HIDE DEF U, Q
  <2>4. /\ enc' \in E /\ enc'.tables = new
        /\ enc'.kind = enc.kind /\ enc'.state = enc.state /\ enc'.status = enc.status
    BY <2>2, <2>3
  <2> QED BY <2>4 DEF Encodings, U, Q
<1>8. /\ asked'.op = asked.op /\ asked'.state = asked.state
      /\ asked'.stale = asked.stale \ {i} /\ asked'.tables[i] = j
      /\ \A k \in 1..MaxTables : k # i => asked'.tables[k] = asked.tables[k]
      /\ asked' \in [op : TargetOps \cup {None}, state : States \cup {None},
                     tables : [1..MaxTables -> Nat \cup {None}],
                     stale : SUBSET (1..MaxTables)]
  BY <1>1, <1>5 DEF EncodingInv, EncodingTyped
<1>9. EncodingTyped'
  BY <1>1, <1>6, <1>7, <1>8 DEF EncodingInv, EncodingTyped
<1>10. Idle' /\ PassBegun' /\ NothingPending'
  BY <1>1, <1>7, <1>8, NoneAssumption DEF EncodingInv, Idle, PassBegun,
     NothingPending
<1>11. StateFollows'
  BY <1>1, <1>7, <1>8 DEF EncodingInv, StateFollows
<1>12. TablesFollow'
  <2> SUFFICES ASSUME NEW k \in 1..MaxTables, k \notin asked'.stale,
                      asked'.tables[k] # None
               PROVE  \/ LastFor(new, n + 1, k, asked'.tables[k])
                      \/ /\ NoneFor(new, n + 1, k)
                         /\ asked.state # None
                         /\ gpu.sets[enc.kind][k]
                              = SetFor(asked.state, k, asked'.tables[k])
    <3>1. enc'.kind = enc.kind /\ enc'.tables = new /\ Len(new) = n + 1
      BY <1>6, <1>7
    <3>2. asked'.state = asked.state /\ gpu' = gpu
      BY <1>1, <1>8
    <3> QED BY <3>1, <3>2 DEF TablesFollow
  <2>1. CASE k = i
    BY <1>6, <1>8, <2>1
  <2>2. CASE k # i
    <3>1. /\ k \notin asked.stale /\ asked'.tables[k] = asked.tables[k]
          /\ asked.tables[k] # None
      BY <1>8, <2>2
    <3>2. asked.tables[k] \in Nat
      BY <3>1 DEF EncodingInv, EncodingTyped
    <3>3. \/ LastFor(ts, n, k, asked.tables[k])
          \/ /\ NoneFor(ts, n, k)
             /\ asked.state # None
             /\ gpu.sets[enc.kind][k] = SetFor(asked.state, k, asked.tables[k])
      BY <1>1, <1>3, <3>1 DEF EncodingInv, TablesFollow
    <3> QED BY <1>6, <2>2, <3>1, <3>2, <3>3
  <2> QED BY <2>1, <2>2
<1> QED BY <1>9, <1>10, <1>11, <1>12 DEF EncodingInv

(* draw, drawIx and dispatch bind what is pending.                         *)
LEMMA EncodingDraws ==
  ASSUME EncodingInv, NEW indexed \in BOOLEAN, Draw(indexed)
  PROVE  EncodingInv'
<1>1. /\ enc # None /\ enc.kind \in Points
      /\ gpu' = [gpu EXCEPT !.sets[enc.kind] = AllBound(@, enc.state, enc.tables)]
      /\ enc' = [enc EXCEPT !.tables = <<>>]
      /\ asked' = asked /\ states' = states /\ drew' = enc.kind
  BY DEF Draw, BindSets, In, Encoding
<1>2. enc \in Encodings /\ enc.tables \in TableCalls
  BY <1>1 DEF EncodingInv, EncodingTyped
<1>3. /\ asked.state # None
      /\ enc.kind = "graphics" => gpu.pass # None
  <2>1. CASE enc.kind = "graphics"
    <3>1. "target" \in enc.status /\ "state" \in enc.status
      BY <2>1 DEF Draw, Ready, Needed
    <3> QED BY <1>1, <3>1 DEF EncodingInv, StateFollows
  <2>2. CASE enc.kind # "graphics"
    <3>1. enc.state # None
      BY <2>2 DEF Draw, Ready
    <3> QED BY <1>1, <2>2, <3>1 DEF EncodingInv, StateFollows
  <2> QED BY <2>1, <2>2
<1>4. PICK sets \in Bindings, s \in States \cup {None}, ts \in TableCalls :
        sets = gpu.sets[enc.kind] /\ s = enc.state /\ ts = enc.tables
  <2>1. gpu.sets[enc.kind] \in Bindings
    BY <1>1 DEF EncodingInv, EncodingTyped
  <2>2. enc.state \in States \cup {None}
    BY <1>2 DEF Encodings
  <2> QED BY <1>2, <2>1, <2>2
<1>5. PICK n \in Nat : n = Len(ts)
  BY DEF TableCalls
<1>6. PICK bound : bound = AllBound(sets, s, ts)
  OBVIOUS
<1>7. bound \in Bindings
  BY <1>5, <1>6, AllBoundRight
<1>8. \A i \in 1..MaxTables, a \in Nat :
        Promised(sets, s, ts, n, i, a) => bound[i] = SetFor(s, i, a)
  BY <1>5, <1>6, AllBoundRight
<1>9. /\ enc' \in Encodings /\ enc'.tables = <<>> /\ enc'.tables \in TableCalls
      /\ enc'.kind = enc.kind /\ enc'.state = enc.state /\ enc'.status = enc.status
  <2> DEFINE U == SUBSET Statuses
             Q == Seq(Nat \X Nat)
             E == [kind : Points \cup {"transfer"}, status : U,
                   target : TargetOps \cup {None}, state : States \cup {None},
                   tables : Q]
  <2>1. enc \in E
    BY <1>2 DEF Encodings
  <2>2. <<>> \in Q
    OBVIOUS
  <2>3. <<>> \in TableCalls
    BY DEF TableCalls
  <2> HIDE DEF U, Q
  <2>4. /\ enc' \in E /\ enc'.tables = <<>>
        /\ enc'.kind = enc.kind /\ enc'.state = enc.state /\ enc'.status = enc.status
    BY <1>1, <2>1, <2>2
  <2> QED BY <2>3, <2>4 DEF Encodings, U, Q
<1>10. /\ gpu'.pass = gpu.pass /\ gpu'.pipeline = gpu.pipeline
       /\ gpu'.sets[enc.kind] = bound
       /\ gpu' \in [pass : {PassOf(op) : op \in TargetOps} \cup {None},
                    pipeline : [Points -> States \cup {None}],
                    sets : [Points -> Bindings]]
  <2>1. gpu' = [gpu EXCEPT !.sets[enc.kind] = bound]
    BY <1>1, <1>4, <1>6
  <2> QED BY <1>1, <1>7, <2>1 DEF EncodingInv, EncodingTyped
<1>11. EncodingTyped'
  BY <1>1, <1>9, <1>10 DEF EncodingInv, EncodingTyped
<1>12. Idle' /\ PassBegun'
  BY <1>1, <1>9, <1>10, NoneAssumption DEF EncodingInv, Idle, PassBegun
<1>13. StateFollows'
  BY <1>1, <1>9, <1>10 DEF EncodingInv, StateFollows
<1>14. NothingPending'
  BY <1>1, <1>3, <1>9, <1>10, NoneAssumption DEF NothingPending
<1>15. TablesFollow'
  <2> SUFFICES ASSUME NEW i \in 1..MaxTables, i \notin asked.stale,
                      asked.tables[i] # None
               PROVE  /\ NoneFor(<<>>, Len(<<>>), i)
                      /\ bound[i] = SetFor(asked.state, i, asked.tables[i])
    BY <1>1, <1>3, <1>9, <1>10 DEF TablesFollow
  <2>1. NoneFor(<<>>, Len(<<>>), i)
    <3>1. Len(<<>>) = 0
      OBVIOUS
    <3> QED BY <3>1 DEF NoneFor
  <2>2. asked.tables[i] \in Nat
    BY DEF EncodingInv, EncodingTyped
  <2>3. s = asked.state
    BY <1>1, <1>4 DEF EncodingInv, StateFollows
  <2>4. Promised(sets, s, ts, n, i, asked.tables[i])
    <3>1. \/ LastFor(ts, n, i, asked.tables[i])
          \/ /\ NoneFor(ts, n, i)
             /\ sets[i] = SetFor(s, i, asked.tables[i])
      BY <1>1, <1>4, <1>5, <2>3 DEF EncodingInv, TablesFollow
    <3> QED BY <3>1 DEF Promised
  <2> QED BY <1>8, <2>1, <2>2, <2>3, <2>4
<1> QED BY <1>11, <1>12, <1>13, <1>14, <1>15 DEF EncodingInv

(* At the end the pass is closed.                                          *)
LEMMA EncodingEnds ==
  ASSUME EncodingInv, EndEncoding
  PROVE  EncodingInv'
<1>1. /\ enc' = None /\ gpu' = [gpu EXCEPT !.pass = None]
      /\ asked' = NothingAsked /\ drew' = None /\ states' = states
  BY DEF EndEncoding, bufferVars
<1>2. /\ gpu'.pass = None
      /\ gpu' \in [pass : {PassOf(op) : op \in TargetOps} \cup {None},
                   pipeline : [Points -> States \cup {None}],
                   sets : [Points -> Bindings]]
  BY <1>1 DEF EncodingInv, EncodingTyped
<1>3. EncodingTyped'
  BY <1>1, <1>2, NothingTyped DEF EncodingInv, EncodingTyped
<1> QED BY <1>1, <1>2, <1>3 DEF EncodingInv, Idle, PassBegun, StateFollows,
        TablesFollow, NothingPending

(* What each command does to an encoding.                                  *)
LEMMA EncodingCommand ==
  ASSUME PassesInv, EncodingInv, Command
  PROVE  EncodingInv'
<1>1. ASSUME Throw PROVE EncodingInv'
  BY <1>1, EncodingEmptied DEF Throw
<1>2. ASSUME SetSecondViewport \/ CopyThrows PROVE EncodingInv'
  BY <1>1, <1>2 DEF SetSecondViewport, CopyThrows
<1>3. ASSUME NEW op \in TargetOps, SetTargetThrows(op) PROVE EncodingInv'
  BY <1>3, EncodingEmptied DEF SetTargetThrows
<1>4. ASSUME NEW indexed \in BOOLEAN, DrawThrows(indexed) PROVE EncodingInv'
  BY <1>1, <1>4 DEF DrawThrows
<1>5. ASSUME CopyBuffer \/ CopyImage PROVE EncodingInv'
  <2>1. UNCHANGED <<enc, gpu, asked, drew>> /\ states' = states
    BY <1>5 DEF CopyBuffer, CopyImage, Copy, Encoding
  <2> QED BY <2>1, EncodingSame DEF EncodingInv, EncodingTyped
<1> QED BY <1>2, <1>3, <1>4, <1>5, EncodingDynamic, EncodingTarget, EncodingState,
        EncodingTable, EncodingDraws DEF Command

(* What each step does to it.                                              *)
LEMMA EncodingNext == PassesInv /\ EncodingInv /\ [Next]_vars => EncodingInv'
<1> SUFFICES ASSUME PassesInv, EncodingInv, [Next]_vars PROVE EncodingInv'
  OBVIOUS
<1>1. ASSUME Create PROVE EncodingInv'
  <2>1. UNCHANGED <<enc, gpu, asked, drew>> /\ states' \subseteq States
    BY <1>1 DEF Create, NewState, NewStateThrows, EncodingInv, EncodingTyped
  <2> QED BY <2>1, EncodingSame
<1>2. ASSUME NEW kind \in Points \cup {"transfer"}, Begin(kind) PROVE EncodingInv'
  BY <1>2, EncodingBegins
<1>3. ASSUME EndEncoding PROVE EncodingInv'
  BY <1>3, EncodingEnds
<1>4. ASSUME Reset \/ Executed PROVE EncodingInv'
  BY <1>4, EncodingEmptied DEF Reset, Throw, Executed
<1>5. ASSUME Enqueue PROVE EncodingInv'
  <2>1. states' = states /\ enc = None
    BY <1>5 DEF Enqueue
  <2>2. CASE Emptied
    BY <2>1, <2>2, EncodingEmptied
  <2>3. CASE ~Emptied
    <3>1. UNCHANGED <<enc, gpu, asked>> /\ drew' = None
      BY <1>5, <2>3 DEF Enqueue
    <3>2. UNCHANGED <<enc, gpu, asked, drew>>
      BY <2>1, <3>1 DEF EncodingInv, Idle
    <3> QED BY <2>1, <3>2, EncodingSame DEF EncodingInv, EncodingTyped
  <2> QED BY <2>2, <2>3
<1>6. ASSUME UNCHANGED vars PROVE EncodingInv'
  <2>1. UNCHANGED <<enc, gpu, asked, drew>> /\ states' \subseteq States
    BY <1>6 DEF vars, EncodingInv, EncodingTyped
  <2> QED BY <2>1, EncodingSame
<1> QED BY <1>1, <1>2, <1>3, <1>4, <1>5, <1>6, EncodingCommand DEF Next

(* Every pass that is begun does what its target was set for, and every    *)
(* draw and dispatch finds the target, the state and the tables that the   *)
(* client set last, however it mixed them with other commands, and         *)
(* whatever the buffer was used for before.                                *)
THEOREM DrawsFollowEncodings == Spec => []DrawsAsEncoded
<1>1. Init => EncodingInv
  <2> SUFFICES ASSUME Init PROVE EncodingInv
    OBVIOUS
  <2>1. /\ enc = None /\ gpu = NoGpu /\ asked = NothingAsked /\ drew = None
        /\ states \subseteq States
    BY DEF Init
  <2> QED BY <2>1, EncodingEmpty
<1>2. EncodingInv => DrawsAsEncoded
  <2> SUFFICES ASSUME EncodingInv PROVE DrawsAsEncoded
    OBVIOUS
  <2>1. gpu.pass # None => PassRight
    BY PassOfRight DEF EncodingInv, PassBegun
  <2>2. ASSUME drew # None
        PROVE  /\ drew = "graphics" => gpu.pass # None
               /\ gpu.pipeline[drew] = asked.state
    BY <2>2 DEF EncodingInv, NothingPending, StateFollows
  <2>3. ASSUME drew # None PROVE SetsRight
    <3>1. /\ enc # None /\ enc.kind \in Points /\ drew = enc.kind
          /\ asked.state # None /\ enc.tables = <<>>
      BY <2>3 DEF EncodingInv, NothingPending
    <3>2. ASSUME NEW i \in DOMAIN Tables(asked.state) \ asked.stale,
                 asked.tables[i] # None
          PROVE  gpu.sets[drew][i] = SetFor(asked.state, i, asked.tables[i])
      <4>1. asked.state \in States \cup {None} /\ 0 \in Nat
        BY DEF EncodingInv, EncodingTyped
      <4>2. /\ Tables(asked.state) \in Seq(DOMAIN Allocations)
            /\ Len(Tables(asked.state)) <= MaxTables
        BY <4>1, TablesTyped
      <4>3. i \in 1..MaxTables
        BY <3>2, <4>2, RecordingAssumption
      <4>4. Len(enc.tables) = 0
        BY <3>1
      <4>5. ~LastFor(enc.tables, Len(enc.tables), i, asked.tables[i])
        BY <4>4 DEF LastFor
      <4> QED BY <3>1, <3>2, <4>3, <4>5 DEF EncodingInv, TablesFollow
    <3> QED BY <3>2 DEF SetsRight, SetFor
  <2> QED BY <2>1, <2>2, <2>3 DEF DrawsAsEncoded
<1> QED BY <1>1, <1>2, PassesInit, PassesNext, EncodingNext, PTL DEF Spec
=============================================================================
