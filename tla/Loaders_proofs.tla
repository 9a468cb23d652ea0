--------------------------- MODULE Loaders_proofs ---------------------------
(***************************************************************************)
(* Theorems about the reading of glTF files and the playing of animations, *)
(* and their proofs.                                                       *)
(***************************************************************************)
EXTENDS Playback, GltfTypes_proofs

-----------------------------------------------------------------------------
(* The search for keyframes.                                               *)

Increases(input) ==
  \A j, k \in DOMAIN input : j < k => input[j] < input[k]

(* What found, which is all that is known of a range of a size up to k, is *)
(* for the n times of a timeline.                                          *)
AreFound(found, input, tm, n, k) ==
  found = [size \in 0..k |->
            [beg \in 1..(n + 1 - size) |-> [mid \in 1..n |->
               IF size = 0 THEN mid
               ELSE LET m == (2 * beg + size) \div 2
                    IN  IF input[m] < tm
                        THEN found[beg + size - (m + 1)][m + 1][m]
                        ELSE IF input[m] > tm THEN found[m - beg][beg][m]
                        ELSE m]]]

(* The recursion of Search defines a function.                             *)
LEMMA FoundExists ==
  ASSUME NEW n \in Nat, NEW input, NEW tm
  PROVE  \E f : AreFound(f, input, tm, n, n)
<1> DEFINE Reached == {k \in 0..n : \E f : AreFound(f, input, tm, n, k)}
           Middle(size, beg) == (2 * beg + size) \div 2
           ValueAt(f, size, beg, mid) ==
             IF size = 0 THEN mid
             ELSE IF input[Middle(size, beg)] < tm
             THEN f[beg + size - (Middle(size, beg) + 1)]
                   [Middle(size, beg) + 1][Middle(size, beg)]
             ELSE IF input[Middle(size, beg)] > tm
             THEN f[Middle(size, beg) - beg][beg][Middle(size, beg)]
             ELSE Middle(size, beg)
           Row(f, size) ==
             [beg \in 1..(n + 1 - size) |->
               [mid \in 1..n |-> ValueAt(f, size, beg, mid)]]
<1>0. ASSUME NEW f, NEW k \in 0..n
      PROVE  AreFound(f, input, tm, n, k) <=> f = [size \in 0..k |-> Row(f, size)]
  BY Zenon DEF AreFound
<1>a. ASSUME NEW f, NEW g, NEW k \in 0..n, NEW size \in 0..k,
             \A s \in 0..(k - 1) : f[s] = g[s]
      PROVE  Row(f, size) = Row(g, size)
  <2> SUFFICES ASSUME NEW beg \in 1..(n + 1 - size), NEW mid \in 1..n
               PROVE  ValueAt(f, size, beg, mid) = ValueAt(g, size, beg, mid)
    OBVIOUS
  <2> PICK m : m = Middle(size, beg)
    OBVIOUS
  <2>1. CASE size = 0
    BY <2>1
  <2>2. CASE size # 0
    <3>1. m \in Nat /\ beg <= m /\ m < beg + size
      BY <2>2
    <3>2. beg + size - (m + 1) \in 0..(k - 1) /\ m - beg \in 0..(k - 1)
      BY <3>1
    <3> HIDE DEF Middle
    <3>3. f[beg + size - (m + 1)] = g[beg + size - (m + 1)] /\ f[m - beg] = g[m - beg]
      BY <1>a, <3>2
    <3> QED BY <3>3, <2>2
  <2> QED BY <2>1, <2>2
<1>1. 0 \in Reached
  <2>1. PICK g : g = [size \in 0..0 |-> Row(<<>>, size)]
    OBVIOUS
  <2>2. Row(<<>>, 0) = Row(g, 0)
    BY <1>a
  <2> HIDE DEF Row
  <2>3. g = [size \in 0..0 |-> Row(g, size)]
    BY <2>1, <2>2
  <2>4. 0 \in 0..n
    OBVIOUS
  <2>5. AreFound(g, input, tm, n, 0)
    BY <2>3, <2>4, <1>0
  <2> QED BY <2>4, <2>5
<1>2. ASSUME NEW k \in 0..(n - 1), k \in Reached PROVE k + 1 \in Reached
  <2>1. PICK g : AreFound(g, input, tm, n, k)
    BY <1>2
  <2>2. g = [size \in 0..k |-> Row(g, size)]
    BY <2>1, <1>0
  <2> HIDE DEF Row
  <2>3. PICK h : h = [size \in 0..(k + 1) |-> Row(g, size)]
    OBVIOUS
  <2>4. \A size \in 0..k : h[size] = g[size]
    BY <2>2, <2>3
  <2>5. \A size \in 0..(k + 1) : Row(h, size) = Row(g, size)
    <3>1. k + 1 \in 0..n /\ (k + 1) - 1 = k
      OBVIOUS
    <3> QED BY <3>1, <2>4, <1>a
  <2>6. h = [size \in 0..(k + 1) |-> Row(h, size)]
    BY <2>3, <2>5
  <2>7. k + 1 \in 0..n
    OBVIOUS
  <2>8. AreFound(h, input, tm, n, k + 1)
    BY <2>6, <2>7, <1>0
  <2> QED BY <2>7, <2>8
<1>3. 0..n \subseteq Reached
  <2> HIDE DEF Reached
  <2> QED BY <1>1, <1>2, CountUp
<1> QED BY <1>3

(* The loop ends next to the time, if it began with all of the timeline:   *)
(* what is before its range is earlier and what is behind it later.        *)
Near(input, tm, r) ==
  \/ input[r] <= tm /\ \A j \in DOMAIN input : j > r => input[j] > tm
  \/ input[r] > tm /\ \A j \in DOMAIN input : j < r => input[j] < tm

(* Playback::keyframes: the binary search ends at the place where the time *)
(* is, whatever the time.                                                  *)
LEMMA SearchRight ==
  ASSUME NEW input \in Seq(Int), Increases(input), NEW tm \in Int,
         Len(input) > 0
  PROVE  /\ Search(input, tm) \in DOMAIN input
         /\ Near(input, tm, Search(input, tm))
<1> DEFINE n == Len(input)
           found == CHOOSE f : AreFound(f, input, tm, n, n)
           Narrowed(size, beg, mid) ==
             /\ \A j \in 1..n : j < beg => input[j] < tm
             /\ \A j \in 1..n : j >= beg + size => input[j] > tm
             /\ size = 0 => mid \in {beg - 1, beg}
           Right(size) ==
             \A beg \in 1..(n + 1 - size), mid \in 1..n :
               Narrowed(size, beg, mid) =>
                 /\ found[size][beg][mid] \in 1..n
                 /\ Near(input, tm, found[size][beg][mid])
           S == {k \in 0..n : \A size \in 0..k : Right(size)}
           ValueAt(size, beg, mid, m) ==
             found[size][beg][mid] =
               IF size = 0 THEN mid
               ELSE IF input[m] < tm THEN found[beg + size - (m + 1)][m + 1][m]
               ELSE IF input[m] > tm THEN found[m - beg][beg][m]
               ELSE m
<1>1. n \in Nat /\ n > 0 /\ DOMAIN input = 1..n /\ \A j \in 1..n : input[j] \in Int
  OBVIOUS
<1>2. AreFound(found, input, tm, n, n)
  <2> HIDE DEF n
  <2> QED BY <1>1, FoundExists
<1>3. Search(input, tm) = found[n][1][1]
  BY Zenon DEF Search, AreFound
<1> HIDE DEF found
<1>4. ASSUME NEW size \in 0..n, NEW beg \in 1..(n + 1 - size), NEW mid \in 1..n,
             NEW m, m = (2 * beg + size) \div 2
      PROVE  ValueAt(size, beg, mid, m)
  <2> HIDE DEF n
  <2>1. found[size] =
          [b \in 1..(n + 1 - size) |-> [k \in 1..n |->
             IF size = 0 THEN k
             ELSE LET h == (2 * b + size) \div 2
                  IN  IF input[h] < tm THEN found[b + size - (h + 1)][h + 1][h]
                      ELSE IF input[h] > tm THEN found[h - b][b][h]
                      ELSE h]]
    BY <1>2, Zenon DEF AreFound
  <2>2. found[size][beg] =
          [k \in 1..n |->
             IF size = 0 THEN k
             ELSE IF input[m] < tm THEN found[beg + size - (m + 1)][m + 1][m]
             ELSE IF input[m] > tm THEN found[m - beg][beg][m]
             ELSE m]
    BY <2>1, <1>4, Zenon
  <2> QED BY <2>2, Zenon
<1>5. Right(0)
  <2> SUFFICES ASSUME NEW beg \in 1..(n + 1), NEW mid \in 1..n,
                      Narrowed(0, beg, mid)
               PROVE  found[0][beg][mid] \in 1..n /\ Near(input, tm, found[0][beg][mid])
    BY <1>1
  <2>1. found[0][beg][mid] = mid
    BY <1>1, <1>4
  <2>2. CASE mid = beg - 1
    <3>1. input[mid] < tm /\ \A j \in 1..n : j > mid => input[j] > tm
      BY <1>1, <2>2
    <3> QED BY <3>1, <2>1, <1>1 DEF Near
  <2>3. CASE mid = beg
    <3>1. input[mid] > tm /\ \A j \in 1..n : j < mid => input[j] < tm
      BY <1>1, <2>3
    <3> QED BY <3>1, <2>1, <1>1 DEF Near
  <2> QED BY <2>2, <2>3
<1>6. ASSUME NEW k \in 0..(n - 1), k \in S PROVE k + 1 \in S
  <2> PICK size : size = k + 1
    OBVIOUS
  <2>0. \A s \in 0..k : Right(s)
    BY <1>6
  <2> SUFFICES ASSUME NEW beg \in 1..(n + 1 - size), NEW mid \in 1..n,
                      Narrowed(size, beg, mid)
               PROVE  /\ found[size][beg][mid] \in 1..n
                      /\ Near(input, tm, found[size][beg][mid])
    <3>1. Right(size)
      OBVIOUS
    <3> HIDE DEF Right
    <3>2. \A t \in 0..(k + 1) : Right(t)
      <4> TAKE t \in 0..(k + 1)
      <4>1. t = k + 1 \/ t \in 0..k
        OBVIOUS
      <4> QED BY <4>1, <2>0, <3>1
    <3> QED BY <3>2, <1>1
  <2> PICK m : m = (2 * beg + size) \div 2
    OBVIOUS
  <2>1. m \in 1..n /\ beg <= m /\ m < beg + size
    BY <1>1
  <2>a. found[size][beg][mid] =
          IF input[m] < tm THEN found[beg + size - (m + 1)][m + 1][m]
          ELSE IF input[m] > tm THEN found[m - beg][beg][m]
          ELSE m
    <3>1. size \in 0..n /\ size # 0
      BY <1>1
    <3> HIDE DEF n, Narrowed
    <3>2. beg \in 1..(n + 1 - size) /\ mid \in 1..n /\ m = (2 * beg + size) \div 2
      OBVIOUS
    <3>3. ValueAt(size, beg, mid, m)
      <4> HIDE DEF Right, S, ValueAt
      <4> QED BY <3>1, <3>2, <1>4
    <3> QED BY <3>1, <3>3, Zenon
  <2>b. input[m] \in Int
    BY <2>1, <1>1
  <2>2. CASE input[m] < tm
    <3> DEFINE s == beg + size - (m + 1)
    <3>1. s \in 0..k /\ m + 1 \in 1..(n + 1 - s)
      BY <2>1, <1>1
    <3>2. Narrowed(s, m + 1, m)
      <4>1. \A j \in 1..n : j < m + 1 => input[j] < tm
        <5> TAKE j \in 1..n
        <5>1. j < m => input[j] < input[m]
          BY <2>1, <1>1 DEF Increases
        <5>2. input[j] \in Int /\ input[m] \in Int
          BY <2>1, <1>1
        <5> QED BY <5>1, <5>2, <2>1, <2>2
      <4>2. \A j \in 1..n : j >= m + 1 + s => input[j] > tm
        BY <2>1, <1>1
      <4> QED BY <4>1, <4>2, <2>1, <1>1
    <3>3. found[size][beg][mid] = found[s][m + 1][m]
      BY <2>a, <2>b, <2>2
    <3> HIDE DEF s, Narrowed
    <3>4. found[s][m + 1][m] \in 1..n /\ Near(input, tm, found[s][m + 1][m])
      BY <2>0, <2>1, <3>1, <3>2
    <3> QED BY <3>3, <3>4
  <2>3. CASE input[m] > tm
    <3> DEFINE s == m - beg
    <3>1. s \in 0..k /\ beg \in 1..(n + 1 - s)
      BY <2>1, <1>1
    <3>2. Narrowed(s, beg, m)
      <4>1. \A j \in 1..n : j >= beg + s => input[j] > tm
        <5> TAKE j \in 1..n
        <5>1. m < j => input[m] < input[j]
          BY <2>1, <1>1 DEF Increases
        <5>2. input[j] \in Int /\ input[m] \in Int
          BY <2>1, <1>1
        <5> QED BY <5>1, <5>2, <2>1, <2>3
      <4> QED BY <4>1, <2>1, <1>1
    <3>3. found[size][beg][mid] = found[s][beg][m]
      BY <2>a, <2>b, <2>3
    <3> HIDE DEF s, Narrowed
    <3>4. found[s][beg][m] \in 1..n /\ Near(input, tm, found[s][beg][m])
      BY <2>0, <2>1, <3>1, <3>2
    <3> QED BY <3>3, <3>4
  <2>4. CASE input[m] = tm
    <3>1. found[size][beg][mid] = m
      BY <2>a, <2>b, <2>4
    <3>2. \A j \in 1..n : j > m => input[j] > tm
      BY <2>1, <2>4, <1>1 DEF Increases
    <3> QED BY <3>1, <3>2, <2>1, <2>4, <1>1 DEF Near
  <2> QED BY <2>1, <2>2, <2>3, <2>4, <1>1
<1>7. n \in S
  <2>1. 0 \in S
    BY <1>5, <1>1
  <2> HIDE DEF S, n
  <2>2. 0..n \subseteq S
    BY <1>1, <1>6, <2>1, CountUp
  <2> QED BY <2>2, <1>1
<1>8. Narrowed(n, 1, 1)
  BY <1>1
<1>9. Right(n)
  BY <1>7, <1>1
<1> HIDE DEF Narrowed
<1> QED BY <1>1, <1>3, <1>8, <1>9

Brackets(input, tm, i, j) ==
  /\ i \in DOMAIN input
  /\ \/ i = 1 /\ j = 1 /\ \A k \in DOMAIN input : input[k] > tm
     \/ i = Len(input) /\ j = i /\ input[i] < tm
     \/ /\ j = i + 1 /\ input[i] <= tm
        /\ j \notin DOMAIN input => input[i] = tm
        /\ j \in DOMAIN input => input[j] > tm

(* The keyframes of a time are the last one that is not later and the next *)
(* one; or the first one, or the last one, if all are on one side.         *)
LEMMA KeyframesRight ==
  ASSUME NEW input \in Seq(Int), Increases(input), NEW tm \in Int,
         Len(input) > 0
  PROVE  \E i, j \in 1..(Len(input) + 1) :
           Keyframes(input, tm) = <<i, j>> /\ Brackets(input, tm, i, j)
<1> DEFINE n == Len(input)
<1> PICK mid : mid = Search(input, tm)
  OBVIOUS
<1>1. n \in Nat /\ n > 0 /\ DOMAIN input = 1..n /\ \A j \in 1..n : input[j] \in Int
  OBVIOUS
<1>2. mid \in 1..n /\ Near(input, tm, mid)
  BY <1>1, SearchRight
<1>3. Keyframes(input, tm) =
        IF input[1] > tm THEN <<1, 1>>
        ELSE IF input[n] < tm THEN <<n, n>>
        ELSE IF input[mid] > tm THEN <<mid - 1, mid>>
        ELSE <<mid, mid + 1>>
  BY DEF Keyframes
<1> HIDE DEF n
<1>4. CASE input[1] > tm
  <2>1. \A k \in 1..n : input[k] > tm
    BY <1>1, <1>4 DEF Increases
  <2>2. Brackets(input, tm, 1, 1)
    BY <2>1, <1>1 DEF Brackets
  <2> QED BY <2>2, <1>1, <1>3, <1>4 DEF n
<1>5. CASE ~(input[1] > tm) /\ input[n] < tm
  <2>1. Brackets(input, tm, n, n)
    <3>1. n \in DOMAIN input /\ n = Len(input)
      BY <1>1 DEF n
    <3> QED BY <3>1, <1>5 DEF Brackets
  <2> QED BY <2>1, <1>1, <1>3, <1>5 DEF n
<1>6. CASE ~(input[1] > tm) /\ ~(input[n] < tm) /\ input[mid] > tm
  <2>1. mid - 1 \in 1..n /\ input[mid - 1] < tm
    BY <1>1, <1>2, <1>6 DEF Near
  <2>2. Keyframes(input, tm) = <<mid - 1, mid>>
    BY <1>3, <1>6
  <2>3. Brackets(input, tm, mid - 1, mid)
    BY <2>1, <1>1, <1>2, <1>6 DEF Brackets
  <2> QED BY <1>1, <1>2, <2>1, <2>2, <2>3 DEF n
<1>7. CASE ~(input[1] > tm) /\ ~(input[n] < tm) /\ ~(input[mid] > tm)
  <2>1. mid + 1 \in 1..n => input[mid + 1] > tm
    BY <1>1, <1>2, <1>7 DEF Near
  <2>2. Keyframes(input, tm) = <<mid, mid + 1>>
    BY <1>3, <1>7
  <2>3. mid + 1 \notin 1..n => mid = n
    BY <1>1, <1>2
  <2>4. input[mid] <= tm /\ (mid = n => input[mid] = tm)
    BY <1>1, <1>2, <1>7
  <2>5. Brackets(input, tm, mid, mid + 1)
    BY <2>1, <2>3, <2>4, <1>1, <1>2 DEF Brackets
  <2> QED BY <1>1, <1>2, <2>2, <2>5 DEF n
<1> QED BY <1>4, <1>5, <1>6, <1>7

(* What an action makes of its target is what is wanted, but at the time   *)
(* of the last keyframe.                                                   *)
LEMMA UpdatedIsWanted ==
  ASSUME NEW anim, NEW action, NEW tm \in Int,
         Timeline(anim, action) \in Seq(Int), Increases(Timeline(anim, action)),
         Len(Timeline(anim, action)) > 0,
         action.method \in {"Step", "Linear"},
         Last(Timeline(anim, action)) # tm
  PROVE  /\ Updated(anim, action, tm) = Wanted(anim, action, tm)
         /\ ~Beyond(anim, action, tm)
<1> PICK input : input = Timeline(anim, action)
  OBVIOUS
<1> PICK output : output = Item(anim.outputs[action.type], action.output)
  OBVIOUS
<1> PICK n : n = Len(input)
  OBVIOUS
<1>1. /\ n \in Nat /\ n > 0 /\ DOMAIN input = 1..n
      /\ \A j \in 1..n : input[j] \in Int
  OBVIOUS
<1>2. input[n] # tm
  BY <1>1 DEF Last
<1>3. PICK i, j \in 1..(n + 1) :
        Keyframes(input, tm) = <<i, j>> /\ Brackets(input, tm, i, j)
  BY KeyframesRight
<1> DEFINE past == {k \in DOMAIN input : input[k] <= tm}
<1>4. Updated(anim, action, tm) =
        IF i = j \/ j > n THEN Just(output[i])
        ELSE IF action.method = "Step"
        THEN Just(IF tm - input[i] < input[j] - tm THEN output[i] ELSE output[j])
        ELSE IF tm = input[i] THEN Just(output[i])
        ELSE Mix(output[i], output[j], tm - input[i], input[j] - input[i])
  BY <1>3 DEF Updated
<1>5. Wanted(anim, action, tm) =
        IF past = {} THEN Just(output[1])
        ELSE IF past = DOMAIN input \/ input[Max(past)] = tm THEN Just(output[Max(past)])
        ELSE IF action.method = "Linear"
        THEN Mix(output[Max(past)], output[Max(past) + 1], tm - input[Max(past)],
                 input[Max(past) + 1] - input[Max(past)])
        ELSE Just(output[IF 2 * tm < input[Max(past)] + input[Max(past) + 1]
                         THEN Max(past) ELSE Max(past) + 1])
  BY DEF Wanted
<1>6. Beyond(anim, action, tm) <=> j > n
  BY <1>3 DEF Beyond
<1>7. ASSUME NEW k \in past, \A l \in past : l <= k PROVE Max(past) = k
  <2>1. \A x \in past : (\A y \in past : x >= y) => x = k
    BY <1>1, <1>7
  <2>2. \A y \in past : k >= y
    BY <1>1, <1>7
  <2> HIDE DEF past
  <2> QED BY <2>1, <2>2 DEF Max
<1>8. CASE i = 1 /\ j = 1 /\ \A k \in DOMAIN input : input[k] > tm
  <2>1. past = {}
    BY <1>1, <1>8
  <2> HIDE DEF past
  <2> QED BY <1>1, <1>4, <1>5, <1>6, <1>8, <2>1
<1>9. CASE i = n /\ j = i /\ input[i] < tm
  <2>1. \A k \in 1..n : input[k] <= tm
    BY <1>1, <1>9 DEF Increases
  <2>2. past = DOMAIN input /\ n \in past /\ \A l \in past : l <= n
    BY <1>1, <2>1
  <2>3. Max(past) = n
    BY <2>2, <1>7
  <2>4. past # {}
    BY <2>2
  <2> HIDE DEF past
  <2> QED BY <1>1, <1>4, <1>5, <1>6, <1>9, <2>2, <2>3, <2>4
<1>10. CASE /\ j = i + 1 /\ input[i] <= tm
            /\ j \notin DOMAIN input => input[i] = tm
            /\ j \in DOMAIN input => input[j] > tm
  <2>1. j <= n
    <3>1. i \in 1..n
      BY <1>1, <1>3 DEF Brackets
    <3>2. j \notin 1..n => i = n
      BY <1>1, <1>10, <3>1
    <3> QED BY <3>1, <3>2, <1>1, <1>2, <1>10
  <2>2. \A l \in 1..n : l > i => input[l] > tm
    <3> TAKE l \in 1..n
    <3> HAVE l > i
    <3>1. i + 1 \in 1..n /\ input[i + 1] > tm /\ i \in 1..n
      BY <2>1, <1>1, <1>10, <1>3 DEF Brackets
    <3>2. l = i + 1 \/ i + 1 < l
      BY <3>1
    <3>3. i + 1 < l => input[i + 1] < input[l]
      BY <3>1, <1>1 DEF Increases
    <3>4. input[i + 1] \in Int /\ input[l] \in Int
      BY <3>1, <1>1
    <3> QED BY <3>1, <3>2, <3>3, <3>4
  <2>3. i \in past /\ \A l \in past : l <= i
    BY <1>1, <1>3, <1>10, <2>2 DEF Brackets
  <2>4. Max(past) = i
    BY <2>3, <1>7
  <2>5. past # {} /\ past # DOMAIN input
    BY <2>1, <2>3, <1>10, <1>1
  <2>6. i \in 1..n /\ i # j /\ ~(j > n) /\ i + 1 = j
    BY <2>1, <1>1, <1>3, <1>10 DEF Brackets
  <2>7. tm - input[i] < input[j] - tm <=> 2 * tm < input[i] + input[i + 1]
    BY <2>6, <2>1, <1>1
  <2> HIDE DEF past
  <2>8. CASE input[i] = tm
    <3>1. tm - input[i] < input[j] - tm
      BY <2>8, <2>1, <2>6, <1>1, <1>10
    <3> QED BY <1>4, <1>5, <1>6, <2>4, <2>5, <2>6, <2>8, <3>1
  <2>9. CASE input[i] # tm
    BY <1>4, <1>5, <1>6, <2>4, <2>5, <2>6, <2>7, <2>9
  <2> QED BY <2>8, <2>9
<1> QED BY <1>3, <1>8, <1>9, <1>10 DEF Brackets

-----------------------------------------------------------------------------
(* The images, textures and materials.                                     *)

SourceOf(t) == Item(gltf.textures, t).source
InfoFor(m, w) == InfoOf(Item(gltf.materials, m), w)
Pending(whats, i) == \E c \in ToSet(todo) : c.do \in whats /\ c.i = i
PendingInfo(m, w) ==
  \E c \in ToSet(todo) :
    c.do \in {"getTexture", "setTexture"} /\ c.i = m /\ c.k = w

(* Each call that needs an object comes right after the one that makes it, *)
(* unless the object is there.                                             *)
ImagesFirst ==
  \A p \in DOMAIN todo : todo[p].do = "makeTexture" =>
    \/ Item(coll.images, SourceOf(todo[p].i)) # Absent
    \/ /\ p > 1 /\ todo[p - 1].do = "loadImage"
       /\ todo[p - 1].i = SourceOf(todo[p].i)
TexturesFirst ==
  \A p \in DOMAIN todo : todo[p].do = "setTexture" =>
    LET t == InfoFor(todo[p].i, todo[p].k).index
    IN  \/ Item(coll.textures, t) # Absent
        \/ /\ p > 1 /\ todo[p - 1].do \in {"loadTexture", "makeTexture"}
           /\ todo[p - 1].i = t
MaterialsFirst ==
  \A p \in DOMAIN todo :
    todo[p].do \in {"getTexture", "setTexture", "setMaterial"} =>
      Item(coll.materials, todo[p].i) # Absent

(* An image is decoded when it is made, a texture is made of its image and *)
(* a material has copies of its textures.                                  *)
ImagesOnce ==
  \A i \in Elems(gltf.images) :
    Item(coll.decoded, i) = IF Item(coll.images, i) = Absent THEN 0 ELSE 1
TextureFor(t) ==
  [type |-> "texture", image |-> Item(coll.images, SourceOf(t)),
   sampler |-> SamplerOf(Item(gltf.textures, t))]
TexturesMade ==
  \A t \in Elems(gltf.textures) :
    IF Item(coll.textures, t) = Absent
    THEN Pending({"loadTexture", "makeTexture"}, t)
    ELSE /\ Item(coll.images, SourceOf(t)) # Absent
         /\ Item(coll.textures, t) = TextureFor(t)
IsMaterial(v) ==
  /\ v = [type |-> "material", textures |-> v.textures, cutoff |-> v.cutoff]
  /\ v.textures = [w \in ToSet(Infos) |-> v.textures[w]]
CopyOf(m, w) == Item(coll.materials, m).textures[w]
CopyRight(m, w) ==
  LET t == InfoFor(m, w).index
  IN  /\ Item(coll.textures, t) # Absent
      /\ CopyOf(m, w).of = Item(coll.textures, t)
      /\ CopyOf(m, w).coordSet = InfoFor(m, w).texCoord
Copied(m, w) ==
  IF InfoFor(m, w).index < 0 THEN CopyOf(m, w) = Absent
  ELSE PendingInfo(m, w) \/ CopyRight(m, w)
MaterialsMade ==
  \A m \in Elems(gltf.materials) :
    IF Item(coll.materials, m) = Absent THEN Pending({"loadMaterial"}, m)
    ELSE /\ IsMaterial(Item(coll.materials, m))
         /\ \A w \in ToSet(Infos) : Copied(m, w)

LookInv ==
  /\ LoaderInv
  /\ Underway => /\ ImagesFirst /\ TexturesFirst /\ MaterialsFirst
                 /\ ImagesOnce /\ TexturesMade /\ MaterialsMade

(* What a call does to the images, the textures and the materials.         *)
NewImage(i) ==
  /\ Item(coll.images, i) = Absent
  /\ \E v : v # Absent /\ coll'.images = [coll.images EXCEPT ![i + 1] = v]
  /\ coll'.decoded = [coll.decoded EXCEPT ![i + 1] = @ + 1]
  /\ coll'.textures = coll.textures /\ coll'.materials = coll.materials
NewTexture(t) ==
  /\ coll'.textures = [coll.textures EXCEPT ![t + 1] = TextureFor(t)]
  /\ coll'.images = coll.images /\ coll'.decoded = coll.decoded
  /\ coll'.materials = coll.materials
NewMaterial(m) ==
  /\ Item(coll.materials, m) = Absent
  /\ coll'.materials =
       [coll.materials EXCEPT ![m + 1] =
          [type |-> "material", textures |-> [w \in ToSet(Infos) |-> Absent],
           cutoff |-> 0]]
  /\ coll'.images = coll.images /\ coll'.decoded = coll.decoded
  /\ coll'.textures = coll.textures
NewCopy(m, w) ==
  /\ coll'.materials =
       [coll.materials EXCEPT ![m + 1].textures[w] =
          [type |-> "copy", of |-> Item(coll.textures, InfoFor(m, w).index),
           coordSet |-> InfoFor(m, w).texCoord]]
  /\ coll'.images = coll.images /\ coll'.decoded = coll.decoded
  /\ coll'.textures = coll.textures
NewCutoff(m) ==
  /\ \E v : coll'.materials = [coll.materials EXCEPT ![m + 1].cutoff = v]
  /\ coll'.images = coll.images /\ coll'.decoded = coll.decoded
  /\ coll'.textures = coll.textures

(* ... and which calls it makes.                                           *)
Makes(calls) == todo' = calls \o Tail(todo)

(* What each of these calls does when it does not throw: loadTexture.      *)
LEMMA LoadTextureDoes ==
  ASSUME LoaderInv, LoadTexture, load' = "loading"
  PROVE  /\ SameLook
         /\ \/ Item(coll.textures, I) # Absent /\ Makes(<<>>)
            \/ Makes(<<Do("loadImage", SourceOf(I)), Do("makeTexture", I)>>)
<1>1. \/ Item(coll.textures, I) # Absent /\ Skip
      \/ ThrowLoad
      \/ /\ Then(<<Do("loadImage", SourceOf(I)), Do("makeTexture", I)>>)
         /\ coll' = coll
  BY Zenon DEF LoadTexture, SourceOf
<1> QED BY <1>1 DEF Skip, ThrowLoad, Then, Makes, SameLook

(* loadImage.                                                              *)
LEMMA LoadImageDoes ==
  ASSUME LoaderInv, LoadImage, load' = "loading"
  PROVE  /\ Makes(<<>>)
         /\ \/ Item(coll.images, I) # Absent /\ SameLook
            \/ NewImage(I)
<1>1. IsShape(coll, gltf)
  BY HeadTyped DEF LoadImage
<1>2. \/ Item(coll.images, I) # Absent /\ Skip
      \/ ThrowLoad
      \/ /\ Item(coll.images, I) = Absent /\ Then(<<>>)
         /\ \E v : /\ v \in {[type |-> "file", of |-> Item(gltf.images, I).uri],
                             [type |-> "view", of |->
                               <<Item(gltf.bufferViews, Item(gltf.images, I).bufferView).buffer,
                                 SeekBufferView(Item(gltf.bufferViews, Item(gltf.images, I).bufferView), 0)>>]}
                   /\ coll' = [coll EXCEPT !.images[I + 1] = v,
                                           !.decoded[I + 1] = @ + 1]
  BY DEF LoadImage, Decoded
<1>3. ASSUME Item(coll.images, I) = Absent,
             NEW v, v # Absent, 
             coll' = [coll EXCEPT !.images[I + 1] = v, !.decoded[I + 1] = @ + 1]
      PROVE  NewImage(I)
  <2> PICK n : n = coll.decoded[I + 1] + 1
    OBVIOUS
  <2>1. coll' = [coll EXCEPT !.images = [coll.images EXCEPT ![I + 1] = v],
                             !.decoded = [coll.decoded EXCEPT ![I + 1] = n]]
    BY <1>3
  <2>2. /\ coll'.images = [coll.images EXCEPT ![I + 1] = v]
        /\ coll'.decoded = [coll.decoded EXCEPT ![I + 1] = n]
        /\ coll'.textures = coll.textures /\ coll'.materials = coll.materials
    BY <1>1, <2>1 DEF IsShape
  <2> QED BY <1>3, <2>2 DEF NewImage
<1>4. \A x : [type |-> "file", of |-> x] # Absent /\ [type |-> "view", of |-> x] # Absent
  BY DEF Absent
<1> QED BY <1>2, <1>3, <1>4 DEF Skip, ThrowLoad, Then, Makes, SameLook

(* The end of loadTexture.                                                 *)
LEMMA MakeTextureDoes ==
  ASSUME LoaderInv, MakeTexture
  PROVE  Makes(<<>>) /\ NewTexture(I)
<1>1. IsShape(coll, gltf)
  BY HeadTyped DEF MakeTexture
<1>2. /\ coll' = [coll EXCEPT !.textures[I + 1] = TextureFor(I)]
      /\ Makes(<<>>)
  BY DEF MakeTexture, TextureFor, SourceOf, Makes, Then
<1> QED BY <1>1, <1>2 DEF NewTexture, IsShape

(* loadMaterial.                                                           *)
LEMMA LoadMaterialDoes ==
  ASSUME LoaderInv, LoadMaterial
  PROVE  \/ Item(coll.materials, I) # Absent /\ SameLook /\ Makes(<<>>)
         \/ /\ NewMaterial(I)
            /\ Makes([k \in DOMAIN Infos |-> DoIn("getTexture", I, Infos[k])]
                     \o <<Do("setMaterial", I)>>)
<1>1. IsShape(coll, gltf)
  BY HeadTyped DEF LoadMaterial
<1>2. CASE Item(coll.materials, I) # Absent
  BY <1>2 DEF LoadMaterial, Skip, Then, Makes, SameLook
<1>3. CASE Item(coll.materials, I) = Absent
  <2> DEFINE new == [type |-> "material",
                     textures |-> [w \in ToSet(Infos) |-> Absent],
                     cutoff |-> 0]
  <2>1. coll' = [coll EXCEPT !.materials[I + 1] = new]
    BY <1>3 DEF LoadMaterial
  <2>2. Makes([k \in DOMAIN Infos |-> DoIn("getTexture", I, Infos[k])]
              \o <<Do("setMaterial", I)>>)
    BY <1>3, Zenon DEF LoadMaterial, Then, Makes
  <2> HIDE DEF new
  <2>3. /\ coll'.materials = [coll.materials EXCEPT ![I + 1] = new]
        /\ coll'.images = coll.images /\ coll'.decoded = coll.decoded
        /\ coll'.textures = coll.textures
    BY <1>1, <2>1 DEF IsShape
  <2> QED BY <1>3, <2>2, <2>3 DEF NewMaterial, new
<1> QED BY <1>2, <1>3

(* The texture of a material, before it is needed.                         *)
LEMMA GetTextureDoes ==
  ASSUME LoaderInv, GetTexture, load' = "loading"
  PROVE  /\ SameLook
         /\ LET t == InfoFor(I, Head(todo).k).index
            IN  \/ t < 0 /\ Makes(<<>>)
                \/ /\ ~(t < 0)
                   /\ Makes(<<Do("loadTexture", t),
                              DoIn("setTexture", I, Head(todo).k)>>)
<1> PICK t : t = InfoFor(I, Head(todo).k).index
  OBVIOUS
<1>1. \/ t < 0 /\ Skip
      \/ ThrowLoad
      \/ /\ ~(t < 0)
         /\ Then(<<Do("loadTexture", t), DoIn("setTexture", I, Head(todo).k)>>)
         /\ coll' = coll
  BY Zenon DEF GetTexture, InfoFor
<1>2. SameLook
  BY <1>1 DEF Skip, ThrowLoad, SameLook
<1>3. \/ t < 0 /\ Makes(<<>>)
      \/ /\ ~(t < 0)
         /\ Makes(<<Do("loadTexture", t), DoIn("setTexture", I, Head(todo).k)>>)
  BY <1>1 DEF Skip, ThrowLoad, Then, Makes
<1> QED BY <1>2, <1>3

(* The texture of a material, once it is there.                            *)
LEMMA SetTextureDoes ==
  ASSUME LoaderInv, SetTexture
  PROVE  Makes(<<>>) /\ NewCopy(I, Head(todo).k)
<1>1. IsShape(coll, gltf)
  BY HeadTyped DEF SetTexture
<1> PICK v : v = [type |-> "copy",
                  of |-> Item(coll.textures, InfoFor(I, Head(todo).k).index),
                  coordSet |-> InfoFor(I, Head(todo).k).texCoord]
  OBVIOUS
<1>2. /\ coll' = [coll EXCEPT !.materials[I + 1].textures[Head(todo).k] = v]
      /\ Makes(<<>>)
  BY DEF SetTexture, InfoFor, Makes, Then
<1>3. /\ coll'.materials =
           [coll.materials EXCEPT ![I + 1].textures[Head(todo).k] = v]
      /\ coll'.images = coll.images /\ coll'.decoded = coll.decoded
      /\ coll'.textures = coll.textures
  BY <1>1, <1>2 DEF IsShape
<1> QED BY <1>2, <1>3 DEF NewCopy

(* The end of loadMaterial.                                                *)
LEMMA SetMaterialDoes ==
  ASSUME LoaderInv, SetMaterial, load' = "loading"
  PROVE  Makes(<<>>) /\ (SameLook \/ NewCutoff(I))
<1>1. IsShape(coll, gltf)
  BY HeadTyped DEF SetMaterial
<1>2. ~ThrowLoad
  BY DEF ThrowLoad
<1>3. /\ Makes(<<>>)
      /\ \/ coll' = coll
         \/ \E v : coll' = [coll EXCEPT !.materials[I + 1].cutoff = v]
  BY <1>2 DEF SetMaterial, Makes, Then
<1>4. ASSUME NEW v, coll' = [coll EXCEPT !.materials[I + 1].cutoff = v]
      PROVE  NewCutoff(I)
  BY <1>1, <1>4 DEF NewCutoff, IsShape
<1> QED BY <1>3, <1>4 DEF SameLook

(* What is to be done after a call, and what was made before it.           *)
Working(calls) ==
  /\ gltf \in FileType /\ Valid(gltf) /\ gltf' = gltf
  /\ todo \in Seq(CallsOf(gltf)) /\ todo # <<>>
  /\ calls \in Seq(CallsOf(gltf)) /\ Makes(calls)
  /\ IsShape(coll, gltf) /\ IsShape(coll', gltf)

(* A call that does not throw puts the calls that it makes before the      *)
(* others.                                                                 *)
LEMMA CallingWorks ==
  ASSUME LoaderInv, Calling, load' = "loading"
  PROVE  /\ \E calls \in Seq(MadeFrom(gltf, Head(todo).do)) : Working(calls)
         /\ \A calls \in Seq(CallsOf(gltf)) : Makes(calls) => Working(calls)
<1>1. Moves
  BY CallsMove
<1>2. /\ todo # <<>> /\ gltf \in FileType /\ Valid(gltf) /\ gltf' = gltf
      /\ todo \in Seq(CallsOf(gltf)) /\ IsShape(coll, gltf)
  BY <1>1 DEF Moves, LoaderInv, Underway, ParserInv, vars
<1>3. IsShape(coll', gltf)
  BY <1>2, CallTyped DEF LoaderInv, Underway
<1>4. \A calls \in Seq(CallsOf(gltf)) : Makes(calls) => Working(calls)
  BY <1>2, <1>3 DEF Working
<1>5. PICK calls \in Seq(MadeFrom(gltf, Head(todo).do)) :
         todo' = calls \o Tail(todo)
  BY <1>1 DEF Moves
<1>6. calls \in Seq(CallsOf(gltf))
  <2>1. \A k \in 1..Len(calls) : calls[k] \in CallsOf(gltf)
    BY ElementOfSeq DEF MadeFrom
  <2>2. calls = [k \in 1..Len(calls) |-> calls[k]]
        /\ DOMAIN calls = 1..Len(calls) /\ Len(calls) \in Nat
    OBVIOUS
  <2> QED BY <2>1, <2>2, Listed
<1> QED BY <1>4, <1>5, <1>6 DEF Makes

(* What is pending stays so until it is its turn.                          *)
LEMMA PendingKept ==
  ASSUME NEW calls, Working(calls), NEW whats, NEW i, Pending(whats, i)
  PROVE  Pending(whats, i)' \/ (Head(todo).do \in whats /\ Head(todo).i = i)
<1>1. ToSet(todo) \subseteq ToSet(todo') \cup {Head(todo)}
  BY Positions DEF Working, Makes
<1> QED BY <1>1 DEF Pending

(* So does the texture of a material.                                      *)
LEMMA PendingInfoKept ==
  ASSUME NEW calls, Working(calls), NEW m, NEW w, PendingInfo(m, w)
  PROVE  \/ PendingInfo(m, w)'
         \/ /\ Head(todo).do \in {"getTexture", "setTexture"}
            /\ Head(todo).i = m /\ Head(todo).k = w
<1>1. ToSet(todo) \subseteq ToSet(todo') \cup {Head(todo)}
  BY Positions DEF Working, Makes
<1> QED BY <1>1 DEF PendingInfo

(* What a call makes is pending.                                           *)
LEMMA MadePending ==
  ASSUME NEW calls, Working(calls), NEW k \in 1..Len(calls)
  PROVE  calls[k] \in ToSet(todo')
<1>1. ToSet(calls) \subseteq ToSet(todo')
  BY Positions DEF Working, Makes
<1>2. DOMAIN calls = 1..Len(calls)
  BY DEF Working
<1> QED BY <1>1, <1>2 DEF ToSet

ImagesStay ==
  \A i \in Elems(gltf.images) :
    Item(coll.images, i) # Absent => Item(coll'.images, i) = Item(coll.images, i)
TexturesStay ==
  \A t \in Elems(gltf.textures) :
    Item(coll.textures, t) # Absent =>
      Item(coll'.textures, t) = Item(coll.textures, t)
MaterialsStay ==
  \A m \in Elems(gltf.materials) :
    Item(coll.materials, m) # Absent => Item(coll'.materials, m) # Absent

(* A texture waits for its image: the order is kept.                       *)
LEMMA ImagesFirstKept ==
  ASSUME NEW calls, Working(calls), ImagesFirst, ImagesStay,
         Head(todo).do = "loadImage" =>
           Item(coll'.images, Head(todo).i) # Absent,
         \A p \in 1..Len(calls) : calls[p].do = "makeTexture" =>
           p > 1 /\ calls[p - 1].do = "loadImage"
           /\ calls[p - 1].i = SourceOf(calls[p].i)
  PROVE  ImagesFirst'
<1> PICK next : next = todo'
  OBVIOUS
<1>1. /\ next \in Seq(CallsOf(gltf))
      /\ \A p \in 1..Len(calls) : next[p] = calls[p]
      /\ \A p \in (Len(calls) + 1)..Len(next) :
           /\ next[p] = todo[p - Len(calls) + 1]
           /\ p - Len(calls) + 1 \in 2..Len(todo)
  BY Positions DEF Working, Makes
<1>2. /\ Len(calls) \in Nat /\ Len(todo) \in Nat /\ Len(next) \in Nat
      /\ DOMAIN todo = 1..Len(todo) /\ DOMAIN next = 1..Len(next)
      /\ Head(todo) = todo[1] /\ gltf' = gltf
      /\ gltf \in FileType /\ Valid(gltf)
      /\ \A p \in 1..Len(todo) : todo[p] \in CallsOf(gltf)
  BY <1>1 DEF Working
<1>3. SUFFICES ASSUME NEW p \in 1..Len(next), next[p].do = "makeTexture"
      PROVE  \/ Item(coll'.images, SourceOf(next[p].i)) # Absent
             \/ /\ p > 1 /\ next[p - 1].do = "loadImage"
                /\ next[p - 1].i = SourceOf(next[p].i)
  BY <1>2 DEF ImagesFirst, SourceOf
<1>4. CASE p \in 1..Len(calls)
  <2>1. p - 1 \in 1..Len(calls) \/ p = 1
    BY <1>4, <1>2
  <2> QED BY <1>1, <1>3, <1>4, <2>1
<1>5. CASE p \notin 1..Len(calls)
  <2>1. p \in (Len(calls) + 1)..Len(next)
    BY <1>5, <1>2
  <2> PICK q \in 2..Len(todo) : q = p - Len(calls) + 1
    BY <2>1, <1>1
  <2>2. next[p] = todo[q] /\ q \in DOMAIN todo /\ todo[q] \in CallsOf(gltf)
    BY <2>1, <1>1, <1>2
  <2> PICK i : i = SourceOf(todo[q].i)
    OBVIOUS
  <2>3. i \in Elems(gltf.images)
    BY <2>2, <1>2, <1>3, CallKinds, LookRefers DEF TextureCalls, SourceOf
  <2>4. \/ Item(coll.images, i) # Absent
        \/ todo[q - 1].do = "loadImage" /\ todo[q - 1].i = i
    BY <2>2, <1>3 DEF ImagesFirst
  <2>5. CASE Item(coll.images, i) # Absent
    BY <2>5, <2>2, <2>3 DEF ImagesStay
  <2>6. CASE todo[q - 1].do = "loadImage" /\ todo[q - 1].i = i /\ q = 2
    <3>1. todo[q - 1] = Head(todo)
      BY <2>6, <1>2
    <3>2. Item(coll'.images, Head(todo).i) # Absent /\ Head(todo).i = i
      BY <2>6, <3>1
    <3> QED BY <3>2, <2>2
  <2>7. CASE todo[q - 1].do = "loadImage" /\ todo[q - 1].i = i /\ q # 2
    <3>1. p - 1 \in (Len(calls) + 1)..Len(next) /\ (p - 1) - Len(calls) + 1 = q - 1
          /\ p > 1
      BY <2>7, <2>1, <1>2
    <3>2. next[p - 1] = todo[q - 1]
      BY <3>1, <1>1
    <3> QED BY <3>1, <3>2, <2>2, <2>7
  <2> QED BY <2>4, <2>5, <2>6, <2>7
<1> QED BY <1>4, <1>5

(* A material waits for its texture: the order is kept.                    *)
LEMMA TexturesFirstKept ==
  ASSUME NEW calls, Working(calls), TexturesFirst, TexturesStay,
         Head(todo).do \in {"loadTexture", "makeTexture"} =>
           \/ Item(coll'.textures, Head(todo).i) # Absent
           \/ /\ Len(calls) > 0
              /\ calls[Len(calls)].do \in {"loadTexture", "makeTexture"}
              /\ calls[Len(calls)].i = Head(todo).i,
         \A p \in 1..Len(calls) : calls[p].do = "setTexture" =>
           /\ p > 1 /\ calls[p - 1].do \in {"loadTexture", "makeTexture"}
           /\ calls[p - 1].i = InfoFor(calls[p].i, calls[p].k).index
  PROVE  TexturesFirst'
<1> PICK next : next = todo'
  OBVIOUS
<1>1. /\ next \in Seq(CallsOf(gltf))
      /\ \A p \in 1..Len(calls) : next[p] = calls[p]
      /\ \A p \in (Len(calls) + 1)..Len(next) :
           /\ next[p] = todo[p - Len(calls) + 1]
           /\ p - Len(calls) + 1 \in 2..Len(todo)
  BY Positions DEF Working, Makes
<1>2. /\ Len(calls) \in Nat /\ Len(todo) \in Nat /\ Len(next) \in Nat
      /\ DOMAIN todo = 1..Len(todo) /\ DOMAIN next = 1..Len(next)
      /\ Head(todo) = todo[1] /\ gltf' = gltf
      /\ gltf \in FileType /\ Valid(gltf)
      /\ \A p \in 1..Len(todo) : todo[p] \in CallsOf(gltf)
  BY <1>1 DEF Working
<1>3. SUFFICES ASSUME NEW p \in 1..Len(next), next[p].do = "setTexture"
      PROVE  \/ Item(coll'.textures, InfoFor(next[p].i, next[p].k).index) # Absent
             \/ /\ p > 1 /\ next[p - 1].do \in {"loadTexture", "makeTexture"}
                /\ next[p - 1].i = InfoFor(next[p].i, next[p].k).index
  BY <1>2 DEF TexturesFirst, InfoFor
<1>4. CASE p \in 1..Len(calls)
  <2>1. p - 1 \in 1..Len(calls) \/ p = 1
    BY <1>4, <1>2
  <2> QED BY <1>1, <1>3, <1>4, <2>1
<1>5. CASE p \notin 1..Len(calls)
  <2>1. p \in (Len(calls) + 1)..Len(next)
    BY <1>5, <1>2
  <2> PICK q \in 2..Len(todo) : q = p - Len(calls) + 1
    BY <2>1, <1>1
  <2>2. next[p] = todo[q] /\ q \in DOMAIN todo /\ todo[q] \in CallsOf(gltf)
    BY <2>1, <1>1, <1>2
  <2> PICK t : t = InfoFor(todo[q].i, todo[q].k).index
    OBVIOUS
  <2>3. t \in Elems(gltf.textures)
    BY <2>2, <1>2, <1>3, CallKinds DEF InfoCalls, InfoFor, Item
  <2>4. \/ Item(coll.textures, t) # Absent
        \/ /\ todo[q - 1].do \in {"loadTexture", "makeTexture"}
           /\ todo[q - 1].i = t
    BY <2>2, <1>3 DEF TexturesFirst
  <2>5. CASE Item(coll.textures, t) # Absent
    BY <2>5, <2>2, <2>3 DEF TexturesStay
  <2>6. CASE /\ todo[q - 1].do \in {"loadTexture", "makeTexture"}
             /\ todo[q - 1].i = t /\ q = 2
    <3>0. q - 1 = 1
      BY <2>6
    <3>3. todo[q - 1] = Head(todo)
      BY <3>0, <1>2
    <3>1. \/ Item(coll'.textures, t) # Absent
          \/ /\ Len(calls) > 0
             /\ calls[Len(calls)].do \in {"loadTexture", "makeTexture"}
             /\ calls[Len(calls)].i = t
      BY <2>6, <3>3
    <3>2. p - 1 = Len(calls)
      BY <2>6, <1>2
    <3> QED BY <3>1, <3>2, <2>2, <1>1, <1>2
  <2>7. CASE /\ todo[q - 1].do \in {"loadTexture", "makeTexture"}
             /\ todo[q - 1].i = t /\ q # 2
    <3>1. p - 1 \in (Len(calls) + 1)..Len(next) /\ (p - 1) - Len(calls) + 1 = q - 1
          /\ p > 1
      BY <2>7, <2>1, <1>2
    <3>2. next[p - 1] = todo[q - 1]
      BY <3>1, <1>1
    <3> QED BY <3>1, <3>2, <2>2, <2>7
  <2> QED BY <2>4, <2>5, <2>6, <2>7
<1> QED BY <1>4, <1>5

(* The textures of a material wait for it.                                 *)
LEMMA MaterialsFirstKept ==
  ASSUME NEW calls, Working(calls), MaterialsFirst, MaterialsStay,
         \A p \in 1..Len(calls) :
           calls[p].do \in {"getTexture", "setTexture", "setMaterial"} =>
             Item(coll'.materials, calls[p].i) # Absent
  PROVE  MaterialsFirst'
<1> PICK next : next = todo'
  OBVIOUS
<1>1. /\ next \in Seq(CallsOf(gltf))
      /\ \A p \in 1..Len(calls) : next[p] = calls[p]
      /\ \A p \in (Len(calls) + 1)..Len(next) :
           /\ next[p] = todo[p - Len(calls) + 1]
           /\ p - Len(calls) + 1 \in 2..Len(todo)
  BY Positions DEF Working, Makes
<1>2. /\ Len(calls) \in Nat /\ Len(todo) \in Nat /\ Len(next) \in Nat
      /\ DOMAIN todo = 1..Len(todo) /\ DOMAIN next = 1..Len(next)
      /\ \A p \in 1..Len(todo) : todo[p] \in CallsOf(gltf)
  BY <1>1 DEF Working
<1>3. SUFFICES ASSUME NEW p \in 1..Len(next),
             next[p].do \in {"getTexture", "setTexture", "setMaterial"}
      PROVE  Item(coll'.materials, next[p].i) # Absent
  BY <1>2 DEF MaterialsFirst
<1>4. CASE p \in 1..Len(calls)
  BY <1>1, <1>3, <1>4
<1>5. CASE p \notin 1..Len(calls)
  <2>1. p \in (Len(calls) + 1)..Len(next)
    BY <1>5, <1>2
  <2> PICK q \in 2..Len(todo) : q = p - Len(calls) + 1
    BY <2>1, <1>1
  <2>2. next[p] = todo[q] /\ q \in DOMAIN todo /\ todo[q] \in CallsOf(gltf)
    BY <2>1, <1>1, <1>2
  <2>3. todo[q].i \in Elems(gltf.materials)
    BY <2>2, <1>3, CallKinds DEF InfoCalls, MaterialCalls
  <2>4. Item(coll.materials, todo[q].i) # Absent
    BY <2>2, <1>3 DEF MaterialsFirst
  <2> QED BY <2>2, <2>3, <2>4 DEF MaterialsStay
<1> QED BY <1>4, <1>5

(* Textures are right, or pending.                                         *)
LEMMA TexturesMadeKept ==
  ASSUME NEW calls, Working(calls), ImagesStay, TexturesMade,
         \A t \in Elems(gltf.textures) :
           \/ Item(coll'.textures, t) = Item(coll.textures, t)
           \/ /\ Item(coll'.textures, t) = TextureFor(t)
              /\ Item(coll.images, SourceOf(t)) # Absent,
         Head(todo).do \in {"loadTexture", "makeTexture"} =>
           \/ Item(coll'.textures, Head(todo).i) # Absent
           \/ \E k \in 1..Len(calls) :
                /\ calls[k].do \in {"loadTexture", "makeTexture"}
                /\ calls[k].i = Head(todo).i
  PROVE  TexturesMade'
<1>1. gltf' = gltf /\ gltf \in FileType /\ Valid(gltf)
  BY DEF Working
<1>2. SUFFICES ASSUME NEW t \in Elems(gltf.textures)
      PROVE  IF Item(coll'.textures, t) = Absent
             THEN Pending({"loadTexture", "makeTexture"}, t)'
             ELSE /\ Item(coll'.images, SourceOf(t)) # Absent
                  /\ Item(coll'.textures, t) = TextureFor(t)'
  BY <1>1 DEF TexturesMade, SourceOf
<1>3. SourceOf(t) \in Elems(gltf.images)
  BY <1>1, LookRefers DEF SourceOf
<1>4. TextureFor(t) # Absent
  BY DEF TextureFor, Absent
<1>5. ASSUME Item(coll.images, SourceOf(t)) # Absent
      PROVE  /\ Item(coll'.images, SourceOf(t)) # Absent
             /\ TextureFor(t)' = TextureFor(t)
  <2>1. SourceOf(t)' = SourceOf(t)
    BY <1>1 DEF SourceOf
  <2>2. Item(coll'.images, SourceOf(t)) = Item(coll.images, SourceOf(t))
    BY <1>3, <1>5 DEF ImagesStay
  <2>3. SamplerOf(Item(gltf.textures, t))' = SamplerOf(Item(gltf.textures, t))
    BY <1>1 DEF SamplerOf
  <2>4. TextureFor(t)' = TextureFor(t)
    BY <1>1, <2>1, <2>2, <2>3 DEF TextureFor
  <2> QED BY <1>5, <2>2, <2>4
<1>6. CASE Item(coll'.textures, t) = TextureFor(t)
           /\ Item(coll.images, SourceOf(t)) # Absent
  BY <1>4, <1>5, <1>6
<1>7. CASE Item(coll'.textures, t) = Item(coll.textures, t)
  <2>1. CASE Item(coll.textures, t) # Absent
    BY <1>5, <1>7, <2>1 DEF TexturesMade
  <2>2. CASE Item(coll.textures, t) = Absent
    <3>1. Pending({"loadTexture", "makeTexture"}, t)
      BY <2>2 DEF TexturesMade
    <3>2. \/ Pending({"loadTexture", "makeTexture"}, t)'
          \/ Head(todo).do \in {"loadTexture", "makeTexture"} /\ Head(todo).i = t
      BY <3>1, PendingKept
    <3>3. CASE /\ Head(todo).do \in {"loadTexture", "makeTexture"}
               /\ Head(todo).i = t
      <4>1. PICK k \in 1..Len(calls) :
              calls[k].do \in {"loadTexture", "makeTexture"} /\ calls[k].i = t
        BY <1>7, <2>2, <3>3
      <4>2. calls[k] \in ToSet(todo')
        BY <4>1, MadePending
      <4> QED BY <1>7, <2>2, <4>1, <4>2 DEF Pending
    <3> QED BY <1>7, <2>2, <3>2, <3>3
  <2> QED BY <2>1, <2>2
<1> QED BY <1>6, <1>7

(* Materials have the right textures, or these are pending.                *)
LEMMA MaterialsMadeKept ==
  ASSUME NEW calls, Working(calls), TexturesStay, MaterialsMade,
         \A m \in Elems(gltf.materials) :
           Item(coll.materials, m) = Absent =>
             \/ Item(coll'.materials, m) = Absent
             \/ /\ IsMaterial(Item(coll'.materials, m))
                /\ \A w \in ToSet(Infos) :
                     /\ CopyOf(m, w)' = Absent
                     /\ \E k \in 1..Len(calls) :
                          /\ calls[k].do = "getTexture"
                          /\ calls[k].i = m /\ calls[k].k = w,
         \A m \in Elems(gltf.materials) :
           Item(coll.materials, m) # Absent =>
             /\ IsMaterial(Item(coll'.materials, m))
             /\ \A w \in ToSet(Infos) :
                  \/ CopyOf(m, w)' = CopyOf(m, w)
                  \/ ~(InfoFor(m, w).index < 0) /\ CopyRight(m, w)',
         Head(todo).do = "loadMaterial" =>
           Item(coll'.materials, Head(todo).i) # Absent,
         \A m, w :
           /\ Head(todo).do \in {"getTexture", "setTexture"}
           /\ Head(todo).i = m /\ Head(todo).k = w
           => \/ InfoFor(m, w).index < 0
              \/ CopyRight(m, w)'
              \/ \E k \in 1..Len(calls) :
                   /\ calls[k].do = "setTexture" /\ calls[k].i = m
                   /\ calls[k].k = w
  PROVE  MaterialsMade'
<1>1. gltf' = gltf /\ gltf \in FileType /\ Valid(gltf)
  BY DEF Working
<1>a. \A x, y : InfoFor(x, y)' = InfoFor(x, y)
  BY <1>1 DEF InfoFor
<1>b. \A v : IsMaterial(v) => v # Absent
  BY DEF IsMaterial, Absent
<1>2. SUFFICES ASSUME NEW m \in Elems(gltf.materials)
      PROVE  IF Item(coll'.materials, m) = Absent
             THEN Pending({"loadMaterial"}, m)'
             ELSE /\ IsMaterial(Item(coll'.materials, m))
                  /\ \A w \in ToSet(Infos) : Copied(m, w)'
  BY <1>1 DEF MaterialsMade
<1>3. CASE Item(coll.materials, m) = Absent
  <2>1. CASE Item(coll'.materials, m) = Absent
    <3>1. Pending({"loadMaterial"}, m)
      BY <1>3 DEF MaterialsMade
    <3>2. \/ Pending({"loadMaterial"}, m)'
          \/ Head(todo).do = "loadMaterial" /\ Head(todo).i = m
      BY <3>1, PendingKept
    <3> QED BY <2>1, <3>2
  <2>2. CASE Item(coll'.materials, m) # Absent
    <3>1. IsMaterial(Item(coll'.materials, m))
      BY <1>3, <2>2
    <3>2. ASSUME NEW w \in ToSet(Infos)
          PROVE  Copied(m, w)'
      <4>1. CopyOf(m, w)' = Absent
        BY <1>3, <2>2
      <4>2. PICK k \in 1..Len(calls) :
              /\ calls[k].do = "getTexture" /\ calls[k].i = m
              /\ calls[k].k = w
        BY <1>3, <2>2
      <4>3. PendingInfo(m, w)'
        BY <4>2, MadePending DEF PendingInfo
      <4> QED BY <4>1, <4>3 DEF Copied
    <3> QED BY <2>2, <3>1, <3>2
  <2> QED BY <2>1, <2>2
<1>4. CASE Item(coll.materials, m) # Absent
  <2>1. IsMaterial(Item(coll'.materials, m)) /\ Item(coll'.materials, m) # Absent
    BY <1>4, <1>b
  <2>2. ASSUME NEW w \in ToSet(Infos)
        PROVE  Copied(m, w)'
    <3>1. Copied(m, w)
      BY <1>4 DEF MaterialsMade
    <3>2. \/ CopyOf(m, w)' = CopyOf(m, w)
          \/ ~(InfoFor(m, w).index < 0) /\ CopyRight(m, w)'
      BY <1>4
    <3>3. CASE ~(InfoFor(m, w).index < 0) /\ CopyRight(m, w)'
      BY <3>3, <1>a DEF Copied
    <3>4. CASE CopyOf(m, w)' = CopyOf(m, w) /\ InfoFor(m, w).index < 0
      BY <3>1, <3>4, <1>a DEF Copied
    <3>5. CASE CopyOf(m, w)' = CopyOf(m, w) /\ ~(InfoFor(m, w).index < 0)
      <4>1. CASE CopyRight(m, w)
        <5> PICK t : t = InfoFor(m, w).index
          OBVIOUS
        <5>1. t \in Elems(gltf.textures)
          <6>1. t \in Int /\ (t >= 0 => t \in Elems(gltf.textures))
            BY <1>1, LookRefers DEF InfoFor
          <6> QED BY <6>1, <3>5
        <5>2. Item(coll'.textures, t) = Item(coll.textures, t)
              /\ Item(coll.textures, t) # Absent
          BY <4>1, <5>1 DEF TexturesStay, CopyRight
        <5>3. CopyRight(m, w)'
          BY <3>5, <4>1, <5>2, <1>a DEF CopyRight
        <5> QED BY <3>5, <5>3, <1>a DEF Copied
      <4>2. CASE PendingInfo(m, w)
        <5>1. \/ PendingInfo(m, w)'
              \/ /\ Head(todo).do \in {"getTexture", "setTexture"}
                 /\ Head(todo).i = m /\ Head(todo).k = w
          BY <4>2, PendingInfoKept
        <5>2. CASE PendingInfo(m, w)'
          BY <5>2, <3>5, <1>a DEF Copied
        <5>3. CASE /\ Head(todo).do \in {"getTexture", "setTexture"}
                   /\ Head(todo).i = m /\ Head(todo).k = w
          <6>1. \/ CopyRight(m, w)'
                \/ \E k \in 1..Len(calls) :
                     /\ calls[k].do = "setTexture" /\ calls[k].i = m
                     /\ calls[k].k = w
            BY <5>3, <3>5
          <6>2. CASE CopyRight(m, w)'
            BY <6>2, <3>5, <1>a DEF Copied
          <6>3. CASE \E k \in 1..Len(calls) :
                     /\ calls[k].do = "setTexture" /\ calls[k].i = m
                     /\ calls[k].k = w
            <7>1. PendingInfo(m, w)'
              BY <6>3, MadePending DEF PendingInfo
            <7> QED BY <7>1, <3>5, <1>a DEF Copied
          <6> QED BY <6>1, <6>2, <6>3
        <5> QED BY <5>1, <5>2, <5>3
      <4> QED BY <3>1, <3>5, <4>1, <4>2 DEF Copied
    <3> QED BY <3>2, <3>3, <3>4, <3>5
  <2> QED BY <2>1, <2>2
<1> QED BY <1>3, <1>4

LookParts ==
  /\ ImagesFirst /\ TexturesFirst /\ MaterialsFirst
  /\ ImagesOnce /\ TexturesMade /\ MaterialsMade

(* The same, of a call that leaves the materials alone.                    *)
LEMMA MaterialsSameKept ==
  ASSUME NEW calls, Working(calls), TexturesStay, MaterialsMade,
         coll'.materials = coll.materials,
         Head(todo).do = "loadMaterial" =>
           Item(coll.materials, Head(todo).i) # Absent,
         \A m, w :
           /\ Head(todo).do \in {"getTexture", "setTexture"}
           /\ Head(todo).i = m /\ Head(todo).k = w
           => \/ InfoFor(m, w).index < 0
              \/ \E k \in 1..Len(calls) :
                   /\ calls[k].do = "setTexture" /\ calls[k].i = m
                   /\ calls[k].k = w
  PROVE  MaterialsMade' /\ MaterialsStay
<1>1. \A m \in Elems(gltf.materials) :
           Item(coll.materials, m) # Absent =>
             /\ IsMaterial(Item(coll'.materials, m))
             /\ \A w \in ToSet(Infos) : CopyOf(m, w)' = CopyOf(m, w)
  BY DEF MaterialsMade, CopyOf
<1>2. \A m \in Elems(gltf.materials) :
           Item(coll.materials, m) = Absent => Item(coll'.materials, m) = Absent
  OBVIOUS
<1>3. MaterialsMade'
  BY <1>1, <1>2, MaterialsMadeKept
<1> QED BY <1>3 DEF MaterialsStay

(* A call that has nothing to do with them.                                *)
LEMMA LookQuiet ==
  ASSUME LookParts, NEW calls, Working(calls), SameLook,
         Head(todo).do \notin
           {"loadImage", "loadTexture", "makeTexture", "loadMaterial",
            "getTexture", "setTexture"},
         \A k \in 1..Len(calls) :
           calls[k].do \notin
             {"makeTexture", "setTexture", "getTexture", "setMaterial"}
  PROVE  LookParts'
<1>1. ImagesStay /\ TexturesStay /\ MaterialsStay
  BY DEF SameLook, ImagesStay, TexturesStay, MaterialsStay
<1>2. ImagesFirst'
  BY <1>1, ImagesFirstKept DEF LookParts
<1>3. TexturesFirst'
  BY <1>1, TexturesFirstKept DEF LookParts
<1>4. MaterialsFirst'
  BY <1>1, MaterialsFirstKept DEF LookParts
<1>5. ImagesOnce'
  BY DEF LookParts, SameLook, ImagesOnce, Working
<1>6. TexturesMade'
  <2>1. \A t \in Elems(gltf.textures) :
           Item(coll'.textures, t) = Item(coll.textures, t)
    BY DEF SameLook
  <2> QED BY <1>1, <2>1, TexturesMadeKept DEF LookParts
<1>7. MaterialsMade'
  BY <1>1, MaterialsSameKept DEF LookParts, SameLook
<1> QED BY <1>2, <1>3, <1>4, <1>5, <1>6, <1>7 DEF LookParts

(* Each call keeps these parts: loadTexture.                               *)
LEMMA LoadTextureKept ==
  ASSUME LoaderInv, LookParts, LoadTexture, load' = "loading"
  PROVE  LookParts'
<1>0. /\ Head(todo).do = "loadTexture" /\ Head(todo).i = I
      /\ Head(todo) \in CallsOf(gltf) /\ gltf \in FileType /\ Valid(gltf)
  BY HeadTyped DEF LoadTexture, I
<1>1. I \in Elems(gltf.textures) /\ SourceOf(I) \in Elems(gltf.images)
  BY <1>0, CallKinds, LookRefers DEF I, TextureCalls, SourceOf
<1>2. PICK calls \in Seq(CallsOf(gltf)) :
         /\ Makes(calls)
         /\ \/ Item(coll.textures, I) # Absent /\ calls = <<>>
            \/ calls = <<Do("loadImage", SourceOf(I)), Do("makeTexture", I)>>
  <2>1. /\ <<>> \in Seq(CallsOf(gltf))
        /\ <<Do("loadImage", SourceOf(I)), Do("makeTexture", I)>>
             \in Seq(CallsOf(gltf))
    BY <1>1, CallsMade
  <2>2. \/ Item(coll.textures, I) # Absent /\ Makes(<<>>)
        \/ Makes(<<Do("loadImage", SourceOf(I)), Do("makeTexture", I)>>)
    BY LoadTextureDoes
  <2> QED BY <2>1, <2>2, Zenon
<1>3. Working(calls)
  BY <1>2, CallingWorks DEF Calling, LookCall
<1>4. SameLook
  BY LoadTextureDoes
<1>5. ImagesStay /\ TexturesStay /\ MaterialsStay
  BY <1>4 DEF SameLook, ImagesStay, TexturesStay, MaterialsStay
<1>6. \/ /\ Item(coll'.textures, I) # Absent /\ Len(calls) = 0
      \/ /\ Len(calls) = 2
         /\ calls[1].do = "loadImage" /\ calls[1].i = SourceOf(I)
         /\ calls[2].do = "makeTexture" /\ calls[2].i = I
  BY <1>2, <1>4 DEF Do, SameLook
<1> HIDE DEF I
<1>7. ImagesFirst'
  <2>1. \A p \in 1..Len(calls) : calls[p].do = "makeTexture" =>
           p > 1 /\ calls[p - 1].do = "loadImage"
           /\ calls[p - 1].i = SourceOf(calls[p].i)
    BY <1>6
  <2> QED BY <1>0, <1>3, <1>5, <2>1, ImagesFirstKept DEF LookParts
<1>8. TexturesFirst'
  <2>1. \/ Item(coll'.textures, Head(todo).i) # Absent
        \/ /\ Len(calls) > 0
           /\ calls[Len(calls)].do \in {"loadTexture", "makeTexture"}
           /\ calls[Len(calls)].i = Head(todo).i
    BY <1>0, <1>6
  <2>2. \A p \in 1..Len(calls) : calls[p].do # "setTexture"
    BY <1>6
  <2> QED BY <1>3, <1>5, <2>1, <2>2, TexturesFirstKept DEF LookParts
<1>9. MaterialsFirst'
  <2>1. \A p \in 1..Len(calls) :
           calls[p].do \notin {"getTexture", "setTexture", "setMaterial"}
    BY <1>6
  <2> QED BY <1>3, <1>5, <2>1, MaterialsFirstKept DEF LookParts
<1>10. ImagesOnce'
  BY <1>3, <1>4 DEF LookParts, SameLook, ImagesOnce, Working
<1>11. TexturesMade'
  <2>1. \A t \in Elems(gltf.textures) :
           Item(coll'.textures, t) = Item(coll.textures, t)
    BY <1>4 DEF SameLook
  <2>2. \/ Item(coll'.textures, Head(todo).i) # Absent
        \/ \E k \in 1..Len(calls) :
             /\ calls[k].do \in {"loadTexture", "makeTexture"}
             /\ calls[k].i = Head(todo).i
    BY <1>0, <1>6
  <2> QED BY <1>3, <1>5, <2>1, <2>2, TexturesMadeKept DEF LookParts
<1>12. MaterialsMade'
  BY <1>0, <1>3, <1>4, <1>5, MaterialsSameKept DEF LookParts, SameLook
<1> QED BY <1>7, <1>8, <1>9, <1>10, <1>11, <1>12 DEF LookParts

(* loadImage.                                                              *)
LEMMA LoadImageKept ==
  ASSUME LoaderInv, LookParts, LoadImage, load' = "loading"
  PROVE  LookParts'
<1>0. /\ Head(todo).do = "loadImage" /\ Head(todo).i = I
      /\ Head(todo) \in CallsOf(gltf) /\ gltf \in FileType /\ Valid(gltf)
  BY HeadTyped DEF LoadImage, I
<1>1. I \in Elems(gltf.images)
  BY <1>0, CallKinds DEF I, ImageCalls
<1>2. PICK calls \in Seq(CallsOf(gltf)) : calls = <<>>
  <2>1. <<>> \in Seq(CallsOf(gltf))
    OBVIOUS
  <2> QED BY <2>1, Zenon
<1>3. Working(calls)
  BY <1>2, CallingWorks, LoadImageDoes DEF Calling, LookCall
<1>4. Len(calls) = 0
  BY <1>2
<1> HIDE DEF I
<1>5. Over(coll.images, gltf.images) /\ Over(coll.decoded, gltf.images)
  BY <1>3 DEF Working, IsShape
<1>6. (Item(coll.images, I) # Absent /\ SameLook) \/ NewImage(I)
  BY LoadImageDoes
<1>7. /\ coll'.textures = coll.textures /\ coll'.materials = coll.materials
      /\ Item(coll'.images, I) # Absent
      /\ \A i \in Elems(gltf.images) : i # I =>
           /\ Item(coll'.images, i) = Item(coll.images, i)
           /\ Item(coll'.decoded, i) = Item(coll.decoded, i)
      /\ \/ /\ Item(coll.images, I) # Absent
            /\ Item(coll'.images, I) = Item(coll.images, I)
            /\ Item(coll'.decoded, I) = Item(coll.decoded, I)
         \/ /\ Item(coll.images, I) = Absent
            /\ Item(coll'.decoded, I) = Item(coll.decoded, I) + 1
  <2>1. CASE Item(coll.images, I) # Absent /\ SameLook
    BY <2>1 DEF SameLook
  <2>2. CASE NewImage(I)
    <3>1. /\ DOMAIN coll.images = DOMAIN gltf.images
          /\ DOMAIN coll.decoded = DOMAIN gltf.images
      BY <1>5 DEF Over
    <3>2. \A i \in Elems(gltf.images) : i + 1 \in DOMAIN gltf.images /\ i \in Int
      <4>1. gltf.images \in Seq(ImageType)
        BY <1>0 DEF FileType
      <4> QED BY <4>1 DEF Elems
    <3> PICK v : v # Absent /\ coll'.images = [coll.images EXCEPT ![I + 1] = v]
      BY <2>2 DEF NewImage
    <3>3. coll'.decoded = [coll.decoded EXCEPT ![I + 1] = Item(coll.decoded, I) + 1]
      BY <2>2 DEF NewImage, Item
    <3>4. Item(coll'.images, I) # Absent
      BY <1>1, <3>1, <3>2 DEF Item
    <3>5. \A i \in Elems(gltf.images) : i # I =>
           /\ Item(coll'.images, i) = Item(coll.images, i)
           /\ Item(coll'.decoded, i) = Item(coll.decoded, i)
      BY <1>1, <3>1, <3>2, <3>3 DEF Item
    <3>6. Item(coll'.decoded, I) = Item(coll.decoded, I) + 1
      BY <1>1, <3>1, <3>2, <3>3 DEF Item
    <3> QED BY <2>2, <3>4, <3>5, <3>6 DEF NewImage
  <2> QED BY <1>6, <2>1, <2>2
<1>8. ImagesStay /\ TexturesStay /\ MaterialsStay
  BY <1>7 DEF ImagesStay, TexturesStay, MaterialsStay
<1>9. ImagesFirst'
  BY <1>0, <1>3, <1>4, <1>7, <1>8, ImagesFirstKept DEF LookParts
<1>10. TexturesFirst'
  BY <1>0, <1>3, <1>4, <1>8, TexturesFirstKept DEF LookParts
<1>11. MaterialsFirst'
  BY <1>0, <1>3, <1>4, <1>8, MaterialsFirstKept DEF LookParts
<1>12. ImagesOnce'
  <2>1. \A i \in Elems(gltf.images) : Item(coll'.decoded, i) =
           IF Item(coll'.images, i) = Absent THEN 0 ELSE 1
    <3> TAKE i \in Elems(gltf.images)
    <3>1. CASE i # I
      BY <3>1, <1>7 DEF LookParts, ImagesOnce
    <3>2. CASE i = I
      <4>1. Item(coll.decoded, I) = IF Item(coll.images, I) = Absent THEN 0 ELSE 1
        BY <1>1 DEF LookParts, ImagesOnce
      <4> QED BY <3>2, <4>1, <1>7
    <3> QED BY <3>1, <3>2
  <2> QED BY <2>1, <1>3 DEF ImagesOnce, Working
<1>13. TexturesMade'
  <2>1. \A t \in Elems(gltf.textures) :
           Item(coll'.textures, t) = Item(coll.textures, t)
    BY <1>7
  <2> QED BY <1>0, <1>3, <1>8, <2>1, TexturesMadeKept DEF LookParts
<1>14. MaterialsMade'
  BY <1>0, <1>3, <1>7, <1>8, MaterialsSameKept DEF LookParts
<1> QED BY <1>9, <1>10, <1>11, <1>12, <1>13, <1>14 DEF LookParts

(* The next call needs no other before it.                                 *)
LEMMA HeadReady ==
  ASSUME LoaderInv, LookParts, load = "loading", todo # <<>>
  PROVE  /\ Head(todo).do = "makeTexture" =>
              Item(coll.images, SourceOf(Head(todo).i)) # Absent
         /\ Head(todo).do = "setTexture" =>
              Item(coll.textures,
                   InfoFor(Head(todo).i, Head(todo).k).index) # Absent
         /\ Head(todo).do \in {"getTexture", "setTexture", "setMaterial"} =>
              Item(coll.materials, Head(todo).i) # Absent
<1>1. todo \in Seq(CallsOf(gltf))
  BY DEF LoaderInv, Underway
<1>2. 1 \in DOMAIN todo /\ todo[1] = Head(todo) /\ ~(1 > 1)
  BY <1>1
<1>3. Head(todo).do = "makeTexture" =>
        Item(coll.images, SourceOf(Head(todo).i)) # Absent
  BY <1>2 DEF LookParts, ImagesFirst
<1>4. Head(todo).do = "setTexture" =>
        Item(coll.textures, InfoFor(Head(todo).i, Head(todo).k).index) # Absent
  BY <1>2 DEF LookParts, TexturesFirst
<1>5. Head(todo).do \in {"getTexture", "setTexture", "setMaterial"} =>
        Item(coll.materials, Head(todo).i) # Absent
  BY <1>2 DEF LookParts, MaterialsFirst
<1> QED BY <1>3, <1>4, <1>5

(* One element of a list is replaced.                                      *)
Put(next, list, of, i, v) ==
  /\ Item(next, i) = v
  /\ \A j \in Elems(of) : j # i => Item(next, j) = Item(list, j)

(* A list with one element set.                                            *)
LEMMA ItemPut ==
  ASSUME NEW T, NEW of \in Seq(T), NEW list, Over(list, of),
         NEW i \in Elems(of), NEW v
  PROVE  Put([list EXCEPT ![i + 1] = v], list, of, i, v)
<1>1. DOMAIN list = 1..Len(of) /\ Len(of) \in Nat
  BY DEF Over
<1> QED BY <1>1 DEF Put, Item, Elems

HasCopy(u, v, w, x) ==
  /\ IsMaterial(u) /\ u.textures[w] = x
  /\ \A y \in ToSet(Infos) : y # w => u.textures[y] = v.textures[y]

(* A material with one texture set.                                        *)
LEMMA CopyPut ==
  ASSUME NEW v, IsMaterial(v), NEW w \in ToSet(Infos), NEW x
  PROVE  HasCopy([v EXCEPT !.textures[w] = x], v, w, x)
<1> PICK u : u = [v EXCEPT !.textures[w] = x]
  OBVIOUS
<1>1. u = [v EXCEPT !.textures = [v.textures EXCEPT ![w] = x]]
  OBVIOUS
<1>2. /\ u.textures = [v.textures EXCEPT ![w] = x]
      /\ u.cutoff = v.cutoff
      /\ u = [type |-> "material", textures |-> u.textures, cutoff |-> u.cutoff]
  BY <1>1 DEF IsMaterial
<1>3. DOMAIN v.textures = ToSet(Infos)
  BY DEF IsMaterial
<1>4. u.textures = [y \in ToSet(Infos) |-> u.textures[y]]
  BY <1>2, <1>3
<1> QED BY <1>2, <1>3, <1>4 DEF IsMaterial, HasCopy

(* A material with its cutoff set has the textures it had.                 *)
LEMMA CutoffPut ==
  ASSUME NEW v, IsMaterial(v), NEW x, NEW u, u = [v EXCEPT !.cutoff = x]
  PROVE  IsMaterial(u) /\ u.textures = v.textures
<1>1. /\ u.textures = v.textures
      /\ u = [type |-> "material", textures |-> u.textures, cutoff |-> u.cutoff]
  BY DEF IsMaterial
<1> QED BY <1>1 DEF IsMaterial

(* The end of loadTexture.                                                 *)
LEMMA MakeTextureKept ==
  ASSUME LoaderInv, LookParts, MakeTexture, load' = "loading"
  PROVE  LookParts'
<1>0. /\ Head(todo).do = "makeTexture" /\ Head(todo).i = I
      /\ load = "loading" /\ todo # <<>>
      /\ Head(todo) \in CallsOf(gltf) /\ gltf \in FileType /\ Valid(gltf)
  BY HeadTyped DEF MakeTexture, I
<1>1. I \in Elems(gltf.textures)
  BY <1>0, CallKinds DEF I, TextureCalls
<1>a. Item(coll.images, SourceOf(I)) # Absent
  BY <1>0, HeadReady
<1>2. PICK calls \in Seq(CallsOf(gltf)) : calls = <<>>
  <2>1. <<>> \in Seq(CallsOf(gltf))
    OBVIOUS
  <2> QED BY <2>1, Zenon
<1>3. Working(calls)
  BY <1>2, CallingWorks, MakeTextureDoes DEF Calling, LookCall
<1>4. Len(calls) = 0
  BY <1>2
<1>6. NewTexture(I)
  BY MakeTextureDoes
<1> HIDE DEF I
<1>7. /\ Item(coll'.textures, I) = TextureFor(I)
      /\ \A t \in Elems(gltf.textures) : t # I =>
           Item(coll'.textures, t) = Item(coll.textures, t)
  <2>1. gltf.textures \in Seq(TextureType)
    BY <1>0 DEF FileType
  <2>2. Over(coll.textures, gltf.textures)
    BY <1>3 DEF Working, IsShape
  <2>3. coll'.textures = [coll.textures EXCEPT ![I + 1] = TextureFor(I)]
    BY <1>6 DEF NewTexture
  <2>4. Put(coll'.textures, coll.textures, gltf.textures, I, TextureFor(I))
    BY <1>1, <2>1, <2>2, <2>3, ItemPut
  <2> QED BY <2>4 DEF Put
<1>8. ImagesStay /\ MaterialsStay
  BY <1>6 DEF ImagesStay, MaterialsStay, NewTexture
<1>b. TexturesStay
  BY <1>1, <1>7 DEF TexturesStay, LookParts, TexturesMade
<1>c. TextureFor(I) # Absent
  BY DEF TextureFor, Absent
<1>9. ImagesFirst'
  BY <1>0, <1>3, <1>4, <1>8, ImagesFirstKept DEF LookParts
<1>10. TexturesFirst'
  BY <1>0, <1>3, <1>4, <1>7, <1>b, <1>c, TexturesFirstKept DEF LookParts
<1>11. MaterialsFirst'
  BY <1>0, <1>3, <1>4, <1>8, MaterialsFirstKept DEF LookParts
<1>12. ImagesOnce'
  BY <1>3, <1>6 DEF LookParts, NewTexture, ImagesOnce, Working
<1>13. TexturesMade'
  <2>1. \A t \in Elems(gltf.textures) :
           \/ Item(coll'.textures, t) = Item(coll.textures, t)
           \/ /\ Item(coll'.textures, t) = TextureFor(t)
              /\ Item(coll.images, SourceOf(t)) # Absent
    BY <1>7, <1>a
  <2> QED BY <1>0, <1>3, <1>7, <1>8, <1>c, <2>1, TexturesMadeKept DEF LookParts
<1>14. MaterialsMade'
  BY <1>0, <1>3, <1>6, <1>8, <1>b, MaterialsSameKept DEF LookParts, NewTexture
<1> QED BY <1>9, <1>10, <1>11, <1>12, <1>13, <1>14 DEF LookParts

(* The texture of a material, before it is needed.                         *)
LEMMA GetTextureKept ==
  ASSUME LoaderInv, LookParts, GetTexture, load' = "loading"
  PROVE  LookParts'
<1>0. /\ Head(todo).do = "getTexture" /\ Head(todo).i = I
      /\ load = "loading" /\ todo # <<>>
      /\ Head(todo) \in CallsOf(gltf) /\ gltf \in FileType /\ Valid(gltf)
  BY HeadTyped DEF GetTexture, I
<1> PICK w : w = Head(todo).k
  OBVIOUS
<1>1. I \in Elems(gltf.materials) /\ w \in ToSet(Infos)
  BY <1>0, CallKinds DEF I, InfoCalls
<1>a. Item(coll.materials, I) # Absent
  BY <1>0, HeadReady
<1> PICK t : t = InfoFor(I, w).index
  OBVIOUS
<1>b. t \in Int /\ (~(t < 0) => t \in Elems(gltf.textures))
  <2>1. t \in Int /\ (t >= 0 => t \in Elems(gltf.textures))
    BY <1>0, <1>1, LookRefers DEF InfoFor
  <2> QED BY <2>1
<1>2. PICK calls \in Seq(CallsOf(gltf)) :
         /\ Makes(calls)
         /\ \/ t < 0 /\ calls = <<>>
            \/ /\ ~(t < 0)
               /\ calls = <<Do("loadTexture", t), DoIn("setTexture", I, w)>>
  <2>1. <<>> \in Seq(CallsOf(gltf))
    OBVIOUS
  <2>2. ASSUME ~(t < 0)
        PROVE  <<Do("loadTexture", t), DoIn("setTexture", I, w)>>
                 \in Seq(CallsOf(gltf))
    <3>1. Do("loadTexture", t) \in CallsOf(gltf)
      BY <1>b, <2>2, CallsMade
    <3>2. DoIn("setTexture", I, w) \in CallsOf(gltf)
      BY <1>1, <1>b, <2>2, CallsMadeIn DEF InfoFor, Item
    <3> QED BY <3>1, <3>2
  <2>3. \/ t < 0 /\ Makes(<<>>)
        \/ /\ ~(t < 0)
           /\ Makes(<<Do("loadTexture", t), DoIn("setTexture", I, w)>>)
    BY GetTextureDoes
  <2> QED BY <2>1, <2>2, <2>3, Zenon
<1>3. Working(calls)
  BY <1>2, CallingWorks DEF Calling, LookCall
<1>4. SameLook
  BY GetTextureDoes
<1>5. ImagesStay /\ TexturesStay /\ MaterialsStay
  BY <1>4 DEF SameLook, ImagesStay, TexturesStay, MaterialsStay
<1>6. \/ t < 0 /\ Len(calls) = 0
      \/ /\ Len(calls) = 2
         /\ calls[1].do = "loadTexture" /\ calls[1].i = t
         /\ calls[2].do = "setTexture" /\ calls[2].i = I /\ calls[2].k = w
  BY <1>2 DEF Do, DoIn
<1> HIDE DEF I
<1>7. ImagesFirst'
  <2>1. \A p \in 1..Len(calls) : calls[p].do # "makeTexture"
    BY <1>6
  <2> QED BY <1>0, <1>3, <1>5, <2>1, ImagesFirstKept DEF LookParts
<1>8. TexturesFirst'
  <2>1. \A p \in 1..Len(calls) : calls[p].do = "setTexture" =>
           /\ p > 1 /\ calls[p - 1].do \in {"loadTexture", "makeTexture"}
           /\ calls[p - 1].i = InfoFor(calls[p].i, calls[p].k).index
    BY <1>6
  <2> QED BY <1>0, <1>3, <1>5, <2>1, TexturesFirstKept DEF LookParts
<1>9. MaterialsFirst'
  <2>1. \A p \in 1..Len(calls) :
           calls[p].do \in {"getTexture", "setTexture", "setMaterial"} =>
             Item(coll'.materials, calls[p].i) # Absent
    BY <1>a, <1>4, <1>6 DEF SameLook
  <2> QED BY <1>3, <1>5, <2>1, MaterialsFirstKept DEF LookParts
<1>10. ImagesOnce'
  BY <1>3, <1>4 DEF LookParts, SameLook, ImagesOnce, Working
<1>11. TexturesMade'
  <2>1. \A x \in Elems(gltf.textures) :
           Item(coll'.textures, x) = Item(coll.textures, x)
    BY <1>4 DEF SameLook
  <2> QED BY <1>0, <1>3, <1>5, <2>1, TexturesMadeKept DEF LookParts
<1>12. MaterialsMade'
  <2>1. \A m, x :
           /\ Head(todo).do \in {"getTexture", "setTexture"}
           /\ Head(todo).i = m /\ Head(todo).k = x
           => \/ InfoFor(m, x).index < 0
              \/ \E k \in 1..Len(calls) :
                   /\ calls[k].do = "setTexture" /\ calls[k].i = m
                   /\ calls[k].k = x
    BY <1>0, <1>6
  <2> QED BY <1>0, <1>3, <1>4, <1>5, <2>1, MaterialsSameKept
          DEF LookParts, SameLook
<1> QED BY <1>7, <1>8, <1>9, <1>10, <1>11, <1>12 DEF LookParts

(* A material is changed after the textures were made.                     *)
LEMMA MaterialChanged ==
  ASSUME NEW calls, Working(calls), LookParts, Len(calls) = 0,
         Head(todo).do \notin {"loadImage", "loadTexture", "makeTexture"},
         coll'.images = coll.images, coll'.decoded = coll.decoded,
         coll'.textures = coll.textures, MaterialsStay
  PROVE  /\ ImagesFirst' /\ TexturesFirst' /\ MaterialsFirst'
         /\ ImagesOnce' /\ TexturesMade'
<1>5. ImagesStay /\ TexturesStay
  BY DEF ImagesStay, TexturesStay
<1>7. ImagesFirst'
  BY <1>5, ImagesFirstKept DEF LookParts
<1>8. TexturesFirst'
  BY <1>5, TexturesFirstKept DEF LookParts
<1>9. MaterialsFirst'
  BY <1>5, MaterialsFirstKept DEF LookParts
<1>10. ImagesOnce'
  BY DEF LookParts, ImagesOnce, Working
<1>11. TexturesMade'
  BY <1>5, TexturesMadeKept DEF LookParts
<1> QED BY <1>7, <1>8, <1>9, <1>10, <1>11

(* The texture of a material, once it is there.                            *)
LEMMA SetTextureKept ==
  ASSUME LoaderInv, LookParts, SetTexture, load' = "loading"
  PROVE  LookParts'
<1> PICK m : m = I
  OBVIOUS
<1> PICK w : w = Head(todo).k
  OBVIOUS
<1>0. /\ Head(todo).do = "setTexture" /\ Head(todo).i = m
      /\ load = "loading" /\ todo # <<>>
      /\ Head(todo) \in CallsOf(gltf) /\ gltf \in FileType /\ Valid(gltf)
  BY HeadTyped DEF SetTexture, I
<1>1. m \in Elems(gltf.materials) /\ w \in ToSet(Infos)
      /\ InfoFor(m, w).index \in Elems(gltf.textures)
  BY <1>0, CallKinds DEF InfoCalls, InfoFor, Item
<1>a. /\ Item(coll.materials, m) # Absent
      /\ Item(coll.textures, InfoFor(m, w).index) # Absent
  BY <1>0, HeadReady
<1>2. PICK calls \in Seq(CallsOf(gltf)) : calls = <<>>
  <2>1. <<>> \in Seq(CallsOf(gltf))
    OBVIOUS
  <2> QED BY <2>1, Zenon
<1>3. Working(calls)
  BY <1>2, CallingWorks, SetTextureDoes DEF Calling, LookCall
<1>4. Len(calls) = 0
  BY <1>2
<1>6. NewCopy(m, w)
  BY SetTextureDoes
<1> PICK x : x = [type |-> "copy",
                  of |-> Item(coll.textures, InfoFor(m, w).index),
                  coordSet |-> InfoFor(m, w).texCoord]
  OBVIOUS
<1> PICK u : u = [Item(coll.materials, m) EXCEPT !.textures[w] = x]
  OBVIOUS
<1>7. /\ gltf.materials \in Seq(MaterialType)
      /\ Over(coll.materials, gltf.materials)
  BY <1>0, <1>3 DEF FileType, Working, IsShape
<1>8. Put(coll'.materials, coll.materials, gltf.materials, m, u)
  <2>1. coll'.materials = [coll.materials EXCEPT ![m + 1] = u]
    BY <1>6 DEF NewCopy, Item
  <2> QED BY <1>1, <1>7, <2>1, ItemPut
<1>9. /\ IsMaterial(u) /\ u.textures[w] = x
      /\ \A y \in ToSet(Infos) : y # w =>
           u.textures[y] = Item(coll.materials, m).textures[y]
  <2>1. IsMaterial(Item(coll.materials, m))
    BY <1>1, <1>a DEF LookParts, MaterialsMade
  <2>2. HasCopy(u, Item(coll.materials, m), w, x)
    BY <1>1, <2>1, CopyPut
  <2> QED BY <2>2 DEF HasCopy
<1>b. IsMaterial(u) => u # Absent
  BY DEF IsMaterial, Absent
<1>10. CopyRight(m, w)'
  <2>1. gltf' = gltf /\ coll'.textures = coll.textures
    BY <1>3, <1>6 DEF Working, NewCopy
  <2>2. InfoFor(m, w)' = InfoFor(m, w)
    BY <2>1 DEF InfoFor
  <2>3. CopyOf(m, w)' = x
    BY <1>8, <1>9 DEF CopyOf, Put
  <2>4. x.of = Item(coll.textures, InfoFor(m, w).index)
        /\ x.coordSet = InfoFor(m, w).texCoord
    OBVIOUS
  <2> QED BY <1>a, <2>1, <2>2, <2>3, <2>4 DEF CopyRight
<1>11. MaterialsStay
  BY <1>8, <1>9, <1>b DEF MaterialsStay, Put
<1>12. /\ ImagesFirst' /\ TexturesFirst' /\ MaterialsFirst'
       /\ ImagesOnce' /\ TexturesMade'
  BY <1>0, <1>3, <1>4, <1>6, <1>11, MaterialChanged DEF NewCopy
<1>13. MaterialsMade'
  <2>1. ~(InfoFor(m, w).index < 0)
    BY <1>1 DEF Elems
  <2>2. \A k \in Elems(gltf.materials) :
           Item(coll.materials, k) = Absent => Item(coll'.materials, k) = Absent
    BY <1>8, <1>a DEF Put
  <2>3. ASSUME NEW k \in Elems(gltf.materials), Item(coll.materials, k) # Absent
        PROVE  /\ IsMaterial(Item(coll'.materials, k))
               /\ \A y \in ToSet(Infos) :
                    \/ CopyOf(k, y)' = CopyOf(k, y)
                    \/ ~(InfoFor(k, y).index < 0) /\ CopyRight(k, y)'
    <3>1. CASE k # m
      <4>1. Item(coll'.materials, k) = Item(coll.materials, k)
        BY <1>8, <3>1 DEF Put
      <4> QED BY <2>3, <4>1 DEF LookParts, MaterialsMade, CopyOf
    <3>2. CASE k = m
      <4>1. \A y \in ToSet(Infos) : y # w => CopyOf(k, y)' = CopyOf(k, y)
        BY <1>8, <1>9, <3>2 DEF CopyOf, Put
      <4>2. IsMaterial(Item(coll'.materials, k))
        BY <1>8, <1>9, <3>2 DEF Put
      <4> QED BY <1>10, <2>1, <3>2, <4>1, <4>2
    <3> QED BY <3>1, <3>2
  <2>4. TexturesStay
    BY <1>6 DEF TexturesStay, NewCopy
  <2>5. MaterialsMade
    BY DEF LookParts
  <2> QED BY <1>0, <1>3, <1>10, <2>2, <2>3, <2>4, <2>5, MaterialsMadeKept
<1> QED BY <1>12, <1>13 DEF LookParts

(* The end of loadMaterial.                                                *)
LEMMA SetMaterialKept ==
  ASSUME LoaderInv, LookParts, SetMaterial, load' = "loading"
  PROVE  LookParts'
<1> PICK m : m = I
  OBVIOUS
<1>0. /\ Head(todo).do = "setMaterial" /\ Head(todo).i = m
      /\ load = "loading" /\ todo # <<>>
      /\ Head(todo) \in CallsOf(gltf) /\ gltf \in FileType /\ Valid(gltf)
  BY HeadTyped DEF SetMaterial, I
<1>1. m \in Elems(gltf.materials)
  BY <1>0, CallKinds DEF MaterialCalls
<1>a. Item(coll.materials, m) # Absent
  BY <1>0, HeadReady
<1>2. PICK calls \in Seq(CallsOf(gltf)) : calls = <<>>
  <2>1. <<>> \in Seq(CallsOf(gltf))
    OBVIOUS
  <2> QED BY <2>1, Zenon
<1>3. Working(calls)
  BY <1>2, CallingWorks, SetMaterialDoes DEF Calling, LookCall
<1>4. Len(calls) = 0
  BY <1>2
<1>5. CASE SameLook
  BY <1>0, <1>3, <1>4, <1>5, LookQuiet
<1>6. CASE NewCutoff(m)
  <2> PICK x : coll'.materials = [coll.materials EXCEPT ![m + 1].cutoff = x]
    BY <1>6 DEF NewCutoff
  <2> PICK u : u = [Item(coll.materials, m) EXCEPT !.cutoff = x]
    OBVIOUS
  <2>1. /\ gltf.materials \in Seq(MaterialType)
        /\ Over(coll.materials, gltf.materials)
    BY <1>0, <1>3 DEF FileType, Working, IsShape
  <2>2. Put(coll'.materials, coll.materials, gltf.materials, m, u)
    <3>1. coll'.materials = [coll.materials EXCEPT ![m + 1] = u]
      BY DEF Item
    <3> QED BY <1>1, <2>1, <3>1, ItemPut
  <2>3. IsMaterial(u) /\ u.textures = Item(coll.materials, m).textures
    <3>1. IsMaterial(Item(coll.materials, m))
      BY <1>1, <1>a DEF LookParts, MaterialsMade
    <3> QED BY <3>1, CutoffPut
  <2>4. IsMaterial(u) => u # Absent
    BY DEF IsMaterial, Absent
  <2>5. MaterialsStay
    BY <2>2, <2>3, <2>4 DEF MaterialsStay, Put
  <2>6. /\ ImagesFirst' /\ TexturesFirst' /\ MaterialsFirst'
        /\ ImagesOnce' /\ TexturesMade'
    BY <1>0, <1>3, <1>4, <1>6, <2>5, MaterialChanged DEF NewCutoff
  <2>7. \A k \in Elems(gltf.materials) :
           Item(coll.materials, k) = Absent => Item(coll'.materials, k) = Absent
    BY <2>2, <1>a DEF Put
  <2>8. ASSUME NEW k \in Elems(gltf.materials), Item(coll.materials, k) # Absent
        PROVE  /\ IsMaterial(Item(coll'.materials, k))
               /\ \A y \in ToSet(Infos) : CopyOf(k, y)' = CopyOf(k, y)
    <3>1. CASE k # m
      <4>1. Item(coll'.materials, k) = Item(coll.materials, k)
        BY <2>2, <3>1 DEF Put
      <4> QED BY <2>8, <4>1 DEF LookParts, MaterialsMade, CopyOf
    <3>2. CASE k = m
      BY <2>2, <2>3, <3>2 DEF CopyOf, Put
    <3> QED BY <3>1, <3>2
  <2>9. TexturesStay /\ MaterialsMade
    BY <1>6 DEF TexturesStay, NewCutoff, LookParts
  <2>10. MaterialsMade'
    BY <1>0, <1>3, <2>7, <2>8, <2>9, MaterialsMadeKept
  <2> QED BY <2>6, <2>10 DEF LookParts
<1> QED BY <1>5, <1>6, SetMaterialDoes

(* Two lists, one after the other.                                         *)
Concatenated(c, a, b, S) ==
  /\ c \in Seq(S) /\ Len(c) = Len(a) + Len(b)
  /\ \A i \in 1..Len(a) : c[i] = a[i]
  /\ \A i \in (Len(a) + 1)..Len(c) : c[i] = b[i - Len(a)]

(* Two lists of calls, one after the other, place by place.                *)
LEMMA ConcatIs ==
  ASSUME NEW S, NEW a \in Seq(S), NEW b \in Seq(S)
  PROVE  Concatenated(a \o b, a, b, S)
<1> PICK c : c = a \o b
  OBVIOUS
<1>1. /\ c \in Seq(S) /\ Len(c) = Len(a) + Len(b)
      /\ \A i \in 1..Len(a) : c[i] = a[i]
      /\ \A i \in (Len(a) + 1)..Len(c) : c[i] = b[i - Len(a)]
  BY ConcatProperties
<1> QED BY <1>1 DEF Concatenated

(* The calls that a material makes.                                        *)
InfoCallsOf(m) ==
  [k \in DOMAIN Infos |-> DoIn("getTexture", m, Infos[k])]
  \o <<Do("setMaterial", m)>>

InfoCallsRight(c, m, g) ==
  /\ c \in Seq(CallsOf(g))
  /\ \A w \in ToSet(Infos) : \E k \in 1..Len(c) :
       c[k].do = "getTexture" /\ c[k].i = m /\ c[k].k = w
  /\ \A k \in 1..Len(c) :
       c[k].i = m /\ c[k].do \in {"getTexture", "setMaterial"}

(* The calls that a material makes: one for each of its textures.          *)
LEMMA InfoCallsMade ==
  ASSUME NEW g, NEW m \in Elems(g.materials)
  PROVE  InfoCallsRight(InfoCallsOf(m), m, g)
<1> DEFINE a == [k \in DOMAIN Infos |-> DoIn("getTexture", m, Infos[k])]
           b == <<Do("setMaterial", m)>>
<1>1. DOMAIN Infos = 1..5 /\ \A k \in 1..5 : Infos[k] \in ToSet(Infos)
  BY DEF Infos, ToSet
<1>2. \A k \in 1..5 : /\ a[k] \in CallsOf(g) /\ a[k].do = "getTexture"
                      /\ a[k].i = m /\ a[k].k = Infos[k]
  BY <1>1, CallsMadeIn DEF DoIn
<1>3. DOMAIN a = 1..5 /\ a = [k \in 1..5 |-> a[k]]
  BY <1>1
<1>4. b \in Seq(CallsOf(g)) /\ Len(b) = 1 /\ b[1].do = "setMaterial" /\ b[1].i = m
  <2>1. Do("setMaterial", m) \in CallsOf(g)
    BY CallsMade
  <2>2. Do("setMaterial", m).do = "setMaterial" /\ Do("setMaterial", m).i = m
    BY DEF Do
  <2> QED BY <2>1, <2>2
<1> HIDE DEF a, b
<1>5. a \in Seq(CallsOf(g)) /\ Len(a) = 5
  BY <1>2, <1>3, Listed
<1> PICK c : c = a \o b
  OBVIOUS
<1>6. /\ c \in Seq(CallsOf(g)) /\ Len(c) = 6
      /\ \A k \in 1..5 : c[k] = a[k]
      /\ c[6] = b[1]
  <2>1. /\ c \in Seq(CallsOf(g)) /\ Len(c) = Len(a) + Len(b)
        /\ \A i \in 1..Len(a) : c[i] = a[i]
        /\ \A i \in (Len(a) + 1)..Len(c) : c[i] = b[i - Len(a)]
    <3>1. Concatenated(c, a, b, CallsOf(g))
      BY <1>4, <1>5, ConcatIs
    <3> QED BY <3>1 DEF Concatenated
  <2>2. Len(c) = 6 /\ 6 \in (Len(a) + 1)..Len(c) /\ 6 - Len(a) = 1
    BY <2>1, <1>4, <1>5
  <2>3. c[6] = b[1]
    BY <2>1, <2>2
  <2> QED BY <2>1, <2>2, <2>3, <1>5
<1>7. c = InfoCallsOf(m)
  BY DEF InfoCallsOf, a, b
<1>9. \A w \in ToSet(Infos) : \E k \in 1..Len(c) :
        c[k].do = "getTexture" /\ c[k].i = m /\ c[k].k = w
  <2> TAKE w \in ToSet(Infos)
  <2> PICK k \in 1..5 : Infos[k] = w
    BY <1>1 DEF ToSet
  <2>1. k \in 1..Len(c) /\ c[k] = a[k]
    BY <1>6
  <2> QED BY <1>2, <2>1
<1>10. \A k \in 1..Len(c) :
         c[k].i = m /\ c[k].do \in {"getTexture", "setMaterial"}
  <2> TAKE k \in 1..Len(c)
  <2>1. k \in 1..5 \/ k = 6
    BY <1>6
  <2> QED BY <1>2, <1>4, <1>6, <2>1
<1>11. InfoCallsRight(c, m, g)
  BY <1>6, <1>9, <1>10 DEF InfoCallsRight
<1> QED BY <1>7, <1>11

(* loadMaterial keeps the parts.                                           *)
LEMMA LoadMaterialKept ==
  ASSUME LoaderInv, LookParts, LoadMaterial, load' = "loading"
  PROVE  LookParts'
<1> PICK m : m = I
  OBVIOUS
<1>0. /\ Head(todo).do = "loadMaterial" /\ Head(todo).i = m
      /\ load = "loading" /\ todo # <<>>
      /\ Head(todo) \in CallsOf(gltf) /\ gltf \in FileType /\ Valid(gltf)
  BY HeadTyped DEF LoadMaterial, I
<1>1. m \in Elems(gltf.materials)
  BY <1>0, CallKinds DEF MaterialCalls
<1>2. CASE Item(coll.materials, m) # Absent /\ SameLook /\ Makes(<<>>)
  <2>1. PICK calls \in Seq(CallsOf(gltf)) : calls = <<>>
    <3>1. <<>> \in Seq(CallsOf(gltf))
      OBVIOUS
    <3> QED BY <3>1, Zenon
  <2>2. Working(calls)
    BY <1>2, <2>1, CallingWorks DEF Calling, LookCall
  <2>3. Len(calls) = 0
    BY <2>1
  <2>4. TexturesStay /\ MaterialsStay
    BY <1>2 DEF SameLook, TexturesStay, MaterialsStay
  <2>5. /\ ImagesFirst' /\ TexturesFirst' /\ MaterialsFirst'
        /\ ImagesOnce' /\ TexturesMade'
    BY <1>0, <1>2, <2>2, <2>3, <2>4, MaterialChanged DEF SameLook
  <2>6. MaterialsMade'
    BY <1>0, <1>2, <2>2, <2>4, MaterialsSameKept DEF SameLook, LookParts
  <2> QED BY <2>5, <2>6 DEF LookParts
<1>3. CASE NewMaterial(m) /\ Makes(InfoCallsOf(m))
  <2>1. PICK calls : calls = InfoCallsOf(m)
    OBVIOUS
  <2>2. InfoCallsRight(calls, m, gltf) /\ calls \in Seq(CallsOf(gltf))
    BY <1>1, <2>1, InfoCallsMade DEF InfoCallsRight
  <2>3. Working(calls)
    BY <1>3, <2>1, <2>2, CallingWorks DEF Calling, LookCall
  <2> PICK u : u = [type |-> "material",
                    textures |-> [w \in ToSet(Infos) |-> Absent], cutoff |-> 0]
    OBVIOUS
  <2>4. /\ gltf.materials \in Seq(MaterialType)
        /\ Over(coll.materials, gltf.materials)
    BY <1>0, <2>3 DEF FileType, Working, IsShape
  <2>5. Put(coll'.materials, coll.materials, gltf.materials, m, u)
    <3>1. coll'.materials = [coll.materials EXCEPT ![m + 1] = u]
      BY <1>3 DEF NewMaterial
    <3> QED BY <1>1, <2>4, <3>1, ItemPut
  <2>6. IsMaterial(u) /\ \A w \in ToSet(Infos) : u.textures[w] = Absent
    BY DEF IsMaterial
  <2>7. IsMaterial(u) => u # Absent
    BY DEF IsMaterial, Absent
  <2>8. ImagesStay /\ TexturesStay /\ MaterialsStay
        /\ Item(coll'.materials, m) # Absent
    BY <1>3, <2>5, <2>6, <2>7
    DEF NewMaterial, Put, ImagesStay, TexturesStay, MaterialsStay
  <2>9. \A k \in 1..Len(calls) :
          calls[k].i = m /\ calls[k].do \in {"getTexture", "setMaterial"}
    BY <2>2 DEF InfoCallsRight
  <2>10. ImagesFirst'
    BY <1>0, <2>3, <2>8, <2>9, ImagesFirstKept DEF LookParts
  <2>11. TexturesFirst'
    BY <1>0, <2>3, <2>8, <2>9, TexturesFirstKept DEF LookParts
  <2>12. MaterialsFirst'
    BY <1>0, <2>3, <2>8, <2>9, MaterialsFirstKept DEF LookParts
  <2>13. ImagesOnce'
    BY <1>3, <2>3 DEF LookParts, NewMaterial, ImagesOnce, Working
  <2>14. TexturesMade'
    <3>1. \A t \in Elems(gltf.textures) :
             Item(coll'.textures, t) = Item(coll.textures, t)
      BY <1>3 DEF NewMaterial
    <3> QED BY <1>0, <2>3, <2>8, <3>1, TexturesMadeKept DEF LookParts
  <2>15. MaterialsMade'
    <3>1. ASSUME NEW k \in Elems(gltf.materials), Item(coll.materials, k) = Absent
          PROVE  \/ Item(coll'.materials, k) = Absent
                 \/ /\ IsMaterial(Item(coll'.materials, k))
                    /\ \A w \in ToSet(Infos) :
                         /\ CopyOf(k, w)' = Absent
                         /\ \E q \in 1..Len(calls) :
                              /\ calls[q].do = "getTexture"
                              /\ calls[q].i = k /\ calls[q].k = w
      <4>1. CASE k # m
        BY <3>1, <4>1, <2>5 DEF Put
      <4>2. CASE k = m
        <5>1. Item(coll'.materials, k) = u
          BY <4>2, <2>5 DEF Put
        <5>2. \A w \in ToSet(Infos) : \E q \in 1..Len(calls) :
                /\ calls[q].do = "getTexture"
                /\ calls[q].i = k /\ calls[q].k = w
          BY <4>2, <2>2 DEF InfoCallsRight
        <5> QED BY <2>6, <5>1, <5>2 DEF CopyOf
      <4> QED BY <4>1, <4>2
    <3>2. ASSUME NEW k \in Elems(gltf.materials), Item(coll.materials, k) # Absent
          PROVE  /\ IsMaterial(Item(coll'.materials, k))
                 /\ \A w \in ToSet(Infos) : CopyOf(k, w)' = CopyOf(k, w)
      <4>1. k # m
        BY <1>3, <3>2 DEF NewMaterial
      <4>2. Item(coll'.materials, k) = Item(coll.materials, k)
        BY <2>5, <4>1 DEF Put
      <4> QED BY <3>2, <4>2 DEF LookParts, MaterialsMade, CopyOf
    <3>3. MaterialsMade
      BY DEF LookParts
    <3> QED BY <1>0, <2>3, <2>8, <3>1, <3>2, <3>3, MaterialsMadeKept
  <2> QED BY <2>10, <2>11, <2>12, <2>13, <2>14, <2>15 DEF LookParts
<1> QED BY <1>2, <1>3, LoadMaterialDoes DEF InfoCallsOf

(* The loader's other calls.                                               *)
LEMMA OthersLook ==
  ASSUME LoaderInv, LookParts, GraphCall \/ DataCall, load' = "loading"
  PROVE  LookParts'
<1>1. PICK calls \in Seq(MadeFrom(gltf, Head(todo).do)) : Working(calls)
  BY CallingWorks DEF Calling
<1>2. SameLook
  <2>1. IsShape(coll, gltf)
    BY <1>1 DEF Working
  <2> QED BY <2>1, GraphLeaves, DataLeaves
<1>3. Head(todo).do \in {"loadScene", "loadRest", "loadGraph", "insert",
         "loadNode", "loadSkin", "setJoint", "loadMesh", "newPrimitive",
         "getData", "copyMaterial", "makeMesh", "loadAnimation", "newAction",
         "makeAnimation"}
  BY Zenon DEF GraphCall, DataCall, LoadScene, LoadRest, LoadGraph, InsertNode,
         LoadNode, LoadSkin, SetJoint, LoadMesh, NewPrimitive, GetData,
         CopyMaterial, MakeMesh, LoadAnimation, NewAction, MakeAnimation, Doing
<1>4. MadeBy(Head(todo).do) \cap
         {"makeTexture", "setTexture", "getTexture", "setMaterial"} = {}
  BY <1>3 DEF MadeBy
<1>5. \A k \in 1..Len(calls) : calls[k].do \notin
         {"makeTexture", "setTexture", "getTexture", "setMaterial"}
  <2>1. \A k \in 1..Len(calls) : calls[k] \in MadeFrom(gltf, Head(todo).do)
    BY ElementOfSeq
  <2> QED BY <1>4, <2>1 DEF MadeFrom
<1> QED BY <1>1, <1>2, <1>3, <1>5, LookQuiet

(* The invariant in one piece.                                             *)
LEMMA LookInvIs ==
  LookInv <=> LoaderInv /\ (Underway => LookParts)
BY DEF LookInv, LookParts

(* Every step keeps it.                                                    *)
LEMMA LookStep ==
  ASSUME LookInv, Next \/ UNCHANGED allVars
  PROVE  LookInv'
<1>1. LoaderInv /\ LoaderInv' /\ (Underway => LookParts)
  BY LoaderTyped, LookInvIs
<1>2. SUFFICES ASSUME Underway'
      PROVE  LookParts'
  BY <1>1 DEF LookInv, LookParts
<1>3. CASE Begin
  <2>1. gltf' = gltf /\ todo' = Begun(gltf) /\ gltf \in FileType
    BY <1>1, <1>3, BeginTyped DEF LoaderInv, ParserInv
  <2>2. ToSet(todo') = BegunSet(gltf) /\ todo' \in Seq(CallsOf(gltf))
    BY <2>1, BegunMade
  <2>3. \A p \in DOMAIN todo' : todo'[p] \in BegunSet(gltf)
    BY <2>2 DEF ToSet
  <2>4. \A c \in BegunSet(gltf) : c.do \in {"loadScene", "loadRest", "loadTexture",
            "loadMaterial", "loadMesh", "loadSkin", "loadAnimation"}
    BY DEF BegunSet, Do
  <2>5. ImagesFirst' /\ TexturesFirst' /\ MaterialsFirst'
    BY <2>3, <2>4 DEF ImagesFirst, TexturesFirst, MaterialsFirst
  <2>6. /\ \A i \in Elems(gltf.images) :
             /\ Item(coll'.images, i) = Absent /\ Item(coll'.decoded, i) = 0
        /\ \A t \in Elems(gltf.textures) : Item(coll'.textures, t) = Absent
        /\ \A m \in Elems(gltf.materials) : Item(coll'.materials, m) = Absent
    <3>1. /\ coll'.images = None(gltf.images)
          /\ coll'.decoded = [k \in DOMAIN gltf.images |-> 0]
          /\ coll'.textures = None(gltf.textures)
          /\ coll'.materials = None(gltf.materials)
      BY <1>3 DEF Begin
    <3>2. /\ gltf.images \in Seq(ImageType) /\ gltf.textures \in Seq(TextureType)
          /\ gltf.materials \in Seq(MaterialType)
      BY <2>1 DEF FileType
    <3> QED BY <3>1, <3>2 DEF None, Item, Elems
  <2>7. ImagesOnce'
    BY <2>1, <2>6 DEF ImagesOnce
  <2>8. TexturesMade'
    <3>1. \A t \in Elems(gltf.textures) : Pending({"loadTexture", "makeTexture"}, t)'
      <4> TAKE t \in Elems(gltf.textures)
      <4>1. Do("loadTexture", t) \in ToSet(todo')
        BY <2>2 DEF BegunSet
      <4> QED BY <4>1 DEF Pending, Do
    <3> QED BY <2>1, <2>6, <3>1 DEF TexturesMade
  <2>9. MaterialsMade'
    <3>1. \A m \in Elems(gltf.materials) : Pending({"loadMaterial"}, m)'
      <4> TAKE m \in Elems(gltf.materials)
      <4>1. Do("loadMaterial", m) \in ToSet(todo')
        BY <2>2 DEF BegunSet
      <4> QED BY <4>1 DEF Pending, Do
    <3> QED BY <2>1, <2>6, <3>1 DEF MaterialsMade
  <2> QED BY <2>5, <2>7, <2>8, <2>9 DEF LookParts
<1>4. CASE Calling
  <2>1. load' = "loading" /\ Underway
    <3>1. Moves
      BY <1>1, <1>4, CallsMove
    <3> QED BY <3>1, <1>2 DEF Moves, Underway
  <2> QED BY <1>1, <1>4, <2>1, OthersLook, LoadTextureKept, LoadImageKept,
             MakeTextureKept, LoadMaterialKept, GetTextureKept, SetTextureKept,
             SetMaterialKept DEF Calling, LookCall
<1>5. CASE UNCHANGED <<gltf, todo, coll>> /\ Underway
  <2>1. LookParts
    BY <1>1, <1>5
  <2> QED BY <1>5, <2>1 DEF LookParts, ImagesFirst, TexturesFirst,
             MaterialsFirst, ImagesOnce, TexturesMade, MaterialsMade, SourceOf,
             InfoFor, Pending, PendingInfo, TextureFor, Copied, CopyOf,
             CopyRight, SamplerOf
<1>6. CASE ReadSymbol
  <2>1. load' = load /\ status = "reading"
    BY <1>6 DEF ReadSymbol, Read, loadVars
  <2> QED BY <2>1, <1>1, <1>2 DEF LoaderInv, Underway
<1>7. CASE Finish
  BY <1>5, <1>7 DEF Finish, Underway, vars
<1>8. CASE UNCHANGED allVars
  BY <1>2, <1>5, <1>8 DEF allVars, vars, loadVars, Underway
<1> QED BY <1>3, <1>4, <1>6, <1>7, <1>8 DEF Next, Calling, GraphCall, LookCall, DataCall

(* When all calls were made, it is what was wanted.                        *)
LEMMA LookShares ==
  ASSUME LookInv
  PROVE  ImagesShared
<1>1. LoaderInv /\ (Underway => LookParts)
  BY LookInvIs
<1>2. ASSUME Underway
      PROVE  /\ gltf \in FileType /\ Valid(gltf) /\ IsShape(coll, gltf)
             /\ LookParts
             /\ \A T : \A list \in Seq(T) : \A k \in DOMAIN list :
                  k - 1 \in Elems(list) /\ (k - 1) + 1 = k
  <2>1. /\ gltf \in FileType /\ Valid(gltf) /\ IsShape(coll, gltf)
        /\ LookParts
    BY <1>1, <1>2 DEF LoaderInv, Underway, ParserInv
  <2>2. ASSUME NEW T, NEW list \in Seq(T), NEW k \in DOMAIN list
        PROVE  k - 1 \in Elems(list) /\ (k - 1) + 1 = k
    BY DEF Elems
  <2> QED BY <2>1, <2>2
<1>3. ASSUME load = "loading", NEW k \in DOMAIN coll.decoded
      PROVE  coll.decoded[k] <= 1
  <2>1. gltf.images \in Seq(ImageType) /\ k \in DOMAIN gltf.images
    BY <1>2, <1>3 DEF FileType, IsShape, Over, Underway
  <2>2. k - 1 \in Elems(gltf.images) /\ (k - 1) + 1 = k
    BY <1>2, <1>3, <2>1 DEF Underway
  <2>3. Item(coll.decoded, k - 1) \in {0, 1}
    BY <1>2, <1>3, <2>2 DEF LookParts, ImagesOnce, Underway
  <2> QED BY <2>2, <2>3 DEF Item
<1>4. ASSUME load = "loaded", NEW t \in DOMAIN gltf.textures
      PROVE  coll.textures[t].image = Item(coll.images, gltf.textures[t].source)
  <2>1. gltf.textures \in Seq(TextureType) /\ todo = <<>>
    BY <1>1, <1>2, <1>4 DEF FileType, Underway, LoaderInv
  <2> PICK u : u = t - 1
    OBVIOUS
  <2>2. u \in Elems(gltf.textures) /\ u + 1 = t
    BY <1>2, <1>4, <2>1 DEF Underway
  <2>3. ~Pending({"loadTexture", "makeTexture"}, u)
    BY <2>1 DEF Pending, ToSet
  <2>4. Item(coll.textures, u) = TextureFor(u)
    BY <1>2, <1>4, <2>2, <2>3 DEF LookParts, TexturesMade, Underway
  <2>5. coll.textures[t] = TextureFor(u) /\ SourceOf(u) = gltf.textures[t].source
    BY <2>2, <2>4 DEF Item, SourceOf
  <2>6. TextureFor(u).image = Item(coll.images, SourceOf(u))
    BY DEF TextureFor
  <2> QED BY <2>5, <2>6
<1>5. ASSUME load = "loaded", NEW m \in DOMAIN gltf.materials,
             NEW w \in ToSet(Infos)
      PROVE  LET info == InfoOf(gltf.materials[m], w)
                 copy == coll.materials[m].textures[w]
             IN  IF info.index < 0 THEN copy = Absent
                 ELSE /\ copy.of = Item(coll.textures, info.index)
                      /\ copy.coordSet = info.texCoord
  <2>1. gltf.materials \in Seq(MaterialType) /\ todo = <<>>
    BY <1>1, <1>2, <1>5 DEF FileType, Underway, LoaderInv
  <2> PICK u : u = m - 1
    OBVIOUS
  <2>2. u \in Elems(gltf.materials) /\ u + 1 = m
    BY <1>2, <1>5, <2>1 DEF Underway
  <2>3. ~Pending({"loadMaterial"}, u) /\ ~PendingInfo(u, w)
    BY <2>1 DEF Pending, PendingInfo, ToSet
  <2>4. Copied(u, w)
    BY <1>2, <1>5, <2>2, <2>3 DEF LookParts, MaterialsMade, Underway
  <2>5. InfoFor(u, w) = InfoOf(gltf.materials[m], w)
        /\ CopyOf(u, w) = coll.materials[m].textures[w]
    BY <2>2 DEF InfoFor, CopyOf, Item
  <2> QED BY <2>3, <2>4, <2>5 DEF Copied, CopyRight
<1> QED BY <1>3, <1>4, <1>5 DEF ImagesShared

(* DataLoad: no image is decoded twice, and every texture and every        *)
(* material has the image and the texture coordinates that the file gives  *)
(* it, in whatever order they are needed: a texture is only copied once it *)
(* is there, for all that is put before the calls that are waiting.        *)
THEOREM ImagesAreShared == Spec => []ImagesShared
<1>1. LoaderInit => LookInv
  BY LoaderBegins DEF LookInv, Underway, LoaderInit, LoadInit
<1>2. LookInv /\ [Next]_allVars => LookInv'
  BY LookStep
<1>3. LookInv => ImagesShared
  BY LookShares
<1> QED BY <1>1, <1>2, <1>3, PTL DEF Spec

-----------------------------------------------------------------------------
(* The scene graph.  V are the nodes that were visited: for these the calls *)
(* for all children were made.                                             *)

RestPending == \E c \in ToSet(todo) : c.do = "loadRest"
Visits(n, V) == n \in V \/ Pending({"loadGraph"}, n)
Placed(n) == Item(coll.parent, n) # Apart \/ Pending({"insert"}, n)
Reached(n, V) == Visits(n, V) /\ Placed(n)
NodesOf(s) == ToSet(Item(gltf.scenes, s).nodes)

NodeRight(n, v) ==
  /\ v # Absent
  /\ v.type = IF Item(gltf.nodes, n).mesh >= 0 THEN "model"
              ELSE IF IsJoint(n) THEN "joint" ELSE "node"
  /\ IsJoint(n) => Item(gltf.nodes, n).mesh < 0

(* The children of a node that was visited, and the nodes of a scene that  *)
(* was, are visited and inserted.                                          *)
ChildrenReached(V) ==
  \A p \in V : \A c \in ChildrenOf(gltf, p) : Reached(c, V)
ScenesReached(V) ==
  \A s \in Elems(gltf.scenes) :
    IF Item(coll.scenes, s) = Absent THEN Pending({"loadScene"}, s)
    ELSE \A n \in NodesOf(s) : Reached(n, V)

(* The other nodes are visited, unless they are joints.  A node that is not *)
(* visited is a joint, until only the animations are left.                 *)
RestVisited(V) ==
  \A n \in Elems(gltf.nodes) :
    IsJoint(n) \/ Visits(n, V) \/ Pending({"loadRest"}, n)
NodesNeeded(V) ==
  \A n \in Elems(gltf.nodes) :
    Item(coll.nodes, n) # Absent \/ Pending({"loadNode"}, n) =>
      n \in V \/ IsJoint(n) \/ ~RestPending
AnimationsLast ==
  \A p, q \in DOMAIN todo :
    p < q /\ todo[p].do = "loadAnimation" => todo[q].do # "loadRest"

(* All nodes are made, are what they should be and have their ancestors.   *)
NodesMade ==
  \A n \in Elems(gltf.nodes) :
    \/ Item(coll.nodes, n) # Absent
    \/ Pending({"loadNode", "loadGraph", "loadRest"}, n)
NodesRight ==
  \A n \in Elems(gltf.nodes) :
    Item(coll.nodes, n) # Absent => NodeRight(n, Item(coll.nodes, n))
IsAncestor(a, n) ==
  \/ \E p \in Elems(gltf.nodes) : a = <<"node", p>> /\ n \in ChildrenOf(gltf, p)
  \/ \E s \in Elems(gltf.scenes) : a = <<"scene", s>> /\ n \in NodesOf(s)
ParentsRight ==
  \A n \in Elems(gltf.nodes) :
    Item(coll.parent, n) # Apart => IsAncestor(Item(coll.parent, n), n)

GraphParts(V) ==
  /\ V \subseteq Elems(gltf.nodes)
  /\ ChildrenReached(V) /\ ScenesReached(V) /\ RestVisited(V)
  /\ NodesNeeded(V) /\ AnimationsLast
  /\ NodesMade /\ NodesRight /\ ParentsRight

(* What a call must do for these to be kept, where W has the nodes that    *)
(* were visited then.                                                      *)
Reaches(calls, n) ==
  /\ \E k \in 1..Len(calls) : calls[k].do = "loadGraph" /\ calls[k].i = n
  /\ \E k \in 1..Len(calls) : calls[k].do = "insert" /\ calls[k].i = n
Visiting(calls, V, W) ==
  /\ V \subseteq W /\ W \subseteq Elems(gltf.nodes)
  /\ \A p \in W \ V : \A c \in ChildrenOf(gltf, p) : Reaches(calls, c)
  /\ Head(todo).do = "loadGraph" => Head(todo).i \in W
ParentsChange ==
  /\ \A n \in Elems(gltf.nodes) :
       \/ Item(coll'.parent, n) = Item(coll.parent, n)
       \/ IsAncestor(Item(coll'.parent, n), n)
  /\ Head(todo).do = "insert" => IsAncestor(Item(coll'.parent, Head(todo).i), Head(todo).i)
ScenesChange(calls) ==
  /\ \A s \in Elems(gltf.scenes) :
       \/ Item(coll'.scenes, s) = Item(coll.scenes, s)
       \/ /\ Item(coll'.scenes, s) # Absent
          /\ \A n \in NodesOf(s) : Reaches(calls, n)
  /\ Head(todo).do = "loadScene" => Item(coll'.scenes, Head(todo).i) # Absent
NodesChange ==
  /\ \A n \in Elems(gltf.nodes) :
       \/ Item(coll'.nodes, n) = Item(coll.nodes, n)
       \/ /\ Head(todo).do = "loadNode" /\ Head(todo).i = n
          /\ NodeRight(n, Item(coll'.nodes, n))
  /\ Head(todo).do = "loadNode" => Item(coll'.nodes, Head(todo).i) # Absent
CallsChange(calls, W) ==
  /\ \A k \in 1..Len(calls) :
       /\ calls[k].do \notin {"loadRest", "loadAnimation"}
       /\ calls[k].do = "loadNode" =>
            \/ calls[k].i \in W \/ IsJoint(calls[k].i)
            \/ Head(todo).do = "loadAnimation"
  /\ Head(todo).do = "loadRest" =>
       \/ Item(coll.nodes, Head(todo).i) # Absent
       \/ \E k \in 1..Len(calls) :
            calls[k].do = "loadGraph" /\ calls[k].i = Head(todo).i
  /\ Head(todo).do = "loadGraph" =>
       \E k \in 1..Len(calls) :
         calls[k].do = "loadNode" /\ calls[k].i = Head(todo).i

(* An ancestor is not the lack of one.                                     *)
LEMMA AncestorNode ==
  ASSUME NEW a, NEW n, IsAncestor(a, n)
  PROVE  a # Apart
BY DEF IsAncestor, Apart

(* A call that was made, or is still to be made, is pending.               *)
LEMMA PendingMade ==
  ASSUME NEW calls, Working(calls), NEW k \in 1..Len(calls), NEW whats,
         calls[k].do \in whats
  PROVE  Pending(whats, calls[k].i)'
<1>1. calls[k] \in ToSet(todo')
  BY MadePending
<1> QED BY <1>1 DEF Pending

(* What is pending was, or was made by this call.                          *)
LEMMA PendingBefore ==
  ASSUME NEW calls, Working(calls), NEW whats, NEW i, Pending(whats, i)'
  PROVE  \/ Pending(whats, i)
         \/ \E k \in 1..Len(calls) : calls[k].do \in whats /\ calls[k].i = i
<1>1. ToSet(todo') \subseteq ToSet(calls) \cup ToSet(todo)
  BY Positions DEF Working, Makes
<1>2. DOMAIN calls = 1..Len(calls)
  BY DEF Working
<1>3. ToSet(calls) = {calls[k] : k \in 1..Len(calls)}
  BY <1>2 DEF ToSet
<1> QED BY <1>1, <1>3 DEF Pending

(* No call makes the nodes that no scene needed pending again.             *)
LEMMA RestBefore ==
  ASSUME NEW calls, Working(calls), RestPending',
         \A k \in 1..Len(calls) : calls[k].do # "loadRest"
  PROVE  RestPending
<1>1. ToSet(todo') \subseteq ToSet(calls) \cup ToSet(todo)
  BY Positions DEF Working, Makes
<1>2. DOMAIN calls = 1..Len(calls)
  BY DEF Working
<1>3. ToSet(calls) = {calls[k] : k \in 1..Len(calls)}
  BY <1>2 DEF ToSet
<1> QED BY <1>1, <1>3 DEF RestPending

(* What was reached stays so, and so becomes what the call reaches.        *)
LEMMA ReachedKept ==
  ASSUME NEW calls, Working(calls), NEW V, NEW W, Visiting(calls, V, W),
         ParentsChange, NEW n \in Elems(gltf.nodes),
         Reached(n, V) \/ Reaches(calls, n)
  PROVE  Reached(n, W)'
<1>1. CASE Reaches(calls, n)
  <2>1. Pending({"loadGraph"}, n)' /\ Pending({"insert"}, n)'
    BY <1>1, PendingMade DEF Reaches
  <2> QED BY <2>1 DEF Reached, Visits, Placed
<1>2. CASE Reached(n, V)
  <2>1. n \in W \/ Pending({"loadGraph"}, n)'
    BY <1>2, PendingKept DEF Reached, Visits, Visiting
  <2>2. ASSUME Item(coll.parent, n) # Apart
        PROVE  Placed(n)'
    BY <2>2, AncestorNode DEF ParentsChange, Placed
  <2>3. ASSUME Pending({"insert"}, n)
        PROVE  Placed(n)'
    BY <2>3, PendingKept, AncestorNode DEF ParentsChange, Placed
  <2>4. Placed(n)'
    BY <1>2, <2>2, <2>3 DEF Reached, Placed
  <2> QED BY <2>1, <2>4 DEF Reached, Visits
<1> QED BY <1>1, <1>2

(* Each part is kept by a call that does as it must: the children.         *)
LEMMA ChildrenReachedKept ==
  ASSUME NEW calls, Working(calls), NEW V, NEW W, Visiting(calls, V, W),
         ParentsChange, ChildrenReached(V)
  PROVE  ChildrenReached(W)'
<1>1. gltf' = gltf /\ gltf \in FileType /\ Valid(gltf)
  BY DEF Working
<1>2. SUFFICES ASSUME NEW p \in W, NEW c \in ChildrenOf(gltf, p)
      PROVE  Reached(c, W)'
  BY <1>1 DEF ChildrenReached
<1>3. c \in Elems(gltf.nodes)
  <2>1. p \in Elems(gltf.nodes)
    BY DEF Visiting
  <2>2. Item(gltf.nodes, p).children \in Seq(Elems(gltf.nodes))
    BY <1>1, <2>1, GraphRefers
  <2> QED BY <1>2, <2>2, ElementOfSeq DEF ChildrenOf, Item, ToSet
<1>4. Reached(c, V) \/ Reaches(calls, c)
  BY DEF ChildrenReached, Visiting
<1> QED BY <1>3, <1>4, ReachedKept

(* The nodes of scenes.                                                    *)
LEMMA ScenesReachedKept ==
  ASSUME NEW calls, Working(calls), NEW V, NEW W, Visiting(calls, V, W),
         ParentsChange, ScenesChange(calls), ScenesReached(V)
  PROVE  ScenesReached(W)'
<1>1. gltf' = gltf /\ gltf \in FileType /\ Valid(gltf)
  BY DEF Working
<1>2. SUFFICES ASSUME NEW s \in Elems(gltf.scenes)
      PROVE  IF Item(coll'.scenes, s) = Absent THEN Pending({"loadScene"}, s)'
             ELSE \A n \in NodesOf(s) : Reached(n, W)'
  BY <1>1 DEF ScenesReached, NodesOf
<1>3. \A n \in NodesOf(s) : n \in Elems(gltf.nodes)
  <2>1. Item(gltf.scenes, s).nodes \in Seq(Elems(gltf.nodes))
    BY <1>1, GraphRefers
  <2> QED BY <2>1, ElementOfSeq DEF NodesOf, ToSet
<1>4. CASE Item(coll'.scenes, s) = Absent
  <2>1. Item(coll.scenes, s) = Absent
    BY <1>4 DEF ScenesChange
  <2>2. Pending({"loadScene"}, s)
    BY <2>1 DEF ScenesReached
  <2> QED BY <1>4, <2>2, PendingKept DEF ScenesChange
<1>5. CASE Item(coll'.scenes, s) # Absent
  <2>1. \A n \in NodesOf(s) : Reached(n, V) \/ Reaches(calls, n)
    BY <1>5 DEF ScenesChange, ScenesReached
  <2> QED BY <1>3, <1>5, <2>1, ReachedKept
<1> QED BY <1>4, <1>5

(* The other nodes.                                                        *)
LEMMA RestVisitedKept ==
  ASSUME NEW calls, Working(calls), NEW V, NEW W, Visiting(calls, V, W),
         CallsChange(calls, W), NodesNeeded(V), RestVisited(V)
  PROVE  RestVisited(W)'
<1>1. gltf' = gltf /\ \A n : IsJoint(n)' <=> IsJoint(n)
  BY DEF Working, IsJoint
<1>2. SUFFICES ASSUME NEW n \in Elems(gltf.nodes), ~IsJoint(n)
      PROVE  Visits(n, W)' \/ Pending({"loadRest"}, n)'
  BY <1>1 DEF RestVisited
<1>3. CASE Visits(n, V)
  BY <1>3, PendingKept DEF Visits, Visiting
<1>4. CASE Pending({"loadRest"}, n)
  <2>1. SUFFICES ASSUME Head(todo).do = "loadRest", Head(todo).i = n
        PROVE  Visits(n, W)'
    BY <1>4, PendingKept
  <2>2. CASE Item(coll.nodes, n) # Absent
    <3>1. RestPending
      BY <1>4 DEF Pending, RestPending
    <3>2. n \in V
      BY <1>2, <2>2, <3>1 DEF NodesNeeded
    <3> QED BY <3>2 DEF Visits, Visiting
  <2>3. CASE Item(coll.nodes, n) = Absent
    <3>1. PICK k \in 1..Len(calls) : calls[k].do = "loadGraph" /\ calls[k].i = n
      BY <2>1, <2>3 DEF CallsChange
    <3>2. Pending({"loadGraph"}, n)'
      BY <3>1, PendingMade
    <3> QED BY <3>2 DEF Visits
  <2> QED BY <2>2, <2>3
<1> QED BY <1>2, <1>3, <1>4 DEF RestVisited

(* That animations come last.                                              *)
LEMMA AnimationsLastKept ==
  ASSUME NEW calls, Working(calls), NEW W, CallsChange(calls, W),
         AnimationsLast
  PROVE  AnimationsLast' /\ (Head(todo).do = "loadAnimation" => ~RestPending')
<1> PICK next : next = todo'
  OBVIOUS
<1>1. /\ next \in Seq(CallsOf(gltf))
      /\ \A p \in 1..Len(calls) : next[p] = calls[p]
      /\ \A p \in (Len(calls) + 1)..Len(next) :
           /\ next[p] = todo[p - Len(calls) + 1]
           /\ p - Len(calls) + 1 \in 2..Len(todo)
  BY Positions DEF Working, Makes
<1>2. /\ Len(calls) \in Nat /\ Len(todo) \in Nat /\ Len(next) \in Nat
      /\ DOMAIN todo = 1..Len(todo) /\ DOMAIN next = 1..Len(next)
      /\ Head(todo) = todo[1] /\ Len(todo) >= 1
  BY <1>1 DEF Working
<1>3. ASSUME NEW p \in 1..Len(next), NEW q \in 1..Len(next), p < q,
             next[p].do = "loadAnimation"
      PROVE  next[q].do # "loadRest"
  <2>1. p \in (Len(calls) + 1)..Len(next)
    BY <1>1, <1>2, <1>3 DEF CallsChange
  <2>2. q \in (Len(calls) + 1)..Len(next)
    BY <1>2, <1>3, <2>1
  <2> PICK r \in 2..Len(todo) : r = p - Len(calls) + 1
    BY <1>1, <2>1
  <2> PICK s \in 2..Len(todo) : s = q - Len(calls) + 1
    BY <1>1, <2>2
  <2>3. r < s /\ next[p] = todo[r] /\ next[q] = todo[s]
    BY <1>1, <1>2, <1>3, <2>1, <2>2
  <2>4. r \in DOMAIN todo /\ s \in DOMAIN todo
    BY <1>2
  <2> QED BY <1>3, <2>3, <2>4 DEF AnimationsLast
<1>4. ASSUME Head(todo).do = "loadAnimation", NEW q \in 1..Len(next)
      PROVE  next[q].do # "loadRest"
  <2>1. CASE q \in 1..Len(calls)
    BY <2>1, <1>1 DEF CallsChange
  <2>2. CASE q \notin 1..Len(calls)
    <3>1. q \in (Len(calls) + 1)..Len(next)
      BY <2>2, <1>2
    <3> PICK s \in 2..Len(todo) : s = q - Len(calls) + 1
      BY <1>1, <3>1
    <3>2. 1 < s /\ next[q] = todo[s] /\ 1 \in DOMAIN todo /\ s \in DOMAIN todo
      BY <1>1, <1>2, <3>1
    <3> QED BY <1>2, <1>4, <3>2 DEF AnimationsLast
  <2> QED BY <2>1, <2>2
<1>5. AnimationsLast'
  BY <1>2, <1>3 DEF AnimationsLast
<1>6. Head(todo).do = "loadAnimation" => ~RestPending'
  BY <1>2, <1>4 DEF RestPending, ToSet
<1> QED BY <1>5, <1>6

(* That only joints are made unvisited.                                    *)
LEMMA NodesNeededKept ==
  ASSUME NEW calls, Working(calls), NEW V, NEW W, Visiting(calls, V, W),
         CallsChange(calls, W), NodesChange, AnimationsLast, NodesNeeded(V)
  PROVE  NodesNeeded(W)'
<1>1. gltf' = gltf /\ \A n : IsJoint(n)' <=> IsJoint(n)
  BY DEF Working, IsJoint
<1>2. SUFFICES ASSUME NEW n \in Elems(gltf.nodes), ~IsJoint(n), RestPending',
                      \/ Item(coll'.nodes, n) # Absent
                      \/ Pending({"loadNode"}, n)'
      PROVE  n \in W
  BY <1>1 DEF NodesNeeded
<1>3. RestPending
  BY <1>2, RestBefore DEF CallsChange
<1>4. CASE Item(coll.nodes, n) # Absent \/ Pending({"loadNode"}, n)
  BY <1>2, <1>3, <1>4 DEF NodesNeeded, Visiting
<1>5. CASE Item(coll.nodes, n) = Absent /\ ~Pending({"loadNode"}, n)
  <2>1. Item(coll'.nodes, n) = Absent
    <3>1. Head(todo).do = "loadNode" /\ Head(todo).i = n => Pending({"loadNode"}, n)
      <4>1. Head(todo) \in ToSet(todo)
        BY Positions DEF Working, ToSet
      <4> QED BY <4>1 DEF Pending
    <3> QED BY <1>5, <3>1 DEF NodesChange
  <2>2. PICK k \in 1..Len(calls) : calls[k].do = "loadNode" /\ calls[k].i = n
    BY <1>2, <1>5, <2>1, PendingBefore
  <2>3. Head(todo).do # "loadAnimation"
    BY <1>2, AnimationsLastKept
  <2> QED BY <1>2, <2>2, <2>3 DEF CallsChange
<1> QED BY <1>4, <1>5

(* That all nodes are made.                                                *)
LEMMA NodesMadeKept ==
  ASSUME NEW calls, Working(calls), NEW W, CallsChange(calls, W), NodesChange,
         NodesMade
  PROVE  NodesMade'
<1>1. gltf' = gltf
  BY DEF Working
<1> DEFINE whats == {"loadNode", "loadGraph", "loadRest"}
<1>2. SUFFICES ASSUME NEW n \in Elems(gltf.nodes)
      PROVE  Item(coll'.nodes, n) # Absent \/ Pending(whats, n)'
  BY <1>1 DEF NodesMade
<1>3. CASE Item(coll.nodes, n) # Absent
  BY <1>3 DEF NodesChange, NodeRight
<1>4. CASE Pending(whats, n)
  <2>1. SUFFICES ASSUME Head(todo).do \in whats, Head(todo).i = n
        PROVE  Item(coll'.nodes, n) # Absent \/ Pending(whats, n)'
    BY <1>4, PendingKept
  <2>2. CASE Head(todo).do = "loadNode"
    BY <2>1, <2>2 DEF NodesChange
  <2>3. CASE Head(todo).do \in {"loadGraph", "loadRest"}
    <3>1. \/ Item(coll.nodes, n) # Absent
          \/ \E k \in 1..Len(calls) : calls[k].do \in whats /\ calls[k].i = n
      BY <2>1, <2>3 DEF CallsChange
    <3>2. ASSUME NEW k \in 1..Len(calls), calls[k].do \in whats, calls[k].i = n
          PROVE  Pending(whats, n)'
      BY <3>2, PendingMade
    <3> QED BY <3>1, <3>2, <1>3
  <2> QED BY <2>1, <2>2, <2>3
<1> QED BY <1>3, <1>4 DEF NodesMade

(* That they are what they should be.                                      *)
LEMMA NodesRightKept ==
  ASSUME NEW calls, Working(calls), NodesChange, NodesRight
  PROVE  NodesRight'
<1>1. gltf' = gltf /\ \A n : IsJoint(n)' <=> IsJoint(n)
  BY DEF Working, IsJoint
<1> QED BY <1>1 DEF NodesChange, NodesRight, NodeRight

(* That they have the ancestors of the file.                               *)
LEMMA ParentsRightKept ==
  ASSUME NEW calls, Working(calls), ParentsChange, ParentsRight
  PROVE  ParentsRight'
<1>1. gltf' = gltf
  BY DEF Working
<1> QED BY <1>1 DEF ParentsChange, ParentsRight, IsAncestor, NodesOf

(* The whole of it is kept by a call that changes no more.                 *)
LEMMA GraphKept ==
  ASSUME NEW calls, Working(calls), NEW V, NEW W, GraphParts(V),
         Visiting(calls, V, W), ParentsChange, ScenesChange(calls),
         NodesChange, CallsChange(calls, W)
  PROVE  GraphParts(W)'
<1>1. W \subseteq Elems(gltf.nodes) /\ gltf' = gltf
  BY DEF Visiting, Working
<1>2. ChildrenReached(W)' /\ ScenesReached(W)'
  BY ChildrenReachedKept, ScenesReachedKept DEF GraphParts
<1>3. RestVisited(W)' /\ NodesNeeded(W)' /\ AnimationsLast'
  BY RestVisitedKept, NodesNeededKept, AnimationsLastKept DEF GraphParts
<1>4. NodesMade' /\ NodesRight' /\ ParentsRight'
  BY NodesMadeKept, NodesRightKept, ParentsRightKept DEF GraphParts
<1> QED BY <1>1, <1>2, <1>3, <1>4 DEF GraphParts

(* A call of another part of the loader.                                   *)
LEMMA GraphQuiet ==
  ASSUME LoaderInv, LookCall \/ DataCall, load' = "loading",
         NEW V, GraphParts(V)
  PROVE  GraphParts(V)'
<1>1. PICK calls \in Seq(MadeFrom(gltf, Head(todo).do)) : Working(calls)
  BY CallingWorks DEF Calling
<1>2. SameGraph
  <2>1. IsShape(coll, gltf)
    BY <1>1 DEF Working
  <2> QED BY <2>1, LookLeaves, DataLeaves
<1>3. Head(todo).do \in {"loadTexture", "loadImage", "makeTexture",
         "loadMaterial", "getTexture", "setTexture", "setMaterial",
         "loadMesh", "newPrimitive", "getData", "copyMaterial", "makeMesh",
         "loadAnimation", "newAction", "makeAnimation"}
  BY Zenon DEF LookCall, DataCall, LoadTexture, LoadImage, MakeTexture,
         LoadMaterial, GetTexture, SetTexture, SetMaterial, LoadMesh,
         NewPrimitive, GetData, CopyMaterial, MakeMesh, LoadAnimation,
         NewAction, MakeAnimation, Doing
<1>4. /\ MadeBy(Head(todo).do) \cap {"loadRest", "loadAnimation"} = {}
      /\ "loadNode" \in MadeBy(Head(todo).do) => Head(todo).do = "loadAnimation"
  BY <1>3 DEF MadeBy
<1>5. \A k \in 1..Len(calls) : calls[k].do \in MadeBy(Head(todo).do)
  <2>1. \A k \in 1..Len(calls) : calls[k] \in MadeFrom(gltf, Head(todo).do)
    BY ElementOfSeq
  <2> QED BY <2>1 DEF MadeFrom
<1>6. CallsChange(calls, V)
  BY <1>3, <1>4, <1>5 DEF CallsChange
<1>7. Visiting(calls, V, V)
  BY <1>3 DEF Visiting, GraphParts
<1>8. ParentsChange /\ ScenesChange(calls) /\ NodesChange
  BY <1>2, <1>3 DEF SameGraph, ParentsChange, ScenesChange, NodesChange
<1> QED BY <1>1, <1>6, <1>7, <1>8, GraphKept

(* The calls for nodes, made one after the other.                          *)
GraphsRight(c, nodes, S) ==
  /\ c \in Seq(S)
  /\ \A n \in ToSet(nodes) : Reaches(c, n)
  /\ \A k \in 1..Len(c) : c[k].do \in {"loadGraph", "insert"}

(* Graphs reaches all the nodes that it is given.                          *)
LEMMA GraphsReach ==
  ASSUME NEW g, NEW into, NEW nodes \in Seq(Elems(g.nodes)), NEW S,
         \A n \in Elems(g.nodes) : Do("loadGraph", n) \in S,
         \A n \in ToSet(nodes) : DoIn("insert", n, into) \in S
  PROVE  GraphsRight(Graphs(into, nodes), nodes, S)
<1> PICK c : c = Graphs(into, nodes)
  OBVIOUS
<1>1. c \in Seq(S) /\ ToSet(c) = {Do("loadGraph", n) : n \in ToSet(nodes)}
              \cup {DoIn("insert", n, into) : n \in ToSet(nodes)}
  BY GraphsMade
<1>2. DOMAIN c = 1..Len(c)
  BY <1>1
<1>3. ToSet(c) = {c[k] : k \in 1..Len(c)}
  BY <1>2 DEF ToSet
<1>4. ASSUME NEW n \in ToSet(nodes)
      PROVE  Reaches(c, n)
  <2>1. Do("loadGraph", n) \in ToSet(c) /\ DoIn("insert", n, into) \in ToSet(c)
    BY <1>1
  <2>2. PICK k \in 1..Len(c) : c[k] = Do("loadGraph", n)
    BY <1>3, <2>1
  <2>3. PICK j \in 1..Len(c) : c[j] = DoIn("insert", n, into)
    BY <1>3, <2>1
  <2>4. /\ c[k].do = "loadGraph" /\ c[k].i = n
        /\ c[j].do = "insert" /\ c[j].i = n
    BY <2>2, <2>3 DEF Do, DoIn
  <2> QED BY <2>4 DEF Reaches
<1>5. ASSUME NEW k \in 1..Len(c)
      PROVE  c[k].do \in {"loadGraph", "insert"}
  <2>1. c[k] \in ToSet(c)
    BY <1>3
  <2>2. \/ \E n : c[k] = Do("loadGraph", n)
        \/ \E n : c[k] = DoIn("insert", n, into)
    BY <1>1, <2>1
  <2>3. \A n : /\ Do("loadGraph", n).do = "loadGraph"
               /\ DoIn("insert", n, into).do = "insert"
    BY DEF Do, DoIn
  <2> QED BY <2>2, <2>3
<1>6. GraphsRight(c, nodes, S)
  BY <1>1, <1>4, <1>5 DEF GraphsRight
<1> QED BY <1>6

(* Each call does as it must: loadScene.                                   *)
LEMMA LoadSceneGraph ==
  ASSUME LoaderInv, LoadScene, load' = "loading", NEW V, GraphParts(V)
  PROVE  GraphParts(V)'
<1>1. /\ gltf \in FileType /\ Valid(gltf) /\ IsShape(coll, gltf)
      /\ Head(todo) \in CallsOf(gltf) /\ Head(todo).do = "loadScene"
  BY HeadTyped DEF LoadScene
<1> PICK s : s = I
  OBVIOUS
<1>2. s \in Elems(gltf.scenes) /\ Head(todo).i = s
  BY <1>1, CallKinds DEF I, SceneCalls
<1> PICK nodes : nodes = Item(gltf.scenes, s).nodes
  OBVIOUS
<1>3. nodes \in Seq(Elems(gltf.nodes))
  BY <1>1, <1>2, GraphRefers
<1>4. \A n \in Elems(gltf.nodes) : Do("loadGraph", n) \in CallsOf(gltf)
  BY CallsMade
<1>5. \A n \in ToSet(nodes) : DoIn("insert", n, <<"scene", s>>) \in CallsOf(gltf)
  <2>1. \A n \in ToSet(nodes) : n \in Elems(gltf.nodes)
    BY <1>3, ElementOfSeq DEF ToSet
  <2> QED BY <1>2, <2>1, CallsMadeIn DEF Item
<1> PICK c : c = Graphs(<<"scene", s>>, nodes)
  OBVIOUS
<1>6. GraphsRight(c, nodes, CallsOf(gltf))
  BY <1>3, <1>4, <1>5, GraphsReach
<1>7. \/ Item(coll.scenes, s) # Absent /\ Skip
      \/ /\ coll' = [coll EXCEPT !.scenes[s + 1] = [type |-> "scene"]]
         /\ Then(c)
  BY Zenon DEF LoadScene
<1>8. CASE Item(coll.scenes, s) # Absent /\ Skip
  <2>1. Makes(<<>>) /\ coll' = coll
    BY <1>8 DEF Skip, Then, Makes
  <2> PICK none : none = <<>>
    OBVIOUS
  <2>2. none \in Seq(CallsOf(gltf)) /\ Len(none) = 0 /\ Makes(none)
    BY <2>1
  <2>3. Working(none)
    BY <2>2, CallingWorks DEF Calling, GraphCall
  <2>4. Visiting(none, V, V) /\ CallsChange(none, V)
    BY <1>1, <2>2 DEF Visiting, CallsChange, GraphParts
  <2>5. ParentsChange /\ ScenesChange(none) /\ NodesChange
    BY <1>1, <1>2, <1>8, <2>1 DEF ParentsChange, ScenesChange, NodesChange
  <2> QED BY <2>3, <2>4, <2>5, GraphKept
<1>9. CASE /\ coll' = [coll EXCEPT !.scenes[s + 1] = [type |-> "scene"]]
           /\ Then(c)
  <2>1. Makes(c)
    BY <1>9 DEF Then, Makes
  <2>2. Working(c)
    BY <1>6, <2>1, CallingWorks DEF Calling, GraphCall, GraphsRight
  <2>3. Visiting(c, V, V) /\ CallsChange(c, V)
    BY <1>1, <1>6 DEF Visiting, CallsChange, GraphParts, GraphsRight
  <2>4. /\ coll'.parent = coll.parent /\ coll'.nodes = coll.nodes
        /\ coll'.scenes = [coll.scenes EXCEPT ![s + 1] = [type |-> "scene"]]
    BY <1>1, <1>9 DEF IsShape
  <2>5. /\ Item(coll'.scenes, s) = [type |-> "scene"]
        /\ \A t \in Elems(gltf.scenes) :
             t # s => Item(coll'.scenes, t) = Item(coll.scenes, t)
    <3>1. gltf.scenes \in Seq(SceneType) /\ Over(coll.scenes, gltf.scenes)
      BY <1>1 DEF FileType, IsShape
    <3>2. \A t \in Elems(gltf.scenes) : t + 1 \in DOMAIN coll.scenes /\ t \in Nat
      BY <3>1, ElemsIn DEF Over
    <3> QED BY <2>4, <3>2, <1>2 DEF Item
  <2>6. [type |-> "scene"] # Absent
    BY DEF Absent
  <2>7. \A n \in NodesOf(s) : Reaches(c, n)
    BY <1>6 DEF NodesOf, GraphsRight
  <2>8. ParentsChange /\ ScenesChange(c) /\ NodesChange
    BY <1>1, <1>2, <2>4, <2>5, <2>6, <2>7
       DEF ParentsChange, ScenesChange, NodesChange
  <2> QED BY <2>2, <2>3, <2>8, GraphKept
<1> QED BY <1>7, <1>8, <1>9

(* A call that makes one more, or none, and changes no node.               *)
LEMMA NoneMade ==
  ASSUME LoaderInv, Calling, load' = "loading", Makes(<<>>)
  PROVE  \E none \in Seq(CallsOf(gltf)) : Len(none) = 0 /\ Working(none)
<1> PICK none : none = <<>>
  OBVIOUS
<1>1. none \in Seq(CallsOf(gltf)) /\ Len(none) = 0 /\ Makes(none)
  OBVIOUS
<1>2. Working(none)
  BY <1>1, CallingWorks
<1> QED BY <1>1, <1>2

(* The loop over the nodes that are left.                                  *)
LEMMA LoadRestGraph ==
  ASSUME LoaderInv, LoadRest, load' = "loading", NEW V, GraphParts(V)
  PROVE  GraphParts(V)'
<1>1. /\ gltf \in FileType /\ Valid(gltf) /\ IsShape(coll, gltf)
      /\ Head(todo) \in CallsOf(gltf) /\ Head(todo).do = "loadRest"
  BY HeadTyped DEF LoadRest
<1> PICK n : n = I
  OBVIOUS
<1>2. n \in Elems(gltf.nodes) /\ Head(todo).i = n
  BY <1>1, CallKinds DEF I, NodeCalls
<1>3. coll' = coll
  BY DEF LoadRest, Skip
<1>4. \/ Item(coll.nodes, n) # Absent /\ Makes(<<>>)
      \/ Makes(<<Do("loadGraph", n)>>)
  BY Zenon DEF LoadRest, Skip, Then, Makes
<1>5. ParentsChange /\ NodesChange /\ \A calls : ScenesChange(calls)
  BY <1>1, <1>3 DEF ParentsChange, ScenesChange, NodesChange
<1>6. CASE Item(coll.nodes, n) # Absent /\ Makes(<<>>)
  <2>1. PICK none \in Seq(CallsOf(gltf)) : Len(none) = 0 /\ Working(none)
    BY <1>6, NoneMade DEF Calling, GraphCall
  <2>2. Visiting(none, V, V) /\ CallsChange(none, V)
    BY <1>1, <1>2, <1>6, <2>1 DEF Visiting, CallsChange, GraphParts
  <2> QED BY <1>5, <2>1, <2>2, GraphKept
<1>7. CASE Makes(<<Do("loadGraph", n)>>)
  <2> PICK c : c = <<Do("loadGraph", n)>>
    OBVIOUS
  <2>1. Do("loadGraph", n) \in CallsOf(gltf)
    BY <1>2, CallsMade
  <2>2. c \in Seq(CallsOf(gltf)) /\ Len(c) = 1 /\ c[1] = Do("loadGraph", n)
    BY <2>1
  <2>3. Working(c)
    BY <1>7, <2>2, CallingWorks DEF Calling, GraphCall
  <2>4. c[1].do = "loadGraph" /\ c[1].i = n
    BY <2>2 DEF Do
  <2>5. Visiting(c, V, V) /\ CallsChange(c, V)
    BY <1>1, <1>2, <2>2, <2>4 DEF Visiting, CallsChange, GraphParts
  <2> QED BY <1>5, <2>3, <2>5, GraphKept
<1> QED BY <1>4, <1>6, <1>7

(* One call before others.                                                 *)
Prefixed(c, x, b, S) ==
  /\ c \in Seq(S) /\ Len(c) = Len(b) + 1 /\ c[1] = x
  /\ \A k \in 1..Len(b) : c[k + 1] = b[k]
  /\ \A k \in 2..Len(c) : c[k] = b[k - 1]

(* A call before a list of them.                                           *)
LEMMA PrefixedIs ==
  ASSUME NEW S, NEW x \in S, NEW b \in Seq(S)
  PROVE  Prefixed(<<x>> \o b, x, b, S)
<1> PICK a : a = <<x>>
  OBVIOUS
<1> PICK c : c = a \o b
  OBVIOUS
<1>1. a \in Seq(S) /\ Len(a) = 1 /\ a[1] = x
  OBVIOUS
<1> HIDE DEF Concatenated
<1>2. Concatenated(a \o b, a, b, S)
  BY <1>1, ConcatIs
<1>3. Concatenated(c, a, b, S)
  BY <1>2
<1>4. Prefixed(c, x, b, S)
  <2>1. /\ c \in Seq(S) /\ Len(c) = Len(b) + 1 /\ c[1] = x /\ Len(b) \in Nat
        /\ \A k \in 2..Len(c) : c[k] = b[k - 1]
    BY <1>1, <1>3 DEF Concatenated
  <2>2. \A k \in 1..Len(b) : k + 1 \in 2..Len(c) /\ (k + 1) - 1 = k
    BY <2>1
  <2> QED BY <2>1, <2>2 DEF Prefixed
<1> QED BY <1>4

VisitCalls(c, x, nodes) ==
  /\ 1 \in 1..Len(c) /\ c[1] = x
  /\ \A n \in ToSet(nodes) : Reaches(c, n)
  /\ \A k \in 1..Len(c) : k = 1 \/ c[k].do \in {"loadGraph", "insert"}

(* A visit: the node first, then its children.                             *)
LEMMA GraphsPrefixed ==
  ASSUME NEW S, NEW c, NEW x, NEW b, NEW nodes, Prefixed(c, x, b, S),
         GraphsRight(b, nodes, S)
  PROVE  VisitCalls(c, x, nodes)
<1>1. /\ c \in Seq(S) /\ Len(b) \in Nat /\ Len(c) = Len(b) + 1 /\ c[1] = x
      /\ \A k \in 1..Len(b) : k + 1 \in 1..Len(c) /\ c[k + 1] = b[k]
  BY DEF Prefixed, GraphsRight
<1>2. ASSUME NEW n \in ToSet(nodes)
      PROVE  Reaches(c, n)
  <2>1. Reaches(b, n)
    BY DEF GraphsRight
  <2> QED BY <2>1, <1>1 DEF Reaches
<1>3. ASSUME NEW k \in 1..Len(c)
      PROVE  k = 1 \/ c[k].do \in {"loadGraph", "insert"}
  <2>1. k = 1 \/ (k \in 2..Len(c) /\ k - 1 \in 1..Len(b))
    BY <1>1
  <2>2. k \in 2..Len(c) => c[k] = b[k - 1]
    BY DEF Prefixed
  <2> QED BY <2>1, <2>2 DEF GraphsRight
<1> QED BY <1>1, <1>2, <1>3 DEF VisitCalls

(* loadGraph: one more node is visited.                                    *)
LEMMA LoadGraphGraph ==
  ASSUME LoaderInv, LoadGraph, load' = "loading", NEW V, GraphParts(V)
  PROVE  \E W : GraphParts(W)'
<1>1. /\ gltf \in FileType /\ Valid(gltf) /\ IsShape(coll, gltf)
      /\ Head(todo) \in CallsOf(gltf) /\ Head(todo).do = "loadGraph"
  BY HeadTyped DEF LoadGraph
<1> PICK p : p = I
  OBVIOUS
<1>2. p \in Elems(gltf.nodes) /\ Head(todo).i = p
  BY <1>1, CallKinds DEF I, NodeCalls
<1> PICK nodes : nodes = Item(gltf.nodes, p).children
  OBVIOUS
<1> PICK S : S = CallsOf(gltf)
  OBVIOUS
<1>3. nodes \in Seq(Elems(gltf.nodes)) /\ ToSet(nodes) = ChildrenOf(gltf, p)
  BY <1>1, <1>2, GraphRefers DEF ChildrenOf, Item
<1>4. \A n \in Elems(gltf.nodes) : Do("loadGraph", n) \in S
  BY CallsMade
<1>5. \A n \in ToSet(nodes) : DoIn("insert", n, <<"node", p>>) \in S
  <2>1. \A n \in ToSet(nodes) : n \in Elems(gltf.nodes)
    BY <1>3, ElementOfSeq DEF ToSet
  <2> QED BY <1>2, <1>3, <2>1, CallsMadeIn DEF Item
<1> PICK b : b = Graphs(<<"node", p>>, nodes)
  OBVIOUS
<1>6. GraphsRight(b, nodes, S)
  BY <1>3, <1>4, <1>5, GraphsReach
<1>7. Do("loadNode", p) \in S
  BY <1>2, CallsMade
<1> PICK c : c = <<Do("loadNode", p)>> \o b
  OBVIOUS
<1>8. Prefixed(c, Do("loadNode", p), b, S)
  BY <1>6, <1>7, PrefixedIs DEF GraphsRight
<1>a. VisitCalls(c, Do("loadNode", p), nodes)
  BY <1>6, <1>8, GraphsPrefixed
<1>9. /\ 1 \in 1..Len(c) /\ c[1] = Do("loadNode", p)
      /\ \A n \in ToSet(nodes) : Reaches(c, n)
      /\ \A k \in 1..Len(c) : k = 1 \/ c[k].do \in {"loadGraph", "insert"}
  BY <1>a DEF VisitCalls
<1>10. c \in Seq(S) /\ c[1].do = "loadNode" /\ c[1].i = p
  BY <1>8, <1>9 DEF Do, Prefixed
<1>11. Working(c)
  <2>1. Makes(c)
    <3>1. Then(<<Do("loadNode", p)>> \o Graphs(<<"node", p>>, nodes))
      BY Zenon DEF LoadGraph
    <3> QED BY <3>1, Zenon DEF Then, Makes
  <2> QED BY <1>10, <2>1, CallingWorks DEF Calling, GraphCall
<1>12. coll' = coll
  BY DEF LoadGraph
<1> PICK W : W = V \cup {p}
  OBVIOUS
<1>13. Visiting(c, V, W)
  BY <1>1, <1>2, <1>3, <1>9 DEF Visiting, GraphParts
<1>14. CallsChange(c, W)
  <2>1. p \in W
    OBVIOUS
  <2> QED BY <1>1, <1>2, <1>9, <1>10, <2>1 DEF CallsChange
<1>15. ParentsChange /\ ScenesChange(c) /\ NodesChange
  BY <1>1, <1>12 DEF ParentsChange, ScenesChange, NodesChange
<1>16. GraphParts(W)'
  BY <1>11, <1>13, <1>14, <1>15, GraphKept
<1> QED BY <1>16

(* Node::insert.                                                           *)
LEMMA InsertGraph ==
  ASSUME LoaderInv, InsertNode, load' = "loading", NEW V, GraphParts(V)
  PROVE  GraphParts(V)'
<1>1. /\ gltf \in FileType /\ Valid(gltf) /\ IsShape(coll, gltf)
      /\ Head(todo) \in CallsOf(gltf) /\ Head(todo).do = "insert"
  BY HeadTyped DEF InsertNode
<1> PICK n : n = I
  OBVIOUS
<1> PICK a : a = Head(todo).k
  OBVIOUS
<1>2. n \in Elems(gltf.nodes) /\ Head(todo).i = n /\ IsAncestor(a, n)
  <2>1. Head(todo) \in InsertCalls(gltf)
    BY <1>1, CallKinds
  <2>2. a = <<a[1], a[2]>>
    BY <2>1 DEF InsertCalls
  <2> QED BY <2>1, <2>2 DEF InsertCalls, I, IsAncestor, NodesOf, Item
<1>3. coll' = [coll EXCEPT !.parent[n + 1] = a] /\ Makes(<<>>)
  BY Zenon DEF InsertNode, Then, Makes
<1>4. PICK none \in Seq(CallsOf(gltf)) : Len(none) = 0 /\ Working(none)
  BY <1>3, NoneMade DEF Calling, GraphCall
<1>5. /\ coll'.scenes = coll.scenes /\ coll'.nodes = coll.nodes
      /\ coll'.parent = [coll.parent EXCEPT ![n + 1] = a]
  BY <1>1, <1>3 DEF IsShape
<1>6. /\ Item(coll'.parent, n) = a
      /\ \A m \in Elems(gltf.nodes) :
           m # n => Item(coll'.parent, m) = Item(coll.parent, m)
  <2>1. gltf.nodes \in Seq(NodeType) /\ Over(coll.parent, gltf.nodes)
    BY <1>1 DEF FileType, IsShape
  <2>2. \A m \in Elems(gltf.nodes) : m + 1 \in DOMAIN coll.parent /\ m \in Nat
    BY <2>1, ElemsIn DEF Over
  <2> QED BY <1>5, <2>2, <1>2 DEF Item
<1>7. Visiting(none, V, V) /\ CallsChange(none, V)
  BY <1>1, <1>4 DEF Visiting, CallsChange, GraphParts
<1>8. ParentsChange
  BY <1>2, <1>6 DEF ParentsChange
<1>9. ScenesChange(none) /\ NodesChange
  BY <1>1, <1>5 DEF ScenesChange, NodesChange
<1> QED BY <1>4, <1>7, <1>8, <1>9, GraphKept

(* loadNode.                                                               *)
LEMMA LoadNodeGraph ==
  ASSUME LoaderInv, LoadNode, load' = "loading", NEW V, GraphParts(V)
  PROVE  GraphParts(V)'
<1>1. /\ gltf \in FileType /\ Valid(gltf) /\ IsShape(coll, gltf)
      /\ Head(todo) \in CallsOf(gltf) /\ Head(todo).do = "loadNode"
  BY HeadTyped DEF LoadNode
<1> PICK n : n = I
  OBVIOUS
<1>2. n \in Elems(gltf.nodes) /\ Head(todo).i = n
  BY <1>1, CallKinds DEF I, NodeCalls
<1> PICK nd : nd = Item(gltf.nodes, n)
  OBVIOUS
<1> PICK v : v = [type |-> IF nd.mesh >= 0 THEN "model"
                           ELSE IF IsJoint(n) THEN "joint" ELSE "node",
                  mesh |-> nd.mesh,
                  skin |-> IF nd.mesh >= 0 THEN nd.skin ELSE -1,
                  transform |-> nd.transform, name |-> nd.name]
  OBVIOUS
<1>3. \/ Item(coll.nodes, n) # Absent /\ coll' = coll
      \/ /\ ~(nd.mesh >= 0 /\ IsJoint(n))
         /\ coll' = [coll EXCEPT !.nodes[n + 1] = v]
  <2>1. \/ Item(coll.nodes, n) # Absent /\ Skip
        \/ ThrowLoad
        \/ /\ ~(nd.mesh >= 0 /\ IsJoint(n))
           /\ coll' = [coll EXCEPT !.nodes[n + 1] = v]
    BY Zenon DEF LoadNode
  <2> QED BY <2>1 DEF Skip, ThrowLoad
<1>4. PICK calls \in Seq(MadeFrom(gltf, Head(todo).do)) : Working(calls)
  BY CallingWorks DEF Calling, GraphCall
<1>5. \A k \in 1..Len(calls) : calls[k].do \in {"loadMesh", "loadSkin"}
  <2>1. \A k \in 1..Len(calls) : calls[k] \in MadeFrom(gltf, Head(todo).do)
    BY <1>4, ElementOfSeq
  <2> QED BY <1>1, <2>1, MadeByEach DEF MadeFrom
<1>6. Visiting(calls, V, V) /\ CallsChange(calls, V)
  BY <1>1, <1>5 DEF Visiting, CallsChange, GraphParts
<1>7. coll'.scenes = coll.scenes /\ coll'.parent = coll.parent
  BY <1>1, <1>3 DEF IsShape
<1>8. ParentsChange /\ ScenesChange(calls)
  BY <1>1, <1>7 DEF ParentsChange, ScenesChange
<1>9. NodesChange
  <2>1. CASE Item(coll.nodes, n) # Absent /\ coll' = coll
    BY <1>1, <1>2, <2>1 DEF NodesChange
  <2>2. CASE /\ ~(nd.mesh >= 0 /\ IsJoint(n))
             /\ coll' = [coll EXCEPT !.nodes[n + 1] = v]
    <3>1. coll'.nodes = [coll.nodes EXCEPT ![n + 1] = v]
      BY <1>1, <2>2 DEF IsShape
    <3>2. gltf.nodes \in Seq(NodeType) /\ Over(coll.nodes, gltf.nodes)
      BY <1>1 DEF FileType, IsShape
    <3>3. \A m \in Elems(gltf.nodes) : m + 1 \in DOMAIN coll.nodes /\ m \in Nat
      BY <3>2, ElemsIn DEF Over
    <3>4. /\ Item(coll'.nodes, n) = v
          /\ \A m \in Elems(gltf.nodes) :
               m # n => Item(coll'.nodes, m) = Item(coll.nodes, m)
      BY <3>1, <3>3, <1>2 DEF Item
    <3>5. v # Absent
      <4>1. v.type \in {"model", "joint", "node"} /\ Absent.type = "absent"
        BY DEF Absent
      <4> QED BY <4>1
    <3>6. NodeRight(n, v)
      <4>1. nd.mesh \in Int
        BY <1>1, <1>2, GraphRefers
      <4> QED BY <2>2, <3>5, <4>1 DEF NodeRight
    <3> QED BY <1>1, <1>2, <3>4, <3>5, <3>6 DEF NodesChange
  <2> QED BY <1>3, <2>1, <2>2
<1> QED BY <1>4, <1>6, <1>8, <1>9, GraphKept

(* Two lists in turn.                                                      *)
Turned(t, a, b, S) ==
  /\ t \in Seq(S) /\ Len(t) = 2 * Len(a)
  /\ \A k \in 1..Len(a) : t[2 * k - 1] = a[k] /\ t[2 * k] = b[k]
  /\ \A p \in 1..(2 * Len(a)) : \E k \in 1..Len(a) : p = 2 * k - 1 \/ p = 2 * k

(* Two lists in turn, as it is used below.                                 *)
LEMMA TurnedIs ==
  ASSUME NEW S, NEW a \in Seq(S), NEW b \in Seq(S), Len(b) = Len(a)
  PROVE  Turned(InTurn(a, b), a, b, S)
<1> PICK t : t = InTurn(a, b)
  OBVIOUS
<1>1. t \in Seq(S) /\ Len(t) = 2 * Len(a)
  BY InTurnMade
<1>2. \A k \in 1..Len(a) : t[2 * k - 1] = a[k] /\ t[2 * k] = b[k]
  BY InTurnMade
<1>3. \A p \in 1..(2 * Len(a)) : \E k \in 1..Len(a) : p = 2 * k - 1 \/ p = 2 * k
  BY InTurnMade
<1> QED BY <1>1, <1>2, <1>3 DEF Turned

-----------------------------------------------------------------------------
(* The skins.                                                              *)

JointsOf(s) == Item(gltf.skins, s).joints
JointCallsOf(s) ==
  InTurn(ForAll("loadNode", JointsOf(s)),
         [j \in DOMAIN JointsOf(s) |-> DoNth("setJoint", s, j)])
JointCallsRight(c, s) ==
  /\ c \in Seq(CallsOf(gltf))
  /\ \A p \in 1..Len(c) :
       \/ c[p].do = "loadNode" /\ IsJoint(c[p].i)
       \/ c[p].do = "setJoint" /\ c[p].i = s
  /\ \A j \in DOMAIN JointsOf(s) :
       \E p \in 1..Len(c) : c[p].do = "setJoint" /\ c[p].i = s /\ c[p].n = j

(* What a skin has for joints are joints.                                  *)
LEMMA JointIs ==
  ASSUME gltf \in FileType, Valid(gltf), NEW s \in Elems(gltf.skins),
         NEW j \in DOMAIN JointsOf(s)
  PROVE  IsJoint(JointsOf(s)[j])
<1>1. /\ gltf.skins \in Seq(SkinType)
      /\ JointsOf(s) \in Seq(Elems(gltf.nodes))
  BY GraphRefers DEF FileType, JointsOf
<1>2. s + 1 \in DOMAIN gltf.skins
  BY <1>1, ElemsIn
<1>3. j \in 1..Len(JointsOf(s))
  BY <1>1
<1> QED BY <1>2, <1>3 DEF IsJoint, JointsOf, Item, Contains

(* The calls that a skin makes: each joint is loaded, then set.            *)
LEMMA JointCallsMade ==
  ASSUME gltf \in FileType, Valid(gltf), NEW s \in Elems(gltf.skins)
  PROVE  JointCallsRight(JointCallsOf(s), s)
<1> PICK joints : joints = JointsOf(s)
  OBVIOUS
<1> PICK S : S = CallsOf(gltf)
  OBVIOUS
<1>1. joints \in Seq(Elems(gltf.nodes))
  BY GraphRefers DEF JointsOf
<1>2. DOMAIN joints = 1..Len(joints) /\ Len(joints) \in Nat
  BY <1>1
<1>3. \A k \in 1..Len(joints) : DoNth("setJoint", s, k) \in S
  BY <1>2, CallsMadeIn DEF JointsOf, Item
<1> PICK b : b = [k \in DOMAIN joints |-> DoNth("setJoint", s, k)]
  OBVIOUS
<1>4. Numbered([k \in 1..Len(joints) |-> DoNth("setJoint", s, k)], "setJoint", s,
               Len(joints), S)
  BY <1>2, <1>3, NthNumbered
<1>5. Numbered(b, "setJoint", s, Len(joints), S)
  BY <1>2, <1>4
<1> PICK a : a = ForAll("loadNode", joints)
  OBVIOUS
<1>6. Bulk(ForAll("loadNode", joints), "loadNode", joints, S)
  <2>1. \A i \in Elems(gltf.nodes) : Do("loadNode", i) \in S
    BY CallsMade
  <2> QED BY <1>1, <2>1, ForAllBulk
<1>7. Bulk(a, "loadNode", joints, S)
  BY <1>6
<1>8. Turned(InTurn(a, b), a, b, S)
  BY <1>5, <1>7, TurnedIs DEF Numbered, Bulk
<1> PICK t : t = InTurn(a, b)
  OBVIOUS
<1>9. Turned(t, a, b, S)
  BY <1>8
<1>10. t = JointCallsOf(s)
  BY DEF JointCallsOf
<1>11. JointCallsRight(t, s)
  <2>1. /\ t \in Seq(S) /\ Len(a) = Len(joints) /\ Len(t) = 2 * Len(joints)
        /\ \A k \in 1..Len(joints) : a[k] = Do("loadNode", joints[k])
        /\ \A k \in 1..Len(joints) : b[k] = DoNth("setJoint", s, k)
    BY <1>5, <1>7, <1>9 DEF Turned, Numbered, Bulk
  <2>2. ASSUME NEW k \in 1..Len(joints)
        PROVE  /\ t[2 * k - 1].do = "loadNode" /\ IsJoint(t[2 * k - 1].i)
               /\ t[2 * k].do = "setJoint" /\ t[2 * k].i = s /\ t[2 * k].n = k
               /\ 2 * k \in 1..Len(t)
    <3>1. t[2 * k - 1] = Do("loadNode", joints[k]) /\ t[2 * k] = DoNth("setJoint", s, k)
      BY <1>9, <2>1 DEF Turned
    <3>2. IsJoint(joints[k])
      BY <1>2, JointIs
    <3>3. 2 * k \in 1..Len(t)
      BY <1>2, <2>1
    <3> QED BY <3>1, <3>2, <3>3 DEF Do, DoNth
  <2>3. ASSUME NEW p \in 1..Len(t)
        PROVE  \/ t[p].do = "loadNode" /\ IsJoint(t[p].i)
               \/ t[p].do = "setJoint" /\ t[p].i = s
    <3> PICK n : n = Len(a)
      OBVIOUS
    <3>0. p \in 1..(2 * n) /\ n = Len(joints)
      BY <1>9, <2>1 DEF Turned
    <3>1. PICK k \in 1..Len(joints) : p = 2 * k - 1 \/ p = 2 * k
      BY <1>9, <3>0 DEF Turned
    <3> QED BY <3>1, <2>2
  <2>4. ASSUME NEW j \in DOMAIN joints
        PROVE  \E p \in 1..Len(t) :
                 t[p].do = "setJoint" /\ t[p].i = s /\ t[p].n = j
    <3>1. j \in 1..Len(joints)
      BY <1>2
    <3> PICK p : p = 2 * j
      OBVIOUS
    <3>2. /\ p \in 1..Len(t) /\ t[p].do = "setJoint" /\ t[p].i = s
          /\ t[p].n = j
      BY <3>1, <2>2
    <3> QED BY <3>2
  <2> QED BY <2>1, <2>3, <2>4 DEF JointCallsRight
<1> QED BY <1>10, <1>11

BindOf(s) ==
  IF Item(gltf.skins, s).inverseBindMatrices < 0 THEN <<>>
  ELSE Reference(Item(gltf.accessors, Item(gltf.skins, s).inverseBindMatrices),
                 64, 64)
PendingJoint(s, j) ==
  \E c \in ToSet(todo) : c.do = "setJoint" /\ c.i = s /\ c.n = j
IsSkin(s, v) ==
  /\ v = [type |-> "skin", inverseBind |-> v.inverseBind, joints |-> v.joints]
  /\ v.joints = [j \in DOMAIN JointsOf(s) |-> v.joints[j]]
  /\ v.inverseBind = BindOf(s)
SkinsFirst ==
  \A s \in Elems(gltf.skins) :
    Pending({"setJoint"}, s) => Item(coll.skins, s) # Absent
SkinsMade ==
  \A s \in Elems(gltf.skins) :
    IF Item(coll.skins, s) = Absent THEN Pending({"loadSkin"}, s)
    ELSE /\ IsSkin(s, Item(coll.skins, s))
         /\ \A j \in DOMAIN JointsOf(s) :
              \/ Item(coll.skins, s).joints[j] = JointsOf(s)[j]
              \/ PendingJoint(s, j)
SkinParts == SkinsFirst /\ SkinsMade

(* What is read for an accessor is what it selects.                        *)
LEMMA ContentIs ==
  ASSUME NEW acc, NEW size, acc.count \in Int,
         acc.byteOffset \in Int, ViewOf(acc).byteOffset \in Int, size \in Int
  PROVE  Content(acc, size) = Reference(acc, size, size)
BY DEF Content, Reference, Elements, SeekAccessor, SeekBufferView, Rewound

(* A joint is pending until it is its turn.                                *)
LEMMA PendingJointKept ==
  ASSUME NEW calls, Working(calls), NEW s, NEW j, PendingJoint(s, j)
  PROVE  \/ PendingJoint(s, j)'
         \/ Head(todo).do = "setJoint" /\ Head(todo).i = s /\ Head(todo).n = j
<1>1. ToSet(todo) \subseteq ToSet(todo') \cup {Head(todo)}
  BY Positions DEF Working, Makes
<1> QED BY <1>1 DEF PendingJoint

(* A call that leaves the skins alone keeps what is known of them.         *)
LEMMA SkinsQuiet ==
  ASSUME NEW calls, Working(calls), SkinParts, coll'.skins = coll.skins,
         Head(todo).do \notin {"loadSkin", "setJoint"},
         \A k \in 1..Len(calls) : calls[k].do # "setJoint"
  PROVE  SkinParts'
<1>1. gltf' = gltf
  BY DEF Working
<1>2. \A s : JointsOf(s)' = JointsOf(s) /\ BindOf(s)' = BindOf(s)
  BY <1>1 DEF JointsOf, BindOf, Reference, ViewOf
<1>3. SkinsFirst'
  <2>1. \A s : Pending({"setJoint"}, s)' => Pending({"setJoint"}, s)
    BY PendingBefore
  <2> QED BY <1>1, <2>1 DEF SkinParts, SkinsFirst
<1>4. SkinsMade'
  <2>1. \A s : Pending({"loadSkin"}, s) => Pending({"loadSkin"}, s)'
    BY PendingKept
  <2>2. \A s, j : PendingJoint(s, j) => PendingJoint(s, j)'
    BY PendingJointKept
  <2> QED BY <1>1, <1>2, <2>1, <2>2 DEF SkinParts, SkinsMade, IsSkin
<1> QED BY <1>3, <1>4 DEF SkinParts

(* A skin is not the lack of one.                                          *)
LEMMA SkinIsThere ==
  ASSUME NEW s, NEW v, IsSkin(s, v)
  PROVE  v # Absent
<1>1. v.type = "skin" /\ Absent.type = "absent"
  BY DEF IsSkin, Absent
<1> QED BY <1>1

(* What loadSkin does when it does not throw.                              *)
LEMMA LoadSkinDoes ==
  ASSUME LoaderInv, LoadSkin, load' = "loading", NEW s, s = I
  PROVE  \/ Item(coll.skins, s) # Absent /\ coll' = coll /\ Makes(<<>>)
         \/ /\ Item(coll.skins, s) = Absent
            /\ coll' = [coll EXCEPT !.skins[s + 1] =
                 [type |-> "skin", inverseBind |-> BindOf(s),
                  joints |-> [j \in DOMAIN JointsOf(s) |-> -1]]]
            /\ Makes(JointCallsOf(s))
<1>1. /\ gltf \in FileType /\ Valid(gltf)
      /\ Head(todo) \in CallsOf(gltf) /\ Head(todo).do = "loadSkin"
  BY HeadTyped DEF LoadSkin
<1>2. s \in Elems(gltf.skins)
  BY <1>1, CallKinds DEF I, SkinCalls
<1> PICK sk : sk = Item(gltf.skins, s)
  OBVIOUS
<1> PICK acc : acc = Item(gltf.accessors, sk.inverseBindMatrices)
  OBVIOUS
<1> PICK bind : bind = IF sk.inverseBindMatrices >= 0 THEN Content(acc, MatrixSize) ELSE <<>>
  OBVIOUS
<1>3. bind = BindOf(s)
  <2>1. sk.inverseBindMatrices \in Int
    <3>1. gltf.skins \in Seq(SkinType)
      BY <1>1 DEF FileType
    <3>2. sk \in SkinType
      BY <3>1, <1>2, ElemsIn
    <3> QED BY <3>2 DEF SkinType
  <2>2. CASE sk.inverseBindMatrices >= 0
    <3>1. Refers(sk.inverseBindMatrices, gltf.accessors)
      <4>1. s + 1 \in DOMAIN gltf.skins /\ gltf.skins \in Seq(SkinType)
        BY <1>1, <1>2, ElemsIn DEF FileType
      <4>2. May(gltf.skins[s + 1].inverseBindMatrices, gltf.accessors)
        BY <1>1, <4>1 DEF Valid
      <4> QED BY <2>1, <2>2, <4>2 DEF May, Item
    <3>2. /\ gltf.accessors \in Seq(AccessorType)
          /\ gltf.bufferViews \in Seq(BufferViewType)
      BY <1>1 DEF FileType
    <3>3. sk.inverseBindMatrices + 1 \in DOMAIN gltf.accessors
          /\ acc \in AccessorType
      BY <3>1, <3>2, ElemsIn
    <3>4. Refers(acc.bufferView, gltf.bufferViews)
      BY <1>1, <3>3 DEF Valid, Item
    <3>5. ViewOf(acc) \in BufferViewType
      BY <3>2, <3>4, ElemsIn DEF ViewOf
    <3>6. acc.count \in Int /\ acc.byteOffset \in Int
      BY <3>3 DEF AccessorType
    <3>7. ViewOf(acc).byteOffset \in Int
      BY <3>5 DEF BufferViewType
    <3>8. Content(acc, 64) = Reference(acc, 64, 64)
      BY <3>6, <3>7, ContentIs
    <3>9. ~(sk.inverseBindMatrices < 0)
      BY <2>1, <2>2
    <3> QED BY <2>2, <3>8, <3>9 DEF BindOf, MatrixSize
  <2>3. CASE ~(sk.inverseBindMatrices >= 0)
    <3>1. sk.inverseBindMatrices < 0
      BY <2>1, <2>3
    <3> QED BY <2>3, <3>1 DEF BindOf
  <2> QED BY <2>2, <2>3
<1>4. \/ Item(coll.skins, s) # Absent /\ Skip
      \/ ThrowLoad
      \/ /\ Item(coll.skins, s) = Absent
         /\ coll' = [coll EXCEPT !.skins[s + 1] =
              [type |-> "skin", inverseBind |-> bind,
               joints |-> [j \in DOMAIN sk.joints |-> -1]]]
         /\ Then(InTurn(ForAll("loadNode", sk.joints),
                        [k \in DOMAIN sk.joints |-> DoNth("setJoint", s, k)]))
  BY Zenon DEF LoadSkin
<1>5. sk.joints = JointsOf(s)
  BY DEF JointsOf
<1>6. CASE Item(coll.skins, s) # Absent /\ Skip
  BY <1>6 DEF Skip, Then, Makes
<1>7. CASE ThrowLoad
  BY <1>7 DEF ThrowLoad
<1>8. CASE /\ Item(coll.skins, s) = Absent
           /\ coll' = [coll EXCEPT !.skins[s + 1] =
                [type |-> "skin", inverseBind |-> bind,
                 joints |-> [j \in DOMAIN sk.joints |-> -1]]]
           /\ Then(InTurn(ForAll("loadNode", sk.joints),
                          [k \in DOMAIN sk.joints |-> DoNth("setJoint", s, k)]))
  <2>1. Makes(JointCallsOf(s))
    BY <1>5, <1>8, Zenon DEF Then, Makes, JointCallsOf
  <2>2. coll' = [coll EXCEPT !.skins[s + 1] =
                 [type |-> "skin", inverseBind |-> BindOf(s),
                  joints |-> [j \in DOMAIN JointsOf(s) |-> -1]]]
    BY <1>3, <1>5, <1>8, Zenon
  <2> QED BY <1>8, <2>1, <2>2
<1> QED BY <1>4, <1>6, <1>7, <1>8

(* A skin without joints has the right matrices.                           *)
LEMMA SkinBegun ==
  ASSUME NEW s, NEW v,
         v = [type |-> "skin", inverseBind |-> BindOf(s),
              joints |-> [j \in DOMAIN JointsOf(s) |-> -1]]
  PROVE  IsSkin(s, v)
BY DEF IsSkin

(* loadSkin keeps what is known of skins and of nodes.                     *)
LEMMA LoadSkinKept ==
  ASSUME LoaderInv, LoadSkin, load' = "loading", NEW V, GraphParts(V), SkinParts
  PROVE  GraphParts(V)' /\ SkinParts'
<1>1. /\ gltf \in FileType /\ Valid(gltf) /\ IsShape(coll, gltf)
      /\ Head(todo) \in CallsOf(gltf) /\ Head(todo).do = "loadSkin"
  BY HeadTyped DEF LoadSkin
<1> PICK s : s = I
  OBVIOUS
<1>2. s \in Elems(gltf.skins) /\ Head(todo).i = s
  BY <1>1, CallKinds DEF I, SkinCalls
<1> PICK v : v = [type |-> "skin", inverseBind |-> BindOf(s),
                  joints |-> [j \in DOMAIN JointsOf(s) |-> -1]]
  OBVIOUS
<1> PICK c : c = JointCallsOf(s)
  OBVIOUS
<1>3. \/ Item(coll.skins, s) # Absent /\ coll' = coll /\ Makes(<<>>)
      \/ /\ Item(coll.skins, s) = Absent
         /\ coll' = [coll EXCEPT !.skins[s + 1] = v]
         /\ Makes(c)
  BY LoadSkinDoes
<1>4. /\ coll'.nodes = coll.nodes /\ coll'.scenes = coll.scenes
      /\ coll'.parent = coll.parent
  BY <1>1, <1>3 DEF IsShape
<1>5. ParentsChange /\ NodesChange /\ \A calls : ScenesChange(calls)
  BY <1>1, <1>4 DEF ParentsChange, ScenesChange, NodesChange
<1>6. CASE Item(coll.skins, s) # Absent /\ coll' = coll /\ Makes(<<>>)
  <2>1. PICK none \in Seq(CallsOf(gltf)) : Len(none) = 0 /\ Working(none)
    BY <1>6, NoneMade DEF Calling, GraphCall
  <2>2. Visiting(none, V, V) /\ CallsChange(none, V)
    BY <1>1, <1>2, <1>6, <2>1 DEF Visiting, CallsChange, GraphParts
  <2>3. GraphParts(V)'
    BY <1>5, <2>1, <2>2, GraphKept
  <2>4. gltf' = gltf
    BY <2>1 DEF Working
  <2>5. \A t : JointsOf(t)' = JointsOf(t) /\ BindOf(t)' = BindOf(t)
    BY <2>4 DEF JointsOf, BindOf, Reference, ViewOf
  <2>6. SkinsFirst'
    <3>1. \A t : Pending({"setJoint"}, t)' => Pending({"setJoint"}, t)
      BY <2>1, PendingBefore
    <3> QED BY <1>6, <2>4, <3>1 DEF SkinParts, SkinsFirst
  <2>7. SkinsMade'
    <3>1. \A t : Pending({"loadSkin"}, t) /\ t # s => Pending({"loadSkin"}, t)'
      BY <1>2, <2>1, PendingKept
    <3>2. \A t, j : PendingJoint(t, j) => PendingJoint(t, j)'
      BY <1>1, <2>1, PendingJointKept
    <3> QED BY <1>6, <2>4, <2>5, <3>1, <3>2 DEF SkinParts, SkinsMade, IsSkin
  <2> QED BY <2>3, <2>6, <2>7 DEF SkinParts
<1>7. CASE /\ Item(coll.skins, s) = Absent
           /\ coll' = [coll EXCEPT !.skins[s + 1] = v]
           /\ Makes(c)
  <2>1. JointCallsRight(c, s)
    BY <1>1, <1>2, JointCallsMade
  <2>2. Working(c)
    BY <1>7, <2>1, CallingWorks DEF Calling, GraphCall, JointCallsRight
  <2>3. Visiting(c, V, V) /\ CallsChange(c, V)
    BY <1>1, <2>1 DEF Visiting, CallsChange, GraphParts, JointCallsRight
  <2>4. GraphParts(V)'
    BY <1>5, <2>2, <2>3, GraphKept
  <2>5. gltf' = gltf
    BY <2>2 DEF Working
  <2>6. \A t : JointsOf(t)' = JointsOf(t) /\ BindOf(t)' = BindOf(t)
    BY <2>5 DEF JointsOf, BindOf, Reference, ViewOf
  <2>7. coll'.skins = [coll.skins EXCEPT ![s + 1] = v]
    BY <1>1, <1>7 DEF IsShape
  <2>8. gltf.skins \in Seq(SkinType) /\ Over(coll.skins, gltf.skins)
    BY <1>1 DEF FileType, IsShape
  <2>9. Put(coll'.skins, coll.skins, gltf.skins, s, v)
    BY <1>2, <2>7, <2>8, ItemPut
  <2>10. IsSkin(s, v) /\ v # Absent
    BY SkinBegun, SkinIsThere
  <2>11. SkinsFirst'
    <3>1. \A t : Pending({"setJoint"}, t)' => Pending({"setJoint"}, t) \/ t = s
      BY <2>1, <2>2, PendingBefore DEF JointCallsRight
    <3> QED BY <2>5, <2>9, <2>10, <3>1 DEF SkinParts, SkinsFirst, Put
  <2>12. SkinsMade'
    <3>1. \A t : Pending({"loadSkin"}, t) /\ t # s => Pending({"loadSkin"}, t)'
      BY <1>2, <2>2, PendingKept
    <3>2. \A t, j : PendingJoint(t, j) => PendingJoint(t, j)'
      BY <1>1, <2>2, PendingJointKept
    <3>3. \A j \in DOMAIN JointsOf(s) : PendingJoint(s, j)'
      <4> TAKE j \in DOMAIN JointsOf(s)
      <4>1. PICK k \in 1..Len(c) : c[k].do = "setJoint" /\ c[k].i = s /\ c[k].n = j
        BY <2>1 DEF JointCallsRight
      <4>2. c[k] \in ToSet(todo')
        BY <2>2, MadePending
      <4> QED BY <4>1, <4>2 DEF PendingJoint
    <3>4. ASSUME NEW t \in Elems(gltf.skins)
          PROVE  IF Item(coll'.skins, t) = Absent THEN Pending({"loadSkin"}, t)'
                 ELSE /\ IsSkin(t, Item(coll'.skins, t))
                      /\ \A j \in DOMAIN JointsOf(t) :
                           \/ Item(coll'.skins, t).joints[j] = JointsOf(t)[j]
                           \/ PendingJoint(t, j)'
      <4>1. CASE t = s
        BY <4>1, <2>9, <2>10, <3>3 DEF Put
      <4>2. CASE t # s
        <5>1. Item(coll'.skins, t) = Item(coll.skins, t)
          BY <4>2, <2>9 DEF Put
        <5> QED BY <4>2, <5>1, <3>1, <3>2 DEF SkinParts, SkinsMade
      <4> QED BY <4>1, <4>2
    <3> QED BY <2>5, <2>6, <3>4 DEF SkinsMade, IsSkin
  <2> QED BY <2>4, <2>11, <2>12 DEF SkinParts
<1> QED BY <1>3, <1>6, <1>7

JointPutRight(u, v, s, j, x) ==
  /\ IsSkin(s, u) /\ u.joints[j] = x
  /\ \A k \in DOMAIN JointsOf(s) : k # j => u.joints[k] = v.joints[k]

(* A skin with one joint set.                                              *)
LEMMA JointPut ==
  ASSUME NEW s, NEW v, IsSkin(s, v), NEW j \in DOMAIN JointsOf(s), NEW x
  PROVE  JointPutRight([v EXCEPT !.joints[j] = x], v, s, j, x)
<1> PICK u : u = [v EXCEPT !.joints[j] = x]
  OBVIOUS
<1>1. u = [v EXCEPT !.joints = [v.joints EXCEPT ![j] = x]]
  OBVIOUS
<1>2. /\ u.joints = [v.joints EXCEPT ![j] = x]
      /\ u.inverseBind = v.inverseBind
      /\ u = [type |-> "skin", inverseBind |-> u.inverseBind, joints |-> u.joints]
  BY <1>1 DEF IsSkin
<1>3. DOMAIN v.joints = DOMAIN JointsOf(s)
  BY DEF IsSkin
<1>4. u.joints = [k \in DOMAIN JointsOf(s) |-> u.joints[k]]
  BY <1>2, <1>3
<1> QED BY <1>2, <1>3, <1>4 DEF IsSkin, JointPutRight

(* So does the setting of a joint.                                         *)
LEMMA SetJointKept ==
  ASSUME LoaderInv, SetJoint, load' = "loading", NEW V, GraphParts(V), SkinParts
  PROVE  GraphParts(V)' /\ SkinParts'
<1>1. /\ gltf \in FileType /\ Valid(gltf) /\ IsShape(coll, gltf)
      /\ Head(todo) \in CallsOf(gltf) /\ Head(todo).do = "setJoint"
      /\ todo \in Seq(CallsOf(gltf)) /\ todo # <<>>
  BY HeadTyped DEF SetJoint
<1> PICK s : s = I
  OBVIOUS
<1> PICK j : j = Head(todo).n
  OBVIOUS
<1>2. s \in Elems(gltf.skins) /\ Head(todo).i = s /\ j \in DOMAIN JointsOf(s)
  BY <1>1, CallKinds DEF I, JointCalls, JointsOf, Item
<1> PICK x : x = JointsOf(s)[j]
  OBVIOUS
<1>3. coll' = [coll EXCEPT !.skins[s + 1].joints[j] = x] /\ Makes(<<>>)
  <2>1. coll' = [coll EXCEPT !.skins[s + 1].joints[j] =
                    Item(gltf.skins, s).joints[j]] /\ Makes(<<>>)
    BY Zenon DEF SetJoint, Then, Makes
  <2> QED BY <2>1 DEF JointsOf
<1> PICK old : old = Item(coll.skins, s)
  OBVIOUS
<1> PICK v : v = [old EXCEPT !.joints[j] = x]
  OBVIOUS
<1>4. coll'.skins = [coll.skins EXCEPT ![s + 1] = v]
  <2>1. coll' = [coll EXCEPT !.skins =
                   [coll.skins EXCEPT ![s + 1] =
                      [coll.skins[s + 1] EXCEPT !.joints =
                         [coll.skins[s + 1].joints EXCEPT ![j] = x]]]]
    BY <1>3
  <2>2. v = [old EXCEPT !.joints = [old.joints EXCEPT ![j] = x]]
    OBVIOUS
  <2>3. old = coll.skins[s + 1]
    BY DEF Item
  <2> QED BY <1>1, <2>1, <2>2, <2>3 DEF IsShape
<1>5. coll'.nodes = coll.nodes /\ coll'.scenes = coll.scenes
      /\ coll'.parent = coll.parent
  BY <1>1, <1>3 DEF IsShape
<1>6. PICK none \in Seq(CallsOf(gltf)) : Len(none) = 0 /\ Working(none)
  BY <1>3, NoneMade DEF Calling, GraphCall
<1>7. GraphParts(V)'
  <2>1. ParentsChange /\ NodesChange /\ ScenesChange(none)
    BY <1>1, <1>5 DEF ParentsChange, ScenesChange, NodesChange
  <2>2. Visiting(none, V, V) /\ CallsChange(none, V)
    BY <1>1, <1>6 DEF Visiting, CallsChange, GraphParts
  <2> QED BY <1>6, <2>1, <2>2, GraphKept
<1>8. old # Absent /\ IsSkin(s, old)
  <2>1. Head(todo) \in ToSet(todo)
    BY <1>1 DEF ToSet
  <2>2. Pending({"setJoint"}, s)
    BY <1>1, <1>2, <2>1 DEF Pending
  <2> QED BY <1>2, <2>2 DEF SkinParts, SkinsFirst, SkinsMade
<1>9. gltf' = gltf
  BY <1>6 DEF Working
<1>10. \A t : JointsOf(t)' = JointsOf(t) /\ BindOf(t)' = BindOf(t)
  BY <1>9 DEF JointsOf, BindOf, Reference, ViewOf
<1>11. JointPutRight(v, old, s, j, x)
  BY <1>2, <1>8, JointPut
<1>12. v # Absent
  BY <1>11, SkinIsThere DEF JointPutRight
<1>13. Put(coll'.skins, coll.skins, gltf.skins, s, v)
  <2>1. gltf.skins \in Seq(SkinType) /\ Over(coll.skins, gltf.skins)
    BY <1>1 DEF FileType, IsShape
  <2> QED BY <1>2, <1>4, <2>1, ItemPut
<1>14. SkinsFirst'
  <2>1. \A t : Pending({"setJoint"}, t)' => Pending({"setJoint"}, t)
    BY <1>6, PendingBefore
  <2> QED BY <1>9, <1>12, <1>13, <2>1 DEF SkinParts, SkinsFirst, Put
<1>15. SkinsMade'
  <2>1. \A t : Pending({"loadSkin"}, t) => Pending({"loadSkin"}, t)'
    BY <1>1, <1>6, PendingKept
  <2>2. \A t, k : PendingJoint(t, k) /\ ~(t = s /\ k = j) => PendingJoint(t, k)'
    BY <1>2, <1>6, PendingJointKept
  <2>3. ASSUME NEW t \in Elems(gltf.skins)
        PROVE  IF Item(coll'.skins, t) = Absent THEN Pending({"loadSkin"}, t)'
               ELSE /\ IsSkin(t, Item(coll'.skins, t))
                    /\ \A k \in DOMAIN JointsOf(t) :
                         \/ Item(coll'.skins, t).joints[k] = JointsOf(t)[k]
                         \/ PendingJoint(t, k)'
    <3>1. CASE t = s
      <4>1. ASSUME NEW k \in DOMAIN JointsOf(s)
            PROVE  v.joints[k] = JointsOf(s)[k] \/ PendingJoint(s, k)'
        <5>1. CASE k = j
          BY <5>1, <1>11 DEF JointPutRight
        <5>2. CASE k # j
          <6>1. old.joints[k] = JointsOf(s)[k] \/ PendingJoint(s, k)
            BY <1>2, <1>8 DEF SkinParts, SkinsMade
          <6>2. v.joints[k] = old.joints[k]
            BY <5>2, <1>11 DEF JointPutRight
          <6> QED BY <5>2, <6>1, <6>2, <2>2
        <5> QED BY <5>1, <5>2
      <4>2. Item(coll'.skins, s) = v /\ IsSkin(s, v)
        BY <1>11, <1>13 DEF Put, JointPutRight
      <4> QED BY <3>1, <4>1, <4>2, <1>12
    <3>2. CASE t # s
      <4>1. Item(coll'.skins, t) = Item(coll.skins, t)
        BY <3>2, <1>13 DEF Put
      <4> QED BY <3>2, <4>1, <2>1, <2>2 DEF SkinParts, SkinsMade
    <3> QED BY <3>1, <3>2
  <2> QED BY <1>9, <1>10, <2>3 DEF SkinsMade, IsSkin
<1> QED BY <1>7, <1>14, <1>15 DEF SkinParts

(* All other calls leave the skins alone.                                  *)
LEMMA OthersSkins ==
  ASSUME LoaderInv, load' = "loading", SkinParts,
         \/ LoadScene \/ LoadRest \/ LoadGraph \/ InsertNode \/ LoadNode
         \/ LookCall \/ DataCall
  PROVE  SkinParts'
<1>1. PICK calls \in Seq(MadeFrom(gltf, Head(todo).do)) : Working(calls)
  BY CallingWorks DEF Calling, GraphCall
<1>2. coll'.skins = coll.skins
  <2>1. IsShape(coll, gltf)
    BY <1>1 DEF Working
  <2>2. CASE LookCall \/ DataCall
    BY <2>1, <2>2, LookLeaves, DataLeaves DEF SameGraph
  <2>3. CASE LoadRest \/ LoadGraph
    BY <2>3 DEF LoadRest, LoadGraph, Skip
  <2>4. CASE LoadScene
    <3>1. coll' = coll \/ \E v : coll' = [coll EXCEPT !.scenes[I + 1] = v]
      BY <2>4 DEF LoadScene, Skip
    <3>2. ASSUME NEW v, coll' = [coll EXCEPT !.scenes[I + 1] = v]
          PROVE  coll'.skins = coll.skins
      BY <2>1, <3>2 DEF IsShape
    <3> QED BY <3>1, <3>2
  <2>5. CASE InsertNode
    <3>1. coll' = [coll EXCEPT !.parent[I + 1] = Head(todo).k]
      BY <2>5 DEF InsertNode
    <3> QED BY <2>1, <3>1 DEF IsShape
  <2>6. CASE LoadNode
    <3>1. coll' = coll \/ \E v : coll' = [coll EXCEPT !.nodes[I + 1] = v]
      BY <2>6 DEF LoadNode, Skip, ThrowLoad
    <3>2. ASSUME NEW v, coll' = [coll EXCEPT !.nodes[I + 1] = v]
          PROVE  coll'.skins = coll.skins
      BY <2>1, <3>2 DEF IsShape
    <3> QED BY <3>1, <3>2
  <2> QED BY <2>2, <2>3, <2>4, <2>5, <2>6
<1>3. Head(todo).do \in {"loadScene", "loadRest", "loadGraph", "insert",
         "loadNode", "loadTexture", "loadImage", "makeTexture",
         "loadMaterial", "getTexture", "setTexture", "setMaterial",
         "loadMesh", "newPrimitive", "getData", "copyMaterial", "makeMesh",
         "loadAnimation", "newAction", "makeAnimation"}
  BY Zenon DEF LoadScene, LoadRest, LoadGraph, InsertNode, LoadNode, LookCall,
         DataCall, LoadTexture, LoadImage, MakeTexture, LoadMaterial,
         GetTexture, SetTexture, SetMaterial, LoadMesh, NewPrimitive, GetData,
         CopyMaterial, MakeMesh, LoadAnimation, NewAction, MakeAnimation, Doing
<1>4. "setJoint" \notin MadeBy(Head(todo).do)
  BY <1>3 DEF MadeBy
<1>5. \A k \in 1..Len(calls) : calls[k].do # "setJoint"
  <2>1. \A k \in 1..Len(calls) : calls[k] \in MadeFrom(gltf, Head(todo).do)
    BY <1>1, ElementOfSeq
  <2> QED BY <1>4, <2>1 DEF MadeFrom
<1> QED BY <1>1, <1>2, <1>3, <1>5, SkinsQuiet

-----------------------------------------------------------------------------
(* The nodes are a forest: who has an ancestor among some nodes, like all  *)
(* of these have, is one of none.                                          *)

AreGenerations(gen, g, n, k) ==
  gen = [j \in 0..k |->
          IF j = 0 THEN [m \in 0..(n - 1) |-> {m}]
          ELSE [m \in 0..(n - 1) |-> UNION {gen[j - 1][c] : c \in ChildrenOf(g, m)}]]

(* The descendants by generation, a recursive function, exist.             *)
LEMMA GenerationsExist ==
  ASSUME NEW g, NEW n \in Nat
  PROVE  \E gen : AreGenerations(gen, g, n, n)
<1> DEFINE Done == {k \in 0..n : \E f : AreGenerations(f, g, n, k)}
           Row(f, j) ==
             IF j = 0 THEN [m \in 0..(n - 1) |-> {m}]
             ELSE [m \in 0..(n - 1) |-> UNION {f[j - 1][c] : c \in ChildrenOf(g, m)}]
<1>0. ASSUME NEW f, NEW k \in 0..n
      PROVE  AreGenerations(f, g, n, k) <=> f = [j \in 0..k |-> Row(f, j)]
  BY Zenon DEF AreGenerations
<1>a. ASSUME NEW f, NEW h, NEW k \in 0..n, NEW j \in 0..k,
             \A i \in 0..(k - 1) : f[i] = h[i]
      PROVE  Row(f, j) = Row(h, j)
  <2>1. CASE j = 0
    BY <2>1
  <2>2. CASE j # 0
    <3>1. j - 1 \in 0..(k - 1)
      BY <2>2
    <3>2. f[j - 1] = h[j - 1]
      BY <3>1, <1>a
    <3> QED BY <2>2, <3>2, Zenon
  <2> QED BY <2>1, <2>2
<1>1. 0 \in Done
  <2>1. PICK f : f = [j \in 0..0 |-> Row(<<>>, j)]
    OBVIOUS
  <2>2. Row(<<>>, 0) = Row(f, 0)
    BY <1>a
  <2> HIDE DEF Row
  <2>3. f = [j \in 0..0 |-> Row(f, j)]
    BY <2>1, <2>2
  <2>4. 0 \in 0..n
    OBVIOUS
  <2>5. AreGenerations(f, g, n, 0)
    BY <2>3, <2>4, <1>0
  <2> QED BY <2>4, <2>5
<1>2. ASSUME NEW k \in 0..(n - 1), k \in Done PROVE k + 1 \in Done
  <2>1. PICK f : AreGenerations(f, g, n, k)
    BY <1>2
  <2>2. f = [j \in 0..k |-> Row(f, j)]
    BY <2>1, <1>0
  <2> HIDE DEF Row
  <2>3. PICK h : h = [j \in 0..(k + 1) |-> Row(f, j)]
    OBVIOUS
  <2>4. \A j \in 0..k : h[j] = f[j]
    BY <2>2, <2>3
  <2>5. \A j \in 0..(k + 1) : Row(h, j) = Row(f, j)
    <3>1. k + 1 \in 0..n /\ (k + 1) - 1 = k
      OBVIOUS
    <3> QED BY <3>1, <2>4, <1>a
  <2>6. h = [j \in 0..(k + 1) |-> Row(h, j)]
    BY <2>3, <2>5
  <2>7. k + 1 \in 0..n
    OBVIOUS
  <2>8. AreGenerations(h, g, n, k + 1)
    BY <2>6, <2>7, <1>0
  <2> QED BY <2>7, <2>8
<1>3. 0..n \subseteq Done
  <2> HIDE DEF Done
  <2> QED BY <1>1, <1>2, CountUp
<1> QED BY <1>3

(* Nodes that all have an ancestor among themselves have descendants in    *)
(* every generation: there are none.                                       *)
LEMMA NoRingOf ==
  ASSUME NEW g, NEW n \in Nat, NEW gens, AreGenerations(gens, g, n, n),
         \A m \in 0..(n - 1) : gens[n][m] = {}, NEW U \in SUBSET 0..(n - 1),
         \A u \in U : \E q \in U : u \in ChildrenOf(g, q)
  PROVE  U = {}
<1> DEFINE Descends(k) == \A u \in U : \E q \in U : u \in gens[k][q]
           Deep == {k \in 0..n : Descends(k)}
<1>5. gens[0] = [m \in 0..(n - 1) |-> {m}]
  <2>1. 0 \in 0..n
    OBVIOUS
  <2> QED BY <2>1, Zenon DEF AreGenerations
<1>a. ASSUME NEW k \in 0..n, k # 0, NEW r \in 0..(n - 1)
      PROVE  gens[k][r] = UNION {gens[k - 1][c] : c \in ChildrenOf(g, r)}
  <2>1. gens[k] = [m \in 0..(n - 1) |->
                     UNION {gens[k - 1][c] : c \in ChildrenOf(g, m)}]
    BY <1>a, Zenon DEF AreGenerations
  <2> QED BY <2>1, Zenon
<1>6. Descends(0)
  <2>1. \A m \in 0..(n - 1) : gens[0][m] = {m}
    BY <1>5
  <2> QED BY <2>1
<1>7. ASSUME NEW k \in 0..(n - 1), Descends(k)
      PROVE  Descends(k + 1)
  <2> TAKE u \in U
  <2>1. PICK q \in U : u \in gens[k][q]
    BY <1>7
  <2>2. PICK r \in U : q \in ChildrenOf(g, r)
    OBVIOUS
  <2>3. k + 1 \in 0..n /\ k + 1 # 0 /\ (k + 1) - 1 = k
    OBVIOUS
  <2>4. gens[k + 1][r] = UNION {gens[(k + 1) - 1][c] : c \in ChildrenOf(g, r)}
    BY <1>a, <2>3
  <2>5. u \in gens[(k + 1) - 1][q]
    BY <2>1, <2>3
  <2>6. u \in gens[k + 1][r]
    BY <2>2, <2>4, <2>5, Zenon
  <2> QED BY <2>6
<1>8. 0..n \subseteq Deep
  <2>1. 0 \in Deep
    BY <1>6
  <2>2. ASSUME NEW k \in 0..(n - 1), k \in Deep PROVE k + 1 \in Deep
    <3>1. k + 1 \in 0..n
      OBVIOUS
    <3> QED BY <2>2, <3>1, <1>7
  <2> HIDE DEF Deep
  <2> QED BY <2>1, <2>2, CountUp
<1>9. Descends(n)
  BY <1>8
<1> QED BY <1>9

(* The nodes of a file that is valid make no ring.                         *)
LEMMA NoRing ==
  ASSUME NEW g \in FileType, Valid(g), NEW U \in SUBSET Elems(g.nodes),
         \A u \in U : \E q \in U : u \in ChildrenOf(g, q)
  PROVE  U = {}
<1> DEFINE n == Len(g.nodes)
           gen == CHOOSE f : AreGenerations(f, g, n, n)
<1>1. n \in Nat /\ Elems(g.nodes) = 0..(n - 1)
  <2>1. g.nodes \in Seq(NodeType)
    BY DEF FileType
  <2> QED BY <2>1 DEF Elems
<1>2. AreGenerations(gen, g, n, n)
  <2> HIDE DEF n
  <2> QED BY <1>1, GenerationsExist
<1>3. Generations(g) = gen[n]
  BY Zenon DEF Generations, AreGenerations
<1> HIDE DEF gen
<1>4. \A m \in 0..(n - 1) : gen[n][m] = {}
  BY <1>1, <1>3 DEF Valid, IsForest
<1> HIDE DEF n
<1> QED BY <1>1, <1>2, <1>4, NoRingOf

-----------------------------------------------------------------------------
GraphInv ==
  /\ LoaderInv
  /\ Underway => SkinParts /\ \E V : GraphParts(V)

(* At first, animations are last.                                          *)
LEMMA BegunLast ==
  ASSUME NEW g \in FileType, NEW p \in DOMAIN Begun(g), NEW q \in DOMAIN Begun(g),
         p < q, Begun(g)[p].do = "loadAnimation"
  PROVE  Begun(g)[q].do = "loadAnimation"
<1>0. /\ g.scenes \in Seq(SceneType) /\ g.nodes \in Seq(NodeType)
      /\ g.textures \in Seq(TextureType) /\ g.materials \in Seq(MaterialType)
      /\ g.meshes \in Seq(MeshType) /\ g.skins \in Seq(SkinType)
      /\ g.animations \in Seq(AnimationType)
  BY DEF FileType
<1> PICK S : S = CallsOf(g)
  OBVIOUS
<1> DEFINE Right(f, what) == f \in Seq(S) /\ \A c \in ToSet(f) : c.do = what
           Bad(f) == \E c \in ToSet(f) : c.do = "loadAnimation"
<1>a. ASSUME NEW T, NEW list \in Seq(T), NEW what,
             \A i \in Elems(list) : Do(what, i) \in S
      PROVE  Right(ForAll(what, Indices(list)), what)
  <2> PICK f : f = ForAll(what, Indices(list))
    OBVIOUS
  <2>1. f \in Seq(S) /\ ToSet(f) = {Do(what, i) : i \in Elems(list)}
    BY <1>a, AllMade
  <2> QED BY <2>1 DEF Do
<1> HIDE DEF Right
<1>1. Right(ForAll("loadScene", Indices(g.scenes)), "loadScene")
  BY <1>0, <1>a, CallsMade
<1>2. Right(ForAll("loadRest", Indices(g.nodes)), "loadRest")
  BY <1>0, <1>a, CallsMade
<1>3. Right(ForAll("loadTexture", Indices(g.textures)), "loadTexture")
  BY <1>0, <1>a, CallsMade
<1>4. Right(ForAll("loadMaterial", Indices(g.materials)), "loadMaterial")
  BY <1>0, <1>a, CallsMade
<1>5. Right(ForAll("loadMesh", Indices(g.meshes)), "loadMesh")
  BY <1>0, <1>a, CallsMade
<1>6. Right(ForAll("loadSkin", Indices(g.skins)), "loadSkin")
  BY <1>0, <1>a, CallsMade
<1>7. Right(ForAll("loadAnimation", Indices(g.animations)), "loadAnimation")
  BY <1>0, <1>a, CallsMade
<1> DEFINE s1 == ForAll("loadScene", Indices(g.scenes))
           s2 == ForAll("loadRest", Indices(g.nodes))
           s3 == ForAll("loadTexture", Indices(g.textures))
           s4 == ForAll("loadMaterial", Indices(g.materials))
           s5 == ForAll("loadMesh", Indices(g.meshes))
           s6 == ForAll("loadSkin", Indices(g.skins))
           s7 == ForAll("loadAnimation", Indices(g.animations))
           j2 == s1 \o s2
           j3 == j2 \o s3
           j4 == j3 \o s4
           j5 == j4 \o s5
           j6 == j5 \o s6
           Other(f) == f \in Seq(S) /\ \A c \in ToSet(f) : c.do # "loadAnimation"
<1>8. Other(s1) /\ Other(s2) /\ Other(s3) /\ Other(s4) /\ Other(s5) /\ Other(s6)
  BY <1>1, <1>2, <1>3, <1>4, <1>5, <1>6 DEF Right
<1>9. s7 \in Seq(S) /\ \A c \in ToSet(s7) : c.do = "loadAnimation"
  BY <1>7 DEF Right
<1>10. Begun(g) = j6 \o s7
  BY DEF Begun
<1> HIDE DEF s1, s2, s3, s4, s5, s6, s7
<1>b. ASSUME NEW f, NEW h, Other(f), Other(h)
      PROVE  Other(f \o h)
  <2>1. Joined(f \o h, f, h, S)
    BY <1>b, JoinedOnce
  <2> QED BY <1>b, <2>1 DEF Joined
<1>11. Other(j6)
  <2>1. Other(j2)
    BY <1>8, <1>b
  <2> HIDE DEF j2, Other
  <2>2. Other(j3)
    BY <1>8, <1>b, <2>1
  <2> HIDE DEF j3
  <2>3. Other(j4)
    BY <1>8, <1>b, <2>2
  <2> HIDE DEF j4
  <2>4. Other(j5)
    BY <1>8, <1>b, <2>3
  <2> HIDE DEF j5
  <2> QED BY <1>8, <1>b, <2>4
<1> HIDE DEF j6
<1>12. Concatenated(j6 \o s7, j6, s7, S)
  BY <1>9, <1>11, ConcatIs
<1>13. Concatenated(Begun(g), j6, s7, S)
  BY <1>10, <1>12
<1> PICK c : c = Begun(g)
  OBVIOUS
<1>14. /\ c \in Seq(S) /\ Len(c) = Len(j6) + Len(s7)
       /\ \A i \in 1..Len(j6) : c[i] = j6[i]
       /\ \A i \in (Len(j6) + 1)..Len(c) : c[i] = s7[i - Len(j6)]
       /\ p \in 1..Len(c) /\ q \in 1..Len(c) /\ c[p].do = "loadAnimation"
       /\ DOMAIN j6 = 1..Len(j6) /\ DOMAIN s7 = 1..Len(s7)
       /\ Len(j6) \in Nat /\ Len(s7) \in Nat
  BY <1>9, <1>11, <1>13 DEF Concatenated
<1>15. p \notin 1..Len(j6)
  <2>1. p \in 1..Len(j6) => j6[p] \in ToSet(j6)
    BY <1>14 DEF ToSet
  <2> QED BY <2>1, <1>11, <1>14
<1>16. q \in (Len(j6) + 1)..Len(c) /\ q - Len(j6) \in DOMAIN s7
  BY <1>14, <1>15
<1>17. s7[q - Len(j6)] \in ToSet(s7)
  BY <1>16 DEF ToSet
<1> QED BY <1>9, <1>14, <1>16, <1>17

(* When the loading begins nothing was visited.                            *)
LEMMA GraphBegins ==
  ASSUME LoaderInv, Begin
  PROVE  SkinParts' /\ GraphParts({})'
<1>1. gltf' = gltf /\ todo' = Begun(gltf) /\ gltf \in FileType
  BY BeginTyped DEF LoaderInv, ParserInv
<1>2. ToSet(todo') = BegunSet(gltf) /\ todo' \in Seq(CallsOf(gltf))
  BY <1>1, BegunMade
<1>3. \A c \in BegunSet(gltf) : c.do \in {"loadScene", "loadRest", "loadTexture",
            "loadMaterial", "loadMesh", "loadSkin", "loadAnimation"}
  BY DEF BegunSet, Do
<1>4. /\ \A n \in Elems(gltf.nodes) :
           Item(coll'.nodes, n) = Absent /\ Item(coll'.parent, n) = Apart
      /\ \A s \in Elems(gltf.scenes) : Item(coll'.scenes, s) = Absent
      /\ \A s \in Elems(gltf.skins) : Item(coll'.skins, s) = Absent
  <2>1. /\ coll'.nodes = None(gltf.nodes) /\ coll'.scenes = None(gltf.scenes)
        /\ coll'.parent = [k \in DOMAIN gltf.nodes |-> Apart]
        /\ coll'.skins = None(gltf.skins)
    BY DEF Begin
  <2>2. /\ gltf.nodes \in Seq(NodeType) /\ gltf.scenes \in Seq(SceneType)
        /\ gltf.skins \in Seq(SkinType)
    BY <1>1 DEF FileType
  <2> QED BY <2>1, <2>2 DEF None, Item, Elems
<1>5. /\ \A s \in Elems(gltf.scenes) : Pending({"loadScene"}, s)'
      /\ \A n \in Elems(gltf.nodes) : Pending({"loadRest"}, n)'
      /\ \A s \in Elems(gltf.skins) : Pending({"loadSkin"}, s)'
  <2>1. /\ \A s \in Elems(gltf.scenes) : Do("loadScene", s) \in ToSet(todo')
        /\ \A n \in Elems(gltf.nodes) : Do("loadRest", n) \in ToSet(todo')
        /\ \A s \in Elems(gltf.skins) : Do("loadSkin", s) \in ToSet(todo')
    BY <1>2 DEF BegunSet
  <2> QED BY <2>1 DEF Pending, Do
<1>6. \A n : ~Pending({"loadNode"}, n)' /\ ~Pending({"setJoint"}, n)'
  BY <1>2, <1>3 DEF Pending
<1>7. AnimationsLast'
  BY <1>1, BegunLast DEF AnimationsLast
<1>8. ChildrenReached({})' /\ ScenesReached({})'
  BY <1>1, <1>4, <1>5 DEF ChildrenReached, ScenesReached
<1>9. RestVisited({})' /\ NodesNeeded({})'
  BY <1>1, <1>4, <1>5, <1>6 DEF RestVisited, NodesNeeded
<1>10. NodesMade' /\ NodesRight' /\ ParentsRight'
  <2>1. \A n \in Elems(gltf.nodes) :
           Pending({"loadNode", "loadGraph", "loadRest"}, n)'
    BY <1>5 DEF Pending
  <2> QED BY <1>1, <1>4, <2>1 DEF NodesMade, NodesRight, ParentsRight
<1>11. SkinParts'
  BY <1>1, <1>4, <1>5, <1>6 DEF SkinParts, SkinsFirst, SkinsMade
<1> QED BY <1>7, <1>8, <1>9, <1>10, <1>11 DEF GraphParts

(* Every step keeps the invariant of nodes and skins.                      *)
LEMMA GraphStep ==
  ASSUME GraphInv, Next \/ UNCHANGED allVars
  PROVE  GraphInv'
<1>1. LoaderInv /\ LoaderInv'
  BY LoaderTyped DEF GraphInv
<1>2. SUFFICES ASSUME Underway'
      PROVE  SkinParts' /\ \E V : GraphParts(V)'
  BY <1>1 DEF GraphInv
<1>3. CASE Begin
  BY <1>1, <1>3, GraphBegins
<1>4. CASE Calling
  <2>1. load' = "loading" /\ Underway
    <3>1. Moves
      BY <1>1, <1>4, CallsMove
    <3> QED BY <3>1, <1>2 DEF Moves, Underway
  <2>2. SkinParts
    BY <2>1 DEF GraphInv
  <2> PICK V : GraphParts(V)
    BY <2>1 DEF GraphInv
  <2>3. CASE LookCall \/ DataCall
    BY <1>1, <2>1, <2>2, <2>3, GraphQuiet, OthersSkins
  <2>4. CASE LoadScene
    BY <1>1, <2>1, <2>2, <2>4, LoadSceneGraph, OthersSkins
  <2>5. CASE LoadRest
    BY <1>1, <2>1, <2>2, <2>5, LoadRestGraph, OthersSkins
  <2>6. CASE LoadGraph
    BY <1>1, <2>1, <2>2, <2>6, LoadGraphGraph, OthersSkins
  <2>7. CASE InsertNode
    BY <1>1, <2>1, <2>2, <2>7, InsertGraph, OthersSkins
  <2>8. CASE LoadNode
    BY <1>1, <2>1, <2>2, <2>8, LoadNodeGraph, OthersSkins
  <2>9. CASE LoadSkin
    BY <1>1, <2>1, <2>2, <2>9, LoadSkinKept
  <2>10. CASE SetJoint
    BY <1>1, <2>1, <2>2, <2>10, SetJointKept
  <2> QED BY <1>4, <2>3, <2>4, <2>5, <2>6, <2>7, <2>8, <2>9, <2>10
             DEF Calling, GraphCall
<1>5. CASE UNCHANGED <<gltf, todo, coll>> /\ Underway
  <2>1. SkinParts
    BY <1>5 DEF GraphInv
  <2> PICK V : GraphParts(V)
    BY <1>5 DEF GraphInv
  <2>2. SkinParts'
    BY <1>5, <2>1 DEF SkinParts, SkinsFirst, SkinsMade, IsSkin, Pending,
       PendingJoint, JointsOf, BindOf, Reference, ViewOf
  <2>3. GraphParts(V)'
    <3>1. \A n : IsJoint(n)' <=> IsJoint(n)
      BY <1>5 DEF IsJoint
    <3>2. (ChildrenReached(V) /\ ScenesReached(V))'
      BY <1>5 DEF GraphParts, ChildrenReached, ScenesReached, Reached, Visits,
         Placed, Pending, NodesOf
    <3>3. (RestVisited(V) /\ NodesNeeded(V) /\ AnimationsLast)'
      BY <1>5, <3>1 DEF GraphParts, RestVisited, NodesNeeded, AnimationsLast,
         Visits, Pending, RestPending
    <3>4. (NodesMade /\ NodesRight /\ ParentsRight)'
      BY <1>5, <3>1 DEF GraphParts, NodesMade, NodesRight, ParentsRight, Pending,
         NodeRight, IsAncestor, NodesOf
    <3> QED BY <1>5, <3>2, <3>3, <3>4 DEF GraphParts
  <2> QED BY <2>2, <2>3
<1>6. CASE ReadSymbol
  <2>1. load' = load /\ status = "reading"
    BY <1>6 DEF ReadSymbol, Read, loadVars
  <2> QED BY <2>1, <1>1, <1>2 DEF LoaderInv, Underway
<1>7. CASE Finish
  BY <1>5, <1>7 DEF Finish, Underway, vars
<1>8. CASE UNCHANGED allVars
  BY <1>2, <1>5, <1>8 DEF allVars, vars, loadVars, Underway
<1> QED BY <1>3, <1>4, <1>6, <1>7, <1>8
  DEF Next, Calling, GraphCall, LookCall, DataCall

(* The ancestors that the file gives a node, in the words used here.       *)
LEMMA AncestorsAre ==
  ASSUME gltf \in FileType, Valid(gltf), NEW n, NEW a
  PROVE  a \in FileAncestors(n) <=> IsAncestor(a, n)
<1>1. /\ gltf.nodes \in Seq(NodeType) /\ gltf.scenes \in Seq(SceneType)
      /\ \A s \in Elems(gltf.scenes) :
              Item(gltf.scenes, s).nodes \in Seq(Elems(gltf.nodes))
  BY GraphRefers DEF FileType
<1>2. ToSet(Indices(gltf.nodes)) = Elems(gltf.nodes)
  BY <1>1, IndicesMade
<1>3. ToSet(Indices(gltf.scenes)) = Elems(gltf.scenes)
  BY <1>1, IndicesMade
<1>4. \A s \in Elems(gltf.scenes) :
        Contains(Item(gltf.scenes, s).nodes, n) <=> n \in NodesOf(s)
  <2> TAKE s \in Elems(gltf.scenes)
  <2> PICK list : list = Item(gltf.scenes, s).nodes
    OBVIOUS
  <2>1. DOMAIN list = 1..Len(list)
    BY <1>1
  <2> QED BY <2>1 DEF Contains, NodesOf, ToSet
<1> QED BY <1>2, <1>3, <1>4, Zenon DEF FileAncestors, IsAncestor

(* What the loader relies on for the joints: the children of one that no   *)
(* scene and no node has are not visited.                                  *)
JointsRooted ==
  \A n \in ToSet(Indices(gltf.nodes)) :
    IsJoint(n) /\ FileAncestors(n) = {} => ChildrenOf(gltf, n) = {}

(* At the end every node that has an ancestor was reached: one that was    *)
(* not would have an ancestor that was not either.                         *)
LEMMA AllReached ==
  ASSUME gltf \in FileType, Valid(gltf), todo = <<>>, JointsRooted,
         NEW V, GraphParts(V), NEW n \in Elems(gltf.nodes),
         FileAncestors(n) # {}
  PROVE  Item(coll.parent, n) # Apart
<1>1. \A whats, i : ~Pending(whats, i)
  BY DEF Pending, ToSet
<1>2. /\ \A p \in V : \A c \in ChildrenOf(gltf, p) :
           c \in V /\ Item(coll.parent, c) # Apart
      /\ \A s \in Elems(gltf.scenes) : \A c \in NodesOf(s) :
           c \in V /\ Item(coll.parent, c) # Apart
      /\ \A m \in Elems(gltf.nodes) : IsJoint(m) \/ m \in V
  BY <1>1 DEF GraphParts, ChildrenReached, ScenesReached, RestVisited, Reached,
     Visits, Placed
<1>3. \A m \in Elems(gltf.nodes) :
        (IsJoint(m) /\ FileAncestors(m) = {} => ChildrenOf(gltf, m) = {})
  <2>1. ToSet(Indices(gltf.nodes)) = Elems(gltf.nodes)
    <3>1. gltf.nodes \in Seq(NodeType)
      BY DEF FileType
    <3> QED BY <3>1, IndicesMade
  <2> QED BY <2>1 DEF JointsRooted
<1> DEFINE U == {u \in Elems(gltf.nodes) : u \notin V /\ FileAncestors(u) # {}}
<1>4. ASSUME NEW u \in U
      PROVE  \E q \in U : u \in ChildrenOf(gltf, q)
  <2>1. PICK a : IsAncestor(a, u)
    BY AncestorsAre
  <2>2. \A s \in Elems(gltf.scenes) : u \notin NodesOf(s)
    BY <1>2
  <2>3. PICK q \in Elems(gltf.nodes) : u \in ChildrenOf(gltf, q)
    BY <2>1, <2>2 DEF IsAncestor
  <2>4. q \notin V
    BY <1>2, <2>3
  <2>5. FileAncestors(q) # {}
    BY <1>2, <1>3, <2>3, <2>4
  <2> QED BY <2>3, <2>4, <2>5
<1>5. U = {}
  <2> HIDE DEF U
  <2>1. U \in SUBSET Elems(gltf.nodes)
    BY DEF U
  <2> QED BY <1>4, <2>1, NoRing
<1>6. PICK a : IsAncestor(a, n)
  BY AncestorsAre
<1>7. CASE \E s \in Elems(gltf.scenes) : n \in NodesOf(s)
  BY <1>2, <1>7
<1>8. CASE \E q \in Elems(gltf.nodes) : n \in ChildrenOf(gltf, q)
  <2>1. PICK q \in Elems(gltf.nodes) : n \in ChildrenOf(gltf, q)
    BY <1>8
  <2>2. q \in V
    BY <1>2, <1>3, <1>5, <2>1
  <2> QED BY <1>2, <2>1, <2>2
<1> QED BY <1>6, <1>7, <1>8 DEF IsAncestor

(* When all calls were made the graph is that of the file.                 *)
LEMMA GraphLoads ==
  ASSUME GraphInv, JointsRooted
  PROVE  GraphLoaded
<1> SUFFICES ASSUME load = "loaded"
             PROVE  GraphLoaded
  BY DEF GraphLoaded
<1>1. /\ gltf \in FileType /\ Valid(gltf) /\ todo = <<>>
      /\ IsShape(coll, gltf) /\ SkinParts
  BY DEF GraphInv, LoaderInv, ParserInv, Underway
<1> PICK V : GraphParts(V)
  BY DEF GraphInv, Underway
<1>2. \A whats, i : ~Pending(whats, i)
  BY <1>1 DEF Pending, ToSet
<1>3. \A s, j : ~PendingJoint(s, j)
  BY <1>1 DEF PendingJoint, ToSet
<1>4. /\ gltf.nodes \in Seq(NodeType) /\ gltf.skins \in Seq(SkinType)
      /\ \A s \in Elems(gltf.skins) :
              Item(gltf.skins, s).joints \in Seq(Elems(gltf.nodes))
  BY <1>1, GraphRefers DEF FileType
<1>5. ToSet(Indices(gltf.nodes)) = Elems(gltf.nodes)
  BY <1>4, IndicesMade
<1>6. \A n : IsJoint(n) <=>
               \E k \in DOMAIN gltf.skins : n \in ToSet(gltf.skins[k].joints)
  <2> TAKE n
  <2>1. \A k \in DOMAIN gltf.skins : Contains(gltf.skins[k].joints, n) <=>
                                     n \in ToSet(gltf.skins[k].joints)
    <3> TAKE k \in DOMAIN gltf.skins
    <3>1. gltf.skins[k].joints \in Seq(Int)
      <4>1. gltf.skins[k] \in SkinType
        BY <1>4
      <4> QED BY <4>1 DEF SkinType
    <3> QED BY <3>1 DEF Contains, ToSet
  <2> QED BY <2>1 DEF IsJoint
<1>7. ASSUME NEW n \in Elems(gltf.nodes)
      PROVE  Item(coll.nodes, n) # Absent /\ NodeRight(n, Item(coll.nodes, n))
  BY <1>2 DEF GraphParts, NodesMade, NodesRight
<1>8. ASSUME NEW n \in Elems(gltf.nodes)
      PROVE  IF FileAncestors(n) = {} THEN Item(coll.parent, n) = Apart
             ELSE Item(coll.parent, n) \in FileAncestors(n)
  <2>1. Item(coll.parent, n) # Apart => Item(coll.parent, n) \in FileAncestors(n)
    BY <1>1, AncestorsAre DEF GraphParts, ParentsRight
  <2>2. FileAncestors(n) # {} => Item(coll.parent, n) # Apart
    BY <1>1, AllReached
  <2> QED BY <2>1, <2>2
<1>9. ASSUME NEW k \in DOMAIN gltf.skins
      PROVE  /\ coll.skins[k].joints = gltf.skins[k].joints
             /\ \A j \in DOMAIN gltf.skins[k].joints :
                  Item(coll.nodes, coll.skins[k].joints[j]).type = "joint"
  <2> PICK s : s = k - 1
    OBVIOUS
  <2>1. /\ s \in Elems(gltf.skins) /\ s + 1 = k
    BY <1>4 DEF Elems
  <2>2. JointsOf(s) = gltf.skins[k].joints /\ JointsOf(s) \in Seq(Elems(gltf.nodes))
    BY <1>4, <2>1 DEF JointsOf, Item
  <2>3. Item(coll.skins, s) = coll.skins[k]
    BY <2>1 DEF Item
  <2>4. /\ IsSkin(s, coll.skins[k])
        /\ \A j \in DOMAIN JointsOf(s) : coll.skins[k].joints[j] = JointsOf(s)[j]
    <3>1. Item(coll.skins, s) # Absent
      BY <1>1, <1>2, <2>1 DEF SkinParts, SkinsMade
    <3> QED BY <1>1, <1>3, <2>1, <2>3, <3>1 DEF SkinParts, SkinsMade
  <2> PICK list : list = JointsOf(s)
    OBVIOUS
  <2>5. coll.skins[k].joints = [j \in DOMAIN list |-> list[j]]
    BY <2>4 DEF IsSkin
  <2>6. [j \in DOMAIN list |-> list[j]] = list
    BY <2>2
  <2>7. coll.skins[k].joints = gltf.skins[k].joints
    BY <2>2, <2>5, <2>6
  <2>8. ASSUME NEW j \in DOMAIN gltf.skins[k].joints
        PROVE  Item(coll.nodes, coll.skins[k].joints[j]).type = "joint"
    <3> PICK n : n = gltf.skins[k].joints[j]
      OBVIOUS
    <3>1. n \in Elems(gltf.nodes)
      BY <2>2
    <3>2. IsJoint(n)
      BY <1>6, <2>8 DEF ToSet
    <3>3. NodeRight(n, Item(coll.nodes, n))
      BY <1>7, <3>1
    <3>4. Item(coll.nodes, n).type = "joint"
      <4>1. Item(gltf.nodes, n).mesh < 0 /\ Item(gltf.nodes, n).mesh \in Int
        <5>1. Item(gltf.nodes, n).mesh \in Int
          BY <1>1, <3>1, GraphRefers
        <5> QED BY <5>1, <3>2, <3>3 DEF NodeRight
      <4> QED BY <4>1, <3>2, <3>3 DEF NodeRight
    <3> QED BY <2>7, <3>4
  <2> QED BY <2>7, <2>8
<1>10. ASSUME NEW n \in Elems(gltf.nodes)
       PROVE  Item(coll.nodes, n).type =
                IF Item(gltf.nodes, n).mesh >= 0 THEN "model"
                ELSE IF \E k \in DOMAIN gltf.skins :
                          n \in ToSet(gltf.skins[k].joints)
                THEN "joint" ELSE "node"
  BY <1>6, <1>7 DEF NodeRight
<1> QED BY <1>5, <1>7, <1>8, <1>9, <1>10 DEF GraphLoaded

(* DataLoad::loadContents, loadGraph, loadNode and loadSkin: when a file   *)
(* is loaded, its nodes are of the kinds and have the ancestors that they  *)
(* have in the file, and the skins have their joints, whatever the file,   *)
(* as long as the joints that nothing has have no children.                *)
THEOREM GraphIsLoaded == Spec => [](JointsRooted => GraphLoaded)
<1>1. LoaderInit => GraphInv
  BY LoaderBegins DEF GraphInv, LoaderInit, LoadInit, Underway
<1>2. GraphInv /\ [Next]_allVars => GraphInv'
  BY GraphStep
<1>3. GraphInv => (JointsRooted => GraphLoaded)
  BY GraphLoads
<1> QED BY <1>1, <1>2, <1>3, PTL DEF Spec

(* The part of DataLoaded that is about the skins.                         *)
SkinsLoaded ==
  load = "loaded" =>
    \A k \in DOMAIN gltf.skins :
      coll.skins[k].inverseBind =
        IF gltf.skins[k].inverseBindMatrices < 0 THEN <<>>
        ELSE LET acc == Item(gltf.accessors, gltf.skins[k].inverseBindMatrices)
             IN  Reference(acc, 64, 64)

(* And the skins have their matrices.                                      *)
LEMMA SkinsLoad ==
  ASSUME GraphInv
  PROVE  SkinsLoaded
<1> SUFFICES ASSUME load = "loaded", NEW k \in DOMAIN gltf.skins
             PROVE  coll.skins[k].inverseBind = BindOf(k - 1)
  <2>1. gltf.skins \in Seq(SkinType) \/ load # "loaded"
    BY DEF GraphInv, LoaderInv, ParserInv, Underway, FileType
  <2>2. \A k \in DOMAIN gltf.skins :
          load = "loaded" => Item(gltf.skins, k - 1) = gltf.skins[k]
    BY <2>1 DEF Item
  <2> QED BY <2>2 DEF SkinsLoaded, BindOf
<1>1. gltf.skins \in Seq(SkinType) /\ todo = <<>> /\ SkinsMade
  BY DEF GraphInv, LoaderInv, ParserInv, Underway, FileType, SkinParts
<1>2. k - 1 \in Elems(gltf.skins) /\ (k - 1) + 1 = k
  BY <1>1 DEF Elems
<1>3. ~Pending({"loadSkin"}, k - 1)
  BY <1>1 DEF Pending, ToSet
<1>4. IsSkin(k - 1, Item(coll.skins, k - 1))
  BY <1>1, <1>2, <1>3 DEF SkinsMade
<1> QED BY <1>2, <1>4 DEF IsSkin, Item

(* DataLoad::loadSkin: the matrices of a skin are those that its accessor  *)
(* selects, wherever the reads before it left the stream of the buffer.    *)
THEOREM SkinsAreLoaded == Spec => []SkinsLoaded
<1>1. LoaderInit => GraphInv
  BY LoaderBegins DEF GraphInv, LoaderInit, LoadInit, Underway
<1>2. GraphInv /\ [Next]_allVars => GraphInv'
  BY GraphStep
<1>3. GraphInv => SkinsLoaded
  BY SkinsLoad
<1> QED BY <1>1, <1>2, <1>3, PTL DEF Spec

-----------------------------------------------------------------------------
(* Lists that grow, and the accessors that an animation has read already.  *)

IsList(s) == \E T : s \in Seq(T)
Appended(r, s, x) ==
  /\ IsList(r) /\ Len(s) \in Nat /\ Len(r) = Len(s) + 1
  /\ \A k \in 1..Len(s) : r[k] = s[k]
  /\ r[Len(s) + 1] = x
Grows(s, r) ==
  \A i : Refers(i, s) => Refers(i, r) /\ Item(r, i) = Item(s, i)

(* One more at the end.                                                    *)
LEMMA AppendIs ==
  ASSUME NEW s, IsList(s), NEW x
  PROVE  Appended(Append(s, x), s, x)
<1> PICK T : s \in Seq(T)
  BY DEF IsList
<1> PICK U : U = T \cup {x}
  OBVIOUS
<1>1. s \in Seq(U) /\ x \in U
  <2>1. s \in [1..Len(s) -> U] /\ Len(s) \in Nat
    BY ElementOfSeq
  <2> QED BY <2>1
<1> PICK r : r = Append(s, x)
  OBVIOUS
<1>2. /\ r \in Seq(U) /\ Len(s) \in Nat /\ Len(r) = Len(s) + 1
      /\ \A k \in 1..Len(s) : r[k] = s[k]
      /\ r[Len(s) + 1] = x
  BY <1>1
<1>3. IsList(r)
  BY <1>2 DEF IsList
<1> QED BY <1>2, <1>3 DEF Appended

(* What was there stays where it is.                                       *)
LEMMA AppendGrows ==
  ASSUME NEW s, NEW r, NEW x, Appended(r, s, x)
  PROVE  /\ Grows(s, r)
         /\ Refers(Len(s), r) /\ Item(r, Len(s)) = x
<1>1. /\ Len(s) \in Nat /\ Len(r) = Len(s) + 1
      /\ \A k \in 1..Len(s) : r[k] = s[k]
      /\ r[Len(s) + 1] = x
  BY DEF Appended
<1> QED BY <1>1 DEF Grows, Refers, Item

(* The place that IndexOf finds.                                           *)
LEMMA FirstIs ==
  ASSUME NEW map, IsList(map), NEW acc, NEW k \in 1..Len(map),
         map[k][1] = acc, \A j \in 1..(k - 1) : map[j][1] # acc
  PROVE  IndexOf(map, acc) = map[k][2]
<1> DEFINE First(j) == map[j][1] = acc /\ \A l \in 1..(j - 1) : map[l][1] # acc
<1>1. DOMAIN map = 1..Len(map) /\ Len(map) \in Nat
  BY DEF IsList
<1>2. k \in DOMAIN map /\ First(k)
  BY <1>1
<1>3. ASSUME NEW j \in DOMAIN map, First(j)
      PROVE  j = k
  <2>1. j \in Int /\ k \in Int /\ j >= 1 /\ k >= 1
    BY <1>1
  <2>2. ~(j < k)
    <3>1. j < k => j \in 1..(k - 1)
      BY <2>1
    <3> QED BY <3>1, <1>3
  <2>3. ~(k < j)
    <3>1. k < j => k \in 1..(j - 1)
      BY <2>1
    <3> QED BY <3>1, <1>3
  <2> QED BY <2>1, <2>2, <2>3
<1> PICK c : c = CHOOSE j \in DOMAIN map : First(j)
  OBVIOUS
<1>4. c \in DOMAIN map /\ First(c)
  <2>1. \E j \in DOMAIN map : First(j)
    BY <1>2
  <2> HIDE DEF First
  <2> QED BY <2>1
<1>5. c = k
  BY <1>3, <1>4
<1>6. IndexOf(map, acc) = map[c][2]
  BY DEF IndexOf
<1> QED BY <1>5, <1>6

(* There is one when the accessor was read.                                *)
LEMMA FirstExists ==
  ASSUME NEW map, IsList(map), NEW acc, Known(map, acc)
  PROVE  \E k \in 1..Len(map) :
           map[k][1] = acc /\ \A j \in 1..(k - 1) : map[j][1] # acc
<1>1. DOMAIN map = 1..Len(map) /\ Len(map) \in Nat
  BY DEF IsList
<1> DEFINE S == {k \in 1..Len(map) : map[k][1] = acc}
<1>2. PICK s : s \in S
  BY <1>1 DEF Known
<1>3. S \in SUBSET Nat
  BY <1>1
<1>4. \A k : k \in S <=> k \in 1..Len(map) /\ map[k][1] = acc
  OBVIOUS
<1> HIDE DEF S
<1>5. PICK k \in S : \A m \in S : k <= m
  BY <1>2, <1>3, LeastNumber
<1>6. \A j \in 1..(k - 1) : map[j][1] # acc
  <2> TAKE j \in 1..(k - 1)
  <2>1. j \in 1..Len(map) /\ ~(k <= j)
    BY <1>1, <1>4
  <2> QED BY <2>1, <1>4, <1>5
<1> QED BY <1>4, <1>6

MapGrown(next, map, acc, i) ==
  /\ IsList(next) /\ Known(next, acc) /\ IndexOf(next, acc) = i
  /\ \A x : x # acc => (Known(next, x) <=> Known(map, x))
  /\ \A x : Known(map, x) =>
               Known(next, x) /\ IndexOf(next, x) = IndexOf(map, x)

(* One more accessor is read: the others are found where they were.        *)
LEMMA MapGrows ==
  ASSUME NEW map, IsList(map), NEW acc, ~Known(map, acc), NEW i,
         NEW next, Appended(next, map, <<acc, i>>)
  PROVE  MapGrown(next, map, acc, i)
<1> PICK n : n = Len(map)
  OBVIOUS
<1>1. /\ DOMAIN map = 1..n /\ n \in Nat /\ IsList(next) /\ Len(next) = n + 1
      /\ \A k \in 1..n : next[k] = map[k]
      /\ next[n + 1][1] = acc /\ next[n + 1][2] = i
      /\ DOMAIN next = 1..(n + 1)
  BY DEF IsList, Appended
<1>2. \A k \in 1..n : map[k][1] # acc
  BY <1>1 DEF Known
<1>3. Known(next, acc)
  BY <1>1 DEF Known
<1>4. IndexOf(next, acc) = i
  <2>1. \A j \in 1..((n + 1) - 1) : next[j][1] # acc
    BY <1>1, <1>2
  <2> QED BY <1>1, <2>1, FirstIs
<1>5. ASSUME NEW x, x # acc
      PROVE  Known(next, x) <=> Known(map, x)
  <2>1. \A k \in 1..(n + 1) : next[k][1] = x => k \in 1..n
    BY <1>1, <1>5
  <2> QED BY <1>1, <2>1 DEF Known
<1>6. ASSUME NEW x, Known(map, x)
      PROVE  Known(next, x) /\ IndexOf(next, x) = IndexOf(map, x)
  <2>1. x # acc
    BY <1>6
  <2>2. PICK k \in 1..n :
          map[k][1] = x /\ \A j \in 1..(k - 1) : map[j][1] # x
    BY <1>6, FirstExists
  <2>3. IndexOf(map, x) = map[k][2]
    BY <2>2, FirstIs
  <2>4. k \in 1..Len(next) /\ next[k] = map[k]
    BY <1>1
  <2>5. \A j \in 1..(k - 1) : next[j][1] # x
    BY <1>1, <2>2
  <2>6. IndexOf(next, x) = next[k][2]
    BY <1>1, <2>2, <2>4, <2>5, FirstIs
  <2> QED BY <1>5, <1>6, <2>1, <2>3, <2>4, <2>6
<1> QED BY <1>1, <1>3, <1>4, <1>5, <1>6 DEF MapGrown

(* The channels of an animation, and the accessors that it reads.          *)
ChannelsOf(a) == Item(gltf.animations, a).channels
SamplerFor(a, k) ==
  Item(Item(gltf.animations, a).samplers, ChannelsOf(a)[k].sampler)
InputOf(a, k) == SamplerFor(a, k).input
OutputOf(a, k) == SamplerFor(a, k).output
PathOf(a, k) == ChannelsOf(a)[k].target.path

(* An animation has one map for all of its accessors: this is what keeps   *)
(* them apart.                                                             *)
OneUse ==
  \A a \in Elems(gltf.animations) : \A j, k \in DOMAIN ChannelsOf(a) :
    /\ InputOf(a, j) # OutputOf(a, k)
    /\ OutputOf(a, j) = OutputOf(a, k) => PathOf(a, j) = PathOf(a, k)

SelectedBy(acc, size) == Reference(Item(gltf.accessors, acc), size, size)
SizeOf(acc) ==
  SizeOfComponentType(Item(gltf.accessors, acc)) * SizeOfType(Item(gltf.accessors, acc))

Holds(list, i, x) == Refers(i, list) /\ Item(list, i) = x
InputRight(map, inputs, i) ==
  Known(map, i) => Holds(inputs, IndexOf(map, i), SelectedBy(i, 4))
OutputRight(map, outputs, path, o) ==
  Known(map, o) /\ path \in DOMAIN Paths =>
    Holds(outputs[Paths[path]], IndexOf(map, o), SelectedBy(o, SizeOf(o)))

InputsRight(a, map, inputs) ==
  \A k \in DOMAIN ChannelsOf(a) : InputRight(map, inputs, InputOf(a, k))
OutputsRight(a, map, outputs) ==
  \A k \in DOMAIN ChannelsOf(a) :
    OutputRight(map, outputs, PathOf(a, k), OutputOf(a, k))

(* What a list holds it still holds when it has grown.                     *)
LEMMA HoldsOn ==
  ASSUME NEW s, NEW r, Grows(s, r), NEW i, NEW x, Holds(s, i, x)
  PROVE  Holds(r, i, x)
BY DEF Grows, Holds

(* The input of a channel is read.                                         *)
LEMMA InputReads ==
  ASSUME OneUse, NEW a \in Elems(gltf.animations), NEW j \in DOMAIN ChannelsOf(a),
         NEW map, NEW inputs, NEW outputs, IsList(map),
         InputsRight(a, map, inputs), OutputsRight(a, map, outputs),
         NEW map2, MapGrown(map2, map, InputOf(a, j), Len(inputs)),
         NEW inputs2, Appended(inputs2, inputs, SelectedBy(InputOf(a, j), 4))
  PROVE  InputsRight(a, map2, inputs2) /\ OutputsRight(a, map2, outputs)
<1>1. Grows(inputs, inputs2)
      /\ Holds(inputs2, Len(inputs), SelectedBy(InputOf(a, j), 4))
  BY AppendGrows DEF Holds
<1>2. ASSUME NEW k \in DOMAIN ChannelsOf(a)
      PROVE  InputRight(map2, inputs2, InputOf(a, k))
  <2>1. CASE InputOf(a, k) = InputOf(a, j)
    BY <1>1, <2>1 DEF MapGrown, InputRight
  <2>2. CASE InputOf(a, k) # InputOf(a, j)
    <3>1. SUFFICES ASSUME Known(map2, InputOf(a, k))
                   PROVE  Holds(inputs2, IndexOf(map2, InputOf(a, k)),
                                SelectedBy(InputOf(a, k), 4))
      BY DEF InputRight
    <3>2. Known(map, InputOf(a, k))
          /\ IndexOf(map2, InputOf(a, k)) = IndexOf(map, InputOf(a, k))
      BY <2>2, <3>1 DEF MapGrown
    <3>3. Holds(inputs, IndexOf(map, InputOf(a, k)), SelectedBy(InputOf(a, k), 4))
      BY <3>2 DEF InputsRight, InputRight
    <3> QED BY <1>1, <3>2, <3>3, HoldsOn
  <2> QED BY <2>1, <2>2
<1>3. ASSUME NEW k \in DOMAIN ChannelsOf(a)
      PROVE  OutputRight(map2, outputs, PathOf(a, k), OutputOf(a, k))
  <2>1. OutputOf(a, k) # InputOf(a, j)
    BY DEF OneUse
  <2>2. Known(map2, OutputOf(a, k)) =>
          /\ Known(map, OutputOf(a, k))
          /\ IndexOf(map2, OutputOf(a, k)) = IndexOf(map, OutputOf(a, k))
    BY <2>1 DEF MapGrown
  <2> QED BY <2>2 DEF OutputsRight, OutputRight
<1> QED BY <1>2, <1>3 DEF InputsRight, OutputsRight

(* The output of a channel is read.                                        *)
LEMMA OutputReads ==
  ASSUME OneUse, NEW a \in Elems(gltf.animations), NEW j \in DOMAIN ChannelsOf(a),
         PathOf(a, j) \in DOMAIN Paths, NEW t, t = Paths[PathOf(a, j)],
         NEW map, NEW inputs, NEW outputs, IsList(map),
         InputsRight(a, map, inputs), OutputsRight(a, map, outputs),
         NEW map2, MapGrown(map2, map, OutputOf(a, j), Len(outputs[t])),
         NEW outputs2,
         Appended(outputs2[t], outputs[t],
                  SelectedBy(OutputOf(a, j), SizeOf(OutputOf(a, j)))),
         \A u : u \in {"T", "R", "S"} /\ u # t => outputs2[u] = outputs[u]
  PROVE  InputsRight(a, map2, inputs) /\ OutputsRight(a, map2, outputs2)
<1> DEFINE Selects(o) == SelectedBy(o, SizeOf(o))
<1> HIDE DEF Selects
<1>1. Grows(outputs[t], outputs2[t])
      /\ Holds(outputs2[t], Len(outputs[t]), Selects(OutputOf(a, j)))
  BY AppendGrows DEF Holds, Selects
<1>2. ASSUME NEW k \in DOMAIN ChannelsOf(a)
      PROVE  InputRight(map2, inputs, InputOf(a, k))
  <2>1. InputOf(a, k) # OutputOf(a, j)
    BY DEF OneUse
  <2>2. Known(map2, InputOf(a, k)) =>
          /\ Known(map, InputOf(a, k))
          /\ IndexOf(map2, InputOf(a, k)) = IndexOf(map, InputOf(a, k))
    BY <2>1 DEF MapGrown
  <2> QED BY <2>2 DEF InputsRight, InputRight
<1>3. ASSUME NEW k \in DOMAIN ChannelsOf(a)
      PROVE  OutputRight(map2, outputs2, PathOf(a, k), OutputOf(a, k))
  <2> PICK o : o = OutputOf(a, k)
    OBVIOUS
  <2> PICK u : u = Paths[PathOf(a, k)]
    OBVIOUS
  <2>1. SUFFICES ASSUME Known(map2, o), PathOf(a, k) \in DOMAIN Paths
                 PROVE  Holds(outputs2[u], IndexOf(map2, o), Selects(o))
    BY DEF OutputRight, Selects
  <2>2. CASE o = OutputOf(a, j)
    <3>1. u = t
      BY <2>2 DEF OneUse
    <3>2. IndexOf(map2, o) = Len(outputs[t])
      BY <2>2 DEF MapGrown
    <3> QED BY <1>1, <2>2, <3>1, <3>2
  <2>3. CASE o # OutputOf(a, j)
    <3>1. Known(map, o) /\ IndexOf(map2, o) = IndexOf(map, o)
      BY <2>1, <2>3 DEF MapGrown
    <3>2. Holds(outputs[u], IndexOf(map, o), Selects(o))
      BY <2>1, <3>1 DEF OutputsRight, OutputRight, Selects
    <3>3. CASE u = t
      BY <1>1, <3>1, <3>2, <3>3, HoldsOn
    <3>4. CASE u # t
      <4>1. u \in {"T", "R", "S"}
        BY <2>1 DEF Paths
      <4> QED BY <3>1, <3>2, <3>4, <4>1
    <3> QED BY <3>3, <3>4
  <2> QED BY <2>2, <2>3
<1> QED BY <1>2, <1>3 DEF InputsRight, OutputsRight

-----------------------------------------------------------------------------
(* The calls of an animation: one is complete before another is begun, and *)
(* animations come last.                                                   *)

ActionKinds == {"newAction", "makeAnimation"}
ActionCallsOf(a) ==
  InTurn([k \in DOMAIN ChannelsOf(a) |->
            Do("loadNode", ChannelsOf(a)[k].target.node)],
         [k \in DOMAIN ChannelsOf(a) |-> DoNth("newAction", a, k)])
  \o <<Do("makeAnimation", a)>>

Follows(c, d) ==
  /\ c.do = "loadAnimation" => d.do = "loadAnimation"
  /\ c.do \in ActionKinds /\ d.do \in ActionKinds =>
       /\ c.do = "newAction" /\ c.i = d.i
       /\ d.do = "newAction" => c.n < d.n
(* The last call of an animation.                                          *)
LEMMA EndFollows ==
  ASSUME NEW c, NEW d, c.do = "newAction", d.do = "makeAnimation", c.i = d.i
  PROVE  Follows(c, d)
BY DEF Follows, ActionKinds

ActionsInTurn ==
  \A p, q \in DOMAIN todo : p < q => Follows(todo[p], todo[q])

ActionCallsRight(c, a) ==
  /\ c \in Seq(CallsOf(gltf))
  /\ \A p \in 1..Len(c) :
       /\ c[p].do \in {"loadNode", "newAction", "makeAnimation"}
       /\ c[p].do \in ActionKinds => c[p].i = a
  /\ \A p, q \in 1..Len(c) : p < q => Follows(c[p], c[q])
  /\ \A k \in DOMAIN ChannelsOf(a) :
       \E p \in 1..Len(c) : c[p].do = "newAction" /\ c[p].n = k
  /\ \A p \in 1..Len(c) :
       c[p].do = "newAction" => c[p].n \in DOMAIN ChannelsOf(a)
  /\ \E p \in 1..Len(c) : c[p].do = "makeAnimation"

(* The calls that an animation makes: for each channel, its node and then  *)
(* the channel.                                                            *)
LEMMA ActionCallsMade ==
  ASSUME gltf \in FileType, Valid(gltf), NEW x \in Elems(gltf.animations)
  PROVE  ActionCallsRight(ActionCallsOf(x), x)
<1> PICK chans : chans = ChannelsOf(x)
  OBVIOUS
<1> PICK S : S = CallsOf(gltf)
  OBVIOUS
<1>1. /\ chans \in Seq(ChannelType)
      /\ \A c \in DOMAIN chans : chans[c].target.node \in Elems(gltf.nodes)
  BY AnimationRefers DEF ChannelsOf
<1>2. DOMAIN chans = 1..Len(chans) /\ Len(chans) \in Nat
  BY <1>1
<1> DEFINE a == [k \in DOMAIN chans |-> Do("loadNode", chans[k].target.node)]
<1>3. \A k \in 1..Len(chans) :
        a[k] = Do("loadNode", chans[k].target.node) /\ a[k] \in S
  BY <1>1, <1>2, CallsMade
<1>4. DOMAIN a = 1..Len(chans) /\ a = [k \in 1..Len(chans) |-> a[k]]
  BY <1>2
<1>5. a \in Seq(S) /\ Len(a) = Len(chans)
  <2> HIDE DEF a
  <2> QED BY <1>2, <1>3, <1>4, Listed
<1>6. \A k \in 1..Len(chans) : a[k].do = "loadNode"
  BY <1>3 DEF Do
<1> HIDE DEF a
<1>7. \A k \in 1..Len(chans) : DoNth("newAction", x, k) \in S
  BY <1>2, CallsMadeIn DEF ChannelsOf, Item
<1> PICK b : b = [k \in DOMAIN chans |-> DoNth("newAction", x, k)]
  OBVIOUS
<1>8. Numbered([k \in 1..Len(chans) |-> DoNth("newAction", x, k)], "newAction", x,
               Len(chans), S)
  BY <1>2, <1>7, NthNumbered
<1>9. Numbered(b, "newAction", x, Len(chans), S)
  BY <1>2, <1>8
<1>10. Turned(InTurn(a, b), a, b, S)
  BY <1>5, <1>9, TurnedIs DEF Numbered
<1> PICK t : t = InTurn(a, b)
  OBVIOUS
<1>11. Turned(t, a, b, S)
  BY <1>10
<1> PICK e : e = <<Do("makeAnimation", x)>>
  OBVIOUS
<1>12. e \in Seq(S) /\ Len(e) = 1 /\ e[1].do = "makeAnimation" /\ e[1].i = x
  <2>1. Do("makeAnimation", x) \in S
    BY CallsMade
  <2> QED BY <2>1 DEF Do
<1>13. Concatenated(t \o e, t, e, S)
  <2>1. t \in Seq(S)
    BY <1>11 DEF Turned
  <2> QED BY <2>1, <1>12, ConcatIs
<1> PICK f : f = t \o e
  OBVIOUS
<1>14. Concatenated(f, t, e, S)
  BY <1>13
<1>15. f = ActionCallsOf(x)
  BY DEF ActionCallsOf, a
<1> PICK n : n = 2 * Len(chans)
  OBVIOUS
<1>16. /\ f \in Seq(S) /\ Len(f) = n + 1 /\ n \in Nat
       /\ \A p \in 1..n : f[p] = t[p]
       /\ f[n + 1].do = "makeAnimation" /\ f[n + 1].i = x
  <2>1. Len(t) = n /\ n \in Nat
    BY <1>2, <1>5, <1>11 DEF Turned
  <2>2. n + 1 \in (Len(t) + 1)..Len(f) /\ (n + 1) - Len(t) = 1
    BY <2>1, <1>12, <1>14 DEF Concatenated
  <2> QED BY <2>1, <2>2, <1>12, <1>14 DEF Concatenated
<1>17. ASSUME NEW k \in 1..Len(chans)
       PROVE  /\ 2 * k - 1 \in 1..n /\ 2 * k \in 1..n
              /\ t[2 * k - 1].do = "loadNode"
              /\ t[2 * k].do = "newAction" /\ t[2 * k].i = x /\ t[2 * k].n = k
  <2>1. t[2 * k - 1] = a[k] /\ t[2 * k] = DoNth("newAction", x, k)
    BY <1>5, <1>9, <1>11 DEF Turned, Numbered
  <2>2. t[2 * k - 1].do = "loadNode"
    BY <1>6, <2>1
  <2>3. t[2 * k].do = "newAction" /\ t[2 * k].i = x /\ t[2 * k].n = k
    BY <2>1 DEF DoNth
  <2>4. 2 * k - 1 \in 1..n /\ 2 * k \in 1..n
    BY <1>2
  <2> QED BY <2>2, <2>3, <2>4
<1> DEFINE InPlace(c, p, k) ==
             \/ p = 2 * k - 1 /\ c.do = "loadNode"
             \/ p = 2 * k /\ c.do = "newAction" /\ c.i = x /\ c.n = k
<1> HIDE DEF InPlace
<1>18. ASSUME NEW p \in 1..n
       PROVE  \E k \in 1..Len(chans) : InPlace(f[p], p, k)
  <2>1. PICK k \in 1..Len(chans) : p = 2 * k - 1 \/ p = 2 * k
    BY <1>5, <1>11 DEF Turned
  <2>2. /\ t[2 * k - 1].do = "loadNode"
        /\ t[2 * k].do = "newAction" /\ t[2 * k].i = x /\ t[2 * k].n = k
    BY <1>17
  <2>3. InPlace(t[p], p, k)
    BY <2>1, <2>2 DEF InPlace
  <2>4. InPlace(f[p], p, k)
    BY <2>3, <1>16
  <2> QED BY <2>4
<1>19. ASSUME NEW p \in 1..Len(f)
       PROVE  /\ f[p].do \in {"loadNode", "newAction", "makeAnimation"}
              /\ f[p].do \in ActionKinds => f[p].i = x
              /\ f[p].do = "newAction" => f[p].n \in 1..Len(chans)
  <2>1. p \in 1..n \/ p = n + 1
    BY <1>16
  <2>2. CASE p \in 1..n
    BY <2>2, <1>18 DEF ActionKinds, InPlace
  <2>3. CASE p = n + 1
    BY <2>3, <1>16 DEF ActionKinds
  <2> QED BY <2>1, <2>2, <2>3
<1>20. ASSUME NEW p \in 1..Len(f), NEW q \in 1..Len(f), p < q
       PROVE  Follows(f[p], f[q])
  <2>0. q \in 1..n \/ q = n + 1
    <3>1. n \in Nat /\ Len(f) = n + 1
      BY <1>16
    <3> QED BY <3>1
  <2>1. p \in 1..n
    BY <1>16, <1>20
  <2>2. PICK k \in 1..Len(chans) : InPlace(f[p], p, k)
    BY <2>1, <1>18
  <2>3. CASE f[p].do = "loadNode"
    BY <2>3 DEF Follows, ActionKinds
  <2>4. CASE p = 2 * k /\ f[p].do = "newAction" /\ f[p].i = x /\ f[p].n = k
    <3>1. CASE q \in 1..n
      <4>1. PICK l \in 1..Len(chans) : InPlace(f[q], q, l)
        BY <3>1, <1>18
      <4>2. q = 2 * l => k < l
        BY <1>2, <1>20, <2>4
      <4> QED BY <4>1, <4>2, <2>4 DEF Follows, ActionKinds, InPlace
    <3>2. CASE q = n + 1
      <4>1. f[q].do = "makeAnimation" /\ f[q].i = x
        BY <3>2, <1>16
      <4>2. f[p].do = "newAction" /\ f[p].i = x
        BY <2>4
      <4> QED BY <4>1, <4>2, EndFollows
    <3> QED BY <2>0, <3>1, <3>2
  <2> QED BY <2>2, <2>3, <2>4 DEF InPlace
<1>21. ASSUME NEW k \in 1..Len(chans)
       PROVE  \E p \in 1..Len(f) : f[p].do = "newAction" /\ f[p].n = k
  <2> PICK p : p = 2 * k
    OBVIOUS
  <2>1. 2 * k \in 1..n /\ t[2 * k].do = "newAction" /\ t[2 * k].n = k
    BY <1>17
  <2>2. p \in 1..n /\ t[p].do = "newAction" /\ t[p].n = k
    BY <2>1
  <2>3. p \in 1..Len(f) /\ f[p] = t[p]
    BY <2>2, <1>16
  <2> QED BY <2>2, <2>3
<1>22. n + 1 \in 1..Len(f)
  BY <1>16
<1>23. ActionCallsRight(f, x)
  <2>1. /\ f \in Seq(CallsOf(gltf)) /\ DOMAIN ChannelsOf(x) = 1..Len(chans)
        /\ f[n + 1].do = "makeAnimation"
    BY <1>2, <1>16
  <2>2. \A k \in DOMAIN ChannelsOf(x) :
          \E p \in 1..Len(f) : f[p].do = "newAction" /\ f[p].n = k
    BY <2>1, <1>21
  <2>3. \E p \in 1..Len(f) : f[p].do = "makeAnimation"
    BY <2>1, <1>22
  <2>4. \A p \in 1..Len(f) :
          /\ f[p].do \in {"loadNode", "newAction", "makeAnimation"}
          /\ f[p].do \in ActionKinds => f[p].i = x
    BY <1>19
  <2>5. \A p \in 1..Len(f) :
          f[p].do = "newAction" => f[p].n \in DOMAIN ChannelsOf(x)
    BY <2>1, <1>19
  <2>6. \A p, q \in 1..Len(f) : p < q => Follows(f[p], f[q])
    BY <1>20
  <2> QED BY <2>1, <2>2, <2>3, <2>4, <2>5, <2>6 DEF ActionCallsRight
<1> QED BY <1>15, <1>23

(* What there is of an animation.  Until it is made, the channels that     *)
(* were read are right, and the others are pending.                        *)
PendingAction(a, k) ==
  \E c \in ToSet(todo) : c.do = "newAction" /\ c.i = a /\ c.n = k
MethodsIn(list) ==
  \A k \in 1..Len(list) : list[k].method \in {"Step", "Linear", "Cubic"}
IsAnimData(v) ==
  /\ v = [accMap |-> v.accMap, actions |-> v.actions, inputs |-> v.inputs,
          outputs |-> v.outputs]
  /\ v.outputs = [t \in {"T", "R", "S"} |-> v.outputs[t]]
  /\ IsList(v.accMap) /\ IsList(v.actions) /\ IsList(v.inputs)
  /\ MethodsIn(v.actions)
  /\ \A t \in {"T", "R", "S"} : IsList(v.outputs[t])
IsAction(action, a, k, inputs, outputs) ==
  /\ PathOf(a, k) \in DOMAIN Paths
  /\ action.target = ChannelsOf(a)[k].target.node
  /\ action.type = Paths[PathOf(a, k)]
  /\ Holds(inputs, action.input, SelectedBy(InputOf(a, k), 4))
  /\ Holds(outputs[action.type], action.output,
           SelectedBy(OutputOf(a, k), SizeOf(OutputOf(a, k))))
ReadRight(a, v) ==
  /\ IsAnimData(v)
  /\ InputsRight(a, v.accMap, v.inputs) /\ OutputsRight(a, v.accMap, v.outputs)
  /\ \A k \in DOMAIN ChannelsOf(a) :
       k <= Len(v.actions) => IsAction(v.actions[k], a, k, v.inputs, v.outputs)
Whole(a, v) ==
  /\ IsList(v.actions) /\ MethodsIn(v.actions)
  /\ \A k \in DOMAIN ChannelsOf(a) : ActionRight(Item(gltf.animations, a), v, k)

ActionsMade ==
  \A a \in Elems(gltf.animations) :
    IF Item(coll.animations, a) = Absent
    THEN Pending({"loadAnimation", "makeAnimation"}, a)
    ELSE Whole(a, Item(coll.animations, a))
ActionsLeft(a, n) ==
  /\ \A k \in DOMAIN ChannelsOf(a) : k <= n \/ PendingAction(a, k)
  /\ \A k : PendingAction(a, k) => k > n
ActionsUnderway ==
  \A a \in Elems(gltf.animations) :
    Pending(ActionKinds, a) =>
      ReadRight(a, animData) /\ ActionsLeft(a, Len(animData.actions))
ActionParts == ActionsInTurn /\ ActionsMade /\ ActionsUnderway

(* What is read is right for the file: it stays so, as the file does.      *)
LEMMA SameActions ==
  ASSUME gltf' = gltf, NEW a, NEW v
  PROVE  /\ ReadRight(a, v)' <=> ReadRight(a, v)
         /\ Whole(a, v)' <=> Whole(a, v)
         /\ ChannelsOf(a)' = ChannelsOf(a)
<1>1. /\ \A k : PathOf(a, k)' = PathOf(a, k) /\ InputOf(a, k)' = InputOf(a, k)
                /\ OutputOf(a, k)' = OutputOf(a, k)
      /\ ChannelsOf(a)' = ChannelsOf(a)
  BY DEF PathOf, InputOf, OutputOf, SamplerFor, ChannelsOf
<1>2. \A acc, size : SelectedBy(acc, size)' = SelectedBy(acc, size)
                     /\ SizeOf(acc)' = SizeOf(acc)
  BY DEF SelectedBy, SizeOf, Reference, ViewOf
<1>3. \A map, inputs : InputsRight(a, map, inputs)' <=> InputsRight(a, map, inputs)
  BY <1>1, <1>2 DEF InputsRight, InputRight
<1>4. \A map, outs : OutputsRight(a, map, outs)' <=> OutputsRight(a, map, outs)
  BY <1>1, <1>2 DEF OutputsRight, OutputRight
<1>5. \A x, k, inputs, outs :
        IsAction(x, a, k, inputs, outs)' <=> IsAction(x, a, k, inputs, outs)
  BY <1>1, <1>2 DEF IsAction
<1>6. ReadRight(a, v)' <=> ReadRight(a, v)
  BY <1>1, <1>3, <1>4, <1>5 DEF ReadRight
<1>7. Whole(a, v)' <=> Whole(a, v)
  BY <1>1 DEF Whole, ActionRight, Reference, ViewOf
<1> QED BY <1>1, <1>6, <1>7

(* A channel is pending until it is its turn.                              *)
LEMMA PendingActionKept ==
  ASSUME NEW calls, Working(calls), NEW a, NEW k
  PROVE  /\ PendingAction(a, k) =>
              \/ PendingAction(a, k)'
              \/ Head(todo).do = "newAction" /\ Head(todo).i = a /\ Head(todo).n = k
         /\ PendingAction(a, k)' =>
              \/ PendingAction(a, k)
              \/ \E p \in 1..Len(calls) :
                   calls[p].do = "newAction" /\ calls[p].i = a /\ calls[p].n = k
<1>1. /\ ToSet(todo) \subseteq ToSet(todo') \cup {Head(todo)}
      /\ ToSet(todo') \subseteq ToSet(calls) \cup ToSet(todo)
  BY Positions DEF Working, Makes
<1>2. \A c \in ToSet(calls) : \E p \in 1..Len(calls) : c = calls[p]
  <2>1. DOMAIN calls = 1..Len(calls)
    BY DEF Working
  <2> QED BY <2>1 DEF ToSet
<1> QED BY <1>1, <1>2 DEF PendingAction

(* The order of the calls is kept by the others.                           *)
LEMMA ActionsInTurnKept ==
  ASSUME NEW calls, Working(calls), ActionsInTurn,
         \A p \in 1..Len(calls) :
           calls[p].do \notin {"loadAnimation", "newAction", "makeAnimation"}
  PROVE  ActionsInTurn'
<1> PICK next : next = todo'
  OBVIOUS
<1>1. /\ next \in Seq(CallsOf(gltf))
      /\ \A p \in 1..Len(calls) : next[p] = calls[p]
      /\ \A p \in (Len(calls) + 1)..Len(next) :
           /\ next[p] = todo[p - Len(calls) + 1]
           /\ p - Len(calls) + 1 \in 2..Len(todo)
  BY Positions DEF Working, Makes
<1>2. /\ Len(calls) \in Nat /\ Len(todo) \in Nat /\ Len(next) \in Nat
      /\ DOMAIN todo = 1..Len(todo) /\ DOMAIN next = 1..Len(next)
  BY <1>1 DEF Working
<1>3. ASSUME NEW p \in 1..Len(next), NEW q \in 1..Len(next), p < q
      PROVE  Follows(next[p], next[q])
  <2>1. CASE p \in 1..Len(calls)
    BY <1>1, <2>1 DEF Follows, ActionKinds
  <2>2. CASE p \notin 1..Len(calls)
    <3>1. p \in (Len(calls) + 1)..Len(next) /\ q \in (Len(calls) + 1)..Len(next)
      BY <1>2, <1>3, <2>2
    <3> PICK s \in 2..Len(todo) : s = p - Len(calls) + 1
      BY <1>1, <3>1
    <3> PICK r \in 2..Len(todo) : r = q - Len(calls) + 1
      BY <1>1, <3>1
    <3>2. next[p] = todo[s] /\ next[q] = todo[r]
      BY <1>1, <3>1
    <3>3. s \in DOMAIN todo /\ r \in DOMAIN todo /\ s < r
      BY <1>2, <1>3, <3>1
    <3>4. Follows(todo[s], todo[r])
      BY <3>3 DEF ActionsInTurn
    <3> QED BY <3>2, <3>4
  <2> QED BY <2>1, <2>2
<1>4. \A p, q \in DOMAIN next : p < q => Follows(next[p], next[q])
  BY <1>2, <1>3
<1> QED BY <1>4 DEF ActionsInTurn

(* A call that has nothing to do with animations keeps what is known of    *)
(* them.                                                                   *)
LEMMA ActionsQuiet ==
  ASSUME NEW calls, Working(calls), ActionParts,
         coll'.animations = coll.animations, animData' = animData,
         Head(todo).do \notin {"loadAnimation", "newAction", "makeAnimation"},
         \A p \in 1..Len(calls) :
           calls[p].do \notin {"loadAnimation", "newAction", "makeAnimation"}
  PROVE  ActionParts'
<1>1. gltf' = gltf
  BY DEF Working
<1>2. ActionsMade'
  <2> SUFFICES ASSUME NEW a \in Elems(gltf.animations)
               PROVE  IF Item(coll'.animations, a) = Absent
                      THEN Pending({"loadAnimation", "makeAnimation"}, a)'
                      ELSE Whole(a, Item(coll.animations, a))'
    BY <1>1 DEF ActionsMade
  <2> PICK v : v = Item(coll.animations, a)
    OBVIOUS
  <2>1. CASE v = Absent
    <3>1. Pending({"loadAnimation", "makeAnimation"}, a)
      BY <2>1 DEF ActionParts, ActionsMade
    <3>2. Pending({"loadAnimation", "makeAnimation"}, a)'
      BY <3>1, PendingKept
    <3> QED BY <2>1, <3>2 DEF Item
  <2>2. CASE v # Absent
    <3>1. Whole(a, v)
      BY <2>2 DEF ActionParts, ActionsMade
    <3>2. Whole(a, v)'
      BY <1>1, <3>1, SameActions
    <3>3. Item(coll'.animations, a) = v /\ Item(coll.animations, a)' = v
      BY DEF Item
    <3> QED BY <2>2, <3>2, <3>3 DEF Whole
  <2> QED BY <2>1, <2>2
<1>3. ActionsUnderway'
  <2> SUFFICES ASSUME NEW a \in Elems(gltf.animations), Pending(ActionKinds, a)'
               PROVE  ReadRight(a, animData)' /\ ActionsLeft(a, Len(animData.actions))'
    BY <1>1 DEF ActionsUnderway
  <2>1. Pending(ActionKinds, a)
    BY PendingBefore DEF ActionKinds
  <2>2. ReadRight(a, animData) /\ ActionsLeft(a, Len(animData.actions))
    BY <2>1 DEF ActionParts, ActionsUnderway
  <2> PICK v : v = animData
    OBVIOUS
  <2>3. ReadRight(a, v)'
    BY <1>1, <2>2, SameActions
  <2>4. ReadRight(a, animData)'
    BY <2>3 DEF ReadRight
  <2>5. ChannelsOf(a)' = ChannelsOf(a)
    BY <1>1, SameActions
  <2>6. \A k : PendingAction(a, k)' <=> PendingAction(a, k)
    BY PendingActionKept
  <2> QED BY <2>2, <2>4, <2>5, <2>6 DEF ActionsLeft
<1> QED BY <1>2, <1>3, ActionsInTurnKept DEF ActionParts

AnimDataInit ==
  [accMap |-> <<>>, actions |-> <<>>, inputs |-> <<>>,
   outputs |-> [T |-> <<>>, R |-> <<>>, S |-> <<>>]]

(* Nothing was read: nothing is wrong.                                     *)
LEMMA NothingRead ==
  ASSUME gltf \in FileType, Valid(gltf), NEW a \in Elems(gltf.animations),
         NEW v, v = AnimDataInit
  PROVE  ReadRight(a, v) /\ Len(v.actions) = 0
<1> PICK e : e = <<>>
  OBVIOUS
<1>1. IsList(e) /\ Len(e) = 0 /\ \A x : ~Known(e, x)
  <2>1. e \in Seq({}) /\ Len(e) = 0
    OBVIOUS
  <2>2. DOMAIN e = {}
    BY <2>1
  <2> QED BY <2>1, <2>2 DEF IsList, Known
<1>2. /\ v.accMap = e /\ v.actions = e /\ v.inputs = e
      /\ v = [accMap |-> v.accMap, actions |-> v.actions, inputs |-> v.inputs,
              outputs |-> v.outputs]
  BY DEF AnimDataInit
<1>3. /\ v.outputs = [t \in {"T", "R", "S"} |-> v.outputs[t]]
      /\ \A t \in {"T", "R", "S"} : v.outputs[t] = e
  <2>1. v.outputs = [T |-> e, R |-> e, S |-> e]
    BY DEF AnimDataInit
  <2> QED BY <2>1
<1>4. IsAnimData(v)
  BY <1>1, <1>2, <1>3 DEF IsAnimData, MethodsIn
<1>5. \A k \in DOMAIN ChannelsOf(a) : ~(k <= Len(v.actions))
  <2>1. ChannelsOf(a) \in Seq(ChannelType)
    BY AnimationRefers DEF ChannelsOf
  <2>2. \A k \in DOMAIN ChannelsOf(a) : k \in Nat /\ k >= 1
    BY <2>1
  <2> QED BY <1>1, <1>2, <2>2
<1> QED BY <1>1, <1>2, <1>4, <1>5
        DEF ReadRight, InputsRight, OutputsRight, InputRight, OutputRight

(* When an animation is next, nothing else than animations is left.        *)
LEMMA OnlyAnimations ==
  ASSUME todo \in Seq(CallsOf(gltf)), todo # <<>>, ActionsInTurn,
         Head(todo).do = "loadAnimation"
  PROVE  \A c \in ToSet(todo) : c.do = "loadAnimation"
<1>1. /\ DOMAIN todo = 1..Len(todo) /\ Len(todo) \in Nat /\ Len(todo) >= 1
      /\ Head(todo) = todo[1]
  OBVIOUS
<1>2. ASSUME NEW q \in 1..Len(todo)
      PROVE  todo[q].do = "loadAnimation"
  <2>1. CASE q = 1
    BY <1>1, <2>1
  <2>2. CASE q # 1
    <3>1. 1 \in DOMAIN todo /\ q \in DOMAIN todo /\ 1 < q
      BY <1>1, <2>2
    <3> QED BY <1>1, <3>1 DEF ActionsInTurn, Follows
  <2> QED BY <2>1, <2>2
<1> QED BY <1>1, <1>2 DEF ToSet

(* What loadAnimation does.                                                *)
LEMMA LoadAnimationDoes ==
  ASSUME LoadAnimation, NEW a, a = I
  PROVE  /\ coll' = coll /\ load' = load
         /\ \/ Item(coll.animations, a) # Absent /\ Makes(<<>>)
            \/ /\ Item(coll.animations, a) = Absent
               /\ animData' = AnimDataInit /\ Makes(ActionCallsOf(a))
<1>1. CASE Item(coll.animations, I) # Absent
  BY <1>1 DEF LoadAnimation, Skip, Then, Makes
<1>2. CASE Item(coll.animations, I) = Absent
  <2>1. /\ coll' = coll /\ load' = load
        /\ animData' = AnimDataInit
    BY <1>2 DEF LoadAnimation, Then, AnimDataInit
  <2>2. Makes(ActionCallsOf(a))
    BY <1>2, Zenon DEF LoadAnimation, Then, Makes, ActionCallsOf, ChannelsOf
  <2> QED BY <1>2, <2>1, <2>2
<1> QED BY <1>1, <1>2

(* loadAnimation keeps the parts: one animation is begun.                  *)
LEMMA LoadAnimationKept ==
  ASSUME LoaderInv, LoadAnimation, ActionParts
  PROVE  ActionParts'
<1>1. /\ load = "loading" /\ gltf \in FileType /\ Valid(gltf)
      /\ todo \in Seq(CallsOf(gltf)) /\ todo # <<>>
      /\ Head(todo).do = "loadAnimation" /\ Head(todo) \in CallsOf(gltf)
  BY HeadTyped DEF LoadAnimation
<1> PICK a : a = I
  OBVIOUS
<1>2. a \in Elems(gltf.animations)
  BY <1>1, CallKinds DEF I, AnimationCalls
<1>3. \A c \in ToSet(todo) : c.do = "loadAnimation"
  BY <1>1, OnlyAnimations DEF ActionParts
<1>4. /\ coll' = coll /\ load' = "loading"
      /\ \/ Item(coll.animations, a) # Absent /\ Makes(<<>>)
         \/ /\ Item(coll.animations, a) = Absent
            /\ animData' = AnimDataInit /\ Makes(ActionCallsOf(a))
  BY <1>1, LoadAnimationDoes
<1>5. \A b : ~Pending(ActionKinds, b)
  BY <1>3 DEF Pending, ActionKinds
<1>6. \A b, k : ~PendingAction(b, k)
  BY <1>3 DEF PendingAction
<1>7. \A calls \in Seq(CallsOf(gltf)) : Makes(calls) => Working(calls)
  BY <1>4, CallingWorks DEF Calling, DataCall
<1>8. ASSUME Item(coll.animations, a) # Absent, Makes(<<>>)
      PROVE  ActionParts'
  <2> PICK calls : calls = <<>>
    OBVIOUS
  <2>1. calls \in Seq(CallsOf(gltf)) /\ Len(calls) = 0
    OBVIOUS
  <2>2. Working(calls)
    BY <1>7, <1>8, <2>1
  <2>3. ActionsInTurn'
    BY <2>1, <2>2, ActionsInTurnKept DEF ActionParts
  <2>4. ActionsMade'
    <3> SUFFICES ASSUME NEW b \in Elems(gltf.animations)
                 PROVE  IF Item(coll'.animations, b) = Absent
                        THEN Pending({"loadAnimation", "makeAnimation"}, b)'
                        ELSE Whole(b, Item(coll.animations, b))'
      BY <2>2 DEF ActionsMade, Working
    <3> PICK v : v = Item(coll.animations, b)
      OBVIOUS
    <3>1. CASE v = Absent
      <4>1. Pending({"loadAnimation", "makeAnimation"}, b) /\ b # a
        BY <1>8, <3>1 DEF ActionParts, ActionsMade
      <4>2. Pending({"loadAnimation", "makeAnimation"}, b)'
        BY <2>2, <4>1, PendingKept DEF I
      <4> QED BY <1>4, <3>1, <4>2 DEF Item
    <3>2. CASE v # Absent
      <4>1. Whole(b, v)
        BY <3>2 DEF ActionParts, ActionsMade
      <4>2. Whole(b, v)'
        BY <2>2, <4>1, SameActions DEF Working
      <4>3. Item(coll'.animations, b) = v /\ Item(coll.animations, b)' = v
        BY <1>4 DEF Item
      <4> QED BY <3>2, <4>2, <4>3 DEF Whole
    <3> QED BY <3>1, <3>2
  <2>5. ActionsUnderway'
    <3>1. \A b : ~Pending(ActionKinds, b)'
      BY <1>5, <2>1, <2>2, PendingBefore
    <3> QED BY <3>1 DEF ActionsUnderway
  <2> QED BY <2>3, <2>4, <2>5 DEF ActionParts
<1>9. ASSUME Item(coll.animations, a) = Absent,
             animData' = AnimDataInit, Makes(ActionCallsOf(a))
      PROVE  ActionParts'
  <2> PICK calls : calls = ActionCallsOf(a)
    OBVIOUS
  <2>1. ActionCallsRight(calls, a)
    BY <1>1, <1>2, ActionCallsMade
  <2>2. Working(calls)
    BY <1>7, <1>9, <2>1 DEF ActionCallsRight
  <2>3. gltf' = gltf
    BY <2>2 DEF Working
  <2>4. ActionsInTurn'
    <3> PICK next : next = todo'
      OBVIOUS
    <3>1. /\ next \in Seq(CallsOf(gltf))
          /\ \A p \in 1..Len(calls) : next[p] = calls[p]
          /\ \A p \in (Len(calls) + 1)..Len(next) :
               /\ next[p] = todo[p - Len(calls) + 1]
               /\ p - Len(calls) + 1 \in 2..Len(todo)
      BY <2>2, Positions DEF Working, Makes
    <3>2. /\ Len(calls) \in Nat /\ Len(todo) \in Nat /\ Len(next) \in Nat
          /\ DOMAIN todo = 1..Len(todo) /\ DOMAIN next = 1..Len(next)
      BY <2>2, <3>1 DEF Working
    <3>3. ASSUME NEW p \in 1..Len(next), NEW q \in 1..Len(next), p < q
          PROVE  Follows(next[p], next[q])
      <4>1. CASE q \in 1..Len(calls)
        <5>1. p \in 1..Len(calls)
          BY <3>2, <3>3, <4>1
        <5> QED BY <2>1, <3>1, <3>3, <4>1, <5>1 DEF ActionCallsRight
      <4>2. CASE q \notin 1..Len(calls)
        <5>1. q \in (Len(calls) + 1)..Len(next)
          BY <3>2, <4>2
        <5> PICK r \in 2..Len(todo) : r = q - Len(calls) + 1
          BY <3>1, <5>1
        <5>2. next[q] = todo[r] /\ r \in DOMAIN todo
          BY <3>1, <3>2, <5>1
        <5>3. next[q].do = "loadAnimation"
          BY <1>3, <5>2 DEF ToSet
        <5> QED BY <5>3 DEF Follows, ActionKinds
      <4> QED BY <4>1, <4>2
    <3>4. \A p, q \in DOMAIN next : p < q => Follows(next[p], next[q])
      BY <3>2, <3>3
    <3> QED BY <3>4 DEF ActionsInTurn
  <2>5. \A p \in 1..Len(calls) : calls[p] \in ToSet(todo')
    BY <2>2, MadePending
  <2>6. ActionsMade'
    <3> SUFFICES ASSUME NEW b \in Elems(gltf.animations)
                 PROVE  IF Item(coll'.animations, b) = Absent
                        THEN Pending({"loadAnimation", "makeAnimation"}, b)'
                        ELSE Whole(b, Item(coll.animations, b))'
      BY <2>3 DEF ActionsMade
    <3> PICK v : v = Item(coll.animations, b)
      OBVIOUS
    <3>1. CASE v = Absent
      <4>1. CASE b = a
        <5>1. PICK p \in 1..Len(calls) : calls[p].do = "makeAnimation"
          BY <2>1 DEF ActionCallsRight
        <5>2. calls[p].i = a
          BY <2>1, <5>1 DEF ActionCallsRight, ActionKinds
        <5>3. Pending({"loadAnimation", "makeAnimation"}, b)'
          BY <2>5, <4>1, <5>1, <5>2 DEF Pending
        <5> QED BY <1>4, <3>1, <5>3 DEF Item
      <4>2. CASE b # a
        <5>1. Pending({"loadAnimation", "makeAnimation"}, b)
          BY <3>1 DEF ActionParts, ActionsMade
        <5>2. Pending({"loadAnimation", "makeAnimation"}, b)'
          BY <2>2, <4>2, <5>1, PendingKept DEF I
        <5> QED BY <1>4, <3>1, <5>2 DEF Item
      <4> QED BY <4>1, <4>2
    <3>2. CASE v # Absent
      <4>1. Whole(b, v)
        BY <3>2 DEF ActionParts, ActionsMade
      <4>2. Whole(b, v)'
        BY <2>3, <4>1, SameActions
      <4>3. Item(coll'.animations, b) = v /\ Item(coll.animations, b)' = v
        BY <1>4 DEF Item
      <4> QED BY <3>2, <4>2, <4>3 DEF Whole
    <3> QED BY <3>1, <3>2
  <2>7. ActionsUnderway'
    <3> SUFFICES ASSUME NEW b \in Elems(gltf.animations), Pending(ActionKinds, b)'
                 PROVE  ReadRight(b, animData)' /\ ActionsLeft(b, Len(animData.actions))'
      BY <2>3 DEF ActionsUnderway
    <3>1. b = a
      <4>1. PICK p \in 1..Len(calls) : calls[p].do \in ActionKinds /\ calls[p].i = b
        BY <1>5, <2>2, PendingBefore DEF ActionKinds
      <4> QED BY <2>1, <4>1 DEF ActionCallsRight
    <3> PICK v : v = AnimDataInit
      OBVIOUS
    <3>2. ReadRight(a, v) /\ Len(v.actions) = 0
      BY <1>1, <1>2, NothingRead
    <3>3. ReadRight(a, v)'
      BY <2>3, <3>2, SameActions
    <3>4. ReadRight(b, animData)' /\ Len(animData'.actions) = 0
      BY <1>9, <3>1, <3>2, <3>3 DEF ReadRight
    <3>5. ChannelsOf(a)' = ChannelsOf(a) /\ ChannelsOf(a) \in Seq(ChannelType)
      BY <1>1, <1>2, <2>3, SameActions, AnimationRefers DEF ChannelsOf
    <3>6. ASSUME NEW k \in DOMAIN ChannelsOf(a)
          PROVE  PendingAction(a, k)'
      <4>1. PICK p \in 1..Len(calls) : calls[p].do = "newAction" /\ calls[p].n = k
        BY <2>1 DEF ActionCallsRight
      <4>2. calls[p].i = a
        BY <2>1, <4>1 DEF ActionCallsRight, ActionKinds
      <4> QED BY <2>5, <4>1, <4>2 DEF PendingAction
    <3>7. ASSUME NEW k, PendingAction(a, k)'
          PROVE  k > 0
      <4>1. PICK p \in 1..Len(calls) : calls[p].do = "newAction" /\ calls[p].n = k
        BY <1>6, <2>2, <3>7, PendingActionKept
      <4>2. k \in DOMAIN ChannelsOf(a)
        BY <2>1, <4>1 DEF ActionCallsRight
      <4> QED BY <3>5, <4>2
    <3> QED BY <3>1, <3>4, <3>5, <3>6, <3>7 DEF ActionsLeft
  <2> QED BY <2>4, <2>6, <2>7 DEF ActionParts
<1> QED BY <1>4, <1>8, <1>9

(* What is read for an accessor of the file is what it selects.            *)
LEMMA AccessorContent ==
  ASSUME gltf \in FileType, Valid(gltf), NEW i, Refers(i, gltf.accessors),
         NEW size \in Int
  PROVE  /\ Content(Item(gltf.accessors, i), size) = SelectedBy(i, size)
         /\ Item(gltf.accessors, i) \in AccessorType
<1> PICK acc : acc = Item(gltf.accessors, i)
  OBVIOUS
<1>1. /\ gltf.accessors \in Seq(AccessorType)
      /\ gltf.bufferViews \in Seq(BufferViewType)
  BY DEF FileType
<1>2. i + 1 \in DOMAIN gltf.accessors /\ acc \in AccessorType
  BY <1>1, ElemsIn
<1>3. Refers(acc.bufferView, gltf.bufferViews)
  BY <1>2 DEF Valid, Item
<1>4. ViewOf(acc) \in BufferViewType
  BY <1>1, <1>3, ElemsIn DEF ViewOf
<1>5. acc.count \in Int /\ acc.byteOffset \in Int
  BY <1>2 DEF AccessorType
<1>6. ViewOf(acc).byteOffset \in Int
  BY <1>4 DEF BufferViewType
<1>7. Content(acc, size) = Reference(acc, size, size)
  BY <1>5, <1>6, ContentIs
<1> QED BY <1>2, <1>7 DEF SelectedBy

(* The accessors of a channel are in the file.                             *)
LEMMA ChannelRefers ==
  ASSUME gltf \in FileType, Valid(gltf), NEW a \in Elems(gltf.animations),
         NEW k \in DOMAIN ChannelsOf(a)
  PROVE  Refers(InputOf(a, k), gltf.accessors) /\ Refers(OutputOf(a, k), gltf.accessors)
<1>1. gltf.animations \in Seq(AnimationType)
  BY DEF FileType
<1>2. a + 1 \in DOMAIN gltf.animations
  BY <1>1, ElemsIn
<1> PICK an : an = gltf.animations[a + 1]
  OBVIOUS
<1>3. k \in DOMAIN an.channels
  BY DEF ChannelsOf, Item
<1>4. /\ Refers(an.samplers[an.channels[k].sampler + 1].input, gltf.accessors)
      /\ Refers(an.samplers[an.channels[k].sampler + 1].output, gltf.accessors)
  BY <1>2, <1>3 DEF Valid
<1> QED BY <1>4 DEF InputOf, OutputOf, SamplerFor, ChannelsOf, Item

(* What a channel reads: its input and its output, unless they were.       *)
InputAdded(v, w, in, map) ==
  IF Known(v.accMap, in)
  THEN map = v.accMap /\ w.inputs = v.inputs
  ELSE /\ map = Append(v.accMap, <<in, Len(v.inputs)>>)
       /\ w.inputs = Append(v.inputs, SelectedBy(in, 4))
OutputAdded(v, w, out, type, map) ==
  IF Known(map, out)
  THEN w.accMap = map /\ w.outputs = v.outputs
  ELSE /\ w.accMap = Append(map, <<out, Len(v.outputs[type])>>)
       /\ w.outputs = [v.outputs EXCEPT ![type] =
                         Append(v.outputs[type], SelectedBy(out, SizeOf(out)))]
ActionAdded(v, w, a, k) ==
  \E action :
    /\ w.actions = Append(v.actions, action)
    /\ action.method \in {"Step", "Linear", "Cubic"}
    /\ action.target = ChannelsOf(a)[k].target.node
    /\ action.type = Paths[PathOf(a, k)]
    /\ action.input = IndexOf(w.accMap, InputOf(a, k))
    /\ action.output = IndexOf(w.accMap, OutputOf(a, k))
ChannelRead(v, w, a, k) ==
  /\ w = [accMap |-> w.accMap, actions |-> w.actions, inputs |-> w.inputs,
          outputs |-> w.outputs]
  /\ PathOf(a, k) \in DOMAIN Paths
  /\ \E map : /\ InputAdded(v, w, InputOf(a, k), map)
              /\ OutputAdded(v, w, OutputOf(a, k), Paths[PathOf(a, k)], map)
  /\ ActionAdded(v, w, a, k)

(* The size of what an output must be is that of its type.                 *)
LEMMA OutputSize ==
  ASSUME NEW t \in {"T", "R", "S"}, NEW o,
         Item(gltf.accessors, o).componentType = FloatType,
         Item(gltf.accessors, o).type = TypeFor[t]
  PROVE  SizeOf(o) = BytesFor[t] /\ BytesFor[t] \in Int
<1> PICK acc : acc = Item(gltf.accessors, o)
  OBVIOUS
<1>1. SizeOfComponentType(acc) = 4
  BY DEF SizeOfComponentType, FloatType
<1>2. CASE t = "R"
  <2>1. acc.type = "VEC4" /\ BytesFor[t] = 16
    BY <1>2 DEF TypeFor, BytesFor
  <2>2. SizeOfType(acc) = 4
    BY <2>1 DEF SizeOfType
  <2> QED BY <1>1, <2>1, <2>2 DEF SizeOf
<1>3. CASE t # "R"
  <2>1. acc.type = "VEC3" /\ BytesFor[t] = 12
    BY <1>3 DEF TypeFor, BytesFor
  <2>2. SizeOfType(acc) = 3
    BY <2>1 DEF SizeOfType
  <2> QED BY <1>1, <2>1, <2>2 DEF SizeOf
<1> QED BY <1>2, <1>3

(* The ways of going from one keyframe to the next.                        *)
LEMMA MethodsAre ==
  \A x \in DOMAIN Methods : Methods[x] \in {"Step", "Linear", "Cubic"}
BY DEF Methods

(* What the loop of loadAnimation does for a channel.                      *)
LEMMA NewActionDoes ==
  ASSUME gltf \in FileType, Valid(gltf), NewAction, load' = "loading",
         NEW a \in Elems(gltf.animations), a = I, NEW k, k = Head(todo).n,
         k \in DOMAIN ChannelsOf(a), NEW v, v = animData, NEW w, w = animData'
  PROVE  ChannelRead(v, w, a, k) /\ Makes(<<>>) /\ coll' = coll
<1> DEFINE ch == Item(gltf.animations, I).channels[Head(todo).n]
           sampler == Item(Item(gltf.animations, I).samplers, ch.sampler)
           in == Item(gltf.accessors, sampler.input)
           out == Item(gltf.accessors, sampler.output)
           type == Paths[ch.target.path]
           newIn == ~Known(animData.accMap, sampler.input)
           mapIn == IF ~newIn THEN animData.accMap
                    ELSE Append(animData.accMap,
                                <<sampler.input, Len(animData.inputs)>>)
           newOut == ~Known(mapIn, sampler.output)
           mapOut == IF ~newOut THEN mapIn
                     ELSE Append(mapIn,
                                 <<sampler.output, Len(animData.outputs[type])>>)
           action ==
             [target |-> ch.target.node, type |-> type,
              method |-> Methods[sampler.interpolation],
              input |-> IndexOf(mapOut, sampler.input),
              output |-> IndexOf(mapOut, sampler.output)]
           next ==
             [accMap |-> mapOut,
              actions |-> Append(animData.actions, action),
              inputs |-> IF ~newIn THEN animData.inputs
                         ELSE Append(animData.inputs, Content(in, 4)),
              outputs |-> IF newOut
                          THEN [animData.outputs EXCEPT ![type] =
                                  Append(animData.outputs[type], Content(out, BytesFor[type]))]
                          ELSE animData.outputs]
<1>1. \/ ThrowLoad
      \/ /\ ch.target.path \in DOMAIN Paths
         /\ sampler.interpolation \in DOMAIN Methods
         /\ newOut => out.componentType = FloatType /\ out.type = TypeFor[type]
         /\ animData' = next
         /\ Then(<<>>) /\ coll' = coll
  BY Zenon DEF NewAction
<1>2. ~ThrowLoad
  BY DEF ThrowLoad
<1>3. /\ ch.target.path = PathOf(a, k) /\ sampler.input = InputOf(a, k)
      /\ sampler.output = OutputOf(a, k) /\ ch = ChannelsOf(a)[k]
  BY DEF PathOf, InputOf, OutputOf, SamplerFor, ChannelsOf
<1> PICK i : i = InputOf(a, k)
  OBVIOUS
<1> PICK o : o = OutputOf(a, k)
  OBVIOUS
<1> PICK t : t = Paths[PathOf(a, k)]
  OBVIOUS
<1> PICK map : map = mapIn
  OBVIOUS
<1>4. /\ Content(Item(gltf.accessors, i), 4) = SelectedBy(i, 4)
      /\ \A size \in Int : Content(Item(gltf.accessors, o), size) = SelectedBy(o, size)
  BY ChannelRefers, AccessorContent
<1>5. PathOf(a, k) \in DOMAIN Paths /\ t \in {"T", "R", "S"}
  <2>1. PathOf(a, k) \in DOMAIN Paths
    BY <1>1, <1>2, <1>3
  <2> QED BY <2>1 DEF Paths
<1>6. map = IF Known(v.accMap, i) THEN v.accMap
            ELSE Append(v.accMap, <<i, Len(v.inputs)>>)
  BY <1>3
<1>7. ~Known(map, o) =>
        Content(Item(gltf.accessors, o), BytesFor[t]) = SelectedBy(o, SizeOf(o))
  <2> SUFFICES ASSUME ~Known(map, o)
               PROVE  Content(Item(gltf.accessors, o), BytesFor[t]) =
                        SelectedBy(o, SizeOf(o))
    OBVIOUS
  <2>1. /\ Item(gltf.accessors, o).componentType = FloatType
        /\ Item(gltf.accessors, o).type = TypeFor[t]
    BY <1>1, <1>2, <1>3
  <2> QED BY <1>4, <1>5, <2>1, OutputSize
<1>8. Makes(<<>>) /\ coll' = coll
  BY <1>1, <1>2 DEF Then, Makes
<1> PICK act : act = action
  OBVIOUS
<1> PICK map2 : map2 = mapOut
  OBVIOUS
<1>9. map2 = IF Known(map, o) THEN map ELSE Append(map, <<o, Len(v.outputs[t])>>)
  BY <1>3
<1>10. /\ act.target = ChannelsOf(a)[k].target.node /\ act.type = t
       /\ act.input = IndexOf(map2, i) /\ act.output = IndexOf(map2, o)
  BY <1>3
<1>a. act.method \in {"Step", "Linear", "Cubic"}
  <2> PICK name : name = sampler.interpolation
    OBVIOUS
  <2>1. name \in DOMAIN Methods /\ act.method = Methods[name]
    BY <1>1, <1>2
  <2> QED BY <2>1, MethodsAre, Zenon
<1>11. w = [accMap |-> map2, actions |-> Append(v.actions, act),
            inputs |-> IF Known(v.accMap, i) THEN v.inputs
                       ELSE Append(v.inputs, SelectedBy(i, 4)),
            outputs |-> IF Known(map, o) THEN v.outputs
                        ELSE [v.outputs EXCEPT ![t] =
                                Append(v.outputs[t], SelectedBy(o, SizeOf(o)))]]
  <2>1. w = next
    BY <1>1, <1>2
  <2>2. next = [accMap |-> map2, actions |-> Append(v.actions, act),
                inputs |-> IF ~newIn THEN v.inputs
                           ELSE Append(v.inputs, Content(in, 4)),
                outputs |-> IF newOut
                            THEN [v.outputs EXCEPT ![t] =
                                    Append(v.outputs[t], Content(out, BytesFor[t]))]
                            ELSE v.outputs]
    BY <1>3
  <2>3. (IF ~newIn THEN v.inputs ELSE Append(v.inputs, Content(in, 4)))
        = IF Known(v.accMap, i) THEN v.inputs
          ELSE Append(v.inputs, SelectedBy(i, 4))
    BY <1>3, <1>4
  <2>4. (newOut <=> ~Known(map, o)) /\ out = Item(gltf.accessors, o)
    BY <1>3
  <2>5. (IF newOut
         THEN [v.outputs EXCEPT ![t] =
                 Append(v.outputs[t], Content(out, BytesFor[t]))]
         ELSE v.outputs)
        = IF Known(map, o) THEN v.outputs
          ELSE [v.outputs EXCEPT ![t] =
                  Append(v.outputs[t], SelectedBy(o, SizeOf(o)))]
    <3> HIDE DEF newOut, out
    <3>1. CASE Known(map, o)
      BY <2>4, <3>1
    <3>2. CASE ~Known(map, o)
      <4>1. Content(out, BytesFor[t]) = SelectedBy(o, SizeOf(o))
        BY <1>7, <2>4, <3>2
      <4> QED BY <2>4, <3>2, <4>1
    <3> QED BY <3>1, <3>2
  <2> HIDE DEF newIn, newOut, in, out, next
  <2> QED BY <2>1, <2>2, <2>3, <2>5, Zenon
<1> HIDE DEF ch, sampler, in, out, type, newIn, mapIn, newOut, mapOut, action, next
<1>12. InputAdded(v, w, i, map)
  BY <1>6, <1>11 DEF InputAdded
<1>13. OutputAdded(v, w, o, t, map)
  BY <1>9, <1>11 DEF OutputAdded
<1>14. ActionAdded(v, w, a, k)
  BY <1>10, <1>a, <1>11 DEF ActionAdded
<1> QED BY <1>5, <1>8, <1>11, <1>12, <1>13, <1>14 DEF ChannelRead

InputStage(a, map, inputs, v, i) ==
  /\ IsList(map) /\ Known(map, i)
  /\ InputsRight(a, map, inputs) /\ OutputsRight(a, map, v.outputs)
  /\ IsList(inputs) /\ Grows(v.inputs, inputs)

(* The input of a channel is known once it was read.                       *)
LEMMA InputIsRead ==
  ASSUME OneUse, NEW a \in Elems(gltf.animations), NEW k \in DOMAIN ChannelsOf(a),
         NEW v, ReadRight(a, v), NEW w, NEW map,
         InputAdded(v, w, InputOf(a, k), map)
  PROVE  InputStage(a, map, w.inputs, v, InputOf(a, k))
<1> PICK i : i = InputOf(a, k)
  OBVIOUS
<1>1. /\ IsList(v.accMap) /\ IsList(v.inputs)
      /\ InputsRight(a, v.accMap, v.inputs) /\ OutputsRight(a, v.accMap, v.outputs)
  BY DEF ReadRight, IsAnimData
<1>2. CASE Known(v.accMap, i)
  <2>1. map = v.accMap /\ w.inputs = v.inputs
    BY <1>2 DEF InputAdded
  <2> QED BY <1>1, <1>2, <2>1 DEF InputStage, Grows
<1>3. CASE ~Known(v.accMap, i)
  <2>1. /\ map = Append(v.accMap, <<i, Len(v.inputs)>>)
        /\ w.inputs = Append(v.inputs, SelectedBy(i, 4))
    BY <1>3 DEF InputAdded
  <2>2. Appended(map, v.accMap, <<i, Len(v.inputs)>>)
    BY <1>1, <2>1, AppendIs
  <2>3. Appended(w.inputs, v.inputs, SelectedBy(i, 4))
    BY <1>1, <2>1, AppendIs
  <2>4. MapGrown(map, v.accMap, i, Len(v.inputs))
    BY <1>1, <1>3, <2>2, MapGrows
  <2>5. InputsRight(a, map, w.inputs) /\ OutputsRight(a, map, v.outputs)
    BY <1>1, <2>3, <2>4, InputReads
  <2>6. Grows(v.inputs, w.inputs)
    BY <2>3, AppendGrows
  <2>7. IsList(map) /\ Known(map, i)
    BY <2>4 DEF MapGrown
  <2>8. IsList(w.inputs)
    BY <2>3 DEF Appended
  <2> QED BY <2>5, <2>6, <2>7, <2>8 DEF InputStage
<1> QED BY <1>2, <1>3

OutputStage(a, v, w, i, o) ==
  /\ IsList(w.accMap) /\ Known(w.accMap, i) /\ Known(w.accMap, o)
  /\ InputsRight(a, w.accMap, w.inputs) /\ OutputsRight(a, w.accMap, w.outputs)
  /\ w.outputs = [t \in {"T", "R", "S"} |-> w.outputs[t]]
  /\ \A t \in {"T", "R", "S"} :
       IsList(w.outputs[t]) /\ Grows(v.outputs[t], w.outputs[t])

(* And so is its output.                                                   *)
LEMMA OutputIsRead ==
  ASSUME OneUse, NEW a \in Elems(gltf.animations), NEW k \in DOMAIN ChannelsOf(a),
         NEW v, ReadRight(a, v), NEW w, NEW map, PathOf(a, k) \in DOMAIN Paths,
         InputStage(a, map, w.inputs, v, InputOf(a, k)),
         OutputAdded(v, w, OutputOf(a, k), Paths[PathOf(a, k)], map)
  PROVE  OutputStage(a, v, w, InputOf(a, k), OutputOf(a, k))
<1> PICK i : i = InputOf(a, k)
  OBVIOUS
<1> PICK o : o = OutputOf(a, k)
  OBVIOUS
<1> PICK t : t = Paths[PathOf(a, k)]
  OBVIOUS
<1>1. /\ v.outputs = [u \in {"T", "R", "S"} |-> v.outputs[u]]
      /\ \A u \in {"T", "R", "S"} : IsList(v.outputs[u])
  BY DEF ReadRight, IsAnimData
<1>2. t \in {"T", "R", "S"}
  BY DEF Paths
<1>3. /\ IsList(map) /\ Known(map, i)
      /\ InputsRight(a, map, w.inputs) /\ OutputsRight(a, map, v.outputs)
  BY DEF InputStage
<1>4. CASE Known(map, o)
  <2>1. w.accMap = map /\ w.outputs = v.outputs
    BY <1>4 DEF OutputAdded
  <2> QED BY <1>1, <1>3, <1>4, <2>1 DEF OutputStage, Grows
<1>5. CASE ~Known(map, o)
  <2> PICK x : x = SelectedBy(o, SizeOf(o))
    OBVIOUS
  <2> PICK n : n = Len(v.outputs[t])
    OBVIOUS
  <2>1. /\ w.accMap = Append(map, <<o, n>>)
        /\ w.outputs = [v.outputs EXCEPT ![t] = Append(v.outputs[t], x)]
    BY <1>5 DEF OutputAdded
  <2>2. /\ w.outputs[t] = Append(v.outputs[t], x)
        /\ \A u : u \in {"T", "R", "S"} /\ u # t => w.outputs[u] = v.outputs[u]
        /\ w.outputs = [u \in {"T", "R", "S"} |-> w.outputs[u]]
    <3>1. DOMAIN v.outputs = {"T", "R", "S"}
      BY <1>1
    <3> QED BY <1>2, <2>1, <3>1
  <2>3. Appended(w.accMap, map, <<o, n>>)
    BY <1>3, <2>1, AppendIs
  <2>4. Appended(w.outputs[t], v.outputs[t], x)
    BY <1>1, <1>2, <2>2, AppendIs
  <2>5. MapGrown(w.accMap, map, o, n)
    BY <1>3, <1>5, <2>3, MapGrows
  <2>6. InputsRight(a, w.accMap, w.inputs) /\ OutputsRight(a, w.accMap, w.outputs)
    BY <1>3, <2>2, <2>4, <2>5, OutputReads
  <2>7. Grows(v.outputs[t], w.outputs[t]) /\ IsList(w.outputs[t])
    BY <2>4, AppendGrows DEF Appended
  <2>8. \A u \in {"T", "R", "S"} :
          IsList(w.outputs[u]) /\ Grows(v.outputs[u], w.outputs[u])
    BY <1>1, <2>2, <2>7 DEF Grows
  <2>9. IsList(w.accMap) /\ Known(w.accMap, o) /\ Known(w.accMap, i)
    BY <1>3, <2>5 DEF MapGrown
  <2> QED BY <2>2, <2>6, <2>8, <2>9 DEF OutputStage
<1> QED BY <1>4, <1>5

(* What was read of an animation is right when its next channel was read.  *)
LEMMA ChannelReads ==
  ASSUME OneUse, NEW a \in Elems(gltf.animations), NEW k \in DOMAIN ChannelsOf(a),
         ChannelsOf(a) \in Seq(ChannelType),
         NEW v, ReadRight(a, v), NEW w, ChannelRead(v, w, a, k),
         k = Len(v.actions) + 1
  PROVE  ReadRight(a, w) /\ Len(w.actions) = k
<1> PICK i : i = InputOf(a, k)
  OBVIOUS
<1> PICK o : o = OutputOf(a, k)
  OBVIOUS
<1> PICK map : /\ InputAdded(v, w, i, map)
               /\ OutputAdded(v, w, o, Paths[PathOf(a, k)], map)
  BY DEF ChannelRead
<1>1. /\ PathOf(a, k) \in DOMAIN Paths
      /\ w = [accMap |-> w.accMap, actions |-> w.actions, inputs |-> w.inputs,
              outputs |-> w.outputs]
  BY DEF ChannelRead
<1>2. InputStage(a, map, w.inputs, v, i)
  BY InputIsRead
<1>3. OutputStage(a, v, w, i, o)
  BY <1>1, <1>2, OutputIsRead
<1>4. PICK action :
        /\ w.actions = Append(v.actions, action)
        /\ action.method \in {"Step", "Linear", "Cubic"}
        /\ action.target = ChannelsOf(a)[k].target.node
        /\ action.type = Paths[PathOf(a, k)]
        /\ action.input = IndexOf(w.accMap, i)
        /\ action.output = IndexOf(w.accMap, o)
  BY DEF ChannelRead, ActionAdded
<1>5. Appended(w.actions, v.actions, action)
  <2>1. IsList(v.actions)
    BY DEF ReadRight, IsAnimData
  <2> QED BY <1>4, <2>1, AppendIs
<1>6. /\ IsList(w.actions) /\ Len(v.actions) \in Nat
      /\ Len(w.actions) = Len(v.actions) + 1
      /\ \A j \in 1..Len(v.actions) : w.actions[j] = v.actions[j]
      /\ w.actions[k] = action
  BY <1>5 DEF Appended
<1>7. IsAction(action, a, k, w.inputs, w.outputs)
  <2>1. Holds(w.inputs, action.input, SelectedBy(i, 4))
    <3>1. InputRight(w.accMap, w.inputs, i)
      BY <1>3 DEF OutputStage, InputsRight
    <3> QED BY <1>3, <1>4, <3>1 DEF InputRight, OutputStage
  <2>2. Holds(w.outputs[action.type], action.output, SelectedBy(o, SizeOf(o)))
    <3>1. OutputRight(w.accMap, w.outputs, PathOf(a, k), o)
      BY <1>3 DEF OutputStage, OutputsRight
    <3> QED BY <1>1, <1>3, <1>4, <3>1 DEF OutputRight, OutputStage
  <2> QED BY <1>1, <1>4, <2>1, <2>2 DEF IsAction
<1>8. ASSUME NEW j \in DOMAIN ChannelsOf(a), j <= Len(w.actions)
      PROVE  IsAction(w.actions[j], a, j, w.inputs, w.outputs)
  <2>1. j \in Nat /\ j >= 1
    OBVIOUS
  <2>2. CASE j = k
    BY <1>6, <1>7, <2>2
  <2>3. CASE j # k
    <3>1. j <= Len(v.actions) /\ j \in 1..Len(v.actions)
      BY <1>6, <1>8, <2>1, <2>3
    <3> PICK old : old = v.actions[j]
      OBVIOUS
    <3>2. IsAction(old, a, j, v.inputs, v.outputs)
      BY <3>1 DEF ReadRight
    <3>3. old.type \in {"T", "R", "S"}
      BY <3>2 DEF IsAction, Paths
    <3>4. Holds(w.inputs, old.input, SelectedBy(InputOf(a, j), 4))
      BY <1>2, <3>2, HoldsOn DEF IsAction, InputStage
    <3>5. Holds(w.outputs[old.type], old.output,
                SelectedBy(OutputOf(a, j), SizeOf(OutputOf(a, j))))
      <4>1. Grows(v.outputs[old.type], w.outputs[old.type])
        BY <1>3, <3>3 DEF OutputStage
      <4>2. Holds(v.outputs[old.type], old.output,
                  SelectedBy(OutputOf(a, j), SizeOf(OutputOf(a, j))))
        BY <3>2 DEF IsAction
      <4> QED BY <4>1, <4>2, HoldsOn
    <3>6. IsAction(old, a, j, w.inputs, w.outputs)
      BY <3>2, <3>4, <3>5 DEF IsAction
    <3> QED BY <1>6, <3>1, <3>6
  <2> QED BY <2>2, <2>3
<1>9. IsAnimData(w)
  <2>1. MethodsIn(w.actions)
    <3>1. MethodsIn(v.actions)
      BY DEF ReadRight, IsAnimData
    <3> QED BY <1>4, <1>6, <3>1 DEF MethodsIn
  <2> QED BY <1>1, <1>2, <1>3, <1>6, <2>1 DEF IsAnimData, InputStage, OutputStage
<1> QED BY <1>3, <1>6, <1>8, <1>9 DEF ReadRight, OutputStage

(* A call that makes no others leaves the ones that were behind it.        *)
LEMMA TailOnly ==
  ASSUME NEW calls, Working(calls), calls = <<>>, NEW c \in ToSet(todo')
  PROVE  \E q \in 2..Len(todo) : c = todo[q]
<1> PICK next : next = todo'
  OBVIOUS
<1>1. /\ next \in Seq(CallsOf(gltf))
      /\ \A p \in (Len(calls) + 1)..Len(next) :
           /\ next[p] = todo[p - Len(calls) + 1]
           /\ p - Len(calls) + 1 \in 2..Len(todo)
  BY Positions DEF Working, Makes
<1>2. Len(calls) = 0 /\ DOMAIN next = 1..Len(next) /\ Len(next) \in Nat
  BY <1>1
<1>3. PICK p \in 1..Len(next) : c = next[p]
  BY <1>2 DEF ToSet
<1>4. p \in (Len(calls) + 1)..Len(next)
  BY <1>2
<1> PICK q \in 2..Len(todo) : q = p - Len(calls) + 1
  BY <1>1, <1>4
<1>5. c = todo[q]
  BY <1>1, <1>3, <1>4
<1> QED BY <1>5

(* What is behind a call of an animation.                                  *)
LEMMA BehindAction ==
  ASSUME todo \in Seq(CallsOf(gltf)), todo # <<>>, ActionsInTurn,
         Head(todo).do \in ActionKinds, NEW q \in 2..Len(todo),
         todo[q].do \in ActionKinds
  PROVE  /\ Head(todo).do = "newAction" /\ todo[q].i = Head(todo).i
         /\ todo[q].do = "newAction" => Head(todo).n < todo[q].n
<1>1. /\ 1 \in DOMAIN todo /\ q \in DOMAIN todo /\ 1 < q /\ Head(todo) = todo[1]
  OBVIOUS
<1>2. Follows(todo[1], todo[q])
  BY <1>1 DEF ActionsInTurn
<1> QED BY <1>1, <1>2 DEF Follows

(* Animations that were made stay right, those that are not stay pending.  *)
LEMMA ActionsMadeKept ==
  ASSUME NEW calls, Working(calls), ActionsMade,
         NEW a, Head(todo).do # "loadAnimation", Head(todo).i = a,
         \A b \in Elems(gltf.animations) :
           \/ Item(coll'.animations, b) = Item(coll.animations, b)
           \/ /\ Item(coll'.animations, b) # Absent
              /\ Whole(b, Item(coll'.animations, b)),
         Head(todo).do = "makeAnimation" => Item(coll'.animations, a) # Absent
  PROVE  ActionsMade'
<1>1. gltf' = gltf
  BY DEF Working
<1> SUFFICES ASSUME NEW b \in Elems(gltf.animations)
             PROVE  IF Item(coll'.animations, b) = Absent
                    THEN Pending({"loadAnimation", "makeAnimation"}, b)'
                    ELSE Whole(b, Item(coll.animations, b))'
  BY <1>1 DEF ActionsMade
<1> PICK v : v = Item(coll.animations, b)
  OBVIOUS
<1> PICK w : w = Item(coll'.animations, b)
  OBVIOUS
<1>2. CASE w = Absent
  <2>1. v = Absent
    BY <1>2
  <2>2. Pending({"loadAnimation", "makeAnimation"}, b)
    BY <2>1 DEF ActionsMade
  <2>3. Pending({"loadAnimation", "makeAnimation"}, b)'
    BY <1>2, <2>2, PendingKept
  <2> QED BY <1>2, <2>3
<1>3. CASE w # Absent
  <2>1. Whole(b, w)
    BY <1>3 DEF ActionsMade
  <2>2. Whole(b, w)'
    BY <1>1, <2>1, SameActions
  <2>3. Item(coll.animations, b)' = w
    BY DEF Item
  <2> QED BY <1>3, <2>2, <2>3 DEF Whole
<1> QED BY <1>2, <1>3

(* A channel: it is the next one, and when it was read it is right.        *)
LEMMA NewActionKept ==
  ASSUME LoaderInv, OneUse, NewAction, load' = "loading", ActionParts
  PROVE  ActionParts'
<1>1. /\ load = "loading" /\ gltf \in FileType /\ Valid(gltf)
      /\ todo \in Seq(CallsOf(gltf)) /\ todo # <<>>
      /\ Head(todo).do = "newAction" /\ Head(todo) \in CallsOf(gltf)
  BY HeadTyped DEF NewAction
<1> PICK a : a = I
  OBVIOUS
<1> PICK k : k = Head(todo).n
  OBVIOUS
<1> PICK v : v = animData
  OBVIOUS
<1> PICK w : w = animData'
  OBVIOUS
<1>2. a \in Elems(gltf.animations) /\ k \in DOMAIN ChannelsOf(a)
  BY <1>1, CallKinds DEF I, ActionCalls, ChannelsOf, Item
<1>3. ChannelRead(v, w, a, k) /\ Makes(<<>>) /\ coll' = coll
  BY <1>1, <1>2, NewActionDoes
<1> PICK calls : calls = <<>>
  OBVIOUS
<1>4. Working(calls) /\ Len(calls) = 0
  <2>1. calls \in Seq(CallsOf(gltf)) /\ Len(calls) = 0
    OBVIOUS
  <2> QED BY <1>3, <2>1, CallingWorks DEF Calling, DataCall
<1>5. gltf' = gltf
  BY <1>4 DEF Working
<1>6. Head(todo).i = a /\ Head(todo) \in ToSet(todo)
  BY <1>1 DEF I, ToSet
<1>7. ReadRight(a, v) /\ ActionsLeft(a, Len(v.actions))
  <2>1. Pending(ActionKinds, a)
    BY <1>1, <1>6 DEF Pending, ActionKinds
  <2> QED BY <1>2, <2>1 DEF ActionParts, ActionsUnderway
<1>8. ChannelsOf(a) \in Seq(ChannelType)
  BY <1>1, <1>2, AnimationRefers DEF ChannelsOf
<1>9. \A q \in 2..Len(todo) : todo[q].do \in ActionKinds =>
        todo[q].i = a /\ (todo[q].do = "newAction" => k < todo[q].n)
  BY <1>1, <1>6, BehindAction DEF ActionParts, ActionKinds
<1>10. k = Len(v.actions) + 1
  <2> PICK n : n = Len(v.actions)
    OBVIOUS
  <2>1. n \in Nat /\ k \in Nat /\ DOMAIN ChannelsOf(a) = 1..Len(ChannelsOf(a))
    <3>1. IsList(v.actions)
      BY <1>7 DEF ReadRight, IsAnimData
    <3> QED BY <1>2, <1>8, <3>1 DEF IsList
  <2>2. k > n
    <3>1. PendingAction(a, k)
      BY <1>1, <1>6 DEF PendingAction
    <3> QED BY <1>7, <3>1 DEF ActionsLeft
  <2>3. SUFFICES ASSUME n + 1 < k
                 PROVE  FALSE
    BY <2>1, <2>2
  <2> PICK m : m = n + 1
    OBVIOUS
  <2>4. m \in DOMAIN ChannelsOf(a) /\ ~(m <= n) /\ m < k /\ m \in Nat
    BY <1>2, <2>1, <2>3
  <2>5. PendingAction(a, m)
    BY <1>7, <2>4 DEF ActionsLeft
  <2>6. PICK c \in ToSet(todo) : c.do = "newAction" /\ c.i = a /\ c.n = m
    BY <2>5 DEF PendingAction
  <2>7. PICK q \in 1..Len(todo) : c = todo[q]
    BY <1>1 DEF ToSet
  <2>8. q # 1
    BY <1>1, <2>4, <2>6, <2>7
  <2>9. q \in 2..Len(todo)
    BY <1>1, <2>8
  <2> QED BY <1>9, <2>1, <2>4, <2>6, <2>7, <2>9 DEF ActionKinds
<1>11. ReadRight(a, w) /\ Len(w.actions) = k
  BY <1>2, <1>3, <1>7, <1>8, <1>10, ChannelReads
<1>12. ActionsInTurn'
  BY <1>4, ActionsInTurnKept DEF ActionParts
<1>13. ActionsMade'
  BY <1>1, <1>3, <1>4, <1>6, ActionsMadeKept DEF ActionParts
<1>14. ActionsUnderway'
  <2> SUFFICES ASSUME NEW b \in Elems(gltf.animations), Pending(ActionKinds, b)'
               PROVE  ReadRight(b, animData)' /\ ActionsLeft(b, Len(animData.actions))'
    BY <1>5 DEF ActionsUnderway
  <2>1. PICK c \in ToSet(todo') : c.do \in ActionKinds /\ c.i = b
    BY DEF Pending
  <2>2. b = a
    BY <1>4, <1>9, <2>1, TailOnly
  <2>3. ReadRight(a, w)'
    BY <1>5, <1>11, SameActions
  <2>4. ReadRight(b, animData)' /\ Len(animData'.actions) = k
    BY <1>11, <2>2, <2>3 DEF ReadRight
  <2>5. ChannelsOf(a)' = ChannelsOf(a)
    BY <1>5, SameActions
  <2>6. ASSUME NEW j \in DOMAIN ChannelsOf(a)
        PROVE  j <= k \/ PendingAction(a, j)'
    <3>1. j \in Nat /\ k \in Nat
      BY <1>2, <1>8
    <3>2. j <= Len(v.actions) \/ PendingAction(a, j)
      BY <1>7 DEF ActionsLeft
    <3>3. CASE j <= Len(v.actions)
      <4>1. Len(v.actions) \in Nat
        BY <1>7 DEF ReadRight, IsAnimData, IsList
      <4> QED BY <1>10, <3>1, <3>3, <4>1
    <3>4. CASE PendingAction(a, j)
      BY <1>4, <3>1, <3>4, PendingActionKept
    <3> QED BY <3>2, <3>3, <3>4
  <2>7. ASSUME NEW j, PendingAction(a, j)'
        PROVE  j > k
    <3>1. PICK d \in ToSet(todo') : d.do = "newAction" /\ d.i = a /\ d.n = j
      BY <2>7 DEF PendingAction
    <3>2. PICK q \in 2..Len(todo) : d = todo[q]
      BY <1>4, TailOnly
    <3>3. k < todo[q].n
      BY <1>9, <3>1, <3>2 DEF ActionKinds
    <3> QED BY <3>1, <3>2, <3>3
  <2> QED BY <2>2, <2>4, <2>5, <2>6, <2>7 DEF ActionsLeft
<1> QED BY <1>12, <1>13, <1>14 DEF ActionParts

(* When all channels were read, the animation is what the file says.       *)
LEMMA WholeIs ==
  ASSUME NEW a, NEW v, ReadRight(a, v),
         \A k \in DOMAIN ChannelsOf(a) : k <= Len(v.actions),
         NEW u, u.actions = v.actions, u.inputs = v.inputs, u.outputs = v.outputs
  PROVE  Whole(a, u)
<1> SUFFICES ASSUME NEW k \in DOMAIN ChannelsOf(a)
             PROVE  ActionRight(Item(gltf.animations, a), u, k)
  BY DEF Whole, ReadRight, IsAnimData
<1> PICK x : x = v.actions[k]
  OBVIOUS
<1>1. IsAction(x, a, k, v.inputs, v.outputs)
  BY DEF ReadRight
<1>2. /\ x.target = ChannelsOf(a)[k].target.node /\ x.type = Paths[PathOf(a, k)]
      /\ Holds(u.inputs, x.input, SelectedBy(InputOf(a, k), 4))
      /\ Holds(u.outputs[x.type], x.output,
               SelectedBy(OutputOf(a, k), SizeOf(OutputOf(a, k))))
  BY <1>1 DEF IsAction
<1> QED BY <1>2 DEF ActionRight, Holds, SelectedBy, SizeOf, InputOf, OutputOf,
               SamplerFor, PathOf, ChannelsOf

(* makeAnimation: nothing of the animation is left to read.                *)
LEMMA MakeAnimationKept ==
  ASSUME LoaderInv, MakeAnimation, load' = "loading", ActionParts
  PROVE  ActionParts'
<1>1. /\ load = "loading" /\ gltf \in FileType /\ Valid(gltf)
      /\ todo \in Seq(CallsOf(gltf)) /\ todo # <<>>
      /\ Head(todo).do = "makeAnimation" /\ Head(todo) \in CallsOf(gltf)
  BY HeadTyped DEF MakeAnimation
<1> PICK a : a = I
  OBVIOUS
<1> PICK v : v = animData
  OBVIOUS
<1> PICK u : u = [type |-> "animation", actions |-> v.actions,
                  inputs |-> v.inputs, outputs |-> v.outputs]
  OBVIOUS
<1>2. a \in Elems(gltf.animations) /\ Head(todo).i = a /\ Head(todo) \in ToSet(todo)
  BY <1>1, CallKinds DEF I, AnimationCalls, ToSet
<1>3. coll' = [coll EXCEPT !.animations[a + 1] = u] /\ Makes(<<>>)
  BY <1>1 DEF MakeAnimation, ThrowLoad, Then, Makes
<1> PICK calls : calls = <<>>
  OBVIOUS
<1>4. Working(calls) /\ Len(calls) = 0
  <2>1. calls \in Seq(CallsOf(gltf)) /\ Len(calls) = 0
    OBVIOUS
  <2> QED BY <1>3, <2>1, CallingWorks DEF Calling, DataCall
<1>5. gltf' = gltf
  BY <1>4 DEF Working
<1>6. \A q \in 2..Len(todo) : todo[q].do \notin ActionKinds
  BY <1>1, BehindAction DEF ActionParts, ActionKinds
<1>7. \A b : ~Pending(ActionKinds, b)'
  <2> SUFFICES ASSUME NEW b, Pending(ActionKinds, b)'
               PROVE  FALSE
    OBVIOUS
  <2>1. PICK c \in ToSet(todo') : c.do \in ActionKinds
    BY DEF Pending
  <2> QED BY <1>4, <1>6, <2>1, TailOnly
<1>8. Whole(a, u)
  <2>1. ReadRight(a, v) /\ ActionsLeft(a, Len(v.actions))
    <3>1. Pending(ActionKinds, a)
      BY <1>1, <1>2 DEF Pending, ActionKinds
    <3> QED BY <1>2, <3>1 DEF ActionParts, ActionsUnderway
  <2>2. ASSUME NEW k, PendingAction(a, k)
        PROVE  FALSE
    <3>1. PICK c \in ToSet(todo) : c.do = "newAction"
      BY <2>2 DEF PendingAction
    <3>2. PICK q \in 1..Len(todo) : c = todo[q]
      BY <1>1 DEF ToSet
    <3>3. q # 1
      BY <1>1, <3>1, <3>2
    <3>4. q \in 2..Len(todo)
      BY <3>3
    <3> QED BY <1>6, <3>1, <3>2, <3>4 DEF ActionKinds
  <2>3. \A k \in DOMAIN ChannelsOf(a) : k <= Len(v.actions)
    BY <2>1, <2>2 DEF ActionsLeft
  <2>4. u.actions = v.actions /\ u.inputs = v.inputs /\ u.outputs = v.outputs
    OBVIOUS
  <2> QED BY <2>1, <2>3, <2>4, WholeIs
<1>9. \A b \in Elems(gltf.animations) :
        Item(coll'.animations, b) = IF b = a THEN u ELSE Item(coll.animations, b)
  <2>1. IsShape(coll, gltf)
    BY <1>4 DEF Working
  <2>2. coll'.animations = [coll.animations EXCEPT ![a + 1] = u]
    BY <1>3, <2>1 DEF IsShape
  <2> PICK of : of = gltf.animations
    OBVIOUS
  <2>3. of \in Seq(AnimationType)
    BY <1>1 DEF FileType
  <2>4. Put(coll'.animations, coll.animations, of, a, u)
    <3> PICK list : list = coll.animations
      OBVIOUS
    <3>1. Over(list, of) /\ a \in Elems(of)
      BY <1>2, <2>1 DEF IsShape
    <3>2. Put([list EXCEPT ![a + 1] = u], list, of, a, u)
      BY <2>3, <3>1, ItemPut
    <3> QED BY <2>2, <3>2
  <2> QED BY <2>4 DEF Put
<1>10. ActionsMade'
  <2>1. u # Absent
    BY DEF Absent
  <2>2. \A b \in Elems(gltf.animations) :
           \/ Item(coll'.animations, b) = Item(coll.animations, b)
           \/ /\ Item(coll'.animations, b) # Absent
              /\ Whole(b, Item(coll'.animations, b))
    BY <1>8, <1>9, <2>1
  <2>3. Item(coll'.animations, a) # Absent
    BY <1>2, <1>9, <2>1
  <2> QED BY <1>1, <1>2, <1>4, <2>2, <2>3, ActionsMadeKept DEF ActionParts
<1>11. ActionsInTurn'
  BY <1>4, ActionsInTurnKept DEF ActionParts
<1> QED BY <1>7, <1>10, <1>11 DEF ActionParts, ActionsUnderway

(* The calls that have nothing to do with animations.                      *)
LEMMA OthersActions ==
  ASSUME LoaderInv, load' = "loading", ActionParts,
         \/ GraphCall \/ LookCall
         \/ LoadMesh \/ NewPrimitive \/ GetData \/ CopyMaterial \/ MakeMesh
  PROVE  ActionParts'
<1>1. PICK calls \in Seq(MadeFrom(gltf, Head(todo).do)) : Working(calls)
  BY CallingWorks DEF Calling, DataCall
<1>2. coll'.animations = coll.animations
  <2>1. IsShape(coll, gltf)
    BY <1>1 DEF Working
  <2>2. CASE GraphCall \/ LookCall
    BY <2>1, <2>2, GraphLeaves, LookLeaves DEF SameData
  <2>3. CASE LoadMesh
    BY <2>3 DEF LoadMesh, Skip
  <2>4. CASE NewPrimitive \/ CopyMaterial
    BY <2>4 DEF NewPrimitive, CopyMaterial, ThrowLoad
  <2>5. CASE GetData
    BY <2>5 DEF GetData, ThrowLoad
  <2>6. CASE MakeMesh
    <3>1. coll' = coll \/ \E v : coll' = [coll EXCEPT !.meshes[I + 1] = v]
      BY <2>6 DEF MakeMesh, ThrowLoad
    <3>2. ASSUME NEW v, coll' = [coll EXCEPT !.meshes[I + 1] = v]
          PROVE  coll'.animations = coll.animations
      BY <2>1, <3>2 DEF IsShape
    <3> QED BY <3>1, <3>2
  <2> QED BY <2>2, <2>3, <2>4, <2>5, <2>6
<1>3. animData' = animData
  <2>1. CASE GraphCall
    BY <2>1, Zenon DEF GraphCall, LoadScene, LoadRest, LoadGraph, InsertNode,
       LoadNode, LoadSkin, SetJoint, Skip, ThrowLoad, Then, underway
  <2>2. CASE LookCall
    BY <2>2, Zenon DEF LookCall, LoadTexture, LoadImage, MakeTexture,
       LoadMaterial, GetTexture, SetTexture, SetMaterial, Skip, ThrowLoad, Then,
       underway
  <2>3. CASE LoadMesh \/ NewPrimitive \/ GetData \/ CopyMaterial \/ MakeMesh
    BY <2>3, Zenon DEF LoadMesh, NewPrimitive, GetData, CopyMaterial, MakeMesh,
       Skip, ThrowLoad, Then, underway
  <2> QED BY <2>1, <2>2, <2>3
<1>4. Head(todo).do \in {"loadScene", "loadRest", "loadGraph", "insert",
         "loadNode", "loadSkin", "setJoint", "loadTexture", "loadImage",
         "makeTexture", "loadMaterial", "getTexture", "setTexture",
         "setMaterial", "loadMesh", "newPrimitive", "getData", "copyMaterial",
         "makeMesh"}
  BY Zenon DEF GraphCall, LoadScene, LoadRest, LoadGraph, InsertNode, LoadNode,
         LoadSkin, SetJoint, LookCall, LoadTexture, LoadImage, MakeTexture,
         LoadMaterial, GetTexture, SetTexture, SetMaterial, LoadMesh,
         NewPrimitive, GetData, CopyMaterial, MakeMesh, Doing
<1>5. {"loadAnimation", "newAction", "makeAnimation"} \cap MadeBy(Head(todo).do) = {}
  BY <1>4 DEF MadeBy
<1>6. \A k \in 1..Len(calls) :
        calls[k].do \notin {"loadAnimation", "newAction", "makeAnimation"}
  <2>1. \A k \in 1..Len(calls) : calls[k] \in MadeFrom(gltf, Head(todo).do)
    BY <1>1, ElementOfSeq
  <2> QED BY <1>5, <2>1 DEF MadeFrom
<1> QED BY <1>1, <1>2, <1>3, <1>4, <1>6, ActionsQuiet

(* When the loading begins all animations are pending.                     *)
LEMMA ActionsBegin ==
  ASSUME LoaderInv, Begin
  PROVE  ActionParts'
<1>1. gltf' = gltf /\ todo' = Begun(gltf) /\ gltf \in FileType
  BY BeginTyped DEF LoaderInv, ParserInv
<1>2. ToSet(todo') = BegunSet(gltf) /\ todo' \in Seq(CallsOf(gltf))
  BY <1>1, BegunMade
<1>3. \A c \in BegunSet(gltf) : c.do \in {"loadScene", "loadRest", "loadTexture",
            "loadMaterial", "loadMesh", "loadSkin", "loadAnimation"}
  BY DEF BegunSet, Do
<1>4. \A a \in Elems(gltf.animations) : Item(coll'.animations, a) = Absent
  <2>1. coll'.animations = None(gltf.animations)
    BY DEF Begin
  <2>2. gltf.animations \in Seq(AnimationType)
    BY <1>1 DEF FileType
  <2> QED BY <2>1, <2>2 DEF None, Item, Elems
<1>5. \A a \in Elems(gltf.animations) :
        Pending({"loadAnimation", "makeAnimation"}, a)'
  <2>1. \A a \in Elems(gltf.animations) : Do("loadAnimation", a) \in ToSet(todo')
    BY <1>2 DEF BegunSet
  <2> QED BY <2>1 DEF Pending, Do
<1>6. \A a : ~Pending(ActionKinds, a)'
  BY <1>2, <1>3 DEF Pending, ActionKinds
<1>7. ActionsInTurn'
  <2> PICK c : c = Begun(gltf)
    OBVIOUS
  <2>1. \A p \in DOMAIN c : c[p].do \notin ActionKinds
    BY <1>1, <1>2, <1>3 DEF ToSet, ActionKinds
  <2>2. \A p, q \in DOMAIN c :
           p < q /\ c[p].do = "loadAnimation" => c[q].do = "loadAnimation"
    BY <1>1, BegunLast
  <2>3. \A p, q \in DOMAIN c : p < q => Follows(c[p], c[q])
    BY <2>1, <2>2 DEF Follows
  <2> QED BY <1>1, <2>3 DEF ActionsInTurn
<1>8. ActionsMade'
  BY <1>1, <1>4, <1>5 DEF ActionsMade, Item
<1> QED BY <1>6, <1>7, <1>8 DEF ActionParts, ActionsUnderway

ActionInv ==
  /\ LoaderInv
  /\ Underway /\ OneUse => ActionParts

(* Every step keeps the invariant of animations.                           *)
LEMMA ActionStep ==
  ASSUME ActionInv, Next \/ UNCHANGED allVars
  PROVE  ActionInv'
<1>1. LoaderInv /\ LoaderInv'
  BY LoaderTyped DEF ActionInv
<1>2. SUFFICES ASSUME Underway', OneUse'
      PROVE  ActionParts'
  BY <1>1 DEF ActionInv
<1>3. CASE Begin
  BY <1>1, <1>3, ActionsBegin
<1>4. CASE Calling
  <2>1. load' = "loading" /\ Underway /\ gltf' = gltf
    <3>1. Moves
      BY <1>1, <1>4, CallsMove
    <3>2. load' = "loading" /\ Underway
      BY <3>1, <1>2 DEF Moves, Underway
    <3>3. gltf' = gltf
      BY <1>1, <1>4, <3>2, CallingWorks DEF Working
    <3> QED BY <3>2, <3>3
  <2>2. OneUse
    BY <1>2, <2>1 DEF OneUse, InputOf, OutputOf, PathOf, SamplerFor, ChannelsOf
  <2>3. ActionParts
    BY <2>1, <2>2 DEF ActionInv
  <2>4. CASE LoadAnimation
    BY <1>1, <2>3, <2>4, LoadAnimationKept
  <2>5. CASE NewAction
    BY <1>1, <2>1, <2>2, <2>3, <2>5, NewActionKept
  <2>6. CASE MakeAnimation
    BY <1>1, <2>1, <2>3, <2>6, MakeAnimationKept
  <2>7. CASE GraphCall \/ LookCall \/ LoadMesh \/ NewPrimitive \/ GetData
             \/ CopyMaterial \/ MakeMesh
    BY <1>1, <2>1, <2>3, <2>7, OthersActions
  <2> QED BY <1>4, <2>4, <2>5, <2>6, <2>7 DEF Calling, DataCall
<1>5. CASE UNCHANGED <<gltf, todo, coll, animData>> /\ Underway
  <2>1. OneUse
    BY <1>2, <1>5 DEF OneUse, InputOf, OutputOf, PathOf, SamplerFor, ChannelsOf
  <2>2. ActionParts
    BY <1>5, <2>1 DEF ActionInv
  <2>3. ActionsInTurn'
    BY <1>5, <2>2 DEF ActionParts, ActionsInTurn
  <2>4. \A a, v : /\ ReadRight(a, v)' <=> ReadRight(a, v)
                  /\ Whole(a, v)' <=> Whole(a, v)
                  /\ ChannelsOf(a)' = ChannelsOf(a)
    BY <1>5, SameActions
  <2>5. \A whats, a : Pending(whats, a)' <=> Pending(whats, a)
    BY <1>5 DEF Pending
  <2>6. \A a, k : PendingAction(a, k)' <=> PendingAction(a, k)
    BY <1>5 DEF PendingAction
  <2>7. ActionsMade'
    <3> SUFFICES ASSUME NEW b \in Elems(gltf.animations)
                 PROVE  IF Item(coll'.animations, b) = Absent
                        THEN Pending({"loadAnimation", "makeAnimation"}, b)'
                        ELSE Whole(b, Item(coll.animations, b))'
      BY <1>5 DEF ActionsMade
    <3> PICK v : v = Item(coll.animations, b)
      OBVIOUS
    <3>1. Item(coll'.animations, b) = v /\ Item(coll.animations, b)' = v
      BY <1>5
    <3>2. IF v = Absent THEN Pending({"loadAnimation", "makeAnimation"}, b)
          ELSE Whole(b, v)
      BY <2>2 DEF ActionParts, ActionsMade
    <3>3. Whole(b, v)' <=> Whole(b, v)
      BY <2>4
    <3> QED BY <2>5, <3>1, <3>2, <3>3 DEF Whole
  <2>8. ActionsUnderway'
    <3> SUFFICES ASSUME NEW b \in Elems(gltf.animations), Pending(ActionKinds, b)'
                 PROVE  ReadRight(b, animData)' /\ ActionsLeft(b, Len(animData.actions))'
      BY <1>5 DEF ActionsUnderway
    <3> PICK v : v = animData
      OBVIOUS
    <3>1. ReadRight(b, v) /\ ActionsLeft(b, Len(v.actions))
      BY <2>2, <2>5 DEF ActionParts, ActionsUnderway
    <3>2. ReadRight(b, v)'
      BY <2>4, <3>1
    <3>3. ReadRight(b, animData)'
      BY <1>5, <3>2 DEF ReadRight
    <3> QED BY <1>5, <2>4, <2>6, <3>1, <3>3 DEF ActionsLeft
  <2> QED BY <2>3, <2>7, <2>8 DEF ActionParts
<1>6. CASE ReadSymbol
  <2>1. load' = load /\ status = "reading"
    BY <1>6 DEF ReadSymbol, Read, loadVars
  <2> QED BY <2>1, <1>1, <1>2 DEF LoaderInv, Underway
<1>7. CASE Finish
  BY <1>5, <1>7 DEF Finish, Underway, vars, underway
<1>8. CASE UNCHANGED allVars
  BY <1>2, <1>5, <1>8 DEF allVars, vars, loadVars, Underway, underway
<1> QED BY <1>3, <1>4, <1>6, <1>7, <1>8 DEF Next, Calling, GraphCall, LookCall, DataCall

(* The part of DataLoaded that is about the animations.                    *)
AnimationsLoaded ==
  load = "loaded" =>
    \A a \in DOMAIN gltf.animations :
      \A k \in DOMAIN gltf.animations[a].channels :
        ActionRight(gltf.animations[a], coll.animations[a], k)

(* When nothing is left to do, all animations are made.                    *)
LEMMA AnimationsLoad ==
  ASSUME ActionInv, OneUse
  PROVE  AnimationsLoaded
<1> SUFFICES ASSUME load = "loaded", NEW a \in DOMAIN gltf.animations,
                    NEW k \in DOMAIN gltf.animations[a].channels
             PROVE  ActionRight(gltf.animations[a], coll.animations[a], k)
  BY DEF AnimationsLoaded
<1>1. gltf.animations \in Seq(AnimationType) /\ todo = <<>> /\ ActionsMade
  BY DEF ActionInv, LoaderInv, ParserInv, Underway, FileType, ActionParts
<1>2. a - 1 \in Elems(gltf.animations) /\ (a - 1) + 1 = a
  BY <1>1 DEF Elems
<1>3. ~Pending({"loadAnimation", "makeAnimation"}, a - 1)
  BY <1>1 DEF Pending, ToSet
<1>4. Whole(a - 1, Item(coll.animations, a - 1))
  BY <1>1, <1>2, <1>3 DEF ActionsMade
<1>5. Item(gltf.animations, a - 1) = gltf.animations[a]
      /\ Item(coll.animations, a - 1) = coll.animations[a]
  BY <1>2 DEF Item
<1> QED BY <1>4, <1>5 DEF Whole, ChannelsOf

(* DataLoad::loadAnimation: each action of an animation that was loaded    *)
(* is for the node and the property that its channel names, and has the    *)
(* input and the output that the accessors of its sampler select, whatever *)
(* the channels share, as long as no animation uses an accessor in two     *)
(* ways.                                                                   *)
THEOREM AnimationsAreLoaded == Spec => [](OneUse => AnimationsLoaded)
<1>1. LoaderInit => ActionInv
  BY LoaderBegins DEF ActionInv, LoaderInit, LoadInit, Underway
<1>2. ActionInv /\ [Next]_allVars => ActionInv'
  BY ActionStep
<1>3. ActionInv => (OneUse => AnimationsLoaded)
  BY AnimationsLoad
<1> QED BY <1>1, <1>2, <1>3, PTL DEF Spec

(* The timelines of an animation that is loaded: glTF wants their times to *)
(* increase, which the loader does not see to; and OneUse as before.       *)
TimesRight(anim, k) ==
  LET input == Timeline(anim, anim.actions[k])
  IN  input \in Seq(Int) /\ Len(input) > 0 /\ Increases(input)
TimelinesRight ==
  load = "loaded" =>
    /\ OneUse
    /\ \A a \in DOMAIN coll.animations :
         \A k \in DOMAIN coll.animations[a].actions :
           TimesRight(coll.animations[a], k)

PlayInv ==
  /\ ActionInv
  /\ time = [a \in DOMAIN time |-> time[a]]
  /\ completed = [a \in DOMAIN time |-> completed[a]]
  /\ \A a \in DOMAIN time : time[a] \in Nat
  /\ load = "loaded" => DOMAIN time = DOMAIN coll.animations

(* Nothing is left for the loader when everything is loaded.               *)
LEMMA LoadedIsLast ==
  ASSUME LoaderInv, load = "loaded", Next
  PROVE  FALSE
<1>1. status = "done"
  BY DEF LoaderInv, Underway
<1>2. CASE ReadSymbol
  BY <1>1, <1>2 DEF ReadSymbol, Read
<1>3. CASE Begin \/ Finish
  BY <1>3 DEF Begin, Finish
<1>4. CASE Calling
  <2>1. Moves
    BY <1>4, CallsMove
  <2> QED BY <2>1 DEF Moves
<1> QED BY <1>2, <1>3, <1>4 DEF Next, Calling, GraphCall, LookCall, DataCall

(* What the last setter of a property is.                                  *)
LEMMA SetterIs ==
  ASSUME NEW anim, IsList(anim.actions), MethodsIn(anim.actions),
         NEW key, Setters(anim, key) # {}
  PROVE  \E k \in DOMAIN anim.actions :
           /\ Setter(anim, key) = anim.actions[k]
           /\ anim.actions[k].method \in {"Step", "Linear"}
<1> PICK S : S = Setters(anim, key)
  OBVIOUS
<1> PICK n : n = Len(anim.actions)
  OBVIOUS
<1>1. n \in Nat /\ DOMAIN anim.actions = 1..n
  BY DEF IsList
<1>2. S \subseteq 1..n /\ \A k \in S : anim.actions[k].method \in {"Step", "Linear"}
  BY <1>1 DEF Setters, MethodsIn
<1>3. \E k \in S : \A l \in S : l <= k
  <2> DEFINE T == {m \in Nat : \E k \in S : m = n - k}
  <2> PICK s : s \in S
    OBVIOUS
  <2>1. T \in SUBSET Nat /\ n - s \in T
    BY <1>1, <1>2
  <2>2. PICK m \in T : \A j \in T : m <= j
    BY <2>1, LeastNumber
  <2>3. PICK k \in S : m = n - k
    BY <2>2
  <2>4. ASSUME NEW l \in S
        PROVE  l <= k
    <3>1. n - l \in T /\ l \in 1..n /\ k \in 1..n
      BY <1>1, <1>2
    <3>2. m <= n - l
      BY <2>2, <3>1
    <3> QED BY <1>1, <2>3, <3>1, <3>2
  <2> QED BY <2>4
<1>4. PICK k \in S : \A l \in S : l <= k
  BY <1>3
<1>5. Max(S) = k
  <2>1. \A x \in S : (\A y \in S : x >= y) => x = k
    BY <1>1, <1>2, <1>4
  <2>2. \A y \in S : k >= y
    BY <1>1, <1>2, <1>4
  <2> QED BY <2>1, <2>2 DEF Max
<1>6. Setter(anim, key) = anim.actions[k]
  BY <1>5 DEF Setter
<1> QED BY <1>1, <1>2, <1>6

(* What was loaded.                                                        *)
LEMMA ActionsAre ==
  ASSUME ActionInv, load = "loaded", OneUse, NEW a \in DOMAIN coll.animations
  PROVE  IsList(coll.animations[a].actions) /\ MethodsIn(coll.animations[a].actions)
<1>1. gltf.animations \in Seq(AnimationType) /\ todo = <<>> /\ ActionsMade
  BY DEF ActionInv, LoaderInv, ParserInv, Underway, FileType, ActionParts
<1>2. Over(coll.animations, gltf.animations)
  BY DEF ActionInv, LoaderInv, Underway, IsShape
<1>3. a \in 1..Len(gltf.animations)
  BY <1>1, <1>2 DEF Over
<1>4. a - 1 \in Elems(gltf.animations) /\ (a - 1) + 1 = a
  BY <1>1, <1>3 DEF Elems
<1>5. ~Pending({"loadAnimation", "makeAnimation"}, a - 1)
  BY <1>1 DEF Pending, ToSet
<1>6. Whole(a - 1, Item(coll.animations, a - 1))
  BY <1>1, <1>4, <1>5 DEF ActionsMade
<1> QED BY <1>4, <1>6 DEF Whole, Item

PlayedRight(a) ==
  LET anim == coll.animations[a]
      tm == time'[a]
  IN  /\ completed'[a] = Ended(anim, tm)
      /\ \A key \in DOMAIN pose :
           IF Setters(anim, key) = {} THEN pose'[key] = pose[key]
           ELSE \/ Last(Timeline(anim, Setter(anim, key))) = tm
                \/ pose'[key] = Wanted(anim, Setter(anim, key), tm)

(* A call of play.                                                         *)
LEMMA PlayIsRight ==
  ASSUME PlayInv, TimelinesRight, NEW a \in DOMAIN time, NEW tick \in Ticks,
         Play(a, tick)
  PROVE  PlayedRight(a)
<1> PICK anim : anim = coll.animations[a]
  OBVIOUS
<1> PICK tm : tm = time[a] + tick
  OBVIOUS
<1>1. tm \in Int
  BY TicksAssumption DEF PlayInv
<1>2. /\ time' = [time EXCEPT ![a] = tm]
      /\ completed' = [completed EXCEPT ![a] = Ended(anim, tm)]
  BY DEF Play
<1>3. PICK bad :
        /\ \A key \in bad : /\ key \in DOMAIN pose /\ Setters(anim, key) # {}
                            /\ Beyond(anim, Setter(anim, key), tm)
        /\ pose' = [key \in DOMAIN pose |->
                      IF key \in bad THEN Undefined
                      ELSE IF Setters(anim, key) # {}
                      THEN Updated(anim, Setter(anim, key), tm)
                      ELSE pose[key]]
  BY DEF Play
<1>4. time'[a] = tm /\ completed'[a] = Ended(anim, tm)
  BY <1>2 DEF PlayInv
<1>5. ASSUME NEW key \in DOMAIN pose
      PROVE  IF Setters(anim, key) = {} THEN pose'[key] = pose[key]
             ELSE \/ Last(Timeline(anim, Setter(anim, key))) = tm
                  \/ pose'[key] = Wanted(anim, Setter(anim, key), tm)
  <2>1. CASE Setters(anim, key) = {}
    BY <1>3, <2>1
  <2>2. CASE Setters(anim, key) # {} /\ Last(Timeline(anim, Setter(anim, key))) # tm
    <3>1. load = "loaded" /\ OneUse /\ a \in DOMAIN coll.animations
      BY DEF Play, PlayInv, TimelinesRight
    <3>2. IsList(anim.actions) /\ MethodsIn(anim.actions)
      BY <3>1, ActionsAre DEF PlayInv
    <3> PICK action : action = Setter(anim, key)
      OBVIOUS
    <3>3. PICK k \in DOMAIN anim.actions :
            action = anim.actions[k] /\ action.method \in {"Step", "Linear"}
      BY <2>2, <3>2, SetterIs
    <3>4. TimesRight(anim, k)
      BY <3>1, <3>3 DEF TimelinesRight
    <3>5. /\ Timeline(anim, action) \in Seq(Int) /\ Len(Timeline(anim, action)) > 0
          /\ Increases(Timeline(anim, action))
      BY <3>3, <3>4 DEF TimesRight
    <3>6. Updated(anim, action, tm) = Wanted(anim, action, tm)
          /\ ~Beyond(anim, action, tm)
      BY <1>1, <2>2, <3>3, <3>5, UpdatedIsWanted
    <3> QED BY <1>3, <2>2, <3>6
  <2> QED BY <2>1, <2>2
<1> QED BY <1>4, <1>5 DEF PlayedRight

(* The first values.                                                       *)
LEMMA PlayBegins ==
  ASSUME PlayInit
  PROVE  PlayInv
<1>1. ActionInv /\ load # "loaded"
  BY LoaderBegins DEF PlayInit, ActionInv, LoaderInit, LoadInit, Underway
<1>2. DOMAIN time = {} /\ time = completed
  BY DEF PlayInit
<1>3. time = [a \in DOMAIN time |-> time[a]]
  BY DEF PlayInit
<1> QED BY <1>1, <1>2, <1>3 DEF PlayInv

(* A call of play or stop changes nothing of what was loaded.              *)
LEMMA PlayingKeeps ==
  ASSUME ActionInv, UNCHANGED allVars
  PROVE  ActionInv' /\ load' = load /\ coll' = coll
<1>1. ActionInv'
  BY ActionStep
<1> QED BY <1>1 DEF allVars, loadVars

(* Every step keeps the invariant.                                         *)
LEMMA PlayStep ==
  ASSUME PlayInv, PlaybackNext \/ UNCHANGED everyVar
  PROVE  PlayInv'
<1>1. CASE LoaderStep
  <2>1. ActionInv'
    BY <1>1, ActionStep DEF LoaderStep, PlayInv
  <2>2. CASE load' = "loaded"
    <3>1. coll' = coll
      <4>1. CASE Finish
        BY <4>1 DEF Finish
      <4>2. CASE ReadSymbol \/ Begin
        BY <4>2, <2>2, LoadedIsLast DEF ReadSymbol, Begin, loadVars, PlayInv,
           ActionInv, Next
      <4>3. CASE Calling
        <5>1. Moves
          BY <4>3, CallsMove DEF PlayInv, ActionInv
        <5> QED BY <2>2, <5>1 DEF Moves
      <4> QED BY <1>1, <4>1, <4>2, <4>3
              DEF LoaderStep, Next, Calling, GraphCall, LookCall, DataCall
    <3>2. /\ time' = [a \in DOMAIN coll.animations |-> 0]
          /\ completed' = [a \in DOMAIN coll.animations |-> FALSE]
      BY <1>1, <2>2 DEF LoaderStep
    <3> QED BY <2>1, <3>1, <3>2 DEF PlayInv
  <2>3. CASE load' # "loaded"
    BY <1>1, <2>1, <2>3 DEF LoaderStep, playVars, PlayInv
  <2> QED BY <2>2, <2>3
<1>2. ASSUME NEW a \in DOMAIN time, Stop(a)
      PROVE  PlayInv'
  <2>1. ActionInv' /\ load' = load /\ coll' = coll
    BY <1>2, PlayingKeeps DEF Stop, PlayInv
  <2>2. /\ time' = [time EXCEPT ![a] = 0]
        /\ completed' = [completed EXCEPT ![a] = FALSE]
    BY <1>2 DEF Stop
  <2> QED BY <2>1, <2>2 DEF PlayInv
<1>3. ASSUME NEW a \in DOMAIN time, NEW tick \in Ticks, Play(a, tick)
      PROVE  PlayInv'
  <2>1. ActionInv' /\ load' = load /\ coll' = coll
    BY <1>3, PlayingKeeps DEF Play, PlayInv
  <2>2. /\ time' = [time EXCEPT ![a] = time[a] + tick]
        /\ \E v : completed' = [completed EXCEPT ![a] = v]
    BY <1>3 DEF Play
  <2>3. time[a] + tick \in Nat
    BY TicksAssumption DEF PlayInv
  <2> QED BY <2>1, <2>2, <2>3 DEF PlayInv
<1>4. CASE UNCHANGED everyVar
  <2>1. ActionInv' /\ load' = load /\ coll' = coll
    BY <1>4, PlayingKeeps DEF everyVar, PlayInv
  <2> QED BY <1>4, <2>1 DEF PlayInv, everyVar, playVars
<1> QED BY <1>1, <1>2, <1>3, <1>4 DEF PlaybackNext

(* Animation::update: for every search, and however often an animation is  *)
(* stopped, a call of play makes each property what the keyframes around   *)
(* the time make it, if the times of the file increase.                    *)
THEOREM AnimationsPlayRight == PlaySpec /\ []TimelinesRight => PlaysRight
<1>1. PlayInit => PlayInv
  BY PlayBegins
<1>2. PlayInv /\ [PlaybackNext]_everyVar => PlayInv'
  BY PlayStep
<1>3. ASSUME PlayInv, TimelinesRight, [PlaybackNext]_everyVar
      PROVE  [\A a \in DOMAIN time :
               load = "loaded" /\ time'[a] > time[a] =>
                 LET anim == coll.animations[a]
                     tm == time'[a]
                 IN  /\ completed'[a] = Ended(anim, tm)
                     /\ \A key \in DOMAIN pose :
                          IF Setters(anim, key) = {} THEN pose'[key] = pose[key]
                          ELSE \/ Last(Timeline(anim, Setter(anim, key))) = tm
                               \/ pose'[key] =
                                    Wanted(anim, Setter(anim, key), tm)]_everyVar
  <2> SUFFICES ASSUME PlaybackNext, NEW a \in DOMAIN time, load = "loaded",
                      time'[a] > time[a]
               PROVE  PlayedRight(a)
    BY <1>3 DEF PlayedRight
  <2>1. \A b \in DOMAIN time : time[b] \in Nat
    BY <1>3 DEF PlayInv
  <2>2. CASE LoaderStep
    BY <1>3, <2>2, LoadedIsLast DEF LoaderStep, PlayInv, ActionInv
  <2>3. ASSUME NEW b \in DOMAIN time, Stop(b)
        PROVE  FALSE
    <3>1. time' = [time EXCEPT ![b] = 0]
      BY <2>3 DEF Stop
    <3>2. time'[a] = IF a = b THEN 0 ELSE time[a]
      BY <1>3, <3>1 DEF PlayInv
    <3> QED BY <2>1, <3>2
  <2>4. ASSUME NEW b \in DOMAIN time, NEW tick \in Ticks, Play(b, tick)
        PROVE  PlayedRight(a)
    <3>1. time' = [time EXCEPT ![b] = time[b] + tick]
      BY <2>4 DEF Play
    <3>2. a # b => time'[a] = time[a]
      BY <1>3, <3>1 DEF PlayInv
    <3>3. a = b
      BY <2>1, <3>2
    <3> QED BY <1>3, <2>4, <3>3, PlayIsRight
  <2> QED BY <2>2, <2>3, <2>4 DEF PlaybackNext
<1> QED BY <1>1, <1>2, <1>3, PTL DEF PlaySpec, PlaysRight

-----------------------------------------------------------------------------
(* The calls of a mesh.  What a primitive needs is read, and its material  *)
(* is made and copied, before the next primitive; a mesh is complete       *)
(* before another one is begun.                                            *)

PrimitivesOf(m) == Item(gltf.meshes, m).primitives
FinishKinds == {"getTexture", "setTexture", "setMaterial"}
TextureKinds == {"loadTexture", "loadImage", "makeTexture"}
LookKinds == {"loadMaterial"} \cup FinishKinds \cup TextureKinds
InPrimitive == {"getData", "copyMaterial"} \cup LookKinds

MeshFollows(c, d) ==
  /\ d.do = "getData" => c.do = "getData"
  /\ d.do = "copyMaterial" => c.do \in {"getData"} \cup LookKinds
  /\ d.do = "newPrimitive" =>
       \/ c.do \in InPrimitive
       \/ c.do = "newPrimitive" /\ c.i = d.i /\ c.n < d.n
  /\ d.do = "makeMesh" =>
       c.do \in InPrimitive \/ (c.do = "newPrimitive" /\ c.i = d.i)
  /\ d.do \in FinishKinds => c.do \in FinishKinds \cup TextureKinds
MeshesInTurn ==
  \A p, q \in DOMAIN todo : p < q => MeshFollows(todo[p], todo[q])

(* A primitive waits for its material, as in MaterialsFirst.               *)
MaterialsReady ==
  \A p \in DOMAIN todo : todo[p].do = "copyMaterial" =>
    \/ Item(coll.materials, todo[p].i) # Absent
    \/ p > 1 /\ todo[p - 1].do = "loadMaterial" /\ todo[p - 1].i = todo[p].i

(* A material that is complete.                                            *)
Settled(i) == Item(coll.materials, i) # Absent /\ ~Pending(FinishKinds, i)

(* What a primitive reads, in order: its attributes and then its indices.  *)
DataCount(prim) ==
  Len(prim.attributes) + (IF prim.indices >= 0 THEN 1 ELSE 0)
AccessorFor(prim, k) ==
  IF k \in DOMAIN prim.attributes THEN prim.attributes[k][2] ELSE prim.indices
SemanticFor(prim, k) ==
  IF k \in DOMAIN prim.attributes THEN prim.attributes[k][1] ELSE "indices"

(* No mesh has data that is interleaved: its reads go wrong.               *)
Packed ==
  \A m \in Elems(gltf.meshes) : \A p \in DOMAIN PrimitivesOf(m) :
    \A k \in 1..DataCount(PrimitivesOf(m)[p]) :
      ViewOf(Item(gltf.accessors,
                  AccessorFor(PrimitivesOf(m)[p], k))).byteStride <= 0

EntryRight(data, entry, prim, k) ==
  LET i == AccessorFor(prim, k)
  IN  /\ entry.semantic = SemanticFor(prim, k)
      /\ entry.elementN = Item(gltf.accessors, i).count
      /\ entry.elementSize = SizeOf(i)
      /\ Holds(data, entry.dataIndex, SelectedBy(i, SizeOf(i)))
EntriesIn(data, prim, x) ==
  \A k \in 1..Len(x.accessors) : EntryRight(data, x.accessors[k], prim, k)
MaterialRight(prim, x) ==
  IF prim.material < 0 THEN x.material = Absent
  ELSE /\ Settled(prim.material)
       /\ x.material = Item(coll.materials, prim.material)
PrimWhole(data, prim, x) ==
  /\ IsList(x.accessors)
  /\ EntriesIn(data, prim, x) /\ Len(x.accessors) = DataCount(prim)
  /\ MaterialRight(prim, x)

IsPrimitive(x) ==
  /\ x = [topology |-> x.topology, accessors |-> x.accessors,
          material |-> x.material]
  /\ IsList(x.accessors)
IsMeshData(v) ==
  /\ v = [data |-> v.data, primitives |-> v.primitives]
  /\ IsList(v.data) /\ IsList(v.primitives)
  /\ \A p \in 1..Len(v.primitives) : IsPrimitive(v.primitives[p])
MeshWhole(m, v) ==
  \A p \in DOMAIN PrimitivesOf(m) :
    PrimWhole(v.data, PrimitivesOf(m)[p], v.primitives[p])

(* Until a mesh is made, all primitives that were begun are complete but   *)
(* for the last one, whose calls are next, and the others are pending.     *)
PendingPrimitive(m, p) ==
  \E c \in ToSet(todo) : c.do = "newPrimitive" /\ c.i = m /\ c.n = p
PendingDo(what) == \E c \in ToSet(todo) : c.do = what
PrimitivesLeft(m, n) ==
  /\ \A p \in DOMAIN PrimitivesOf(m) : p <= n \/ PendingPrimitive(m, p)
  /\ \A p : PendingPrimitive(m, p) => p > n
DataLeft(prim, n) ==
  /\ \A k \in (n + 1)..DataCount(prim) :
       /\ k - n \in DOMAIN todo /\ todo[k - n].do = "getData"
       /\ todo[k - n].i = AccessorFor(prim, k)
       /\ todo[k - n].k = SemanticFor(prim, k)
  /\ \A q \in DOMAIN todo : todo[q].do = "getData" => n + q <= DataCount(prim)
CopyLeft(prim, x) ==
  /\ \A c \in ToSet(todo) : c.do = "copyMaterial" =>
       prim.material >= 0 /\ c.i = prim.material
  /\ PendingDo("copyMaterial") \/ MaterialRight(prim, x)
LastLeft(data, prim, x) ==
  /\ EntriesIn(data, prim, x) /\ Len(x.accessors) <= DataCount(prim)
  /\ DataLeft(prim, Len(x.accessors)) /\ CopyLeft(prim, x)
MeshLeft(m, v) ==
  LET n == Len(v.primitives)
  IN  /\ IsMeshData(v) /\ n <= Len(PrimitivesOf(m)) /\ PrimitivesLeft(m, n)
      /\ \A p \in 1..(n - 1) :
           PrimWhole(v.data, PrimitivesOf(m)[p], v.primitives[p])
      /\ IF n = 0 THEN ~PendingDo("getData") /\ ~PendingDo("copyMaterial")
         ELSE LastLeft(v.data, PrimitivesOf(m)[n], v.primitives[n])

MeshesMade ==
  \A m \in Elems(gltf.meshes) :
    IF Item(coll.meshes, m) = Absent THEN Pending({"loadMesh", "makeMesh"}, m)
    ELSE MeshWhole(m, Item(coll.meshes, m))
MeshesUnderway ==
  \A m \in Elems(gltf.meshes) : Pending({"makeMesh"}, m) => MeshLeft(m, meshData)
MeshParts == MeshesInTurn /\ MaterialsReady /\ MeshesMade /\ MeshesUnderway

(* The calls that a mesh makes: one for each primitive, and the last.      *)
MeshCallsOf(m) ==
  [p \in DOMAIN PrimitivesOf(m) |-> DoNth("newPrimitive", m, p)]
  \o <<Do("makeMesh", m)>>
MeshCallsRight(c, m) ==
  LET n == Len(PrimitivesOf(m))
  IN  /\ c \in Seq(CallsOf(gltf)) /\ n \in Nat /\ Len(c) = n + 1
      /\ \A k \in 1..n : c[k].do = "newPrimitive" /\ c[k].i = m /\ c[k].n = k
      /\ c[n + 1].do = "makeMesh" /\ c[n + 1].i = m

(* They are these.                                                         *)
LEMMA MeshCallsMade ==
  ASSUME gltf \in FileType, Valid(gltf), NEW m \in Elems(gltf.meshes)
  PROVE  MeshCallsRight(MeshCallsOf(m), m)
<1> PICK prims : prims = PrimitivesOf(m)
  OBVIOUS
<1> PICK S : S = CallsOf(gltf)
  OBVIOUS
<1>1. prims \in Seq(PrimitiveType) /\ DOMAIN prims = 1..Len(prims) /\ Len(prims) \in Nat
  <2>1. prims \in Seq(PrimitiveType)
    BY MeshRefers DEF PrimitivesOf
  <2> QED BY <2>1
<1>2. \A k \in 1..Len(prims) : DoNth("newPrimitive", m, k) \in S
  BY <1>1, CallsMadeIn DEF PrimitivesOf, Item
<1> PICK a : a = [k \in 1..Len(prims) |-> DoNth("newPrimitive", m, k)]
  OBVIOUS
<1>3. /\ a \in Seq(S) /\ Len(a) = Len(prims)
      /\ \A k \in 1..Len(prims) : a[k] = DoNth("newPrimitive", m, k)
  BY <1>1, <1>2, NthNumbered DEF Numbered
<1> PICK b : b = <<Do("makeMesh", m)>>
  OBVIOUS
<1>4. b \in Seq(S) /\ Len(b) = 1 /\ b[1] = Do("makeMesh", m)
  <2>1. Do("makeMesh", m) \in S
    BY CallsMade
  <2> QED BY <2>1
<1> PICK c : c = a \o b
  OBVIOUS
<1>5. Concatenated(c, a, b, S)
  BY <1>3, <1>4, ConcatIs
<1>6. /\ c \in Seq(S) /\ Len(c) = Len(prims) + 1
      /\ \A k \in 1..Len(prims) : c[k] = DoNth("newPrimitive", m, k)
      /\ c[Len(prims) + 1] = Do("makeMesh", m)
  <2>1. Len(prims) + 1 \in (Len(a) + 1)..Len(c) /\ (Len(prims) + 1) - Len(a) = 1
    BY <1>1, <1>3, <1>4, <1>5 DEF Concatenated
  <2> QED BY <1>1, <1>3, <1>4, <1>5, <2>1 DEF Concatenated
<1>7. MeshCallsRight(c, m)
  BY <1>1, <1>6 DEF MeshCallsRight, DoNth, Do
<1>8. c = MeshCallsOf(m)
  BY <1>1 DEF MeshCallsOf
<1> QED BY <1>7, <1>8

JoinedThree(f, a, b, c, S) ==
  /\ f \in Seq(S) /\ Len(f) = (Len(a) + Len(b)) + Len(c)
  /\ \A k \in 1..Len(a) : f[k] = a[k]
  /\ \A k \in 1..Len(b) : f[Len(a) + k] = b[k]
  /\ \A k \in 1..Len(c) : f[(Len(a) + Len(b)) + k] = c[k]

(* Three lists of calls, one after the other, place by place.              *)
LEMMA ThreeJoined ==
  ASSUME NEW S, NEW a \in Seq(S), NEW b \in Seq(S), NEW c \in Seq(S)
  PROVE  JoinedThree((a \o b) \o c, a, b, c, S)
<1>1. PICK g : g = a \o b
  OBVIOUS
<1>2. PICK f : f = g \o c
  OBVIOUS
<1>3. Concatenated(g, a, b, S)
  BY <1>1, ConcatIs
<1>4. g \in Seq(S)
  BY <1>3 DEF Concatenated
<1>5. Concatenated(f, g, c, S)
  BY <1>2, <1>4, ConcatIs
<1>6. /\ Len(a) \in Nat /\ Len(b) \in Nat /\ Len(c) \in Nat
      /\ Len(g) = Len(a) + Len(b) /\ Len(f) = Len(g) + Len(c)
  BY <1>3, <1>5 DEF Concatenated
<1>7. \A k \in 1..Len(a) : f[k] = a[k]
  <2> TAKE k \in 1..Len(a)
  <2>1. k \in 1..Len(g)
    BY <1>6
  <2> QED BY <2>1, <1>3, <1>5 DEF Concatenated
<1>8. \A k \in 1..Len(b) : f[Len(a) + k] = b[k]
  <2> TAKE k \in 1..Len(b)
  <2>1. Len(a) + k \in (Len(a) + 1)..Len(g) /\ (Len(a) + k) - Len(a) = k
        /\ Len(a) + k \in 1..Len(g)
    BY <1>6
  <2>2. f[Len(a) + k] = g[Len(a) + k]
    BY <2>1, <1>5 DEF Concatenated
  <2>3. g[Len(a) + k] = b[k]
    BY <2>1, <1>3 DEF Concatenated
  <2> QED BY <2>2, <2>3
<1>9. \A k \in 1..Len(c) : f[(Len(a) + Len(b)) + k] = c[k]
  <2> TAKE k \in 1..Len(c)
  <2>1. /\ Len(g) + k \in (Len(g) + 1)..Len(f) /\ (Len(g) + k) - Len(g) = k
    BY <1>6
  <2>2. f[Len(g) + k] = c[k]
    BY <2>1, <1>5 DEF Concatenated
  <2> QED BY <2>2, <1>6
<1>10. JoinedThree(f, a, b, c, S)
  BY <1>5, <1>6, <1>7, <1>8, <1>9 DEF Concatenated, JoinedThree
<1> QED BY <1>1, <1>2, <1>10

(* One read for each attribute.                                            *)
LEMMA AttributesRead ==
  ASSUME NEW S, NEW X, NEW Y, NEW atts \in Seq(X \X Y),
         \A x \in X, y \in Y : DoIn("getData", y, x) \in S
  PROVE  LET a == [k \in DOMAIN atts |-> DoIn("getData", atts[k][2], atts[k][1])]
         IN  /\ a \in Seq(S) /\ Len(a) = Len(atts)
             /\ \A k \in 1..Len(atts) :
                  a[k] = DoIn("getData", atts[k][2], atts[k][1])
<1>1. PICK n \in Nat : n = Len(atts) /\ DOMAIN atts = 1..n
  BY ElementOfSeq
<1>2. \A k \in 1..n : atts[k] \in X \X Y
  BY <1>1, ElementOfSeq
<1>3. PICK a : a = [k \in 1..n |-> DoIn("getData", atts[k][2], atts[k][1])]
  OBVIOUS
<1>4. \A k \in 1..n : /\ a[k] = DoIn("getData", atts[k][2], atts[k][1])
                      /\ a[k] \in S
  <2> TAKE k \in 1..n
  <2>1. atts[k][1] \in X /\ atts[k][2] \in Y
    BY <1>2
  <2> QED BY <2>1, <1>3
<1>5. DOMAIN a = 1..n /\ a = [k \in 1..n |-> a[k]]
  BY <1>3
<1>6. a \in Seq(S) /\ Len(a) = n
  BY <1>4, <1>5, Listed
<1> QED BY <1>1, <1>3, <1>4, <1>6

(* The calls that a primitive makes: one for each accessor, and its        *)
(* material.                                                               *)
PrimitiveCallsRight(c, prim) ==
  LET n == Len(prim.attributes)
      d == DataCount(prim)
  IN  /\ c \in Seq(CallsOf(gltf)) /\ n \in Nat /\ d \in Nat
      /\ \A k \in 1..d : /\ c[k].do = "getData" /\ c[k].i = AccessorFor(prim, k)
                         /\ c[k].k = SemanticFor(prim, k)
      /\ IF prim.material >= 0
         THEN /\ Len(c) = d + 2
              /\ c[d + 1].do = "loadMaterial" /\ c[d + 1].i = prim.material
              /\ c[d + 2].do = "copyMaterial" /\ c[d + 2].i = prim.material
         ELSE Len(c) = d

(* They are these.                                                         *)
LEMMA PrimitiveCallsMade ==
  ASSUME gltf \in FileType, Valid(gltf), NEW m \in Elems(gltf.meshes),
         NEW p \in DOMAIN PrimitivesOf(m)
  PROVE  PrimitiveCallsRight(PrimitiveCalls(PrimitivesOf(m)[p]), PrimitivesOf(m)[p])
<1>1. PICK prim : prim = PrimitivesOf(m)[p]
  OBVIOUS
<1>2. PICK S : S = CallsOf(gltf)
  OBVIOUS
<1>3. /\ prim.attributes \in Seq(Strings \X Elems(gltf.accessors))
      /\ prim.indices \in Int /\ prim.material \in Int
      /\ prim.indices >= 0 => prim.indices \in Elems(gltf.accessors)
      /\ prim.material >= 0 => prim.material \in Elems(gltf.materials)
  BY <1>1, MeshRefers DEF PrimitivesOf
<1>4. PICK atts : atts = prim.attributes
  OBVIOUS
<1>5. PICK n \in Nat : n = Len(atts) /\ DOMAIN atts = 1..n
  BY <1>3, <1>4, ElementOfSeq
<1>6. PICK a : a = [k \in DOMAIN atts |-> DoIn("getData", atts[k][2], atts[k][1])]
  OBVIOUS
<1>7. /\ a \in Seq(S) /\ Len(a) = n
      /\ \A k \in 1..n : a[k] = DoIn("getData", atts[k][2], atts[k][1])
  <2>1. \A x \in Strings, y \in Elems(gltf.accessors) : DoIn("getData", y, x) \in S
    BY <1>2, CallsMadeIn
  <2> QED BY <1>3, <1>4, <1>5, <1>6, <2>1, AttributesRead
<1>8. PICK b : b = IF prim.indices >= 0
                   THEN <<DoIn("getData", prim.indices, "indices")>> ELSE <<>>
  OBVIOUS
<1>9. PICK e \in Nat : e = IF prim.indices >= 0 THEN 1 ELSE 0
  OBVIOUS
<1>10. b \in Seq(S) /\ Len(b) = e
       /\ \A k \in 1..e : b[k] = DoIn("getData", prim.indices, "indices")
  <2>1. prim.indices >= 0 => DoIn("getData", prim.indices, "indices") \in S
    BY <1>2, <1>3, CallsMadeIn
  <2>2. CASE prim.indices >= 0
    BY <1>8, <1>9, <2>1, <2>2
  <2>3. CASE ~(prim.indices >= 0)
    BY <1>8, <1>9, <2>3
  <2> QED BY <2>2, <2>3
<1>11. PICK c : c = IF prim.material >= 0
                    THEN <<Do("loadMaterial", prim.material),
                           Do("copyMaterial", prim.material)>>
                    ELSE <<>>
  OBVIOUS
<1>12. c \in Seq(S)
       /\ IF prim.material >= 0
          THEN /\ Len(c) = 2 /\ c[1] = Do("loadMaterial", prim.material)
               /\ c[2] = Do("copyMaterial", prim.material)
          ELSE Len(c) = 0
  <2>1. prim.material >= 0 =>
          /\ Do("loadMaterial", prim.material) \in S
          /\ Do("copyMaterial", prim.material) \in S
    BY <1>2, <1>3, CallsMade
  <2>2. CASE prim.material >= 0
    BY <1>11, <2>1, <2>2
  <2>3. CASE ~(prim.material >= 0)
    BY <1>11, <2>3
  <2> QED BY <2>2, <2>3
<1>13. PICK f : f = (a \o b) \o c
  OBVIOUS
<1>14. PICK d \in Nat : d = n + e
  OBVIOUS
<1>15. /\ f \in Seq(S) /\ Len(f) = d + Len(c)
       /\ \A k \in 1..n : f[k] = a[k]
       /\ \A k \in 1..e : f[n + k] = b[k]
       /\ \A k \in 1..Len(c) : f[d + k] = c[k]
  <2>1. JoinedThree(f, a, b, c, S)
    BY <1>7, <1>10, <1>12, <1>13, ThreeJoined
  <2> QED BY <2>1, <1>7, <1>10, <1>14 DEF JoinedThree
<1>16. DataCount(prim) = d
  BY <1>4, <1>5, <1>9, <1>14 DEF DataCount
<1>17. ASSUME NEW k \in 1..d
       PROVE  /\ f[k].do = "getData" /\ f[k].i = AccessorFor(prim, k)
              /\ f[k].k = SemanticFor(prim, k)
  <2>1. CASE k \in 1..n
    <3>1. f[k] = DoIn("getData", atts[k][2], atts[k][1])
      BY <2>1, <1>7, <1>15
    <3>2. k \in DOMAIN prim.attributes
      BY <2>1, <1>4, <1>5
    <3> QED BY <3>1, <3>2, <1>4 DEF AccessorFor, SemanticFor, DoIn
  <2>2. CASE k \notin 1..n
    <3>1. k - n \in 1..e /\ k = n + (k - n)
      BY <2>2, <1>14
    <3>2. f[k] = DoIn("getData", prim.indices, "indices")
      BY <3>1, <1>10, <1>15
    <3>3. k \notin DOMAIN prim.attributes
      BY <2>2, <1>4, <1>5
    <3> QED BY <3>2, <3>3 DEF AccessorFor, SemanticFor, DoIn
  <2> QED BY <2>1, <2>2
<1>18. IF prim.material >= 0
       THEN /\ Len(f) = d + 2 /\ f[d + 1] = Do("loadMaterial", prim.material)
            /\ f[d + 2] = Do("copyMaterial", prim.material)
       ELSE Len(f) = d
  <2>1. CASE prim.material >= 0
    <3>1. Len(c) = 2 /\ 1 \in 1..Len(c) /\ 2 \in 1..Len(c)
      BY <2>1, <1>12
    <3>2. f[d + 1] = c[1] /\ f[d + 2] = c[2] /\ Len(f) = d + 2
      BY <3>1, <1>15
    <3> QED BY <2>1, <3>2, <1>12
  <2>2. CASE ~(prim.material >= 0)
    BY <2>2, <1>12, <1>14, <1>15
  <2> QED BY <2>1, <2>2
<1>19. PrimitiveCallsRight(f, prim)
  BY <1>2, <1>4, <1>5, <1>15, <1>16, <1>17, <1>18
     DEF PrimitiveCallsRight, Do
<1>20. f = PrimitiveCalls(prim)
  BY <1>4, <1>6, <1>8, <1>11, <1>13 DEF PrimitiveCalls
<1> QED BY <1>1, <1>19, <1>20

(* The kinds of calls that others make.                                    *)
LEMMA MadeByNone ==
  \A what \in {"insert", "setJoint", "loadImage", "makeTexture", "setTexture",
                "setMaterial", "getData", "copyMaterial", "makeMesh",
                "newAction", "makeAnimation"} : MadeBy(what) = {}
BY DEF MadeBy

(* What a call makes may be followed by what the call was followed by.     *)
LEMMA FollowsMade ==
  ASSUME NEW h, NEW c, NEW d, MeshFollows(h, d), c.do \in MadeBy(h.do)
  PROVE  MeshFollows(c, d)
<1> PICK x : x = h.do
  OBVIOUS
<1> PICK y : y = c.do
  OBVIOUS
<1> PICK z : z = d.do
  OBVIOUS
<1>1. y \in MadeBy(x)
  OBVIOUS
<1>2. CASE z = "getData"
  <2>1. x = "getData"
    BY <1>2 DEF MeshFollows
  <2> QED BY <1>1, <2>1, MadeByNone
<1>3. x = "loadMaterial" => y \in {"getTexture", "setMaterial"}
  BY <1>1, MadeByEach
<1>4. x = "getTexture" => y \in {"loadTexture", "setTexture"}
  BY <1>1, MadeByEach
<1>5. x = "loadTexture" => y \in {"loadImage", "makeTexture"}
  BY <1>1, MadeByEach
<1>6. x \notin {"getData", "copyMaterial", "setTexture", "setMaterial",
                "loadImage", "makeTexture"}
  BY <1>1, MadeByNone
<1>7. x = "newPrimitive" => y \in {"getData", "loadMaterial", "copyMaterial"}
  BY <1>1, MadeByEach
<1>8. x \in LookKinds => y \in LookKinds
  BY <1>3, <1>4, <1>5, <1>6 DEF LookKinds, FinishKinds, TextureKinds
<1>9. CASE z = "copyMaterial"
  <2>1. x \in LookKinds
    BY <1>6, <1>9 DEF MeshFollows
  <2> QED BY <1>8, <1>9, <2>1 DEF MeshFollows, FinishKinds
<1>10. CASE z = "newPrimitive" \/ z = "makeMesh"
  <2>1. x \in LookKinds \/ x = "newPrimitive"
    BY <1>6, <1>10 DEF MeshFollows, InPrimitive
  <2>2. y \in InPrimitive
    BY <1>7, <1>8, <2>1 DEF InPrimitive, LookKinds
  <2> QED BY <1>10, <2>2 DEF MeshFollows, FinishKinds
<1>11. CASE z \in FinishKinds
  <2>1. x \in FinishKinds \cup TextureKinds
    BY <1>11 DEF MeshFollows
  <2>2. x \in {"getTexture", "loadTexture"}
    BY <1>6, <2>1 DEF FinishKinds, TextureKinds
  <2>3. y \in FinishKinds \cup TextureKinds
    BY <1>4, <1>5, <2>2 DEF FinishKinds, TextureKinds
  <2> QED BY <1>11, <2>3 DEF MeshFollows, FinishKinds
<1>12. CASE z \notin {"getData", "copyMaterial", "newPrimitive", "makeMesh"} \cup FinishKinds
  BY <1>12 DEF MeshFollows
<1> QED BY <1>2, <1>9, <1>10, <1>11, <1>12

CallsInTurn(calls) ==
  \A p, q \in 1..Len(calls) : p < q => MeshFollows(calls[p], calls[q])

(* The order of the calls is kept.                                         *)
LEMMA MeshesInTurnKept ==
  ASSUME NEW calls, Working(calls), MeshesInTurn, CallsInTurn(calls),
         \A p \in 1..Len(calls) : calls[p].do \in MadeBy(Head(todo).do)
  PROVE  MeshesInTurn'
<1> PICK next : next = todo'
  OBVIOUS
<1>1. /\ next \in Seq(CallsOf(gltf))
      /\ \A p \in 1..Len(calls) : next[p] = calls[p]
      /\ \A p \in (Len(calls) + 1)..Len(next) :
           /\ next[p] = todo[p - Len(calls) + 1]
           /\ p - Len(calls) + 1 \in 2..Len(todo)
      /\ Head(todo) = todo[1] /\ 1 \in DOMAIN todo
  BY Positions DEF Working, Makes
<1>2. /\ Len(calls) \in Nat /\ Len(todo) \in Nat /\ Len(next) \in Nat
      /\ DOMAIN todo = 1..Len(todo) /\ DOMAIN next = 1..Len(next)
  BY <1>1 DEF Working
<1>3. ASSUME NEW q \in (Len(calls) + 1)..Len(next)
      PROVE  \E r \in 2..Len(todo) :
               r = q - Len(calls) + 1 /\ r \in DOMAIN todo /\ next[q] = todo[r]
  <2> PICK r \in 2..Len(todo) : r = q - Len(calls) + 1
    BY <1>1
  <2> QED BY <1>1, <1>2
<1>4. ASSUME NEW p \in 1..Len(next), NEW q \in 1..Len(next), p < q
      PROVE  MeshFollows(next[p], next[q])
  <2>1. CASE q \in 1..Len(calls)
    <3>1. p \in 1..Len(calls)
      BY <1>2, <1>4, <2>1
    <3> QED BY <1>1, <1>4, <2>1, <3>1 DEF CallsInTurn
  <2>2. CASE q \notin 1..Len(calls)
    <3>1. q \in (Len(calls) + 1)..Len(next)
      BY <1>2, <2>2
    <3> PICK r \in 2..Len(todo) : r = q - Len(calls) + 1 /\ r \in DOMAIN todo
                                  /\ next[q] = todo[r]
      BY <1>3, <3>1
    <3>2. CASE p \in 1..Len(calls)
      <4>1. 1 < r
        OBVIOUS
      <4>2. MeshFollows(todo[1], todo[r])
        BY <1>1, <4>1 DEF MeshesInTurn
      <4>3. calls[p].do \in MadeBy(todo[1].do)
        BY <1>1, <3>2
      <4>4. MeshFollows(calls[p], todo[r])
        BY <4>2, <4>3, FollowsMade
      <4> QED BY <1>1, <3>2, <4>4
    <3>3. CASE p \notin 1..Len(calls)
      <4>1. p \in (Len(calls) + 1)..Len(next)
        BY <1>2, <3>3
      <4> PICK s \in 2..Len(todo) : s = p - Len(calls) + 1 /\ s \in DOMAIN todo
                                    /\ next[p] = todo[s]
        BY <1>3, <4>1
      <4>2. s < r
        BY <1>2, <1>4, <3>1, <4>1
      <4> QED BY <4>2 DEF MeshesInTurn
    <3> QED BY <3>2, <3>3
  <2> QED BY <2>1, <2>2
<1>5. \A p, q \in DOMAIN next : p < q => MeshFollows(next[p], next[q])
  BY <1>2, <1>4
<1> QED BY <1>5 DEF MeshesInTurn

(* A primitive waits for its material: the order is kept.                  *)
LEMMA MaterialsReadyKept ==
  ASSUME NEW calls, Working(calls), MaterialsReady, MaterialsStay,
         Head(todo).do = "loadMaterial" =>
           Item(coll'.materials, Head(todo).i) # Absent,
         \A p \in 1..Len(calls) : calls[p].do = "copyMaterial" =>
           p > 1 /\ calls[p - 1].do = "loadMaterial" /\ calls[p - 1].i = calls[p].i
  PROVE  MaterialsReady'
<1> PICK next : next = todo'
  OBVIOUS
<1>1. /\ next \in Seq(CallsOf(gltf))
      /\ \A p \in 1..Len(calls) : next[p] = calls[p]
      /\ \A p \in (Len(calls) + 1)..Len(next) :
           /\ next[p] = todo[p - Len(calls) + 1]
           /\ p - Len(calls) + 1 \in 2..Len(todo)
  BY Positions DEF Working, Makes
<1>2. /\ Len(calls) \in Nat /\ Len(todo) \in Nat /\ Len(next) \in Nat
      /\ DOMAIN todo = 1..Len(todo) /\ DOMAIN next = 1..Len(next)
      /\ Head(todo) = todo[1]
      /\ \A p \in 1..Len(todo) : todo[p] \in CallsOf(gltf)
  BY <1>1 DEF Working
<1>3. SUFFICES ASSUME NEW p \in 1..Len(next), next[p].do = "copyMaterial"
      PROVE  \/ Item(coll'.materials, next[p].i) # Absent
             \/ /\ p > 1 /\ next[p - 1].do = "loadMaterial"
                /\ next[p - 1].i = next[p].i
  BY <1>2 DEF MaterialsReady
<1>4. CASE p \in 1..Len(calls)
  <2>1. p - 1 \in 1..Len(calls) \/ p = 1
    BY <1>4, <1>2
  <2> QED BY <1>1, <1>3, <1>4, <2>1
<1>5. CASE p \notin 1..Len(calls)
  <2>1. p \in (Len(calls) + 1)..Len(next)
    BY <1>5, <1>2
  <2> PICK q \in 2..Len(todo) : q = p - Len(calls) + 1
    BY <2>1, <1>1
  <2>2. next[p] = todo[q] /\ q \in DOMAIN todo /\ todo[q] \in CallsOf(gltf)
    BY <2>1, <1>1, <1>2
  <2> PICK i : i = todo[q].i
    OBVIOUS
  <2>3. i \in Elems(gltf.materials)
    BY <2>2, <1>3, CallKinds DEF MaterialCalls
  <2>4. \/ Item(coll.materials, i) # Absent
        \/ todo[q - 1].do = "loadMaterial" /\ todo[q - 1].i = i
    BY <2>2, <1>3 DEF MaterialsReady
  <2>5. CASE Item(coll.materials, i) # Absent
    BY <2>5, <2>2, <2>3 DEF MaterialsStay
  <2>6. CASE todo[q - 1].do = "loadMaterial" /\ todo[q - 1].i = i /\ q = 2
    <3>1. todo[q - 1] = Head(todo)
      BY <2>6, <1>2
    <3>2. Item(coll'.materials, Head(todo).i) # Absent /\ Head(todo).i = i
      BY <2>6, <3>1
    <3> QED BY <3>2, <2>2
  <2>7. CASE todo[q - 1].do = "loadMaterial" /\ todo[q - 1].i = i /\ q # 2
    <3>1. p - 1 \in (Len(calls) + 1)..Len(next) /\ (p - 1) - Len(calls) + 1 = q - 1
          /\ p > 1
      BY <2>7, <2>1, <1>2
    <3>2. next[p - 1] = todo[q - 1]
      BY <3>1, <1>1
    <3> QED BY <3>1, <3>2, <2>2, <2>7
  <2> QED BY <2>4, <2>5, <2>6, <2>7
<1> QED BY <1>4, <1>5

-----------------------------------------------------------------------------
(* What a mesh needs to know of the materials: those that are complete     *)
(* stay as they are.                                                       *)

MaterialsKept ==
  \A i \in Elems(gltf.materials) : Settled(i) =>
    Settled(i)' /\ Item(coll'.materials, i) = Item(coll.materials, i)

(* The file stays as it is, and what it says of the entries.               *)
LEMMA SameMeshes ==
  ASSUME gltf' = gltf
  PROVE  /\ \A m : PrimitivesOf(m)' = PrimitivesOf(m)
         /\ \A data, prim, x : EntriesIn(data, prim, x)' <=> EntriesIn(data, prim, x)
<1>1. \A m : PrimitivesOf(m)' = PrimitivesOf(m)
  BY DEF PrimitivesOf
<1>2. \A acc, size : SelectedBy(acc, size)' = SelectedBy(acc, size)
                     /\ SizeOf(acc)' = SizeOf(acc)
  BY DEF SelectedBy, SizeOf, Reference, ViewOf
<1>3. \A data, entry, prim, k :
        EntryRight(data, entry, prim, k)' <=> EntryRight(data, entry, prim, k)
  BY <1>2 DEF EntryRight
<1>4. \A data, prim, x : EntriesIn(data, prim, x)' <=> EntriesIn(data, prim, x)
  BY <1>3 DEF EntriesIn
<1> QED BY <1>1, <1>4

(* A primitive that has its material keeps it.                             *)
LEMMA MaterialRightKept ==
  ASSUME gltf \in FileType, Valid(gltf), MaterialsKept,
         NEW m \in Elems(gltf.meshes), NEW p \in DOMAIN PrimitivesOf(m),
         NEW prim, prim = PrimitivesOf(m)[p], NEW x, MaterialRight(prim, x)
  PROVE  MaterialRight(prim, x)'
<1>1. prim.material \in Int
      /\ (prim.material >= 0 => prim.material \in Elems(gltf.materials))
  BY MeshRefers DEF PrimitivesOf
<1>2. CASE prim.material < 0
  BY <1>2 DEF MaterialRight
<1>3. CASE ~(prim.material < 0)
  <2>1. prim.material \in Elems(gltf.materials)
    BY <1>1, <1>3
  <2>2. Settled(prim.material) /\ x.material = Item(coll.materials, prim.material)
    BY <1>3 DEF MaterialRight
  <2>3. Settled(prim.material)'
        /\ Item(coll'.materials, prim.material) = Item(coll.materials, prim.material)
    BY <2>1, <2>2 DEF MaterialsKept
  <2> QED BY <1>3, <2>2, <2>3 DEF MaterialRight
<1> QED BY <1>2, <1>3

(* A primitive that is complete stays so.                                  *)
LEMMA PrimWholeKept ==
  ASSUME gltf \in FileType, Valid(gltf), gltf' = gltf, MaterialsKept,
         NEW m \in Elems(gltf.meshes), NEW p \in DOMAIN PrimitivesOf(m),
         NEW prim, prim = PrimitivesOf(m)[p],
         NEW data, NEW x, PrimWhole(data, prim, x)
  PROVE  PrimWhole(data, prim, x)'
<1>1. MaterialRight(prim, x)'
  BY MaterialRightKept DEF PrimWhole
<1>2. EntriesIn(data, prim, x)'
  BY SameMeshes DEF PrimWhole
<1> QED BY <1>1, <1>2 DEF PrimWhole

(* And so does a mesh.                                                     *)
LEMMA MeshWholeKept ==
  ASSUME gltf \in FileType, Valid(gltf), gltf' = gltf, MaterialsKept,
         NEW m \in Elems(gltf.meshes), NEW v, MeshWhole(m, v)
  PROVE  MeshWhole(m, v)'
<1> PICK prims : prims = PrimitivesOf(m)
  OBVIOUS
<1>1. PrimitivesOf(m)' = prims
  BY SameMeshes
<1>2. ASSUME NEW p \in DOMAIN prims
      PROVE  PrimWhole(v.data, prims[p], v.primitives[p])'
  <2> PICK prim : prim = prims[p]
    OBVIOUS
  <2> PICK x : x = v.primitives[p]
    OBVIOUS
  <2> PICK data : data = v.data
    OBVIOUS
  <2>1. PrimWhole(data, prim, x)
    BY DEF MeshWhole
  <2>2. PrimWhole(data, prim, x)'
    BY <2>1, PrimWholeKept
  <2> QED BY <2>2
<1> QED BY <1>1, <1>2 DEF MeshWhole

(* Meshes that were made stay right, those that are not stay pending.      *)
LEMMA MeshesMadeKept ==
  ASSUME NEW calls, Working(calls), MeshesMade, MaterialsKept,
         \A m \in Elems(gltf.meshes) :
           \/ Item(coll'.meshes, m) = Item(coll.meshes, m)
           \/ /\ Item(coll'.meshes, m) # Absent
              /\ MeshWhole(m, Item(coll.meshes, m))',
         Head(todo).do \in {"loadMesh", "makeMesh"} =>
           \/ Item(coll'.meshes, Head(todo).i) # Absent
           \/ \E k \in 1..Len(calls) :
                calls[k].do = "makeMesh" /\ calls[k].i = Head(todo).i
  PROVE  MeshesMade'
<1>1. gltf' = gltf /\ gltf \in FileType /\ Valid(gltf)
  BY DEF Working
<1> SUFFICES ASSUME NEW m \in Elems(gltf.meshes)
             PROVE  IF Item(coll'.meshes, m) = Absent
                    THEN Pending({"loadMesh", "makeMesh"}, m)'
                    ELSE MeshWhole(m, Item(coll.meshes, m))'
  BY <1>1 DEF MeshesMade
<1> PICK v : v = Item(coll.meshes, m)
  OBVIOUS
<1> PICK w : w = Item(coll'.meshes, m)
  OBVIOUS
<1>2. CASE w = Absent
  <2>1. v = Absent
    BY <1>2
  <2>2. Pending({"loadMesh", "makeMesh"}, m)
    BY <2>1 DEF MeshesMade
  <2>3. \/ Pending({"loadMesh", "makeMesh"}, m)'
        \/ Head(todo).do \in {"loadMesh", "makeMesh"} /\ Head(todo).i = m
    BY <2>2, PendingKept
  <2>4. CASE Head(todo).do \in {"loadMesh", "makeMesh"} /\ Head(todo).i = m
    <3>1. PICK k \in 1..Len(calls) : calls[k].do = "makeMesh" /\ calls[k].i = m
      BY <1>2, <2>4
    <3>2. Pending({"loadMesh", "makeMesh"}, m)'
      BY <3>1, PendingMade
    <3> QED BY <1>2, <3>2
  <2> QED BY <1>2, <2>3, <2>4
<1>3. CASE w # Absent /\ w = v
  <2>1. MeshWhole(m, v)
    BY <1>3 DEF MeshesMade
  <2>2. MeshWhole(m, v)'
    BY <1>1, <2>1, MeshWholeKept
  <2>3. Item(coll.meshes, m)' = v
    BY <1>3 DEF Item
  <2>4. MeshWhole(m, Item(coll.meshes, m))'
    BY <2>2, <2>3 DEF MeshWhole
  <2> QED BY <1>3, <2>4
<1> QED BY <1>2, <1>3

-----------------------------------------------------------------------------
(* What a call does to the materials.                                      *)

MaterialsMove ==
  /\ MaterialsStay
  /\ \A i \in Elems(gltf.materials) :
       \/ Item(coll'.materials, i) = Item(coll.materials, i)
       \/ /\ Head(todo).i = i
          /\ \/ Head(todo).do \in {"setTexture", "setMaterial"}
             \/ Head(todo).do = "loadMaterial" /\ Item(coll.materials, i) = Absent
  /\ Head(todo).do = "loadMaterial" =>
       Item(coll'.materials, Head(todo).i) # Absent

(* One of them is set.                                                     *)
LEMMA MaterialSet ==
  ASSUME gltf \in FileType, IsShape(coll, gltf), NEW m \in Elems(gltf.materials),
         NEW u, coll'.materials = [coll.materials EXCEPT ![m + 1] = u]
  PROVE  Put(coll'.materials, coll.materials, gltf.materials, m, u)
<1>1. /\ gltf.materials \in Seq(MaterialType)
      /\ Over(coll.materials, gltf.materials)
  BY DEF FileType, IsShape
<1> QED BY <1>1, ItemPut

(* No call takes a material away, and only loadMaterial changes it.        *)
LEMMA MaterialsChange ==
  ASSUME LoaderInv, LookParts, Calling, load' = "loading"
  PROVE  MaterialsMove
<1>1. /\ load = "loading" /\ todo # <<>> /\ gltf \in FileType
      /\ IsShape(coll, gltf) /\ Head(todo) \in CallsOf(gltf)
  <2>1. Moves
    BY CallsMove
  <2> QED BY <2>1 DEF Moves, LoaderInv, Underway, ParserInv
<1>2. PICK m : m = I
  OBVIOUS
<1>3. m = Head(todo).i
  BY <1>2 DEF I
<1>4. ASSUME coll'.materials = coll.materials, Head(todo).do # "loadMaterial"
      PROVE  MaterialsMove
  BY <1>4 DEF MaterialsMove, MaterialsStay
<1>5. ASSUME m \in Elems(gltf.materials), NEW u, u # Absent,
             coll'.materials = [coll.materials EXCEPT ![m + 1] = u],
             \/ Head(todo).do \in {"setTexture", "setMaterial"}
             \/ Head(todo).do = "loadMaterial" /\ Item(coll.materials, m) = Absent
      PROVE  MaterialsMove
  <2>1. Put(coll'.materials, coll.materials, gltf.materials, m, u)
    BY <1>1, <1>5, MaterialSet
  <2> QED BY <1>3, <1>5, <2>1 DEF MaterialsMove, MaterialsStay, Put
<1>6. CASE GraphCall \/ DataCall
  <2>1. SameLook
    BY <1>1, <1>6, GraphLeaves, DataLeaves
  <2>2. Head(todo).do # "loadMaterial"
    BY <1>6, Zenon DEF GraphCall, DataCall, LoadScene, LoadRest, LoadGraph,
       InsertNode, LoadNode, LoadSkin, SetJoint, LoadMesh, NewPrimitive, GetData,
       CopyMaterial, MakeMesh, LoadAnimation, NewAction, MakeAnimation, Doing
  <2> QED BY <1>4, <2>1, <2>2 DEF SameLook
<1>7. CASE LoadTexture \/ LoadImage \/ MakeTexture \/ GetTexture
  <2>1. coll'.materials = coll.materials
    BY <1>7, LoadTextureDoes, LoadImageDoes, MakeTextureDoes, GetTextureDoes
       DEF SameLook, NewImage, NewTexture
  <2>2. Head(todo).do # "loadMaterial"
    BY <1>7, Zenon DEF LoadTexture, LoadImage, MakeTexture, GetTexture, Doing
  <2> QED BY <1>4, <2>1, <2>2
<1>8. CASE LoadMaterial
  <2>1. Head(todo).do = "loadMaterial" /\ m \in Elems(gltf.materials)
    BY <1>1, <1>3, <1>8, CallKinds DEF LoadMaterial, Doing, MaterialCalls
  <2>2. \/ Item(coll.materials, m) # Absent /\ SameLook
        \/ NewMaterial(m)
    BY <1>2, <1>8, LoadMaterialDoes
  <2>3. CASE Item(coll.materials, m) # Absent /\ SameLook
    BY <1>3, <2>1, <2>3 DEF MaterialsMove, MaterialsStay, SameLook
  <2>4. CASE NewMaterial(m)
    <3>1. PICK u : u = [type |-> "material",
                        textures |-> [w \in ToSet(Infos) |-> Absent],
                        cutoff |-> 0]
      OBVIOUS
    <3>2. u # Absent
      BY <3>1 DEF Absent
    <3>3. /\ coll'.materials = [coll.materials EXCEPT ![m + 1] = u]
          /\ Item(coll.materials, m) = Absent
      BY <2>4, <3>1 DEF NewMaterial
    <3> QED BY <1>5, <2>1, <3>2, <3>3
  <2> QED BY <2>2, <2>3, <2>4
<1>9. ASSUME Head(todo).do \in {"setTexture", "setMaterial"}
      PROVE  m \in Elems(gltf.materials) /\ IsMaterial(Item(coll.materials, m))
  <2>1. m \in Elems(gltf.materials)
    BY <1>1, <1>3, <1>9, CallKinds DEF InfoCalls, MaterialCalls
  <2>2. Item(coll.materials, m) # Absent
    BY <1>1, <1>3, <1>9, HeadReady
  <2> QED BY <2>1, <2>2 DEF LookParts, MaterialsMade
<1>a. \A v : IsMaterial(v) => v # Absent
  BY DEF IsMaterial, Absent
<1>10. CASE SetTexture
  <2>1. PICK w : w = Head(todo).k
    OBVIOUS
  <2>2. Head(todo).do = "setTexture" /\ w \in ToSet(Infos)
    BY <1>1, <1>10, <2>1, CallKinds DEF SetTexture, Doing, InfoCalls
  <2>3. PICK x : coll'.materials = [coll.materials EXCEPT ![m + 1].textures[w] = x]
    <3>1. NewCopy(m, w)
      BY <1>2, <1>10, <2>1, SetTextureDoes
    <3> QED BY <3>1 DEF NewCopy
  <2>4. PICK u : u = [Item(coll.materials, m) EXCEPT !.textures[w] = x]
    OBVIOUS
  <2>5. u # Absent
    <3>1. HasCopy(u, Item(coll.materials, m), w, x)
      BY <1>9, <2>2, <2>4, CopyPut
    <3> QED BY <1>a, <3>1 DEF HasCopy
  <2>6. coll'.materials = [coll.materials EXCEPT ![m + 1] = u]
    BY <2>3, <2>4 DEF Item
  <2> QED BY <1>5, <1>9, <2>2, <2>5, <2>6
<1>11. CASE SetMaterial
  <2>1. Head(todo).do = "setMaterial"
    BY <1>11 DEF SetMaterial, Doing
  <2>2. SameLook \/ NewCutoff(m)
    BY <1>2, <1>11, SetMaterialDoes
  <2>3. CASE SameLook
    BY <1>4, <2>1, <2>3 DEF SameLook
  <2>4. CASE NewCutoff(m)
    <3>1. PICK x : coll'.materials = [coll.materials EXCEPT ![m + 1].cutoff = x]
      BY <2>4 DEF NewCutoff
    <3>2. PICK u : u = [Item(coll.materials, m) EXCEPT !.cutoff = x]
      OBVIOUS
    <3>3. u # Absent
      BY <1>9, <1>a, <2>1, <3>2, CutoffPut
    <3>4. coll'.materials = [coll.materials EXCEPT ![m + 1] = u]
      BY <3>1, <3>2 DEF Item
    <3> QED BY <1>5, <1>9, <2>1, <3>3, <3>4
  <2> QED BY <2>2, <2>3, <2>4
<1> QED BY <1>6, <1>7, <1>8, <1>10, <1>11 DEF Calling, LookCall

(* The calls that finish a material are made by its own.                   *)
FinishMade(calls) ==
  \A k \in 1..Len(calls) :
    /\ calls[k].do \in MadeBy(Head(todo).do)
    /\ calls[k].do \in FinishKinds =>
         /\ calls[k].i = Head(todo).i
         /\ \/ Head(todo).do = "getTexture"
            \/ /\ Head(todo).do = "loadMaterial"
               /\ Item(coll.materials, Head(todo).i) = Absent

LEMMA CallsFinish ==
  ASSUME LoaderInv, Calling, load' = "loading"
  PROVE  \E calls \in Seq(CallsOf(gltf)) : Working(calls) /\ FinishMade(calls)
<1>1. PICK made \in Seq(MadeFrom(gltf, Head(todo).do)) : Working(made)
  BY CallingWorks
<1>2. made \in Seq(CallsOf(gltf)) /\ todo # <<>> /\ Head(todo) \in CallsOf(gltf)
      /\ gltf \in FileType /\ Valid(gltf)
  BY <1>1 DEF Working
<1>3. \A k \in 1..Len(made) : made[k].do \in MadeBy(Head(todo).do)
  <2>1. \A k \in 1..Len(made) : made[k] \in MadeFrom(gltf, Head(todo).do)
    BY <1>1, ElementOfSeq
  <2> QED BY <2>1 DEF MadeFrom
<1>4. \A calls \in Seq(CallsOf(gltf)) : Makes(calls) => Working(calls)
  BY CallingWorks
<1>5. CASE Head(todo).do \notin {"getTexture", "loadMaterial"}
  <2>1. MadeBy(Head(todo).do) \cap FinishKinds = {}
    BY <1>5 DEF MadeBy, FinishKinds
  <2>2. FinishMade(made)
    BY <1>3, <2>1 DEF FinishMade
  <2> QED BY <1>1, <1>2, <2>2
<1>6. PICK m : m = I
  OBVIOUS
<1>7. m = Head(todo).i
  BY <1>6 DEF I
<1>8. ASSUME Head(todo).do \in {"getTexture", "loadMaterial"}
      PROVE  m \in Elems(gltf.materials)
  BY <1>2, <1>7, <1>8, CallKinds DEF InfoCalls, MaterialCalls
<1>9. ASSUME NEW calls \in Seq(CallsOf(gltf)), Makes(calls), Len(calls) = 0
      PROVE  Working(calls) /\ FinishMade(calls)
  <2>1. Working(calls)
    BY <1>4, <1>9
  <2>2. ~\E k : k \in 1..Len(calls)
    BY <1>9
  <2>3. FinishMade(calls)
    BY <2>2, Zenon DEF FinishMade
  <2> QED BY <2>1, <2>3
<1>10. PICK e \in Seq(CallsOf(gltf)) : e = <<>> /\ Len(e) = 0
  <2>1. <<>> \in Seq(CallsOf(gltf)) /\ Len(<<>>) = 0
    OBVIOUS
  <2> QED BY <2>1, Zenon
<1>11. CASE GetTexture
  <2>1. Head(todo).do = "getTexture"
    BY <1>11 DEF GetTexture, Doing
  <2>2. PICK t : t = InfoFor(m, Head(todo).k).index
    OBVIOUS
  <2>3. \/ t < 0 /\ Makes(<<>>)
        \/ /\ ~(t < 0)
           /\ Makes(<<Do("loadTexture", t), DoIn("setTexture", m, Head(todo).k)>>)
    BY <1>6, <1>11, <2>2, GetTextureDoes
  <2>4. CASE Makes(<<>>)
    BY <1>9, <1>10, <2>4
  <2>5. CASE /\ ~(t < 0)
             /\ Makes(<<Do("loadTexture", t), DoIn("setTexture", m, Head(todo).k)>>)
    <3>1. PICK calls : calls = <<Do("loadTexture", t),
                                 DoIn("setTexture", m, Head(todo).k)>>
      OBVIOUS
    <3>2. /\ Head(todo).k \in ToSet(Infos) /\ m \in Elems(gltf.materials)
          /\ t \in Elems(gltf.textures)
      <4>1. Head(todo).k \in ToSet(Infos) /\ m \in Elems(gltf.materials)
        BY <1>2, <1>8, <2>1, CallKinds DEF InfoCalls
      <4>2. t \in Int /\ (t >= 0 => t \in Elems(gltf.textures))
        BY <1>2, <2>2, <4>1, LookRefers DEF InfoFor
      <4> QED BY <2>5, <4>1, <4>2
    <3>3. calls \in Seq(CallsOf(gltf)) /\ Len(calls) = 2
      <4>1. Do("loadTexture", t) \in CallsOf(gltf)
        BY <3>2, CallsMade
      <4>2. DoIn("setTexture", m, Head(todo).k) \in CallsOf(gltf)
        BY <2>2, <3>2, CallsMadeIn DEF InfoFor, Item
      <4> QED BY <3>1, <4>1, <4>2
    <3>4. \A k \in 1..Len(calls) :
            /\ calls[k].do \in {"loadTexture", "setTexture"}
            /\ calls[k].do = "setTexture" => calls[k].i = m
      BY <3>1, <3>3 DEF Do, DoIn
    <3>5. FinishMade(calls)
      BY <1>7, <2>1, <3>4, MadeByEach DEF FinishMade, FinishKinds
    <3> QED BY <1>4, <2>5, <3>1, <3>3, <3>5
  <2> QED BY <2>3, <2>4, <2>5
<1>12. CASE LoadMaterial
  <2>1. Head(todo).do = "loadMaterial"
    BY <1>12 DEF LoadMaterial, Doing
  <2>2. \/ Makes(<<>>)
        \/ NewMaterial(m) /\ Makes(InfoCallsOf(m))
    BY <1>6, <1>12, LoadMaterialDoes DEF InfoCallsOf
  <2>3. CASE Makes(<<>>)
    BY <1>9, <1>10, <2>3
  <2>4. CASE NewMaterial(m) /\ Makes(InfoCallsOf(m))
    <3>1. PICK calls : calls = InfoCallsOf(m)
      OBVIOUS
    <3>2. InfoCallsRight(calls, m, gltf)
      BY <1>8, <2>1, <3>1, InfoCallsMade
    <3>3. calls \in Seq(CallsOf(gltf)) /\ Working(calls)
      BY <1>4, <2>4, <3>1, <3>2 DEF InfoCallsRight
    <3>4. FinishMade(calls)
      BY <1>7, <2>1, <2>4, <3>2, MadeByEach
         DEF FinishMade, InfoCallsRight, NewMaterial
    <3> QED BY <3>3, <3>4
  <2> QED BY <2>2, <2>3, <2>4
<1>13. Head(todo).do = "getTexture" => GetTexture
  BY Zenon DEF Calling, GraphCall, DataCall, LookCall, LoadScene, LoadRest,
     LoadGraph, InsertNode, LoadNode, LoadSkin, SetJoint, LoadMesh, NewPrimitive,
     GetData, CopyMaterial, MakeMesh, LoadAnimation, NewAction, MakeAnimation,
     LoadTexture, LoadImage, MakeTexture, LoadMaterial, SetTexture, SetMaterial,
     Doing
<1>14. Head(todo).do = "loadMaterial" => LoadMaterial
  BY Zenon DEF Calling, GraphCall, DataCall, LookCall, LoadScene, LoadRest,
     LoadGraph, InsertNode, LoadNode, LoadSkin, SetJoint, LoadMesh, NewPrimitive,
     GetData, CopyMaterial, MakeMesh, LoadAnimation, NewAction, MakeAnimation,
     LoadTexture, LoadImage, MakeTexture, GetTexture, SetTexture, SetMaterial,
     Doing
<1> QED BY <1>5, <1>11, <1>12, <1>13, <1>14

(* So the materials that are complete stay as they are.                    *)
LEMMA CompleteKept ==
  ASSUME NEW calls, Working(calls), FinishMade(calls), MaterialsMove
  PROVE  MaterialsKept
<1> SUFFICES ASSUME NEW i \in Elems(gltf.materials), Settled(i)
             PROVE  Settled(i)' /\ Item(coll'.materials, i) = Item(coll.materials, i)
  BY DEF MaterialsKept
<1>1. /\ Item(coll.materials, i) # Absent /\ ~Pending(FinishKinds, i)
  BY DEF Settled
<1>2. Head(todo) \in ToSet(todo)
  <2>1. todo # <<>> /\ todo \in Seq(CallsOf(gltf))
    BY DEF Working
  <2>2. 1 \in DOMAIN todo /\ Head(todo) = todo[1]
    BY <2>1
  <2> QED BY <2>2 DEF ToSet
<1>3. Head(todo).do \in FinishKinds => Head(todo).i # i
  BY <1>1, <1>2 DEF Pending
<1>4. Item(coll'.materials, i) = Item(coll.materials, i)
  BY <1>1, <1>3 DEF MaterialsMove, FinishKinds
<1>5. ~Pending(FinishKinds, i)'
  <2> SUFFICES ASSUME Pending(FinishKinds, i)'
               PROVE  FALSE
    OBVIOUS
  <2>1. PICK k \in 1..Len(calls) : calls[k].do \in FinishKinds /\ calls[k].i = i
    BY <1>1, PendingBefore
  <2> QED BY <1>1, <1>3, <2>1 DEF FinishMade, FinishKinds
<1> QED BY <1>1, <1>4, <1>5 DEF Settled

-----------------------------------------------------------------------------
(* What comes after the next call.                                         *)

LEMMA HeadFirst ==
  ASSUME todo \in Seq(CallsOf(gltf)), todo # <<>>, MeshesInTurn
  PROVE  /\ Head(todo) \in ToSet(todo)
         /\ \A c \in ToSet(todo) : c = Head(todo) \/ MeshFollows(Head(todo), c)
         /\ \A q \in 2..Len(todo) : MeshFollows(Head(todo), todo[q])
<1>1. DOMAIN todo = 1..Len(todo) /\ Len(todo) \in Nat /\ 1 \in DOMAIN todo
      /\ Head(todo) = todo[1]
  OBVIOUS
<1>2. \A q \in 2..Len(todo) : MeshFollows(Head(todo), todo[q])
  BY <1>1 DEF MeshesInTurn
<1>3. ASSUME NEW c \in ToSet(todo)
      PROVE  c = Head(todo) \/ MeshFollows(Head(todo), c)
  <2>1. PICK q \in DOMAIN todo : c = todo[q]
    BY DEF ToSet
  <2>2. q = 1 \/ q \in 2..Len(todo)
    BY <1>1
  <2> QED BY <1>1, <1>2, <2>1, <2>2
<1>4. Head(todo) \in ToSet(todo)
  BY <1>1 DEF ToSet
<1> QED BY <1>2, <1>3, <1>4

(* What is left is what was made, or what was behind.                      *)
LEMMA LeftOver ==
  ASSUME NEW calls, Working(calls), NEW c \in ToSet(todo')
  PROVE  \/ \E k \in 1..Len(calls) : c = calls[k]
         \/ c \in ToSet(todo) /\ \E q \in 2..Len(todo) : c = todo[q]
<1> PICK next : next = todo'
  OBVIOUS
<1>1. /\ next \in Seq(CallsOf(gltf))
      /\ \A p \in 1..Len(calls) : next[p] = calls[p]
      /\ \A p \in (Len(calls) + 1)..Len(next) :
           /\ next[p] = todo[p - Len(calls) + 1]
           /\ p - Len(calls) + 1 \in 2..Len(todo)
  BY Positions DEF Working, Makes
<1>2. DOMAIN next = 1..Len(next) /\ Len(next) \in Nat /\ Len(calls) \in Nat
      /\ DOMAIN todo = 1..Len(todo) /\ Len(todo) \in Nat
  BY <1>1 DEF Working
<1>3. PICK p \in 1..Len(next) : c = next[p]
  BY <1>2 DEF ToSet
<1>4. CASE p \in 1..Len(calls)
  BY <1>1, <1>3, <1>4
<1>5. CASE p \notin 1..Len(calls)
  <2>1. p \in (Len(calls) + 1)..Len(next)
    BY <1>2, <1>5
  <2>2. PICK q \in 2..Len(todo) : q = p - Len(calls) + 1
    BY <1>1, <2>1
  <2>3. c = todo[q] /\ q \in DOMAIN todo
    BY <1>1, <1>2, <1>3, <2>1, <2>2
  <2> QED BY <2>2, <2>3 DEF ToSet
<1> QED BY <1>4, <1>5

(* What a primitive of the file is.                                        *)
LEMMA PrimIs ==
  ASSUME gltf \in FileType, Valid(gltf), NEW m \in Elems(gltf.meshes),
         NEW p \in DOMAIN PrimitivesOf(m), NEW prim, prim = PrimitivesOf(m)[p]
  PROVE  /\ Len(PrimitivesOf(m)) \in Nat /\ p \in Nat /\ p >= 1
         /\ DOMAIN PrimitivesOf(m) = 1..Len(PrimitivesOf(m))
         /\ DataCount(prim) \in Nat
         /\ \A k \in 1..DataCount(prim) :
              AccessorFor(prim, k) \in Elems(gltf.accessors)
<1> PICK prims : prims = PrimitivesOf(m)
  OBVIOUS
<1>1. prims \in Seq(PrimitiveType)
  BY MeshRefers DEF PrimitivesOf
<1>2. /\ prim.attributes \in Seq(Strings \X Elems(gltf.accessors))
      /\ prim.indices \in Int
      /\ prim.indices >= 0 => prim.indices \in Elems(gltf.accessors)
  BY MeshRefers DEF PrimitivesOf
<1>3. PICK atts : atts = prim.attributes
  OBVIOUS
<1>4. PICK n \in Nat : n = Len(atts) /\ DOMAIN atts = 1..n
  BY <1>2, <1>3, ElementOfSeq
<1>5. \A k \in 1..n : atts[k] \in Strings \X Elems(gltf.accessors)
  BY <1>2, <1>3, <1>4, ElementOfSeq
<1>6. \A k \in 1..n : atts[k][2] \in Elems(gltf.accessors)
  BY <1>5
<1>7. DataCount(prim) \in Nat
      /\ \A k \in 1..DataCount(prim) : k \notin 1..n => prim.indices >= 0
  <2>1. PICK d : d = DataCount(prim)
    OBVIOUS
  <2>2. CASE prim.indices >= 0
    <3>1. d = n + 1
      BY <1>3, <1>4, <2>1, <2>2 DEF DataCount
    <3> QED BY <2>1, <2>2, <3>1
  <2>3. CASE ~(prim.indices >= 0)
    <3>1. d = n + 0
      BY <1>3, <1>4, <2>1, <2>3, Zenon DEF DataCount
    <3> QED BY <2>1, <3>1
  <2> QED BY <2>2, <2>3
<1>8. \A k \in 1..DataCount(prim) : AccessorFor(prim, k) \in Elems(gltf.accessors)
  BY <1>2, <1>3, <1>4, <1>6, <1>7 DEF AccessorFor
<1>9. Len(prims) \in Nat /\ DOMAIN prims = 1..Len(prims)
  BY <1>1
<1> QED BY <1>7, <1>8, <1>9

(* When no reads are pending there are none left.                          *)
LEMMA NoDataLeft ==
  ASSUME todo \in Seq(CallsOf(gltf)), ~PendingDo("getData"),
         NEW prim, DataCount(prim) \in Nat, NEW n \in Nat, DataLeft(prim, n)
  PROVE  n >= DataCount(prim)
<1> SUFFICES ASSUME n + 1 <= DataCount(prim)
             PROVE  FALSE
  OBVIOUS
<1>1. PICK k : k = n + 1
  OBVIOUS
<1>2. k \in (n + 1)..DataCount(prim) /\ k - n = 1
  BY <1>1
<1>3. 1 \in DOMAIN todo /\ todo[1].do = "getData"
  BY <1>2 DEF DataLeft
<1> QED BY <1>3 DEF PendingDo, ToSet

LEMMA NoDataLeftAfter ==
  ASSUME ~PendingDo("getData")', NEW prim, DataCount(prim) \in Nat, NEW n \in Nat,
         n >= DataCount(prim)
  PROVE  DataLeft(prim, n)'
<1>1. \A q \in DOMAIN todo' : todo'[q].do # "getData"
  BY DEF PendingDo, ToSet
<1>2. ~\E k : k \in (n + 1)..DataCount(prim)
  OBVIOUS
<1> QED BY <1>1, <1>2 DEF DataLeft

(* The calls that read, and those that do the rest of a mesh.              *)
MeshOnly == {"newPrimitive", "getData", "copyMaterial", "makeMesh"}
MakesNone(calls) == \A k \in 1..Len(calls) : calls[k].do \notin MeshOnly

(* What a primitive has left to do, while its material is made.            *)
LEMMA LastLeftKept ==
  ASSUME NEW calls, Working(calls), MakesNone(calls), MaterialsKept,
         Head(todo).do \notin MeshOnly, ~PendingDo("getData"),
         NEW m \in Elems(gltf.meshes), NEW p \in DOMAIN PrimitivesOf(m),
         NEW prim, prim = PrimitivesOf(m)[p],
         NEW data, NEW x, IsList(x.accessors), LastLeft(data, prim, x)
  PROVE  LastLeft(data, prim, x)' /\ ~PendingDo("getData")'
<1>1. /\ gltf' = gltf /\ gltf \in FileType /\ Valid(gltf)
      /\ todo \in Seq(CallsOf(gltf))
  BY DEF Working
<1>2. \A c \in ToSet(todo') : c.do \in MeshOnly => c \in ToSet(todo)
  BY LeftOver DEF MakesNone
<1>3. \A c \in ToSet(todo) : c.do \in MeshOnly => c \in ToSet(todo')
  <2>1. ToSet(todo) \subseteq ToSet(todo') \cup {Head(todo)}
    BY Positions DEF Working, Makes
  <2> QED BY <2>1
<1>4. ~PendingDo("getData")'
  BY <1>2 DEF PendingDo, MeshOnly
<1>5. DataLeft(prim, Len(x.accessors))'
  <2>1. Len(x.accessors) \in Nat /\ DataCount(prim) \in Nat
    BY <1>1, PrimIs DEF IsList
  <2>2. Len(x.accessors) >= DataCount(prim)
    BY <1>1, <2>1, NoDataLeft DEF LastLeft
  <2> QED BY <1>4, <2>1, <2>2, NoDataLeftAfter
<1>6. EntriesIn(data, prim, x)'
  BY <1>1, SameMeshes DEF LastLeft
<1>7. CopyLeft(prim, x)'
  <2>1. \A c \in ToSet(todo') : c.do = "copyMaterial" =>
          prim.material >= 0 /\ c.i = prim.material
    BY <1>2 DEF LastLeft, CopyLeft, MeshOnly
  <2>2. CASE PendingDo("copyMaterial")
    <3>1. PendingDo("copyMaterial")'
      BY <1>3, <2>2 DEF PendingDo, MeshOnly
    <3> QED BY <2>1, <3>1 DEF CopyLeft
  <2>3. CASE MaterialRight(prim, x)
    <3>1. MaterialRight(prim, x)'
      BY <1>1, <2>3, MaterialRightKept
    <3> QED BY <2>1, <3>1 DEF CopyLeft
  <2> QED BY <2>2, <2>3 DEF LastLeft, CopyLeft
<1> QED BY <1>4, <1>5, <1>6, <1>7 DEF LastLeft

(* What is pending of the meshes stays so while others work.               *)
LEMMA MeshPending ==
  ASSUME NEW calls, Working(calls), MakesNone(calls), Head(todo).do \notin MeshOnly
  PROVE  /\ \A m, p : PendingPrimitive(m, p)' <=> PendingPrimitive(m, p)
         /\ \A what \in MeshOnly : PendingDo(what)' <=> PendingDo(what)
         /\ \A m : Pending({"makeMesh"}, m)' <=> Pending({"makeMesh"}, m)
<1>1. \A c \in ToSet(todo') : c.do \in MeshOnly => c \in ToSet(todo)
  BY LeftOver DEF MakesNone
<1>2. \A c \in ToSet(todo) : c.do \in MeshOnly => c \in ToSet(todo')
  <2>1. ToSet(todo) \subseteq ToSet(todo') \cup {Head(todo)}
    BY Positions DEF Working, Makes
  <2> QED BY <2>1
<1>3. \A m, p : PendingPrimitive(m, p)' <=> PendingPrimitive(m, p)
  BY <1>1, <1>2 DEF PendingPrimitive, MeshOnly
<1>4. \A what \in MeshOnly : PendingDo(what)' <=> PendingDo(what)
  BY <1>1, <1>2 DEF PendingDo
<1>5. \A m : Pending({"makeMesh"}, m)' <=> Pending({"makeMesh"}, m)
  BY <1>1, <1>2 DEF Pending, MeshOnly
<1> QED BY <1>3, <1>4, <1>5

(* So does what a mesh has left to do.                                     *)
LEMMA MeshLeftKept ==
  ASSUME NEW calls, Working(calls), MakesNone(calls), MaterialsKept,
         Head(todo).do \notin MeshOnly, ~PendingDo("getData"),
         NEW m \in Elems(gltf.meshes), NEW v, MeshLeft(m, v)
  PROVE  MeshLeft(m, v)'
<1>1. /\ gltf' = gltf /\ gltf \in FileType /\ Valid(gltf)
  BY DEF Working
<1>2. PICK prims : prims = PrimitivesOf(m) /\ prims = PrimitivesOf(m)'
  BY <1>1, SameMeshes
<1>3. PICK n : n = Len(v.primitives)
  OBVIOUS
<1>4. /\ IsMeshData(v) /\ n \in Nat /\ n <= Len(prims)
  BY <1>2, <1>3 DEF MeshLeft, IsMeshData, IsList
<1>5. Len(prims) \in Nat /\ DOMAIN prims = 1..Len(prims)
  BY <1>1, <1>2, MeshRefers DEF PrimitivesOf
<1>6. PrimitivesLeft(m, n)'
  <2>1. PrimitivesLeft(m, n)
    BY <1>3 DEF MeshLeft
  <2> QED BY <1>2, <2>1, MeshPending DEF PrimitivesLeft
<1>7. ASSUME NEW p \in 1..(n - 1)
      PROVE  PrimWhole(v.data, prims[p], v.primitives[p])'
  <2>1. p \in DOMAIN prims
    BY <1>4, <1>5
  <2>2. PICK prim : prim = prims[p]
    OBVIOUS
  <2>3. PICK x : x = v.primitives[p]
    OBVIOUS
  <2>4. PICK data : data = v.data
    OBVIOUS
  <2>5. PrimWhole(data, prim, x)
    BY <1>2, <1>3, <2>2, <2>3, <2>4 DEF MeshLeft
  <2>6. PrimWhole(data, prim, x)'
    BY <1>1, <1>2, <2>1, <2>2, <2>5, PrimWholeKept
  <2> QED BY <2>2, <2>3, <2>4, <2>6
<1>8. CASE n = 0
  <2>1. ~PendingDo("getData") /\ ~PendingDo("copyMaterial")
    BY <1>3, <1>8 DEF MeshLeft
  <2>2. (~PendingDo("getData") /\ ~PendingDo("copyMaterial"))'
    BY <2>1, MeshPending DEF MeshOnly
  <2> QED BY <1>2, <1>3, <1>4, <1>6, <1>7, <1>8, <2>2 DEF MeshLeft
<1>9. CASE n # 0
  <2>1. n \in DOMAIN prims /\ n \in 1..n
    BY <1>4, <1>5, <1>9
  <2>2. PICK prim : prim = prims[n]
    OBVIOUS
  <2>3. PICK x : x = v.primitives[n]
    OBVIOUS
  <2>4. PICK data : data = v.data
    OBVIOUS
  <2>5. LastLeft(data, prim, x)
    BY <1>2, <1>3, <1>9, <2>2, <2>3, <2>4 DEF MeshLeft
  <2>6. IsList(x.accessors)
    BY <1>3, <1>4, <2>1, <2>3 DEF IsMeshData, IsPrimitive
  <2>7. LastLeft(data, prim, x)'
    BY <1>2, <2>1, <2>2, <2>5, <2>6, LastLeftKept
  <2> QED BY <1>2, <1>3, <1>4, <1>6, <1>7, <1>9, <2>2, <2>3, <2>4, <2>7
      DEF MeshLeft
<1> QED BY <1>8, <1>9

(* The calls that a call makes are in turn, unless they are of a mesh.     *)
LEMMA OthersInTurn ==
  ASSUME NEW calls, MakesNone(calls), FinishMade(calls)
  PROVE  CallsInTurn(calls)
<1> SUFFICES ASSUME NEW p \in 1..Len(calls), NEW q \in 1..Len(calls), p < q
             PROVE  MeshFollows(calls[p], calls[q])
  BY DEF CallsInTurn
<1>1. calls[q].do \notin MeshOnly
  BY DEF MakesNone
<1>2. CASE calls[q].do \notin FinishKinds
  BY <1>1, <1>2 DEF MeshFollows, MeshOnly
<1>3. CASE calls[q].do \in FinishKinds
  <2>1. Head(todo).do \in {"getTexture", "loadMaterial"}
    BY <1>3 DEF FinishMade
  <2>2. calls[p].do \in MadeBy(Head(todo).do)
    BY DEF FinishMade
  <2>3. calls[p].do \in {"getTexture", "setMaterial", "loadTexture", "setTexture"}
    BY <2>1, <2>2, MadeByEach
  <2> QED BY <1>1, <1>3, <2>3 DEF MeshFollows, MeshOnly, FinishKinds, TextureKinds
<1> QED BY <1>2, <1>3

(* A call that has nothing to do with meshes keeps what is known of them.  *)
LEMMA MeshesQuiet ==
  ASSUME NEW calls, Working(calls), FinishMade(calls), MaterialsMove, MeshParts,
         coll'.meshes = coll.meshes, meshData' = meshData,
         Head(todo).do \notin MeshOnly, MakesNone(calls),
         Head(todo).do = "loadMesh" => Item(coll.meshes, Head(todo).i) # Absent
  PROVE  MeshParts'
<1>1. /\ gltf' = gltf /\ todo \in Seq(CallsOf(gltf)) /\ todo # <<>>
  BY DEF Working
<1>2. MeshesInTurn'
  BY OthersInTurn, MeshesInTurnKept DEF MeshParts, FinishMade
<1>3. MaterialsReady'
  <2>1. \A p \in 1..Len(calls) : calls[p].do # "copyMaterial"
    BY DEF MakesNone, MeshOnly
  <2> QED BY <2>1, MaterialsReadyKept DEF MeshParts, MaterialsMove
<1>4. MaterialsKept
  BY CompleteKept
<1>5. MeshesMade'
  <2>1. \A m : Item(coll'.meshes, m) = Item(coll.meshes, m)
    OBVIOUS
  <2>2. Head(todo).do \in {"loadMesh", "makeMesh"} =>
          Item(coll'.meshes, Head(todo).i) # Absent
    BY <2>1 DEF MeshOnly
  <2> QED BY <1>4, <2>1, <2>2, MeshesMadeKept DEF MeshParts
<1>6. ~PendingDo("getData")
  <2> SUFFICES ASSUME NEW c \in ToSet(todo), c.do = "getData"
               PROVE  FALSE
    BY DEF PendingDo
  <2>1. c = Head(todo) \/ MeshFollows(Head(todo), c)
    BY <1>1, HeadFirst DEF MeshParts
  <2> QED BY <2>1 DEF MeshFollows, MeshOnly
<1>7. ASSUME NEW m \in Elems(gltf.meshes), Pending({"makeMesh"}, m)'
      PROVE  MeshLeft(m, meshData)'
  <2>1. Pending({"makeMesh"}, m)
    BY <1>7, MeshPending
  <2>2. PICK v : v = meshData
    OBVIOUS
  <2>3. MeshLeft(m, v)
    BY <2>1, <2>2 DEF MeshParts, MeshesUnderway
  <2>4. MeshLeft(m, v)'
    BY <1>4, <1>6, <2>3, MeshLeftKept
  <2> QED BY <2>2, <2>4 DEF MeshLeft
<1>8. MeshesUnderway'
  BY <1>1, <1>7 DEF MeshesUnderway
<1> QED BY <1>2, <1>3, <1>5, <1>8 DEF MeshParts

-----------------------------------------------------------------------------
(* What loadMesh does.                                                     *)
MeshDataInit == [data |-> <<>>, primitives |-> <<>>]

LEMMA LoadMeshDoes ==
  ASSUME LoadMesh, NEW m, m = I
  PROVE  /\ coll' = coll /\ load' = load
         /\ \/ Item(coll.meshes, m) # Absent /\ Makes(<<>>) /\ meshData' = meshData
            \/ /\ Item(coll.meshes, m) = Absent
               /\ meshData' = MeshDataInit /\ Makes(MeshCallsOf(m))
<1>1. CASE Item(coll.meshes, I) # Absent
  BY <1>1 DEF LoadMesh, Skip, Then, Makes, underway
<1>2. CASE Item(coll.meshes, I) = Absent
  <2>1. /\ coll' = coll /\ load' = load
        /\ meshData' = MeshDataInit
    BY <1>2 DEF LoadMesh, Then, MeshDataInit
  <2>2. Makes(MeshCallsOf(m))
    BY <1>2, Zenon DEF LoadMesh, Then, Makes, MeshCallsOf, PrimitivesOf
  <2> QED BY <1>2, <2>1, <2>2
<1> QED BY <1>1, <1>2

(* When a call outside of a mesh is next, nothing is left of any.          *)
LEMMA OutsideMesh ==
  ASSUME todo \in Seq(CallsOf(gltf)), todo # <<>>, MeshesInTurn,
         Head(todo).do = "loadMesh"
  PROVE  \A c \in ToSet(todo) : c.do \notin MeshOnly \cup FinishKinds
<1> SUFFICES ASSUME NEW c \in ToSet(todo), c.do \in MeshOnly \cup FinishKinds
             PROVE  FALSE
  OBVIOUS
<1>1. c = Head(todo) \/ MeshFollows(Head(todo), c)
  BY HeadFirst
<1>2. c # Head(todo)
  BY DEF MeshOnly, FinishKinds
<1> QED BY <1>1, <1>2
        DEF MeshFollows, MeshOnly, FinishKinds, TextureKinds, LookKinds, InPrimitive

(* Nothing was read of a mesh: nothing is wrong.                           *)
LEMMA NoPrimitives ==
  ASSUME NEW v, v = MeshDataInit
  PROVE  IsMeshData(v) /\ Len(v.primitives) = 0
<1> PICK e : e = <<>>
  OBVIOUS
<1>1. IsList(e) /\ Len(e) = 0
  <2>1. e \in Seq({}) /\ Len(e) = 0
    OBVIOUS
  <2> QED BY <2>1 DEF IsList
<1>2. /\ v.data = e /\ v.primitives = e
      /\ v = [data |-> v.data, primitives |-> v.primitives]
  BY DEF MeshDataInit
<1>3. ~\E p : p \in 1..Len(v.primitives)
  BY <1>1, <1>2
<1>4. IsMeshData(v)
  BY <1>1, <1>2, <1>3, Zenon DEF IsMeshData
<1> QED BY <1>1, <1>2, <1>4

(* loadMesh keeps the parts: one mesh is begun.                            *)
LEMMA LoadMeshBegins ==
  ASSUME MeshParts, NEW m, m \in Elems(gltf.meshes), m = Head(todo).i,
         Head(todo).do = "loadMesh", coll' = coll, meshData' = MeshDataInit,
         NEW calls, Working(calls), MeshCallsRight(calls, m)
  PROVE  MeshParts'
<1>1. /\ gltf' = gltf /\ gltf \in FileType /\ Valid(gltf)
      /\ todo \in Seq(CallsOf(gltf)) /\ todo # <<>>
  BY DEF Working
<1>2. \A c \in ToSet(todo) : c.do \notin MeshOnly \cup FinishKinds
  BY <1>1, OutsideMesh DEF MeshParts
<1>3. PICK n : n = Len(PrimitivesOf(m))
  OBVIOUS
<1>4. /\ n \in Nat /\ Len(calls) = n + 1
      /\ \A k \in 1..n : calls[k].do = "newPrimitive" /\ calls[k].i = m
                         /\ calls[k].n = k
      /\ calls[n + 1].do = "makeMesh" /\ calls[n + 1].i = m
  BY <1>3 DEF MeshCallsRight
<1>5. \A k \in 1..Len(calls) : k \in 1..n \/ k = n + 1
  BY <1>4
<1>6. \A k \in 1..Len(calls) : /\ calls[k].do \in {"newPrimitive", "makeMesh"}
                               /\ calls[k].i = m
  BY <1>4, <1>5
<1>7. CallsInTurn(calls)
  <2> SUFFICES ASSUME NEW p \in 1..Len(calls), NEW q \in 1..Len(calls), p < q
               PROVE  MeshFollows(calls[p], calls[q])
    BY DEF CallsInTurn
  <2>1. p \in 1..n
    BY <1>4
  <2>2. calls[p].do = "newPrimitive" /\ calls[p].i = m /\ calls[p].n = p
    BY <1>4, <2>1
  <2>3. CASE q \in 1..n
    <3>1. calls[q].do = "newPrimitive" /\ calls[q].i = m /\ calls[q].n = q
      BY <1>4, <2>3
    <3> QED BY <2>2, <3>1 DEF MeshFollows, FinishKinds
  <2>4. CASE q = n + 1
    <3>1. calls[q].do = "makeMesh" /\ calls[q].i = m
      BY <1>4, <2>4
    <3> QED BY <2>2, <3>1 DEF MeshFollows, FinishKinds
  <2> QED BY <1>5, <2>3, <2>4
<1>8. MeshesInTurn'
  <2>1. \A p \in 1..Len(calls) : calls[p].do \in MadeBy(Head(todo).do)
    BY <1>6, MadeByEach
  <2> QED BY <1>7, <2>1, MeshesInTurnKept DEF MeshParts
<1>9. MaterialsReady'
  <2>1. MaterialsStay
    BY DEF MaterialsStay
  <2>2. \A p \in 1..Len(calls) : calls[p].do # "copyMaterial"
    BY <1>6
  <2> QED BY <2>1, <2>2, MaterialsReadyKept DEF MeshParts
<1>10. MaterialsKept
  <2> SUFFICES ASSUME NEW i \in Elems(gltf.materials), Settled(i)
               PROVE  Settled(i)' /\ Item(coll'.materials, i) = Item(coll.materials, i)
    BY DEF MaterialsKept
  <2>1. ~Pending(FinishKinds, i)'
    <3> SUFFICES ASSUME Pending(FinishKinds, i)'
                 PROVE  FALSE
      OBVIOUS
    <3>1. ~Pending(FinishKinds, i)
      BY DEF Settled
    <3>2. PICK k \in 1..Len(calls) : calls[k].do \in FinishKinds
      BY <3>1, PendingBefore
    <3> QED BY <1>6, <3>2 DEF FinishKinds
  <2> QED BY <2>1 DEF Settled
<1>11. MeshesMade'
  <2>1. \E k \in 1..Len(calls) : calls[k].do = "makeMesh" /\ calls[k].i = Head(todo).i
    BY <1>4
  <2> QED BY <1>10, <2>1, MeshesMadeKept DEF MeshParts
<1>12. \A c \in ToSet(todo') : c.do \in MeshOnly => \E k \in 1..Len(calls) : c = calls[k]
  BY <1>2, LeftOver
<1>13. PICK v : v = MeshDataInit
  OBVIOUS
<1>14. IsMeshData(v) /\ Len(v.primitives) = 0
  BY <1>13, NoPrimitives
<1>15. PICK prims : prims = PrimitivesOf(m) /\ prims = PrimitivesOf(m)'
  BY <1>1, SameMeshes
<1>16. Len(prims) = n /\ DOMAIN prims = 1..n
  BY <1>1, <1>3, <1>15, MeshRefers DEF PrimitivesOf
<1>17. \A p \in 1..n : PendingPrimitive(m, p)'
  <2> TAKE p \in 1..n
  <2>1. p \in 1..Len(calls)
    BY <1>4
  <2>2. calls[p] \in ToSet(todo')
    BY <2>1, MadePending
  <2> QED BY <1>4, <2>2 DEF PendingPrimitive
<1>18. ASSUME NEW p, PendingPrimitive(m, p)'
       PROVE  p > 0
  <2>1. PICK c \in ToSet(todo') : c.do = "newPrimitive" /\ c.n = p
    BY <1>18 DEF PendingPrimitive
  <2>2. PICK k \in 1..Len(calls) : c = calls[k]
    BY <1>12, <2>1 DEF MeshOnly
  <2>3. k \in 1..n
    BY <1>4, <1>5, <2>1, <2>2
  <2> QED BY <1>4, <2>1, <2>2, <2>3
<1>19. PrimitivesLeft(m, 0)'
  BY <1>15, <1>16, <1>17, <1>18 DEF PrimitivesLeft
<1>20. (~PendingDo("getData") /\ ~PendingDo("copyMaterial"))'
  BY <1>6, <1>12 DEF PendingDo, MeshOnly
<1>21. MeshLeft(m, v)'
  <2>1. ~\E p : p \in 1..(0 - 1)
    OBVIOUS
  <2> QED BY <1>4, <1>14, <1>15, <1>16, <1>19, <1>20, <2>1 DEF MeshLeft
<1>22. MeshesUnderway'
  <2> SUFFICES ASSUME NEW j \in Elems(gltf.meshes), Pending({"makeMesh"}, j)'
               PROVE  MeshLeft(j, meshData)'
    BY <1>1 DEF MeshesUnderway
  <2>1. PICK c \in ToSet(todo') : c.do = "makeMesh" /\ c.i = j
    BY DEF Pending
  <2>2. PICK k \in 1..Len(calls) : c = calls[k]
    BY <1>12, <2>1 DEF MeshOnly
  <2>3. j = m
    BY <1>6, <2>1, <2>2
  <2> QED BY <1>13, <1>21, <2>3 DEF MeshLeft
<1> QED BY <1>8, <1>9, <1>11, <1>22 DEF MeshParts

LEMMA LoadMeshKept ==
  ASSUME LookInv, LoadMesh, load' = "loading", MeshParts
  PROVE  MeshParts'
<1>1. /\ load = "loading" /\ gltf \in FileType /\ Valid(gltf)
      /\ todo \in Seq(CallsOf(gltf)) /\ todo # <<>> /\ LoaderInv
      /\ Head(todo).do = "loadMesh" /\ Head(todo) \in CallsOf(gltf)
  BY HeadTyped DEF LoadMesh, LookInv
<1>2. PICK m : m = I /\ m = Head(todo).i
  BY DEF I
<1>3. m \in Elems(gltf.meshes)
  BY <1>1, <1>2, CallKinds DEF MeshCalls
<1>4. \A calls \in Seq(CallsOf(gltf)) : Makes(calls) => Working(calls)
  BY <1>1, CallingWorks DEF Calling, DataCall
<1>5. /\ coll' = coll
      /\ \/ Item(coll.meshes, m) # Absent /\ Makes(<<>>) /\ meshData' = meshData
         \/ meshData' = MeshDataInit /\ Makes(MeshCallsOf(m))
  BY <1>2, LoadMeshDoes
<1>6. CASE Item(coll.meshes, m) # Absent /\ Makes(<<>>) /\ meshData' = meshData
  <2>1. PICK calls \in Seq(CallsOf(gltf)) : calls = <<>> /\ Len(calls) = 0
    <3>1. <<>> \in Seq(CallsOf(gltf)) /\ Len(<<>>) = 0
      OBVIOUS
    <3> QED BY <3>1, Zenon
  <2>2. Working(calls)
    BY <1>4, <1>6, <2>1
  <2>3. ~\E k : k \in 1..Len(calls)
    BY <2>1
  <2>4. MakesNone(calls) /\ FinishMade(calls)
    BY <2>3, Zenon DEF MakesNone, FinishMade
  <2>5. MaterialsMove
    BY <1>1, MaterialsChange, LookInvIs DEF Calling, DataCall, Underway
  <2>6. Head(todo).do \notin MeshOnly
    BY <1>1 DEF MeshOnly
  <2> QED BY <1>2, <1>5, <1>6, <2>2, <2>4, <2>5, <2>6, MeshesQuiet
<1>7. CASE meshData' = MeshDataInit /\ Makes(MeshCallsOf(m))
  <2>1. PICK calls : calls = MeshCallsOf(m)
    OBVIOUS
  <2>2. MeshCallsRight(calls, m)
    BY <1>1, <1>3, <2>1, MeshCallsMade
  <2>3. Working(calls)
    BY <1>4, <1>7, <2>1, <2>2 DEF MeshCallsRight
  <2> QED BY <1>1, <1>2, <1>3, <1>5, <1>7, <2>2, <2>3, LoadMeshBegins
<1> QED BY <1>5, <1>6, <1>7

-----------------------------------------------------------------------------
(* The calls of a primitive, by their places.                              *)
LEMMA PrimitiveCallPlaces ==
  ASSUME NEW c, NEW prim, PrimitiveCallsRight(c, prim), NEW d, d = DataCount(prim),
         NEW k \in 1..Len(c)
  PROVE  \/ k \in 1..d /\ c[k].do = "getData"
         \/ /\ k = d + 1 /\ prim.material >= 0
            /\ c[k].do = "loadMaterial" /\ c[k].i = prim.material
         \/ /\ k = d + 2 /\ prim.material >= 0
            /\ c[k].do = "copyMaterial" /\ c[k].i = prim.material
<1>1. d \in Nat /\ \A j \in 1..d : c[j].do = "getData"
  BY DEF PrimitiveCallsRight
<1>2. CASE prim.material >= 0
  <2>1. /\ Len(c) = d + 2
        /\ c[d + 1].do = "loadMaterial" /\ c[d + 1].i = prim.material
        /\ c[d + 2].do = "copyMaterial" /\ c[d + 2].i = prim.material
    BY <1>2 DEF PrimitiveCallsRight
  <2>2. k \in 1..d \/ k = d + 1 \/ k = d + 2
    BY <1>1, <2>1
  <2> QED BY <1>1, <1>2, <2>1, <2>2
<1>3. CASE ~(prim.material >= 0)
  <2>1. Len(c) = d
    BY <1>3 DEF PrimitiveCallsRight
  <2> QED BY <1>1, <2>1
<1> QED BY <1>2, <1>3

(* They are in turn, and wait for the material.                            *)
LEMMA PrimitiveCallsInTurn ==
  ASSUME NEW c, NEW prim, PrimitiveCallsRight(c, prim)
  PROVE  /\ CallsInTurn(c)
         /\ \A k \in 1..Len(c) :
              /\ c[k].do \in {"getData", "loadMaterial", "copyMaterial"}
              /\ c[k].do = "copyMaterial" =>
                   k > 1 /\ c[k - 1].do = "loadMaterial" /\ c[k - 1].i = c[k].i
<1>1. PICK d : d = DataCount(prim)
  OBVIOUS
<1>2. d \in Nat
  BY <1>1 DEF PrimitiveCallsRight
<1>3. \A k \in 1..Len(c) :
        \/ k \in 1..d /\ c[k].do = "getData"
        \/ k = d + 1 /\ c[k].do = "loadMaterial"
        \/ k = d + 2 /\ c[k].do = "copyMaterial"
  BY <1>1, PrimitiveCallPlaces
<1>4. CallsInTurn(c)
  <2> SUFFICES ASSUME NEW p \in 1..Len(c), NEW q \in 1..Len(c), p < q
               PROVE  MeshFollows(c[p], c[q])
    BY DEF CallsInTurn
  <2>1. CASE q \in 1..d /\ c[q].do = "getData"
    <3>1. p \in 1..d
      BY <1>2, <2>1
    <3>2. c[p].do = "getData"
      BY <1>2, <1>3, <3>1
    <3> QED BY <2>1, <3>2 DEF MeshFollows, FinishKinds
  <2>2. CASE c[q].do = "loadMaterial"
    BY <2>2 DEF MeshFollows, FinishKinds
  <2>3. CASE q = d + 2 /\ c[q].do = "copyMaterial"
    <3>1. c[p].do \in {"getData", "loadMaterial"}
      BY <1>2, <1>3, <2>3
    <3> QED BY <2>3, <3>1 DEF MeshFollows, FinishKinds, LookKinds
  <2> QED BY <1>3, <2>1, <2>2, <2>3
<1>5. ASSUME NEW k \in 1..Len(c), c[k].do = "copyMaterial"
      PROVE  k > 1 /\ c[k - 1].do = "loadMaterial" /\ c[k - 1].i = c[k].i
  <2>1. /\ k = d + 2 /\ prim.material >= 0 /\ c[k].i = prim.material
    BY <1>1, <1>5, PrimitiveCallPlaces
  <2>2. c[d + 1].do = "loadMaterial" /\ c[d + 1].i = prim.material
    BY <1>1, <2>1 DEF PrimitiveCallsRight
  <2>3. k > 1 /\ k - 1 = d + 1
    BY <1>2, <2>1
  <2> QED BY <2>1, <2>2, <2>3
<1>6. \A k \in 1..Len(c) : c[k].do \in {"getData", "loadMaterial", "copyMaterial"}
  BY <1>3
<1> QED BY <1>4, <1>5, <1>6

(* What is behind a primitive, or the end of a mesh.                       *)
BehindNone(what) == \A q \in 2..Len(todo) : todo[q].do # what

LEMMA BehindPrimitive ==
  ASSUME todo \in Seq(CallsOf(gltf)), todo # <<>>, MeshesInTurn,
         Head(todo).do \in {"newPrimitive", "makeMesh"}
  PROVE  /\ BehindNone("getData") /\ BehindNone("copyMaterial")
         /\ ~PendingDo("getData") /\ ~PendingDo("copyMaterial")
         /\ \A q \in 2..Len(todo) :
              /\ todo[q].do \notin FinishKinds
              /\ todo[q].do = "newPrimitive" =>
                   /\ Head(todo).do = "newPrimitive"
                   /\ Head(todo).i = todo[q].i /\ Head(todo).n < todo[q].n
              /\ todo[q].do = "makeMesh" =>
                   Head(todo).do = "newPrimitive" /\ Head(todo).i = todo[q].i
<1>1. \A q \in 2..Len(todo) : MeshFollows(Head(todo), todo[q])
  BY HeadFirst
<1>2. \A c \in ToSet(todo) : c = Head(todo) \/ MeshFollows(Head(todo), c)
  BY HeadFirst
<1>3. Head(todo).do \notin InPrimitive
  BY DEF InPrimitive, LookKinds, FinishKinds, TextureKinds
<1>4. ASSUME NEW c, MeshFollows(Head(todo), c)
      PROVE  c.do # "getData" /\ c.do # "copyMaterial" /\ c.do \notin FinishKinds
  <2>1. c.do # "getData"
    BY <1>4 DEF MeshFollows
  <2>2. c.do # "copyMaterial"
    BY <1>3, <1>4 DEF MeshFollows, InPrimitive
  <2>3. c.do \notin FinishKinds
    BY <1>4 DEF MeshFollows, FinishKinds, TextureKinds
  <2> QED BY <2>1, <2>2, <2>3
<1>5. BehindNone("getData") /\ BehindNone("copyMaterial")
  BY <1>1, <1>4 DEF BehindNone
<1>6. ~PendingDo("getData") /\ ~PendingDo("copyMaterial")
  BY <1>2, <1>4 DEF PendingDo
<1>7. \A q \in 2..Len(todo) :
        /\ todo[q].do \notin FinishKinds
        /\ todo[q].do = "newPrimitive" =>
             /\ Head(todo).do = "newPrimitive"
             /\ Head(todo).i = todo[q].i /\ Head(todo).n < todo[q].n
        /\ todo[q].do = "makeMesh" =>
             Head(todo).do = "newPrimitive" /\ Head(todo).i = todo[q].i
  BY <1>1, <1>3, <1>4 DEF MeshFollows
<1> QED BY <1>5, <1>6, <1>7

(* When nothing is left to read or to copy, all primitives are complete.   *)
LEMMA AllWhole ==
  ASSUME gltf \in FileType, Valid(gltf), todo \in Seq(CallsOf(gltf)),
         ~PendingDo("getData"), ~PendingDo("copyMaterial"),
         NEW m \in Elems(gltf.meshes), NEW v, MeshLeft(m, v),
         NEW p \in 1..Len(v.primitives)
  PROVE  p \in DOMAIN PrimitivesOf(m)
         /\ PrimWhole(v.data, PrimitivesOf(m)[p], v.primitives[p])
<1>1. PICK prims : prims = PrimitivesOf(m)
  OBVIOUS
<1>2. PICK n : n = Len(v.primitives)
  OBVIOUS
<1>3. /\ IsMeshData(v) /\ n \in Nat /\ n <= Len(prims)
  BY <1>1, <1>2 DEF MeshLeft, IsMeshData, IsList
<1>4. Len(prims) \in Nat /\ DOMAIN prims = 1..Len(prims)
  BY <1>1, MeshRefers DEF PrimitivesOf
<1>5. p \in DOMAIN prims
  BY <1>2, <1>3, <1>4
<1>6. CASE p # n
  <2>1. p \in 1..(n - 1)
    BY <1>2, <1>3, <1>6
  <2> QED BY <1>1, <1>2, <1>5, <2>1 DEF MeshLeft
<1>7. CASE p = n
  <2>1. PICK prim : prim = prims[p]
    OBVIOUS
  <2>2. PICK x : x = v.primitives[p]
    OBVIOUS
  <2>3. n # 0
    BY <1>2, <1>3, <1>7
  <2>4. LastLeft(v.data, prim, x)
    BY <1>1, <1>2, <1>7, <2>1, <2>2, <2>3 DEF MeshLeft
  <2>5. IsList(x.accessors)
    BY <1>3, <2>2 DEF IsMeshData, IsPrimitive
  <2>6. DataCount(prim) \in Nat /\ Len(x.accessors) \in Nat
    BY <1>1, <1>5, <2>1, <2>5, PrimIs DEF IsList
  <2>7. Len(x.accessors) = DataCount(prim)
    <3>1. Len(x.accessors) >= DataCount(prim)
      BY <2>4, <2>6, NoDataLeft DEF LastLeft
    <3> QED BY <2>4, <2>6, <3>1 DEF LastLeft
  <2>8. MaterialRight(prim, x)
    BY <2>4 DEF LastLeft, CopyLeft
  <2>9. PrimWhole(v.data, prim, x)
    BY <2>4, <2>5, <2>7, <2>8 DEF PrimWhole, LastLeft
  <2> QED BY <1>1, <1>5, <2>1, <2>2, <2>9
<1> QED BY <1>6, <1>7

-----------------------------------------------------------------------------
(* A primitive that was begun.                                             *)
Fresh(x) ==
  /\ x = [topology |-> x.topology, accessors |-> x.accessors,
          material |-> x.material]
  /\ x.accessors = <<>> /\ x.material = Absent

LEMMA NewPrimitiveDoes ==
  ASSUME load = "loading", NewPrimitive, load' = "loading",
         NEW m, m = I, NEW prim, prim = PrimitivesOf(m)[Head(todo).n]
  PROVE  /\ coll' = coll /\ Makes(PrimitiveCalls(prim))
         /\ \E x : /\ Fresh(x)
                   /\ meshData' = [meshData EXCEPT !.primitives =
                                     Append(meshData.primitives, x)]
<1>1. PICK x : x = [topology |-> prim.mode, accessors |-> <<>>, material |-> Absent]
  OBVIOUS
<1>2. /\ meshData' = [meshData EXCEPT !.primitives = Append(meshData.primitives, x)]
      /\ Then(PrimitiveCalls(prim)) /\ coll' = coll
  <2>1. \/ ThrowLoad
        \/ /\ meshData' = [meshData EXCEPT !.primitives =
                             Append(meshData.primitives, x)]
           /\ Then(PrimitiveCalls(prim)) /\ coll' = coll
    BY <1>1, Zenon DEF NewPrimitive, PrimitivesOf
  <2> QED BY <2>1 DEF ThrowLoad
<1>3. Fresh(x)
  BY <1>1 DEF Fresh
<1> QED BY <1>2, <1>3 DEF Then, Makes

(* All of it is left to do.                                                *)
LEMMA LastBegins ==
  ASSUME NEW calls, Working(calls), NEW prim, PrimitiveCallsRight(calls, prim),
         BehindNone("getData"), BehindNone("copyMaterial"),
         prim.material \in Int, NEW data, NEW x, Fresh(x)
  PROVE  LastLeft(data, prim, x)'
<1>1. PICK d \in Nat : d = DataCount(prim)
  BY DEF PrimitiveCallsRight
<1>2. PICK next : next = todo'
  OBVIOUS
<1>3. /\ next \in Seq(CallsOf(gltf))
      /\ \A p \in 1..Len(calls) : next[p] = calls[p]
      /\ \A p \in (Len(calls) + 1)..Len(next) :
           /\ next[p] = todo[p - Len(calls) + 1]
           /\ p - Len(calls) + 1 \in 2..Len(todo)
      /\ Len(next) = Len(calls) + Len(todo) - 1
  BY <1>2, Positions DEF Working, Makes
<1>4. /\ Len(calls) \in Nat /\ Len(next) \in Nat /\ DOMAIN next = 1..Len(next)
      /\ Len(calls) <= Len(next)
  <2>1. Len(todo) \in Nat /\ Len(todo) >= 1
    BY DEF Working
  <2> QED BY <1>3, <2>1 DEF Working
<1>5. x.accessors = <<>> /\ Len(x.accessors) = 0
  BY DEF Fresh
<1>6. d <= Len(calls)
  BY <1>1 DEF PrimitiveCallsRight
<1>7. ASSUME NEW k \in (0 + 1)..d
      PROVE  /\ k - 0 \in DOMAIN next /\ next[k - 0].do = "getData"
             /\ next[k - 0].i = AccessorFor(prim, k)
             /\ next[k - 0].k = SemanticFor(prim, k)
  <2>1. k \in 1..d /\ k - 0 = k /\ k \in 1..Len(calls) /\ k \in DOMAIN next
    BY <1>4, <1>6
  <2>2. /\ calls[k].do = "getData" /\ calls[k].i = AccessorFor(prim, k)
        /\ calls[k].k = SemanticFor(prim, k)
    BY <1>1, <2>1 DEF PrimitiveCallsRight
  <2> QED BY <1>3, <2>1, <2>2
<1>8. ASSUME NEW q \in 1..Len(next)
      PROVE  \/ q \in 1..d
             \/ q = d + 1 /\ next[q].do = "loadMaterial"
             \/ /\ q = d + 2 /\ prim.material >= 0 /\ next[q].do = "copyMaterial"
                /\ next[q].i = prim.material
             \/ next[q].do \notin {"getData", "copyMaterial"}
  <2>1. CASE q \in 1..Len(calls)
    BY <1>1, <1>3, <2>1, PrimitiveCallPlaces
  <2>2. CASE q \notin 1..Len(calls)
    <3>1. q \in (Len(calls) + 1)..Len(next)
      BY <1>4, <2>2
    <3>2. PICK r \in 2..Len(todo) : r = q - Len(calls) + 1
      BY <1>3, <3>1
    <3>3. next[q] = todo[r]
      BY <1>3, <3>1, <3>2
    <3> QED BY <3>2, <3>3 DEF BehindNone
  <2> QED BY <2>1, <2>2
<1>9. ASSUME NEW q \in 1..Len(next), next[q].do = "getData"
      PROVE  0 + q <= d
  BY <1>8, <1>9
<1>10. DataLeft(prim, 0)'
  BY <1>1, <1>2, <1>4, <1>7, <1>9 DEF DataLeft
<1>11. ASSUME NEW c \in ToSet(next), c.do = "copyMaterial"
       PROVE  prim.material >= 0 /\ c.i = prim.material
  <2>1. PICK q \in 1..Len(next) : c = next[q]
    BY <1>4 DEF ToSet
  <2>2. q \notin 1..d
    <3>1. \A k \in 1..d : k \in 1..Len(calls) /\ calls[k].do = "getData"
      BY <1>1, <1>4, <1>6 DEF PrimitiveCallsRight
    <3> QED BY <1>3, <1>11, <2>1, <3>1
  <2> QED BY <1>8, <1>11, <2>1, <2>2
<1>12. CASE prim.material >= 0
  <2>1. PICK k \in 1..Len(calls) : calls[k].do = "copyMaterial"
    <3>1. Len(calls) = d + 2 /\ calls[d + 2].do = "copyMaterial"
      BY <1>1, <1>12 DEF PrimitiveCallsRight
    <3> QED BY <3>1
  <2>2. calls[k] \in ToSet(todo')
    BY <2>1, MadePending
  <2>3. PendingDo("copyMaterial")'
    BY <2>1, <2>2 DEF PendingDo
  <2>4. CopyLeft(prim, x)'
    BY <1>2, <1>11, <2>3 DEF CopyLeft
  <2> QED BY <1>1, <1>5, <1>10, <2>4 DEF LastLeft, EntriesIn
<1>13. CASE ~(prim.material >= 0)
  <2>1. prim.material < 0
    BY <1>13
  <2>2. MaterialRight(prim, x)'
    BY <2>1 DEF MaterialRight, Fresh
  <2>3. CopyLeft(prim, x)'
    BY <1>2, <1>11, <2>2 DEF CopyLeft
  <2> QED BY <1>1, <1>5, <1>10, <2>3 DEF LastLeft, EntriesIn
<1> QED BY <1>12, <1>13

(* The primitive that is begun is the next one of its mesh.                *)
LEMMA PrimitiveIsNext ==
  ASSUME todo \in Seq(CallsOf(gltf)), todo # <<>>, MeshesInTurn,
         Head(todo).do = "newPrimitive", NEW m, m = Head(todo).i,
         NEW k, k = Head(todo).n, k \in DOMAIN PrimitivesOf(m),
         PrimitivesOf(m) \in Seq(PrimitiveType),
         NEW n \in Nat, PrimitivesLeft(m, n)
  PROVE  k = n + 1
<1>1. k \in Nat /\ DOMAIN PrimitivesOf(m) = 1..Len(PrimitivesOf(m))
  OBVIOUS
<1>2. k > n
  <2>1. Head(todo) \in ToSet(todo)
    BY HeadFirst
  <2>2. PendingPrimitive(m, k)
    BY <2>1 DEF PendingPrimitive
  <2> QED BY <2>2 DEF PrimitivesLeft
<1>3. SUFFICES ASSUME n + 1 < k
               PROVE  FALSE
  BY <1>1, <1>2
<1>4. PICK j : j = n + 1
  OBVIOUS
<1>5. j \in DOMAIN PrimitivesOf(m) /\ ~(j <= n) /\ j < k /\ j \in Nat
  BY <1>1, <1>3, <1>4
<1>6. PendingPrimitive(m, j)
  BY <1>5 DEF PrimitivesLeft
<1>7. PICK c \in ToSet(todo) : c.do = "newPrimitive" /\ c.i = m /\ c.n = j
  BY <1>6 DEF PendingPrimitive
<1>8. c = Head(todo) \/ MeshFollows(Head(todo), c)
  BY HeadFirst
<1>9. c # Head(todo)
  BY <1>1, <1>5, <1>7
<1>10. k < j
  BY <1>7, <1>8, <1>9 DEF MeshFollows, InPrimitive, LookKinds, FinishKinds, TextureKinds
<1> QED BY <1>1, <1>5, <1>10

(* What is left of the primitives, when the next one was begun.            *)
LEMMA PrimitivesLess ==
  ASSUME NEW calls, Working(calls), MeshesInTurn,
         \A k \in 1..Len(calls) : calls[k].do # "newPrimitive",
         Head(todo).do = "newPrimitive", NEW m, m = Head(todo).i,
         PrimitivesOf(m) \in Seq(PrimitiveType),
         NEW n \in Nat, Head(todo).n = n + 1, PrimitivesLeft(m, n)
  PROVE  PrimitivesLeft(m, n + 1)'
<1>1. /\ gltf' = gltf /\ todo \in Seq(CallsOf(gltf)) /\ todo # <<>>
  BY DEF Working
<1>2. PICK prims : prims = PrimitivesOf(m) /\ prims = PrimitivesOf(m)'
  BY <1>1, SameMeshes
<1>3. ASSUME NEW p \in DOMAIN prims
      PROVE  p <= n + 1 \/ PendingPrimitive(m, p)'
  <2>1. p \in Nat
    BY <1>2
  <2>2. p <= n \/ PendingPrimitive(m, p)
    BY <1>2 DEF PrimitivesLeft
  <2>3. ASSUME PendingPrimitive(m, p), p # n + 1
        PROVE  PendingPrimitive(m, p)'
    <3>1. PICK c \in ToSet(todo) : c.do = "newPrimitive" /\ c.i = m /\ c.n = p
      BY <2>3 DEF PendingPrimitive
    <3>2. c # Head(todo)
      BY <2>3, <3>1
    <3>3. ToSet(todo) \subseteq ToSet(todo') \cup {Head(todo)}
      BY Positions DEF Working, Makes
    <3>4. c \in ToSet(todo')
      BY <3>2, <3>3
    <3> QED BY <3>1, <3>4 DEF PendingPrimitive
  <2> QED BY <2>1, <2>2, <2>3
<1>4. ASSUME NEW p, PendingPrimitive(m, p)'
      PROVE  p > n + 1
  <2>1. PICK c \in ToSet(todo') : c.do = "newPrimitive" /\ c.i = m /\ c.n = p
    BY <1>4 DEF PendingPrimitive
  <2>2. PICK q \in 2..Len(todo) : c = todo[q]
    BY <2>1, LeftOver
  <2>3. Head(todo).n < todo[q].n
    BY <1>1, <2>1, <2>2, BehindPrimitive
  <2> QED BY <2>1, <2>2, <2>3
<1> QED BY <1>2, <1>3, <1>4 DEF PrimitivesLeft

(* A mesh with one primitive more.                                         *)
LEMMA PrimitiveAdded ==
  ASSUME NEW v, IsMeshData(v), NEW x, Fresh(x),
         NEW w, w = [v EXCEPT !.primitives = Append(v.primitives, x)]
  PROVE  /\ IsMeshData(w) /\ w.data = v.data
         /\ Len(v.primitives) \in Nat /\ Len(w.primitives) = Len(v.primitives) + 1
         /\ \A p \in 1..Len(v.primitives) : w.primitives[p] = v.primitives[p]
         /\ w.primitives[Len(v.primitives) + 1] = x
<1>1. PICK s : s = v.primitives
  OBVIOUS
<1>2. PICK r : r = Append(s, x)
  OBVIOUS
<1>3. w = [data |-> v.data, primitives |-> r]
  BY <1>1, <1>2 DEF IsMeshData
<1>4. w.data = v.data /\ w.primitives = r
      /\ w = [data |-> w.data, primitives |-> w.primitives]
  <2>1. PICK data : data = v.data
    OBVIOUS
  <2>2. w = [data |-> data, primitives |-> r]
    BY <1>3, <2>1
  <2>3. w.data = data /\ w.primitives = r
    BY ONLY <2>2
  <2> QED BY <2>1, <2>2, <2>3
<1>5. IsList(s) /\ IsList(v.data) /\ \A p \in 1..Len(s) : IsPrimitive(s[p])
  BY <1>1 DEF IsMeshData
<1>6. Appended(r, s, x)
  BY <1>2, <1>5, AppendIs
<1>7. IsPrimitive(x)
  <2>1. <<>> \in Seq({})
    OBVIOUS
  <2> QED BY <2>1 DEF Fresh, IsPrimitive, IsList
<1>8. \A p \in 1..Len(r) : IsPrimitive(r[p])
  <2> TAKE p \in 1..Len(r)
  <2>1. p \in 1..Len(s) \/ p = Len(s) + 1
    BY <1>6 DEF Appended
  <2> QED BY <1>5, <1>6, <1>7, <2>1 DEF Appended
<1>9. IsMeshData(w)
  BY <1>4, <1>5, <1>6, <1>8 DEF IsMeshData, Appended
<1> QED BY <1>1, <1>4, <1>6, <1>9 DEF Appended

(* ... has it left to do.                                                  *)
LEMMA PrimitiveBegun ==
  ASSUME NEW calls, Working(calls), MeshesInTurn, MaterialsKept,
         Head(todo).do = "newPrimitive", NEW m, m = Head(todo).i,
         m \in Elems(gltf.meshes), NEW k, k = Head(todo).n,
         k \in DOMAIN PrimitivesOf(m), NEW prim, prim = PrimitivesOf(m)[k],
         PrimitiveCallsRight(calls, prim),
         NEW v, MeshLeft(m, v), NEW x, Fresh(x),
         NEW w, w = [v EXCEPT !.primitives = Append(v.primitives, x)]
  PROVE  MeshLeft(m, w)'
<1>1. /\ gltf' = gltf /\ gltf \in FileType /\ Valid(gltf)
      /\ todo \in Seq(CallsOf(gltf)) /\ todo # <<>>
  BY DEF Working
<1>2. PICK prims : prims = PrimitivesOf(m) /\ prims = PrimitivesOf(m)'
  BY <1>1, SameMeshes
<1>3. PICK n : n = Len(v.primitives)
  OBVIOUS
<1>4. IsMeshData(v) /\ n <= Len(prims) /\ PrimitivesLeft(m, n)
  BY <1>2, <1>3 DEF MeshLeft
<1>5. /\ IsMeshData(w) /\ w.data = v.data /\ n \in Nat
      /\ Len(w.primitives) = n + 1
      /\ \A p \in 1..n : w.primitives[p] = v.primitives[p]
      /\ w.primitives[n + 1] = x
  BY <1>3, <1>4, PrimitiveAdded
<1>6. prims \in Seq(PrimitiveType) /\ Len(prims) \in Nat /\ DOMAIN prims = 1..Len(prims)
  <2>1. prims \in Seq(PrimitiveType)
    BY <1>1, <1>2, MeshRefers DEF PrimitivesOf
  <2> QED BY ONLY <2>1
<1>7. k = n + 1
  BY <1>1, <1>2, <1>4, <1>5, <1>6, PrimitiveIsNext
<1>8. n + 1 <= Len(prims) /\ n + 1 # 0 /\ (n + 1) - 1 = n
  BY <1>2, <1>5, <1>6, <1>7
<1>9. PrimitivesLeft(m, n + 1)'
  <2>1. \A q \in 1..Len(calls) : calls[q].do # "newPrimitive"
    BY PrimitiveCallsInTurn
  <2> QED BY <1>2, <1>4, <1>5, <1>6, <1>7, <2>1, PrimitivesLess
<1>10. /\ BehindNone("getData") /\ BehindNone("copyMaterial")
       /\ ~PendingDo("getData") /\ ~PendingDo("copyMaterial")
  BY <1>1, BehindPrimitive
<1>11. ASSUME NEW p \in 1..n
       PROVE  PrimWhole(w.data, prims[p], w.primitives[p])'
  <2>1. PICK data : data = v.data
    OBVIOUS
  <2>2. PICK y : y = v.primitives[p]
    OBVIOUS
  <2>3. PICK pr : pr = prims[p]
    OBVIOUS
  <2>4. p \in DOMAIN prims /\ PrimWhole(data, pr, y)
    BY <1>1, <1>2, <1>3, <1>10, <2>1, <2>2, <2>3, AllWhole
  <2>5. PrimWhole(data, pr, y)'
    BY <1>1, <1>2, <2>3, <2>4, PrimWholeKept
  <2>6. w.data = data /\ w.primitives[p] = y
    BY <1>5, <2>1, <2>2
  <2> QED BY <2>3, <2>5, <2>6
<1>12. LastLeft(w.data, prims[n + 1], w.primitives[n + 1])'
  <2>1. PICK data : data = w.data
    OBVIOUS
  <2>2. prim.material \in Int
    BY <1>1, MeshRefers DEF PrimitivesOf
  <2>3. LastLeft(data, prim, x)'
    BY <1>10, <2>2, LastBegins
  <2>4. prims[n + 1] = prim /\ w.primitives[n + 1] = x
    BY <1>2, <1>5, <1>7
  <2> QED BY <2>1, <2>3, <2>4
<1> QED BY <1>2, <1>5, <1>8, <1>9, <1>11, <1>12 DEF MeshLeft

(* newPrimitive keeps the parts.                                           *)
LEMMA NewPrimitiveKept ==
  ASSUME LookInv, NewPrimitive, load' = "loading", MeshParts
  PROVE  MeshParts'
<1>1. /\ load = "loading" /\ gltf \in FileType /\ Valid(gltf)
      /\ todo \in Seq(CallsOf(gltf)) /\ todo # <<>> /\ LoaderInv
      /\ Head(todo).do = "newPrimitive" /\ Head(todo) \in CallsOf(gltf)
  BY HeadTyped DEF NewPrimitive, LookInv
<1>2. PICK m : m = I /\ m = Head(todo).i
  BY DEF I
<1>3. PICK k : k = Head(todo).n
  OBVIOUS
<1>4. m \in Elems(gltf.meshes) /\ k \in DOMAIN PrimitivesOf(m)
  BY <1>1, <1>2, <1>3, CallKinds DEF PrimitivesCalls, PrimitivesOf, Item
<1>5. PICK prim : prim = PrimitivesOf(m)[k]
  OBVIOUS
<1>6. PICK calls : calls = PrimitiveCalls(prim)
  OBVIOUS
<1>7. PrimitiveCallsRight(calls, prim)
  BY <1>1, <1>4, <1>5, <1>6, PrimitiveCallsMade
<1>8. /\ coll' = coll /\ Makes(calls)
      /\ \E x : /\ Fresh(x)
                /\ meshData' = [meshData EXCEPT !.primitives =
                                  Append(meshData.primitives, x)]
  BY <1>1, <1>2, <1>3, <1>5, <1>6, NewPrimitiveDoes
<1>9. Working(calls)
  <2>1. calls \in Seq(CallsOf(gltf))
    BY <1>7 DEF PrimitiveCallsRight
  <2> QED BY <1>1, <1>8, <2>1, CallingWorks DEF Calling, DataCall
<1>10. gltf' = gltf
  BY <1>9 DEF Working
<1>11. /\ CallsInTurn(calls)
       /\ \A q \in 1..Len(calls) :
            /\ calls[q].do \in {"getData", "loadMaterial", "copyMaterial"}
            /\ calls[q].do = "copyMaterial" =>
                 q > 1 /\ calls[q - 1].do = "loadMaterial"
                 /\ calls[q - 1].i = calls[q].i
  BY <1>7, PrimitiveCallsInTurn
<1>12. \A q \in 1..Len(calls) : calls[q].do \in MadeBy(Head(todo).do)
  BY <1>1, <1>11, MadeByEach
<1>13. MaterialsMove
  BY <1>1, MaterialsChange, LookInvIs DEF Calling, DataCall, Underway
<1>14. MaterialsKept
  <2>1. FinishMade(calls)
    BY <1>11, <1>12 DEF FinishMade, FinishKinds
  <2> QED BY <1>9, <1>13, <2>1, CompleteKept
<1>15. MeshesInTurn'
  BY <1>9, <1>11, <1>12, MeshesInTurnKept DEF MeshParts
<1>16. MaterialsReady'
  BY <1>9, <1>11, <1>13, MaterialsReadyKept DEF MeshParts, MaterialsMove
<1>17. MeshesMade'
  BY <1>1, <1>8, <1>9, <1>14, MeshesMadeKept DEF MeshParts
<1>18. MeshesUnderway'
  <2> SUFFICES ASSUME NEW j \in Elems(gltf.meshes), Pending({"makeMesh"}, j)'
               PROVE  MeshLeft(j, meshData)'
    BY <1>10 DEF MeshesUnderway
  <2>1. PICK c \in ToSet(todo') : c.do = "makeMesh" /\ c.i = j
    BY DEF Pending
  <2>2. c \in ToSet(todo) /\ \E q \in 2..Len(todo) : c = todo[q]
    <3>1. ~\E q \in 1..Len(calls) : c = calls[q]
      BY <1>11, <2>1
    <3> QED BY <1>9, <3>1, LeftOver
  <2>3. j = m
    BY <1>1, <1>2, <2>1, <2>2, BehindPrimitive DEF MeshParts
  <2>4. PICK v : v = meshData
    OBVIOUS
  <2>5. PICK w : w = meshData'
    OBVIOUS
  <2>6. MeshLeft(m, v)
    <3>1. Pending({"makeMesh"}, m)
      BY <2>1, <2>2, <2>3 DEF Pending
    <3> QED BY <1>4, <2>4, <3>1 DEF MeshParts, MeshesUnderway
  <2>7. PICK x : Fresh(x) /\ w = [v EXCEPT !.primitives = Append(v.primitives, x)]
    BY <1>8, <2>4, <2>5
  <2>8. MeshLeft(m, w)'
    BY <1>1, <1>2, <1>3, <1>4, <1>5, <1>7, <1>9, <1>14, <2>6, <2>7, PrimitiveBegun
       DEF MeshParts
  <2> QED BY <2>3, <2>5, <2>8 DEF MeshLeft
<1> QED BY <1>15, <1>16, <1>17, <1>18 DEF MeshParts

-----------------------------------------------------------------------------
(* A list with one element replaced is one.                                *)
LEMMA ListPut ==
  ASSUME NEW s, IsList(s), NEW r, DOMAIN r = 1..Len(s),
         r = [p \in 1..Len(s) |-> r[p]], NEW n \in 1..Len(s),
         \A p \in 1..Len(s) : p # n => r[p] = s[p]
  PROVE  IsList(r) /\ Len(r) = Len(s)
<1>1. PICK T : s \in Seq(T)
  BY DEF IsList
<1>2. PICK U : U = T \cup {r[n]}
  OBVIOUS
<1>3. PICK l \in Nat : l = Len(s) /\ \A p \in 1..l : s[p] \in T
  BY <1>1, ElementOfSeq
<1>4. \A p \in 1..l : r[p] \in U
  BY <1>2, <1>3
<1>5. DOMAIN r = 1..l /\ r = [p \in 1..l |-> r[p]]
  BY <1>3
<1>6. r \in Seq(U) /\ Len(r) = l
  BY ONLY <1>4, <1>5, Listed
<1> QED BY <1>3, <1>6 DEF IsList

(* What is read of a mesh is put at the end of its data, and of the last   *)
(* primitive's accessors.                                                  *)
DataPut(w, v, n, entry, content) ==
  /\ IsMeshData(w) /\ Appended(w.data, v.data, content)
  /\ Len(w.primitives) = n
  /\ \A p \in 1..(n - 1) : w.primitives[p] = v.primitives[p]
  /\ Appended(w.primitives[n].accessors, v.primitives[n].accessors, entry)
  /\ w.primitives[n].material = v.primitives[n].material

LEMMA DataAdded ==
  ASSUME NEW v, IsMeshData(v), NEW n, n = Len(v.primitives), n \in 1..n,
         NEW entry, NEW content,
         NEW w, w = [v EXCEPT !.data = Append(v.data, content),
                              !.primitives[n].accessors =
                                Append(v.primitives[n].accessors, entry)]
  PROVE  DataPut(w, v, n, entry, content)
<1>1. PICK s : s = v.primitives
  OBVIOUS
<1>2. PICK x : x = s[n]
  OBVIOUS
<1>3. PICK acc : acc = Append(x.accessors, entry)
  OBVIOUS
<1>4. PICK data : data = Append(v.data, content)
  OBVIOUS
<1>5. IsList(s) /\ IsList(v.data) /\ IsPrimitive(x)
      /\ \A p \in 1..n : IsPrimitive(s[p])
  BY <1>1, <1>2 DEF IsMeshData
<1>6. PICK y : y = [x EXCEPT !.accessors = acc]
  OBVIOUS
<1>7. y = [topology |-> x.topology, accessors |-> acc, material |-> x.material]
  BY <1>5, <1>6 DEF IsPrimitive
<1>8. PICK r : r = [s EXCEPT ![n] = y]
  OBVIOUS
<1>9. w = [v EXCEPT !.data = data, !.primitives = r]
  BY <1>1, <1>2, <1>3, <1>4, <1>6, <1>8
<1>10. w = [data |-> data, primitives |-> r]
  BY <1>9 DEF IsMeshData
<1>11. /\ IsList(r) /\ Len(r) = n /\ r[n] = y
       /\ \A p \in 1..n : p # n => r[p] = s[p]
  <2>1. IsList(s) /\ n \in 1..Len(s) /\ n = Len(s)
    BY <1>1, <1>5
  <2>2. DOMAIN s = 1..Len(s)
    BY <2>1 DEF IsList
  <2>3. /\ DOMAIN r = 1..Len(s) /\ r = [p \in 1..Len(s) |-> r[p]] /\ r[n] = y
        /\ \A p \in 1..Len(s) : p # n => r[p] = s[p]
    BY ONLY <1>8, <2>1, <2>2
  <2>4. IsList(r) /\ Len(r) = Len(s)
    BY ONLY <2>1, <2>3, ListPut
  <2> QED BY ONLY <2>1, <2>3, <2>4
<1>12. Appended(data, v.data, content) /\ Appended(acc, x.accessors, entry)
  BY <1>3, <1>4, <1>5, AppendIs DEF IsPrimitive
<1>13. y.accessors = acc /\ y.material = x.material /\ y.topology = x.topology
  BY ONLY <1>7
<1>14. IsPrimitive(y)
  <2>1. y = [topology |-> y.topology, accessors |-> y.accessors,
             material |-> y.material]
    BY ONLY <1>7, <1>13
  <2> QED BY <1>12, <1>13, <2>1 DEF IsPrimitive, Appended
<1>15. w.data = data /\ w.primitives = r
       /\ w = [data |-> w.data, primitives |-> w.primitives]
  <2>1. w.data = data /\ w.primitives = r
    BY ONLY <1>10
  <2> QED BY ONLY <1>10, <2>1
<1>16. IsMeshData(w)
  <2>1. \A p \in 1..n : IsPrimitive(r[p])
    BY <1>5, <1>11, <1>14
  <2> QED BY <1>11, <1>12, <1>15, <2>1 DEF IsMeshData, Appended
<1>17. \A p \in 1..(n - 1) : r[p] = s[p]
  <2>1. \A p \in 1..(n - 1) : p \in 1..n /\ p # n
    OBVIOUS
  <2> QED BY <1>11, <2>1
<1> QED BY <1>1, <1>2, <1>11, <1>12, <1>13, <1>15, <1>16, <1>17 DEF DataPut

(* What a primitive has read it still has when there is more data.         *)
LEMMA EntriesGrow ==
  ASSUME NEW s, NEW r, Grows(s, r), NEW prim, NEW x, EntriesIn(s, prim, x)
  PROVE  EntriesIn(r, prim, x)
<1> SUFFICES ASSUME NEW k \in 1..Len(x.accessors)
             PROVE  EntryRight(r, x.accessors[k], prim, k)
  BY DEF EntriesIn
<1>1. EntryRight(s, x.accessors[k], prim, k)
  BY DEF EntriesIn
<1> QED BY <1>1, HoldsOn DEF EntryRight

(* The read that is next is the one that its primitive has left first.     *)
LEMMA DataIsNext ==
  ASSUME todo \in Seq(CallsOf(gltf)), todo # <<>>, Head(todo).do = "getData",
         NEW prim, DataCount(prim) \in Nat, NEW l \in Nat, DataLeft(prim, l)
  PROVE  /\ l + 1 \in 1..DataCount(prim)
         /\ Head(todo).i = AccessorFor(prim, l + 1)
         /\ Head(todo).k = SemanticFor(prim, l + 1)
<1>1. 1 \in DOMAIN todo /\ todo[1] = Head(todo)
  OBVIOUS
<1>2. l + 1 <= DataCount(prim)
  BY <1>1 DEF DataLeft
<1>3. PICK k : k = l + 1
  OBVIOUS
<1>4. k \in (l + 1)..DataCount(prim) /\ k - l = 1 /\ k \in 1..DataCount(prim)
  BY <1>2, <1>3
<1> QED BY <1>1, <1>3, <1>4 DEF DataLeft

(* ... and then there is one less.                                         *)
LEMMA DataLess ==
  ASSUME NEW calls, Working(calls), calls = <<>>,
         NEW prim, DataCount(prim) \in Nat, NEW l \in Nat, DataLeft(prim, l)
  PROVE  DataLeft(prim, l + 1)'
<1>1. PICK next : next = todo'
  OBVIOUS
<1>2. PICK e \in Nat : e = Len(todo) /\ e >= 1 /\ DOMAIN todo = 1..e
  BY DEF Working
<1>3. /\ DOMAIN next = 1..(e - 1)
      /\ \A p \in 1..(e - 1) : next[p] = todo[p + 1]
  <2>1. Len(calls) = 0
    OBVIOUS
  <2>2. /\ next \in Seq(CallsOf(gltf)) /\ Len(next) = 0 + e - 1
        /\ \A p \in (0 + 1)..Len(next) : next[p] = todo[p - 0 + 1]
    BY <1>1, <1>2, <2>1, Positions DEF Working, Makes
  <2> QED BY <1>2, <2>2
<1>4. ASSUME NEW k \in ((l + 1) + 1)..DataCount(prim)
      PROVE  /\ k - (l + 1) \in DOMAIN next /\ next[k - (l + 1)].do = "getData"
             /\ next[k - (l + 1)].i = AccessorFor(prim, k)
             /\ next[k - (l + 1)].k = SemanticFor(prim, k)
  <2>1. PICK p : p = k - (l + 1)
    OBVIOUS
  <2>2. k \in (l + 1)..DataCount(prim) /\ k - l = p + 1 /\ p \in Nat /\ p >= 1
    BY <2>1
  <2>3. /\ p + 1 \in DOMAIN todo /\ todo[p + 1].do = "getData"
        /\ todo[p + 1].i = AccessorFor(prim, k)
        /\ todo[p + 1].k = SemanticFor(prim, k)
    BY <2>2 DEF DataLeft
  <2>4. p \in 1..(e - 1)
    BY <1>2, <2>2, <2>3
  <2> QED BY <1>3, <2>1, <2>3, <2>4
<1>5. ASSUME NEW q \in DOMAIN next, next[q].do = "getData"
      PROVE  (l + 1) + q <= DataCount(prim)
  <2>1. q \in 1..(e - 1) /\ q + 1 \in DOMAIN todo /\ next[q] = todo[q + 1]
    BY <1>2, <1>3
  <2>2. l + (q + 1) <= DataCount(prim)
    BY <1>5, <2>1 DEF DataLeft
  <2> QED BY <1>2, <2>1, <2>2
<1> QED BY <1>1, <1>4, <1>5 DEF DataLeft

(* What getData does.                                                      *)
IsEntry(entry, i, what, n) ==
  /\ entry.semantic = what /\ entry.dataIndex = n
  /\ entry.elementN = Item(gltf.accessors, i).count
  /\ entry.elementSize = SizeOf(i)

DataSet(w, v, n, entry, content) ==
  w = [v EXCEPT !.data = Append(v.data, content),
                !.primitives[n].accessors =
                  Append(v.primitives[n].accessors, entry)]

LEMMA GetDataDoes ==
  ASSUME load = "loading", GetData, load' = "loading", NEW i, i = Head(todo).i,
         NEW v, v = meshData, NEW n, n = Len(v.primitives)
  PROVE  /\ coll' = coll /\ Makes(<<>>)
         /\ \E entry, content :
              /\ IsEntry(entry, i, Head(todo).k, Len(v.data))
              /\ ViewOf(Item(gltf.accessors, i)).byteStride <= 0 =>
                   content = Content(Item(gltf.accessors, i), SizeOf(i))
              /\ DataSet(meshData', v, n, entry, content)
<1>1. PICK acc : acc = Item(gltf.accessors, i)
  OBVIOUS
<1>2. PICK size : size = SizeOf(i) /\ size = SizeOfComponentType(acc) * SizeOfType(acc)
  BY <1>1 DEF SizeOf
<1>3. PICK entry : entry = [semantic |-> Head(todo).k, dataIndex |-> Len(v.data),
                            dataOffset |-> 0, elementN |-> acc.count,
                            elementSize |-> size]
  OBVIOUS
<1>4. PICK content : content = IF ViewOf(acc).byteStride <= 0 THEN Content(acc, size)
                               ELSE Interleaved(acc, size)
  OBVIOUS
<1>5. \/ ThrowLoad
      \/ /\ meshData' = [v EXCEPT !.data = Append(v.data, content),
                                  !.primitives[n].accessors =
                                     Append(v.primitives[n].accessors, entry)]
         /\ Then(<<>>) /\ coll' = coll
  BY <1>1, <1>2, <1>3, <1>4, Zenon DEF GetData, I
<1>6. /\ meshData' = [v EXCEPT !.data = Append(v.data, content),
                               !.primitives[n].accessors =
                                 Append(v.primitives[n].accessors, entry)]
      /\ Then(<<>>) /\ coll' = coll
  BY <1>5 DEF ThrowLoad
<1>7. IsEntry(entry, i, Head(todo).k, Len(v.data))
  BY <1>1, <1>2, <1>3 DEF IsEntry
<1>8. DataSet(meshData', v, n, entry, content)
  BY <1>6 DEF DataSet
<1> QED BY <1>1, <1>2, <1>4, <1>6, <1>7, <1>8 DEF Then, Makes

(* ... to the last primitive: it has one entry more, and it is right.      *)
LEMMA EntryAdded ==
  ASSUME NEW v, NEW w, NEW n, NEW entry, NEW content, DataPut(w, v, n, entry, content),
         NEW prim, NEW x, x = v.primitives[n], NEW y, y = w.primitives[n],
         EntriesIn(v.data, prim, x), NEW l \in Nat, l = Len(x.accessors),
         NEW i, i = AccessorFor(prim, l + 1),
         IsEntry(entry, i, SemanticFor(prim, l + 1), Len(v.data)),
         content = SelectedBy(i, SizeOf(i))
  PROVE  /\ EntriesIn(w.data, prim, y) /\ Len(y.accessors) = l + 1
         /\ Grows(v.data, w.data)
<1>1. /\ Grows(v.data, w.data) /\ Holds(w.data, Len(v.data), content)
  BY AppendGrows DEF DataPut, Holds
<1>2. EntriesIn(w.data, prim, x)
  BY <1>1, EntriesGrow
<1>3. /\ Len(y.accessors) = l + 1 /\ y.accessors[l + 1] = entry
      /\ \A k \in 1..l : y.accessors[k] = x.accessors[k]
  BY DEF DataPut, Appended
<1>4. EntryRight(w.data, entry, prim, l + 1)
  BY <1>1 DEF EntryRight, IsEntry
<1>5. ASSUME NEW k \in 1..(l + 1)
      PROVE  EntryRight(w.data, y.accessors[k], prim, k)
  <2>1. k \in 1..l \/ k = l + 1
    OBVIOUS
  <2> QED BY <1>2, <1>3, <1>4, <2>1 DEF EntriesIn
<1> QED BY <1>1, <1>3, <1>5 DEF EntriesIn

LEMMA SizesAre ==
  ASSUME NEW acc
  PROVE  SizeOfComponentType(acc) * SizeOfType(acc) \in Int
<1>1. SizeOfComponentType(acc) \in {0, 1, 2, 4}
  <2>1. PICK c : c = acc.componentType
    OBVIOUS
  <2>2. CASE c \in {5120, 5121}
    BY <2>1, <2>2 DEF SizeOfComponentType
  <2>3. CASE c \in {5122, 5123}
    BY <2>1, <2>3 DEF SizeOfComponentType
  <2>4. CASE c \in {5125, 5126}
    BY <2>1, <2>4 DEF SizeOfComponentType
  <2>5. CASE c \notin {5120, 5121, 5122, 5123, 5125, 5126}
    BY <2>1, <2>5 DEF SizeOfComponentType
  <2> QED BY <2>2, <2>3, <2>4, <2>5
<1>2. SizeOfType(acc) \in {0, 1, 2, 3, 4, 9, 16}
  BY Zenon DEF SizeOfType
<1> QED BY <1>1, <1>2


(* A call of a mesh that makes no others, but for the last: what is        *)
(* pending of primitives stays so.                                         *)
LEMMA PrimitivesStay ==
  ASSUME NEW calls, Working(calls), calls = <<>>,
         Head(todo).do \in {"getData", "copyMaterial"}, NEW m, NEW n,
         PrimitivesLeft(m, n)
  PROVE  PrimitivesLeft(m, n)'
<1>1. gltf' = gltf
  BY DEF Working
<1>2. PrimitivesOf(m)' = PrimitivesOf(m)
  BY <1>1, SameMeshes
<1>3. \A c \in ToSet(todo') : c \in ToSet(todo)
  <2>1. ~\E k : k \in 1..Len(calls)
    OBVIOUS
  <2> QED BY <2>1, LeftOver
<1>4. \A c \in ToSet(todo) : c.do = "newPrimitive" => c \in ToSet(todo')
  <2>1. ToSet(todo) \subseteq ToSet(todo') \cup {Head(todo)}
    BY Positions DEF Working, Makes
  <2> QED BY <2>1
<1>5. \A p : PendingPrimitive(m, p)' <=> PendingPrimitive(m, p)
  BY <1>3, <1>4 DEF PendingPrimitive
<1> QED BY <1>2, <1>5 DEF PrimitivesLeft

(* The data that is read is what a primitive has left.                     *)
LEMMA DataRead ==
  ASSUME NEW calls, Working(calls), calls = <<>>, Packed, MaterialsKept,
         Head(todo).do = "getData", NEW m \in Elems(gltf.meshes),
         NEW v, MeshLeft(m, v), NEW n, n = Len(v.primitives),
         NEW entry, NEW content,
         IsEntry(entry, Head(todo).i, Head(todo).k, Len(v.data)),
         ViewOf(Item(gltf.accessors, Head(todo).i)).byteStride <= 0 =>
           content = Content(Item(gltf.accessors, Head(todo).i), SizeOf(Head(todo).i)),
         NEW w, w = [v EXCEPT !.data = Append(v.data, content),
                              !.primitives[n].accessors =
                                Append(v.primitives[n].accessors, entry)]
  PROVE  MeshLeft(m, w)'
<1>1. /\ gltf' = gltf /\ gltf \in FileType /\ Valid(gltf)
      /\ todo \in Seq(CallsOf(gltf)) /\ todo # <<>>
  BY DEF Working
<1>2. PICK prims : prims = PrimitivesOf(m) /\ prims = PrimitivesOf(m)'
  BY <1>1, SameMeshes
<1>3. PrimitivesOf(m) \in Seq(PrimitiveType)
  BY <1>1, MeshRefers DEF PrimitivesOf
<1>4. prims \in Seq(PrimitiveType) /\ Len(prims) \in Nat /\ DOMAIN prims = 1..Len(prims)
  BY ONLY <1>2, <1>3
<1>5. IsMeshData(v) /\ n <= Len(prims) /\ PrimitivesLeft(m, n) /\ n \in Nat
  BY <1>2 DEF MeshLeft, IsMeshData, IsList
<1>6. Head(todo) \in ToSet(todo)
  BY <1>1 DEF ToSet
<1>7. n # 0
  BY <1>6 DEF MeshLeft, PendingDo
<1>8. n \in 1..n /\ n \in DOMAIN prims
  BY <1>4, <1>5, <1>7
<1>9. DataPut(w, v, n, entry, content)
  BY <1>5, <1>8, DataAdded
<1>10. PICK prim : prim = prims[n]
  OBVIOUS
<1>11. PICK x : x = v.primitives[n]
  OBVIOUS
<1>12. PICK y : y = w.primitives[n]
  OBVIOUS
<1>13. LastLeft(v.data, prim, x)
  BY <1>2, <1>7, <1>10, <1>11 DEF MeshLeft
<1>14. PICK l \in Nat : l = Len(x.accessors)
  <2>1. IsPrimitive(x)
    BY <1>5, <1>8, <1>11 DEF IsMeshData
  <2> QED BY <2>1 DEF IsPrimitive, IsList
<1>15. PICK d \in Nat : d = DataCount(prim)
  BY <1>1, <1>2, <1>8, <1>10, PrimIs
<1>16. DataLeft(prim, l) /\ EntriesIn(v.data, prim, x) /\ CopyLeft(prim, x)
  BY <1>13, <1>14 DEF LastLeft
<1>17. PICK i : i = Head(todo).i
  OBVIOUS
<1>18. /\ l + 1 \in 1..d /\ i = AccessorFor(prim, l + 1)
       /\ Head(todo).k = SemanticFor(prim, l + 1)
  BY <1>1, <1>15, <1>16, <1>17, DataIsNext
<1>19. i \in Elems(gltf.accessors)
  BY <1>1, <1>2, <1>8, <1>10, <1>15, <1>18, PrimIs
<1>20. ViewOf(Item(gltf.accessors, i)).byteStride <= 0
  BY <1>2, <1>8, <1>10, <1>15, <1>18 DEF Packed
<1>21. content = SelectedBy(i, SizeOf(i))
  <2>1. Refers(i, gltf.accessors)
    BY <1>19 DEF Refers, Elems
  <2>2. PICK size : size = SizeOf(i)
    OBVIOUS
  <2>3. size \in Int
    BY <2>2, SizesAre DEF SizeOf
  <2>4. Content(Item(gltf.accessors, i), size) = SelectedBy(i, size)
    BY <1>1, <2>1, <2>3, AccessorContent
  <2> QED BY <1>17, <1>20, <2>2, <2>4
<1>22. /\ EntriesIn(w.data, prim, y) /\ Len(y.accessors) = l + 1
       /\ Grows(v.data, w.data)
  <2>1. IsEntry(entry, i, SemanticFor(prim, l + 1), Len(v.data))
    BY <1>17, <1>18
  <2>2. EntriesIn(v.data, prim, x) /\ i = AccessorFor(prim, l + 1)
    BY <1>16, <1>18
  <2> QED BY ONLY <1>9, <1>11, <1>12, <1>14, <1>21, <2>1, <2>2, EntryAdded
<1>23. DataLeft(prim, l + 1)'
  BY <1>15, <1>16, DataLess
<1>24. \A c \in ToSet(todo') : c \in ToSet(todo)
  <2>1. ~\E k : k \in 1..Len(calls)
    OBVIOUS
  <2> QED BY <2>1, LeftOver
<1>25. CopyLeft(prim, y)'
  <2>1. \A c \in ToSet(todo') : c.do = "copyMaterial" =>
          prim.material >= 0 /\ c.i = prim.material
    BY <1>16, <1>24 DEF CopyLeft
  <2>2. CASE PendingDo("copyMaterial")
    <3>1. ToSet(todo) \subseteq ToSet(todo') \cup {Head(todo)}
      BY Positions DEF Working, Makes
    <3>2. PendingDo("copyMaterial")'
      BY <2>2, <3>1 DEF PendingDo
    <3> QED BY <2>1, <3>2 DEF CopyLeft
  <2>3. CASE MaterialRight(prim, x)
    <3>1. MaterialRight(prim, y)
      BY <1>9, <1>11, <1>12, <2>3 DEF MaterialRight, DataPut
    <3>2. MaterialRight(prim, y)'
      BY <1>1, <1>2, <1>8, <1>10, <3>1, MaterialRightKept
    <3> QED BY <2>1, <3>2 DEF CopyLeft
  <2> QED BY <1>16, <2>2, <2>3 DEF CopyLeft
<1>26. PICK data : data = w.data
  OBVIOUS
<1>27. LastLeft(data, prim, y)'
  <2>1. EntriesIn(data, prim, y)'
    BY <1>1, <1>22, <1>26, SameMeshes
  <2>2. l + 1 <= d
    BY <1>18
  <2> QED BY <1>15, <1>22, <1>23, <1>25, <2>1, <2>2 DEF LastLeft
<1>28. ASSUME NEW p \in 1..(n - 1)
       PROVE  PrimWhole(data, prims[p], w.primitives[p])'
  <2>1. PICK z : z = v.primitives[p]
    OBVIOUS
  <2>2. PICK pr : pr = prims[p]
    OBVIOUS
  <2>3. PrimWhole(v.data, pr, z)
    BY <1>2, <2>1, <2>2 DEF MeshLeft
  <2>4. PrimWhole(data, pr, z)
    BY <1>22, <1>26, <2>3, EntriesGrow DEF PrimWhole
  <2>5. p \in DOMAIN prims
    BY <1>4, <1>8
  <2>6. PrimWhole(data, pr, z)'
    BY <1>1, <1>2, <2>2, <2>4, <2>5, PrimWholeKept
  <2>7. w.primitives[p] = z
    BY <1>9, <2>1 DEF DataPut
  <2> QED BY <2>2, <2>6, <2>7
<1>29. PrimitivesLeft(m, n)'
  BY <1>5, PrimitivesStay
<1>30. IsMeshData(w) /\ Len(w.primitives) = n
  BY <1>9 DEF DataPut
<1> QED BY <1>2, <1>5, <1>7, <1>10, <1>12, <1>26, <1>27, <1>28, <1>29, <1>30
        DEF MeshLeft

(* getData keeps the parts.                                                *)
LEMMA GetDataKept ==
  ASSUME LookInv, Packed, GetData, load' = "loading", MeshParts
  PROVE  MeshParts'
<1>1. /\ load = "loading" /\ gltf \in FileType /\ Valid(gltf)
      /\ todo \in Seq(CallsOf(gltf)) /\ todo # <<>> /\ LoaderInv
      /\ Head(todo).do = "getData" /\ Head(todo) \in CallsOf(gltf)
  BY HeadTyped DEF GetData, LookInv
<1>2. PICK v : v = meshData
  OBVIOUS
<1>3. PICK n : n = Len(v.primitives)
  OBVIOUS
<1>4. PICK i : i = Head(todo).i
  OBVIOUS
<1>5. /\ coll' = coll /\ Makes(<<>>)
      /\ \E entry, content :
           /\ IsEntry(entry, i, Head(todo).k, Len(v.data))
           /\ ViewOf(Item(gltf.accessors, i)).byteStride <= 0 =>
                content = Content(Item(gltf.accessors, i), SizeOf(i))
           /\ DataSet(meshData', v, n, entry, content)
  BY <1>1, <1>2, <1>3, <1>4, GetDataDoes, Zenon
<1>6. PICK calls \in Seq(CallsOf(gltf)) : calls = <<>> /\ Len(calls) = 0
  <2>1. <<>> \in Seq(CallsOf(gltf)) /\ Len(<<>>) = 0
    OBVIOUS
  <2> QED BY <2>1, Zenon
<1>7. Working(calls)
  BY <1>1, <1>5, <1>6, CallingWorks DEF Calling, DataCall
<1>8. gltf' = gltf
  BY <1>7 DEF Working
<1>9. ~\E k : k \in 1..Len(calls)
  BY <1>6
<1>10. CallsInTurn(calls) /\ FinishMade(calls)
  BY <1>9, Zenon DEF CallsInTurn, FinishMade
<1>11. MaterialsMove
  BY <1>1, MaterialsChange, LookInvIs DEF Calling, DataCall, Underway
<1>12. MaterialsKept
  BY <1>7, <1>10, <1>11, CompleteKept
<1>13. MeshesInTurn'
  BY <1>7, <1>9, <1>10, MeshesInTurnKept DEF MeshParts
<1>14. MaterialsReady'
  BY <1>7, <1>9, <1>11, MaterialsReadyKept DEF MeshParts, MaterialsMove
<1>15. MeshesMade'
  BY <1>1, <1>5, <1>7, <1>12, MeshesMadeKept DEF MeshParts
<1>16. MeshesUnderway'
  <2> SUFFICES ASSUME NEW m \in Elems(gltf.meshes), Pending({"makeMesh"}, m)'
               PROVE  MeshLeft(m, meshData)'
    BY <1>8 DEF MeshesUnderway
  <2>1. PICK c \in ToSet(todo') : c.do = "makeMesh" /\ c.i = m
    BY DEF Pending
  <2>2. c \in ToSet(todo)
    BY <1>7, <1>9, LeftOver
  <2>3. MeshLeft(m, v)
    BY <1>2, <2>1, <2>2 DEF Pending, MeshParts, MeshesUnderway
  <2>4. PICK w : w = meshData'
    OBVIOUS
  <2>5. PICK entry, content :
          /\ IsEntry(entry, i, Head(todo).k, Len(v.data))
          /\ ViewOf(Item(gltf.accessors, i)).byteStride <= 0 =>
               content = Content(Item(gltf.accessors, i), SizeOf(i))
          /\ w = [v EXCEPT !.data = Append(v.data, content),
                           !.primitives[n].accessors =
                             Append(v.primitives[n].accessors, entry)]
    BY <1>5, <2>4 DEF DataSet
  <2>6. MeshLeft(m, w)'
    BY <1>1, <1>3, <1>4, <1>6, <1>7, <1>12, <2>3, <2>5, DataRead
  <2> QED BY <2>4, <2>6 DEF MeshLeft
<1> QED BY <1>13, <1>14, <1>15, <1>16 DEF MeshParts

-----------------------------------------------------------------------------
(* The material of the last primitive.                                     *)
MaterialPut(w, v, n, u) ==
  /\ IsMeshData(w) /\ w.data = v.data /\ Len(w.primitives) = n
  /\ \A p \in 1..(n - 1) : w.primitives[p] = v.primitives[p]
  /\ w.primitives[n].accessors = v.primitives[n].accessors
  /\ w.primitives[n].material = u

LEMMA MaterialAdded ==
  ASSUME NEW v, IsMeshData(v), NEW n, n = Len(v.primitives), n \in 1..n,
         NEW u, NEW w, w = [v EXCEPT !.primitives[n].material = u]
  PROVE  MaterialPut(w, v, n, u)
<1>1. PICK s : s = v.primitives
  OBVIOUS
<1>2. PICK x : x = s[n]
  OBVIOUS
<1>5. IsList(s) /\ IsList(v.data) /\ IsPrimitive(x)
      /\ \A p \in 1..n : IsPrimitive(s[p])
  BY <1>1, <1>2 DEF IsMeshData
<1>6. PICK y : y = [x EXCEPT !.material = u]
  OBVIOUS
<1>7. y = [topology |-> x.topology, accessors |-> x.accessors, material |-> u]
  BY <1>5, <1>6 DEF IsPrimitive
<1>8. PICK r : r = [s EXCEPT ![n] = y]
  OBVIOUS
<1>9. w = [v EXCEPT !.primitives = r]
  BY <1>1, <1>2, <1>6, <1>8
<1>10. w = [data |-> v.data, primitives |-> r]
  BY <1>9 DEF IsMeshData
<1>11. /\ IsList(r) /\ Len(r) = n /\ r[n] = y
       /\ \A p \in 1..n : p # n => r[p] = s[p]
  <2>1. IsList(s) /\ n \in 1..Len(s) /\ n = Len(s)
    BY <1>1, <1>5
  <2>2. DOMAIN s = 1..Len(s)
    BY <2>1 DEF IsList
  <2>3. /\ DOMAIN r = 1..Len(s) /\ r = [p \in 1..Len(s) |-> r[p]] /\ r[n] = y
        /\ \A p \in 1..Len(s) : p # n => r[p] = s[p]
    BY ONLY <1>8, <2>1, <2>2
  <2>4. IsList(r) /\ Len(r) = Len(s)
    BY ONLY <2>1, <2>3, ListPut
  <2> QED BY ONLY <2>1, <2>3, <2>4
<1>13. y.accessors = x.accessors /\ y.material = u /\ y.topology = x.topology
  BY ONLY <1>7
<1>14. IsPrimitive(y)
  <2>1. y = [topology |-> y.topology, accessors |-> y.accessors,
             material |-> y.material]
    BY ONLY <1>7, <1>13
  <2> QED BY <1>5, <1>13, <2>1 DEF IsPrimitive
<1>15. w.data = v.data /\ w.primitives = r
       /\ w = [data |-> w.data, primitives |-> w.primitives]
  <2>1. w.data = v.data /\ w.primitives = r
    BY ONLY <1>10
  <2> QED BY ONLY <1>10, <2>1
<1>16. IsMeshData(w)
  <2>1. \A p \in 1..n : IsPrimitive(r[p])
    BY <1>5, <1>11, <1>14
  <2> QED BY <1>5, <1>11, <1>15, <2>1 DEF IsMeshData
<1>17. \A p \in 1..(n - 1) : r[p] = s[p]
  <2>1. \A p \in 1..(n - 1) : p \in 1..n /\ p # n
    OBVIOUS
  <2> QED BY <1>11, <2>1
<1> QED BY <1>1, <1>2, <1>11, <1>13, <1>15, <1>16, <1>17 DEF MaterialPut

(* What is behind the copy of a material.                                  *)
LEMMA BehindCopy ==
  ASSUME todo \in Seq(CallsOf(gltf)), todo # <<>>, MeshesInTurn,
         Head(todo).do = "copyMaterial"
  PROVE  /\ ~PendingDo("getData") /\ BehindNone("copyMaterial")
         /\ \A c \in ToSet(todo) : c.do \notin FinishKinds
<1>1. \A q \in 2..Len(todo) : MeshFollows(Head(todo), todo[q])
  BY HeadFirst
<1>2. \A c \in ToSet(todo) : c = Head(todo) \/ MeshFollows(Head(todo), c)
  BY HeadFirst
<1>3. Head(todo).do \notin {"getData"} \cup LookKinds \cup FinishKinds \cup TextureKinds
  BY DEF LookKinds, FinishKinds, TextureKinds
<1>4. ASSUME NEW c, MeshFollows(Head(todo), c)
      PROVE  c.do # "getData" /\ c.do # "copyMaterial" /\ c.do \notin FinishKinds
  BY <1>3, <1>4 DEF MeshFollows
<1> QED BY <1>1, <1>2, <1>3, <1>4 DEF BehindNone, PendingDo

(* The copied material is what the last primitive had left.                *)
LEMMA MaterialCopied ==
  ASSUME NEW calls, Working(calls), calls = <<>>, MaterialsKept, MeshesInTurn,
         MaterialsReady, Head(todo).do = "copyMaterial",
         NEW i \in Elems(gltf.materials), i = Head(todo).i,
         NEW m \in Elems(gltf.meshes), NEW v, MeshLeft(m, v),
         NEW n, n = Len(v.primitives),
         NEW w, w = [v EXCEPT !.primitives[n].material = Item(coll.materials, i)]
  PROVE  MeshLeft(m, w)'
<1>1. /\ gltf' = gltf /\ gltf \in FileType /\ Valid(gltf)
      /\ todo \in Seq(CallsOf(gltf)) /\ todo # <<>>
  BY DEF Working
<1>2. PICK prims : prims = PrimitivesOf(m) /\ prims = PrimitivesOf(m)'
  BY <1>1, SameMeshes
<1>3. PrimitivesOf(m) \in Seq(PrimitiveType)
  BY <1>1, MeshRefers DEF PrimitivesOf
<1>4. prims \in Seq(PrimitiveType) /\ Len(prims) \in Nat /\ DOMAIN prims = 1..Len(prims)
  BY ONLY <1>2, <1>3
<1>5. IsMeshData(v) /\ n <= Len(prims) /\ PrimitivesLeft(m, n) /\ n \in Nat
  BY <1>2 DEF MeshLeft, IsMeshData, IsList
<1>6. Head(todo) \in ToSet(todo)
  BY <1>1 DEF ToSet
<1>7. n # 0
  BY <1>6 DEF MeshLeft, PendingDo
<1>8. n \in 1..n /\ n \in DOMAIN prims
  BY <1>4, <1>5, <1>7
<1>9. PICK u : u = Item(coll.materials, i)
  OBVIOUS
<1>10. MaterialPut(w, v, n, u)
  <2>1. w = [v EXCEPT !.primitives[n].material = u]
    BY <1>9
  <2> QED BY ONLY <1>5, <1>8, <2>1, n = Len(v.primitives), MaterialAdded
<1>11. PICK prim : prim = prims[n]
  OBVIOUS
<1>12. PICK x : x = v.primitives[n]
  OBVIOUS
<1>13. PICK y : y = w.primitives[n]
  OBVIOUS
<1>14. LastLeft(v.data, prim, x)
  BY <1>2, <1>7, <1>11, <1>12 DEF MeshLeft
<1>15. /\ ~PendingDo("getData") /\ BehindNone("copyMaterial")
       /\ \A c \in ToSet(todo) : c.do \notin FinishKinds
  BY <1>1, BehindCopy
<1>16. \A c \in ToSet(todo') : /\ c \in ToSet(todo)
                               /\ \E q \in 2..Len(todo) : c = todo[q]
  <2>1. ~\E k : k \in 1..Len(calls)
    OBVIOUS
  <2> QED BY <2>1, LeftOver
<1>17. ~PendingDo("getData")' /\ ~PendingDo("copyMaterial")'
  BY <1>15, <1>16 DEF PendingDo, BehindNone
<1>18. prim.material >= 0 /\ prim.material = i
  BY <1>6, <1>14 DEF LastLeft, CopyLeft
<1>19. Settled(i)
  <2>1. todo[1] = Head(todo) /\ 1 \in DOMAIN todo
    BY <1>1
  <2>2. Item(coll.materials, i) # Absent
    BY <2>1 DEF MaterialsReady
  <2> QED BY <1>15, <2>2 DEF Settled, Pending
<1>20. Settled(i)' /\ Item(coll'.materials, i) = u
  BY <1>9, <1>19 DEF MaterialsKept
<1>21. y.material = u /\ y.accessors = x.accessors
  BY <1>10, <1>12, <1>13 DEF MaterialPut
<1>22. MaterialRight(prim, y)'
  <2>1. ~(prim.material < 0)
    <3>1. prim.material \in Int
      BY <1>1, <1>2, <1>8, <1>11, MeshRefers DEF PrimitivesOf
    <3> QED BY <1>18, <3>1
  <2>2. Settled(prim.material)' /\ y.material = Item(coll'.materials, prim.material)
    BY <1>18, <1>20, <1>21
  <2> QED BY <2>1, <2>2 DEF MaterialRight
<1>23. CopyLeft(prim, y)'
  BY <1>17, <1>22 DEF CopyLeft, PendingDo
<1>24. PICK d \in Nat : d = DataCount(prim)
  BY <1>1, <1>2, <1>8, <1>11, PrimIs
<1>25. PICK l \in Nat : l = Len(x.accessors)
  <2>1. IsPrimitive(x)
    BY <1>5, <1>8, <1>12 DEF IsMeshData
  <2> QED BY <2>1 DEF IsPrimitive, IsList
<1>26. DataLeft(prim, l)'
  <2>1. DataLeft(prim, l)
    BY <1>14, <1>25 DEF LastLeft
  <2>2. l >= d
    BY <1>1, <1>15, <1>24, <2>1, NoDataLeft
  <2> QED BY <1>17, <1>24, <2>2, NoDataLeftAfter
<1>27. PICK data : data = v.data
  OBVIOUS
<1>28. LastLeft(data, prim, y)'
  <2>1. EntriesIn(data, prim, x) /\ l <= d
    BY <1>14, <1>24, <1>25, <1>27 DEF LastLeft
  <2>2. EntriesIn(data, prim, y)
    BY <1>21, <2>1 DEF EntriesIn
  <2>3. EntriesIn(data, prim, y)'
    BY <1>1, <2>2, SameMeshes
  <2>4. Len(y.accessors) = l
    BY <1>21, <1>25
  <2> QED BY <1>23, <1>24, <1>26, <2>1, <2>3, <2>4 DEF LastLeft
<1>29. ASSUME NEW p \in 1..(n - 1)
       PROVE  PrimWhole(data, prims[p], w.primitives[p])'
  <2>1. PICK z : z = v.primitives[p]
    OBVIOUS
  <2>2. PICK pr : pr = prims[p]
    OBVIOUS
  <2>3. PrimWhole(data, pr, z)
    BY <1>2, <1>27, <2>1, <2>2 DEF MeshLeft
  <2>4. p \in DOMAIN prims
    BY <1>4, <1>8
  <2>5. PrimWhole(data, pr, z)'
    BY <1>1, <1>2, <2>2, <2>3, <2>4, PrimWholeKept
  <2>6. w.primitives[p] = z
    BY <1>10, <2>1 DEF MaterialPut
  <2> QED BY <2>2, <2>5, <2>6
<1>30. PrimitivesLeft(m, n)'
  BY <1>5, PrimitivesStay
<1>31. IsMeshData(w) /\ Len(w.primitives) = n /\ w.data = data
  BY <1>10, <1>27 DEF MaterialPut
<1> QED BY <1>2, <1>5, <1>7, <1>11, <1>13, <1>28, <1>29, <1>30, <1>31
        DEF MeshLeft

(* copyMaterial keeps the parts.                                           *)
LEMMA CopyMaterialKept ==
  ASSUME LookInv, CopyMaterial, load' = "loading", MeshParts
  PROVE  MeshParts'
<1>1. /\ load = "loading" /\ gltf \in FileType /\ Valid(gltf)
      /\ todo \in Seq(CallsOf(gltf)) /\ todo # <<>> /\ LoaderInv
      /\ Head(todo).do = "copyMaterial" /\ Head(todo) \in CallsOf(gltf)
  BY HeadTyped DEF CopyMaterial, LookInv
<1>2. PICK v : v = meshData
  OBVIOUS
<1>3. PICK n : n = Len(v.primitives)
  OBVIOUS
<1>4. PICK i : i = Head(todo).i /\ i = I
  BY DEF I
<1>5. /\ coll' = coll /\ Makes(<<>>)
      /\ meshData' = [v EXCEPT !.primitives[n].material = Item(coll.materials, i)]
  BY <1>2, <1>3, <1>4, Zenon DEF CopyMaterial, Then, Makes
<1>6. PICK calls \in Seq(CallsOf(gltf)) : calls = <<>> /\ Len(calls) = 0
  <2>1. <<>> \in Seq(CallsOf(gltf)) /\ Len(<<>>) = 0
    OBVIOUS
  <2> QED BY <2>1, Zenon
<1>7. Working(calls)
  BY <1>1, <1>5, <1>6, CallingWorks DEF Calling, DataCall
<1>8. gltf' = gltf
  BY <1>7 DEF Working
<1>9. ~\E k : k \in 1..Len(calls)
  BY <1>6
<1>10. CallsInTurn(calls) /\ FinishMade(calls)
  BY <1>9, Zenon DEF CallsInTurn, FinishMade
<1>11. MaterialsMove
  BY <1>1, MaterialsChange, LookInvIs DEF Calling, DataCall, Underway
<1>12. MaterialsKept
  BY <1>7, <1>10, <1>11, CompleteKept
<1>13. MeshesInTurn'
  BY <1>7, <1>9, <1>10, MeshesInTurnKept DEF MeshParts
<1>14. MaterialsReady'
  BY <1>1, <1>7, <1>9, <1>11, MaterialsReadyKept DEF MeshParts, MaterialsMove
<1>15. MeshesMade'
  BY <1>1, <1>5, <1>7, <1>12, MeshesMadeKept DEF MeshParts
<1>16. i \in Elems(gltf.materials)
  BY <1>1, <1>4, CallKinds DEF MaterialCalls
<1>17. MeshesUnderway'
  <2> SUFFICES ASSUME NEW m \in Elems(gltf.meshes), Pending({"makeMesh"}, m)'
               PROVE  MeshLeft(m, meshData)'
    BY <1>8 DEF MeshesUnderway
  <2>1. PICK c \in ToSet(todo') : c.do = "makeMesh" /\ c.i = m
    BY DEF Pending
  <2>2. c \in ToSet(todo)
    BY <1>7, <1>9, LeftOver
  <2>3. MeshLeft(m, v)
    BY <1>2, <2>1, <2>2 DEF Pending, MeshParts, MeshesUnderway
  <2>4. PICK w : w = meshData'
    OBVIOUS
  <2>5. w = [v EXCEPT !.primitives[n].material = Item(coll.materials, i)]
    BY <1>5, <2>4
  <2>6. MeshLeft(m, w)'
    BY <1>1, <1>3, <1>4, <1>6, <1>7, <1>12, <1>16, <2>3, <2>5, MaterialCopied
       DEF MeshParts
  <2> QED BY <2>4, <2>6 DEF MeshLeft
<1> QED BY <1>13, <1>14, <1>15, <1>17 DEF MeshParts

-----------------------------------------------------------------------------
(* When its last call is next, all primitives of a mesh are complete.      *)
LEMMA MeshDone ==
  ASSUME gltf \in FileType, Valid(gltf), todo \in Seq(CallsOf(gltf)), todo # <<>>,
         MeshesInTurn, Head(todo).do = "makeMesh",
         NEW m \in Elems(gltf.meshes), NEW v, MeshLeft(m, v),
         NEW u, u.data = v.data, u.primitives = v.primitives
  PROVE  MeshWhole(m, u)
<1>1. /\ ~PendingDo("getData") /\ ~PendingDo("copyMaterial")
      /\ \A q \in 2..Len(todo) : todo[q].do # "newPrimitive"
  BY BehindPrimitive
<1>2. PICK prims : prims = PrimitivesOf(m)
  OBVIOUS
<1>3. PICK n \in Nat : n = Len(v.primitives)
  BY DEF MeshLeft, IsMeshData, IsList
<1>4. ASSUME NEW p, PendingPrimitive(m, p)
      PROVE  FALSE
  <2>1. PICK c \in ToSet(todo) : c.do = "newPrimitive"
    BY <1>4 DEF PendingPrimitive
  <2>2. PICK q \in 1..Len(todo) : c = todo[q]
    BY DEF ToSet
  <2>3. q # 1
    BY <2>1, <2>2
  <2>4. q \in 2..Len(todo)
    BY <2>3
  <2> QED BY <1>1, <2>1, <2>2, <2>4
<1>5. \A p \in DOMAIN prims : p <= n
  BY <1>2, <1>3, <1>4 DEF MeshLeft, PrimitivesLeft
<1>6. DOMAIN prims = 1..Len(prims) /\ Len(prims) \in Nat
  BY <1>2, MeshRefers DEF PrimitivesOf
<1>7. ASSUME NEW p \in DOMAIN prims
      PROVE  PrimWhole(u.data, prims[p], u.primitives[p])
  <2>1. p \in 1..Len(v.primitives)
    BY <1>3, <1>5, <1>6
  <2> QED BY <1>1, <1>2, <2>1, AllWhole
<1> QED BY <1>2, <1>7 DEF MeshWhole

(* makeMesh keeps the parts.                                               *)
LEMMA MakeMeshKept ==
  ASSUME LookInv, MakeMesh, load' = "loading", MeshParts
  PROVE  MeshParts'
<1>1. /\ load = "loading" /\ gltf \in FileType /\ Valid(gltf)
      /\ todo \in Seq(CallsOf(gltf)) /\ todo # <<>> /\ LoaderInv
      /\ Head(todo).do = "makeMesh" /\ Head(todo) \in CallsOf(gltf)
  BY HeadTyped DEF MakeMesh, LookInv
<1>2. PICK m : m = I /\ m = Head(todo).i
  BY DEF I
<1>3. PICK v : v = meshData
  OBVIOUS
<1>4. PICK u : u = [type |-> "mesh", data |-> v.data, primitives |-> v.primitives]
  OBVIOUS
<1>5. u.data = v.data /\ u.primitives = v.primitives /\ u # Absent
  BY <1>4 DEF Absent
<1>6. m \in Elems(gltf.meshes) /\ Head(todo) \in ToSet(todo)
  BY <1>1, <1>2, CallKinds DEF MeshCalls, ToSet
<1>7. coll' = [coll EXCEPT !.meshes[m + 1] = u] /\ Makes(<<>>)
  <2>1. \/ ThrowLoad
        \/ Then(<<>>) /\ coll' = [coll EXCEPT !.meshes[m + 1] = u]
    BY <1>2, <1>3, <1>4, Zenon DEF MakeMesh
  <2> QED BY <1>1, <2>1 DEF ThrowLoad, Then, Makes
<1>8. PICK calls \in Seq(CallsOf(gltf)) : calls = <<>> /\ Len(calls) = 0
  <2>1. <<>> \in Seq(CallsOf(gltf)) /\ Len(<<>>) = 0
    OBVIOUS
  <2> QED BY <2>1, Zenon
<1>9. Working(calls)
  BY <1>1, <1>7, <1>8, CallingWorks DEF Calling, DataCall
<1>10. gltf' = gltf /\ IsShape(coll, gltf)
  BY <1>9 DEF Working
<1>11. ~\E k : k \in 1..Len(calls)
  BY <1>8
<1>12. CallsInTurn(calls) /\ FinishMade(calls)
  BY <1>11, Zenon DEF CallsInTurn, FinishMade
<1>13. MaterialsMove
  BY <1>1, MaterialsChange, LookInvIs DEF Calling, DataCall, Underway
<1>14. MaterialsKept
  BY <1>9, <1>12, <1>13, CompleteKept
<1>15. MeshesInTurn'
  BY <1>9, <1>11, <1>12, MeshesInTurnKept DEF MeshParts
<1>16. MaterialsReady'
  BY <1>1, <1>9, <1>11, <1>13, MaterialsReadyKept DEF MeshParts, MaterialsMove
<1>17. MeshWhole(m, u)
  <2>1. MeshLeft(m, v)
    BY <1>1, <1>2, <1>3, <1>6 DEF Pending, MeshParts, MeshesUnderway
  <2> QED BY <1>1, <1>5, <1>6, <2>1, MeshDone DEF MeshParts
<1>18. MeshWhole(m, u)'
  BY <1>1, <1>6, <1>10, <1>14, <1>17, MeshWholeKept
<1>19. Put(coll'.meshes, coll.meshes, gltf.meshes, m, u)
  <2>1. coll'.meshes = [coll.meshes EXCEPT ![m + 1] = u]
    BY <1>7, <1>10 DEF IsShape
  <2>2. PICK of : of = gltf.meshes
    OBVIOUS
  <2>3. PICK list : list = coll.meshes
    OBVIOUS
  <2>4. of \in Seq(MeshType) /\ Over(list, of) /\ m \in Elems(of)
    BY <1>1, <1>6, <1>10, <2>2, <2>3 DEF FileType, IsShape
  <2>5. Put([list EXCEPT ![m + 1] = u], list, of, m, u)
    BY ONLY <2>4, ItemPut
  <2> QED BY <2>1, <2>2, <2>3, <2>5
<1>20. Item(coll'.meshes, m) = u
       /\ \A j \in Elems(gltf.meshes) : j # m =>
            Item(coll'.meshes, j) = Item(coll.meshes, j)
  BY <1>19 DEF Put
<1>21. MeshesMade'
  <2>1. MeshWhole(m, Item(coll.meshes, m))'
    <3>1. PICK w : w = Item(coll'.meshes, m)
      OBVIOUS
    <3>2. MeshWhole(m, w)'
      BY <1>18, <1>20, <3>1
    <3> QED BY <3>1, <3>2 DEF MeshWhole
  <2>2. \A j \in Elems(gltf.meshes) :
           \/ Item(coll'.meshes, j) = Item(coll.meshes, j)
           \/ /\ Item(coll'.meshes, j) # Absent
              /\ MeshWhole(j, Item(coll.meshes, j))'
    <3> TAKE j \in Elems(gltf.meshes)
    <3>1. CASE j = m
      BY <1>5, <1>20, <2>1, <3>1
    <3>2. CASE j # m
      BY <1>20, <3>2
    <3> QED BY <3>1, <3>2
  <2>3. Item(coll'.meshes, Head(todo).i) # Absent
    BY <1>2, <1>5, <1>20
  <2> QED BY <1>9, <1>14, <2>2, <2>3, MeshesMadeKept DEF MeshParts
<1>22. MeshesUnderway'
  <2> SUFFICES ASSUME NEW j, Pending({"makeMesh"}, j)'
               PROVE  FALSE
    BY DEF MeshesUnderway
  <2>1. PICK c \in ToSet(todo') : c.do = "makeMesh"
    BY DEF Pending
  <2>2. PICK q \in 2..Len(todo) : c = todo[q]
    BY <1>8, <1>9, TailOnly
  <2> QED BY <1>1, <2>1, <2>2, BehindPrimitive DEF MeshParts
<1> QED BY <1>15, <1>16, <1>21, <1>22 DEF MeshParts

(* The calls that have nothing to do with meshes.                          *)
LEMMA OthersMeshes ==
  ASSUME LookInv, Underway, load' = "loading", MeshParts,
         \/ GraphCall \/ LookCall
         \/ LoadAnimation \/ NewAction \/ MakeAnimation
  PROVE  MeshParts'
<1>1. LoaderInv /\ LookParts /\ Calling
  BY LookInvIs DEF Calling, DataCall
<1>2. PICK calls \in Seq(CallsOf(gltf)) : Working(calls) /\ FinishMade(calls)
  BY <1>1, CallsFinish
<1>3. MaterialsMove
  BY <1>1, MaterialsChange
<1>4. coll'.meshes = coll.meshes
  <2>1. IsShape(coll, gltf)
    BY <1>2 DEF Working
  <2>2. CASE GraphCall \/ LookCall
    BY <1>1, <2>1, <2>2, GraphLeaves, LookLeaves DEF SameData
  <2>3. CASE LoadAnimation
    BY <2>3 DEF LoadAnimation, Skip
  <2>4. CASE NewAction
    BY <2>4, Zenon DEF NewAction, ThrowLoad
  <2>5. CASE MakeAnimation
    <3>1. coll' = coll \/ \E v : coll' = [coll EXCEPT !.animations[I + 1] = v]
      BY <2>5 DEF MakeAnimation, ThrowLoad
    <3>2. ASSUME NEW v, coll' = [coll EXCEPT !.animations[I + 1] = v]
          PROVE  coll'.meshes = coll.meshes
      BY <2>1, <3>2 DEF IsShape
    <3> QED BY <3>1, <3>2
  <2> QED BY <2>2, <2>3, <2>4, <2>5
<1>5. meshData' = meshData
  <2>1. CASE GraphCall
    BY <2>1, Zenon DEF GraphCall, LoadScene, LoadRest, LoadGraph, InsertNode,
       LoadNode, LoadSkin, SetJoint, Skip, ThrowLoad, Then, underway
  <2>2. CASE LookCall
    BY <2>2, Zenon DEF LookCall, LoadTexture, LoadImage, MakeTexture,
       LoadMaterial, GetTexture, SetTexture, SetMaterial, Skip, ThrowLoad, Then,
       underway
  <2>3. CASE LoadAnimation \/ NewAction \/ MakeAnimation
    BY <2>3, Zenon DEF LoadAnimation, NewAction, MakeAnimation, Skip, ThrowLoad,
       Then, underway
  <2> QED BY <2>1, <2>2, <2>3
<1>6. Head(todo).do \in {"loadScene", "loadRest", "loadGraph", "insert",
         "loadNode", "loadSkin", "setJoint", "loadTexture", "loadImage",
         "makeTexture", "loadMaterial", "getTexture", "setTexture",
         "setMaterial", "loadAnimation", "newAction", "makeAnimation"}
  BY Zenon DEF GraphCall, LoadScene, LoadRest, LoadGraph, InsertNode, LoadNode,
         LoadSkin, SetJoint, LookCall, LoadTexture, LoadImage, MakeTexture,
         LoadMaterial, GetTexture, SetTexture, SetMaterial, LoadAnimation,
         NewAction, MakeAnimation, Doing
<1>7. MeshOnly \cap MadeBy(Head(todo).do) = {}
  BY <1>6 DEF MadeBy, MeshOnly
<1>8. MakesNone(calls)
  BY <1>2, <1>7 DEF MakesNone, FinishMade
<1>9. Head(todo).do \notin MeshOnly /\ Head(todo).do # "loadMesh"
  BY <1>6 DEF MeshOnly
<1> QED BY <1>2, <1>3, <1>4, <1>5, <1>8, <1>9, MeshesQuiet

(* When the loading begins all meshes are pending.                         *)
LEMMA MeshesBegin ==
  ASSUME LoaderInv, Begin
  PROVE  MeshParts'
<1>1. gltf' = gltf /\ todo' = Begun(gltf) /\ gltf \in FileType
  BY BeginTyped DEF LoaderInv, ParserInv
<1>2. ToSet(todo') = BegunSet(gltf) /\ todo' \in Seq(CallsOf(gltf))
  BY <1>1, BegunMade
<1>3. \A c \in BegunSet(gltf) : c.do \in {"loadScene", "loadRest", "loadTexture",
            "loadMaterial", "loadMesh", "loadSkin", "loadAnimation"}
  BY DEF BegunSet, Do
<1>4. \A c \in ToSet(todo') : c.do \notin MeshOnly \cup FinishKinds
  BY <1>2, <1>3 DEF MeshOnly, FinishKinds
<1>5. \A p \in DOMAIN todo' : todo'[p].do \notin MeshOnly \cup FinishKinds
  BY <1>4 DEF ToSet
<1>6. \A m \in Elems(gltf.meshes) : Item(coll'.meshes, m) = Absent
  <2>1. coll'.meshes = None(gltf.meshes)
    BY DEF Begin
  <2>2. gltf.meshes \in Seq(MeshType)
    BY <1>1 DEF FileType
  <2> QED BY <2>1, <2>2 DEF None, Item, Elems
<1>7. \A m \in Elems(gltf.meshes) : Pending({"loadMesh", "makeMesh"}, m)'
  <2>1. \A m \in Elems(gltf.meshes) : Do("loadMesh", m) \in ToSet(todo')
    BY <1>2 DEF BegunSet
  <2> QED BY <2>1 DEF Pending, Do
<1>8. MeshesInTurn'
  <2>1. \A c, d : d.do \notin MeshOnly \cup FinishKinds => MeshFollows(c, d)
    BY DEF MeshFollows, MeshOnly
  <2> QED BY <1>5, <2>1 DEF MeshesInTurn
<1>9. MaterialsReady'
  BY <1>5 DEF MaterialsReady, MeshOnly
<1>10. MeshesMade'
  BY <1>1, <1>6, <1>7 DEF MeshesMade, Item
<1>11. MeshesUnderway'
  BY <1>4 DEF MeshesUnderway, Pending, MeshOnly
<1> QED BY <1>8, <1>9, <1>10, <1>11 DEF MeshParts

(* A mesh is what it was when nothing of it changes.                       *)
LEMMA SameParts ==
  ASSUME gltf' = gltf, todo' = todo, coll' = coll, NEW m, NEW v
  PROVE  /\ MeshWhole(m, v)' <=> MeshWhole(m, v)
         /\ MeshLeft(m, v)' <=> MeshLeft(m, v)
<1>1. PrimitivesOf(m)' = PrimitivesOf(m)
  BY SameMeshes
<1>2. \A data, prim, x : EntriesIn(data, prim, x)' <=> EntriesIn(data, prim, x)
  BY SameMeshes
<1>3. \A i : Settled(i)' <=> Settled(i)
  BY DEF Settled, Pending
<1>4. \A prim, x : MaterialRight(prim, x)' <=> MaterialRight(prim, x)
  BY <1>3 DEF MaterialRight
<1>5. \A data, prim, x : PrimWhole(data, prim, x)' <=> PrimWhole(data, prim, x)
  BY <1>2, <1>4 DEF PrimWhole
<1>6. \A what : PendingDo(what)' <=> PendingDo(what)
  BY DEF PendingDo
<1>7. \A n : PrimitivesLeft(m, n)' <=> PrimitivesLeft(m, n)
  <2>1. \A p : PendingPrimitive(m, p)' <=> PendingPrimitive(m, p)
    BY DEF PendingPrimitive
  <2> QED BY <1>1, <2>1 DEF PrimitivesLeft
<1>8. \A data, prim, x : LastLeft(data, prim, x)' <=> LastLeft(data, prim, x)
  <2>1. \A prim, n : DataLeft(prim, n)' <=> DataLeft(prim, n)
    BY DEF DataLeft
  <2>2. \A prim, x : CopyLeft(prim, x)' <=> CopyLeft(prim, x)
    BY <1>4, <1>6 DEF CopyLeft
  <2> QED BY <1>2, <2>1, <2>2 DEF LastLeft
<1>9. MeshWhole(m, v)' <=> MeshWhole(m, v)
  BY <1>1, <1>5 DEF MeshWhole
<1>10. MeshLeft(m, v)' <=> MeshLeft(m, v)
  BY <1>1, <1>5, <1>6, <1>7, <1>8 DEF MeshLeft
<1> QED BY <1>9, <1>10

MeshInv ==
  /\ LookInv
  /\ Underway /\ Packed => MeshParts

(* Every step keeps the invariant of meshes.                               *)
LEMMA MeshStep ==
  ASSUME MeshInv, Next \/ UNCHANGED allVars
  PROVE  MeshInv'
<1>1. LookInv /\ LookInv' /\ LoaderInv /\ LoaderInv'
  BY LookStep DEF MeshInv, LookInv
<1>2. SUFFICES ASSUME Underway', Packed'
      PROVE  MeshParts'
  BY <1>1 DEF MeshInv
<1>a. gltf' = gltf => Packed
  <2> SUFFICES ASSUME gltf' = gltf
               PROVE  Packed
    OBVIOUS
  <2>1. \A m : PrimitivesOf(m)' = PrimitivesOf(m)
    BY SameMeshes
  <2> QED BY <1>2, <2>1 DEF Packed, ViewOf
<1>3. CASE Begin
  BY <1>1, <1>3, MeshesBegin
<1>4. CASE Calling
  <2>1. load' = "loading" /\ Underway /\ gltf' = gltf
    <3>1. Moves
      BY <1>1, <1>4, CallsMove
    <3>2. load' = "loading" /\ Underway
      BY <3>1, <1>2 DEF Moves, Underway
    <3>3. gltf' = gltf
      BY <1>1, <1>4, <3>2, CallingWorks DEF Working
    <3> QED BY <3>2, <3>3
  <2>2. Packed /\ MeshParts
    BY <1>a, <2>1 DEF MeshInv
  <2>3. CASE LoadMesh
    BY <1>1, <2>1, <2>2, <2>3, LoadMeshKept
  <2>4. CASE NewPrimitive
    BY <1>1, <2>1, <2>2, <2>4, NewPrimitiveKept
  <2>5. CASE GetData
    BY <1>1, <2>1, <2>2, <2>5, GetDataKept
  <2>6. CASE CopyMaterial
    BY <1>1, <2>1, <2>2, <2>6, CopyMaterialKept
  <2>7. CASE MakeMesh
    BY <1>1, <2>1, <2>2, <2>7, MakeMeshKept
  <2>8. CASE GraphCall \/ LookCall \/ LoadAnimation \/ NewAction \/ MakeAnimation
    BY <1>1, <2>1, <2>2, <2>8, OthersMeshes
  <2> QED BY <1>4, <2>3, <2>4, <2>5, <2>6, <2>7, <2>8 DEF Calling, DataCall
<1>5. CASE UNCHANGED <<gltf, todo, coll, meshData>> /\ Underway
  <2>1. MeshParts
    BY <1>a, <1>5 DEF MeshInv
  <2>2. MeshesInTurn'
    BY <1>5, <2>1 DEF MeshParts, MeshesInTurn
  <2>3. MaterialsReady'
    BY <1>5, <2>1 DEF MeshParts, MaterialsReady
  <2>4. \A whats, i : Pending(whats, i)' <=> Pending(whats, i)
    BY <1>5 DEF Pending
  <2>5. MeshesMade'
    <3> SUFFICES ASSUME NEW m \in Elems(gltf.meshes)
                 PROVE  IF Item(coll'.meshes, m) = Absent
                        THEN Pending({"loadMesh", "makeMesh"}, m)'
                        ELSE MeshWhole(m, Item(coll.meshes, m))'
      BY <1>5 DEF MeshesMade
    <3>1. PICK v : v = Item(coll.meshes, m)
      OBVIOUS
    <3>2. Item(coll'.meshes, m) = v /\ Item(coll.meshes, m)' = v
      BY <1>5, <3>1
    <3>3. IF v = Absent THEN Pending({"loadMesh", "makeMesh"}, m)
          ELSE MeshWhole(m, v)
      BY <2>1, <3>1 DEF MeshParts, MeshesMade
    <3>4. MeshWhole(m, v)' <=> MeshWhole(m, v)
      BY <1>5, SameParts
    <3> QED BY <2>4, <3>2, <3>3, <3>4 DEF MeshWhole
  <2>6. MeshesUnderway'
    <3> SUFFICES ASSUME NEW m \in Elems(gltf.meshes), Pending({"makeMesh"}, m)'
                 PROVE  MeshLeft(m, meshData)'
      BY <1>5 DEF MeshesUnderway
    <3>1. PICK v : v = meshData
      OBVIOUS
    <3>2. MeshLeft(m, v)
      BY <2>1, <2>4, <3>1 DEF MeshParts, MeshesUnderway
    <3>3. MeshLeft(m, v)'
      BY <1>5, <3>2, SameParts
    <3> QED BY <1>5, <3>1, <3>3 DEF MeshLeft
  <2> QED BY <2>2, <2>3, <2>5, <2>6 DEF MeshParts
<1>6. CASE ReadSymbol
  <2>1. load' = load /\ status = "reading"
    BY <1>6 DEF ReadSymbol, Read, loadVars
  <2> QED BY <2>1, <1>1, <1>2 DEF LoaderInv, Underway
<1>7. CASE Finish
  BY <1>5, <1>7 DEF Finish, Underway, vars, underway
<1>8. CASE UNCHANGED allVars
  BY <1>2, <1>5, <1>8 DEF allVars, vars, loadVars, Underway, underway
<1> QED BY <1>3, <1>4, <1>6, <1>7, <1>8 DEF Next, Calling, GraphCall, LookCall, DataCall

(* The part of DataLoaded that is about the meshes.                        *)
MeshesLoaded ==
  load = "loaded" =>
    \A m \in DOMAIN gltf.meshes :
      \A p \in DOMAIN gltf.meshes[m].primitives :
        EntriesRight(coll.meshes[m], gltf.meshes[m].primitives[p],
                     coll.meshes[m].primitives[p])

(* A primitive that is complete has what its file wants.                   *)
LEMMA PrimitiveRight ==
  ASSUME gltf \in FileType, Valid(gltf), Packed, NEW m \in Elems(gltf.meshes),
         NEW p \in DOMAIN PrimitivesOf(m), NEW prim, prim = PrimitivesOf(m)[p],
         NEW u, NEW x, PrimWhole(u.data, prim, x)
  PROVE  EntriesRight(u, prim, x)
<1>1. PICK d \in Nat : d = DataCount(prim)
  BY PrimIs
<1>2. /\ Len(x.accessors) = d /\ DOMAIN x.accessors = 1..d
      /\ EntriesIn(u.data, prim, x) /\ MaterialRight(prim, x)
  BY <1>1 DEF PrimWhole, IsList
<1>3. x.material = IF prim.material < 0 THEN Absent
                   ELSE Item(coll.materials, prim.material)
  BY <1>2 DEF MaterialRight
<1>4. Len(x.accessors) = Len(prim.attributes) + IF prim.indices >= 0 THEN 1 ELSE 0
  BY <1>1, <1>2 DEF DataCount
<1>5. ASSUME NEW k \in 1..d, NEW entry, entry = x.accessors[k],
             NEW i, i = AccessorFor(prim, k)
      PROVE  /\ entry.elementN = Item(gltf.accessors, i).count
             /\ entry.elementSize = SizeOf(i)
             /\ Item(u.data, entry.dataIndex) =
                  Reference(Item(gltf.accessors, i), SizeOf(i),
                            IF ViewOf(Item(gltf.accessors, i)).byteStride > 0
                            THEN ViewOf(Item(gltf.accessors, i)).byteStride
                            ELSE SizeOf(i))
             /\ entry.semantic = SemanticFor(prim, k)
  <2>1. EntryRight(u.data, entry, prim, k)
    BY <1>2, <1>5 DEF EntriesIn
  <2>2. i \in Elems(gltf.accessors)
    BY <1>1, <1>5, PrimIs
  <2>3. PICK acc : acc = Item(gltf.accessors, i)
    OBVIOUS
  <2>4. ViewOf(acc).byteStride \in Int
    <3>1. /\ gltf.accessors \in Seq(AccessorType)
          /\ gltf.bufferViews \in Seq(BufferViewType)
      BY DEF FileType
    <3>2. i + 1 \in DOMAIN gltf.accessors /\ acc = gltf.accessors[i + 1]
      BY <2>2, <2>3, <3>1 DEF Elems, Item
    <3>3. Refers(acc.bufferView, gltf.bufferViews)
      BY <3>2 DEF Valid
    <3>4. ViewOf(acc) \in BufferViewType
      BY <3>1, <3>3, ElemsIn DEF ViewOf
    <3> QED BY <3>4 DEF BufferViewType
  <2>5. ViewOf(acc).byteStride <= 0
    BY <1>1, <1>5, <2>3 DEF Packed
  <2>6. ~(ViewOf(acc).byteStride > 0)
    BY <2>4, <2>5
  <2> QED BY <1>5, <2>1, <2>3, <2>6 DEF EntryRight, Holds, SelectedBy
<1>6. ASSUME NEW k \in DOMAIN x.accessors
      PROVE  LET entry == x.accessors[k]
                 acc == Item(gltf.accessors,
                             IF k \in DOMAIN prim.attributes
                             THEN prim.attributes[k][2] ELSE prim.indices)
                 size == SizeOfComponentType(acc) * SizeOfType(acc)
             IN  /\ entry.elementN = acc.count /\ entry.elementSize = size
                 /\ Item(u.data, entry.dataIndex) =
                      Reference(acc, size, IF ViewOf(acc).byteStride > 0
                                           THEN ViewOf(acc).byteStride ELSE size)
                 /\ entry.semantic = IF k \in DOMAIN prim.attributes
                                     THEN prim.attributes[k][1] ELSE "indices"
  <2>1. PICK entry : entry = x.accessors[k]
    OBVIOUS
  <2>2. PICK i : i = AccessorFor(prim, k)
    OBVIOUS
  <2>3. PICK acc : acc = Item(gltf.accessors, i)
    OBVIOUS
  <2>4. PICK size : size = SizeOf(i)
    OBVIOUS
  <2>5. /\ entry.elementN = acc.count /\ entry.elementSize = size
        /\ Item(u.data, entry.dataIndex) =
             Reference(acc, size, IF ViewOf(acc).byteStride > 0
                                  THEN ViewOf(acc).byteStride ELSE size)
        /\ entry.semantic = SemanticFor(prim, k)
    BY <1>2, <1>5, <2>1, <2>2, <2>3, <2>4
  <2>6. size = SizeOfComponentType(acc) * SizeOfType(acc)
    BY <2>3, <2>4 DEF SizeOf
  <2>7. i = IF k \in DOMAIN prim.attributes THEN prim.attributes[k][2]
            ELSE prim.indices
    BY <2>2 DEF AccessorFor
  <2>8. SemanticFor(prim, k) = IF k \in DOMAIN prim.attributes
                               THEN prim.attributes[k][1] ELSE "indices"
    BY DEF SemanticFor
  <2> QED BY ONLY <2>1, <2>3, <2>5, <2>6, <2>7, <2>8, Zenon
<1> QED BY <1>3, <1>4, <1>6, Zenon DEF EntriesRight

(* When nothing is left to do, all meshes are made.                        *)
LEMMA MeshesLoad ==
  ASSUME MeshInv, Packed
  PROVE  MeshesLoaded
<1> SUFFICES ASSUME load = "loaded", NEW m \in DOMAIN gltf.meshes,
                    NEW p \in DOMAIN gltf.meshes[m].primitives
             PROVE  EntriesRight(coll.meshes[m], gltf.meshes[m].primitives[p],
                                 coll.meshes[m].primitives[p])
  BY DEF MeshesLoaded
<1>1. /\ gltf \in FileType /\ Valid(gltf) /\ todo = <<>> /\ MeshesMade
      /\ gltf.meshes \in Seq(MeshType)
  BY DEF MeshInv, LookInv, LoaderInv, ParserInv, Underway, FileType, MeshParts
<1>2. PICK j : j = m - 1
  OBVIOUS
<1>3. j \in Elems(gltf.meshes) /\ j + 1 = m
  BY <1>1, <1>2 DEF Elems
<1>4. PICK u : u = coll.meshes[m]
  OBVIOUS
<1>5. Item(coll.meshes, j) = u /\ PrimitivesOf(j) = gltf.meshes[m].primitives
  BY <1>3, <1>4 DEF Item, PrimitivesOf
<1>6. ~Pending({"loadMesh", "makeMesh"}, j)
  BY <1>1 DEF Pending, ToSet
<1>7. MeshWhole(j, u)
  BY <1>1, <1>3, <1>5, <1>6 DEF MeshesMade
<1>8. PICK prim : prim = PrimitivesOf(j)[p]
  OBVIOUS
<1>9. PICK x : x = u.primitives[p]
  OBVIOUS
<1>10. p \in DOMAIN PrimitivesOf(j) /\ PrimWhole(u.data, prim, x)
  BY <1>5, <1>7, <1>8, <1>9 DEF MeshWhole
<1>11. EntriesRight(u, prim, x)
  BY <1>1, <1>3, <1>8, <1>10, PrimitiveRight
<1> QED BY <1>4, <1>5, <1>8, <1>9, <1>11

(* DataLoad::getMeshData, loadMesh, loadSkin and loadAnimation: when no    *)
(* mesh has interleaved data, whose reads go wrong, and no animation reads *)
(* one accessor for two ends, what was read from the buffers is what the   *)
(* accessors select, and is found where the mesh, the skin or the          *)
(* animation says, although all reads share the streams, and although what *)
(* a mesh needs of materials is loaded in between its reads.               *)
THEOREM DataIsLoaded == Spec => [](Packed /\ OneUse => DataLoaded)
<1>1. LoaderInit => MeshInv /\ GraphInv /\ ActionInv
  BY LoaderBegins DEF MeshInv, LookInv, GraphInv, ActionInv, LoaderInit,
     LoadInit, Underway
<1>2. /\ MeshInv /\ [Next]_allVars => MeshInv'
      /\ GraphInv /\ [Next]_allVars => GraphInv'
      /\ ActionInv /\ [Next]_allVars => ActionInv'
  BY MeshStep, GraphStep, ActionStep
<1>3. MeshInv /\ GraphInv /\ ActionInv => (Packed /\ OneUse => DataLoaded)
  BY MeshesLoad, SkinsLoad, AnimationsLoad, Zenon
     DEF DataLoaded, MeshesLoaded, SkinsLoaded, AnimationsLoaded
<1> QED BY <1>1, <1>2, <1>3, PTL DEF Spec
=============================================================================
