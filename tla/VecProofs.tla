----------------------------- MODULE VecProofs ------------------------------
(***************************************************************************)
(* Proofs about module Vec, for every set of elements, every increment and *)
(* every amount of memory: the struct stays consistent and, call by call,  *)
(* the vec is the sequence vec.h describes.                                *)
(*                                                                         *)
(* The first lemmas state what the operators on sequences of module Deque  *)
(* give, element by element; the next say the same of the arrays the calls *)
(* leave behind; the refinement compares the two.                          *)
(***************************************************************************)
EXTENDS Vec, SequenceTheorems, TLAPS

Value == Elems \cup {Garbage}

LEMMA SequenceInserted ==
  ASSUME NEW S, NEW s \in Seq(S), NEW i \in 0..Len(s), NEW e \in S,
         NEW t \in Seq(S), Len(t) = Len(s) + 1,
         \A k \in 1..Len(t) :
           t[k] = IF k <= i THEN s[k] ELSE IF k = i + 1 THEN e ELSE s[k - 1]
  PROVE  t = SubSeq(s, 1, i) \o <<e>> \o SubSeq(s, i + 1, Len(s))
<1> DEFINE a == SubSeq(s, 1, i)
           b == SubSeq(s, i + 1, Len(s))
           ae == a \o <<e>>
<1>0. Len(s) \in Nat
  OBVIOUS
<1>1. a \in Seq(S) /\ Len(a) = i /\ \A k \in 1..i : a[k] = s[k]
  OBVIOUS
<1>2. /\ b \in Seq(S) /\ Len(b) = Len(s) - i
      /\ \A k \in 1..(Len(s) - i) : b[k] = s[i + k]
  BY SubSeqProperties
<1> HIDE DEF a, b
<1>3. /\ ae \in Seq(S) /\ Len(ae) = i + 1
      /\ \A k \in 1..(i + 1) : ae[k] = IF k <= i THEN s[k] ELSE e
  BY <1>1
<1> HIDE DEF ae
<1>4. /\ ae \o b \in Seq(S) /\ Len(ae \o b) = Len(s) + 1
      /\ \A k \in 1..(Len(s) + 1) :
           (ae \o b)[k] = IF k <= i + 1 THEN ae[k] ELSE b[k - (i + 1)]
  <2>1. /\ Len(ae \o b) = Len(ae) + Len(b)
        /\ ae \o b \in Seq(S)
        /\ \A k \in 1..(Len(ae) + Len(b)) :
             (ae \o b)[k] = IF k <= Len(ae) THEN ae[k] ELSE b[k - Len(ae)]
    BY <1>2, <1>3, ConcatProperties
  <2>2. Len(ae) + Len(b) = Len(s) + 1
    BY <1>0, <1>2, <1>3
  <2>3. QED
    BY <1>3, <2>1, <2>2
<1>5. ASSUME NEW k \in 1..(Len(s) + 1) PROVE (ae \o b)[k] = t[k]
  <2>0. k \in Int /\ i \in Int /\ k \in 1..Len(t)
    BY <1>0
  <2>1. CASE k <= i + 1
    BY <1>0, <1>3, <1>4, <2>1
  <2>2. CASE k > i + 1
    <3>1. k - (i + 1) \in 1..(Len(s) - i) /\ i + (k - (i + 1)) = k - 1
      BY <2>2
    <3>2. b[k - (i + 1)] = s[k - 1]
      BY <1>2, <3>1
    <3>3. t[k] = s[k - 1]
      BY <2>0, <2>2
    <3>4. QED
      BY <1>4, <2>0, <2>2, <3>2, <3>3
  <2>3. k <= i + 1 \/ k > i + 1
    BY <2>0
  <2>4. QED
    BY <2>1, <2>2, <2>3
<1>6. t = ae \o b
  BY <1>4, <1>5, SeqEqual
<1>7. QED
  BY <1>6 DEF a, b, ae

LEMMA SequenceRemoved ==
  ASSUME NEW S, NEW s \in Seq(S), NEW i \in 0..(Len(s) - 1),
         NEW t \in Seq(S), Len(t) = Len(s) - 1,
         \A k \in 1..Len(t) : t[k] = IF k <= i THEN s[k] ELSE s[k + 1]
  PROVE  t = SubSeq(s, 1, i) \o SubSeq(s, i + 2, Len(s))
<1> DEFINE a == SubSeq(s, 1, i)
           b == SubSeq(s, i + 2, Len(s))
<1>0. Len(s) \in Nat
  OBVIOUS
<1>1. a \in Seq(S) /\ Len(a) = i /\ \A k \in 1..i : a[k] = s[k]
  OBVIOUS
<1>2. /\ b \in Seq(S) /\ Len(b) = Len(s) - 1 - i
      /\ \A k \in 1..(Len(s) - 1 - i) : b[k] = s[i + 1 + k]
  BY SubSeqProperties
<1> HIDE DEF a, b
<1>3. /\ a \o b \in Seq(S) /\ Len(a \o b) = Len(s) - 1
      /\ \A k \in 1..(Len(s) - 1) :
           (a \o b)[k] = IF k <= i THEN a[k] ELSE b[k - i]
  <2>1. /\ Len(a \o b) = Len(a) + Len(b)
        /\ a \o b \in Seq(S)
        /\ \A k \in 1..(Len(a) + Len(b)) :
             (a \o b)[k] = IF k <= Len(a) THEN a[k] ELSE b[k - Len(a)]
    BY <1>1, <1>2, ConcatProperties
  <2>2. Len(a) + Len(b) = Len(s) - 1
    BY <1>0, <1>1, <1>2
  <2>3. QED
    BY <1>1, <2>1, <2>2
<1>4. ASSUME NEW k \in 1..(Len(s) - 1) PROVE (a \o b)[k] = t[k]
  <2>0. k \in Int /\ i \in Int /\ k \in 1..Len(t)
    BY <1>0
  <2>1. CASE k <= i
    BY <1>1, <1>3, <2>1
  <2>2. CASE k > i
    <3>1. k - i \in 1..(Len(s) - 1 - i) /\ i + 1 + (k - i) = k + 1
      BY <2>2
    <3>2. b[k - i] = s[k + 1]
      BY <1>2, <3>1
    <3>3. ~(k <= i)
      BY <2>0, <2>2
    <3>4. (a \o b)[k] = b[k - i]
      BY <1>3, <3>3
    <3>5. t[k] = s[k + 1]
      BY <2>0, <3>3
    <3>6. QED
      BY <3>2, <3>4, <3>5
  <2>3. k <= i \/ k > i
    BY <2>0
  <2>4. QED
    BY <2>1, <2>2, <2>3
<1>5. t = a \o b
  BY <1>3, <1>4, SeqEqual
<1>6. QED
  BY <1>5 DEF a, b

LEMMA SequenceKept ==
  ASSUME NEW S, NEW s \in Seq(S), NEW n \in 0..Len(s),
         NEW t \in Seq(S), Len(t) = n, \A k \in 1..n : t[k] = s[k]
  PROVE  t = SubSeq(s, 1, n)
<1>1. /\ SubSeq(s, 1, n) \in Seq(S) /\ Len(SubSeq(s, 1, n)) = n
      /\ \A k \in 1..n : SubSeq(s, 1, n)[k] = s[k]
  OBVIOUS
<1>2. QED
  BY <1>1, SeqEqual

-----------------------------------------------------------------------------
(* What the calls do to the struct.                                        *)

LEMMA ContentsAre ==
  ASSUME NEW v, IsVec(v)
  PROVE  /\ VecContents(v) \in Seq(Value)
         /\ Len(VecContents(v)) = v.size
         /\ \A k \in 1..v.size : VecContents(v)[k] = v.arr[k - 1]
<1>1. v.size \in Nat /\ v.size <= v.cap /\ v.cap \in Nat
  BY MemoryAssumption DEF IsVec
<1>2. \A k \in 1..v.size : v.arr[k - 1] \in Value
  BY <1>1 DEF IsVec, Slots, Value
<1>3. VecContents(v) \in [1..v.size -> Value]
  BY <1>2 DEF VecContents
<1>4. VecContents(v) \in Seq(Value)
  BY <1>1, <1>3, SeqDef
<1>5. Len(VecContents(v)) = v.size
  BY <1>1, <1>3, <1>4, LenProperties
<1>6. QED
  BY <1>4, <1>5 DEF VecContents

LEMMA WithCapacityIs ==
  ASSUME NEW c \in 0..MaxCap
  PROVE  IsVec(WithCapacity(c)) /\ VecContents(WithCapacity(c)) = <<>>
  BY MemoryAssumption DEF WithCapacity, IsVec, VecContents

LEMMA ResizedIs ==
  ASSUME NEW v, IsVec(v), NEW c \in 0..MaxCap
  PROVE  LET w == Resized(v, c) IN
           /\ IsVec(w) /\ w.cap = c
           /\ w.size = IF v.size > c THEN c ELSE v.size
           /\ \A k \in 1..w.size : VecContents(w)[k] = VecContents(v)[k]
<1> DEFINE w == Resized(v, c)
<1>1. /\ w.cap = c /\ w.size = IF v.size > c THEN c ELSE v.size
      /\ w = [cap |-> w.cap, size |-> w.size, arr |-> w.arr]
      /\ w.arr = [s \in Slots(c) |-> IF s < v.cap THEN v.arr[s] ELSE Garbage]
  BY DEF Resized
<1>2. w.size \in 0..c /\ w.size <= v.size /\ v.size <= v.cap /\ v.cap \in Nat
      /\ v.size \in Nat
  BY <1>1, MemoryAssumption DEF IsVec
<1>3. w.arr \in [Slots(c) -> Elems \cup {Garbage}]
  BY <1>1, <1>2 DEF IsVec, Slots
<1>4. IsVec(w)
  BY <1>1, <1>2, <1>3 DEF IsVec
<1>5. \A k \in 1..w.size : w.arr[k - 1] = v.arr[k - 1]
  BY <1>1, <1>2 DEF Slots
<1>6. \A k \in 1..w.size : VecContents(w)[k] = VecContents(v)[k]
  BY <1>2, <1>4, <1>5, ContentsAre
<1>7. QED
  BY <1>1, <1>4, <1>6

LEMMA RoomyIs ==
  ASSUME NEW v, IsVec(v), ~VecNoRoom(v)
  PROVE  LET w == Roomy(v) IN
           /\ IsVec(w) /\ w.size < w.cap /\ w.size = v.size
           /\ VecContents(w) = VecContents(v)
<1> DEFINE w == Roomy(v)
<1>1. CASE ~VecFull(v)
  BY <1>1, MemoryAssumption DEF Roomy, VecFull, IsVec
<1>2. CASE VecFull(v)
  <2>1. v.cap + ExpandDelta \in 0..MaxCap /\ v.size = v.cap /\ v.cap \in Nat
    BY <1>2, MemoryAssumption DEF VecNoRoom, VecFull, IsVec
  <2>2. w = Resized(v, v.cap + ExpandDelta)
    BY <1>2 DEF Roomy
  <2>3. /\ IsVec(w) /\ w.cap = v.cap + ExpandDelta
        /\ w.size = IF v.size > w.cap THEN w.cap ELSE v.size
        /\ \A k \in 1..w.size : VecContents(w)[k] = VecContents(v)[k]
    BY <2>1, <2>2, ResizedIs
  <2> HIDE DEF w
  <2>6. w.size = v.size
    BY <2>1, <2>3, MemoryAssumption
  <2>4. VecContents(w) = VecContents(v)
    BY <2>3, <2>6, ContentsAre, SeqEqual
  <2>5. QED
    BY <2>1, <2>3, <2>4, <2>6, MemoryAssumption DEF w
<1>3. QED
  BY <1>1, <1>2

LEMMA InsertedIs ==
  ASSUME NEW v, IsVec(v), v.size < v.cap, NEW i \in 0..v.size, NEW e \in Elems
  PROVE  LET w == VecInserted(v, i, e) IN
           /\ IsVec(w) /\ w.size = v.size + 1
           /\ \A k \in 1..w.size : VecContents(w)[k] =
                IF k <= i THEN VecContents(v)[k]
                ELSE IF k = i + 1 THEN e ELSE VecContents(v)[k - 1]
<1> DEFINE w == VecInserted(v, i, e)
<1>1. /\ w.cap = v.cap /\ w.size = v.size + 1
      /\ w = [cap |-> w.cap, size |-> w.size, arr |-> w.arr]
      /\ w.arr = [s \in Slots(v.cap) |->
                    IF s = i THEN e
                    ELSE IF i < s /\ s <= v.size THEN v.arr[s - 1] ELSE v.arr[s]]
  BY DEF VecInserted
<1>2. /\ v.cap \in 0..MaxCap /\ v.size \in Nat /\ i \in Nat /\ MaxCap \in Nat
      /\ \A s \in Slots(v.cap) : v.arr[s] \in Elems \cup {Garbage}
  BY MemoryAssumption DEF IsVec
<1>3. \A s \in Slots(v.cap) :
        (IF s = i THEN e
         ELSE IF i < s /\ s <= v.size THEN v.arr[s - 1] ELSE v.arr[s])
           \in Elems \cup {Garbage}
  BY <1>2 DEF Slots
<1>4. IsVec(w)
  BY <1>1, <1>2, <1>3 DEF IsVec
<1>5. ASSUME NEW k \in 1..w.size
      PROVE  w.arr[k - 1] = IF k <= i THEN v.arr[k - 1]
                            ELSE IF k = i + 1 THEN e ELSE v.arr[k - 2]
  <2>1. k - 1 \in Slots(v.cap) /\ k \in Int /\ k - 1 <= v.size
    BY <1>1, <1>2 DEF Slots
  <2>2. w.arr[k - 1] = IF k - 1 = i THEN e
                       ELSE IF i < k - 1 /\ k - 1 <= v.size THEN v.arr[(k - 1) - 1]
                       ELSE v.arr[k - 1]
    BY <1>1, <2>1
  <2>3. (k - 1) - 1 = k - 2
    BY <2>1
  <2>4. QED
    BY <1>2, <2>1, <2>2, <2>3
<1>6. /\ \A k \in 1..w.size : VecContents(w)[k] = w.arr[k - 1]
      /\ \A k \in 1..v.size : VecContents(v)[k] = v.arr[k - 1]
  BY <1>4, ContentsAre
<1>7. ASSUME NEW k \in 1..w.size
      PROVE  VecContents(w)[k] = IF k <= i THEN VecContents(v)[k]
                                 ELSE IF k = i + 1 THEN e
                                 ELSE VecContents(v)[k - 1]
  BY <1>1, <1>2, <1>5, <1>6
<1>8. QED
  BY <1>1, <1>4, <1>7

LEMMA RemovedIs ==
  ASSUME NEW v, IsVec(v), NEW i \in 0..(v.size - 1)
  PROVE  LET w == VecRemoved(v, i) IN
           /\ IsVec(w) /\ w.size = v.size - 1
           /\ \A k \in 1..w.size : VecContents(w)[k] =
                IF k <= i THEN VecContents(v)[k] ELSE VecContents(v)[k + 1]
<1> DEFINE w == VecRemoved(v, i)
<1>1. /\ w.cap = v.cap /\ w.size = v.size - 1
      /\ w = [cap |-> w.cap, size |-> w.size, arr |-> w.arr]
      /\ w.arr = [s \in Slots(v.cap) |->
                    IF i <= s /\ s < v.size - 1 THEN v.arr[s + 1] ELSE v.arr[s]]
  BY DEF VecRemoved
<1>2. /\ v.cap \in 0..MaxCap /\ v.size \in 1..v.cap /\ i \in Nat
      /\ MaxCap \in Nat
      /\ \A s \in Slots(v.cap) : v.arr[s] \in Elems \cup {Garbage}
  BY MemoryAssumption DEF IsVec
<1>3. \A s \in Slots(v.cap) :
        (IF i <= s /\ s < v.size - 1 THEN v.arr[s + 1] ELSE v.arr[s])
           \in Elems \cup {Garbage}
  BY <1>2 DEF Slots
<1>4. IsVec(w)
  BY <1>1, <1>2, <1>3 DEF IsVec
<1>5. ASSUME NEW k \in 1..w.size
      PROVE  w.arr[k - 1] = IF k <= i THEN v.arr[k - 1] ELSE v.arr[k]
  BY <1>1, <1>2 DEF Slots
<1>6. /\ \A k \in 1..w.size : VecContents(w)[k] = w.arr[k - 1]
      /\ \A k \in 1..v.size : VecContents(v)[k] = v.arr[k - 1]
  BY <1>4, ContentsAre
<1>7. ASSUME NEW k \in 1..w.size
      PROVE  VecContents(w)[k] =
               IF k <= i THEN VecContents(v)[k] ELSE VecContents(v)[k + 1]
  BY <1>1, <1>2, <1>5, <1>6
<1>8. QED
  BY <1>1, <1>4, <1>7

-----------------------------------------------------------------------------
(* What the calls do to the sequence.                                      *)

Items == VecContents(vec)

\* A refused call is refused by the sequence as well.
LEMMA RefusedStep ==
  ASSUME IsVec(vec), NEW op, NEW at, NEW e, NEW code,
         VecRefuse(op, at, e, code), V!DRefuse(op, at, e, code)
  PROVE  IsVec(vec') /\ V!DNext
<1>1. V!DRefuse(last'.op, last'.at, last'.e, last'.code)
  BY DEF VecRefuse, Report
<1>2. QED
  BY <1>1 DEF V!DNext, VecRefuse

\* Refusals change neither the vec nor its elements.
LEMMA RefusedKeeps ==
  ASSUME NEW op, NEW at, NEW e, NEW code, VecRefuse(op, at, e, code)
  PROVE  /\ Items' = Items
         /\ V!Report(op, at, e, code, <<>>)
  BY DEF VecRefuse, Report, V!Report, Items, VecContents

LEMMA InsertStep ==
  ASSUME IsVec(vec), NEW op, NEW i \in Nat, NEW at, NEW e \in Elems,
         VecInsert(op, i, at, e),
         \/ op = "insert" /\ at = i
         \/ op = "push_front" /\ at = 0 /\ i = vec.size
  PROVE  IsVec(vec') /\ V!DNext
<1>0. /\ Items \in Seq(Value) /\ Len(Items) = vec.size /\ vec.size \in Nat
      /\ V!Size = vec.size /\ e \in Value /\ i \in Int
  BY ContentsAre, MemoryAssumption DEF Items, V!Size, Value, IsVec
<1>1. CASE i > vec.size /\ VecRefuse(op, at, e, "C_OUT_OF_BOUNDS")
  <2>1. V!DRefuse(op, at, e, "C_OUT_OF_BOUNDS")
    BY <1>0, <1>1, RefusedKeeps DEF V!DRefuse, Items
  <2>2. QED
    BY <1>1, <2>1, RefusedStep
<1>2. CASE VecRefuse(op, at, e, "C_NOMEM")
  <2>1. V!DRefuse(op, at, e, "C_NOMEM")
    BY <1>0, <1>2, RefusedKeeps DEF V!DRefuse, Items
  <2>2. QED
    BY <1>2, <2>1, RefusedStep
<1>3. CASE /\ i <= vec.size /\ ~VecNoRoom(vec)
           /\ vec' = VecInserted(Roomy(vec), i, e)
           /\ Report(op, at, e, "C_OK", <<>>)
  <2> DEFINE w == Roomy(vec)
  <2>1. /\ IsVec(w) /\ w.size < w.cap /\ w.size = vec.size
        /\ VecContents(w) = Items
    BY <1>3, RoomyIs DEF Items
  <2>2. i \in 0..w.size
    BY <1>0, <1>3, <2>1
  <2>3. /\ IsVec(vec') /\ vec'.size = vec.size + 1
        /\ \A k \in 1..vec'.size : VecContents(vec')[k] =
             IF k <= i THEN Items[k] ELSE IF k = i + 1 THEN e ELSE Items[k - 1]
    <3> HIDE DEF w
    <3>1. QED
      BY <1>3, <2>1, <2>2, InsertedIs DEF w
  <2>4. /\ Items' \in Seq(Value) /\ Len(Items') = Len(Items) + 1
        /\ \A k \in 1..Len(Items') : Items'[k] =
             IF k <= i THEN Items[k] ELSE IF k = i + 1 THEN e ELSE Items[k - 1]
    <3>1. Items' = VecContents(vec')
      BY DEF Items, VecContents
    <3>2. QED
      BY <1>0, <2>3, <3>1, ContentsAre
  <2>5. CASE op = "insert" /\ at = i
    <3>1. Items' = SubSeq(Items, 1, i) \o <<e>> \o SubSeq(Items, i + 1, Len(Items))
      <4>1. i \in 0..Len(Items)
        BY <1>0, <1>3
      <4>2. QED
        BY <1>0, <2>4, <4>1, SequenceInserted
    <3>2. V!DInsert(i, e)
      BY <1>3, <2>5, <3>1
         DEF V!DInsert, V!FirstItems, V!ItemsFrom, V!Size, Report, V!Report, Items
    <3>3. i \in 0..V!Size
      BY <1>0, <1>3
    <3>4. QED
      BY <2>3, <3>2, <3>3 DEF V!DNext
  <2>6. CASE op = "push_front" /\ at = 0 /\ i = vec.size
    <3>1. /\ Append(Items, e) \in Seq(Value)
          /\ Len(Append(Items, e)) = Len(Items) + 1
          /\ \A k \in 1..(Len(Items) + 1) :
               Append(Items, e)[k] = IF k <= Len(Items) THEN Items[k] ELSE e
      BY <1>0, AppendProperties
    <3>2. Items' = Append(Items, e)
      <4>1. \A k \in 1..Len(Items') : Items'[k] = Append(Items, e)[k]
        BY <1>0, <2>4, <2>6, <3>1
      <4>2. QED
        BY <2>4, <3>1, <4>1, SeqEqual
    <3>3. V!DPushFront(e)
      BY <1>3, <2>6, <3>2 DEF V!DPushFront, Report, V!Report, Items
    <3>4. QED
      BY <2>3, <3>3 DEF V!DNext
  <2>7. QED
    BY <2>5, <2>6
<1>4. QED
  BY <1>1, <1>2, <1>3 DEF VecInsert

\* The element at index i taken out, on both sides.
LEMMA TakenOut ==
  ASSUME IsVec(vec), NEW i \in 0..(vec.size - 1), vec' = VecRemoved(vec, i)
  PROVE  /\ IsVec(vec') /\ i \in 0..(V!Size - 1) /\ Items[i + 1] = vec.arr[i]
         /\ Items' = V!FirstItems(i) \o V!ItemsFrom(i + 1)
         /\ i = V!Size - 1 => Items' = V!FirstItems(V!Size - 1)
<1>0. /\ Items \in Seq(Value) /\ Len(Items) = vec.size /\ vec.size \in Nat
      /\ V!Size = vec.size /\ i \in Int /\ i + 1 \in 1..vec.size
      /\ Items[i + 1] = vec.arr[i]
  BY ContentsAre, MemoryAssumption DEF Items, V!Size, IsVec
<1>1. /\ IsVec(vec') /\ vec'.size = vec.size - 1
      /\ \A k \in 1..vec'.size : VecContents(vec')[k] =
           IF k <= i THEN Items[k] ELSE Items[k + 1]
  BY RemovedIs DEF Items
<1>2. /\ Items' \in Seq(Value) /\ Len(Items') = Len(Items) - 1
      /\ \A k \in 1..Len(Items') : Items'[k] =
           IF k <= i THEN Items[k] ELSE Items[k + 1]
  <2>1. Items' = VecContents(vec')
    BY DEF Items, VecContents
  <2>2. QED
    BY <1>0, <1>1, <2>1, ContentsAre
<1>3. Items' = SubSeq(Items, 1, i) \o SubSeq(Items, i + 2, Len(Items))
  <2>1. i \in 0..(Len(Items) - 1)
    BY <1>0
  <2>2. QED
    BY <1>0, <1>2, <2>1, SequenceRemoved
<1>4. Items' = V!FirstItems(i) \o V!ItemsFrom(i + 1)
  <2>1. (i + 1) + 1 = i + 2
    BY <1>0
  <2>2. QED
    BY <1>3, <2>1 DEF V!FirstItems, V!ItemsFrom, V!Size, Items
<1>5. ASSUME i = V!Size - 1 PROVE Items' = V!FirstItems(V!Size - 1)
  <2>1. \A k \in 1..(Len(Items) - 1) : Items'[k] = Items[k]
    BY <1>0, <1>2, <1>5
  <2>2. Len(Items) - 1 \in 0..Len(Items)
    BY <1>0
  <2>3. Items' = SubSeq(Items, 1, Len(Items) - 1)
    BY <1>0, <1>2, <2>1, <2>2, SequenceKept
  <2>4. QED
    BY <2>3 DEF V!FirstItems, V!Size, Items
<1>6. QED
  BY <1>0, <1>1, <1>4, <1>5

LEMMA RemoveStep ==
  ASSUME IsVec(vec), NEW i \in Nat, VecRemove("remove", i, i)
  PROVE  IsVec(vec') /\ V!DNext
<1>0. vec.size \in Nat /\ V!Size = vec.size
  BY ContentsAre, MemoryAssumption DEF V!Size, IsVec
<1>1. CASE i >= vec.size /\ VecRefuse("remove", i, 0, "C_OUT_OF_BOUNDS")
  <2>1. V!DRefuse("remove", i, 0, "C_OUT_OF_BOUNDS")
    BY <1>0, <1>1, RefusedKeeps DEF V!DRefuse, Items
  <2>2. QED
    BY <1>1, <2>1, RefusedStep
<1>2. CASE /\ i < vec.size /\ vec' = VecRemoved(vec, i)
           /\ Report("remove", i, 0, "C_OK", <<vec.arr[i]>>)
  <2>1. i \in 0..(vec.size - 1)
    BY <1>0, <1>2
  <2>2. V!DRemove(i)
    BY <1>2, <2>1, TakenOut DEF V!DRemove, Report, V!Report, Items
  <2>3. QED
    BY <1>2, <2>1, <2>2, TakenOut DEF V!DNext
<1>3. QED
  BY <1>1, <1>2 DEF VecRemove

LEMMA PopStep ==
  ASSUME IsVec(vec), VecPop
  PROVE  IsVec(vec') /\ V!DNext
<1>0. /\ vec.size \in Nat /\ V!Size = vec.size /\ vec.size <= SIZE_MAX
      /\ SIZE_MAX \in Nat
  BY ContentsAre, MemoryAssumption DEF V!Size, IsVec, SIZE_MAX
<1>1. CASE /\ LastIndex >= vec.size
           /\ VecRefuse("pop_front", 0, 0, "C_OUT_OF_BOUNDS")
  <2>1. vec.size = 0
    BY <1>0, <1>1 DEF LastIndex
  <2>2. V!DRefuse("pop_front", 0, 0, "C_OUT_OF_BOUNDS")
    BY <1>0, <1>1, <2>1, RefusedKeeps DEF V!DRefuse, Items
  <2>3. QED
    BY <1>1, <2>2, RefusedStep
<1>2. CASE /\ LastIndex < vec.size /\ vec' = VecRemoved(vec, LastIndex)
           /\ Report("pop_front", 0, 0, "C_OK", <<vec.arr[LastIndex]>>)
  <2>1. LastIndex = V!Size - 1 /\ LastIndex \in 0..(vec.size - 1) /\ V!Size > 0
        /\ LastIndex + 1 = V!Size
    BY <1>0, <1>2 DEF LastIndex
  <2>2. V!DPopFront
    BY <1>2, <2>1, TakenOut DEF V!DPopFront, Report, V!Report, Items
  <2>3. QED
    BY <1>2, <2>1, <2>2, TakenOut DEF V!DNext
<1>3. QED
  BY <1>1, <1>2 DEF VecPop, VecRemove

LEMMA RemoveByValueStep ==
  ASSUME IsVec(vec), NEW e \in Elems, VecRemoveByValue(e)
  PROVE  IsVec(vec') /\ V!DNext
<1>0. /\ vec.size \in Nat /\ V!Size = vec.size
      /\ \A k \in 1..vec.size : Items[k] = vec.arr[k - 1]
  BY ContentsAre, MemoryAssumption DEF V!Size, IsVec, Items
<1>1. CASE /\ \A i \in 0..(vec.size - 1) : vec.arr[i] # e
           /\ VecRefuse("remove_by_value", 0, e, "C_NOT_FOUND")
  <2>1. \A k \in 1..V!Size : Items[k] # e
    BY <1>0, <1>1
  <2>2. V!DRefuse("remove_by_value", 0, e, "C_NOT_FOUND")
    BY <1>1, <2>1, RefusedKeeps DEF V!DRefuse, Items
  <2>3. QED
    BY <1>1, <2>2, RefusedStep
<1>2. CASE \E i \in IndexOf(vec, e) :
             /\ vec' = VecRemoved(vec, i)
             /\ Report("remove_by_value", 0, e, "C_OK", <<>>)
  <2>1. PICK i \in 0..(vec.size - 1) :
          /\ vec.arr[i] = e /\ \A j \in 0..(i - 1) : vec.arr[j] # e
          /\ vec' = VecRemoved(vec, i)
          /\ Report("remove_by_value", 0, e, "C_OK", <<>>)
    BY <1>2 DEF IndexOf
  <2>2. \A j \in 1..i : Items[j] # e
    BY <1>0, <2>1
  <2>3. V!DRemoveByValue(e)
    BY <1>0, <2>1, <2>2, TakenOut DEF V!DRemoveByValue, Report, V!Report, Items
  <2>4. QED
    BY <2>1, <2>3, TakenOut DEF V!DNext
<1>3. QED
  BY <1>1, <1>2 DEF VecRemoveByValue

LEMMA ExpandStep ==
  ASSUME IsVec(vec), NEW c \in Nat, VecExpand(c)
  PROVE  IsVec(vec') /\ V!DNext
<1>0. vec.size \in Nat /\ vec.cap \in Nat /\ vec.size <= vec.cap
  BY MemoryAssumption DEF IsVec
<1>1. ASSUME NEW code \in {"C_CAP_GREATER", "C_NOMEM"},
             VecRefuse("expand", c, 0, code)
      PROVE  IsVec(vec') /\ V!DNext
  <2>1. V!DRefuse("expand", c, 0, code)
    BY <1>1, RefusedKeeps DEF V!DRefuse, Items
  <2>2. QED
    BY <1>1, <2>1, RefusedStep
<1>2. ASSUME IsVec(vec'), Items' = Items, Report("expand", c, 0, "C_OK", <<>>)
      PROVE  IsVec(vec') /\ V!DNext
  <2>1. last'.at = c
    BY <1>2 DEF Report
  <2>2. V!DExpand(last'.at)
    BY <1>2, <2>1 DEF V!DExpand, Report, V!Report, Items
  <2>3. QED
    BY <1>2, <2>2 DEF V!DNext
<1>3. CASE VecRefuse("expand", c, 0, "C_OK")
  BY <1>2, <1>3, RefusedKeeps DEF VecRefuse
<1>4. CASE /\ vec.cap < c /\ c <= MaxCap /\ vec' = Resized(vec, c)
           /\ Report("expand", c, 0, "C_OK", <<>>)
  <2>1. /\ IsVec(vec') /\ vec'.size = vec.size
        /\ \A k \in 1..vec'.size : VecContents(vec')[k] = VecContents(vec)[k]
    <3>1. c \in 0..MaxCap /\ ~(vec.size > c)
      BY <1>0, <1>4, MemoryAssumption
    <3>2. QED
      BY <1>4, <3>1, ResizedIs
  <2>2. VecContents(vec') = VecContents(vec)
    <3>1. /\ VecContents(vec') \in Seq(Value)
          /\ Len(VecContents(vec')) = vec.size
      BY <2>1, ContentsAre
    <3>2. /\ VecContents(vec) \in Seq(Value)
          /\ Len(VecContents(vec)) = vec.size
      BY ContentsAre
    <3>3. \A k \in 1..vec.size : VecContents(vec')[k] = VecContents(vec)[k]
      BY <2>1
    <3>4. QED
      BY <3>1, <3>2, <3>3, SeqEqual
  <2>3. Items' = Items
    BY <2>2 DEF Items, VecContents
  <2>4. QED
    BY <1>2, <1>4, <2>1, <2>3
<1>5. QED
  BY <1>1, <1>3, <1>4 DEF VecExpand

LEMMA LostIs ==
  ASSUME NEW v, IsVec(v), NEW c \in 0..MaxCap
  PROVE  IsVec(Lost(v, c))
<1>1. Lost(v, c) = [cap |-> c, size |-> IF v.size > c THEN c ELSE v.size,
                    arr |-> [s \in Slots(c) |-> Garbage]]
  BY DEF Lost, WithCapacity
<1>2. (IF v.size > c THEN c ELSE v.size) \in 0..c
  BY MemoryAssumption DEF IsVec
<1>3. QED
  BY <1>1, <1>2 DEF IsVec

LEMMA ShrinkStep ==
  ASSUME IsVec(vec), botched \in BOOLEAN, ~botched, NEW c \in Nat,
         NEW dst \in BOOLEAN, VecShrink(c, dst)
  PROVE  IsVec(vec') /\ botched' \in BOOLEAN /\ (V!DNext \/ botched')
<1> DEFINE kept == IF vec.size < c THEN vec.size ELSE c
           trimmed == IF dst THEN VecTrimmed(vec, c) ELSE <<>>
<1>0. /\ Items \in Seq(Value) /\ Len(Items) = vec.size /\ V!Size = vec.size
      /\ vec.size \in Nat /\ vec.cap \in Nat /\ vec.size <= vec.cap
      /\ vec.cap <= MaxCap /\ MaxCap \in Nat
  BY ContentsAre, MemoryAssumption DEF IsVec, Items, V!Size
<1>1. ShrinkOp(dst) = (IF dst THEN "split" ELSE "shrink")
  BY DEF ShrinkOp
<1>2. V!Kept(c) = kept
  BY <1>0 DEF V!Kept
<1>3. CASE vec.cap < c /\ UNCHANGED botched
           /\ VecRefuse(ShrinkOp(dst), c, 0, "C_CAP_LOWER")
  <2>1. V!DRefuse(ShrinkOp(dst), c, 0, "C_CAP_LOWER")
    BY <1>0, <1>1, <1>3, RefusedKeeps DEF V!DRefuse, Items
  <2>2. IsVec(vec') /\ V!DNext
    BY <1>3, <2>1, RefusedStep
  <2>3. QED
    BY <1>3, <2>2
<1>4. ASSUME IsVec(vec'), Items' = V!FirstItems(kept),
             Report(ShrinkOp(dst), c, 0, "C_OK",
                    IF dst THEN V!ItemsFrom(kept) ELSE <<>>)
      PROVE  V!DNext
  <2>1. last'.at = c
    BY <1>4 DEF Report
  <2>2. CASE dst
    <3>1. V!DSplit(last'.at)
      BY <1>1, <1>2, <1>4, <2>1, <2>2 DEF V!DSplit, Report, V!Report, Items
    <3>2. QED
      BY <3>1 DEF V!DNext
  <2>3. CASE ~dst
    <3>1. V!DShrink(last'.at)
      BY <1>1, <1>2, <1>4, <2>1, <2>3 DEF V!DShrink, Report, V!Report, Items
    <3>2. QED
      BY <3>1 DEF V!DNext
  <2>4. QED
    BY <2>2, <2>3
<1>5. trimmed = IF dst THEN V!ItemsFrom(kept) ELSE <<>>
  <2>1. CASE vec.size < c
    <3>1. SubSeq(Items, c + 1, vec.size) = <<>>
      BY <1>0, <2>1, SubSeqProperties
    <3>2. SubSeq(Items, vec.size + 1, vec.size) = <<>>
      BY <1>0, SubSeqProperties
    <3>3. QED
      BY <1>0, <2>1, <3>1, <3>2 DEF VecTrimmed, V!ItemsFrom, Items
  <2>2. CASE ~(vec.size < c)
    BY <1>0, <2>2 DEF VecTrimmed, V!ItemsFrom, Items
  <2>3. QED
    BY <2>1, <2>2
<1>6. CASE vec.cap = c /\ UNCHANGED botched
           /\ VecRefuse(ShrinkOp(dst), c, 0, "C_OK")
  <2>1. kept = Len(Items) /\ kept \in 0..Len(Items)
    BY <1>0, <1>6
  <2>2. Items = SubSeq(Items, 1, kept)
    BY <1>0, <2>1, SequenceKept
  <2>3. Items' = V!FirstItems(kept)
    BY <1>6, <2>2, RefusedKeeps DEF V!FirstItems, Items
  <2>4. SubSeq(Items, kept + 1, Len(Items)) = <<>>
    BY <1>0, <2>1, SubSeqProperties
  <2>5. (IF dst THEN V!ItemsFrom(kept) ELSE <<>>) = <<>>
    BY <1>0, <2>4 DEF V!ItemsFrom, Items
  <2>6. Report(ShrinkOp(dst), c, 0, "C_OK",
               IF dst THEN V!ItemsFrom(kept) ELSE <<>>)
    BY <1>6, <2>5 DEF VecRefuse
  <2>7. IsVec(vec') /\ botched' = FALSE
    BY <1>6 DEF VecRefuse
  <2>8. QED
    BY <1>4, <2>3, <2>6, <2>7
<1>7. CASE /\ vec.cap > c
           /\ \E filled, whole \in BOOLEAN :
                /\ ~filled => dst /\ c < vec.size
                /\ ~whole => c > 0
                /\ vec' = IF whole THEN Resized(vec, c) ELSE Lost(vec, c)
                /\ Report(ShrinkOp(dst), c, 0, "C_OK",
                          IF dst /\ filled THEN VecTrimmed(vec, c) ELSE <<>>)
                /\ botched' = ~(filled /\ whole)
  <2>1. PICK filled \in BOOLEAN, whole \in BOOLEAN :
                /\ vec' = IF whole THEN Resized(vec, c) ELSE Lost(vec, c)
                /\ Report(ShrinkOp(dst), c, 0, "C_OK",
                          IF dst /\ filled THEN VecTrimmed(vec, c) ELSE <<>>)
                /\ botched' = ~(filled /\ whole)
    BY <1>7
  <2>2. c \in 0..MaxCap /\ kept = IF vec.size > c THEN c ELSE vec.size
    BY <1>0, <1>7
  <2>3. IsVec(vec')
    BY <2>1, <2>2, ResizedIs, LostIs
  <2>4. CASE ~(filled /\ whole)
    BY <2>1, <2>3, <2>4
  <2>5. CASE filled /\ whole
    <3>1. vec' = Resized(vec, c)
      BY <2>1, <2>5
    <3>2. /\ vec'.size = kept
          /\ \A k \in 1..vec'.size : VecContents(vec')[k] = VecContents(vec)[k]
      <4> HIDE DEF kept
      <4>1. QED
        BY <2>2, <3>1, ResizedIs
    <3>3. Items' = VecContents(vec')
      BY DEF Items, VecContents
    <3>4. /\ Items' \in Seq(Value) /\ Len(Items') = kept
          /\ \A k \in 1..kept : Items'[k] = Items[k]
      BY <2>3, <3>2, <3>3, ContentsAre DEF Items
    <3>5. kept \in 0..Len(Items)
      BY <1>0
    <3>6. Items' = V!FirstItems(kept)
      <4> HIDE DEF kept
      <4>1. Items' = SubSeq(Items, 1, kept)
        BY <1>0, <3>4, <3>5, SequenceKept
      <4>2. QED
        BY <4>1 DEF V!FirstItems, Items
    <3>7. (IF dst /\ filled THEN VecTrimmed(vec, c) ELSE <<>>) = trimmed
      BY <2>5
    <3>8. Report(ShrinkOp(dst), c, 0, "C_OK",
                 IF dst THEN V!ItemsFrom(kept) ELSE <<>>)
      <4> HIDE DEF kept, trimmed
      <4>1. QED
        BY <1>5, <2>1, <3>7
    <3>9. QED
      <4> HIDE DEF kept
      <4>1. QED
        BY <1>4, <2>1, <2>3, <2>5, <3>6, <3>8
  <2>6. QED
    BY <2>4, <2>5
<1>8. QED
  BY <1>3, <1>6, <1>7 DEF VecShrink

-----------------------------------------------------------------------------
LEMMA VecCallStep ==
  ASSUME IsVec(vec), VecCall
  PROVE  IsVec(vec') /\ V!DNext
<1>1. ASSUME NEW e \in Elems, VecPush(e) PROVE IsVec(vec') /\ V!DNext
  <2>1. vec.size \in Nat
    BY MemoryAssumption DEF IsVec
  <2>2. QED
    BY <1>1, <2>1, InsertStep DEF VecPush
<1>2. ASSUME NEW e \in Elems, VecRemoveByValue(e) PROVE IsVec(vec') /\ V!DNext
  BY <1>2, RemoveByValueStep
<1>3. CASE VecPop
  BY <1>3, PopStep
<1>4. ASSUME NEW i \in 0..MaxCap, NEW e \in Elems, VecInsert("insert", i, i, e)
      PROVE  IsVec(vec') /\ V!DNext
  <2>1. i \in Nat
    BY MemoryAssumption
  <2>2. "insert" = "insert" /\ i = i
    OBVIOUS
  <2>3. QED
    BY <1>4, <2>1, <2>2, InsertStep, ZenonT(30)
<1>5. ASSUME NEW i \in 0..MaxCap, VecRemove("remove", i, i)
      PROVE  IsVec(vec') /\ V!DNext
  BY <1>5, RemoveStep, MemoryAssumption
<1>6. ASSUME NEW c \in 0..(MaxCap + 1), VecExpand(c)
      PROVE  IsVec(vec') /\ V!DNext
  BY <1>6, ExpandStep, MemoryAssumption
<1>7. QED
  BY <1>1, <1>2, <1>3, <1>4, <1>5, <1>6 DEF VecCall

VecInv == IsVec(vec) /\ botched \in BOOLEAN

LEMMA VecInvInit == VecInit => VecInv
<1>1. ASSUME NEW c \in 0..InitialCap PROVE IsVec(WithCapacity(c))
  BY WithCapacityIs, MemoryAssumption
<1>2. QED
  BY <1>1 DEF VecInit, VecInv

LEMMA VecStep ==
  ASSUME VecInv, [VecNext]_vecvars
  PROVE  VecInv' /\ [V!DNext \/ botched']_(V!dvars)
<1>0. IsVec(vec') => IsVec(vec)'
  BY DEF IsVec
<1>1. CASE VecCall /\ UNCHANGED botched
  BY <1>0, <1>1, VecCallStep DEF VecInv
<1>2. ASSUME NEW c \in 0..(MaxCap + 1), NEW dst \in BOOLEAN, ~botched,
             VecShrink(c, dst)
      PROVE  VecInv' /\ [V!DNext \/ botched']_(V!dvars)
  BY <1>0, <1>2, ShrinkStep, MemoryAssumption DEF VecInv
<1>3. CASE UNCHANGED vecvars
  BY <1>3 DEF vecvars, V!dvars, VecContents, VecInv, IsVec
<1>4. QED
  BY <1>1, <1>2, <1>3 DEF VecNext

\* The struct stays consistent: size never exceeds cap, and the array has
\* cap slots, through every growth, shrink, insertion and removal.
THEOREM VecTypeCorrect == VecSpec => []IsVec(vec)
<1>1. VecInit => VecInv
  BY VecInvInit
<1>2. VecInv /\ [VecNext]_vecvars => VecInv'
  BY VecStep
<1>3. VecInv => IsVec(vec)
  BY DEF VecInv
<1>4. QED
  BY <1>1, <1>2, <1>3, PTL DEF VecSpec

\* The vec implements the sequence: whatever calls came before, each call
\* does to the elements, answers and hands out what it would on a sequence.
THEOREM VecImplementsSequence == VecSpec => VecIsSequence
<1>1. VecInit => V!DInit
  <2> SUFFICES ASSUME VecInit PROVE V!DInit
    OBVIOUS
  <2>1. VecContents(vec) = <<>>
    BY WithCapacityIs, MemoryAssumption DEF VecInit
  <2>2. VecContents(vec) \in Seq(Elems)
    BY <2>1
  <2>3. QED
    BY <2>2 DEF VecInit, V!DInit
<1>2. VecInit => VecInv
  BY VecInvInit
<1>3. VecInv /\ [VecNext]_vecvars => VecInv' /\ [V!DNext \/ botched']_(V!dvars)
  BY VecStep
<1>4. QED
  BY <1>1, <1>2, <1>3, PTL DEF VecSpec, VecIsSequence
=============================================================================
