-------------------------- MODULE RingbufferProofs --------------------------
(***************************************************************************)
(* Proofs about module Ringbuffer, for every set of elements, every growth *)
(* and every amount of memory: until a shrink has gone wrong (botched), the *)
(* fields of the ring stay consistent, so that no call writes outside the  *)
(* array.                                                                  *)
(*                                                                         *)
(* One lemma per operator says that it takes a good ring to a good ring;   *)
(* the theorems follow by cases on Next.                                   *)
(*                                                                         *)
(* The second half proves, up to the same step, that the ring              *)
(* implements the sequence of module Deque. A lemma per operator says what *)
(* it does to the elements, index by index, whatever slots they are in;    *)
(* the lemmas of VecProofs say what that is on sequences. Before it is     *)
(* turned into the ring, the vec is the sequence.                          *)
(***************************************************************************)
EXTENDS Ringbuffer, VecProofs, TLAPS

Good(r) == IsRing(r) /\ WellPlaced(r)

\* Arithmetic modulo the capacity, of an index at most one turn away.
LEMMA ModWithin ==
  ASSUME NEW c \in Nat \ {0}, NEW n \in 0..(c - 1) PROVE n % c = n
  BY SMT

LEMMA ModWrapped ==
  ASSUME NEW c \in Nat \ {0}, NEW n \in c..(2 * c - 1) PROVE n % c = n - c
  BY SMT

LEMMA ModOnce ==
  ASSUME NEW c \in Nat \ {0}, NEW n \in 0..(2 * c - 1)
  PROVE  n % c = IF n < c THEN n ELSE n - c
<1>1. CASE n < c
  BY <1>1, ModWithin
<1>2. CASE n >= c
  BY <1>2, ModWrapped
<1>3. QED
  BY <1>1, <1>2

LEMMA ModRange ==
  ASSUME NEW c \in Nat \ {0}, NEW n \in Int PROVE n % c \in 0..(c - 1)
  BY SMT

\* head is tail plus size, minus the capacity if that runs past the end.
LEMMA Placed ==
  ASSUME NEW r, IsRing(r), r.cap > 0
  PROVE  WellPlaced(r) <=>
           /\ r.tail < r.cap
           /\ r.head = IF r.tail + r.size < r.cap THEN r.tail + r.size
                       ELSE r.tail + r.size - r.cap
<1>1. CASE r.tail >= r.cap
  BY <1>1 DEF WellPlaced, IsRing
<1>2. CASE r.tail < r.cap /\ r.tail + r.size < r.cap
  BY <1>2, ModWithin DEF WellPlaced, IsRing
<1>3. CASE r.tail < r.cap /\ r.tail + r.size >= r.cap
  BY <1>3, ModWrapped DEF WellPlaced, IsRing
<1>4. QED
  BY <1>1, <1>2, <1>3 DEF IsRing

\* Growing.
LEMMA GrownGood ==
  ASSUME NEW r, Good(r), NEW c \in Nat, r.cap < c, c <= MaxCap
  PROVE  Good(Grown(r, c)) /\ Grown(r, c).cap = c /\ Grown(r, c).size = r.size
<1> DEFINE g == Grown(r, c)
<1>1. /\ g.cap = c /\ g.size = r.size /\ g.tail = r.tail
      /\ g = Ring(g.cap, g.head, g.tail, g.size, g.arr)
  BY DEF Grown, Ring
<1>2. CASE NoShift(r)
  <2>1. g.arr = [s \in Slots(c) |-> Read(r, s)] /\ g.head = r.head
    BY <1>2 DEF Grown, Ring
  <2>2. g.arr \in [Slots(c) -> Elems \cup {Garbage}]
    BY <2>1 DEF Read, Good, IsRing
  <2>3. IsRing(g)
    BY <1>1, <2>1, <2>2, MemoryAssumption DEF Good, IsRing
  <2>4. WellPlaced(g)
    <3>1. CASE r.cap = 0
      <4>1. r.head = 0 /\ r.tail = 0 /\ r.size = 0 /\ c > 0
        BY <3>1 DEF Good, IsRing, WellPlaced
      <4>2. QED
        BY <1>1, <2>1, <2>3, <4>1, Placed
    <3>2. CASE r.cap > 0
      <4>1. /\ r.tail < r.cap /\ r.cap \in Nat /\ r.size \in 0..r.cap
            /\ r.head = IF r.tail + r.size < r.cap THEN r.tail + r.size
                        ELSE r.tail + r.size - r.cap
            /\ r.tail \in Nat
        BY <3>2, Placed DEF Good, IsRing
      <4>2. r.head = r.tail + r.size
        BY <1>2, <3>2, <4>1 DEF NoShift
      <4>3. QED
        BY <1>1, <2>1, <2>3, <4>1, <4>2, Placed
    <3>3. QED
      BY <3>1, <3>2 DEF Good, IsRing
  <2>5. QED
    BY <1>1, <2>3, <2>4 DEF Good
<1>3. CASE ~NoShift(r)
  <2>1. g.arr = Shifted(r, c) /\ g.head = ShiftedHead(r, c)
    BY <1>3 DEF Grown, Ring
  <2>2. /\ r.cap > 0 /\ r.tail < r.cap /\ r.size > 0 /\ r.head <= r.tail
        /\ r.head = r.tail + r.size - r.cap
    BY <1>3, Placed DEF NoShift, Good, IsRing, WellPlaced
  <2>3. g.arr \in [Slots(c) -> Elems \cup {Garbage}]
    <3> DEFINE moved == Min2(r.head, c - r.cap)
    <3>1. /\ r.head \in Nat /\ r.cap \in Nat /\ r.head < r.cap
          /\ \A s \in Slots(r.cap) : r.arr[s] \in Elems \cup {Garbage}
      BY <2>2 DEF Good, IsRing
    <3>2. moved \in Nat /\ moved <= r.head
      BY <3>1 DEF Min2
    <3>3. ASSUME NEW s \in Slots(c), s >= r.cap
          PROVE  (IF s - r.cap < moved THEN r.arr[s - r.cap] ELSE Garbage)
                   \in Elems \cup {Garbage}
      BY <3>1, <3>2, <3>3 DEF Slots
    <3>4. ASSUME NEW s \in Slots(c), s < r.cap
          PROVE  (IF s < r.head - moved THEN r.arr[moved + s] ELSE r.arr[s])
                   \in Elems \cup {Garbage}
      BY <3>1, <3>2, <3>4 DEF Slots
    <3> HIDE DEF moved
    <3>5. \A s \in Slots(c) : s \in Int
      BY DEF Slots
    <3>6. \A s \in Slots(c) :
            (IF s >= r.cap
             THEN IF s - r.cap < moved THEN r.arr[s - r.cap] ELSE Garbage
             ELSE IF s < r.head - moved THEN r.arr[moved + s] ELSE r.arr[s])
              \in Elems \cup {Garbage}
      BY <3>1, <3>3, <3>4, <3>5
    <3>7. QED
      BY <2>1, <3>6 DEF Shifted, moved
  <2>4. (r.tail + r.size) % c = IF r.tail + r.size < c THEN r.tail + r.size
                                ELSE r.tail + r.size - c
    <3>1. /\ c \in Nat \ {0} /\ r.tail \in Nat /\ r.size \in Nat
          /\ r.tail + r.size \in 0..(2 * c - 1)
      BY <2>2 DEF Good, IsRing
    <3>2. QED
      BY <3>1, ModOnce
  <2>5. g.head = IF r.tail + r.size < c THEN r.tail + r.size
                 ELSE r.tail + r.size - c
    BY <2>1, <2>2, <2>4 DEF ShiftedHead, Good, IsRing
  <2>6. IsRing(g)
    BY <1>1, <2>2, <2>3, <2>5, MemoryAssumption DEF Good, IsRing
  <2>7. QED
    BY <1>1, <2>2, <2>5, <2>6, Placed DEF Good, IsRing
<1>4. QED
  BY <1>2, <1>3

LEMMA WithRoomGood ==
  ASSUME NEW r, Good(r), ~NoRoom(r)
  PROVE  LET w == WithRoom(r) IN
           Good(w) /\ w.size < w.cap /\ w.size = r.size
  BY GrownGood, MemoryAssumption DEF NoRoom, WithRoom, Full, Good, IsRing

\* The calls that move one end.
LEMMA PushedFrontGood ==
  ASSUME NEW r, Good(r), r.size < r.cap, NEW e \in Elems
  PROVE  Good(PushedFront(r, e))
<1> DEFINE p == PushedFront(r, e)
<1>1. /\ p.cap = r.cap /\ p.size = r.size + 1 /\ p.tail = r.tail
      /\ p.head = Inc(r, r.head) /\ p.arr = [r.arr EXCEPT ![r.head] = e]
      /\ p = Ring(p.cap, p.head, p.tail, p.size, p.arr)
  BY DEF PushedFront, Ring
<1>2. IsRing(p)
  <2>1. r.head \in Nat /\ p.head \in Nat
    BY <1>1 DEF Inc, Good, IsRing
  <2>2. p.arr \in [Slots(r.cap) -> Elems \cup {Garbage}]
    BY <1>1 DEF Good, IsRing
  <2>3. QED
    BY <1>1, <2>1, <2>2 DEF Good, IsRing
<1>3. WellPlaced(p)
  BY <1>1, <1>2, Placed DEF Inc, Good, IsRing
<1>4. QED
  BY <1>2, <1>3 DEF Good

LEMMA PushedBackGood ==
  ASSUME NEW r, Good(r), r.size < r.cap, NEW e \in Elems
  PROVE  Good(PushedBack(r, e))
<1> DEFINE p == PushedBack(r, e)
<1>1. /\ p.cap = r.cap /\ p.size = r.size + 1 /\ p.tail = Dec(r, r.tail)
      /\ p.head = r.head /\ p.arr = [r.arr EXCEPT ![Dec(r, r.tail)] = e]
      /\ p = Ring(p.cap, p.head, p.tail, p.size, p.arr)
  BY DEF PushedBack, Ring
<1>2. IsRing(p)
  <2>1. p.tail \in Nat
    BY <1>1 DEF Dec, Good, IsRing
  <2>2. p.arr \in [Slots(r.cap) -> Elems \cup {Garbage}]
    BY <1>1 DEF Good, IsRing
  <2>3. QED
    BY <1>1, <2>1, <2>2 DEF Good, IsRing
<1>3. WellPlaced(p)
  BY <1>1, <1>2, Placed DEF Dec, Good, IsRing
<1>4. QED
  BY <1>2, <1>3 DEF Good

LEMMA PoppedFrontGood ==
  ASSUME NEW r, Good(r), r.size > 0
  PROVE  Good(PoppedFront(r))
<1> DEFINE p == PoppedFront(r)
<1>1. /\ p.cap = r.cap /\ p.size = r.size - 1 /\ p.tail = r.tail
      /\ p.head = Dec(r, r.head) /\ p.arr = r.arr
      /\ p = Ring(p.cap, p.head, p.tail, p.size, p.arr)
  BY DEF PoppedFront, Ring
<1>2. IsRing(p)
  BY <1>1 DEF Dec, Good, IsRing
<1>3. WellPlaced(p)
  BY <1>1, <1>2, Placed DEF Dec, Good, IsRing
<1>4. QED
  BY <1>2, <1>3 DEF Good

LEMMA PoppedBackGood ==
  ASSUME NEW r, Good(r), r.size > 0
  PROVE  Good(PoppedBack(r))
<1> DEFINE p == PoppedBack(r)
<1>1. /\ p.cap = r.cap /\ p.size = r.size - 1 /\ p.tail = Inc(r, r.tail)
      /\ p.head = r.head /\ p.arr = r.arr
      /\ p = Ring(p.cap, p.head, p.tail, p.size, p.arr)
  BY DEF PoppedBack, Ring
<1>2. IsRing(p)
  <2>1. r.tail \in Nat /\ p.tail \in Nat
    BY <1>1 DEF Inc, Good, IsRing
  <2>2. p.arr \in [Slots(r.cap) -> Elems \cup {Garbage}]
    BY <1>1 DEF Good, IsRing
  <2>3. QED
    BY <1>1, <2>1, <2>2 DEF Good, IsRing
<1>3. WellPlaced(p)
  <2>1. /\ r.cap \in Nat /\ r.size \in 1..r.cap /\ r.tail \in 0..(r.cap - 1)
        /\ r.head = IF r.tail + r.size < r.cap THEN r.tail + r.size
                    ELSE r.tail + r.size - r.cap
    BY Placed DEF Good, IsRing
  <2>2. /\ p.tail < p.cap
        /\ p.head = IF p.tail + p.size < p.cap THEN p.tail + p.size
                    ELSE p.tail + p.size - p.cap
    BY <1>1, <2>1 DEF Inc
  <2>3. QED
    BY <1>1, <1>2, <2>1, <2>2, Placed
<1>4. QED
  BY <1>2, <1>3 DEF Good

-----------------------------------------------------------------------------
\* The calls that move elements.
LEMMA InsertedGood ==
  ASSUME NEW r, Good(r), r.size < r.cap, NEW e \in Elems, NEW i \in 0..r.size
  PROVE  Good(Inserted(r, i, e))
<1> DEFINE p == Inserted(r, i, e)
<1>1. /\ p.cap = r.cap /\ p.size = r.size + 1 /\ p.tail = r.tail
      /\ p.head = Inc(r, r.head)
      /\ p.arr = [s \in Slots(r.cap) |->
                   CASE BeforeHead(r, s) < r.size - i -> r.arr[Dec(r, s)]
                     [] BeforeHead(r, s) = r.size - i -> e
                     [] OTHER -> r.arr[s]]
      /\ p = Ring(p.cap, p.head, p.tail, p.size, p.arr)
  BY DEF Inserted, Ring
<1>2. \A s \in Slots(r.cap) : Dec(r, s) \in Slots(r.cap)
  BY DEF Dec, Slots, Good, IsRing
<1>3. p.arr \in [Slots(r.cap) -> Elems \cup {Garbage}]
  BY <1>1, <1>2 DEF Good, IsRing
<1>4. IsRing(p)
  BY <1>1, <1>3 DEF Inc, Good, IsRing
<1>5. WellPlaced(p)
  BY <1>1, <1>4, Placed DEF Inc, Good, IsRing
<1>6. QED
  BY <1>4, <1>5 DEF Good

LEMMA RemovedGood ==
  ASSUME NEW r, Good(r), NEW i \in 0..(r.size - 1)
  PROVE  Good(Removed(r, i))
<1> DEFINE p == Removed(r, i)
<1>1. /\ p.cap = r.cap /\ p.size = r.size - 1 /\ p.tail = r.tail
      /\ p.head = Dec(r, r.head)
      /\ p.arr = [s \in Slots(r.cap) |->
                   IF Behind(r, s, Slot(r, i)) < r.size - i
                   THEN r.arr[Inc(r, s)] ELSE r.arr[s]]
      /\ p = Ring(p.cap, p.head, p.tail, p.size, p.arr)
  BY DEF Removed, Ring
<1>2. \A s \in Slots(r.cap) : Inc(r, s) \in Slots(r.cap)
  BY DEF Inc, Slots, Good, IsRing
<1>3. p.arr \in [Slots(r.cap) -> Elems \cup {Garbage}]
  BY <1>1, <1>2 DEF Good, IsRing
<1>4. IsRing(p)
  BY <1>1, <1>3 DEF Dec, Good, IsRing
<1>5. WellPlaced(p)
  BY <1>1, <1>4, Placed DEF Dec, Good, IsRing
<1>6. QED
  BY <1>4, <1>5 DEF Good

\* Shrinking to c slots.
Shrinkable(r, c) == Good(r) /\ c \in Nat /\ 0 < c /\ c < r.cap

\* The elements taken off a ring, its head is back inside the array.
LEMMA StrippedHeadIs ==
  ASSUME NEW r, NEW c, Shrinkable(r, c)
  PROVE  /\ StrippedHead(r, c) \in 0..(r.cap - 1)
         /\ r.size <= c => StrippedHead(r, c) = r.head
<1>1. /\ r.cap \in Nat \ {0} /\ r.tail + c \in Int /\ r.size \in Nat
      /\ r.tail + r.size \in Int
  BY MemoryAssumption DEF Shrinkable, Good, IsRing
<1>2. (r.tail + c) % r.cap \in 0..(r.cap - 1)
  BY <1>1, ModRange
<1>3. r.head \in 0..(r.cap - 1)
  <2>1. WellPlaced(r)
    BY DEF Shrinkable, Good
  <2>2. (r.tail + r.size) % r.cap \in 0..(r.cap - 1)
    BY <1>1, ModRange
  <2>3. QED
    BY <1>1, <2>1, <2>2 DEF WellPlaced
<1>4. r.size = c => r.head = (r.tail + c) % r.cap
  BY <1>1 DEF Shrinkable, Good, WellPlaced
<1>5. QED
  BY <1>1, <1>2, <1>3, <1>4 DEF StrippedHead, Shrinkable

LEMMA GatheredType ==
  ASSUME NEW r, NEW c, Shrinkable(r, c)
  PROVE  Gathered(r, c) \in [Slots(c) -> Elems \cup {Garbage}]
<1> DEFINE h == StrippedHead(r, c)
<1>1. r.cap \in Nat /\ c \in Nat /\ c < r.cap /\ h \in 0..(r.cap - 1)
  BY StrippedHeadIs, MemoryAssumption DEF Shrinkable, Good, IsRing
<1>2. \A s \in Slots(r.cap) : r.arr[s] \in Elems \cup {Garbage}
  BY DEF Shrinkable, Good, IsRing
<1>3. \A s : Read(r, s) \in Elems \cup {Garbage}
  BY <1>2 DEF Read
<1> HIDE DEF h
<1>4. \A s \in Slots(c) : s < c - h \/ s - (c - h) \in Slots(r.cap)
  BY <1>1 DEF Slots
<1>5. Slots(c) \subseteq Slots(r.cap)
  BY <1>1 DEF Slots
<1>6. QED
  BY <1>2, <1>3, <1>4, <1>5 DEF Gathered, h

\* Whatever becomes of the elements, a ring moved to slot 0 is well placed.
LEMMA MovedGood ==
  ASSUME NEW r, NEW c, Shrinkable(r, c)
  PROVE  /\ Good(Moved(r, c))
         /\ Moved(r, c).cap = c /\ Moved(r, c).tail = 0
         /\ Moved(r, c).size = Min2(r.size, c)
         /\ Moved(r, c).arr = Gathered(r, c)
<1> DEFINE p == Moved(r, c)
           n == Min2(r.size, c)
<1>1. /\ n \in 0..c /\ c \in Nat \ {0} /\ c \in 0..MaxCap
  BY MemoryAssumption DEF Min2, Shrinkable, Good, IsRing
<1>2. n % c \in 0..(c - 1)
  <2> HIDE DEF n
  <2>1. n \in Int
    BY <1>1
  <2>2. QED
    BY <1>1, <2>1, ModRange
<1>3. /\ p.cap = c /\ p.head = n % c /\ p.tail = 0 /\ p.size = n
      /\ p.arr = Gathered(r, c)
      /\ p = Ring(p.cap, p.head, p.tail, p.size, p.arr)
  BY DEF Moved, Ring
<1> HIDE DEF p, n
<1>4. IsRing(p)
  BY <1>1, <1>2, <1>3, GatheredType DEF IsRing
<1>5. WellPlaced(p)
  BY <1>1, <1>3 DEF WellPlaced
<1>6. QED
  BY <1>3, <1>4, <1>5 DEF Good, p, n

\* In place: unless the elements end at the new end of the array, head stays
\* where it has to be.
LEMMA TruncatedGood ==
  ASSUME NEW r, NEW c, Shrinkable(r, c), FitsInPlace(r, c)
  PROVE  /\ IsRing(Truncated(r, c))
         /\ r.tail + r.size # c => Good(Truncated(r, c))
<1> DEFINE p == Truncated(r, c)
<1>1. /\ p.cap = c /\ p.head = r.head /\ p.tail = r.tail /\ p.size = r.size
      /\ p.arr = [s \in Slots(c) |-> Read(r, s)]
      /\ p = Ring(p.cap, p.head, p.tail, p.size, p.arr)
  BY DEF Truncated, Ring
<1>2. \A s : Read(r, s) \in Elems \cup {Garbage}
  BY DEF Read, Shrinkable, Good, IsRing
<1>3. /\ r.size \in Nat /\ r.tail \in Nat /\ r.head \in Nat /\ c \in Nat \ {0}
      /\ r.tail + r.size <= c /\ c \in 0..MaxCap /\ r.cap \in Nat /\ c < r.cap
  BY MemoryAssumption DEF Shrinkable, FitsInPlace, Good, IsRing
<1> HIDE DEF p
<1>4. IsRing(p)
  BY <1>1, <1>2, <1>3 DEF IsRing
<1>5. ASSUME r.tail + r.size # c PROVE WellPlaced(p)
  <2>1. r.head = (r.tail + r.size) % r.cap
    BY <1>3 DEF Shrinkable, Good, WellPlaced
  <2>a. /\ r.cap \in Nat \ {0}
        /\ r.tail + r.size \in 0..(r.cap - 1) /\ r.tail + r.size \in 0..(c - 1)
    BY <1>3, <1>5
  <2>2. (r.tail + r.size) % r.cap = r.tail + r.size
    BY <2>a, ModWithin
  <2>3. (r.tail + r.size) % c = r.tail + r.size
    BY <1>3, <2>a, ModWithin
  <2>4. QED
    BY <1>1, <1>3, <1>5, <2>1, <2>2, <2>3 DEF WellPlaced
<1>6. QED
  BY <1>4, <1>5 DEF Good, p

\* No memory for the slots held back: a ring that had no element to lose is
\* as it was.
LEMMA HalfStrippedIs ==
  ASSUME NEW r, NEW c, Shrinkable(r, c)
  PROVE  /\ IsRing(HalfStripped(r, c))
         /\ r.size <= c => HalfStripped(r, c) = r
<1>1. r = Ring(r.cap, r.head, r.tail, r.size, r.arr)
  BY DEF Shrinkable, Good, IsRing
<1>2. HalfStripped(r, c) = Ring(r.cap, StrippedHead(r, c), r.tail, r.size, r.arr)
  BY <1>1 DEF HalfStripped, Ring
<1>3. StrippedHead(r, c) \in Nat
  BY StrippedHeadIs, MemoryAssumption DEF Shrinkable, Good, IsRing
<1>4. IsRing(HalfStripped(r, c))
  BY <1>2, <1>3 DEF Shrinkable, Good, IsRing, Ring
<1>5. QED
  BY <1>1, <1>2, <1>4, StrippedHeadIs, Zenon

\* No memory for the new array: an empty ring is as it was.
LEMMA HalfMovedIs ==
  ASSUME NEW r, NEW c, Shrinkable(r, c)
  PROVE  /\ IsRing(HalfMoved(r, c))
         /\ r.size = 0 => HalfMoved(r, c) = r
<1> DEFINE a == [s \in Slots(r.cap) |->
                   IF s < c THEN Gathered(r, c)[s] ELSE r.arr[s]]
<1>1. r = Ring(r.cap, r.head, r.tail, r.size, r.arr)
  BY DEF Shrinkable, Good, IsRing
<1>2. HalfMoved(r, c) = Ring(r.cap, StrippedHead(r, c), r.tail, r.size, a)
  BY DEF HalfMoved
<1>3. /\ StrippedHead(r, c) \in Nat /\ r.cap \in Nat /\ c \in Nat /\ c < r.cap
      /\ r.arr \in [Slots(r.cap) -> Elems \cup {Garbage}] /\ c > 0
  BY StrippedHeadIs, MemoryAssumption DEF Shrinkable, Good, IsRing
<1>4. \A s \in Slots(r.cap) : s < c => s \in Slots(c)
  BY <1>3 DEF Slots
<1>5. a \in [Slots(r.cap) -> Elems \cup {Garbage}]
  BY <1>3, <1>4, GatheredType
<1>6. ASSUME r.size = 0 PROVE a = r.arr
  <2>1. StrippedHead(r, c) = r.head
    BY <1>3, <1>6, StrippedHeadIs
  <2>2. r.head = r.tail
    BY <1>3, <1>6, Placed DEF Shrinkable, Good, IsRing
  <2>3. \A s \in Slots(c) : Gathered(r, c)[s] = r.arr[s]
    BY <1>6, <2>1, <2>2, <1>3 DEF Gathered, Shrinkable, Good, IsRing
  <2>4. \A s \in Slots(r.cap) : a[s] = r.arr[s]
    BY <1>4, <2>3
  <2>5. QED
    BY <1>3, <2>4
<1> HIDE DEF a
<1>7. IsRing(HalfMoved(r, c))
  BY <1>2, <1>3, <1>5 DEF Shrinkable, Good, IsRing, Ring
<1>8. ASSUME r.size = 0 PROVE HalfMoved(r, c) = r
  BY <1>1, <1>2, <1>3, <1>6, <1>8, StrippedHeadIs
<1>9. QED
  BY <1>7, <1>8

-----------------------------------------------------------------------------
LEMMA FromVecGood ==
  ASSUME NEW v, IsVec(v)
  PROVE  Good(FromVec(v))
<1> DEFINE p == FromVec(v)
<1>1. p = Ring(v.cap, IF v.cap = v.size THEN 0 ELSE v.size, 0, v.size, v.arr)
  BY DEF FromVec
<1>2. v.cap \in 0..MaxCap /\ v.size \in 0..v.cap /\ MaxCap \in Nat
  BY MemoryAssumption DEF IsVec
<1>3. IsRing(p)
  BY <1>1, <1>2 DEF IsRing, IsVec, Ring
<1>4. WellPlaced(p)
  <2>1. CASE v.cap = 0
    BY <1>1, <1>2, <2>1 DEF WellPlaced, Ring
  <2>2. CASE v.cap > 0
    BY <1>1, <1>2, <1>3, <2>2, Placed DEF Ring
  <2>3. QED
    BY <1>2, <2>1, <2>2
<1>5. QED
  BY <1>3, <1>4 DEF Good

LEMMA NothingGood == Good(Nothing)
  BY MemoryAssumption DEF Nothing, Good, IsRing, WellPlaced, Slots, Ring

IInv ==
  /\ IsRing(rb) /\ IsVec(vec) /\ turned \in BOOLEAN /\ botched \in BOOLEAN
  /\ ~botched => Good(rb)

LEMMA GoodInit == Init => IInv
<1> SUFFICES ASSUME Init PROVE IInv
  OBVIOUS
<1>1. rb = Nothing /\ turned = FALSE /\ botched = FALSE
  BY DEF Init, VecInit
<1>2. PICK c \in 0..MaxCap : vec = WithCapacity(c)
  BY MemoryAssumption DEF Init, VecInit
<1>3. QED
  BY <1>1, <1>2, NothingGood, WithCapacityIs DEF IInv, Good

LEMMA RingCallStep ==
  ASSUME Good(rb), RingCall PROVE Good(rb')
<1> USE DEF Refuse
<1>1. CASE \E e \in Elems : PushFront(e)
  BY <1>1, WithRoomGood, PushedFrontGood DEF PushFront
<1>2. CASE \E e \in Elems : PushBack(e)
  BY <1>2, WithRoomGood, PushedBackGood DEF PushBack
<1>3. CASE PopFront
  BY <1>3, PoppedFrontGood DEF PopFront
<1>4. CASE PopBack
  BY <1>4, PoppedBackGood DEF PopBack
<1>5. CASE \E i \in 0..MaxCap, e \in Elems : Insert(i, e)
  <2>1. PICK i \in 0..MaxCap, e \in Elems : Insert(i, e)
    BY <1>5
  <2>2. CASE UNCHANGED rb
    BY <2>2
  <2>3. CASE i <= rb.size /\ ~NoRoom(rb) /\ rb' = Inserted(WithRoom(rb), i, e)
    BY <2>3, WithRoomGood, InsertedGood, MemoryAssumption DEF Good, IsRing
  <2>4. QED
    BY <2>1, <2>2, <2>3 DEF Insert
<1>6. CASE \E i \in 0..MaxCap : Remove(i)
  <2>1. PICK i \in 0..MaxCap : Remove(i)
    BY <1>6
  <2>2. CASE i < rb.size /\ rb' = Removed(rb, i)
    BY <2>2, RemovedGood, MemoryAssumption DEF Good, IsRing
  <2>3. QED
    BY <2>1, <2>2 DEF Remove
<1>7. CASE \E c \in 0..(MaxCap + 1) : Expand(c)
  <2>1. PICK c \in 0..(MaxCap + 1) : Expand(c)
    BY <1>7
  <2>2. CASE rb.cap < c /\ c <= MaxCap /\ rb' = Grown(rb, c)
    BY <2>2, GrownGood, MemoryAssumption
  <2>3. QED
    BY <2>1, <2>2 DEF Expand
<1>8. QED
  BY <1>1, <1>2, <1>3, <1>4, <1>5, <1>6, <1>7 DEF RingCall

LEMMA RingStep ==
  ASSUME Good(rb), botched \in BOOLEAN, RingNext
  PROVE  IsRing(rb') /\ botched' \in BOOLEAN /\ (~botched' => Good(rb'))
<1>1. CASE RingCall /\ UNCHANGED botched
  BY <1>1, RingCallStep DEF Good
<1>2. ASSUME NEW c \in 0..(MaxCap + 1), NEW dst \in BOOLEAN, Shrink(c, dst)
      PROVE  IsRing(rb') /\ botched' \in BOOLEAN /\ (~botched' => Good(rb'))
  <2>0. c \in Nat
    BY MemoryAssumption
  <2>1. CASE RefuseShrink(c, dst)
    BY <2>1 DEF RefuseShrink, Refuse, Good
  <2>2. CASE ShrinkToNothing(c, dst)
    BY <2>2, NothingGood DEF ShrinkToNothing, Good
  <2>3. CASE ShrinkInPlace(c, dst)
    <3>1. /\ Shrinkable(rb, c) /\ FitsInPlace(rb, c)
          /\ rb' = Truncated(rb, c) /\ botched' = (rb.tail + rb.size = c)
      BY <2>0, <2>3 DEF ShrinkInPlace, EndShrink, Shrinkable
    <3>2. QED
      BY <3>1, TruncatedGood
  <2>4. CASE ShrinkAndMove(c, dst)
    <3>1. Shrinkable(rb, c) /\ rb.size \in Nat
      BY <2>0, <2>4, MemoryAssumption DEF ShrinkAndMove, Shrinkable, Good, IsRing
    <3>2. CASE rb' = HalfStripped(rb, c) /\ botched' = (rb.size > c)
      <4>1. CASE rb.size > c
        BY <3>1, <3>2, <4>1, HalfStrippedIs
      <4>2. CASE rb.size <= c
        <5>1. rb' = rb
          BY <3>1, <3>2, <4>2, HalfStrippedIs
        <5>2. botched' \in BOOLEAN
          BY <2>0, <3>1, <3>2
        <5>3. QED
          BY <5>1, <5>2 DEF Good
      <4>3. QED
        BY <2>0, <3>1, <4>1, <4>2
    <3>3. CASE rb' = HalfMoved(rb, c) /\ botched' = (rb.size > 0)
      <4>1. CASE rb.size > 0
        BY <3>1, <3>3, <4>1, HalfMovedIs
      <4>2. CASE rb.size = 0
        <5>1. rb' = rb
          BY <3>1, <3>3, <4>2, HalfMovedIs
        <5>2. botched' \in BOOLEAN
          BY <3>1, <3>3
        <5>3. QED
          BY <5>1, <5>2 DEF Good
      <4>3. QED
        BY <3>1, <4>1, <4>2
    <3>4. CASE /\ rb' = Moved(rb, c)
               /\ botched' = (HoldsBack(rb, c) /\ rb.size < c)
      BY <3>1, <3>4, MovedGood DEF Good
    <3>5. QED
      BY <2>4, <3>2, <3>3, <3>4 DEF ShrinkAndMove, EndShrink
  <2>5. QED
    BY <1>2, <2>1, <2>2, <2>3, <2>4 DEF Shrink
<1>3. QED
  BY <1>1, <1>2 DEF RingNext

LEMMA GoodStep == IInv /\ [Next]_vars => IInv'
<1> SUFFICES ASSUME IInv, [Next]_vars PROVE IInv'
  OBVIOUS
<1>0. /\ IsRing(rb') /\ IsVec(vec') /\ turned' \in BOOLEAN
      /\ botched' \in BOOLEAN /\ (~botched' => Good(rb'))
      => IInv'
  BY DEF IInv, Good, IsRing, WellPlaced, IsVec
<1>1. CASE ~turned /\ VecNext /\ UNCHANGED <<rb, turned>>
  <2>1. VecInv /\ ~botched
    BY <1>1 DEF IInv, VecInv, VecNext
  <2>2. VecInv'
    BY <1>1, <2>1, VecStep
  <2>3. IsVec(vec') /\ botched' \in BOOLEAN
    BY <2>2 DEF VecInv, IsVec
  <2>4. QED
    BY <1>0, <1>1, <2>1, <2>3 DEF IInv
<1>2. CASE TakeVec
  <2>1. 0 \in 0..MaxCap
    BY MemoryAssumption
  <2>2. Good(rb') /\ IsVec(vec')
    BY <1>2, <2>1, FromVecGood, WithCapacityIs DEF TakeVec, IInv
  <2>3. QED
    BY <1>0, <1>2, <2>2 DEF TakeVec, IInv, Good
<1>3. CASE turned /\ RingNext /\ UNCHANGED <<vec, turned>>
  BY <1>0, <1>3, RingStep DEF IInv, RingNext
<1>4. CASE UNCHANGED vars
  BY <1>0, <1>4 DEF IInv, vars
<1>5. QED
  BY <1>1, <1>2, <1>3, <1>4 DEF Next

LEMMA GoodInvariant == Spec => []IInv
  BY GoodInit, GoodStep, PTL DEF Spec

\* In every state a sequence of calls can lead to, the array has cap slots
\* and holds only pushed elements or garbage, and size never exceeds cap.
THEOREM TypeCorrect == Spec => []TypeOK
<1>1. IInv => TypeOK
  BY DEF IInv, Good, TypeOK
<1>2. QED
  BY <1>1, GoodInvariant, PTL

\* Whatever the order of pushes, pops, insertions, removals, growths and
\* shrinkings, until a shrink goes wrong head is size slots behind tail and
\* inside the array: push_front and push_back never write outside it.
THEOREM HeadPlaced == Spec => []HeadFollowsTail
<1>1. IInv => HeadFollowsTail
  BY DEF IInv, Good, HeadFollowsTail
<1>2. QED
  BY <1>1, GoodInvariant, PTL

-----------------------------------------------------------------------------
(* The elements, and the sequence they are.                                *)

\* Arithmetic modulo the capacity, of a difference of two slots.
LEMMA ModSigned ==
  ASSUME NEW c \in Nat \ {0}, NEW n \in (1 - c)..(c - 1)
  PROVE  n % c = IF n >= 0 THEN n ELSE n + c
<1>1. CASE n >= 0
  BY <1>1, ModWithin
<1>2. CASE n < 0
  BY <1>2, SMT
<1>3. QED
  BY <1>1, <1>2

\* What the fields of a ring with room for an element are.
LEMMA Fields ==
  ASSUME NEW r, Good(r), r.cap > 0
  PROVE  /\ r.cap \in Nat \ {0} /\ r.cap \in 0..MaxCap /\ MaxCap \in Nat
         /\ r.size \in 0..r.cap /\ r.tail \in 0..(r.cap - 1)
         /\ r.head \in 0..(r.cap - 1)
         /\ r.head = IF r.tail + r.size < r.cap THEN r.tail + r.size
                     ELSE r.tail + r.size - r.cap
<1>1. /\ r.cap \in Nat \ {0} /\ r.cap \in 0..MaxCap /\ MaxCap \in Nat
      /\ r.size \in 0..r.cap /\ r.tail \in Nat /\ r.tail < r.cap
  BY Placed, MemoryAssumption DEF Good, IsRing
<1>2. r.head = IF r.tail + r.size < r.cap THEN r.tail + r.size
               ELSE r.tail + r.size - r.cap
  BY Placed DEF Good
<1>3. QED
  BY <1>1, <1>2

\* The slot of an element, or of the next one to come.
LEMMA SlotIs ==
  ASSUME NEW r, Good(r), NEW i \in 0..(r.cap - 1)
  PROVE  /\ Slot(r, i) = IF r.tail + i < r.cap THEN r.tail + i
                         ELSE r.tail + i - r.cap
         /\ Slot(r, i) \in 0..(r.cap - 1) /\ Slot(r, i) \in Slots(r.cap)
         /\ Get(r, i) = r.arr[Slot(r, i)]
<1>1. r.cap \in Nat /\ r.cap > 0
  BY MemoryAssumption DEF Good, IsRing
<1>2. /\ r.cap \in Nat \ {0} /\ r.tail \in 0..(r.cap - 1)
      /\ r.tail + i \in 0..(2 * r.cap - 1)
  BY <1>1, Fields
<1>3. Slot(r, i) = IF r.tail + i < r.cap THEN r.tail + i
                   ELSE r.tail + i - r.cap
  <2>1. PICK n : n = r.tail + i
    OBVIOUS
  <2>2. n % r.cap = IF n < r.cap THEN n ELSE n - r.cap
    BY <1>2, <2>1, ModOnce
  <2>3. Slot(r, i) = n % r.cap
    BY <2>1, Zenon DEF Slot
  <2>4. Slot(r, i) = IF n < r.cap THEN n ELSE n - r.cap
    BY <2>2, <2>3, Zenon
  <2>5. QED
    BY <1>2, <2>1, <2>4
<1>4. Slot(r, i) \in 0..(r.cap - 1)
  BY <1>2, <1>3
<1>5. QED
  BY <1>3, <1>4 DEF Slots, Get, Read

\* The elements.
LEMMA RingContents ==
  ASSUME NEW r, Good(r)
  PROVE  /\ Contents(r) \in Seq(Value) /\ Len(Contents(r)) = r.size
         /\ r.size \in Nat
         /\ \A k \in 1..r.size : Contents(r)[k] = r.arr[Slot(r, k - 1)]
<1>1. r.size \in Nat /\ r.size <= r.cap /\ r.cap \in Nat
  BY MemoryAssumption DEF Good, IsRing
<1>2. ASSUME NEW k \in 1..r.size
      PROVE  Get(r, k - 1) = r.arr[Slot(r, k - 1)] /\ Get(r, k - 1) \in Value
  <2>1. k - 1 \in 0..(r.cap - 1)
    BY <1>1
  <2>2. Get(r, k - 1) = r.arr[Slot(r, k - 1)] /\ Slot(r, k - 1) \in Slots(r.cap)
    BY <2>1, SlotIs
  <2>3. QED
    BY <2>2 DEF Good, IsRing, Value
<1>3. Contents(r) \in [1..r.size -> Value]
  BY <1>2 DEF Contents
<1>4. Contents(r) \in Seq(Value)
  BY <1>1, <1>3, SeqDef
<1>5. Len(Contents(r)) = r.size
  BY <1>1, <1>3, <1>4, LenProperties
<1>6. QED
  BY <1>1, <1>2, <1>4, <1>5 DEF Contents

\* Two rings compared: the elements of p in terms of those of r.
LEMMA SameElements ==
  ASSUME NEW r, Good(r), NEW p, Good(p), p.size = r.size,
         \A j \in 0..(r.size - 1) : p.arr[Slot(p, j)] = r.arr[Slot(r, j)]
  PROVE  Contents(p) = Contents(r)
<1>1. \A k \in 1..r.size : Contents(p)[k] = Contents(r)[k]
  <2>1. \A k \in 1..r.size : k - 1 \in 0..(r.size - 1)
    BY RingContents
  <2>2. QED
    BY <2>1, RingContents
<1>2. QED
  BY <1>1, RingContents, SeqEqual

-----------------------------------------------------------------------------
(* What the calls do to the elements.                                      *)

\* Growing keeps them.
LEMMA GrownKeeps ==
  ASSUME NEW r, Good(r), NEW c \in Nat, r.cap < c, c <= MaxCap
  PROVE  Contents(Grown(r, c)) = Contents(r)
<1> DEFINE g == Grown(r, c)
<1>1. Good(g) /\ g.cap = c /\ g.size = r.size
  BY GrownGood
<1>2. g.tail = r.tail
  BY DEF Grown, Ring
<1>3. ASSUME NEW j \in 0..(r.size - 1)
      PROVE  g.arr[Slot(g, j)] = r.arr[Slot(r, j)]
  <2>0. r.cap \in Nat /\ r.cap > 0 /\ r.size \in Nat /\ r.size <= r.cap /\ j \in Nat
    BY MemoryAssumption DEF Good, IsRing
  <2>1. /\ r.tail \in 0..(r.cap - 1) /\ r.head \in 0..(r.cap - 1)
        /\ r.head = IF r.tail + r.size < r.cap THEN r.tail + r.size
                    ELSE r.tail + r.size - r.cap
    BY <2>0, Fields
  <2>2. Slot(r, j) = IF r.tail + j < r.cap THEN r.tail + j
                     ELSE r.tail + j - r.cap
    <3>1. j \in 0..(r.cap - 1)
      BY <2>0
    <3>2. QED
      BY <3>1, SlotIs
  <2>3. /\ Slot(g, j) = IF r.tail + j < c THEN r.tail + j ELSE r.tail + j - c
        /\ Slot(g, j) \in Slots(c)
    <3>1. j \in 0..(g.cap - 1)
      BY <1>1, <2>0
    <3>2. QED
      BY <1>1, <1>2, <3>1, SlotIs
  <2>4. CASE NoShift(r)
    <3>1. r.tail + j < r.cap
      BY <2>0, <2>1, <2>4 DEF NoShift
    <3>2. Slot(g, j) = Slot(r, j) /\ Slot(r, j) \in Slots(r.cap)
      BY <2>0, <2>1, <2>2, <2>3, <3>1 DEF Slots
    <3>3. g.arr = [s \in Slots(c) |-> Read(r, s)]
      BY <2>4 DEF Grown, Ring
    <3>4. QED
      BY <2>3, <3>2, <3>3 DEF Read
  <2>5. CASE ~NoShift(r)
    <3> DEFINE moved == Min2(r.head, c - r.cap)
    <3>1. /\ r.head = r.tail + r.size - r.cap /\ r.head <= r.tail
      BY <2>0, <2>1, <2>5 DEF NoShift
    <3>2. \A s \in Slots(c) : g.arr[s] =
            IF s >= r.cap
            THEN IF s - r.cap < moved THEN r.arr[s - r.cap] ELSE Garbage
            ELSE IF s < r.head - moved THEN r.arr[moved + s] ELSE r.arr[s]
      BY <2>5 DEF Grown, Ring, Shifted
    <3>3. moved = IF r.head < c - r.cap THEN r.head ELSE c - r.cap
      BY DEF Min2
    <3> HIDE DEF moved
    <3>4. moved \in Nat /\ moved <= r.head /\ moved <= c - r.cap
      BY <2>0, <2>1, <3>3
    <3>5. CASE r.tail + j < r.cap
      <4>1. /\ Slot(g, j) = Slot(r, j) /\ ~(Slot(g, j) >= r.cap)
            /\ ~(Slot(g, j) < r.head - moved)
        BY <2>0, <2>1, <2>2, <2>3, <3>1, <3>4, <3>5
      <4>2. QED
        BY <2>3, <3>2, <4>1
    <3>6. CASE r.tail + j >= r.cap /\ r.tail + j < c
      <4>1. /\ Slot(g, j) >= r.cap /\ Slot(g, j) - r.cap = Slot(r, j)
            /\ Slot(g, j) - r.cap < moved
        BY <2>0, <2>1, <2>2, <2>3, <3>1, <3>3, <3>6
      <4>2. QED
        BY <2>3, <3>2, <4>1
    <3>7. CASE r.tail + j >= c
      <4>1. /\ ~(Slot(g, j) >= r.cap) /\ Slot(g, j) < r.head - moved
            /\ moved + Slot(g, j) = Slot(r, j)
        BY <2>0, <2>1, <2>2, <2>3, <3>1, <3>3, <3>7
      <4>2. QED
        BY <2>3, <3>2, <4>1
    <3>8. QED
      BY <2>0, <2>1, <3>5, <3>6, <3>7
  <2>6. QED
    BY <2>4, <2>5
<1>4. QED
  BY <1>1, <1>3, SameElements

LEMMA WithRoomKeeps ==
  ASSUME NEW r, Good(r), ~NoRoom(r)
  PROVE  LET w == WithRoom(r) IN
           /\ Good(w) /\ w.size < w.cap /\ w.size = r.size
           /\ Contents(w) = Contents(r)
<1>1. CASE Full(r)
  <2>1. r.cap + ExpandDelta \in Nat /\ r.cap < r.cap + ExpandDelta
        /\ r.cap + ExpandDelta <= MaxCap
    BY <1>1, MemoryAssumption DEF NoRoom, Full, Good, IsRing
  <2>2. QED
    BY <1>1, <2>1, GrownKeeps, WithRoomGood DEF WithRoom
<1>2. CASE ~Full(r)
  BY <1>2, WithRoomGood DEF WithRoom
<1>3. QED
  BY <1>1, <1>2

\* push_front puts e behind the last element.
LEMMA PushedFrontIs ==
  ASSUME NEW r, Good(r), r.size < r.cap, NEW e \in Elems
  PROVE  LET p == PushedFront(r, e) IN
           /\ Good(p) /\ p.size = r.size + 1
           /\ \A k \in 1..p.size : Contents(p)[k] =
                IF k <= r.size THEN Contents(r)[k] ELSE e
<1> DEFINE p == PushedFront(r, e)
<1>0. /\ r.cap \in Nat /\ r.cap > 0 /\ r.size \in Nat
      /\ r.arr \in [Slots(r.cap) -> Elems \cup {Garbage}]
  BY MemoryAssumption DEF Good, IsRing
<1>1. /\ Good(p) /\ p.size = r.size + 1 /\ p.cap = r.cap /\ p.tail = r.tail
      /\ p.arr = [r.arr EXCEPT ![r.head] = e]
  BY PushedFrontGood DEF PushedFront, Ring
<1> HIDE DEF p
<1>2. ASSUME NEW k \in 1..p.size
      PROVE  Contents(p)[k] = IF k <= r.size THEN Contents(r)[k] ELSE e
  <2>1. /\ k - 1 \in 0..(r.cap - 1) /\ k - 1 \in 0..(p.cap - 1) /\ k \in Nat
      BY <1>0, <1>1
  <2>2. /\ Slot(p, k - 1) = Slot(r, k - 1) /\ Slot(r, k - 1) \in Slots(r.cap)
        /\ Slot(r, k - 1) = IF r.tail + (k - 1) < r.cap THEN r.tail + (k - 1)
                            ELSE r.tail + (k - 1) - r.cap
    BY <1>1, <2>1, SlotIs DEF Slot
  <2>3. Contents(p)[k] = p.arr[Slot(r, k - 1)]
    <3>1. Contents(p)[k] = p.arr[Slot(p, k - 1)]
      BY <1>1, RingContents
    <3>2. QED
      BY <2>2, <3>1
  <2>4. CASE k <= r.size
    <3>1. Slot(r, k - 1) # r.head
      BY <1>0, <2>1, <2>2, <2>4, Fields
    <3>2. Contents(r)[k] = r.arr[Slot(r, k - 1)]
      BY <2>1, <2>4, <1>0, RingContents
    <3>3. QED
      BY <1>0, <1>1, <2>2, <2>3, <2>4, <3>1, <3>2
  <2>5. CASE ~(k <= r.size)
    <3>1. k - 1 = r.size
      BY <1>0, <1>1, <2>1, <2>5
    <3>2. Slot(r, k - 1) = r.head
      BY <1>0, <2>2, <3>1, Fields
    <3>3. QED
      BY <1>0, <1>1, <2>2, <2>3, <2>5, <3>2
  <2>6. QED
    BY <2>4, <2>5
<1>3. QED
  BY <1>1, <1>2 DEF p

\* push_back puts e before the first.
LEMMA PushedBackIs ==
  ASSUME NEW r, Good(r), r.size < r.cap, NEW e \in Elems
  PROVE  LET p == PushedBack(r, e) IN
           /\ Good(p) /\ p.size = r.size + 1
           /\ \A k \in 1..p.size : Contents(p)[k] =
                IF k = 1 THEN e ELSE Contents(r)[k - 1]
<1> DEFINE p == PushedBack(r, e)
<1>0. /\ r.cap \in Nat /\ r.cap > 0 /\ r.size \in Nat
      /\ r.arr \in [Slots(r.cap) -> Elems \cup {Garbage}]
      /\ r.tail \in 0..(r.cap - 1)
  BY Fields, MemoryAssumption DEF Good, IsRing
<1>1. /\ Good(p) /\ p.size = r.size + 1 /\ p.cap = r.cap
      /\ p.tail = Dec(r, r.tail)
      /\ p.arr = [r.arr EXCEPT ![p.tail] = e]
  BY PushedBackGood DEF PushedBack, Ring
<1> HIDE DEF p
<1>2. p.tail = IF r.tail = 0 THEN r.cap - 1 ELSE r.tail - 1
  BY <1>1 DEF Dec
<1>3. ASSUME NEW k \in 1..p.size
      PROVE  Contents(p)[k] = IF k = 1 THEN e ELSE Contents(r)[k - 1]
  <2>1. k - 1 \in 0..(p.cap - 1) /\ k \in Nat
      BY <1>0, <1>1
  <2>2. /\ Slot(p, k - 1) \in Slots(r.cap)
        /\ Slot(p, k - 1) = IF p.tail + (k - 1) < r.cap THEN p.tail + (k - 1)
                            ELSE p.tail + (k - 1) - r.cap
    BY <1>1, <2>1, SlotIs
  <2>3. Contents(p)[k] = p.arr[Slot(p, k - 1)]
    BY <1>1, RingContents
  <2>4. CASE k = 1
    <3>1. Slot(p, k - 1) = p.tail
      BY <1>0, <1>2, <2>2, <2>4
    <3>2. QED
      BY <1>0, <1>1, <2>2, <2>3, <2>4, <3>1
  <2>5. CASE k # 1
    <3>1. k - 1 \in 1..r.size /\ k - 2 \in 0..(r.cap - 1) /\ (k - 1) - 1 = k - 2
      BY <1>0, <1>1, <2>1, <2>5
    <3>2. Slot(r, k - 2) = IF r.tail + (k - 2) < r.cap THEN r.tail + (k - 2)
                           ELSE r.tail + (k - 2) - r.cap
      BY <3>1, SlotIs
    <3>3. Slot(p, k - 1) = Slot(r, k - 2) /\ Slot(p, k - 1) # p.tail
      BY <1>0, <1>2, <2>1, <2>2, <3>1, <3>2
    <3>4. Contents(r)[k - 1] = r.arr[Slot(r, k - 2)]
      BY <3>1, RingContents
    <3>5. QED
      BY <1>0, <1>1, <2>2, <2>3, <2>5, <3>3, <3>4
  <2>6. QED
    BY <2>4, <2>5
<1>4. QED
  BY <1>1, <1>3 DEF p

\* pop_front takes the last element.
LEMMA PoppedFrontIs ==
  ASSUME NEW r, Good(r), r.size > 0
  PROVE  LET p == PoppedFront(r) IN
           /\ Good(p) /\ p.size = r.size - 1
           /\ \A k \in 1..p.size : Contents(p)[k] = Contents(r)[k]
           /\ Read(r, Dec(r, r.head)) = Contents(r)[r.size]
<1> DEFINE p == PoppedFront(r)
<1>0. r.cap \in Nat /\ r.cap > 0 /\ r.size \in 1..r.cap
  BY MemoryAssumption DEF Good, IsRing
<1>1. /\ Good(p) /\ p.size = r.size - 1 /\ p.cap = r.cap /\ p.tail = r.tail
      /\ p.arr = r.arr
  BY PoppedFrontGood DEF PoppedFront, Ring
<1> HIDE DEF p
<1>2. \A k \in 1..p.size : Contents(p)[k] = Contents(r)[k]
  <2>1. \A k \in 1..p.size : k \in 1..r.size
    BY <1>0, <1>1
  <2>2. \A k : Slot(p, k) = Slot(r, k)
    BY <1>1 DEF Slot
  <2>3. QED
    BY <1>1, <2>1, <2>2, RingContents
<1>3. Read(r, Dec(r, r.head)) = Contents(r)[r.size]
  <2>1. r.size - 1 \in 0..(r.cap - 1) /\ r.size \in 1..r.size
    BY <1>0
  <2>2. Slot(r, r.size - 1) = Dec(r, r.head)
    <3>1. Slot(r, r.size - 1) =
            IF r.tail + (r.size - 1) < r.cap THEN r.tail + (r.size - 1)
            ELSE r.tail + (r.size - 1) - r.cap
      BY <2>1, SlotIs
    <3>2. /\ r.tail \in 0..(r.cap - 1) /\ r.head \in 0..(r.cap - 1)
          /\ r.head = IF r.tail + r.size < r.cap THEN r.tail + r.size
                      ELSE r.tail + r.size - r.cap
      BY <1>0, Fields
    <3>3. QED
      BY <1>0, <3>1, <3>2 DEF Dec
  <2>3. Slot(r, r.size - 1) \in Slots(r.cap)
    BY <2>1, SlotIs
  <2>4. Contents(r)[r.size] = r.arr[Slot(r, r.size - 1)]
    BY <2>1, RingContents
  <2>5. QED
    BY <2>2, <2>3, <2>4 DEF Read
<1>4. QED
  BY <1>1, <1>2, <1>3 DEF p

\* pop_back takes the first.
LEMMA PoppedBackIs ==
  ASSUME NEW r, Good(r), r.size > 0
  PROVE  LET p == PoppedBack(r) IN
           /\ Good(p) /\ p.size = r.size - 1
           /\ \A k \in 1..p.size : Contents(p)[k] = Contents(r)[k + 1]
           /\ Read(r, r.tail) = Contents(r)[1]
<1> DEFINE p == PoppedBack(r)
<1>0. /\ r.cap \in Nat /\ r.cap > 0 /\ r.size \in 1..r.cap
      /\ r.tail \in 0..(r.cap - 1)
  BY Fields, MemoryAssumption DEF Good, IsRing
<1>1. /\ Good(p) /\ p.size = r.size - 1 /\ p.cap = r.cap
      /\ p.tail = Inc(r, r.tail) /\ p.arr = r.arr
  BY PoppedBackGood DEF PoppedBack, Ring
<1> HIDE DEF p
<1>2. p.tail = IF r.tail = r.cap - 1 THEN 0 ELSE r.tail + 1
  BY <1>1 DEF Inc
<1>3. ASSUME NEW k \in 1..p.size PROVE Contents(p)[k] = Contents(r)[k + 1]
  <2>1. /\ k \in 0..(r.cap - 1) /\ k - 1 \in 0..(p.cap - 1)
        /\ k + 1 \in 1..r.size /\ (k + 1) - 1 = k
    BY <1>0, <1>1
  <2>2. Slot(r, k) = IF r.tail + k < r.cap THEN r.tail + k
                     ELSE r.tail + k - r.cap
    BY <2>1, SlotIs
  <2>3. Slot(p, k - 1) = IF p.tail + (k - 1) < r.cap THEN p.tail + (k - 1)
                         ELSE p.tail + (k - 1) - r.cap
    BY <1>1, <2>1, SlotIs
  <2>4. Slot(p, k - 1) = Slot(r, k)
    BY <1>0, <1>2, <2>1, <2>2, <2>3
  <2>5. Contents(r)[k + 1] = r.arr[Slot(r, k)]
    BY <2>1, RingContents
  <2>6. QED
    BY <1>1, <2>4, <2>5, RingContents
<1>4. Read(r, r.tail) = Contents(r)[1]
  <2>1. 0 \in 0..(r.cap - 1) /\ 1 \in 1..r.size /\ 1 - 1 = 0
    BY <1>0
  <2>2. Slot(r, 0) = r.tail /\ Slot(r, 0) \in Slots(r.cap)
    BY <1>0, <2>1, SlotIs
  <2>3. Contents(r)[1] = r.arr[Slot(r, 0)]
    BY <2>1, RingContents
  <2>4. QED
    BY <2>2, <2>3 DEF Read
<1>5. QED
  BY <1>1, <1>3, <1>4 DEF p

\* insert puts e at index i.
LEMMA RingInsertedIs ==
  ASSUME NEW r, Good(r), r.size < r.cap, NEW i \in 0..r.size, NEW e \in Elems
  PROVE  LET p == Inserted(r, i, e) IN
           /\ Good(p) /\ p.size = r.size + 1
           /\ \A k \in 1..p.size : Contents(p)[k] =
                IF k <= i THEN Contents(r)[k]
                ELSE IF k = i + 1 THEN e ELSE Contents(r)[k - 1]
<1> DEFINE p == Inserted(r, i, e)
<1>0. /\ r.cap \in Nat \ {0} /\ r.size \in Nat /\ i \in Nat
      /\ r.tail \in 0..(r.cap - 1) /\ r.head \in 0..(r.cap - 1)
      /\ r.head = IF r.tail + r.size < r.cap THEN r.tail + r.size
                  ELSE r.tail + r.size - r.cap
  BY Fields, MemoryAssumption DEF Good, IsRing
<1>1. /\ Good(p) /\ p.size = r.size + 1 /\ p.cap = r.cap /\ p.tail = r.tail
      /\ \A s \in Slots(r.cap) : p.arr[s] =
           CASE BeforeHead(r, s) < r.size - i -> r.arr[Dec(r, s)]
             [] BeforeHead(r, s) = r.size - i -> e
             [] OTHER -> r.arr[s]
  BY InsertedGood DEF Inserted, Ring
<1> HIDE DEF p
<1>2. ASSUME NEW k \in 1..p.size
      PROVE  Contents(p)[k] = IF k <= i THEN Contents(r)[k]
                              ELSE IF k = i + 1 THEN e ELSE Contents(r)[k - 1]
  <2> DEFINE s == Slot(r, k - 1)
  <2>1. /\ k - 1 \in 0..(r.cap - 1) /\ k \in Nat /\ k <= r.size + 1 /\ k > 0
    BY <1>0, <1>1
  <2>2. /\ s \in Slots(r.cap) /\ s \in 0..(r.cap - 1)
        /\ s = IF r.tail + (k - 1) < r.cap THEN r.tail + (k - 1)
               ELSE r.tail + (k - 1) - r.cap
    BY <2>1, SlotIs
  <2>3. Contents(p)[k] = p.arr[s]
    <3>1. Contents(p)[k] = p.arr[Slot(p, k - 1)]
      BY <1>1, RingContents
    <3>2. QED
      BY <1>1, <3>1 DEF Slot
  <2>4. k <= r.size => Contents(r)[k] = r.arr[s]
    <3>1. k <= r.size => k \in 1..r.size
      BY <1>0, <2>1
    <3>2. QED
      BY <3>1, RingContents
  <2>5. k > i + 1 => Contents(r)[k - 1] = r.arr[Dec(r, s)]
    <3>1. ASSUME k > i + 1 PROVE Contents(r)[k - 1] = r.arr[Dec(r, s)]
      <4>1. k - 1 \in 1..r.size /\ k - 2 \in 0..(r.cap - 1) /\ (k - 1) - 1 = k - 2
        BY <1>0, <2>1, <3>1
      <4>2. Slot(r, k - 2) = IF r.tail + (k - 2) < r.cap THEN r.tail + (k - 2)
                             ELSE r.tail + (k - 2) - r.cap
        BY <4>1, SlotIs
      <4> HIDE DEF s
      <4>3. Slot(r, k - 2) = Dec(r, s)
        BY <1>0, <2>1, <2>2, <4>1, <4>2 DEF Dec
      <4>4. QED
        BY <4>1, <4>3, RingContents
    <3>2. QED
      BY <3>1
  <2> HIDE DEF s
  <2>6. BeforeHead(r, s) = r.size + 1 - k
    <3>1. PICK n : n = r.head - s
      OBVIOUS
    <3>2. n \in (1 - r.cap)..(r.cap - 1)
      BY <1>0, <2>2, <3>1
    <3>3. n % r.cap = IF n >= 0 THEN n ELSE n + r.cap
      BY <1>0, <3>2, ModSigned
    <3>4. (IF n >= 0 THEN n ELSE n + r.cap) = r.size + 1 - k
      BY <1>0, <2>1, <2>2, <3>1, <3>2
    <3>5. BeforeHead(r, s) = n % r.cap
      BY <3>1, Zenon DEF BeforeHead
    <3>6. QED
      BY <3>3, <3>4, <3>5, Zenon
  <2>7. CASE k > i + 1
    <3>1. BeforeHead(r, s) < r.size - i /\ BeforeHead(r, s) # r.size - i
      BY <1>0, <2>1, <2>6, <2>7
    <3>2. p.arr[s] = r.arr[Dec(r, s)]
      BY <1>1, <2>2, <3>1
    <3>3. ~(k <= i) /\ k # i + 1
      BY <1>0, <2>1, <2>7
    <3>4. QED
      BY <2>3, <2>5, <2>7, <3>2, <3>3
  <2>8. CASE k = i + 1
    <3>1. BeforeHead(r, s) = r.size - i /\ ~(BeforeHead(r, s) < r.size - i)
      BY <1>0, <2>1, <2>6, <2>8
    <3>2. p.arr[s] = e
      BY <1>1, <2>2, <3>1
    <3>3. ~(k <= i)
      BY <1>0, <2>8
    <3>4. QED
      BY <2>3, <2>8, <3>2, <3>3
  <2>9. CASE k <= i
    <3>1. BeforeHead(r, s) # r.size - i /\ ~(BeforeHead(r, s) < r.size - i)
      BY <1>0, <2>1, <2>6, <2>9
    <3>2. p.arr[s] = r.arr[s]
      BY <1>1, <2>2, <3>1
    <3>3. k <= r.size
      BY <1>0, <2>1, <2>9
    <3>4. QED
      BY <2>3, <2>4, <2>9, <3>2, <3>3
  <2>10. QED
    BY <1>0, <2>1, <2>7, <2>8, <2>9
<1>3. QED
  BY <1>1, <1>2 DEF p

\* remove takes out the element at index i.
LEMMA RingRemovedIs ==
  ASSUME NEW r, Good(r), NEW i \in 0..(r.size - 1)
  PROVE  LET p == Removed(r, i) IN
           /\ Good(p) /\ p.size = r.size - 1
           /\ \A k \in 1..p.size : Contents(p)[k] =
                IF k <= i THEN Contents(r)[k] ELSE Contents(r)[k + 1]
           /\ Get(r, i) = Contents(r)[i + 1]
<1> DEFINE p == Removed(r, i)
<1>a. r.cap > 0
  BY MemoryAssumption DEF Good, IsRing
<1>0. /\ r.cap \in Nat \ {0} /\ r.size \in 1..r.cap /\ i \in Nat
      /\ i \in 0..(r.cap - 1) /\ r.tail \in 0..(r.cap - 1)
  BY <1>a, Fields
<1>1. /\ Good(p) /\ p.size = r.size - 1 /\ p.cap = r.cap /\ p.tail = r.tail
      /\ \A s \in Slots(r.cap) : p.arr[s] =
           IF Behind(r, s, Slot(r, i)) < r.size - i
           THEN r.arr[Inc(r, s)] ELSE r.arr[s]
  BY RemovedGood DEF Removed, Ring
<1> HIDE DEF p
<1>2. ASSUME NEW k \in 1..p.size
      PROVE  Contents(p)[k] = IF k <= i THEN Contents(r)[k]
                              ELSE Contents(r)[k + 1]
  <2> DEFINE s == Slot(r, k - 1)
             at == Slot(r, i)
  <2>1. /\ k - 1 \in 0..(r.cap - 1) /\ k \in 0..(r.cap - 1) /\ k \in 1..r.size
        /\ k + 1 \in 1..r.size /\ (k + 1) - 1 = k
    BY <1>0, <1>1
  <2>2. /\ s \in Slots(r.cap) /\ s \in 0..(r.cap - 1)
        /\ s = IF r.tail + (k - 1) < r.cap THEN r.tail + (k - 1)
               ELSE r.tail + (k - 1) - r.cap
    BY <2>1, SlotIs
  <2>3. /\ at \in 0..(r.cap - 1)
        /\ at = IF r.tail + i < r.cap THEN r.tail + i ELSE r.tail + i - r.cap
    BY <1>0, SlotIs
  <2>4. Contents(p)[k] = p.arr[s]
    <3>1. Contents(p)[k] = p.arr[Slot(p, k - 1)]
      BY <1>1, RingContents
    <3>2. QED
      BY <1>1, <3>1 DEF Slot
  <2>5. Contents(r)[k] = r.arr[s]
    BY <2>1, RingContents
  <2>6. Contents(r)[k + 1] = r.arr[Inc(r, s)]
    <3>1. Slot(r, k) = IF r.tail + k < r.cap THEN r.tail + k
                       ELSE r.tail + k - r.cap
      BY <2>1, SlotIs
    <3> HIDE DEF s
    <3>2. Slot(r, k) = Inc(r, s)
      BY <1>0, <2>1, <2>2, <3>1 DEF Inc
    <3>3. QED
      BY <2>1, <3>2, RingContents
  <2> HIDE DEF s, at
  <2>7. Behind(r, s, at) = IF k > i THEN k - 1 - i ELSE k - 1 - i + r.cap
    <3>1. PICK n : n = s - at
      OBVIOUS
    <3>2. n \in (1 - r.cap)..(r.cap - 1)
      BY <1>0, <2>2, <2>3, <3>1
    <3>3. n % r.cap = IF n >= 0 THEN n ELSE n + r.cap
      BY <1>0, <3>2, ModSigned
    <3>4. (IF n >= 0 THEN n ELSE n + r.cap)
            = IF k > i THEN k - 1 - i ELSE k - 1 - i + r.cap
      BY <1>0, <2>1, <2>2, <2>3, <3>1, <3>2
    <3>5. Behind(r, s, at) = n % r.cap
      BY <3>1, Zenon DEF Behind
    <3>6. QED
      BY <3>3, <3>4, <3>5, Zenon
  <2>8. CASE k <= i
    <3>1. ~(Behind(r, s, at) < r.size - i)
      BY <1>0, <2>1, <2>7, <2>8
    <3>2. p.arr[s] = r.arr[s]
      BY <1>1, <2>2, <3>1 DEF at
    <3>3. QED
      BY <2>4, <2>5, <2>8, <3>2
  <2>9. CASE ~(k <= i)
    <3>1. Behind(r, s, at) < r.size - i
      BY <1>0, <2>1, <2>7, <2>9
    <3>2. p.arr[s] = r.arr[Inc(r, s)]
      BY <1>1, <2>2, <3>1 DEF at
    <3>3. QED
      BY <2>4, <2>6, <2>9, <3>2
  <2>10. QED
    BY <2>8, <2>9
<1>3. Get(r, i) = Contents(r)[i + 1]
  <2>1. i + 1 \in 1..r.size /\ (i + 1) - 1 = i
    BY <1>0
  <2>2. Get(r, i) = r.arr[Slot(r, i)]
    BY <1>0, SlotIs
  <2>3. QED
    BY <2>1, <2>2, RingContents
<1>4. QED
  BY <1>1, <1>2, <1>3 DEF p

\* shrink in place keeps the elements.
LEMMA TruncatedKeeps ==
  ASSUME NEW r, NEW c, Shrinkable(r, c), FitsInPlace(r, c),
         r.tail + r.size # c
  PROVE  Contents(Truncated(r, c)) = Contents(r)
<1> DEFINE p == Truncated(r, c)
<1>1. Good(p) /\ Good(r)
  BY TruncatedGood DEF Shrinkable
<1>2. /\ p.cap = c /\ p.tail = r.tail /\ p.size = r.size
      /\ p.arr = [s \in Slots(c) |-> Read(r, s)]
  BY DEF Truncated, Ring
<1>3. /\ r.size \in Nat /\ r.tail \in Nat /\ r.cap \in Nat /\ c \in Nat \ {0}
      /\ r.tail + r.size <= c /\ c < r.cap
  BY MemoryAssumption DEF Shrinkable, FitsInPlace, Good, IsRing
<1> HIDE DEF p
<1>4. ASSUME NEW j \in 0..(r.size - 1)
      PROVE  p.arr[Slot(p, j)] = r.arr[Slot(r, j)]
  <2>1. j \in 0..(c - 1) /\ j \in 0..(r.cap - 1) /\ r.tail + j < c
    BY <1>3
  <2>2. Slot(p, j) = r.tail + j
    BY <1>1, <1>2, <1>3, <2>1, SlotIs
  <2>3. Slot(r, j) = r.tail + j
    BY <1>1, <1>3, <2>1, SlotIs
  <2>4. r.tail + j \in Slots(c) /\ r.tail + j \in Slots(r.cap)
    BY <1>3, <2>1 DEF Slots
  <2>5. QED
    BY <1>2, <2>2, <2>3, <2>4 DEF Read
<1>5. QED
  BY <1>1, <1>2, <1>4, SameElements DEF p

\* shrink that moves the elements keeps the first c of them, except of a
\* wrapped ring that they do not fill.
LEMMA MovedIs ==
  ASSUME NEW r, NEW c, Shrinkable(r, c), ~FitsInPlace(r, c),
         ~(HoldsBack(r, c) /\ r.size < c)
  PROVE  \A k \in 1..Min2(r.size, c) :
           Contents(Moved(r, c))[k] = Contents(r)[k]
<1> DEFINE p == Moved(r, c)
           n == Min2(r.size, c)
           h == StrippedHead(r, c)
<1>1. /\ Good(p) /\ p.cap = c /\ p.tail = 0 /\ p.size = n
      /\ p.arr = Gathered(r, c)
  BY MovedGood
<1>2. Good(r) /\ r.cap > 0
  BY DEF Shrinkable, Good, IsRing
<1>3. /\ r.cap \in Nat \ {0} /\ r.size \in 0..r.cap
      /\ r.tail \in 0..(r.cap - 1) /\ c \in 1..(r.cap - 1)
      /\ r.head = IF r.tail + r.size < r.cap THEN r.tail + r.size
                  ELSE r.tail + r.size - r.cap
      /\ r.tail + r.size > c
  <2>1. c \in Nat /\ 0 < c /\ c < r.cap
    BY DEF Shrinkable
  <2>2. r.cap \in Nat /\ r.size \in Nat /\ r.tail \in Nat
    BY <1>2, Fields
  <2>3. r.tail + r.size > c
    BY <2>1, <2>2 DEF FitsInPlace
  <2>4. QED
    BY <1>2, <2>1, <2>2, <2>3, Fields
<1>4. n = IF r.size < c THEN r.size ELSE c
  BY DEF Min2
<1>5. ASSUME r.size >= c
      PROVE  h = IF r.tail + c < r.cap THEN r.tail + c ELSE r.tail + c - r.cap
  <2>1. h = Slot(r, c)
    BY <1>5 DEF StrippedHead, Slot
  <2>2. c \in 0..(r.cap - 1)
    BY <1>3
  <2>3. QED
    BY <1>2, <2>1, <2>2, SlotIs
<1>6. ASSUME r.size < c, r.size > 0
      PROVE  h = r.head /\ (h > r.tail \/ h = 0)
  BY <1>3, <1>6 DEF StrippedHead, HoldsBack
<1>7. \A s \in Slots(c) : p.arr[s] =
          IF h > r.tail \/ (r.size > 0 /\ s < c - h) THEN Read(r, s + r.tail)
          ELSE IF r.size > 0 THEN r.arr[s - (c - h)] ELSE r.arr[s]
  BY <1>1 DEF Gathered
<1>8. h \in Nat
  BY <1>3, StrippedHeadIs
<1> HIDE DEF p, h, n
<1>9. ASSUME NEW k \in 1..n PROVE Contents(p)[k] = Contents(r)[k]
  <2>1. /\ k - 1 \in 0..(r.cap - 1) /\ k - 1 \in 0..(c - 1) /\ k \in 1..r.size
        /\ k \in Nat /\ r.size > 0
    BY <1>3, <1>4
  <2>2. /\ Slot(r, k - 1) \in Slots(r.cap) /\ Slot(r, k - 1) \in Nat
        /\ Slot(r, k - 1) = IF r.tail + (k - 1) < r.cap THEN r.tail + (k - 1)
                            ELSE r.tail + (k - 1) - r.cap
    BY <1>2, <2>1, SlotIs
  <2>3. Slot(p, k - 1) = k - 1 /\ k - 1 \in Slots(c)
    BY <1>1, <1>3, <2>1, SlotIs DEF Slots
  <2>4. Contents(p)[k] = p.arr[k - 1] /\ Contents(r)[k] = r.arr[Slot(r, k - 1)]
    <3>1. Contents(r)[k] = r.arr[Slot(r, k - 1)]
      BY <1>2, <2>1, RingContents
    <3>2. Contents(p)[k] = p.arr[Slot(p, k - 1)]
      BY <1>1, RingContents
    <3>3. QED
      BY <2>3, <3>1, <3>2, Zenon
  <2>5. CASE h > r.tail \/ k - 1 < c - h
    <3>1. Slot(r, k - 1) = (k - 1) + r.tail
      <4>1. CASE r.size >= c
        BY <1>3, <1>5, <1>8, <2>1, <2>2, <2>5, <4>1
      <4>2. CASE r.size < c
        BY <1>3, <1>6, <1>8, <2>1, <2>2, <2>5, <4>2
      <4>3. QED
        BY <1>3, <4>1, <4>2
    <3>2. p.arr[k - 1] = Read(r, (k - 1) + r.tail)
      BY <1>7, <2>1, <2>3, <2>5
    <3>3. QED
      BY <2>2, <2>4, <3>1, <3>2 DEF Read
  <2>6. CASE ~(h > r.tail \/ k - 1 < c - h)
    <3>1. r.size >= c
      BY <1>3, <1>6, <1>8, <2>1, <2>6
    <3>2. Slot(r, k - 1) = (k - 1) - (c - h)
      BY <1>3, <1>5, <1>8, <2>1, <2>2, <2>6, <3>1
    <3>3. p.arr[k - 1] = r.arr[(k - 1) - (c - h)]
      BY <1>7, <2>1, <2>3, <2>6
    <3>4. QED
      BY <2>4, <3>2, <3>3
  <2>7. QED
    BY <2>5, <2>6
<1>10. QED
  BY <1>9 DEF p, n

\* The ring has the elements of the vec it was made of.
LEMMA FromVecIs ==
  ASSUME NEW v, IsVec(v)
  PROVE  Contents(FromVec(v)) = VecContents(v)
<1> DEFINE p == FromVec(v)
<1>1. Good(p) /\ p.cap = v.cap /\ p.tail = 0 /\ p.size = v.size /\ p.arr = v.arr
  BY FromVecGood DEF FromVec, Ring
<1>2. v.cap \in Nat /\ v.size \in Nat /\ v.size <= v.cap
  BY MemoryAssumption DEF IsVec
<1> HIDE DEF p
<1>3. \A k \in 1..v.size : Contents(p)[k] = VecContents(v)[k]
  <2>1. ASSUME NEW k \in 1..v.size PROVE Contents(p)[k] = VecContents(v)[k]
    <3>1. k - 1 \in 0..(p.cap - 1)
      BY <1>1, <1>2
    <3>2. Slot(p, k - 1) = k - 1
      BY <1>1, <1>2, <3>1, SlotIs
    <3>3. QED
      BY <1>1, <3>2, RingContents, ContentsAre
  <2>2. QED
    BY <2>1
<1>4. QED
  BY <1>1, <1>3, RingContents, ContentsAre, SeqEqual DEF p

-----------------------------------------------------------------------------
(* The calls on the ring are those on a sequence.                          *)

\* The items of D.
Held == IF turned THEN Contents(rb) ELSE VecContents(vec)

Turned == turned /\ turned' = turned

LEMMA HeldInRing ==
  ASSUME Good(rb), turned
  PROVE  /\ Held = Contents(rb) /\ Held \in Seq(Value) /\ Len(Held) = rb.size
         /\ D!Size = rb.size /\ rb.size \in Nat
  BY RingContents DEF Held, D!Size

LEMMA HeldInNext ==
  ASSUME Turned, Good(rb')
  PROVE  /\ Held' = Contents(rb') /\ Held' \in Seq(Value)
         /\ Len(Held') = rb'.size
<1>1. Held' = Contents(rb')
  BY DEF Held, Turned, Contents, Get, Read, Slot, Slots
<1>2. QED
  BY <1>1, RingContents

\* A refusal is one of the sequence if it has a reason there.
LEMMA RefusedRing ==
  ASSUME Good(rb), Turned, NEW op, NEW at, NEW e, NEW code,
         Refuse(op, at, e, code),
         D!Report(op, at, e, code, <<>>) /\ Held' = Held =>
           D!DRefuse(op, at, e, code)
  PROVE  Good(rb') /\ D!DNext
<1>1. Held' = Held /\ Good(rb')
  BY DEF Refuse, Held, Turned, Contents, Get, Read, Slot, Slots
<1>2. D!Report(op, at, e, code, <<>>)
  BY DEF Refuse, Report, D!Report
<1>3. /\ last'.op = op /\ last'.at = at /\ last'.e = e /\ last'.code = code
  BY <1>2 DEF D!Report
<1>4. D!DRefuse(last'.op, last'.at, last'.e, last'.code)
  BY <1>1, <1>2, <1>3
<1>5. QED
  BY <1>1, <1>4 DEF D!DNext

LEMMA PushFrontStep ==
  ASSUME Good(rb), Turned, NEW e \in Elems, PushFront(e)
  PROVE  Good(rb') /\ D!DNext
<1>0. Held = Contents(rb) /\ Held \in Seq(Value) /\ Len(Held) = rb.size
      /\ rb.size \in Nat /\ e \in Value
  BY HeldInRing DEF Turned, Value
<1>1. CASE Refuse("push_front", 0, e, "C_NOMEM")
  BY <1>1, RefusedRing DEF D!DRefuse, Held
<1>2. CASE /\ ~NoRoom(rb) /\ rb' = PushedFront(WithRoom(rb), e)
           /\ Report("push_front", 0, e, "C_OK", <<>>)
  <2> DEFINE w == WithRoom(rb)
  <2>1. Good(w) /\ w.size < w.cap /\ w.size = rb.size /\ Contents(w) = Held
    BY <1>0, <1>2, WithRoomKeeps
  <2>2. /\ Good(rb') /\ rb'.size = rb.size + 1
        /\ \A k \in 1..rb'.size : Contents(rb')[k] =
             IF k <= rb.size THEN Held[k] ELSE e
    <3> HIDE DEF w
    <3>1. QED
      BY <1>2, <2>1, PushedFrontIs DEF w
  <2>3. Held' = Append(Held, e)
    <3>1. /\ Append(Held, e) \in Seq(Value)
          /\ Len(Append(Held, e)) = rb.size + 1
          /\ \A k \in 1..(rb.size + 1) :
               Append(Held, e)[k] = IF k <= rb.size THEN Held[k] ELSE e
      BY <1>0, AppendProperties
    <3>2. /\ Held' \in Seq(Value) /\ Len(Held') = rb.size + 1
          /\ \A k \in 1..(rb.size + 1) :
               Held'[k] = IF k <= rb.size THEN Held[k] ELSE e
      BY <2>2, HeldInNext
    <3>3. QED
      BY <3>1, <3>2, SeqEqual
  <2>4. D!DPushFront(e)
    BY <1>2, <2>3 DEF D!DPushFront, Report, D!Report, Held
  <2>5. QED
    BY <2>2, <2>4 DEF D!DNext
<1>3. QED
  BY <1>1, <1>2 DEF PushFront

LEMMA PushBackStep ==
  ASSUME Good(rb), Turned, NEW e \in Elems, PushBack(e)
  PROVE  Good(rb') /\ D!DNext
<1>0. Held = Contents(rb) /\ Held \in Seq(Value) /\ Len(Held) = rb.size
      /\ rb.size \in Nat /\ e \in Value
  BY HeldInRing DEF Turned, Value
<1>1. CASE Refuse("push_back", 0, e, "C_NOMEM")
  BY <1>1, RefusedRing DEF D!DRefuse, Held
<1>2. CASE /\ ~NoRoom(rb) /\ rb' = PushedBack(WithRoom(rb), e)
           /\ Report("push_back", 0, e, "C_OK", <<>>)
  <2> DEFINE w == WithRoom(rb)
  <2>1. Good(w) /\ w.size < w.cap /\ w.size = rb.size /\ Contents(w) = Held
    BY <1>0, <1>2, WithRoomKeeps
  <2>2. /\ Good(rb') /\ rb'.size = rb.size + 1
        /\ \A k \in 1..rb'.size : Contents(rb')[k] =
             IF k = 1 THEN e ELSE Held[k - 1]
    <3> HIDE DEF w
    <3>1. QED
      BY <1>2, <2>1, PushedBackIs DEF w
  <2>3. Held' = <<e>> \o Held
    <3>1. /\ <<e>> \in Seq(Value) /\ Len(<<e>>) = 1 /\ <<e>>[1] = e
      BY <1>0
    <3>2. /\ <<e>> \o Held \in Seq(Value)
          /\ Len(<<e>> \o Held) = Len(<<e>>) + Len(Held)
          /\ \A k \in 1..(Len(<<e>>) + Len(Held)) :
               (<<e>> \o Held)[k] = IF k <= Len(<<e>>) THEN <<e>>[k]
                                    ELSE Held[k - Len(<<e>>)]
      BY <1>0, <3>1, ConcatProperties
    <3> DEFINE t == <<e>> \o Held
    <3> HIDE DEF t
    <3>3. /\ t \in Seq(Value) /\ Len(t) = rb.size + 1
          /\ \A k \in 1..(rb.size + 1) : t[k] = IF k = 1 THEN e ELSE Held[k - 1]
      BY <1>0, <3>1, <3>2 DEF t
    <3>4. /\ Held' \in Seq(Value) /\ Len(Held') = rb.size + 1
          /\ \A k \in 1..(rb.size + 1) :
               Held'[k] = IF k = 1 THEN e ELSE Held[k - 1]
      BY <2>2, HeldInNext
    <3>5. Held' = t
      BY <3>3, <3>4, SeqEqual
    <3>6. QED
      BY <3>5 DEF t
  <2>4. D!DPushBack(e)
    BY <1>2, <2>3 DEF D!DPushBack, Report, D!Report, Held
  <2>5. QED
    BY <2>2, <2>4 DEF D!DNext
<1>3. QED
  BY <1>1, <1>2 DEF PushBack

LEMMA PopFrontStep ==
  ASSUME Good(rb), Turned, PopFront
  PROVE  Good(rb') /\ D!DNext
<1>0. Held = Contents(rb) /\ Held \in Seq(Value) /\ Len(Held) = rb.size
      /\ rb.size \in Nat /\ D!Size = rb.size
  BY HeldInRing DEF Turned
<1>1. CASE rb.size = 0 /\ Refuse("pop_front", 0, 0, "C_EMPTY")
  BY <1>0, <1>1, RefusedRing DEF D!DRefuse, Held
<1>2. CASE /\ rb.size > 0 /\ rb' = PoppedFront(rb)
           /\ Report("pop_front", 0, 0, "C_OK", <<Read(rb, Dec(rb, rb.head))>>)
  <2>1. /\ Good(rb') /\ rb'.size = rb.size - 1
        /\ \A k \in 1..rb'.size : Contents(rb')[k] = Held[k]
        /\ Read(rb, Dec(rb, rb.head)) = Held[rb.size]
    BY <1>0, <1>2, PoppedFrontIs
  <2>2. Held' = D!FirstItems(D!Size - 1)
    <3>1. /\ Held' \in Seq(Value) /\ Len(Held') = rb.size - 1
          /\ \A k \in 1..(rb.size - 1) : Held'[k] = Held[k]
          /\ rb.size - 1 \in 0..Len(Held)
      BY <1>0, <1>2, <2>1, HeldInNext
    <3>2. Held' = SubSeq(Held, 1, rb.size - 1)
      BY <1>0, <3>1, SequenceKept
    <3>3. QED
      BY <1>0, <3>2 DEF D!FirstItems, Held
  <2>3. D!DPopFront
    BY <1>0, <1>2, <2>1, <2>2 DEF D!DPopFront, Report, D!Report, Held
  <2>4. QED
    BY <2>1, <2>3 DEF D!DNext
<1>3. QED
  BY <1>1, <1>2 DEF PopFront

LEMMA PopBackStep ==
  ASSUME Good(rb), Turned, PopBack
  PROVE  Good(rb') /\ D!DNext
<1>0. Held = Contents(rb) /\ Held \in Seq(Value) /\ Len(Held) = rb.size
      /\ rb.size \in Nat /\ D!Size = rb.size
  BY HeldInRing DEF Turned
<1>1. CASE rb.size = 0 /\ Refuse("pop_back", 0, 0, "C_EMPTY")
  BY <1>0, <1>1, RefusedRing DEF D!DRefuse, Held
<1>2. CASE /\ rb.size > 0 /\ rb' = PoppedBack(rb)
           /\ Report("pop_back", 0, 0, "C_OK", <<Read(rb, rb.tail)>>)
  <2>1. /\ Good(rb') /\ rb'.size = rb.size - 1
        /\ \A k \in 1..rb'.size : Contents(rb')[k] = Held[k + 1]
        /\ Read(rb, rb.tail) = Held[1]
    BY <1>0, <1>2, PoppedBackIs
  <2>2. Held' = D!ItemsFrom(1)
    <3>1. /\ Held' \in Seq(Value) /\ Len(Held') = rb.size - 1
          /\ \A k \in 1..(rb.size - 1) : Held'[k] = Held[k + 1]
      BY <2>1, HeldInNext
    <3> DEFINE t == SubSeq(Held, 2, rb.size)
    <3>2. /\ t \in Seq(Value) /\ Len(t) = rb.size - 1
          /\ \A k \in 1..(rb.size - 1) : t[k] = Held[1 + k]
      BY <1>0, <1>2, SubSeqProperties
    <3> HIDE DEF t
    <3>3. \A k \in 1..(rb.size - 1) : Held'[k] = t[k]
      <4>1. \A k \in 1..(rb.size - 1) : k + 1 = 1 + k
        BY <1>0
      <4>2. QED
        BY <3>1, <3>2, <4>1
    <3>4. Held' = t
      BY <3>1, <3>2, <3>3, SeqEqual
    <3>5. QED
      BY <1>0, <3>4 DEF t, D!ItemsFrom, Held
  <2>3. D!DPopBack
    BY <1>0, <1>2, <2>1, <2>2 DEF D!DPopBack, Report, D!Report, Held
  <2>4. QED
    BY <2>1, <2>3 DEF D!DNext
<1>3. QED
  BY <1>1, <1>2 DEF PopBack

LEMMA RingInsertStep ==
  ASSUME Good(rb), Turned, NEW i \in Nat, NEW e \in Elems, Insert(i, e)
  PROVE  Good(rb') /\ D!DNext
<1>0. /\ Held = Contents(rb) /\ Held \in Seq(Value) /\ Len(Held) = rb.size
      /\ rb.size \in Nat /\ D!Size = rb.size /\ e \in Value
  BY HeldInRing DEF Turned, Value
<1>1. CASE i > rb.size /\ Refuse("insert", i, e, "C_OUT_OF_BOUNDS")
  BY <1>0, <1>1, RefusedRing DEF D!DRefuse, Held
<1>2. CASE Refuse("insert", i, e, "C_NOMEM")
  BY <1>2, RefusedRing DEF D!DRefuse, Held
<1>3. CASE /\ i <= rb.size /\ ~NoRoom(rb) /\ rb' = Inserted(WithRoom(rb), i, e)
           /\ Report("insert", i, e, "C_OK", <<>>)
  <2> DEFINE w == WithRoom(rb)
  <2>1. Good(w) /\ w.size < w.cap /\ w.size = rb.size /\ Contents(w) = Held
    BY <1>0, <1>3, WithRoomKeeps
  <2>2. i \in 0..w.size
    BY <1>0, <1>3, <2>1
  <2>3. /\ Good(rb') /\ rb'.size = rb.size + 1
        /\ \A k \in 1..rb'.size : Contents(rb')[k] =
             IF k <= i THEN Held[k] ELSE IF k = i + 1 THEN e ELSE Held[k - 1]
    <3> HIDE DEF w
    <3>1. QED
      BY <1>3, <2>1, <2>2, RingInsertedIs DEF w
  <2>4. /\ Held' \in Seq(Value) /\ Len(Held') = Len(Held) + 1
        /\ \A k \in 1..Len(Held') : Held'[k] =
             IF k <= i THEN Held[k] ELSE IF k = i + 1 THEN e ELSE Held[k - 1]
    BY <1>0, <2>3, HeldInNext
  <2>5. Held' = SubSeq(Held, 1, i) \o <<e>> \o SubSeq(Held, i + 1, Len(Held))
    <3>1. i \in 0..Len(Held)
      BY <1>0, <1>3
    <3>2. QED
      BY <1>0, <2>4, <3>1, SequenceInserted
  <2>6. D!DInsert(i, e)
    BY <1>3, <2>5
       DEF D!DInsert, D!FirstItems, D!ItemsFrom, D!Size, Report, D!Report, Held
  <2>7. i \in 0..D!Size
    BY <1>0, <1>3
  <2>8. QED
    BY <2>3, <2>6, <2>7 DEF D!DNext
<1>4. QED
  BY <1>1, <1>2, <1>3 DEF Insert

LEMMA RingRemoveStep ==
  ASSUME Good(rb), Turned, NEW i \in Nat, Remove(i)
  PROVE  Good(rb') /\ D!DNext
<1>0. /\ Held = Contents(rb) /\ Held \in Seq(Value) /\ Len(Held) = rb.size
      /\ rb.size \in Nat /\ D!Size = rb.size
  BY HeldInRing DEF Turned
<1>1. CASE i >= rb.size /\ Refuse("remove", i, 0, "C_OUT_OF_BOUNDS")
  BY <1>0, <1>1, RefusedRing DEF D!DRefuse, Held
<1>2. CASE /\ i < rb.size /\ rb' = Removed(rb, i)
           /\ Report("remove", i, 0, "C_OK", <<Get(rb, i)>>)
  <2>1. i \in 0..(rb.size - 1)
    BY <1>0, <1>2
  <2>2. /\ Good(rb') /\ rb'.size = rb.size - 1
        /\ \A k \in 1..rb'.size : Contents(rb')[k] =
             IF k <= i THEN Held[k] ELSE Held[k + 1]
        /\ Get(rb, i) = Held[i + 1]
    BY <1>0, <1>2, <2>1, RingRemovedIs
  <2>3. /\ Held' \in Seq(Value) /\ Len(Held') = Len(Held) - 1
        /\ \A k \in 1..Len(Held') : Held'[k] =
             IF k <= i THEN Held[k] ELSE Held[k + 1]
    BY <1>0, <2>2, HeldInNext
  <2>4. Held' = SubSeq(Held, 1, i) \o SubSeq(Held, i + 2, Len(Held))
    <3>1. i \in 0..(Len(Held) - 1)
      BY <1>0, <2>1
    <3>2. QED
      BY <1>0, <2>3, <3>1, SequenceRemoved
  <2>5. Held' = D!FirstItems(i) \o D!ItemsFrom(i + 1)
    <3>1. (i + 1) + 1 = i + 2
      OBVIOUS
    <3>2. QED
      BY <2>4, <3>1 DEF D!FirstItems, D!ItemsFrom, D!Size, Held
  <2>6. D!DRemove(i)
    BY <1>2, <2>2, <2>5 DEF D!DRemove, Report, D!Report, Held
  <2>7. QED
    BY <1>0, <2>1, <2>2, <2>6 DEF D!DNext
<1>3. QED
  BY <1>1, <1>2 DEF Remove

LEMMA RingExpandStep ==
  ASSUME Good(rb), Turned, NEW c \in Nat, Expand(c)
  PROVE  Good(rb') /\ D!DNext
<1>1. ASSUME NEW code \in {"C_CAP_GREATER", "C_NOMEM"},
             Refuse("expand", c, 0, code)
      PROVE  Good(rb') /\ D!DNext
  BY <1>1, RefusedRing DEF D!DRefuse, Held
<1>2. ASSUME Good(rb'), Contents(rb') = Contents(rb),
             Report("expand", c, 0, "C_OK", <<>>)
      PROVE  Good(rb') /\ D!DNext
  <2>1. last'.at = c
    BY <1>2 DEF Report
  <2>2. Held' = Held
    BY <1>2, HeldInRing, HeldInNext DEF Turned
  <2>3. D!DExpand(last'.at)
    BY <1>2, <2>1, <2>2 DEF D!DExpand, Report, D!Report, Held
  <2>4. QED
    BY <1>2, <2>3 DEF D!DNext
<1>3. CASE Refuse("expand", c, 0, "C_OK")
  BY <1>2, <1>3 DEF Refuse
<1>4. CASE /\ rb.cap < c /\ c <= MaxCap /\ rb' = Grown(rb, c)
           /\ Report("expand", c, 0, "C_OK", <<>>)
  BY <1>2, <1>4, GrownGood, GrownKeeps
<1>5. QED
  BY <1>1, <1>3, <1>4 DEF Expand

\* A shrink that leaves the first elements and hands out or discards the
\* others is one of the sequence.
LEMMA SplitStep ==
  ASSUME Good(rb), Good(rb'), Turned, NEW c \in Nat, NEW dst \in BOOLEAN,
         rb'.size = Min2(rb.size, c),
         \A k \in 1..Min2(rb.size, c) : Contents(rb')[k] = Contents(rb)[k],
         Report(ShrinkOp(dst), c, 0, "C_OK",
                IF dst THEN Trimmed(rb, c) ELSE <<>>)
  PROVE  D!DNext
<1> DEFINE n == Min2(rb.size, c)
<1>0. /\ Held = Contents(rb) /\ Held \in Seq(Value) /\ Len(Held) = rb.size
      /\ rb.size \in Nat /\ D!Size = rb.size
  BY HeldInRing DEF Turned
<1>1. D!Kept(c) = n /\ n \in 0..Len(Held)
  BY <1>0 DEF D!Kept, Min2
<1>2. last'.at = c
  BY DEF Report
<1>3. Held' = D!FirstItems(n)
  <2>1. /\ Held' \in Seq(Value) /\ Len(Held') = n
        /\ \A k \in 1..n : Held'[k] = Held[k]
    BY <1>0, HeldInNext
  <2> HIDE DEF n
  <2>2. Held' = SubSeq(Held, 1, n)
    BY <1>0, <1>1, <2>1, SequenceKept
  <2>3. QED
    BY <2>2 DEF D!FirstItems, Held
<1>4. Trimmed(rb, c) = D!ItemsFrom(n)
  <2>1. CASE rb.size < c
    <3>1. SubSeq(Held, c + 1, rb.size) = <<>>
      BY <1>0, <2>1, SubSeqProperties
    <3>2. SubSeq(Held, rb.size + 1, rb.size) = <<>>
      BY <1>0, SubSeqProperties
    <3>3. QED
      BY <1>0, <2>1, <3>1, <3>2 DEF Trimmed, D!ItemsFrom, Held, Min2
  <2>2. CASE ~(rb.size < c)
    BY <1>0, <2>2 DEF Trimmed, D!ItemsFrom, Held, Min2
  <2>3. QED
    BY <2>1, <2>2
<1> HIDE DEF n
<1>5. CASE dst
  <2>1. D!Report("split", c, 0, "C_OK", D!ItemsFrom(n))
    BY <1>4, <1>5 DEF Report, D!Report, ShrinkOp
  <2>2. D!DSplit(last'.at)
    BY <1>1, <1>2, <1>3, <2>1 DEF D!DSplit, Held
  <2>3. QED
    BY <2>2 DEF D!DNext
<1>6. CASE ~dst
  <2>1. D!Report("shrink", c, 0, "C_OK", <<>>)
    BY <1>6 DEF Report, D!Report, ShrinkOp
  <2>2. D!DShrink(last'.at)
    BY <1>1, <1>2, <1>3, <2>1 DEF D!DShrink, Held
  <2>3. QED
    BY <2>2 DEF D!DNext
<1>7. QED
  BY <1>5, <1>6

\* A shrink that changes nothing and has nothing to hand out.
LEMMA RefusedShrink ==
  ASSUME Good(rb), Turned, NEW c \in Nat, NEW dst \in BOOLEAN,
         NEW code \in {"C_CAP_LOWER", "C_NOMEM"},
         code = "C_CAP_LOWER" => c > rb.size,
         Refuse(ShrinkOp(dst), c, 0, code)
  PROVE  D!DNext
<1>1. ShrinkOp(dst) \in {"split", "shrink"}
  BY DEF ShrinkOp
<1>2. D!Size = rb.size
  BY HeldInRing DEF Turned
<1>3. D!Report(ShrinkOp(dst), c, 0, code, <<>>) /\ Held' = Held =>
        D!DRefuse(ShrinkOp(dst), c, 0, code)
  BY <1>1, <1>2 DEF D!DRefuse, Held
<1>4. QED
  BY <1>3, RefusedRing

\* What EndShrink reports of a ring that lost nothing.
LEMMA NothingTrimmed ==
  ASSUME Good(rb), NEW c \in Nat, rb.size <= c
  PROVE  Trimmed(rb, c) = <<>>
<1>1. Contents(rb) \in Seq(Value) /\ Len(Contents(rb)) = rb.size /\ rb.size \in Nat
  BY RingContents
<1>2. SubSeq(Contents(rb), c + 1, rb.size) = <<>>
  BY <1>1, SubSeqProperties
<1>3. QED
  BY <1>2 DEF Trimmed

LEMMA RingShrinkStep ==
  ASSUME Good(rb), Turned, NEW c \in Nat, NEW dst \in BOOLEAN,
         botched \in BOOLEAN, ~botched, Shrink(c, dst)
  PROVE  D!DNext \/ botched'
<1>0. rb.size \in Nat /\ rb.cap \in Nat /\ rb.size <= rb.cap
  BY MemoryAssumption DEF Good, IsRing
<1>1. CASE RefuseShrink(c, dst)
  <2>1. CASE rb.cap < c /\ Refuse(ShrinkOp(dst), c, 0, "C_CAP_LOWER")
    BY <1>0, <2>1, RefusedShrink
  <2>2. CASE Refuse(ShrinkOp(dst), c, 0, "C_NOMEM")
    BY <2>2, RefusedShrink
  <2>3. CASE rb.cap = c /\ Refuse(ShrinkOp(dst), c, 0, "C_OK")
    <3>1. Min2(rb.size, c) = rb.size /\ Trimmed(rb, c) = <<>>
      BY <1>0, <2>3, NothingTrimmed DEF Min2
    <3>2. /\ Good(rb') /\ rb'.size = rb.size
          /\ \A k \in 1..rb.size : Contents(rb')[k] = Contents(rb)[k]
      BY <2>3 DEF Refuse
    <3>3. Report(ShrinkOp(dst), c, 0, "C_OK",
                 IF dst THEN Trimmed(rb, c) ELSE <<>>)
      BY <2>3, <3>1 DEF Refuse
    <3>4. QED
      BY <3>1, <3>2, <3>3, SplitStep
  <2>4. QED
    BY <1>1, <2>1, <2>2, <2>3 DEF RefuseShrink
<1>2. CASE ShrinkToNothing(c, dst)
  <2>1. CASE dst /\ rb.size > 0
    BY <1>2, <2>1 DEF ShrinkToNothing
  <2>2. CASE ~(dst /\ rb.size > 0)
    <3>1. Min2(rb.size, c) = 0
      BY <1>0, <1>2 DEF ShrinkToNothing, Min2
    <3>2. Good(rb') /\ rb'.size = 0
      BY <1>2, NothingGood DEF ShrinkToNothing, Nothing, Ring
    <3>3. (IF dst THEN Trimmed(rb, c) ELSE <<>>) = <<>>
      BY <1>0, <1>2, <2>2, NothingTrimmed DEF ShrinkToNothing
    <3>4. Report(ShrinkOp(dst), c, 0, "C_OK",
                 IF dst THEN Trimmed(rb, c) ELSE <<>>)
      BY <1>2, <3>3 DEF ShrinkToNothing
    <3>5. QED
      BY <3>1, <3>2, <3>4, SplitStep
  <2>3. QED
    BY <2>1, <2>2
<1>3. CASE ShrinkInPlace(c, dst)
  <2>1. /\ Shrinkable(rb, c) /\ FitsInPlace(rb, c) /\ rb' = Truncated(rb, c)
        /\ botched' = (rb.tail + rb.size = c)
        /\ Report(ShrinkOp(dst), c, 0, "C_OK",
                  IF dst THEN Trimmed(rb, c) ELSE <<>>)
    BY <1>3 DEF ShrinkInPlace, EndShrink, Shrinkable
  <2>2. CASE rb.tail + rb.size # c
    <3>1. Good(rb') /\ Contents(rb') = Contents(rb)
      BY <2>1, <2>2, TruncatedGood, TruncatedKeeps
    <3>2. rb'.size = rb.size
      BY <2>1 DEF Truncated, Ring
    <3>3. Min2(rb.size, c) = rb.size
      BY <1>0, <2>1 DEF Min2, FitsInPlace, Good, IsRing
    <3>4. \A k \in 1..Min2(rb.size, c) : Contents(rb')[k] = Contents(rb)[k]
      BY <3>1
    <3>5. QED
      BY <2>1, <3>1, <3>2, <3>3, <3>4, SplitStep
  <2>3. QED
    BY <2>1, <2>2
<1>4. CASE ShrinkAndMove(c, dst)
  <2>1. Shrinkable(rb, c) /\ ~FitsInPlace(rb, c)
    BY <1>4 DEF ShrinkAndMove, Shrinkable
  <2>2. ASSUME rb' = rb, rb.size <= c,
               Report(ShrinkOp(dst), c, 0, "C_NOMEM",
                      IF dst THEN Trimmed(rb, c) ELSE <<>>)
        PROVE  D!DNext
    <3>1. Refuse(ShrinkOp(dst), c, 0, "C_NOMEM")
      BY <2>2, NothingTrimmed DEF Refuse
    <3>2. QED
      BY <3>1, RefusedShrink
  <2>3. CASE EndShrink(c, dst, HalfStripped(rb, c), "C_NOMEM", rb.size > c)
    <3>1. CASE rb.size > c
      BY <2>3, <3>1 DEF EndShrink
    <3>2. CASE rb.size <= c
      BY <2>1, <2>2, <2>3, <3>2, HalfStrippedIs DEF EndShrink
    <3>3. QED
      BY <1>0, <3>1, <3>2
  <2>4. CASE EndShrink(c, dst, HalfMoved(rb, c), "C_NOMEM", rb.size > 0)
    <3>1. CASE rb.size > 0
      BY <2>4, <3>1 DEF EndShrink
    <3>2. CASE rb.size = 0
      BY <2>1, <2>2, <2>4, <3>2, HalfMovedIs DEF EndShrink
    <3>3. QED
      BY <1>0, <3>1, <3>2
  <2>5. CASE EndShrink(c, dst, Moved(rb, c), "C_OK",
                       HoldsBack(rb, c) /\ rb.size < c)
    <3>1. CASE HoldsBack(rb, c) /\ rb.size < c
      BY <2>5, <3>1 DEF EndShrink
    <3>2. CASE ~(HoldsBack(rb, c) /\ rb.size < c)
      <4>1. /\ rb' = Moved(rb, c)
            /\ Report(ShrinkOp(dst), c, 0, "C_OK",
                      IF dst THEN Trimmed(rb, c) ELSE <<>>)
        BY <2>5 DEF EndShrink
      <4>2. Good(rb') /\ rb'.size = Min2(rb.size, c)
        BY <2>1, <4>1, MovedGood
      <4>3. \A k \in 1..Min2(rb.size, c) : Contents(rb')[k] = Contents(rb)[k]
        BY <2>1, <3>2, <4>1, MovedIs
      <4>4. QED
        BY <4>1, <4>2, <4>3, SplitStep
    <3>3. QED
      BY <3>1, <3>2
  <2>6. QED
    BY <1>4, <2>3, <2>4, <2>5 DEF ShrinkAndMove
<1>5. QED
  BY <1>1, <1>2, <1>3, <1>4 DEF Shrink

-----------------------------------------------------------------------------
LEMMA RingDequeStep ==
  ASSUME Good(rb), Turned, botched \in BOOLEAN, RingNext
  PROVE  D!DNext \/ botched'
<1>0. MaxCap \in Nat
  BY MemoryAssumption
<1>1. ASSUME NEW e \in Elems, PushFront(e) \/ PushBack(e) PROVE D!DNext
  BY <1>1, PushFrontStep, PushBackStep
<1>2. ASSUME PopFront \/ PopBack PROVE D!DNext
  BY <1>2, PopFrontStep, PopBackStep
<1>3. ASSUME NEW i \in 0..MaxCap, NEW e \in Elems, Insert(i, e) PROVE D!DNext
  BY <1>0, <1>3, RingInsertStep
<1>4. ASSUME NEW i \in 0..MaxCap, Remove(i) PROVE D!DNext
  BY <1>0, <1>4, RingRemoveStep
<1>5. ASSUME NEW c \in 0..(MaxCap + 1), Expand(c) PROVE D!DNext
  BY <1>0, <1>5, RingExpandStep
<1>6. ASSUME NEW c \in 0..(MaxCap + 1), NEW dst \in BOOLEAN, ~botched,
             Shrink(c, dst)
      PROVE  D!DNext \/ botched'
  BY <1>0, <1>6, RingShrinkStep
<1>7. QED
  BY <1>1, <1>2, <1>3, <1>4, <1>5, <1>6 DEF RingNext, RingCall

\* Until it is turned into the ring, what the vec does the sequence does.
LEMMA VecDequeStep ==
  ASSUME ~turned, turned' = turned, V!DNext
  PROVE  D!DNext
<1>1. Held = VecContents(vec) /\ Held' = VecContents(vec)'
  BY DEF Held, VecContents
<1>2. /\ D!Size = V!Size
      /\ \A n : D!FirstItems(n) = V!FirstItems(n)
      /\ \A n : D!ItemsFrom(n) = V!ItemsFrom(n)
  BY <1>1 DEF D!Size, V!Size, D!FirstItems, V!FirstItems, D!ItemsFrom,
              V!ItemsFrom, Held
<1>3. ASSUME NEW op, NEW at, NEW e, NEW code, NEW out
      PROVE  V!Report(op, at, e, code, out) = D!Report(op, at, e, code, out)
  BY DEF V!Report, D!Report
<1>4. ASSUME NEW e PROVE V!DPushFront(e) => D!DPushFront(e)
  BY <1>1, <1>3 DEF V!DPushFront, D!DPushFront, Held
<1>5. ASSUME NEW e PROVE V!DPushBack(e) => D!DPushBack(e)
  BY <1>1, <1>3 DEF V!DPushBack, D!DPushBack, Held
<1>6. ASSUME NEW e PROVE V!DRemoveByValue(e) => D!DRemoveByValue(e)
  BY <1>1, <1>2, <1>3 DEF V!DRemoveByValue, D!DRemoveByValue, Held
<1>7. V!DPopFront => D!DPopFront
  BY <1>1, <1>2, <1>3 DEF V!DPopFront, D!DPopFront, Held
<1>8. V!DPopBack => D!DPopBack
  BY <1>1, <1>2, <1>3 DEF V!DPopBack, D!DPopBack, Held
<1>9. ASSUME NEW i, NEW e PROVE V!DInsert(i, e) => D!DInsert(i, e)
  BY <1>1, <1>2, <1>3 DEF V!DInsert, D!DInsert, Held
<1>10. ASSUME NEW i PROVE V!DRemove(i) => D!DRemove(i)
  BY <1>1, <1>2, <1>3 DEF V!DRemove, D!DRemove, Held
<1>11. ASSUME NEW c
       PROVE  /\ V!DShrink(c) => D!DShrink(c)
              /\ V!DSplit(c) => D!DSplit(c)
  <2>1. V!Kept(c) = D!Kept(c)
    BY <1>2 DEF V!Kept, D!Kept
  <2>2. QED
    BY <1>1, <1>2, <1>3, <2>1 DEF V!DShrink, D!DShrink, V!DSplit, D!DSplit, Held
<1>12. ASSUME NEW c PROVE V!DExpand(c) => D!DExpand(c)
  BY <1>1, <1>3 DEF V!DExpand, D!DExpand, Held
<1>13. ASSUME NEW op, NEW at, NEW e, NEW code
       PROVE  V!DRefuse(op, at, e, code) => D!DRefuse(op, at, e, code)
  BY <1>1, <1>2, <1>3 DEF V!DRefuse, D!DRefuse, Held
<1>14. QED
  BY <1>2, <1>4, <1>5, <1>6, <1>7, <1>8, <1>9, <1>10, <1>11, <1>12, <1>13
     DEF V!DNext, D!DNext

\* Turning the vec into the ring is no step of the sequence.
LEMMA TakeVecStep ==
  ASSUME IsVec(vec), ~turned, TakeVec
  PROVE  UNCHANGED D!dvars
<1>1. Contents(FromVec(vec)) = VecContents(vec)
  BY FromVecIs
<1>2. Held = VecContents(vec) /\ Held' = Contents(rb')
  BY DEF Held, TakeVec, Contents, Get, Read, Slot, Slots
<1>3. Held' = Held
  BY <1>1, <1>2 DEF TakeVec
<1>4. QED
  BY <1>3 DEF TakeVec, D!dvars, Held

\* The vec and then the ring implement the sequence: whatever calls came
\* before, each does to the elements, answers and hands out what it would on a
\* sequence, wherever the elements lie in the array and however it has grown, until a
\* shrink goes wrong in one of the ways Shrink and VecShrink name.
THEOREM RingImplementsSequence == Spec => DequeSpec
<1>1. Init => D!DInit
  <2> SUFFICES ASSUME Init PROVE D!DInit
    OBVIOUS
  <2>1. VecContents(vec) = <<>> /\ ~turned
    BY WithCapacityIs, MemoryAssumption DEF Init, VecInit
  <2>2. QED
    BY <2>1 DEF Init, VecInit, D!DInit
<1>2. IInv /\ [Next]_vars => [D!DNext \/ botched']_(D!dvars)
  <2> SUFFICES ASSUME IInv, [Next]_vars PROVE [D!DNext \/ botched']_(D!dvars)
    OBVIOUS
  <2>1. CASE ~turned /\ VecNext /\ UNCHANGED <<rb, turned>>
    <3>1. V!DNext \/ botched' \/ UNCHANGED V!dvars
      BY <2>1, VecStep DEF IInv, VecInv
    <3>2. CASE V!DNext
      BY <2>1, <3>2, VecDequeStep
    <3>3. CASE UNCHANGED V!dvars
      BY <2>1, <3>3 DEF V!dvars, D!dvars
    <3>4. QED
      BY <3>1, <3>2, <3>3
  <2>2. CASE ~turned /\ TakeVec
    BY <2>2, TakeVecStep DEF IInv
  <2>3. CASE turned /\ RingNext /\ UNCHANGED <<vec, turned>>
    BY <2>3, RingDequeStep DEF IInv, Turned, RingNext
  <2>4. CASE UNCHANGED vars
    BY <2>4 DEF vars, D!dvars, Contents, Get, Read, Slot, Slots, VecContents
  <2>5. QED
    BY <2>1, <2>2, <2>3, <2>4 DEF Next
<1>3. QED
  BY <1>1, <1>2, GoodInvariant, PTL DEF Spec, DequeSpec
=============================================================================
