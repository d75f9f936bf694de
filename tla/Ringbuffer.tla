----------------------------- MODULE Ringbuffer -----------------------------
(***************************************************************************)
(* collections/ringbuffer.c: the growing circular array under the          *)
(* transmission queue of a Connection, called by one thread at a time.     *)
(*                                                                         *)
(* A ring is a record with the fields of struct ringbuffer, its array as   *)
(* in Vec; a write outside it is lost. A ring starts as the array of a vec *)
(* (ringbuffer_from_vec), so the calls on that vec are part of the model.  *)
(***************************************************************************)
EXTENDS Vec

VARIABLES
  rb,      \* the struct ringbuffer
  turned   \* the vec has been turned into the ring

vars == <<rb, vec, turned, last, botched>>

Min2(a, b) == IF a < b THEN a ELSE b

Ring(cap, head, tail, size, arr) ==
  [cap |-> cap, head |-> head, tail |-> tail, size |-> size, arr |-> arr]

IsRing(r) ==
  /\ r = Ring(r.cap, r.head, r.tail, r.size, r.arr)
  /\ r.cap \in 0..MaxCap /\ r.size \in 0..r.cap
  /\ r.head \in Nat /\ r.tail \in Nat
  /\ r.arr \in [Slots(r.cap) -> Elems \cup {Garbage}]

TypeOK ==
  /\ IsRing(rb) /\ IsVec(vec) /\ turned \in BOOLEAN /\ botched \in BOOLEAN

\* A call that is turned down leaves the ring as it was.
Refuse(op, at, e, code) == UNCHANGED rb /\ Report(op, at, e, code, <<>>)

-----------------------------------------------------------------------------
(* Operators on rings.                                                     *)

Read(r, s) == IF s \in Slots(r.cap) THEN r.arr[s] ELSE Garbage

\* Mutant: wraps one slot too late.
IncOffByOne(r, val) == IF val = r.cap THEN 0 ELSE val + 1

\* ringbuffer_inc and ringbuffer_dec.
Inc(r, val) == IF val = r.cap - 1 THEN 0 ELSE val + 1
Dec(r, val) == IF val = 0 THEN r.cap - 1 ELSE val - 1

\* The slot of the element with index i, and ringbuffer_get.
Slot(r, i) == (r.tail + i) % r.cap
Get(r, i)  == Read(r, Slot(r, i))

\* The elements from the tail to the head.
Contents(r) == [i \in 1..r.size |-> Get(r, i - 1)]

\* ringbuffer_from_vec; with an empty vec it is ringbuffer_with_capacity.
FromVec(v) ==
  Ring(v.cap, IF v.cap = v.size THEN 0 ELSE v.size, 0, v.size, v.arr)

\* Mutant: a wrapped ring is grown like one that is not.
NeverShifts(r) == TRUE

\* Growing leaves the elements in order: nothing has to move.
NoShift(r) == r.size = 0 \/ r.head > r.tail

\* The array after growing a wrapped ring to c slots: the first slots, up to
\* head, continue behind the old end, and what does not fit there moves down.
Shifted(r, c) ==
  LET moved == Min2(r.head, c - r.cap) IN
  [s \in Slots(c) |->
     IF s >= r.cap
     THEN IF s - r.cap < moved THEN r.arr[s - r.cap] ELSE Garbage
     ELSE IF s < r.head - moved THEN r.arr[moved + s] ELSE r.arr[s]]

ShiftedHead(r, c) ==
  IF r.head >= c - r.cap THEN r.head - (c - r.cap) ELSE (r.tail + r.size) % c

\* ringbuffer_expand to c > cap slots.
Grown(r, c) ==
  IF NoShift(r)
  THEN Ring(c, r.head, r.tail, r.size, [s \in Slots(c) |-> Read(r, s)])
  ELSE Ring(c, ShiftedHead(r, c), r.tail, r.size, Shifted(r, c))

\* Mutant: the test for a full ring is one element late.
FullTooLate(r) == r.size > r.cap

Full(r) == r.size = r.cap
NoRoom(r) == Full(r) /\ r.cap + ExpandDelta > MaxCap
WithRoom(r) == IF Full(r) THEN Grown(r, r.cap + ExpandDelta) ELSE r

PushedFront(r, e) ==
  Ring(r.cap, Inc(r, r.head), r.tail, r.size + 1, [r.arr EXCEPT ![r.head] = e])

PushedBack(r, e) ==
  Ring(r.cap, r.head, Dec(r, r.tail), r.size + 1,
       [r.arr EXCEPT ![Dec(r, r.tail)] = e])

PoppedFront(r) == Ring(r.cap, Dec(r, r.head), r.tail, r.size - 1, r.arr)
PoppedBack(r)  == Ring(r.cap, r.head, Inc(r, r.tail), r.size - 1, r.arr)

\* How many steps before head, and behind slot from, slot s is.
BeforeHead(r, s)   == (r.head - s) % r.cap
Behind(r, s, from) == (s - from) % r.cap

\* The cursor walks down from head, each slot taking its predecessor's
\* element, until it is at index i.
Inserted(r, i, e) ==
  Ring(r.cap, Inc(r, r.head), r.tail, r.size + 1,
       [s \in Slots(r.cap) |->
          CASE BeforeHead(r, s) < r.size - i -> r.arr[Dec(r, s)]
            [] BeforeHead(r, s) = r.size - i -> e
            [] OTHER -> r.arr[s]])

\* The cursor walks up from index i, each slot taking its successor's element.
\* What the slot behind the last element gets nobody reads.
Removed(r, i) ==
  Ring(r.cap, Dec(r, r.head), r.tail, r.size - 1,
       [s \in Slots(r.cap) |->
          IF Behind(r, s, Slot(r, i)) < r.size - i
          THEN r.arr[Inc(r, s)] ELSE r.arr[s]])

-----------------------------------------------------------------------------
(* ringbuffer_shrink to c < cap slots.                                     *)

Nothing == Ring(0, 0, 0, 0, [s \in {} |-> Garbage])

\* The elements end before the new end of the array.
FitsInPlace(r, c) == r.tail + r.size <= c

Truncated(r, c) ==
  Ring(c, r.head, r.tail, r.size, [s \in Slots(c) |-> Read(r, s)])

\* The head once the elements beyond c have been taken off.
StrippedHead(r, c) == IF r.size >= c THEN (r.tail + c) % r.cap ELSE r.head

\* The elements moved to slot 0: from tail on, and, of a wrapped ring, the
\* slots below head, held back, at the end of the new array.
Gathered(r, c) ==
  LET h == StrippedHead(r, c) IN
  [s \in Slots(c) |->
     IF h > r.tail \/ (r.size > 0 /\ s < c - h) THEN Read(r, s + r.tail)
     ELSE IF r.size > 0 THEN r.arr[s - (c - h)]
     ELSE r.arr[s]]

Moved(r, c) ==
  LET n == Min2(r.size, c) IN Ring(c, n % c, 0, n, Gathered(r, c))

\* What a dst that is not NULL receives, before anything is moved.
Trimmed(r, c) == SubSeq(Contents(r), c + 1, r.size)

\* The slots below head are the second piece of a wrapped ring and are held
\* back in memory of their own while the first piece moves.
HoldsBack(r, c) ==
  r.size > 0 /\ 0 < StrippedHead(r, c) /\ StrippedHead(r, c) <= r.tail

\* No memory for them: head has been taken back to where it ends up.
HalfStripped(r, c) == [r EXCEPT !.head = StrippedHead(r, c)]

\* No memory for the new array: the elements have been moved in the old one.
HalfMoved(r, c) ==
  Ring(r.cap, StrippedHead(r, c), r.tail, r.size,
       [s \in Slots(r.cap) |-> IF s < c THEN Gathered(r, c)[s] ELSE r.arr[s]])

-----------------------------------------------------------------------------
(* The calls.                                                              *)

Init == VecInit /\ rb = Nothing /\ turned = FALSE

\* The ring takes over the array of the vec.
TakeVec ==
  /\ ~botched
  /\ rb' = FromVec(vec) /\ turned' = TRUE
  /\ vec' = WithCapacity(0)
  /\ UNCHANGED <<last, botched>>

PushFront(e) ==
  \/ NoRoom(rb) /\ Refuse("push_front", 0, e, "C_NOMEM")
  \/ /\ ~NoRoom(rb)
     /\ rb' = PushedFront(WithRoom(rb), e)
     /\ Report("push_front", 0, e, "C_OK", <<>>)

PushBack(e) ==
  \/ NoRoom(rb) /\ Refuse("push_back", 0, e, "C_NOMEM")
  \/ /\ ~NoRoom(rb)
     /\ rb' = PushedBack(WithRoom(rb), e)
     /\ Report("push_back", 0, e, "C_OK", <<>>)

PopFront ==
  \/ rb.size = 0 /\ Refuse("pop_front", 0, 0, "C_EMPTY")
  \/ /\ rb.size > 0
     /\ rb' = PoppedFront(rb)
     /\ Report("pop_front", 0, 0, "C_OK", <<Read(rb, Dec(rb, rb.head))>>)

PopBack ==
  \/ rb.size = 0 /\ Refuse("pop_back", 0, 0, "C_EMPTY")
  \/ /\ rb.size > 0
     /\ rb' = PoppedBack(rb)
     /\ Report("pop_back", 0, 0, "C_OK", <<Read(rb, rb.tail)>>)

Insert(i, e) ==
  \/ i > rb.size /\ Refuse("insert", i, e, "C_OUT_OF_BOUNDS")
  \/ i <= rb.size /\ NoRoom(rb) /\ Refuse("insert", i, e, "C_NOMEM")
  \/ /\ i <= rb.size /\ ~NoRoom(rb)
     /\ rb' = Inserted(WithRoom(rb), i, e)
     /\ Report("insert", i, e, "C_OK", <<>>)

Remove(i) ==
  \/ i >= rb.size /\ Refuse("remove", i, 0, "C_OUT_OF_BOUNDS")
  \/ /\ i < rb.size
     /\ rb' = Removed(rb, i)
     /\ Report("remove", i, 0, "C_OK", <<Get(rb, i)>>)

Expand(c) ==
  \/ rb.cap > c /\ Refuse("expand", c, 0, "C_CAP_GREATER")
  \/ rb.cap = c /\ Refuse("expand", c, 0, "C_OK")
  \/ rb.cap < c /\ c > MaxCap /\ Refuse("expand", c, 0, "C_NOMEM")
  \/ /\ rb.cap < c /\ c <= MaxCap
     /\ rb' = Grown(rb, c)
     /\ Report("expand", c, 0, "C_OK", <<>>)

\* ringbuffer_shrink leaves the ring r and answers code; wrong: it went wrong.
EndShrink(c, dst, r, code, wrong) ==
  /\ rb' = r
  /\ botched' = wrong
  /\ Report(ShrinkOp(dst), c, 0, code, IF dst THEN Trimmed(rb, c) ELSE <<>>)

RefuseShrink(c, dst) ==
  /\ UNCHANGED botched
  /\ \/ rb.cap < c /\ Refuse(ShrinkOp(dst), c, 0, "C_CAP_LOWER")
     \/ rb.cap = c /\ Refuse(ShrinkOp(dst), c, 0, "C_OK")
     \/ /\ 0 < c /\ c < rb.cap
        /\ FitsInPlace(rb, c) \/ (dst /\ rb.size > c)
        /\ Refuse(ShrinkOp(dst), c, 0, "C_NOMEM")

\* Shrinking to nothing returns before dst is filled.
ShrinkToNothing(c, dst) ==
  /\ c = 0 /\ c < rb.cap
  /\ rb' = Nothing
  /\ botched' = (dst /\ rb.size > 0)
  /\ Report(ShrinkOp(dst), c, 0, "C_OK", <<>>)

\* If the elements end exactly at the new end, head is left beyond it.
ShrinkInPlace(c, dst) ==
  /\ 0 < c /\ c < rb.cap /\ FitsInPlace(rb, c)
  /\ EndShrink(c, dst, Truncated(rb, c), "C_OK", rb.tail + rb.size = c)

\* Moving the two pieces of a wrapped ring is wrong unless they fill c slots;
\* running out of memory halfway is wrong unless nothing was changed yet.
ShrinkAndMove(c, dst) ==
  /\ 0 < c /\ c < rb.cap /\ ~FitsInPlace(rb, c)
  /\ \/ HoldsBack(rb, c)
        /\ EndShrink(c, dst, HalfStripped(rb, c), "C_NOMEM", rb.size > c)
     \/ EndShrink(c, dst, HalfMoved(rb, c), "C_NOMEM", rb.size > 0)
     \/ EndShrink(c, dst, Moved(rb, c), "C_OK",
                  HoldsBack(rb, c) /\ rb.size < c)

Shrink(c, dst) ==
  \/ RefuseShrink(c, dst) \/ ShrinkToNothing(c, dst)
  \/ ShrinkInPlace(c, dst) \/ ShrinkAndMove(c, dst)

RingCall ==
  \/ \E e \in Elems : PushFront(e) \/ PushBack(e)
  \/ PopFront \/ PopBack
  \/ \E i \in 0..MaxCap, e \in Elems : Insert(i, e)
  \/ \E i \in 0..MaxCap : Remove(i)
  \/ \E c \in 0..(MaxCap + 1) : Expand(c)

RingNext ==
  /\ ~botched
  /\ \/ RingCall /\ UNCHANGED botched
     \/ \E c \in 0..(MaxCap + 1), dst \in BOOLEAN : Shrink(c, dst)

Next ==
  \/ ~turned /\ VecNext /\ UNCHANGED <<rb, turned>>
  \/ ~turned /\ TakeVec
  \/ turned /\ RingNext /\ UNCHANGED <<vec, turned>>

Spec == Init /\ [][Next]_vars

-----------------------------------------------------------------------------
(* Properties.                                                             *)

\* head is where the next push_front writes: inside the array, and size slots
\* behind tail, through every growth, wrap, removal, and shrink that does not
\* go wrong, a shrink refused for want of memory among them.
WellPlaced(r) ==
  IF r.cap = 0 THEN r.head = 0 /\ r.tail = 0
  ELSE r.tail < r.cap /\ r.head = (r.tail + r.size) % r.cap

HeadFollowsTail == ~botched => WellPlaced(rb)

\* Seen from outside, the vec and then the ring are one Deque.
D == INSTANCE Deque
       WITH items <- IF turned THEN Contents(rb) ELSE VecContents(vec)

\* Every call, in every state a sequence of calls can lead to, does to the
\* elements, returns and hands out what the same call on a sequence would. The
\* one step that need not is the shrink that goes wrong in one of the ways
\* Shrink and VecShrink name; it is the last step there is.
DequeSpec == D!DInit /\ [][D!DNext \/ botched']_(D!dvars)
=============================================================================
