-------------------------------- MODULE Vec ---------------------------------
(***************************************************************************)
(* collections/vec.c: the growing array under every list of the server     *)
(* (connections, users, channels, members, arguments of a command), called *)
(* by one thread at a time.                                                *)
(*                                                                         *)
(* A vec is a record with the fields of struct vec; its arr is a function  *)
(* on the slots 0..cap-1. A slot nobody wrote, and a read outside the      *)
(* array, give Garbage. The loops that move elements are written as the    *)
(* array they leave behind. malloc and realloc fail beyond MaxCap slots;   *)
(* where vec_shrink does not look whether they did, they may fail anyway.  *)
(***************************************************************************)
EXTENDS Integers, Sequences

CONSTANTS
  Elems,        \* the pointers stored; Garbage (0) is not one of them
  ExpandDelta,  \* VEC_EXPAND_DELTA, RINGBUFFER_EXPAND_DELTA
  InitialCap,   \* bound: the capacity a vec is made with at most
  MaxCap        \* bound: the memory there is, in slots

Garbage  == 0
SIZE_MAX == 2^16 - 1   \* bound: the largest size_t

ASSUME ElemsAssumption == Garbage \notin Elems /\ Elems \subseteq Nat
ASSUME MemoryAssumption ==
  /\ ExpandDelta \in Nat \ {0} /\ InitialCap \in 0..MaxCap
  /\ MaxCap \in Nat /\ MaxCap <= SIZE_MAX

VARIABLES
  vec,     \* the struct vec
  last,    \* the last call, as in Deque
  botched  \* history: a shrink lost elements or left the struct half changed;
           \* what calls on it do after that is not modelled

vecvars == <<vec, last, botched>>

Slots(c) == 0..(c - 1)

IsVec(v) ==
  /\ v = [cap |-> v.cap, size |-> v.size, arr |-> v.arr]
  /\ v.cap \in 0..MaxCap /\ v.size \in 0..v.cap
  /\ v.arr \in [Slots(v.cap) -> Elems \cup {Garbage}]

VecContents(v) == [k \in 1..v.size |-> v.arr[k - 1]]

Report(op, at, e, code, out) ==
  last' = [op |-> op, at |-> at, e |-> e, code |-> code, out |-> out]

\* A call that is turned down leaves the vec as it was.
VecRefuse(op, at, e, code) == UNCHANGED vec /\ Report(op, at, e, code, <<>>)

\* A shrink that is given a vec for the trimmed elements splits.
ShrinkOp(dst) == IF dst THEN "split" ELSE "shrink"

-----------------------------------------------------------------------------
WithCapacity(c) ==
  [cap |-> c, size |-> 0, arr |-> [s \in Slots(c) |-> Garbage]]

\* realloc of the array to c slots.
Resized(v, c) ==
  [cap |-> c, size |-> IF v.size > c THEN c ELSE v.size,
   arr |-> [s \in Slots(c) |-> IF s < v.cap THEN v.arr[s] ELSE Garbage]]

VecFull(v)   == v.size = v.cap
VecNoRoom(v) == VecFull(v) /\ v.cap + ExpandDelta > MaxCap
Roomy(v)     == IF VecFull(v) THEN Resized(v, v.cap + ExpandDelta) ELSE v

\* The elements from index i on move up, and e takes slot i.
VecInserted(v, i, e) ==
  [cap |-> v.cap, size |-> v.size + 1,
   arr |-> [s \in Slots(v.cap) |->
              IF s = i THEN e
              ELSE IF i < s /\ s <= v.size THEN v.arr[s - 1] ELSE v.arr[s]]]

\* The elements behind i move down.
VecRemoved(v, i) ==
  [cap |-> v.cap, size |-> v.size - 1,
   arr |-> [s \in Slots(v.cap) |->
              IF i <= s /\ s < v.size - 1 THEN v.arr[s + 1] ELSE v.arr[s]]]

\* vec_index_of: the first index of e, none standing for SIZE_MAX.
IndexOf(v, e) ==
  {i \in 0..(v.size - 1) : v.arr[i] = e /\ \A j \in 0..(i - 1) : v.arr[j] # e}

\* What vec_shrink puts in dst, if there is memory for it.
VecTrimmed(v, c) == SubSeq(VecContents(v), c + 1, v.size)

\* realloc to fewer slots fails: its answer is stored unseen, arr is NULL.
Lost(v, c) == [WithCapacity(c) EXCEPT !.size = IF v.size > c THEN c ELSE v.size]

-----------------------------------------------------------------------------
(* The calls.                                                              *)

VecInit ==
  /\ \E c \in 0..InitialCap : vec = WithCapacity(c)
  /\ botched = FALSE
  /\ last = [op |-> "init", at |-> 0, e |-> 0, code |-> "C_OK", out |-> <<>>]

VecInsert(op, i, at, e) ==
  \/ i > vec.size /\ VecRefuse(op, at, e, "C_OUT_OF_BOUNDS")
  \/ i <= vec.size /\ VecNoRoom(vec) /\ VecRefuse(op, at, e, "C_NOMEM")
  \/ /\ i <= vec.size /\ ~VecNoRoom(vec)
     /\ vec' = VecInserted(Roomy(vec), i, e)
     /\ Report(op, at, e, "C_OK", <<>>)

VecPush(e) == VecInsert("push_front", vec.size, 0, e)

VecRemove(op, i, at) ==
  \/ i >= vec.size /\ VecRefuse(op, at, 0, "C_OUT_OF_BOUNDS")
  \/ /\ i < vec.size
     /\ vec' = VecRemoved(vec, i)
     /\ Report(op, at, 0, "C_OK", <<vec.arr[i]>>)

\* size - 1 in unsigned arithmetic.
LastIndex == IF vec.size = 0 THEN SIZE_MAX ELSE vec.size - 1

VecPop == VecRemove("pop_front", LastIndex, 0)

VecRemoveByValue(e) ==
  \/ /\ \A i \in 0..(vec.size - 1) : vec.arr[i] # e
     /\ VecRefuse("remove_by_value", 0, e, "C_NOT_FOUND")
  \/ \E i \in IndexOf(vec, e) :
       /\ vec' = VecRemoved(vec, i)
       /\ Report("remove_by_value", 0, e, "C_OK", <<>>)

VecExpand(c) ==
  \/ vec.cap > c /\ VecRefuse("expand", c, 0, "C_CAP_GREATER")
  \/ vec.cap = c /\ VecRefuse("expand", c, 0, "C_OK")
  \/ vec.cap < c /\ c > MaxCap /\ VecRefuse("expand", c, 0, "C_NOMEM")
  \/ /\ vec.cap < c /\ c <= MaxCap
     /\ vec' = Resized(vec, c)
     /\ Report("expand", c, 0, "C_OK", <<>>)

\* dst: the caller passed a vec for the trimmed elements. Two things that may
\* go wrong are answered with C_OK: dst cannot be expanded (~filled), and what
\* it was to receive is gone; the array cannot be reallocated (~kept).
VecShrink(c, dst) ==
  \/ vec.cap < c /\ UNCHANGED botched
     /\ VecRefuse(ShrinkOp(dst), c, 0, "C_CAP_LOWER")
  \/ vec.cap = c /\ UNCHANGED botched
     /\ VecRefuse(ShrinkOp(dst), c, 0, "C_OK")
  \/ /\ vec.cap > c
     /\ \E filled, kept \in BOOLEAN :
          /\ ~filled => dst /\ c < vec.size
          /\ ~kept => c > 0
          /\ vec' = IF kept THEN Resized(vec, c) ELSE Lost(vec, c)
          /\ Report(ShrinkOp(dst), c, 0, "C_OK",
                    IF dst /\ filled THEN VecTrimmed(vec, c) ELSE <<>>)
          /\ botched' = ~(filled /\ kept)

VecCall ==
  \/ \E e \in Elems : VecPush(e) \/ VecRemoveByValue(e)
  \/ VecPop
  \/ \E i \in 0..MaxCap, e \in Elems : VecInsert("insert", i, i, e)
  \/ \E i \in 0..MaxCap : VecRemove("remove", i, i)
  \/ \E c \in 0..(MaxCap + 1) : VecExpand(c)

VecNext ==
  /\ ~botched
  /\ \/ VecCall /\ UNCHANGED botched
     \/ \E c \in 0..(MaxCap + 1), dst \in BOOLEAN : VecShrink(c, dst)

VecSpec == VecInit /\ [][VecNext]_vecvars

-----------------------------------------------------------------------------
\* Seen from outside, the vec is a Deque.
V == INSTANCE Deque WITH items <- VecContents(vec)

\* Every call, in every state a sequence of calls can lead to, does to the
\* elements, answers and hands out what the same call on a sequence would; a
\* shrink may fail to for one of the two reasons it names.
VecIsSequence == V!DInit /\ [][V!DNext \/ botched']_(V!dvars)
=============================================================================
