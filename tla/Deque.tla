------------------------------- MODULE Deque --------------------------------
(***************************************************************************)
(* What vec.h and ringbuffer.h promise: a sequence whose index 0 is the    *)
(* back (the tail of the ring) and whose last index is the front (its      *)
(* head, the end of the vec). A call that has no memory answers C_NOMEM    *)
(* and changes nothing.                                                    *)
(***************************************************************************)
EXTENDS Naturals, Sequences

CONSTANT Elems

VARIABLES
  items,    \* the elements, from the back to the front
  last      \* the last call: its arguments, its code, what it handed out

dvars == <<items, last>>

\* The call op with index or capacity at and element e answered code and
\* handed out the elements out.
Report(op, at, e, code, out) ==
  last' = [op |-> op, at |-> at, e |-> e, code |-> code, out |-> out]

Size == Len(items)
FirstItems(n) == SubSeq(items, 1, n)
ItemsFrom(n)  == SubSeq(items, n + 1, Size)

DInit ==
  /\ items \in Seq(Elems)
  /\ last = [op |-> "init", at |-> 0, e |-> 0, code |-> "C_OK", out |-> <<>>]

DPushFront(e) ==
  items' = Append(items, e) /\ Report("push_front", 0, e, "C_OK", <<>>)

DPushBack(e) ==
  items' = <<e>> \o items /\ Report("push_back", 0, e, "C_OK", <<>>)

DPopFront ==
  /\ Size > 0
  /\ items' = FirstItems(Size - 1)
  /\ Report("pop_front", 0, 0, "C_OK", <<items[Size]>>)

DPopBack ==
  /\ Size > 0
  /\ items' = ItemsFrom(1)
  /\ Report("pop_back", 0, 0, "C_OK", <<items[1]>>)

DInsert(i, e) ==
  /\ items' = FirstItems(i) \o <<e>> \o ItemsFrom(i)
  /\ Report("insert", i, e, "C_OK", <<>>)

DRemove(i) ==
  /\ items' = FirstItems(i) \o ItemsFrom(i + 1)
  /\ Report("remove", i, 0, "C_OK", <<items[i + 1]>>)

\* The first of the elements that equal e.
DRemoveByValue(e) ==
  \E i \in 0..(Size - 1) :
    /\ items[i + 1] = e /\ \A j \in 1..i : items[j] # e
    /\ items' = FirstItems(i) \o ItemsFrom(i + 1)
    /\ Report("remove_by_value", 0, e, "C_OK", <<>>)

\* Shrinking below the size keeps the first cap elements. The others are
\* discarded, or, by a call that is given a vec for them, handed out.
Kept(cap) == IF Size < cap THEN Size ELSE cap

DShrink(cap) ==
  items' = FirstItems(Kept(cap)) /\ Report("shrink", cap, 0, "C_OK", <<>>)

DSplit(cap) ==
  /\ items' = FirstItems(Kept(cap))
  /\ Report("split", cap, 0, "C_OK", ItemsFrom(Kept(cap)))

DExpand(cap) ==
  UNCHANGED items /\ Report("expand", cap, 0, "C_OK", <<>>)

\* A refused call changes nothing, and is refused for a reason.
DRefuse(op, at, e, code) ==
  /\ UNCHANGED items
  /\ \/ code = "C_NOMEM" /\ op \notin
          {"pop_front", "pop_back", "remove", "remove_by_value"}
     \/ code = "C_NOT_FOUND" /\ op = "remove_by_value"
        /\ \A j \in 1..Size : items[j] # e
     \/ code = "C_EMPTY" /\ op \in {"pop_front", "pop_back"} /\ Size = 0
     \/ code = "C_OUT_OF_BOUNDS" /\ op = "insert" /\ at > Size
     \/ code = "C_OUT_OF_BOUNDS" /\ op = "remove" /\ at >= Size
     \/ code = "C_OUT_OF_BOUNDS" /\ op = "pop_front" /\ Size = 0
     \/ code = "C_CAP_LOWER" /\ op \in {"shrink", "split"} /\ at > Size
     \/ code = "C_CAP_GREATER" /\ op = "expand"
  /\ Report(op, at, e, code, <<>>)

DNext ==
  \/ \E e \in Elems : DPushFront(e) \/ DPushBack(e) \/ DRemoveByValue(e)
  \/ DPopFront \/ DPopBack
  \/ \E i \in 0..Size, e \in Elems : DInsert(i, e)
  \/ \E i \in 0..(Size - 1) : DRemove(i)
  \/ DShrink(last'.at) \/ DSplit(last'.at) \/ DExpand(last'.at)
  \/ DRefuse(last'.op, last'.at, last'.e, last'.code)

DSpec == DInit /\ [][DNext]_dvars
=============================================================================
