------------------------------ MODULE SlotPage ------------------------------
(***************************************************************************)
(* The abstract specification of a table page: the page of TableSlots as a *)
(* state machine.  Callers reach a page one at a time, under its write     *)
(* latch, and call ApplyDelete on slots that hold a tuple only.            *)
(***************************************************************************)
EXTENDS TableSlots

VARIABLE page

SlotNums == 1 .. Len(page.slots)

PageInit == page = EmptyPage

Insert(v) == RoomToInsert(page, v) /\ page' = PutTuple(page, v)

Update(n, v) ==
    /\ ~NoTuple(page, n)
    /\ RoomToUpdate(page, n, v)
    /\ page' = ReplaceTuple(page, n, v)

Mark(n) == ~NoTuple(page, n) /\ page' = MarkTuple(page, n)

Unmark(n) == page' = UnmarkTuple(page, n)

Drop(n) == IsFull(page.slots[n]) /\ page' = DropTuple(page, n)

PageNext ==
    \/ \E v \in Tuples : Insert(v)
    \/ \E n \in SlotNums :
          \/ Mark(n)
          \/ Unmark(n)
          \/ Drop(n)
          \/ \E v \in Tuples : Update(n, v)

PageSpec == PageInit /\ [][PageNext]_page
=============================================================================
