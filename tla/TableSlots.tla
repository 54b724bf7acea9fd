----------------------------- MODULE TableSlots -----------------------------
(***************************************************************************)
(* What a table page promises to the layers above it: a list of slots that *)
(* hold a tuple each, some of them marked as deleted, and an account of    *)
(* the free space.  TransactionManager works with pages of this kind;      *)
(* TablePage keeps the byte offsets of storage/access/table_page.go and is *)
(* shown to implement it.                                                  *)
(*                                                                         *)
(* A page is a record: "free" is getFreeSpaceRemaining() and "slots" the   *)
(* slot array, whose length is the tuple count.  Slot numbers start at 1   *)
(* here and at 0 in the code.                                              *)
(***************************************************************************)
EXTENDS Naturals, Sequences

CONSTANTS
    Tuples,         \* the tuples a client stores
    TupleSize,      \* Tuples -> tuple.Size()
    SlotSize,       \* sizeTuple: the offset and size words of a slot
    PageSpace       \* space of a new page for slots and tuples

ASSUME SpaceAssumption ==
    /\ TupleSize \in [Tuples -> Nat \ {0}]
    /\ SlotSize \in Nat
    /\ PageSpace \in Nat

EmptySlot     == [kind |-> "empty"]
LiveSlot(v)   == [kind |-> "live", tuple |-> v]
MarkedSlot(v) == [kind |-> "marked", tuple |-> v]

\* Init of a TablePage.
EmptyPage == [free |-> PageSpace, slots |-> << >>]

\* IsDeleted: the size is zero or carries the delete mark.
IsDeleted(slot) == slot.kind # "live"

IsFull(slot) == slot.kind # "empty"

\* GetTuple, UpdateTuple and MarkDelete refuse the slot.
NoTuple(pg, n) == n > Len(pg.slots) \/ IsDeleted(pg.slots[n])

----------------------------------------------------------------------------

\* InsertTuple asks for the slot words even when it reuses a slot.
RoomToInsert(pg, v) == pg.free >= TupleSize[v] + SlotSize

\* The first slot with size zero, or the one past the end.
InsertSlot(pg) ==
    CHOOSE n \in 1 .. Len(pg.slots) + 1 :
        /\ n <= Len(pg.slots) => ~IsFull(pg.slots[n])
        /\ \A m \in 1 .. n - 1 : IsFull(pg.slots[m])

PutTuple(pg, v) ==
    LET n == InsertSlot(pg) IN
    IF n <= Len(pg.slots)
      THEN [free  |-> pg.free - TupleSize[v],
            slots |-> [pg.slots EXCEPT ![n] = LiveSlot(v)]]
      ELSE [free  |-> pg.free - TupleSize[v] - SlotSize,
            slots |-> Append(pg.slots, LiveSlot(v))]

RoomToUpdate(pg, n, v) == pg.free + TupleSize[pg.slots[n].tuple] >= TupleSize[v]

ReplaceTuple(pg, n, v) ==
    [free  |-> (pg.free + TupleSize[pg.slots[n].tuple]) - TupleSize[v],
     slots |-> [pg.slots EXCEPT ![n] = LiveSlot(v)]]

MarkTuple(pg, n) ==
    [pg EXCEPT !.slots[n] = MarkedSlot(@.tuple)]

\* RollbackDelete: takes the mark away if there is one.
UnmarkTuple(pg, n) ==
    IF IsFull(pg.slots[n]) THEN [pg EXCEPT !.slots[n] = LiveSlot(@.tuple)] ELSE pg

\* ApplyDelete: the space comes back, the slot words do not.
DropTuple(pg, n) ==
    [free  |-> pg.free + TupleSize[pg.slots[n].tuple],
     slots |-> [pg.slots EXCEPT ![n] = EmptySlot]]
============================================================================
