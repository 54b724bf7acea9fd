----------------------------- MODULE TablePage -----------------------------
(***************************************************************************)
(* storage/access/table_page.go: the slotted page.  The slot array grows   *)
(* from the header up, the tuples grow from the end of the page down to    *)
(* the free space pointer; deleting and updating move the bytes below the  *)
(* tuple and correct the offsets.  Locks and log records of the same       *)
(* functions are in TransactionManager and LogManager.                     *)
(*                                                                         *)
(* "data" is the page's memory, one cell per byte; byte i of tuple v is    *)
(* the pair <<v, i>>.  Addresses start at 0 as in the code, slot numbers   *)
(* at 1.  A slot's size word is kept as the size and its delete mark.      *)
(***************************************************************************)
EXTENDS Naturals, Sequences, FiniteSetsExt

CONSTANTS
    Tuples, TupleSize,
    PageSize,           \* common.PageSize
    HeaderSize,         \* sizeTablePageHeader
    SlotSize,           \* sizeTuple, the two words of a slot
    Garbage             \* content of a byte never written

ASSUME PageAssumption ==
    /\ TupleSize \in [Tuples -> Nat \ {0}]
    /\ PageSize \in Nat /\ HeaderSize \in Nat /\ SlotSize \in Nat
    /\ HeaderSize <= PageSize

VARIABLES
    data,
    free_space_pointer,
    slots               \* offset, size and delete mark of each slot

tablePageVars == <<data, free_space_pointer, slots>>

Addresses == 0 .. PageSize - 1
Bytes(v)  == {<<v, i>> : i \in 0 .. TupleSize[v] - 1}

\* TablePage.Init.
TablePageInit ==
    /\ data = [a \in Addresses |-> Garbage]
    /\ free_space_pointer = PageSize
    /\ slots = << >>

getFreeSpaceRemaining == free_space_pointer - HeaderSize - SlotSize * Len(slots)

IsDeleted(n) == slots[n].deleted \/ slots[n].size = 0

----------------------------------------------------------------------------

\* copy(data[dst:], data[src:src+len]), which Go does like memmove.
Move(mem, dst, src, len) ==
    [a \in Addresses |-> IF a \in dst .. dst + len - 1 THEN mem[src + (a - dst)]
                                                       ELSE mem[a]]

\* copy(data[dst:], v)
Write(mem, dst, v) ==
    [a \in Addresses |-> IF a \in dst .. dst + TupleSize[v] - 1 THEN <<v, a - dst>>
                                                                ELSE mem[a]]

\* InsertTuple that never uses an emptied slot again.
FreeSlotAppended == Len(slots) + 1

\* The slot InsertTuple takes: the first one with size zero, else a new one.
FreeSlot ==
    LET zero == {n \in 1 .. Len(slots) : slots[n].size = 0}
    IN  IF zero = {} THEN Len(slots) + 1 ELSE Min(zero)

InsertFits(v) == getFreeSpaceRemaining >= TupleSize[v] + SlotSize

InsertTuple(v) ==
    LET fsp  == free_space_pointer - TupleSize[v]
        slot == [offset |-> fsp, size |-> TupleSize[v], deleted |-> FALSE]
    IN  /\ InsertFits(v)
        /\ free_space_pointer' = fsp
        /\ data' = Write(data, fsp, v)
        /\ slots' = IF FreeSlot > Len(slots) THEN Append(slots, slot)
                                             ELSE [slots EXCEPT ![FreeSlot] = slot]

\* Offsets below the updated tuple only: its own offset stays.
OffsetMovesBelow(n, m) == slots[m].size > 0 /\ slots[m].offset < slots[n].offset

\* UpdateTuple moves slot m when slot n changes size: n itself and the tuples
\* below it.
OffsetMoves(n, m) ==
    slots[m].size > 0 /\ slots[m].offset < slots[n].offset + slots[n].size

UpdateTuple(n, v) ==
    LET old == slots[n].size
        new == TupleSize[v]
        fsp == free_space_pointer
    IN  /\ ~IsDeleted(n)
        /\ getFreeSpaceRemaining + old >= new
        /\ data' = Write(Move(data, fsp + old - new, fsp, slots[n].offset - fsp),
                         slots[n].offset + old - new, v)
        /\ free_space_pointer' = fsp + old - new
        /\ slots' = [m \in 1 .. Len(slots) |->
                       [slots[m] EXCEPT
                          !.offset = IF OffsetMoves(n, m) THEN @ + old - new ELSE @,
                          !.size   = IF m = n THEN new ELSE @]]

MarkDelete(n) ==
    /\ ~IsDeleted(n)
    /\ slots' = [slots EXCEPT ![n].deleted = TRUE]
    /\ UNCHANGED <<data, free_space_pointer>>

\* Called for a slot that holds a tuple; for an empty one, whose offset is 0,
\* the code's assertion "Free space appears before tuples." panics.
ApplyDelete(n) ==
    LET fsp    == free_space_pointer
        size   == slots[n].size
        offset == slots[n].offset
    IN  /\ size > 0
        /\ data' = Move(data, fsp + size, fsp, offset - fsp)
        /\ free_space_pointer' = fsp + size
        /\ slots' = [m \in 1 .. Len(slots) |->
                       IF m = n THEN [offset |-> 0, size |-> 0, deleted |-> FALSE]
                       ELSE IF slots[m].size # 0 /\ slots[m].offset < offset
                         THEN [slots[m] EXCEPT !.offset = @ + size]
                         ELSE slots[m]]

RollbackDelete(n) ==
    /\ slots' = [slots EXCEPT ![n].deleted = FALSE]
    /\ UNCHANGED <<data, free_space_pointer>>

TablePageNext ==
    \/ \E v \in Tuples : InsertTuple(v)
    \/ \E n \in 1 .. Len(slots) :
          \/ MarkDelete(n)
          \/ ApplyDelete(n)
          \/ RollbackDelete(n)
          \/ \E v \in Tuples : UpdateTuple(n, v)

TablePageSpec == TablePageInit /\ [][TablePageNext]_tablePageVars

----------------------------------------------------------------------------
(* Properties.                                                             *)

FullSlots == {n \in 1 .. Len(slots) : slots[n].size > 0}
Extent(n) == slots[n].offset .. slots[n].offset + slots[n].size - 1

\* The tuples tile the page from the free space pointer to its end: no two
\* overlap after any sequence of inserts, updates and deletes, and compaction
\* leaves no hole, marked tuples included; nor do they reach the slot array,
\* so that the unsigned getFreeSpaceRemaining never wraps around.
TuplesTilePage ==
    /\ HeaderSize + SlotSize * Len(slots) <= free_space_pointer
    /\ \A m, n \in FullSlots : m # n => Extent(m) \intersect Extent(n) = {}
    /\ UNION {Extent(n) : n \in FullSlots} = free_space_pointer .. PageSize - 1

\* What GetTuple copies out of slot n.
StoredTuple(n) ==
    CHOOSE v \in Tuples : \A i \in 0 .. slots[n].size - 1 :
        /\ TupleSize[v] = slots[n].size
        /\ data[slots[n].offset + i] = <<v, i>>

SlotView(n) ==
    CASE slots[n].size = 0 -> [kind |-> "empty"]
      [] slots[n].size > 0 /\ slots[n].deleted ->
             [kind |-> "marked", tuple |-> StoredTuple(n)]
      [] slots[n].size > 0 /\ ~slots[n].deleted ->
             [kind |-> "live", tuple |-> StoredTuple(n)]

PageView == [free  |-> getFreeSpaceRemaining,
             slots |-> [n \in 1 .. Len(slots) |-> SlotView(n)]]

AbstractPage == INSTANCE SlotPage
    WITH page <- PageView, PageSpace <- PageSize - HeaderSize

\* The bytes behave like the abstract page: each slot gives back the tuple
\* stored in it last, however the bytes were moved since, and the space is
\* accounted for as the abstract page says.
ImplementsSlotPage == AbstractPage!PageSpec
=============================================================================
