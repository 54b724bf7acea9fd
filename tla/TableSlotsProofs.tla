-------------------------- MODULE TableSlotsProofs --------------------------
(***************************************************************************)
(* What the operators of TableSlots do, for any tuples and any page: they  *)
(* keep a page a page, and change the slot they are meant for and no       *)
(* other.  The table heap, the transactions and recovery are built on them.*)
(***************************************************************************)
EXTENDS TableSlots, Integers, WellFoundedInduction, TLAPS

Slot ==
    {EmptySlot} \union {LiveSlot(v) : v \in Tuples} \union {MarkedSlot(v) : v \in Tuples}

Page == [free : Nat, slots : Seq(Slot)]

\* A set of naturals that is not empty has a least element.
LEMMA LeastElement ==
    ASSUME NEW T \in SUBSET Nat, T # {}
    PROVE  \E x \in T : \A y \in T : x <= y
  <1>1. PICK x \in T : \A y \in T : <<y, x>> \notin OpToRel(<, Nat)
    BY NatLessThanWellFounded, WFMin, Zenon
  <1>2. \A y \in T : ~(y < x)
    BY <1>1 DEF OpToRel
  <1> QED  BY <1>2

\* The kinds of slots, and the tuple in those that are not empty.
LEMMA SlotKinds ==
    /\ EmptySlot \in Slot
    /\ \A v \in Tuples : LiveSlot(v) \in Slot /\ MarkedSlot(v) \in Slot
    /\ \A v : ~IsDeleted(LiveSlot(v)) /\ IsFull(LiveSlot(v)) /\ LiveSlot(v).tuple = v
    /\ \A v : IsDeleted(MarkedSlot(v)) /\ IsFull(MarkedSlot(v)) /\ MarkedSlot(v).tuple = v
    /\ IsDeleted(EmptySlot) /\ ~IsFull(EmptySlot)
    /\ \A s \in Slot : ~IsFull(s) => s = EmptySlot
    /\ \A s \in Slot : ~IsDeleted(s) => s.tuple \in Tuples /\ s = LiveSlot(s.tuple)
    /\ \A s \in Slot : IsFull(s) => s.tuple \in Tuples
    /\ \A s \in Slot : IsFull(s) /\ IsDeleted(s) => s = MarkedSlot(s.tuple)
    /\ \A s \in Slot : ~IsDeleted(s) => IsFull(s)
  <1> USE DEF Slot, EmptySlot, LiveSlot, MarkedSlot, IsDeleted, IsFull
  <1>1. EmptySlot \in Slot /\ IsDeleted(EmptySlot) /\ ~IsFull(EmptySlot)
    OBVIOUS
  <1>2. \A v \in Tuples : LiveSlot(v) \in Slot /\ MarkedSlot(v) \in Slot
    OBVIOUS
  <1>3. \A v : ~IsDeleted(LiveSlot(v)) /\ IsFull(LiveSlot(v)) /\ LiveSlot(v).tuple = v
    OBVIOUS
  <1>4. \A v : IsDeleted(MarkedSlot(v)) /\ IsFull(MarkedSlot(v)) /\ MarkedSlot(v).tuple = v
    OBVIOUS
  <1>5. \A s \in Slot : ~IsFull(s) => s = EmptySlot
    OBVIOUS
  <1>6. \A s \in Slot : ~IsDeleted(s) => s.tuple \in Tuples /\ s = LiveSlot(s.tuple) /\ IsFull(s)
    OBVIOUS
  <1>7. \A s \in Slot : IsFull(s) /\ IsDeleted(s) => s = MarkedSlot(s.tuple)
    OBVIOUS
  <1>8. \A s \in Slot : IsFull(s) => s.tuple \in Tuples
    OBVIOUS
  <1> HIDE DEF Slot, EmptySlot, LiveSlot, MarkedSlot, IsDeleted, IsFull
  <1> QED  BY <1>1, <1>2, <1>3, <1>4, <1>5, <1>6, <1>7, <1>8

\* InsertSlot is an empty slot of the page or the one behind its last.
LEMMA InsertSlotIsFree ==
    ASSUME NEW pg \in Page
    PROVE  /\ InsertSlot(pg) \in 1 .. Len(pg.slots) + 1
           /\ InsertSlot(pg) <= Len(pg.slots) => pg.slots[InsertSlot(pg)] = EmptySlot
  <1> DEFINE Free == {n \in 1 .. Len(pg.slots) + 1 :
                         n <= Len(pg.slots) => ~IsFull(pg.slots[n])}
  <1>1. Len(pg.slots) \in Nat /\ pg.slots \in Seq(Slot)
    BY DEF Page
  <1>2. Len(pg.slots) + 1 \in Free /\ Free \in SUBSET Nat
    BY <1>1
  <1>3. PICK n \in Free : \A m \in Free : n <= m
    BY <1>2, LeastElement
  <1>4. \A m \in 1 .. n - 1 : IsFull(pg.slots[m])
    BY <1>1, <1>3
  <1>5. \E k \in 1 .. Len(pg.slots) + 1 :
            /\ k <= Len(pg.slots) => ~IsFull(pg.slots[k])
            /\ \A m \in 1 .. k - 1 : IsFull(pg.slots[m])
    BY <1>3, <1>4
  <1>6. /\ InsertSlot(pg) \in 1 .. Len(pg.slots) + 1
        /\ InsertSlot(pg) <= Len(pg.slots) => ~IsFull(pg.slots[InsertSlot(pg)])
    BY <1>5 DEF InsertSlot
  <1> QED  BY <1>1, <1>6, SlotKinds

\* InsertTuple fills that slot.
LEMMA PutTuplePage ==
    ASSUME NEW pg \in Page, NEW v \in Tuples, RoomToInsert(pg, v)
    PROVE  /\ PutTuple(pg, v) \in Page
           /\ Len(PutTuple(pg, v).slots) =
                IF InsertSlot(pg) <= Len(pg.slots) THEN Len(pg.slots) ELSE Len(pg.slots) + 1
           /\ PutTuple(pg, v).slots[InsertSlot(pg)] = LiveSlot(v)
           /\ \A n \in 1 .. Len(pg.slots) :
                n # InsertSlot(pg) => PutTuple(pg, v).slots[n] = pg.slots[n]
  <1> DEFINE n == InsertSlot(pg)
  <1>1. /\ n \in 1 .. Len(pg.slots) + 1 /\ Len(pg.slots) \in Nat
        /\ pg.slots \in Seq(Slot) /\ pg.free \in Nat
    BY InsertSlotIsFree DEF Page
  <1>2. LiveSlot(v) \in Slot /\ TupleSize[v] \in Nat /\ SlotSize \in Nat
    BY SlotKinds, SpaceAssumption
  <1>3. pg.free >= TupleSize[v] + SlotSize
    BY DEF RoomToInsert
  <1> HIDE DEF n
  <1>4. CASE n <= Len(pg.slots)
    <2>1. PutTuple(pg, v) = [free  |-> pg.free - TupleSize[v],
                             slots |-> [pg.slots EXCEPT ![n] = LiveSlot(v)]]
      BY <1>4 DEF PutTuple, n
    <2> QED  BY <1>1, <1>2, <1>3, <1>4, <2>1 DEF Page, n
  <1>5. CASE n = Len(pg.slots) + 1
    <2>1. PutTuple(pg, v) = [free  |-> pg.free - TupleSize[v] - SlotSize,
                             slots |-> Append(pg.slots, LiveSlot(v))]
      BY <1>1, <1>5 DEF PutTuple, n
    <2> QED  BY <1>1, <1>2, <1>3, <1>5, <2>1 DEF Page, n
  <1> QED  BY <1>1, <1>4, <1>5

\* pg2 is pg with another slot n.
SlotChanged(pg, pg2, n, slot) ==
    /\ pg2 \in Page
    /\ Len(pg2.slots) = Len(pg.slots)
    /\ pg2.slots[n] = slot
    /\ \A m \in 1 .. Len(pg.slots) : m # n => pg2.slots[m] = pg.slots[m]

\* Replacing one slot, with an account of the space that stays a number.
LEMMA ReplaceSlot ==
    ASSUME NEW pg \in Page, NEW n \in 1 .. Len(pg.slots), NEW slot \in Slot, NEW free \in Nat
    PROVE  SlotChanged(pg, [free |-> free, slots |-> [pg.slots EXCEPT ![n] = slot]], n, slot)
  BY DEF SlotChanged, Page

\* UpdateTuple stores the new tuple.
LEMMA ReplaceTuplePage ==
    ASSUME NEW pg \in Page, NEW n \in 1 .. Len(pg.slots), NEW v \in Tuples,
           ~IsDeleted(pg.slots[n]), RoomToUpdate(pg, n, v)
    PROVE  SlotChanged(pg, ReplaceTuple(pg, n, v), n, LiveSlot(v))
  <1>1. pg.slots[n] \in Slot /\ pg.free \in Nat
    BY DEF Page
  <1>2. TupleSize[v] \in Nat /\ TupleSize[pg.slots[n].tuple] \in Nat
    BY <1>1, SlotKinds, SpaceAssumption
  <1>3. (pg.free + TupleSize[pg.slots[n].tuple]) - TupleSize[v] \in Nat
    BY <1>1, <1>2 DEF RoomToUpdate
  <1> QED  BY <1>3, SlotKinds, ReplaceSlot DEF ReplaceTuple

\* MarkDelete keeps the tuple and marks it.
LEMMA MarkTuplePage ==
    ASSUME NEW pg \in Page, NEW n \in 1 .. Len(pg.slots), ~IsDeleted(pg.slots[n])
    PROVE  SlotChanged(pg, MarkTuple(pg, n), n, MarkedSlot(pg.slots[n].tuple))
  <1>1. pg.slots[n] \in Slot /\ pg.slots[n].tuple \in Tuples
    BY SlotKinds DEF Page
  <1>2. MarkTuple(pg, n) =
           [free |-> pg.free,
            slots |-> [pg.slots EXCEPT ![n] = MarkedSlot(pg.slots[n].tuple)]]
    BY <1>1 DEF MarkTuple, Page
  <1> QED  BY <1>1, <1>2, SlotKinds, ReplaceSlot DEF Page

\* RollbackDelete takes the mark away and leaves an empty slot alone.
LEMMA UnmarkTuplePage ==
    ASSUME NEW pg \in Page, NEW n \in 1 .. Len(pg.slots)
    PROVE  SlotChanged(pg, UnmarkTuple(pg, n), n,
                       IF IsFull(pg.slots[n]) THEN LiveSlot(pg.slots[n].tuple)
                                              ELSE EmptySlot)
  <1>1. pg.slots[n] \in Slot
    BY DEF Page
  <1>2. CASE IsFull(pg.slots[n])
    <2>1. UnmarkTuple(pg, n) =
             [free |-> pg.free,
              slots |-> [pg.slots EXCEPT ![n] = LiveSlot(pg.slots[n].tuple)]]
      BY <1>2 DEF UnmarkTuple, Page
    <2>2. pg.slots[n].tuple \in Tuples
      BY <1>1, <1>2, SlotKinds
    <2> QED  BY <1>2, <2>1, <2>2, SlotKinds, ReplaceSlot DEF Page
  <1>3. CASE ~IsFull(pg.slots[n])
    BY <1>1, <1>3, SlotKinds DEF UnmarkTuple, SlotChanged
  <1> QED  BY <1>2, <1>3

\* ApplyDelete empties the slot.
LEMMA DropTuplePage ==
    ASSUME NEW pg \in Page, NEW n \in 1 .. Len(pg.slots), IsFull(pg.slots[n])
    PROVE  SlotChanged(pg, DropTuple(pg, n), n, EmptySlot)
  <1>1. pg.slots[n] \in Slot /\ pg.free \in Nat
    BY DEF Page
  <1>2. TupleSize[pg.slots[n].tuple] \in Nat
    BY <1>1, SlotKinds, SpaceAssumption
  <1> QED  BY <1>1, <1>2, SlotKinds, ReplaceSlot DEF DropTuple

\* A new page.
LEMMA EmptyPageIsPage == EmptyPage \in Page /\ Len(EmptyPage.slots) = 0
  BY SpaceAssumption DEF EmptyPage, Page
=============================================================================
