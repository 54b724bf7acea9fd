------------------------ MODULE LinearProbeHashTable ------------------------
(***************************************************************************)
(* container/hash/linear_probe_hash_table.go with its iterator, and the    *)
(* block pages of storage/page/hash_table_block_page.go, as functions of   *)
(* the table's content.                                                    *)
(*                                                                         *)
(* Block b, offset o of the code is position b * BlockArraySize + o here.  *)
(* A slot is free, full, or removed: removed is occupied but not readable, *)
(* and keeps its pair.  The table stores the hash of a key, not the key.   *)
(***************************************************************************)
EXTENDS Naturals, FiniteSetsExt

CONSTANTS
    Keys, Values,
    Hash,               \* Keys -> Nat, the 32 bit hash
    NumBlocks,
    BlockArraySize

ASSUME HashAssumption ==
    /\ Hash \in [Keys -> Nat]
    /\ NumBlocks \in Nat \ {0} /\ BlockArraySize \in Nat \ {0}

Size      == NumBlocks * BlockArraySize
Positions == 0 .. Size - 1
NeverUsed == [kind |-> "free"]

IsOccupied(slot) == slot.kind # "free"
IsReadable(slot) == slot.kind = "full"

EmptyTable == [p \in Positions |-> NeverUsed]

----------------------------------------------------------------------------
(* The probe sequence of a hash.                                           *)

Start(h) == (h % NumBlocks) * BlockArraySize + (h % BlockArraySize)

\* The slot reached by i calls of next(), over the blocks and round again.
Probe(h, i) == (Start(h) + i) % Size

\* Slots GetValue and Remove look at: up to the first one not occupied.
Chain(tbl, h) ==
    LET free == {i \in 0 .. Size - 1 : ~IsOccupied(tbl[Probe(h, i)])}
    IN  {Probe(h, i) : i \in {j \in 0 .. Size - 1 : \A k \in free : j < k}}

GetValue(tbl, h) ==
    {tbl[p].value : p \in {q \in Chain(tbl, h) : IsReadable(tbl[q]) /\ tbl[q].hash = h}}

\* Insert leaves its loop here: an occupied slot with the same value, of
\* whatever key and even if removed, or a free one.
StopsHere(slot, v) == ~IsOccupied(slot) \/ slot.value = v

StopsAt(tbl, h, v) == {i \in 0 .. Size - 1 : StopsHere(tbl[Probe(h, i)], v)}

\* Insert of the block page: the pair and both its bits.
InsertSlot(h, v) == [kind |-> "full", hash |-> h, value |-> v]

\* Insert: an occupied slot where the loop ends is the error "duplicated
\* values on the same key are not allowed"; a full table is no error at all.
InsertInto(tbl, h, v) ==
    LET stops == StopsAt(tbl, h, v)
        place == Probe(h, Min(stops))
    IN  IF stops = {} \/ IsOccupied(tbl[place]) THEN tbl
        ELSE [tbl EXCEPT ![place] = InsertSlot(h, v)]

\* A Remove that frees the slot.
FreeTheSlot(slot) == NeverUsed

\* Remove of the block page: the readable bit only.
RemoveSlot(slot) == [slot EXCEPT !.kind = "removed"]

RemoveFrom(tbl, h, v) ==
    LET found == {p \in Chain(tbl, h) : tbl[p].hash = h /\ tbl[p].value = v}
    IN  [p \in Positions |-> IF p \in found THEN RemoveSlot(tbl[p]) ELSE tbl[p]]
=============================================================================
