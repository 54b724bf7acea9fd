-------------------------- MODULE TableHeapProofs --------------------------
(***************************************************************************)
(* The table heap, proved for any number of transactions, pages and calls: *)
(* the pages form one chain, a scan that ends is complete, and every pin   *)
(* is accounted for.                                                       *)
(***************************************************************************)
EXTENDS TableHeap, LockManagerProofs, TableSlotsProofs, FiniteSetTheorems,
        SequenceTheorems

----------------------------------------------------------------------------
(* The inductive invariant.                                                *)

WriteRecord == [rid : RIDs, wtype : {"INSERT", "DELETE"}]

Labels == {"idle", "insert", "init", "first", "lock", "read", "next", "walk", "astray",
           "commit", "abort", "done"}

HeapTypes ==
    /\ link = [p \in Pages |-> link[p]]
    /\ content \in [Pages -> Page]
    /\ state \in [TxnIDs -> {"GROWING", "COMMITTED", "ABORTED"}]
    /\ write_set \in [TxnIDs -> Seq(WriteRecord)]
    /\ pc \in [TxnIDs -> Labels]
    /\ reg = [t \in TxnIDs |-> reg[t]]
    /\ expected \in [TxnIDs -> SUBSET RIDs]
    /\ seen \in [TxnIDs -> SUBSET RIDs]

\* The pages in use are 1 .. k, each linked to the one behind it: NewPage
\* gives out the least unused id, and only the last page is grown.
ChainTo(k) ==
    \A p \in Pages : /\ p < k => link[p] = p + 1
                     /\ p = k => link[p] \in {NoPage, Raw}
                     /\ p > k => link[p] = Unused

Chained == \E k \in Pages : ChainTo(k)

\* Slots are record ids, and pages before their Init have none.
SlotsOK ==
    \A p \in Pages : /\ \A n \in 1 .. Len(content[p].slots) : <<p, n>> \in RIDs
                     /\ link[p] \in {Unused, Raw} => content[p] = EmptyPage

\* One goroutine at a time is between NewPage and Init.
OneGrower == \A t, u \in TxnIDs : pc[t] = "init" /\ pc[u] = "init" => t = u

\* The local variables of each call at each of its places.
PlaceOK(t) ==
    /\ pc[t] \in {"idle", "commit", "abort", "done"} => reg[t] = NoReg
    /\ pc[t] = "insert" => reg[t] \in [page : Pages, tuple : Tuples]
    /\ pc[t] = "init" => /\ reg[t] \in [page : Pages, tuple : Tuples, new : Pages]
                         /\ reg[t].new # reg[t].page
                         /\ link[reg[t].new] = Raw
    /\ pc[t] = "first" => reg[t] \in [page : Pages]
    /\ pc[t] = "walk" => reg[t] \in [page : Pages, rid : RIDs]
    /\ pc[t] \in {"lock", "read"} =>
          /\ reg[t] \in [page : Pages \union {NoPage}, rid : RIDs]
          /\ link[reg[t].rid[1]] \notin {Unused, Raw}
    /\ pc[t] = "next" => /\ reg[t] \in [page : {NoPage}, rid : RIDs]
                         /\ link[reg[t].rid[1]] \notin {Unused, Raw}
    /\ pc[t] \in {"insert", "first", "walk"} => link[reg[t].page] # Unused

\* A transaction that has released its locks has nothing to apply or to undo.
PhaseOK(t) ==
    /\ t \in released <=> pc[t] = "done"
    /\ pc[t] = "done" => write_set[t] = << >>

Item(t, i) == write_set[t][i]
Items(t)   == 1 .. Len(write_set[t])

\* What a transaction wrote it has locked.  A tuple is written once, or
\* inserted and then deleted; it is there until its own transaction drops it.
WritesOK(t) ==
    /\ \A i \in Items(t) :
          /\ Item(t, i).rid \in exclusive_lock_set[t]
          /\ Item(t, i).rid \in KnownRIDs
          /\ Item(t, i).wtype = "DELETE" =>
                IsFull(SlotAt(Item(t, i).rid)) /\ IsDeleted(SlotAt(Item(t, i).rid))
          /\ pc[t] # "commit" => IsFull(SlotAt(Item(t, i).rid))
    /\ \A i, j \in Items(t) :
          i < j /\ Item(t, i).rid = Item(t, j).rid
              => Item(t, i).wtype = "INSERT" /\ Item(t, j).wtype = "DELETE"

\* A tuple a scan has to return is there, and nobody has written it.
ExpectedOK(r) ==
    /\ r \in KnownRIDs
    /\ ~IsDeleted(SlotAt(r))
    /\ \A u \in TxnIDs : \A i \in Items(u) : Item(u, i).rid # r

\* r comes at or behind q on a scan.
NotBefore(r, q) == r[1] > q[1] \/ (r[1] = q[1] /\ r[2] >= q[2])

\* What a scan has not returned yet is still ahead of it.
ScanOK(t) ==
    \A r \in expected[t] \ seen[t] :
        /\ ~(pc[t] \in {"idle", "insert", "init"} /\ state[t] = "GROWING")
        /\ pc[t] \in {"first", "walk"} => r[1] >= reg[t].page
        /\ pc[t] \in {"lock", "read"} => NotBefore(r, reg[t].rid)
        /\ pc[t] = "next" => NotBefore(r, reg[t].rid) /\ r # reg[t].rid

HeapInv ==
    /\ HeapTypes /\ LockInv /\ Chained /\ SlotsOK /\ OneGrower
    /\ \A t \in TxnIDs : /\ PlaceOK(t) /\ PhaseOK(t) /\ WritesOK(t) /\ ScanOK(t)
                         /\ \A r \in expected[t] : ExpectedOK(r)

\* The pages a goroutine has pinned at its present place.
Pinning(t, p) ==
    IF pc[t] = "init" THEN reg[t].page = p \/ reg[t].new = p
                      ELSE pc[t] # "first" /\ reg[t].page = p

Holders(p) == {t \in TxnIDs : Pinning(t, p)}

PinsMatch ==
    Astray = {} => \A p \in Pages : pins[p] = leaked[p] + Cardinality(Holders(p))

PinsInv == pins \in [Pages -> Nat] /\ leaked \in [Pages -> Nat] /\ PinsMatch

----------------------------------------------------------------------------
(* The chain.                                                              *)

\* The ids of pages are no marks.
LEMMA PageIds ==
    /\ NoPage \notin Pages /\ Unused \notin Pages /\ Raw \notin Pages
    /\ NoPage # Unused /\ NoPage # Raw /\ Unused # Raw
    /\ 1 \in Pages /\ Pages \subseteq Nat \ {0}
  BY HeapAssumption DEF Pages

\* A record id is its page and its slot.
LEMMA RIDPair ==
    \A r \in RIDs : r[1] \in Pages /\ r[2] \in Nat \ {0} /\ r = <<r[1], r[2]>>
  BY HeapAssumption DEF Pages

\* Following a link leads to the next page, and the page without one is the
\* last one in use.
LEMMA ChainLinks ==
    ASSUME Chained
    PROVE  /\ link[1] # Unused
           /\ \A p \in Pages :
              /\ link[p] \notin {NoPage, Raw, Unused} => link[p] \in Pages
              /\ link[p] \in Pages => link[p] = p + 1 /\ link[link[p]] # Unused
              /\ link[p] = NoPage =>
                    \A q \in Pages : link[q] # Raw /\ (link[q] # Unused => q <= p)
              /\ link[p] = Raw => \A q \in Pages : link[q] = Raw => q = p
  <1>1. PICK k \in Pages : ChainTo(k)
    BY DEF Chained
  <1>2. \A p \in Pages : p \in Nat \ {0} /\ (p < k \/ p = k \/ p > k)
    BY PageIds
  <1>3. \A p \in Pages : p < k => p + 1 \in Pages /\ p + 1 <= k
    BY HeapAssumption DEF Pages
  <1>4. \A p \in Pages : /\ link[p] \in Pages <=> p < k
                         /\ link[p] = Unused <=> p > k
                         /\ link[p] = Raw => p = k
                         /\ link[p] = NoPage => p = k
                         /\ p < k => link[p] = p + 1
    BY <1>1, <1>2, <1>3, PageIds DEF ChainTo
  <1>5. link[1] # Unused
    BY <1>2, <1>4, PageIds
  <1>6. ASSUME NEW p \in Pages, link[p] \notin {NoPage, Raw, Unused} PROVE link[p] \in Pages
    BY <1>1, <1>2, <1>4, <1>6 DEF ChainTo
  <1>7. ASSUME NEW p \in Pages, link[p] \in Pages
        PROVE  link[p] = p + 1 /\ link[link[p]] # Unused
    <2>1. p < k /\ link[p] = p + 1 /\ p + 1 \in Pages /\ p + 1 <= k
      BY <1>3, <1>4, <1>7
    <2>2. ~(p + 1 > k)
      BY <1>2, <2>1
    <2> QED  BY <1>4, <2>1, <2>2
  <1>8. ASSUME NEW p \in Pages, link[p] = NoPage, NEW q \in Pages
        PROVE  link[q] # Raw /\ (link[q] # Unused => q <= p)
    BY <1>2, <1>4, <1>8, PageIds
  <1> QED  BY <1>4, <1>5, <1>6, <1>7, <1>8

\* The chain as the property states it.
LEMMA ChainIsChain ==
    ASSUME Chained
    PROVE  HeapIsChain
  <1> SUFFICES ASSUME NEW p \in Pages \ {1}, link[p] # Unused
               PROVE  Cardinality({q \in Pages : link[q] = p}) = 1
    BY DEF HeapIsChain
  <1>1. PICK k \in Pages : ChainTo(k)
    BY DEF Chained
  <1>2. p \in Nat /\ p > 1 /\ k \in Nat /\ ~(p > k)
    BY <1>1, PageIds DEF ChainTo
  <1>3. p - 1 \in Pages /\ p - 1 < k
    BY <1>2, HeapAssumption DEF Pages
  <1>4. link[p - 1] = p
    BY <1>1, <1>2, <1>3 DEF ChainTo
  <1>5. ASSUME NEW q \in Pages, link[q] = p PROVE q = p - 1
    <2>1. link[q] \in Pages
      BY <1>5
    <2>2. link[q] = q + 1 /\ q \in Nat
      BY <2>1, ChainLinks, PageIds
    <2> QED  BY <1>5, <2>2
  <1>6. {q \in Pages : link[q] = p} = {p - 1}
    BY <1>3, <1>4, <1>5
  <1> QED  BY <1>6, FS_Singleton

\* NewPage and SetNextPageId link the least unused page behind p.
Links(p, new) ==
    /\ link[new] = Unused
    /\ \A q \in Pages : link[q] = Unused => new <= q
    /\ link' = [link EXCEPT ![p] = new, ![new] = Raw]

\* That lengthens the chain by one.
LEMMA GrowChain ==
    ASSUME Chained, HeapTypes, NEW p \in Pages, link[p] = NoPage,
           NEW new \in Pages, Links(p, new)
    PROVE  /\ Chained' /\ new # p
           /\ link'[p] = new /\ link'[new] = Raw
           /\ \A q \in Pages : q # p /\ q # new => link'[q] = link[q]
  <1> USE DEF Links
  <1>1. PICK k \in Pages : ChainTo(k)
    BY DEF Chained
  <1>2. p \in Nat /\ k \in Nat /\ new \in Nat /\ \A q \in Pages : q \in Nat
    BY PageIds
  <1>3. p = k /\ new > k
    <2>1. p = k
      <3>1. ASSUME p < k PROVE FALSE
        <4>1. link[p] = p + 1 /\ p + 1 \in Pages
          BY <1>1, <1>2, <3>1, HeapAssumption DEF ChainTo, Pages
        <4> QED  BY <4>1, PageIds
      <3>2. ~(p > k)
        BY <1>1, <1>2, PageIds DEF ChainTo
      <3> QED  BY <1>2, <3>1, <3>2
    <2>2. ~(new = k) /\ ~(new < k)
      <3>1. ~(new = k)
        BY <2>1, PageIds
      <3>2. ASSUME new < k PROVE FALSE
        <4>1. link[new] = new + 1 /\ new + 1 \in Pages
          BY <1>1, <1>2, <3>2, HeapAssumption DEF ChainTo, Pages
        <4> QED  BY <4>1, PageIds
      <3> QED  BY <3>1, <3>2
    <2> QED  BY <1>2, <2>1, <2>2
  <1>4. new = k + 1
    <2>1. k + 1 \in Pages
      BY <1>2, <1>3, HeapAssumption DEF Pages
    <2>2. link[k + 1] = Unused
      BY <1>1, <1>2, <2>1 DEF ChainTo
    <2> QED  BY <1>2, <1>3, <2>1, <2>2
  <1>5. /\ new # p /\ link'[p] = new /\ link'[new] = Raw
        /\ \A q \in Pages : q # p /\ q # new => link'[q] = link[q]
    <2>1. new # p
      BY <1>2, <1>3
    <2> QED  BY <2>1 DEF HeapTypes
  <1>6. ASSUME NEW q \in Pages
        PROVE  /\ q < new => link'[q] = q + 1
               /\ q = new => link'[q] \in {NoPage, Raw}
               /\ q > new => link'[q] = Unused
    <2>1. CASE q < k
      <3>1. link[q] = q + 1
        BY <1>1, <2>1 DEF ChainTo
      <3>2. q # p /\ q # new /\ ~(q > new)
        BY <1>2, <1>3, <1>4, <2>1
      <3> QED  BY <1>5, <3>1, <3>2
    <2>2. CASE q = k
      BY <1>2, <1>3, <1>4, <1>5, <2>2
    <2>3. CASE q = new
      BY <1>2, <1>5, <2>3
    <2>4. CASE q > new
      <3>1. q # p /\ q # new /\ ~(q < new) /\ q > k
        BY <1>2, <1>3, <1>4, <2>4
      <3>2. link[q] = Unused
        BY <1>1, <3>1 DEF ChainTo
      <3> QED  BY <1>5, <3>1, <3>2
    <2>5. q < k \/ q = k \/ q = new \/ q > new
      BY <1>2, <1>4
    <2> QED  BY <2>1, <2>2, <2>3, <2>4, <2>5
  <1> QED  BY <1>5, <1>6 DEF Chained, ChainTo

\* Init makes the new page the last one.
LEMMA InitChain ==
    ASSUME Chained, HeapTypes, NEW new \in Pages, link[new] = Raw,
           link' = [link EXCEPT ![new] = NoPage]
    PROVE  /\ Chained' /\ link'[new] = NoPage
           /\ \A q \in Pages : q # new => link'[q] = link[q]
  <1>1. PICK k \in Pages : ChainTo(k)
    BY DEF Chained
  <1>2. link'[new] = NoPage /\ \A q \in Pages : q # new => link'[q] = link[q]
    BY DEF HeapTypes
  <1>3. new = k
    <2>1. \A q \in Pages : q \in Nat /\ q # Raw
      BY PageIds
    <2>2. ~(new > k)
      BY <1>1, PageIds DEF ChainTo
    <2>3. ASSUME new < k PROVE FALSE
      <3>1. link[new] = new + 1 /\ new + 1 \in Pages
        BY <1>1, <2>1, <2>3, HeapAssumption DEF ChainTo, Pages
      <3> QED  BY <2>1, <3>1
    <2> QED  BY <2>1, <2>2, <2>3
  <1>4. ChainTo(k)'
    BY <1>1, <1>2, <1>3, PageIds DEF ChainTo
  <1> QED  BY <1>2, <1>4 DEF Chained

----------------------------------------------------------------------------
(* What the steps do to the slots.                                         *)

\* The step stores slot at r and leaves all other slots as they are.
Wrote(r, slot) ==
    /\ SlotAt(r)' = slot
    /\ \A q \in RIDs \ {r} : SlotAt(q)' = SlotAt(q)

\* The slots of a page are slots.
LEMMA SlotAtType ==
    ASSUME HeapTypes, NEW r \in RIDs
    PROVE  /\ SlotAt(r) \in Slot
           /\ r \in KnownRIDs =>
                /\ r[1] \in Pages /\ content[r[1]] \in Page
                /\ r[2] \in 1 .. Len(content[r[1]].slots)
                /\ SlotAt(r) = content[r[1]].slots[r[2]]
                /\ link[r[1]] \notin {Unused, Raw}
  <1>1. r[1] \in Pages /\ r[2] \in Nat \ {0} /\ content[r[1]] \in Page
    BY RIDPair DEF HeapTypes
  <1>2. content[r[1]].slots \in Seq(Slot) /\ Len(content[r[1]].slots) \in Nat
    BY <1>1 DEF Page
  <1>3. CASE r[2] <= Len(content[r[1]].slots)
    BY <1>1, <1>2, <1>3 DEF SlotAt, KnownRIDs
  <1>4. CASE ~(r[2] <= Len(content[r[1]].slots))
    BY <1>4, SlotKinds DEF SlotAt, KnownRIDs
  <1> QED  BY <1>3, <1>4

\* A change of the slot of r in its page is a write of r.
LEMMA SlotWritten ==
    ASSUME HeapTypes, SlotsOK, UNCHANGED link, NEW r \in KnownRIDs, NEW pg2, NEW slot,
           SlotChanged(content[r[1]], pg2, r[2], slot),
           content' = [content EXCEPT ![r[1]] = pg2]
    PROVE  /\ content' \in [Pages -> Page] /\ SlotsOK'
           /\ KnownRIDs' = KnownRIDs
           /\ Wrote(r, slot)
  <1>1. r \in RIDs
    BY DEF KnownRIDs
  <1>2. /\ r[1] \in Pages /\ r[2] \in 1 .. Len(content[r[1]].slots)
        /\ content[r[1]] \in Page /\ link[r[1]] \notin {Unused, Raw}
    BY <1>1, SlotAtType
  <1>3. /\ pg2 \in Page /\ Len(pg2.slots) = Len(content[r[1]].slots)
        /\ pg2.slots[r[2]] = slot
        /\ \A m \in 1 .. Len(content[r[1]].slots) :
               m # r[2] => pg2.slots[m] = content[r[1]].slots[m]
    BY DEF SlotChanged
  <1>4. /\ content' \in [Pages -> Page] /\ content'[r[1]] = pg2
        /\ \A p \in Pages : p # r[1] => content'[p] = content[p]
    BY <1>2, <1>3 DEF HeapTypes
  <1>5. \A p \in Pages : Len(content'[p].slots) = Len(content[p].slots)
    BY <1>3, <1>4
  <1>6. KnownRIDs' = KnownRIDs
    BY <1>5, RIDPair DEF KnownRIDs
  <1>7. SlotsOK'
    <2>1. ASSUME NEW p \in Pages, NEW n \in 1 .. Len(content'[p].slots)
          PROVE  <<p, n>> \in RIDs
      BY <1>5, <2>1 DEF SlotsOK
    <2>2. ASSUME NEW p \in Pages, link'[p] \in {Unused, Raw} PROVE content'[p] = EmptyPage
      BY <1>2, <1>4, <2>2 DEF SlotsOK
    <2> QED  BY <2>1, <2>2 DEF SlotsOK
  <1>8. SlotAt(r)' = slot
    BY <1>2, <1>3, <1>4 DEF SlotAt
  <1>9. ASSUME NEW q \in RIDs \ {r} PROVE SlotAt(q)' = SlotAt(q)
    <2>1. q[1] \in Pages /\ q[2] \in Nat \ {0} /\ (q[1] # r[1] \/ q[2] # r[2])
      BY <1>1, RIDPair
    <2>2. Len(content[q[1]].slots) \in Nat
      BY <2>1 DEF HeapTypes, Page
    <2>3. CASE q[1] # r[1]
      BY <1>4, <2>1, <2>3 DEF SlotAt
    <2>4. CASE q[1] = r[1] /\ q[2] <= Len(content[q[1]].slots)
      <3>1. q[2] \in 1 .. Len(content[r[1]].slots) /\ q[2] # r[2]
        BY <2>1, <2>2, <2>4
      <3>2. pg2.slots[q[2]] = content[r[1]].slots[q[2]]
        BY <1>3, <3>1
      <3> QED  BY <1>3, <1>4, <2>4, <3>2 DEF SlotAt
    <2>5. CASE q[1] = r[1] /\ ~(q[2] <= Len(content[q[1]].slots))
      BY <1>3, <1>4, <2>5 DEF SlotAt
    <2> QED  BY <2>3, <2>4, <2>5
  <1> QED  BY <1>4, <1>6, <1>7, <1>8, <1>9 DEF Wrote

\* MarkDelete writes the mark.
LEMMA MarkWrites ==
    ASSUME HeapTypes, SlotsOK, UNCHANGED link, NEW r \in KnownRIDs, ~IsDeleted(SlotAt(r)),
           content' = [content EXCEPT ![r[1]] = MarkTuple(@, r[2])]
    PROVE  /\ content' \in [Pages -> Page] /\ SlotsOK' /\ KnownRIDs' = KnownRIDs
           /\ Wrote(r, MarkedSlot(SlotAt(r).tuple))
  <1>1. /\ r \in RIDs /\ content[r[1]] \in Page
        /\ r[2] \in 1 .. Len(content[r[1]].slots)
        /\ SlotAt(r) = content[r[1]].slots[r[2]]
    BY SlotAtType DEF KnownRIDs
  <1>2. SlotChanged(content[r[1]], MarkTuple(content[r[1]], r[2]), r[2],
                    MarkedSlot(SlotAt(r).tuple))
    BY <1>1, MarkTuplePage
  <1>3. content' = [content EXCEPT ![r[1]] = MarkTuple(content[r[1]], r[2])]
    OBVIOUS
  <1> QED  BY <1>2, <1>3, SlotWritten

\* RollbackDelete writes the tuple without the mark.
LEMMA UnmarkWrites ==
    ASSUME HeapTypes, SlotsOK, UNCHANGED link, NEW r \in KnownRIDs, IsFull(SlotAt(r)),
           content' = [content EXCEPT ![r[1]] = UnmarkTuple(@, r[2])]
    PROVE  /\ content' \in [Pages -> Page] /\ SlotsOK' /\ KnownRIDs' = KnownRIDs
           /\ Wrote(r, LiveSlot(SlotAt(r).tuple))
  <1>1. /\ r \in RIDs /\ content[r[1]] \in Page
        /\ r[2] \in 1 .. Len(content[r[1]].slots)
        /\ SlotAt(r) = content[r[1]].slots[r[2]]
    BY SlotAtType DEF KnownRIDs
  <1>2. SlotChanged(content[r[1]], UnmarkTuple(content[r[1]], r[2]), r[2],
                    LiveSlot(SlotAt(r).tuple))
    BY <1>1, UnmarkTuplePage
  <1>3. content' = [content EXCEPT ![r[1]] = UnmarkTuple(content[r[1]], r[2])]
    OBVIOUS
  <1> QED  BY <1>2, <1>3, SlotWritten

\* ApplyDelete empties the slot of its tuple.
LEMMA DropWrites ==
    ASSUME HeapTypes, SlotsOK, UNCHANGED link, NEW r \in KnownRIDs, IsFull(SlotAt(r)),
           content' = [content EXCEPT ![r[1]] = DropTuple(@, r[2])]
    PROVE  /\ content' \in [Pages -> Page] /\ SlotsOK' /\ KnownRIDs' = KnownRIDs
           /\ Wrote(r, EmptySlot)
  <1>1. /\ r \in RIDs /\ content[r[1]] \in Page
        /\ r[2] \in 1 .. Len(content[r[1]].slots)
        /\ SlotAt(r) = content[r[1]].slots[r[2]]
    BY SlotAtType DEF KnownRIDs
  <1>2. SlotChanged(content[r[1]], DropTuple(content[r[1]], r[2]), r[2], EmptySlot)
    BY <1>1, DropTuplePage
  <1>3. content' = [content EXCEPT ![r[1]] = DropTuple(content[r[1]], r[2])]
    OBVIOUS
  <1> QED  BY <1>2, <1>3, SlotWritten

\* InsertTuple on page p writes a slot that was empty.
LEMMA PutWrites ==
    ASSUME HeapTypes, SlotsOK, UNCHANGED link, NEW p \in Pages, NEW v \in Tuples,
           link[p] \notin {Unused, Raw}, RoomToInsert(content[p], v),
           NEW r \in RIDs, r = <<p, InsertSlot(content[p])>>,
           content' = [content EXCEPT ![p] = PutTuple(@, v)]
    PROVE  /\ content' \in [Pages -> Page] /\ SlotsOK'
           /\ KnownRIDs' = KnownRIDs \union {r}
           /\ SlotAt(r) = EmptySlot
           /\ Wrote(r, LiveSlot(v))
  <1>1. PICK old : old = content[p]
    OBVIOUS
  <1>2. PICK n : n = InsertSlot(old)
    OBVIOUS
  <1>3. PICK new : new = PutTuple(old, v)
    OBVIOUS
  <1>4. r = <<p, n>> /\ r[1] = p /\ r[2] = n /\ old \in Page /\ Len(old.slots) \in Nat
    <2>1. r = <<p, n>>
      BY <1>1, <1>2
    <2>2. old \in Page
      BY <1>1 DEF HeapTypes
    <2> QED  BY <2>1, <2>2 DEF Page
  <1>5. n \in 1 .. Len(old.slots) + 1 /\ (n <= Len(old.slots) => old.slots[n] = EmptySlot)
    BY <1>2, <1>4, InsertSlotIsFree
  <1>6. /\ new \in Page
        /\ Len(new.slots) = IF n <= Len(old.slots) THEN Len(old.slots) ELSE Len(old.slots) + 1
        /\ new.slots[n] = LiveSlot(v)
        /\ \A m \in 1 .. Len(old.slots) : m # n => new.slots[m] = old.slots[m]
    BY <1>1, <1>2, <1>3, <1>4, PutTuplePage
  <1>7. /\ content' \in [Pages -> Page] /\ content'[p] = new
        /\ \A k \in Pages : k # p => content'[k] = content[k]
    <2>1. content' = [content EXCEPT ![p] = new]
      BY <1>1, <1>3
    <2> QED  BY <1>6, <2>1 DEF HeapTypes
  <1>8. SlotAt(r) = EmptySlot
    BY <1>1, <1>4, <1>5 DEF SlotAt
  <1>9. SlotAt(r)' = LiveSlot(v)
    BY <1>4, <1>5, <1>6, <1>7 DEF SlotAt
  <1>10. ASSUME NEW q \in RIDs \ {r}
         PROVE  SlotAt(q)' = SlotAt(q) /\ (q \in KnownRIDs' <=> q \in KnownRIDs)
    <2>1. q[1] \in Pages /\ q[2] \in Nat \ {0} /\ (q[1] # p \/ q[2] # n)
      BY <1>4, RIDPair
    <2>2. CASE q[1] # p
      BY <1>7, <2>1, <2>2 DEF SlotAt, KnownRIDs
    <2>3. CASE q[1] = p
      <3>1. q[2] <= Len(new.slots) <=> q[2] <= Len(old.slots)
        BY <1>4, <1>5, <1>6, <2>1, <2>3
      <3>2. q[2] <= Len(old.slots) => new.slots[q[2]] = old.slots[q[2]]
        BY <1>4, <1>6, <2>1, <2>3
      <3> QED  BY <1>1, <1>7, <2>3, <3>1, <3>2 DEF SlotAt, KnownRIDs
    <2> QED  BY <2>2, <2>3
  <1>11. r \in KnownRIDs'
    BY <1>4, <1>5, <1>6, <1>7 DEF KnownRIDs
  <1>12. KnownRIDs' = KnownRIDs \union {r}
    BY <1>10, <1>11 DEF KnownRIDs
  <1>13. SlotsOK'
    <2>1. ASSUME NEW k \in Pages, NEW m \in 1 .. Len(content'[k].slots)
          PROVE  <<k, m>> \in RIDs
      <3>1. CASE k # p
        BY <1>7, <2>1, <3>1 DEF SlotsOK
      <3>2. CASE k = p /\ m = n
        BY <1>4, <3>2
      <3>3. CASE k = p /\ m # n
        <4>1. m \in 1 .. Len(content[p].slots)
          BY <1>1, <1>4, <1>5, <1>6, <1>7, <2>1, <3>3
        <4> QED  BY <3>3, <4>1 DEF SlotsOK
      <3> QED  BY <3>1, <3>2, <3>3
    <2>2. ASSUME NEW k \in Pages, link'[k] \in {Unused, Raw} PROVE content'[k] = EmptyPage
      BY <1>7, <2>2 DEF SlotsOK
    <2> QED  BY <2>1, <2>2 DEF SlotsOK
  <1> QED  BY <1>7, <1>8, <1>9, <1>10, <1>12, <1>13 DEF Wrote

----------------------------------------------------------------------------
(* What a step of t leaves to the others.                                  *)

\* The other goroutines' own variables.
Alone(t) ==
    \A u \in TxnIDs \ {t} :
        /\ pc'[u] = pc[u] /\ reg'[u] = reg[u] /\ state'[u] = state[u]
        /\ write_set'[u] = write_set[u] /\ seen'[u] = seen[u]
        /\ expected'[u] \subseteq expected[u]

\* The others' locks, and those that t has got.
LocksOf(t) ==
    /\ [LockNext]_lockVars
    /\ \A u \in TxnIDs \ {t} : /\ exclusive_lock_set'[u] = exclusive_lock_set[u]
                               /\ u \in released' <=> u \in released

\* Pages are not taken out of use, and a page is initialised by whom it has
\* been allocated by; a tuple is changed by whom it is locked by.
PagesOf(t) ==
    /\ \A p \in Pages :
          /\ link[p] # Unused => link'[p] # Unused
          /\ link[p] \notin {Unused, Raw} => link'[p] \notin {Unused, Raw}
          /\ link[p] = Raw => link'[p] = Raw \/ pc[t] = "init"
    /\ KnownRIDs \subseteq KnownRIDs'
    /\ \A q \in RIDs :
          SlotAt(q)' # SlotAt(q) => q \in exclusive_lock_set'[t] /\ t \notin released'

\* What is to be shown of a step of t.
Keeps(t) ==
    /\ HeapTypes' /\ Chained' /\ SlotsOK' /\ OneGrower'
    /\ Alone(t) /\ LocksOf(t) /\ PagesOf(t)
    /\ PlaceOK(t)' /\ PhaseOK(t)' /\ WritesOK(t)' /\ ScanOK(t)'
    /\ \A u \in TxnIDs : \A r \in expected'[u] : ExpectedOK(r)'

\* A step of t preserves what the invariant says of the other transactions.
LEMMA OthersUndisturbed ==
    ASSUME HeapInv, HeapTypes', LockInv', NEW t \in TxnIDs,
           Alone(t), LocksOf(t), PagesOf(t), NEW u \in TxnIDs \ {t}
    PROVE  PlaceOK(u)' /\ PhaseOK(u)' /\ WritesOK(u)' /\ ScanOK(u)'
  <1>1. /\ pc'[u] = pc[u] /\ reg'[u] = reg[u] /\ state'[u] = state[u]
        /\ write_set'[u] = write_set[u] /\ seen'[u] = seen[u]
        /\ expected'[u] \subseteq expected[u]
        /\ exclusive_lock_set'[u] = exclusive_lock_set[u]
        /\ u \in released' <=> u \in released
    BY DEF Alone, LocksOf
  <1>2. PlaceOK(u) /\ PhaseOK(u) /\ WritesOK(u) /\ ScanOK(u)
    BY DEF HeapInv
  <1>3. PhaseOK(u)'
    BY <1>1, <1>2 DEF PhaseOK
  <1>4. ScanOK(u)'
    BY <1>1, <1>2 DEF ScanOK
  <1>5. PlaceOK(u)'
    <2>1. ASSUME NEW p \in Pages
          PROVE  /\ link[p] # Unused => link'[p] # Unused
                 /\ link[p] \notin {Unused, Raw} => link'[p] \notin {Unused, Raw}
      BY DEF PagesOf
    <2>2. pc[u] = "init" => link'[reg[u].new] = Raw
      <3> SUFFICES ASSUME pc[u] = "init" PROVE link'[reg[u].new] = Raw
        OBVIOUS
      <3>1. reg[u].new \in Pages /\ link[reg[u].new] = Raw
        BY <1>2 DEF PlaceOK
      <3>2. pc[t] # "init"
        BY DEF HeapInv, OneGrower
      <3> QED  BY <3>1, <3>2 DEF PagesOf
    <2>3. pc[u] \in {"insert", "first", "walk"} => link'[reg[u].page] # Unused
      <3> SUFFICES ASSUME pc[u] \in {"insert", "first", "walk"}
                   PROVE  link'[reg[u].page] # Unused
        OBVIOUS
      <3>1. reg[u].page \in Pages /\ link[reg[u].page] # Unused
        BY <1>2 DEF PlaceOK
      <3> QED  BY <2>1, <3>1
    <2>4. pc[u] \in {"lock", "read", "next"} => link'[reg[u].rid[1]] \notin {Unused, Raw}
      <3> SUFFICES ASSUME pc[u] \in {"lock", "read", "next"}
                   PROVE  link'[reg[u].rid[1]] \notin {Unused, Raw}
        OBVIOUS
      <3>1. reg[u].rid \in RIDs /\ link[reg[u].rid[1]] \notin {Unused, Raw}
        BY <1>2 DEF PlaceOK
      <3> QED  BY <2>1, <3>1, RIDPair
    <2> QED  BY <1>1, <1>2, <2>2, <2>3, <2>4 DEF PlaceOK
  <1>6. WritesOK(u)'
    <2>1. CASE u \in released
      <3>1. write_set'[u] = << >> /\ Len(<< >>) = 0
        BY <1>1, <1>2, <2>1 DEF PhaseOK
      <3> QED  BY <3>1 DEF WritesOK, Items
    <2>2. CASE u \notin released
      <3>1. exclusive_lock_set[u] \subseteq RIDs
        BY DEF HeapInv, LockInv, LockTypeOK
      <3>2. ASSUME NEW q \in exclusive_lock_set[u] PROVE SlotAt(q)' = SlotAt(q)
        <4> SUFFICES ASSUME SlotAt(q)' # SlotAt(q) PROVE FALSE
          OBVIOUS
        <4>1. q \in RIDs /\ q \in exclusive_lock_set'[t] /\ t \notin released'
          BY <3>1, <3>2 DEF PagesOf
        <4>2. exclusive_lock_table'[q] = t /\ exclusive_lock_table'[q] = u
          BY <1>1, <2>2, <3>2, <4>1 DEF LockInv, LockSetsMatchTables
        <4> QED  BY <4>2
      <3>3. /\ Items(u)' = Items(u) /\ \A i \in Items(u) : Item(u, i)' = Item(u, i)
            /\ KnownRIDs \subseteq KnownRIDs'
        BY <1>1 DEF Items, Item, PagesOf
      <3> QED  BY <1>1, <1>2, <3>2, <3>3 DEF WritesOK
    <2> QED  BY <2>1, <2>2
  <1> QED  BY <1>3, <1>4, <1>5, <1>6

\* So Keeps is enough: the lock manager keeps its own invariant.
LEMMA KeepsInv ==
    ASSUME HeapInv, NEW t \in TxnIDs, Keeps(t)
    PROVE  HeapInv'
  <1>1. LockInv'
    BY LockNextInv DEF HeapInv, Keeps, LocksOf
  <1>2. \A u \in TxnIDs \ {t} : PlaceOK(u)' /\ PhaseOK(u)' /\ WritesOK(u)' /\ ScanOK(u)'
    BY <1>1, OthersUndisturbed DEF Keeps
  <1> QED  BY <1>1, <1>2 DEF HeapInv, Keeps

\* The step keeps its hands off the tuples the scans have to return.
Spares(t) ==
    \A u \in TxnIDs : \A r \in expected'[u] :
        /\ r \in expected[u]
        /\ SlotAt(r)' = SlotAt(r)
        /\ \A i \in Items(t)' : Item(t, i)'.rid # r

\* Then they stay as they are.
LEMMA SparesExpected ==
    ASSUME HeapInv, NEW t \in TxnIDs, Alone(t), PagesOf(t), Spares(t)
    PROVE  \A u \in TxnIDs : \A r \in expected'[u] : ExpectedOK(r)'
  <1> SUFFICES ASSUME NEW u \in TxnIDs, NEW r \in expected'[u] PROVE ExpectedOK(r)'
    OBVIOUS
  <1>1. /\ r \in expected[u] /\ SlotAt(r)' = SlotAt(r)
        /\ \A i \in Items(t)' : Item(t, i)'.rid # r
    BY DEF Spares
  <1>2. ExpectedOK(r)
    BY <1>1 DEF HeapInv
  <1>3. r \in KnownRIDs' /\ ~IsDeleted(SlotAt(r)')
    BY <1>1, <1>2 DEF ExpectedOK, PagesOf
  <1>4. ASSUME NEW w \in TxnIDs, NEW i \in Items(w)' PROVE Item(w, i)'.rid # r
    <2>1. CASE w = t
      BY <1>1, <1>4, <2>1
    <2>2. CASE w # t
      <3>1. write_set'[w] = write_set[w]
        BY <2>2 DEF Alone
      <3> QED  BY <1>2, <1>4, <3>1 DEF ExpectedOK, Items, Item
    <2> QED  BY <2>1, <2>2
  <1> QED  BY <1>3, <1>4 DEF ExpectedOK

\* A step that changes no page, no write set and no exclusive lock.
LEMMA QuietStep ==
    ASSUME HeapInv, NEW t \in TxnIDs, UNCHANGED <<link, content, write_set>>,
           [LockNext]_lockVars, released' = released,
           exclusive_lock_set' = exclusive_lock_set,
           Alone(t), pc[t] = "commit" => pc'[t] = "commit", pc'[t] # "init"
    PROVE  /\ Chained' /\ SlotsOK' /\ OneGrower' /\ WritesOK(t)'
           /\ LocksOf(t) /\ PagesOf(t)
           /\ KnownRIDs' = KnownRIDs /\ \A q : SlotAt(q)' = SlotAt(q)
           /\ expected'[t] \subseteq expected[t] =>
                \A u \in TxnIDs : \A r \in expected'[u] : ExpectedOK(r)'
  <1>1. KnownRIDs' = KnownRIDs /\ \A q : SlotAt(q)' = SlotAt(q)
    BY DEF KnownRIDs, SlotAt
  <1>2. Chained' /\ SlotsOK'
    BY DEF HeapInv, Chained, ChainTo, SlotsOK
  <1>3. OneGrower'
    BY DEF HeapInv, OneGrower, Alone
  <1>4. LocksOf(t) /\ PagesOf(t)
    BY <1>1 DEF LocksOf, PagesOf
  <1>5. \A u \in TxnIDs : Items(u)' = Items(u) /\ \A i : Item(u, i)' = Item(u, i)
    BY DEF Items, Item
  <1>6. WritesOK(t)'
    BY <1>1, <1>5 DEF HeapInv, WritesOK
  <1>7. ASSUME expected'[t] \subseteq expected[t] PROVE Spares(t)
    <2> SUFFICES ASSUME NEW u \in TxnIDs, NEW r \in expected'[u]
                 PROVE  /\ r \in expected[u] /\ SlotAt(r)' = SlotAt(r)
                        /\ \A i \in Items(t)' : Item(t, i)'.rid # r
      BY DEF Spares
    <2>1. r \in expected[u]
      BY <1>7 DEF Alone
    <2>2. ExpectedOK(r)
      BY <2>1 DEF HeapInv
    <2> QED  BY <1>1, <1>5, <2>1, <2>2 DEF ExpectedOK
  <1> QED  BY <1>1, <1>2, <1>3, <1>4, <1>6, <1>7, SparesExpected

----------------------------------------------------------------------------
(* The steps, one by one.                                                  *)

\* A goroutine goes to another place.
LEMMA GoToPlace ==
    ASSUME HeapTypes, NEW t \in TxnIDs, NEW label \in Labels, NEW locals,
           GoTo(t, label, locals)
    PROVE  /\ pc'[t] = label /\ reg'[t] = locals
           /\ \A u \in TxnIDs \ {t} : pc'[u] = pc[u] /\ reg'[u] = reg[u]
           /\ pc' \in [TxnIDs -> Labels] /\ reg' = [u \in TxnIDs |-> reg'[u]]
  BY DEF GoTo, HeapTypes

\* Going to another place without touching pages, locks and tuples.
LEMMA QuietKeeps ==
    ASSUME HeapInv, NEW t \in TxnIDs, UNCHANGED <<lockVars, link, content, write_set>>,
           Alone(t), expected'[t] \subseteq expected[t], HeapTypes',
           pc[t] \notin {"commit", "done"}, pc'[t] \notin {"init", "done"},
           PlaceOK(t)', ScanOK(t)'
    PROVE  Keeps(t)
  <1>1. [LockNext]_lockVars /\ released' = released /\ exclusive_lock_set' = exclusive_lock_set
    BY DEF lockVars
  <1>2. PhaseOK(t)'
    BY <1>1 DEF HeapInv, PhaseOK
  <1> QED  BY <1>1, <1>2, QuietStep DEF Keeps

\* InsertTuple begins.
LEMMA InsertTupleKeeps ==
    ASSUME HeapInv, NEW t \in TxnIDs, NEW v \in Tuples, InsertTuple(t, v)
    PROVE  Keeps(t)
  <1> USE DEF InsertTuple, ClientCall
  <1>1. /\ pc'[t] = "insert" /\ reg'[t] = [page |-> 1, tuple |-> v]
        /\ \A u \in TxnIDs \ {t} : pc'[u] = pc[u] /\ reg'[u] = reg[u]
        /\ pc' \in [TxnIDs -> Labels] /\ reg' = [u \in TxnIDs |-> reg'[u]]
    BY GoToPlace DEF HeapInv, Labels
  <1>2. HeapTypes'
    BY <1>1 DEF HeapInv, HeapTypes, scanVars
  <1>3. Alone(t) /\ expected'[t] \subseteq expected[t]
    BY <1>1 DEF Alone, scanVars
  <1>4. link[1] # Unused /\ 1 \in Pages
    BY ChainLinks, PageIds DEF HeapInv
  <1>5. PlaceOK(t)'
    BY <1>1, <1>4 DEF PlaceOK
  <1>6. ScanOK(t)'
    BY <1>1 DEF HeapInv, ScanOK, scanVars
  <1> QED  BY <1>1, <1>2, <1>3, <1>5, <1>6, QuietKeeps

\* InsertTuple goes to the next page.
LEMMA InsertNextPageKeeps ==
    ASSUME HeapInv, NEW t \in TxnIDs, InsertNextPage(t)
    PROVE  Keeps(t)
  <1> USE DEF InsertNextPage
  <1>1. reg[t] \in [page : Pages, tuple : Tuples]
    BY DEF HeapInv, PlaceOK
  <1>2. /\ reg'[t] = [page |-> link[reg[t].page], tuple |-> reg[t].tuple]
        /\ reg' = [u \in TxnIDs |-> reg'[u]]
        /\ \A u \in TxnIDs \ {t} : reg'[u] = reg[u]
    BY <1>1 DEF HeapInv, HeapTypes
  <1>3. HeapTypes'
    BY <1>2 DEF HeapInv, HeapTypes, scanVars
  <1>4. Alone(t) /\ expected'[t] \subseteq expected[t]
    BY <1>2 DEF Alone, scanVars
  <1>5. link[reg[t].page] \in Pages /\ link[link[reg[t].page]] # Unused
    BY <1>1, ChainLinks DEF HeapInv
  <1>6. PlaceOK(t)'
    BY <1>1, <1>2, <1>5 DEF PlaceOK
  <1>7. ScanOK(t)'
    BY <1>2 DEF HeapInv, ScanOK, scanVars
  <1> QED  BY <1>3, <1>4, <1>6, <1>7, QuietKeeps

\* A goroutine meets a page before its Init.
LEMMA AstrayKeeps ==
    ASSUME HeapInv, NEW t \in TxnIDs, pc[t] \in {"insert", "first", "walk"}, GoAstray(t)
    PROVE  Keeps(t)
  <1> USE DEF GoAstray
  <1>1. /\ pc'[t] = "astray" /\ pc' \in [TxnIDs -> Labels]
        /\ \A u \in TxnIDs \ {t} : pc'[u] = pc[u]
    BY DEF HeapInv, HeapTypes, Labels
  <1>2. HeapTypes'
    BY <1>1 DEF HeapInv, HeapTypes, scanVars, pageVars
  <1>3. Alone(t) /\ expected'[t] \subseteq expected[t]
    BY <1>1 DEF Alone, scanVars
  <1>4. PlaceOK(t)' /\ ScanOK(t)'
    BY <1>1 DEF PlaceOK, ScanOK
  <1> QED  BY <1>1, <1>2, <1>3, <1>4, QuietKeeps DEF pageVars

\* Commit and Abort begin.
LEMMA EndStartKeeps ==
    ASSUME HeapInv, NEW t \in TxnIDs, EndStart(t)
    PROVE  Keeps(t)
  <1> USE DEF EndStart, Abandon
  <1>1. /\ pc'[t] \in {"commit", "abort"} /\ pc' \in [TxnIDs -> Labels]
        /\ \A u \in TxnIDs \ {t} : pc'[u] = pc[u] /\ state'[u] = state[u]
    BY DEF HeapInv, HeapTypes, Labels
  <1>2. HeapTypes'
    BY <1>1 DEF HeapInv, HeapTypes, scanVars, pageVars
  <1>3. Alone(t) /\ expected'[t] \subseteq expected[t]
    BY <1>1 DEF Alone, scanVars
  <1>4. PlaceOK(t)' /\ ScanOK(t)'
    BY <1>1 DEF HeapInv, PlaceOK, ScanOK
  <1> QED  BY <1>1, <1>2, <1>3, <1>4, QuietKeeps DEF pageVars

\* GetFirstTuple and GetNextTupleRID find the first tuple at or behind a slot.
LEMMA FirstFull ==
    ASSUME HeapTypes, SlotsOK, NEW p \in Pages, NEW n \in Nat \ {0}, FullFrom(p, n) # {}
    PROVE  /\ <<p, First(FullFrom(p, n))>> \in RIDs
           /\ \A m \in FullFrom(p, n) : First(FullFrom(p, n)) <= m
           /\ First(FullFrom(p, n)) >= n
  <1>1. FullFrom(p, n) \in SUBSET Nat
    BY DEF FullFrom
  <1>2. \E m \in FullFrom(p, n) : \A k \in FullFrom(p, n) : m <= k
    BY <1>1, LeastElement
  <1>3. First(FullFrom(p, n)) \in FullFrom(p, n)
        /\ \A m \in FullFrom(p, n) : First(FullFrom(p, n)) <= m
    BY <1>2 DEF First
  <1>4. Len(content[p].slots) \in Nat
    BY DEF HeapTypes, Page
  <1>5. First(FullFrom(p, n)) \in n .. Len(content[p].slots)
    BY <1>3 DEF FullFrom
  <1> QED  BY <1>3, <1>4, <1>5 DEF SlotsOK

\* A tuple that a scan has to return on its page is among those it looks at.
LEMMA ExpectedIsFull ==
    ASSUME HeapInv, NEW t \in TxnIDs, NEW r \in expected[t], NEW n \in Nat \ {0}, r[2] >= n
    PROVE  /\ r \in RIDs /\ link[r[1]] \notin {Unused, Raw}
           /\ r[2] \in FullFrom(r[1], n)
  <1>1. ExpectedOK(r) /\ r \in RIDs
    BY DEF HeapInv, ExpectedOK, KnownRIDs
  <1>2. /\ r[1] \in Pages /\ r[2] \in 1 .. Len(content[r[1]].slots)
        /\ SlotAt(r) = content[r[1]].slots[r[2]]
        /\ link[r[1]] \notin {Unused, Raw} /\ SlotAt(r) \in Slot
        /\ Len(content[r[1]].slots) \in Nat
    BY <1>1, SlotAtType DEF ExpectedOK, HeapInv, Page
  <1>3. IsFull(SlotAt(r))
    BY <1>1, <1>2, SlotKinds DEF ExpectedOK
  <1> QED  BY <1>1, <1>2, <1>3 DEF FullFrom

\* What is left of a scan when it has looked at page p from slot n on.
LEMMA ScanPage ==
    ASSUME HeapInv, NEW t \in TxnIDs, NEW p \in Pages, link[p] \notin {Unused, Raw},
           NEW n \in Nat \ {0},
           \A r \in expected[t] \ seen[t] : r[1] > p \/ (r[1] = p /\ r[2] >= n)
    PROVE  /\ FullFrom(p, n) # {} =>
                /\ <<p, First(FullFrom(p, n))>> \in RIDs
                /\ \A r \in expected[t] \ seen[t] : NotBefore(r, <<p, First(FullFrom(p, n))>>)
           /\ FullFrom(p, n) = {} /\ link[p] # NoPage =>
                /\ link[p] \in Pages /\ link[link[p]] # Unused
                /\ \A r \in expected[t] \ seen[t] : r[1] >= link[p]
           /\ FullFrom(p, n) = {} /\ link[p] = NoPage => expected[t] \ seen[t] = {}
  <1>1. HeapTypes /\ SlotsOK /\ Chained
    BY DEF HeapInv
  <1>2. \A r \in expected[t] \ seen[t] : r \in expected[t] /\ r \in RIDs /\ r[1] \in Pages
    BY <1>1, RIDPair DEF HeapTypes
  <1>3. CASE FullFrom(p, n) # {}
    <2>1. PICK f : f = First(FullFrom(p, n))
      OBVIOUS
    <2>2. <<p, f>> \in RIDs /\ \A m \in FullFrom(p, n) : f <= m
      BY <1>1, <1>3, <2>1, FirstFull
    <2>3. ASSUME NEW r \in expected[t] \ seen[t] PROVE NotBefore(r, <<p, f>>)
      <3>1. CASE r[1] > p
        BY <3>1 DEF NotBefore
      <3>2. CASE r[1] = p /\ r[2] >= n
        <4>1. r[2] \in FullFrom(p, n)
          BY <1>2, <3>2, ExpectedIsFull
        <4>2. f <= r[2] /\ f \in Nat /\ r[2] \in Nat
          BY <1>2, <2>2, <4>1, RIDPair
        <4> QED  BY <3>2, <4>2 DEF NotBefore
      <3> QED  BY <3>1, <3>2
    <2> QED  BY <1>3, <2>1, <2>2, <2>3
  <1>4. CASE FullFrom(p, n) = {}
    <2>1. ASSUME NEW r \in expected[t] \ seen[t]
          PROVE  r[1] > p /\ link[r[1]] # Unused /\ r[1] \in Pages
      <3>1. ~(r[1] = p /\ r[2] >= n)
        BY <1>2, <1>4, ExpectedIsFull
      <3>2. ExpectedOK(r)
        BY <1>2 DEF HeapInv
      <3> QED  BY <1>2, <3>1, <3>2 DEF ExpectedOK, KnownRIDs
    <2>2. CASE link[p] # NoPage
      <3>1. link[p] \in Pages /\ link[p] = p + 1 /\ link[link[p]] # Unused
        BY <1>1, <2>2, ChainLinks
      <3>2. \A q \in Pages : q \in Nat
        BY PageIds
      <3>3. \A r \in expected[t] \ seen[t] : r[1] >= link[p]
        BY <2>1, <3>1, <3>2
      <3> QED  BY <1>4, <2>2, <3>1, <3>3
    <2>3. CASE link[p] = NoPage
      <3>1. \A q \in Pages : q \in Nat /\ (link[q] # Unused => q <= p)
        BY <1>1, <2>3, ChainLinks, PageIds
      <3>2. expected[t] \ seen[t] = {}
        BY <2>1, <3>1
      <3> QED  BY <1>4, <2>3, <3>2
    <2> QED  BY <2>2, <2>3
  <1> QED  BY <1>3, <1>4

\* A step of a scan that goes to another place and does nothing else.
LEMMA MoveKeeps ==
    ASSUME HeapInv, NEW t \in TxnIDs, pc[t] \in {"first", "next", "walk"},
           NEW label \in {"lock", "first", "walk", "idle"}, NEW locals, GoTo(t, label, locals),
           UNCHANGED <<lockVars, link, content, write_set, expected, seen, state>>,
           pc'[t] = label /\ reg'[t] = locals => PlaceOK(t)' /\ ScanOK(t)'
    PROVE  Keeps(t)
  <1>1. HeapTypes /\ label \in Labels
    BY DEF HeapInv, Labels
  <1>2. /\ pc'[t] = label /\ reg'[t] = locals
        /\ \A u \in TxnIDs \ {t} : pc'[u] = pc[u] /\ reg'[u] = reg[u]
        /\ pc' \in [TxnIDs -> Labels] /\ reg' = [u \in TxnIDs |-> reg'[u]]
    BY <1>1, GoToPlace
  <1>3. HeapTypes'
    BY <1>2 DEF HeapInv, HeapTypes
  <1>4. Alone(t) /\ expected'[t] \subseteq expected[t]
    BY <1>2 DEF Alone
  <1>5. PlaceOK(t)' /\ ScanOK(t)'
    BY <1>2
  <1> QED  BY <1>2, <1>3, <1>4, <1>5, QuietKeeps

\* GetFirstTuple looks at one page.
LEMMA GetFirstTupleKeeps ==
    ASSUME HeapInv, NEW t \in TxnIDs, GetFirstTuple(t)
    PROVE  Keeps(t)
  <1>1. PICK p : p = reg[t].page
    OBVIOUS
  <1>2. p \in Pages /\ link[p] \notin {Unused, Raw}
    BY <1>1 DEF GetFirstTuple, HeapInv, PlaceOK
  <1>3. \A r \in expected[t] \ seen[t] : r[1] > p \/ (r[1] = p /\ r[2] >= 1)
    <2>1. \A r \in expected[t] \ seen[t] : r[1] \in Nat /\ r[2] \in Nat \ {0} /\ p \in Nat
      BY <1>2, RIDPair, PageIds DEF HeapInv, HeapTypes
    <2>2. \A r \in expected[t] \ seen[t] : r[1] >= p
      BY <1>1 DEF GetFirstTuple, HeapInv, ScanOK
    <2> QED  BY <2>1, <2>2
  <1>4. UNCHANGED <<lockVars, link, content, write_set, expected, seen, state>>
    BY DEF GetFirstTuple, pageVars, scanVars
  <1>5. pc[t] = "first" /\ 1 \in Nat \ {0}
    BY DEF GetFirstTuple
  <1>6. CASE FullFrom(p, 1) # {}
    <2>1. PICK q : q = <<p, First(FullFrom(p, 1))>>
      OBVIOUS
    <2>2. GoTo(t, "lock", [page |-> NoPage, rid |-> q])
      BY <1>1, <1>6, <2>1 DEF GetFirstTuple
    <2>3. q \in RIDs /\ q[1] = p /\ \A r \in expected[t] \ seen[t] : NotBefore(r, q)
      BY <1>2, <1>3, <1>5, <1>6, <2>1, ScanPage
    <2>4. ASSUME pc'[t] = "lock", reg'[t] = [page |-> NoPage, rid |-> q]
          PROVE  PlaceOK(t)' /\ ScanOK(t)'
      BY <1>2, <1>4, <2>3, <2>4 DEF PlaceOK, ScanOK
    <2> QED  BY <1>4, <1>5, <2>2, <2>4, MoveKeeps
  <1>7. CASE FullFrom(p, 1) = {} /\ link[p] # NoPage
    <2>1. GoTo(t, "first", [page |-> link[p]])
      BY <1>1, <1>7 DEF GetFirstTuple
    <2>2. /\ link[p] \in Pages /\ link[link[p]] # Unused
          /\ \A r \in expected[t] \ seen[t] : r[1] >= link[p]
      BY <1>2, <1>3, <1>5, <1>7, ScanPage
    <2>3. ASSUME pc'[t] = "first", reg'[t] = [page |-> link[p]]
          PROVE  PlaceOK(t)' /\ ScanOK(t)'
      BY <1>4, <2>2, <2>3 DEF PlaceOK, ScanOK
    <2> QED  BY <1>4, <1>5, <2>1, <2>3, MoveKeeps
  <1>8. CASE FullFrom(p, 1) = {} /\ link[p] = NoPage
    <2>1. GoTo(t, "idle", NoReg)
      BY <1>1, <1>8 DEF GetFirstTuple, ScanOver
    <2>2. expected[t] \ seen[t] = {}
      BY <1>2, <1>3, <1>5, <1>8, ScanPage
    <2>3. ASSUME pc'[t] = "idle", reg'[t] = NoReg
          PROVE  PlaceOK(t)' /\ ScanOK(t)'
      BY <1>4, <2>2, <2>3 DEF PlaceOK, ScanOK
    <2> QED  BY <1>4, <1>5, <2>1, <2>3, MoveKeeps
  <1> QED  BY <1>6, <1>7, <1>8

\* Next goes on behind the current tuple, or on a page further on.
LEMMA Next1Keeps ==
    ASSUME HeapInv, NEW t \in TxnIDs, NEW p, NEW fetched, Next1(t, p, fetched),
           \/ pc[t] = "next" /\ p = reg[t].rid[1]
           \/ pc[t] = "walk" /\ p = reg[t].page
    PROVE  Keeps(t)
  <1>1. PICK n : n = StartSlot(t)
    OBVIOUS
  <1>2. p \in Pages /\ link[p] \notin {Unused, Raw} /\ reg[t].rid \in RIDs
    <2>1. CASE pc[t] = "next" /\ p = reg[t].rid[1]
      BY <2>1, RIDPair DEF HeapInv, PlaceOK
    <2>2. CASE pc[t] = "walk" /\ p = reg[t].page
      BY <2>2 DEF HeapInv, PlaceOK, Next1
    <2> QED  BY <2>1, <2>2
  <1>3. n \in Nat \ {0}
    BY <1>1, <1>2, RIDPair DEF StartSlot
  <1>4. ASSUME NEW r \in expected[t] \ seen[t]
        PROVE  r[1] > p \/ (r[1] = p /\ r[2] >= n)
    <2>1. /\ r \in RIDs /\ r[1] \in Nat /\ r[2] \in Nat \ {0} /\ p \in Nat
          /\ r = <<r[1], r[2]>>
      BY <1>2, RIDPair, PageIds DEF HeapInv, HeapTypes
    <2>2. CASE pc[t] = "next" /\ p = reg[t].rid[1]
      <3>1. NotBefore(r, reg[t].rid) /\ r # reg[t].rid /\ n = reg[t].rid[2] + 1
        BY <1>1, <2>2 DEF HeapInv, ScanOK, StartSlot
      <3>2. reg[t].rid = <<p, reg[t].rid[2]>> /\ reg[t].rid[2] \in Nat
        BY <1>2, <2>2, RIDPair
      <3> QED  BY <2>1, <2>2, <3>1, <3>2 DEF NotBefore
    <2>3. CASE pc[t] = "walk" /\ p = reg[t].page
      BY <1>1, <2>1, <2>3 DEF HeapInv, ScanOK, StartSlot
    <2> QED  BY <2>2, <2>3
  <1>5. UNCHANGED <<lockVars, link, content, write_set, expected, seen, state>>
    BY DEF Next1, scanVars
  <1>6. pc[t] \in {"first", "next", "walk"}
    OBVIOUS
  <1>7. CASE FullFrom(p, n) # {}
    <2>1. PICK q : q = <<p, First(FullFrom(p, n))>>
      OBVIOUS
    <2>2. GoTo(t, "lock", [page |-> p, rid |-> q])
      BY <1>1, <1>7, <2>1 DEF Next1
    <2>3. q \in RIDs /\ q[1] = p /\ \A r \in expected[t] \ seen[t] : NotBefore(r, q)
      BY <1>2, <1>3, <1>4, <1>7, <2>1, ScanPage
    <2>4. ASSUME pc'[t] = "lock", reg'[t] = [page |-> p, rid |-> q]
          PROVE  PlaceOK(t)' /\ ScanOK(t)'
      BY <1>2, <1>5, <2>3, <2>4 DEF PlaceOK, ScanOK
    <2> QED  BY <1>5, <1>6, <2>2, <2>4, MoveKeeps
  <1>8. CASE FullFrom(p, n) = {} /\ link[p] # NoPage
    <2>1. GoTo(t, "walk", [page |-> link[p], rid |-> reg[t].rid])
      BY <1>1, <1>8 DEF Next1
    <2>2. /\ link[p] \in Pages /\ link[link[p]] # Unused
          /\ \A r \in expected[t] \ seen[t] : r[1] >= link[p]
      BY <1>2, <1>3, <1>4, <1>8, ScanPage
    <2>3. ASSUME pc'[t] = "walk", reg'[t] = [page |-> link[p], rid |-> reg[t].rid]
          PROVE  PlaceOK(t)' /\ ScanOK(t)'
      BY <1>2, <1>5, <2>2, <2>3 DEF PlaceOK, ScanOK
    <2> QED  BY <1>5, <1>6, <2>1, <2>3, MoveKeeps
  <1>9. CASE FullFrom(p, n) = {} /\ link[p] = NoPage
    <2>1. GoTo(t, "idle", NoReg)
      BY <1>1, <1>9 DEF Next1, ScanOver
    <2>2. expected[t] \ seen[t] = {}
      BY <1>2, <1>3, <1>4, <1>9, ScanPage
    <2>3. ASSUME pc'[t] = "idle", reg'[t] = NoReg
          PROVE  PlaceOK(t)' /\ ScanOK(t)'
      BY <1>5, <2>2, <2>3 DEF PlaceOK, ScanOK
    <2> QED  BY <1>5, <1>6, <2>1, <2>3, MoveKeeps
  <1> QED  BY <1>7, <1>8, <1>9

\* GetTuple returns the tuple, or finds it deleted and aborts.
LEMMA ScanReadKeeps ==
    ASSUME HeapInv, NEW t \in TxnIDs, ScanRead(t)
    PROVE  Keeps(t)
  <1>1. PICK r : r = reg[t].rid
    OBVIOUS
  <1>2. /\ reg[t].rid \in RIDs /\ r \in RIDs /\ link[r[1]] \notin {Unused, Raw}
        /\ pc[t] = "read" /\ HeapTypes
    BY <1>1 DEF ScanRead, HeapInv, PlaceOK
  <1>3. UNCHANGED <<lockVars, link, content, write_set, expected>>
    BY DEF ScanRead
  <1>4. CASE IsDeleted(SlotAt(r))
    <2>1. GoTo(t, "idle", NoReg) /\ Abandon(t) /\ UNCHANGED seen
      BY <1>1, <1>4 DEF ScanRead, ScanOver
    <2>2. /\ pc'[t] = "idle" /\ reg'[t] = NoReg
          /\ \A u \in TxnIDs \ {t} : pc'[u] = pc[u] /\ reg'[u] = reg[u]
          /\ pc' \in [TxnIDs -> Labels] /\ reg' = [u \in TxnIDs |-> reg'[u]]
      BY <1>2, <2>1, GoToPlace DEF Labels
    <2>3. /\ state' \in [TxnIDs -> {"GROWING", "COMMITTED", "ABORTED"}] /\ state'[t] = "ABORTED"
          /\ \A u \in TxnIDs \ {t} : state'[u] = state[u]
      BY <1>2, <2>1 DEF Abandon, HeapTypes
    <2>4. HeapTypes'
      BY <1>2, <1>3, <2>1, <2>2, <2>3 DEF HeapTypes
    <2>5. Alone(t) /\ expected'[t] \subseteq expected[t]
      BY <1>3, <2>1, <2>2, <2>3 DEF Alone
    <2>6. PlaceOK(t)' /\ ScanOK(t)'
      BY <2>2, <2>3 DEF PlaceOK, ScanOK
    <2> QED  BY <1>2, <1>3, <2>2, <2>4, <2>5, <2>6, QuietKeeps
  <1>5. CASE ~IsDeleted(SlotAt(r))
    <2>1. /\ GoTo(t, "next", [page |-> NoPage, rid |-> r]) /\ UNCHANGED state
          /\ seen' = [seen EXCEPT ![t] = @ \union {r}]
      BY <1>1, <1>5 DEF ScanRead
    <2>2. /\ pc'[t] = "next" /\ reg'[t] = [page |-> NoPage, rid |-> r]
          /\ \A u \in TxnIDs \ {t} : pc'[u] = pc[u] /\ reg'[u] = reg[u]
          /\ pc' \in [TxnIDs -> Labels] /\ reg' = [u \in TxnIDs |-> reg'[u]]
      BY <1>2, <2>1, GoToPlace DEF Labels
    <2>3. /\ seen' \in [TxnIDs -> SUBSET RIDs] /\ seen'[t] = seen[t] \union {r}
          /\ \A u \in TxnIDs \ {t} : seen'[u] = seen[u]
      BY <1>2, <2>1 DEF HeapTypes
    <2>4. HeapTypes'
      BY <1>2, <1>3, <2>1, <2>2, <2>3 DEF HeapTypes
    <2>5. Alone(t) /\ expected'[t] \subseteq expected[t]
      BY <1>3, <2>1, <2>2, <2>3 DEF Alone
    <2>6. PlaceOK(t)'
      BY <1>2, <1>3, <2>2 DEF PlaceOK
    <2>7. ScanOK(t)'
      <3>1. \A q \in expected[t] \ seen[t] : NotBefore(q, r)
        BY <1>1, <1>2 DEF HeapInv, ScanOK
      <3> QED  BY <1>3, <2>2, <2>3, <3>1 DEF ScanOK, NotBefore
    <2> QED  BY <1>2, <1>3, <2>2, <2>4, <2>5, <2>6, <2>7, QuietKeeps
  <1> QED  BY <1>4, <1>5

\* What is committed when a scan begins has been written by nobody who is
\* still there.
LEMMA CommittedIsExpected ==
    ASSUME HeapInv, NEW r \in Committed
    PROVE  ExpectedOK(r)
  <1>1. /\ r \in KnownRIDs /\ r \in RIDs /\ ~IsDeleted(SlotAt(r))
        /\ exclusive_lock_table[r] = NoTxn
    BY DEF Committed, KnownRIDs
  <1>2. ASSUME NEW u \in TxnIDs, NEW i \in Items(u) PROVE Item(u, i).rid # r
    <2>1. u \notin released
      BY <1>2 DEF HeapInv, PhaseOK, Items
    <2>2. ASSUME Item(u, i).rid = r PROVE FALSE
      <3>1. r \in exclusive_lock_set[u]
        BY <1>2, <2>2 DEF HeapInv, WritesOK
      <3>2. exclusive_lock_table[r] = u
        BY <1>1, <2>1, <3>1 DEF HeapInv, LockInv, LockSetsMatchTables
      <3> QED  BY <1>1, <3>2, NoTxnAssumption
    <2> QED  BY <2>2
  <1> QED  BY <1>1, <1>2 DEF ExpectedOK

\* A scan begins.
LEMMA ScanKeeps ==
    ASSUME HeapInv, NEW t \in TxnIDs, Scan(t)
    PROVE  Keeps(t)
  <1> USE DEF Scan, ClientCall
  <1>1. /\ pc'[t] = "first" /\ reg'[t] = [page |-> 1]
        /\ \A u \in TxnIDs \ {t} : pc'[u] = pc[u] /\ reg'[u] = reg[u]
        /\ pc' \in [TxnIDs -> Labels] /\ reg' = [u \in TxnIDs |-> reg'[u]]
    BY GoToPlace DEF HeapInv, Labels
  <1>2. UNCHANGED <<lockVars, link, content, write_set, state>>
    BY DEF pageVars
  <1>3. Committed \in SUBSET RIDs
    BY DEF Committed, KnownRIDs
  <1>4. /\ expected' \in [TxnIDs -> SUBSET RIDs] /\ seen' \in [TxnIDs -> SUBSET RIDs]
        /\ expected'[t] = Committed /\ seen'[t] = {}
        /\ \A u \in TxnIDs \ {t} : expected'[u] = expected[u] /\ seen'[u] = seen[u]
    BY <1>3 DEF HeapInv, HeapTypes
  <1>5. HeapTypes'
    BY <1>1, <1>2, <1>4 DEF HeapInv, HeapTypes
  <1>6. Alone(t)
    BY <1>1, <1>2, <1>4 DEF Alone
  <1>7. /\ [LockNext]_lockVars /\ released' = released
        /\ exclusive_lock_set' = exclusive_lock_set
    BY DEF lockVars
  <1>8. /\ Chained' /\ SlotsOK' /\ OneGrower' /\ WritesOK(t)' /\ LocksOf(t) /\ PagesOf(t)
        /\ KnownRIDs' = KnownRIDs /\ \A q : SlotAt(q)' = SlotAt(q)
    BY <1>1, <1>2, <1>6, <1>7, QuietStep
  <1>9. PlaceOK(t)' /\ PhaseOK(t)'
    <2>1. link[1] # Unused /\ 1 \in Pages
      BY ChainLinks, PageIds DEF HeapInv
    <2>2. PlaceOK(t)'
      BY <1>1, <1>2, <2>1 DEF PlaceOK
    <2>3. PhaseOK(t)'
      BY <1>1, <1>7 DEF HeapInv, PhaseOK
    <2> QED  BY <2>2, <2>3
  <1>10. ScanOK(t)'
    <2>1. \A r \in Committed : r[1] \in Nat /\ r[1] >= 1
      BY <1>3, RIDPair, PageIds
    <2> QED  BY <1>1, <1>4, <2>1 DEF ScanOK
  <1>11. ASSUME NEW u \in TxnIDs, NEW r \in expected'[u] PROVE ExpectedOK(r)'
    <2>1. ExpectedOK(r)
      <3>1. CASE u = t
        BY <1>4, <1>11, <3>1, CommittedIsExpected
      <3>2. CASE u # t
        BY <1>4, <1>11, <3>2 DEF HeapInv
      <3> QED  BY <3>1, <3>2
    <2> QED  BY <1>2, <1>8, <2>1 DEF ExpectedOK, Items, Item
  <1> QED  BY <1>5, <1>6, <1>8, <1>9, <1>10, <1>11 DEF Keeps

\* GetTuple asks for the shared lock.
LEMMA ScanLockKeeps ==
    ASSUME HeapInv, NEW t \in TxnIDs, ScanLock(t)
    PROVE  Keeps(t)
  <1>1. PICK r : r = reg[t].rid
    OBVIOUS
  <1>2. /\ r \in RIDs /\ link[r[1]] \notin {Unused, Raw}
        /\ pc[t] = "lock" /\ HeapTypes /\ t \notin released
        /\ reg[t] \in [page : Pages \union {NoPage}, rid : RIDs]
    BY <1>1 DEF ScanLock, HeapInv, PlaceOK, PhaseOK
  <1>3. PICK granted \in BOOLEAN :
           /\ IF IsSharedLocked(t, r) \/ IsExclusiveLocked(t, r)
                THEN granted = TRUE /\ UNCHANGED lockVars
                ELSE LockShared(t, r, granted)
           /\ IF granted
                THEN GoTo(t, "read", reg[t]) /\ UNCHANGED <<state, pins>>
                ELSE Abandon(t) /\ ScanOver(t) /\ pins' = GiveBack(t)
    BY <1>1 DEF ScanLock
  <1>4. UNCHANGED <<link, content, write_set, expected, seen>>
    BY DEF ScanLock, scanVars
  <1>5. /\ [LockNext]_lockVars /\ released' = released
        /\ exclusive_lock_set' = exclusive_lock_set
    <2>1. CASE UNCHANGED lockVars
      BY <2>1 DEF lockVars
    <2>2. CASE LockShared(t, r, granted)
      <3>1. LockNext
        BY <1>2, <2>2 DEF LockNext
      <3> QED  BY <2>2, <3>1 DEF LockShared
    <2> QED  BY <1>3, <2>1, <2>2
  <1>6. /\ \A u \in TxnIDs \ {t} : pc'[u] = pc[u] /\ reg'[u] = reg[u] /\ state'[u] = state[u]
        /\ pc' \in [TxnIDs -> Labels] /\ reg' = [u \in TxnIDs |-> reg'[u]]
        /\ state' \in [TxnIDs -> {"GROWING", "COMMITTED", "ABORTED"}]
        /\ \/ pc'[t] = "read" /\ reg'[t] = reg[t]
           \/ pc'[t] = "idle" /\ reg'[t] = NoReg /\ state'[t] = "ABORTED"
    <2>1. CASE granted
      <3>1. GoTo(t, "read", reg[t]) /\ UNCHANGED state /\ "read" \in Labels
        BY <1>3, <2>1 DEF Labels
      <3> QED  BY <1>2, <3>1, GoToPlace DEF HeapTypes
    <2>2. CASE ~granted
      <3>1. GoTo(t, "idle", NoReg) /\ Abandon(t) /\ "idle" \in Labels
        BY <1>3, <2>2 DEF ScanOver, Labels
      <3>2. /\ pc'[t] = "idle" /\ reg'[t] = NoReg
            /\ \A u \in TxnIDs \ {t} : pc'[u] = pc[u] /\ reg'[u] = reg[u]
            /\ pc' \in [TxnIDs -> Labels] /\ reg' = [u \in TxnIDs |-> reg'[u]]
        BY <1>2, <3>1, GoToPlace
      <3>3. /\ state' \in [TxnIDs -> {"GROWING", "COMMITTED", "ABORTED"}]
            /\ state'[t] = "ABORTED" /\ \A u \in TxnIDs \ {t} : state'[u] = state[u]
        BY <1>2, <3>1 DEF Abandon, HeapTypes
      <3> QED  BY <3>2, <3>3
    <2> QED  BY <2>1, <2>2
  <1>7. HeapTypes'
    BY <1>2, <1>4, <1>6 DEF HeapTypes
  <1>8. Alone(t)
    BY <1>4, <1>6 DEF Alone
  <1>9. /\ Chained' /\ SlotsOK' /\ OneGrower' /\ WritesOK(t)' /\ LocksOf(t) /\ PagesOf(t)
        /\ \A u \in TxnIDs : \A q \in expected'[u] : ExpectedOK(q)'
    BY <1>2, <1>4, <1>5, <1>6, <1>8, QuietStep
  <1>10. PhaseOK(t)'
    BY <1>2, <1>5, <1>6 DEF PhaseOK
  <1>11. PlaceOK(t)'
    BY <1>1, <1>2, <1>4, <1>6 DEF PlaceOK
  <1>12. ScanOK(t)'
    BY <1>2, <1>4, <1>6 DEF HeapInv, ScanOK
  <1> QED  BY <1>7, <1>8, <1>9, <1>10, <1>11, <1>12 DEF Keeps

\* A step that changes links and no slots.
LEMMA LinkStep ==
    ASSUME HeapInv, NEW t \in TxnIDs,
           UNCHANGED <<lockVars, content, write_set, expected>>, Alone(t),
           pc[t] \in {"insert", "init"},
           \A p \in Pages : /\ link[p] # Unused => link'[p] # Unused
                            /\ link[p] \notin {Unused, Raw} => link'[p] \notin {Unused, Raw}
                            /\ link[p] = Raw => link'[p] = Raw \/ pc[t] = "init"
    PROVE  /\ LocksOf(t) /\ PagesOf(t) /\ WritesOK(t)'
           /\ \A u \in TxnIDs : \A r \in expected'[u] : ExpectedOK(r)'
  <1>1. \A q : SlotAt(q)' = SlotAt(q)
    BY DEF SlotAt
  <1>2. KnownRIDs \subseteq KnownRIDs'
    BY RIDPair DEF KnownRIDs
  <1>3. LocksOf(t) /\ PagesOf(t)
    BY <1>1, <1>2 DEF LocksOf, PagesOf, lockVars
  <1>4. \A u \in TxnIDs : Items(u)' = Items(u) /\ \A i : Item(u, i)' = Item(u, i)
    BY DEF Items, Item
  <1>5. exclusive_lock_set' = exclusive_lock_set /\ WritesOK(t)
    BY DEF lockVars, HeapInv
  <1>6. WritesOK(t)'
    BY <1>1, <1>2, <1>4, <1>5 DEF WritesOK
  <1>7. Spares(t)
    <2> SUFFICES ASSUME NEW u \in TxnIDs, NEW r \in expected[u]
                 PROVE  \A i \in Items(t) : Item(t, i).rid # r
      BY <1>1, <1>4 DEF Spares
    <2> QED  BY DEF HeapInv, ExpectedOK
  <1> QED  BY <1>3, <1>6, <1>7, SparesExpected

\* InsertTuple links a new page behind the last one.
LEMMA InsertGrowKeeps ==
    ASSUME HeapInv, NEW t \in TxnIDs, InsertGrow(t)
    PROVE  Keeps(t)
  <1>1. PICK p : p = reg[t].page
    OBVIOUS
  <1>2. PICK new \in Pages :
           /\ link[new] = Unused
           /\ \A q \in Pages : link[q] = Unused => new <= q
           /\ link' = [link EXCEPT ![p] = new, ![new] = Raw]
           /\ pins' = Fetched(pins, new)
           /\ GoTo(t, "init", [page |-> p, tuple |-> reg[t].tuple, new |-> new])
    BY <1>1 DEF InsertGrow, NewLastPage
  <1>3. /\ pc[t] = "insert" /\ link[p] = NoPage /\ p \in Pages /\ reg[t].tuple \in Tuples
        /\ HeapTypes /\ Chained /\ SlotsOK
    BY <1>1 DEF InsertGrow, HeapInv, PlaceOK
  <1>4. UNCHANGED <<lockVars, content, write_set, expected, seen, state>>
    BY DEF InsertGrow, scanVars
  <1>5. /\ Chained' /\ new # p /\ link'[p] = new /\ link'[new] = Raw
        /\ \A q \in Pages : q # p /\ q # new => link'[q] = link[q]
    <2>1. Links(p, new)
      BY <1>2 DEF Links
    <2> QED  BY <1>3, <2>1, GrowChain
  <1>6. /\ pc'[t] = "init"
        /\ reg'[t] = [page |-> p, tuple |-> reg[t].tuple, new |-> new]
        /\ \A u \in TxnIDs \ {t} : pc'[u] = pc[u] /\ reg'[u] = reg[u]
        /\ pc' \in [TxnIDs -> Labels] /\ reg' = [u \in TxnIDs |-> reg'[u]]
    BY <1>2, <1>3, GoToPlace DEF Labels
  <1>7. link' = [q \in Pages |-> link'[q]]
    BY <1>2, <1>3 DEF HeapTypes
  <1>8. HeapTypes'
    BY <1>3, <1>4, <1>6, <1>7 DEF HeapTypes
  <1>9. Alone(t)
    BY <1>4, <1>6 DEF Alone
  <1>10. /\ LocksOf(t) /\ PagesOf(t) /\ WritesOK(t)'
         /\ \A u \in TxnIDs : \A r \in expected'[u] : ExpectedOK(r)'
    <2>1. \A q \in Pages : /\ link[q] # Unused => link'[q] # Unused
                           /\ link[q] \notin {Unused, Raw} => link'[q] \notin {Unused, Raw}
                           /\ link[q] = Raw => link'[q] = Raw \/ pc[t] = "init"
      BY <1>2, <1>3, <1>5, PageIds
    <2> QED  BY <1>3, <1>4, <1>9, <2>1, LinkStep
  <1>11. SlotsOK'
    <2>1. ASSUME NEW q \in Pages, link'[q] \in {Unused, Raw} PROVE content[q] = EmptyPage
      <3>1. link[q] \in {Unused, Raw}
        BY <1>2, <1>5, <2>1, PageIds
      <3> QED  BY <1>3, <3>1 DEF SlotsOK
    <2> QED  BY <1>3, <1>4, <2>1 DEF SlotsOK
  <1>12. OneGrower'
    <2>1. ASSUME NEW u \in TxnIDs \ {t} PROVE pc'[u] # "init"
      <3>1. ASSUME pc[u] = "init" PROVE FALSE
        <4>1. reg[u].new \in Pages /\ link[reg[u].new] = Raw
          BY <3>1 DEF HeapInv, PlaceOK
        <4> QED  BY <1>3, <4>1, ChainLinks
      <3> QED  BY <1>6, <3>1
    <2> QED  BY <2>1 DEF OneGrower
  <1>13. PlaceOK(t)'
    BY <1>3, <1>5, <1>6 DEF PlaceOK
  <1>14. PhaseOK(t)'
    BY <1>3, <1>4, <1>6 DEF HeapInv, PhaseOK, lockVars
  <1>15. ScanOK(t)'
    BY <1>3, <1>4, <1>6 DEF HeapInv, ScanOK
  <1> QED  BY <1>5, <1>8, <1>9, <1>10, <1>11, <1>12, <1>13, <1>14, <1>15 DEF Keeps

\* InsertTuple initialises the page it has linked.
LEMMA InsertInitKeeps ==
    ASSUME HeapInv, NEW t \in TxnIDs, InsertInit(t)
    PROVE  Keeps(t)
  <1>1. PICK new : new = reg[t].new
    OBVIOUS
  <1>2. /\ pc[t] = "init" /\ new \in Pages /\ link[new] = Raw /\ reg[t].tuple \in Tuples
        /\ HeapTypes /\ Chained /\ SlotsOK
    BY <1>1 DEF InsertInit, HeapInv, PlaceOK
  <1>3. /\ link' = [link EXCEPT ![new] = NoPage]
        /\ GoTo(t, "insert", [page |-> new, tuple |-> reg[t].tuple])
        /\ content' = [content EXCEPT ![new] = EmptyPage]
    BY <1>1 DEF InsertInit
  <1>4. content' = content
    <2>1. content[new] = EmptyPage
      BY <1>2 DEF SlotsOK
    <2> QED  BY <1>2, <1>3, <2>1 DEF HeapTypes
  <1>5. UNCHANGED <<lockVars, content, write_set, expected, seen, state>>
    BY <1>4 DEF InsertInit, scanVars
  <1>6. Chained' /\ link'[new] = NoPage /\ \A q \in Pages : q # new => link'[q] = link[q]
    BY <1>2, <1>3, InitChain
  <1>7. /\ pc'[t] = "insert" /\ reg'[t] = [page |-> new, tuple |-> reg[t].tuple]
        /\ \A u \in TxnIDs \ {t} : pc'[u] = pc[u] /\ reg'[u] = reg[u]
        /\ pc' \in [TxnIDs -> Labels] /\ reg' = [u \in TxnIDs |-> reg'[u]]
    BY <1>2, <1>3, GoToPlace DEF Labels
  <1>8. link' = [q \in Pages |-> link'[q]]
    BY <1>2, <1>3 DEF HeapTypes
  <1>9. HeapTypes'
    BY <1>2, <1>5, <1>7, <1>8 DEF HeapTypes
  <1>10. Alone(t)
    BY <1>5, <1>7 DEF Alone
  <1>11. /\ LocksOf(t) /\ PagesOf(t) /\ WritesOK(t)'
         /\ \A u \in TxnIDs : \A r \in expected'[u] : ExpectedOK(r)'
    <2>1. \A q \in Pages : /\ link[q] # Unused => link'[q] # Unused
                           /\ link[q] \notin {Unused, Raw} => link'[q] \notin {Unused, Raw}
                           /\ link[q] = Raw => link'[q] = Raw \/ pc[t] = "init"
      BY <1>2, <1>6, PageIds
    <2> QED  BY <1>2, <1>5, <1>10, <2>1, LinkStep
  <1>12. SlotsOK'
    BY <1>2, <1>5, <1>6, PageIds DEF SlotsOK
  <1>13. OneGrower'
    BY <1>7 DEF HeapInv, OneGrower
  <1>14. PlaceOK(t)'
    BY <1>2, <1>6, <1>7, PageIds DEF PlaceOK
  <1>15. PhaseOK(t)'
    BY <1>2, <1>5, <1>7 DEF HeapInv, PhaseOK, lockVars
  <1>16. ScanOK(t)'
    BY <1>2, <1>5, <1>7 DEF HeapInv, ScanOK
  <1> QED  BY <1>6, <1>9, <1>10, <1>11, <1>12, <1>13, <1>14, <1>15, <1>16 DEF Keeps

\* LockForWrite of MarkDelete has the effect of a request for an exclusive lock.
LEMMA LockForWriteEffect ==
    ASSUME LockInv, NEW t \in TxnIDs, t \notin released, NEW r \in RIDs,
           NEW granted \in BOOLEAN, LockForWrite(t, r, granted)
    PROVE  LockEffect(t, r, granted)
  <1>1. CASE IsSharedLocked(t, r) /\ LockUpgrade(t, r, granted)
    <2>1. LockNext
      BY <1>1 DEF LockNext
    <2>2. exclusive_lock_table[r] # t
      BY <1>1 DEF LockInv, LockSetsMatchTables, IsSharedLocked
    <2> QED  BY <1>1, <2>1, <2>2, NoTxnAssumption
             DEF LockEffect, LockUpgrade, HeldByOther, PutExclusive, setVars,
                 LockInv, LockTypeOK
  <1>2. CASE IsExclusiveLocked(t, r) /\ granted = TRUE /\ UNCHANGED lockVars
    BY <1>2 DEF LockEffect, IsExclusiveLocked, lockVars
  <1>3. CASE LockExclusive(t, r, granted)
    BY <1>3, LockExclusiveEffect
  <1> QED  BY <1>1, <1>2, <1>3 DEF LockForWrite

\* A write of a tuple that t has locked and no scan has to return.
LEMMA WriteStep ==
    ASSUME HeapInv, NEW t \in TxnIDs, UNCHANGED link, Alone(t), LocksOf(t),
           expected'[t] \subseteq expected[t],
           NEW r \in RIDs, NEW slot, Wrote(r, slot), KnownRIDs \subseteq KnownRIDs',
           r \in exclusive_lock_set'[t], t \notin released',
           \A u \in TxnIDs : r \notin expected'[u],
           \A i \in Items(t)' : Item(t, i)'.rid = r
                \/ \E j \in Items(t) : Item(t, j).rid = Item(t, i)'.rid
    PROVE  /\ Chained' /\ PagesOf(t)
           /\ \A u \in TxnIDs : \A q \in expected'[u] : ExpectedOK(q)'
  <1>1. Chained'
    BY DEF HeapInv, Chained, ChainTo
  <1>2. PagesOf(t)
    BY DEF PagesOf, Wrote
  <1>3. Spares(t)
    <2> SUFFICES ASSUME NEW u \in TxnIDs, NEW q \in expected'[u]
                 PROVE  /\ q \in expected[u]
                        /\ SlotAt(q)' = SlotAt(q)
                        /\ \A i \in Items(t)' : Item(t, i)'.rid # q
      BY DEF Spares
    <2>1. q \in expected[u] /\ q # r
      BY DEF Alone
    <2>2. q \in RIDs /\ ExpectedOK(q)
      BY <2>1 DEF HeapInv, HeapTypes
    <2>3. SlotAt(q)' = SlotAt(q)
      BY <2>1, <2>2 DEF Wrote
    <2>4. ASSUME NEW i \in Items(t)' PROVE Item(t, i)'.rid # q
      BY <2>1, <2>2, <2>4 DEF ExpectedOK
    <2> QED  BY <2>1, <2>3, <2>4
  <1> QED  BY <1>1, <1>2, <1>3, SparesExpected

\* The write set of t grows by a record.
Recorded(t, item) ==
    /\ \A u \in TxnIDs \ {t} : write_set'[u] = write_set[u]
    /\ write_set' \in [TxnIDs -> Seq(WriteRecord)]
    /\ Items(t)' = Items(t) \union {Len(write_set[t]) + 1}
    /\ \A i \in Items(t) : Item(t, i)' = Item(t, i) /\ i < Len(write_set[t]) + 1
    /\ write_set'[t][Len(write_set[t]) + 1] = item

\* AddIntoWriteSet does that.
LEMMA AddIntoWriteSet ==
    ASSUME HeapTypes, NEW t \in TxnIDs, NEW item \in WriteRecord,
           write_set' = [write_set EXCEPT ![t] = Append(@, item)]
    PROVE  Recorded(t, item)
  <1>1. write_set[t] \in Seq(WriteRecord) /\ Len(write_set[t]) \in Nat
    BY DEF HeapTypes
  <1>2. /\ write_set'[t] = Append(write_set[t], item)
        /\ write_set' \in [TxnIDs -> Seq(WriteRecord)]
        /\ \A u \in TxnIDs \ {t} : write_set'[u] = write_set[u]
    BY <1>1 DEF HeapTypes
  <1>3. /\ Len(write_set'[t]) = Len(write_set[t]) + 1
        /\ \A i \in 1 .. Len(write_set[t]) : write_set'[t][i] = write_set[t][i]
        /\ write_set'[t][Len(write_set[t]) + 1] = item
    BY <1>1, <1>2
  <1>4. 1 .. Len(write_set[t]) + 1 = (1 .. Len(write_set[t])) \union {Len(write_set[t]) + 1}
    BY <1>1
  <1>5. \A i \in 1 .. Len(write_set[t]) : i < Len(write_set[t]) + 1
    BY <1>1
  <1> QED  BY <1>2, <1>3, <1>4, <1>5 DEF Recorded, Items, Item

\* InsertTuple puts the tuple into the page, or cannot lock its slot.
LEMMA InsertHereKeeps ==
    ASSUME HeapInv, NEW t \in TxnIDs, InsertHere(t)
    PROVE  Keeps(t)
  <1>1. PICK p : p = reg[t].page
    OBVIOUS
  <1>2. PICK r : r = <<p, InsertSlot(content[p])>>
    OBVIOUS
  <1>3. PICK v : v = reg[t].tuple
    OBVIOUS
  <1>4. PICK granted \in BOOLEAN :
           /\ LockExclusive(t, r, granted)
           /\ IF granted
                THEN /\ content' = [content EXCEPT ![p] = PutTuple(@, v)]
                     /\ write_set' = [write_set EXCEPT ![t] =
                                        Append(@, [rid |-> r, wtype |-> "INSERT"])]
                     /\ UNCHANGED state
                ELSE /\ Abandon(t)
                     /\ UNCHANGED <<content, write_set>>
    BY <1>1, <1>2, <1>3 DEF InsertHere
  <1>5. /\ pc[t] = "insert" /\ p \in Pages /\ v \in Tuples /\ link[p] \notin {Unused, Raw}
        /\ RoomToInsert(content[p], v) /\ r \in RIDs /\ t \notin released
        /\ HeapTypes /\ LockInv /\ SlotsOK
    BY <1>1, <1>2, <1>3 DEF InsertHere, HasRoom, HeapInv, PlaceOK, PhaseOK
  <1>6. UNCHANGED <<link, expected, seen>> /\ GoTo(t, "idle", NoReg)
    BY DEF InsertHere, scanVars
  <1>7. /\ pc'[t] = "idle" /\ reg'[t] = NoReg
        /\ \A u \in TxnIDs \ {t} : pc'[u] = pc[u] /\ reg'[u] = reg[u]
        /\ pc' \in [TxnIDs -> Labels] /\ reg' = [u \in TxnIDs |-> reg'[u]]
    BY <1>5, <1>6, GoToPlace DEF Labels
  <1>8. LockEffect(t, r, granted)
    BY <1>4, <1>5, LockExclusiveEffect
  <1>9. released' = released
    BY <1>8 DEF LockEffect
  <1>10. OneGrower' /\ PlaceOK(t)' /\ PhaseOK(t)'
    <2>1. OneGrower'
      BY <1>7 DEF HeapInv, OneGrower
    <2>2. PlaceOK(t)'
      BY <1>7 DEF PlaceOK
    <2>3. PhaseOK(t)'
      BY <1>5, <1>7, <1>9 DEF PhaseOK
    <2> QED  BY <2>1, <2>2, <2>3
  <1>11. CASE granted
    <2>1. PICK item : item = [rid |-> r, wtype |-> "INSERT"]
      OBVIOUS
    <2>2. Recorded(t, item) /\ item.rid = r /\ item.wtype = "INSERT"
      <3>1. item \in WriteRecord /\ item.rid = r /\ item.wtype = "INSERT"
        BY <1>5, <2>1 DEF WriteRecord
      <3>2. write_set' = [write_set EXCEPT ![t] = Append(@, item)]
        BY <1>4, <1>11, <2>1
      <3> QED  BY <1>5, <3>1, <3>2, AddIntoWriteSet
    <2>3. /\ content' \in [Pages -> Page] /\ SlotsOK'
          /\ KnownRIDs' = KnownRIDs \union {r}
          /\ SlotAt(r) = EmptySlot
          /\ Wrote(r, LiveSlot(v))
      BY <1>2, <1>4, <1>5, <1>6, <1>11, PutWrites
    <2>4. UNCHANGED state
      BY <1>4, <1>11
    <2>5. HeapTypes'
      BY <1>5, <1>6, <1>7, <2>2, <2>3, <2>4 DEF HeapTypes, Recorded
    <2>6. Alone(t) /\ expected'[t] \subseteq expected[t]
      BY <1>6, <1>7, <2>2, <2>4 DEF Alone, Recorded
    <2>7. LocksOf(t) /\ exclusive_lock_set'[t] = exclusive_lock_set[t] \union {r}
      BY <1>8, <1>11 DEF LockEffect, LocksOf
    <2>8. \A u \in TxnIDs : r \notin expected'[u]
      <3>1. IsDeleted(SlotAt(r))
        BY <2>3, SlotKinds
      <3> QED  BY <1>6, <3>1 DEF HeapInv, ExpectedOK
    <2>9. /\ Chained' /\ PagesOf(t)
          /\ \A u \in TxnIDs : \A q \in expected'[u] : ExpectedOK(q)'
      <3>1. \A i \in Items(t)' : Item(t, i)'.rid = r
                \/ \E j \in Items(t) : Item(t, j).rid = Item(t, i)'.rid
        BY <2>2 DEF Recorded, Item
      <3> QED  BY <1>5, <1>6, <1>9, <2>3, <2>6, <2>7, <2>8, <3>1, WriteStep
    <2>10. WritesOK(t)'
      <3>1. ASSUME NEW i \in Items(t)
            PROVE  /\ Item(t, i)' = Item(t, i) /\ Item(t, i).rid # r /\ Item(t, i).rid \in RIDs
                   /\ SlotAt(Item(t, i).rid)' = SlotAt(Item(t, i).rid)
                   /\ IsFull(SlotAt(Item(t, i).rid))
        <4>1. IsFull(SlotAt(Item(t, i).rid)) /\ Item(t, i).rid \in RIDs
          BY <1>5, <3>1 DEF HeapInv, WritesOK, KnownRIDs
        <4>2. ~IsFull(SlotAt(r))
          BY <2>3, SlotKinds
        <4> QED  BY <2>2, <2>3, <4>1, <4>2 DEF Wrote, Recorded
      <3>2. PICK n : n = Len(write_set[t]) + 1
        OBVIOUS
      <3>3. /\ Items(t)' = Items(t) \union {n} /\ Item(t, n)' = item
            /\ n \in Nat /\ \A i \in Items(t) : i < n /\ i \in Nat
        <4>1. n \in Nat /\ \A i \in Items(t) : i \in Nat
          BY <1>5, <3>2 DEF Items, HeapTypes
        <4> QED  BY <2>2, <3>2, <4>1 DEF Recorded, Item
      <3>4. WritesOK(t)
        BY DEF HeapInv
      <3>5. ASSUME NEW i \in Items(t)'
            PROVE  /\ Item(t, i)'.rid \in exclusive_lock_set'[t]
                   /\ Item(t, i)'.rid \in KnownRIDs'
                   /\ Item(t, i)'.wtype = "DELETE" =>
                         IsFull(SlotAt(Item(t, i).rid)') /\ IsDeleted(SlotAt(Item(t, i).rid)')
                   /\ IsFull(SlotAt(Item(t, i).rid)')
        <4>1. CASE i \in Items(t)
          <5>1. SlotAt(Item(t, i).rid)' = SlotAt(Item(t, i).rid)
            BY <3>1, <4>1
          <5> QED  BY <2>3, <2>7, <3>1, <3>4, <4>1, <5>1 DEF WritesOK
        <4>2. CASE i = n
          <5>1. SlotAt(Item(t, i).rid)' = LiveSlot(v)
            <6>1. (Item(t, i).rid)' = r
              BY <2>2, <3>3, <4>2
            <6>2. SlotAt(Item(t, i).rid)' = SlotAt(r)'
              BY <6>1 DEF SlotAt
            <6> QED  BY <2>3, <6>2 DEF Wrote
          <5> QED  BY <2>2, <2>3, <2>7, <3>3, <4>2, <5>1, SlotKinds
        <4> QED  BY <3>3, <3>5, <4>1, <4>2
      <3>6. ASSUME NEW i \in Items(t)', NEW j \in Items(t)', i < j,
                   Item(t, i)'.rid = Item(t, j)'.rid
            PROVE  Item(t, i)'.wtype = "INSERT" /\ Item(t, j)'.wtype = "DELETE"
        <4>1. i \in Items(t)
          <5>1. ASSUME i = n PROVE FALSE
            BY <3>3, <3>6, <5>1
          <5> QED  BY <3>3, <3>6, <5>1
        <4>2. j \in Items(t)
          BY <2>2, <3>1, <3>3, <3>6, <4>1
        <4> QED  BY <3>1, <3>4, <3>6, <4>1, <4>2 DEF WritesOK
      <3> QED  BY <3>5, <3>6 DEF WritesOK
    <2>11. ScanOK(t)'
      BY <1>5, <1>6, <1>7, <2>4 DEF HeapInv, ScanOK
    <2> QED  BY <1>10, <2>3, <2>5, <2>6, <2>7, <2>9, <2>10, <2>11 DEF Keeps
  <1>12. CASE ~granted
    <2>1. Abandon(t) /\ UNCHANGED <<content, write_set>>
      BY <1>4, <1>12
    <2>2. /\ state' \in [TxnIDs -> {"GROWING", "COMMITTED", "ABORTED"}] /\ state'[t] = "ABORTED"
          /\ \A u \in TxnIDs \ {t} : state'[u] = state[u]
      BY <1>5, <2>1 DEF Abandon, HeapTypes
    <2>3. HeapTypes'
      BY <1>5, <1>6, <1>7, <2>1, <2>2 DEF HeapTypes
    <2>4. Alone(t) /\ expected'[t] \subseteq expected[t]
      BY <1>6, <1>7, <2>1, <2>2 DEF Alone
    <2>5. exclusive_lock_set' = exclusive_lock_set /\ [LockNext]_lockVars
      BY <1>4, <1>8, <1>12 DEF LockExclusive, LockEffect
    <2>6. /\ Chained' /\ SlotsOK' /\ WritesOK(t)' /\ LocksOf(t) /\ PagesOf(t)
          /\ \A u \in TxnIDs : \A q \in expected'[u] : ExpectedOK(q)'
      BY <1>5, <1>6, <1>7, <1>9, <2>1, <2>4, <2>5, QuietStep
    <2>7. ScanOK(t)'
      BY <1>7, <2>2 DEF ScanOK
    <2> QED  BY <1>10, <2>3, <2>4, <2>6, <2>7 DEF Keeps
  <1> QED  BY <1>11, <1>12

\* MarkDelete marks the tuple, or cannot lock it.
LEMMA MarkDeleteKeeps ==
    ASSUME HeapInv, NEW t \in TxnIDs, NEW r \in KnownRIDs, MarkDelete(t, r)
    PROVE  Keeps(t)
  <1>1. PICK done \in BOOLEAN :
           /\ IF IsDeleted(SlotAt(r)) THEN done = FALSE /\ UNCHANGED lockVars
                                      ELSE LockForWrite(t, r, done)
           /\ IF done
                THEN /\ content' = [content EXCEPT ![r[1]] = MarkTuple(@, r[2])]
                     /\ write_set' = [write_set EXCEPT ![t] =
                                        Append(@, [rid |-> r, wtype |-> "DELETE"])]
                     /\ expected' = [u \in TxnIDs |-> expected[u] \ {r}]
                     /\ UNCHANGED state
                ELSE Abandon(t) /\ UNCHANGED <<content, write_set, expected>>
    BY DEF MarkDelete
  <1>2. /\ pc[t] = "idle" /\ r \in RIDs /\ t \notin released
        /\ HeapTypes /\ LockInv /\ SlotsOK
    BY DEF MarkDelete, ClientCall, HeapInv, PhaseOK, KnownRIDs
  <1>3. UNCHANGED <<link, seen, pc, reg>>
    BY DEF MarkDelete
  <1>4. LockEffect(t, r, done)
    <2>1. CASE IsDeleted(SlotAt(r))
      BY <1>1, <2>1 DEF LockEffect, lockVars
    <2>2. CASE ~IsDeleted(SlotAt(r))
      BY <1>1, <1>2, <2>2, LockForWriteEffect
    <2> QED  BY <2>1, <2>2
  <1>5. released' = released /\ LocksOf(t)
    BY <1>4 DEF LockEffect, LocksOf
  <1>6. OneGrower' /\ PlaceOK(t)'
    BY <1>2, <1>3 DEF HeapInv, OneGrower, PlaceOK
  <1>7. PhaseOK(t)'
    BY <1>2, <1>3, <1>5 DEF PhaseOK
  <1>8. CASE done
    <2>1. PICK item : item = [rid |-> r, wtype |-> "DELETE"]
      OBVIOUS
    <2>2. Recorded(t, item) /\ item.rid = r /\ item.wtype = "DELETE"
      <3>1. item \in WriteRecord /\ item.rid = r /\ item.wtype = "DELETE"
        BY <1>2, <2>1 DEF WriteRecord
      <3>2. write_set' = [write_set EXCEPT ![t] = Append(@, item)]
        BY <1>1, <1>8, <2>1
      <3> QED  BY <1>2, <3>1, <3>2, AddIntoWriteSet
    <2>3. ~IsDeleted(SlotAt(r))
      BY <1>1, <1>8
    <2>4. /\ content' \in [Pages -> Page] /\ SlotsOK' /\ KnownRIDs' = KnownRIDs
          /\ Wrote(r, MarkedSlot(SlotAt(r).tuple))
      BY <1>1, <1>2, <1>3, <1>8, <2>3, MarkWrites
    <2>5. UNCHANGED state /\ expected' = [u \in TxnIDs |-> expected[u] \ {r}]
      BY <1>1, <1>8
    <2>6. HeapTypes'
      <3>1. expected' \in [TxnIDs -> SUBSET RIDs]
        BY <1>2, <2>5 DEF HeapTypes
      <3> QED  BY <1>2, <1>3, <2>2, <2>4, <2>5, <3>1 DEF HeapTypes, Recorded
    <2>7. Alone(t) /\ expected'[t] \subseteq expected[t]
      BY <1>3, <2>2, <2>5 DEF Alone, Recorded
    <2>8. exclusive_lock_set'[t] = exclusive_lock_set[t] \union {r}
      BY <1>4, <1>8 DEF LockEffect
    <2>9. /\ Chained' /\ PagesOf(t)
          /\ \A u \in TxnIDs : \A q \in expected'[u] : ExpectedOK(q)'
      <3>1. \A i \in Items(t)' : Item(t, i)'.rid = r
                \/ \E j \in Items(t) : Item(t, j).rid = Item(t, i)'.rid
        BY <2>2 DEF Recorded, Item
      <3>2. \A u \in TxnIDs : r \notin expected'[u]
        BY <2>5
      <3> QED  BY <1>2, <1>3, <1>5, <2>4, <2>7, <2>8, <3>1, <3>2, WriteStep
    <2>10. WritesOK(t)'
      <3>1. IsFull(SlotAt(r)') /\ IsDeleted(SlotAt(r)')
        BY <2>4, SlotKinds DEF Wrote
      <3>2. ASSUME NEW i \in Items(t)
            PROVE  /\ Item(t, i)' = Item(t, i) /\ Item(t, i).rid \in RIDs
                   /\ Item(t, i).rid = r => Item(t, i).wtype = "INSERT"
                   /\ Item(t, i).rid # r =>
                         SlotAt(Item(t, i).rid)' = SlotAt(Item(t, i).rid)
        <4>1. Item(t, i)' = Item(t, i) /\ Item(t, i).rid \in RIDs
          BY <2>2, <3>2 DEF HeapInv, WritesOK, KnownRIDs, Recorded
        <4>2. Item(t, i) \in WriteRecord
          BY <1>2, <3>2 DEF HeapTypes, Items, Item
        <4>3. Item(t, i).rid = r => Item(t, i).wtype # "DELETE"
          BY <2>3, <3>2 DEF HeapInv, WritesOK
        <4>4. Item(t, i).rid # r => SlotAt(Item(t, i).rid)' = SlotAt(Item(t, i).rid)
          BY <2>4, <4>1 DEF Wrote
        <4> QED  BY <4>1, <4>2, <4>3, <4>4 DEF WriteRecord
      <3>3. PICK n : n = Len(write_set[t]) + 1
        OBVIOUS
      <3>4. /\ Items(t)' = Items(t) \union {n} /\ Item(t, n)' = item
            /\ n \in Nat /\ \A i \in Items(t) : i < n /\ i \in Nat
        <4>1. n \in Nat /\ \A i \in Items(t) : i \in Nat
          BY <1>2, <3>3 DEF Items, HeapTypes
        <4> QED  BY <2>2, <3>3, <4>1 DEF Recorded, Item
      <3>5. WritesOK(t)
        BY DEF HeapInv
      <3>6. ASSUME NEW i \in Items(t)', (Item(t, i).rid)' = r
            PROVE  SlotAt(Item(t, i).rid)' = SlotAt(r)'
        BY <3>6 DEF SlotAt
      <3>7. ASSUME NEW i \in Items(t)'
            PROVE  /\ Item(t, i)'.rid \in exclusive_lock_set'[t]
                   /\ Item(t, i)'.rid \in KnownRIDs'
                   /\ Item(t, i)'.wtype = "DELETE" =>
                         IsFull(SlotAt(Item(t, i).rid)') /\ IsDeleted(SlotAt(Item(t, i).rid)')
                   /\ IsFull(SlotAt(Item(t, i).rid)')
        <4>1. CASE (Item(t, i).rid)' = r
          BY <2>4, <2>8, <3>1, <3>6, <4>1
        <4>2. CASE (Item(t, i).rid)' # r
          <5>1. i \in Items(t)
            BY <2>2, <3>4, <3>7, <4>2
          <5>2. /\ Item(t, i)' = Item(t, i)
                /\ SlotAt(Item(t, i).rid)' = SlotAt(Item(t, i).rid)
            BY <3>2, <4>2, <5>1
          <5> QED  BY <1>2, <2>4, <2>8, <3>5, <5>1, <5>2 DEF WritesOK
        <4> QED  BY <4>1, <4>2
      <3>8. ASSUME NEW i \in Items(t)', NEW j \in Items(t)', i < j,
                   Item(t, i)'.rid = Item(t, j)'.rid
            PROVE  Item(t, i)'.wtype = "INSERT" /\ Item(t, j)'.wtype = "DELETE"
        <4>1. i \in Items(t)
          <5>1. ASSUME i = n PROVE FALSE
            BY <3>4, <3>8, <5>1
          <5> QED  BY <3>4, <3>8, <5>1
        <4>2. CASE j \in Items(t)
          BY <3>2, <3>5, <3>8, <4>1, <4>2 DEF WritesOK
        <4>3. CASE j = n
          BY <2>2, <3>2, <3>4, <3>8, <4>1, <4>3
        <4> QED  BY <3>4, <3>8, <4>2, <4>3
      <3> QED  BY <3>7, <3>8 DEF WritesOK
    <2>11. ScanOK(t)'
      BY <1>2, <1>3, <2>5 DEF HeapInv, ScanOK
    <2> QED  BY <1>5, <1>6, <1>7, <2>4, <2>6, <2>7, <2>9, <2>10, <2>11 DEF Keeps
  <1>9. CASE ~done
    <2>1. Abandon(t) /\ UNCHANGED <<content, write_set, expected>>
      BY <1>1, <1>9
    <2>2. /\ state' \in [TxnIDs -> {"GROWING", "COMMITTED", "ABORTED"}] /\ state'[t] = "ABORTED"
          /\ \A u \in TxnIDs \ {t} : state'[u] = state[u]
      BY <1>2, <2>1 DEF Abandon, HeapTypes
    <2>3. HeapTypes'
      BY <1>2, <1>3, <2>1, <2>2 DEF HeapTypes
    <2>4. Alone(t) /\ expected'[t] \subseteq expected[t]
      BY <1>3, <2>1, <2>2 DEF Alone
    <2>5. LockInv'
      BY <1>2, <1>5, LockNextInv DEF LocksOf
    <2>6. exclusive_lock_set' = exclusive_lock_set
      <3>1. \A u \in TxnIDs : exclusive_lock_set'[u] = exclusive_lock_set[u]
        BY <1>4, <1>9 DEF LockEffect
      <3>2. /\ exclusive_lock_set \in [TxnIDs -> SUBSET RIDs]
            /\ exclusive_lock_set' \in [TxnIDs -> SUBSET RIDs]
        BY <1>2, <2>5 DEF LockInv, LockTypeOK
      <3> QED  BY <3>1, <3>2
    <2>7. [LockNext]_lockVars
      BY <1>5 DEF LocksOf
    <2>8. /\ Chained' /\ SlotsOK' /\ WritesOK(t)' /\ PagesOf(t)
          /\ \A u \in TxnIDs : \A q \in expected'[u] : ExpectedOK(q)'
      BY <1>2, <1>3, <1>5, <2>1, <2>4, <2>6, <2>7, QuietStep
    <2>9. ScanOK(t)'
      BY <1>2, <1>3, <2>2 DEF ScanOK
    <2> QED  BY <1>5, <1>6, <1>7, <2>3, <2>4, <2>8, <2>9 DEF Keeps
  <1> QED  BY <1>8, <1>9

\* Commit and Abort take the last record off the write set.
LEMMA LastRecordOff ==
    ASSUME HeapTypes, NEW t \in TxnIDs, write_set[t] # << >>,
           write_set' = [write_set EXCEPT ![t] = SubSeq(@, 1, Len(@) - 1)]
    PROVE  /\ write_set' \in [TxnIDs -> Seq(WriteRecord)]
           /\ \A u \in TxnIDs \ {t} : write_set'[u] = write_set[u]
           /\ Len(write_set[t]) \in Items(t)
           /\ Item(t, Len(write_set[t])) \in WriteRecord
           /\ \A i \in Items(t)' : /\ i \in Items(t) /\ i < Len(write_set[t])
                                   /\ Item(t, i)' = Item(t, i)
  <1>1. PICK s : s = write_set[t]
    OBVIOUS
  <1>2. s \in Seq(WriteRecord) /\ Len(s) \in Nat /\ Len(s) >= 1
    BY <1>1 DEF HeapTypes
  <1>3. /\ SubSeq(s, 1, Len(s) - 1) \in Seq(WriteRecord)
        /\ Len(SubSeq(s, 1, Len(s) - 1)) = Len(s) - 1
        /\ \A i \in 1 .. Len(s) - 1 : SubSeq(s, 1, Len(s) - 1)[i] = s[i]
    <2>1. PICK n : n = Len(s) - 1
      OBVIOUS
    <2>2. PICK k : k = SubSeq(s, 1, n)
      OBVIOUS
    <2>3. n \in Nat /\ \A i \in 1 .. n : s[i] \in WriteRecord
      BY <1>2, <2>1
    <2>4. /\ k \in Seq(WriteRecord) /\ Len(k) = IF 1 <= n THEN n - 1 + 1 ELSE 0
          /\ \A i \in 1 .. n - 1 + 1 : k[i] = s[1 + i - 1]
      BY <2>2, <2>3, SubSeqProperties
    <2>5. Len(k) = n /\ \A i \in 1 .. n : k[i] = s[i]
      BY <2>3, <2>4
    <2> QED  BY <2>1, <2>2, <2>4, <2>5
  <1>4. /\ write_set'[t] = SubSeq(s, 1, Len(s) - 1)
        /\ write_set' \in [TxnIDs -> Seq(WriteRecord)]
        /\ \A u \in TxnIDs \ {t} : write_set'[u] = write_set[u]
    BY <1>1, <1>3 DEF HeapTypes
  <1>5. \A i \in 1 .. Len(s) - 1 : i \in 1 .. Len(s) /\ i < Len(s)
    BY <1>2
  <1>6. Len(s) \in 1 .. Len(s) /\ s[Len(s)] \in WriteRecord
    BY <1>2
  <1> QED  BY <1>1, <1>3, <1>4, <1>5, <1>6 DEF Items, Item

\* Commit and Abort work off one record.
LEMMA EndStepKeeps ==
    ASSUME HeapInv, NEW t \in TxnIDs, EndStep(t)
    PROVE  Keeps(t)
  <1>1. PICK n : n = Len(write_set[t])
    OBVIOUS
  <1>2. PICK item : item = write_set[t][n]
    OBVIOUS
  <1>3. PICK r : r = item.rid
    OBVIOUS
  <1>4. /\ pc[t] \in {"commit", "abort"} /\ HeapTypes /\ SlotsOK /\ WritesOK(t)
        /\ t \notin released /\ write_set[t] # << >>
        /\ write_set' = [write_set EXCEPT ![t] = SubSeq(@, 1, Len(@) - 1)]
        /\ UNCHANGED <<lockVars, link, expected, seen, state, pc, reg>>
    BY DEF EndStep, HeapInv, PhaseOK, scanVars
  <1>5. /\ write_set' \in [TxnIDs -> Seq(WriteRecord)]
        /\ \A u \in TxnIDs \ {t} : write_set'[u] = write_set[u]
        /\ n \in Items(t) /\ Item(t, n) = item /\ item \in WriteRecord
        /\ \A i \in Items(t)' : /\ i \in Items(t) /\ i < n /\ Item(t, i)' = Item(t, i)
    <2>1. Item(t, n) = item
      BY <1>2 DEF Item
    <2> QED  BY <1>1, <1>4, <2>1, LastRecordOff
  <1>6. /\ r \in exclusive_lock_set[t] /\ r \in KnownRIDs /\ r \in RIDs
        /\ item.wtype = "DELETE" => IsFull(SlotAt(r))
        /\ pc[t] = "abort" => IsFull(SlotAt(r))
    BY <1>3, <1>4, <1>5 DEF WritesOK, KnownRIDs
  <1>7. Alone(t) /\ expected'[t] \subseteq expected[t]
    BY <1>4, <1>5 DEF Alone
  <1>8. /\ LocksOf(t) /\ released' = released /\ exclusive_lock_set' = exclusive_lock_set
    BY <1>4 DEF LocksOf, lockVars
  <1>9. OneGrower' /\ PlaceOK(t)' /\ PhaseOK(t)' /\ ScanOK(t)'
    <2>1. OneGrower' /\ PlaceOK(t)'
      BY <1>4 DEF HeapInv, OneGrower, PlaceOK
    <2>2. PhaseOK(t)'
      BY <1>4, <1>8 DEF PhaseOK
    <2>3. ScanOK(t)'
      BY <1>4 DEF HeapInv, ScanOK
    <2> QED  BY <2>1, <2>2, <2>3
  <1>10. \A u \in TxnIDs : r \notin expected'[u]
    BY <1>3, <1>4, <1>5 DEF HeapInv, ExpectedOK
  <1>11. \A i \in Items(t)' : Item(t, i)'.rid = r
            \/ \E j \in Items(t) : Item(t, j).rid = Item(t, i)'.rid
    BY <1>5
  <1>12. \A i \in Items(t)' : Item(t, i).rid = r => Item(t, i).wtype = "INSERT"
                                                   /\ item.wtype = "DELETE"
    BY <1>3, <1>4, <1>5 DEF WritesOK
  <1>13. ASSUME NEW slot, Wrote(r, slot), KnownRIDs' = KnownRIDs,
                content' \in [Pages -> Page], SlotsOK',
                \A i \in Items(t)' : Item(t, i).rid = r /\ pc[t] # "commit" => IsFull(slot)
         PROVE  Keeps(t)
    <2>1. HeapTypes'
      BY <1>4, <1>5, <1>13 DEF HeapTypes
    <2>2. /\ Chained' /\ PagesOf(t)
          /\ \A u \in TxnIDs : \A q \in expected'[u] : ExpectedOK(q)'
      BY <1>4, <1>6, <1>7, <1>8, <1>10, <1>11, <1>13, WriteStep
    <2>3. WritesOK(t)'
      <3>1. ASSUME NEW i \in Items(t)'
            PROVE  /\ Item(t, i)'.rid \in exclusive_lock_set'[t]
                   /\ Item(t, i)'.rid \in KnownRIDs'
                   /\ Item(t, i)'.wtype = "DELETE" =>
                         IsFull(SlotAt(Item(t, i).rid)') /\ IsDeleted(SlotAt(Item(t, i).rid)')
                   /\ pc'[t] # "commit" => IsFull(SlotAt(Item(t, i).rid)')
        <4>1. /\ i \in Items(t) /\ Item(t, i)' = Item(t, i)
              /\ Item(t, i).rid \in exclusive_lock_set[t] /\ Item(t, i).rid \in KnownRIDs
              /\ Item(t, i).rid \in RIDs
          BY <1>4, <1>5, <3>1 DEF WritesOK, KnownRIDs
        <4>2. CASE Item(t, i).rid = r
          <5>1. SlotAt(Item(t, i).rid)' = slot
            <6>1. (Item(t, i).rid)' = r
              BY <4>1, <4>2
            <6>2. SlotAt(Item(t, i).rid)' = SlotAt(r)'
              BY <6>1 DEF SlotAt
            <6> QED  BY <1>13, <6>2 DEF Wrote
          <5>2. Item(t, i)'.wtype = "INSERT"
            BY <1>12, <3>1, <4>1, <4>2
          <5> QED  BY <1>4, <1>8, <1>13, <3>1, <4>1, <4>2, <5>1, <5>2
        <4>3. CASE Item(t, i).rid # r
          <5>1. SlotAt(Item(t, i).rid)' = SlotAt(Item(t, i).rid)
            <6>1. PICK q : q = Item(t, i).rid
              OBVIOUS
            <6>2. (Item(t, i).rid)' = q
              BY <4>1, <6>1
            <6>3. SlotAt(Item(t, i).rid)' = SlotAt(q)'
              BY <6>2 DEF SlotAt
            <6> QED  BY <1>13, <4>1, <4>3, <6>1, <6>3 DEF Wrote
          <5> QED  BY <1>4, <1>8, <1>13, <4>1, <5>1 DEF WritesOK
        <4> QED  BY <4>2, <4>3
      <3>2. ASSUME NEW i \in Items(t)', NEW j \in Items(t)', i < j,
                   Item(t, i)'.rid = Item(t, j)'.rid
            PROVE  Item(t, i)'.wtype = "INSERT" /\ Item(t, j)'.wtype = "DELETE"
        BY <1>4, <1>5, <3>2 DEF WritesOK
      <3> QED  BY <3>1, <3>2 DEF WritesOK
    <2> QED  BY <1>7, <1>8, <1>9, <1>13, <2>1, <2>2, <2>3 DEF Keeps
  <1>14. CASE /\ item.wtype = (IF pc[t] = "commit" THEN "DELETE" ELSE "INSERT")
              /\ DropLeaking(item.rid)
    <2>1. IsFull(SlotAt(r))
      BY <1>4, <1>6, <1>14
    <2>2. content' = [content EXCEPT ![r[1]] = DropTuple(@, r[2])]
      BY <1>3, <1>14 DEF DropLeaking
    <2>3. /\ content' \in [Pages -> Page] /\ SlotsOK' /\ KnownRIDs' = KnownRIDs
          /\ Wrote(r, EmptySlot)
      BY <1>4, <1>6, <2>1, <2>2, DropWrites
    <2>4. \A i \in Items(t)' : ~(Item(t, i).rid = r /\ pc[t] # "commit")
      BY <1>12, <1>14
    <2> QED  BY <1>13, <2>3, <2>4
  <1>15. CASE UNCHANGED content
    <2>1. KnownRIDs' = KnownRIDs /\ \A q : SlotAt(q)' = SlotAt(q)
      BY <1>4, <1>15 DEF KnownRIDs, SlotAt
    <2>2. Wrote(r, SlotAt(r))
      BY <2>1 DEF Wrote
    <2>3. content' \in [Pages -> Page] /\ SlotsOK'
      BY <1>4, <1>15 DEF HeapTypes, SlotsOK
    <2>4. \A i \in Items(t)' : Item(t, i).rid = r /\ pc[t] # "commit" => IsFull(SlotAt(r))
      BY <1>4, <1>6
    <2> QED  BY <1>13, <2>1, <2>2, <2>3, <2>4
  <1>16. CASE /\ item.wtype = "DELETE" /\ pc[t] = "abort"
              /\ content' = [content EXCEPT ![item.rid[1]] = UnmarkTuple(@, item.rid[2])]
    <2>1. /\ content' \in [Pages -> Page] /\ SlotsOK' /\ KnownRIDs' = KnownRIDs
          /\ Wrote(r, LiveSlot(SlotAt(r).tuple))
      BY <1>3, <1>4, <1>6, <1>16, UnmarkWrites
    <2>2. IsFull(LiveSlot(SlotAt(r).tuple))
      BY SlotKinds
    <2> QED  BY <1>13, <2>1, <2>2
  <1> QED  BY <1>1, <1>2, <1>14, <1>15, <1>16 DEF EndStep

\* The transaction releases its locks.
LEMMA ReleaseKeeps ==
    ASSUME HeapInv, NEW t \in TxnIDs, Release(t)
    PROVE  Keeps(t)
  <1>1. /\ pc[t] \in {"commit", "abort"} /\ HeapTypes /\ write_set[t] = << >>
        /\ t \notin released /\ ReleaseLocks(t)
        /\ pc' = [pc EXCEPT ![t] = "done"]
        /\ UNCHANGED <<link, content, write_set, expected, seen, state, reg>>
    BY DEF Release, HeapInv, PhaseOK, pageVars, scanVars
  <1>2. /\ pc'[t] = "done" /\ pc' \in [TxnIDs -> Labels]
        /\ \A u \in TxnIDs \ {t} : pc'[u] = pc[u]
    BY <1>1 DEF HeapTypes, Labels
  <1>3. HeapTypes'
    BY <1>1, <1>2 DEF HeapTypes
  <1>4. Alone(t)
    BY <1>1, <1>2 DEF Alone
  <1>5. LocksOf(t) /\ released' = released \union {t}
    BY <1>1 DEF LocksOf, LockNext, ReleaseLocks, setVars
  <1>6. KnownRIDs' = KnownRIDs /\ \A q : SlotAt(q)' = SlotAt(q)
    BY <1>1 DEF KnownRIDs, SlotAt
  <1>7. Chained' /\ SlotsOK' /\ OneGrower' /\ PagesOf(t)
    <2>1. Chained' /\ SlotsOK'
      BY <1>1 DEF HeapInv, Chained, ChainTo, SlotsOK
    <2>2. OneGrower'
      BY <1>2 DEF HeapInv, OneGrower
    <2>3. PagesOf(t)
      BY <1>1, <1>6 DEF PagesOf
    <2> QED  BY <2>1, <2>2, <2>3
  <1>8. PlaceOK(t)' /\ PhaseOK(t)' /\ ScanOK(t)'
    <2>1. PlaceOK(t)'
      BY <1>1, <1>2 DEF HeapInv, PlaceOK
    <2>2. PhaseOK(t)'
      BY <1>1, <1>2, <1>5 DEF PhaseOK
    <2>3. ScanOK(t)'
      BY <1>2 DEF ScanOK
    <2> QED  BY <2>1, <2>2, <2>3
  <1>9. WritesOK(t)'
    <2>1. Items(t)' = {}
      BY <1>1 DEF Items
    <2> QED  BY <2>1 DEF WritesOK
  <1>10. Spares(t)
    <2>1. Items(t)' = {}
      BY <1>1 DEF Items
    <2> QED  BY <1>1, <1>6, <2>1 DEF Spares
  <1> QED  BY <1>3, <1>4, <1>5, <1>7, <1>8, <1>9, <1>10, SparesExpected DEF Keeps

----------------------------------------------------------------------------
(* The theorems.                                                           *)

\* An insert keeps the slots slots, and the page a page if it had the room.
LEMMA PutTupleSlots ==
    ASSUME NEW pg, pg.slots \in Seq(Slot), NEW v \in Tuples
    PROVE  /\ PutTuple(pg, v).slots \in Seq(Slot)
           /\ PutTuple(pg, v).free \in Nat => PutTuple(pg, v) \in Page
  <1>1. LiveSlot(v) \in Slot
    BY SlotKinds
  <1>2. PICK n : n = InsertSlot(pg)
    OBVIOUS
  <1>3. PICK s, t : s = [pg.slots EXCEPT ![n] = LiveSlot(v)] /\ t = Append(pg.slots, LiveSlot(v))
    OBVIOUS
  <1>4. s \in Seq(Slot) /\ t \in Seq(Slot)
    <2>1. PICK old : old = pg.slots
      OBVIOUS
    <2>2. old \in [1 .. Len(old) -> Slot] /\ Len(old) \in Nat
      BY <2>1
    <2>3. [old EXCEPT ![n] = LiveSlot(v)] \in [1 .. Len(old) -> Slot]
      BY <1>1, <2>2
    <2>4. s \in Seq(Slot)
      BY <1>3, <2>1, <2>2, <2>3
    <2>5. t \in Seq(Slot)
      BY <1>1, <1>3
    <2> QED  BY <2>4, <2>5
  <1>5. PutTuple(pg, v) = IF n <= Len(pg.slots)
                            THEN [free |-> pg.free - TupleSize[v], slots |-> s]
                            ELSE [free |-> pg.free - TupleSize[v] - SlotSize, slots |-> t]
    BY <1>2, <1>3 DEF PutTuple
  <1>6. PICK fs, ft : fs = pg.free - TupleSize[v] /\ ft = pg.free - TupleSize[v] - SlotSize
    OBVIOUS
  <1> QED  BY <1>4, <1>5, <1>6 DEF Page

\* The initial states.
LEMMA InitInv == Init => HeapInv /\ PinsInv
  <1> SUFFICES ASSUME Init PROVE HeapInv /\ PinsInv
    OBVIOUS
  <1>1. LockInv
    BY LockInitInv DEF Init
  <1>2. PICK v \in Tuples, w \in Tuples :
         \E first \in {EmptyPage, PutTuple(EmptyPage, v), PutTuple(PutTuple(EmptyPage, v), w)} :
             /\ first.free \in Nat /\ {1} \X (1 .. Len(first.slots)) \subseteq RIDs
             /\ content = [p \in Pages |-> IF p = 1 THEN first ELSE EmptyPage]
    BY DEF Init
  <1>3. PICK first \in {EmptyPage, PutTuple(EmptyPage, v), PutTuple(PutTuple(EmptyPage, v), w)} :
             /\ first.free \in Nat /\ {1} \X (1 .. Len(first.slots)) \subseteq RIDs
             /\ content = [p \in Pages |-> IF p = 1 THEN first ELSE EmptyPage]
    BY <1>2
  <1>4. first \in Page
    <2>1. EmptyPage \in Page /\ EmptyPage.slots \in Seq(Slot)
      BY EmptyPageIsPage DEF Page
    <2>2. PICK one : one = PutTuple(EmptyPage, v)
      OBVIOUS
    <2>3. one.slots \in Seq(Slot) /\ (one.free \in Nat => one \in Page)
      BY <2>1, <2>2, PutTupleSlots
    <2>4. PutTuple(one, w).free \in Nat => PutTuple(one, w) \in Page
      BY <2>3, PutTupleSlots
    <2> QED  BY <1>3, <2>1, <2>2, <2>3, <2>4
  <1>5. \A t \in TxnIDs : /\ pc[t] = "idle" /\ reg[t] = NoReg /\ write_set[t] = << >>
                          /\ expected[t] = {} /\ t \notin released
    BY DEF Init, LockInit
  <1>6. HeapTypes
    <2>1. content \in [Pages -> Page]
      BY <1>3, <1>4, EmptyPageIsPage
    <2>2. << >> \in Seq(WriteRecord) /\ "idle" \in Labels
      BY DEF Labels
    <2> QED  BY <2>1, <2>2 DEF Init, HeapTypes
  <1>7. Chained
    <2>1. \A p \in Pages : link[p] = IF p = 1 THEN NoPage ELSE Unused
      BY DEF Init
    <2>2. \A p \in Pages : ~(p < 1) /\ (p > 1 => p # 1) /\ 1 \in Pages
      BY PageIds
    <2> QED  BY <2>1, <2>2, PageIds DEF Chained, ChainTo
  <1>8. SlotsOK
    <2>1. ASSUME NEW p \in Pages, NEW n \in 1 .. Len(content[p].slots)
          PROVE  <<p, n>> \in RIDs
      <3>1. CASE p = 1
        BY <1>3, <2>1, <3>1
      <3>2. CASE p # 1
        BY <1>3, <2>1, <3>2, EmptyPageIsPage
      <3> QED  BY <3>1, <3>2
    <2>2. ASSUME NEW p \in Pages, link[p] \in {Unused, Raw} PROVE content[p] = EmptyPage
      <3>1. p # 1
        BY <2>2, PageIds DEF Init
      <3> QED  BY <1>3, <3>1
    <2> QED  BY <2>1, <2>2 DEF SlotsOK
  <1>9. OneGrower
    BY <1>5 DEF OneGrower
  <1>10. \A t \in TxnIDs : /\ PlaceOK(t) /\ PhaseOK(t) /\ WritesOK(t) /\ ScanOK(t)
                           /\ \A r \in expected[t] : ExpectedOK(r)
    <2>1. \A t \in TxnIDs : Items(t) = {}
      <3>1. 1 .. Len(<< >>) = {}
        OBVIOUS
      <3> QED  BY <1>5, <3>1 DEF Items
    <2> QED  BY <1>5, <2>1 DEF PlaceOK, PhaseOK, WritesOK, ScanOK
  <1>11. PinsInv
    <2>1. \A p \in Pages : Holders(p) = {}
      BY <1>5, PageIds DEF Holders, Pinning, NoReg
    <2>2. Cardinality({}) = 0
      BY FS_EmptySet
    <2>3. /\ pins \in [Pages -> Nat] /\ leaked \in [Pages -> Nat]
          /\ \A p \in Pages : pins[p] = 0 /\ leaked[p] = 0
      BY DEF Init
    <2> QED  BY <2>1, <2>2, <2>3 DEF PinsInv, PinsMatch
  <1> QED  BY <1>1, <1>6, <1>7, <1>8, <1>9, <1>10, <1>11 DEF HeapInv

\* Every step preserves the invariant.
LEMMA NextInv == HeapInv /\ [Next]_vars => HeapInv'
  <1> SUFFICES ASSUME HeapInv, [Next]_vars PROVE HeapInv'
    OBVIOUS
  <1>1. CASE UNCHANGED vars
    <2>1. UNCHANGED <<exclusive_lock_table, shared_lock_table, shared_lock_set,
                      exclusive_lock_set, released, link, content, expected, seen, state,
                      write_set, pc, reg>>
      BY <1>1 DEF vars, lockVars, pageVars, scanVars
    <2>2. LockInv'
      BY <2>1, LockNextInv DEF HeapInv, lockVars
    <2>3. HeapTypes' /\ Chained' /\ SlotsOK' /\ OneGrower'
      BY <2>1 DEF HeapInv, HeapTypes, Chained, ChainTo, SlotsOK, OneGrower
    <2>4. /\ KnownRIDs' = KnownRIDs /\ \A q : SlotAt(q)' = SlotAt(q)
          /\ \A t \in TxnIDs : Items(t)' = Items(t) /\ \A i : Item(t, i)' = Item(t, i)
      BY <2>1 DEF KnownRIDs, SlotAt, Items, Item
    <2>5. ASSUME NEW t \in TxnIDs
          PROVE  PlaceOK(t)' /\ PhaseOK(t)' /\ ScanOK(t)'
      BY <2>1 DEF HeapInv, PlaceOK, PhaseOK, ScanOK
    <2>6. ASSUME NEW t \in TxnIDs PROVE WritesOK(t)'
      BY <2>1, <2>4 DEF HeapInv, WritesOK
    <2>7. ASSUME NEW t \in TxnIDs, NEW r \in expected'[t] PROVE ExpectedOK(r)'
      BY <2>1, <2>4, <2>7 DEF HeapInv, ExpectedOK
    <2> QED  BY <2>2, <2>3, <2>5, <2>6, <2>7 DEF HeapInv
  <1>2. CASE Next
    <2>1. PICK t \in TxnIDs :
             \/ Step(t) \/ EndStart(t) \/ Scan(t)
             \/ \E v \in Tuples : InsertTuple(t, v)
             \/ \E r \in KnownRIDs : MarkDelete(t, r)
      BY <1>2 DEF Next
    <2>2. CASE Step(t)
      <3>1. ASSUME InsertAstray(t) \/ ScanAstray(t) PROVE Keeps(t)
        BY <3>1, AstrayKeeps DEF InsertAstray, ScanAstray
      <3>2. ASSUME IterNext(t) \/ IterWalk(t) PROVE Keeps(t)
        BY <3>2, Next1Keeps DEF IterNext, IterWalk
      <3> QED  BY <2>2, <3>1, <3>2, KeepsInv, InsertHereKeeps, InsertNextPageKeeps,
                  InsertGrowKeeps, InsertInitKeeps, GetFirstTupleKeeps, ScanLockKeeps,
                  ScanReadKeeps, EndStepKeeps, ReleaseKeeps DEF Step
    <2> QED  BY <2>1, <2>2, KeepsInv, EndStartKeeps, ScanKeeps, InsertTupleKeeps,
                MarkDeleteKeeps
  <1> QED  BY <1>1, <1>2

\* In every state the pages form the chain 1 .. k, what is written is locked,
\* and what a scan has still to return is ahead of it.
THEOREM HeapInvariance == Spec => []HeapInv
  BY InitInv, NextInv, PTL DEF Spec

\* InsertTuple of any number of transactions at once keeps the pages one chain.
THEOREM PagesFormAChain == Spec => []HeapIsChain
  <1>1. HeapInv => HeapIsChain
    BY ChainIsChain DEF HeapInv
  <1> QED  BY <1>1, HeapInvariance, PTL

\* A scan that comes to its end has returned every tuple that was committed
\* when it began and that nobody has deleted since.
THEOREM ScansAreComplete == Spec => []ScanIsComplete
  <1>1. HeapInv => ScanIsComplete
    BY DEF HeapInv, ScanOK, ScanIsComplete
  <1> QED  BY <1>1, HeapInvariance, PTL

----------------------------------------------------------------------------
(* The pins.                                                               *)

\* FetchPage pins a page once more.
LEMMA FetchedPins ==
    ASSUME NEW pin \in [Pages -> Nat], NEW p \in Pages
    PROVE  /\ Fetched(pin, p) \in [Pages -> Nat] /\ Fetched(pin, p)[p] = pin[p] + 1
           /\ \A q \in Pages : q # p => Fetched(pin, p)[q] = pin[q]
  BY DEF Fetched

\* UnpinPage takes one pin off a page that has one.
LEMMA UnpinnedPins ==
    ASSUME NEW pin \in [Pages -> Nat], NEW p \in Pages
    PROVE  /\ Unpinned(pin, p) \in [Pages -> Nat]
           /\ pin[p] > 0 => Unpinned(pin, p)[p] = pin[p] - 1
           /\ \A q \in Pages : q # p => Unpinned(pin, p)[q] = pin[q]
  <1>1. (IF pin[p] > 0 THEN pin[p] - 1 ELSE 0) \in Nat
    OBVIOUS
  <1> QED  BY <1>1 DEF Unpinned

\* There are finitely many goroutines on a page.
LEMMA HoldersFinite ==
    ASSUME NEW p
    PROVE  IsFiniteSet(Holders(p)) /\ Cardinality(Holders(p)) \in Nat
  <1>1. Holders(p) \subseteq TxnIDs
    BY DEF Holders
  <1>2. IsFiniteSet(Holders(p))
    BY <1>1, HeapAssumption, FS_Subset
  <1> QED  BY <1>2, FS_CardinalityType

\* A page somebody has pinned has a pin.
LEMMA HolderPins ==
    ASSUME PinsInv, Astray = {}, NEW t \in TxnIDs, NEW p \in Pages, Pinning(t, p)
    PROVE  pins[p] > 0
  <1>1. t \in Holders(p)
    BY DEF Holders
  <1>2. IsFiniteSet(Holders(p)) /\ Cardinality(Holders(p)) \in Nat
    BY HoldersFinite
  <1>3. Cardinality(Holders(p)) # 0
    BY <1>1, <1>2, FS_EmptySet
  <1> QED  BY <1>2, <1>3 DEF PinsInv, PinsMatch

\* The step takes t from the pages S to the pages T.
MovesPins(t, S, T) ==
    /\ pins' \in [Pages -> Nat] /\ leaked' \in [Pages -> Nat]
    /\ \A p \in Pages : /\ Pinning(t, p) <=> p \in S
                        /\ Pinning(t, p)' <=> p \in T
    /\ Astray = {} => \A p \in Pages :
          pins'[p] + leaked[p] + (IF p \in S THEN 1 ELSE 0)
              = pins[p] + leaked'[p] + (IF p \in T THEN 1 ELSE 0)

\* Then the account stays right.
LEMMA PinStep ==
    ASSUME PinsInv, NEW t \in TxnIDs, Alone(t), pc[t] # "astray",
           NEW S, NEW T, MovesPins(t, S, T)
    PROVE  PinsInv'
  <1>1. pins' \in [Pages -> Nat] /\ leaked' \in [Pages -> Nat]
    BY DEF MovesPins
  <1>2. ASSUME Astray' = {}, NEW p \in Pages
        PROVE  pins'[p] = leaked'[p] + Cardinality(Holders(p)')
    <2>1. Astray = {}
      BY <1>2 DEF Astray, Alone
    <2>2. /\ pins[p] = leaked[p] + Cardinality(Holders(p))
          /\ pins[p] \in Nat /\ leaked[p] \in Nat /\ pins'[p] \in Nat /\ leaked'[p] \in Nat
      BY <1>1, <2>1 DEF PinsInv, PinsMatch
    <2>3. /\ Pinning(t, p) <=> p \in S
          /\ Pinning(t, p)' <=> p \in T
          /\ pins'[p] + leaked[p] + (IF p \in S THEN 1 ELSE 0)
              = pins[p] + leaked'[p] + (IF p \in T THEN 1 ELSE 0)
      BY <2>1 DEF MovesPins
    <2>4. \A u \in TxnIDs \ {t} : Pinning(u, p)' <=> Pinning(u, p)
      BY DEF Alone, Pinning
    <2>5. IsFiniteSet(Holders(p)) /\ Cardinality(Holders(p)) \in Nat
      BY HoldersFinite
    <2>6. CASE Pinning(t, p)' <=> Pinning(t, p)
      <3>1. Holders(p)' = Holders(p)
        BY <2>4, <2>6 DEF Holders
      <3> QED  BY <2>2, <2>3, <2>5, <2>6, <3>1
    <2>7. CASE Pinning(t, p)' /\ ~Pinning(t, p)
      <3>1. Holders(p)' = Holders(p) \union {t} /\ t \notin Holders(p)
        BY <2>4, <2>7 DEF Holders
      <3>2. Cardinality(Holders(p)') = Cardinality(Holders(p)) + 1
        BY <2>5, <3>1, FS_AddElement
      <3> QED  BY <2>2, <2>3, <2>5, <2>7, <3>2
    <2>8. CASE ~Pinning(t, p)' /\ Pinning(t, p)
      <3>1. Holders(p)' = Holders(p) \ {t} /\ t \in Holders(p)
        BY <2>4, <2>8 DEF Holders
      <3>2. Cardinality(Holders(p)') = Cardinality(Holders(p)) - 1
        BY <2>5, <3>1, FS_RemoveElement
      <3> QED  BY <2>2, <2>3, <2>5, <2>8, <3>2
    <2> QED  BY <2>6, <2>7, <2>8
  <1> QED  BY <1>1, <1>2 DEF PinsInv, PinsMatch

\* Where a goroutine has which pages pinned.
LEMMA PlacePins ==
    ASSUME HeapInv, NEW t \in TxnIDs, NEW p \in Pages
    PROVE  /\ pc[t] \in {"idle", "commit", "abort", "done", "first", "next"} => ~Pinning(t, p)
           /\ pc[t] \in {"insert", "walk", "lock", "read"} =>
                (Pinning(t, p) <=> p \in {reg[t].page})
           /\ pc[t] = "init" => (Pinning(t, p) <=> p \in {reg[t].page, reg[t].new})
  <1>1. PlaceOK(t) /\ NoPage # p
    BY PageIds DEF HeapInv
  <1>2. ASSUME pc[t] \in {"idle", "commit", "abort", "done"} PROVE reg[t].page # p
    BY <1>1, <1>2 DEF PlaceOK, NoReg
  <1>3. ASSUME pc[t] = "next" PROVE reg[t].page # p
    BY <1>1, <1>3 DEF PlaceOK
  <1> QED  BY <1>2, <1>3 DEF Pinning

\* Steps that neither pin nor unpin a page.
LEMMA QuietPins ==
    ASSUME HeapInv, PinsInv, NEW t \in TxnIDs, Keeps(t), pc[t] # "astray",
           UNCHANGED <<pins, leaked>>, \A p \in Pages : Pinning(t, p)' <=> Pinning(t, p)
    PROVE  PinsInv'
  <1>1. PICK S : S = {p \in Pages : Pinning(t, p)}
    OBVIOUS
  <1>2. MovesPins(t, S, S)
    <2>1. \A p \in Pages : (Pinning(t, p) <=> p \in S) /\ (Pinning(t, p)' <=> p \in S)
      BY <1>1
    <2>2. pins \in [Pages -> Nat] /\ leaked \in [Pages -> Nat]
      BY DEF PinsInv
    <2>3. \A p \in Pages : pins'[p] = pins[p] /\ leaked'[p] = leaked[p]
                           /\ pins[p] \in Nat /\ leaked[p] \in Nat
      BY <2>2
    <2> QED  BY <2>1, <2>2, <2>3 DEF MovesPins
  <1> QED  BY <1>2, PinStep DEF Keeps

\* Calls that work without a page, or go astray.
LEMMA PlainPins ==
    ASSUME HeapInv, PinsInv, NEW t \in TxnIDs, Keeps(t),
           \/ EndStart(t) \/ Scan(t) \/ Release(t) \/ GetFirstTuple(t)
           \/ \E r \in KnownRIDs : MarkDelete(t, r)
    PROVE  PinsInv'
  <1>1. pc[t] \in {"idle", "commit", "abort", "first"} /\ UNCHANGED <<pins, leaked>>
    BY DEF EndStart, Scan, Release, GetFirstTuple, MarkDelete, ClientCall, pageVars
  <1>2. HeapTypes' /\ PlaceOK(t)' /\ HeapTypes
    BY DEF Keeps, HeapInv
  <1>3. /\ pc'[t] \in {"idle", "commit", "abort", "done", "first", "lock"}
        /\ pc'[t] = "lock" => reg'[t].page = NoPage
    <2>1. CASE EndStart(t) \/ Release(t)
      BY <1>2, <2>1 DEF EndStart, Release, HeapTypes
    <2>2. CASE Scan(t)
      BY <1>2, <2>2 DEF Scan, GoTo, HeapTypes
    <2>3. CASE GetFirstTuple(t)
      BY <1>2, <2>3 DEF GetFirstTuple, GoTo, ScanOver, HeapTypes
    <2>4. CASE \E r \in KnownRIDs : MarkDelete(t, r)
      BY <1>1, <2>4 DEF MarkDelete, ClientCall
    <2> QED  BY <2>1, <2>2, <2>3, <2>4
  <1>4. ASSUME NEW p \in Pages PROVE ~Pinning(t, p) /\ ~Pinning(t, p)'
    <2>1. ~Pinning(t, p)
      BY <1>1, PlacePins
    <2>2. p # NoPage
      BY PageIds
    <2>3. pc'[t] \in {"idle", "commit", "abort", "done"} => reg'[t].page = NoPage
      BY <1>2 DEF PlaceOK, NoReg
    <2> QED  BY <1>3, <2>1, <2>2, <2>3 DEF Pinning
  <1> QED  BY <1>1, <1>4, QuietPins

\* A goroutine that goes astray ends the account.
LEMMA AstrayPins ==
    ASSUME HeapInv, PinsInv, NEW t \in TxnIDs, GoAstray(t)
    PROVE  PinsInv'
  <1>1. t \in Astray'
    BY DEF GoAstray, Astray, HeapInv, HeapTypes
  <1> QED  BY <1>1 DEF PinsInv, PinsMatch, GoAstray, pageVars

\* InsertTuple pins the first page.
LEMMA InsertTuplePins ==
    ASSUME HeapInv, PinsInv, NEW t \in TxnIDs, Keeps(t), NEW v \in Tuples, InsertTuple(t, v)
    PROVE  PinsInv'
  <1>1. pins \in [Pages -> Nat] /\ leaked \in [Pages -> Nat] /\ 1 \in Pages /\ HeapTypes
    BY PageIds DEF PinsInv, HeapInv
  <1>2. /\ pc[t] = "idle" /\ pins' = Fetched(pins, 1) /\ UNCHANGED leaked
        /\ pc'[t] = "insert" /\ reg'[t].page = 1
    BY <1>1, GoToPlace DEF InsertTuple, ClientCall, Labels
  <1>3. MovesPins(t, {}, {1})
    <2>1. \A p \in Pages : ~Pinning(t, p) /\ (Pinning(t, p)' <=> p \in {1})
      BY <1>2, PlacePins DEF Pinning
    <2>2. /\ pins' \in [Pages -> Nat] /\ pins'[1] = pins[1] + 1
          /\ \A q \in Pages : q # 1 => pins'[q] = pins[q]
      BY <1>1, <1>2, FetchedPins
    <2>3. \A p \in Pages : pins'[p] + leaked[p] + 0 =
                              pins[p] + leaked'[p] + (IF p \in {1} THEN 1 ELSE 0)
      BY <1>1, <1>2, <2>2
    <2> QED  BY <1>1, <1>2, <2>1, <2>2, <2>3 DEF MovesPins
  <1> QED  BY <1>2, <1>3, PinStep DEF Keeps

\* InsertTuple unpins its page, or leaves it pinned for good.
LEMMA InsertHerePins ==
    ASSUME HeapInv, PinsInv, NEW t \in TxnIDs, Keeps(t), InsertHere(t)
    PROVE  PinsInv'
  <1>1. PICK p : p = reg[t].page
    OBVIOUS
  <1>2. /\ pins \in [Pages -> Nat] /\ leaked \in [Pages -> Nat] /\ p \in Pages /\ HeapTypes
        /\ pc[t] = "insert"
    BY <1>1 DEF PinsInv, HeapInv, PlaceOK, InsertHere
  <1>3. pc'[t] = "idle" /\ reg'[t].page = NoPage
    BY <1>2, GoToPlace DEF InsertHere, Labels, NoReg
  <1>4. \/ pins' = Unpinned(pins, p) /\ leaked' = leaked
        \/ pins' = pins /\ leaked' = Fetched(leaked, p)
    BY <1>1 DEF InsertHere
  <1>5. MovesPins(t, {p}, {})
    <2>1. \A q \in Pages : (Pinning(t, q) <=> q \in {p}) /\ ~Pinning(t, q)'
      BY <1>1, <1>2, <1>3, PlacePins, PageIds DEF Pinning
    <2>2. Astray = {} => pins[p] > 0
      BY <1>2, <2>1, HolderPins
    <2>3. CASE pins' = Unpinned(pins, p) /\ leaked' = leaked
      <3>1. /\ pins' \in [Pages -> Nat] /\ (pins[p] > 0 => pins'[p] = pins[p] - 1)
            /\ \A q \in Pages : q # p => pins'[q] = pins[q]
        BY <1>2, <2>3, UnpinnedPins
      <3>2. Astray = {} => \A q \in Pages :
               pins'[q] + leaked[q] + (IF q \in {p} THEN 1 ELSE 0) = pins[q] + leaked'[q] + 0
        BY <1>2, <2>2, <2>3, <3>1
      <3> QED  BY <1>2, <2>1, <2>3, <3>1, <3>2 DEF MovesPins
    <2>4. CASE pins' = pins /\ leaked' = Fetched(leaked, p)
      <3>1. /\ leaked' \in [Pages -> Nat] /\ leaked'[p] = leaked[p] + 1
            /\ \A q \in Pages : q # p => leaked'[q] = leaked[q]
        BY <1>2, <2>4, FetchedPins
      <3>2. \A q \in Pages :
               pins'[q] + leaked[q] + (IF q \in {p} THEN 1 ELSE 0) = pins[q] + leaked'[q] + 0
        BY <1>2, <2>4, <3>1
      <3> QED  BY <1>2, <2>1, <2>4, <3>1, <3>2 DEF MovesPins
    <2> QED  BY <1>4, <2>3, <2>4
  <1> QED  BY <1>2, <1>5, PinStep DEF Keeps

\* Fetching a page and unpinning another, in either order.
LEMMA SwapPins ==
    ASSUME NEW pin \in [Pages -> Nat], NEW p \in Pages, NEW q \in Pages, p # q, NEW new,
           new = Fetched(Unpinned(pin, p), q) \/ new = Unpinned(Fetched(pin, q), p)
    PROVE  /\ new \in [Pages -> Nat] /\ new[q] = pin[q] + 1
           /\ pin[p] > 0 => new[p] = pin[p] - 1
           /\ \A k \in Pages : k # p /\ k # q => new[k] = pin[k]
  <1>1. CASE new = Fetched(Unpinned(pin, p), q)
    <2>1. PICK mid : mid = Unpinned(pin, p)
      OBVIOUS
    <2>2. /\ mid \in [Pages -> Nat] /\ (pin[p] > 0 => mid[p] = pin[p] - 1)
          /\ \A k \in Pages : k # p => mid[k] = pin[k]
      BY <2>1, UnpinnedPins
    <2>3. /\ new \in [Pages -> Nat] /\ new[q] = mid[q] + 1
          /\ \A k \in Pages : k # q => new[k] = mid[k]
      BY <1>1, <2>1, <2>2, FetchedPins
    <2> QED  BY <2>2, <2>3
  <1>2. CASE new = Unpinned(Fetched(pin, q), p)
    <2>1. PICK mid : mid = Fetched(pin, q)
      OBVIOUS
    <2>2. /\ mid \in [Pages -> Nat] /\ mid[q] = pin[q] + 1
          /\ \A k \in Pages : k # q => mid[k] = pin[k]
      BY <2>1, FetchedPins
    <2>3. /\ new \in [Pages -> Nat] /\ (mid[p] > 0 => new[p] = mid[p] - 1)
          /\ \A k \in Pages : k # p => new[k] = mid[k]
      BY <1>2, <2>1, <2>2, UnpinnedPins
    <2> QED  BY <2>2, <2>3
  <1> QED  BY <1>1, <1>2

\* A step from page p to page q, one pin with it.
LEMMA SwapMoves ==
    ASSUME PinsInv, NEW t \in TxnIDs, NEW p \in Pages, NEW q \in Pages, p # q,
           pins' = Fetched(Unpinned(pins, p), q) \/ pins' = Unpinned(Fetched(pins, q), p),
           leaked' = leaked,
           \A k \in Pages : (Pinning(t, k) <=> k \in {p}) /\ (Pinning(t, k)' <=> k \in {q})
    PROVE  MovesPins(t, {p}, {q})
  <1>1. pins \in [Pages -> Nat] /\ leaked \in [Pages -> Nat]
    BY DEF PinsInv
  <1>2. /\ pins' \in [Pages -> Nat] /\ pins'[q] = pins[q] + 1
        /\ pins[p] > 0 => pins'[p] = pins[p] - 1
        /\ \A k \in Pages : k # p /\ k # q => pins'[k] = pins[k]
    BY <1>1, SwapPins
  <1>3. Astray = {} => pins[p] > 0
    BY HolderPins
  <1>4. Astray = {} => \A k \in Pages :
           pins'[k] + leaked[k] + (IF k \in {p} THEN 1 ELSE 0)
              = pins[k] + leaked'[k] + (IF k \in {q} THEN 1 ELSE 0)
    <2> SUFFICES ASSUME Astray = {}, NEW k \in Pages
                 PROVE  pins'[k] + leaked[k] + (IF k \in {p} THEN 1 ELSE 0)
                          = pins[k] + leaked'[k] + (IF k \in {q} THEN 1 ELSE 0)
      OBVIOUS
    <2>1. pins'[k] \in Nat /\ pins[k] \in Nat /\ leaked[k] \in Nat /\ leaked'[k] = leaked[k]
      BY <1>1, <1>2
    <2>2. CASE k = p
      BY <1>2, <1>3, <2>1, <2>2
    <2>3. CASE k = q
      BY <1>2, <2>1, <2>3
    <2>4. CASE k # p /\ k # q
      BY <1>2, <2>1, <2>4
    <2> QED  BY <2>2, <2>3, <2>4
  <1> QED  BY <1>1, <1>2, <1>4 DEF MovesPins

\* A step that gives up the pin on p.
LEMMA UnpinMoves ==
    ASSUME PinsInv, NEW t \in TxnIDs, NEW p \in Pages, NEW T, p \notin T,
           pins' = Unpinned(pins, p), leaked' = leaked,
           \A k \in Pages : /\ Pinning(t, k) <=> k \in T \union {p}
                            /\ Pinning(t, k)' <=> k \in T
    PROVE  MovesPins(t, T \union {p}, T)
  <1>1. pins \in [Pages -> Nat] /\ leaked \in [Pages -> Nat]
    BY DEF PinsInv
  <1>2. /\ pins' \in [Pages -> Nat] /\ (pins[p] > 0 => pins'[p] = pins[p] - 1)
        /\ \A k \in Pages : k # p => pins'[k] = pins[k]
    BY <1>1, UnpinnedPins
  <1>3. Astray = {} => pins[p] > 0
    BY HolderPins
  <1>4. Astray = {} => \A k \in Pages :
           pins'[k] + leaked[k] + (IF k \in T \union {p} THEN 1 ELSE 0)
              = pins[k] + leaked'[k] + (IF k \in T THEN 1 ELSE 0)
    <2> SUFFICES ASSUME Astray = {}, NEW k \in Pages
                 PROVE  pins'[k] + leaked[k] + (IF k \in T \union {p} THEN 1 ELSE 0)
                          = pins[k] + leaked'[k] + (IF k \in T THEN 1 ELSE 0)
      OBVIOUS
    <2>1. pins'[k] \in Nat /\ pins[k] \in Nat /\ leaked[k] \in Nat /\ leaked'[k] = leaked[k]
      BY <1>1, <1>2
    <2>2. CASE k = p
      BY <1>2, <1>3, <2>1, <2>2
    <2>3. CASE k # p
      BY <1>2, <2>1, <2>3
    <2> QED  BY <2>2, <2>3
  <1> QED  BY <1>1, <1>2, <1>4 DEF MovesPins

\* A step that takes a pin on p.
LEMMA FetchMoves ==
    ASSUME PinsInv, NEW t \in TxnIDs, NEW p \in Pages, NEW S, p \notin S,
           pins' = Fetched(pins, p), leaked' = leaked,
           \A k \in Pages : /\ Pinning(t, k) <=> k \in S
                            /\ Pinning(t, k)' <=> k \in S \union {p}
    PROVE  MovesPins(t, S, S \union {p})
  <1>1. pins \in [Pages -> Nat] /\ leaked \in [Pages -> Nat]
    BY DEF PinsInv
  <1>2. /\ pins' \in [Pages -> Nat] /\ pins'[p] = pins[p] + 1
        /\ \A k \in Pages : k # p => pins'[k] = pins[k]
    BY <1>1, FetchedPins
  <1>3. ASSUME NEW k \in Pages
        PROVE  pins'[k] + leaked[k] + (IF k \in S THEN 1 ELSE 0)
                  = pins[k] + leaked'[k] + (IF k \in S \union {p} THEN 1 ELSE 0)
    <2>1. pins'[k] \in Nat /\ pins[k] \in Nat /\ leaked[k] \in Nat /\ leaked'[k] = leaked[k]
      BY <1>1, <1>2
    <2>2. CASE k = p
      BY <1>2, <2>1, <2>2
    <2>3. CASE k # p
      BY <1>2, <2>1, <2>3
    <2> QED  BY <2>2, <2>3
  <1> QED  BY <1>1, <1>2, <1>3 DEF MovesPins

\* InsertTuple goes to the next page, pin and all.
LEMMA InsertNextPagePins ==
    ASSUME HeapInv, PinsInv, NEW t \in TxnIDs, Keeps(t), InsertNextPage(t)
    PROVE  PinsInv'
  <1>1. PICK p, q : p = reg[t].page /\ q = link[p]
    OBVIOUS
  <1>2. /\ pc[t] = "insert" /\ p \in Pages /\ q \in Pages /\ q # p
        /\ pins' = Fetched(Unpinned(pins, p), q) /\ leaked' = leaked
    <2>1. /\ pc[t] = "insert" /\ p \in Pages /\ link[p] \in Pages
      BY <1>1 DEF InsertNextPage, HeapInv, PlaceOK
    <2>2. link[p] = p + 1 /\ p \in Nat
      BY <2>1, ChainLinks, PageIds DEF HeapInv
    <2> QED  BY <1>1, <2>1, <2>2 DEF InsertNextPage
  <1>3. pc'[t] = "insert" /\ reg'[t].page = q
    BY <1>1, <1>2 DEF InsertNextPage, HeapInv, HeapTypes, PlaceOK
  <1>4. MovesPins(t, {p}, {q})
    <2>1. \A k \in Pages : (Pinning(t, k) <=> k \in {p}) /\ (Pinning(t, k)' <=> k \in {q})
      BY <1>1, <1>2, <1>3, PlacePins DEF Pinning
    <2> QED  BY <1>2, <2>1, SwapMoves
  <1> QED  BY <1>2, <1>4, PinStep DEF Keeps

\* InsertTuple pins the page it allocates,
LEMMA InsertGrowPins ==
    ASSUME HeapInv, PinsInv, NEW t \in TxnIDs, Keeps(t), InsertGrow(t)
    PROVE  PinsInv'
  <1>1. PICK p : p = reg[t].page
    OBVIOUS
  <1>2. PICK new \in Pages :
           /\ link[new] = Unused
           /\ pins' = Fetched(pins, new)
           /\ GoTo(t, "init", [page |-> p, tuple |-> reg[t].tuple, new |-> new])
    BY <1>1 DEF InsertGrow, NewLastPage
  <1>3. pc[t] = "insert" /\ p \in Pages /\ new # p /\ leaked' = leaked /\ HeapTypes
    BY <1>1, <1>2, PageIds DEF InsertGrow, HeapInv, PlaceOK
  <1>4. pc'[t] = "init" /\ reg'[t].page = p /\ reg'[t].new = new
    BY <1>2, <1>3, GoToPlace DEF Labels
  <1>5. MovesPins(t, {p}, {p} \union {new})
    <2>1. \A k \in Pages : /\ Pinning(t, k) <=> k \in {p}
                           /\ Pinning(t, k)' <=> k \in {p} \union {new}
      BY <1>1, <1>3, <1>4, PlacePins DEF Pinning
    <2> QED  BY <1>2, <1>3, <2>1, FetchMoves
  <1> QED  BY <1>3, <1>5, PinStep DEF Keeps

\* and unpins the full one.
LEMMA InsertInitPins ==
    ASSUME HeapInv, PinsInv, NEW t \in TxnIDs, Keeps(t), InsertInit(t)
    PROVE  PinsInv'
  <1>1. PICK p, new : p = reg[t].page /\ new = reg[t].new
    OBVIOUS
  <1>2. /\ pc[t] = "init" /\ p \in Pages /\ new \in Pages /\ new # p
        /\ pins' = Unpinned(pins, p) /\ leaked' = leaked /\ HeapTypes
        /\ GoTo(t, "insert", [page |-> new, tuple |-> reg[t].tuple])
    BY <1>1 DEF InsertInit, HeapInv, PlaceOK
  <1>3. pc'[t] = "insert" /\ reg'[t].page = new
    BY <1>2, GoToPlace DEF Labels
  <1>4. MovesPins(t, {new} \union {p}, {new})
    <2>1. \A k \in Pages : /\ Pinning(t, k) <=> k \in {new} \union {p}
                           /\ Pinning(t, k)' <=> k \in {new}
      BY <1>1, <1>2, <1>3, PlacePins DEF Pinning
    <2> QED  BY <1>2, <2>1, UnpinMoves
  <1> QED  BY <1>2, <1>4, PinStep DEF Keeps

\* UnpinPage takes back what FetchPage of the same page has added.
LEMMA FetchUnpin ==
    ASSUME NEW pin \in [Pages -> Nat], NEW p \in Pages
    PROVE  /\ Unpinned(Fetched(pin, p), p) = pin
           /\ \A q \in Pages \ {p} :
                 Unpinned(Fetched(Fetched(pin, p), q), p) = Fetched(pin, q)
  <1>1. PICK mid : mid = Fetched(pin, p)
    OBVIOUS
  <1>2. /\ mid \in [Pages -> Nat] /\ mid[p] = pin[p] + 1 /\ pin[p] \in Nat
        /\ \A k \in Pages : k # p => mid[k] = pin[k]
    BY <1>1, FetchedPins
  <1>3. PICK new : new = Unpinned(mid, p)
    OBVIOUS
  <1>4. /\ new \in [Pages -> Nat] /\ new[p] = pin[p]
        /\ \A k \in Pages : k # p => new[k] = pin[k]
    BY <1>2, <1>3, UnpinnedPins
  <1>5. new = pin
    BY <1>4
  <1>6. ASSUME NEW q \in Pages \ {p}
        PROVE  Unpinned(Fetched(mid, q), p) = Fetched(pin, q)
    <2>1. PICK a, b : a = Unpinned(Fetched(mid, q), p) /\ b = Fetched(pin, q)
      OBVIOUS
    <2>2. /\ a \in [Pages -> Nat] /\ a[q] = mid[q] + 1 /\ a[p] = mid[p] - 1
          /\ \A k \in Pages : k # p /\ k # q => a[k] = mid[k]
      BY <1>2, <2>1, SwapPins
    <2>3. /\ b \in [Pages -> Nat] /\ b[q] = pin[q] + 1
          /\ \A k \in Pages : k # q => b[k] = pin[k]
      BY <2>1, FetchedPins
    <2>4. \A k \in Pages : a[k] = b[k]
      BY <1>2, <2>2, <2>3
    <2> QED  BY <2>1, <2>2, <2>3, <2>4
  <1> QED  BY <1>1, <1>3, <1>5, <1>6

\* The iterator goes on behind its tuple: it keeps the page it ends on,
LEMMA IterNextPins ==
    ASSUME HeapInv, PinsInv, NEW t \in TxnIDs, Keeps(t), IterNext(t)
    PROVE  PinsInv'
  <1>1. PICK p, fetched : p = reg[t].rid[1] /\ fetched = Fetched(pins, p)
    OBVIOUS
  <1>2. /\ pc[t] = "next" /\ p \in Pages /\ link[p] \notin {Unused, Raw} /\ leaked' = leaked
        /\ pins \in [Pages -> Nat] /\ HeapTypes /\ Next1(t, p, fetched)
    BY <1>1, RIDPair DEF IterNext, Next1, HeapInv, PlaceOK, PinsInv
  <1>3. \A k \in Pages : ~Pinning(t, k)
    BY <1>2, PlacePins
  <1>4. \/ pins' = fetched /\ pc'[t] = "lock" /\ reg'[t].page = p
        \/ /\ link[p] # NoPage /\ pins' = Unpinned(Fetched(fetched, link[p]), p)
           /\ pc'[t] = "walk" /\ reg'[t].page = link[p]
        \/ pins' = Unpinned(fetched, p) /\ pc'[t] = "idle" /\ reg'[t].page = NoPage
    BY <1>2, GoToPlace DEF Next1, ScanOver, NoReg, Labels
  <1>5. CASE pins' = fetched /\ pc'[t] = "lock" /\ reg'[t].page = p
    <2>1. MovesPins(t, {}, {} \union {p})
      BY <1>1, <1>2, <1>3, <1>5, FetchMoves DEF Pinning
    <2> QED  BY <1>2, <2>1, PinStep DEF Keeps
  <1>6. CASE /\ link[p] # NoPage /\ pins' = Unpinned(Fetched(fetched, link[p]), p)
             /\ pc'[t] = "walk" /\ reg'[t].page = link[p]
    <2>1. PICK q : q = link[p]
      OBVIOUS
    <2>2. q \in Pages \ {p}
      BY <1>2, <1>6, <2>1, ChainLinks, PageIds DEF HeapInv
    <2>3. pins' = Fetched(pins, q)
      BY <1>1, <1>2, <1>6, <2>1, <2>2, FetchUnpin
    <2>4. MovesPins(t, {}, {} \union {q})
      BY <1>2, <1>3, <1>6, <2>1, <2>2, <2>3, FetchMoves DEF Pinning
    <2> QED  BY <1>2, <2>4, PinStep DEF Keeps
  <1>7. CASE pins' = Unpinned(fetched, p) /\ pc'[t] = "idle" /\ reg'[t].page = NoPage
    <2>1. pins' = pins
      BY <1>1, <1>2, <1>7, FetchUnpin
    <2>2. \A k \in Pages : ~Pinning(t, k)'
      BY <1>7, PageIds DEF Pinning
    <2> QED  BY <1>2, <1>3, <2>1, <2>2, QuietPins
  <1> QED  BY <1>4, <1>5, <1>6, <1>7

\* and takes one pin along the chain.
LEMMA IterWalkPins ==
    ASSUME HeapInv, PinsInv, NEW t \in TxnIDs, Keeps(t), IterWalk(t)
    PROVE  PinsInv'
  <1>1. PICK p : p = reg[t].page
    OBVIOUS
  <1>2. /\ pc[t] = "walk" /\ p \in Pages /\ link[p] \notin {Unused, Raw} /\ leaked' = leaked
        /\ HeapTypes /\ Next1(t, p, pins)
    BY <1>1 DEF IterWalk, Next1, HeapInv, PlaceOK
  <1>3. \A k \in Pages : Pinning(t, k) <=> k \in {p}
    BY <1>1, <1>2, PlacePins
  <1>4. \/ pins' = pins /\ pc'[t] = "lock" /\ reg'[t].page = p
        \/ /\ link[p] # NoPage /\ pins' = Unpinned(Fetched(pins, link[p]), p)
           /\ pc'[t] = "walk" /\ reg'[t].page = link[p]
        \/ pins' = Unpinned(pins, p) /\ pc'[t] = "idle" /\ reg'[t].page = NoPage
    BY <1>2, GoToPlace DEF Next1, ScanOver, NoReg, Labels
  <1>5. CASE pins' = pins /\ pc'[t] = "lock" /\ reg'[t].page = p
    <2>1. \A k \in Pages : Pinning(t, k)' <=> Pinning(t, k)
      BY <1>3, <1>5 DEF Pinning
    <2> QED  BY <1>2, <1>5, <2>1, QuietPins
  <1>6. CASE /\ link[p] # NoPage /\ pins' = Unpinned(Fetched(pins, link[p]), p)
             /\ pc'[t] = "walk" /\ reg'[t].page = link[p]
    <2>1. PICK q : q = link[p]
      OBVIOUS
    <2>2. q \in Pages \ {p}
      BY <1>2, <1>6, <2>1, ChainLinks, PageIds DEF HeapInv
    <2>3. \A k \in Pages : Pinning(t, k)' <=> k \in {q}
      BY <1>6, <2>1 DEF Pinning
    <2>4. MovesPins(t, {p}, {q})
      BY <1>2, <1>3, <1>6, <2>1, <2>2, <2>3, SwapMoves
    <2> QED  BY <1>2, <2>4, PinStep DEF Keeps
  <1>7. CASE pins' = Unpinned(pins, p) /\ pc'[t] = "idle" /\ reg'[t].page = NoPage
    <2>1. \A k \in Pages : (Pinning(t, k) <=> k \in {} \union {p}) /\ ~Pinning(t, k)'
      BY <1>3, <1>7, PageIds DEF Pinning
    <2>2. MovesPins(t, {} \union {p}, {})
      BY <1>2, <1>7, <2>1, UnpinMoves
    <2> QED  BY <1>2, <2>2, PinStep DEF Keeps
  <1> QED  BY <1>4, <1>5, <1>6, <1>7

\* GetTuple's caller gives its page back, if it has one.
LEMMA GiveBackPins ==
    ASSUME HeapInv, PinsInv, NEW t \in TxnIDs, Keeps(t), pc[t] \in {"lock", "read"},
           pins' = GiveBack(t), leaked' = leaked,
           pc'[t] \in {"idle", "next"}, reg'[t].page = NoPage
    PROVE  PinsInv'
  <1>1. PICK p : p = reg[t].page
    OBVIOUS
  <1>2. \A k \in Pages : (Pinning(t, k) <=> k \in {p}) /\ ~Pinning(t, k)'
    BY <1>1, PlacePins, PageIds DEF Pinning
  <1>3. CASE p = NoPage
    BY <1>1, <1>2, <1>3, QuietPins, PageIds DEF GiveBack
  <1>4. CASE p # NoPage
    <2>1. p \in Pages /\ pins' = Unpinned(pins, p)
      BY <1>1, <1>4 DEF GiveBack, HeapInv, PlaceOK
    <2>2. MovesPins(t, {} \union {p}, {})
      BY <1>2, <2>1, UnpinMoves
    <2> QED  BY <2>2, PinStep DEF Keeps
  <1> QED  BY <1>3, <1>4

\* A refused lock gives the page back, a granted one keeps it.
LEMMA ScanLockPins ==
    ASSUME HeapInv, PinsInv, NEW t \in TxnIDs, Keeps(t), ScanLock(t)
    PROVE  PinsInv'
  <1>1. pc[t] = "lock" /\ leaked' = leaked /\ HeapTypes
    BY DEF ScanLock, HeapInv
  <1>2. \/ GoTo(t, "read", reg[t]) /\ pins' = pins
        \/ ScanOver(t) /\ pins' = GiveBack(t)
    BY DEF ScanLock
  <1>3. CASE GoTo(t, "read", reg[t]) /\ pins' = pins
    <2>1. pc'[t] = "read" /\ reg'[t] = reg[t]
      BY <1>1, <1>3, GoToPlace DEF Labels
    <2>2. \A k \in Pages : Pinning(t, k)' <=> Pinning(t, k)
      BY <1>1, <2>1 DEF Pinning
    <2> QED  BY <1>1, <1>3, <2>2, QuietPins
  <1>4. CASE ScanOver(t) /\ pins' = GiveBack(t)
    <2>1. pc'[t] = "idle" /\ reg'[t].page = NoPage
      BY <1>1, <1>4, GoToPlace DEF Labels, ScanOver, NoReg
    <2> QED  BY <1>1, <1>4, <2>1, GiveBackPins
  <1> QED  BY <1>2, <1>3, <1>4

\* GetTuple read, the page is given back.
LEMMA ScanReadPins ==
    ASSUME HeapInv, PinsInv, NEW t \in TxnIDs, Keeps(t), ScanRead(t)
    PROVE  PinsInv'
  <1>1. pc[t] = "read" /\ leaked' = leaked /\ HeapTypes /\ pins' = GiveBack(t)
    BY DEF ScanRead, HeapInv
  <1>2. ScanOver(t) \/ GoTo(t, "next", [page |-> NoPage, rid |-> reg[t].rid])
    BY DEF ScanRead
  <1>3. pc'[t] \in {"idle", "next"} /\ reg'[t].page = NoPage
    BY <1>1, <1>2, GoToPlace DEF Labels, ScanOver, NoReg
  <1> QED  BY <1>1, <1>3, GiveBackPins

\* Commit and Abort leave the page of a tuple they drop pinned for good.
LEMMA EndStepPins ==
    ASSUME HeapInv, PinsInv, NEW t \in TxnIDs, Keeps(t), EndStep(t)
    PROVE  PinsInv'
  <1>1. PICK n, r : n = Len(write_set[t]) /\ r = write_set[t][n].rid
    OBVIOUS
  <1>2. /\ pc[t] \in {"commit", "abort"} /\ pc' = pc /\ reg' = reg /\ HeapTypes
        /\ pins \in [Pages -> Nat] /\ leaked \in [Pages -> Nat]
    BY DEF EndStep, HeapInv, PinsInv
  <1>3. r[1] \in Pages
    <2>1. write_set[t] \in Seq(WriteRecord) /\ write_set[t] # << >>
      BY <1>2 DEF EndStep, HeapTypes
    <2>2. n \in 1 .. Len(write_set[t])
      BY <1>1, <2>1, EmptySeq
    <2>3. write_set[t][n] \in WriteRecord
      BY <2>1, <2>2, ElementOfSeq
    <2>4. r \in RIDs
      BY <1>1, <2>3 DEF WriteRecord
    <2> QED  BY <2>4, RIDPair
  <1>4. \A k \in Pages : ~Pinning(t, k) /\ ~Pinning(t, k)'
    <2>1. \A k \in Pages : ~Pinning(t, k) /\ (Pinning(t, k)' <=> Pinning(t, k))
      BY <1>2, PlacePins DEF Pinning
    <2> QED  BY <2>1
  <1>5. \/ pins' = Fetched(pins, r[1]) /\ leaked' = Fetched(leaked, r[1])
        \/ UNCHANGED <<pins, leaked>>
    BY <1>1 DEF EndStep, DropLeaking
  <1>6. CASE pins' = Fetched(pins, r[1]) /\ leaked' = Fetched(leaked, r[1])
    <2>1. /\ pins' \in [Pages -> Nat] /\ pins'[r[1]] = pins[r[1]] + 1
          /\ \A k \in Pages : k # r[1] => pins'[k] = pins[k]
      BY <1>2, <1>3, <1>6, FetchedPins
    <2>2. /\ leaked' \in [Pages -> Nat] /\ leaked'[r[1]] = leaked[r[1]] + 1
          /\ \A k \in Pages : k # r[1] => leaked'[k] = leaked[k]
      BY <1>2, <1>3, <1>6, FetchedPins
    <2>3. \A k \in Pages : pins'[k] + leaked[k] = pins[k] + leaked'[k]
      BY <1>2, <2>1, <2>2
    <2>4. \A k \in Pages : pins'[k] + leaked[k] + 0 = pins[k] + leaked'[k] + 0
      BY <1>2, <2>1, <2>2, <2>3
    <2>5. MovesPins(t, {}, {})
      BY <1>4, <2>1, <2>2, <2>4 DEF MovesPins
    <2> QED  BY <1>2, <2>5, PinStep DEF Keeps
  <1>7. CASE UNCHANGED <<pins, leaked>>
    BY <1>2, <1>4, <1>7, QuietPins
  <1> QED  BY <1>5, <1>6, <1>7

\* Every step keeps the account.
LEMMA PinsNext == HeapInv /\ PinsInv /\ [Next]_vars => PinsInv'
  <1> SUFFICES ASSUME HeapInv, PinsInv, [Next]_vars PROVE PinsInv'
    OBVIOUS
  <1>1. CASE UNCHANGED vars
    <2>1. pins' = pins /\ leaked' = leaked /\ pc' = pc /\ reg' = reg
      BY <1>1 DEF vars, pageVars
    <2>2. Astray' = Astray /\ \A p : Holders(p)' = Holders(p)
      BY <2>1 DEF Astray, Holders, Pinning
    <2> QED  BY <2>1, <2>2 DEF PinsInv, PinsMatch
  <1>2. CASE Next
    <2>1. PICK t \in TxnIDs :
             \/ Step(t) \/ EndStart(t) \/ Scan(t)
             \/ \E v \in Tuples : InsertTuple(t, v)
             \/ \E r \in KnownRIDs : MarkDelete(t, r)
      BY <1>2 DEF Next
    <2>2. CASE Step(t)
      <3>1. CASE InsertAstray(t) \/ ScanAstray(t)
        BY <3>1, AstrayPins DEF InsertAstray, ScanAstray
      <3>2. CASE InsertHere(t) \/ InsertNextPage(t) \/ InsertGrow(t) \/ InsertInit(t)
        BY <3>2, InsertHereKeeps, InsertNextPageKeeps, InsertGrowKeeps, InsertInitKeeps,
           InsertHerePins, InsertNextPagePins, InsertGrowPins, InsertInitPins
      <3>3. CASE IterNext(t) \/ IterWalk(t)
        <4>1. Keeps(t)
          BY <3>3, Next1Keeps DEF IterNext, IterWalk
        <4> QED  BY <3>3, <4>1, IterNextPins, IterWalkPins
      <3>4. CASE ScanLock(t) \/ ScanRead(t) \/ EndStep(t)
        BY <3>4, ScanLockKeeps, ScanReadKeeps, EndStepKeeps, ScanLockPins, ScanReadPins,
           EndStepPins
      <3>5. CASE GetFirstTuple(t) \/ Release(t)
        BY <3>5, GetFirstTupleKeeps, ReleaseKeeps, PlainPins
      <3> QED  BY <2>2, <3>1, <3>2, <3>3, <3>4, <3>5 DEF Step
    <2>3. CASE EndStart(t) \/ Scan(t)
      BY <2>3, EndStartKeeps, ScanKeeps, PlainPins
    <2>4. CASE \E v \in Tuples : InsertTuple(t, v)
      BY <2>4, InsertTupleKeeps, InsertTuplePins
    <2>5. CASE \E r \in KnownRIDs : MarkDelete(t, r)
      BY <2>5, MarkDeleteKeeps, PlainPins
    <2> QED  BY <2>1, <2>2, <2>3, <2>4, <2>5
  <1> QED  BY <1>1, <1>2

\* A goroutine that has a page pinned has it pinned once.
LEMMA PinnedOnce ==
    ASSUME HeapInv, NEW t \in TxnIDs, NEW p \in Pages, pc[t] # "astray"
    PROVE  PinsOf(t, p) = 1 <=> Pinning(t, p)
  <1>1. CASE pc[t] # "init"
    BY <1>1 DEF PinsOf, Pinning
  <1>2. CASE pc[t] = "init"
    <2>1. PICK A : A = {q \in {"page", "new"} : reg[t][q] = p}
      OBVIOUS
    <2>2. reg[t].new # reg[t].page
      BY <1>2 DEF HeapInv, PlaceOK
    <2>3. Cardinality({"page"}) = 1 /\ Cardinality({"new"}) = 1 /\ Cardinality({}) = 0
      BY FS_Singleton, FS_EmptySet
    <2>4. CASE reg[t].page = p
      <3>1. A = {"page"}
        BY <2>1, <2>2, <2>4
      <3> QED  BY <1>2, <2>1, <2>3, <2>4, <3>1 DEF PinsOf, Pinning
    <2>5. CASE reg[t].new = p
      <3>1. A = {"new"}
        BY <2>1, <2>2, <2>5
      <3> QED  BY <1>2, <2>1, <2>3, <2>5, <3>1 DEF PinsOf, Pinning
    <2>6. CASE reg[t].page # p /\ reg[t].new # p
      <3>1. A = {}
        BY <2>1, <2>6
      <3> QED  BY <1>2, <2>1, <2>3, <2>6, <3>1 DEF PinsOf, Pinning
    <2> QED  BY <2>4, <2>5, <2>6
  <1> QED  BY <1>1, <1>2

\* Whatever inserts, scans, deletes and ends of transactions run at once, a
\* page has exactly the pins of the goroutines working on it and the leaked
\* ones, as long as nobody has gone astray on a page before its Init.
THEOREM PinsAreAccountedFor == Spec => []PinsAccounted
  <1>1. HeapInv /\ PinsInv => PinsAccounted
    <2> SUFFICES ASSUME HeapInv, PinsInv, Astray = {}, NEW p \in Pages
                 PROVE  pins[p] = leaked[p] + Cardinality({t \in TxnIDs : PinsOf(t, p) = 1})
      BY DEF PinsAccounted
    <2>1. \A t \in TxnIDs : pc[t] # "astray"
      BY DEF Astray
    <2>2. {t \in TxnIDs : PinsOf(t, p) = 1} = Holders(p)
      BY <2>1, PinnedOnce DEF Holders
    <2> QED  BY <2>2 DEF PinsInv, PinsMatch
  <1>2. Spec => []PinsInv
    BY InitInv, PinsNext, HeapInvariance, PTL DEF Spec
  <1> QED  BY <1>1, <1>2, HeapInvariance, PTL
============================================================================
