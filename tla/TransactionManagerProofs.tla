---------------------- MODULE TransactionManagerProofs ----------------------
(***************************************************************************)
(* Proofs about TransactionManager, for any number of transactions, pages, *)
(* tuples and calls.                                                       *)
(***************************************************************************)
EXTENDS TransactionManager, LockManagerProofs, TableSlotsProofs

----------------------------------------------------------------------------
(* The inductive invariant.                                                *)

WriteRecord ==
    [rid : RIDs, wtype : {"INSERT", "DELETE"}]
        \union [rid : RIDs, wtype : {"UPDATE"}, tuple : Tuples]

Labels == {"unborn", "run", "read", "insert", "move", "commit", "abort", "release", "done"}

\* The types of the variables; what is in the registers is CallOK.
TxnTypeOK ==
    /\ pages \in Seq(Page)
    /\ Len(pages) >= 1
    /\ state \in [TxnIDs -> {"GROWING", "COMMITTED", "ABORTED"}]
    /\ write_set \in [TxnIDs -> Seq(WriteRecord)]
    /\ undo \in [TxnIDs -> Seq(WriteRecord)]
    /\ pc \in [TxnIDs -> Labels]
    /\ call = [t \in TxnIDs |-> call[t]]
    /\ committed \in [RIDs -> Slot]

InsertCall ==
    [caller : {"client"}, tuple : Tuples, page : Nat]
        \union [caller : {"update", "rollback"}, rid : RIDs, old : Tuples,
                tuple : Tuples, page : Nat]

MoveCall == [caller : {"update", "rollback"}, rid : RIDs, tuple : Tuples, old : Tuples]

\* The registers of an operation in progress fit its place.  A tuple that is
\* moved was locked when it was marked.
CallOK(t) ==
    /\ pc[t] = "read" =>
          /\ call[t] \in [caller : {"client"}, rid : RIDs]
          /\ call[t].rid \in KnownRIDs
          /\ call[t].rid \in shared_lock_set[t] \union exclusive_lock_set[t]
    /\ pc[t] = "insert" =>
          /\ call[t] \in InsertCall
          /\ call[t].page \in 1 .. Len(pages)
          /\ call[t].caller = "update" =>
                /\ call[t].rid \in exclusive_lock_set[t]
                /\ IsFull(Content(call[t].rid))
    /\ pc[t] = "move" => call[t] \in MoveCall /\ call[t].rid \in KnownRIDs

RollingBack(t) ==
    pc[t] = "abort" \/ (pc[t] \in {"insert", "move"} /\ call[t].caller = "rollback")

Ending(t) == pc[t] \in {"commit", "release", "done"} \/ RollingBack(t)

\* How far a transaction has come: its state, its lock sets and the latch.
PhaseOK(t) ==
    /\ t \in released <=> pc[t] = "done"
    /\ pc[t] \in {"release", "done"} => undo[t] = << >>
    /\ pc[t] = "unborn" => /\ write_set[t] = << >>
                           /\ shared_lock_set[t] = {}
                           /\ exclusive_lock_set[t] = {}
    /\ pc[t] = "commit" => state[t] = "COMMITTED"
    /\ state[t] = "COMMITTED" => pc[t] \in {"commit", "release", "done"}
    /\ latch = "held" => pc[t] \in {"unborn", "done"}

\* The records t has still to undo if it aborts, or to apply if it commits.
Writes(t) == IF Ending(t) THEN undo[t] ELSE write_set[t]

\* They are about tuples t has locked, each inserted once and deleted once.  A
\* tuple that t wrote is there until t ends; it is marked if t deleted it.
\* Commit finds the tuples it has to drop, and so does Abort.
WritesOK(t) ==
    /\ \A i \in 1 .. Len(Writes(t)) : Writes(t)[i].rid \in exclusive_lock_set[t]
    /\ \A i, j \in 1 .. Len(Writes(t)) :
          i # j /\ Writes(t)[i].rid = Writes(t)[j].rid
              => Writes(t)[i].wtype # Writes(t)[j].wtype \/ Writes(t)[i].wtype = "UPDATE"
    /\ ~Ending(t) => \A i \in 1 .. Len(Writes(t)) :
          /\ IsFull(Content(Writes(t)[i].rid))
          /\ Writes(t)[i].wtype = "DELETE" => IsDeleted(Content(Writes(t)[i].rid))
    /\ pc[t] = "commit" => \A i \in 1 .. Len(Writes(t)) :
          Writes(t)[i].wtype = "DELETE" => IsFull(Content(Writes(t)[i].rid))
    /\ RollingBack(t) => \A i \in 1 .. Len(Writes(t)) :
          Writes(t)[i].wtype = "INSERT" => IsFull(Content(Writes(t)[i].rid))

TxnInv ==
    /\ TxnTypeOK
    /\ LockInv
    /\ \A t \in TxnIDs : /\ exclusive_lock_set[t] \subseteq KnownRIDs
                         /\ CallOK(t)
                         /\ PhaseOK(t)
                         /\ WritesOK(t)

(***************************************************************************)
(* With tuples of one size an update always fits in place.  Then undoing   *)
(* the records of t leads back to the committed content: the first record  *)
(* about a tuple says what it was, an insert is the first record about its *)
(* tuple and a delete the last.                                            *)
(***************************************************************************)
OneTupleSize == \A v, w \in Tuples : TupleSize[v] = TupleSize[w]

About(t, r) == {i \in 1 .. Len(Writes(t)) : Writes(t)[i].rid = r}

\* What record i, the first one about r, says of the committed content.
Restores(t, r, i) ==
    LET item == Writes(t)[i] IN
    /\ item.wtype = "INSERT" => committed[r] = EmptySlot
    /\ item.wtype = "UPDATE" => committed[r] = LiveSlot(item.tuple)
    /\ item.wtype = "DELETE" => Content(r) = MarkedSlot(committed[r].tuple)
                                /\ ~IsDeleted(committed[r])

UndoRestores(t, r) ==
    /\ About(t, r) = {} => Content(r) = committed[r]
    /\ \A i \in About(t, r) :
          /\ (\A j \in About(t, r) : i <= j) => Restores(t, r, i)
          /\ Writes(t)[i].wtype = "INSERT" => \A j \in About(t, r) : i <= j
          /\ Writes(t)[i].wtype = "DELETE" => \A j \in About(t, r) : j <= i
          /\ IsFull(Content(r))
          /\ IsDeleted(Content(r)) => \E j \in About(t, r) : Writes(t)[j].wtype = "DELETE"
          /\ Writes(t)[i].wtype = "DELETE" => IsDeleted(Content(r))

InPlace(t) == pc[t] # "move" /\ (pc[t] = "insert" => call[t].caller = "client")

CommittedInv ==
    /\ UnlockedIsCommitted
    /\ \A t \in TxnIDs : InPlace(t)
    /\ \A t \in TxnIDs \ released : state[t] # "COMMITTED" =>
          \A r \in exclusive_lock_set[t] : UndoRestores(t, r)

----------------------------------------------------------------------------
(* What the steps do to the pages.                                         *)

\* A record id is its page and its slot.
LEMMA RIDPair ==
    \A r \in RIDs : r[1] \in Nat \ {0} /\ r[2] \in Nat \ {0} /\ r = <<r[1], r[2]>>
  BY TransactionAssumption

\* The step stores slot at r and leaves all other slots as they are.
Wrote(r, slot) ==
    /\ Content(r)' = slot
    /\ \A q \in RIDs \ {r} : Content(q)' = Content(q)

\* The slots of a page are slots.
LEMMA ContentType ==
    ASSUME pages \in Seq(Page), NEW r \in RIDs
    PROVE  /\ Content(r) \in Slot
           /\ IsFull(Content(r)) => r \in KnownRIDs
           /\ r \in KnownRIDs =>
                /\ r[1] \in 1 .. Len(pages) /\ pages[r[1]] \in Page
                /\ r[2] \in 1 .. Len(pages[r[1]].slots)
                /\ Content(r) = pages[r[1]].slots[r[2]]
  <1>1. r[1] \in Nat \ {0} /\ r[2] \in Nat \ {0}
    BY RIDPair
  <1>2. CASE r \in KnownRIDs
    <2>1. r[1] \in 1 .. Len(pages) /\ pages[r[1]] \in Page
      BY <1>1, <1>2 DEF KnownRIDs
    <2>2. /\ r[2] \in 1 .. Len(pages[r[1]].slots)
          /\ Content(r) = pages[r[1]].slots[r[2]]
      BY <1>1, <1>2, <2>1 DEF KnownRIDs, Content, Page
    <2> QED  BY <1>2, <2>1, <2>2 DEF Page
  <1>3. CASE r \notin KnownRIDs
    BY <1>3, SlotKinds DEF KnownRIDs, Content
  <1> QED  BY <1>2, <1>3

\* A change of the slot of r in its page is a write of r.
LEMMA SlotWritten ==
    ASSUME pages \in Seq(Page), NEW r \in KnownRIDs, NEW pg2, NEW slot,
           SlotChanged(pages[r[1]], pg2, r[2], slot),
           pages' = [pages EXCEPT ![r[1]] = pg2]
    PROVE  /\ pages' \in Seq(Page) /\ Len(pages') = Len(pages)
           /\ KnownRIDs' = KnownRIDs
           /\ Wrote(r, slot)
  <1>1. r \in RIDs
    BY DEF KnownRIDs
  <1>2. r[1] \in 1 .. Len(pages) /\ r[2] \in 1 .. Len(pages[r[1]].slots)
    BY <1>1, ContentType
  <1>3. /\ pg2 \in Page /\ Len(pg2.slots) = Len(pages[r[1]].slots)
        /\ pg2.slots[r[2]] = slot
        /\ \A m \in 1 .. Len(pages[r[1]].slots) :
               m # r[2] => pg2.slots[m] = pages[r[1]].slots[m]
    BY DEF SlotChanged
  <1>4. pages' \in Seq(Page) /\ Len(pages') = Len(pages)
    BY <1>2, <1>3
  <1>5. /\ pages'[r[1]] = pg2
        /\ \A p \in 1 .. Len(pages) : p # r[1] => pages'[p] = pages[p]
    BY <1>2, <1>3
  <1>6. \A p \in 1 .. Len(pages) : Len(pages'[p].slots) = Len(pages[p].slots)
    BY <1>3, <1>5
  <1>7. KnownRIDs' = KnownRIDs
    BY <1>4, <1>6, RIDPair DEF KnownRIDs
  <1>8. Content(r)' = slot
    BY <1>2, <1>3, <1>4, <1>5 DEF Content
  <1>9. ASSUME NEW q \in RIDs \ {r} PROVE Content(q)' = Content(q)
    <2>1. q[1] \in Nat \ {0} /\ q[2] \in Nat \ {0} /\ (q[1] # r[1] \/ q[2] # r[2])
      BY <1>1, RIDPair
    <2>2. CASE q[1] > Len(pages)
      BY <1>4, <2>1, <2>2 DEF Content
    <2>3. CASE q[1] <= Len(pages) /\ q[2] > Len(pages[q[1]].slots)
      BY <1>4, <1>6, <2>1, <2>3 DEF Content
    <2>4. CASE q[1] <= Len(pages) /\ q[2] <= Len(pages[q[1]].slots)
      <3>1. /\ Content(q)' = pages'[q[1]].slots[q[2]]
            /\ Content(q) = pages[q[1]].slots[q[2]]
        BY <1>4, <1>6, <2>1, <2>4 DEF Content
      <3>2. pages'[q[1]].slots[q[2]] = pages[q[1]].slots[q[2]]
        BY <1>3, <1>5, <2>1, <2>4
      <3> QED  BY <3>1, <3>2
    <2>5. q[1] \in Nat /\ q[2] \in Nat /\ Len(pages) \in Nat
          /\ (q[1] <= Len(pages) => Len(pages[q[1]].slots) \in Nat)
      <3>1. Len(pages) \in Nat
        OBVIOUS
      <3>2. ASSUME q[1] <= Len(pages) PROVE pages[q[1]] \in Page
        BY <2>1, <3>1, <3>2
      <3>3. ASSUME q[1] <= Len(pages) PROVE Len(pages[q[1]].slots) \in Nat
        BY <3>2, <3>3 DEF Page
      <3> QED  BY <2>1, <3>1, <3>3
    <2> QED  BY <2>2, <2>3, <2>4, <2>5
  <1> QED  BY <1>4, <1>7, <1>8, <1>9 DEF Wrote

\* MarkDelete writes the mark.
LEMMA MarkWrites ==
    ASSUME pages \in Seq(Page), NEW r \in KnownRIDs, ~IsDeleted(Content(r)),
           pages' = [pages EXCEPT ![r[1]] = MarkTuple(@, r[2])]
    PROVE  /\ pages' \in Seq(Page) /\ Len(pages') = Len(pages) /\ KnownRIDs' = KnownRIDs
           /\ Wrote(r, MarkedSlot(Content(r).tuple))
  <1>1. /\ r \in RIDs /\ pages[r[1]] \in Page /\ r[1] \in 1 .. Len(pages)
        /\ r[2] \in 1 .. Len(pages[r[1]].slots)
        /\ Content(r) = pages[r[1]].slots[r[2]]
    BY ContentType DEF KnownRIDs
  <1>2. SlotChanged(pages[r[1]], MarkTuple(pages[r[1]], r[2]), r[2],
                    MarkedSlot(Content(r).tuple))
    BY <1>1, MarkTuplePage
  <1>3. pages' = [pages EXCEPT ![r[1]] = MarkTuple(pages[r[1]], r[2])]
    OBVIOUS
  <1> QED  BY <1>2, <1>3, SlotWritten

\* RollbackDelete writes the tuple without the mark.
LEMMA UnmarkWrites ==
    ASSUME pages \in Seq(Page), NEW r \in KnownRIDs,
           pages' = [pages EXCEPT ![r[1]] = UnmarkTuple(@, r[2])]
    PROVE  /\ pages' \in Seq(Page) /\ Len(pages') = Len(pages) /\ KnownRIDs' = KnownRIDs
           /\ Wrote(r, IF IsFull(Content(r)) THEN LiveSlot(Content(r).tuple) ELSE EmptySlot)
  <1>1. /\ r \in RIDs /\ pages[r[1]] \in Page /\ r[1] \in 1 .. Len(pages)
        /\ r[2] \in 1 .. Len(pages[r[1]].slots)
        /\ Content(r) = pages[r[1]].slots[r[2]]
    BY ContentType DEF KnownRIDs
  <1>2. SlotChanged(pages[r[1]], UnmarkTuple(pages[r[1]], r[2]), r[2],
                    IF IsFull(Content(r)) THEN LiveSlot(Content(r).tuple) ELSE EmptySlot)
    BY <1>1, UnmarkTuplePage
  <1>3. pages' = [pages EXCEPT ![r[1]] = UnmarkTuple(pages[r[1]], r[2])]
    OBVIOUS
  <1> QED  BY <1>2, <1>3, SlotWritten

\* ApplyDelete empties the slot of its tuple.
LEMMA DropWrites ==
    ASSUME pages \in Seq(Page), NEW r \in RIDs, IsFull(Content(r)),
           pages' = [pages EXCEPT ![r[1]] = DropTuple(@, r[2])]
    PROVE  /\ pages' \in Seq(Page) /\ Len(pages') = Len(pages) /\ KnownRIDs' = KnownRIDs
           /\ Wrote(r, EmptySlot)
  <1>1. /\ r \in KnownRIDs /\ pages[r[1]] \in Page /\ r[1] \in 1 .. Len(pages)
        /\ r[2] \in 1 .. Len(pages[r[1]].slots)
        /\ Content(r) = pages[r[1]].slots[r[2]]
    BY ContentType
  <1>2. SlotChanged(pages[r[1]], DropTuple(pages[r[1]], r[2]), r[2], EmptySlot)
    BY <1>1, DropTuplePage
  <1>3. pages' = [pages EXCEPT ![r[1]] = DropTuple(pages[r[1]], r[2])]
    OBVIOUS
  <1> QED  BY <1>1, <1>2, <1>3, SlotWritten

\* UpdateTuple in place writes the new tuple.
LEMMA ReplaceWrites ==
    ASSUME pages \in Seq(Page), NEW r \in KnownRIDs, NEW v \in Tuples,
           ~IsDeleted(Content(r)), RoomToUpdate(pages[r[1]], r[2], v),
           pages' = [pages EXCEPT ![r[1]] = ReplaceTuple(@, r[2], v)]
    PROVE  /\ pages' \in Seq(Page) /\ Len(pages') = Len(pages) /\ KnownRIDs' = KnownRIDs
           /\ Wrote(r, LiveSlot(v))
  <1>1. /\ r \in RIDs /\ pages[r[1]] \in Page /\ r[1] \in 1 .. Len(pages)
        /\ r[2] \in 1 .. Len(pages[r[1]].slots)
        /\ Content(r) = pages[r[1]].slots[r[2]]
    BY ContentType DEF KnownRIDs
  <1>2. SlotChanged(pages[r[1]], ReplaceTuple(pages[r[1]], r[2], v), r[2], LiveSlot(v))
    BY <1>1, ReplaceTuplePage
  <1>3. pages' = [pages EXCEPT ![r[1]] = ReplaceTuple(pages[r[1]], r[2], v)]
    OBVIOUS
  <1> QED  BY <1>2, <1>3, SlotWritten

\* InsertTuple on page p writes a slot that was empty.
LEMMA PutWrites ==
    ASSUME pages \in Seq(Page), NEW p \in 1 .. Len(pages), NEW v \in Tuples,
           RoomToInsert(pages[p], v),
           NEW r \in RIDs, r = <<p, InsertSlot(pages[p])>>,
           pages' = [pages EXCEPT ![p] = PutTuple(@, v)]
    PROVE  /\ pages' \in Seq(Page) /\ Len(pages') = Len(pages)
           /\ KnownRIDs' = KnownRIDs \union {r}
           /\ Content(r) = EmptySlot
           /\ Wrote(r, LiveSlot(v))
  <1> DEFINE n == InsertSlot(pages[p])
             old == pages[p]
             new == PutTuple(pages[p], v)
  <1>1. r[1] = p /\ r[2] = n /\ old \in Page /\ Len(old.slots) \in Nat
    <2>1. r[1] = p /\ r[2] = n
      OBVIOUS
    <2>2. old \in Page
      OBVIOUS
    <2> QED  BY <2>1, <2>2 DEF Page
  <1>2. n \in 1 .. Len(old.slots) + 1 /\ (n <= Len(old.slots) => old.slots[n] = EmptySlot)
    BY <1>1, InsertSlotIsFree
  <1>3. /\ new \in Page
        /\ Len(new.slots) = IF n <= Len(old.slots) THEN Len(old.slots) ELSE Len(old.slots) + 1
        /\ new.slots[n] = LiveSlot(v)
        /\ \A m \in 1 .. Len(old.slots) : m # n => new.slots[m] = old.slots[m]
    BY <1>1, PutTuplePage
  <1>4. /\ pages' \in Seq(Page) /\ Len(pages') = Len(pages)
        /\ pages'[p] = new
        /\ \A k \in 1 .. Len(pages) : k # p => pages'[k] = pages[k]
    BY <1>3
  <1> HIDE DEF n, old, new
  <1>5. Content(r) = EmptySlot
    BY <1>1, <1>2 DEF Content, old
  <1>6. Content(r)' = LiveSlot(v)
    BY <1>1, <1>2, <1>3, <1>4 DEF Content
  <1>7. ASSUME NEW q \in RIDs \ {r}
        PROVE  Content(q)' = Content(q) /\ (q \in KnownRIDs' <=> q \in KnownRIDs)
    <2>1. q[1] \in Nat \ {0} /\ q[2] \in Nat \ {0} /\ (q[1] # p \/ q[2] # n)
      BY <1>1, RIDPair
    <2>2. CASE q[1] # p
      BY <1>4, <2>1, <2>2 DEF Content, KnownRIDs
    <2>3. CASE q[1] = p
      <3>1. q[2] <= Len(new.slots) <=> q[2] <= Len(old.slots)
        BY <1>1, <1>2, <1>3, <2>1, <2>3
      <3>2. q[2] <= Len(old.slots) => new.slots[q[2]] = old.slots[q[2]]
        BY <1>1, <1>3, <2>1, <2>3
      <3> QED  BY <1>4, <2>3, <3>1, <3>2 DEF Content, KnownRIDs, old
    <2> QED  BY <2>2, <2>3
  <1>8. r \in KnownRIDs'
    BY <1>1, <1>2, <1>3, <1>4 DEF KnownRIDs
  <1>9. KnownRIDs' = KnownRIDs \union {r}
    BY <1>7, <1>8 DEF KnownRIDs
  <1> QED  BY <1>4, <1>5, <1>6, <1>7, <1>9 DEF Wrote

\* A page that is appended is empty.
LEMMA AppendWritesNothing ==
    ASSUME pages \in Seq(Page), pages' = Append(pages, EmptyPage)
    PROVE  /\ pages' \in Seq(Page) /\ Len(pages') = Len(pages) + 1
           /\ KnownRIDs' = KnownRIDs
           /\ \A q \in RIDs : Content(q)' = Content(q)
  <1>1. /\ pages' \in Seq(Page) /\ Len(pages') = Len(pages) + 1
        /\ pages'[Len(pages) + 1] = EmptyPage
        /\ \A p \in 1 .. Len(pages) : pages'[p] = pages[p]
    BY EmptyPageIsPage
  <1>2. ASSUME NEW q \in RIDs
        PROVE  Content(q)' = Content(q) /\ (q \in KnownRIDs' <=> q \in KnownRIDs)
    <2>1. q[1] \in Nat \ {0} /\ q[2] \in Nat \ {0}
      BY RIDPair
    <2>2. CASE q[1] <= Len(pages)
      BY <1>1, <2>1, <2>2 DEF Content, KnownRIDs
    <2>3. CASE q[1] = Len(pages) + 1
      BY <1>1, <2>1, <2>3, EmptyPageIsPage DEF Content, KnownRIDs
    <2>4. CASE q[1] > Len(pages) + 1
      BY <1>1, <2>1, <2>4 DEF Content, KnownRIDs
    <2> QED  BY <2>1, <2>2, <2>3, <2>4
  <1>3. KnownRIDs' = KnownRIDs
    BY <1>2 DEF KnownRIDs
  <1> QED  BY <1>1, <1>2, <1>3

----------------------------------------------------------------------------
(* What the steps do to the locks, and what a step of t leaves to others.  *)

\* The choice of UpdateTuple and MarkDelete has the effect of a request for an
\* exclusive lock.
LEMMA LockForWriteEffect ==
    ASSUME LockInv, NEW t \in TxnIDs, t \notin released, NEW r \in RIDs,
           NEW granted \in BOOLEAN, LockForWrite(t, r, granted)
    PROVE  LockEffect(t, r, granted)
  <1>1. CASE IsSharedLocked(t, r) /\ LockUpgrade(t, r, granted)
    <2>1. LockNext
      BY <1>1 DEF LockNext
    <2>2. exclusive_lock_table[r] # t
      BY <1>1 DEF LockInv, LockSetsMatchTables, IsSharedLocked
    <2> QED  BY <1>1, <2>1, <2>2, NoTxnAssumption
             DEF LockEffect, LockUpgrade, HeldByOther, PutExclusive, setVars,
                 LockInv, LockTypeOK
  <1>2. CASE IsExclusiveLocked(t, r) /\ granted = TRUE /\ UNCHANGED lockVars
    BY <1>2 DEF LockEffect, IsExclusiveLocked, lockVars, setVars
  <1>3. CASE LockExclusive(t, r, granted)
    BY <1>3, LockExclusiveEffect
  <1> QED  BY <1>1, <1>2, <1>3 DEF LockForWrite

\* What every step of t keeps: the others' variables, and every tuple but
\* those t has locked exclusively when the step is over.
StepOf(t) ==
    /\ \A u \in TxnIDs \ {t} :
          /\ pc'[u] = pc[u] /\ call'[u] = call[u] /\ state'[u] = state[u]
          /\ undo'[u] = undo[u] /\ write_set'[u] = write_set[u]
          /\ exclusive_lock_set'[u] = exclusive_lock_set[u]
          /\ shared_lock_set'[u] = shared_lock_set[u]
          /\ u \in released' <=> u \in released
    /\ \A q \in RIDs :
          Content(q)' # Content(q) => q \in exclusive_lock_set'[t] /\ t \notin released'
    /\ KnownRIDs \subseteq KnownRIDs'
    /\ Len(pages) <= Len(pages')
    /\ latch' = latch

\* A step of t preserves what the invariant says of the other transactions.
LEMMA OthersUndisturbed ==
    ASSUME TxnInv, TxnTypeOK', LockInv', NEW t \in TxnIDs, StepOf(t),
           NEW u \in TxnIDs \ {t}
    PROVE  /\ exclusive_lock_set'[u] \subseteq KnownRIDs'
           /\ CallOK(u)' /\ PhaseOK(u)' /\ WritesOK(u)'
  <1>1. /\ pc'[u] = pc[u] /\ call'[u] = call[u] /\ state'[u] = state[u]
        /\ undo'[u] = undo[u] /\ write_set'[u] = write_set[u]
        /\ exclusive_lock_set'[u] = exclusive_lock_set[u]
        /\ shared_lock_set'[u] = shared_lock_set[u]
        /\ u \in released' <=> u \in released
        /\ latch' = latch
    BY DEF StepOf
  <1>2. /\ exclusive_lock_set[u] \subseteq KnownRIDs
        /\ CallOK(u) /\ PhaseOK(u) /\ WritesOK(u)
    BY DEF TxnInv
  <1>3. exclusive_lock_set[u] \subseteq RIDs /\ KnownRIDs \subseteq KnownRIDs'
    BY DEF TxnInv, LockInv, LockTypeOK, StepOf
  <1>4. ASSUME u \notin released, NEW q \in exclusive_lock_set[u]
        PROVE  Content(q)' = Content(q)
    <2>1. SUFFICES ASSUME Content(q)' # Content(q) PROVE FALSE
      OBVIOUS
    <2>2. q \in RIDs /\ q \in exclusive_lock_set'[t] /\ t \notin released'
      BY <1>3, <1>4, <2>1 DEF StepOf
    <2>3. q \in exclusive_lock_set'[u] /\ u \notin released'
      BY <1>1, <1>4
    <2>4. exclusive_lock_table'[q] = t /\ exclusive_lock_table'[q] = u
      BY <2>2, <2>3 DEF LockInv, LockSetsMatchTables
    <2> QED  BY <2>4
  <1>5. PhaseOK(u)'
    BY <1>1, <1>2 DEF PhaseOK
  <1>6. CallOK(u)'
    <2>1. Len(pages) <= Len(pages') /\ Len(pages) \in Nat /\ Len(pages') \in Nat
      BY DEF StepOf, TxnInv, TxnTypeOK
    <2>2. CASE pc[u] = "insert"
      <3>1. u \notin released
        BY <1>2, <2>2 DEF PhaseOK
      <3> QED  BY <1>1, <1>2, <1>4, <2>1, <2>2, <3>1 DEF CallOK
    <2>3. CASE pc[u] # "insert"
      BY <1>1, <1>2, <1>3, <2>3 DEF CallOK
    <2> QED  BY <2>2, <2>3
  <1>7. WritesOK(u)'
    <2>1. /\ Ending(u)' <=> Ending(u)
          /\ RollingBack(u)' <=> RollingBack(u)
          /\ Writes(u)' = Writes(u)
      BY <1>1 DEF Ending, RollingBack, Writes
    <2>2. CASE u \in released
      <3>1. Writes(u) = << >> /\ Len(Writes(u)) = 0
        BY <1>2, <2>2 DEF PhaseOK, Writes, Ending
      <3> QED  BY <2>1, <3>1 DEF WritesOK
    <2>3. CASE u \notin released
      BY <1>1, <1>2, <1>4, <2>1, <2>3 DEF WritesOK
    <2> QED  BY <2>2, <2>3
  <1> QED  BY <1>1, <1>2, <1>3, <1>5, <1>6, <1>7

----------------------------------------------------------------------------
(* The steps, one by one.                                                  *)

\* What is to be shown of a step of t.
Keeps(t) ==
    /\ TxnTypeOK'
    /\ [LockNext]_lockVars
    /\ StepOf(t)
    /\ exclusive_lock_set'[t] \subseteq KnownRIDs'
    /\ CallOK(t)'
    /\ PhaseOK(t)'
    /\ WritesOK(t)'

\* It is enough: the lock manager keeps its own invariant, and the other
\* transactions are not disturbed.
LEMMA KeepsInv ==
    ASSUME TxnInv, NEW t \in TxnIDs, Keeps(t)
    PROVE  TxnInv'
  <1>1. LockInv'
    BY LockNextInv DEF TxnInv, Keeps
  <1>2. \A u \in TxnIDs \ {t} :
            /\ exclusive_lock_set'[u] \subseteq KnownRIDs'
            /\ CallOK(u)' /\ PhaseOK(u)' /\ WritesOK(u)'
    BY <1>1, OthersUndisturbed DEF Keeps
  <1> QED  BY <1>1, <1>2 DEF TxnInv, Keeps

\* Pages that do not change have the same content.
LEMMA SamePages ==
    ASSUME UNCHANGED pages
    PROVE  KnownRIDs' = KnownRIDs /\ \A q \in RIDs : Content(q)' = Content(q)
  BY DEF KnownRIDs, Content

\* A step that touches neither locks nor pages.
LEMMA QuietStep ==
    ASSUME TxnInv, NEW t \in TxnIDs, UNCHANGED <<lockVars, pages, latch>>,
           \A u \in TxnIDs \ {t} :
              /\ pc'[u] = pc[u] /\ call'[u] = call[u] /\ state'[u] = state[u]
              /\ undo'[u] = undo[u] /\ write_set'[u] = write_set[u]
    PROVE  /\ [LockNext]_lockVars
           /\ StepOf(t)
           /\ exclusive_lock_set'[t] \subseteq KnownRIDs'
           /\ KnownRIDs' = KnownRIDs
           /\ \A q \in RIDs : Content(q)' = Content(q)
  <1>1. KnownRIDs' = KnownRIDs /\ \A q \in RIDs : Content(q)' = Content(q)
    BY SamePages
  <1>2. Len(pages) <= Len(pages')
    BY DEF TxnInv, TxnTypeOK
  <1>3. UNCHANGED <<exclusive_lock_set, shared_lock_set, released>>
    BY DEF lockVars, setVars
  <1> QED  BY <1>1, <1>2, <1>3 DEF StepOf, TxnInv

\* Begin.
LEMMA BeginKeeps ==
    ASSUME TxnInv, NEW t \in TxnIDs, Begin(t)
    PROVE  Keeps(t)
  <1> USE DEF Begin
  <1>1. TxnTypeOK'
    BY DEF TxnInv, TxnTypeOK, Labels
  <1>2. /\ [LockNext]_lockVars /\ StepOf(t) /\ exclusive_lock_set'[t] \subseteq KnownRIDs'
        /\ \A q \in RIDs : Content(q)' = Content(q)
    BY QuietStep DEF TxnInv, TxnTypeOK
  <1>3. pc'[t] = "run"
    BY DEF TxnInv, TxnTypeOK
  <1>4. CallOK(t)' /\ PhaseOK(t)'
    BY <1>3 DEF TxnInv, CallOK, PhaseOK, lockVars, setVars
  <1>5. WritesOK(t)'
    <2>1. Writes(t)' = << >> /\ Len(<< >>) = 0 /\ ~Ending(t)'
      BY <1>3 DEF Writes, Ending, RollingBack, TxnInv, PhaseOK
    <2> QED  BY <1>3, <2>1 DEF WritesOK, Ending
  <1> QED  BY <1>1, <1>2, <1>4, <1>5 DEF Keeps

\* CommitStart: the write set becomes the list of what is to be applied.
LEMMA CommitStartKeeps ==
    ASSUME TxnInv, NEW t \in TxnIDs, CommitStart(t)
    PROVE  Keeps(t)
  <1> USE DEF CommitStart, Running
  <1>1. TxnTypeOK'
    BY DEF TxnInv, TxnTypeOK, Labels
  <1>2. /\ [LockNext]_lockVars /\ StepOf(t) /\ exclusive_lock_set'[t] \subseteq KnownRIDs'
        /\ \A q \in RIDs : Content(q)' = Content(q)
    BY QuietStep DEF TxnInv, TxnTypeOK
  <1>3. pc'[t] = "commit" /\ state'[t] = "COMMITTED" /\ undo'[t] = write_set[t]
    BY DEF TxnInv, TxnTypeOK
  <1>4. CallOK(t)' /\ PhaseOK(t)'
    BY <1>3 DEF TxnInv, CallOK, PhaseOK, lockVars, setVars
  <1>5. WritesOK(t)'
    <2>1. Writes(t)' = Writes(t) /\ ~Ending(t) /\ Ending(t)' /\ ~RollingBack(t)'
      BY <1>3 DEF Writes, Ending, RollingBack
    <2>2. WritesOK(t) /\ exclusive_lock_set[t] \subseteq RIDs /\ UNCHANGED exclusive_lock_set
      BY DEF TxnInv, LockInv, LockTypeOK, lockVars, setVars
    <2> QED  BY <1>2, <1>3, <2>1, <2>2 DEF WritesOK
  <1> QED  BY <1>1, <1>2, <1>4, <1>5 DEF Keeps

\* AbortStart: the write set becomes the list of what is to be undone.
LEMMA AbortStartKeeps ==
    ASSUME TxnInv, NEW t \in TxnIDs, AbortStart(t)
    PROVE  Keeps(t)
  <1> USE DEF AbortStart, Abandon
  <1>1. TxnTypeOK'
    BY DEF TxnInv, TxnTypeOK, Labels
  <1>2. /\ [LockNext]_lockVars /\ StepOf(t) /\ exclusive_lock_set'[t] \subseteq KnownRIDs'
        /\ \A q \in RIDs : Content(q)' = Content(q)
    BY QuietStep DEF TxnInv, TxnTypeOK
  <1>3. pc'[t] = "abort" /\ state'[t] = "ABORTED" /\ undo'[t] = write_set[t]
    BY DEF TxnInv, TxnTypeOK
  <1>4. CallOK(t)' /\ PhaseOK(t)'
    BY <1>3 DEF TxnInv, CallOK, PhaseOK, lockVars, setVars
  <1>5. WritesOK(t)'
    <2>1. Writes(t)' = Writes(t) /\ ~Ending(t) /\ Ending(t)'
      BY <1>3 DEF Writes, Ending, RollingBack
    <2>2. WritesOK(t) /\ exclusive_lock_set[t] \subseteq RIDs /\ UNCHANGED exclusive_lock_set
      BY DEF TxnInv, LockInv, LockTypeOK, lockVars, setVars
    <2> QED  BY <1>2, <1>3, <2>1, <2>2 DEF WritesOK
  <1> QED  BY <1>1, <1>2, <1>4, <1>5 DEF Keeps

\* InsertTuple starts at the first page.
LEMMA InsertTupleKeeps ==
    ASSUME TxnInv, NEW t \in TxnIDs, NEW v \in Tuples, InsertTuple(t, v)
    PROVE  Keeps(t)
  <1> USE DEF InsertTuple, ClientCall, Running, GoTo
  <1>1. TxnTypeOK'
    BY DEF TxnInv, TxnTypeOK, Labels
  <1>2. /\ [LockNext]_lockVars /\ StepOf(t) /\ exclusive_lock_set'[t] \subseteq KnownRIDs'
        /\ \A q \in RIDs : Content(q)' = Content(q)
    BY QuietStep DEF TxnInv, TxnTypeOK
  <1>3. /\ pc[t] = "run" /\ pc'[t] = "insert"
        /\ call'[t] = [caller |-> "client", tuple |-> v, page |-> 1]
    BY DEF TxnInv, TxnTypeOK
  <1>4. CallOK(t)'
    BY <1>3 DEF TxnInv, TxnTypeOK, CallOK, InsertCall
  <1>5. PhaseOK(t)'
    BY <1>3 DEF TxnInv, PhaseOK, lockVars, setVars
  <1>6. WritesOK(t)'
    <2>1. Writes(t)' = Writes(t) /\ ~Ending(t) /\ ~Ending(t)' /\ ~RollingBack(t)'
      BY <1>3 DEF Writes, Ending, RollingBack
    <2>2. WritesOK(t) /\ exclusive_lock_set[t] \subseteq RIDs /\ UNCHANGED exclusive_lock_set
      BY DEF TxnInv, LockInv, LockTypeOK, lockVars, setVars
    <2> QED  BY <1>2, <1>3, <2>1, <2>2 DEF WritesOK
  <1> QED  BY <1>1, <1>2, <1>4, <1>5, <1>6 DEF Keeps

\* A step of t that neither writes nor ends keeps what is said of its records.
LEMMA WritesKept ==
    ASSUME TxnInv, NEW t \in TxnIDs, pc[t] # "commit", pc'[t] # "commit",
           Ending(t)' <=> Ending(t), RollingBack(t)' <=> RollingBack(t),
           Writes(t)' = Writes(t),
           exclusive_lock_set[t] \subseteq exclusive_lock_set'[t],
           \A q \in RIDs : Content(q)' = Content(q)
    PROVE  WritesOK(t)'
  <1>1. WritesOK(t) /\ exclusive_lock_set[t] \subseteq RIDs
    BY DEF TxnInv, LockInv, LockTypeOK
  <1>2. \A i \in 1 .. Len(Writes(t)) :
           /\ Writes(t)[i].rid \in exclusive_lock_set'[t]
           /\ Content(Writes(t)[i].rid)' = Content(Writes(t)[i].rid)
    BY <1>1 DEF WritesOK
  <1> QED  BY <1>1, <1>2 DEF WritesOK

\* GetTuple asks for the shared lock and goes on to read if it is granted.
LEMMA GetTupleLockKeeps ==
    ASSUME TxnInv, NEW t \in TxnIDs, NEW r \in KnownRIDs, GetTupleLock(t, r)
    PROVE  Keeps(t)
  <1>0. r \in RIDs
    BY DEF KnownRIDs
  <1>1. /\ pc[t] = "run" /\ t \notin released
        /\ UNCHANGED <<pages, write_set, undo, latch, committed>>
    BY DEF GetTupleLock, ClientCall, Running, TxnInv, PhaseOK
  <1>2. PICK granted \in BOOLEAN :
        /\ IF IsSharedLocked(t, r) \/ IsExclusiveLocked(t, r)
             THEN granted = TRUE /\ UNCHANGED lockVars
             ELSE LockShared(t, r, granted)
        /\ IF granted
             THEN /\ GoTo(t, "read", [caller |-> "client", rid |-> r])
                  /\ UNCHANGED state
             ELSE Abandon(t) /\ UNCHANGED <<pc, call>>
    BY DEF GetTupleLock
  <1>3. /\ [LockNext]_lockVars
        /\ UNCHANGED <<exclusive_lock_set, released>>
        /\ \A u \in TxnIDs \ {t} : shared_lock_set'[u] = shared_lock_set[u]
        /\ granted => r \in shared_lock_set'[t] \union exclusive_lock_set'[t]
    <2>1. CASE IsSharedLocked(t, r) \/ IsExclusiveLocked(t, r)
      BY <1>2, <2>1 DEF IsSharedLocked, IsExclusiveLocked, lockVars, setVars
    <2>2. CASE LockShared(t, r, granted)
      <3>1. LockNext
        BY <1>0, <1>1, <2>2 DEF LockNext
      <3>2. /\ UNCHANGED <<exclusive_lock_set, released>>
            /\ \A u \in TxnIDs \ {t} : shared_lock_set'[u] = shared_lock_set[u]
        BY <2>2 DEF LockShared, TxnInv, LockInv, LockTypeOK
      <3>3. granted => exclusive_lock_table[r] \in {NoTxn, t}
        BY <2>2 DEF LockShared, HeldByOther
      <3>4. /\ exclusive_lock_table[r] = t => r \in exclusive_lock_set[t]
            /\ t \in shared_lock_table[r] => r \in shared_lock_set[t] \union exclusive_lock_set[t]
        BY <1>0, <1>1 DEF TxnInv, LockInv, LockSetsMatchTables
      <3>5. /\ shared_lock_set[t] \subseteq shared_lock_set'[t]
            /\ exclusive_lock_table[r] = NoTxn /\ t \notin shared_lock_table[r]
                  => r \in shared_lock_set'[t]
        BY <1>0, <2>2 DEF LockShared, TxnInv, LockInv, LockTypeOK
      <3> QED  BY <3>1, <3>2, <3>3, <3>4, <3>5
    <2> QED  BY <1>2, <2>1, <2>2
  <1>4. KnownRIDs' = KnownRIDs /\ \A q \in RIDs : Content(q)' = Content(q)
    BY <1>1, SamePages
  <1>5. /\ pc' = [pc EXCEPT ![t] = IF granted THEN "read" ELSE "run"]
        /\ call' = [call EXCEPT ![t] = IF granted THEN [caller |-> "client", rid |-> r]
                                                  ELSE call[t]]
        /\ state' = [state EXCEPT ![t] = IF granted THEN state[t] ELSE "ABORTED"]
    BY <1>1, <1>2 DEF GoTo, Abandon, TxnInv, TxnTypeOK
  <1>6. TxnTypeOK'
    BY <1>1, <1>5 DEF TxnInv, TxnTypeOK, Labels
  <1>7. StepOf(t)
    BY <1>1, <1>3, <1>4, <1>5 DEF StepOf, TxnInv, TxnTypeOK
  <1>8. /\ pc'[t] = IF granted THEN "read" ELSE "run"
        /\ granted => call'[t] = [caller |-> "client", rid |-> r]
        /\ state'[t] # "COMMITTED"
    BY <1>1, <1>5 DEF TxnInv, TxnTypeOK, PhaseOK
  <1>9. CallOK(t)'
    BY <1>0, <1>3, <1>4, <1>8 DEF CallOK
  <1>10. PhaseOK(t)'
    BY <1>1, <1>3, <1>8 DEF PhaseOK, TxnInv
  <1>11. WritesOK(t)'
    <2>1. Writes(t)' = Writes(t) /\ ~Ending(t) /\ ~Ending(t)' /\ ~RollingBack(t)' /\ ~RollingBack(t)
      BY <1>1, <1>8 DEF Writes, Ending, RollingBack
    <2> QED  BY <1>1, <1>3, <1>4, <1>8, <2>1, WritesKept
  <1>12. exclusive_lock_set'[t] \subseteq KnownRIDs'
    BY <1>3, <1>4 DEF TxnInv
  <1> QED  BY <1>3, <1>6, <1>7, <1>9, <1>10, <1>11, <1>12 DEF Keeps

\* GetTuple reads the page.
LEMMA GetTupleReadKeeps ==
    ASSUME TxnInv, NEW t \in TxnIDs, GetTupleRead(t)
    PROVE  Keeps(t)
  <1>1. /\ pc[t] = "read" /\ state[t] # "COMMITTED"
        /\ UNCHANGED <<lockVars, pages, write_set, undo, ops, latch, committed>>
    BY DEF GetTupleRead, TxnInv, PhaseOK
  <1>2. /\ pc' = [pc EXCEPT ![t] = "run"]
        /\ call' = [call EXCEPT ![t] = NoCall]
        /\ state' = [state EXCEPT ![t] = state'[t]]
        /\ state'[t] \in {state[t], "ABORTED"}
    BY DEF GetTupleRead, Return, GoTo, Abandon, TxnInv, TxnTypeOK
  <1>3. pc'[t] = "run" /\ state'[t] # "COMMITTED"
    BY <1>1, <1>2 DEF TxnInv, TxnTypeOK
  <1>4. TxnTypeOK'
    BY <1>1, <1>2 DEF TxnInv, TxnTypeOK, Labels
  <1>5. \A u \in TxnIDs \ {t} :
              /\ pc'[u] = pc[u] /\ call'[u] = call[u] /\ state'[u] = state[u]
              /\ undo'[u] = undo[u] /\ write_set'[u] = write_set[u]
    BY <1>1, <1>2 DEF TxnInv, TxnTypeOK
  <1>6. /\ [LockNext]_lockVars /\ StepOf(t) /\ exclusive_lock_set'[t] \subseteq KnownRIDs'
        /\ \A q \in RIDs : Content(q)' = Content(q)
    BY <1>1, <1>5, QuietStep
  <1>7. CallOK(t)' /\ PhaseOK(t)'
    BY <1>1, <1>3 DEF TxnInv, CallOK, PhaseOK, lockVars, setVars
  <1>8. WritesOK(t)'
    <2>1. Writes(t)' = Writes(t) /\ ~Ending(t) /\ ~Ending(t)' /\ ~RollingBack(t)' /\ ~RollingBack(t)
      BY <1>1, <1>3 DEF Writes, Ending, RollingBack
    <2>2. UNCHANGED exclusive_lock_set
      BY <1>1 DEF lockVars, setVars
    <2> QED  BY <1>1, <1>3, <1>6, <2>1, <2>2, WritesKept
  <1> QED  BY <1>4, <1>6, <1>7, <1>8 DEF Keeps

\* A step of t whose only effects on locks and pages are a request for r and,
\* if it is granted, a write of r.
LEMMA WriteStep ==
    ASSUME TxnInv, NEW t \in TxnIDs, t \notin released, NEW r \in RIDs,
           NEW granted \in BOOLEAN, LockEffect(t, r, granted),
           Len(pages') >= Len(pages), latch' = latch,
           \A q \in RIDs : Content(q)' # Content(q) => granted /\ q = r,
           KnownRIDs \subseteq KnownRIDs', granted => r \in KnownRIDs',
           \A u \in TxnIDs \ {t} :
              /\ pc'[u] = pc[u] /\ call'[u] = call[u] /\ state'[u] = state[u]
              /\ undo'[u] = undo[u] /\ write_set'[u] = write_set[u]
    PROVE  /\ [LockNext]_lockVars
           /\ StepOf(t)
           /\ exclusive_lock_set'[t] \subseteq KnownRIDs'
           /\ exclusive_lock_set[t] \subseteq exclusive_lock_set'[t]
           /\ released' = released
           /\ granted => r \in exclusive_lock_set'[t]
  <1>1. /\ exclusive_lock_set[t] \subseteq exclusive_lock_set'[t]
        /\ granted => r \in exclusive_lock_set'[t]
        /\ released' = released
        /\ [LockNext]_lockVars
    BY DEF LockEffect
  <1>2. StepOf(t)
    BY <1>1 DEF StepOf, LockEffect, TxnInv, TxnTypeOK
  <1>3. exclusive_lock_set'[t] \subseteq KnownRIDs'
    BY DEF LockEffect, TxnInv
  <1> QED  BY <1>1, <1>2, <1>3

\* Records added to the write set of a running transaction.
LEMMA WritesExtended ==
    ASSUME TxnInv, TxnTypeOK', NEW t \in TxnIDs, ~Ending(t), ~Ending(t)',
           NEW s, s = Writes(t),
           NEW recs \in Seq(WriteRecord), Writes(t)' = s \o recs,
           exclusive_lock_set[t] \subseteq exclusive_lock_set'[t],
           \A i \in 1 .. Len(recs) : recs[i].rid \in exclusive_lock_set'[t],
           \A i \in 1 .. Len(recs) :
              /\ IsFull(Content(recs[i].rid))'
              /\ recs[i].wtype = "DELETE" => IsDeleted(Content(recs[i].rid))',
           \A i, j \in 1 .. Len(recs) : i # j => recs[i].wtype # recs[j].wtype,
           \A i \in 1 .. Len(recs), j \in 1 .. Len(s) :
              recs[i].rid = s[j].rid =>
                 recs[i].wtype # s[j].wtype \/ recs[i].wtype = "UPDATE",
           \A j \in 1 .. Len(s) :
              /\ IsFull(Content(s[j].rid))'
              /\ s[j].wtype = "DELETE" => IsDeleted(Content(s[j].rid))'
    PROVE  WritesOK(t)'
  <1> DEFINE m == Len(s)
  <1>1. s \in Seq(WriteRecord) /\ WritesOK(t)
    BY DEF TxnInv, TxnTypeOK, Writes
  <1>2. /\ Len(s \o recs) = m + Len(recs) /\ m \in Nat /\ Len(recs) \in Nat
        /\ \A i \in 1 .. m + Len(recs) :
              (s \o recs)[i] = IF i <= m THEN s[i] ELSE recs[i - m]
    BY <1>1
  <1>3. \A i \in 1 .. m : s[i].rid \in exclusive_lock_set'[t]
    BY <1>1 DEF WritesOK
  <1>4. \A i, j \in 1 .. m : i # j /\ s[i].rid = s[j].rid
              => s[i].wtype # s[j].wtype \/ s[i].wtype = "UPDATE"
    BY <1>1 DEF WritesOK
  <1>5. ASSUME NEW i \in 1 .. m + Len(recs) PROVE i \in 1 .. m \/ i - m \in 1 .. Len(recs)
    BY <1>2
  <1>6. pc'[t] # "commit" /\ ~RollingBack(t)'
    BY DEF Ending
  <1>7. \A i \in 1 .. Len(Writes(t)') : Writes(t)'[i].rid \in exclusive_lock_set'[t]
    BY <1>2, <1>3, <1>5
  <1>8. \A i \in 1 .. Len(Writes(t)') :
          /\ IsFull(Content(Writes(t)[i].rid))'
          /\ Writes(t)'[i].wtype = "DELETE" => IsDeleted(Content(Writes(t)[i].rid))'
    BY <1>2, <1>5
  <1>9. \A i, j \in 1 .. Len(Writes(t)') :
          i # j /\ Writes(t)'[i].rid = Writes(t)'[j].rid
              => Writes(t)'[i].wtype # Writes(t)'[j].wtype \/ Writes(t)'[i].wtype = "UPDATE"
    <2> SUFFICES ASSUME NEW i \in 1 .. m + Len(recs), NEW j \in 1 .. m + Len(recs),
                        i # j, (s \o recs)[i].rid = (s \o recs)[j].rid
                 PROVE  \/ (s \o recs)[i].wtype # (s \o recs)[j].wtype
                        \/ (s \o recs)[i].wtype = "UPDATE"
      BY <1>2
    <2>1. CASE i \in 1 .. m /\ j \in 1 .. m
      BY <1>2, <1>4, <2>1
    <2>2. CASE i \in 1 .. m /\ j - m \in 1 .. Len(recs)
      <3>1. (s \o recs)[i] = s[i] /\ (s \o recs)[j] = recs[j - m]
        BY <1>2, <2>2
      <3> QED  BY <2>2, <3>1
    <2>3. CASE i - m \in 1 .. Len(recs) /\ j \in 1 .. m
      <3>1. (s \o recs)[i] = recs[i - m] /\ (s \o recs)[j] = s[j]
        BY <1>2, <2>3
      <3> QED  BY <2>3, <3>1
    <2>4. CASE i - m \in 1 .. Len(recs) /\ j - m \in 1 .. Len(recs)
      <3>1. (s \o recs)[i] = recs[i - m] /\ (s \o recs)[j] = recs[j - m] /\ i - m # j - m
        BY <1>2, <2>4
      <3> QED  BY <2>4, <3>1
    <2> QED  BY <1>5, <2>1, <2>2, <2>3, <2>4
  <1> QED  BY <1>6, <1>7, <1>8, <1>9 DEF WritesOK

\* What a prefix of a list is.
LEMMA Prefix ==
    ASSUME NEW S, NEW s \in Seq(S), NEW n \in 0 .. Len(s)
    PROVE  /\ SubSeq(s, 1, n) \in Seq(S)
           /\ Len(SubSeq(s, 1, n)) = n
           /\ \A i \in 1 .. n : i \in 1 .. Len(s) /\ SubSeq(s, 1, n)[i] = s[i]
           /\ n = Len(s) => SubSeq(s, 1, n) = s
  OBVIOUS

\* A rollback goes on with a prefix of its records.
LEMMA RollbackShortened ==
    ASSUME TxnInv, NEW t \in TxnIDs, RollingBack(t), RollingBack(t)',
           NEW s, s = Writes(t),
           NEW n \in 0 .. Len(s), Writes(t)' = SubSeq(s, 1, n),
           exclusive_lock_set[t] \subseteq exclusive_lock_set'[t],
           \A i \in 1 .. n : s[i].wtype = "INSERT" => IsFull(Content(s[i].rid))'
    PROVE  WritesOK(t)'
  <1>1. Writes(t) \in Seq(WriteRecord) /\ WritesOK(t)
    BY DEF TxnInv, TxnTypeOK, Writes
  <1>2. /\ Len(Writes(t)') = n
        /\ \A i \in 1 .. n : i \in 1 .. Len(Writes(t)) /\ Writes(t)'[i] = Writes(t)[i]
    BY <1>1, Prefix
  <1>3. Ending(t)' /\ pc'[t] # "commit"
    BY DEF Ending, RollingBack
  <1>4. \A i \in 1 .. Len(Writes(t)') : Writes(t)'[i].rid \in exclusive_lock_set'[t]
    BY <1>1, <1>2 DEF WritesOK
  <1>5. \A i, j \in 1 .. Len(Writes(t)') :
          i # j /\ Writes(t)'[i].rid = Writes(t)'[j].rid
              => Writes(t)'[i].wtype # Writes(t)'[j].wtype \/ Writes(t)'[i].wtype = "UPDATE"
    BY <1>1, <1>2 DEF WritesOK
  <1>6. \A i \in 1 .. Len(Writes(t)') :
          Writes(t)'[i].wtype = "INSERT" => IsFull(Content(Writes(t)[i].rid))'
    BY <1>2
  <1> QED  BY <1>3, <1>4, <1>5, <1>6 DEF WritesOK

\* Where an operation inside UpdateTuple or InsertTuple returns to.
LEMMA ReturnsToCaller ==
    ASSUME TxnInv, NEW t \in TxnIDs, pc[t] \in {"insert", "move"},
           Return(t, call[t].caller)
    PROVE  /\ pc' = [pc EXCEPT ![t] = pc'[t]] /\ call' = [call EXCEPT ![t] = NoCall]
           /\ call[t].caller \in {"client", "update", "rollback"}
           /\ call[t].caller = "rollback" => pc'[t] = "abort" /\ RollingBack(t) /\ RollingBack(t)'
           /\ call[t].caller # "rollback" =>
                 pc'[t] = "run" /\ ~Ending(t) /\ ~Ending(t)' /\ ~RollingBack(t)
                 /\ ~RollingBack(t)'
           /\ t \notin released /\ state[t] # "COMMITTED" /\ latch # "held"
  <1>1. call[t].caller \in {"client", "update", "rollback"}
    BY DEF TxnInv, CallOK, InsertCall, MoveCall
  <1>2. pc'[t] = IF call[t].caller = "rollback" THEN "abort" ELSE "run"
    BY DEF Return, GoTo, TxnInv, TxnTypeOK
  <1>3. pc' = [pc EXCEPT ![t] = pc'[t]] /\ call' = [call EXCEPT ![t] = NoCall]
    BY <1>2 DEF Return, GoTo
  <1>4. t \notin released /\ state[t] # "COMMITTED" /\ latch # "held"
    BY DEF TxnInv, PhaseOK
  <1> QED  BY <1>1, <1>2, <1>3, <1>4 DEF RollingBack, Ending

\* A transaction that returns to its caller after a request, with or without
\* a new state, is still in a phase that fits.
LEMMA ReturnPhase ==
    ASSUME TxnInv, NEW t \in TxnIDs, pc'[t] \in {"run", "abort", "move", "insert", "read"},
           t \notin released, released' = released, state[t] # "COMMITTED",
           state'[t] \in {state[t], "ABORTED"}, latch' = latch, latch # "held"
    PROVE  PhaseOK(t)'
  BY DEF PhaseOK

\* InsertTuple on a page with room.
LEMMA InsertHereKeeps ==
    ASSUME TxnInv, NEW t \in TxnIDs, InsertHere(t)
    PROVE  Keeps(t)
  <1> PICK p : p = call[t].page
    OBVIOUS
  <1> PICK v : v = call[t].tuple
    OBVIOUS
  <1> PICK r : r = <<p, InsertSlot(pages[p])>>
    OBVIOUS
  <1>0. PICK recs : recs = <<[rid |-> r, wtype |-> "INSERT"]>> \o MovedRecord(t)
    OBVIOUS
  <1> PICK s : s = Writes(t)
    OBVIOUS
  <1>1. /\ pc[t] = "insert" /\ RoomToInsert(pages[p], v) /\ r \in RIDs
        /\ Return(t, call[t].caller)
        /\ UNCHANGED <<undo, ops, latch, committed>>
    BY DEF InsertHere
  <1>2. p \in 1 .. Len(pages) /\ v \in Tuples /\ call[t] \in InsertCall
    BY <1>1 DEF TxnInv, CallOK, InsertCall
  <1>3. PICK granted \in BOOLEAN :
               /\ LockExclusive(t, r, granted)
               /\ IF granted
                    THEN /\ pages' = [pages EXCEPT ![p] = PutTuple(@, v)]
                         /\ AddIntoWriteSet(t, recs)
                         /\ UNCHANGED state
                    ELSE Abandon(t) /\ UNCHANGED <<pages, write_set>>
    BY <1>0 DEF InsertHere
  <1>4. /\ pc' = [pc EXCEPT ![t] = pc'[t]] /\ call' = [call EXCEPT ![t] = NoCall]
        /\ call[t].caller \in {"client", "update", "rollback"}
        /\ call[t].caller = "rollback" => pc'[t] = "abort" /\ RollingBack(t) /\ RollingBack(t)'
        /\ call[t].caller # "rollback" =>
              pc'[t] = "run" /\ ~Ending(t) /\ ~Ending(t)' /\ ~RollingBack(t) /\ ~RollingBack(t)'
        /\ t \notin released /\ state[t] # "COMMITTED" /\ latch # "held"
    BY <1>1, ReturnsToCaller
  <1>5. MovedRecord(t) \in Seq(WriteRecord) /\ recs \in Seq(WriteRecord)
    <2>1. call[t].caller = "update" => call[t].rid \in RIDs /\ call[t].old \in Tuples
      BY <1>2 DEF InsertCall
    <2>2. [rid |-> r, wtype |-> "INSERT"] \in WriteRecord
      BY <1>1 DEF WriteRecord
    <2>3. call[t].caller = "update" =>
             [rid |-> call[t].rid, wtype |-> "UPDATE", tuple |-> call[t].old] \in WriteRecord
      BY <2>1 DEF WriteRecord
    <2> QED  BY <1>0, <2>2, <2>3 DEF MovedRecord
  <1>6. /\ state' = [state EXCEPT ![t] = state'[t]]
        /\ state'[t] \in {state[t], "ABORTED"}
        /\ write_set' = [write_set EXCEPT ![t] = write_set'[t]]
        /\ write_set'[t] = IF granted THEN write_set[t] \o recs ELSE write_set[t]
    BY <1>3 DEF Abandon, AddIntoWriteSet, TxnInv, TxnTypeOK
  <1>7. /\ pages' \in Seq(Page) /\ Len(pages') = Len(pages)
        /\ KnownRIDs \subseteq KnownRIDs' /\ (granted => r \in KnownRIDs')
        /\ \A q \in RIDs : Content(q)' # Content(q) => granted /\ q = r
        /\ granted => Content(r) = EmptySlot /\ IsFull(Content(r))'
    <2>1. CASE granted
      <3>1. pages' = [pages EXCEPT ![p] = PutTuple(@, v)] /\ pages \in Seq(Page)
        BY <1>3, <2>1 DEF TxnInv, TxnTypeOK
      <3>2. /\ pages' \in Seq(Page) /\ Len(pages') = Len(pages)
            /\ KnownRIDs' = KnownRIDs \union {r}
            /\ Content(r) = EmptySlot
            /\ Wrote(r, LiveSlot(v))
        BY <1>1, <1>2, <3>1, PutWrites
      <3> QED  BY <2>1, <3>2 DEF Wrote, IsFull, LiveSlot
    <2>2. CASE ~granted
      BY <1>3, <2>2, SamePages DEF TxnInv, TxnTypeOK
    <2> QED  BY <2>1, <2>2
  <1>8. TxnTypeOK'
    <2>1. write_set'[t] \in Seq(WriteRecord)
      BY <1>5, <1>6 DEF TxnInv, TxnTypeOK
    <2>2. pc'[t] \in Labels
      BY <1>4 DEF Labels
    <2>3. state' \in [TxnIDs -> {"GROWING", "COMMITTED", "ABORTED"}]
      BY <1>6 DEF TxnInv, TxnTypeOK
    <2>4. Len(pages') >= 1
      BY <1>7 DEF TxnInv, TxnTypeOK
    <2> QED
      BY <1>1, <1>4, <1>6, <1>7, <2>1, <2>2, <2>3, <2>4, ZenonT(30) DEF TxnInv, TxnTypeOK
  <1>9. LockEffect(t, r, granted)
    BY <1>1, <1>3, <1>4, LockExclusiveEffect DEF TxnInv
  <1>10. \A u \in TxnIDs \ {t} :
              /\ pc'[u] = pc[u] /\ call'[u] = call[u] /\ state'[u] = state[u]
              /\ undo'[u] = undo[u] /\ write_set'[u] = write_set[u]
    BY <1>1, <1>4, <1>6 DEF TxnInv, TxnTypeOK
  <1>11. /\ [LockNext]_lockVars
         /\ StepOf(t)
         /\ exclusive_lock_set'[t] \subseteq KnownRIDs'
         /\ exclusive_lock_set[t] \subseteq exclusive_lock_set'[t]
         /\ released' = released
         /\ granted => r \in exclusive_lock_set'[t]
    <2>1. latch' = latch /\ Len(pages') >= Len(pages) /\ r \in RIDs
      BY <1>1, <1>7 DEF TxnInv, TxnTypeOK
    <2> QED  BY <1>4, <1>7, <1>9, <1>10, <2>1, WriteStep
  <1>12. PhaseOK(t)'
    BY <1>1, <1>4, <1>6, <1>11, ReturnPhase
  <1>13. CallOK(t)'
    BY <1>4 DEF CallOK
  <1>14. s \in Seq(WriteRecord) /\ WritesOK(t) /\ exclusive_lock_set[t] \subseteq RIDs
    BY DEF TxnInv, TxnTypeOK, Writes, LockInv, LockTypeOK
  <1>15. WritesOK(t)'
    <2>1. CASE call[t].caller = "rollback"
      <3>1. Writes(t)' = s
        BY <1>1, <1>4, <2>1 DEF Writes, Ending
      <3>2. Writes(t)' = SubSeq(s, 1, Len(s)) /\ Len(s) \in 0 .. Len(s)
        BY <1>14, <3>1, Prefix
      <3>3. \A i \in 1 .. Len(s) : s[i].wtype = "INSERT" =>
                                IsFull(Content(s[i].rid))'
        <4>1. SUFFICES ASSUME NEW i \in 1 .. Len(s), s[i].wtype = "INSERT"
                     PROVE  IsFull(Content(s[i].rid))'
          OBVIOUS
        <4>2. IsFull(Content(s[i].rid)) /\ s[i].rid \in RIDs
          BY <1>4, <1>14, <2>1, <4>1 DEF WritesOK
        <4> QED  BY <1>7, <4>2 DEF IsFull
      <3> QED  BY <1>4, <1>11, <2>1, <3>2, <3>3, RollbackShortened
    <2>2. CASE call[t].caller # "rollback" /\ ~granted
      <3>1. Writes(t)' = s
        BY <1>4, <1>6, <2>2 DEF Writes
      <3> QED  BY <1>1, <1>4, <1>7, <1>11, <2>2, <3>1, WritesKept
    <2>3. CASE call[t].caller # "rollback" /\ granted
      <3>1. Writes(t)' = s \o recs
        BY <1>4, <1>6, <2>3 DEF Writes
      <3>2. \A j \in 1 .. Len(s) :
              /\ s[j].rid \in RIDs
              /\ IsFull(Content(s[j].rid))
              /\ s[j].wtype = "DELETE" => IsDeleted(Content(s[j].rid))
        BY <1>4, <1>14, <2>3 DEF WritesOK
      <3>3. \A j \in 1 .. Len(s) : s[j].rid # r
        <4>1. ~IsFull(Content(r))
          BY <1>7, <2>3 DEF IsFull, EmptySlot
        <4> QED  BY <3>2, <4>1
      <3>4. \A j \in 1 .. Len(s) :
              /\ IsFull(Content(s[j].rid))'
              /\ s[j].wtype = "DELETE" => IsDeleted(Content(s[j].rid))'
        BY <1>7, <3>2, <3>3 DEF IsFull, IsDeleted
      <3>5. call[t].caller = "update" => /\ call[t].rid \in exclusive_lock_set[t]
                                         /\ call[t].rid \in RIDs
                                         /\ IsFull(Content(call[t].rid))
        BY <1>1, <1>14 DEF TxnInv, CallOK
      <3>6. /\ \A i \in 1 .. Len(recs) : i = 1 \/ i = 2
            /\ recs[1] = [rid |-> r, wtype |-> "INSERT"]
            /\ 2 \in 1 .. Len(recs) =>
                  /\ recs[2].wtype = "UPDATE" /\ recs[2].rid = call[t].rid
                  /\ call[t].caller = "update"
        BY <1>0 DEF MovedRecord
      <3>7. \A i \in 1 .. Len(recs) : recs[i].rid \in exclusive_lock_set'[t]
        BY <1>11, <2>3, <3>5, <3>6
      <3>8. \A i \in 1 .. Len(recs) :
              /\ IsFull(Content(recs[i].rid))'
              /\ recs[i].wtype = "DELETE" => IsDeleted(Content(recs[i].rid))'
        <4>1. IsFull(Content(recs[1].rid))' /\ recs[1].wtype # "DELETE"
          <5>1. recs[1].rid = r
            BY <3>6
          <5> QED  BY <1>7, <2>3, <3>6, <5>1
        <4>2. 2 \in 1 .. Len(recs) => IsFull(Content(recs[2].rid))' /\ recs[2].wtype # "DELETE"
          BY <1>7, <3>5, <3>6 DEF IsFull
        <4> QED  BY <3>6, <4>1, <4>2
      <3>9. \A i, j \in 1 .. Len(recs) : i # j => recs[i].wtype # recs[j].wtype
        BY <3>6
      <3>10. \A i \in 1 .. Len(recs), j \in 1 .. Len(s) :
              recs[i].rid = s[j].rid =>
                 recs[i].wtype # s[j].wtype \/ recs[i].wtype = "UPDATE"
        BY <3>3, <3>6
      <3> QED
        BY <1>4, <1>5, <1>8, <1>11, <2>3, <3>1, <3>4, <3>7, <3>8, <3>9, <3>10, WritesExtended
    <2> QED  BY <2>1, <2>2, <2>3
  <1> QED  BY <1>8, <1>11, <1>12, <1>13, <1>15 DEF Keeps

\* InsertTuple on a page without room.
LEMMA InsertNextPageKeeps ==
    ASSUME TxnInv, NEW t \in TxnIDs, InsertNextPage(t)
    PROVE  Keeps(t)
  <1> PICK p : p = call[t].page
    OBVIOUS
  <1>1. /\ pc[t] = "insert" /\ state[t] # "COMMITTED"
        /\ UNCHANGED <<lockVars, state, write_set, undo, pc, ops, latch, committed>>
        /\ call' = [call EXCEPT ![t].page = p + 1]
        /\ \/ p < Len(pages) /\ UNCHANGED pages
           \/ p >= Len(pages) /\ pages' = Append(pages, EmptyPage)
    BY DEF InsertNextPage, TxnInv, TxnTypeOK, PhaseOK, CallOK, InsertCall
  <1>2. p \in 1 .. Len(pages) /\ call[t] \in InsertCall
    BY <1>1 DEF TxnInv, CallOK
  <1>3. /\ pages' \in Seq(Page) /\ Len(pages') >= Len(pages) /\ KnownRIDs' = KnownRIDs
        /\ \A q \in RIDs : Content(q)' = Content(q)
        /\ p + 1 \in 1 .. Len(pages')
    <2>1. pages \in Seq(Page)
      BY DEF TxnInv, TxnTypeOK
    <2>2. CASE p < Len(pages) /\ UNCHANGED pages
      BY <1>2, <2>1, <2>2, SamePages
    <2>3. CASE p >= Len(pages) /\ pages' = Append(pages, EmptyPage)
      BY <1>2, <2>1, <2>3, AppendWritesNothing
    <2> QED  BY <1>1, <2>2, <2>3
  <1>4. /\ call'[t] = [call[t] EXCEPT !.page = p + 1]
        /\ call' = [u \in TxnIDs |-> call'[u]]
        /\ \A u \in TxnIDs \ {t} : call'[u] = call[u]
    BY <1>1 DEF TxnInv, TxnTypeOK
  <1>5. call'[t] \in InsertCall /\ call'[t].page = p + 1 /\ call'[t].caller = call[t].caller
        /\ (call[t].caller = "update" => call'[t].rid = call[t].rid)
    BY <1>2, <1>4 DEF InsertCall
  <1>6. TxnTypeOK'
    <2>1. Len(pages') >= 1
      BY <1>2, <1>3
    <2> QED  BY <1>1, <1>3, <1>4, <2>1 DEF TxnInv, TxnTypeOK
  <1>7. StepOf(t) /\ [LockNext]_lockVars /\ UNCHANGED <<exclusive_lock_set, released>>
        /\ exclusive_lock_set'[t] \subseteq KnownRIDs'
    BY <1>1, <1>3, <1>4 DEF StepOf, lockVars, setVars, TxnInv
  <1>8. CallOK(t)'
    <2>1. call[t].caller = "update" =>
             /\ call[t].rid \in exclusive_lock_set[t] /\ call[t].rid \in RIDs
             /\ IsFull(Content(call[t].rid))
      BY <1>1 DEF TxnInv, CallOK, KnownRIDs
    <2>2. call'[t].caller = "update" =>
             /\ call'[t].rid \in exclusive_lock_set'[t]
             /\ IsFull(Content(call[t].rid))'
      BY <1>3, <1>5, <1>7, <2>1 DEF IsFull
    <2> QED  BY <1>1, <1>3, <1>5, <2>2 DEF CallOK
  <1>9. PhaseOK(t)'
    BY <1>1, <1>7 DEF PhaseOK, TxnInv
  <1>10. WritesOK(t)'
    <2>1. /\ Ending(t)' <=> Ending(t)
          /\ RollingBack(t)' <=> RollingBack(t)
          /\ Writes(t)' = Writes(t)
      BY <1>1, <1>5 DEF Ending, RollingBack, Writes
    <2> QED  BY <1>1, <1>3, <1>7, <2>1, WritesKept
  <1> QED  BY <1>6, <1>7, <1>8, <1>9, <1>10 DEF Keeps

\* What a call that writes at most the tuple r does to the pages.
WritesAtMost(r, done) ==
    /\ pages' \in Seq(Page) /\ Len(pages') = Len(pages) /\ KnownRIDs' = KnownRIDs
    /\ \A q \in RIDs : Content(q)' # Content(q) => done /\ q = r

\* TableHeap.MarkDelete: a lock, a mark and a record, or an abort.
LEMMA MarkDeleteEffect ==
    ASSUME TxnInv, NEW t \in TxnIDs, t \notin released, state[t] # "COMMITTED",
           NEW r \in KnownRIDs, NEW done \in BOOLEAN, MarkDeleteOn(t, r, done)
    PROVE  /\ LockEffect(t, r, done)
           /\ WritesAtMost(r, done)
           /\ done => /\ ~IsDeleted(Content(r)) /\ Content(r)' = MarkedSlot(Content(r).tuple)
                      /\ IsFull(Content(r)') /\ IsDeleted(Content(r)')
           /\ state' = [state EXCEPT ![t] = state'[t]]
           /\ state'[t] \in {state[t], "ABORTED"}
           /\ write_set' = [write_set EXCEPT ![t] = write_set'[t]]
           /\ write_set'[t] = IF done THEN write_set[t] \o <<[rid |-> r, wtype |-> "DELETE"]>>
                                      ELSE write_set[t]
  <1>1. r \in RIDs /\ pages \in Seq(Page) /\ LockInv
    BY DEF KnownRIDs, TxnInv, TxnTypeOK
  <1>2. CASE ~done /\ Abandon(t) /\ UNCHANGED <<pages, write_set>> /\ LockEffect(t, r, done)
    <2>1. WritesAtMost(r, done)
      BY <1>1, <1>2, SamePages DEF WritesAtMost
    <2> QED  BY <1>2, <2>1 DEF Abandon, TxnInv, TxnTypeOK
  <1>3. CASE /\ done /\ LockEffect(t, r, done) /\ ~IsDeleted(Content(r))
             /\ pages' = [pages EXCEPT ![r[1]] = MarkTuple(@, r[2])]
             /\ AddIntoWriteSet(t, <<[rid |-> r, wtype |-> "DELETE"]>>)
             /\ UNCHANGED state
    <2>1. /\ pages' \in Seq(Page) /\ Len(pages') = Len(pages) /\ KnownRIDs' = KnownRIDs
          /\ Wrote(r, MarkedSlot(Content(r).tuple))
      BY <1>1, <1>3, MarkWrites
    <2>2. WritesAtMost(r, done)
      BY <1>3, <2>1 DEF WritesAtMost, Wrote
    <2>3. /\ Content(r)' = MarkedSlot(Content(r).tuple)
          /\ IsFull(Content(r)') /\ IsDeleted(Content(r)')
      BY <2>1 DEF Wrote, MarkedSlot, IsFull, IsDeleted
    <2>4. /\ state' = [state EXCEPT ![t] = state'[t]] /\ state'[t] = state[t]
          /\ write_set' = [write_set EXCEPT ![t] = write_set'[t]]
          /\ write_set'[t] = write_set[t] \o <<[rid |-> r, wtype |-> "DELETE"]>>
      BY <1>3 DEF AddIntoWriteSet, TxnInv, TxnTypeOK
    <2> QED  BY <1>3, <2>2, <2>3, <2>4
  <1>4. UNCHANGED lockVars => LockEffect(t, r, FALSE)
    BY DEF LockEffect, lockVars, setVars
  <1>5. ~IsDeleted(Content(r)) /\ LockForWrite(t, r, done) => LockEffect(t, r, done)
    BY <1>1, LockForWriteEffect
  <1> QED  BY <1>2, <1>3, <1>4, <1>5 DEF MarkDeleteOn

\* The records of t after a mark: it is the last record about its tuple, and
\* no delete of that tuple came before it.
LEMMA MarkRecorded ==
    ASSUME TxnInv, TxnTypeOK', NEW t \in TxnIDs, t \notin released, state[t] # "COMMITTED",
           NEW r \in KnownRIDs, NEW done \in BOOLEAN, MarkDeleteOn(t, r, done),
           undo' = undo,
           exclusive_lock_set[t] \subseteq exclusive_lock_set'[t],
           done => r \in exclusive_lock_set'[t],
           pc[t] # "commit", pc'[t] # "commit",
           \/ ~Ending(t) /\ ~Ending(t)'
           \/ RollingBack(t) /\ RollingBack(t)'
    PROVE  WritesOK(t)'
  <1> PICK s : s = Writes(t)
    OBVIOUS
  <1>1. /\ r \in RIDs /\ s \in Seq(WriteRecord) /\ WritesOK(t)
        /\ exclusive_lock_set[t] \subseteq RIDs
    BY DEF KnownRIDs, TxnInv, TxnTypeOK, Writes, LockInv, LockTypeOK
  <1>2. /\ WritesAtMost(r, done)
        /\ done => /\ ~IsDeleted(Content(r))
                   /\ IsFull(Content(r)') /\ IsDeleted(Content(r)')
        /\ write_set'[t] = IF done THEN write_set[t] \o <<[rid |-> r, wtype |-> "DELETE"]>>
                                   ELSE write_set[t]
    BY MarkDeleteEffect
  <1>3. \A i \in 1 .. Len(s) : s[i].rid \in RIDs
    BY <1>1 DEF WritesOK
  <1>4. \A q \in RIDs : IsFull(Content(q)) => IsFull(Content(q)')
    BY <1>2 DEF WritesAtMost
  <1>5. \A q \in RIDs : IsDeleted(Content(q)) => IsDeleted(Content(q)')
    BY <1>2 DEF WritesAtMost
  <1>6. CASE RollingBack(t) /\ RollingBack(t)'
    <2>1. Writes(t)' = s
      BY <1>6 DEF Writes, Ending
    <2>2. Writes(t)' = SubSeq(s, 1, Len(s)) /\ Len(s) \in 0 .. Len(s)
      BY <1>1, <2>1, Prefix
    <2>3. \A i \in 1 .. Len(s) : s[i].wtype = "INSERT" => IsFull(Content(s[i].rid)')
      BY <1>1, <1>3, <1>4, <1>6 DEF WritesOK
    <2> QED  BY <1>6, <2>2, <2>3, RollbackShortened
  <1>7. CASE ~Ending(t) /\ ~Ending(t)' /\ ~done
    <2>1. Writes(t)' = Writes(t) /\ ~RollingBack(t) /\ ~RollingBack(t)'
      BY <1>2, <1>7 DEF Writes, Ending
    <2>2. \A q \in RIDs : Content(q)' = Content(q)
      BY <1>2, <1>7 DEF WritesAtMost
    <2> QED  BY <1>7, <2>1, <2>2, WritesKept
  <1>8. CASE ~Ending(t) /\ ~Ending(t)' /\ done
    <2>1. PICK recs : recs = <<[rid |-> r, wtype |-> "DELETE"]>>
      OBVIOUS
    <2>2. recs \in Seq(WriteRecord) /\ Len(recs) = 1 /\ recs[1].rid = r /\ recs[1].wtype = "DELETE"
      BY <1>1, <2>1 DEF WriteRecord
    <2>3. Writes(t)' = s \o recs
      BY <1>2, <1>8, <2>1 DEF Writes
    <2>4. \A j \in 1 .. Len(s) : /\ IsFull(Content(s[j].rid))
                                 /\ s[j].wtype = "DELETE" => IsDeleted(Content(s[j].rid))
      BY <1>1, <1>8 DEF WritesOK
    <2>5. \A j \in 1 .. Len(s) : /\ IsFull(Content(s[j].rid)')
                                 /\ s[j].wtype = "DELETE" => IsDeleted(Content(s[j].rid)')
      BY <1>3, <1>4, <1>5, <2>4
    <2>6. \A j \in 1 .. Len(s) : s[j].rid = r => s[j].wtype # "DELETE"
      BY <1>2, <1>8, <2>4
    <2>7. \A i \in 1 .. Len(recs) : recs[i].rid \in exclusive_lock_set'[t]
      BY <1>8, <2>2
    <2>8. \A i \in 1 .. Len(recs) :
              /\ IsFull(Content(recs[i].rid)')
              /\ recs[i].wtype = "DELETE" => IsDeleted(Content(recs[i].rid)')
      BY <1>2, <1>8, <2>2
    <2>9. /\ \A i, j \in 1 .. Len(recs) : i # j => recs[i].wtype # recs[j].wtype
          /\ \A i \in 1 .. Len(recs), j \in 1 .. Len(s) :
              recs[i].rid = s[j].rid =>
                 recs[i].wtype # s[j].wtype \/ recs[i].wtype = "UPDATE"
      BY <2>2, <2>6
    <2> QED  BY <1>8, <2>2, <2>3, <2>5, <2>7, <2>8, <2>9, WritesExtended
  <1> QED  BY <1>6, <1>7, <1>8

\* The client's MarkDelete.
LEMMA MarkDeleteKeeps ==
    ASSUME TxnInv, NEW t \in TxnIDs, NEW r \in KnownRIDs, MarkDelete(t, r)
    PROVE  Keeps(t)
  <1>1. /\ pc[t] = "run" /\ t \notin released /\ state[t] # "COMMITTED" /\ latch # "held"
        /\ UNCHANGED <<undo, pc, call, latch, committed>>
        /\ r \in RIDs
    BY DEF MarkDelete, ClientCall, Running, TxnInv, PhaseOK, KnownRIDs
  <1>2. PICK done \in BOOLEAN : MarkDeleteOn(t, r, done)
    BY DEF MarkDelete
  <1>3. /\ LockEffect(t, r, done)
        /\ WritesAtMost(r, done)
        /\ state' = [state EXCEPT ![t] = state'[t]]
        /\ state'[t] \in {state[t], "ABORTED"}
        /\ write_set' = [write_set EXCEPT ![t] = write_set'[t]]
        /\ write_set'[t] = IF done THEN write_set[t] \o <<[rid |-> r, wtype |-> "DELETE"]>>
                                   ELSE write_set[t]
    BY <1>1, <1>2, MarkDeleteEffect
  <1>4. TxnTypeOK'
    <2>1. [rid |-> r, wtype |-> "DELETE"] \in WriteRecord
      BY <1>1 DEF WriteRecord
    <2>2. write_set'[t] \in Seq(WriteRecord)
      BY <1>3, <2>1 DEF TxnInv, TxnTypeOK
    <2> QED  BY <1>1, <1>3, <2>2 DEF TxnInv, TxnTypeOK, WritesAtMost
  <1>5. \A u \in TxnIDs \ {t} :
              /\ pc'[u] = pc[u] /\ call'[u] = call[u] /\ state'[u] = state[u]
              /\ undo'[u] = undo[u] /\ write_set'[u] = write_set[u]
    BY <1>1, <1>3 DEF TxnInv, TxnTypeOK
  <1>6. /\ [LockNext]_lockVars
        /\ StepOf(t)
        /\ exclusive_lock_set'[t] \subseteq KnownRIDs'
        /\ exclusive_lock_set[t] \subseteq exclusive_lock_set'[t]
        /\ released' = released
        /\ done => r \in exclusive_lock_set'[t]
    <2>1. latch' = latch /\ Len(pages') >= Len(pages) /\ KnownRIDs \subseteq KnownRIDs'
          /\ r \in KnownRIDs'
      BY <1>1, <1>3 DEF TxnInv, TxnTypeOK, WritesAtMost
    <2>2. \A q \in RIDs : Content(q)' # Content(q) => done /\ q = r
      BY <1>3 DEF WritesAtMost
    <2> QED  BY <1>1, <1>3, <1>5, <2>1, <2>2, WriteStep
  <1>7. PhaseOK(t)'
    BY <1>1, <1>3, <1>6, ReturnPhase
  <1>8. CallOK(t)'
    BY <1>1 DEF CallOK
  <1>9. WritesOK(t)'
    <2>1. ~Ending(t) /\ ~Ending(t)'
      BY <1>1 DEF Ending, RollingBack
    <2> QED  BY <1>1, <1>2, <1>4, <1>6, <2>1, MarkRecorded
  <1> QED  BY <1>4, <1>6, <1>7, <1>8, <1>9 DEF Keeps

\* The delete of a move: the update goes on with the insert, or returns.
LEMMA MoveDeleteKeeps ==
    ASSUME TxnInv, NEW t \in TxnIDs, MoveDelete(t)
    PROVE  Keeps(t)
  <1>0. PICK old : old = call[t]
    OBVIOUS
  <1>1. /\ pc[t] = "move" /\ t \notin released /\ state[t] # "COMMITTED" /\ latch # "held"
        /\ UNCHANGED <<undo, ops, latch, committed>>
        /\ old \in MoveCall /\ old.rid \in KnownRIDs /\ old.rid \in RIDs
    BY <1>0 DEF MoveDelete, TxnInv, PhaseOK, CallOK, KnownRIDs
  <1>2. PICK done \in BOOLEAN :
         /\ MarkDeleteOn(t, old.rid, done)
         /\ IF done
              THEN GoTo(t, "insert", [caller |-> old.caller, rid |-> old.rid,
                                      old |-> old.old, tuple |-> old.tuple, page |-> 1])
              ELSE Return(t, old.caller)
    BY <1>0 DEF MoveDelete
  <1>3. /\ LockEffect(t, old.rid, done)
        /\ WritesAtMost(old.rid, done)
        /\ done => IsFull(Content(old.rid)')
        /\ state' = [state EXCEPT ![t] = state'[t]]
        /\ state'[t] \in {state[t], "ABORTED"}
        /\ write_set' = [write_set EXCEPT ![t] = write_set'[t]]
        /\ write_set'[t] = IF done THEN write_set[t] \o <<[rid |-> old.rid, wtype |-> "DELETE"]>>
                                   ELSE write_set[t]
    BY <1>1, <1>2, MarkDeleteEffect
  <1>4. /\ pc' = [pc EXCEPT ![t] = pc'[t]] /\ call' = [call EXCEPT ![t] = call'[t]]
        /\ pc'[t] = IF done THEN "insert" ELSE IF old.caller = "rollback" THEN "abort" ELSE "run"
        /\ done => call'[t] = [caller |-> old.caller, rid |-> old.rid,
                               old |-> old.old, tuple |-> old.tuple, page |-> 1]
    BY <1>2 DEF GoTo, Return, TxnInv, TxnTypeOK
  <1>5. TxnTypeOK'
    <2>1. [rid |-> old.rid, wtype |-> "DELETE"] \in WriteRecord
      BY <1>1 DEF WriteRecord
    <2>2. write_set'[t] \in Seq(WriteRecord)
      BY <1>3, <2>1 DEF TxnInv, TxnTypeOK
    <2>3. pc'[t] \in Labels
      BY <1>4 DEF Labels
    <2>4. state' \in [TxnIDs -> {"GROWING", "COMMITTED", "ABORTED"}]
      BY <1>3 DEF TxnInv, TxnTypeOK
    <2> QED  BY <1>1, <1>3, <1>4, <2>2, <2>3, <2>4, ZenonT(30) DEF TxnInv, TxnTypeOK, WritesAtMost
  <1>6. \A u \in TxnIDs \ {t} :
              /\ pc'[u] = pc[u] /\ call'[u] = call[u] /\ state'[u] = state[u]
              /\ undo'[u] = undo[u] /\ write_set'[u] = write_set[u]
    BY <1>1, <1>3, <1>4 DEF TxnInv, TxnTypeOK
  <1>7. /\ [LockNext]_lockVars
        /\ StepOf(t)
        /\ exclusive_lock_set'[t] \subseteq KnownRIDs'
        /\ exclusive_lock_set[t] \subseteq exclusive_lock_set'[t]
        /\ released' = released
        /\ done => old.rid \in exclusive_lock_set'[t]
    <2>1. latch' = latch /\ Len(pages') >= Len(pages) /\ KnownRIDs \subseteq KnownRIDs'
          /\ old.rid \in KnownRIDs'
      BY <1>1, <1>3 DEF TxnInv, TxnTypeOK, WritesAtMost
    <2>2. \A q \in RIDs : Content(q)' # Content(q) => done /\ q = old.rid
      BY <1>3 DEF WritesAtMost
    <2> QED  BY <1>1, <1>3, <1>6, <2>1, <2>2, WriteStep
  <1>8. PhaseOK(t)'
    <2>1. pc'[t] \in {"run", "abort", "move", "insert", "read"} /\ latch' = latch
      BY <1>1, <1>4
    <2> QED  BY <1>1, <1>3, <1>7, <2>1, ReturnPhase
  <1>9. CallOK(t)'
    <2>1. CASE done
      <3>1. call'[t] \in InsertCall /\ call'[t].page = 1 /\ call'[t].rid = old.rid
            /\ pc'[t] = "insert"
        BY <1>1, <1>4, <2>1 DEF InsertCall, MoveCall
      <3>2. 1 \in 1 .. Len(pages')
        BY <1>5 DEF TxnTypeOK
      <3>3. Content(call[t].rid)' = Content(old.rid)'
        BY <3>1
      <3> QED  BY <1>3, <1>7, <2>1, <3>1, <3>2, <3>3 DEF CallOK
    <2>2. CASE ~done
      BY <1>4, <2>2 DEF CallOK
    <2> QED  BY <2>1, <2>2
  <1>10. WritesOK(t)'
    <2>1. \/ ~Ending(t) /\ ~Ending(t)'
          \/ RollingBack(t) /\ RollingBack(t)'
      <3>1. done => call'[t].caller = old.caller
        BY <1>4
      <3> QED  BY <1>0, <1>1, <1>4, <3>1 DEF Ending, RollingBack
    <2>2. undo' = undo /\ pc[t] # "commit" /\ pc'[t] # "commit"
      BY <1>1, <1>4
    <2> QED  BY <1>1, <1>2, <1>5, <1>7, <2>1, <2>2, MarkRecorded
  <1> QED  BY <1>5, <1>7, <1>8, <1>9, <1>10 DEF Keeps

\* What TableHeap.UpdateTuple does; done says whether the page was changed.
UpdateEffect(t, r, v, caller, done) ==
    /\ LockEffect(t, r, done)
    /\ WritesAtMost(r, done)
    /\ done => /\ ~IsDeleted(Content(r)) /\ Content(r)' = LiveSlot(v)
               /\ write_set'[t] = write_set[t] \o OldTupleRecord(t, r)
    /\ ~done => write_set'[t] = write_set[t]
    /\ write_set' = [write_set EXCEPT ![t] = write_set'[t]]
    /\ state' = [state EXCEPT ![t] = state'[t]]
    /\ state'[t] \in {state[t], "ABORTED"}
    /\ pc' = [pc EXCEPT ![t] = pc'[t]]
    /\ pc'[t] \in {"move", IF caller = "rollback" THEN "abort" ELSE "run"}
    /\ call' = [call EXCEPT ![t] = call'[t]]
    /\ pc'[t] = "move" => call'[t] \in MoveCall /\ call'[t].rid = r /\ call'[t].caller = caller

\* It changes the tuple under its lock, or nothing.
LEMMA UpdateTupleEffect ==
    ASSUME TxnInv, NEW t \in TxnIDs, t \notin released,
           NEW r \in KnownRIDs, NEW v \in Tuples, NEW caller \in {"update", "rollback"},
           UpdateTuple(t, r, v, caller)
    PROVE  \E done \in BOOLEAN : UpdateEffect(t, r, v, caller, done)
  <1>1. r \in RIDs /\ pages \in Seq(Page) /\ LockInv
    BY DEF KnownRIDs, TxnInv, TxnTypeOK
  <1>2. UNCHANGED lockVars => LockEffect(t, r, FALSE)
    BY DEF LockEffect, lockVars, setVars
  <1>3. CASE UpdateInPlace(t, r, v, caller)
    <2>1. PICK granted \in BOOLEAN :
         /\ LockForWrite(t, r, granted)
         /\ IF granted
              THEN /\ pages' = [pages EXCEPT ![r[1]] = ReplaceTuple(@, r[2], v)]
                   /\ AddIntoWriteSet(t, OldTupleRecord(t, r))
                   /\ UNCHANGED state
              ELSE Abandon(t) /\ UNCHANGED <<pages, write_set>>
      BY <1>3 DEF UpdateInPlace
    <2>2. /\ ~IsDeleted(Content(r)) /\ RoomToUpdate(pages[r[1]], r[2], v)
          /\ Return(t, caller)
      BY <1>3 DEF UpdateInPlace
    <2>3. LockEffect(t, r, granted)
      BY <1>1, <2>1, LockForWriteEffect
    <2>4. /\ pc' = [pc EXCEPT ![t] = pc'[t]] /\ call' = [call EXCEPT ![t] = call'[t]]
          /\ pc'[t] = IF caller = "rollback" THEN "abort" ELSE "run"
      BY <2>2 DEF Return, GoTo, TxnInv, TxnTypeOK
    <2>5. /\ state' = [state EXCEPT ![t] = state'[t]]
          /\ state'[t] \in {state[t], "ABORTED"}
          /\ write_set' = [write_set EXCEPT ![t] = write_set'[t]]
          /\ write_set'[t] = IF granted THEN write_set[t] \o OldTupleRecord(t, r)
                                        ELSE write_set[t]
      BY <2>1 DEF AddIntoWriteSet, Abandon, TxnInv, TxnTypeOK
    <2>6. CASE granted
      <3>1. pages' = [pages EXCEPT ![r[1]] = ReplaceTuple(@, r[2], v)]
        BY <2>1, <2>6
      <3>2. /\ pages' \in Seq(Page) /\ Len(pages') = Len(pages) /\ KnownRIDs' = KnownRIDs
            /\ Wrote(r, LiveSlot(v))
        BY <1>1, <2>2, <3>1, ReplaceWrites
      <3>3. WritesAtMost(r, TRUE) /\ Content(r)' = LiveSlot(v)
        BY <3>2 DEF WritesAtMost, Wrote
      <3>4. UpdateEffect(t, r, v, caller, TRUE)
        BY <2>2, <2>3, <2>4, <2>5, <2>6, <3>3 DEF UpdateEffect
      <3> QED  BY <3>4
    <2>7. CASE ~granted
      <3>1. WritesAtMost(r, FALSE)
        BY <1>1, <2>1, <2>7, SamePages DEF WritesAtMost
      <3>2. UpdateEffect(t, r, v, caller, FALSE)
        BY <2>3, <2>4, <2>5, <2>7, <3>1 DEF UpdateEffect
      <3> QED  BY <3>2
    <2> QED  BY <2>6, <2>7
  <1>4. CASE UpdateRefused(t, r, caller)
    <2>1. WritesAtMost(r, FALSE)
      BY <1>1, <1>4, SamePages DEF WritesAtMost, UpdateRefused
    <2>2. /\ pc' = [pc EXCEPT ![t] = pc'[t]] /\ call' = [call EXCEPT ![t] = call'[t]]
          /\ pc'[t] = IF caller = "rollback" THEN "abort" ELSE "run"
      BY <1>4 DEF UpdateRefused, Return, GoTo, TxnInv, TxnTypeOK
    <2>3. /\ state' = [state EXCEPT ![t] = state'[t]] /\ state'[t] = "ABORTED"
          /\ write_set' = [write_set EXCEPT ![t] = write_set'[t]]
          /\ write_set'[t] = write_set[t]
      BY <1>4 DEF UpdateRefused, Abandon, TxnInv, TxnTypeOK
    <2>4. LockEffect(t, r, FALSE)
      BY <1>2, <1>4 DEF UpdateRefused
    <2>5. UpdateEffect(t, r, v, caller, FALSE)
      BY <2>1, <2>2, <2>3, <2>4 DEF UpdateEffect
    <2> QED  BY <2>5
  <1>5. CASE UpdateMoves(t, r, v, caller)
    <2>1. WritesAtMost(r, FALSE)
      BY <1>1, <1>5, SamePages DEF WritesAtMost, UpdateMoves
    <2>2. Content(r).tuple \in Tuples
      BY <1>1, <1>5, ContentType, SlotKinds DEF UpdateMoves
    <2>3. /\ pc' = [pc EXCEPT ![t] = pc'[t]] /\ call' = [call EXCEPT ![t] = call'[t]]
          /\ pc'[t] = "move"
          /\ call'[t] = [caller |-> caller, rid |-> r, tuple |-> v, old |-> Content(r).tuple]
      BY <1>5 DEF UpdateMoves, GoTo, TxnInv, TxnTypeOK
    <2>4. call'[t] \in MoveCall /\ call'[t].rid = r /\ call'[t].caller = caller
      BY <1>1, <2>2, <2>3 DEF MoveCall
    <2>5. /\ state' = [state EXCEPT ![t] = state'[t]] /\ state'[t] = state[t]
          /\ write_set' = [write_set EXCEPT ![t] = write_set'[t]]
          /\ write_set'[t] = write_set[t]
      BY <1>5 DEF UpdateMoves, TxnInv, TxnTypeOK
    <2>6. LockEffect(t, r, FALSE)
      BY <1>2, <1>5 DEF UpdateMoves
    <2>7. UpdateEffect(t, r, v, caller, FALSE)
      BY <2>1, <2>3, <2>4, <2>5, <2>6 DEF UpdateEffect
    <2> QED  BY <2>7
  <1> QED  BY <1>3, <1>4, <1>5 DEF UpdateTuple

\* All of the invariant but the records, after UpdateTuple.
LEMMA UpdateFrame ==
    ASSUME TxnInv, NEW t \in TxnIDs, t \notin released, state[t] # "COMMITTED", latch # "held",
           NEW r \in KnownRIDs, NEW v \in Tuples, NEW caller \in {"update", "rollback"},
           NEW done \in BOOLEAN, UpdateEffect(t, r, v, caller, done),
           undo'[t] \in Seq(WriteRecord), undo' = [undo EXCEPT ![t] = undo'[t]],
           UNCHANGED <<latch, committed>>
    PROVE  /\ TxnTypeOK'
           /\ [LockNext]_lockVars
           /\ StepOf(t)
           /\ exclusive_lock_set'[t] \subseteq KnownRIDs'
           /\ exclusive_lock_set[t] \subseteq exclusive_lock_set'[t]
           /\ done => r \in exclusive_lock_set'[t]
           /\ PhaseOK(t)'
           /\ CallOK(t)'
  <1>1. r \in RIDs /\ Content(r) \in Slot
    BY ContentType DEF KnownRIDs, TxnInv, TxnTypeOK
  <1>2. OldTupleRecord(t, r) \in Seq(WriteRecord) \/ ~done
    <2>1. ~IsDeleted(Content(r)) =>
             [rid |-> r, wtype |-> "UPDATE", tuple |-> Content(r).tuple] \in WriteRecord
      BY <1>1, SlotKinds DEF WriteRecord
    <2>2. done => ~IsDeleted(Content(r))
      BY DEF UpdateEffect
    <2>3. \A x \in WriteRecord : <<x>> \in Seq(WriteRecord)
      OBVIOUS
    <2>4. << >> \in Seq(WriteRecord)
      OBVIOUS
    <2> QED  BY <2>1, <2>2, <2>3, <2>4 DEF OldTupleRecord
  <1>3. write_set'[t] \in Seq(WriteRecord)
    <2>1. write_set[t] \in Seq(WriteRecord)
      BY DEF TxnInv, TxnTypeOK
    <2>2. write_set'[t] = write_set[t] \/
             (OldTupleRecord(t, r) \in Seq(WriteRecord)
              /\ write_set'[t] = write_set[t] \o OldTupleRecord(t, r))
      BY <1>2 DEF UpdateEffect
    <2>3. ASSUME NEW a \in Seq(WriteRecord), NEW b \in Seq(WriteRecord)
          PROVE  a \o b \in Seq(WriteRecord)
      OBVIOUS
    <2> QED  BY <2>1, <2>2, <2>3
  <1>4. pc'[t] \in {"move", "abort", "run"} /\ pc'[t] \in Labels
    BY DEF UpdateEffect, Labels
  <1>5. state'[t] \in {"GROWING", "COMMITTED", "ABORTED"}
    BY DEF UpdateEffect, TxnInv, TxnTypeOK
  <1>6. TxnTypeOK'
    BY <1>3, <1>4, <1>5 DEF UpdateEffect, WritesAtMost, TxnInv, TxnTypeOK
  <1>7. \A u \in TxnIDs \ {t} :
              /\ pc'[u] = pc[u] /\ call'[u] = call[u] /\ state'[u] = state[u]
              /\ undo'[u] = undo[u] /\ write_set'[u] = write_set[u]
    BY DEF UpdateEffect, TxnInv, TxnTypeOK
  <1>8. /\ [LockNext]_lockVars
        /\ StepOf(t)
        /\ exclusive_lock_set'[t] \subseteq KnownRIDs'
        /\ exclusive_lock_set[t] \subseteq exclusive_lock_set'[t]
        /\ released' = released
        /\ done => r \in exclusive_lock_set'[t]
    <2>1. latch' = latch /\ Len(pages') >= Len(pages) /\ KnownRIDs \subseteq KnownRIDs'
          /\ r \in KnownRIDs'
      BY DEF UpdateEffect, WritesAtMost, TxnInv, TxnTypeOK
    <2>2. (\A q \in RIDs : Content(q)' # Content(q) => done /\ q = r) /\ LockEffect(t, r, done)
      BY DEF UpdateEffect, WritesAtMost
    <2> QED  BY <1>1, <1>7, <2>1, <2>2, WriteStep
  <1>9. PhaseOK(t)'
    <2>1. state'[t] \in {state[t], "ABORTED"}
      BY DEF UpdateEffect
    <2> QED  BY <1>4, <1>8, <2>1, ReturnPhase
  <1>10. CallOK(t)'
    BY <1>4 DEF CallOK, UpdateEffect, WritesAtMost
  <1> QED  BY <1>6, <1>8, <1>9, <1>10

\* The client's UpdateTuple.
LEMMA UpdateKeeps ==
    ASSUME TxnInv, NEW t \in TxnIDs, NEW r \in KnownRIDs, NEW v \in Tuples, Update(t, r, v)
    PROVE  Keeps(t)
  <1>0. PICK s : s = Writes(t)
    OBVIOUS
  <1>1. /\ pc[t] = "run" /\ t \notin released /\ state[t] # "COMMITTED" /\ latch # "held"
        /\ UNCHANGED <<undo, latch, committed>> /\ r \in RIDs
        /\ UpdateTuple(t, r, v, "update")
    BY DEF Update, ClientCall, Running, TxnInv, PhaseOK, KnownRIDs
  <1>2. PICK done \in BOOLEAN : UpdateEffect(t, r, v, "update", done)
    BY <1>1, UpdateTupleEffect
  <1>3. /\ TxnTypeOK'
        /\ [LockNext]_lockVars
        /\ StepOf(t)
        /\ exclusive_lock_set'[t] \subseteq KnownRIDs'
        /\ exclusive_lock_set[t] \subseteq exclusive_lock_set'[t]
        /\ done => r \in exclusive_lock_set'[t]
        /\ PhaseOK(t)'
        /\ CallOK(t)'
    <2>1. undo'[t] \in Seq(WriteRecord) /\ undo' = [undo EXCEPT ![t] = undo'[t]]
      BY <1>1 DEF TxnInv, TxnTypeOK
    <2> QED  BY <1>1, <1>2, <2>1, UpdateFrame
  <1>4. /\ WritesAtMost(r, done)
        /\ done => /\ ~IsDeleted(Content(r)) /\ IsFull(Content(r)')
                   /\ write_set'[t] = write_set[t] \o OldTupleRecord(t, r)
        /\ ~done => write_set'[t] = write_set[t]
    BY <1>2, SlotKinds DEF UpdateEffect
  <1>5. ~Ending(t) /\ ~Ending(t)' /\ pc'[t] # "commit" /\ ~RollingBack(t) /\ ~RollingBack(t)'
    BY <1>1, <1>2 DEF UpdateEffect, Ending, RollingBack
  <1>6. /\ s \in Seq(WriteRecord) /\ WritesOK(t) /\ exclusive_lock_set[t] \subseteq RIDs
    BY <1>0 DEF TxnInv, TxnTypeOK, Writes, LockInv, LockTypeOK
  <1>7. WritesOK(t)'
    <2>1. CASE ~done
      <3>1. Writes(t)' = Writes(t) /\ \A q \in RIDs : Content(q)' = Content(q)
        BY <1>4, <1>5, <2>1 DEF Writes, WritesAtMost
      <3> QED  BY <1>1, <1>3, <1>5, <3>1, WritesKept
    <2>2. CASE done
      <3>1. PICK recs : recs = OldTupleRecord(t, r)
        OBVIOUS
      <3>2. Writes(t)' = s \o recs
        BY <1>0, <1>4, <1>5, <2>2, <3>1 DEF Writes
      <3>3. /\ recs \in Seq(WriteRecord)
            /\ \A i \in 1 .. Len(recs) : i = 1 /\ recs[i].rid = r /\ recs[i].wtype = "UPDATE"
        <4>1. Content(r).tuple \in Tuples
          BY <1>1, <1>4, <2>2, ContentType, SlotKinds DEF TxnInv, TxnTypeOK
        <4>2. [rid |-> r, wtype |-> "UPDATE", tuple |-> Content(r).tuple] \in WriteRecord
          BY <1>1, <4>1 DEF WriteRecord
        <4> QED  BY <3>1, <4>2 DEF OldTupleRecord
      <3>4. \A j \in 1 .. Len(s) : /\ s[j].rid \in RIDs
                                   /\ IsFull(Content(s[j].rid))
                                   /\ s[j].wtype = "DELETE" => IsDeleted(Content(s[j].rid))
        BY <1>0, <1>5, <1>6 DEF WritesOK
      <3>5. \A j \in 1 .. Len(s) : s[j].wtype = "DELETE" => s[j].rid # r
        BY <1>4, <2>2, <3>4
      <3>6. \A j \in 1 .. Len(s) : /\ IsFull(Content(s[j].rid)')
                                   /\ s[j].wtype = "DELETE" => IsDeleted(Content(s[j].rid)')
        BY <1>4, <2>2, <3>4, <3>5 DEF WritesAtMost
      <3>7. \A i \in 1 .. Len(recs) :
              /\ recs[i].rid \in exclusive_lock_set'[t]
              /\ IsFull(Content(recs[i].rid)')
              /\ recs[i].wtype = "DELETE" => IsDeleted(Content(recs[i].rid)')
        BY <1>3, <1>4, <2>2, <3>3
      <3>8. /\ \A i, j \in 1 .. Len(recs) : i # j => recs[i].wtype # recs[j].wtype
            /\ \A i \in 1 .. Len(recs), j \in 1 .. Len(s) :
                  recs[i].rid = s[j].rid =>
                     recs[i].wtype # s[j].wtype \/ recs[i].wtype = "UPDATE"
        BY <3>3
      <3> QED  BY <1>0, <1>3, <1>5, <3>2, <3>3, <3>6, <3>7, <3>8, WritesExtended
    <2> QED  BY <2>1, <2>2
  <1> QED  BY <1>3, <1>7 DEF Keeps

\* The loops of Commit and Abort take the last record.
LEMMA PopIsPrefix ==
    ASSUME NEW S, NEW s \in Seq(S), s # << >>
    PROVE  /\ Len(s) - 1 \in 0 .. Len(s) /\ Len(s) \in 1 .. Len(s)
           /\ Pop(s) = SubSeq(s, 1, Len(s) - 1) /\ Last(s) = s[Len(s)] /\ Last(s) \in S
           /\ Pop(s) \in Seq(S)
  <1>1. Len(s) - 1 \in 0 .. Len(s) /\ Len(s) \in 1 .. Len(s)
    OBVIOUS
  <1> QED  BY <1>1, Prefix DEF Pop, Last

\* A step of the loop that writes at most the tuple of its record.
LEMMA LoopStep ==
    ASSUME TxnInv, NEW t \in TxnIDs, t \notin released, NEW r \in exclusive_lock_set[t],
           WritesAtMost(r, TRUE), undo[t] # << >>, undo' = [undo EXCEPT ![t] = Pop(@)],
           UNCHANGED <<lockVars, state, write_set, pc, call, latch, committed>>
    PROVE  /\ TxnTypeOK'
           /\ [LockNext]_lockVars
           /\ StepOf(t)
           /\ exclusive_lock_set'[t] \subseteq KnownRIDs'
           /\ undo'[t] = Pop(undo[t])
           /\ UNCHANGED <<exclusive_lock_set, shared_lock_set, released>>
  <1>1. UNCHANGED <<exclusive_lock_set, shared_lock_set, released>>
    BY DEF lockVars, setVars
  <1>2. undo[t] \in Seq(WriteRecord) /\ Pop(undo[t]) \in Seq(WriteRecord)
    BY PopIsPrefix DEF TxnInv, TxnTypeOK
  <1>3. TxnTypeOK'
    BY <1>2 DEF TxnInv, TxnTypeOK, WritesAtMost
  <1>4. \A u \in TxnIDs \ {t} : undo'[u] = undo[u]
    BY DEF TxnInv, TxnTypeOK
  <1>5. Len(pages) <= Len(pages') /\ KnownRIDs' = KnownRIDs
    BY DEF WritesAtMost, TxnInv, TxnTypeOK
  <1>6. \A q \in RIDs : Content(q)' # Content(q) => q = r
    BY DEF WritesAtMost
  <1>7. StepOf(t)
    BY <1>1, <1>4, <1>5, <1>6 DEF StepOf
  <1> QED  BY <1>1, <1>3, <1>5, <1>7 DEF TxnInv, TxnTypeOK

\* A turn of Commit's loop.
LEMMA CommitStepKeeps ==
    ASSUME TxnInv, NEW t \in TxnIDs, CommitStep(t)
    PROVE  Keeps(t)
  <1>0. PICK s : s = undo[t]
    OBVIOUS
  <1>1. /\ pc[t] = "commit" /\ s # << >> /\ state[t] = "COMMITTED" /\ t \notin released
        /\ undo' = [undo EXCEPT ![t] = Pop(@)] /\ latch # "held"
        /\ UNCHANGED <<lockVars, state, write_set, pc, call, ops, latch, committed>>
    BY <1>0 DEF CommitStep, TxnInv, PhaseOK
  <1>2. /\ s \in Seq(WriteRecord) /\ Writes(t) = s /\ WritesOK(t)
        /\ exclusive_lock_set[t] \subseteq RIDs
    BY <1>0, <1>1 DEF TxnInv, TxnTypeOK, Writes, Ending, LockInv, LockTypeOK
  <1>3. PICK n : n = Len(s)
    OBVIOUS
  <1>4. /\ n - 1 \in 0 .. n /\ n \in 1 .. n
        /\ Pop(s) = SubSeq(s, 1, n - 1) /\ Last(s) = s[n]
    BY <1>1, <1>2, <1>3, PopIsPrefix
  <1>5. s[n].rid \in exclusive_lock_set[t] /\ s[n].rid \in RIDs
    BY <1>2, <1>3, <1>4 DEF WritesOK
  <1>6. /\ WritesAtMost(s[n].rid, TRUE)
        /\ s[n].wtype # "DELETE" => \A q \in RIDs : Content(q)' = Content(q)
    <2>1. pages \in Seq(Page)
      BY DEF TxnInv, TxnTypeOK
    <2>2. CASE s[n].wtype = "DELETE"
      <3>1. /\ IsFull(Content(s[n].rid))
            /\ pages' = [pages EXCEPT ![s[n].rid[1]] = DropTuple(@, s[n].rid[2])]
        BY <1>0, <1>4, <2>2 DEF CommitStep, ApplyDelete
      <3>2. /\ pages' \in Seq(Page) /\ Len(pages') = Len(pages) /\ KnownRIDs' = KnownRIDs
            /\ Wrote(s[n].rid, EmptySlot)
        BY <1>5, <2>1, <3>1, DropWrites
      <3> QED  BY <2>2, <3>2 DEF WritesAtMost, Wrote
    <2>3. CASE s[n].wtype # "DELETE"
      BY <1>0, <1>4, <2>1, <2>3, SamePages DEF CommitStep, WritesAtMost
    <2> QED  BY <2>2, <2>3
  <1>7. /\ TxnTypeOK'
        /\ [LockNext]_lockVars
        /\ StepOf(t)
        /\ exclusive_lock_set'[t] \subseteq KnownRIDs'
        /\ undo'[t] = Pop(s)
        /\ UNCHANGED <<exclusive_lock_set, shared_lock_set, released>>
    BY <1>0, <1>1, <1>5, <1>6, LoopStep
  <1>8. CallOK(t)' /\ PhaseOK(t)'
    BY <1>1, <1>7 DEF CallOK, PhaseOK
  <1>9. Writes(t)' = SubSeq(s, 1, n - 1) /\ pc'[t] = "commit" /\ Ending(t)' /\ ~RollingBack(t)'
    BY <1>1, <1>4, <1>7 DEF Writes, Ending, RollingBack
  <1>10. /\ Len(Writes(t)') = n - 1
         /\ \A i \in 1 .. n - 1 : i \in 1 .. n /\ i # n /\ Writes(t)'[i] = s[i]
    BY <1>2, <1>3, <1>4, <1>9, Prefix
  <1>11. ASSUME NEW i \in 1 .. n - 1, s[i].wtype = "DELETE"
         PROVE  IsFull(Content(s[i].rid)')
    <2>1. i \in 1 .. n /\ i # n /\ s[i].rid \in RIDs /\ IsFull(Content(s[i].rid))
      BY <1>1, <1>2, <1>3, <1>10, <1>11 DEF WritesOK
    <2>2. s[n].wtype = "DELETE" => s[i].rid # s[n].rid
      BY <1>2, <1>3, <1>4, <1>11, <2>1 DEF WritesOK
    <2>3. Content(s[i].rid)' = Content(s[i].rid)
      BY <1>6, <2>1, <2>2 DEF WritesAtMost
    <2> QED  BY <2>1, <2>3
  <1>12. WritesOK(t)'
    <2>1. \A i \in 1 .. Len(Writes(t)') : Writes(t)'[i].rid \in exclusive_lock_set'[t]
      BY <1>2, <1>3, <1>7, <1>10 DEF WritesOK
    <2>2. \A i, j \in 1 .. Len(Writes(t)') :
          i # j /\ Writes(t)'[i].rid = Writes(t)'[j].rid
              => Writes(t)'[i].wtype # Writes(t)'[j].wtype \/ Writes(t)'[i].wtype = "UPDATE"
      BY <1>2, <1>3, <1>10, ZenonT(30) DEF WritesOK
    <2>3. \A i \in 1 .. Len(Writes(t)') :
          Writes(t)'[i].wtype = "DELETE" => IsFull(Content(Writes(t)[i].rid))'
      BY <1>10, <1>11
    <2> QED  BY <1>9, <2>1, <2>2, <2>3 DEF WritesOK
  <1> QED  BY <1>7, <1>8, <1>12 DEF Keeps

\* A turn of Abort's loop.
LEMMA AbortStepKeeps ==
    ASSUME TxnInv, NEW t \in TxnIDs, AbortStep(t)
    PROVE  Keeps(t)
  <1>0. PICK s : s = undo[t]
    OBVIOUS
  <1>1. /\ pc[t] = "abort" /\ s # << >> /\ state[t] # "COMMITTED" /\ t \notin released
        /\ undo' = [undo EXCEPT ![t] = Pop(@)] /\ latch # "held" /\ RollingBack(t)
        /\ UNCHANGED <<ops, latch, committed>>
    BY <1>0 DEF AbortStep, TxnInv, PhaseOK, RollingBack
  <1>2. /\ s \in Seq(WriteRecord) /\ Writes(t) = s /\ WritesOK(t)
        /\ exclusive_lock_set[t] \subseteq RIDs /\ pages \in Seq(Page)
    BY <1>0, <1>1 DEF TxnInv, TxnTypeOK, Writes, Ending, LockInv, LockTypeOK
  <1>3. PICK n : n = Len(s)
    OBVIOUS
  <1>4. /\ n - 1 \in 0 .. n /\ n \in 1 .. n /\ s[n] \in WriteRecord
        /\ Pop(s) = SubSeq(s, 1, n - 1) /\ Last(s) = s[n]
        /\ Pop(s) \in Seq(WriteRecord)
    BY <1>1, <1>2, <1>3, PopIsPrefix
  <1>5. PICK r : r = s[n].rid
    OBVIOUS
  <1>6. r \in exclusive_lock_set[t] /\ r \in RIDs /\ r \in KnownRIDs
    BY <1>2, <1>3, <1>4, <1>5 DEF WritesOK, TxnInv
  <1>7. /\ undo'[t] = Pop(s) /\ undo'[t] \in Seq(WriteRecord)
        /\ undo' = [undo EXCEPT ![t] = undo'[t]]
    BY <1>0, <1>1, <1>4 DEF TxnInv, TxnTypeOK
  <1>8. ASSUME NEW i \in 1 .. n - 1, s[i].wtype = "INSERT"
        PROVE  /\ i \in 1 .. n /\ s[i].rid \in RIDs /\ IsFull(Content(s[i].rid))
               /\ s[n].wtype = "INSERT" => s[i].rid # r
    <2>1. i \in 1 .. n /\ i # n
      BY <1>3, <1>4
    <2>2. s[i].rid \in RIDs /\ IsFull(Content(s[i].rid))
      BY <1>1, <1>2, <1>3, <1>8, <2>1 DEF WritesOK
    <2>3. s[n].wtype = "INSERT" => s[i].rid # r
      BY <1>2, <1>3, <1>4, <1>5, <1>8, <2>1 DEF WritesOK
    <2> QED  BY <2>1, <2>2, <2>3
  <1>9. ASSUME RollingBack(t)', exclusive_lock_set[t] \subseteq exclusive_lock_set'[t],
               \A i \in 1 .. n - 1 : s[i].wtype = "INSERT" => IsFull(Content(s[i].rid)')
        PROVE  WritesOK(t)'
    <2>1. Writes(t)' = SubSeq(s, 1, n - 1)
      BY <1>4, <1>7, <1>9 DEF Writes, Ending
    <2> QED  BY <1>1, <1>2, <1>3, <1>4, <1>9, <2>1, RollbackShortened
  <1>10. CASE /\ s[n].wtype = "DELETE" /\ RollbackDelete(t, r)
              /\ UNCHANGED <<lockVars, state, write_set, pc, call>>
    <2>1. /\ pages' \in Seq(Page) /\ Len(pages') = Len(pages) /\ KnownRIDs' = KnownRIDs
          /\ Wrote(r, IF IsFull(Content(r)) THEN LiveSlot(Content(r).tuple) ELSE EmptySlot)
      BY <1>2, <1>6, <1>10, UnmarkWrites DEF RollbackDelete
    <2>2. WritesAtMost(r, TRUE)
      BY <2>1 DEF WritesAtMost, Wrote
    <2>3. \A q \in RIDs : IsFull(Content(q)) => IsFull(Content(q)')
      BY <2>1, SlotKinds DEF Wrote
    <2>4. /\ TxnTypeOK'
          /\ [LockNext]_lockVars
          /\ StepOf(t)
          /\ exclusive_lock_set'[t] \subseteq KnownRIDs'
          /\ UNCHANGED <<exclusive_lock_set, shared_lock_set, released>>
      BY <1>0, <1>1, <1>6, <1>10, <2>2, LoopStep
    <2>5. CallOK(t)' /\ PhaseOK(t)' /\ RollingBack(t)'
      BY <1>1, <1>10, <2>4 DEF CallOK, PhaseOK, RollingBack
    <2>6. WritesOK(t)'
      BY <1>8, <1>9, <2>3, <2>4, <2>5
    <2> QED  BY <2>4, <2>5, <2>6 DEF Keeps
  <1>11. CASE /\ s[n].wtype = "INSERT" /\ ApplyDelete(t, r)
              /\ UNCHANGED <<lockVars, state, write_set, pc, call>>
    <2>1. /\ pages' \in Seq(Page) /\ Len(pages') = Len(pages) /\ KnownRIDs' = KnownRIDs
          /\ Wrote(r, EmptySlot)
      BY <1>2, <1>6, <1>11, DropWrites DEF ApplyDelete
    <2>2. WritesAtMost(r, TRUE)
      BY <2>1 DEF WritesAtMost, Wrote
    <2>3. /\ TxnTypeOK'
          /\ [LockNext]_lockVars
          /\ StepOf(t)
          /\ exclusive_lock_set'[t] \subseteq KnownRIDs'
          /\ UNCHANGED <<exclusive_lock_set, shared_lock_set, released>>
      BY <1>0, <1>1, <1>6, <1>11, <2>2, LoopStep
    <2>4. CallOK(t)' /\ PhaseOK(t)' /\ RollingBack(t)'
      BY <1>1, <1>11, <2>3 DEF CallOK, PhaseOK, RollingBack
    <2>5. \A i \in 1 .. n - 1 : s[i].wtype = "INSERT" => IsFull(Content(s[i].rid)')
      BY <1>8, <1>11, <2>2 DEF WritesAtMost
    <2>6. WritesOK(t)'
      BY <1>9, <2>3, <2>4, <2>5
    <2> QED  BY <2>3, <2>4, <2>6 DEF Keeps
  <1>12. CASE s[n].wtype = "UPDATE" /\ UpdateTuple(t, r, s[n].tuple, "rollback")
    <2>1. s[n].tuple \in Tuples
      BY <1>4, <1>12 DEF WriteRecord
    <2>2. PICK done \in BOOLEAN : UpdateEffect(t, r, s[n].tuple, "rollback", done)
      BY <1>1, <1>6, <1>12, <2>1, UpdateTupleEffect
    <2>3. /\ TxnTypeOK'
          /\ [LockNext]_lockVars
          /\ StepOf(t)
          /\ exclusive_lock_set'[t] \subseteq KnownRIDs'
          /\ exclusive_lock_set[t] \subseteq exclusive_lock_set'[t]
          /\ PhaseOK(t)'
          /\ CallOK(t)'
      <3>1. PICK v \in Tuples : UpdateEffect(t, r, v, "rollback", done)
        BY <2>1, <2>2
      <3>2. UNCHANGED <<latch, committed>> /\ state[t] # "COMMITTED" /\ latch # "held"
            /\ t \notin released
        BY <1>1
      <3> QED  BY <1>6, <1>7, <3>1, <3>2, UpdateFrame
    <2>4. RollingBack(t)'
      BY <2>2 DEF UpdateEffect, RollingBack
    <2>5. \A q \in RIDs : IsFull(Content(q)) => IsFull(Content(q)')
      BY <2>2, SlotKinds DEF UpdateEffect, WritesAtMost
    <2>6. WritesOK(t)'
      BY <1>8, <1>9, <2>3, <2>4, <2>5
    <2> QED  BY <2>3, <2>6 DEF Keeps
  <1> QED  BY <1>0, <1>4, <1>5, <1>10, <1>11, <1>12 DEF AbortStep

\* The end of the loop.
LEMMA EndOfLoopKeeps ==
    ASSUME TxnInv, NEW t \in TxnIDs, EndOfLoop(t)
    PROVE  Keeps(t)
  <1>1. /\ pc[t] \in {"commit", "abort"} /\ undo[t] = << >> /\ t \notin released
        /\ write_set' = [write_set EXCEPT ![t] = << >>]
        /\ pc' = [pc EXCEPT ![t] = "release"] /\ latch # "held"
        /\ UNCHANGED <<lockVars, pages, state, undo, call, ops, latch, committed>>
    BY DEF EndOfLoop, TxnInv, PhaseOK
  <1>2. TxnTypeOK'
    BY <1>1 DEF TxnInv, TxnTypeOK, Labels
  <1>3. \A u \in TxnIDs \ {t} :
              /\ pc'[u] = pc[u] /\ call'[u] = call[u] /\ state'[u] = state[u]
              /\ undo'[u] = undo[u] /\ write_set'[u] = write_set[u]
    BY <1>1 DEF TxnInv, TxnTypeOK
  <1>4. /\ [LockNext]_lockVars /\ StepOf(t) /\ exclusive_lock_set'[t] \subseteq KnownRIDs'
    BY <1>1, <1>3, QuietStep
  <1>5. pc'[t] = "release"
    BY <1>1 DEF TxnInv, TxnTypeOK
  <1>6. CallOK(t)' /\ PhaseOK(t)'
    BY <1>1, <1>5 DEF CallOK, PhaseOK, lockVars, setVars
  <1>7. WritesOK(t)'
    <2>1. Writes(t)' = << >> /\ Len(<< >>) = 0
      BY <1>1, <1>5 DEF Writes, Ending
    <2> QED  BY <2>1 DEF WritesOK
  <1> QED  BY <1>2, <1>4, <1>6, <1>7 DEF Keeps

\* releaseLocks.
LEMMA ReleaseKeeps ==
    ASSUME TxnInv, NEW t \in TxnIDs, Release(t)
    PROVE  Keeps(t)
  <1>1. /\ pc[t] = "release" /\ undo[t] = << >> /\ t \notin released /\ latch # "held"
        /\ ReleaseLocks(t)
        /\ pc' = [pc EXCEPT ![t] = "done"]
        /\ UNCHANGED <<pages, state, write_set, undo, call, ops, latch>>
    BY DEF Release, TxnInv, PhaseOK
  <1>2. TxnTypeOK'
    <2>1. \A r \in RIDs : Content(r) \in Slot
      BY ContentType DEF TxnInv, TxnTypeOK
    <2>2. committed' \in [RIDs -> Slot]
      BY <2>1 DEF Release, TxnInv, TxnTypeOK
    <2>3. pc' \in [TxnIDs -> Labels]
      BY <1>1 DEF TxnInv, TxnTypeOK, Labels
    <2> QED  BY <1>1, <2>2, <2>3 DEF TxnInv, TxnTypeOK
  <1>3. LockNext
    BY <1>1 DEF LockNext
  <1>4. UNCHANGED <<exclusive_lock_set, shared_lock_set>> /\ released' = released \union {t}
    BY <1>1 DEF ReleaseLocks, setVars
  <1>5. KnownRIDs' = KnownRIDs /\ \A q \in RIDs : Content(q)' = Content(q)
    BY <1>1, SamePages
  <1>6. pc'[t] = "done" /\ \A u \in TxnIDs \ {t} : pc'[u] = pc[u]
    BY <1>1 DEF TxnInv, TxnTypeOK
  <1>7. StepOf(t)
    BY <1>1, <1>4, <1>5, <1>6 DEF StepOf, TxnInv, TxnTypeOK
  <1>8. CallOK(t)' /\ PhaseOK(t)'
    BY <1>1, <1>4, <1>6 DEF CallOK, PhaseOK
  <1>9. WritesOK(t)'
    <2>1. Writes(t)' = << >> /\ Len(<< >>) = 0
      BY <1>1, <1>6 DEF Writes, Ending
    <2> QED  BY <2>1 DEF WritesOK
  <1>10. exclusive_lock_set'[t] \subseteq KnownRIDs'
    BY <1>4, <1>5 DEF TxnInv
  <1> QED  BY <1>2, <1>3, <1>7, <1>8, <1>9, <1>10 DEF Keeps

----------------------------------------------------------------------------
(* The invariant.                                                          *)

\* What at most two inserts into an empty page give is a page.
LEMMA CommittedPagesArePages == CommittedPages \subseteq Page
  <1>1. ASSUME NEW pg \in Page PROVE WithOneMore(pg) \subseteq Page
    BY PutTuplePage DEF WithOneMore
  <1> QED  BY <1>1, EmptyPageIsPage DEF CommittedPages

\* No transaction has begun in the initial state.
LEMMA TxnInitInv == Init => TxnInv
  <1> SUFFICES ASSUME Init PROVE TxnInv
    OBVIOUS
  <1>1. PICK pg \in Page : pages = <<pg>>
    BY CommittedPagesArePages DEF Init
  <1>2. pages \in Seq(Page) /\ Len(pages) = 1
    BY <1>1
  <1>3. \A r \in RIDs : Content(r) \in Slot
    BY <1>2, ContentType
  <1>4. TxnTypeOK
    BY <1>2, <1>3 DEF Init, TxnTypeOK, Labels
  <1>5. LockInv
    BY LockInitInv DEF Init
  <1>6. ASSUME NEW t \in TxnIDs
        PROVE  exclusive_lock_set[t] \subseteq KnownRIDs /\ CallOK(t) /\ PhaseOK(t)
    BY DEF Init, LockInit, CallOK, PhaseOK
  <1>7. ASSUME NEW t \in TxnIDs PROVE WritesOK(t)
    <2>1. Writes(t) = << >> /\ Len(<< >>) = 0
      BY DEF Init, Writes
    <2> QED  BY <2>1 DEF WritesOK
  <1> QED  BY <1>4, <1>5, <1>6, <1>7 DEF TxnInv

\* The checkpointer touches the latch, and takes it when no transaction runs.
LEMMA CheckpointerKeeps ==
    ASSUME TxnInv, Checkpointer
    PROVE  TxnInv' /\ UNCHANGED <<lockVars, pages, pc, undo, write_set>>
  <1>1. /\ UNCHANGED <<lockVars, pages, state, write_set, undo, pc, call, ops, committed>>
        /\ latch' = "held" => \A t \in TxnIDs : pc[t] \in {"unborn", "done"}
    BY DEF Checkpointer, BlockAllTransactions, BeginCheckpoint, EndCheckpoint, HoldsLatch
  <1>2. UNCHANGED <<exclusive_lock_set, shared_lock_set, released>>
    BY <1>1 DEF lockVars
  <1>3. KnownRIDs' = KnownRIDs /\ \A q : Content(q)' = Content(q)
    BY <1>1 DEF KnownRIDs, Content
  <1>4. TxnTypeOK'
    BY <1>1 DEF TxnInv, TxnTypeOK
  <1>5. LockInv'
    BY <1>1, LockNextInv DEF TxnInv
  <1>6. ASSUME NEW t \in TxnIDs
        PROVE  exclusive_lock_set'[t] \subseteq KnownRIDs' /\ CallOK(t)' /\ PhaseOK(t)'
    BY <1>1, <1>2, <1>3 DEF TxnInv, CallOK, PhaseOK
  <1>7. ASSUME NEW t \in TxnIDs PROVE WritesOK(t)'
    <2>1. /\ Ending(t)' <=> Ending(t)
          /\ RollingBack(t)' <=> RollingBack(t)
          /\ Writes(t)' = Writes(t)
      BY <1>1 DEF Ending, RollingBack, Writes
    <2> QED  BY <1>1, <1>2, <1>3, <2>1 DEF TxnInv, WritesOK
  <1> QED  BY <1>1, <1>4, <1>5, <1>6, <1>7 DEF TxnInv

\* Every step of a transaction does what is to be shown of it.
LEMMA TransactionKeeps ==
    ASSUME TxnInv, NEW t \in TxnIDs, Client(t) \/ InOperation(t)
    PROVE  Keeps(t)
  <1>1. CASE Client(t)
    BY <1>1, BeginKeeps, CommitStartKeeps, AbortStartKeeps, InsertTupleKeeps,
       GetTupleLockKeeps, MarkDeleteKeeps, UpdateKeeps DEF Client
  <1>2. CASE InOperation(t)
    BY <1>2, GetTupleReadKeeps, InsertHereKeeps, InsertNextPageKeeps, MoveDeleteKeeps,
       CommitStepKeeps, AbortStepKeeps, EndOfLoopKeeps, ReleaseKeeps DEF InOperation
  <1> QED  BY <1>1, <1>2

\* A step that changes nothing keeps everything.
LEMMA TxnStutter ==
    ASSUME TxnInv, UNCHANGED vars
    PROVE  TxnInv'
  <1>1. UNCHANGED <<lockVars, pages, state, write_set, undo, pc, call, latch, committed>>
    BY DEF vars, txnVars
  <1>2. UNCHANGED <<exclusive_lock_set, shared_lock_set, released>>
    BY <1>1 DEF lockVars
  <1>3. KnownRIDs' = KnownRIDs /\ \A q : Content(q)' = Content(q)
    BY <1>1 DEF KnownRIDs, Content
  <1>4. TxnTypeOK'
    BY <1>1 DEF TxnInv, TxnTypeOK
  <1>5. LockInv'
    BY <1>1, LockNextInv DEF TxnInv
  <1>6. ASSUME NEW t \in TxnIDs
        PROVE  exclusive_lock_set'[t] \subseteq KnownRIDs' /\ CallOK(t)' /\ PhaseOK(t)'
    BY <1>1, <1>2, <1>3 DEF TxnInv, CallOK, PhaseOK
  <1>7. ASSUME NEW t \in TxnIDs PROVE WritesOK(t)'
    <2>1. /\ Ending(t)' <=> Ending(t)
          /\ RollingBack(t)' <=> RollingBack(t)
          /\ Writes(t)' = Writes(t)
      BY <1>1 DEF Ending, RollingBack, Writes
    <2> QED  BY <1>1, <1>2, <1>3, <2>1 DEF TxnInv, WritesOK
  <1> QED  BY <1>4, <1>5, <1>6, <1>7 DEF TxnInv

\* Every step keeps the invariant and is a step of the lock manager.
LEMMA TxnNextInv == TxnInv /\ [Next]_vars => TxnInv' /\ [LockNext]_lockVars
  <1> SUFFICES ASSUME TxnInv, [Next]_vars PROVE TxnInv' /\ [LockNext]_lockVars
    OBVIOUS
  <1>1. CASE UNCHANGED vars
    BY <1>1, TxnStutter DEF vars
  <1>2. CASE Checkpointer
    BY <1>2, CheckpointerKeeps
  <1>3. ASSUME NEW t \in TxnIDs, Client(t) \/ InOperation(t)
        PROVE  TxnInv' /\ [LockNext]_lockVars
    <2>1. Keeps(t)
      BY <1>3, TransactionKeeps
    <2> QED  BY <2>1, KeepsInv DEF Keeps
  <1> QED  BY <1>1, <1>2, <1>3 DEF Next

----------------------------------------------------------------------------
(* The theorems for any transactions, tuples and clients.                  *)

\* TxnInv holds throughout: the types, the registers, the phases, and the
\* records of every transaction.
THEOREM TxnInvariance == Spec => []TxnInv
  <1>1. TxnInv /\ [Next]_vars => TxnInv'
    BY TxnNextInv
  <1> QED  BY TxnInitInv, <1>1, PTL DEF Spec

\* The transactions use the lock manager as it expects: Begin, the operations
\* of the heap, Commit and Abort, whatever the interleaving, are to the lock
\* manager a sequence of requests of live transactions and of releases.
THEOREM TransactionsImplementLocking == Spec => LockDiscipline
  <1>1. Init => LockInit
    BY DEF Init
  <1>2. TxnInv /\ [Next]_vars => [LockNext]_lockVars
    BY TxnNextInv
  <1> QED  BY TxnInvariance, <1>1, <1>2, PTL DEF Spec, LockDiscipline, LockSpec

\* So what is proved of the lock manager holds of the transactions: lock sets
\* and tables agree, nothing leaks, a reader beside a writer implies an
\* upgrade.
THEOREM TransactionsLockSafely ==
    Spec => [](LockSetsMatchTables /\ NoLeakedLocks /\ ForeignReaderOnlyBesideUpgrade)
  <1>1. TxnInv => LockSetsMatchTables /\ NoLeakedLocks /\ ForeignReaderOnlyBesideUpgrade
    BY DEF TxnInv, LockInv
  <1> QED  BY TxnInvariance, <1>1, PTL

\* Strict two-phase locking of the transactions: a lock goes only with the
\* releaseLocks of its own transaction.
THEOREM TransactionsLockStrictly == Spec => LocksKeptUntilRelease
  BY TransactionsImplementLocking, StrictLocking DEF LockDiscipline

\* The assertions of ApplyDelete and RollbackDelete never fire, at commit nor
\* at rollback, for any number of transactions, with updates that move their
\* tuples and with clients that go on after an abort.
THEOREM UndoNeverPanics == Spec => []UndoAssertionsHold
  <1>1. TxnInv => UndoAssertionsHold
    <2> SUFFICES ASSUME TxnInv, NEW t \in TxnIDs, pc[t] \in {"commit", "abort"},
                        undo[t] # << >>
                 PROVE  LET item    == Last(undo[t])
                            applies == item.wtype = IF pc[t] = "commit" THEN "DELETE" ELSE "INSERT"
                            reverts == item.wtype = "DELETE" /\ pc[t] = "abort"
                        IN /\ applies \/ reverts => IsExclusiveLocked(t, item.rid)
                           /\ applies => IsFull(Content(item.rid))
      BY DEF UndoAssertionsHold
    <2>1. undo[t] \in Seq(WriteRecord) /\ WritesOK(t) /\ Writes(t) = undo[t]
      BY DEF TxnInv, TxnTypeOK, Writes, Ending, RollingBack
    <2>2. Len(undo[t]) \in 1 .. Len(undo[t]) /\ Last(undo[t]) = undo[t][Len(undo[t])]
      BY <2>1, PopIsPrefix
    <2>3. IsExclusiveLocked(t, Last(undo[t]).rid)
      BY <2>1, <2>2 DEF WritesOK, IsExclusiveLocked
    <2>4. /\ pc[t] = "commit" /\ Last(undo[t]).wtype = "DELETE" =>
                IsFull(Content(Last(undo[t]).rid))
          /\ pc[t] = "abort" /\ Last(undo[t]).wtype = "INSERT" =>
                IsFull(Content(Last(undo[t]).rid))
      BY <2>1, <2>2 DEF WritesOK, RollingBack
    <2> QED  BY <2>3, <2>4
  <1> QED  BY TxnInvariance, <1>1, PTL

\* A tuple changes only in a step of the transaction that has its exclusive
\* lock once the step is over.
THEOREM OnlyTheHolderWrites == Spec => WriterHoldsLock
  <1> DEFINE Held == \A r \in RIDs : Content(r)' # Content(r) =>
                \E t \in TxnIDs :
                   /\ exclusive_lock_table'[r] = t
                   /\ \A u \in TxnIDs \ {t} : /\ pc'[u] = pc[u]
                                              /\ undo'[u] = undo[u]
                                              /\ write_set'[u] = write_set[u]
  <1>1. TxnInv /\ TxnInv' /\ [Next]_vars => [Held]_vars
    <2> SUFFICES ASSUME TxnInv, TxnInv', Next PROVE Held
      OBVIOUS
    <2>1. CASE Checkpointer
      BY <2>1, CheckpointerKeeps, SamePages
    <2>2. ASSUME NEW t \in TxnIDs, Client(t) \/ InOperation(t) PROVE Held
      <3>1. StepOf(t)
        BY <2>2, TransactionKeeps DEF Keeps
      <3> SUFFICES ASSUME NEW r \in RIDs, Content(r)' # Content(r)
                   PROVE  /\ exclusive_lock_table'[r] = t
                          /\ \A u \in TxnIDs \ {t} : /\ pc'[u] = pc[u]
                                                     /\ undo'[u] = undo[u]
                                                     /\ write_set'[u] = write_set[u]
        OBVIOUS
      <3>2. r \in exclusive_lock_set'[t] /\ t \notin released'
        BY <3>1 DEF StepOf
      <3>3. exclusive_lock_table'[r] = t
        BY <3>2 DEF TxnInv, LockInv, LockSetsMatchTables
      <3> QED  BY <3>1, <3>3 DEF StepOf
    <2> QED  BY <2>1, <2>2 DEF Next
  <1> QED  BY TxnInvariance, <1>1, PTL DEF Spec, WriterHoldsLock

----------------------------------------------------------------------------
(* Atomicity, with tuples of one size and clients that stop once their     *)
(* transaction is ABORTED.                                                 *)

\* A step that leaves the tuple q and the records of t about q alone.
LEMMA SameUndo ==
    ASSUME NEW t \in TxnIDs, NEW q \in RIDs, UndoRestores(t, q),
           About(t, q)' = About(t, q),
           \A i \in About(t, q) : Writes(t)'[i] = Writes(t)[i],
           Content(q)' = Content(q), committed'[q] = committed[q]
    PROVE  UndoRestores(t, q)'
  <1>1. ASSUME NEW i \in About(t, q), Restores(t, q, i) PROVE Restores(t, q, i)'
    BY <1>1 DEF Restores
  <1>2. About(t, q)' = {} => Content(q)' = committed'[q]
    BY DEF UndoRestores
  <1>3. ASSUME NEW i \in About(t, q)'
        PROVE  /\ (\A j \in About(t, q)' : i <= j) => Restores(t, q, i)'
               /\ Writes(t)'[i].wtype = "INSERT" => \A j \in About(t, q)' : i <= j
               /\ Writes(t)'[i].wtype = "DELETE" => \A j \in About(t, q)' : j <= i
               /\ IsFull(Content(q)')
               /\ IsDeleted(Content(q)') => \E j \in About(t, q)' : Writes(t)'[j].wtype = "DELETE"
               /\ Writes(t)'[i].wtype = "DELETE" => IsDeleted(Content(q)')
    BY <1>1, <1>3 DEF UndoRestores
  <1> QED  BY <1>2, <1>3 DEF UndoRestores

\* What is to be shown of a step of t, besides Keeps.
Undoes(t) ==
    /\ InPlace(t)'
    /\ t \notin released' /\ state'[t] # "COMMITTED" =>
          \A r \in exclusive_lock_set'[t] : UndoRestores(t, r)'

\* A step of t preserves it for the others: it writes none of their tuples.
LEMMA OthersUndo ==
    ASSUME TxnInv, TxnInv', CommittedInv, NEW t \in TxnIDs, StepOf(t),
           \A q \in RIDs : q \notin exclusive_lock_set[t] \/ t \in released =>
                              committed'[q] = committed[q],
           NEW u \in TxnIDs \ {t}
    PROVE  Undoes(u)
  <1>1. /\ pc'[u] = pc[u] /\ call'[u] = call[u] /\ state'[u] = state[u]
        /\ undo'[u] = undo[u] /\ write_set'[u] = write_set[u]
        /\ exclusive_lock_set'[u] = exclusive_lock_set[u]
        /\ u \in released' <=> u \in released
    BY DEF StepOf
  <1>2. Writes(u)' = Writes(u)
    BY <1>1 DEF Writes, Ending, RollingBack
  <1>3. InPlace(u)'
    BY <1>1 DEF CommittedInv, InPlace
  <1>4. ASSUME u \notin released, state[u] # "COMMITTED", NEW r \in exclusive_lock_set[u]
        PROVE  UndoRestores(u, r)'
    <2>1. r \in RIDs /\ UndoRestores(u, r)
      BY <1>4 DEF CommittedInv, TxnInv, LockInv, LockTypeOK
    <2>2. r \notin exclusive_lock_set[t] \/ t \in released
      BY <1>4, <2>1, ExclusiveIsExclusive DEF TxnInv
    <2>3. r \notin exclusive_lock_set'[t] \/ t \in released'
      BY <1>1, <1>4, <2>1 DEF TxnInv, LockInv, LockSetsMatchTables
    <2>4. Content(r)' = Content(r) /\ committed'[r] = committed[r]
      BY <2>1, <2>2, <2>3 DEF StepOf
    <2>5. About(u, r)' = About(u, r)
      BY <1>2 DEF About
    <2> QED  BY <1>2, <2>1, <2>4, <2>5, SameUndo
  <1> QED  BY <1>1, <1>3, <1>4 DEF Undoes

\* A step of t that releases nothing keeps the unlocked tuples committed.
LEMMA UndoesInv ==
    ASSUME TxnInv, TxnInv', CommittedInv, NEW t \in TxnIDs, StepOf(t), Undoes(t),
           committed' = committed, released' = released,
           exclusive_lock_set[t] \subseteq exclusive_lock_set'[t]
    PROVE  CommittedInv'
  <1>1. \A u \in TxnIDs : Undoes(u)
    BY OthersUndo
  <1>2. ASSUME NEW r \in RIDs, exclusive_lock_table'[r] = NoTxn
        PROVE  Content(r)' = committed'[r]
    <2>1. exclusive_lock_table[r] = NoTxn
      <3>1. SUFFICES ASSUME exclusive_lock_table[r] # NoTxn PROVE FALSE
        OBVIOUS
      <3>2. PICK u \in TxnIDs : exclusive_lock_table[r] = u
        BY <3>1 DEF TxnInv, LockInv, LockTypeOK
      <3>3. u \notin released /\ r \in exclusive_lock_set[u]
        BY <3>2 DEF TxnInv, LockInv, NoLeakedLocks, LockSetsMatchTables
      <3>4. r \in exclusive_lock_set'[u] /\ u \notin released'
        BY <3>3 DEF StepOf
      <3>5. exclusive_lock_table'[r] = u
        BY <3>4 DEF TxnInv, LockInv, LockSetsMatchTables
      <3> QED  BY <1>2, <3>5, NoTxnAssumption
    <2>2. Content(r) = committed[r]
      BY <2>1 DEF CommittedInv, UnlockedIsCommitted
    <2>3. r \notin exclusive_lock_set'[t] \/ t \in released'
      BY <1>2, NoTxnAssumption DEF TxnInv, LockInv, LockSetsMatchTables
    <2> QED  BY <2>2, <2>3 DEF StepOf
  <1>3. UnlockedIsCommitted'
    BY <1>2 DEF UnlockedIsCommitted
  <1> QED  BY <1>1, <1>3 DEF CommittedInv, Undoes

\* A step of t with neither a write nor a new record.
LEMMA NothingToUndo ==
    ASSUME TxnInv, CommittedInv, NEW t \in TxnIDs, InPlace(t)', committed' = committed,
           t \notin released, state'[t] = "COMMITTED" \/ state[t] # "COMMITTED",
           Writes(t)' = Writes(t), exclusive_lock_set'[t] = exclusive_lock_set[t],
           \A q \in RIDs : Content(q)' = Content(q)
    PROVE  Undoes(t)
  <1>1. ASSUME state[t] # "COMMITTED", NEW r \in exclusive_lock_set[t]
        PROVE  UndoRestores(t, r)'
    <2>1. r \in RIDs /\ UndoRestores(t, r)
      BY <1>1 DEF CommittedInv, TxnInv, LockInv, LockTypeOK
    <2>2. About(t, r)' = About(t, r)
      BY DEF About
    <2> QED  BY <2>1, <2>2, SameUndo
  <1> QED  BY <1>1 DEF Undoes

\* A tuple that t locks with this step is committed, and t has no record of
\* it, so that there is nothing to undo for it.
LEMMA NewLockIsClean ==
    ASSUME TxnInv, TxnInv', CommittedInv, NEW t \in TxnIDs, t \notin released,
           state[t] # "COMMITTED", released' = released,
           \A u \in TxnIDs \ {t} : exclusive_lock_set'[u] = exclusive_lock_set[u],
           NEW r \in exclusive_lock_set'[t]
    PROVE  UndoRestores(t, r)
  <1>1. CASE r \in exclusive_lock_set[t]
    BY <1>1 DEF CommittedInv
  <1>2. CASE r \notin exclusive_lock_set[t]
    <2>1. r \in RIDs /\ exclusive_lock_table'[r] = t
      BY DEF TxnInv, LockInv, LockTypeOK, LockSetsMatchTables
    <2>2. exclusive_lock_table[r] = NoTxn
      <3>1. SUFFICES ASSUME exclusive_lock_table[r] # NoTxn PROVE FALSE
        OBVIOUS
      <3>2. PICK u \in TxnIDs : exclusive_lock_table[r] = u
        BY <2>1, <3>1 DEF TxnInv, LockInv, LockTypeOK
      <3>3. u \notin released /\ r \in exclusive_lock_set[u]
        BY <2>1, <3>2 DEF TxnInv, LockInv, NoLeakedLocks, LockSetsMatchTables
      <3>4. u # t /\ r \in exclusive_lock_set'[u] /\ u \notin released'
        BY <1>2, <3>3
      <3>5. exclusive_lock_table'[r] = u
        BY <2>1, <3>4 DEF TxnInv, LockInv, LockSetsMatchTables
      <3> QED  BY <2>1, <3>4, <3>5
    <2>3. Content(r) = committed[r]
      BY <2>1, <2>2 DEF CommittedInv, UnlockedIsCommitted
    <2>4. About(t, r) = {}
      BY <1>2 DEF TxnInv, WritesOK, About
    <2> QED  BY <2>3, <2>4 DEF UndoRestores
  <1> QED  BY <1>1, <1>2

\* The records about a tuple after one more record.
LEMMA RecordAdded ==
    ASSUME TxnInv, NEW t \in TxnIDs, NEW rec, Writes(t)' = Writes(t) \o <<rec>>, NEW q
    PROVE  /\ Len(Writes(t)) \in Nat
           /\ Writes(t)'[Len(Writes(t)) + 1] = rec
           /\ \A i \in About(t, q) : Writes(t)'[i] = Writes(t)[i]
           /\ About(t, q) \subseteq 1 .. Len(Writes(t))
           /\ q # rec.rid => About(t, q)' = About(t, q)
           /\ q = rec.rid => About(t, q)' = About(t, q) \union {Len(Writes(t)) + 1}
  <1> PICK s : s = Writes(t)
    OBVIOUS
  <1> PICK m : m = Len(s)
    OBVIOUS
  <1>1. s \in Seq(WriteRecord)
    BY DEF TxnInv, TxnTypeOK, Writes
  <1>2. /\ m \in Nat /\ Len(s \o <<rec>>) = m + 1
        /\ (s \o <<rec>>)[m + 1] = rec
        /\ \A i \in 1 .. m : (s \o <<rec>>)[i] = s[i]
    BY <1>1
  <1>3. \A i : i \in 1 .. m + 1 <=> i \in 1 .. m \/ i = m + 1
    BY <1>2
  <1>4. About(t, q) = {i \in 1 .. m : s[i].rid = q}
    BY DEF About
  <1>5. About(t, q)' = {i \in 1 .. m + 1 : (s \o <<rec>>)[i].rid = q}
    BY <1>2 DEF About
  <1>6. q # rec.rid => About(t, q)' = About(t, q)
    BY <1>2, <1>3, <1>4, <1>5
  <1>7. q = rec.rid => About(t, q)' = About(t, q) \union {m + 1}
    BY <1>2, <1>3, <1>4, <1>5
  <1> QED  BY <1>2, <1>4, <1>6, <1>7

\* The tuples that the added record is not about.
LEMMA RecordAddedElsewhere ==
    ASSUME TxnInv, NEW t \in TxnIDs, NEW rec,
           Writes(t)' = Writes(t) \o <<rec>>, NEW q \in RIDs, q # rec.rid, UndoRestores(t, q),
           Content(q)' = Content(q), committed'[q] = committed[q]
    PROVE  UndoRestores(t, q)'
  <1>2. /\ \A i \in About(t, q) : Writes(t)'[i] = Writes(t)[i]
        /\ About(t, q)' = About(t, q)
    BY RecordAdded
  <1> QED  BY <1>2, SameUndo

\* A new tuple: to undo it is to empty its slot.
LEMMA UndoInsert ==
    ASSUME TxnInv, NEW t \in TxnIDs, NEW r \in RIDs, NEW v \in Tuples, UndoRestores(t, r),
           Content(r) = EmptySlot, Content(r)' = LiveSlot(v), committed' = committed,
           NEW rec, rec.rid = r, rec.wtype = "INSERT",
           Writes(t)' = Writes(t) \o <<rec>>
    PROVE  UndoRestores(t, r)'
  <1>1. PICK m : m = Len(Writes(t))
    OBVIOUS
  <1>3. About(t, r) = {} /\ committed[r] = EmptySlot
    BY SlotKinds DEF UndoRestores
  <1>5. m \in Nat /\ Writes(t)'[m + 1] = rec /\ About(t, r)' = {m + 1}
    <2>1. m \in Nat /\ Writes(t)'[m + 1] = rec /\ About(t, r)' = About(t, r) \union {m + 1}
      BY <1>1, RecordAdded
    <2> QED  BY <1>3, <2>1
  <1>6. Restores(t, r, m + 1)'
    BY <1>3, <1>5 DEF Restores
  <1>7. IsFull(Content(r)') /\ ~IsDeleted(Content(r)')
    BY SlotKinds
  <1>8. m + 1 <= m + 1
    BY <1>5
  <1> QED  BY <1>5, <1>6, <1>7, <1>8 DEF UndoRestores

\* A marked tuple: the mark is the last record about it.
LEMMA UndoMark ==
    ASSUME TxnInv, NEW t \in TxnIDs, NEW r \in RIDs, UndoRestores(t, r),
           ~IsDeleted(Content(r)), Content(r)' = MarkedSlot(Content(r).tuple),
           committed' = committed,
           NEW rec, rec.rid = r, rec.wtype = "DELETE",
           Writes(t)' = Writes(t) \o <<rec>>
    PROVE  UndoRestores(t, r)'
  <1>1. PICK m : m = Len(Writes(t))
    OBVIOUS
  <1>3. PICK A : A = About(t, r)
    OBVIOUS
  <1>5. /\ m \in Nat /\ Writes(t)'[m + 1] = rec
        /\ \A i \in A : Writes(t)'[i] = Writes(t)[i]
        /\ A \subseteq 1 .. m /\ About(t, r)' = A \union {m + 1}
    BY <1>1, <1>3, RecordAdded
  <1>6. IsFull(Content(r)') /\ IsDeleted(Content(r)')
    BY SlotKinds
  <1>7. ASSUME NEW i \in A
        PROVE  /\ Writes(t)[i].wtype # "DELETE"
               /\ Writes(t)[i].wtype = "INSERT" => \A j \in A : i <= j
               /\ (\A j \in A : i <= j) => Restores(t, r, i)
    BY <1>3, <1>7 DEF UndoRestores
  <1>8. A = {} => Restores(t, r, m + 1)'
    <2> SUFFICES ASSUME A = {} PROVE Restores(t, r, m + 1)'
      OBVIOUS
    <2>1. Content(r) = committed[r]
      BY <1>3 DEF UndoRestores
    <2> QED  BY <1>5, <2>1 DEF Restores
  <1>9. ASSUME NEW i \in A, \A j \in A : i <= j PROVE Restores(t, r, i)'
    <2>1. Restores(t, r, i) /\ Writes(t)[i].wtype # "DELETE"
      BY <1>7, <1>9
    <2> QED  BY <1>5, <2>1 DEF Restores
  <1>10. \A i \in A : i \in Nat /\ i < m + 1
    BY <1>5
  <1>11. A # {} => \E j \in A : j \in Nat /\ j < m + 1
    BY <1>10
  <1>12. ASSUME NEW i \in A \union {m + 1}, \A j \in A \union {m + 1} : i <= j
         PROVE  Restores(t, r, i)'
    <2>1. CASE i \in A
      BY <1>9, <1>12, <2>1
    <2>2. CASE i = m + 1
      BY <1>5, <1>8, <1>11, <1>12, <2>2
    <2> QED  BY <2>1, <2>2
  <1>13. ASSUME NEW i \in A \union {m + 1}
         PROVE  /\ Writes(t)'[i].wtype = "INSERT" => \A j \in A \union {m + 1} : i <= j
                /\ Writes(t)'[i].wtype = "DELETE" => \A j \in A \union {m + 1} : j <= i
    <2>1. CASE i \in A
      <3>1. Writes(t)'[i] = Writes(t)[i]
        BY <1>5, <2>1
      <3>2. Writes(t)[i].wtype # "DELETE" /\ (Writes(t)[i].wtype = "INSERT" => \A j \in A : i <= j)
        BY <1>7, <2>1
      <3>3. i <= m + 1
        BY <1>5, <1>10, <2>1
      <3> QED  BY <3>1, <3>2, <3>3
    <2>2. CASE i = m + 1
      <3>1. Writes(t)'[i] = rec
        BY <1>5, <2>2
      <3>2. i <= i /\ \A j \in A : j <= i
        BY <1>5, <1>10, <2>2
      <3> QED  BY <2>2, <3>1, <3>2
    <2> QED  BY <2>1, <2>2
  <1> QED  BY <1>5, <1>6, <1>12, <1>13 DEF UndoRestores

\* An updated tuple: the record holds what it was.
LEMMA UndoUpdate ==
    ASSUME TxnInv, NEW t \in TxnIDs, NEW r \in RIDs, NEW v \in Tuples, UndoRestores(t, r),
           ~IsDeleted(Content(r)), Content(r)' = LiveSlot(v), committed' = committed,
           NEW rec, rec.rid = r, rec.wtype = "UPDATE", rec.tuple = Content(r).tuple,
           Writes(t)' = Writes(t) \o <<rec>>
    PROVE  UndoRestores(t, r)'
  <1>1. PICK m : m = Len(Writes(t))
    OBVIOUS
  <1>3. PICK A : A = About(t, r)
    OBVIOUS
  <1>5. /\ m \in Nat /\ Writes(t)'[m + 1] = rec
        /\ \A i \in A : Writes(t)'[i] = Writes(t)[i]
        /\ A \subseteq 1 .. m /\ About(t, r)' = A \union {m + 1}
    BY <1>1, <1>3, RecordAdded
  <1>6. IsFull(Content(r)') /\ ~IsDeleted(Content(r)')
    BY SlotKinds
  <1>7. ASSUME NEW i \in A
        PROVE  /\ Writes(t)[i].wtype # "DELETE"
               /\ Writes(t)[i].wtype = "INSERT" => \A j \in A : i <= j
               /\ (\A j \in A : i <= j) => Restores(t, r, i)
    BY <1>3, <1>7 DEF UndoRestores
  <1>8. A = {} => Restores(t, r, m + 1)'
    <2> SUFFICES ASSUME A = {} PROVE Restores(t, r, m + 1)'
      OBVIOUS
    <2>1. Content(r) = committed[r]
      BY <1>3 DEF UndoRestores
    <2>2. Content(r) = LiveSlot(Content(r).tuple)
      BY ContentType, SlotKinds DEF TxnInv, TxnTypeOK
    <2> QED  BY <1>5, <2>1, <2>2 DEF Restores
  <1>9. ASSUME NEW i \in A, \A j \in A : i <= j PROVE Restores(t, r, i)'
    <2>1. Restores(t, r, i) /\ Writes(t)[i].wtype # "DELETE"
      BY <1>7, <1>9
    <2> QED  BY <1>5, <2>1 DEF Restores
  <1>10. \A i \in A : i \in Nat /\ i < m + 1
    BY <1>5
  <1>11. A # {} => \E j \in A : j \in Nat /\ j < m + 1
    BY <1>10
  <1>12. ASSUME NEW i \in A \union {m + 1}, \A j \in A \union {m + 1} : i <= j
         PROVE  Restores(t, r, i)'
    <2>1. CASE i \in A
      BY <1>9, <1>12, <2>1
    <2>2. CASE i = m + 1
      BY <1>5, <1>8, <1>11, <1>12, <2>2
    <2> QED  BY <2>1, <2>2
  <1>13. ASSUME NEW i \in A \union {m + 1}
         PROVE  /\ Writes(t)'[i].wtype = "INSERT" => \A j \in A \union {m + 1} : i <= j
                /\ Writes(t)'[i].wtype # "DELETE"
    <2>1. CASE i \in A
      <3>1. Writes(t)'[i] = Writes(t)[i]
        BY <1>5, <2>1
      <3>2. Writes(t)[i].wtype # "DELETE" /\ (Writes(t)[i].wtype = "INSERT" => \A j \in A : i <= j)
        BY <1>7, <2>1
      <3>3. i <= m + 1
        BY <1>5, <1>10, <2>1
      <3> QED  BY <3>1, <3>2, <3>3
    <2>2. CASE i = m + 1
      <3>1. Writes(t)'[i] = rec
        BY <1>5, <2>2
      <3>2. i <= i /\ \A j \in A : j <= i
        BY <1>5, <1>10, <2>2
      <3> QED  BY <2>2, <3>1, <3>2
    <2> QED  BY <2>1, <2>2
  <1> QED  BY <1>5, <1>6, <1>12, <1>13 DEF UndoRestores

\* The records about a tuple after the last record is taken away.
LEMMA RecordRemoved ==
    ASSUME TxnInv, NEW t \in TxnIDs, Writes(t) # << >>, Writes(t)' = Pop(Writes(t)), NEW q
    PROVE  /\ Len(Writes(t)) \in Nat
           /\ About(t, q)' = About(t, q) \ {Len(Writes(t))}
           /\ \A i \in About(t, q) : i \in Nat /\ i <= Len(Writes(t))
           /\ \A i \in About(t, q)' : Writes(t)'[i] = Writes(t)[i]
           /\ Len(Writes(t)) \in About(t, q) <=> Last(Writes(t)).rid = q
  <1> PICK s : s = Writes(t)
    OBVIOUS
  <1> PICK n : n = Len(s)
    OBVIOUS
  <1>1. s \in Seq(WriteRecord)
    BY DEF TxnInv, TxnTypeOK, Writes
  <1>2. /\ n \in 1 .. n /\ n - 1 \in 0 .. n /\ n \in Nat
        /\ Pop(s) = SubSeq(s, 1, n - 1) /\ Last(s) = s[n]
    BY <1>1, PopIsPrefix
  <1>3. Len(Pop(s)) = n - 1 /\ \A i \in 1 .. n - 1 : i \in 1 .. n /\ Pop(s)[i] = s[i]
    BY <1>1, <1>2, Prefix
  <1>4. About(t, q) = {i \in 1 .. n : s[i].rid = q}
    BY DEF About
  <1>5. About(t, q)' = {i \in 1 .. n - 1 : Pop(s)[i].rid = q}
    BY <1>3 DEF About
  <1>6. \A i : i \in 1 .. n - 1 <=> i \in 1 .. n /\ i # n
    BY <1>2
  <1>7. About(t, q)' = About(t, q) \ {n}
    BY <1>3, <1>4, <1>5, <1>6
  <1>8. \A i \in About(t, q)' : Writes(t)'[i] = s[i]
    BY <1>3, <1>5
  <1>9. n \in About(t, q) <=> Last(s).rid = q
    BY <1>2, <1>4
  <1>10. \A i \in About(t, q) : i \in Nat /\ i <= n
    BY <1>2, <1>4
  <1> QED  BY <1>2, <1>7, <1>8, <1>9, <1>10

\* The tuples that the removed record is not about.
LEMMA RecordRemovedElsewhere ==
    ASSUME TxnInv, NEW t \in TxnIDs, Writes(t) # << >>, Writes(t)' = Pop(Writes(t)),
           NEW q \in RIDs, q # Last(Writes(t)).rid, UndoRestores(t, q),
           Content(q)' = Content(q), committed'[q] = committed[q]
    PROVE  UndoRestores(t, q)'
  <1>1. /\ About(t, q)' = About(t, q) \ {Len(Writes(t))}
        /\ \A i \in About(t, q)' : Writes(t)'[i] = Writes(t)[i]
        /\ Len(Writes(t)) \in About(t, q) <=> Last(Writes(t)).rid = q
    BY RecordRemoved
  <1>2. About(t, q)' = About(t, q)
    BY <1>1
  <1> QED  BY <1>1, <1>2, SameUndo

\* What remains to be undone of the tuple whose last record was taken away,
\* if no record is left, or if what is left are an insert and updates.
LEMMA UndoneOne ==
    ASSUME TxnInv, NEW t \in TxnIDs, NEW r \in RIDs, UndoRestores(t, r),
           Writes(t) # << >>, Writes(t)' = Pop(Writes(t)), Last(Writes(t)).rid = r,
           committed' = committed,
           Last(Writes(t)).wtype # "INSERT" => IsFull(Content(r)') /\ ~IsDeleted(Content(r)'),
           (\A j \in About(t, r) : Len(Writes(t)) <= j) => Content(r)' = committed[r]
    PROVE  UndoRestores(t, r)'
  <1>1. PICK n : n = Len(Writes(t))
    OBVIOUS
  <1>2. PICK A : A = About(t, r)
    OBVIOUS
  <1>3. /\ n \in Nat /\ n \in A /\ About(t, r)' = A \ {n}
        /\ \A i \in A : i \in Nat /\ i <= n
        /\ \A i \in A \ {n} : Writes(t)'[i] = Writes(t)[i]
    BY <1>1, <1>2, RecordRemoved
  <1>4. Writes(t)[n] = Last(Writes(t))
    BY <1>1 DEF Last
  <1>5. A \ {n} = {} => Content(r)' = committed'[r]
    <2> SUFFICES ASSUME A \ {n} = {} PROVE Content(r)' = committed'[r]
      OBVIOUS
    <2>1. \A j \in A : n <= j
      BY <1>3
    <2> QED  BY <1>1, <1>2, <2>1
  <1>6. ASSUME NEW i \in A \ {n}
        PROVE  /\ Writes(t)[i].wtype # "DELETE" /\ Writes(t)[n].wtype # "INSERT"
               /\ Writes(t)[i].wtype = "INSERT" => \A j \in A : i <= j
    <2>1. i \in Nat /\ i < n /\ i \in A
      BY <1>3, <1>6
    <2>2. Writes(t)[i].wtype = "DELETE" => n <= i
      BY <1>2, <1>3, <2>1 DEF UndoRestores
    <2>3. Writes(t)[n].wtype = "INSERT" => n <= i
      BY <1>2, <1>3, <2>1 DEF UndoRestores
    <2>4. Writes(t)[i].wtype = "INSERT" => \A j \in A : i <= j
      BY <1>2, <2>1 DEF UndoRestores
    <2> QED  BY <1>3, <2>1, <2>2, <2>3, <2>4
  <1>7. ASSUME NEW i \in A \ {n}, \A j \in A \ {n} : i <= j
        PROVE  Restores(t, r, i)'
    <2>1. i \in Nat /\ i <= n /\ i \in A
      BY <1>3, <1>7
    <2>2. \A j \in A : i <= j
      BY <1>7, <2>1
    <2>3. Restores(t, r, i)
      BY <1>2, <2>1, <2>2 DEF UndoRestores
    <2>4. Writes(t)'[i] = Writes(t)[i] /\ Writes(t)[i].wtype # "DELETE"
      BY <1>3, <1>6, <1>7
    <2> QED  BY <2>3, <2>4 DEF Restores
  <1>8. ASSUME NEW i \in A \ {n}
        PROVE  /\ IsFull(Content(r)') /\ ~IsDeleted(Content(r)')
               /\ Writes(t)'[i].wtype # "DELETE"
               /\ Writes(t)'[i].wtype = "INSERT" => \A j \in A \ {n} : i <= j
    BY <1>3, <1>4, <1>6, <1>8
  <1> QED  BY <1>3, <1>5, <1>7, <1>8 DEF UndoRestores

\* With tuples of one size there is always room for an update.
LEMMA UpdateFits ==
    ASSUME OneTupleSize, NEW pg \in Page, NEW n \in 1 .. Len(pg.slots),
           ~IsDeleted(pg.slots[n]), NEW v \in Tuples
    PROVE  RoomToUpdate(pg, n, v)
  <1>1. pg.slots[n] \in Slot /\ pg.free \in Nat
    BY DEF Page
  <1>2. pg.slots[n].tuple \in Tuples
    BY <1>1, SlotKinds
  <1>3. TupleSize[pg.slots[n].tuple] = TupleSize[v] /\ TupleSize[v] \in Nat
    BY <1>2, SpaceAssumption DEF OneTupleSize
  <1> QED  BY <1>1, <1>3 DEF RoomToUpdate

\* What is to be shown of a step of t that releases nothing.
KeepsCommitted(t) ==
    /\ Undoes(t)
    /\ committed' = committed
    /\ released' = released
    /\ exclusive_lock_set[t] \subseteq exclusive_lock_set'[t]

\* The steps that write nothing: Begin, the starts of Commit and Abort, the
\* start of an insert, its walk along the pages, a read, the end of the loops.
LEMMA QuietKeepsCommitted ==
    ASSUME TxnInv, CommittedInv, NEW t \in TxnIDs,
           \/ Begin(t) \/ CommitStart(t) \/ AbortStart(t)
           \/ \E v \in Tuples : InsertTuple(t, v)
           \/ GetTupleRead(t) \/ InsertNextPage(t) \/ EndOfLoop(t)
    PROVE  KeepsCommitted(t)
  <1>1. /\ t \notin released /\ pc[t] \in {"unborn", "run", "insert", "read", "commit", "abort"}
        /\ UNCHANGED <<lockVars, committed>>
        /\ state'[t] = "COMMITTED" \/ state[t] # "COMMITTED" \/ state'[t] = state[t]
    BY DEF Begin, CommitStart, AbortStart, InsertTuple, ClientCall, Running, GetTupleRead,
           InsertNextPage, EndOfLoop, TxnInv, TxnTypeOK, PhaseOK
  <1>2. UNCHANGED <<exclusive_lock_set, released>>
    BY <1>1 DEF lockVars
  <1>3. \A q \in RIDs : Content(q)' = Content(q)
    <2>1. pages' = pages \/ pages' = Append(pages, EmptyPage)
      BY DEF Begin, CommitStart, AbortStart, InsertTuple, GetTupleRead, InsertNextPage,
             EndOfLoop
    <2> QED  BY <2>1, SamePages, AppendWritesNothing DEF TxnInv, TxnTypeOK
  <1>4. Writes(t)' = Writes(t) /\ InPlace(t)'
    <2>1. CASE Begin(t)
      <3>1. pc[t] = "unborn" /\ pc'[t] = "run" /\ UNCHANGED <<undo, write_set>>
        BY <2>1 DEF Begin, TxnInv, TxnTypeOK
      <3> QED  BY <3>1 DEF Writes, Ending, RollingBack, InPlace
    <2>2. CASE CommitStart(t)
      <3>1. pc[t] = "run" /\ pc'[t] = "commit" /\ undo'[t] = write_set[t]
        BY <2>2 DEF CommitStart, Running, TxnInv, TxnTypeOK
      <3> QED  BY <3>1 DEF Writes, Ending, RollingBack, InPlace
    <2>3. CASE AbortStart(t)
      <3>1. pc[t] = "run" /\ pc'[t] = "abort" /\ undo'[t] = write_set[t]
        BY <2>3 DEF AbortStart, TxnInv, TxnTypeOK
      <3> QED  BY <3>1 DEF Writes, Ending, RollingBack, InPlace
    <2>4. ASSUME NEW v \in Tuples, InsertTuple(t, v)
          PROVE  Writes(t)' = Writes(t) /\ InPlace(t)'
      <3>1. pc[t] = "run" /\ pc'[t] = "insert" /\ UNCHANGED <<undo, write_set>>
            /\ call'[t].caller = "client"
        BY <2>4 DEF InsertTuple, ClientCall, Running, GoTo, TxnInv, TxnTypeOK
      <3> QED  BY <3>1 DEF Writes, Ending, RollingBack, InPlace
    <2>5. CASE GetTupleRead(t)
      <3>1. pc[t] = "read" /\ pc'[t] = "run" /\ UNCHANGED <<undo, write_set>>
        BY <2>5 DEF GetTupleRead, Return, GoTo, TxnInv, TxnTypeOK
      <3> QED  BY <3>1 DEF Writes, Ending, RollingBack, InPlace
    <2>6. CASE InsertNextPage(t)
      <3>1. pc[t] = "insert" /\ UNCHANGED <<pc, undo, write_set>>
            /\ call'[t] = [call[t] EXCEPT !.page = call[t].page + 1]
        BY <2>6 DEF InsertNextPage, TxnInv, TxnTypeOK
      <3>2. call[t] \in InsertCall
        BY <3>1 DEF TxnInv, CallOK
      <3>3. call'[t].caller = call[t].caller
        BY <3>1, <3>2 DEF InsertCall
      <3> QED  BY <3>1, <3>3 DEF Writes, Ending, RollingBack, InPlace, CommittedInv
    <2>7. CASE EndOfLoop(t)
      <3>1. pc[t] \in {"commit", "abort"} /\ pc'[t] = "release" /\ UNCHANGED undo
        BY <2>7 DEF EndOfLoop, TxnInv, TxnTypeOK
      <3> QED  BY <3>1 DEF Writes, Ending, RollingBack, InPlace
    <2> QED  BY <2>1, <2>2, <2>3, <2>4, <2>5, <2>6, <2>7
  <1>5. Undoes(t)
    BY <1>1, <1>2, <1>3, <1>4, NothingToUndo
  <1> QED  BY <1>1, <1>2, <1>5 DEF KeepsCommitted

\* GetTuple's request for a shared lock.
LEMMA GetTupleLockKeepsCommitted ==
    ASSUME TxnInv, CommittedInv, NEW t \in TxnIDs, NEW r \in KnownRIDs, GetTupleLock(t, r)
    PROVE  KeepsCommitted(t)
  <1>1. /\ pc[t] = "run" /\ t \notin released
        /\ UNCHANGED <<pages, write_set, undo, committed>>
        /\ UNCHANGED <<exclusive_lock_set, released>>
    BY DEF GetTupleLock, ClientCall, Running, TxnInv, PhaseOK, LockShared, lockVars
  <1>2. pc'[t] \in {"run", "read"}
    BY <1>1 DEF GetTupleLock, GoTo, TxnInv, TxnTypeOK
  <1>3. \A q \in RIDs : Content(q)' = Content(q)
    BY <1>1, SamePages
  <1>4. Writes(t)' = Writes(t) /\ InPlace(t)'
    BY <1>1, <1>2 DEF Writes, Ending, RollingBack, InPlace
  <1>5. state[t] # "COMMITTED"
    BY <1>1 DEF TxnInv, PhaseOK
  <1>6. Undoes(t)
    BY <1>1, <1>3, <1>4, <1>5, NothingToUndo
  <1> QED  BY <1>1, <1>6 DEF KeepsCommitted

\* A request that was refused.
LEMMA RefusedKeepsCommitted ==
    ASSUME TxnInv, CommittedInv, NEW t \in TxnIDs, t \notin released, state[t] # "COMMITTED",
           NEW r \in RIDs, LockEffect(t, r, FALSE), InPlace(t)', committed' = committed,
           Writes(t)' = Writes(t), \A q \in RIDs : Content(q)' = Content(q)
    PROVE  KeepsCommitted(t)
  <1>1. exclusive_lock_set'[t] = exclusive_lock_set[t] /\ released' = released
    BY DEF LockEffect
  <1>2. Undoes(t)
    BY <1>1, NothingToUndo
  <1> QED  BY <1>1, <1>2 DEF KeepsCommitted

\* A write of r with its record.
LEMMA WriteKeepsCommitted ==
    ASSUME TxnInv, TxnInv', CommittedInv, NEW t \in TxnIDs, t \notin released,
           state[t] # "COMMITTED", NEW r \in RIDs, LockEffect(t, r, TRUE), InPlace(t)',
           committed' = committed, NEW rec, rec.rid = r, Writes(t)' = Writes(t) \o <<rec>>,
           \A q \in RIDs \ {r} : Content(q)' = Content(q),
           UndoRestores(t, r) => UndoRestores(t, r)'
    PROVE  KeepsCommitted(t)
  <1>1. /\ exclusive_lock_set'[t] = exclusive_lock_set[t] \union {r} /\ released' = released
        /\ \A u \in TxnIDs \ {t} : exclusive_lock_set'[u] = exclusive_lock_set[u]
    BY DEF LockEffect
  <1>2. ASSUME NEW q \in exclusive_lock_set'[t] PROVE UndoRestores(t, q)'
    <2>1. q \in RIDs /\ UndoRestores(t, q)
      BY <1>1, NewLockIsClean DEF TxnInv, LockInv, LockTypeOK
    <2>2. CASE q = r
      BY <2>1, <2>2
    <2>3. CASE q # r
      <3>1. Content(q)' = Content(q) /\ committed'[q] = committed[q] /\ q # rec.rid
        BY <2>1, <2>3
      <3> QED  BY <2>1, <3>1, RecordAddedElsewhere
    <2> QED  BY <2>2, <2>3
  <1> QED  BY <1>1, <1>2 DEF KeepsCommitted, Undoes

\* InsertTuple on a page with room.
LEMMA InsertHereKeepsCommitted ==
    ASSUME TxnInv, TxnInv', CommittedInv, NEW t \in TxnIDs, InsertHere(t)
    PROVE  KeepsCommitted(t)
  <1> PICK p : p = call[t].page
    OBVIOUS
  <1> PICK v : v = call[t].tuple
    OBVIOUS
  <1>0. PICK r : r = <<p, InsertSlot(pages[p])>>
    OBVIOUS
  <1>1. /\ pc[t] = "insert" /\ RoomToInsert(pages[p], v) /\ r \in RIDs
        /\ Return(t, call[t].caller) /\ call[t].caller = "client"
        /\ UNCHANGED <<undo, ops, latch, committed>>
    BY <1>0 DEF InsertHere, CommittedInv, InPlace
  <1>2. p \in 1 .. Len(pages) /\ v \in Tuples /\ pages \in Seq(Page)
    BY <1>1 DEF TxnInv, CallOK, InsertCall, TxnTypeOK
  <1>3. PICK rec : rec = [rid |-> r, wtype |-> "INSERT"]
    OBVIOUS
  <1>4. PICK granted \in BOOLEAN :
               /\ LockExclusive(t, r, granted)
               /\ IF granted
                    THEN /\ pages' = [pages EXCEPT ![p] = PutTuple(@, v)]
                         /\ AddIntoWriteSet(t, <<rec>> \o << >>)
                    ELSE UNCHANGED <<pages, write_set>>
    BY <1>0, <1>1, <1>3 DEF InsertHere, MovedRecord
  <1>5. /\ pc'[t] = "run" /\ ~Ending(t) /\ ~Ending(t)'
        /\ t \notin released /\ state[t] # "COMMITTED"
    BY <1>1, ReturnsToCaller
  <1>6. LockEffect(t, r, granted)
    BY <1>1, <1>4, <1>5, LockExclusiveEffect DEF TxnInv
  <1>7. InPlace(t)'
    BY <1>5 DEF InPlace
  <1>8. CASE ~granted
    <2>1. \A q \in RIDs : Content(q)' = Content(q)
      BY <1>4, <1>8, SamePages
    <2>2. Writes(t)' = Writes(t)
      BY <1>4, <1>5, <1>8 DEF Writes
    <2> QED  BY <1>1, <1>5, <1>6, <1>7, <1>8, <2>1, <2>2, RefusedKeepsCommitted
  <1>9. CASE granted
    <2>1. Content(r) = EmptySlot /\ Wrote(r, LiveSlot(v))
      BY <1>0, <1>1, <1>2, <1>4, <1>9, PutWrites
    <2>2. Writes(t)' = Writes(t) \o <<rec>>
      <3>1. write_set'[t] = write_set[t] \o (<<rec>> \o << >>)
        BY <1>4, <1>9 DEF AddIntoWriteSet, TxnInv, TxnTypeOK
      <3>2. <<rec>> \o << >> = <<rec>>
        OBVIOUS
      <3> QED  BY <1>5, <3>1, <3>2 DEF Writes
    <2>3. rec.rid = r /\ rec.wtype = "INSERT"
      BY <1>3
    <2>4. Content(r)' = LiveSlot(v) /\ \A q \in RIDs \ {r} : Content(q)' = Content(q)
      BY <2>1 DEF Wrote
    <2>5. UndoRestores(t, r) => UndoRestores(t, r)'
      BY <1>1, <1>2, <2>1, <2>2, <2>3, <2>4, UndoInsert
    <2>6. LockEffect(t, r, TRUE)
      BY <1>6, <1>9
    <2> QED  BY <1>1, <1>5, <1>7, <2>2, <2>3, <2>4, <2>5, <2>6, WriteKeepsCommitted
  <1> QED  BY <1>8, <1>9

\* The client's MarkDelete.
LEMMA MarkDeleteKeepsCommitted ==
    ASSUME TxnInv, TxnInv', CommittedInv, NEW t \in TxnIDs, NEW r \in KnownRIDs,
           MarkDelete(t, r)
    PROVE  KeepsCommitted(t)
  <1>1. /\ pc[t] = "run" /\ t \notin released /\ state[t] # "COMMITTED"
        /\ UNCHANGED <<undo, pc, call, latch, committed>>
        /\ r \in RIDs
    BY DEF MarkDelete, ClientCall, Running, TxnInv, PhaseOK, KnownRIDs
  <1>2. PICK done \in BOOLEAN : MarkDeleteOn(t, r, done)
    BY DEF MarkDelete
  <1>3. PICK rec : rec = [rid |-> r, wtype |-> "DELETE"]
    OBVIOUS
  <1>4. /\ LockEffect(t, r, done)
        /\ WritesAtMost(r, done)
        /\ done => ~IsDeleted(Content(r)) /\ Content(r)' = MarkedSlot(Content(r).tuple)
        /\ write_set'[t] = IF done THEN write_set[t] \o <<rec>> ELSE write_set[t]
    BY <1>1, <1>2, <1>3, MarkDeleteEffect
  <1>5. ~Ending(t) /\ ~Ending(t)' /\ InPlace(t)'
    BY <1>1 DEF Ending, RollingBack, InPlace
  <1>6. CASE ~done
    <2>1. Writes(t)' = Writes(t) /\ \A q \in RIDs : Content(q)' = Content(q)
      BY <1>4, <1>5, <1>6 DEF Writes, WritesAtMost
    <2> QED  BY <1>1, <1>4, <1>5, <1>6, <2>1, RefusedKeepsCommitted
  <1>7. CASE done
    <2>1. Writes(t)' = Writes(t) \o <<rec>> /\ rec.rid = r /\ rec.wtype = "DELETE"
      BY <1>3, <1>4, <1>5, <1>7 DEF Writes
    <2>2. \A q \in RIDs \ {r} : Content(q)' = Content(q)
      BY <1>4 DEF WritesAtMost
    <2>3. UndoRestores(t, r) => UndoRestores(t, r)'
      BY <1>1, <1>4, <1>7, <2>1, UndoMark
    <2>4. LockEffect(t, r, TRUE)
      BY <1>4, <1>7
    <2> QED  BY <1>1, <1>5, <2>1, <2>2, <2>3, <2>4, WriteKeepsCommitted
  <1> QED  BY <1>6, <1>7

\* The client's UpdateTuple: in place, with the record of the old tuple.
LEMMA UpdateKeepsCommitted ==
    ASSUME OneTupleSize, StopOnAbort = TRUE, TxnInv, TxnInv', CommittedInv,
           NEW t \in TxnIDs, NEW r \in KnownRIDs, NEW v \in Tuples, Update(t, r, v)
    PROVE  KeepsCommitted(t)
  <1>1. /\ pc[t] = "run" /\ t \notin released /\ state[t] \notin {"COMMITTED", "ABORTED"}
        /\ UNCHANGED <<undo, latch, committed>> /\ r \in RIDs
        /\ UpdateTuple(t, r, v, "update")
    BY DEF Update, ClientCall, Running, TxnInv, PhaseOK, KnownRIDs
  <1>2. ~UpdateMoves(t, r, v, "update")
    <2>1. /\ pages[r[1]] \in Page /\ r[2] \in 1 .. Len(pages[r[1]].slots)
          /\ Content(r) = pages[r[1]].slots[r[2]]
      BY <1>1, ContentType DEF TxnInv, TxnTypeOK
    <2> QED  BY <2>1, UpdateFits DEF UpdateMoves
  <1>3. PICK done \in BOOLEAN : UpdateEffect(t, r, v, "update", done)
    BY <1>1, UpdateTupleEffect
  <1>4. pc'[t] = "run"
    BY <1>1, <1>2 DEF UpdateTuple, UpdateInPlace, UpdateRefused, Return, GoTo, TxnInv, TxnTypeOK
  <1>5. PICK rec : rec = [rid |-> r, wtype |-> "UPDATE", tuple |-> Content(r).tuple]
    OBVIOUS
  <1>6. /\ LockEffect(t, r, done)
        /\ WritesAtMost(r, done)
        /\ done => /\ ~IsDeleted(Content(r)) /\ Content(r)' = LiveSlot(v)
                   /\ write_set'[t] = write_set[t] \o <<rec>>
        /\ ~done => write_set'[t] = write_set[t]
    BY <1>1, <1>3, <1>5 DEF UpdateEffect, OldTupleRecord
  <1>7. ~Ending(t) /\ ~Ending(t)' /\ InPlace(t)'
    BY <1>1, <1>4 DEF Ending, RollingBack, InPlace
  <1>8. CASE ~done
    <2>1. Writes(t)' = Writes(t) /\ \A q \in RIDs : Content(q)' = Content(q)
      BY <1>6, <1>7, <1>8 DEF Writes, WritesAtMost
    <2> QED  BY <1>1, <1>6, <1>7, <1>8, <2>1, RefusedKeepsCommitted
  <1>9. CASE done
    <2>1. /\ Writes(t)' = Writes(t) \o <<rec>> /\ rec.rid = r /\ rec.wtype = "UPDATE"
          /\ rec.tuple = Content(r).tuple
      BY <1>5, <1>6, <1>7, <1>9 DEF Writes
    <2>2. \A q \in RIDs \ {r} : Content(q)' = Content(q)
      BY <1>6 DEF WritesAtMost
    <2>3. UndoRestores(t, r) => UndoRestores(t, r)'
      BY <1>1, <1>6, <1>9, <2>1, UndoUpdate
    <2>4. LockEffect(t, r, TRUE) /\ state[t] # "COMMITTED"
      BY <1>1, <1>6, <1>9
    <2> QED  BY <1>1, <1>7, <2>1, <2>2, <2>3, <2>4, WriteKeepsCommitted
  <1> QED  BY <1>8, <1>9

\* Commit's loop: the transaction is beyond undoing.
LEMMA CommitStepKeepsCommitted ==
    ASSUME TxnInv, CommittedInv, NEW t \in TxnIDs, CommitStep(t)
    PROVE  KeepsCommitted(t)
  <1>1. /\ pc[t] = "commit" /\ UNCHANGED <<lockVars, state, pc, call, committed>>
        /\ state[t] = "COMMITTED"
    BY DEF CommitStep, TxnInv, PhaseOK
  <1>2. UNCHANGED <<exclusive_lock_set, released>>
    BY <1>1 DEF lockVars
  <1> QED  BY <1>1, <1>2 DEF KeepsCommitted, Undoes, InPlace

\* The holder of an exclusive lock is not refused.
LEMMA HolderIsGranted ==
    ASSUME LockInv, NEW t \in TxnIDs, t \notin released, NEW r \in RIDs,
           r \in exclusive_lock_set[t], NEW granted \in BOOLEAN, LockForWrite(t, r, granted)
    PROVE  granted
  <1>1. exclusive_lock_table[r] = t
    BY DEF LockInv, LockSetsMatchTables
  <1> QED  BY <1>1 DEF LockForWrite, LockUpgrade, HeldByOther, IsExclusiveLocked

\* A rollback of an update whose tuple is neither deleted nor out of room.
LEMMA RollbackUpdateDone ==
    ASSUME OneTupleSize, TxnInv, NEW t \in TxnIDs, t \notin released,
           NEW r \in KnownRIDs, r \in exclusive_lock_set[t], ~IsDeleted(Content(r)),
           NEW v \in Tuples, UpdateTuple(t, r, v, "rollback")
    PROVE  LockEffect(t, r, TRUE) /\ Wrote(r, LiveSlot(v)) /\ pc'[t] = "abort"
  <1>1. /\ r \in RIDs /\ pages[r[1]] \in Page /\ r[2] \in 1 .. Len(pages[r[1]].slots)
        /\ Content(r) = pages[r[1]].slots[r[2]] /\ pages \in Seq(Page)
    BY ContentType DEF TxnInv, TxnTypeOK, KnownRIDs
  <1>2. RoomToUpdate(pages[r[1]], r[2], v)
    BY <1>1, UpdateFits
  <1>3. UpdateInPlace(t, r, v, "rollback")
    BY <1>2 DEF UpdateTuple, UpdateRefused, UpdateMoves
  <1>4. PICK granted \in BOOLEAN :
         /\ LockForWrite(t, r, granted)
         /\ granted => pages' = [pages EXCEPT ![r[1]] = ReplaceTuple(@, r[2], v)]
    BY <1>3 DEF UpdateInPlace
  <1>5. granted
    BY <1>1, <1>4, HolderIsGranted DEF TxnInv
  <1>6. LockEffect(t, r, TRUE)
    BY <1>1, <1>4, <1>5, LockForWriteEffect DEF TxnInv
  <1>7. Wrote(r, LiveSlot(v))
    BY <1>1, <1>2, <1>4, <1>5, ReplaceWrites
  <1>8. pc'[t] = "abort"
    BY <1>3 DEF UpdateInPlace, Return, GoTo, TxnInv, TxnTypeOK
  <1> QED  BY <1>6, <1>7, <1>8

\* Abort's loop: the record undone is the last about its tuple.
LEMMA AbortStepKeepsCommitted ==
    ASSUME OneTupleSize, TxnInv, TxnInv', CommittedInv, NEW t \in TxnIDs, AbortStep(t)
    PROVE  KeepsCommitted(t)
  <1>0. PICK s : s = undo[t]
    OBVIOUS
  <1>1. /\ pc[t] = "abort" /\ s # << >> /\ state[t] # "COMMITTED" /\ t \notin released
        /\ undo' = [undo EXCEPT ![t] = Pop(@)]
        /\ committed' = committed
    BY <1>0 DEF AbortStep, TxnInv, PhaseOK
  <1>2. /\ s \in Seq(WriteRecord) /\ Writes(t) = s /\ WritesOK(t)
        /\ exclusive_lock_set[t] \subseteq RIDs /\ pages \in Seq(Page)
        /\ undo'[t] = Pop(s)
    BY <1>0, <1>1 DEF TxnInv, TxnTypeOK, Writes, Ending, RollingBack, LockInv, LockTypeOK
  <1>3. PICK n : n = Len(s)
    OBVIOUS
  <1>4. n \in 1 .. n /\ Last(s) = s[n] /\ s[n] \in WriteRecord
    BY <1>1, <1>2, <1>3, PopIsPrefix
  <1>5. PICK r : r = s[n].rid
    OBVIOUS
  <1>6. r \in exclusive_lock_set[t] /\ r \in RIDs /\ r \in KnownRIDs /\ n \in About(t, r)
    BY <1>2, <1>3, <1>4, <1>5 DEF WritesOK, TxnInv, About
  <1>7. UndoRestores(t, r)
    BY <1>1, <1>6 DEF CommittedInv
  <1>8. /\ (\A j \in About(t, r) : n <= j) => Restores(t, r, n)
        /\ s[n].wtype = "INSERT" => \A j \in About(t, r) : n <= j
        /\ IsFull(Content(r))
        /\ s[n].wtype = "DELETE" => IsDeleted(Content(r))
    BY <1>2, <1>6, <1>7 DEF UndoRestores
  <1>9. Content(r) \in Slot /\ committed[r] \in Slot
    BY <1>2, <1>6, ContentType DEF TxnInv, TxnTypeOK
  <1>10. ASSUME pc'[t] = "abort", NEW slot, Wrote(r, slot),
                s[n].wtype # "INSERT" => IsFull(slot) /\ ~IsDeleted(slot),
                (\A j \in About(t, r) : n <= j) => slot = committed[r],
                exclusive_lock_set'[t] = exclusive_lock_set[t], released' = released
         PROVE  KeepsCommitted(t)
    <2>1. Writes(t)' = Pop(Writes(t)) /\ InPlace(t)' /\ Writes(t) # << >>
      BY <1>1, <1>2, <1>10 DEF Writes, Ending, RollingBack, InPlace
    <2>2. ASSUME NEW q \in exclusive_lock_set[t] PROVE UndoRestores(t, q)'
      <3>1. q \in RIDs /\ UndoRestores(t, q)
        BY <1>1, <1>2 DEF CommittedInv
      <3>2. CASE q = r
        <4>1. Content(r)' = slot
          BY <1>10 DEF Wrote
        <4>2. Last(Writes(t)).rid = r /\ Last(Writes(t)).wtype = s[n].wtype
              /\ Len(Writes(t)) = n
          BY <1>2, <1>3, <1>4, <1>5
        <4>3. UndoRestores(t, r)'
          BY <1>1, <1>6, <1>7, <1>10, <2>1, <4>1, <4>2, UndoneOne
        <4> QED  BY <3>2, <4>3
      <3>3. CASE q # r
        <4>1. Content(q)' = Content(q) /\ committed'[q] = committed[q]
              /\ q # Last(Writes(t)).rid
          BY <1>1, <1>2, <1>4, <1>5, <1>10, <3>1, <3>3 DEF Wrote
        <4> QED  BY <2>1, <3>1, <4>1, RecordRemovedElsewhere
      <3> QED  BY <3>2, <3>3
    <2> QED  BY <1>1, <1>10, <2>1, <2>2 DEF KeepsCommitted, Undoes
  <1>11. CASE /\ s[n].wtype = "DELETE" /\ RollbackDelete(t, r)
              /\ UNCHANGED <<lockVars, state, write_set, pc, call>>
    <2>1. Wrote(r, LiveSlot(Content(r).tuple))
      BY <1>2, <1>6, <1>8, <1>11, UnmarkWrites DEF RollbackDelete
    <2>2. (\A j \in About(t, r) : n <= j) => LiveSlot(Content(r).tuple) = committed[r]
      <3> SUFFICES ASSUME \A j \in About(t, r) : n <= j
                   PROVE  LiveSlot(Content(r).tuple) = committed[r]
        OBVIOUS
      <3>1. Content(r) = MarkedSlot(committed[r].tuple) /\ ~IsDeleted(committed[r])
        BY <1>2, <1>8, <1>11 DEF Restores
      <3> QED  BY <1>9, <3>1, SlotKinds
    <2>3. UNCHANGED <<exclusive_lock_set, released, pc>>
      BY <1>11 DEF lockVars
    <2>4. IsFull(LiveSlot(Content(r).tuple)) /\ ~IsDeleted(LiveSlot(Content(r).tuple))
      BY SlotKinds
    <2> QED  BY <1>1, <1>10, <2>1, <2>2, <2>3, <2>4
  <1>12. CASE /\ s[n].wtype = "INSERT" /\ ApplyDelete(t, r)
              /\ UNCHANGED <<lockVars, state, write_set, pc, call>>
    <2>1. Wrote(r, EmptySlot)
      BY <1>2, <1>6, <1>12, DropWrites DEF ApplyDelete
    <2>2. EmptySlot = committed[r]
      BY <1>2, <1>8, <1>12 DEF Restores
    <2>3. UNCHANGED <<exclusive_lock_set, released, pc>>
      BY <1>12 DEF lockVars
    <2> QED  BY <1>1, <1>10, <1>12, <2>1, <2>2, <2>3
  <1>13. CASE s[n].wtype = "UPDATE" /\ UpdateTuple(t, r, s[n].tuple, "rollback")
    <2>1. PICK v : v = s[n].tuple
      OBVIOUS
    <2>2. v \in Tuples
      BY <1>4, <1>13, <2>1 DEF WriteRecord
    <2>3. ~IsDeleted(Content(r))
      <3>1. SUFFICES ASSUME IsDeleted(Content(r)) PROVE FALSE
        OBVIOUS
      <3>2. PICK j \in About(t, r) : s[j].wtype = "DELETE"
        BY <1>2, <1>6, <1>7, <3>1 DEF UndoRestores
      <3>3. n <= j /\ j \in 1 .. n
        BY <1>2, <1>3, <1>6, <1>7, <3>2 DEF UndoRestores, About
      <3> QED  BY <1>4, <1>13, <3>2, <3>3
    <2>4. LockEffect(t, r, TRUE) /\ Wrote(r, LiveSlot(v)) /\ pc'[t] = "abort"
      BY <1>1, <1>6, <1>13, <2>1, <2>2, <2>3, RollbackUpdateDone
    <2>5. exclusive_lock_set'[t] = exclusive_lock_set[t] /\ released' = released
      BY <1>6, <2>4 DEF LockEffect
    <2>6. (\A j \in About(t, r) : n <= j) => LiveSlot(v) = committed[r]
      BY <1>2, <1>8, <1>13, <2>1 DEF Restores
    <2>7. IsFull(LiveSlot(v)) /\ ~IsDeleted(LiveSlot(v))
      BY SlotKinds
    <2> QED  BY <1>10, <2>4, <2>5, <2>6, <2>7
  <1> QED  BY <1>0, <1>4, <1>5, <1>11, <1>12, <1>13 DEF AbortStep

\* releaseLocks: what a committed transaction leaves is committed, and an
\* aborted one has nothing left to undo.
LEMMA ReleaseKeepsCommitted ==
    ASSUME TxnInv, TxnInv', CommittedInv, NEW t \in TxnIDs, Release(t)
    PROVE  CommittedInv'
  <1>1. /\ pc[t] = "release" /\ undo[t] = << >> /\ t \notin released
        /\ ReleaseLocks(t) /\ pc' = [pc EXCEPT ![t] = "done"]
        /\ UNCHANGED <<pages, state, write_set, undo, call, ops, latch>>
    BY DEF Release, TxnInv, PhaseOK
  <1>2. \A q \in RIDs : Content(q)' = Content(q)
    BY <1>1, SamePages
  <1>3. \A q \in RIDs : committed'[q] =
           IF state[t] = "COMMITTED" /\ q \in exclusive_lock_set[t] THEN Content(q)
                                                                    ELSE committed[q]
    BY DEF Release
  <1>4. \A q \in RIDs : exclusive_lock_table[q] = t <=> q \in exclusive_lock_set[t]
    BY <1>1 DEF TxnInv, LockInv, LockSetsMatchTables
  <1>5. ASSUME NEW q \in RIDs, exclusive_lock_table'[q] = NoTxn
        PROVE  Content(q)' = committed'[q]
    <2>1. exclusive_lock_table[q] \in {NoTxn, t}
      BY <1>1, <1>5 DEF ReleaseLocks, Unlock
    <2>2. CASE exclusive_lock_table[q] = NoTxn
      <3>1. q \notin exclusive_lock_set[t]
        BY <1>4, <2>2, NoTxnAssumption
      <3>2. Content(q) = committed[q]
        BY <2>2 DEF CommittedInv, UnlockedIsCommitted
      <3> QED  BY <1>2, <1>3, <3>1, <3>2
    <2>3. CASE q \in exclusive_lock_set[t] /\ state[t] = "COMMITTED"
      BY <1>2, <1>3, <2>3
    <2>4. CASE q \in exclusive_lock_set[t] /\ state[t] # "COMMITTED"
      <3>1. UndoRestores(t, q)
        BY <1>1, <2>4 DEF CommittedInv
      <3>2. About(t, q) = {}
        <4>1. Writes(t) = << >> /\ Len(<< >>) = 0
          BY <1>1 DEF Writes, Ending
        <4> QED  BY <4>1 DEF About
      <3>3. Content(q) = committed[q]
        BY <3>1, <3>2 DEF UndoRestores
      <3> QED  BY <1>2, <1>3, <2>4, <3>3
    <2> QED  BY <1>4, <2>1, <2>2, <2>3, <2>4
  <1>6. UnlockedIsCommitted'
    BY <1>5 DEF UnlockedIsCommitted
  <1>7. StepOf(t)
    BY ReleaseKeeps DEF Keeps
  <1>8. \A u \in TxnIDs \ {t} : Undoes(u)
    <2>1. \A q \in RIDs : q \notin exclusive_lock_set[t] \/ t \in released =>
                              committed'[q] = committed[q]
      BY <1>1, <1>3
    <2> QED  BY <1>7, <2>1, OthersUndo
  <1>9. pc'[t] = "done" /\ t \in released'
    BY <1>1 DEF TxnInv, TxnTypeOK, ReleaseLocks
  <1>10. Undoes(t)
    BY <1>9 DEF Undoes, InPlace
  <1> QED  BY <1>6, <1>8, <1>10 DEF CommittedInv, Undoes

\* A step that changes nothing but the latch and the count of calls.
LEMMA CommittedStutter ==
    ASSUME CommittedInv, UNCHANGED <<lockVars, pages, state, write_set, undo, pc, call, committed>>
    PROVE  CommittedInv'
  <1>1. UNCHANGED <<exclusive_lock_table, exclusive_lock_set, released>>
    BY DEF lockVars
  <1>2. \A q \in RIDs : Content(q)' = Content(q)
    BY SamePages
  <1>3. UnlockedIsCommitted'
    BY <1>1, <1>2 DEF CommittedInv, UnlockedIsCommitted
  <1>4. \A t \in TxnIDs : InPlace(t)'
    BY DEF CommittedInv, InPlace
  <1>5. ASSUME NEW t \in TxnIDs \ released, state[t] # "COMMITTED",
               NEW r \in exclusive_lock_set[t]
        PROVE  UndoRestores(t, r)'
    <2>1. UndoRestores(t, r) /\ Writes(t)' = Writes(t) /\ Content(r)' = Content(r)
      BY <1>5 DEF CommittedInv, Writes, Ending, RollingBack, Content
    <2>2. About(t, r)' = About(t, r)
      BY <2>1 DEF About
    <2> QED  BY <2>1, <2>2 DEF UndoRestores, Restores
  <1> QED  BY <1>1, <1>3, <1>4, <1>5 DEF CommittedInv

\* Every step keeps the tuples recoverable.
LEMMA CommittedNext ==
    ASSUME OneTupleSize, StopOnAbort = TRUE, TxnInv, TxnInv', CommittedInv, [Next]_vars
    PROVE  CommittedInv'
  <1>1. CASE UNCHANGED vars
    BY <1>1, CommittedStutter DEF vars, txnVars
  <1>2. CASE Checkpointer
    BY <1>2, CommittedStutter DEF Checkpointer, BlockAllTransactions, BeginCheckpoint, EndCheckpoint
  <1>3. ASSUME NEW t \in TxnIDs, Client(t) \/ InOperation(t)
        PROVE  CommittedInv'
    <2>1. StepOf(t)
      BY <1>3, TransactionKeeps DEF Keeps
    <2>2. ~MoveDelete(t)
      BY DEF CommittedInv, InPlace, MoveDelete
    <2>3. CASE Release(t)
      BY <2>3, ReleaseKeepsCommitted
    <2>4. CASE ~Release(t)
      <3>1. KeepsCommitted(t)
        BY <1>3, <2>2, <2>4, QuietKeepsCommitted, GetTupleLockKeepsCommitted,
           InsertHereKeepsCommitted, MarkDeleteKeepsCommitted, UpdateKeepsCommitted,
           CommitStepKeepsCommitted, AbortStepKeepsCommitted
        DEF Client, InOperation
      <3> QED  BY <2>1, <3>1, UndoesInv DEF KeepsCommitted
    <2> QED  BY <2>3, <2>4
  <1> QED  BY <1>1, <1>2, <1>3 DEF Next

\* In the initial state every tuple is committed.
LEMMA CommittedInit == Init => CommittedInv
  BY DEF Init, LockInit, CommittedInv, UnlockedIsCommitted, InPlace

\* With tuples of one size, and clients that stop once their transaction is
\* ABORTED, undoing the records of a transaction always leads back to what
\* was committed.
THEOREM CommittedInvariance ==
    ASSUME OneTupleSize, StopOnAbort = TRUE
    PROVE  Spec => []CommittedInv
  <1>1. TxnInv /\ TxnInv' /\ CommittedInv /\ [Next]_vars => CommittedInv'
    BY CommittedNext
  <1> QED  BY TxnInvariance, CommittedInit, <1>1, PTL DEF Spec

\* Atomicity, under the same hypotheses: Commit, Abort and failed operations,
\* in whatever order, leave in every tuple that nobody has locked exactly what
\* the last commit put there.
THEOREM Atomicity ==
    ASSUME OneTupleSize, StopOnAbort = TRUE
    PROVE  Spec => []UnlockedIsCommitted
  <1>1. CommittedInv => UnlockedIsCommitted
    BY DEF CommittedInv
  <1> QED  BY CommittedInvariance, <1>1, PTL

\* Under the same hypotheses the checkpointer, once it has the latch, sees
\* committed tuples only, and no lock.
THEOREM CheckpointsAreConsistent ==
    ASSUME OneTupleSize, StopOnAbort = TRUE
    PROVE  Spec => []CheckpointIsQuiescent
  <1>1. TxnInv /\ CommittedInv => CheckpointIsQuiescent
    <2> SUFFICES ASSUME TxnInv, CommittedInv, latch = "held", NEW r \in RIDs
                 PROVE  /\ Content(r) = committed[r]
                        /\ exclusive_lock_table[r] = NoTxn /\ shared_lock_table[r] = {}
      BY DEF CheckpointIsQuiescent
    <2>1. ASSUME NEW t \in TxnIDs
          PROVE  exclusive_lock_table[r] # t /\ t \notin shared_lock_table[r]
      <3>1. pc[t] \in {"unborn", "done"} /\ PhaseOK(t)
        BY DEF TxnInv, PhaseOK
      <3>2. CASE pc[t] = "done"
        BY <3>1, <3>2 DEF PhaseOK, TxnInv, LockInv, NoLeakedLocks
      <3>3. CASE pc[t] = "unborn"
        BY <3>1, <3>3 DEF PhaseOK, TxnInv, LockInv, LockSetsMatchTables
      <3> QED  BY <3>1, <3>2, <3>3
    <2>2. exclusive_lock_table[r] = NoTxn /\ shared_lock_table[r] = {}
      BY <2>1 DEF TxnInv, LockInv, LockTypeOK
    <2> QED  BY <2>2 DEF CommittedInv, UnlockedIsCommitted
  <1> QED  BY TxnInvariance, CommittedInvariance, <1>1, PTL

\* Under the same hypotheses a transaction reads committed tuples or its own,
\* except beside a writer that upgraded its lock.
THEOREM DirtyReadsImplyUpgrade ==
    ASSUME OneTupleSize, StopOnAbort = TRUE
    PROVE  Spec => []DirtyReadsOnlyBesideUpgrade
  <1>1. TxnInv /\ CommittedInv => DirtyReadsOnlyBesideUpgrade
    <2> SUFFICES ASSUME TxnInv, CommittedInv, NEW t \in TxnIDs, pc[t] = "read"
                 PROVE  \/ exclusive_lock_table[call[t].rid] = t
                        \/ Content(call[t].rid) = committed[call[t].rid]
                        \/ exclusive_lock_table[call[t].rid] \in shared_lock_table[call[t].rid]
      BY DEF DirtyReadsOnlyBesideUpgrade
    <2> PICK r : r = call[t].rid
      OBVIOUS
    <2>1. /\ r \in RIDs /\ r \in shared_lock_set[t] \union exclusive_lock_set[t]
          /\ t \notin released
      BY DEF TxnInv, CallOK, PhaseOK
    <2>2. CASE r \in exclusive_lock_set[t]
      BY <2>1, <2>2 DEF TxnInv, LockInv, LockSetsMatchTables
    <2>3. CASE exclusive_lock_table[r] = NoTxn
      BY <2>1, <2>3 DEF CommittedInv, UnlockedIsCommitted
    <2>4. CASE r \in shared_lock_set[t] /\ exclusive_lock_table[r] # NoTxn
      <3>1. t \in shared_lock_table[r] /\ exclusive_lock_table[r] # t
        BY <2>1, <2>4 DEF TxnInv, LockInv, LockSetsMatchTables
      <3>2. PICK u \in TxnIDs : exclusive_lock_table[r] = u
        BY <2>1, <2>4 DEF TxnInv, LockInv, LockTypeOK
      <3>3. shared_lock_table[r] \ {u} # {}
        BY <3>1, <3>2
      <3> QED  BY <2>1, <3>2, <3>3 DEF TxnInv, LockInv, ForeignReaderOnlyBesideUpgrade
    <2> QED  BY <2>1, <2>2, <2>3, <2>4
  <1> QED  BY TxnInvariance, CommittedInvariance, <1>1, PTL
=============================================================================
