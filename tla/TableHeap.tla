----------------------------- MODULE TableHeap -----------------------------
(***************************************************************************)
(* The chain of pages of storage/access/table_heap.go, its growth, its     *)
(* scans (table_heap_iterator.go, as the sequential scan executor drives   *)
(* them) and the pins they take in the buffer pool, with transactions that *)
(* insert, delete and scan at the same time.  TransactionManager looks at  *)
(* what the transactions do to the tuples and appends a page in one step;  *)
(* here a page is linked, and initialised later.                           *)
(*                                                                         *)
(* A step is what runs under one page latch.  No latch is held from one    *)
(* step to the next: InsertTuple lets go of the full page between linking  *)
(* its successor and initialising it, and never latches the new page for   *)
(* that.  NewPage hands out zeroed pages: until Init such a page has no    *)
(* tuples, the free space pointer 0 and the next page 0, which IsValid     *)
(* accepts.  A goroutine that meets it there goes astray: an insert writes *)
(* outside the page and panics, a scan goes on in page 0 of the file.      *)
(***************************************************************************)
EXTENDS LockManager, TableSlots, FiniteSets

CONSTANTS
    MaxPages,       \* bound: page ids are 1 .. MaxPages, 1 is the first page
    MaxOps,         \* bound: inserts, deletes and scans of all transactions
    NoPage,         \* InvalidPageID
    Unused, Raw     \* a page not allocated yet, and one allocated and still zeroed

ASSUME HeapAssumption ==
    /\ MaxPages \in Nat \ {0}
    /\ MaxOps \in Nat
    /\ {NoPage, Unused, Raw} \intersect (1 .. MaxPages) = {}
    /\ NoPage # Unused /\ NoPage # Raw /\ Unused # Raw
    /\ RIDs \subseteq (1 .. MaxPages) \X (Nat \ {0})
    /\ IsFiniteSet(TxnIDs)

VARIABLES
    link,           \* page id -> what the header says: unused, raw, or the next page
    content,        \* page id -> its slots
    pins,           \* page id -> pinCount in the buffer pool
    state,          \* Transaction.state
    write_set,
    pc, reg,        \* where a transaction's goroutine is, and its local variables
    ops,
    expected,       \* history: tuples a scan has to return, committed when it began
    seen,           \* the tuples it returned
    leaked          \* history: pins nobody will give back

pageVars == <<link, content, pins, leaked>>
scanVars == <<expected, seen>>
vars     == <<lockVars, pageVars, scanVars, state, write_set, pc, reg, ops>>

Pages == 1 .. MaxPages

NoReg == [page |-> NoPage]

\* The first page after some committed inserts.
Init ==
    /\ LockInit
    /\ link = [p \in Pages |-> IF p = 1 THEN NoPage ELSE Unused]
    /\ \E v, w \in Tuples :
         \E first \in {EmptyPage, PutTuple(EmptyPage, v), PutTuple(PutTuple(EmptyPage, v), w)} :
             /\ first.free \in Nat /\ {1} \X (1 .. Len(first.slots)) \subseteq RIDs
             /\ content = [p \in Pages |-> IF p = 1 THEN first ELSE EmptyPage]
    /\ pins = [p \in Pages |-> 0]
    /\ leaked = [p \in Pages |-> 0]
    /\ state = [t \in TxnIDs |-> "GROWING"]
    /\ write_set = [t \in TxnIDs |-> << >>]
    /\ pc = [t \in TxnIDs |-> "idle"]
    /\ reg = [t \in TxnIDs |-> NoReg]
    /\ ops = 0
    /\ expected = [t \in TxnIDs |-> {}]
    /\ seen = [t \in TxnIDs |-> {}]

----------------------------------------------------------------------------

GoTo(t, label, locals) ==
    /\ pc' = [pc EXCEPT ![t] = label]
    /\ reg' = [reg EXCEPT ![t] = locals]

ClientCall(t) ==
    /\ pc[t] = "idle"
    /\ state[t] # "ABORTED"
    /\ ops < MaxOps
    /\ ops' = ops + 1

Abandon(t) == state' = [state EXCEPT ![t] = "ABORTED"]

\* FetchPage and UnpinPage of the buffer pool; DecPinCount stops at zero.
Fetched(pin, p) == [pin EXCEPT ![p] = @ + 1]
Unpinned(pin, p) == [pin EXCEPT ![p] = IF @ > 0 THEN @ - 1 ELSE 0]

SlotAt(r) ==
    IF r[2] <= Len(content[r[1]].slots) THEN content[r[1]].slots[r[2]] ELSE EmptySlot

KnownRIDs == {r \in RIDs : link[r[1]] \notin {Unused, Raw} /\ r[2] <= Len(content[r[1]].slots)}

\* A goroutine on a page before its Init.
GoAstray(t) ==
    /\ link[reg[t].page] = Raw
    /\ pc' = [pc EXCEPT ![t] = "astray"]
    /\ UNCHANGED <<lockVars, pageVars, scanVars, state, write_set, reg, ops>>

----------------------------------------------------------------------------
(* TableHeap.InsertTuple                                                   *)

InsertTuple(t, v) ==
    /\ ClientCall(t)
    /\ pins' = Fetched(pins, 1)
    /\ GoTo(t, "insert", [page |-> 1, tuple |-> v])
    /\ UNCHANGED <<lockVars, link, content, leaked, scanVars, state, write_set>>

HasRoom(t) == RoomToInsert(content[reg[t].page], reg[t].tuple)

\* A refused lock returns the error at once, and the page stays pinned.
InsertHere(t) ==
    /\ pc[t] = "insert"
    /\ LET p == reg[t].page
           r == <<p, InsertSlot(content[p])>>
       IN /\ link[p] # Raw
          /\ HasRoom(t)
          /\ r \in RIDs
          /\ \E granted \in BOOLEAN :
               /\ LockExclusive(t, r, granted)
               /\ IF granted
                    THEN /\ content' = [content EXCEPT ![p] = PutTuple(@, reg[t].tuple)]
                         /\ write_set' = [write_set EXCEPT ![t] =
                                            Append(@, [rid |-> r, wtype |-> "INSERT"])]
                         /\ pins' = Unpinned(pins, p)
                         /\ UNCHANGED <<state, leaked>>
                    ELSE /\ Abandon(t)
                         /\ leaked' = Fetched(leaked, p)
                         /\ UNCHANGED <<content, write_set, pins>>
    /\ GoTo(t, "idle", NoReg)
    /\ UNCHANGED <<link, scanVars, ops>>

\* InsertNextPage that forgets UnpinPage of the full page.
InsertNextPageKeepingPin(t) ==
    /\ pc[t] = "insert"
    /\ LET p == reg[t].page IN
         /\ link[p] \in Pages
         /\ ~HasRoom(t)
         /\ pins' = Fetched(pins, link[p])
         /\ reg' = [reg EXCEPT ![t].page = link[p]]
    /\ UNCHANGED <<lockVars, link, content, leaked, scanVars, state, write_set, pc, ops>>

InsertNextPage(t) ==
    /\ pc[t] = "insert"
    /\ LET p == reg[t].page IN
         /\ link[p] \in Pages
         /\ ~HasRoom(t)
         /\ pins' = Fetched(Unpinned(pins, p), link[p])
         /\ reg' = [reg EXCEPT ![t].page = link[p]]
    /\ UNCHANGED <<lockVars, link, content, leaked, scanVars, state, write_set, pc, ops>>

\* The last page is full: NewPage and SetNextPageId, under its latch.
NewLastPage(t, p) ==
    \E new \in Pages :
        /\ link[new] = Unused
        /\ \A q \in Pages : link[q] = Unused => new <= q
        /\ link' = [link EXCEPT ![p] = new, ![new] = Raw]
        /\ pins' = Fetched(pins, new)
        /\ GoTo(t, "init", [page |-> p, tuple |-> reg[t].tuple, new |-> new])

\* A grower that does not look at the next page id before it sets it.
InsertGrowUnchecked(t) ==
    /\ pc[t] = "insert"
    /\ link[reg[t].page] \notin {Raw, Unused}
    /\ ~HasRoom(t)
    /\ NewLastPage(t, reg[t].page)
    /\ UNCHANGED <<lockVars, content, leaked, scanVars, state, write_set, ops>>

InsertGrow(t) ==
    /\ pc[t] = "insert"
    /\ link[reg[t].page] = NoPage
    /\ ~HasRoom(t)
    /\ NewLastPage(t, reg[t].page)
    /\ UNCHANGED <<lockVars, content, leaked, scanVars, state, write_set, ops>>

\* Init of the new page and UnpinPage of the old one, under the latch of the
\* old one.
InsertInit(t) ==
    /\ pc[t] = "init"
    /\ link' = [link EXCEPT ![reg[t].new] = NoPage]
    /\ content' = [content EXCEPT ![reg[t].new] = EmptyPage]
    /\ pins' = Unpinned(pins, reg[t].page)
    /\ GoTo(t, "insert", [page |-> reg[t].new, tuple |-> reg[t].tuple])
    /\ UNCHANGED <<lockVars, leaked, scanVars, state, write_set, ops>>

InsertAstray(t) == pc[t] = "insert" /\ GoAstray(t)

----------------------------------------------------------------------------
(* The iterator.  GetNextTupleRID and GetTupleFirstRID skip empty slots    *)
(* and no others.                                                          *)

FullFrom(p, n) == {m \in n .. Len(content[p].slots) : IsFull(content[p].slots[m])}

First(numbers) == CHOOSE m \in numbers : \A k \in numbers : m <= k

Committed == {r \in KnownRIDs : ~IsDeleted(SlotAt(r)) /\ exclusive_lock_table[r] = NoTxn}

ScanOver(t) == GoTo(t, "idle", NoReg)

\* NewTableHeapIterator calls GetFirstTuple.
Scan(t) ==
    /\ ClientCall(t)
    /\ GoTo(t, "first", [page |-> 1])
    /\ expected' = [expected EXCEPT ![t] = Committed]
    /\ seen' = [seen EXCEPT ![t] = {}]
    /\ UNCHANGED <<lockVars, pageVars, state, write_set>>

\* GetFirstTuple looks at one page; it unpins it before it lets go of it.
GetFirstTuple(t) ==
    /\ pc[t] = "first"
    /\ LET p == reg[t].page IN
         /\ link[p] # Raw
         /\ CASE FullFrom(p, 1) # {} ->
                   GoTo(t, "lock", [page |-> NoPage, rid |-> <<p, First(FullFrom(p, 1))>>])
              [] FullFrom(p, 1) = {} /\ link[p] # NoPage -> GoTo(t, "first", [page |-> link[p]])
              [] OTHER -> ScanOver(t)
    /\ UNCHANGED <<lockVars, pageVars, scanVars, state, write_set, ops>>

\* Where GetNextTupleRID starts on a page: behind the current tuple, or with
\* the first slot of a page further on.  The first form is for every page.
StartSlotEverywhere(t) == reg[t].rid[2] + 1

StartSlot(t) == IF pc[t] = "next" THEN reg[t].rid[2] + 1 ELSE 1

\* Next on the page of the current tuple, which it fetches, and on the pages
\* behind it.  The page it ends on stays pinned while GetTuple runs.
Next1(t, p, fetched) ==
    /\ link[p] # Raw
    /\ CASE FullFrom(p, StartSlot(t)) # {} ->
              /\ pins' = fetched
              /\ GoTo(t, "lock", [page |-> p, rid |-> <<p, First(FullFrom(p, StartSlot(t)))>>])
         [] FullFrom(p, StartSlot(t)) = {} /\ link[p] # NoPage ->
              /\ pins' = Unpinned(Fetched(fetched, link[p]), p)
              /\ GoTo(t, "walk", [page |-> link[p], rid |-> reg[t].rid])
         [] OTHER -> pins' = Unpinned(fetched, p) /\ ScanOver(t)
    /\ UNCHANGED <<lockVars, link, content, leaked, scanVars, state, write_set, ops>>

IterNext(t) == pc[t] = "next" /\ Next1(t, reg[t].rid[1], Fetched(pins, reg[t].rid[1]))

IterWalk(t) == pc[t] = "walk" /\ Next1(t, reg[t].page, pins)

ScanAstray(t) == pc[t] \in {"first", "walk"} /\ GoAstray(t)

\* Next gives its page back; GetFirstTuple has none.
GiveBack(t) == IF reg[t].page = NoPage THEN pins ELSE Unpinned(pins, reg[t].page)

\* GetTuple: the shared lock first.  A refused lock ends the scan like the end
\* of the table does, and the transaction is ABORTED.
ScanLock(t) ==
    /\ pc[t] = "lock"
    /\ LET r == reg[t].rid IN
         \E granted \in BOOLEAN :
            /\ IF IsSharedLocked(t, r) \/ IsExclusiveLocked(t, r)
                 THEN granted = TRUE /\ UNCHANGED lockVars
                 ELSE LockShared(t, r, granted)
            /\ IF granted
                 THEN GoTo(t, "read", reg[t]) /\ UNCHANGED <<state, pins>>
                 ELSE Abandon(t) /\ ScanOver(t) /\ pins' = GiveBack(t)
    /\ UNCHANGED <<link, content, leaked, scanVars, write_set, ops>>

ScanRead(t) ==
    /\ pc[t] = "read"
    /\ pins' = GiveBack(t)
    /\ IF IsDeleted(SlotAt(reg[t].rid))
         THEN Abandon(t) /\ ScanOver(t) /\ UNCHANGED seen
         ELSE /\ seen' = [seen EXCEPT ![t] = @ \union {reg[t].rid}]
              /\ GoTo(t, "next", [page |-> NoPage, rid |-> reg[t].rid])
              /\ UNCHANGED state
    /\ UNCHANGED <<lockVars, link, content, leaked, expected, write_set, ops>>

----------------------------------------------------------------------------
(* MarkDelete, and the end of a transaction.                               *)

LockForWrite(t, r, granted) ==
    \/ IsSharedLocked(t, r) /\ LockUpgrade(t, r, granted)
    \/ /\ ~IsSharedLocked(t, r)
       /\ IsExclusiveLocked(t, r)
       /\ granted = TRUE
       /\ UNCHANGED lockVars
    \/ /\ ~IsSharedLocked(t, r)
       /\ ~IsExclusiveLocked(t, r)
       /\ LockExclusive(t, r, granted)

MarkDelete(t, r) ==
    /\ ClientCall(t)
    /\ \E done \in BOOLEAN :
         /\ IF IsDeleted(SlotAt(r)) THEN done = FALSE /\ UNCHANGED lockVars
                                    ELSE LockForWrite(t, r, done)
         /\ IF done
              THEN /\ content' = [content EXCEPT ![r[1]] = MarkTuple(@, r[2])]
                   /\ write_set' = [write_set EXCEPT ![t] =
                                      Append(@, [rid |-> r, wtype |-> "DELETE"])]
                   /\ expected' = [u \in TxnIDs |-> expected[u] \ {r}]
                   /\ UNCHANGED state
              ELSE Abandon(t) /\ UNCHANGED <<content, write_set, expected>>
    /\ UNCHANGED <<link, pins, leaked, seen, pc, reg>>

EndStart(t) ==
    /\ pc[t] = "idle"
    /\ \/ /\ state[t] # "ABORTED"
          /\ state' = [state EXCEPT ![t] = "COMMITTED"]
          /\ pc' = [pc EXCEPT ![t] = "commit"]
       \/ Abandon(t) /\ pc' = [pc EXCEPT ![t] = "abort"]
    /\ UNCHANGED <<lockVars, pageVars, scanVars, write_set, reg, ops>>

\* Commit and Abort fetch the page of a tuple they drop and do not unpin it.
DropLeaking(r) ==
    /\ content' = [content EXCEPT ![r[1]] = DropTuple(@, r[2])]
    /\ pins' = Fetched(pins, r[1])
    /\ leaked' = Fetched(leaked, r[1])

EndStep(t) ==
    /\ pc[t] \in {"commit", "abort"}
    /\ write_set[t] # << >>
    /\ LET item == write_set[t][Len(write_set[t])] IN
         \/ /\ item.wtype = IF pc[t] = "commit" THEN "DELETE" ELSE "INSERT"
            /\ DropLeaking(item.rid)
         \/ /\ item.wtype = "INSERT" /\ pc[t] = "commit"
            /\ UNCHANGED <<content, pins, leaked>>
         \/ /\ item.wtype = "DELETE" /\ pc[t] = "abort"
            /\ content' = [content EXCEPT ![item.rid[1]] = UnmarkTuple(@, item.rid[2])]
            /\ UNCHANGED <<pins, leaked>>
    /\ write_set' = [write_set EXCEPT ![t] = SubSeq(@, 1, Len(@) - 1)]
    /\ UNCHANGED <<lockVars, link, scanVars, state, pc, reg, ops>>

Release(t) ==
    /\ pc[t] \in {"commit", "abort"}
    /\ write_set[t] = << >>
    /\ ReleaseLocks(t)
    /\ pc' = [pc EXCEPT ![t] = "done"]
    /\ UNCHANGED <<pageVars, scanVars, state, write_set, reg, ops>>

----------------------------------------------------------------------------

Step(t) ==
    \/ InsertHere(t) \/ InsertNextPage(t) \/ InsertGrow(t) \/ InsertInit(t)
    \/ InsertAstray(t)
    \/ GetFirstTuple(t) \/ IterNext(t) \/ IterWalk(t) \/ ScanLock(t) \/ ScanRead(t)
    \/ ScanAstray(t)
    \/ EndStep(t) \/ Release(t)

Next ==
    \E t \in TxnIDs :
        \/ Step(t)
        \/ EndStart(t)
        \/ Scan(t)
        \/ \E v \in Tuples : InsertTuple(t, v)
        \/ \E r \in KnownRIDs : MarkDelete(t, r)

Spec == Init /\ [][Next]_vars

----------------------------------------------------------------------------
(* Properties.                                                             *)

\* A scan that comes to its end in a transaction still alive has returned
\* every tuple that was committed when it began and that nobody has deleted
\* since, whatever was inserted, deleted, rolled back or linked meanwhile.
\* The iterator keeps nothing but the record id of its current tuple, and a
\* nil tuple means both "end" and "could not read".
ScanIsComplete ==
    \A t \in TxnIDs : pc[t] = "idle" /\ state[t] = "GROWING" => expected[t] \subseteq seen[t]

\* The pins a goroutine has at its present place.
PinsOf(t, p) ==
    IF pc[t] = "init" THEN Cardinality({q \in {"page", "new"} : reg[t][q] = p})
    ELSE IF pc[t] = "first" \/ reg[t].page # p THEN 0 ELSE 1

Astray == {t \in TxnIDs : pc[t] = "astray"}

\* Every pin on a page belongs to a goroutine that is working on it, or was
\* lost in the two known ways: InsertTuple that returns on a refused lock, and
\* Commit and Abort that drop a tuple.  No path of the heap and of its
\* iterator loses another pin, and none gives back a pin of somebody else,
\* which would let the buffer pool evict a page in use.
PinsAccounted ==
    Astray = {} => \A p \in Pages :
        pins[p] = leaked[p] + Cardinality({t \in TxnIDs : PinsOf(t, p) = 1})

\* However many inserts find the last page full at once, the pages form one
\* chain: every page in use but the first is the next page of exactly one
\* other, so that no page, and none of its rows, drops out of the scans.
HeapIsChain ==
    \A p \in Pages \ {1} : link[p] # Unused =>
        Cardinality({q \in Pages : link[q] = p}) = 1
============================================================================
