------------------------- MODULE BufferPoolManager -------------------------
(***************************************************************************)
(* storage/buffer/buffer_pool_manager.go with the page objects of          *)
(* storage/page/page.go and WritePage, ReadPage and AllocatePage of        *)
(* storage/disk/disk_manager_impl.go.                                      *)
(*                                                                         *)
(* A step is what runs under b.mutex, or between two of its critical       *)
(* sections: FetchPage lets the mutex go after its look at the page table, *)
(* takes a frame, evicts under the mutex, reads the disk without it and    *)
(* installs the page under it again.  The replacer is the queue that       *)
(* ClockReplacer implements.                                               *)
(*                                                                         *)
(* A Go pointer to a Page outlives the frame it was in, so page objects    *)
(* have names of their own; a name nothing points to is used again.  The   *)
(* content of a page is the number of the write that made it.              *)
(***************************************************************************)
EXTENDS Integers, FiniteSets, SequencesExt

CONSTANTS
    Threads,
    Frames,
    NumPages,       \* bound: page ids are 0 .. NumPages - 1
    MaxHeld,        \* bound: pages one goroutine has pinned at a time
    MaxWrites,      \* bound: writes of all goroutines
    MaxDeletes,     \* bound: pages DeletePage gives back
    None            \* no frame, no object, no data on disk

ASSUME PoolAssumption ==
    /\ IsFiniteSet(Threads) /\ IsFiniteSet(Frames)
    /\ NumPages \in Nat /\ MaxHeld \in Nat
    /\ MaxWrites \in Nat /\ MaxDeletes \in Nat
    /\ None \notin Frames /\ None \notin Nat

PageIDs == 0 .. NumPages - 1
Objects == 1 .. Cardinality(Frames) + Cardinality(Threads) * (MaxHeld + 1)

VARIABLES
    object,         \* page objects: id, pinCount, isDirty, data
    pages,          \* Frames -> object or None
    pageTable,      \* PageIDs -> frame or None
    freeList,
    replacer,       \* unpinned frames, the oldest first
    disk,           \* PageIDs -> content, or None past the end of the file
    nextPageID,
    pc, reg,        \* where each goroutine is, and its local variables
    held,           \* the pages it has pinned, and whether it wrote on them
    writes,         \* history: number of writes
    latest,         \* history: the last write on each page
    deleted,        \* page ids DeletePage gave back
    clashed         \* history: two calls met on one page, see BeingFetched

poolVars  == <<object, pages, pageTable, freeList, replacer>>
diskVars  == <<disk, nextPageID>>
localVars == <<pc, reg, held>>
histVars  == <<writes, latest, deleted, clashed>>
vars      == <<poolVars, diskVars, localVars, histVars>>

Blank == [id |-> 0, pinCount |-> 0, isDirty |-> FALSE, data |-> 0]

\* Local variables: the page asked for, the frame taken for it and whether it
\* is the replacer's, whether the free list was found empty, the data read,
\* the page ids still to flush and the page object being flushed.
NoReg == [page |-> 0, frame |-> None, victim |-> FALSE, looked |-> FALSE, data |-> 0,
          todo |-> {}, object |-> None]

Init ==
    /\ object = [o \in Objects |-> Blank]
    /\ pages = [f \in Frames |-> None]
    /\ pageTable = [p \in PageIDs |-> None]
    /\ freeList = SetToSeq(Frames)
    /\ replacer = << >>
    /\ disk = [p \in PageIDs |-> None]
    /\ nextPageID = 0
    /\ pc = [th \in Threads |-> "idle"]
    /\ reg = [th \in Threads |-> NoReg]
    /\ held = [th \in Threads |-> << >>]
    /\ writes = 0
    /\ latest = [p \in PageIDs |-> 0]
    /\ deleted = {}
    /\ clashed = FALSE

----------------------------------------------------------------------------

Resident == {p \in PageIDs : pageTable[p] # None}
ObjectOf(p) == pages[pageTable[p]]

\* Whoever holds object o, and every single hold of it.
Users(o) == {th \in Threads : \E i \in DOMAIN held[th] : held[th][i].object = o}

HoldsIn(hd, o) == {h \in Threads \X (1 .. MaxHeld) :
                      h[2] <= Len(hd[h[1]]) /\ hd[h[1]][h[2]].object = o}

Reachable ==
    {pages[f] : f \in Frames} \union {reg[th].object : th \in Threads}
        \union {o \in Objects : Users(o) # {}}

\* A name for a new page object.
FreshObject == CHOOSE o \in Objects : o \notin Reachable

\* Names nothing points to in the next state are blank again.
Collect(objects) ==
    object' = [o \in Objects |->
                 IF \/ o \in {pages'[f] : f \in Frames}
                    \/ o \in {reg'[th].object : th \in Threads}
                    \/ \E th \in Threads : \E i \in DOMAIN held'[th] : held'[th][i].object = o
                   THEN objects[o] ELSE Blank]

(***************************************************************************)
(* Nothing keeps two calls from meeting on one page.  Three meetings do    *)
(* harm, and set "clashed": a page is fetched while another goroutine      *)
(* fetches it (two page objects with one id); it is fetched or deleted     *)
(* while another has its frame as a victim (evicted under its new user, or *)
(* the frame handed out twice); it is fetched while being flushed, or      *)
(* flushed while pinned (FlushPage takes away a pin it did not make).      *)
(***************************************************************************)
BeingFetched(p) ==
    \E u \in Threads : pc[u] \in {"fetch", "install"} /\ reg[u].page = p

BeingEvicted(p) ==
    \E u \in Threads : reg[u].victim /\ reg[u].frame = pageTable[p]

BeingFlushed(p) ==
    \E u \in Threads : /\ pc[u] = "flush"
                       /\ \/ p \in reg[u].todo
                          \/ reg[u].object # None /\ object[reg[u].object].id = p

GoTo(th, label, locals) ==
    /\ pc' = [pc EXCEPT ![th] = label]
    /\ reg' = [reg EXCEPT ![th] = locals]

Return(th) == GoTo(th, "idle", NoReg)

\* A caller that gets a new page formats it, so it counts as written.
Take(th, o, wrote) ==
    held' = [held EXCEPT ![th] = Append(@, [object |-> o, wrote |-> wrote])]

\* Go's WritePage: a write past the end of the file leaves zeros before it.
WritePage(p, data) ==
    disk' = [q \in PageIDs |->
               IF q = p THEN data
               ELSE IF q < p /\ disk[q] = None THEN 0 ELSE disk[q]]

\* A hit that does not pin.
IncForgotten(o) == object

IncPinCount(o) == [object EXCEPT ![o].pinCount = @ + 1]
DecPinCount(o) == [object EXCEPT ![o].pinCount = IF @ > 0 THEN @ - 1 ELSE @]

----------------------------------------------------------------------------
(* FetchPage and NewPage.                                                  *)

\* A hit pins the page; a miss lets the mutex go.
FetchPage(th, p) ==
    /\ pc[th] = "idle"
    /\ Len(held[th]) < MaxHeld
    /\ p < nextPageID
    /\ p \notin deleted
    /\ \/ /\ p \in Resident
          /\ object' = IncPinCount(ObjectOf(p))
          /\ replacer' = RemoveFirst(replacer, pageTable[p])
          /\ Take(th, ObjectOf(p), FALSE)
          /\ UNCHANGED <<pc, reg>>
       \/ /\ p \notin Resident
          /\ GoTo(th, "fetch", [NoReg EXCEPT !.page = p])
          /\ UNCHANGED <<object, replacer, held>>
    /\ clashed' = (BeingFetched(p) \/ BeingEvicted(p) \/ BeingFlushed(p))
    /\ UNCHANGED <<pages, pageTable, freeList, diskVars, writes, latest, deleted>>

NewPage(th) ==
    /\ pc[th] = "idle"
    /\ Len(held[th]) < MaxHeld
    /\ nextPageID < NumPages
    /\ GoTo(th, "new", NoReg)
    /\ UNCHANGED <<poolVars, diskVars, held, histVars>>

\* getFrameID, the part under the mutex: a free frame, or none.
TakeFreeFrame(th) ==
    /\ pc[th] \in {"fetch", "new"}
    /\ reg[th].frame = None
    /\ ~reg[th].looked
    /\ freeList # << >>
    /\ freeList' = Tail(freeList)
    /\ reg' = [reg EXCEPT ![th].frame = Head(freeList)]
    /\ UNCHANGED <<object, pages, pageTable, replacer, diskVars, pc, held, histVars>>

NoFreeFrame(th) ==
    /\ pc[th] \in {"fetch", "new"}
    /\ reg[th].frame = None
    /\ ~reg[th].looked
    /\ freeList = << >>
    /\ reg' = [reg EXCEPT ![th].looked = TRUE]
    /\ UNCHANGED <<poolVars, diskVars, pc, held, histVars>>

\* getFrameID, the look into the replacer: no mutex is held, and the free list
\* may have a frame again.  Without a victim FetchPage and NewPage return nil.
TakeVictim(th) ==
    /\ pc[th] \in {"fetch", "new"}
    /\ reg[th].frame = None
    /\ reg[th].looked
    /\ IF replacer = << >>
         THEN Return(th) /\ UNCHANGED replacer
         ELSE /\ reg' = [reg EXCEPT ![th].frame = Head(replacer), ![th].victim = TRUE]
              /\ replacer' = Tail(replacer)
              /\ UNCHANGED pc
    /\ UNCHANGED <<object, pages, pageTable, freeList, diskVars, held, histVars>>

\* The page of frame f leaves: written if dirty, after a log flush.
EvictFrom(f) ==
    LET current == object[pages[f]]
    IN  /\ pageTable' = [pageTable EXCEPT ![current.id] = None]
        /\ IF current.isDirty THEN WritePage(current.id, current.data)
                              ELSE UNCHANGED disk

\* FetchPage evicts in a critical section of its own.
EvictForFetch(th) ==
    /\ pc[th] = "fetch"
    /\ reg[th].victim
    /\ EvictFrom(reg[th].frame)
    /\ reg' = [reg EXCEPT ![th].victim = FALSE]
    /\ UNCHANGED <<object, pages, freeList, replacer, nextPageID, pc, held, histVars>>

\* ReadPage; on an error FetchPage returns nil and the frame is gone.
ReadPage(th) ==
    /\ pc[th] = "fetch"
    /\ reg[th].frame # None
    /\ ~reg[th].victim
    /\ IF disk[reg[th].page] = None
         THEN Return(th)
         ELSE GoTo(th, "install", [reg[th] EXCEPT !.data = disk[reg[th].page]])
    /\ UNCHANGED <<poolVars, diskVars, held, histVars>>

\* Put a new page object, pinned once, into the frame taken.
Install(th, id, data, wrote) ==
    LET o == FreshObject
        f == reg[th].frame
    IN  /\ pages' = [pages EXCEPT ![f] = o]
        /\ Take(th, o, wrote)
        /\ Return(th)
        /\ Collect([object EXCEPT ![o] = [id |-> id, pinCount |-> 1,
                                          isDirty |-> FALSE, data |-> data]])

InstallFetched(th) ==
    /\ pc[th] = "install"
    /\ Install(th, reg[th].page, reg[th].data, FALSE)
    /\ pageTable' = [pageTable EXCEPT ![reg[th].page] = reg[th].frame]
    /\ UNCHANGED <<freeList, replacer, diskVars, histVars>>

\* NewPage evicts, allocates and installs in one critical section.
AllocatePage(th) ==
    /\ pc[th] = "new"
    /\ reg[th].frame # None
    /\ nextPageID < NumPages
    /\ nextPageID' = nextPageID + 1
    /\ LET f == reg[th].frame
           evicted == object[pages[f]]
       IN  /\ pageTable' = [p \in PageIDs |->
                              CASE p = nextPageID -> f
                                [] reg[th].victim /\ p = evicted.id -> None
                                [] OTHER -> pageTable[p]]
           /\ IF reg[th].victim /\ evicted.isDirty THEN WritePage(evicted.id, evicted.data)
                                                   ELSE UNCHANGED disk
    /\ Install(th, nextPageID, 0, TRUE)
    /\ UNCHANGED <<freeList, replacer, histVars>>

----------------------------------------------------------------------------
(* Using and unpinning a page.                                             *)

\* A goroutine changes the bytes of a page it has pinned.
Modify(th, i) ==
    LET o == held[th][i].object IN
    /\ pc[th] = "idle"
    /\ writes < MaxWrites
    /\ writes' = writes + 1
    /\ object' = [object EXCEPT ![o].data = writes']
    /\ latest' = [latest EXCEPT ![object[o].id] = writes']
    /\ held' = [held EXCEPT ![th][i].wrote = TRUE]
    /\ UNCHANGED <<pages, pageTable, freeList, replacer, diskVars, pc, reg,
                   deleted, clashed>>

\* UnpinPage that takes the caller's word for the dirty bit.
UnpinOverwritesDirty(th, p, isDirty) ==
    LET o == ObjectOf(p)
        unpinned == DecPinCount(o)
    IN  /\ replacer' = IF unpinned[o].pinCount = 0 /\ ~Contains(replacer, pageTable[p])
                         THEN Append(replacer, pageTable[p]) ELSE replacer
        /\ Collect([unpinned EXCEPT ![o].isDirty = isDirty])

\* UnpinPage that hands the frame to the replacer while others use the page.
UnpinAtOnce(th, p, isDirty) ==
    LET o == ObjectOf(p)
    IN  /\ replacer' = IF Contains(replacer, pageTable[p]) THEN replacer
                                                           ELSE Append(replacer, pageTable[p])
        /\ Collect([DecPinCount(o) EXCEPT ![o].isDirty = @ \/ isDirty])

\* UnpinPage works on whatever object the page table has for the id.
UnpinResident(th, p, isDirty) ==
    LET o == ObjectOf(p)
        unpinned == DecPinCount(o)
    IN  /\ replacer' = IF unpinned[o].pinCount = 0 /\ ~Contains(replacer, pageTable[p])
                         THEN Append(replacer, pageTable[p]) ELSE replacer
        /\ Collect([unpinned EXCEPT ![o].isDirty = @ \/ isDirty])

UnpinPage(th, i) ==
    LET p == object[held[th][i].object].id IN
    /\ pc[th] = "idle"
    /\ held' = [held EXCEPT ![th] = RemoveAt(@, i)]
    /\ UNCHANGED <<pages, pageTable, freeList, diskVars, pc, reg, histVars>>
    /\ IF p \in Resident THEN UnpinResident(th, p, held[th][i].wrote)
                         ELSE Collect(object) /\ UNCHANGED replacer

----------------------------------------------------------------------------
(* FlushPage, FlushAllPages and DeletePage.                                *)

Pinned(p) == \E th \in Threads : \E i \in DOMAIN held[th] :
                 object[held[th][i].object].id = p

FlushPages(th, ids) ==
    /\ pc[th] = "idle"
    /\ ids # {}
    /\ GoTo(th, "flush", [NoReg EXCEPT !.todo = ids])
    /\ clashed' = (\E p \in ids : Pinned(p) \/ BeingFetched(p))
    /\ UNCHANGED <<poolVars, diskVars, held, writes, latest, deleted>>

FlushPage(th, p) == FlushPages(th, {p})

\* The page ids are collected first; then each is flushed in turn.
FlushAllPages(th) == FlushPages(th, Resident)

\* The page table again, for each page.
FlushLookup(th, p) ==
    /\ pc[th] = "flush"
    /\ reg[th].object = None
    /\ p \in reg[th].todo
    /\ reg' = [reg EXCEPT ![th].todo = @ \ {p},
                          ![th].object = IF p \in Resident THEN ObjectOf(p) ELSE None]
    /\ UNCHANGED <<poolVars, diskVars, pc, held, histVars>>

\* Under the page's write latch, without the mutex: the pin count goes down,
\* though FlushPage did not raise it.
FlushWrite(th) ==
    /\ pc[th] = "flush"
    /\ reg[th].object # None
    /\ reg' = [reg EXCEPT ![th].object = None]
    /\ UNCHANGED <<pages, pageTable, freeList, replacer, nextPageID, pc, held, histVars>>
    /\ LET o == reg[th].object
       IN  /\ WritePage(object[o].id, object[o].data)
           /\ Collect([DecPinCount(o) EXCEPT ![o].isDirty = FALSE])

FlushReturn(th) ==
    /\ pc[th] = "flush"
    /\ reg[th].object = None
    /\ reg[th].todo = {}
    /\ Return(th)
    /\ UNCHANGED <<poolVars, diskVars, held, histVars>>

\* DeletePage that leaves the frame with the replacer too.
DeleteKeepingVictim(th, p) ==
    /\ pc[th] = "idle"
    /\ p > 0
    /\ Cardinality(deleted) < MaxDeletes
    /\ p \in Resident
    /\ object[ObjectOf(p)].pinCount = 0
    /\ pageTable' = [pageTable EXCEPT ![p] = None]
    /\ freeList' = Append(freeList, pageTable[p])
    /\ deleted' = deleted \union {p}
    /\ clashed' = BeingEvicted(p)
    /\ UNCHANGED <<object, pages, replacer, diskVars, localVars, writes, latest>>

\* A page with users is refused, which changes nothing.  The one caller is a
\* hash join that gives back its own temporary page, which is never page 0,
\* the catalog's.
DeletePage(th, p) ==
    /\ pc[th] = "idle"
    /\ p > 0
    /\ Cardinality(deleted) < MaxDeletes
    /\ p \in Resident
    /\ object[ObjectOf(p)].pinCount = 0
    /\ pageTable' = [pageTable EXCEPT ![p] = None]
    /\ replacer' = RemoveFirst(replacer, pageTable[p])
    /\ freeList' = Append(freeList, pageTable[p])
    /\ deleted' = deleted \union {p}
    /\ clashed' = BeingEvicted(p)
    /\ UNCHANGED <<object, pages, diskVars, localVars, writes, latest>>

----------------------------------------------------------------------------

Step(th) ==
    \/ TakeFreeFrame(th)
    \/ NoFreeFrame(th)
    \/ TakeVictim(th)
    \/ EvictForFetch(th)
    \/ ReadPage(th)
    \/ InstallFetched(th)
    \/ AllocatePage(th)
    \/ \E p \in PageIDs : FlushLookup(th, p)
    \/ FlushWrite(th)
    \/ FlushReturn(th)

Call(th) ==
    \/ NewPage(th)
    \/ FlushAllPages(th)
    \/ \E p \in PageIDs : FetchPage(th, p) \/ DeletePage(th, p)
    \/ \E p \in Resident : FlushPage(th, p)
    \/ \E i \in DOMAIN held[th] : Modify(th, i) \/ UnpinPage(th, i)

\* A bound: nothing is followed beyond a clash.
Next == ~clashed /\ \E th \in Threads : Call(th) \/ Step(th)

Spec == Init /\ [][Next]_vars

----------------------------------------------------------------------------
(* Properties of every interleaving up to the first clash.                 *)

\* A page somebody uses stays where it is: the object in a goroutine's hand
\* is the one the page table leads to, so all its users see the same bytes
\* and an unpin reaches it.
UsedPageIsResident ==
    clashed \/
    \A o \in Objects : Users(o) # {} =>
        LET p == object[o].id IN p \in Resident /\ ObjectOf(p) = o

\* No write is lost between memory and disk: a resident page has the last
\* write, a page that was evicted, flushed or left clean has it on disk too.
NoLostUpdate ==
    clashed \/
    \A p \in PageIDs : p < nextPageID /\ p \notin deleted =>
        /\ p \in Resident => object[ObjectOf(p)].data = latest[p]
        /\ p \notin Resident => disk[p] = latest[p]
        /\ p \in Resident /\ ~object[ObjectOf(p)].isDirty =>
               \/ disk[p] = latest[p]
               \/ \E th \in Threads : \E i \in DOMAIN held[th] :
                     held[th][i].wrote /\ held[th][i].object = ObjectOf(p)

Busy(f) == \E th \in Threads : reg[th].frame = f
InUse(f) == \E p \in Resident : pageTable[p] = f /\ object[pages[f]].pinCount > 0

\* Frames are neither lost nor handed out twice: each is free, evictable, in
\* use, or in the hands of one FetchPage or NewPage.
FramesAccounted ==
    clashed \/
    /\ IsInjective(freeList) /\ IsInjective(replacer)
    /\ \A f \in Frames :
          Cardinality({w \in {"free", "evictable", "in use", "busy"} :
             CASE w = "free" -> Contains(freeList, f)
               [] w = "evictable" -> Contains(replacer, f)
               [] w = "in use" -> InUse(f)
               [] w = "busy" -> Busy(f)}) = 1

\* pinCount "counts how many goroutines are acessing it" (page.go).
PinCountCountsUsers ==
    clashed \/
    \A p \in Resident :
        object[ObjectOf(p)].pinCount =
            Cardinality(HoldsIn(held, ObjectOf(p)))
============================================================================
