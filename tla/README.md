# TLA+ specifications of SamehadaDB

SamehadaDB is a relational database engine in Go, grown out of a port of
BusTub. This directory holds TLA+ modules translated from its source, TLC
configurations that check them on small instances, and TLAPS proofs for every
value of the constants. `PROJECT.json` maps each definition to the lines it
models and lists runs, mutants, findings, hazards and theorems.

    tlc -workers 2 -config TransactionManager.cfg MCTransactionManager
    tlapm TransactionManagerProofs.tla

## 1. Inventory

| Part | State | Operations | Used by |
|---|---|---|---|
| Lock manager (`storage/access/lock_manager.go`) | shared and exclusive lock tables | `LockShared`, `LockExclusive`, `LockUpgrade`, `Unlock` | table page, table heap, transaction manager |
| Transactions (`transaction.go`, `transaction_manager.go`) | state, lock sets, write set; global transaction latch | `Begin`, `Commit`, `Abort`, `BlockAllTransactions`, `ResumeTransactions` | clients, checkpoint manager |
| Table heap and iterator (`table_heap.go`, `table_heap_iterator.go`) | the chain of pages | `InsertTuple`, `UpdateTuple`, `MarkDelete`, `ApplyDelete`, `RollbackDelete`, `GetTuple`, `Next` | executors, transaction manager, catalog |
| Table page (`table_page.go`) | header, slot array, tuples | the same, on one page | table heap, recovery |
| Log manager (`recovery/log_manager.go`) | two buffers, offset, LSNs | `AppendLogRecord`, `Flush` | everything that changes a page, `Commit`, buffer pool |
| Log recovery (`recovery/log_recovery`) | active transactions, LSN to offset map | `Redo`, `Undo` | start of the system |
| Checkpoint manager (`concurrency/checkpoint_manager.go`) | none | `BeginCheckpoint`, `EndCheckpoint` | a client |
| Buffer pool (`storage/buffer/buffer_pool_manager.go`, `storage/page/page.go`) | frames, page table, free list, pin counts, dirty bits | `FetchPage`, `NewPage`, `UnpinPage`, `FlushPage`, `FlushAllPages`, `DeletePage` | everything that reads pages |
| Replacer (`clock_replacer.go`, `circular_list.go`) | circular list, hand | `Pin`, `Unpin`, `Victim` | buffer pool |
| Disk manager (`storage/disk`) | database file, log file, next page id | `WritePage`, `ReadPage`, `AllocatePage`, `WriteLog`, `ReadLog` | buffer pool, log manager, recovery |
| Hash table and index (`container/hash`, `storage/index`) | header and block pages | `Insert`, `Remove`, `GetValue`; `InsertEntry`, `DeleteEntry`, `ScanKey` | executors |
| Executors (`execution/executors`) | iterators, group tables, join tables | `Init`, `Next` | clients |
| Catalog (`catalog`) | table ids and names, persistent in pages 0 and 1 | `BootstrapCatalog`, `RecoveryCatalogFromCatalogPage`, `CreateTable` | executors |
| Parser, plans, expressions, tuples, types | data only | | |

How they work together: a client runs each transaction in a goroutine of its
own. An executor calls the table heap, which fetches pages from the buffer
pool, latches a page and calls the table page; the table page asks the lock
manager for a tuple lock, changes the bytes, and appends a log record, all
under the page latch. The transaction manager keeps the write records and
replays them at commit (deferred deletes) or abort (rollback). Lock requests
never wait: a refused request makes the transaction ABORTED.

What is hard, and what correctness means:

* **Lock manager**: two representations of the same locks (tables and lock
  sets), upgrades, strictness.
* **Transactions**: rollback goes on beside other transactions, page latch by
  page latch; updates may move tuples; a failed operation is only a state flag
  the client has to look at. Correct: what is left without a lock is committed.
* **Table page**: byte moves and offset corrections. Correct: each slot gives
  back what was stored in it.
* **Log manager**: two locks, let go and taken again. Correct: every LSN once
  in the log, a commit on disk when it returns, records of a page in order.
* **Buffer pool**: the mutex is let go in the middle of `FetchPage`. Correct:
  one copy of a page, nothing lost, no frame lost.
* **Replacer**: a pointer to a pointer into a removed node. Correct: a queue.
* **Hash index**: removed slots stay; the index is changed by the executors
  beside the table, and a rollback does not reach it. Correct: the index and
  the table agree.
* **Table heap and iterator**: pages are linked to the chain while others walk
  along it, and every page on the way has to be unpinned. Correct: one chain, no
  tuple missed by a scan, no pin lost or given back twice.
* **Recovery and checkpoint**: a crash at any moment, also of the recovery.
  Correct: Redo rebuilds the page of the time of the crash, Undo leaves what the
  committed transactions wrote.
* **Catalog**: two tables in memory and two on disk, written row by row without
  a lock. Correct: what is read after a restart is what was created.
* **Executors that read**: `Next` has four kinds of answers, which the executors
  understand differently; NULLs, equal hashes, unsigned sizes. Correct: the
  answer of the relational operation.

## 2. Plan

Done are the models: LockManager, TransactionManager, LogManager, TablePage,
ClockReplacer, BufferPoolManager, the hash table and index, Recovery, TableHeap,
Catalog, and the executors that read (ColumnValues, Queries). No module uses a
RECURSIVE operator, so that all of them can be proved about.

Done are the proofs of the safety properties of LockManager, TransactionManager,
TableHeap, LogManager, BufferPoolManager, HashIndex, ClockReplacer, TablePage,
Catalog and Recovery, and of the refinements: the transactions use the lock manager
as LockSpec says, ClockReplacer implements Replacer, TablePage implements
SlotPage (section 5).

Left is what the executors compute (Queries): folds over the rows, where a proof
needs induction over data.

## 3. Modules

**LockManager** (`lock_manager.go`, lock sets of `transaction.go`,
`releaseLocks`). One action per function, since each holds the mutex
throughout; the returned boolean is a parameter. A list of sharers is a set.
`released` remembers who ran `releaseLocks`. `LockSpec` is the lock manager
under callers that stop once they have released, which the transactions are
shown to be (`LockDiscipline`).

A module with `Proofs` at the end of its name holds the theorems about the module
it is named after, with the invariants and lemmas they need; StorageProofs is about
ClockReplacer, TablePage, Catalog, and HashIndex with its LinearProbeHashTable.

**TableSlots, SlotPage** say what a page promises: slots that are empty, live
or marked, and an account of free space. TableSlots has operators on pages,
SlotPage makes them a state machine.

**TablePage** (`table_page.go`) keeps the bytes: the memory of the page, the
free space pointer, the slot array with offset, size and mark. `PageView` reads
the abstract page back out of the bytes, and `ImplementsSlotPage` is the
refinement. Slot numbers start at 1.

**TransactionManager** (`transaction_manager.go`, `table_heap.go`, the locking
in `table_page.go`, `checkpoint_manager.go`) extends LockManager and
TableSlots. A step is what runs under one page latch. `pc` is the place of a
transaction's goroutine: `read` between lock and page of `GetTuple`, `insert`
on the way along the pages, `move` between the two halves of an update that
does not fit, `commit` and `abort` in the loops over the write set (`undo` is
their local copy), `release` before `releaseLocks`. `committed` is history: the
content the last commit gave each slot. `StopOnAbort` is a discipline of the
clients that no code enforces (a TODO in `execution_engine.go` asks for it): who
finds his transaction ABORTED calls nothing but `Abort`; without it he may go on
and even commit. Logging is on, as the code takes no locks without it; the log
itself is LogManager's and Recovery's matter. An insert links a new page and
initialises it in one step here; TableHeap has the two apart.

**TableHeap** (`table_heap.go`, `table_heap_iterator.go`) extends LockManager
and TableSlots too and asks about pages instead of tuples: the chain, its
growth, its scans and the pins in the buffer pool. A step is again what runs
under one page latch, but a new page is linked in one step and initialised in
another, as in `InsertTuple`, which does not latch the new page. Who meets the
zeroed page in between goes astray (`pc` is `astray`): an insert panics, a scan
runs on in page 0. `leaked` counts the pins the code never gives back.
It begins with a first page of up to two committed tuples that has room for
them. `RIDs` bounds the slots of a page; an insert that would need another
slot is not taken.

**LogManager** (`log_manager.go`, `WriteLog`). Steps are the critical sections
of the latch and of `wlog_mutex`. A record is its LSN, page, goroutine, size
and whether it is a COMMIT. Writing past the end of the buffer sets `panicked`,
where the model stops, hence no deadlock check in its run.

**Recovery** (`log_recovery.go`, `log_record.go`, `ReadLog`, and the log records
of `table_page.go` and `transaction_manager.go`) is one table page with its LSN
in the buffer pool and on disk, and the log. `mode` is `up` while transactions
run, pages are evicted and checkpoints taken; a crash keeps the page on disk and
a prefix of the log that holds all that was flushed, perhaps with a torn record
behind it. Then `redo` and `undo` go record by record, and a crash sends either
back to the start. `snapshots` is history: the page each record left. It takes
from the other modules what they show: tuples are written under an exclusive
lock, `Flush` writes all records in order. The rollback of an update goes through
UpdateTuple, which refuses a slot without a tuple and moves what does not fit.

**ClockReplacer** (`clock_replacer.go`, `circular_list.go`) has the nodes with
their pointers and the hand as the address of a field. **Replacer** is the
queue it implements, in which `Pin` removes a frame and `Victim` the oldest. The
result is that the "clock" is first in, first out by
unpin time: `Victim` never advances `currentNode`, so there is no second chance.

**BufferPoolManager** (`buffer_pool_manager.go`, `page.go`, page I/O of
`disk_manager_impl.go`). Page objects have names, as a pointer to a Page
outlives its frame. The replacer is Replacer's queue. The goroutines run
concurrently, mutex section by mutex section; `getFrameID` lets the mutex go
between the free list (`NoFreeFrame`) and the replacer (`TakeVictim`). `clashed` says that two calls met
on one page in one of the ways the code has no answer to: fetched by two at
once; fetched or deleted while it is the victim of another fetch; flushed while
somebody has it pinned, or fetched while it is flushed. The model goes as far as
that and no further.

**LinearProbeHashTable** has the functions of the hash table on its content,
**HashIndex** the insert, delete and update executors with one indexed column
over them. Each statement commits or aborts. `strayed` collects the rows about
which the code leaves the index wrong: those of aborted statements, which are
rolled back in the table only, and those of an update that names the columns it
changes, which are filed under the dummy value of a column not named.

**ColumnValues** (`column_value.go`, comparison and logical expressions) has
integers of a few bits that wrap around, Booleans, NULL, and what the comparisons
make of them. **Queries** (`execution/executors`) builds plans from the leaves up,
on a stack. An executor has the types of its columns, the sequence of what its
`Next` calls return, and how it ends: done, done with an error, an error, a panic.
A plan is well-typed: it names columns that exist and compares values of one type.
Nondeterminism is where Go has it (the order of a map, `sort.Slice` without a
proper order) and where the rest of the system comes in: the lock manager may
refuse a lock and the buffer pool a page at any row (`refused`), and the pool gives
a join only some of the temporary pages it asks for, new or again (`granted`).

**Catalog** (`table_catalog.go`): `CreateTable` row by row and flush by flush,
by goroutines without a lock, evictions, shutdown or crash, and
`RecoveryCatalogFromCatalogPage`, which collects the column rows of a table in the
order of the page (`ColumnsOf`) and lets a later table row win (`LastRow`). The
file ends behind the highest page written; `disk.start` is where the allocation
began after the last restart, which may leave an id out. A flush is one step, the
write; what can happen to a page between the look-up and the write in `FlushPage`
is BufferPoolManager's question.

**MC** modules define constants for TLC and symmetry sets, nothing else.

## 4. Runs

| Run | Instance | Shows |
|---|---|---|
| transactions | 2 transactions, 3 calls, a page of two tuples of equal size, checkpointer | atomicity of commit and rollback, quiet checkpoints; lock tables and lock sets agree, nothing leaks, strictness; how far the missing check of `LockUpgrade` reaches |
| transaction_moves | two tuple sizes, 2 calls on a full page, fair goroutines | undo assertions and writes only under the lock when updates move tuples; the lock manager is used as LockSpec says; operations return and a waiting checkpoint proceeds |
| table_heap | 3 transactions, 4 calls, 3 pages of two tuples | scans are complete, pins are accounted for, one chain |
| recovery | 2 transactions, a committed row and 5 more records, tuples of two sizes, 2 slots, 2 crashes | Redo repeats history; losers that can be taken back are |
| log_manager | 2 goroutines, a page, buffer of 2, 3 LSNs, fair goroutines | each LSN once, durable commits, order per page and per goroutine, calls return |
| table_page | page of 9 units, tuples of 1 to 3 | all sequences of operations; refinement of SlotPage |
| clock_replacer | 4 frames | all sequences; refinement of Replacer |
| buffer_pool | 2 goroutines, 2 frames, 3 pages, a write, a deletion | up to a clash: pinned pages stay, no lost write, frames accounted for, pin counts |
| hash_index | 3 rows, 4 keys, two with one hash, 2 blocks of 2 slots | no row with another hash through the index, a row filed once, rows missed only behind a removed slot or in a full table |
| queries | plans of up to 5 executors, tables of up to 3 rows, integers of 3 bits, Booleans, NULLs, two keys with one hash, 1, 3 or enough pages for a join | joins, groups and orders against their definitions, the only reasons to panic |
| catalog | 2 goroutines, 3 tables of 1 or 2 columns, one name, one restart | reload finds the tables, each on pages of its own |
| recovery_violation | as recovery, one crash, no aborts | see below |

The bounds: the page of `transactions` starts with up to two committed tuples,
which leaves the calls for what matters: three are a write, a write or read by
the other and a second write of the first, and pages fill within them, so that
inserts reach the next page and freed slots are used again; two calls on a full
page are a move and a call of the other transaction against it. In `table_heap`
four calls of three transactions let two inserts meet at the full last page
while a scan passes. In `recovery` five records are an insert, a delete and its
application between BEGIN and COMMIT, or two transactions side by side, and the
two slots fill up; the second crash hits Redo and Undo at every record. The log
buffer holds one long record or two short ones, so that both flushes inside
`AppendLogRecord` happen in every order and the buffer can be overrun. Three
pages over two frames make evictions happen with one page pinned. Four slots
fill with removed entries, and chains run over the end of a block and of the
table. Five executors are a join under an aggregation or an order with something
below; 3 + 3 is out of range, and a second row of six bytes does not fit into a
temporary page; one page is refused to a join while it builds, three while it
probes. `transactions` excludes tuples of different sizes because there
UnlockedIsCommitted fails, see below.

Fairness: `InOperation` is weakly fair since no operation of the heap waits for
another transaction (lock requests return at once) and a running goroutine is
scheduled; beginning, committing and aborting are the client's choice and not
fair. `BeginCheckpoint` is weakly fair: Go's RWMutex keeps new readers out while
a writer waits. `SwapBuffers` is strongly fair since Go's Mutex hands itself to
a waiter that has waited long.

**recovery_violation** shows a disagreement between the code and what the
repository says of it (quoted in `PROJECT.json`): on a full page a transaction
deletes a tuple and commits, and the system crashes after the delete was applied
and before the COMMIT record is on disk. Undo calls `InsertTuple` to bring the
tuple back, `InsertTuple` asks for room for a new slot entry although it would
use the empty slot, refuses, and nobody looks at the answer: the tuple is gone.

The passing runs state what holds. Their reservations, and the histories
`clashed`, `strayed` and `leaked`, mark weak points of the code, which the models
have as the code has them:

* Transactions. `LockUpgrade` ignores other sharers, who may then read
  uncommitted data; DirtyReadsOnlyBesideUpgrade says that there is no other way.
  When t1 shrinks a tuple, t2 takes the space and t1 aborts, the old tuple is
  moved to another page and the mark on its slot stays for ever. With
  `StopOnAbort = FALSE` an operation fails, the client goes on, the next update
  is applied and, without a write record, never undone. The runs exclude it; that
  the assertions of the undo hold is proved with it.
* Table heap. `InsertTuple` on a refused lock, `Commit` and `Abort` keep pins; a
  new page can be reached before it is initialised.
* Log manager. `panicked`: the room in the buffer is not looked at again after
  the inner `Flush`. `persistent_lsn` runs ahead of a record whose goroutine is
  between LSN and copy; nothing but a test (`log_recovery_test.go`) reads that
  field.
* Recovery. Undo takes an ABORT record for one like any other and undoes the
  transaction a second time, when its tuples may belong to others; it does not
  compare LSNs, so that an insert undone twice is an assertion that fails; an
  update to a smaller tuple may find its space gone. A torn record at the end of
  the log makes Redo panic or loop.
* Buffer pool. The three ways to clash; `FlushPage` lowers the pin count of a
  page somebody uses.
* Index. A removed slot with the same record id makes `Insert` refuse, and so
  does a table without a free slot; the executors do not look at the answer. The
  index compares hashes only, and `HashScanIndexExecutor` hands out what it finds:
  a row with another key of the same hash too.
* Queries. HAVING is not applied to the group that comes last, though a test
  expects it of every row (`executor_test.go:1877`, "Should have countA > 100");
  GroupsAreAggregated excepts that group and says that there is no other; keys with one
  hash are one group; COUNT counts NULLs; a NULL or a Boolean makes the comparator
  of ORDER BY no order, as no Boolean is less than another; a nil row of LIMIT with OFFSET ends the building of a join and
  makes an order panic; a join on the right of a join panics; a row larger than
  the rest of a temporary page passes the unsigned test for room. SUM, MIN and MAX
  of a column that is not Integer, a join over Boolean keys, an index scan of a
  column without an index or of a table with a Boolean column, and every page the
  pool refuses are panics. A refused lock ends a scan as if the table ended there,
  and empties an index scan. A join never unpins its last temporary page and never
  gives the pages back, since no executor returns a row together with the end.
* Catalog. An oid is given twice to calls that overlap and after a restart; a
  crash leaves tables with some of their columns, and page numbers that are
  given out again.

## 5. Proofs

The theorems hold for every value of the constants that the named assumptions of
the modules allow: any number of transactions, goroutines, pages, tuples, frames,
keys and calls. Most of a proof is one lemma per action, and under it one step
per part of the invariant that the action can disturb. Where a theorem has a
hypothesis beyond these assumptions, it says so.

**LockManagerProofs**: LockSetsMatchTables, NoLeakedLocks,
ForeignReaderOnlyBesideUpgrade and LocksKeptUntilRelease hold of `LockSpec`. The
inductive invariant `LockInv` is the conjunction of the types and the first
three. None is inductive alone: `Unlock` gets its list from the lock sets, so
that nothing leaks only because sets and tables match; they match after other
transactions' releases only because `Unlock` removes nothing but its own entries.

**TableSlotsProofs** has the lemmas about pages that the next two and recovery use:
what a put, an update, a mark, its removal and a drop do to the slots.

**TransactionManagerProofs**: TransactionManager implements LockSpec
(LockDiscipline), so that the results above are results about the transactions;
the assertions of the undo hold (UndoAssertionsHold), and a tuple changes only in
a step of the holder of its exclusive lock (WriterHoldsLock). `TxnInv` ties
the locks, the write set and the pages together: a record still to be applied or
undone is about a tuple its transaction has locked, no tuple is inserted or
deleted twice in it, and the tuple is there, with its mark if it was deleted.
UndoAssertionsHold is not inductive without it: the tuple that ApplyDelete finds
was marked many steps before, and only the lock has kept others from the slot.

UnlockedIsCommitted, CheckpointIsQuiescent and DirtyReadsOnlyBesideUpgrade are
proved under two hypotheses: tuples of one size (`OneTupleSize`) and clients that
stop at ABORTED (`StopOnAbort`). Without either they are false of the code
(section 4). `CommittedInv` adds that undoing what is left of the write set of a
transaction leads back to the committed content of everything it has locked: the
first record about a tuple says what it was, an insert comes first and a delete
last.

**TableHeapProofs**: HeapIsChain, ScanIsComplete and PinsAccounted. `HeapInv`
says that the pages in use are 1 .. k, each linked to the one behind it; that one
goroutine at most is between NewPage and Init, since only who finds the last page
initialised and full may grow; that what is written is locked and is there until
its own transaction drops it; and that all a scan has not yet returned is at or
behind its present record id and has been written by nobody. The last is why a
scan misses nothing: its tuples cannot be dropped under it, because a drop is
preceded by a delete, which takes them off the list of what is expected. The
account of pins is inductive on top of it (`PinsInv`): each step takes its
goroutine from one set of pinned pages to another and changes the pin counts by
the difference, or by a leak. Who goes astray on a page before its Init ends the
account, as in the run.

**LogManagerProofs**: EachRecordOnce, AckedCommitIsDurable, PageRecordsInOrder
and ThreadRecordsInOrder. `LogInv` sees the log on disk, in the flush buffer and
in the log buffer as one list, whose order `Flush` does not change; a record with
an LSN that waits to be copied is above all of its page and of its goroutine in
that list, which needs the page latch that the caller holds.

**RecoveryProofs**: RedoRepeatsHistory, for any log, any evictions and any number
of crashes, also during Redo. `RedoInv` says that the page each record left is
the page before it changed the way Redo will change it, and that the pages in
memory and on disk are the ones of that history that their LSNs name. The
hypothesis `NoPageIsNoPage` says of the model value for "no page" that it is no
page; TLC compares model values that way, the logic leaves it open.

ReversibleLosersRecover, which is atomicity across a crash: the recovery panics
nowhere and leaves in every slot what the committed transactions left, if the
property's own four reservations hold (whole log, page not ahead of the log, records
that can be taken back, no second Undo of an insert). `AtomicInv` has two halves.

* Before the crash (`Up`): the records about a slot between the first one of a
  transaction and its end are all that transaction's, since the slot is locked
  (`SlotsAreLocked`); a transaction has no record behind its end; the previous LSNs
  chain its records; a commit has applied all its deletes; and page space is either
  free or that of a slot (`Accounted`). What is still in a write set fits the page
  and the log (`Items`).
* After it (`Down`): one of the reservations is broken, and stays so (`Excused`), or
  there is a history of pages for the log that is left (`Recovering`). Then the
  records about a slot split at one place, its `Base`: those of ended transactions,
  then those of one unfinished transaction. While Redo runs the page is one of that
  history, or one that an interrupted Undo wrote, on which there is nothing to redo.
  While Undo runs, `TakenBackTo` says what a slot holds: the tuple of some page of
  the history since the Base, older than every update that is taken back, with a
  mark only if a record that marks it is still to be taken back. When all are taken
  back, that is the content at the Base, hence the committed one.

The updates of Undo need room, and its `UpdateTuple` may be refused without anybody
looking at the answer. Here `Reversible` and the account of page space come in: no
reversible update made its tuple smaller, so no slot ever grows beyond what it was
when Redo was done, and what Redo left did fit the page. A crash during Undo leads
back to Redo with a page that has nothing to redo; the updates and marks are then
taken back a second time, with the same result, and inserts are what the fourth
reservation excludes. The proof needs that the transaction of `NewTableHeap` is none
of the others (`Creator \notin Txns`, in RecoveryAssumption).

**BufferPoolManagerProofs**: UsedPageIsResident, NoLostUpdate, FramesAccounted
and PinCountCountsUsers. The invariant is `clashed \/ PoolInv`: two calls that
meet on one page in one of the ways the code has no answer to end the account, as
in the run. `PoolInv` locates every frame (in the free list, in the replacer,
behind the page table, or in the hands of one goroutine that is between its
mutex sections) and every current content (in the frame, on the way to disk, or
on disk). It rests on the replacer being Replacer's queue, which is proved too:

**StorageProofs**, the replacer: ListIsCircle, HandLeadsToHead, and ClockReplacer
implements Replacer. `ClockInv` says that the nodes met by following `next` from
the head are different, have different frames, lead back by `prev`, and that the
hand is the head or a node that has left the list and points to the head. The
list is a function of the number of steps from the head; a call changes it at one
place, and the queue of Replacer is that function's row of frames.

The page: TuplesTilePage, and TablePage implements SlotPage. `PageInv` says that
no two tuples overlap, that they cover every byte above the free space pointer,
and that each holds the bytes of one tuple from the first to the last. The heart is
one lemma about the tuple that changes its size while all below it move by the
difference: UpdateTuple, and with the new size 0 ApplyDelete. The bytes of every
other slot move exactly as far as its offset, so that what is read through a slot
stays.

The catalog: TablesHaveTheirOwnPages and ReloadIsFaithful. `PagesInv` keeps every
first page below `nextPageID`, also that of a table whose row is still to be
written. `CatalogInv` follows a table with an oid of its own: its row is written
before its columns, m of its columns are on disk and l in the buffer pool in order,
m <= l, l is where its goroutine is, and all are there on disk when the call has
returned; a page that is flushed or evicted raises m to l, a crash lowers l to m. An
oid that nobody was given has left no trace, so that a table that gets it begins
with nothing. No more oids are given out than there were calls, since each
`AddTableId` belongs to one.

The hash index: FiledOnce, MissingOnlyIfCrowdedOut and HitsAreRows, for any hash
function. HitsAreRows speaks of the hash of the row's key, since the table compares
hashes only and the code does not look at the key again. The invariant:
a slot once occupied stays so, hence a pair stays reachable in the chain it was
put into, and the chain of every row not strayed holds it or has refused it.

Induction over data is out of the prover's reach. Claims about a list, the rows of
a page or a recursive function (the walk along the replacer's list, `ColumnsOf`)
take a least counterexample (`LeastElement`) instead.

Only model-checked:

* Liveness (OperationsReturn, CheckpointProceeds, CallsReturn): fairness needs
  ENABLED, which the prover does not handle.
* Queries and ColumnValues: what the executors compute is a fold over rows.

## 6. Not modelled

* The parser (nothing executes what it returns), the plans (the parameters of
  the executors are choices in Queries), the virtual disk manager, test
  utilities.
* Encodings: tuples, schemas and types in bytes; floats and strings as values of
  their own (a Float column has integers in it); the serialised form of log records. The index packs 16 bits of page id and of
  slot number; the record ids of the model differ in them. A hash is a number
  given per key, and two keys have the same.
* Rows of more than two columns, several aggregates or group-by columns in one
  plan, and predicates that are not well-typed.
* Recovery of more than one page, so neither the chain of pages
  (`SetNextPageId` is not logged, Redo of NEWPAGE takes the next page of the
  pool) nor a log longer than the read buffer; a second life of the database
  with new transactions, whose LSNs and ids start again at zero.
* In the catalog, transactions that abort, catalog tables longer than a page and
  indexes (created anew, and empty, after a restart).
* I/O errors of `WriteLog` and `WritePage`, which the code's callers ignore.
