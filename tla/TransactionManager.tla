------------------------- MODULE TransactionManager -------------------------
(***************************************************************************)
(* Transactions over one table heap: storage/access/transaction_manager.go *)
(* (Begin, Commit, Abort, the global transaction latch), the operations of *)
(* table_heap.go and the locking rules of table_page.go that feed the      *)
(* write set, and concurrency/checkpoint_manager.go.  Logging is enabled,  *)
(* as it must be for the code to take locks.                               *)
(*                                                                         *)
(* A step is what runs under one page latch: the page functions hold the   *)
(* page's WLatch (RLatch for reads) from the first check to the last write *)
(* and call the lock manager inside it.  Operations of the heap that take  *)
(* a latch several times are several steps: GetTuple locks before it       *)
(* latches, InsertTuple walks the page chain, UpdateTuple may delete and   *)
(* insert elsewhere, and Commit and Abort take one latch per write record. *)
(*                                                                         *)
(* "ops" is a bound: the clients together make at most MaxOps calls.       *)
(* RIDs bounds the pages and the slots that can come into being.           *)
(***************************************************************************)
EXTENDS LockManager, TableSlots

CONSTANTS
    MaxOps,         \* calls of all clients together
    StopOnAbort     \* the client calls nothing but Abort for an ABORTED transaction

ASSUME TransactionAssumption ==
    /\ MaxOps \in Nat
    /\ StopOnAbort \in BOOLEAN
    /\ RIDs \subseteq (Nat \ {0}) \X (Nat \ {0})
    /\ <<1, 1>> \in RIDs

VARIABLES
    pages,          \* the chain of table pages, first page first
    state,          \* Transaction.state
    write_set,      \* Transaction.write_set
    undo,           \* the local write_set of Commit and Abort
    pc, call,       \* where a transaction's goroutine is, and its registers
    ops,            \* calls made so far
    latch,          \* global_txn_latch as the checkpointer sees it
    committed       \* history: the content the last commit gave each slot

txnVars == <<pages, state, write_set, undo, pc, call, ops, latch, committed>>
vars    == <<lockVars, txnVars>>

\* What an operation in progress remembers: who called it, the tuple it is
\* about to store, the RID it is about, the old tuple of an update, the page
\* InsertTuple has reached.
NoCall == [caller |-> "client"]

Content(r) ==
    IF r[1] <= Len(pages) /\ r[2] <= Len(pages[r[1]].slots)
      THEN pages[r[1]].slots[r[2]] ELSE EmptySlot

\* RIDs a scan or an insert has handed out.
KnownRIDs == {r \in RIDs : r[1] <= Len(pages) /\ r[2] <= Len(pages[r[1]].slots)}

\* A page and what one more committed insert makes of it.
WithOneMore(pg) == {pg} \union {PutTuple(pg, v) : v \in {w \in Tuples : RoomToInsert(pg, w)}}

\* The first page after at most two committed inserts.
CommittedPages == UNION {WithOneMore(pg) : pg \in WithOneMore(EmptyPage)}

Init ==
    /\ LockInit
    /\ \E pg \in CommittedPages : pages = <<pg>>
    /\ state = [t \in TxnIDs |-> "GROWING"]
    /\ write_set = [t \in TxnIDs |-> << >>]
    /\ undo = [t \in TxnIDs |-> << >>]
    /\ pc = [t \in TxnIDs |-> "unborn"]
    /\ call = [t \in TxnIDs |-> NoCall]
    /\ ops = 0
    /\ latch = "free"
    /\ committed = [r \in RIDs |-> Content(r)]

----------------------------------------------------------------------------
(* Begin, and what every operation has in common.                          *)

\* Begin takes global_txn_latch in shared mode.  sync.RWMutex lets no reader
\* in while a writer waits.
Begin(t) ==
    /\ pc[t] = "unborn"
    /\ latch = "free"
    /\ pc' = [pc EXCEPT ![t] = "run"]
    /\ UNCHANGED <<lockVars, pages, state, write_set, undo, call, ops, latch, committed>>

\* The client of t may call an operation of the table heap, or Commit.
Running(t) == pc[t] = "run" /\ (state[t] = "ABORTED" => ~StopOnAbort)

ClientCall(t) ==
    /\ Running(t)
    /\ ops < MaxOps
    /\ ops' = ops + 1

Abandon(t) == state' = [state EXCEPT ![t] = "ABORTED"]

GoTo(t, label, registers) ==
    /\ pc' = [pc EXCEPT ![t] = label]
    /\ call' = [call EXCEPT ![t] = registers]

\* Where an operation called by caller returns to.
Return(t, caller) ==
    GoTo(t, IF caller = "rollback" THEN "abort" ELSE "run", NoCall)

AddIntoWriteSet(t, records) == write_set' = [write_set EXCEPT ![t] = @ \o records]

\* LockForWrite as it is while logging is off: no lock at all.
LockForWriteSkipped(t, r, granted) == granted = TRUE /\ UNCHANGED lockVars

\* The lock UpdateTuple and MarkDelete ask for: an upgrade of a shared lock,
\* nothing when the exclusive lock is there already, else the exclusive lock.
LockForWrite(t, r, granted) ==
    \/ IsSharedLocked(t, r) /\ LockUpgrade(t, r, granted)
    \/ /\ ~IsSharedLocked(t, r)
       /\ IsExclusiveLocked(t, r)
       /\ granted = TRUE
       /\ UNCHANGED lockVars
    \/ /\ ~IsSharedLocked(t, r)
       /\ ~IsExclusiveLocked(t, r)
       /\ LockExclusive(t, r, granted)

----------------------------------------------------------------------------
(* TableHeap.GetTuple: the shared lock first, then the page.               *)

GetTupleLock(t, r) ==
    /\ ClientCall(t)
    /\ \E granted \in BOOLEAN :
        /\ IF IsSharedLocked(t, r) \/ IsExclusiveLocked(t, r)
             THEN granted = TRUE /\ UNCHANGED lockVars
             ELSE LockShared(t, r, granted)
        /\ IF granted
             THEN /\ GoTo(t, "read", [caller |-> "client", rid |-> r])
                  /\ UNCHANGED state
             ELSE Abandon(t) /\ UNCHANGED <<pc, call>>
    /\ UNCHANGED <<pages, write_set, undo, latch, committed>>

\* TablePage.GetTuple under the page latch.  The lock is already held.
GetTupleRead(t) ==
    /\ pc[t] = "read"
    /\ IF IsDeleted(Content(call[t].rid)) THEN Abandon(t) ELSE UNCHANGED state
    /\ Return(t, "client")
    /\ UNCHANGED <<lockVars, pages, write_set, undo, ops, latch, committed>>

----------------------------------------------------------------------------
(* TableHeap.InsertTuple: try page after page, append a page at the end.   *)

InsertTuple(t, v) ==
    /\ ClientCall(t)
    /\ GoTo(t, "insert", [caller |-> "client", tuple |-> v, page |-> 1])
    /\ UNCHANGED <<lockVars, pages, state, write_set, undo, latch, committed>>

\* The UPDATE record TableHeap.UpdateTuple adds after it moved a tuple.
MovedRecord(t) ==
    IF call[t].caller = "update" /\ state[t] # "ABORTED"
      THEN <<[rid |-> call[t].rid, wtype |-> "UPDATE", tuple |-> call[t].old]>>
      ELSE << >>

\* The page has room: lock the slot, store the tuple, return to the caller.
\* A refused lock makes the transaction ABORTED, whoever called.
InsertHere(t) ==
    /\ pc[t] = "insert"
    /\ LET p == call[t].page
           v == call[t].tuple
           r == <<p, InsertSlot(pages[p])>>
       IN /\ RoomToInsert(pages[p], v)
          /\ r \in RIDs
          /\ \E granted \in BOOLEAN :
               /\ LockExclusive(t, r, granted)
               /\ IF granted
                    THEN /\ pages' = [pages EXCEPT ![p] = PutTuple(@, v)]
                         /\ AddIntoWriteSet(t, <<[rid |-> r, wtype |-> "INSERT"]>>
                                               \o MovedRecord(t))
                         /\ UNCHANGED state
                    ELSE Abandon(t) /\ UNCHANGED <<pages, write_set>>
          /\ Return(t, call[t].caller)
    /\ UNCHANGED <<undo, ops, latch, committed>>

\* ErrNotEnoughSpace: go on with the next page, appending it if need be.
InsertNextPage(t) ==
    /\ pc[t] = "insert"
    /\ LET p == call[t].page
       IN /\ ~RoomToInsert(pages[p], call[t].tuple)
          /\ IF p < Len(pages)
               THEN UNCHANGED pages
               ELSE <<p + 1, 1>> \in RIDs /\ pages' = Append(pages, EmptyPage)
          /\ call' = [call EXCEPT ![t].page = p + 1]
    /\ UNCHANGED <<lockVars, state, write_set, undo, pc, ops, latch, committed>>

----------------------------------------------------------------------------
(* TableHeap.MarkDelete and UpdateTuple.                                   *)

\* TablePage.MarkDelete and the write record of TableHeap.MarkDelete; done
\* says whether the tuple was marked.
MarkDeleteOn(t, r, done) ==
    \/ /\ IsDeleted(Content(r))
       /\ done = FALSE
       /\ Abandon(t)
       /\ UNCHANGED <<lockVars, pages, write_set>>
    \/ /\ ~IsDeleted(Content(r))
       /\ LockForWrite(t, r, done)
       /\ IF done
            THEN /\ pages' = [pages EXCEPT ![r[1]] = MarkTuple(@, r[2])]
                 /\ AddIntoWriteSet(t, <<[rid |-> r, wtype |-> "DELETE"]>>)
                 /\ UNCHANGED state
            ELSE Abandon(t) /\ UNCHANGED <<pages, write_set>>

MarkDelete(t, r) ==
    /\ ClientCall(t)
    /\ \E done \in BOOLEAN : MarkDeleteOn(t, r, done)
    /\ UNCHANGED <<undo, pc, call, latch, committed>>

\* An update that is never put on the write set.
OldTupleForgotten(t, r) == << >>

\* The write record of an update in place.  TableHeap.UpdateTuple adds none
\* once the transaction is ABORTED, so that a rollback records nothing.
OldTupleRecord(t, r) ==
    IF state[t] = "ABORTED" THEN << >>
    ELSE <<[rid |-> r, wtype |-> "UPDATE", tuple |-> Content(r).tuple]>>

\* TablePage.UpdateTuple and the write record of TableHeap.UpdateTuple.
UpdateInPlace(t, r, v, caller) ==
    /\ ~IsDeleted(Content(r))
    /\ RoomToUpdate(pages[r[1]], r[2], v)
    /\ \E granted \in BOOLEAN :
         /\ LockForWrite(t, r, granted)
         /\ IF granted
              THEN /\ pages' = [pages EXCEPT ![r[1]] = ReplaceTuple(@, r[2], v)]
                   /\ AddIntoWriteSet(t, OldTupleRecord(t, r))
                   /\ UNCHANGED state
              ELSE Abandon(t) /\ UNCHANGED <<pages, write_set>>
    /\ Return(t, caller)

UpdateRefused(t, r, caller) ==
    /\ IsDeleted(Content(r))
    /\ Abandon(t)
    /\ Return(t, caller)
    /\ UNCHANGED <<lockVars, pages, write_set>>

\* ErrNotEnoughSpace, found before any lock is asked for.
UpdateMoves(t, r, v, caller) ==
    /\ ~IsDeleted(Content(r))
    /\ ~RoomToUpdate(pages[r[1]], r[2], v)
    /\ GoTo(t, "move", [caller |-> caller, rid |-> r, tuple |-> v,
                        old |-> Content(r).tuple])
    /\ UNCHANGED <<lockVars, pages, write_set, state>>

UpdateTuple(t, r, v, caller) ==
    \/ UpdateInPlace(t, r, v, caller)
    \/ UpdateRefused(t, r, caller)
    \/ UpdateMoves(t, r, v, caller)

Update(t, r, v) ==
    /\ ClientCall(t)
    /\ UpdateTuple(t, r, v, "update")
    /\ UNCHANGED <<undo, latch, committed>>

\* The move: mark the tuple where it is, then insert it elsewhere.
MoveDelete(t) ==
    /\ pc[t] = "move"
    /\ \E done \in BOOLEAN :
         /\ MarkDeleteOn(t, call[t].rid, done)
         /\ IF done
              THEN GoTo(t, "insert", [caller |-> call[t].caller, rid |-> call[t].rid,
                                      old |-> call[t].old, tuple |-> call[t].tuple,
                                      page |-> 1])
              ELSE Return(t, call[t].caller)
    /\ UNCHANGED <<undo, ops, latch, committed>>

----------------------------------------------------------------------------
(* Commit: apply the deletes, last write first, then release.              *)

Last(s) == s[Len(s)]

\* A loop that forgets write_set = write_set[:len-1].
PopNothing(s) == s

Pop(s) == SubSeq(s, 1, Len(s) - 1)

\* TablePage.ApplyDelete.  Its guard is the code's assertions: without them
\* the process panics, see UndoAssertionsHold.
ApplyDelete(t, r) ==
    /\ IsExclusiveLocked(t, r)
    /\ IsFull(Content(r))
    /\ pages' = [pages EXCEPT ![r[1]] = DropTuple(@, r[2])]

RollbackDelete(t, r) ==
    /\ IsExclusiveLocked(t, r)
    /\ pages' = [pages EXCEPT ![r[1]] = UnmarkTuple(@, r[2])]

\* Commit does not look at the state: whether an ABORTED transaction can be
\* committed is up to the client.
CommitStart(t) ==
    /\ Running(t)
    /\ state' = [state EXCEPT ![t] = "COMMITTED"]
    /\ undo' = [undo EXCEPT ![t] = write_set[t]]
    /\ pc' = [pc EXCEPT ![t] = "commit"]
    /\ UNCHANGED <<lockVars, pages, write_set, call, ops, latch, committed>>

CommitStep(t) ==
    /\ pc[t] = "commit"
    /\ undo[t] # << >>
    /\ IF Last(undo[t]).wtype = "DELETE"
         THEN ApplyDelete(t, Last(undo[t]).rid)
         ELSE UNCHANGED pages
    /\ undo' = [undo EXCEPT ![t] = Pop(@)]
    /\ UNCHANGED <<lockVars, state, write_set, pc, call, ops, latch, committed>>

\* Abort: undo the writes, last write first.
AbortStart(t) ==
    /\ pc[t] = "run"
    /\ Abandon(t)
    /\ undo' = [undo EXCEPT ![t] = write_set[t]]
    /\ pc' = [pc EXCEPT ![t] = "abort"]
    /\ UNCHANGED <<lockVars, pages, write_set, call, ops, latch, committed>>

AbortStep(t) ==
    /\ pc[t] = "abort"
    /\ undo[t] # << >>
    /\ LET item == Last(undo[t]) IN
         \/ /\ item.wtype = "DELETE"
            /\ RollbackDelete(t, item.rid)
            /\ UNCHANGED <<lockVars, state, write_set, pc, call>>
         \/ /\ item.wtype = "INSERT"
            /\ ApplyDelete(t, item.rid)
            /\ UNCHANGED <<lockVars, state, write_set, pc, call>>
         \/ /\ item.wtype = "UPDATE"
            /\ UpdateTuple(t, item.rid, item.tuple, "rollback")
    /\ undo' = [undo EXCEPT ![t] = Pop(@)]
    /\ UNCHANGED <<ops, latch, committed>>

\* The loop is over: SetWriteSet stores the emptied local copy, whatever the
\* rollback appended to the transaction's own write set meanwhile, and the
\* COMMIT (flushed) or ABORT record is logged.
EndOfLoop(t) ==
    /\ pc[t] \in {"commit", "abort"}
    /\ undo[t] = << >>
    /\ write_set' = [write_set EXCEPT ![t] = << >>]
    /\ pc' = [pc EXCEPT ![t] = "release"]
    /\ UNCHANGED <<lockVars, pages, state, undo, call, ops, latch, committed>>

\* Release that unlocks the exclusive locks only.
ReleaseExclusive(t) ==
    /\ pc[t] = "release"
    /\ Unlock(t, exclusive_lock_set[t])
    /\ released' = released \union {t}
    /\ pc' = [pc EXCEPT ![t] = "done"]
    /\ UNCHANGED <<setVars, pages, state, write_set, undo, call, ops, latch, committed>>

\* releaseLocks, then RUnlock of the global latch.
Release(t) ==
    /\ pc[t] = "release"
    /\ ReleaseLocks(t)
    /\ pc' = [pc EXCEPT ![t] = "done"]
    /\ committed' =
         IF state[t] = "COMMITTED"
           THEN [r \in RIDs |-> IF r \in exclusive_lock_set[t] THEN Content(r)
                                                               ELSE committed[r]]
           ELSE committed
    /\ UNCHANGED <<pages, state, write_set, undo, call, ops, latch>>

----------------------------------------------------------------------------
(* The checkpointer: BlockAllTransactions waits for the exclusive latch.   *)

\* RUnlock before releaseLocks, and RUnlock forgotten.
HoldsLatchTooShort(t) == pc[t] \notin {"unborn", "done", "release"}
HoldsLatchForEver(t)  == pc[t] # "unborn"

HoldsLatch(t) == pc[t] \notin {"unborn", "done"}

BlockAllTransactions ==
    /\ latch = "free"
    /\ latch' = "waiting"
    /\ UNCHANGED <<lockVars, pages, state, write_set, undo, pc, call, ops, committed>>

BeginCheckpoint ==
    /\ latch = "waiting"
    /\ \A t \in TxnIDs : ~HoldsLatch(t)
    /\ latch' = "held"
    /\ UNCHANGED <<lockVars, pages, state, write_set, undo, pc, call, ops, committed>>

EndCheckpoint ==
    /\ latch = "held"
    /\ latch' = "free"
    /\ UNCHANGED <<lockVars, pages, state, write_set, undo, pc, call, ops, committed>>

----------------------------------------------------------------------------

\* Steps a goroutine takes by itself once an operation has been called.
InOperation(t) ==
    \/ GetTupleRead(t)
    \/ InsertHere(t)
    \/ InsertNextPage(t)
    \/ MoveDelete(t)
    \/ CommitStep(t)
    \/ AbortStep(t)
    \/ EndOfLoop(t)
    \/ Release(t)

Client(t) ==
    \/ Begin(t)
    \/ CommitStart(t)
    \/ AbortStart(t)
    \/ \E v \in Tuples : InsertTuple(t, v)
    \/ \E r \in KnownRIDs :
          \/ GetTupleLock(t, r)
          \/ MarkDelete(t, r)
          \/ \E v \in Tuples : Update(t, r, v)

Checkpointer == BlockAllTransactions \/ BeginCheckpoint \/ EndCheckpoint

Next == Checkpointer \/ \E t \in TxnIDs : Client(t) \/ InOperation(t)

Spec == Init /\ [][Next]_vars

\* No operation of the heap waits for another transaction, so a goroutine
\* inside one keeps going; a checkpointer blocked on a free latch gets it.
FairSpec ==
    /\ Spec
    /\ \A t \in TxnIDs : WF_vars(InOperation(t))
    /\ WF_vars(BeginCheckpoint)

----------------------------------------------------------------------------
(* Properties.                                                             *)

\* The transactions use the lock manager as it expects: every step is a lock
\* request of a transaction that has not released, its release, or none.
LockDiscipline == LockSpec

\* Atomicity: a tuple nobody has locked exclusively holds what the last
\* commit left there.  Whatever Commit, Abort and failed operations did, in
\* whatever order, no uncommitted write survives the release of its lock and
\* no committed one is undone.
UnlockedIsCommitted ==
    \A r \in RIDs : exclusive_lock_table[r] = NoTxn => Content(r) = committed[r]

\* Nobody changes a tuple without its exclusive lock: the step that changes
\* it is a step of the transaction the table then names as the holder.
WriterHoldsLock ==
    [][\A r \in RIDs : Content(r)' # Content(r) =>
         \E t \in TxnIDs :
            /\ exclusive_lock_table'[r] = t
            /\ \A u \in TxnIDs \ {t} : /\ pc'[u] = pc[u]
                                       /\ undo'[u] = undo[u]
                                       /\ write_set'[u] = write_set[u]]_vars

\* The SH_Asserts of ApplyDelete and RollbackDelete never fire, at commit nor
\* at rollback: the transaction still owns the exclusive lock of each tuple
\* it undoes, and a tuple to be dropped is still there.
UndoAssertionsHold ==
    \A t \in TxnIDs : pc[t] \in {"commit", "abort"} /\ undo[t] # << >> =>
        LET item    == Last(undo[t])
            applies == item.wtype = IF pc[t] = "commit" THEN "DELETE" ELSE "INSERT"
            reverts == item.wtype = "DELETE" /\ pc[t] = "abort"
        IN /\ applies \/ reverts => IsExclusiveLocked(t, item.rid)
           /\ applies => IsFull(Content(item.rid))

\* While the checkpoint holds the latch every tuple is committed, none is
\* marked, and no lock is held: BeginCheckpoint's "consistent checkpoint".
CheckpointIsQuiescent ==
    latch = "held" =>
        /\ \A r \in RIDs : Content(r) = committed[r]
        /\ \A r \in RIDs : exclusive_lock_table[r] = NoTxn
                           /\ shared_lock_table[r] = {}

\* How far "Strong Strict 2-Phase Locking" (README.md) holds for readers: the
\* tuple a transaction is about to read is committed, or its own, or written
\* by a transaction that upgraded a shared lock (LockUpgrade does not look at
\* the other sharers).
DirtyReadsOnlyBesideUpgrade ==
    \A t \in TxnIDs : pc[t] = "read" =>
        LET r == call[t].rid IN
        \/ exclusive_lock_table[r] = t
        \/ Content(r) = committed[r]
        \/ exclusive_lock_table[r] \in shared_lock_table[r]

\* An operation, a Commit or an Abort that was called comes to its end: no
\* transaction waits for another, and no rollback loops.
OperationsReturn ==
    \A t \in TxnIDs :
        pc[t] # "run" /\ HoldsLatch(t) ~> pc[t] = "run" \/ ~HoldsLatch(t)

\* A checkpointer that asked for the latch gets it unless some client keeps
\* its transaction open: transactions begun later cannot overtake it.
CheckpointProceeds ==
    latch = "waiting" ~> latch = "held" \/ \E t \in TxnIDs : pc[t] = "run"
============================================================================
