------------------------------ MODULE Recovery ------------------------------
(***************************************************************************)
(* A crash and what recovery/log_recovery/log_recovery.go makes of it:     *)
(* Redo and Undo over the log file (recovery/log_record.go and ReadLog of  *)
(* storage/disk/disk_manager_impl.go), after transactions that write their *)
(* records as table_page.go and transaction_manager.go do, evictions by    *)
(* the buffer pool and checkpoints.                                        *)
(*                                                                         *)
(* The table is its first page.  A page is the page of TableSlots and its  *)
(* LSN; "mem" is the page in the buffer pool and "disk" the page in the    *)
(* database file.  A record's LSN is its position, from 0: log[i] has the  *)
(* LSN i - 1.  What the lock manager and the log manager promise is taken  *)
(* from their own modules: a tuple is written by the one transaction that  *)
(* has it locked, and Flush writes every record appended before it, in     *)
(* order.                                                                  *)
(***************************************************************************)
EXTENDS TableSlots, Integers, FiniteSets

CONSTANTS
    Txns,
    NoTxn,          \* no transaction has the tuple locked
    NoPage,         \* the page is not in the database file
    MaxSlots,       \* bound: slots of the page
    MaxLog,         \* bound: records of one life of the database
    MaxCrashes,     \* bound: crashes, those of a recovery included
    Aborts          \* whether transactions are ever aborted

Creator == "creator"   \* the transaction of NewTableHeap

ASSUME RecoveryAssumption ==
    /\ NoTxn \notin Txns
    /\ Creator \notin Txns
    /\ MaxSlots \in Nat /\ MaxLog \in Nat /\ MaxCrashes \in Nat
    /\ Aborts \in BOOLEAN

InvalidLSN == -1

VARIABLES
    mode,           \* "up", "redo", "undo", "recovered" or "panic"
    log, durable,   \* the records appended, and how many are in the log file
    tail,           \* how the log file ends: "whole", or cut in a record
    mem, disk,
    st,             \* where each transaction is
    prev_lsn,       \* Transaction.prev_lsn
    write_set,
    owner,          \* slot -> the transaction with its exclusive lock
    blocked,        \* a checkpoint has the global transaction latch
    position,       \* the next record Redo reads
    active_txn,     \* LogRecovery.active_txn
    cursor,         \* the local lsn of Undo
    crashes,
    snapshots,      \* history: the page as log[i] left it
    undone          \* history: how often Undo was started

txnVars == <<st, prev_lsn, write_set, owner, blocked>>
recVars == <<position, active_txn, cursor>>
vars    == <<mode, log, durable, tail, mem, disk, txnVars, recVars, crashes,
             snapshots, undone>>

Slots == 1 .. MaxSlots

----------------------------------------------------------------------------
(* Log records: NewLogRecordTxn, ...InsertDelete, ...Update, ...NewPage.   *)

TxnRecord(t, prev, type) == [type |-> type, txn |-> t, prev |-> prev]

SlotRecord(t, prev, type, s, v) ==
    [type |-> type, txn |-> t, prev |-> prev, slot |-> s, tuple |-> v]

\* MARKDELETE and ROLLBACKDELETE carry an empty tuple.
MarkRecord(t, prev, type, s) == [type |-> type, txn |-> t, prev |-> prev, slot |-> s]

UpdateRecord(t, prev, s, old, new) ==
    [type |-> "UPDATE", txn |-> t, prev |-> prev, slot |-> s, old |-> old, new |-> new]

\* NewTableHeap and one InsertTuple of a committed transaction: the page is in
\* the buffer pool, its records are in the log file.
Init ==
    \E v \in Tuples :
        LET filled == PutTuple(EmptyPage, v) IN
        /\ RoomToInsert(EmptyPage, v)
        /\ mode = "up"
        /\ log = <<TxnRecord(Creator, InvalidLSN, "BEGIN"),
                   TxnRecord(Creator, 0, "NEWPAGE"),
                   SlotRecord(Creator, 1, "INSERT", 1, v),
                   TxnRecord(Creator, 2, "COMMIT")>>
        /\ durable = 4
        /\ tail = "whole"
        /\ mem = [page |-> filled, lsn |-> 2]
        /\ disk = NoPage
        /\ st = [t \in Txns |-> "unborn"]
        /\ prev_lsn = [t \in Txns |-> InvalidLSN]
        /\ write_set = [t \in Txns |-> << >>]
        /\ owner = [s \in Slots |-> NoTxn]
        /\ blocked = FALSE
        /\ position = 1 /\ active_txn = << >> /\ cursor = InvalidLSN
        /\ crashes = 0
        /\ snapshots = <<EmptyPage, EmptyPage, filled, filled>>
        /\ undone = 0

----------------------------------------------------------------------------
(* The page functions with logging switched off, as recovery calls them:   *)
(* their results are not looked at.                                        *)

PageInsert(pg, v) == IF RoomToInsert(pg, v) THEN PutTuple(pg, v) ELSE pg

PageUpdate(pg, s, v) ==
    IF ~NoTuple(pg, s) /\ RoomToUpdate(pg, s, v) THEN ReplaceTuple(pg, s, v) ELSE pg

PageMark(pg, s) == IF NoTuple(pg, s) THEN pg ELSE MarkTuple(pg, s)

\* ApplyDelete asserts that the slot exists and, since an empty slot has the
\* offset zero, that it holds a tuple.
DropAllowed(pg, s) == s <= Len(pg.slots) /\ IsFull(pg.slots[s])

----------------------------------------------------------------------------
(* Transactions: the records they append and the page they leave.          *)

Content(s) == IF s <= Len(mem.page.slots) THEN mem.page.slots[s] ELSE EmptySlot

Lockable(t, s) == s \in Slots /\ owner[s] \in {NoTxn, t}

\* AppendLogRecord and txn.SetPrevLSN.
Append1(t, record) ==
    /\ mode = "up"
    /\ Len(log) < MaxLog
    /\ log' = Append(log, record)
    /\ prev_lsn' = [prev_lsn EXCEPT ![t] = Len(log)]
    /\ UNCHANGED <<mode, durable, tail, disk, blocked, recVars, crashes, undone>>

\* A record about the page: the page changes and takes the record's LSN.
Change(t, record, pg) ==
    /\ Append1(t, record)
    /\ mem' = [page |-> pg, lsn |-> Len(log)]
    /\ snapshots' = Append(snapshots, pg)

NoChange(t, record) ==
    /\ Append1(t, record)
    /\ snapshots' = Append(snapshots, mem.page)
    /\ UNCHANGED mem

Begin(t) ==
    /\ st[t] = "unborn" /\ ~blocked
    /\ NoChange(t, TxnRecord(t, prev_lsn[t], "BEGIN"))
    /\ st' = [st EXCEPT ![t] = "run"]
    /\ UNCHANGED <<write_set, owner>>

Write(t, s, wtype, v) ==
    /\ Lockable(t, s)
    /\ owner' = [owner EXCEPT ![s] = t]
    /\ write_set' = [write_set EXCEPT ![t] = Append(@, [slot |-> s, wtype |-> wtype, tuple |-> v])]
    /\ UNCHANGED st

Insert(t, v) ==
    LET s == InsertSlot(mem.page) IN
    /\ st[t] = "run"
    /\ RoomToInsert(mem.page, v)
    /\ Write(t, s, "INSERT", v)
    /\ Change(t, SlotRecord(t, prev_lsn[t], "INSERT", s, v), PutTuple(mem.page, v))

MarkDelete(t, s) ==
    /\ st[t] = "run"
    /\ ~NoTuple(mem.page, s)
    /\ Write(t, s, "DELETE", Content(s).tuple)
    /\ Change(t, MarkRecord(t, prev_lsn[t], "MARKDELETE", s), MarkTuple(mem.page, s))

Update(t, s, v) ==
    /\ st[t] = "run"
    /\ ~NoTuple(mem.page, s)
    /\ RoomToUpdate(mem.page, s, v)
    /\ Write(t, s, "UPDATE", Content(s).tuple)
    /\ Change(t, UpdateRecord(t, prev_lsn[t], s, Content(s).tuple, v),
              ReplaceTuple(mem.page, s, v))

----------------------------------------------------------------------------
(* Commit and Abort.                                                       *)

EndStart(t) ==
    /\ mode = "up"
    /\ st[t] = "run"
    /\ \E goal \in {"commit"} \union (IF Aborts THEN {"abort"} ELSE {}) :
         st' = [st EXCEPT ![t] = goal]
    /\ UNCHANGED <<mode, log, durable, tail, mem, disk, prev_lsn, write_set, owner,
                   blocked, recVars, crashes, snapshots, undone>>

Item(t) == write_set[t][Len(write_set[t])]
Popped(t) == [write_set EXCEPT ![t] = SubSeq(@, 1, Len(@) - 1)]

WritesNothing == UNCHANGED <<mode, log, durable, tail, mem, disk, prev_lsn, blocked,
                             recVars, crashes, snapshots, undone>>

ApplyDelete(t, s) ==
    Change(t, SlotRecord(t, prev_lsn[t], "APPLYDELETE", s, Content(s).tuple),
           DropTuple(mem.page, s))

CommitStep(t) ==
    /\ st[t] = "commit"
    /\ write_set[t] # << >>
    /\ IF Item(t).wtype = "DELETE"
         THEN ApplyDelete(t, Item(t).slot)
         ELSE WritesNothing
    /\ write_set' = Popped(t)
    /\ UNCHANGED <<st, owner>>

\* An update back for which the page has no room any more becomes a move: the
\* mark is made here, the tuple goes to another page.  After that UpdateTuple
\* refuses the slot.
RollbackUpdate(t, s, v) ==
    IF NoTuple(mem.page, s) THEN WritesNothing
    ELSE IF RoomToUpdate(mem.page, s, v)
      THEN Change(t, UpdateRecord(t, prev_lsn[t], s, Content(s).tuple, v),
                  ReplaceTuple(mem.page, s, v))
      ELSE Change(t, MarkRecord(t, prev_lsn[t], "MARKDELETE", s), MarkTuple(mem.page, s))

AbortStep(t) ==
    /\ st[t] = "abort"
    /\ write_set[t] # << >>
    /\ LET s == Item(t).slot IN
         \/ Item(t).wtype = "INSERT" /\ ApplyDelete(t, s)
         \/ /\ Item(t).wtype = "DELETE"
            /\ Change(t, MarkRecord(t, prev_lsn[t], "ROLLBACKDELETE", s),
                      UnmarkTuple(mem.page, s))
         \/ Item(t).wtype = "UPDATE" /\ RollbackUpdate(t, s, Item(t).tuple)
    /\ write_set' = Popped(t)
    /\ UNCHANGED <<st, owner>>

Unlocked(t) == [s \in Slots |-> IF owner[s] = t THEN NoTxn ELSE owner[s]]

CommitRecord(t) ==
    /\ st[t] = "commit"
    /\ write_set[t] = << >>
    /\ NoChange(t, TxnRecord(t, prev_lsn[t], "COMMIT"))
    /\ st' = [st EXCEPT ![t] = "flush"]
    /\ UNCHANGED <<write_set, owner>>

\* Commit's Flush of the log, then releaseLocks.
CommitFlush(t) ==
    /\ mode = "up"
    /\ st[t] = "flush"
    /\ durable' = Len(log)
    /\ st' = [st EXCEPT ![t] = "done"]
    /\ owner' = Unlocked(t)
    /\ UNCHANGED <<mode, log, tail, mem, disk, prev_lsn, write_set, blocked, recVars,
                   crashes, snapshots, undone>>

\* Abort does not flush the log.
AbortRecord(t) ==
    /\ st[t] = "abort"
    /\ write_set[t] = << >>
    /\ NoChange(t, TxnRecord(t, prev_lsn[t], "ABORT"))
    /\ st' = [st EXCEPT ![t] = "done"]
    /\ owner' = Unlocked(t)
    /\ UNCHANGED write_set

----------------------------------------------------------------------------
(* The log and the page reach the disk.                                    *)

\* FetchPage and NewPage evict a dirty page: the log first, then the page.
EvictPage ==
    /\ mode \in {"up", "redo", "undo"}
    /\ mem # disk
    /\ disk' = mem
    /\ durable' = Len(log)
    /\ UNCHANGED <<mode, log, tail, mem, txnVars, recVars, crashes, snapshots, undone>>

\* BeginCheckpoint: no transaction is open, the pages first, then the log.
CheckpointPages ==
    /\ mode = "up" /\ ~blocked
    /\ \A t \in Txns : st[t] \in {"unborn", "done"}
    /\ blocked' = TRUE
    /\ disk' = mem
    /\ UNCHANGED <<mode, log, durable, tail, mem, st, prev_lsn, write_set, owner,
                   recVars, crashes, snapshots, undone>>

CheckpointLog ==
    /\ mode = "up" /\ blocked
    /\ durable' = Len(log)
    /\ blocked' = FALSE
    /\ UNCHANGED <<mode, log, tail, mem, disk, st, prev_lsn, write_set, owner,
                   recVars, crashes, snapshots, undone>>

----------------------------------------------------------------------------
(* The crash, and the start of a recovery on what the files hold.          *)

\* A crash in WriteLog leaves a part of what it was to write.  A flush for
\* somebody else, finished or not, is one of the choices of n in Crash.
Tails(n) == IF n < Len(log) THEN {"whole", "cut"} ELSE {"whole"}

Crash ==
    /\ mode # "panic"
    /\ crashes < MaxCrashes
    /\ crashes' = crashes + 1
    /\ \E n \in durable .. Len(log) :
         /\ log' = SubSeq(log, 1, n)
         /\ snapshots' = IF undone > 0 THEN << >>
                         ELSE SubSeq(snapshots, 1, IF disk # NoPage /\ disk.lsn >= n
                                                     THEN disk.lsn + 1 ELSE n)
         /\ durable' = n
         /\ tail' \in IF mode = "up" THEN Tails(n) ELSE {tail}
    /\ mode' = "redo"
    /\ mem' = disk
    /\ position' = 1 /\ active_txn' = << >> /\ cursor' = InvalidLSN
    /\ st' = [t \in Txns |-> "unborn"]
    /\ prev_lsn' = [t \in Txns |-> InvalidLSN]
    /\ write_set' = [t \in Txns |-> << >>]
    /\ owner' = [s \in Slots |-> NoTxn]
    /\ blocked' = FALSE
    /\ UNCHANGED <<disk, undone>>

----------------------------------------------------------------------------
(* Redo: one step per record.                                              *)

\* The page after a record is applied to it again.
Redone(pg, r) ==
    CASE r.type = "INSERT"         -> PageInsert(pg, r.tuple)
      [] r.type = "APPLYDELETE"    -> DropTuple(pg, r.slot)
      [] r.type = "MARKDELETE"     -> PageMark(pg, r.slot)
      [] r.type = "ROLLBACKDELETE" -> UnmarkTuple(pg, r.slot)
      [] r.type = "UPDATE"         -> PageUpdate(pg, r.slot, r.new)

AboutThePage(r) == r.type \in {"INSERT", "APPLYDELETE", "MARKDELETE", "ROLLBACKDELETE", "UPDATE"}

\* Comparing with the wrong side included.
NotYetAppliedOrEqual(i) == mem.lsn <= i - 1

NotYetApplied(i) == mem.lsn < i - 1

\* A COMMIT that leaves its transaction in active_txn.
NotedKeepingCommitted(r, i) ==
    [t \in DOMAIN active_txn \union {r.txn} |-> IF t = r.txn THEN i - 1 ELSE active_txn[t]]

\* active_txn holds the last LSN of each transaction, until its COMMIT.  ABORT
\* is a record like any other.
Noted(r, i) ==
    IF r.type = "COMMIT"
      THEN [t \in DOMAIN active_txn \ {r.txn} |-> active_txn[t]]
      ELSE [t \in DOMAIN active_txn \union {r.txn} |->
              IF t = r.txn THEN i - 1 ELSE active_txn[t]]

Panic ==
    /\ mode' = "panic"
    /\ UNCHANGED <<log, durable, tail, mem, disk, txnVars, recVars, crashes, snapshots, undone>>

RedoRecord ==
    /\ mode = "redo"
    /\ position <= Len(log)
    /\ LET r == log[position] IN
         IF r.type = "APPLYDELETE" /\ NotYetApplied(position)
              /\ ~DropAllowed(mem.page, r.slot)
           THEN Panic
           ELSE /\ mem' =
                     IF AboutThePage(r) /\ NotYetApplied(position)
                       THEN [page |-> Redone(mem.page, r), lsn |-> position - 1]
                     ELSE IF r.type = "NEWPAGE" /\ mem = NoPage
                       THEN [page |-> EmptyPage, lsn |-> 0]   \* the first page of the file
                     ELSE mem                      \* else NewPage makes a page of no table
                /\ active_txn' = Noted(r, position)
                /\ position' = position + 1
                /\ UNCHANGED <<mode, log, durable, tail, disk, txnVars, cursor, crashes,
                               snapshots, undone>>

\* ReadLog says that the file has ended.  A record that was cut is taken for
\* whole if its header is, and the slice of the buffer behind it panics; else
\* it is read again and again, and there is no step to the end of Redo.
RedoEnd ==
    /\ mode = "redo"
    /\ position > Len(log)
    /\ \/ /\ tail = "whole"
          /\ mode' = "undo"
          /\ undone' = undone + 1
          /\ snapshots' = << >>                    \* Undo gives the page a new history
          /\ UNCHANGED <<log, durable, tail, mem, disk, txnVars, recVars, crashes>>
       \/ tail = "cut" /\ Panic

----------------------------------------------------------------------------
(* Undo: the chain of each transaction still in active_txn, in any order.  *)

UndoNextTxn ==
    /\ mode = "undo"
    /\ cursor = InvalidLSN
    /\ \E t \in DOMAIN active_txn :
         /\ cursor' = active_txn[t]
         /\ active_txn' = [u \in DOMAIN active_txn \ {t} |-> active_txn[u]]
    /\ UNCHANGED <<mode, log, durable, tail, mem, disk, txnVars, position, crashes,
                   snapshots, undone>>

\* The page after a record is taken back; its LSN stays.
TakenBack(pg, r) ==
    CASE r.type = "INSERT"         -> DropTuple(pg, r.slot)
      [] r.type = "APPLYDELETE"    -> PageInsert(pg, r.tuple)
      [] r.type = "MARKDELETE"     -> UnmarkTuple(pg, r.slot)
      [] r.type = "ROLLBACKDELETE" -> PageMark(pg, r.slot)
      [] r.type = "UPDATE"         -> PageUpdate(pg, r.slot, r.old)

UndoRecord ==
    /\ mode = "undo"
    /\ cursor # InvalidLSN
    /\ LET r == log[cursor + 1] IN
         IF r.type = "INSERT" /\ ~DropAllowed(mem.page, r.slot)
           THEN Panic
           ELSE /\ mem' = IF AboutThePage(r)
                            THEN [mem EXCEPT !.page = TakenBack(@, r)] ELSE mem
                /\ cursor' = r.prev
                /\ UNCHANGED <<mode, log, durable, tail, disk, txnVars, position,
                               active_txn, crashes, snapshots, undone>>

\* FlushAllPages.
UndoEnd ==
    /\ mode = "undo"
    /\ cursor = InvalidLSN
    /\ DOMAIN active_txn = {}
    /\ disk' = mem
    /\ mode' = "recovered"
    /\ UNCHANGED <<log, durable, tail, mem, txnVars, recVars, crashes, snapshots, undone>>

----------------------------------------------------------------------------

Transactions ==
    \E t \in Txns :
        \/ Begin(t)
        \/ EndStart(t) \/ CommitStep(t) \/ AbortStep(t)
        \/ CommitRecord(t) \/ CommitFlush(t) \/ AbortRecord(t)
        \/ \E v \in Tuples : Insert(t, v)
        \/ \E s \in Slots : MarkDelete(t, s) \/ \E v \in Tuples : Update(t, s, v)

Recover == RedoRecord \/ RedoEnd \/ UndoNextTxn \/ UndoRecord \/ UndoEnd

Next ==
    \/ Transactions
    \/ EvictPage \/ CheckpointPages \/ CheckpointLog
    \/ Crash
    \/ Recover

Spec == Init /\ [][Next]_vars

----------------------------------------------------------------------------
(* Properties.                                                             *)

Records == DOMAIN log

Winners == {log[i].txn : i \in {j \in Records : log[j].type = "COMMIT"}}

LoserRecords == {i \in Records : log[i].txn \notin Winners}

\* What the committed transactions of the log made of a slot: the last of
\* their records about it.  They never end with a delete mark.
CommittedContent(s) ==
    LET about == {i \in Records \ LoserRecords : AboutThePage(log[i]) /\ log[i].slot = s}
        last  == log[CHOOSE i \in about : \A j \in about : j <= i]
    IN IF about = {} THEN EmptySlot
       ELSE CASE last.type = "INSERT" -> LiveSlot(last.tuple)
              [] last.type = "UPDATE" -> LiveSlot(last.new)
              [] OTHER -> EmptySlot

\* Redo repeats history, also when it was interrupted and when the page on
\* disk is newer than a part of the log: with every LSN the page has exactly
\* the content it had in the life before, and at the end of the log no record
\* is missing.  LogRecovery.Redo compares LSNs for that, and InsertTuple is
\* not told the slot of the record it repeats.
RedoRepeatsHistory ==
    mode = "redo" /\ undone = 0 /\ mem # NoPage =>
        /\ mem.page = snapshots[mem.lsn + 1]
        /\ position > Len(log) =>
             \A i \in Records : AboutThePage(log[i]) => mem.lsn >= i - 1

\* The records Undo can take back exactly.  Not: a deletion that was applied
\* (the tuple is inserted into the first free slot, whichever that is), an
\* update to a smaller tuple (the space may be gone), and whatever an aborted
\* transaction wrote (its locks were released long ago).
Reversible(i) ==
    /\ log[i].type \notin {"APPLYDELETE", "ABORT"}
    /\ log[i].type = "UPDATE" => TupleSize[log[i].new] >= TupleSize[log[i].old]

\* Recovery is atomicity across a crash: when the unfinished transactions left
\* only records that can be taken back, Redo and Undo reach their end and the
\* table holds what the committed transactions left, slot by slot; also when
\* Undo is interrupted and starts again, unless it had an insert to undo.
ReversibleLosersRecover ==
    /\ tail = "whole"
    /\ mem # NoPage => mem.lsn < Len(log)
    /\ \A i \in LoserRecords : Reversible(i)
    /\ undone > 1 => \A i \in LoserRecords : log[i].type # "INSERT"
    => /\ mode # "panic"
       /\ mode = "recovered" => \A s \in Slots : Content(s) = CommittedContent(s)

\* The same without the reservations, as README.md ("Recovery from Logs") and
\* TestUndo ("Check deleted tuple exists") have it: after an uninterrupted
\* recovery the table holds what the committed transactions left.
RecoveryRestoresCommitted ==
    mode = "recovered" /\ crashes = 1 =>
        \A s \in Slots : Content(s) = CommittedContent(s)
============================================================================
