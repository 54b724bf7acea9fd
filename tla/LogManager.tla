----------------------------- MODULE LogManager -----------------------------
(***************************************************************************)
(* recovery/log_manager.go: AppendLogRecord and Flush, called by any       *)
(* number of goroutines, and DiskManager.WriteLog.                         *)
(*                                                                         *)
(* What happens between WLock and WUnlock of log_manager.latch is one      *)
(* step.  AppendLogRecord lets go of the latch to Flush when the record    *)
(* does not fit, and takes it again without a second look at the room;     *)
(* its first check of the room is made without the latch.  Flush writes    *)
(* to disk under wlog_mutex but not under the latch, and stores            *)
(* persistent_lsn under neither.                                           *)
(*                                                                         *)
(* A caller that logs a page change holds that page's write latch from     *)
(* before the append until after SetLSN, so at most one goroutine appends  *)
(* for a page at a time.                                                   *)
(***************************************************************************)
EXTENDS Integers, Sequences

CONSTANTS
    Threads,            \* goroutines
    Pages,              \* table pages whose changes are logged
    NoPage,             \* page of BEGIN, COMMIT and ABORT records
    NoThread,           \* wlog_mutex is free
    Sizes,              \* sizes of the log records of page operations
    HeaderSize,         \* HEADER_SIZE
    LogBufferSize,
    MaxLSN              \* bound: no record is begun from this LSN on

ASSUME LogAssumption ==
    /\ HeaderSize \in Nat \ {0}
    /\ LogBufferSize \in Nat
    /\ MaxLSN \in Nat
    /\ Sizes \subseteq HeaderSize .. LogBufferSize
    /\ NoPage \notin Pages
    /\ NoThread \notin Threads

InvalidLSN == -1

VARIABLES
    log_buffer,         \* records between 0 and offset, in buffer order
    offset,
    next_lsn,
    log_buffer_lsn,     \* LSN of the record copied last
    persistent_lsn,
    flush_buffer,       \* records a running Flush is writing
    wlog_mutex,         \* its holder
    disk,               \* the log file
    pc,                 \* where each goroutine is
    back,               \* where its Flush returns to
    rec,                \* the record it appends
    flushed,            \* Flush's local lsn
    acked,              \* LSNs of the COMMIT records whose Commit went on
    panicked            \* the process died on a slice beyond the buffer

bufVars == <<log_buffer, offset, next_lsn, log_buffer_lsn>>
vars == <<bufVars, persistent_lsn, flush_buffer, wlog_mutex, disk, pc, back, rec,
          flushed, acked, panicked>>

\* A record in the making; its lsn is InvalidLSN until it is assigned.
Record == [lsn : Nat \union {InvalidLSN}, page : Pages \union {NoPage},
           thread : Threads, size : Sizes \union {HeaderSize}, commit : BOOLEAN]

NoRecord == [lsn |-> InvalidLSN, page |-> NoPage, commit |-> FALSE]

Init ==
    /\ log_buffer = << >>
    /\ offset = 0
    /\ next_lsn = 0
    /\ log_buffer_lsn = 0
    /\ persistent_lsn = InvalidLSN
    /\ flush_buffer = << >>
    /\ wlog_mutex = NoThread
    /\ disk = << >>
    /\ pc = [th \in Threads |-> "idle"]
    /\ back = [th \in Threads |-> "idle"]
    /\ rec = [th \in Threads |-> NoRecord]
    /\ flushed = [th \in Threads |-> InvalidLSN]
    /\ acked = {}
    /\ panicked = FALSE

GoTo(th, label) == pc' = [pc EXCEPT ![th] = label] /\ UNCHANGED back

\* Call Flush and come back to label.
CallFlush(th, label) ==
    /\ pc' = [pc EXCEPT ![th] = "flush"]
    /\ back' = [back EXCEPT ![th] = label]

----------------------------------------------------------------------------
(* AppendLogRecord.                                                        *)

Latched(p) == \E th \in Threads : rec[th].page = p

BeginAppend(th, page, size, commit) ==
    /\ pc[th] = "idle"
    /\ next_lsn < MaxLSN
    /\ rec' = [rec EXCEPT ![th] = [lsn |-> InvalidLSN, page |-> page, thread |-> th,
                                   size |-> size, commit |-> commit]]
    /\ GoTo(th, "check")
    /\ UNCHANGED <<bufVars, persistent_lsn, flush_buffer, wlog_mutex, disk, flushed,
                   acked, panicked>>

\* The caller is Begin, Commit or Abort: the record is its header.
AppendTxnRecord(th, commit) == BeginAppend(th, NoPage, HeaderSize, commit)

\* AppendPageRecord of a caller that has not latched the page.
AppendUnlatched(th, page, size) == BeginAppend(th, page, size, FALSE)

\* The caller is a page operation that has write-latched its page.
AppendPageRecord(th, page, size) ==
    /\ ~Latched(page)
    /\ BeginAppend(th, page, size, FALSE)

\* Room for the header, read without the latch.
CheckHeaderRoom(th) ==
    /\ pc[th] = "check"
    /\ IF LogBufferSize - offset < HeaderSize THEN CallFlush(th, "assign")
                                              ELSE GoTo(th, "assign")
    /\ UNCHANGED <<bufVars, persistent_lsn, flush_buffer, wlog_mutex, disk, rec,
                   flushed, acked, panicked>>

\* The record goes to the buffer at offset; log_buffer_lsn becomes its LSN.
\* Beyond the end of the buffer the copy, or the next use of offset, panics.
CopyRecord(th, record) ==
    /\ log_buffer_lsn' = record.lsn
    /\ offset' = offset + record.size
    /\ log_buffer' = Append(log_buffer, record)
    /\ panicked' = (offset + record.size > LogBufferSize)
    /\ IF record.commit
         THEN rec' = [rec EXCEPT ![th] = record] /\ CallFlush(th, "idle")
         ELSE rec' = [rec EXCEPT ![th] = NoRecord] /\ GoTo(th, "idle")

\* WLock, take the LSN, write the header, and the body if the record fits.
AssignLSN(th) ==
    /\ pc[th] = "assign"
    /\ next_lsn' = next_lsn + 1
    /\ LET record == [rec[th] EXCEPT !.lsn = next_lsn] IN
         IF LogBufferSize - offset < record.size
           THEN /\ rec' = [rec EXCEPT ![th] = record]
                /\ CallFlush(th, "copy")
                /\ UNCHANGED <<log_buffer, offset, log_buffer_lsn, panicked>>
           ELSE CopyRecord(th, record)
    /\ UNCHANGED <<persistent_lsn, flush_buffer, wlog_mutex, disk, flushed, acked>>

\* WLock again after the Flush; the room is not checked again.
CopyAfterFlush(th) ==
    /\ pc[th] = "copy"
    /\ CopyRecord(th, rec[th])
    /\ UNCHANGED <<next_lsn, persistent_lsn, flush_buffer, wlog_mutex, disk, flushed,
                   acked>>

----------------------------------------------------------------------------
(* Flush.  AppendLogRecord calls it before it assigns the LSN or between   *)
(* assignment and copy, Commit after its record, the buffer pool before it *)
(* writes a dirty page, and the checkpointer.                              *)

FlushCall(th) ==
    /\ pc[th] = "idle"
    /\ CallFlush(th, "idle")
    /\ UNCHANGED <<bufVars, persistent_lsn, flush_buffer, wlog_mutex, disk, rec,
                   flushed, acked, panicked>>

\* A swap that does not wait for the Flush that is writing.
SwapWithoutMutex(th) ==
    /\ pc[th] = "flush"
    /\ wlog_mutex' = th
    /\ flush_buffer' = log_buffer
    /\ log_buffer' = << >>
    /\ offset' = 0
    /\ flushed' = [flushed EXCEPT ![th] = log_buffer_lsn]
    /\ GoTo(th, "write")
    /\ UNCHANGED <<next_lsn, log_buffer_lsn, persistent_lsn, disk, rec, acked, panicked>>

\* wlog_mutex.Lock, then the swap under the latch.
SwapBuffers(th) ==
    /\ pc[th] = "flush"
    /\ wlog_mutex = NoThread
    /\ wlog_mutex' = th
    /\ flush_buffer' = log_buffer
    /\ log_buffer' = << >>
    /\ offset' = 0
    /\ flushed' = [flushed EXCEPT ![th] = log_buffer_lsn]
    /\ GoTo(th, "write")
    /\ UNCHANGED <<next_lsn, log_buffer_lsn, persistent_lsn, disk, rec, acked, panicked>>

\* WriteLog that forgets to unlock wlog_mutex.
WriteLogKeepingMutex(th) ==
    /\ pc[th] = "write"
    /\ disk' = disk \o flush_buffer
    /\ flush_buffer' = << >>
    /\ GoTo(th, "store")
    /\ UNCHANGED <<bufVars, persistent_lsn, wlog_mutex, rec, flushed, acked, panicked>>

\* WriteLog into the file from its start.
WriteLogInFront(th) ==
    /\ pc[th] = "write"
    /\ disk' = flush_buffer \o disk
    /\ flush_buffer' = << >>
    /\ wlog_mutex' = NoThread
    /\ GoTo(th, "store")
    /\ UNCHANGED <<bufVars, persistent_lsn, rec, flushed, acked, panicked>>

\* DiskManager.WriteLog appends and syncs; then wlog_mutex.Unlock.
WriteLog(th) ==
    /\ pc[th] = "write"
    /\ disk' = disk \o flush_buffer
    /\ flush_buffer' = << >>
    /\ wlog_mutex' = NoThread
    /\ GoTo(th, "store")
    /\ UNCHANGED <<bufVars, persistent_lsn, rec, flushed, acked, panicked>>

\* persistent_lsn = lsn, and back to the caller; Commit goes on from here.
StorePersistentLSN(th) ==
    /\ pc[th] = "store"
    /\ persistent_lsn' = flushed[th]
    /\ flushed' = [flushed EXCEPT ![th] = InvalidLSN]
    /\ GoTo(th, back[th])
    /\ IF back[th] = "idle" /\ rec[th].commit
         THEN /\ acked' = acked \union {rec[th].lsn}
              /\ rec' = [rec EXCEPT ![th] = NoRecord]
         ELSE UNCHANGED <<acked, rec>>
    /\ UNCHANGED <<bufVars, flush_buffer, wlog_mutex, disk, panicked>>

----------------------------------------------------------------------------

Step(th) ==
    \/ CheckHeaderRoom(th)
    \/ AssignLSN(th)
    \/ CopyAfterFlush(th)
    \/ WriteLog(th)
    \/ StorePersistentLSN(th)

Call(th) ==
    \/ FlushCall(th)
    \/ \E commit \in BOOLEAN : AppendTxnRecord(th, commit)
    \/ \E page \in Pages, size \in Sizes : AppendPageRecord(th, page, size)

Next == ~panicked /\ \E th \in Threads : Call(th) \/ Step(th) \/ SwapBuffers(th)

Spec == Init /\ [][Next]_vars

\* A goroutine that is running keeps running.  Strong fairness of the lock:
\* sync.Mutex hands itself to a waiter it has kept waiting.
FairSpec ==
    /\ Spec
    /\ \A th \in Threads : WF_vars(~panicked /\ Step(th))
    /\ \A th \in Threads : SF_vars(~panicked /\ SwapBuffers(th))

----------------------------------------------------------------------------
(* Properties.                                                             *)

\* The log as it will be on disk once everything is flushed.
Log == disk \o flush_buffer \o log_buffer

\* An LSN was assigned and its record is still to be copied.
Pending(lsn) ==
    \E th \in Threads :
        /\ rec[th].lsn = lsn
        /\ pc[th] = "copy" \/ (pc[th] \in {"flush", "write", "store"} /\ back[th] = "copy")

\* However appends and flushes interleave with the buffer swap, every
\* assigned LSN is in the log exactly once, or still on its way into it.
EachRecordOnce ==
    /\ \A i, j \in 1 .. Len(Log) : Log[i].lsn = Log[j].lsn => i = j
    /\ \A lsn \in 0 .. next_lsn - 1 :
          (\E i \in 1 .. Len(Log) : Log[i].lsn = lsn) \/ Pending(lsn)

\* A Commit goes on only when its COMMIT record is in the log file, even if
\* it was another goroutine's Flush that took the record out of the buffer.
AckedCommitIsDurable ==
    \A lsn \in acked : \E i \in 1 .. Len(disk) : disk[i].lsn = lsn

\* The records of one page stand in the log in LSN order, though records of
\* different pages may not: Redo compares a record's LSN with the page's and
\* would skip an older record that comes later.
PageRecordsInOrder ==
    \A i, j \in 1 .. Len(Log) :
        i < j /\ Log[i].page = Log[j].page /\ Log[i].page # NoPage
            => Log[i].lsn < Log[j].lsn

\* So do the records of one goroutine, the prev_lsn chain Undo follows.
ThreadRecordsInOrder ==
    \A i, j \in 1 .. Len(Log) :
        i < j /\ Log[i].thread = Log[j].thread => Log[i].lsn < Log[j].lsn

\* Every append and every Flush returns, unless the process dies.
CallsReturn == \A th \in Threads : pc[th] # "idle" ~> pc[th] = "idle" \/ panicked
============================================================================
