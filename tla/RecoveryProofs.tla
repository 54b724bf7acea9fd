--------------------------- MODULE RecoveryProofs ---------------------------
(***************************************************************************)
(* Redo repeats history, and Undo takes back what the unfinished           *)
(* transactions did and nothing else, proved of Recovery for any           *)
(* transactions, tuples, number of records and number of crashes.          *)
(*                                                                         *)
(* Redo (RedoInv): the page each record left behind is the page before it, *)
(* changed the way Redo will change it; the page in memory and the page on *)
(* disk are two pages of that history, the ones their LSNs name.  Redo may *)
(* be cut off and begin again from a page that is newer than a part of the *)
(* log.                                                                    *)
(*                                                                         *)
(* Undo (AtomicInv): while the database runs, its locks order the records  *)
(* of every slot and its previous LSNs chain the records of every          *)
(* transaction (Up, LogFacts).  After the crash the slots of the page      *)
(* differ from what the commits left by the records that Undo has still to *)
(* take back, the last one first (Recovering), unless the recovery is one  *)
(* of those the code has no answer to (Excused).                           *)
(***************************************************************************)
EXTENDS Recovery, TableSlotsProofs, SequenceTheorems

IsSeq(s) == s \in Seq({s[i] : i \in 1 .. Len(s)})

\* The page is the one that the record with its LSN left.
OfHistory(m) ==
    /\ m.lsn \in Nat
    /\ m.lsn < Len(snapshots)
    /\ m.page = snapshots[m.lsn + 1]

Followed(pg, r) == IF AboutThePage(r) THEN Redone(pg, r) ELSE pg

\* What a record does to the page is what Redo makes of it.
LogIsHistory ==
    \A i \in 2 .. Len(log) :
        snapshots[i] = Followed(snapshots[i - 1], log[i])

\* The log begins with the records that made the page.
LogBegins ==
    /\ ~AboutThePage(log[1]) /\ ~AboutThePage(log[2])
    /\ log[1].type # "NEWPAGE" /\ log[2].type = "NEWPAGE"

\* Redo has come as far as position.
Repeated ==
    /\ OfHistory(mem)
    /\ mem.lsn + 1 < position => mem.page = snapshots[position - 1]
    /\ \A i \in 1 .. Len(log) : i < position /\ AboutThePage(log[i]) => i - 1 <= mem.lsn

History ==
    /\ IsSeq(snapshots) /\ Len(snapshots) >= Len(log)
    /\ snapshots[1] = EmptyPage /\ snapshots[2] = EmptyPage
    /\ LogIsHistory
    /\ disk # NoPage => OfHistory(disk)
    /\ mode = "up" => /\ Len(snapshots) = Len(log)
                      /\ OfHistory(mem) /\ mem.page = snapshots[Len(log)]
    /\ mode = "redo" => /\ position \in 1 .. Len(log) + 1
                        /\ mem # NoPage => Repeated
                        /\ mem = NoPage => disk = NoPage /\ position <= 2

RedoInv ==
    /\ mode \in {"up", "redo", "undo", "recovered", "panic"}
    /\ undone \in Nat
    /\ mode \in {"undo", "recovered"} => undone > 0
    /\ IsSeq(log)
    /\ durable \in 4 .. Len(log)
    /\ LogBegins
    /\ undone = 0 => History

\* NoPage is not a page with an LSN.
NoPageIsNoPage == \A pg, lsn : NoPage # [page |-> pg, lsn |-> lsn]

----------------------------------------------------------------------------
(* Sequences of whatever there is.                                         *)

\* Appending.
LEMMA AppendAny ==
    ASSUME NEW s, IsSeq(s), NEW e
    PROVE  /\ IsSeq(Append(s, e))
           /\ Len(s) \in Nat /\ Len(Append(s, e)) = Len(s) + 1
           /\ Append(s, e)[Len(s) + 1] = e
           /\ \A i \in 1 .. Len(s) : Append(s, e)[i] = s[i]
<1>1. PICK S : s \in Seq(S) /\ e \in S
  <2> DEFINE T == {s[i] : i \in 1 .. Len(s)} \union {e}
  <2>1. s \in Seq(T)
    <3>1. s \in Seq({s[i] : i \in 1 .. Len(s)})
      BY DEF IsSeq
    <3> QED
      BY <3>1
  <2> QED
    BY <2>1
<1>2. PICK k : k = Append(s, e)
  OBVIOUS
<1>3. /\ k \in Seq(S) /\ Len(s) \in Nat /\ Len(k) = Len(s) + 1
      /\ k[Len(s) + 1] = e /\ \A i \in 1 .. Len(s) : k[i] = s[i]
  BY <1>1, <1>2
<1>4. IsSeq(k)
  BY <1>3 DEF IsSeq
<1> QED
  BY <1>2, <1>3, <1>4

\* Cutting off the end.
LEMMA CutAny ==
    ASSUME NEW s, IsSeq(s), NEW n \in 0 .. Len(s)
    PROVE  /\ IsSeq(SubSeq(s, 1, n))
           /\ Len(SubSeq(s, 1, n)) = n
           /\ \A i \in 1 .. n : SubSeq(s, 1, n)[i] = s[i]
<1>1. PICK S : s \in Seq(S)
  BY DEF IsSeq
<1>2. PICK k : k = SubSeq(s, 1, n)
  OBVIOUS
<1>3. k \in Seq(S) /\ Len(k) = n /\ \A i \in 1 .. n : k[i] = s[i]
  BY <1>1, <1>2
<1>4. IsSeq(k)
  BY <1>3, SMTT(30) DEF IsSeq
<1> QED
  BY <1>2, <1>3, <1>4

----------------------------------------------------------------------------
(* Steps.                                                                  *)

\* Steps that append no record: at most the log and the page are flushed.
LEMMA FlushStep ==
    ASSUME RedoInv, UNCHANGED <<mode, log, mem, snapshots, undone, position>>,
           durable' \in {durable, Len(log)},
           disk' = disk \/ (disk' = mem /\ mem # disk /\ mode # "panic")
    PROVE  RedoInv'
<1>1. Len(log) \in Nat /\ durable' \in 4 .. Len(log')
  BY DEF RedoInv
<1>2. LogBegins'
  BY DEF RedoInv, LogBegins, AboutThePage
<1>3. ASSUME undone = 0 PROVE History'
  <2>1. History
    BY <1>3 DEF RedoInv
  <2>2. CASE disk' = disk
    BY <2>1, <2>2 DEF History, LogIsHistory, Repeated, OfHistory
  <2>3. CASE disk' = mem /\ mem # disk /\ mode # "panic"
    <3>1. mode \in {"up", "redo"}
      BY <1>3, <2>3 DEF RedoInv
    <3>2. mem # NoPage => OfHistory(mem)
      BY <2>1, <3>1 DEF History, Repeated
    <3>3. mode = "redo" => mem # NoPage
      BY <2>1, <2>3 DEF History
    <3>4. disk' # NoPage => OfHistory(disk)'
      BY <2>3, <3>2 DEF OfHistory
    <3>5. /\ LogIsHistory' <=> LogIsHistory
          /\ OfHistory(mem)' <=> OfHistory(mem)
          /\ Repeated' <=> Repeated
      BY DEF LogIsHistory, OfHistory, Repeated
    <3> QED
      BY <2>1, <3>1, <3>3, <3>4, <3>5 DEF History
  <2> QED
    BY <2>2, <2>3
<1> QED
  BY <1>1, <1>2, <1>3 DEF RedoInv, IsSeq

Remembers(pg) == snapshots' = Append(snapshots, pg)

\* A record that is appended with the page that Redo will make of it.
LEMMA RecordStep ==
    ASSUME RedoInv, NEW t, NEW r, Append1(t, r), NEW pg,
           Remembers(pg), pg = Followed(mem.page, r),
           mem' = mem \/ mem' = [page |-> pg, lsn |-> Len(log)],
           mem' = mem => pg = mem.page
    PROVE  RedoInv'
<1>1. /\ mode = "up" /\ mode' = "up" /\ log' = Append(log, r) /\ durable' = durable
      /\ disk' = disk /\ undone' = undone
  BY DEF Append1
<1>2. /\ IsSeq(log') /\ Len(log) \in Nat /\ Len(log') = Len(log) + 1
      /\ log'[Len(log) + 1] = r
      /\ \A i \in 1 .. Len(log) : log'[i] = log[i]
  <2>1. IsSeq(log)
    BY DEF RedoInv
  <2> QED
    BY <1>1, <2>1, AppendAny
<1>3. Len(log) >= 4 /\ durable \in 4 .. Len(log)
  BY <1>2 DEF RedoInv
<1>4. LogBegins'
  <2>1. log'[1] = log[1] /\ log'[2] = log[2]
    BY <1>2, <1>3
  <2> QED
    BY <2>1 DEF RedoInv, LogBegins, AboutThePage
<1>5. ASSUME undone = 0 PROVE History'
  <2>0. /\ IsSeq(snapshots) /\ Len(snapshots) = Len(log) /\ mem.page = snapshots[Len(log)]
        /\ snapshots[1] = EmptyPage /\ snapshots[2] = EmptyPage
    BY <1>1, <1>5 DEF RedoInv, History
  <2>1. /\ IsSeq(snapshots') /\ Len(snapshots') = Len(log) + 1
        /\ snapshots'[Len(log) + 1] = pg
        /\ \A i \in 1 .. Len(log) : snapshots'[i] = snapshots[i]
    BY <2>0, AppendAny DEF Remembers
  <2>2. ASSUME NEW m, OfHistory(m)
        PROVE  m.lsn \in Nat /\ m.lsn < Len(snapshots') /\ m.page = snapshots'[m.lsn + 1]
    <3>1. m.lsn \in Nat /\ m.lsn < Len(log) /\ m.page = snapshots[m.lsn + 1]
      BY <2>0, <2>2 DEF OfHistory
    <3>2. m.lsn + 1 \in 1 .. Len(log)
      BY <1>2, <3>1
    <3> QED
      BY <1>2, <2>1, <3>1, <3>2
  <2>3. disk' # NoPage => OfHistory(disk)'
    <3>1. disk # NoPage => OfHistory(disk)
      BY <1>5 DEF RedoInv, History
    <3> QED
      BY <1>1, <2>2, <3>1 DEF OfHistory
  <2>4. OfHistory(mem)'
    <3>1. CASE mem' = mem
      <4>1. OfHistory(mem)
        BY <1>1, <1>5 DEF RedoInv, History
      <4> QED
        BY <2>2, <3>1, <4>1 DEF OfHistory
    <3>2. CASE mem' = [page |-> pg, lsn |-> Len(log)]
      <4>1. mem'.page = pg /\ mem'.lsn = Len(log)
        BY <3>2
      <4> QED
        BY <1>2, <2>1, <4>1 DEF OfHistory
    <3> QED
      BY <3>1, <3>2
  <2>5. mem'.page = snapshots'[Len(log')]
    <3>1. mem'.page = pg
      OBVIOUS
    <3> QED
      BY <1>2, <2>1, <3>1
  <2>6. LogIsHistory'
    <3>1. ASSUME NEW i \in 2 .. Len(log')
          PROVE  snapshots'[i] = Followed(snapshots'[i - 1], log'[i])
      <4>1. CASE i \in 2 .. Len(log)
        <5>1. snapshots'[i] = snapshots[i] /\ snapshots'[i - 1] = snapshots[i - 1]
              /\ log'[i] = log[i]
          BY <1>2, <2>1, <4>1
        <5>2. LogIsHistory
          BY <1>5 DEF RedoInv, History
        <5> QED
          BY <4>1, <5>1, <5>2 DEF LogIsHistory
      <4>2. CASE i = Len(log) + 1
        <5>1. snapshots'[i] = pg /\ log'[i] = r
          BY <1>2, <2>1, <4>2
        <5>2. snapshots'[i - 1] = mem.page
          <6>1. i - 1 = Len(log) /\ Len(log) \in 1 .. Len(log)
            BY <1>2, <1>3, <4>2
          <6> QED
            BY <2>0, <2>1, <6>1
        <5> QED
          BY <5>1, <5>2
      <4> QED
        BY <1>2, <4>1, <4>2
    <3> QED
      BY <3>1 DEF LogIsHistory
  <2>7. snapshots'[1] = EmptyPage /\ snapshots'[2] = EmptyPage
    BY <1>2, <1>3, <2>0, <2>1
  <2>8. Len(snapshots') = Len(log') /\ Len(snapshots') >= Len(log')
    BY <1>2, <2>1
  <2> QED
    BY <1>1, <2>1, <2>3, <2>4, <2>5, <2>6, <2>7, <2>8 DEF History
<1> QED
  BY <1>1, <1>2, <1>3, <1>4, <1>5 DEF RedoInv

\* A record that is not about the page.
LEMMA NoChangeStep ==
    ASSUME RedoInv, NEW t, NEW r, ~AboutThePage(r), NoChange(t, r)
    PROVE  RedoInv'
<1>1. mem.page = Followed(mem.page, r)
  BY DEF Followed
<1>2. Append1(t, r) /\ mem' = mem /\ Remembers(mem.page)
  BY DEF NoChange, Remembers
<1> QED
  BY <1>1, <1>2, RecordStep

\* A record about the page, with the page that Redo will make of it.
LEMMA ChangeStep ==
    ASSUME RedoInv, NEW t, NEW r, AboutThePage(r), Change(t, r, Redone(mem.page, r))
    PROVE  RedoInv'
<1>1. PICK pg : pg = Redone(mem.page, r)
  OBVIOUS
<1>2. pg = Followed(mem.page, r)
  BY <1>1 DEF Followed
<1>3. Append1(t, r) /\ mem' = [page |-> pg, lsn |-> Len(log)] /\ Remembers(pg)
  BY <1>1 DEF Change, Remembers
<1>4. mem' = mem => pg = mem.page
  <2>1. mem'.page = pg
    BY <1>3
  <2> QED
    BY <2>1
<1> QED
  BY <1>2, <1>3, <1>4, RecordStep

\* BEGIN, COMMIT and ABORT.
LEMMA TxnRecordStep ==
    ASSUME RedoInv, NEW t, NEW prev, NEW type \in {"BEGIN", "COMMIT", "ABORT"},
           NoChange(t, TxnRecord(t, prev, type))
    PROVE  RedoInv'
<1>1. PICK r : r = TxnRecord(t, prev, type)
  OBVIOUS
<1>2. r.type = type
  BY <1>1 DEF TxnRecord
<1>3. ~AboutThePage(r)
  BY <1>2 DEF AboutThePage
<1> QED
  BY <1>1, <1>3, NoChangeStep

\* InsertTuple.
LEMMA InsertStep ==
    ASSUME RedoInv, NEW t, NEW v, Insert(t, v)
    PROVE  RedoInv'
<1>1. PICK r : r = SlotRecord(t, prev_lsn[t], "INSERT", InsertSlot(mem.page), v)
  OBVIOUS
<1>2. r.type = "INSERT" /\ r.tuple = v
  BY <1>1 DEF SlotRecord
<1>3. AboutThePage(r)
  BY <1>2 DEF AboutThePage
<1>4. Redone(mem.page, r) = PutTuple(mem.page, v)
  <2>1. RoomToInsert(mem.page, v)
    BY DEF Insert
  <2> QED
    BY <1>2, <2>1 DEF Redone, PageInsert
<1>5. Change(t, r, Redone(mem.page, r))
  BY <1>1, <1>4 DEF Insert
<1> QED
  BY <1>3, <1>5, ChangeStep

\* MarkDelete, of a transaction and in the place of an update back.
LEMMA MarkStep ==
    ASSUME RedoInv, NEW t, NEW prev, NEW s, ~NoTuple(mem.page, s),
           Change(t, MarkRecord(t, prev, "MARKDELETE", s), MarkTuple(mem.page, s))
    PROVE  RedoInv'
<1>1. PICK r : r = MarkRecord(t, prev, "MARKDELETE", s)
  OBVIOUS
<1>2. r.type = "MARKDELETE" /\ r.slot = s
  BY <1>1 DEF MarkRecord
<1>3. AboutThePage(r)
  BY <1>2 DEF AboutThePage
<1>4. Redone(mem.page, r) = MarkTuple(mem.page, s)
  BY <1>2 DEF Redone, PageMark
<1>5. Change(t, r, Redone(mem.page, r))
  BY <1>1, <1>4
<1> QED
  BY <1>3, <1>5, ChangeStep

\* UpdateTuple, of a transaction and back.
LEMMA UpdateStep ==
    ASSUME RedoInv, NEW t, NEW prev, NEW s, NEW old, NEW v,
           ~NoTuple(mem.page, s), RoomToUpdate(mem.page, s, v),
           Change(t, UpdateRecord(t, prev, s, old, v), ReplaceTuple(mem.page, s, v))
    PROVE  RedoInv'
<1>1. PICK r : r = UpdateRecord(t, prev, s, old, v)
  OBVIOUS
<1>2. r.type = "UPDATE" /\ r.slot = s /\ r.new = v
  BY <1>1 DEF UpdateRecord
<1>3. AboutThePage(r)
  BY <1>2 DEF AboutThePage
<1>4. Redone(mem.page, r) = ReplaceTuple(mem.page, s, v)
  BY <1>2 DEF Redone, PageUpdate
<1>5. Change(t, r, Redone(mem.page, r))
  BY <1>1, <1>4
<1> QED
  BY <1>3, <1>5, ChangeStep

\* ApplyDelete, of a commit and of an abort.
LEMMA DropStep ==
    ASSUME RedoInv, NEW t, NEW s, ApplyDelete(t, s)
    PROVE  RedoInv'
<1>1. PICK r : r = SlotRecord(t, prev_lsn[t], "APPLYDELETE", s, Content(s).tuple)
  OBVIOUS
<1>2. r.type = "APPLYDELETE" /\ r.slot = s
  BY <1>1 DEF SlotRecord
<1>3. AboutThePage(r)
  BY <1>2 DEF AboutThePage
<1>4. Redone(mem.page, r) = DropTuple(mem.page, s)
  BY <1>2 DEF Redone
<1>5. Change(t, r, Redone(mem.page, r))
  BY <1>1, <1>4 DEF ApplyDelete
<1> QED
  BY <1>3, <1>5, ChangeStep

\* RollbackDelete.
LEMMA UnmarkStep ==
    ASSUME RedoInv, NEW t, NEW prev, NEW s,
           Change(t, MarkRecord(t, prev, "ROLLBACKDELETE", s), UnmarkTuple(mem.page, s))
    PROVE  RedoInv'
<1>1. PICK r : r = MarkRecord(t, prev, "ROLLBACKDELETE", s)
  OBVIOUS
<1>2. r.type = "ROLLBACKDELETE" /\ r.slot = s
  BY <1>1 DEF MarkRecord
<1>3. AboutThePage(r)
  BY <1>2 DEF AboutThePage
<1>4. Redone(mem.page, r) = UnmarkTuple(mem.page, s)
  BY <1>2 DEF Redone
<1>5. Change(t, r, Redone(mem.page, r))
  BY <1>1, <1>4
<1> QED
  BY <1>3, <1>5, ChangeStep

\* The steps of the transactions, one by one.
LEMMA TransactionsStep ==
    ASSUME RedoInv, Transactions
    PROVE  RedoInv'
<1> USE DEF recVars
<1>0. PICK t \in Txns :
        \/ Begin(t)
        \/ EndStart(t) \/ CommitStep(t) \/ AbortStep(t)
        \/ CommitRecord(t) \/ CommitFlush(t) \/ AbortRecord(t)
        \/ \E v \in Tuples : Insert(t, v)
        \/ \E s \in Slots : MarkDelete(t, s) \/ \E v \in Tuples : Update(t, s, v)
  BY DEF Transactions
<1>1. CASE Begin(t)
  BY <1>1, TxnRecordStep DEF Begin
<1>2. CASE EndStart(t)
  BY <1>2, FlushStep DEF EndStart
<1>n. ASSUME WritesNothing PROVE RedoInv'
  BY <1>n, FlushStep DEF WritesNothing
<1>3. CASE CommitStep(t)
  <2>1. ApplyDelete(t, Item(t).slot) \/ WritesNothing
    BY <1>3 DEF CommitStep
  <2> QED
    BY <1>n, <2>1, DropStep
<1>4. CASE AbortStep(t)
  <2>1. PICK s, v : s = Item(t).slot /\ v = Item(t).tuple
    OBVIOUS
  <2>2. \/ ApplyDelete(t, s)
        \/ Change(t, MarkRecord(t, prev_lsn[t], "ROLLBACKDELETE", s), UnmarkTuple(mem.page, s))
        \/ RollbackUpdate(t, s, v)
    BY <1>4, <2>1 DEF AbortStep
  <2>3. CASE RollbackUpdate(t, s, v)
    <3>1. CASE NoTuple(mem.page, s)
      BY <1>n, <2>3, <3>1 DEF RollbackUpdate
    <3>2. CASE ~NoTuple(mem.page, s) /\ RoomToUpdate(mem.page, s, v)
      BY <2>3, <3>2, UpdateStep DEF RollbackUpdate
    <3>3. CASE ~NoTuple(mem.page, s) /\ ~RoomToUpdate(mem.page, s, v)
      BY <2>3, <3>3, MarkStep DEF RollbackUpdate
    <3> QED
      BY <3>1, <3>2, <3>3
  <2> QED
    BY <2>2, <2>3, DropStep, UnmarkStep
<1>5. CASE CommitRecord(t)
  BY <1>5, TxnRecordStep DEF CommitRecord
<1>6. CASE CommitFlush(t)
  BY <1>6, FlushStep DEF CommitFlush
<1>7. CASE AbortRecord(t)
  BY <1>7, TxnRecordStep DEF AbortRecord
<1>8. ASSUME NEW v \in Tuples, Insert(t, v) PROVE RedoInv'
  BY <1>8, InsertStep
<1>9. ASSUME NEW s \in Slots, MarkDelete(t, s) PROVE RedoInv'
  BY <1>9, MarkStep DEF MarkDelete
<1>10. ASSUME NEW s \in Slots, NEW v \in Tuples, Update(t, s, v) PROVE RedoInv'
  BY <1>10, UpdateStep DEF Update
<1> QED
  BY <1>0, <1>1, <1>2, <1>3, <1>4, <1>5, <1>6, <1>7, <1>8, <1>9, <1>10

----------------------------------------------------------------------------
(* The crash and Redo.                                                     *)

\* Whatever part of the log survives holds the records that made the page, and
\* the history reaches as far as the log and the page on disk.
LEMMA CrashStep ==
    ASSUME RedoInv, Crash
    PROVE  RedoInv'
<1>1. PICK n \in durable .. Len(log) :
        /\ log' = SubSeq(log, 1, n)
        /\ snapshots' = IF undone > 0 THEN << >>
                        ELSE SubSeq(snapshots, 1, IF disk # NoPage /\ disk.lsn >= n
                                                    THEN disk.lsn + 1 ELSE n)
        /\ durable' = n
  BY DEF Crash
<1>2. mode' = "redo" /\ mem' = disk /\ disk' = disk /\ undone' = undone /\ position' = 1
  BY DEF Crash
<1>3. IsSeq(log) /\ Len(log) \in Nat /\ durable \in 4 .. Len(log)
  BY DEF RedoInv, IsSeq
<1>4. n \in 4 .. Len(log) /\ n \in 0 .. Len(log)
  BY <1>3
<1>5. IsSeq(log') /\ Len(log') = n /\ \A i \in 1 .. n : log'[i] = log[i]
  BY <1>1, <1>3, <1>4, CutAny
<1>6. LogBegins'
  <2>1. log'[1] = log[1] /\ log'[2] = log[2]
    BY <1>4, <1>5
  <2> QED
    BY <2>1 DEF RedoInv, LogBegins, AboutThePage
<1>7. ASSUME undone = 0 PROVE History'
  <2>0. History
    BY <1>7 DEF RedoInv
  <2>1. /\ IsSeq(snapshots) /\ Len(snapshots) \in Nat /\ Len(snapshots) >= Len(log)
        /\ snapshots[1] = EmptyPage /\ snapshots[2] = EmptyPage
    BY <2>0 DEF History, IsSeq
  <2>2. disk # NoPage => /\ disk.lsn \in Nat /\ disk.lsn < Len(snapshots)
                         /\ disk.page = snapshots[disk.lsn + 1]
    BY <2>0 DEF History, OfHistory
  <2>3. PICK k : k = IF disk # NoPage /\ disk.lsn >= n THEN disk.lsn + 1 ELSE n
    OBVIOUS
  <2>4. /\ k \in n .. Len(snapshots) /\ k \in 0 .. Len(snapshots)
        /\ disk # NoPage => disk.lsn < k
    <3>1. CASE disk # NoPage /\ disk.lsn >= n
      BY <1>3, <1>4, <2>1, <2>2, <2>3, <3>1
    <3>2. CASE ~(disk # NoPage /\ disk.lsn >= n)
      BY <1>3, <1>4, <2>1, <2>2, <2>3, <3>2
    <3> QED
      BY <3>1, <3>2
  <2>5. snapshots' = SubSeq(snapshots, 1, k)
    BY <1>1, <1>7, <2>3
  <2>6. IsSeq(snapshots') /\ Len(snapshots') = k /\ \A i \in 1 .. k : snapshots'[i] = snapshots[i]
    BY <2>1, <2>4, <2>5, CutAny
  <2>7. LogIsHistory'
    <3>1. ASSUME NEW i \in 2 .. n
          PROVE  snapshots'[i] = Followed(snapshots'[i - 1], log'[i])
      <4>1. /\ i \in 1 .. k /\ i - 1 \in 1 .. k /\ i \in 1 .. n /\ i \in 2 .. Len(log)
        BY <1>3, <1>4, <2>1, <2>4
      <4>2. snapshots'[i] = snapshots[i] /\ snapshots'[i - 1] = snapshots[i - 1]
        BY <2>6, <4>1
      <4>3. log'[i] = log[i]
        BY <1>5, <4>1
      <4>4. LogIsHistory
        BY <2>0 DEF History
      <4>5. snapshots[i] = Followed(snapshots[i - 1], log[i])
        BY <4>1, <4>4 DEF LogIsHistory
      <4> QED
        BY <4>2, <4>3, <4>5
    <3> QED
      BY <1>5, <3>1 DEF LogIsHistory
  <2>8. disk' # NoPage => OfHistory(disk)'
    <3>1. disk # NoPage => disk.lsn + 1 \in 1 .. k
      BY <2>2, <2>4
    <3> QED
      BY <1>2, <2>2, <2>4, <2>6, <3>1 DEF OfHistory
  <2>9. mem' # NoPage => Repeated'
    <3>1. mem' # NoPage => OfHistory(mem)'
      BY <1>2, <2>8 DEF OfHistory
    <3>2. mem' # NoPage => ~(mem'.lsn + 1 < position')
      BY <1>2, <2>2
    <3>3. \A i \in 1 .. Len(log') : ~(i < position')
      BY <1>2
    <3> QED
      BY <3>1, <3>2, <3>3 DEF Repeated
  <2>10. snapshots'[1] = EmptyPage /\ snapshots'[2] = EmptyPage
    BY <1>4, <2>1, <2>4, <2>6
  <2>11. position' \in 1 .. Len(log') + 1
    BY <1>2, <1>4, <1>5
  <2>12. Len(snapshots') >= Len(log')
    BY <1>4, <1>5, <2>1, <2>4, <2>6
  <2> QED
    BY <1>2, <2>6, <2>7, <2>8, <2>9, <2>10, <2>11, <2>12 DEF History
<1>8. durable' \in 4 .. Len(log')
  BY <1>1, <1>4, <1>5
<1> QED
  BY <1>2, <1>5, <1>6, <1>7, <1>8 DEF RedoInv

\* A recovery that gives up leaves the files as they are.
LEMMA PanicStep ==
    ASSUME RedoInv, Panic
    PROVE  RedoInv'
<1> USE DEF Panic
<1>1. LogBegins'
  BY DEF RedoInv, LogBegins, AboutThePage
<1>2. ASSUME undone = 0 PROVE History'
  <2>1. History
    BY <1>2 DEF RedoInv
  <2>2. LogIsHistory' /\ (disk # NoPage => OfHistory(disk)')
    BY <2>1 DEF History, LogIsHistory, OfHistory
  <2> QED
    BY <2>1, <2>2 DEF History, IsSeq
<1> QED
  BY <1>1, <1>2 DEF RedoInv, IsSeq

\* What Redo makes of one record, the page being of the history.
LEMMA RepeatedStep ==
    ASSUME RedoInv, NoPageIsNoPage, undone = 0, mode = "redo", position <= Len(log),
           mem # NoPage, UNCHANGED <<log, snapshots>>, position' = position + 1,
           mem' = IF AboutThePage(log[position]) /\ NotYetApplied(position)
                    THEN [page |-> Redone(mem.page, log[position]), lsn |-> position - 1]
                    ELSE mem
    PROVE  mem' # NoPage /\ Repeated'
<1>0. History /\ Repeated /\ position \in 1 .. Len(log)
  <2>1. History
    BY DEF RedoInv
  <2>2. Repeated /\ position \in 1 .. Len(log) + 1 /\ Len(log) \in Nat
    BY <2>1 DEF RedoInv, History, IsSeq
  <2> QED
    BY <2>1, <2>2
<1>1. /\ Len(log) \in Nat /\ Len(snapshots) \in Nat /\ Len(snapshots) >= Len(log)
      /\ mem.lsn \in Nat /\ mem.lsn < Len(snapshots) /\ mem.page = snapshots[mem.lsn + 1]
  <2>1. Len(log) \in Nat
    BY DEF RedoInv, IsSeq
  <2>2. Len(snapshots) \in Nat /\ Len(snapshots) >= Len(log)
    BY <1>0 DEF History, IsSeq
  <2>3. OfHistory(mem)
    BY <1>0 DEF Repeated
  <2> QED
    BY <2>1, <2>2, <2>3 DEF OfHistory
<1>2. mem.lsn + 1 < position => mem.page = snapshots[position - 1]
  BY <1>0 DEF Repeated
<1>3. ASSUME NEW i \in 1 .. Len(log), i < position, AboutThePage(log[i])
      PROVE  i - 1 <= mem.lsn
  BY <1>0, <1>3 DEF Repeated
<1>4. position > 1 => snapshots[position] = Followed(snapshots[position - 1], log[position])
  <2>1. LogIsHistory
    BY <1>0 DEF History
  <2> QED
    BY <1>0, <1>1, <2>1 DEF LogIsHistory
<1>5. CASE AboutThePage(log[position]) /\ NotYetApplied(position)
  <2>1. PICK pg : pg = Redone(mem.page, log[position])
    OBVIOUS
  <2>2. mem' = [page |-> pg, lsn |-> position - 1]
    BY <1>5, <2>1
  <2>3. mem' # NoPage /\ mem'.page = pg /\ mem'.lsn = position - 1
    BY <2>2 DEF NoPageIsNoPage
  <2>4. mem.lsn + 1 < position /\ position > 1
    BY <1>0, <1>1, <1>5 DEF NotYetApplied
  <2>5. pg = snapshots[position]
    BY <1>2, <1>4, <1>5, <2>1, <2>4 DEF Followed
  <2>6. OfHistory(mem)'
    BY <1>0, <1>1, <2>3, <2>5 DEF OfHistory
  <2>7. mem'.page = snapshots'[position' - 1]
    BY <1>0, <2>3, <2>5
  <2>8. \A i \in 1 .. Len(log') : i < position' /\ AboutThePage(log'[i]) => i - 1 <= mem'.lsn
    BY <1>0, <1>1, <2>3
  <2> QED
    BY <2>3, <2>6, <2>7, <2>8 DEF Repeated
<1>6. CASE ~(AboutThePage(log[position]) /\ NotYetApplied(position))
  <2>1. mem' = mem
    BY <1>6
  <2>2. OfHistory(mem)'
    BY <1>1, <2>1 DEF OfHistory
  <2>3. mem'.lsn + 1 < position' => mem'.page = snapshots'[position' - 1]
    <3>1. CASE mem.lsn + 1 < position
      <4>1. ~AboutThePage(log[position]) /\ position > 1
        BY <1>0, <1>1, <1>6, <3>1 DEF NotYetApplied
      <4>2. mem.page = snapshots[position]
        BY <1>2, <1>4, <3>1, <4>1 DEF Followed
      <4> QED
        BY <1>0, <2>1, <4>2
    <3>2. CASE mem.lsn + 1 = position
      BY <1>0, <1>1, <2>1, <3>2
    <3> QED
      BY <1>0, <1>1, <2>1, <3>1, <3>2
  <2>4. ASSUME NEW i \in 1 .. Len(log), i < position + 1, AboutThePage(log[i])
        PROVE  i - 1 <= mem.lsn
    <3>1. CASE i < position
      BY <1>3, <2>4, <3>1
    <3>2. CASE i = position
      BY <1>0, <1>1, <1>6, <2>4, <3>2 DEF NotYetApplied
    <3> QED
      BY <1>0, <2>4, <3>1, <3>2
  <2>5. \A i \in 1 .. Len(log') : i < position' /\ AboutThePage(log'[i]) => i - 1 <= mem'.lsn
    BY <2>1, <2>4
  <2> QED
    BY <2>1, <2>2, <2>3, <2>5 DEF Repeated
<1> QED
  BY <1>5, <1>6

\* One record of Redo.
LEMMA RedoRecordStep ==
    ASSUME RedoInv, NoPageIsNoPage, RedoRecord
    PROVE  RedoInv'
<1>1. CASE Panic
  BY <1>1, PanicStep
<1>2. CASE ~Panic
  <2>1. /\ mode = "redo" /\ mode' = "redo" /\ position <= Len(log)
        /\ log' = log /\ durable' = durable /\ disk' = disk /\ snapshots' = snapshots
        /\ undone' = undone /\ position' = position + 1
    BY <1>2 DEF RedoRecord
  <2>2. mem' = IF AboutThePage(log[position]) /\ NotYetApplied(position)
                 THEN [page |-> Redone(mem.page, log[position]), lsn |-> position - 1]
               ELSE IF log[position].type = "NEWPAGE" /\ mem = NoPage
                 THEN [page |-> EmptyPage, lsn |-> 0]
               ELSE mem
    BY <1>2 DEF RedoRecord
  <2>3. LogBegins'
    BY <2>1 DEF RedoInv, LogBegins, AboutThePage
  <2>4. ASSUME undone = 0 PROVE History'
    <3>0. History /\ LogBegins /\ Len(log) \in Nat
      BY <2>4 DEF RedoInv, IsSeq
    <3>1. position' \in 1 .. Len(log') + 1
      BY <2>1, <3>0 DEF History
    <3>2. LogIsHistory' /\ (disk' # NoPage => OfHistory(disk)')
      BY <2>1, <3>0 DEF History, LogIsHistory, OfHistory
    <3>3. /\ mem' # NoPage => Repeated'
          /\ mem' = NoPage => disk' = NoPage /\ position' <= 2
      <4>1. CASE mem # NoPage
        <5>1. mem' = IF AboutThePage(log[position]) /\ NotYetApplied(position)
                       THEN [page |-> Redone(mem.page, log[position]), lsn |-> position - 1]
                       ELSE mem
          BY <2>2, <4>1
        <5> QED
          BY <2>1, <2>4, <4>1, <5>1, RepeatedStep
      <4>2. CASE mem = NoPage
        <5>1. disk = NoPage /\ position \in {1, 2}
          BY <2>1, <3>0, <4>2 DEF History
        <5>2. CASE position = 1
          <6>1. mem' = mem
            BY <2>2, <3>0, <5>2 DEF LogBegins
          <6> QED
            BY <2>1, <4>2, <5>1, <5>2, <6>1
        <5>3. CASE position = 2
          <6>1. mem' = [page |-> EmptyPage, lsn |-> 0]
            BY <2>2, <3>0, <4>2, <5>3 DEF LogBegins
          <6>2. mem' # NoPage
            BY <6>1 DEF NoPageIsNoPage
          <6>3. mem'.page = EmptyPage /\ mem'.lsn = 0
            BY <6>1
          <6>4. /\ snapshots[1] = EmptyPage /\ snapshots[2] = EmptyPage
                /\ Len(snapshots) >= Len(log) /\ Len(snapshots) \in Nat
            BY <3>0 DEF History, IsSeq
          <6>5. OfHistory(mem)'
            BY <2>1, <3>0, <5>3, <6>3, <6>4 DEF OfHistory
          <6>6. mem'.page = snapshots'[position' - 1]
            BY <2>1, <5>3, <6>3, <6>4
          <6>7. ASSUME NEW i \in 1 .. Len(log), i < 3 PROVE ~AboutThePage(log[i])
            <7>1. i = 1 \/ i = 2
              BY <6>7
            <7> QED
              BY <3>0, <7>1 DEF LogBegins
          <6>8. \A i \in 1 .. Len(log') : i < position' => ~AboutThePage(log'[i])
            BY <2>1, <5>3, <6>7
          <6> QED
            BY <6>2, <6>5, <6>6, <6>8 DEF Repeated
        <5> QED
          BY <5>1, <5>2, <5>3
      <4> QED
        BY <4>1, <4>2
    <3> QED
      BY <2>1, <3>0, <3>1, <3>2, <3>3 DEF History, IsSeq
  <2> QED
    BY <2>1, <2>3, <2>4 DEF RedoInv, IsSeq
<1> QED
  BY <1>1, <1>2

\* From the end of Redo on the page has another history.
LEMMA UndoneStep ==
    ASSUME RedoInv, UNCHANGED <<log, durable>>,
           mode' \in {"undo", "recovered", "panic"}, undone' \in Nat, undone' > 0
    PROVE  RedoInv'
<1>1. LogBegins'
  BY DEF RedoInv, LogBegins, AboutThePage
<1> QED
  BY <1>1 DEF RedoInv, IsSeq

\* The end of Redo, and Undo.
LEMMA UndoStep ==
    ASSUME RedoInv, RedoEnd \/ UndoNextTxn \/ UndoRecord \/ UndoEnd
    PROVE  RedoInv'
<1>1. CASE RedoEnd
  <2>1. CASE Panic
    BY <2>1, PanicStep
  <2>2. CASE ~Panic
    BY <1>1, <2>2, UndoneStep DEF RedoEnd, RedoInv
  <2> QED
    BY <2>1, <2>2
<1>2. CASE UndoNextTxn
  BY <1>2, UndoneStep DEF UndoNextTxn, RedoInv
<1>3. CASE UndoRecord
  <2>1. CASE Panic
    BY <2>1, PanicStep
  <2>2. CASE ~Panic
    BY <1>3, <2>2, UndoneStep DEF UndoRecord, RedoInv
  <2> QED
    BY <2>1, <2>2
<1>4. CASE UndoEnd
  BY <1>4, UndoneStep DEF UndoEnd, RedoInv
<1> QED
  BY <1>1, <1>2, <1>3, <1>4

\* The log and the page reach the disk.
LEMMA DiskStep ==
    ASSUME RedoInv, EvictPage \/ CheckpointPages \/ CheckpointLog
    PROVE  RedoInv'
<1> USE DEF recVars
<1>1. CASE EvictPage
  BY <1>1, FlushStep DEF EvictPage
<1>2. CASE CheckpointPages
  BY <1>2, FlushStep DEF CheckpointPages
<1>3. CASE CheckpointLog
  BY <1>3, FlushStep DEF CheckpointLog
<1> QED
  BY <1>1, <1>2, <1>3

----------------------------------------------------------------------------

\* The state NewTableHeap and its first insert leave.
LEMMA InitHasHistory ==
    ASSUME Init
    PROVE  RedoInv
<1>1. PICK v, filled :
        /\ RoomToInsert(EmptyPage, v) /\ filled = PutTuple(EmptyPage, v)
        /\ mode = "up" /\ durable = 4 /\ disk = NoPage /\ undone = 0
        /\ log = <<TxnRecord(Creator, InvalidLSN, "BEGIN"), TxnRecord(Creator, 0, "NEWPAGE"),
                   SlotRecord(Creator, 1, "INSERT", 1, v), TxnRecord(Creator, 2, "COMMIT")>>
        /\ mem = [page |-> filled, lsn |-> 2]
        /\ snapshots = <<EmptyPage, EmptyPage, filled, filled>>
  BY DEF Init
<1>2. PICK a, b, c, d :
        /\ a = TxnRecord(Creator, InvalidLSN, "BEGIN") /\ b = TxnRecord(Creator, 0, "NEWPAGE")
        /\ c = SlotRecord(Creator, 1, "INSERT", 1, v) /\ d = TxnRecord(Creator, 2, "COMMIT")
  OBVIOUS
<1>3. /\ a.type = "BEGIN" /\ b.type = "NEWPAGE" /\ c.type = "INSERT" /\ c.tuple = v
      /\ d.type = "COMMIT"
  BY <1>2 DEF TxnRecord, SlotRecord
<1>4. log = <<a, b, c, d>>
  BY <1>1, <1>2
<1>5. /\ Len(log) = 4 /\ log[1] = a /\ log[2] = b /\ log[3] = c /\ log[4] = d
      /\ log \in Seq({a, b, c, d})
  BY <1>4
<1>6. LogBegins
  BY <1>3, <1>5 DEF LogBegins, AboutThePage
<1>7. IsSeq(log)
  BY <1>5 DEF IsSeq
<1>8. /\ Len(snapshots) = 4 /\ snapshots[1] = EmptyPage /\ snapshots[2] = EmptyPage
      /\ snapshots[3] = filled /\ snapshots[4] = filled
      /\ snapshots \in Seq({EmptyPage, filled})
  BY <1>1
<1>9. mem.page = filled /\ mem.lsn = 2
  BY <1>1
<1>10. LogIsHistory
  <2>1. Followed(EmptyPage, b) = EmptyPage /\ Followed(filled, d) = filled
    BY <1>3 DEF Followed, AboutThePage
  <2>2. Followed(EmptyPage, c) = filled
    BY <1>1, <1>3 DEF Followed, AboutThePage, Redone, PageInsert
  <2>3. ASSUME NEW i \in 2 .. 4 PROVE snapshots[i] = Followed(snapshots[i - 1], log[i])
    <3>1. i = 2 \/ i = 3 \/ i = 4
      OBVIOUS
    <3>2. CASE i = 2
      BY <1>5, <1>8, <2>1, <3>2
    <3>3. CASE i = 3
      BY <1>5, <1>8, <2>2, <3>3
    <3>4. CASE i = 4
      BY <1>5, <1>8, <2>1, <3>4
    <3> QED
      BY <3>1, <3>2, <3>3, <3>4
  <2> QED
    BY <1>5, <2>3 DEF LogIsHistory
<1>11. History
  <2>1. IsSeq(snapshots)
    BY <1>8 DEF IsSeq
  <2>2. OfHistory(mem) /\ mem.page = snapshots[Len(log)]
    BY <1>5, <1>8, <1>9 DEF OfHistory
  <2> QED
    BY <1>1, <1>5, <1>8, <1>10, <2>1, <2>2 DEF History
<1> QED
  BY <1>1, <1>5, <1>6, <1>7, <1>11 DEF RedoInv

\* Every state has a history that Redo repeats.
THEOREM RedoInvariance ==
    ASSUME NoPageIsNoPage
    PROVE  Spec => []RedoInv
<1>1. Init => RedoInv
  BY InitHasHistory
<1>2. RedoInv /\ [Next]_vars => RedoInv'
  <2> SUFFICES ASSUME RedoInv, [Next]_vars
               PROVE  RedoInv'
    OBVIOUS
  <2>1. CASE UNCHANGED vars
    BY <2>1, FlushStep DEF vars, recVars
  <2>2. CASE Next
    <3>1. CASE Transactions
      BY <3>1, TransactionsStep
    <3>2. CASE EvictPage \/ CheckpointPages \/ CheckpointLog
      BY <3>2, DiskStep
    <3>3. CASE Crash
      BY <3>3, CrashStep
    <3>4. CASE RedoRecord
      BY <3>4, RedoRecordStep
    <3>5. CASE RedoEnd \/ UndoNextTxn \/ UndoRecord \/ UndoEnd
      BY <3>5, UndoStep
    <3> QED
      BY <2>2, <3>1, <3>2, <3>3, <3>4, <3>5 DEF Next, Recover
  <2> QED
    BY <2>1, <2>2
<1> QED
  BY <1>1, <1>2, PTL DEF Spec

\* Redo repeats history: whenever Redo works on a page, the page has the content
\* that the record with its LSN left in the life before, and when Redo has read
\* the whole log no record about the page is missing from it; for any log, any
\* order of evictions and any number of crashes, those in Redo itself included.
THEOREM RedoRepeats ==
    ASSUME NoPageIsNoPage
    PROVE  Spec => []RedoRepeatsHistory
<1>1. RedoInv => RedoRepeatsHistory
  <2> SUFFICES ASSUME RedoInv, mode = "redo", undone = 0, mem # NoPage
               PROVE  /\ mem.page = snapshots[mem.lsn + 1]
                      /\ position > Len(log) =>
                           \A i \in Records : AboutThePage(log[i]) => mem.lsn >= i - 1
    BY DEF RedoRepeatsHistory
  <2>1. Repeated /\ position \in 1 .. Len(log) + 1 /\ Len(log) \in Nat
    BY DEF RedoInv, History, IsSeq
  <2>2. mem.page = snapshots[mem.lsn + 1] /\ mem.lsn \in Nat
    BY <2>1 DEF Repeated, OfHistory
  <2>3. DOMAIN log = 1 .. Len(log)
    BY DEF RedoInv, IsSeq
  <2>4. ASSUME position > Len(log), NEW i \in Records, AboutThePage(log[i])
        PROVE  mem.lsn >= i - 1
    <3>1. i \in 1 .. Len(log) /\ i < position
      BY <2>1, <2>3, <2>4 DEF Records
    <3> QED
      BY <2>1, <2>2, <2>4, <3>1 DEF Repeated
  <2> QED
    BY <2>2, <2>4
<1> QED
  BY <1>1, RedoInvariance, PTL

----------------------------------------------------------------------------
(* The log and the pages that its records left, for a log l whose i-th     *)
(* record left the page h[i].                                              *)

Ends(r) == r.type \in {"COMMIT", "ABORT"}

About(r, s) == AboutThePage(r) /\ r.slot = s

At(pg, s) == IF s \in 1 .. Len(pg.slots) THEN pg.slots[s] ELSE EmptySlot

SizeOf(slot) == IF IsFull(slot) THEN TupleSize[slot.tuple] ELSE 0

\* The space of the page is free or belongs to a slot: T[k] is the space of the
\* first k slots.
Sums(slots, T) ==
    /\ T \in [0 .. Len(slots) -> Int]
    /\ T[0] = 0
    /\ \A k \in 1 .. Len(slots) : T[k] = T[k - 1] + (SizeOf(slots[k]) + SlotSize)

Accounted(pg) ==
    /\ pg \in Page
    /\ \E T : Sums(pg.slots, T) /\ pg.free + T[Len(pg.slots)] = PageSpace

\* What a record does to its slot.
SlotEffect(r, a, b) ==
    /\ r.type = "INSERT" => ~IsFull(a) /\ r.tuple \in Tuples /\ b = LiveSlot(r.tuple)
    /\ r.type = "APPLYDELETE" => IsFull(a) /\ b = EmptySlot
    /\ r.type = "MARKDELETE" => ~IsDeleted(a) /\ b = MarkedSlot(a.tuple)
    /\ r.type = "ROLLBACKDELETE" => IsFull(a) /\ IsDeleted(a) /\ b = LiveSlot(a.tuple)
    /\ r.type = "UPDATE" => /\ r.old \in Tuples /\ a = LiveSlot(r.old)
                            /\ r.new \in Tuples /\ b = LiveSlot(r.new)

Effect(pg, r, pg2) ==
    /\ pg2 = Redone(pg, r)
    /\ Len(pg2.slots) >= Len(pg.slots)
    /\ r.slot \in 1 .. Len(pg2.slots)
    /\ \A s \in Nat \ {r.slot} : At(pg2, s) = At(pg, s)
    /\ SlotEffect(r, At(pg, r.slot), At(pg2, r.slot))

Follows(pg, r, pg2) == IF AboutThePage(r) THEN Effect(pg, r, pg2) ELSE pg2 = pg

PagesFollow(l, h) ==
    /\ h[1] = EmptyPage
    /\ \A i \in 1 .. Len(l) : Accounted(h[i])
    /\ \A i \in 2 .. Len(l) : Follows(h[i - 1], l[i], h[i])

\* A slot goes to another transaction when the one before has ended.
SlotsAreLocked(l) ==
    \A i, j \in 1 .. Len(l) :
        i < j /\ AboutThePage(l[i]) /\ About(l[j], l[i].slot) /\ l[j].txn # l[i].txn =>
            \E e \in i + 1 .. j - 1 : Ends(l[e]) /\ l[e].txn = l[i].txn

EndsAreLast(l) ==
    \A i, j \in 1 .. Len(l) : i < j /\ Ends(l[i]) => l[j].txn # l[i].txn

\* A transaction that commits has applied its deletions and taken none back.
Applied(l, i, c) ==
    \E j \in i + 1 .. c : /\ l[j].type = "APPLYDELETE" /\ About(l[j], l[i].slot)
                          /\ l[j].txn = l[i].txn

CommitsAreClean(l) ==
    \A c \in 1 .. Len(l) : \A i \in 1 .. c :
        l[c].type = "COMMIT" /\ l[i].txn = l[c].txn =>
            /\ l[i].type # "ROLLBACKDELETE"
            /\ l[i].type = "MARKDELETE" => Applied(l, i, c)

\* lsn is that of the last record of t among the first n.
LastOf(l, t, n, lsn) ==
    /\ lsn \in -1 .. n - 1
    /\ lsn # InvalidLSN => l[lsn + 1].txn = t
    /\ \A j \in lsn + 2 .. n : l[j].txn # t

Chained(l) == \A i \in 1 .. Len(l) : LastOf(l, l[i].txn, i - 1, l[i].prev)

LogFacts(l, h) ==
    /\ PagesFollow(l, h)
    /\ SlotsAreLocked(l)
    /\ EndsAreLast(l)
    /\ CommitsAreClean(l)
    /\ Chained(l)

----------------------------------------------------------------------------
(* The life before the crash.                                              *)

\* The transaction of record i has ended.
Ended(l, i) == \E e \in i + 1 .. Len(l) : Ends(l[e]) /\ l[e].txn = l[i].txn

HeldUntilEnd(l, own) ==
    \A i \in 1 .. Len(l) : AboutThePage(l[i]) =>
        \/ Ended(l, i)
        \/ l[i].txn \in Txns /\ l[i].slot \in Slots /\ own[l[i].slot] = l[i].txn

\* What transaction t, at x and with the last LSN lsn, has in the log.
Stage(l, t, x, lsn) ==
    /\ LastOf(l, t, Len(l), lsn)
    /\ x = "unborn" => \A i \in 1 .. Len(l) : l[i].txn # t
    /\ x \in {"run", "commit", "abort"} => \A i \in 1 .. Len(l) : l[i].txn = t => ~Ends(l[i])
    /\ x \in {"flush", "done"} => \E e \in 1 .. Len(l) : Ends(l[e]) /\ l[e].txn = t

\* The items of a write set and the page.
ItemsFit(t, x, ws, own, pg) ==
    \A a \in 1 .. Len(ws) :
        /\ ws[a].slot \in Slots /\ own[ws[a].slot] = t /\ ws[a].tuple \in Tuples
        /\ x # "commit" => IsFull(At(pg, ws[a].slot))
        /\ ws[a].wtype = "DELETE" =>
             /\ IsFull(At(pg, ws[a].slot)) /\ IsDeleted(At(pg, ws[a].slot))
             /\ \A b \in a + 1 .. Len(ws) : ws[b].slot # ws[a].slot
        /\ ws[a].wtype = "INSERT" => \A b \in 1 .. a - 1 : ws[b].slot # ws[a].slot

\* Before its end a transaction has taken back no deletion, and has applied the
\* ones that are not among its items any more.
MarksListed(t, ws, l) ==
    \A i \in 1 .. Len(l) : l[i].txn = t =>
        /\ l[i].type # "ROLLBACKDELETE"
        /\ l[i].type = "MARKDELETE" =>
             \/ Applied(l, i, Len(l))
             \/ \E a \in 1 .. Len(ws) : ws[a].wtype = "DELETE" /\ ws[a].slot = l[i].slot

Items(t, x, ws, own, pg, l) ==
    /\ x \in {"unborn", "flush", "done"} => ws = << >>
    /\ ItemsFit(t, x, ws, own, pg)
    /\ x \in {"run", "commit"} => MarksListed(t, ws, l)

WriteSets == Seq([slot : Slots, wtype : {"INSERT", "DELETE", "UPDATE"}, tuple : Tuples])

UpTypes ==
    /\ st \in [Txns -> {"unborn", "run", "commit", "abort", "flush", "done"}]
    /\ prev_lsn \in [Txns -> Int]
    /\ owner \in [Slots -> Txns \union {NoTxn}]
    /\ write_set \in [Txns -> WriteSets]

Up ==
    /\ undone = 0
    /\ UpTypes
    /\ LogFacts(log, snapshots)
    /\ HeldUntilEnd(log, owner)
    /\ \A t \in Txns : /\ Stage(log, t, st[t], prev_lsn[t])
                       /\ Items(t, st[t], write_set[t], owner, mem.page, log)

----------------------------------------------------------------------------
(* After the crash.                                                        *)

\* What ReversibleLosersRecover excuses; once true it stays true.
Ahead ==
    /\ mem # NoPage /\ mem.lsn \in Nat /\ mem.lsn >= Len(log)
    /\ disk # NoPage /\ disk.lsn \in Nat /\ disk.lsn >= Len(log)

HasLoserInsert == \E i \in LoserRecords : log[i].type = "INSERT"

Excused ==
    \/ tail # "whole"
    \/ Ahead
    \/ \E i \in LoserRecords : ~Reversible(i)
    \/ undone > 1 /\ HasLoserInsert

\* The records about the slot are of committed transactions up to b, and of an
\* unfinished one from there on.
Base(s, b) ==
    /\ b \in 1 .. Len(log)
    /\ \A i \in Records : About(log[i], s) => (i <= b <=> i \notin LoserRecords)

Is(i, type, s) == log[i].type = type /\ log[i].slot = s

\* What is left of slot s when the records P are taken back.
MarkLeft(P, s, b, j) ==
    \E m \in (b + 1 .. Len(log)) \ P :
        /\ Is(m, "MARKDELETE", s)
        /\ \A k \in m + 1 .. Len(log) : Is(k, "UPDATE", s) => j < k

SlotLeft(h, slot, P, s, b) ==
    /\ IsFull(slot) <=> \/ IsFull(At(h[b], s))
                        \/ \E i \in (b + 1 .. Len(log)) \ P : Is(i, "INSERT", s)
    /\ IsFull(slot) =>
         \E j \in b .. Len(log) :
            /\ IsFull(At(h[j], s)) /\ slot.tuple = At(h[j], s).tuple
            /\ \A k \in P : Is(k, "UPDATE", s) => j < k
            /\ IsDeleted(slot) => MarkLeft(P, s, b, j)

TakenBackTo(h, pg, P) ==
    /\ Accounted(pg)
    /\ Len(pg.slots) = Len(h[Len(log)].slots)
    /\ \A s \in 1 .. Len(pg.slots) : \A b \in 1 .. Len(log) :
         Base(s, b) => SlotLeft(h, pg.slots[s], P, s, b)

NothingToRedo(m) ==
    /\ m.lsn \in Nat
    /\ \A i \in 1 .. Len(log) : AboutThePage(log[i]) => i - 1 <= m.lsn

PageOf(h, m) == m.lsn \in 0 .. Len(log) - 1 /\ m.page = h[m.lsn + 1]

PartlyUndone(h, m) ==
    /\ undone > 0
    /\ NothingToRedo(m)
    /\ ~HasLoserInsert => TakenBackTo(h, m.page, {})

RedoneTo(h, m) ==
    /\ PageOf(h, m)
    /\ m.lsn + 1 < position => m.page = h[position - 1]
    /\ \A i \in 1 .. Len(log) : i < position /\ AboutThePage(log[i]) => i - 1 <= m.lsn

Noting(n) ==
    /\ \A t \in DOMAIN active_txn :
         /\ active_txn[t] # InvalidLSN
         /\ LastOf(log, t, n, active_txn[t])
         /\ \A c \in 1 .. n : log[c].txn = t => log[c].type # "COMMIT"
    /\ \A i \in 1 .. n :
         \/ log[i].txn \in DOMAIN active_txn
         \/ \E c \in 1 .. n : log[c].txn = log[i].txn /\ log[c].type = "COMMIT"

\* The records Undo has taken back.
TakenRecords ==
    {i \in LoserRecords :
        /\ log[i].txn \notin DOMAIN active_txn
        /\ cursor # InvalidLSN /\ log[i].txn = log[cursor + 1].txn => i > cursor + 1}

Undoing ==
    /\ \A t \in DOMAIN active_txn :
         /\ active_txn[t] # InvalidLSN
         /\ LastOf(log, t, Len(log), active_txn[t])
         /\ t \notin Winners
    /\ cursor # InvalidLSN =>
         /\ cursor + 1 \in LoserRecords
         /\ log[cursor + 1].txn \notin DOMAIN active_txn
    /\ cursor \in Int

Recovering(h) ==
    /\ LogFacts(log, h)
    /\ mode \in {"redo", "undo", "recovered"}
    /\ disk # NoPage => PageOf(h, disk) \/ PartlyUndone(h, disk)
    /\ mode = "redo" =>
         /\ position \in 1 .. Len(log) + 1 /\ cursor = InvalidLSN
         /\ Noting(position - 1)
         /\ mem = NoPage => disk = NoPage /\ position <= 2
         /\ mem # NoPage => RedoneTo(h, mem) \/ PartlyUndone(h, mem)
    /\ mode = "undo" =>
         /\ Undoing
         /\ mem # NoPage /\ NothingToRedo(mem)
         /\ TakenBackTo(h, mem.page, TakenRecords)
    /\ mode = "recovered" =>
         \A s \in Slots : Content(s) = CommittedContent(s)

\* A page is a record of its content and its LSN.
HasLSN(m) == m # NoPage => \E pg, lsn : m = [page |-> pg, lsn |-> lsn]

PagesHaveLSNs ==
    /\ HasLSN(mem) /\ HasLSN(disk)
    /\ mode \in {"redo", "undo"} /\ mem = NoPage => mode = "redo" /\ position \in {1, 2}

Down ==
    /\ durable = Len(log)
    /\ st = [t \in Txns |-> "unborn"] /\ position \in Nat
    /\ Excused \/ \E h : Recovering(h)

AtomicInv ==
    /\ RedoInv
    /\ PagesHaveLSNs
    /\ mode = "up" => Up
    /\ mode # "up" => Down

----------------------------------------------------------------------------
(* Induction over positions, and the account of the space of a page.       *)

\* What holds at a and is handed on holds up to n.
LEMMA Climb ==
    ASSUME NEW S, NEW a \in Nat, NEW n \in Nat, a \in S,
           \A i \in a .. n - 1 : i \in S => i + 1 \in S
    PROVE  \A i \in a .. n : i \in S
<1> DEFINE Rest == {i \in a .. n : i \notin S}
<1> SUFFICES Rest = {}
  OBVIOUS
<1>1. SUFFICES ASSUME Rest # {}
               PROVE  FALSE
  OBVIOUS
<1>2. Rest \in SUBSET Nat
  OBVIOUS
<1>3. PICK x \in Rest : \A y \in Rest : x <= y
  BY <1>1, <1>2, LeastElement
<1>4. x \in a .. n /\ x \notin S /\ x # a
  BY <1>3
<1>5. x - 1 \in a .. n - 1
  BY <1>4
<1>6. x - 1 \in S
  BY <1>3, <1>5
<1>7. (x - 1) + 1 \in S
  BY <1>5, <1>6
<1> QED
  BY <1>4, <1>7

\* The sizes of slots are numbers.
LEMMA Sizes ==
    ASSUME NEW slot \in Slot
    PROVE  /\ SizeOf(slot) \in Nat
           /\ IsFull(slot) => SizeOf(slot) = TupleSize[slot.tuple]
  BY SlotKinds, SpaceAssumption DEF SizeOf

\* Only one slot changes, and the space it gives up or takes is accounted for.
LEMMA AccountChange ==
    ASSUME NEW pg, Accounted(pg), NEW n \in 1 .. Len(pg.slots), NEW pg2, NEW slot \in Slot,
           SlotChanged(pg, pg2, n, slot),
           pg2.free + SizeOf(slot) = pg.free + SizeOf(pg.slots[n])
    PROVE  Accounted(pg2)
<1>1. PICK T : Sums(pg.slots, T) /\ pg.free + T[Len(pg.slots)] = PageSpace
  BY DEF Accounted
<1>2. PICK len : len = Len(pg.slots)
  OBVIOUS
<1>3. PICK old : old = SizeOf(pg.slots[n])
  OBVIOUS
<1>4. PICK new : new = SizeOf(slot)
  OBVIOUS
<1>5. /\ len \in Nat /\ n \in 1 .. len /\ pg.slots[n] \in Slot /\ pg.free \in Nat
      /\ pg2.free \in Nat /\ pg2 \in Page /\ Len(pg2.slots) = len
      /\ pg2.slots[n] = slot
      /\ \A m \in 1 .. len : m # n => pg2.slots[m] = pg.slots[m]
  BY <1>2 DEF Accounted, Page, SlotChanged
<1>6. old \in Nat /\ new \in Nat /\ SlotSize \in Nat
  BY <1>3, <1>4, <1>5, Sizes, SpaceAssumption
<1>7. /\ T \in [0 .. len -> Int] /\ T[0] = 0
      /\ \A k \in 1 .. len : T[k] = T[k - 1] + (SizeOf(pg.slots[k]) + SlotSize)
  BY <1>1, <1>2 DEF Sums
<1> DEFINE T2 == [k \in 0 .. len |-> IF k < n THEN T[k] ELSE (T[k] - old) + new]
<1>8. /\ T2 \in [0 .. len -> Int] /\ T2[0] = 0 /\ T2[len] = (T[len] - old) + new
  <2>1. T2 \in [0 .. len -> Int]
    <3>1. ASSUME NEW k \in 0 .. len PROVE (IF k < n THEN T[k] ELSE (T[k] - old) + new) \in Int
      BY <1>6, <1>7
    <3> QED
      BY <3>1
  <2>2. 0 \in 0 .. len /\ len \in 0 .. len /\ 0 < n /\ ~(len < n)
    BY <1>5
  <2> QED
    BY <1>7, <2>1, <2>2
<1>9. ASSUME NEW k \in 1 .. len
      PROVE  T2[k] = T2[k - 1] + (SizeOf(pg2.slots[k]) + SlotSize)
  <2>1. T[k] = T[k - 1] + (SizeOf(pg.slots[k]) + SlotSize)
    BY <1>7
  <2>2. T[k] \in Int /\ T[k - 1] \in Int /\ k - 1 \in 0 .. len /\ k \in 0 .. len
    <3>1. k - 1 \in 0 .. len /\ k \in 0 .. len
      BY <1>5
    <3>2. T \in [0 .. len -> Int]
      BY <1>7
    <3> QED
      BY <3>1, <3>2
  <2>3. CASE k < n
    <3>1. T2[k] = T[k] /\ T2[k - 1] = T[k - 1]
      BY <1>5, <2>2, <2>3
    <3>2. pg2.slots[k] = pg.slots[k]
      BY <1>5, <2>3
    <3> QED
      BY <2>1, <3>1, <3>2
  <2>4. CASE k = n
    <3>1. T2[k] = (T[k] - old) + new /\ T2[k - 1] = T[k - 1]
      BY <1>5, <2>2, <2>4
    <3>2. SizeOf(pg2.slots[k]) = new /\ SizeOf(pg.slots[k]) = old
      BY <1>3, <1>4, <1>5, <2>4
    <3>3. PICK x, y : x = T[k] /\ y = T[k - 1]
      OBVIOUS
    <3>4. x \in Int /\ y \in Int /\ x = y + (old + SlotSize)
      BY <2>1, <2>2, <3>2, <3>3
    <3>5. (x - old) + new = y + (new + SlotSize)
      BY <1>6, <3>4
    <3> QED
      BY <3>1, <3>2, <3>3, <3>5
  <2>5. CASE k > n
    <3>1. T2[k] = (T[k] - old) + new /\ T2[k - 1] = (T[k - 1] - old) + new
      BY <1>5, <2>2, <2>5
    <3>2. pg2.slots[k] = pg.slots[k] /\ pg.slots[k] \in Slot
      BY <1>2, <1>5, <2>5 DEF Accounted, Page
    <3>3. SizeOf(pg.slots[k]) \in Nat
      BY <3>2, Sizes
    <3>4. PICK x, y, z : x = T[k] /\ y = T[k - 1] /\ z = SizeOf(pg.slots[k])
      OBVIOUS
    <3>5. x \in Int /\ y \in Int /\ z \in Nat /\ x = y + (z + SlotSize)
      BY <2>1, <2>2, <3>3, <3>4
    <3>6. (x - old) + new = ((y - old) + new) + (z + SlotSize)
      BY <1>6, <3>5
    <3> QED
      BY <3>1, <3>2, <3>4, <3>6
  <2> QED
    BY <1>5, <2>3, <2>4, <2>5
<1>10. Sums(pg2.slots, T2)
  BY <1>5, <1>8, <1>9 DEF Sums
<1>11. pg2.free + T2[len] = PageSpace
  <2>1. PICK x, f, g : x = T[len] /\ f = pg.free /\ g = pg2.free
    OBVIOUS
  <2>2. x \in Int /\ f \in Nat /\ g \in Nat /\ PageSpace \in Nat
    BY <1>5, <1>7, <2>1, SpaceAssumption
  <2>3. g + new = f + old
    BY <1>3, <1>4, <2>1
  <2>4. f + x = PageSpace
    BY <1>1, <1>2, <2>1
  <2>5. g + ((x - old) + new) = PageSpace
    BY <1>6, <2>2, <2>3, <2>4
  <2> QED
    BY <1>8, <2>1, <2>5
<1> QED
  BY <1>5, <1>10, <1>11 DEF Accounted

\* A slot is added.
LEMMA AccountAppend ==
    ASSUME NEW pg, Accounted(pg), NEW pg2 \in Page, NEW slot \in Slot,
           pg2.slots = Append(pg.slots, slot),
           pg2.free + (SizeOf(slot) + SlotSize) = pg.free
    PROVE  Accounted(pg2)
<1>1. PICK T : Sums(pg.slots, T) /\ pg.free + T[Len(pg.slots)] = PageSpace
  BY DEF Accounted
<1>2. PICK len : len = Len(pg.slots)
  OBVIOUS
<1>4. PICK new : new = SizeOf(slot) + SlotSize
  OBVIOUS
<1>5. /\ len \in Nat /\ pg.free \in Nat /\ pg2.free \in Nat /\ Len(pg2.slots) = len + 1
      /\ pg2.slots[len + 1] = slot
      /\ \A m \in 1 .. len : pg2.slots[m] = pg.slots[m]
  BY <1>2 DEF Accounted, Page
<1>6. new \in Nat /\ SlotSize \in Nat
  BY <1>4, <1>5, Sizes, SpaceAssumption
<1>7. /\ T \in [0 .. len -> Int] /\ T[0] = 0
      /\ \A k \in 1 .. len : T[k] = T[k - 1] + (SizeOf(pg.slots[k]) + SlotSize)
  BY <1>1, <1>2 DEF Sums
<1> DEFINE T2 == [k \in 0 .. len + 1 |-> IF k <= len THEN T[k] ELSE T[len] + new]
<1>8. /\ T2 \in [0 .. len + 1 -> Int] /\ T2[0] = 0 /\ T2[len + 1] = T[len] + new
  BY <1>5, <1>6, <1>7
<1>9. ASSUME NEW k \in 1 .. len + 1
      PROVE  T2[k] = T2[k - 1] + (SizeOf(pg2.slots[k]) + SlotSize)
  <2>1. CASE k <= len
    <3>1. T2[k] = T[k] /\ T2[k - 1] = T[k - 1] /\ pg2.slots[k] = pg.slots[k]
      BY <1>5, <2>1
    <3> QED
      BY <1>5, <1>7, <2>1, <3>1
  <2>2. CASE k = len + 1
    <3>1. T2[k] = T[len] + new /\ T2[k - 1] = T[len] /\ pg2.slots[k] = slot
      BY <1>5, <1>8, <2>2
    <3> QED
      BY <1>4, <3>1
  <2> QED
    BY <1>5, <2>1, <2>2
<1>10. Sums(pg2.slots, T2)
  BY <1>5, <1>8, <1>9 DEF Sums
<1>11. pg2.free + T2[len + 1] = PageSpace
  <2>1. PICK x, f, g : x = T[len] /\ f = pg.free /\ g = pg2.free
    OBVIOUS
  <2>2. x \in Int /\ f \in Nat /\ g \in Nat /\ PageSpace \in Nat
    BY <1>5, <1>7, <2>1, SpaceAssumption
  <2>3. g + new = f
    BY <1>4, <2>1
  <2>4. f + x = PageSpace
    BY <1>1, <1>2, <2>1
  <2>5. g + (x + new) = PageSpace
    BY <1>6, <2>2, <2>3, <2>4
  <2> QED
    BY <1>8, <2>1, <2>5
<1> QED
  BY <1>5, <1>10, <1>11 DEF Accounted

\* Slots that are no larger leave no less space.
LEMMA Room ==
    ASSUME NEW pg, Accounted(pg), NEW q, Accounted(q), Len(pg.slots) = Len(q.slots),
           \A k \in 1 .. Len(pg.slots) : SizeOf(pg.slots[k]) <= SizeOf(q.slots[k]),
           NEW s \in 1 .. Len(pg.slots)
    PROVE  pg.free + SizeOf(pg.slots[s]) >= q.free + SizeOf(q.slots[s])
<1>1. PICK len : len = Len(pg.slots)
  OBVIOUS
<1>2. PICK T : Sums(pg.slots, T) /\ pg.free + T[len] = PageSpace
  BY <1>1 DEF Accounted
<1>3. PICK U : Sums(q.slots, U) /\ q.free + U[len] = PageSpace
  BY <1>1 DEF Accounted
<1>4. /\ len \in Nat /\ pg.free \in Nat /\ q.free \in Nat /\ PageSpace \in Nat
      /\ \A k \in 1 .. len : pg.slots[k] \in Slot /\ q.slots[k] \in Slot
  BY <1>1, SpaceAssumption DEF Accounted, Page
<1>5. PICK a, b : a = SizeOf(pg.slots[s]) /\ b = SizeOf(q.slots[s])
  OBVIOUS
<1>6. a \in Nat /\ b \in Nat /\ a <= b /\ SlotSize \in Nat /\ s \in 1 .. len
  BY <1>1, <1>4, <1>5, Sizes, SpaceAssumption
<1>7. /\ T \in [0 .. len -> Int] /\ U \in [0 .. len -> Int] /\ T[0] = 0 /\ U[0] = 0
      /\ \A k \in 1 .. len : T[k] = T[k - 1] + (SizeOf(pg.slots[k]) + SlotSize)
      /\ \A k \in 1 .. len : U[k] = U[k - 1] + (SizeOf(q.slots[k]) + SlotSize)
  BY <1>1, <1>2, <1>3 DEF Sums
<1> DEFINE S == {k \in 0 .. len : T[k] <= U[k] /\ (k >= s => T[k] + b <= U[k] + a)}
<1>8. 0 \in S
  BY <1>4, <1>6, <1>7
<1>9. ASSUME NEW k \in 0 .. len - 1, k \in S PROVE k + 1 \in S
  <2>1. k + 1 \in 1 .. len /\ k \in 0 .. len /\ (k + 1) - 1 = k
    BY <1>4
  <2>2. PICK c, d : c = SizeOf(pg.slots[k + 1]) /\ d = SizeOf(q.slots[k + 1])
    OBVIOUS
  <2>3. c \in Nat /\ d \in Nat /\ c <= d
    BY <1>1, <1>4, <2>1, <2>2, Sizes
  <2>4. T[k + 1] = T[k] + (c + SlotSize) /\ U[k + 1] = U[k] + (d + SlotSize)
    BY <1>7, <2>1, <2>2
  <2>5. T[k] \in Int /\ U[k] \in Int /\ T[k] <= U[k] /\ (k >= s => T[k] + b <= U[k] + a)
    BY <1>7, <1>9, <2>1
  <2>6. T[k + 1] <= U[k + 1]
    BY <1>6, <2>3, <2>4, <2>5
  <2>7. ASSUME k + 1 >= s PROVE T[k + 1] + b <= U[k + 1] + a
    <3>1. CASE k >= s
      <4>1. PICK x, y : x = T[k] /\ y = U[k]
        OBVIOUS
      <4>2. x \in Int /\ y \in Int /\ x + b <= y + a
        BY <2>5, <3>1, <4>1
      <4>3. (x + (c + SlotSize)) + b <= (y + (d + SlotSize)) + a
        BY <1>6, <2>3, <4>2
      <4> QED
        BY <2>4, <4>1, <4>3
    <3>2. CASE k + 1 = s
      <4>1. c = a /\ d = b
        BY <1>5, <2>2, <3>2
      <4>2. PICK x, y : x = T[k] /\ y = U[k]
        OBVIOUS
      <4>3. x \in Int /\ y \in Int /\ x <= y
        BY <2>5, <4>2
      <4>4. (x + (a + SlotSize)) + b <= (y + (b + SlotSize)) + a
        BY <1>6, <4>3
      <4> QED
        BY <2>4, <4>1, <4>2, <4>4
    <3> QED
      BY <1>6, <2>1, <2>7, <3>1, <3>2
  <2> QED
    BY <2>1, <2>6, <2>7
<1>10. len \in S
  <2> HIDE DEF S
  <2>1. \A k \in 0 .. len : k \in S
    BY <1>4, <1>8, <1>9, Climb
  <2> QED
    BY <1>4, <2>1
<1>11. PICK x, y, f, g : x = T[len] /\ y = U[len] /\ f = pg.free /\ g = q.free
  OBVIOUS
<1>12. x \in Int /\ y \in Int /\ f \in Nat /\ g \in Nat
  BY <1>4, <1>7, <1>11
<1>13. x + b <= y + a
  BY <1>4, <1>6, <1>10, <1>11
<1>14. f + x = PageSpace /\ g + y = PageSpace
  BY <1>2, <1>3, <1>11
<1>15. f + a >= g + b
  BY <1>4, <1>6, <1>12, <1>13, <1>14
<1> QED
  BY <1>5, <1>11, <1>15

\* The operators of TableSlots keep the account: the removal of a tuple.
LEMMA DropAccount ==
    ASSUME NEW pg, Accounted(pg), NEW n \in 1 .. Len(pg.slots), IsFull(pg.slots[n])
    PROVE  SlotChanged(pg, DropTuple(pg, n), n, EmptySlot) /\ Accounted(DropTuple(pg, n))
<1>1. pg \in Page /\ pg.slots[n] \in Slot /\ pg.free \in Nat
  BY DEF Accounted, Page
<1>2. SlotChanged(pg, DropTuple(pg, n), n, EmptySlot)
  BY <1>1, DropTuplePage
<1>3. SizeOf(EmptySlot) = 0 /\ SizeOf(pg.slots[n]) = TupleSize[pg.slots[n].tuple]
      /\ SizeOf(pg.slots[n]) \in Nat
  BY <1>1, Sizes, SlotKinds DEF SizeOf
<1>4. DropTuple(pg, n).free = pg.free + TupleSize[pg.slots[n].tuple]
  BY DEF DropTuple
<1>5. DropTuple(pg, n).free + SizeOf(EmptySlot) = pg.free + SizeOf(pg.slots[n])
  BY <1>1, <1>3, <1>4
<1> QED
  BY <1>2, <1>5, SlotKinds, AccountChange

\* An update keeps the account.
LEMMA ReplaceAccount ==
    ASSUME NEW pg, Accounted(pg), NEW n \in 1 .. Len(pg.slots), NEW v \in Tuples,
           ~IsDeleted(pg.slots[n]), RoomToUpdate(pg, n, v)
    PROVE  /\ SlotChanged(pg, ReplaceTuple(pg, n, v), n, LiveSlot(v))
           /\ Accounted(ReplaceTuple(pg, n, v))
<1>1. pg \in Page /\ pg.slots[n] \in Slot /\ pg.free \in Nat /\ IsFull(pg.slots[n])
  BY SlotKinds DEF Accounted, Page
<1>2. SlotChanged(pg, ReplaceTuple(pg, n, v), n, LiveSlot(v))
  BY <1>1, ReplaceTuplePage
<1>3. PICK f, a, b : f = pg.free /\ a = TupleSize[pg.slots[n].tuple] /\ b = TupleSize[v]
  OBVIOUS
<1>4. f \in Nat /\ a \in Nat /\ b \in Nat /\ SizeOf(LiveSlot(v)) = b /\ SizeOf(pg.slots[n]) = a
  BY <1>1, <1>3, Sizes, SlotKinds, SpaceAssumption
<1>5. ReplaceTuple(pg, n, v).free = (f + a) - b
  BY <1>3 DEF ReplaceTuple
<1>6. ReplaceTuple(pg, n, v).free + SizeOf(LiveSlot(v)) = pg.free + SizeOf(pg.slots[n])
  BY <1>3, <1>4, <1>5
<1> QED
  BY <1>2, <1>6, SlotKinds, AccountChange

\* So does a mark.
LEMMA MarkAccount ==
    ASSUME NEW pg, Accounted(pg), NEW n \in 1 .. Len(pg.slots), ~IsDeleted(pg.slots[n])
    PROVE  /\ SlotChanged(pg, MarkTuple(pg, n), n, MarkedSlot(pg.slots[n].tuple))
           /\ Accounted(MarkTuple(pg, n))
<1>1. pg \in Page /\ pg.slots[n] \in Slot /\ IsFull(pg.slots[n]) /\ pg.slots[n].tuple \in Tuples
  BY SlotKinds DEF Accounted, Page
<1>2. SlotChanged(pg, MarkTuple(pg, n), n, MarkedSlot(pg.slots[n].tuple))
  BY <1>1, MarkTuplePage
<1>3. MarkTuple(pg, n).free = pg.free
  BY <1>1 DEF MarkTuple, Page
<1>4. MarkedSlot(pg.slots[n].tuple) \in Slot
      /\ SizeOf(MarkedSlot(pg.slots[n].tuple)) = SizeOf(pg.slots[n])
  BY <1>1, SlotKinds DEF SizeOf
<1> QED
  BY <1>2, <1>3, <1>4, AccountChange

\* So does the removal of a mark.
LEMMA UnmarkAccount ==
    ASSUME NEW pg, Accounted(pg), NEW n \in 1 .. Len(pg.slots), IsFull(pg.slots[n])
    PROVE  /\ SlotChanged(pg, UnmarkTuple(pg, n), n, LiveSlot(pg.slots[n].tuple))
           /\ Accounted(UnmarkTuple(pg, n))
<1>1. pg \in Page /\ pg.slots[n] \in Slot /\ pg.slots[n].tuple \in Tuples
  BY SlotKinds DEF Accounted, Page
<1>2. SlotChanged(pg, UnmarkTuple(pg, n), n, LiveSlot(pg.slots[n].tuple))
  BY <1>1, UnmarkTuplePage
<1>3. UnmarkTuple(pg, n).free = pg.free
  BY <1>1 DEF UnmarkTuple, Page
<1>4. LiveSlot(pg.slots[n].tuple) \in Slot
      /\ SizeOf(LiveSlot(pg.slots[n].tuple)) = SizeOf(pg.slots[n])
  BY <1>1, SlotKinds DEF SizeOf
<1> QED
  BY <1>2, <1>3, <1>4, AccountChange

\* A record whose operator changes its slot the way SlotEffect says.
LEMMA ChangedEffect ==
    ASSUME NEW pg, Accounted(pg), NEW pg2, NEW r, NEW slot, pg2 = Redone(pg, r),
           r.slot \in 1 .. Len(pg.slots), SlotChanged(pg, pg2, r.slot, slot),
           SlotEffect(r, pg.slots[r.slot], slot)
    PROVE  Effect(pg, r, pg2)
<1>1. /\ Len(pg.slots) \in Nat /\ Len(pg2.slots) = Len(pg.slots) /\ pg2.slots[r.slot] = slot
      /\ \A m \in 1 .. Len(pg.slots) : m # r.slot => pg2.slots[m] = pg.slots[m]
  BY DEF Accounted, Page, SlotChanged
<1>2. \A s \in Nat \ {r.slot} : At(pg2, s) = At(pg, s)
  BY <1>1 DEF At
<1>3. At(pg, r.slot) = pg.slots[r.slot] /\ At(pg2, r.slot) = slot
  BY <1>1 DEF At
<1> QED
  BY <1>1, <1>2, <1>3 DEF Effect

\* InsertTuple.
LEMMA PutEffect ==
    ASSUME NEW pg, Accounted(pg), NEW v \in Tuples, RoomToInsert(pg, v), NEW r,
           r.type = "INSERT", r.tuple = v, r.slot = InsertSlot(pg)
    PROVE  Accounted(PutTuple(pg, v)) /\ Effect(pg, r, PutTuple(pg, v))
<1>1. pg \in Page /\ Len(pg.slots) \in Nat /\ pg.free \in Nat /\ pg.slots \in Seq(Slot)
  BY DEF Accounted, Page
<1>2. PICK n : n = InsertSlot(pg)
  OBVIOUS
<1>3. n \in 1 .. Len(pg.slots) + 1 /\ (n <= Len(pg.slots) => pg.slots[n] = EmptySlot)
  BY <1>1, <1>2, InsertSlotIsFree
<1>4. PICK pg2 : pg2 = PutTuple(pg, v)
  OBVIOUS
<1>5. /\ pg2 \in Page
      /\ Len(pg2.slots) = IF n <= Len(pg.slots) THEN Len(pg.slots) ELSE Len(pg.slots) + 1
      /\ pg2.slots[n] = LiveSlot(v)
      /\ \A m \in 1 .. Len(pg.slots) : m # n => pg2.slots[m] = pg.slots[m]
  BY <1>1, <1>2, <1>4, PutTuplePage
<1>6. PICK f, a : f = pg.free /\ a = TupleSize[v]
  OBVIOUS
<1>7. /\ f \in Nat /\ a \in Nat /\ SlotSize \in Nat /\ f >= a + SlotSize
      /\ SizeOf(LiveSlot(v)) = a /\ SizeOf(EmptySlot) = 0 /\ LiveSlot(v) \in Slot
  BY <1>1, <1>6, Sizes, SlotKinds, SpaceAssumption DEF RoomToInsert, SizeOf
<1>8. Accounted(pg2)
  <2>1. CASE n <= Len(pg.slots)
    <3>1. pg2.free = f - a
      BY <1>2, <1>4, <1>6, <2>1 DEF PutTuple
    <3>2. pg2.free + SizeOf(LiveSlot(v)) = pg.free + SizeOf(pg.slots[n])
      BY <1>3, <1>6, <1>7, <2>1, <3>1
    <3>3. SlotChanged(pg, pg2, n, LiveSlot(v)) /\ n \in 1 .. Len(pg.slots)
      BY <1>1, <1>3, <1>5, <2>1 DEF SlotChanged
    <3> QED
      BY <1>7, <3>2, <3>3, AccountChange
  <2>2. CASE ~(n <= Len(pg.slots))
    <3>1. pg2 = [free |-> (pg.free - TupleSize[v]) - SlotSize, slots |-> Append(pg.slots, LiveSlot(v))]
      BY <1>2, <1>4, <2>2 DEF PutTuple
    <3>2. pg2.free = (f - a) - SlotSize /\ pg2.slots = Append(pg.slots, LiveSlot(v))
      BY <1>6, <3>1
    <3>3. pg2.free + (SizeOf(LiveSlot(v)) + SlotSize) = pg.free
      BY <1>6, <1>7, <3>2
    <3> QED
      BY <1>5, <1>7, <3>2, <3>3, AccountAppend
  <2> QED
    BY <2>1, <2>2
<1>9. Effect(pg, r, pg2)
  <2>1. pg2 = Redone(pg, r)
    BY <1>4 DEF Redone, PageInsert
  <2>2. Len(pg2.slots) >= Len(pg.slots) /\ n \in 1 .. Len(pg2.slots)
    BY <1>1, <1>3, <1>5
  <2>3. \A s \in Nat \ {n} : At(pg2, s) = At(pg, s)
    <3>1. CASE n <= Len(pg.slots)
      BY <1>1, <1>5, <3>1 DEF At
    <3>2. CASE ~(n <= Len(pg.slots))
      <4>1. n = Len(pg.slots) + 1 /\ Len(pg2.slots) = Len(pg.slots) + 1
        BY <1>1, <1>3, <1>5, <3>2
      <4> QED
        BY <1>1, <1>5, <4>1 DEF At
    <3> QED
      BY <3>1, <3>2
  <2>4. At(pg2, n) = LiveSlot(v) /\ ~IsFull(At(pg, n))
    BY <1>1, <1>3, <1>5, <2>2, SlotKinds DEF At
  <2>5. SlotEffect(r, At(pg, n), At(pg2, n))
    BY <2>4 DEF SlotEffect
  <2> QED
    BY <1>2, <2>1, <2>2, <2>3, <2>5 DEF Effect
<1> QED
  BY <1>4, <1>8, <1>9

\* UpdateTuple.
LEMMA ReplaceEffect ==
    ASSUME NEW pg, Accounted(pg), NEW n \in 1 .. Len(pg.slots), NEW v \in Tuples,
           ~IsDeleted(pg.slots[n]), RoomToUpdate(pg, n, v),
           NEW r, r.type = "UPDATE", r.slot = n, r.old = pg.slots[n].tuple, r.new = v
    PROVE  Accounted(ReplaceTuple(pg, n, v)) /\ Effect(pg, r, ReplaceTuple(pg, n, v))
<1>1. /\ SlotChanged(pg, ReplaceTuple(pg, n, v), n, LiveSlot(v))
      /\ Accounted(ReplaceTuple(pg, n, v))
  BY ReplaceAccount
<1>2. Len(pg.slots) \in Nat /\ pg.slots[n] \in Slot
  BY DEF Accounted, Page
<1>3. ReplaceTuple(pg, n, v) = Redone(pg, r)
  BY <1>2 DEF Redone, PageUpdate, NoTuple
<1>4. SlotEffect(r, pg.slots[n], LiveSlot(v))
  BY <1>2, SlotKinds DEF SlotEffect
<1> QED
  BY <1>1, <1>3, <1>4, ChangedEffect

\* MarkDelete.
LEMMA MarkEffect ==
    ASSUME NEW pg, Accounted(pg), NEW n \in 1 .. Len(pg.slots), ~IsDeleted(pg.slots[n]),
           NEW r, r.type = "MARKDELETE", r.slot = n
    PROVE  Accounted(MarkTuple(pg, n)) /\ Effect(pg, r, MarkTuple(pg, n))
<1>1. /\ SlotChanged(pg, MarkTuple(pg, n), n, MarkedSlot(pg.slots[n].tuple))
      /\ Accounted(MarkTuple(pg, n))
  BY MarkAccount
<1>2. Len(pg.slots) \in Nat /\ pg.slots[n] \in Slot
  BY DEF Accounted, Page
<1>3. MarkTuple(pg, n) = Redone(pg, r)
  BY <1>2 DEF Redone, PageMark, NoTuple
<1>4. SlotEffect(r, pg.slots[n], MarkedSlot(pg.slots[n].tuple))
  BY DEF SlotEffect
<1> QED
  BY <1>1, <1>3, <1>4, ChangedEffect

\* RollbackDelete of a marked tuple.
LEMMA UnmarkEffect ==
    ASSUME NEW pg, Accounted(pg), NEW n \in 1 .. Len(pg.slots),
           IsFull(pg.slots[n]), IsDeleted(pg.slots[n]),
           NEW r, r.type = "ROLLBACKDELETE", r.slot = n
    PROVE  Accounted(UnmarkTuple(pg, n)) /\ Effect(pg, r, UnmarkTuple(pg, n))
<1>1. /\ SlotChanged(pg, UnmarkTuple(pg, n), n, LiveSlot(pg.slots[n].tuple))
      /\ Accounted(UnmarkTuple(pg, n))
  BY UnmarkAccount
<1>3. UnmarkTuple(pg, n) = Redone(pg, r)
  BY DEF Redone
<1>4. SlotEffect(r, pg.slots[n], LiveSlot(pg.slots[n].tuple))
  BY DEF SlotEffect
<1> QED
  BY <1>1, <1>3, <1>4, ChangedEffect

\* ApplyDelete.
LEMMA DropEffect ==
    ASSUME NEW pg, Accounted(pg), NEW n \in 1 .. Len(pg.slots), IsFull(pg.slots[n]),
           NEW r, r.type = "APPLYDELETE", r.slot = n
    PROVE  Accounted(DropTuple(pg, n)) /\ Effect(pg, r, DropTuple(pg, n))
<1>1. SlotChanged(pg, DropTuple(pg, n), n, EmptySlot) /\ Accounted(DropTuple(pg, n))
  BY DropAccount
<1>3. DropTuple(pg, n) = Redone(pg, r)
  BY DEF Redone
<1>4. SlotEffect(r, pg.slots[n], EmptySlot)
  BY DEF SlotEffect
<1> QED
  BY <1>1, <1>3, <1>4, ChangedEffect

----------------------------------------------------------------------------
(* What the log says when the unfinished transactions left only records    *)
(* that can be taken back.                                                 *)

Settled(h) ==
    /\ IsSeq(log) /\ Len(log) >= 4
    /\ ~AboutThePage(log[1])
    /\ LogFacts(log, h)
    /\ \A i \in LoserRecords : Reversible(i)

\* The positions of the log.
LEMMA Positions ==
    ASSUME IsSeq(log)
    PROVE  Len(log) \in Nat /\ Records = 1 .. Len(log) /\ LoserRecords \subseteq 1 .. Len(log)
  BY DEF IsSeq, Records, LoserRecords

\* The types of the records about the page.
LEMMA PageTypes ==
    ASSUME NEW r, NEW s
    PROVE  About(r, s) <=> /\ r.slot = s
                           /\ r.type \in {"INSERT", "APPLYDELETE", "MARKDELETE",
                                          "ROLLBACKDELETE", "UPDATE"}
  BY DEF About, AboutThePage

\* What is in a slot is a slot.
LEMMA AtIsSlot ==
    ASSUME NEW pg \in Page, NEW s
    PROVE  At(pg, s) \in Slot
  BY SlotKinds DEF At, Page

\* One record and one slot.
LEMMA SlotStep ==
    ASSUME NEW h, Settled(h), NEW i \in 2 .. Len(log), NEW s \in Nat
    PROVE  /\ At(h[i - 1], s) \in Slot /\ At(h[i], s) \in Slot
           /\ Len(h[i - 1].slots) \in Nat /\ Len(h[i].slots) \in Nat
           /\ Len(h[i].slots) >= Len(h[i - 1].slots)
           /\ About(log[i], s) => /\ s \in 1 .. Len(h[i].slots)
                                  /\ SlotEffect(log[i], At(h[i - 1], s), At(h[i], s))
           /\ ~About(log[i], s) => At(h[i], s) = At(h[i - 1], s)
<1>1. Len(log) \in Nat /\ i \in 1 .. Len(log) /\ i - 1 \in 1 .. Len(log)
  BY Positions DEF Settled
<1>2. PagesFollow(log, h)
  BY DEF Settled, LogFacts
<1>3. PICK pg, pg2 : pg = h[i - 1] /\ pg2 = h[i]
  OBVIOUS
<1>4. pg \in Page /\ pg2 \in Page /\ Follows(pg, log[i], pg2)
  BY <1>1, <1>2, <1>3 DEF PagesFollow, Accounted
<1>5. At(pg, s) \in Slot /\ At(pg2, s) \in Slot /\ Len(pg.slots) \in Nat /\ Len(pg2.slots) \in Nat
  BY <1>4, AtIsSlot DEF Page
<1>6. CASE AboutThePage(log[i])
  <2>1. Effect(pg, log[i], pg2)
    BY <1>4, <1>6 DEF Follows
  <2>2. Len(pg2.slots) >= Len(pg.slots)
    BY <2>1 DEF Effect
  <2>3. About(log[i], s) => s \in 1 .. Len(pg2.slots) /\ SlotEffect(log[i], At(pg, s), At(pg2, s))
    BY <2>1 DEF Effect, About
  <2>4. ~About(log[i], s) => At(pg2, s) = At(pg, s)
    BY <1>6, <2>1 DEF Effect, About
  <2> QED
    BY <1>3, <1>5, <2>2, <2>3, <2>4
<1>7. CASE ~AboutThePage(log[i])
  <2>1. pg2 = pg /\ ~About(log[i], s)
    BY <1>4, <1>7 DEF Follows, About
  <2>2. At(pg2, s) = At(pg, s) /\ Len(pg2.slots) >= Len(pg.slots)
    BY <1>5, <2>1
  <2> QED
    BY <1>3, <1>5, <2>1, <2>2
<1> QED
  BY <1>6, <1>7

\* A page never loses slots.
LEMMA PagesGrow ==
    ASSUME NEW h, Settled(h), NEW i \in 1 .. Len(log)
    PROVE  \A j \in i .. Len(log) : Len(h[i].slots) <= Len(h[j].slots)
<1> DEFINE S == {j \in i .. Len(log) : /\ Len(h[j].slots) \in Nat
                                       /\ Len(h[i].slots) <= Len(h[j].slots)}
<1>1. Len(log) \in Nat /\ i \in Nat /\ Len(log) >= 4
  BY Positions DEF Settled
<1>2. h[i] \in Page
  BY DEF Settled, LogFacts, PagesFollow, Accounted
<1>3. i \in S
  BY <1>1, <1>2 DEF Page
<1>4. ASSUME NEW j \in i .. Len(log) - 1, j \in S PROVE j + 1 \in S
  <2>1. j + 1 \in 2 .. Len(log) /\ (j + 1) - 1 = j /\ 1 \in Nat /\ j + 1 \in i .. Len(log)
    BY <1>1
  <2>2. Len(h[j + 1].slots) \in Nat /\ Len(h[j + 1].slots) >= Len(h[j].slots)
    BY <2>1, SlotStep
  <2>3. Len(h[i].slots) \in Nat /\ Len(h[j].slots) \in Nat /\ Len(h[i].slots) <= Len(h[j].slots)
    BY <1>2, <1>4 DEF Page
  <2>4. Len(h[i].slots) <= Len(h[j + 1].slots)
    <3>1. PICK x, y, z : x = Len(h[i].slots) /\ y = Len(h[j].slots) /\ z = Len(h[j + 1].slots)
      OBVIOUS
    <3>2. x \in Nat /\ y \in Nat /\ z \in Nat /\ x <= y /\ z >= y
      BY <2>2, <2>3, <3>1
    <3>3. x <= z
      BY <3>2
    <3> QED
      BY <3>1, <3>3
  <2> QED
    BY <2>1, <2>2, <2>4
<1>5. \A j \in i .. Len(log) : j \in S
  <2> HIDE DEF S
  <2> QED
    BY <1>1, <1>3, <1>4, Climb
<1> QED
  BY <1>5

\* A slot no record is about stays as it is.
LEMMA SlotStays ==
    ASSUME NEW h, Settled(h), NEW s \in Nat, NEW i \in 1 .. Len(log), NEW n \in i .. Len(log),
           \A k \in i + 1 .. n : ~About(log[k], s)
    PROVE  At(h[n], s) = At(h[i], s)
<1> DEFINE S == {j \in i .. n : At(h[j], s) = At(h[i], s)}
<1>1. Len(log) \in Nat /\ i \in Nat /\ n \in Nat
  BY Positions DEF Settled
<1>2. i \in S
  BY <1>1
<1>3. ASSUME NEW j \in i .. n - 1, j \in S PROVE j + 1 \in S
  <2>1. j + 1 \in 2 .. Len(log) /\ (j + 1) - 1 = j /\ j + 1 \in i + 1 .. n /\ j + 1 \in i .. n
    BY <1>1
  <2>2. At(h[j + 1], s) = At(h[j], s)
    BY <2>1, SlotStep
  <2> QED
    BY <1>3, <2>1, <2>2
<1>4. \A j \in i .. n : j \in S
  <2> HIDE DEF S
  <2> QED
    BY <1>1, <1>2, <1>3, Climb
<1> QED
  BY <1>1, <1>4

\* The records behind the base are of unfinished transactions.
LEMMA BehindBase ==
    ASSUME NEW h, Settled(h), NEW s \in Nat, NEW b, Base(s, b),
           NEW i \in b + 1 .. Len(log), About(log[i], s)
    PROVE  /\ i \in LoserRecords
           /\ log[i].type \in {"INSERT", "MARKDELETE", "ROLLBACKDELETE", "UPDATE"}
           /\ log[i].type = "UPDATE" => TupleSize[log[i].new] >= TupleSize[log[i].old]
<1>1. Len(log) \in Nat /\ Records = 1 .. Len(log) /\ b \in 1 .. Len(log)
  BY Positions DEF Settled, Base
<1>2. i \in Records /\ ~(i <= b)
  BY <1>1
<1>3. i \in LoserRecords
  BY <1>2 DEF Base
<1>4. Reversible(i)
  BY <1>3 DEF Settled
<1> QED
  BY <1>3, <1>4, PageTypes DEF Reversible

\* What one record behind the base makes of a tuple in its slot.
LEMMA BehindBaseStep ==
    ASSUME NEW h, Settled(h), NEW s \in Nat, NEW b, Base(s, b),
           NEW j \in b .. Len(log) - 1, IsFull(At(h[j], s))
    PROVE  /\ IsFull(At(h[j + 1], s))
           /\ SizeOf(At(h[j], s)) <= SizeOf(At(h[j + 1], s))
           /\ ~Is(j + 1, "UPDATE", s) => At(h[j + 1], s).tuple = At(h[j], s).tuple
<1>1. Len(log) \in Nat /\ b \in 1 .. Len(log)
  BY Positions DEF Settled, Base
<1>2. j + 1 \in 2 .. Len(log) /\ (j + 1) - 1 = j /\ j + 1 \in b + 1 .. Len(log)
  BY <1>1
<1>3. PICK x, y, r : x = At(h[j], s) /\ y = At(h[j + 1], s) /\ r = log[j + 1]
  OBVIOUS
<1>4. /\ x \in Slot /\ y \in Slot /\ IsFull(x)
      /\ About(r, s) => SlotEffect(r, x, y)
      /\ ~About(r, s) => y = x
  BY <1>2, <1>3, SlotStep
<1>5. x.tuple \in Tuples /\ SizeOf(x) = TupleSize[x.tuple] /\ SizeOf(x) \in Nat
  BY <1>4, Sizes, SlotKinds
<1>6. CASE ~About(r, s)
  BY <1>3, <1>4, <1>5, <1>6
<1>7. CASE About(r, s)
  <2>1. /\ r.type \in {"INSERT", "MARKDELETE", "ROLLBACKDELETE", "UPDATE"}
        /\ r.type = "UPDATE" => TupleSize[r.new] >= TupleSize[r.old]
    BY <1>2, <1>3, <1>7, BehindBase
  <2>2. CASE r.type = "INSERT"
    BY <1>4, <1>7, <2>2 DEF SlotEffect
  <2>3. CASE r.type \in {"MARKDELETE", "ROLLBACKDELETE"}
    <3>1. y = MarkedSlot(x.tuple) \/ y = LiveSlot(x.tuple)
      BY <1>4, <1>7, <2>3 DEF SlotEffect
    <3>2. IsFull(y) /\ y.tuple = x.tuple
      BY <3>1, SlotKinds
    <3>3. SizeOf(y) = TupleSize[y.tuple]
      BY <1>4, <3>2, Sizes
    <3> QED
      BY <1>3, <1>5, <3>2, <3>3
  <2>4. CASE r.type = "UPDATE"
    <3>1. x = LiveSlot(r.old) /\ y = LiveSlot(r.new) /\ r.old \in Tuples /\ r.new \in Tuples
      BY <1>4, <1>7, <2>4 DEF SlotEffect
    <3>2. IsFull(y) /\ y.tuple = r.new /\ x.tuple = r.old
      BY <3>1, SlotKinds
    <3>3. SizeOf(y) = TupleSize[r.new] /\ SizeOf(x) = TupleSize[r.old]
      BY <1>4, <3>2, Sizes
    <3>4. Is(j + 1, "UPDATE", s)
      BY <1>3, <1>7, <2>4 DEF Is, About
    <3> QED
      BY <1>3, <1>4, <2>1, <2>4, <3>2, <3>3, <3>4, Sizes
  <2> QED
    BY <2>1, <2>2, <2>3, <2>4
<1> QED
  BY <1>6, <1>7

\* From the base on, a slot that holds a tuple holds one that is no smaller, and
\* the same one as long as there is no update.
LEMMA FullStays ==
    ASSUME NEW h, Settled(h), NEW s \in Nat, NEW b, Base(s, b),
           NEW i \in b .. Len(log), IsFull(At(h[i], s)), NEW n \in i .. Len(log)
    PROVE  /\ IsFull(At(h[n], s))
           /\ SizeOf(At(h[i], s)) <= SizeOf(At(h[n], s))
           /\ (\A k \in i + 1 .. n : ~Is(k, "UPDATE", s)) =>
                At(h[n], s).tuple = At(h[i], s).tuple
<1> DEFINE S == {j \in i .. n :
        /\ IsFull(At(h[j], s))
        /\ SizeOf(At(h[i], s)) <= SizeOf(At(h[j], s))
        /\ (\A k \in i + 1 .. j : ~Is(k, "UPDATE", s)) => At(h[j], s).tuple = At(h[i], s).tuple}
<1>1. Len(log) \in Nat /\ b \in 1 .. Len(log) /\ i \in Nat /\ n \in Nat
  BY Positions DEF Settled, Base
<1>0. \A j \in 1 .. Len(log) : At(h[j], s) \in Slot
  BY AtIsSlot DEF Settled, LogFacts, PagesFollow, Accounted
<1>s. \A j \in 1 .. Len(log) : SizeOf(At(h[j], s)) \in Nat
  BY <1>0, Sizes
<1>2. i \in S
  <2>1. i \in 1 .. Len(log)
    BY <1>1
  <2>2. SizeOf(At(h[i], s)) <= SizeOf(At(h[i], s))
    BY <1>s, <2>1
  <2> QED
    BY <1>1, <2>2
<1>3. ASSUME NEW j \in i .. n - 1, j \in S PROVE j + 1 \in S
  <2>1. /\ j \in b .. Len(log) - 1 /\ j + 1 \in i .. n
        /\ i \in 1 .. Len(log) /\ j \in 1 .. Len(log) /\ j + 1 \in 1 .. Len(log)
    BY <1>1
  <2>2. /\ IsFull(At(h[j], s)) /\ SizeOf(At(h[i], s)) <= SizeOf(At(h[j], s))
        /\ (\A k \in i + 1 .. j : ~Is(k, "UPDATE", s)) => At(h[j], s).tuple = At(h[i], s).tuple
    BY <1>3
  <2>3. /\ IsFull(At(h[j + 1], s))
        /\ SizeOf(At(h[j], s)) <= SizeOf(At(h[j + 1], s))
        /\ ~Is(j + 1, "UPDATE", s) => At(h[j + 1], s).tuple = At(h[j], s).tuple
    BY <2>1, <2>2, BehindBaseStep
  <2>4. SizeOf(At(h[i], s)) <= SizeOf(At(h[j + 1], s))
    <3>1. PICK x, y, z : x = SizeOf(At(h[i], s)) /\ y = SizeOf(At(h[j], s))
                         /\ z = SizeOf(At(h[j + 1], s))
      OBVIOUS
    <3>2. x \in Nat /\ y \in Nat /\ z \in Nat /\ x <= y /\ y <= z
      BY <1>s, <2>1, <2>2, <2>3, <3>1
    <3> QED
      BY <3>1, <3>2
  <2>5. ASSUME \A k \in i + 1 .. j + 1 : ~Is(k, "UPDATE", s)
        PROVE  At(h[j + 1], s).tuple = At(h[i], s).tuple
    <3>1. j + 1 \in i + 1 .. j + 1 /\ \A k \in i + 1 .. j : k \in i + 1 .. j + 1
      BY <1>1
    <3> QED
      BY <2>2, <2>3, <2>5, <3>1
  <2> QED
    BY <2>1, <2>3, <2>4, <2>5
<1>4. \A j \in i .. n : j \in S
  <2> HIDE DEF S
  <2> QED
    BY <1>1, <1>2, <1>3, Climb
<1> QED
  BY <1>1, <1>4

\* The transactions that committed.
LEMMA CommittedRecords ==
    ASSUME NEW i \in Records
    PROVE  i \notin LoserRecords <=>
             \E c \in Records : log[c].type = "COMMIT" /\ log[c].txn = log[i].txn
  BY DEF LoserRecords, Winners

\* A transaction with only reversible records has no end.
LEMMA LosersHaveNoEnd ==
    ASSUME NEW h, Settled(h), NEW i \in LoserRecords, NEW e \in Records,
           Ends(log[e]), log[e].txn = log[i].txn
    PROVE  FALSE
<1>1. i \in Records /\ log[i].txn \notin Winners
  BY DEF LoserRecords
<1>2. e \in LoserRecords
  BY <1>1 DEF LoserRecords
<1>3. log[e].type # "ABORT"
  BY <1>2 DEF Settled, Reversible
<1>4. log[e].type = "COMMIT"
  BY <1>3 DEF Ends
<1> QED
  BY <1>1, <1>4 DEF Winners

\* It keeps the slots it writes.
LEMMA LosersKeepSlots ==
    ASSUME NEW h, Settled(h), NEW i \in LoserRecords, AboutThePage(log[i]),
           NEW j \in Records, i < j, About(log[j], log[i].slot)
    PROVE  log[j].txn = log[i].txn
<1>1. Len(log) \in Nat /\ Records = 1 .. Len(log) /\ i \in Records
  BY Positions DEF Settled, LoserRecords
<1>2. SUFFICES ASSUME log[j].txn # log[i].txn
               PROVE  FALSE
  OBVIOUS
<1>3. PICK e \in i + 1 .. j - 1 : Ends(log[e]) /\ log[e].txn = log[i].txn
  BY <1>1, <1>2 DEF Settled, LogFacts, SlotsAreLocked
<1>4. e \in Records
  BY <1>1
<1> QED
  BY <1>3, <1>4, LosersHaveNoEnd

\* A set of positions has a last one.
LEMMA LastElement ==
    ASSUME NEW n \in Nat, NEW S, S \subseteq 1 .. n, S # {}
    PROVE  \E p \in S : \A j \in S : j <= p
<1> DEFINE D == {n - j : j \in S}
<1>1. D \in SUBSET Nat /\ D # {}
  <2>1. ASSUME NEW j \in S PROVE n - j \in Nat
    <3>1. j \in 1 .. n
      OBVIOUS
    <3> QED
      BY <3>1
  <2> QED
    BY <2>1
<1>2. PICK d \in D : \A e \in D : d <= e
  BY <1>1, LeastElement
<1>3. PICK p \in S : d = n - p
  BY <1>2
<1>4. ASSUME NEW j \in S PROVE j <= p
  <2>1. n - j \in D /\ d <= n - j
    BY <1>2
  <2>2. j \in 1 .. n /\ p \in 1 .. n
    OBVIOUS
  <2> QED
    BY <1>3, <2>1, <2>2
<1> QED
  BY <1>3, <1>4

Committed(s) == {i \in Records \ LoserRecords : About(log[i], s)}

\* Every slot has a base: its last record of a committed transaction, if any.
LEMMA BaseExists ==
    ASSUME NEW h, Settled(h), NEW s \in Nat
    PROVE  /\ Committed(s) = {} => Base(s, 1)
           /\ \A p \in Committed(s) : (\A j \in Committed(s) : j <= p) => Base(s, p)
<1>1. Len(log) \in Nat /\ Len(log) >= 4 /\ Records = 1 .. Len(log)
  BY Positions DEF Settled
<1>2. ASSUME Committed(s) = {} PROVE Base(s, 1)
  <2>1. ASSUME NEW i \in Records, About(log[i], s) PROVE i <= 1 <=> i \notin LoserRecords
    <3>1. i \in LoserRecords
      BY <1>2, <2>1 DEF Committed
    <3>2. i # 1
      BY <2>1 DEF Settled, About
    <3> QED
      BY <1>1, <3>1, <3>2
  <2> QED
    BY <1>1, <2>1 DEF Base
<1>3. ASSUME NEW p \in Committed(s), \A j \in Committed(s) : j <= p PROVE Base(s, p)
  <2>0. p \in Records /\ p \notin LoserRecords /\ About(log[p], s)
    BY DEF Committed
  <2>1. ASSUME NEW i \in Records, About(log[i], s) PROVE i <= p <=> i \notin LoserRecords
    <3>1. ASSUME i \notin LoserRecords PROVE i <= p
      BY <1>3, <2>1, <3>1 DEF Committed
    <3>2. ASSUME i <= p, i \in LoserRecords PROVE FALSE
      <4>1. i < p
        BY <1>1, <2>0, <3>2
      <4>2. AboutThePage(log[i]) /\ log[i].slot = s
        BY <2>1 DEF About
      <4>3. log[p].txn = log[i].txn
        BY <2>0, <3>2, <4>1, <4>2, LosersKeepSlots
      <4> QED
        BY <2>0, <3>2, <4>3 DEF LoserRecords
    <3> QED
      BY <3>1, <3>2
  <2> QED
    BY <1>1, <2>0, <2>1 DEF Base
<1> QED
  BY <1>2, <1>3

\* The last record of committed transactions about a slot leaves no mark.
LEMMA LastCommittedType ==
    ASSUME NEW h, Settled(h), NEW s \in Nat, NEW p \in Committed(s),
           \A j \in Committed(s) : j <= p
    PROVE  log[p].type \in {"INSERT", "APPLYDELETE", "UPDATE"}
<1>1. Len(log) \in Nat /\ Records = 1 .. Len(log)
  BY Positions DEF Settled
<1>2. p \in Records /\ p \notin LoserRecords /\ About(log[p], s)
  BY DEF Committed
<1>3. PICK c \in Records : log[c].type = "COMMIT" /\ log[c].txn = log[p].txn
  BY <1>2, CommittedRecords
<1>4. p <= c
  <2>1. Ends(log[c])
    BY <1>3 DEF Ends
  <2> QED
    BY <1>1, <1>2, <1>3, <2>1 DEF Settled, LogFacts, EndsAreLast
<1>5. /\ log[p].type # "ROLLBACKDELETE"
      /\ log[p].type = "MARKDELETE" => Applied(log, p, c)
  BY <1>1, <1>2, <1>3, <1>4 DEF Settled, LogFacts, CommitsAreClean
<1>6. ASSUME log[p].type = "MARKDELETE" PROVE FALSE
  <2>1. PICK j \in p + 1 .. c : /\ log[j].type = "APPLYDELETE" /\ About(log[j], log[p].slot)
                                /\ log[j].txn = log[p].txn
    BY <1>5, <1>6 DEF Applied
  <2>2. j \in Records /\ ~(j <= p)
    BY <1>1, <1>2
  <2>3. j \notin LoserRecords
    BY <1>2, <2>1, <2>2 DEF LoserRecords
  <2>4. j \in Committed(s)
    BY <1>2, <2>1, <2>2, <2>3 DEF Committed, About
  <2> QED
    BY <2>2, <2>4
<1> QED
  BY <1>2, <1>5, <1>6, PageTypes

\* The content that the last of some records about a slot left.
LastContent(S) ==
    LET last == log[CHOOSE i \in S : \A j \in S : j <= i]
    IN IF S = {} THEN EmptySlot
       ELSE CASE last.type = "INSERT" -> LiveSlot(last.tuple)
              [] last.type = "UPDATE" -> LiveSlot(last.new)
              [] OTHER -> EmptySlot

\* At its base a slot holds what the committed transactions left in it.
LEMMA BaseContent ==
    ASSUME NEW h, Settled(h), NEW s \in Nat, NEW b, Base(s, b)
    PROVE  /\ At(h[b], s) = CommittedContent(s)
           /\ IsFull(At(h[b], s)) => ~IsDeleted(At(h[b], s))
<1>1. Len(log) \in Nat /\ Records = 1 .. Len(log) /\ b \in 1 .. Len(log) /\ Len(log) >= 4
  BY Positions DEF Settled, Base
<1>2. PICK S : S = Committed(s)
  OBVIOUS
<1>3. CommittedContent(s) = LastContent(S)
  BY <1>2 DEF CommittedContent, LastContent, Committed, About
<1>4. S \subseteq 1 .. Len(log) /\ \A i \in Records : About(log[i], s) => (i <= b <=> i \in S)
  BY <1>1, <1>2 DEF Committed, Base
<1>5. CASE S = {}
  <2>1. \A k \in 1 + 1 .. b : ~About(log[k], s)
    BY <1>1, <1>4, <1>5
  <2>2. At(h[b], s) = At(h[1], s)
    BY <1>1, <2>1, SlotStays
  <2>3. At(h[1], s) = EmptySlot
    <3>1. h[1] = EmptyPage
      BY DEF Settled, LogFacts, PagesFollow
    <3> QED
      BY <3>1, EmptyPageIsPage DEF At
  <2>4. LastContent(S) = EmptySlot
    BY <1>5 DEF LastContent
  <2> QED
    BY <1>3, <2>2, <2>3, <2>4, SlotKinds
<1>6. CASE S # {}
  <2>1. \E p \in S : \A j \in S : j <= p
    BY <1>1, <1>4, <1>6, LastElement
  <2>2. PICK p : p = CHOOSE i \in S : \A j \in S : j <= i
    OBVIOUS
  <2>3. p \in S /\ \A j \in S : j <= p
    BY <2>1, <2>2
  <2>4. p \in 1 .. Len(log) /\ About(log[p], s) /\ p <= b
    BY <1>1, <1>2, <1>4, <2>3 DEF Committed
  <2>5. p \in 2 .. Len(log) /\ b \in p .. Len(log)
    <3>1. p # 1
      BY <2>4 DEF Settled, About
    <3> QED
      BY <1>1, <2>4, <3>1
  <2>6. \A k \in p + 1 .. b : ~About(log[k], s)
    BY <1>1, <1>4, <2>3, <2>4
  <2>7. At(h[b], s) = At(h[p], s)
    BY <2>4, <2>5, <2>6, SlotStays
  <2>8. SlotEffect(log[p], At(h[p - 1], s), At(h[p], s))
    BY <2>4, <2>5, SlotStep
  <2>9. log[p].type \in {"INSERT", "APPLYDELETE", "UPDATE"}
    BY <1>2, <2>3, LastCommittedType
  <2>10. LastContent(S) = CASE log[p].type = "INSERT" -> LiveSlot(log[p].tuple)
                            [] log[p].type = "UPDATE" -> LiveSlot(log[p].new)
                            [] OTHER -> EmptySlot
    BY <1>6, <2>2 DEF LastContent
  <2>11. CASE log[p].type = "INSERT"
    BY <1>3, <2>7, <2>8, <2>10, <2>11, SlotKinds DEF SlotEffect
  <2>12. CASE log[p].type = "UPDATE"
    BY <1>3, <2>7, <2>8, <2>10, <2>12, SlotKinds DEF SlotEffect
  <2>13. CASE log[p].type = "APPLYDELETE"
    BY <1>3, <2>7, <2>8, <2>10, <2>13, SlotKinds DEF SlotEffect
  <2> QED
    BY <2>9, <2>11, <2>12, <2>13
<1> QED
  BY <1>5, <1>6

\* A mark in the slot was made behind the base, and no update came after it.
LEMMA MarkHasRecord ==
    ASSUME NEW h, Settled(h), NEW s \in Nat, NEW b, Base(s, b), NEW n \in b .. Len(log),
           IsFull(At(h[n], s)), IsDeleted(At(h[n], s))
    PROVE  \E m \in b + 1 .. n : /\ Is(m, "MARKDELETE", s)
                                 /\ \A k \in m + 1 .. n : ~Is(k, "UPDATE", s)
<1> DEFINE Marked(i) == IsFull(At(h[i], s)) /\ IsDeleted(At(h[i], s))
           Made(i) == \E m \in b + 1 .. i : /\ Is(m, "MARKDELETE", s)
                                            /\ \A k \in m + 1 .. i : ~Is(k, "UPDATE", s)
           S == {i \in b .. n : Marked(i) => Made(i)}
<1>1. Len(log) \in Nat /\ b \in 1 .. Len(log) /\ b \in Nat /\ n \in Nat
  BY Positions DEF Settled, Base
<1>2. b \in S
  BY <1>1, BaseContent
<1>3. ASSUME NEW i \in b .. n - 1, i \in S PROVE i + 1 \in S
  <2>1. /\ i + 1 \in 2 .. Len(log) /\ (i + 1) - 1 = i /\ i + 1 \in b .. n
        /\ i + 1 \in b + 1 .. Len(log)
    BY <1>1
  <2>2. SUFFICES ASSUME Marked(i + 1) PROVE Made(i + 1)
    BY <2>1
  <2>3. /\ About(log[i + 1], s) => SlotEffect(log[i + 1], At(h[i], s), At(h[i + 1], s))
        /\ ~About(log[i + 1], s) => At(h[i + 1], s) = At(h[i], s)
    BY <2>1, SlotStep
  <2>4. CASE About(log[i + 1], s)
    <3>1. log[i + 1].type \in {"INSERT", "MARKDELETE", "ROLLBACKDELETE", "UPDATE"}
      BY <2>1, <2>4, BehindBase
    <3>2. log[i + 1].type = "MARKDELETE"
      BY <2>2, <2>3, <2>4, <3>1, SlotKinds DEF SlotEffect
    <3>3. Is(i + 1, "MARKDELETE", s)
      BY <2>4, <3>2 DEF Is, About
    <3>4. i + 1 \in b + 1 .. i + 1 /\ \A k \in (i + 1) + 1 .. i + 1 : FALSE
      BY <1>1
    <3> QED
      BY <3>3, <3>4
  <2>5. CASE ~About(log[i + 1], s)
    <3>1. Made(i)
      BY <1>3, <2>2, <2>3, <2>5
    <3>2. PICK m \in b + 1 .. i : /\ Is(m, "MARKDELETE", s)
                                  /\ \A k \in m + 1 .. i : ~Is(k, "UPDATE", s)
      BY <3>1
    <3>3. ~Is(i + 1, "UPDATE", s)
      BY <2>5, PageTypes DEF Is
    <3>4. m \in b + 1 .. i + 1 /\ \A k \in m + 1 .. i + 1 : k \in m + 1 .. i \/ k = i + 1
      BY <1>1
    <3> QED
      BY <3>2, <3>3, <3>4
  <2> QED
    BY <2>4, <2>5
<1>4. \A i \in b .. n : i \in S
  <2> HIDE DEF S
  <2> QED
    BY <1>1, <1>2, <1>3, Climb
<1>5. n \in b .. n
  BY <1>1
<1> QED
  BY <1>4, <1>5

----------------------------------------------------------------------------
(* Undo, slot by slot.                                                     *)

\* Without an insert an empty slot stays empty.
LEMMA EmptyStays ==
    ASSUME NEW h, Settled(h), NEW s \in Nat, NEW b, Base(s, b), ~IsFull(At(h[b], s)),
           NEW n \in b .. Len(log), \A k \in b + 1 .. n : ~Is(k, "INSERT", s)
    PROVE  ~IsFull(At(h[n], s))
<1> DEFINE S == {i \in b .. n : ~IsFull(At(h[i], s))}
<1>1. Len(log) \in Nat /\ b \in 1 .. Len(log) /\ b \in Nat /\ n \in Nat
  BY Positions DEF Settled, Base
<1>2. b \in S
  BY <1>1
<1>3. ASSUME NEW i \in b .. n - 1, i \in S PROVE i + 1 \in S
  <2>1. /\ i + 1 \in 2 .. Len(log) /\ (i + 1) - 1 = i /\ i + 1 \in b .. n
        /\ i + 1 \in b + 1 .. Len(log) /\ i + 1 \in b + 1 .. n
    BY <1>1
  <2>2. /\ At(h[i], s) \in Slot
        /\ About(log[i + 1], s) => SlotEffect(log[i + 1], At(h[i], s), At(h[i + 1], s))
        /\ ~About(log[i + 1], s) => At(h[i + 1], s) = At(h[i], s)
    BY <2>1, SlotStep
  <2>3. ~IsFull(At(h[i], s)) /\ IsDeleted(At(h[i], s))
    BY <1>3, <2>2, SlotKinds
  <2>4. CASE About(log[i + 1], s)
    <3>1. log[i + 1].type \in {"INSERT", "MARKDELETE", "ROLLBACKDELETE", "UPDATE"}
      BY <2>1, <2>4, BehindBase
    <3>2. log[i + 1].type # "INSERT"
      BY <2>1, <2>4 DEF Is, About
    <3> QED
      BY <2>2, <2>3, <2>4, <3>1, <3>2, SlotKinds DEF SlotEffect
  <2>5. CASE ~About(log[i + 1], s)
    BY <2>1, <2>2, <2>3, <2>5
  <2> QED
    BY <2>4, <2>5
<1>4. \A i \in b .. n : i \in S
  <2> HIDE DEF S
  <2> QED
    BY <1>1, <1>2, <1>3, Climb
<1> QED
  BY <1>1, <1>4

\* A record that is an insert, and so on, is about the page.
LEMMA IsAbout ==
    ASSUME NEW i, NEW s, NEW type \in {"INSERT", "APPLYDELETE", "MARKDELETE",
                                       "ROLLBACKDELETE", "UPDATE"}, Is(i, type, s)
    PROVE  About(log[i], s)
  BY PageTypes DEF Is

\* An insert behind the base fills the slot.
LEMMA InsertFills ==
    ASSUME NEW h, Settled(h), NEW s \in Nat, NEW b, Base(s, b),
           NEW i \in b + 1 .. Len(log), Is(i, "INSERT", s)
    PROVE  ~IsFull(At(h[i - 1], s)) /\ IsFull(At(h[i], s))
<1>1. Len(log) \in Nat /\ b \in 1 .. Len(log)
  BY Positions DEF Settled, Base
<1>2. i \in 2 .. Len(log)
  BY <1>1
<1>3. SlotEffect(log[i], At(h[i - 1], s), At(h[i], s))
  BY <1>2, IsAbout, SlotStep
<1> QED
  BY <1>3, SlotKinds DEF SlotEffect, Is

\* The page Redo leaves: nothing is taken back yet.
LEMMA StartOfUndo ==
    ASSUME NEW h, Settled(h)
    PROVE  TakenBackTo(h, h[Len(log)], {})
<1>1. Len(log) \in Nat /\ Len(log) >= 4 /\ Len(log) \in 1 .. Len(log)
  BY Positions DEF Settled
<1>2. PICK n, pg : n = Len(log) /\ pg = h[n]
  OBVIOUS
<1>3. Accounted(pg) /\ Len(pg.slots) \in Nat
  <2>1. Accounted(pg)
    BY <1>1, <1>2 DEF Settled, LogFacts, PagesFollow
  <2> QED
    BY <2>1 DEF Accounted, Page
<1>4. ASSUME NEW s \in 1 .. Len(pg.slots), NEW b \in 1 .. n, Base(s, b)
      PROVE  SlotLeft(h, pg.slots[s], {}, s, b)
  <2>1. s \in Nat /\ At(h[n], s) = pg.slots[s] /\ n \in b .. Len(log) /\ b \in b .. Len(log)
    BY <1>1, <1>2, <1>3 DEF At
  <2>2. ASSUME IsFull(At(h[b], s)) PROVE IsFull(At(h[n], s))
    BY <1>4, <2>1, <2>2, FullStays
  <2>3. ASSUME NEW i \in (b + 1 .. Len(log)) \ {}, Is(i, "INSERT", s) PROVE IsFull(At(h[n], s))
    <3>1. IsFull(At(h[i], s))
      BY <1>4, <2>1, <2>3, InsertFills
    <3>2. i \in b .. Len(log) /\ n \in i .. Len(log)
      BY <1>1, <1>2
    <3> QED
      BY <1>4, <2>1, <3>1, <3>2, FullStays
  <2>4. ASSUME ~IsFull(At(h[b], s)), \A i \in (b + 1 .. Len(log)) \ {} : ~Is(i, "INSERT", s)
        PROVE  ~IsFull(At(h[n], s))
    BY <1>2, <1>4, <2>1, <2>4, EmptyStays
  <2>5. ASSUME IsFull(At(h[n], s)), IsDeleted(At(h[n], s)) PROVE MarkLeft({}, s, b, n)
    <3>1. PICK m \in b + 1 .. n : /\ Is(m, "MARKDELETE", s)
                                  /\ \A k \in m + 1 .. n : ~Is(k, "UPDATE", s)
      BY <1>4, <2>1, <2>5, MarkHasRecord
    <3> QED
      BY <1>2, <3>1 DEF MarkLeft
  <2>6. n \in b .. Len(log)
    BY <1>1, <1>2
  <2> QED
    BY <2>1, <2>2, <2>3, <2>4, <2>5, <2>6 DEF SlotLeft
<1> QED
  BY <1>2, <1>3, <1>4 DEF TakenBackTo

\* Without inserts to take back, a page that Undo has worked on is one that it
\* can begin with.
LEMMA UndoAgain ==
    ASSUME NEW h, Settled(h), ~HasLoserInsert, NEW pg, NEW P, TakenBackTo(h, pg, P)
    PROVE  TakenBackTo(h, pg, {})
<1>1. ASSUME NEW s \in 1 .. Len(pg.slots), NEW b \in 1 .. Len(log), Base(s, b)
      PROVE  SlotLeft(h, pg.slots[s], {}, s, b)
  <2>1. SlotLeft(h, pg.slots[s], P, s, b) /\ s \in Nat
    BY <1>1 DEF TakenBackTo
  <2>2. ASSUME NEW i \in b + 1 .. Len(log) PROVE ~Is(i, "INSERT", s)
    BY <1>1, <2>1, IsAbout, BehindBase DEF HasLoserInsert, Is
  <2>3. ASSUME NEW j, MarkLeft(P, s, b, j) PROVE MarkLeft({}, s, b, j)
    BY <2>3 DEF MarkLeft
  <2> QED
    BY <2>1, <2>2, <2>3 DEF SlotLeft
<1> QED
  BY <1>1 DEF TakenBackTo

\* It is the turn of record i: of the records about its slot exactly the later
\* ones are taken back.
Turn(P, i, s, b) ==
    /\ i \in LoserRecords /\ i \notin P /\ About(log[i], s)
    /\ Base(s, b) /\ s \in Nat /\ P \subseteq Records
    /\ \A k \in Records : About(log[k], s) => (k > i <=> k \in P)

\* Its place.
LEMMA TurnPlace ==
    ASSUME NEW h, Settled(h), NEW P, NEW i, NEW s, NEW b, Turn(P, i, s, b)
    PROVE  /\ Len(log) \in Nat /\ b \in 1 .. Len(log) /\ Records = 1 .. Len(log)
           /\ i \in b + 1 .. Len(log) /\ i \in 2 .. Len(log) /\ i - 1 \in b .. Len(log)
           /\ SlotEffect(log[i], At(h[i - 1], s), At(h[i], s))
           /\ At(h[i - 1], s) \in Slot
           /\ s \in 1 .. Len(h[i].slots)
           /\ log[i].slot = s
           /\ log[i].type \in {"INSERT", "MARKDELETE", "ROLLBACKDELETE", "UPDATE"}
<1>1. Len(log) \in Nat /\ b \in 1 .. Len(log) /\ Records = 1 .. Len(log)
  BY Positions DEF Settled, Base, Turn
<1>2. i \in Records /\ i \in LoserRecords /\ About(log[i], s) /\ Base(s, b) /\ s \in Nat
  BY DEF Turn, LoserRecords
<1>3. ~(i <= b)
  BY <1>2 DEF Base
<1>4. i \in b + 1 .. Len(log) /\ i \in 2 .. Len(log) /\ i - 1 \in b .. Len(log)
  BY <1>1, <1>2, <1>3
<1>5. /\ SlotEffect(log[i], At(h[i - 1], s), At(h[i], s))
      /\ At(h[i - 1], s) \in Slot /\ s \in 1 .. Len(h[i].slots)
  BY <1>2, <1>4, SlotStep
<1>6. log[i].type \in {"INSERT", "MARKDELETE", "ROLLBACKDELETE", "UPDATE"}
  BY <1>2, <1>4, BehindBase
<1> QED
  BY <1>1, <1>2, <1>4, <1>5, <1>6 DEF About

\* An insert is taken back: the slot was full and is empty.
LEMMA TakeInsertBack ==
    ASSUME NEW h, Settled(h), NEW P, NEW i, NEW s, NEW b, Turn(P, i, s, b),
           log[i].type = "INSERT", NEW c, SlotLeft(h, c, P, s, b)
    PROVE  IsFull(c) /\ SlotLeft(h, EmptySlot, P \union {i}, s, b)
<1>1. /\ Len(log) \in Nat /\ b \in 1 .. Len(log) /\ Records = 1 .. Len(log)
      /\ i \in b + 1 .. Len(log) /\ i - 1 \in b .. Len(log) /\ log[i].slot = s
  BY TurnPlace
<1>2. Base(s, b) /\ s \in Nat /\ i \notin P
  BY DEF Turn
<1>3. Is(i, "INSERT", s)
  BY <1>1 DEF Is
<1>4. IsFull(c)
  BY <1>1, <1>2, <1>3 DEF SlotLeft
<1>5. ~IsFull(At(h[i - 1], s))
  BY <1>1, <1>2, <1>3, InsertFills
<1>6. ~IsFull(At(h[b], s))
  <2>1. b \in b .. Len(log) /\ i - 1 \in b .. Len(log)
    BY <1>1
  <2> QED
    BY <1>2, <1>5, <2>1, FullStays
<1>7. ASSUME NEW k \in (b + 1 .. Len(log)) \ (P \union {i}), Is(k, "INSERT", s) PROVE FALSE
  <2>1. k \in Records /\ About(log[k], s)
    BY <1>1, <1>7, IsAbout
  <2>2. ~(k > i)
    BY <2>1 DEF Turn
  <2>3. k \in b .. Len(log) /\ i - 1 \in k .. Len(log)
    BY <1>1, <2>1, <2>2
  <2>4. IsFull(At(h[k], s))
    BY <1>2, <1>7, InsertFills
  <2> QED
    BY <1>2, <1>5, <2>3, <2>4, FullStays
<1>8. ~IsFull(EmptySlot)
  BY SlotKinds
<1> QED
  BY <1>4, <1>6, <1>7, <1>8 DEF SlotLeft

\* What stays of SlotLeft when a record that is no insert is taken back and the
\* slot holds, or does not hold, a tuple as before.
LEMMA TakeOtherBack ==
    ASSUME NEW h, NEW P, NEW i, NEW s, NEW b, ~Is(i, "INSERT", s),
           NEW c, SlotLeft(h, c, P, s, b), NEW d, IsFull(d) <=> IsFull(c),
           IsFull(d) => \E j \in b .. Len(log) :
                          /\ IsFull(At(h[j], s)) /\ d.tuple = At(h[j], s).tuple
                          /\ \A k \in P \union {i} : Is(k, "UPDATE", s) => j < k
                          /\ IsDeleted(d) => MarkLeft(P \union {i}, s, b, j)
    PROVE  SlotLeft(h, d, P \union {i}, s, b)
  BY DEF SlotLeft

\* A record that is not about the slot.
LEMMA TakeElsewhere ==
    ASSUME NEW h, NEW P, NEW i, NEW s, NEW b, ~About(log[i], s),
           NEW c, SlotLeft(h, c, P, s, b)
    PROVE  SlotLeft(h, c, P \union {i}, s, b)
<1>1. ~Is(i, "INSERT", s) /\ ~Is(i, "UPDATE", s) /\ ~Is(i, "MARKDELETE", s)
  BY IsAbout
<1>2. ASSUME NEW j, MarkLeft(P, s, b, j) PROVE MarkLeft(P \union {i}, s, b, j)
  BY <1>1, <1>2 DEF MarkLeft
<1>3. ASSUME IsFull(c)
      PROVE  \E j \in b .. Len(log) :
                          /\ IsFull(At(h[j], s)) /\ c.tuple = At(h[j], s).tuple
                          /\ \A k \in P \union {i} : Is(k, "UPDATE", s) => j < k
                          /\ IsDeleted(c) => MarkLeft(P \union {i}, s, b, j)
  BY <1>1, <1>2, <1>3 DEF SlotLeft
<1> QED
  BY <1>1, <1>3, TakeOtherBack

\* A mark is taken back.
LEMMA TakeMarkBack ==
    ASSUME NEW h, Settled(h), NEW P, NEW i, NEW s, NEW b, Turn(P, i, s, b),
           log[i].type = "MARKDELETE", NEW c, SlotLeft(h, c, P, s, b)
    PROVE  /\ ~IsFull(c) => SlotLeft(h, c, P \union {i}, s, b)
           /\ IsFull(c) => SlotLeft(h, LiveSlot(c.tuple), P \union {i}, s, b)
<1>1. ~Is(i, "INSERT", s) /\ ~Is(i, "UPDATE", s)
  BY DEF Is
<1>2. ASSUME ~IsFull(c) PROVE SlotLeft(h, c, P \union {i}, s, b)
  BY <1>1, <1>2, TakeOtherBack
<1>3. ASSUME IsFull(c) PROVE SlotLeft(h, LiveSlot(c.tuple), P \union {i}, s, b)
  <2>1. PICK d : d = LiveSlot(c.tuple)
    OBVIOUS
  <2>2. IsFull(d) /\ ~IsDeleted(d) /\ d.tuple = c.tuple
    BY <2>1, SlotKinds
  <2>3. PICK j \in b .. Len(log) :
            /\ IsFull(At(h[j], s)) /\ c.tuple = At(h[j], s).tuple
            /\ \A k \in P : Is(k, "UPDATE", s) => j < k
    BY <1>3 DEF SlotLeft
  <2>4. \A k \in P \union {i} : Is(k, "UPDATE", s) => j < k
    BY <1>1, <2>3
  <2>5. SlotLeft(h, d, P \union {i}, s, b)
    BY <1>1, <1>3, <2>2, <2>3, <2>4, TakeOtherBack
  <2> QED
    BY <2>1, <2>5
<1> QED
  BY <1>2, <1>3

\* A mark that was taken away comes back.
LEMMA TakeUnmarkBack ==
    ASSUME NEW h, Settled(h), NEW P, NEW i, NEW s, NEW b, Turn(P, i, s, b),
           log[i].type = "ROLLBACKDELETE", NEW c \in Slot, SlotLeft(h, c, P, s, b)
    PROVE  /\ IsDeleted(c) => SlotLeft(h, c, P \union {i}, s, b)
           /\ ~IsDeleted(c) => SlotLeft(h, MarkedSlot(c.tuple), P \union {i}, s, b)
<1>1. ~Is(i, "INSERT", s) /\ ~Is(i, "UPDATE", s) /\ ~Is(i, "MARKDELETE", s)
  BY DEF Is
<1>2. ASSUME IsDeleted(c) PROVE SlotLeft(h, c, P \union {i}, s, b)
  <2>1. ASSUME NEW j, MarkLeft(P, s, b, j) PROVE MarkLeft(P \union {i}, s, b, j)
    BY <1>1, <2>1 DEF MarkLeft
  <2>2. ASSUME IsFull(c)
        PROVE  \E j \in b .. Len(log) :
                          /\ IsFull(At(h[j], s)) /\ c.tuple = At(h[j], s).tuple
                          /\ \A k \in P \union {i} : Is(k, "UPDATE", s) => j < k
                          /\ IsDeleted(c) => MarkLeft(P \union {i}, s, b, j)
    BY <1>1, <2>1, <2>2 DEF SlotLeft
  <2> QED
    BY <1>1, <2>2, TakeOtherBack
<1>3. ASSUME ~IsDeleted(c) PROVE SlotLeft(h, MarkedSlot(c.tuple), P \union {i}, s, b)
  <2>0. /\ Len(log) \in Nat /\ b \in 1 .. Len(log) /\ Records = 1 .. Len(log)
        /\ i \in b + 1 .. Len(log) /\ i \in 2 .. Len(log) /\ i - 1 \in b .. Len(log)
        /\ SlotEffect(log[i], At(h[i - 1], s), At(h[i], s)) /\ Base(s, b) /\ s \in Nat
    BY TurnPlace DEF Turn
  <2>1. PICK d : d = MarkedSlot(c.tuple)
    OBVIOUS
  <2>2. IsFull(d) /\ d.tuple = c.tuple /\ IsFull(c)
    BY <1>3, <2>1, SlotKinds
  <2>3. PICK j \in b .. Len(log) :
            /\ IsFull(At(h[j], s)) /\ c.tuple = At(h[j], s).tuple
            /\ \A k \in P : Is(k, "UPDATE", s) => j < k
    BY <2>2 DEF SlotLeft
  <2>4. IsFull(At(h[i - 1], s)) /\ IsDeleted(At(h[i - 1], s))
    BY <2>0 DEF SlotEffect
  <2>5. PICK m \in b + 1 .. i - 1 : /\ Is(m, "MARKDELETE", s)
                                    /\ \A k \in m + 1 .. i - 1 : ~Is(k, "UPDATE", s)
    BY <2>0, <2>4, MarkHasRecord
  <2>6. m \in (b + 1 .. Len(log)) \ (P \union {i})
    <3>1. m \in Records /\ About(log[m], s) /\ ~(m > i) /\ m # i /\ m \in b + 1 .. Len(log)
      BY <2>0, <2>5, IsAbout
    <3> QED
      BY <3>1 DEF Turn
  <2>7. ASSUME NEW k \in m + 1 .. Len(log), Is(k, "UPDATE", s) PROVE j < k
    <3>1. k \in Records /\ About(log[k], s)
      BY <2>0, <2>7, IsAbout
    <3>2. ~(k \in m + 1 .. i - 1)
      BY <2>5, <2>7
    <3>3. k # i
      BY <1>1, <2>7
    <3>4. k > i
      BY <2>0, <3>1, <3>2, <3>3
    <3>5. k \in P
      BY <3>1, <3>4 DEF Turn
    <3> QED
      BY <2>3, <2>7, <3>5
  <2>8. MarkLeft(P \union {i}, s, b, j)
    BY <2>5, <2>6, <2>7 DEF MarkLeft
  <2>9. \A k \in P \union {i} : Is(k, "UPDATE", s) => j < k
    BY <1>1, <2>3
  <2>10. SlotLeft(h, d, P \union {i}, s, b)
    BY <1>1, <2>2, <2>3, <2>8, <2>9, TakeOtherBack
  <2> QED
    BY <2>1, <2>10
<1> QED
  BY <1>2, <1>3

\* An update is taken back, unless the tuple is marked: then it was taken back
\* before.
LEMMA TakeUpdateBack ==
    ASSUME NEW h, Settled(h), NEW P, NEW i, NEW s, NEW b, Turn(P, i, s, b),
           log[i].type = "UPDATE", NEW c \in Slot, SlotLeft(h, c, P, s, b)
    PROVE  /\ IsDeleted(c) => SlotLeft(h, c, P \union {i}, s, b)
           /\ ~IsDeleted(c) => SlotLeft(h, LiveSlot(log[i].old), P \union {i}, s, b)
<1>0. /\ Len(log) \in Nat /\ b \in 1 .. Len(log) /\ Records = 1 .. Len(log)
      /\ i \in b + 1 .. Len(log) /\ i \in 2 .. Len(log) /\ i - 1 \in b .. Len(log)
      /\ SlotEffect(log[i], At(h[i - 1], s), At(h[i], s)) /\ Base(s, b) /\ s \in Nat
  BY TurnPlace DEF Turn
<1>1. ~Is(i, "INSERT", s) /\ ~Is(i, "MARKDELETE", s)
  BY DEF Is
<1>2. ASSUME IsDeleted(c) PROVE SlotLeft(h, c, P \union {i}, s, b)
  <2>2. ASSUME IsFull(c)
        PROVE  \E j \in b .. Len(log) :
                          /\ IsFull(At(h[j], s)) /\ c.tuple = At(h[j], s).tuple
                          /\ \A k \in P \union {i} : Is(k, "UPDATE", s) => j < k
                          /\ IsDeleted(c) => MarkLeft(P \union {i}, s, b, j)
    <3>1. PICK j \in b .. Len(log) :
            /\ IsFull(At(h[j], s)) /\ c.tuple = At(h[j], s).tuple
            /\ \A k \in P : Is(k, "UPDATE", s) => j < k
            /\ MarkLeft(P, s, b, j)
      BY <1>2, <2>2 DEF SlotLeft
    <3>2. PICK m \in (b + 1 .. Len(log)) \ P :
            /\ Is(m, "MARKDELETE", s)
            /\ \A k \in m + 1 .. Len(log) : Is(k, "UPDATE", s) => j < k
      BY <3>1 DEF MarkLeft
    <3>3. m \in Records /\ About(log[m], s) /\ m # i
      BY <1>0, <1>1, <3>2, IsAbout
    <3>4. ~(m > i)
      BY <3>2, <3>3 DEF Turn
    <3>5. Is(i, "UPDATE", s)
      BY DEF Turn, Is, About
    <3>6. j < i
      <4>1. i \in m + 1 .. Len(log)
        BY <1>0, <3>3, <3>4
      <4> QED
        BY <3>2, <3>5, <4>1
    <3>7. MarkLeft(P \union {i}, s, b, j)
      BY <3>2, <3>3 DEF MarkLeft
    <3> QED
      BY <3>1, <3>6, <3>7
  <2> QED
    BY <1>1, <2>2, TakeOtherBack
<1>3. ASSUME ~IsDeleted(c) PROVE SlotLeft(h, LiveSlot(log[i].old), P \union {i}, s, b)
  <2>1. PICK d : d = LiveSlot(log[i].old)
    OBVIOUS
  <2>2. IsFull(d) /\ ~IsDeleted(d) /\ IsFull(c)
    BY <1>3, <2>1, SlotKinds
  <2>3. d = At(h[i - 1], s)
    BY <1>0, <2>1 DEF SlotEffect
  <2>4. ASSUME NEW k \in P \union {i}, Is(k, "UPDATE", s) PROVE i - 1 < k
    <3>1. CASE k = i
      BY <1>0, <3>1
    <3>2. CASE k \in P
      <4>1. k \in Records /\ About(log[k], s)
        BY <2>4, <3>2, IsAbout DEF Turn
      <4>2. k > i
        BY <3>2, <4>1 DEF Turn
      <4> QED
        BY <1>0, <4>1, <4>2
    <3> QED
      BY <3>1, <3>2
  <2>5. SlotLeft(h, d, P \union {i}, s, b)
    BY <1>0, <1>1, <2>2, <2>3, <2>4, TakeOtherBack
  <2> QED
    BY <2>1, <2>5
<1> QED
  BY <1>2, <1>3

\* Every slot has a base.
LEMMA SomeBase ==
    ASSUME NEW h, Settled(h), NEW s \in Nat
    PROVE  \E b \in 1 .. Len(log) : Base(s, b)
<1>1. Len(log) \in Nat /\ Records = 1 .. Len(log)
  BY Positions DEF Settled
<1>2. CASE Committed(s) = {}
  BY <1>2, BaseExists DEF Base
<1>3. CASE Committed(s) # {}
  <2>1. Committed(s) \subseteq 1 .. Len(log)
    BY <1>1 DEF Committed
  <2>2. PICK p \in Committed(s) : \A j \in Committed(s) : j <= p
    BY <1>1, <1>3, <2>1, LastElement
  <2> QED
    BY <2>2, BaseExists DEF Base
<1> QED
  BY <1>2, <1>3

\* In the course of Undo no tuple is larger than the one Redo left in its slot.
LEMMA NoLarger ==
    ASSUME NEW h, Settled(h), NEW pg, NEW P, TakenBackTo(h, pg, P), NEW s \in 1 .. Len(pg.slots)
    PROVE  SizeOf(pg.slots[s]) <= SizeOf(h[Len(log)].slots[s])
<1>1. Len(log) \in Nat /\ Len(log) >= 4 /\ s \in Nat
  BY Positions DEF Settled
<1>2. PICK n, q : n = Len(log) /\ q = h[n]
  OBVIOUS
<1>3. q \in Page /\ pg \in Page /\ Len(q.slots) = Len(pg.slots)
  BY <1>1, <1>2 DEF Settled, LogFacts, PagesFollow, Accounted, TakenBackTo
<1>4. q.slots[s] = At(h[n], s) /\ q.slots[s] \in Slot /\ pg.slots[s] \in Slot
  BY <1>2, <1>3 DEF At, Page
<1>5. SizeOf(q.slots[s]) \in Nat /\ SizeOf(pg.slots[s]) \in Nat
  BY <1>4, Sizes
<1>6. CASE ~IsFull(pg.slots[s])
  <2>1. SizeOf(pg.slots[s]) = 0
    BY <1>6 DEF SizeOf
  <2> QED
    BY <1>2, <1>5, <2>1
<1>7. CASE IsFull(pg.slots[s])
  <2>1. PICK b \in 1 .. Len(log) : Base(s, b)
    BY <1>1, SomeBase
  <2>2. PICK j \in b .. Len(log) : IsFull(At(h[j], s)) /\ pg.slots[s].tuple = At(h[j], s).tuple
    BY <1>7, <2>1 DEF TakenBackTo, SlotLeft
  <2>3. SizeOf(pg.slots[s]) = SizeOf(At(h[j], s))
    BY <1>7, <2>2 DEF SizeOf
  <2>4. n \in j .. Len(log)
    BY <1>1, <1>2
  <2>5. SizeOf(At(h[j], s)) <= SizeOf(At(h[n], s))
    BY <1>1, <2>1, <2>2, <2>4, FullStays
  <2> QED
    BY <1>2, <1>4, <2>3, <2>5
<1> QED
  BY <1>6, <1>7

\* So there is room for the old tuple of an update.
LEMMA RoomBack ==
    ASSUME NEW h, Settled(h), NEW pg, NEW P, TakenBackTo(h, pg, P), NEW i, NEW s, NEW b,
           Turn(P, i, s, b), log[i].type = "UPDATE", s \in 1 .. Len(pg.slots),
           ~IsDeleted(pg.slots[s])
    PROVE  RoomToUpdate(pg, s, log[i].old) /\ log[i].old \in Tuples
<1>0. /\ Len(log) \in Nat /\ b \in 1 .. Len(log) /\ Records = 1 .. Len(log)
      /\ i \in b + 1 .. Len(log) /\ i \in 2 .. Len(log) /\ About(log[i], s)
      /\ SlotEffect(log[i], At(h[i - 1], s), At(h[i], s)) /\ Base(s, b) /\ s \in Nat
  BY TurnPlace DEF Turn
<1>1. PICK n, q : n = Len(log) /\ q = h[n]
  OBVIOUS
<1>2. Accounted(q) /\ Accounted(pg) /\ Len(q.slots) = Len(pg.slots)
  BY <1>0, <1>1 DEF Settled, LogFacts, PagesFollow, TakenBackTo
<1>3. \A k \in 1 .. Len(pg.slots) : SizeOf(pg.slots[k]) <= SizeOf(q.slots[k])
  BY <1>1, NoLarger
<1>4. pg.free + SizeOf(pg.slots[s]) >= q.free + SizeOf(q.slots[s])
  BY <1>2, <1>3, Room
<1>5. q \in Page /\ pg \in Page /\ pg.slots[s] \in Slot /\ q.slots[s] \in Slot
      /\ q.slots[s] = At(h[n], s)
  BY <1>1, <1>2 DEF Accounted, Page, At
<1>6. /\ At(h[i], s) = LiveSlot(log[i].new) /\ log[i].old \in Tuples /\ log[i].new \in Tuples
  BY <1>0 DEF SlotEffect
<1>7. IsFull(At(h[i], s)) /\ SizeOf(At(h[i], s)) = TupleSize[log[i].new]
  BY <1>6, Sizes, SlotKinds
<1>8. SizeOf(At(h[i], s)) <= SizeOf(At(h[n], s))
  <2>1. i \in b .. Len(log) /\ n \in i .. Len(log)
    BY <1>0, <1>1
  <2> QED
    BY <1>0, <1>7, <2>1, FullStays
<1>9. TupleSize[log[i].new] >= TupleSize[log[i].old]
  BY <1>0, BehindBase
<1>10. SizeOf(pg.slots[s]) = TupleSize[pg.slots[s].tuple]
  BY <1>5, Sizes, SlotKinds
<1>11. PICK f, g, x, y, u, v :
          /\ f = pg.free /\ g = q.free /\ x = SizeOf(pg.slots[s]) /\ y = SizeOf(q.slots[s])
          /\ u = TupleSize[log[i].old] /\ v = TupleSize[log[i].new]
  OBVIOUS
<1>12. f \in Nat /\ g \in Nat /\ x \in Nat /\ y \in Nat /\ u \in Nat /\ v \in Nat
  BY <1>5, <1>6, <1>11, Sizes, SpaceAssumption DEF Page
<1>13. f + x >= g + y /\ v <= y /\ v >= u
  BY <1>4, <1>5, <1>7, <1>8, <1>9, <1>11
<1>14. f + x >= u
  BY <1>12, <1>13
<1> QED
  BY <1>6, <1>10, <1>11, <1>14 DEF RoomToUpdate

\* One slot of the page is what is left of it, the others are as before.
LEMMA PageTaken ==
    ASSUME NEW h, NEW pg, NEW P, TakenBackTo(h, pg, P), NEW i, NEW s, s = log[i].slot,
           s \in 1 .. Len(pg.slots), NEW pg2, Accounted(pg2), NEW d,
           SlotChanged(pg, pg2, s, d),
           \A b \in 1 .. Len(log) : Base(s, b) => SlotLeft(h, d, P \union {i}, s, b)
    PROVE  TakenBackTo(h, pg2, P \union {i})
<1>1. /\ Len(pg2.slots) = Len(pg.slots) /\ pg2.slots[s] = d
      /\ \A m \in 1 .. Len(pg.slots) : m # s => pg2.slots[m] = pg.slots[m]
  BY DEF SlotChanged
<1>2. ASSUME NEW m \in 1 .. Len(pg.slots), NEW b \in 1 .. Len(log), Base(m, b)
      PROVE  SlotLeft(h, pg2.slots[m], P \union {i}, m, b)
  <2>1. CASE m = s
    BY <1>1, <1>2, <2>1
  <2>2. CASE m # s
    <3>1. SlotLeft(h, pg.slots[m], P, m, b)
      BY <1>2 DEF TakenBackTo
    <3>2. ~About(log[i], m)
      BY <2>2 DEF About
    <3> QED
      BY <1>1, <2>2, <3>1, <3>2, TakeElsewhere
  <2> QED
    BY <2>1, <2>2
<1> QED
  BY <1>1, <1>2 DEF TakenBackTo

\* Undo of one record.
LEMMA UndoOne ==
    ASSUME NEW h, Settled(h), NEW pg, NEW P, TakenBackTo(h, pg, P), P \subseteq Records,
           NEW i \in LoserRecords, i \notin P, AboutThePage(log[i]),
           \A k \in Records : About(log[k], log[i].slot) => (k > i <=> k \in P)
    PROVE  /\ log[i].type = "INSERT" => DropAllowed(pg, log[i].slot)
           /\ TakenBackTo(h, TakenBack(pg, log[i]), P \union {i})
<1>1. PICK s, r, pg2, c : s = log[i].slot /\ r = log[i] /\ pg2 = TakenBack(pg, r) /\ c = pg.slots[s]
  OBVIOUS
<1>2. Len(log) \in Nat /\ Records = 1 .. Len(log) /\ i \in 1 .. Len(log) /\ Len(log) >= 4
  BY Positions DEF Settled, LoserRecords
<1>3. s \in Nat
  <2>1. i # 1
    BY DEF Settled
  <2>2. Follows(h[i - 1], log[i], h[i])
    BY <1>2, <2>1 DEF Settled, LogFacts, PagesFollow
  <2>3. s \in 1 .. Len(h[i].slots)
    BY <1>1, <2>2 DEF Follows, Effect
  <2> QED
    BY <2>3
<1>4. ASSUME NEW b \in 1 .. Len(log), Base(s, b) PROVE Turn(P, i, s, b)
  BY <1>1, <1>3, <1>4 DEF Turn, About
<1>5. PICK b0 \in 1 .. Len(log) : Base(s, b0)
  BY <1>3, SomeBase
<1>6. /\ s \in 1 .. Len(h[i].slots)
      /\ r.type \in {"INSERT", "MARKDELETE", "ROLLBACKDELETE", "UPDATE"}
  BY <1>1, <1>4, <1>5, TurnPlace
<1>7. s \in 1 .. Len(pg.slots)
  <2>1. Len(log) \in i .. Len(log)
    BY <1>2
  <2>2. Len(h[i].slots) <= Len(h[Len(log)].slots) /\ Len(h[Len(log)].slots) = Len(pg.slots)
    BY <1>2, <2>1, PagesGrow DEF TakenBackTo
  <2>3. h[i] \in Page /\ pg \in Page
    BY <1>2 DEF Settled, LogFacts, PagesFollow, Accounted, TakenBackTo
  <2> QED
    BY <1>3, <1>6, <2>2, <2>3 DEF Page
<1>8. Accounted(pg) /\ pg \in Page /\ c \in Slot /\ Len(pg.slots) \in Nat
  BY <1>1, <1>7 DEF TakenBackTo, Accounted, Page
<1>9. ASSUME NEW b \in 1 .. Len(log), Base(s, b) PROVE SlotLeft(h, c, P, s, b)
  BY <1>1, <1>7, <1>9 DEF TakenBackTo
<1>n. SlotChanged(pg, pg, s, c)
  BY <1>1, <1>8 DEF SlotChanged
<1>10. CASE r.type = "INSERT"
  <2>1. IsFull(c)
    BY <1>1, <1>4, <1>5, <1>9, <1>10, TakeInsertBack
  <2>2. DropAllowed(pg, s)
    BY <1>1, <1>7, <1>8, <2>1 DEF DropAllowed
  <2>3. pg2 = DropTuple(pg, s)
    BY <1>1, <1>10 DEF TakenBack
  <2>4. SlotChanged(pg, pg2, s, EmptySlot) /\ Accounted(pg2)
    BY <1>1, <1>7, <1>8, <2>1, <2>3, DropAccount
  <2>5. ASSUME NEW b \in 1 .. Len(log), Base(s, b)
        PROVE  SlotLeft(h, EmptySlot, P \union {i}, s, b)
    BY <1>1, <1>4, <1>9, <1>10, <2>5, TakeInsertBack
  <2>6. TakenBackTo(h, pg2, P \union {i})
    BY <1>1, <1>7, <2>4, <2>5, PageTaken
  <2> QED
    BY <1>1, <2>2, <2>6
<1>11. CASE r.type = "MARKDELETE"
  <2>1. pg2 = UnmarkTuple(pg, s)
    BY <1>1, <1>11 DEF TakenBack
  <2>2. CASE IsFull(c)
    <3>1. SlotChanged(pg, pg2, s, LiveSlot(c.tuple)) /\ Accounted(pg2)
      BY <1>1, <1>7, <1>8, <2>1, <2>2, UnmarkAccount
    <3>2. ASSUME NEW b \in 1 .. Len(log), Base(s, b)
          PROVE  SlotLeft(h, LiveSlot(c.tuple), P \union {i}, s, b)
      BY <1>1, <1>4, <1>9, <1>11, <2>2, <3>2, TakeMarkBack
    <3>3. TakenBackTo(h, pg2, P \union {i})
      BY <1>1, <1>7, <3>1, <3>2, PageTaken
    <3> QED
      BY <1>1, <1>11, <3>3
  <2>3. CASE ~IsFull(c)
    <3>1. pg2 = pg
      BY <1>1, <2>1, <2>3 DEF UnmarkTuple
    <3>2. ASSUME NEW b \in 1 .. Len(log), Base(s, b)
          PROVE  SlotLeft(h, c, P \union {i}, s, b)
      BY <1>1, <1>4, <1>9, <1>11, <2>3, <3>2, TakeMarkBack
    <3>3. TakenBackTo(h, pg2, P \union {i})
      BY <1>1, <1>7, <1>8, <1>n, <3>1, <3>2, PageTaken
    <3> QED
      BY <1>1, <1>11, <3>3
  <2> QED
    BY <2>2, <2>3
<1>12. CASE r.type = "ROLLBACKDELETE"
  <2>1. pg2 = PageMark(pg, s)
    BY <1>1, <1>12 DEF TakenBack
  <2>2. CASE ~IsDeleted(c)
    <3>0. pg2 = MarkTuple(pg, s)
      BY <1>1, <1>7, <1>8, <2>1, <2>2 DEF PageMark, NoTuple
    <3>1. SlotChanged(pg, pg2, s, MarkedSlot(c.tuple)) /\ Accounted(pg2)
      BY <1>1, <1>7, <1>8, <2>2, <3>0, MarkAccount
    <3>2. ASSUME NEW b \in 1 .. Len(log), Base(s, b)
          PROVE  SlotLeft(h, MarkedSlot(c.tuple), P \union {i}, s, b)
      BY <1>1, <1>4, <1>8, <1>9, <1>12, <2>2, <3>2, TakeUnmarkBack
    <3>3. TakenBackTo(h, pg2, P \union {i})
      BY <1>1, <1>7, <3>1, <3>2, PageTaken
    <3> QED
      BY <1>1, <1>12, <3>3
  <2>3. CASE IsDeleted(c)
    <3>1. pg2 = pg
      BY <1>1, <2>1, <2>3 DEF PageMark, NoTuple
    <3>2. ASSUME NEW b \in 1 .. Len(log), Base(s, b)
          PROVE  SlotLeft(h, c, P \union {i}, s, b)
      BY <1>1, <1>4, <1>8, <1>9, <1>12, <2>3, <3>2, TakeUnmarkBack
    <3>3. TakenBackTo(h, pg2, P \union {i})
      BY <1>1, <1>7, <1>8, <1>n, <3>1, <3>2, PageTaken
    <3> QED
      BY <1>1, <1>12, <3>3
  <2> QED
    BY <2>2, <2>3
<1>13. CASE r.type = "UPDATE"
  <2>1. pg2 = PageUpdate(pg, s, r.old)
    BY <1>1, <1>13 DEF TakenBack
  <2>2. CASE ~IsDeleted(c)
    <3>a. RoomToUpdate(pg, s, r.old) /\ r.old \in Tuples
      BY <1>1, <1>4, <1>5, <1>7, <1>13, <2>2, RoomBack
    <3>0. pg2 = ReplaceTuple(pg, s, r.old)
      BY <1>1, <1>7, <1>8, <2>1, <2>2, <3>a DEF PageUpdate, NoTuple
    <3>1. SlotChanged(pg, pg2, s, LiveSlot(r.old)) /\ Accounted(pg2)
      BY <1>1, <1>7, <1>8, <2>2, <3>a, <3>0, ReplaceAccount
    <3>2. ASSUME NEW b \in 1 .. Len(log), Base(s, b)
          PROVE  SlotLeft(h, LiveSlot(r.old), P \union {i}, s, b)
      BY <1>1, <1>4, <1>8, <1>9, <1>13, <2>2, <3>2, TakeUpdateBack
    <3>3. TakenBackTo(h, pg2, P \union {i})
      BY <1>1, <1>7, <3>1, <3>2, PageTaken
    <3> QED
      BY <1>1, <1>13, <3>3
  <2>3. CASE IsDeleted(c)
    <3>1. pg2 = pg
      BY <1>1, <2>1, <2>3 DEF PageUpdate, NoTuple
    <3>2. ASSUME NEW b \in 1 .. Len(log), Base(s, b)
          PROVE  SlotLeft(h, c, P \union {i}, s, b)
      BY <1>1, <1>4, <1>8, <1>9, <1>13, <2>3, <3>2, TakeUpdateBack
    <3>3. TakenBackTo(h, pg2, P \union {i})
      BY <1>1, <1>7, <1>8, <1>n, <3>1, <3>2, PageTaken
    <3> QED
      BY <1>1, <1>13, <3>3
  <2> QED
    BY <2>2, <2>3
<1> QED
  BY <1>6, <1>10, <1>11, <1>12, <1>13

\* When every record of the unfinished transactions is taken back, the page
\* holds what the committed transactions left.
LEMMA EndOfUndo ==
    ASSUME NEW h, Settled(h), NEW pg, TakenBackTo(h, pg, LoserRecords), NEW s \in Nat \ {0}
    PROVE  At(pg, s) = CommittedContent(s)
<1>1. Len(log) \in Nat /\ Len(log) >= 4 /\ Records = 1 .. Len(log)
  BY Positions DEF Settled
<1>2. PICK b \in 1 .. Len(log) : Base(s, b)
  BY SomeBase
<1>3. /\ At(h[b], s) = CommittedContent(s)
      /\ IsFull(At(h[b], s)) => ~IsDeleted(At(h[b], s))
  BY <1>2, BaseContent
<1>4. h[b] \in Page /\ pg \in Page /\ At(h[b], s) \in Slot /\ At(pg, s) \in Slot
  BY AtIsSlot DEF Settled, LogFacts, PagesFollow, Accounted, TakenBackTo
<1>5. CASE s \in 1 .. Len(pg.slots)
  <2>1. PICK c : c = pg.slots[s]
    OBVIOUS
  <2>2. SlotLeft(h, c, LoserRecords, s, b) /\ At(pg, s) = c /\ c \in Slot
    BY <1>2, <1>4, <1>5, <2>1 DEF TakenBackTo, At
  <2>3. ASSUME NEW i \in b + 1 .. Len(log), About(log[i], s) PROVE i \in LoserRecords
    BY <1>2, <2>3, BehindBase
  <2>4. IsFull(c) <=> IsFull(At(h[b], s))
    BY <2>2, <2>3, IsAbout DEF SlotLeft
  <2>5. CASE ~IsFull(c)
    BY <1>3, <1>4, <2>2, <2>4, <2>5, SlotKinds
  <2>6. CASE IsFull(c)
    <3>1. PICK j \in b .. Len(log) :
            /\ IsFull(At(h[j], s)) /\ c.tuple = At(h[j], s).tuple
            /\ \A k \in LoserRecords : Is(k, "UPDATE", s) => j < k
            /\ IsDeleted(c) => MarkLeft(LoserRecords, s, b, j)
      BY <2>2, <2>6 DEF SlotLeft
    <3>2. ~IsDeleted(c)
      BY <2>3, <3>1, IsAbout DEF MarkLeft
    <3>3. ASSUME NEW k \in b + 1 .. j PROVE ~Is(k, "UPDATE", s)
      <4>1. k \in b + 1 .. Len(log) /\ ~(j < k)
        BY <1>1, <1>2
      <4> QED
        BY <2>3, <3>1, <4>1, IsAbout
    <3>4. At(h[j], s).tuple = At(h[b], s).tuple
      <4>1. b \in b .. Len(log)
        BY <1>1
      <4> QED
        BY <1>2, <2>4, <2>6, <3>3, <4>1, FullStays
    <3>5. c = LiveSlot(c.tuple)
      BY <2>2, <3>2, SlotKinds
    <3>6. At(h[b], s) = LiveSlot(At(h[b], s).tuple)
      BY <1>3, <1>4, <2>4, <2>6, SlotKinds
    <3> QED
      BY <1>3, <2>2, <3>1, <3>4, <3>5, <3>6
  <2> QED
    BY <2>5, <2>6
<1>6. CASE s \notin 1 .. Len(pg.slots)
  <2>1. Len(h[b].slots) <= Len(h[Len(log)].slots) /\ Len(h[Len(log)].slots) = Len(pg.slots)
    <3>1. Len(log) \in b .. Len(log)
      BY <1>1
    <3> QED
      BY <3>1, PagesGrow DEF TakenBackTo
  <2>2. s \notin 1 .. Len(h[b].slots)
    BY <1>4, <1>6, <2>1 DEF Page
  <2> QED
    BY <1>3, <1>6, <2>2 DEF At
<1> QED
  BY <1>5, <1>6

----------------------------------------------------------------------------
(* The steps of a recovery.                                                *)

\* After the crash the log stays as it is, and what was said of it.
LEMMA SameLog ==
    ASSUME log' = log
    PROVE  /\ Records' = Records /\ Winners' = Winners /\ LoserRecords' = LoserRecords
           /\ HasLoserInsert' <=> HasLoserInsert
           /\ \A i : Reversible(i)' <=> Reversible(i)
           /\ \A h, pg, P : TakenBackTo(h, pg, P)' <=> TakenBackTo(h, pg, P)
           /\ \A m : NothingToRedo(m)' <=> NothingToRedo(m)
           /\ \A h, m : PageOf(h, m)' <=> PageOf(h, m)
           /\ \A s : CommittedContent(s)' = CommittedContent(s)
<1>1. Records' = Records /\ Winners' = Winners /\ LoserRecords' = LoserRecords
  BY DEF Records, Winners, LoserRecords
<1>2. HasLoserInsert' <=> HasLoserInsert
  BY <1>1 DEF HasLoserInsert
<1>3. \A i : Reversible(i)' <=> Reversible(i)
  BY DEF Reversible
<1>4. \A i, type, s : Is(i, type, s)' <=> Is(i, type, s)
  BY DEF Is
<1>5. \A s, b : Base(s, b)' <=> Base(s, b)
  BY <1>1 DEF Base
<1>6. \A P, s, b, j : MarkLeft(P, s, b, j)' <=> MarkLeft(P, s, b, j)
  BY <1>4 DEF MarkLeft
<1>7. \A h, c, P, s, b : SlotLeft(h, c, P, s, b)' <=> SlotLeft(h, c, P, s, b)
  BY <1>4, <1>6 DEF SlotLeft
<1>8. \A h, pg, P : TakenBackTo(h, pg, P)' <=> TakenBackTo(h, pg, P)
  BY <1>5, <1>7 DEF TakenBackTo
<1>9. \A m : NothingToRedo(m)' <=> NothingToRedo(m)
  BY DEF NothingToRedo
<1>10. \A h, m : PageOf(h, m)' <=> PageOf(h, m)
  BY DEF PageOf
<1>11. \A s : CommittedContent(s)' = CommittedContent(s)
  BY <1>1 DEF CommittedContent
<1> QED
  BY <1>1, <1>2, <1>3, <1>8, <1>9, <1>10, <1>11

\* What excuses a recovery excuses it from then on.
LEMMA ExcusedStays ==
    ASSUME log' = log, tail' = tail, undone \in Nat, undone' \in {undone, undone + 1},
           Ahead => Ahead', Excused
    PROVE  Excused'
<1>1. /\ LoserRecords' = LoserRecords /\ (HasLoserInsert' <=> HasLoserInsert)
      /\ \A i : Reversible(i)' <=> Reversible(i)
  BY SameLog
<1>2. undone > 1 => undone' > 1
  OBVIOUS
<1> QED
  BY <1>1, <1>2 DEF Excused

\* A recovery that is not excused, and what its log says.
LEMMA NotExcused ==
    ASSUME RedoInv, ~Excused, NEW h, Recovering(h)
    PROVE  /\ Settled(h) /\ tail = "whole" /\ (undone > 1 => ~HasLoserInsert)
           /\ Len(log) \in Nat /\ Len(log) >= 4 /\ undone \in Nat
<1>1. IsSeq(log) /\ durable \in 4 .. Len(log) /\ ~AboutThePage(log[1]) /\ undone \in Nat
  BY DEF RedoInv, LogBegins
<1>2. Len(log) \in Nat
  BY <1>1, Positions
<1>3. Settled(h)
  BY <1>1, <1>2 DEF Settled, Recovering, Excused
<1> QED
  BY <1>1, <1>2, <1>3 DEF Excused

\* A page of the recovery goes to the disk.
LEMMA RecoveringEvict ==
    ASSUME RedoInv, ~Excused, NEW h, Recovering(h), mode # "up", EvictPage
    PROVE  Recovering(h)'
<1>1. /\ mode' = mode /\ log' = log /\ mem' = mem /\ disk' = mem /\ position' = position
      /\ active_txn' = active_txn /\ cursor' = cursor /\ undone' = undone /\ mem # disk
      /\ mode \in {"redo", "undo"}
  BY DEF EvictPage, recVars
<1>2. Settled(h) /\ undone \in Nat
  BY NotExcused
<1>3. /\ LogFacts(log, h)'
      /\ \A m : NothingToRedo(m)' <=> NothingToRedo(m)
      /\ \A m : PageOf(h, m)' <=> PageOf(h, m)
      /\ \A pg, P : TakenBackTo(h, pg, P)' <=> TakenBackTo(h, pg, P)
      /\ HasLoserInsert' <=> HasLoserInsert
      /\ TakenRecords' = TakenRecords
  <2>1. LogFacts(log, h)'
    BY <1>1, <1>2 DEF Settled
  <2>2. TakenRecords' = TakenRecords
    BY <1>1, SameLog DEF TakenRecords
  <2> QED
    BY <1>1, <2>1, <2>2, SameLog
<1>4. mem # NoPage /\ (PageOf(h, mem) \/ PartlyUndone(h, mem))
  <2>1. CASE mode = "redo"
    BY <1>1, <2>1 DEF Recovering, RedoneTo
  <2>2. CASE mode = "undo"
    <3>1. mem # NoPage /\ NothingToRedo(mem) /\ TakenBackTo(h, mem.page, TakenRecords) /\ undone > 0
      BY <2>2 DEF Recovering, RedoInv
    <3>2. ~HasLoserInsert => TakenBackTo(h, mem.page, {})
      BY <1>2, <3>1, UndoAgain
    <3> QED
      BY <3>1, <3>2 DEF PartlyUndone
  <2> QED
    BY <1>1, <2>1, <2>2
<1>5. PageOf(h, disk)' \/ PartlyUndone(h, disk)'
  BY <1>1, <1>3, <1>4 DEF PartlyUndone
<1>6. CASE mode = "redo"
  <2>1. /\ position \in 1 .. Len(log) + 1 /\ cursor = InvalidLSN /\ Noting(position - 1)
        /\ RedoneTo(h, mem) \/ PartlyUndone(h, mem)
    BY <1>4, <1>6 DEF Recovering
  <2>2. Noting(position - 1)'
    BY <1>1, <2>1 DEF Noting
  <2>3. RedoneTo(h, mem)' \/ PartlyUndone(h, mem)'
    BY <1>1, <1>3, <2>1 DEF RedoneTo, PartlyUndone
  <2> QED
    BY <1>1, <1>3, <1>4, <1>5, <1>6, <2>1, <2>2, <2>3 DEF Recovering
<1>7. CASE mode = "undo"
  <2>1. Undoing /\ NothingToRedo(mem) /\ TakenBackTo(h, mem.page, TakenRecords)
    BY <1>7 DEF Recovering
  <2>2. Undoing'
    BY <1>1, <2>1, SameLog DEF Undoing
  <2> QED
    BY <1>1, <1>3, <1>4, <1>5, <1>7, <2>1, <2>2 DEF Recovering
<1> QED
  BY <1>1, <1>6, <1>7

\* The whole of a sequence.
LEMMA WholeAny ==
    ASSUME NEW s, IsSeq(s)
    PROVE  SubSeq(s, 1, Len(s)) = s
<1>1. PICK S : s \in Seq(S)
  BY DEF IsSeq
<1>2. PICK k : k = SubSeq(s, 1, Len(s))
  OBVIOUS
<1>3. Len(s) \in Nat /\ Len(s) \in 0 .. Len(s)
  BY <1>1
<1>4. k \in Seq(S) /\ Len(k) = Len(s) /\ \A i \in 1 .. Len(s) : k[i] = s[i]
  BY <1>1, <1>2
<1> QED
  BY <1>1, <1>2, <1>3, <1>4, SeqEqual

\* A crash of the recovery itself.
LEMMA RecoveringCrash ==
    ASSUME RedoInv, Down, mode # "up", Crash
    PROVE  Down' /\ mode' = "redo"
<1>1. /\ mode' = "redo" /\ mem' = disk /\ disk' = disk /\ undone' = undone /\ position' = 1
      /\ active_txn' = << >> /\ cursor' = InvalidLSN /\ st' = [t \in Txns |-> "unborn"]
      /\ tail' = tail /\ mode # "panic"
  BY DEF Crash
<1>2. /\ IsSeq(log) /\ Len(log) \in Nat /\ Len(log) >= 4 /\ durable = Len(log) /\ undone \in Nat
  BY Positions DEF RedoInv, Down
<1>3. log' = log /\ durable' = Len(log)
  <2>1. PICK n \in durable .. Len(log) : log' = SubSeq(log, 1, n) /\ durable' = n
    BY DEF Crash
  <2>2. n = Len(log)
    BY <1>2, <2>1
  <2> QED
    BY <1>2, <2>1, <2>2, WholeAny
<1>4. CASE Excused
  <2>1. Ahead => Ahead'
    BY <1>1, <1>3 DEF Ahead
  <2>2. Excused'
    BY <1>1, <1>2, <1>3, <1>4, <2>1, ExcusedStays
  <2> QED
    BY <1>1, <1>3, <2>2 DEF Down
<1>5. CASE ~Excused
  <2>1. PICK h : Recovering(h)
    BY <1>5 DEF Down
  <2>2. LogFacts(log, h)'
    BY <1>3, <2>1 DEF Recovering
  <2>3. disk # NoPage => PageOf(h, disk) \/ PartlyUndone(h, disk)
    BY <2>1 DEF Recovering
  <2>4. disk' # NoPage => PageOf(h, disk)' \/ PartlyUndone(h, disk)'
    BY <1>1, <1>3, <2>3, SameLog DEF PartlyUndone
  <2>5. Noting(position - 1)'
    <3>1. DOMAIN << >> = {} /\ 1 .. position' - 1 = {}
      BY <1>1
    <3> QED
      BY <1>1, <3>1 DEF Noting
  <2>6. mem' # NoPage => RedoneTo(h, mem)' \/ PartlyUndone(h, mem)'
    <3>1. ASSUME PageOf(h, mem)' PROVE RedoneTo(h, mem)'
      <4>1. mem'.lsn \in 0 .. Len(log) - 1
        BY <1>1, <1>3, <3>1 DEF PageOf
      <4>2. ~(mem'.lsn + 1 < position')
        BY <1>1, <1>2, <4>1
      <4>3. \A i \in 1 .. Len(log') : ~(i < position')
        BY <1>1, <1>3
      <4> QED
        BY <3>1, <4>2, <4>3 DEF RedoneTo
    <3> QED
      BY <1>1, <2>4, <3>1
  <2>7. position' \in 1 .. Len(log') + 1 /\ position' <= 2
    BY <1>1, <1>2, <1>3
  <2>8. Recovering(h)'
    BY <1>1, <2>2, <2>4, <2>5, <2>6, <2>7 DEF Recovering
  <2> QED
    BY <1>1, <1>3, <2>8 DEF Down
<1> QED
  BY <1>1, <1>4, <1>5

\* Redo notes the last record of every transaction that has not committed.
LEMMA NotingStep ==
    ASSUME NEW p \in 1 .. Len(log), IsSeq(log), EndsAreLast(log), Noting(p - 1),
           log' = log, active_txn' = Noted(log[p], p)
    PROVE  Noting(p)'
<1>1. Len(log) \in Nat /\ p \in Nat /\ p >= 1
  BY Positions
<1>2. PICK r, old, new : r = log[p] /\ old = active_txn /\ new = active_txn'
  OBVIOUS
<1>3. /\ \A t \in DOMAIN old :
           /\ old[t] # InvalidLSN
           /\ LastOf(log, t, p - 1, old[t])
           /\ \A c \in 1 .. p - 1 : log[c].txn = t => log[c].type # "COMMIT"
      /\ \A i \in 1 .. p - 1 :
           \/ log[i].txn \in DOMAIN old
           \/ \E c \in 1 .. p - 1 : log[c].txn = log[i].txn /\ log[c].type = "COMMIT"
  BY <1>2 DEF Noting
<1>4. \A i \in 1 .. p : i \in 1 .. p - 1 \/ i = p
  BY <1>1
<1>5. ASSUME NEW t \in DOMAIN old, t # r.txn PROVE LastOf(log, t, p, old[t])
  <2>1. LastOf(log, t, p - 1, old[t])
    BY <1>3
  <2>2. old[t] \in -1 .. p - 1
    BY <1>1, <2>1 DEF LastOf
  <2>3. ASSUME NEW j \in old[t] + 2 .. p PROVE log[j].txn # t
    <3>1. j \in old[t] + 2 .. p - 1 \/ j = p
      BY <1>1, <2>2
    <3> QED
      BY <1>2, <1>5, <2>1, <3>1 DEF LastOf
  <2> QED
    BY <2>1, <2>2, <2>3 DEF LastOf
<1>6. CASE r.type = "COMMIT"
  <2>1. new = [t \in DOMAIN old \ {r.txn} |-> old[t]]
    BY <1>2, <1>6 DEF Noted
  <2>2. ASSUME NEW t \in DOMAIN new
        PROVE  /\ new[t] # InvalidLSN /\ LastOf(log, t, p, new[t])
               /\ \A c \in 1 .. p : log[c].txn = t => log[c].type # "COMMIT"
    <3>1. t \in DOMAIN old /\ t # r.txn /\ new[t] = old[t]
      BY <2>1, <2>2
    <3> QED
      BY <1>2, <1>3, <1>4, <1>5, <3>1
  <2>3. ASSUME NEW i \in 1 .. p
        PROVE  \/ log[i].txn \in DOMAIN new
               \/ \E c \in 1 .. p : log[c].txn = log[i].txn /\ log[c].type = "COMMIT"
    <3>1. p \in 1 .. p /\ \A c \in 1 .. p - 1 : c \in 1 .. p
      BY <1>1
    <3>2. CASE log[i].txn = r.txn
      BY <1>2, <1>6, <3>1, <3>2
    <3>3. CASE log[i].txn # r.txn
      <4>1. i \in 1 .. p - 1
        BY <1>2, <1>4, <3>3
      <4> QED
        BY <1>3, <2>1, <3>1, <3>3, <4>1
    <3> QED
      BY <3>2, <3>3
  <2> QED
    BY <1>2, <2>2, <2>3 DEF Noting
<1>7. CASE r.type # "COMMIT"
  <2>1. new = [t \in DOMAIN old \union {r.txn} |-> IF t = r.txn THEN p - 1 ELSE old[t]]
    BY <1>2, <1>7 DEF Noted
  <2>2. ASSUME NEW t \in DOMAIN new
        PROVE  /\ new[t] # InvalidLSN /\ LastOf(log, t, p, new[t])
               /\ \A c \in 1 .. p : log[c].txn = t => log[c].type # "COMMIT"
    <3>1. CASE t # r.txn
      <4>1. t \in DOMAIN old /\ new[t] = old[t]
        BY <2>1, <2>2, <3>1
      <4> QED
        BY <1>2, <1>3, <1>4, <1>5, <3>1, <4>1
    <3>2. CASE t = r.txn
      <4>1. new[t] = p - 1
        BY <2>1, <3>2
      <4>2. /\ p - 1 # InvalidLSN /\ p - 1 \in -1 .. p - 1 /\ (p - 1) + 1 = p
            /\ (p - 1) + 2 .. p = {}
        BY <1>1 DEF InvalidLSN
      <4>3. LastOf(log, t, p, new[t])
        BY <1>2, <3>2, <4>1, <4>2 DEF LastOf
      <4>4. ASSUME NEW c \in 1 .. p, log[c].txn = t PROVE log[c].type # "COMMIT"
        <5>1. CASE c = p
          BY <1>2, <1>7, <5>1
        <5>2. CASE c \in 1 .. p - 1
          <6>1. c \in 1 .. Len(log) /\ c < p
            BY <1>1, <5>2
          <6> QED
            BY <1>2, <3>2, <4>4, <6>1 DEF EndsAreLast, Ends
        <5> QED
          BY <1>4, <5>1, <5>2
      <4> QED
        BY <4>1, <4>2, <4>3, <4>4
    <3> QED
      BY <3>1, <3>2
  <2>3. ASSUME NEW i \in 1 .. p
        PROVE  \/ log[i].txn \in DOMAIN new
               \/ \E c \in 1 .. p : log[c].txn = log[i].txn /\ log[c].type = "COMMIT"
    <3>1. \A c \in 1 .. p - 1 : c \in 1 .. p
      BY <1>1
    <3>2. CASE i = p
      BY <1>2, <2>1, <3>2
    <3>3. CASE i \in 1 .. p - 1
      BY <1>3, <2>1, <3>1, <3>3
    <3> QED
      BY <1>4, <3>2, <3>3
  <2> QED
    BY <1>2, <2>2, <2>3 DEF Noting
<1> QED
  BY <1>6, <1>7

\* One record is applied to a page that has the history so far.
LEMMA RedoneStep ==
    ASSUME NEW h, Settled(h), NoPageIsNoPage, position \in 1 .. Len(log), RedoneTo(h, mem),
           log' = log, position' = position + 1,
           mem' = IF AboutThePage(log[position]) /\ NotYetApplied(position)
                    THEN [page |-> Redone(mem.page, log[position]), lsn |-> position - 1]
                    ELSE mem,
           mem # NoPage
    PROVE  mem' # NoPage /\ RedoneTo(h, mem)'
<1>0. Len(log) \in Nat /\ position \in Nat /\ position >= 1
  BY Positions DEF Settled
<1>1. PICK p, m, m2 : p = position /\ m = mem /\ m2 = mem'
  OBVIOUS
<1>2. /\ m.lsn \in 0 .. Len(log) - 1 /\ m.page = h[m.lsn + 1]
      /\ m.lsn + 1 < p => m.page = h[p - 1]
      /\ \A i \in 1 .. Len(log) : i < p /\ AboutThePage(log[i]) => i - 1 <= m.lsn
  BY <1>1 DEF RedoneTo, PageOf
<1>3. p > 1 => Follows(h[p - 1], log[p], h[p])
  <2>1. p > 1 => p \in 2 .. Len(log)
    BY <1>0, <1>1
  <2> QED
    BY <2>1 DEF Settled, LogFacts, PagesFollow
<1>4. SUFFICES /\ m2 # NoPage
               /\ m2.lsn \in 0 .. Len(log) - 1 /\ m2.page = h[m2.lsn + 1]
               /\ m2.lsn + 1 < p + 1 => m2.page = h[p]
               /\ \A i \in 1 .. Len(log) : i < p + 1 /\ AboutThePage(log[i]) => i - 1 <= m2.lsn
  <2>1. (p + 1) - 1 = p
    BY <1>0, <1>1
  <2> QED
    BY <1>1, <2>1 DEF RedoneTo, PageOf
<1>5. CASE AboutThePage(log[p]) /\ m.lsn < p - 1
  <2>1. p > 1 /\ m.lsn + 1 < p
    BY <1>0, <1>1, <1>2, <1>5
  <2>2. h[p] = Redone(m.page, log[p])
    BY <1>2, <1>3, <1>5, <2>1 DEF Follows, Effect
  <2>3. m2 = [page |-> Redone(m.page, log[p]), lsn |-> p - 1]
    BY <1>1, <1>5 DEF NotYetApplied
  <2>4. m2 # NoPage /\ m2.page = h[p] /\ m2.lsn = p - 1
    <3>1. PICK pg : pg = Redone(m.page, log[p])
      OBVIOUS
    <3> QED
      BY <2>2, <2>3, <3>1 DEF NoPageIsNoPage
  <2>5. p - 1 \in 0 .. Len(log) - 1 /\ (p - 1) + 1 = p
    BY <1>0, <1>1
  <2>6. \A i \in 1 .. Len(log) : i < p + 1 => i - 1 <= p - 1
    BY <1>0, <1>1
  <2> QED
    BY <2>4, <2>5, <2>6
<1>6. CASE ~(AboutThePage(log[p]) /\ m.lsn < p - 1)
  <2>1. m2 = m
    BY <1>1, <1>6 DEF NotYetApplied
  <2>2. ASSUME m.lsn + 1 < p + 1 PROVE m.page = h[p]
    <3>1. CASE m.lsn + 1 = p
      BY <1>2, <3>1
    <3>2. CASE m.lsn + 1 < p
      <4>1. p > 1 /\ m.lsn < p - 1
        BY <1>0, <1>1, <1>2, <3>2
      <4>2. h[p] = h[p - 1]
        BY <1>3, <1>6, <4>1 DEF Follows
      <4> QED
        BY <1>2, <3>2, <4>2
    <3> QED
      BY <1>0, <1>1, <1>2, <2>2, <3>1, <3>2
  <2>3. ASSUME NEW i \in 1 .. Len(log), i < p + 1, AboutThePage(log[i]) PROVE i - 1 <= m.lsn
    <3>1. CASE i < p
      BY <1>2, <2>3, <3>1
    <3>2. CASE i = p
      BY <1>0, <1>1, <1>2, <1>6, <2>3, <3>2
    <3> QED
      BY <1>0, <1>1, <2>3, <3>1, <3>2
  <2> QED
    BY <1>1, <1>2, <2>1, <2>2, <2>3
<1> QED
  BY <1>5, <1>6

\* Redo of one record.
LEMMA RecoveringRedo ==
    ASSUME RedoInv, NoPageIsNoPage, ~Excused, NEW h, Recovering(h), RedoRecord
    PROVE  Recovering(h)'
<1>0. Settled(h) /\ Len(log) \in Nat /\ Len(log) >= 4 /\ undone \in Nat
  BY NotExcused
<1>1. /\ mode = "redo" /\ position \in 1 .. Len(log) /\ cursor = InvalidLSN
      /\ Noting(position - 1)
      /\ mem = NoPage => disk = NoPage /\ position <= 2
      /\ mem # NoPage => RedoneTo(h, mem) \/ PartlyUndone(h, mem)
      /\ disk # NoPage => PageOf(h, disk) \/ PartlyUndone(h, disk)
  <2>1. mode = "redo" /\ position <= Len(log)
    BY DEF RedoRecord
  <2>2. position \in 1 .. Len(log) + 1
    BY <2>1 DEF Recovering
  <2>3. position \in 1 .. Len(log)
    BY <1>0, <2>1, <2>2
  <2> QED
    BY <2>1, <2>3 DEF Recovering
<1>2. ~AboutThePage(log[1]) /\ ~AboutThePage(log[2])
      /\ log[1].type # "NEWPAGE" /\ log[2].type = "NEWPAGE"
  BY DEF RedoInv, LogBegins
<1>3. mem = NoPage => position \in {1, 2} /\ ~AboutThePage(log[position])
  BY <1>0, <1>1, <1>2
<1>4. ASSUME log[position].type = "APPLYDELETE", NotYetApplied(position)
      PROVE  DropAllowed(mem.page, log[position].slot)
  <2>1. PICK p, r, pg : p = position /\ r = log[p] /\ pg = mem.page
    OBVIOUS
  <2>2. AboutThePage(r)
    BY <1>4, <2>1 DEF AboutThePage
  <2>3. mem # NoPage
    BY <1>3, <2>1, <2>2
  <2>4. RedoneTo(h, mem)
    <3>1. ASSUME NothingToRedo(mem) PROVE FALSE
      BY <1>0, <1>1, <1>4, <2>1, <2>2, <3>1 DEF NothingToRedo, NotYetApplied
    <3> QED
      BY <1>1, <2>3, <3>1 DEF PartlyUndone
  <2>5. mem.lsn \in 0 .. Len(log) - 1 /\ mem.lsn < p - 1 /\ (mem.lsn + 1 < p => pg = h[p - 1])
    BY <1>4, <2>1, <2>4 DEF RedoneTo, PageOf, NotYetApplied
  <2>6. pg = h[p - 1] /\ p \in 2 .. Len(log)
    BY <1>0, <1>1, <2>1, <2>5
  <2>7. Effect(h[p - 1], r, h[p])
    BY <1>0, <2>1, <2>2, <2>6 DEF Settled, LogFacts, PagesFollow, Follows
  <2>8. IsFull(At(pg, r.slot))
    BY <1>4, <2>1, <2>6, <2>7 DEF Effect, SlotEffect
  <2>9. r.slot \in 1 .. Len(pg.slots)
    BY <2>8, SlotKinds DEF At
  <2>10. pg \in Page
    <3>1. p - 1 \in 1 .. Len(log)
      BY <1>0, <2>6
    <3> QED
      BY <1>0, <2>6, <3>1 DEF Settled, LogFacts, PagesFollow, Accounted
  <2> QED
    BY <2>1, <2>8, <2>9, <2>10 DEF DropAllowed, At, Page
<1>5. /\ mode' = mode /\ log' = log /\ disk' = disk /\ cursor' = cursor /\ undone' = undone
      /\ active_txn' = Noted(log[position], position) /\ position' = position + 1
      /\ mem' = IF AboutThePage(log[position]) /\ NotYetApplied(position)
                  THEN [page |-> Redone(mem.page, log[position]), lsn |-> position - 1]
                ELSE IF log[position].type = "NEWPAGE" /\ mem = NoPage
                  THEN [page |-> EmptyPage, lsn |-> 0]
                ELSE mem
  BY <1>4 DEF RedoRecord
<1>6. LogFacts(log, h)' /\ IsSeq(log) /\ EndsAreLast(log)
  BY <1>0, <1>5 DEF Settled, LogFacts
<1>7. disk' # NoPage => PageOf(h, disk)' \/ PartlyUndone(h, disk)'
  BY <1>1, <1>5, SameLog DEF PartlyUndone
<1>8. Noting(position - 1)' /\ position' \in 1 .. Len(log') + 1
  <2>1. position' - 1 = position /\ position' \in 1 .. Len(log') + 1
    BY <1>0, <1>1, <1>5
  <2>2. PICK p : p = position
    OBVIOUS
  <2>3. Noting(p)'
    BY <1>1, <1>5, <1>6, <2>2, NotingStep
  <2> QED
    BY <2>1, <2>2, <2>3 DEF Noting
<1>9. CASE mem # NoPage
  <2>1. mem' = IF AboutThePage(log[position]) /\ NotYetApplied(position)
                 THEN [page |-> Redone(mem.page, log[position]), lsn |-> position - 1]
                 ELSE mem
    BY <1>5, <1>9
  <2>2. CASE RedoneTo(h, mem)
    <3>1. mem' # NoPage /\ RedoneTo(h, mem)'
      BY <1>0, <1>1, <1>5, <1>9, <2>1, <2>2, RedoneStep
    <3> QED
      BY <1>1, <1>5, <1>6, <1>7, <1>8, <3>1 DEF Recovering
  <2>3. CASE PartlyUndone(h, mem)
    <3>1. ~(AboutThePage(log[position]) /\ NotYetApplied(position))
      BY <1>0, <1>1, <2>3 DEF PartlyUndone, NothingToRedo, NotYetApplied
    <3>2. mem' = mem
      BY <2>1, <3>1
    <3>3. PartlyUndone(h, mem)'
      BY <1>5, <2>3, <3>2, SameLog DEF PartlyUndone
    <3> QED
      BY <1>1, <1>5, <1>6, <1>7, <1>8, <1>9, <3>2, <3>3 DEF Recovering
  <2> QED
    BY <1>1, <1>9, <2>2, <2>3
<1>10. CASE mem = NoPage
  <2>0. ~AboutThePage(log[position]) /\ position \in {1, 2} /\ disk = NoPage
    BY <1>1, <1>3, <1>10
  <2>1. CASE position = 1
    <3>1. mem' = NoPage /\ position' <= 2
      BY <1>2, <1>5, <1>10, <2>0, <2>1
    <3> QED
      BY <1>1, <1>5, <1>6, <1>7, <1>8, <2>0, <3>1 DEF Recovering
  <2>2. CASE position = 2
    <3>1. mem' = [page |-> EmptyPage, lsn |-> 0]
      BY <1>2, <1>5, <1>10, <2>0, <2>2
    <3>2. mem' # NoPage /\ mem'.page = EmptyPage /\ mem'.lsn = 0
      BY <3>1 DEF NoPageIsNoPage
    <3>3. h[1] = EmptyPage /\ h[2] = EmptyPage
      <4>1. h[1] = EmptyPage /\ Follows(h[2 - 1], log[2], h[2])
        BY <1>0 DEF Settled, LogFacts, PagesFollow
      <4> QED
        BY <1>2, <4>1 DEF Follows
    <3>4. RedoneTo(h, mem)'
      <4>1. position' = 3
        BY <1>5, <2>2
      <4>2. mem'.lsn \in 0 .. Len(log') - 1 /\ mem'.page = h[mem'.lsn + 1]
        BY <1>0, <1>5, <3>2, <3>3
      <4>3. mem'.page = h[position' - 1]
        BY <3>2, <3>3, <4>1
      <4>4. ASSUME NEW i \in 1 .. Len(log), i < 3 PROVE ~AboutThePage(log[i])
        <5>1. i = 1 \/ i = 2
          BY <4>4
        <5> QED
          BY <1>2, <5>1
      <4> QED
        BY <1>5, <4>1, <4>2, <4>3, <4>4 DEF RedoneTo, PageOf
    <3> QED
      BY <1>1, <1>5, <1>6, <1>7, <1>8, <3>2, <3>4 DEF Recovering
  <2> QED
    BY <2>0, <2>1, <2>2
<1> QED
  BY <1>9, <1>10

\* The end of the log: Undo begins with the page of the last record, or with one
\* that an earlier Undo has worked on.
LEMMA RecoveringRedoEnd ==
    ASSUME RedoInv, ~Excused, NEW h, Recovering(h), RedoEnd
    PROVE  Excused' \/ Recovering(h)'
<1>0. /\ Settled(h) /\ Len(log) \in Nat /\ Len(log) >= 4 /\ undone \in Nat
      /\ tail = "whole" /\ IsSeq(log)
  BY NotExcused DEF Settled
<1>1. /\ mode = "redo" /\ mode' = "undo" /\ undone' = undone + 1 /\ log' = log /\ mem' = mem
      /\ disk' = disk /\ active_txn' = active_txn /\ cursor' = cursor /\ tail' = tail
      /\ position > Len(log)
  BY <1>0 DEF RedoEnd, recVars
<1>2. /\ position \in 1 .. Len(log) + 1 /\ cursor = InvalidLSN /\ Noting(position - 1)
      /\ mem = NoPage => disk = NoPage /\ position <= 2
      /\ mem # NoPage => RedoneTo(h, mem) \/ PartlyUndone(h, mem)
      /\ disk # NoPage => PageOf(h, disk) \/ PartlyUndone(h, disk)
  BY <1>1 DEF Recovering
<1>3. position - 1 = Len(log) /\ mem # NoPage
  BY <1>0, <1>1, <1>2
<1>4. CASE undone > 0 /\ HasLoserInsert
  <2>1. HasLoserInsert' /\ undone' > 1
    BY <1>0, <1>1, <1>4, SameLog
  <2> QED
    BY <2>1 DEF Excused
<1>5. CASE ~(undone > 0 /\ HasLoserInsert)
  <2>1. NothingToRedo(mem) /\ TakenBackTo(h, mem.page, {})
    <3>1. CASE RedoneTo(h, mem)
      <4>1. /\ mem.lsn \in 0 .. Len(log) - 1
            /\ mem.lsn + 1 < position => mem.page = h[position - 1]
            /\ \A i \in 1 .. Len(log) : i < position /\ AboutThePage(log[i]) => i - 1 <= mem.lsn
        BY <3>1 DEF RedoneTo, PageOf
      <4>2. mem.lsn \in Nat /\ mem.lsn + 1 < position /\ \A i \in 1 .. Len(log) : i < position
        BY <1>0, <1>1, <1>2, <4>1
      <4>3. mem.page = h[Len(log)]
        BY <1>3, <4>1, <4>2
      <4> QED
        BY <1>0, <4>1, <4>2, <4>3, StartOfUndo DEF NothingToRedo
    <3>2. CASE PartlyUndone(h, mem)
      BY <1>5, <3>2 DEF PartlyUndone
    <3> QED
      BY <1>2, <1>3, <3>1, <3>2
  <2>2. /\ \A t \in DOMAIN active_txn :
             /\ active_txn[t] # InvalidLSN
             /\ LastOf(log, t, Len(log), active_txn[t])
             /\ \A c \in 1 .. Len(log) : log[c].txn = t => log[c].type # "COMMIT"
        /\ \A i \in 1 .. Len(log) :
             \/ log[i].txn \in DOMAIN active_txn
             \/ \E c \in 1 .. Len(log) : log[c].txn = log[i].txn /\ log[c].type = "COMMIT"
    BY <1>2, <1>3 DEF Noting
  <2>3. Records = 1 .. Len(log)
    BY <1>0, Positions
  <2>4. Undoing'
    <3>1. ASSUME NEW t \in DOMAIN active_txn PROVE t \notin Winners
      BY <2>2, <2>3 DEF Winners
    <3>2. InvalidLSN \in Int
      BY DEF InvalidLSN
    <3> QED
      BY <1>1, <1>2, <2>2, <3>1, <3>2, SameLog DEF Undoing
  <2>5. TakenRecords' = {}
    <3>1. ASSUME NEW i \in LoserRecords PROVE log[i].txn \in DOMAIN active_txn
      <4>1. i \in Records
        BY DEF LoserRecords
      <4> QED
        BY <2>2, <2>3, <4>1, CommittedRecords
    <3> QED
      BY <1>1, <3>1, SameLog DEF TakenRecords
  <2>6. disk' # NoPage => PageOf(h, disk)' \/ PartlyUndone(h, disk)'
    <3>1. undone > 0 => undone' > 0
      BY <1>0, <1>1
    <3> QED
      BY <1>1, <1>2, <3>1, SameLog DEF PartlyUndone
  <2>7. LogFacts(log, h)'
    BY <1>0, <1>1 DEF Settled
  <2>8. NothingToRedo(mem)' /\ TakenBackTo(h, mem.page, TakenRecords)'
    BY <1>1, <2>1, <2>5, SameLog
  <2> QED
    BY <1>1, <1>3, <2>4, <2>6, <2>7, <2>8 DEF Recovering
<1> QED
  BY <1>4, <1>5

\* Undo goes to the next transaction.
LEMMA RecoveringUndoNext ==
    ASSUME RedoInv, ~Excused, NEW h, Recovering(h), UndoNextTxn
    PROVE  Recovering(h)'
<1>0. Settled(h) /\ Len(log) \in Nat /\ IsSeq(log)
  BY NotExcused DEF Settled
<1>1. PICK t \in DOMAIN active_txn :
        /\ cursor' = active_txn[t]
        /\ active_txn' = [u \in DOMAIN active_txn \ {t} |-> active_txn[u]]
  BY DEF UndoNextTxn
<1>2. /\ mode = "undo" /\ mode' = "undo" /\ undone' = undone /\ log' = log /\ mem' = mem
      /\ disk' = disk /\ cursor = InvalidLSN
  BY DEF UndoNextTxn
<1>3. /\ Undoing /\ mem # NoPage /\ NothingToRedo(mem) /\ TakenBackTo(h, mem.page, TakenRecords)
      /\ disk # NoPage => PageOf(h, disk) \/ PartlyUndone(h, disk)
  BY <1>2 DEF Recovering
<1>4. PICK c, old, new : c = active_txn[t] /\ old = active_txn /\ new = active_txn'
  OBVIOUS
<1>5. c # InvalidLSN /\ LastOf(log, t, Len(log), c) /\ t \notin Winners
  BY <1>3, <1>4 DEF Undoing
<1>6. /\ c \in Int /\ c + 1 \in 1 .. Len(log) /\ log[c + 1].txn = t
      /\ \A j \in c + 2 .. Len(log) : log[j].txn # t
  BY <1>0, <1>5 DEF LastOf, InvalidLSN
<1>7. DOMAIN new = DOMAIN old \ {t} /\ \A u \in DOMAIN new : new[u] = old[u]
  BY <1>1, <1>4
<1>8. c + 1 \in LoserRecords
  <2>1. c + 1 \in Records
    BY <1>0, <1>6, Positions
  <2> QED
    BY <1>5, <1>6, <2>1 DEF LoserRecords
<1>9. Undoing'
  <2>1. \A u \in DOMAIN new : /\ new[u] # InvalidLSN /\ LastOf(log, u, Len(log), new[u])
                              /\ u \notin Winners
    BY <1>3, <1>4, <1>7 DEF Undoing
  <2> QED
    BY <1>1, <1>2, <1>4, <1>6, <1>7, <1>8, <2>1, SameLog DEF Undoing
<1>10. TakenRecords' = TakenRecords
  <2>1. TakenRecords = {i \in LoserRecords : log[i].txn \notin DOMAIN old}
    BY <1>2, <1>4 DEF TakenRecords
  <2>2. TakenRecords' = {i \in LoserRecords : /\ log[i].txn \notin DOMAIN new
                                              /\ log[i].txn = t => i > c + 1}
    BY <1>1, <1>2, <1>4, <1>5, <1>6, SameLog DEF TakenRecords
  <2>3. ASSUME NEW i \in LoserRecords, log[i].txn = t PROVE ~(i > c + 1)
    <3>1. i \in 1 .. Len(log)
      BY <1>0, Positions
    <3>2. i \notin c + 2 .. Len(log)
      BY <1>6, <2>3
    <3> QED
      BY <1>0, <1>6, <3>1, <3>2
  <2>4. ASSUME NEW i \in LoserRecords
        PROVE  log[i].txn \notin DOMAIN old <=>
                 log[i].txn \notin DOMAIN new /\ (log[i].txn = t => i > c + 1)
    BY <1>4, <1>7, <2>3
  <2> QED
    BY <2>1, <2>2, <2>4
<1>11. disk' # NoPage => PageOf(h, disk)' \/ PartlyUndone(h, disk)'
  BY <1>2, <1>3, SameLog DEF PartlyUndone
<1>12. LogFacts(log, h)'
  BY <1>0, <1>2 DEF Settled
<1>13. NothingToRedo(mem)' /\ TakenBackTo(h, mem.page, TakenRecords)'
  BY <1>2, <1>3, <1>10, SameLog
<1> QED
  BY <1>2, <1>3, <1>9, <1>11, <1>12, <1>13 DEF Recovering

\* The records taken back when Undo goes from record i to the one before it of
\* the same transaction.
LEMMA TakenStep ==
    ASSUME NEW h, Settled(h), Undoing, NEW i, i = cursor + 1, cursor # InvalidLSN,
           log' = log, active_txn' = active_txn, cursor' = log[i].prev
    PROVE  /\ i \in LoserRecords /\ i \notin TakenRecords
           /\ TakenRecords' = TakenRecords \union {i}
           /\ Undoing'
<1>0. Len(log) \in Nat /\ IsSeq(log) /\ Records = 1 .. Len(log) /\ Chained(log)
  BY Positions DEF Settled, LogFacts
<1>1. PICK t, p, d : t = log[i].txn /\ p = log[i].prev /\ d = DOMAIN active_txn
  OBVIOUS
<1>2. i \in LoserRecords /\ t \notin d /\ i \in 1 .. Len(log)
  <2>1. i \in LoserRecords /\ t \notin d
    BY <1>1 DEF Undoing
  <2> QED
    BY <1>0, <2>1 DEF LoserRecords
<1>3. LastOf(log, t, i - 1, p)
  BY <1>0, <1>1, <1>2 DEF Chained
<1>4. /\ p \in Int /\ p >= -1 /\ p + 1 < i
      /\ p # InvalidLSN => log[p + 1].txn = t /\ p + 1 \in 1 .. Len(log)
      /\ \A j \in p + 2 .. i - 1 : log[j].txn # t
  BY <1>0, <1>2, <1>3 DEF LastOf, InvalidLSN
<1>5. p # InvalidLSN => p + 1 \in LoserRecords
  <2>1. t \notin Winners
    BY <1>1, <1>2 DEF LoserRecords
  <2> QED
    BY <1>0, <1>4, <2>1 DEF LoserRecords
<1>6. TakenRecords = {k \in LoserRecords : log[k].txn \notin d /\ (log[k].txn = t => k > i)}
  BY <1>1 DEF TakenRecords
<1>7. TakenRecords' = {k \in LoserRecords :
                         log[k].txn \notin d /\ (p # InvalidLSN /\ log[k].txn = t => k > p + 1)}
  <2>1. TakenRecords' = {k \in LoserRecords :
                         /\ log[k].txn \notin d
                         /\ (p # InvalidLSN /\ log[k].txn = log[p + 1].txn => k > p + 1)}
    BY <1>1, SameLog DEF TakenRecords
  <2> QED
    BY <1>4, <2>1
<1>8. ASSUME NEW k \in LoserRecords
      PROVE  (log[k].txn \notin d /\ (p # InvalidLSN /\ log[k].txn = t => k > p + 1)) <=>
               (log[k].txn \notin d /\ (log[k].txn = t => k > i)) \/ k = i
  <2>1. k \in 1 .. Len(log)
    BY <1>0 DEF LoserRecords
  <2>2. CASE log[k].txn = t
    <3>1. k \notin p + 2 .. i - 1
      BY <1>4, <2>2
    <3>2. (p # InvalidLSN => k > p + 1) <=> k > i \/ k = i
      BY <1>0, <1>2, <1>4, <2>1, <3>1 DEF InvalidLSN
    <3> QED
      BY <1>2, <2>2, <3>2
  <2>3. CASE log[k].txn # t
    BY <1>1, <2>3
  <2> QED
    BY <2>2, <2>3
<1>9. TakenRecords' = TakenRecords \union {i}
  BY <1>2, <1>6, <1>7, <1>8
<1>10. i \notin TakenRecords
  BY <1>1, <1>2, <1>6
<1>11. Undoing'
  <2>1. \A u \in d : /\ active_txn[u] # InvalidLSN /\ LastOf(log, u, Len(log), active_txn[u])
                     /\ u \notin Winners
    BY <1>1 DEF Undoing
  <2> QED
    BY <1>1, <1>2, <1>4, <1>5, <2>1, SameLog DEF Undoing
<1> QED
  BY <1>2, <1>9, <1>10, <1>11

\* It is the turn of the record at the cursor.
LEMMA CursorTurn ==
    ASSUME NEW h, Settled(h), Undoing, NEW i, i = cursor + 1, cursor # InvalidLSN,
           i \in LoserRecords, AboutThePage(log[i]),
           NEW k \in Records, About(log[k], log[i].slot)
    PROVE  k > i <=> k \in TakenRecords
<1>0. Records = 1 .. Len(log) /\ Len(log) \in Nat
  BY Positions DEF Settled
<1>1. i \in Nat /\ k \in Nat /\ i \in Records
  BY <1>0 DEF LoserRecords
<1>2. log[i].txn \notin DOMAIN active_txn /\ log[i].txn \notin Winners
  BY DEF Undoing, LoserRecords
<1>3. ASSUME k > i PROVE k \in TakenRecords
  <2>1. log[k].txn = log[i].txn
    BY <1>1, <1>3, LosersKeepSlots
  <2>2. k \in LoserRecords
    BY <1>2, <2>1 DEF LoserRecords
  <2> QED
    BY <1>2, <1>3, <2>1, <2>2 DEF TakenRecords
<1>4. ASSUME k \in TakenRecords PROVE k > i
  <2>1. k \in LoserRecords /\ (log[k].txn = log[i].txn => k > i)
    BY <1>4 DEF TakenRecords
  <2>2. ASSUME k < i PROVE log[i].txn = log[k].txn
    <3>1. AboutThePage(log[k]) /\ About(log[i], log[k].slot)
      BY DEF About
    <3> QED
      BY <1>1, <2>1, <2>2, <3>1, LosersKeepSlots
  <2> QED
    BY <1>1, <2>1, <2>2
<1> QED
  BY <1>3, <1>4

\* Undo of one record: no assertion fails.
LEMMA RecoveringUndo ==
    ASSUME RedoInv, PagesHaveLSNs, NoPageIsNoPage, ~Excused, NEW h, Recovering(h), UndoRecord
    PROVE  Recovering(h)'
<1>0. Settled(h) /\ Len(log) \in Nat /\ Records = 1 .. Len(log)
  BY NotExcused, Positions DEF Settled
<1>1. mode = "undo" /\ cursor # InvalidLSN
  BY DEF UndoRecord
<1>2. /\ Undoing /\ mem # NoPage /\ NothingToRedo(mem) /\ TakenBackTo(h, mem.page, TakenRecords)
      /\ disk # NoPage => PageOf(h, disk) \/ PartlyUndone(h, disk)
  BY <1>1 DEF Recovering
<1>3. PICK i, r, P, pg : i = cursor + 1 /\ r = log[i] /\ P = TakenRecords /\ pg = mem.page
  OBVIOUS
<1>4. i \in LoserRecords /\ P \subseteq Records
  <2>1. i \in LoserRecords
    BY <1>1, <1>2, <1>3 DEF Undoing
  <2>2. P \subseteq Records
    BY <1>3 DEF TakenRecords, LoserRecords
  <2> QED
    BY <2>1, <2>2
<1>5. i \notin P
  <2>1. i \in Nat /\ ~(i > i)
    BY <1>0, <1>4 DEF LoserRecords
  <2> QED
    BY <1>1, <1>3, <2>1 DEF TakenRecords
<1>6. ASSUME AboutThePage(r)
      PROVE  /\ r.type = "INSERT" => DropAllowed(pg, r.slot)
             /\ TakenBackTo(h, TakenBack(pg, r), P \union {i})
  <2>1. \A k \in Records : About(log[k], log[i].slot) => (k > i <=> k \in P)
    BY <1>0, <1>1, <1>2, <1>3, <1>4, <1>6, CursorTurn
  <2>2. TakenBackTo(h, pg, P)
    BY <1>2, <1>3
  <2> QED
    BY <1>0, <1>3, <1>4, <1>5, <1>6, <2>1, <2>2, UndoOne
<1>7. r.type = "INSERT" => AboutThePage(r)
  BY DEF AboutThePage
<1>8. /\ mode' = mode /\ log' = log /\ disk' = disk /\ active_txn' = active_txn
      /\ cursor' = log[i].prev /\ undone' = undone
      /\ mem' = IF AboutThePage(r) THEN [mem EXCEPT !.page = TakenBack(@, r)] ELSE mem
  BY <1>3, <1>6, <1>7 DEF UndoRecord
<1>9. TakenRecords' = P \union {i} /\ Undoing'
  BY <1>0, <1>1, <1>2, <1>3, <1>8, TakenStep
<1>10. disk' # NoPage => PageOf(h, disk)' \/ PartlyUndone(h, disk)'
  BY <1>2, <1>8, SameLog DEF PartlyUndone
<1>11. LogFacts(log, h)'
  BY <1>0, <1>8 DEF Settled
<1>12. mem' # NoPage /\ mem'.lsn = mem.lsn /\ TakenBackTo(h, mem'.page, P \union {i})
  <2>1. CASE AboutThePage(r)
    <3>1. PICK lsn, new : lsn = mem.lsn /\ new = TakenBack(pg, r)
      OBVIOUS
    <3>2. mem = [page |-> pg, lsn |-> lsn]
      <4>1. PICK a, b : mem = [page |-> a, lsn |-> b]
        BY <1>2 DEF PagesHaveLSNs, HasLSN
      <4> QED
        BY <1>3, <3>1, <4>1
    <3>3. mem' = [mem EXCEPT !.page = TakenBack(pg, r)]
      BY <1>3, <1>8, <2>1
    <3>4. mem' = [page |-> new, lsn |-> lsn]
      BY <3>1, <3>2, <3>3
    <3>5. mem' # NoPage /\ mem'.page = new /\ mem'.lsn = lsn
      BY <3>4 DEF NoPageIsNoPage
    <3> QED
      BY <1>6, <2>1, <3>1, <3>5
  <2>2. CASE ~AboutThePage(r)
    <3>1. TakenBackTo(h, pg, P)
      BY <1>2, <1>3
    <3>2. \A s : ~About(log[i], s)
      BY <1>3, <2>2 DEF About
    <3>3. TakenBackTo(h, pg, P \union {i})
      BY <3>1, <3>2, TakeElsewhere DEF TakenBackTo
    <3> QED
      BY <1>2, <1>3, <1>8, <2>2, <3>3
  <2> QED
    BY <2>1, <2>2
<1>13. NothingToRedo(mem)'
  BY <1>2, <1>8, <1>12 DEF NothingToRedo
<1>14. TakenBackTo(h, mem.page, TakenRecords)'
  <2>1. PICK pg2, P2 : pg2 = mem'.page /\ P2 = P \union {i}
    OBVIOUS
  <2>2. TakenBackTo(h, pg2, P2)'
    BY <1>8, <1>12, <2>1, SameLog
  <2> QED
    BY <1>9, <2>1, <2>2
<1> QED
  BY <1>1, <1>8, <1>9, <1>10, <1>11, <1>12, <1>13, <1>14 DEF Recovering

\* The end of Undo.
LEMMA RecoveringEnd ==
    ASSUME RedoInv, ~Excused, NEW h, Recovering(h), UndoEnd
    PROVE  Recovering(h)'
<1>0. Settled(h)
  BY NotExcused
<1>1. /\ mode = "undo" /\ mode' = "recovered" /\ cursor = InvalidLSN /\ DOMAIN active_txn = {}
      /\ disk' = mem /\ mem' = mem /\ log' = log /\ undone' = undone
  BY DEF UndoEnd
<1>2. mem # NoPage /\ NothingToRedo(mem) /\ TakenBackTo(h, mem.page, TakenRecords) /\ undone > 0
  BY <1>1 DEF Recovering, RedoInv
<1>3. TakenRecords = LoserRecords
  BY <1>1 DEF TakenRecords
<1>4. PICK pg : pg = mem.page
  OBVIOUS
<1>5. PartlyUndone(h, disk)'
  <2>1. ~HasLoserInsert => TakenBackTo(h, mem.page, {})
    BY <1>0, <1>2, UndoAgain
  <2> QED
    BY <1>1, <1>2, <2>1, SameLog DEF PartlyUndone
<1>6. ASSUME NEW s \in Slots PROVE Content(s)' = CommittedContent(s)'
  <2>1. s \in Nat \ {0}
    BY RecoveryAssumption DEF Slots
  <2>2. At(pg, s) = CommittedContent(s)
    BY <1>0, <1>2, <1>3, <1>4, <2>1, EndOfUndo
  <2>3. pg \in Page
    BY <1>2, <1>4 DEF TakenBackTo, Accounted
  <2>4. Content(s)' = At(pg, s)
    <3>1. Len(pg.slots) \in Nat
      BY <2>3 DEF Page
    <3>2. Content(s)' = IF s <= Len(pg.slots) THEN pg.slots[s] ELSE EmptySlot
      BY <1>1, <1>4 DEF Content
    <3> QED
      BY <2>1, <3>1, <3>2 DEF At
  <2> QED
    BY <1>1, <2>2, <2>4, SameLog
<1>7. LogFacts(log, h)'
  BY <1>0, <1>1 DEF Settled
<1>8. \A s \in Slots : Content(s)' = CommittedContent(s)'
  BY <1>6
<1> QED
  BY <1>1, <1>5, <1>7, <1>8 DEF Recovering

\* Every step writes pages with an LSN.
LEMMA PagesKeepLSNs ==
    ASSUME RedoInv, NoPageIsNoPage, PagesHaveLSNs, Next
    PROVE  PagesHaveLSNs'
<1>1. ASSUME NEW m, HasLSN(m), m # NoPage, NEW pg
      PROVE  HasLSN([m EXCEPT !.page = pg]) /\ [m EXCEPT !.page = pg] # NoPage
  <2>1. PICK a, b : m = [page |-> a, lsn |-> b]
    BY <1>1 DEF HasLSN
  <2>2. [m EXCEPT !.page = pg] = [page |-> pg, lsn |-> b]
    BY <2>1
  <2> QED
    BY <2>2 DEF HasLSN, NoPageIsNoPage
<1>2. \A pg, lsn : HasLSN([page |-> pg, lsn |-> lsn]) /\ [page |-> pg, lsn |-> lsn] # NoPage
  BY DEF HasLSN, NoPageIsNoPage
<1> DEFINE NotYetMade == mode \in {"redo", "undo"} /\ mem = NoPage =>
                           mode = "redo" /\ position \in {1, 2}
<1>3. SUFFICES HasLSN(mem') /\ HasLSN(disk') /\ NotYetMade'
  BY DEF PagesHaveLSNs, HasLSN
<1>4. HasLSN(mem) /\ HasLSN(disk) /\ NotYetMade
  BY DEF PagesHaveLSNs
<1> DEFINE Same == UNCHANGED <<mode, position, mem, disk>>
           Made == disk' = disk /\ \E pg, lsn : mem' = [page |-> pg, lsn |-> lsn]
<1>5. ASSUME NEW t, NEW r, NEW pg, Change(t, r, pg) PROVE Made
  BY <1>5 DEF Change, Append1
<1>6. ASSUME NEW t, NEW r, NoChange(t, r) PROVE Same
  BY <1>6 DEF NoChange, Append1, recVars
<1>7. CASE Transactions
  <2>1. PICK t \in Txns :
          \/ Begin(t)
          \/ EndStart(t) \/ CommitStep(t) \/ AbortStep(t)
          \/ CommitRecord(t) \/ CommitFlush(t) \/ AbortRecord(t)
          \/ \E v \in Tuples : Insert(t, v)
          \/ \E s \in Slots : MarkDelete(t, s) \/ \E v \in Tuples : Update(t, s, v)
    BY <1>7 DEF Transactions
  <2>2. ASSUME WritesNothing PROVE Same
    BY <2>2 DEF WritesNothing, recVars
  <2>3. SUFFICES Same \/ Made
    BY <1>2, <1>4
  <2>4. CASE Begin(t) \/ CommitRecord(t) \/ AbortRecord(t)
    BY <1>6, <2>4 DEF Begin, CommitRecord, AbortRecord
  <2>5. CASE EndStart(t) \/ CommitFlush(t)
    BY <2>5 DEF EndStart, CommitFlush, recVars
  <2>6. CASE CommitStep(t)
    BY <1>5, <2>2, <2>6 DEF CommitStep, ApplyDelete
  <2>7. CASE AbortStep(t)
    BY <1>5, <2>2, <2>7 DEF AbortStep, ApplyDelete, RollbackUpdate
  <2>8. CASE \/ \E v \in Tuples : Insert(t, v)
             \/ \E s \in Slots : MarkDelete(t, s) \/ \E v \in Tuples : Update(t, s, v)
    BY <1>5, <2>8 DEF Insert, MarkDelete, Update
  <2> QED
    BY <2>1, <2>4, <2>5, <2>6, <2>7, <2>8
<1>8. CASE EvictPage \/ CheckpointPages \/ CheckpointLog \/ Crash
  BY <1>4, <1>8 DEF EvictPage, CheckpointPages, CheckpointLog, Crash, recVars
<1>9. ASSUME Panic PROVE HasLSN(mem') /\ HasLSN(disk') /\ NotYetMade'
  BY <1>4, <1>9 DEF Panic
<1>10. CASE RedoRecord /\ ~Panic
  <2>1. /\ mode = "redo" /\ mode' = "redo" /\ disk' = disk /\ position' = position + 1
        /\ mem' = IF AboutThePage(log[position]) /\ NotYetApplied(position)
                    THEN [page |-> Redone(mem.page, log[position]), lsn |-> position - 1]
                  ELSE IF log[position].type = "NEWPAGE" /\ mem = NoPage
                    THEN [page |-> EmptyPage, lsn |-> 0]
                  ELSE mem
    BY <1>10 DEF RedoRecord
  <2>2. CASE mem' = mem
    <3>1. ASSUME mem = NoPage PROVE position = 1
      <4>1. log[2].type = "NEWPAGE"
        BY DEF RedoInv, LogBegins
      <4>2. ASSUME position = 2 PROVE FALSE
        BY <1>2, <2>1, <2>2, <3>1, <4>1, <4>2
      <4> QED
        BY <1>4, <2>1, <3>1, <4>2
    <3> QED
      BY <1>4, <2>1, <2>2, <3>1
  <2>3. CASE Made
    BY <1>2, <1>4, <2>1, <2>3
  <2> QED
    BY <2>1, <2>2, <2>3
<1>11. CASE RedoEnd /\ ~Panic
  <2>1. mode = "redo" /\ position > Len(log) /\ UNCHANGED <<mem, disk>>
    BY <1>11 DEF RedoEnd
  <2>2. mem # NoPage
    <3>1. durable \in 4 .. Len(log) /\ Len(log) \in Nat
      BY Positions DEF RedoInv
    <3> QED
      BY <1>4, <2>1, <3>1
  <2> QED
    BY <1>4, <2>1, <2>2
<1>12. CASE UndoNextTxn \/ UndoEnd
  BY <1>4, <1>12 DEF UndoNextTxn, UndoEnd
<1>13. CASE UndoRecord /\ ~Panic
  <2>1. mode = "undo" /\ disk' = disk /\ (mem' = mem \/ \E pg : mem' = [mem EXCEPT !.page = pg])
    BY <1>13 DEF UndoRecord
  <2>2. mem # NoPage
    BY <1>4, <2>1
  <2> QED
    BY <1>1, <1>4, <2>1, <2>2
<1> QED
  BY <1>7, <1>8, <1>9, <1>10, <1>11, <1>12, <1>13 DEF Next, Recover

\* The steps of a recovery, one by one.
LEMMA DownStep ==
    ASSUME RedoInv, PagesHaveLSNs, NoPageIsNoPage, mode # "up", Down, Next
    PROVE  Down' /\ mode' # "up"
<1>0. IsSeq(log) /\ Len(log) \in Nat /\ undone \in Nat /\ position \in Nat /\ durable = Len(log)
  BY Positions DEF RedoInv, Down
<1>1. ~Transactions
  <2>1. \A t \in Txns : st[t] = "unborn"
    BY DEF Down
  <2> QED
    BY <2>1 DEF Transactions, Begin, NoChange, Append1, EndStart, CommitStep, AbortStep,
                CommitRecord, CommitFlush, AbortRecord, Insert, MarkDelete, Update
<1>2. EvictPage \/ Crash \/ Recover
  BY <1>1 DEF Next, CheckpointPages, CheckpointLog
<1>3. CASE Crash
  BY <1>3, RecoveringCrash
<1>4. CASE EvictPage \/ Recover
  <2>1. \/ EvictPage \/ RedoRecord \/ RedoEnd \/ UndoNextTxn \/ UndoRecord \/ UndoEnd
    BY <1>4 DEF Recover
  <2>2. ASSUME Panic PROVE /\ UNCHANGED <<log, tail, durable, st, position, undone, mem, disk>>
                           /\ mode' # "up"
    BY <2>2 DEF Panic, txnVars, recVars
  <2>3. CASE EvictPage
    <3>1. /\ UNCHANGED <<log, tail, st, position, undone, mem, mode>> /\ disk' = mem
          /\ durable' = Len(log)
      BY <2>3 DEF EvictPage, txnVars, recVars
    <3>2. Ahead => Ahead'
      BY <3>1 DEF Ahead
    <3>3. Excused' \/ \E h : Recovering(h)'
      <4>1. CASE Excused
        BY <1>0, <3>1, <3>2, <4>1, ExcusedStays
      <4>2. CASE ~Excused
        BY <2>3, <4>2, RecoveringEvict DEF Down
      <4> QED
        BY <4>1, <4>2
    <3> QED
      BY <1>0, <3>1, <3>3 DEF Down
  <2>4. CASE RedoRecord
    <3>1. CASE Panic
      <4>1. Ahead => Ahead'
        BY <2>2, <3>1 DEF Ahead
      <4>2. Excused' \/ \E h : Recovering(h)'
        <5>1. CASE Excused
          BY <1>0, <2>2, <3>1, <4>1, <5>1, ExcusedStays
        <5>2. CASE ~Excused
          BY <2>4, <5>2, RecoveringRedo DEF Down
        <5> QED
          BY <5>1, <5>2
      <4> QED
        BY <1>0, <2>2, <3>1, <4>2 DEF Down
    <3>2. CASE ~Panic
      <4>1. /\ UNCHANGED <<log, tail, durable, st, undone, disk, mode>>
            /\ position' = position + 1 /\ position <= Len(log)
            /\ mem' = IF AboutThePage(log[position]) /\ NotYetApplied(position)
                        THEN [page |-> Redone(mem.page, log[position]), lsn |-> position - 1]
                      ELSE IF log[position].type = "NEWPAGE" /\ mem = NoPage
                        THEN [page |-> EmptyPage, lsn |-> 0]
                      ELSE mem
        BY <2>4, <3>2 DEF RedoRecord, txnVars
      <4>2. ASSUME Ahead PROVE Ahead'
        <5>1. mem # NoPage /\ mem.lsn \in Nat /\ mem.lsn >= Len(log)
          BY <4>2 DEF Ahead
        <5>2. ~NotYetApplied(position)
          BY <1>0, <4>1, <5>1 DEF NotYetApplied
        <5>3. mem' = mem
          BY <4>1, <5>1, <5>2
        <5> QED
          BY <4>1, <4>2, <5>3 DEF Ahead
      <4>3. Excused' \/ \E h : Recovering(h)'
        <5>1. CASE Excused
          BY <1>0, <4>1, <4>2, <5>1, ExcusedStays
        <5>2. CASE ~Excused
          BY <2>4, <5>2, RecoveringRedo DEF Down
        <5> QED
          BY <5>1, <5>2
      <4> QED
        BY <1>0, <4>1, <4>3 DEF Down
    <3> QED
      BY <3>1, <3>2
  <2>5. CASE RedoEnd
    <3>1. /\ UNCHANGED <<log, tail, durable, st, position, mem, disk>> /\ mode' # "up"
          /\ undone' \in {undone, undone + 1}
      BY <2>5 DEF RedoEnd, Panic, txnVars, recVars
    <3>2. Ahead => Ahead'
      BY <3>1 DEF Ahead
    <3>3. Excused' \/ \E h : Recovering(h)'
      <4>1. CASE Excused
        BY <1>0, <3>1, <3>2, <4>1, ExcusedStays
      <4>2. CASE ~Excused
        BY <2>5, <4>2, RecoveringRedoEnd DEF Down
      <4> QED
        BY <4>1, <4>2
    <3> QED
      BY <1>0, <3>1, <3>3 DEF Down
  <2>6. CASE UndoNextTxn
    <3>1. UNCHANGED <<log, tail, durable, st, position, mem, disk, undone, mode>>
      BY <2>6 DEF UndoNextTxn, txnVars
    <3>2. Ahead => Ahead'
      BY <3>1 DEF Ahead
    <3>3. Excused' \/ \E h : Recovering(h)'
      <4>1. CASE Excused
        BY <1>0, <3>1, <3>2, <4>1, ExcusedStays
      <4>2. CASE ~Excused
        BY <2>6, <4>2, RecoveringUndoNext DEF Down
      <4> QED
        BY <4>1, <4>2
    <3> QED
      BY <1>0, <3>1, <3>3 DEF Down
  <2>7. CASE UndoRecord
    <3>1. /\ UNCHANGED <<log, tail, durable, st, position, disk, undone>> /\ mode' # "up"
          /\ mem' = mem \/ \E pg : mem' = [mem EXCEPT !.page = pg]
      <4>1. CASE Panic
        BY <2>2, <4>1
      <4>2. CASE ~Panic
        BY <2>7, <4>2 DEF UndoRecord, txnVars
      <4> QED
        BY <4>1, <4>2
    <3>2. ASSUME Ahead PROVE Ahead'
      <4>1. CASE mem' = mem
        BY <3>1, <3>2, <4>1 DEF Ahead
      <4>2. ASSUME NEW pg, mem' = [mem EXCEPT !.page = pg] PROVE Ahead'
        <5>1. PICK a, b : mem = [page |-> a, lsn |-> b]
          BY <3>2 DEF Ahead, PagesHaveLSNs, HasLSN
        <5>2. mem' = [page |-> pg, lsn |-> b] /\ mem.lsn = b
          BY <4>2, <5>1
        <5>3. mem' # NoPage /\ mem'.lsn = mem.lsn
          BY <5>2 DEF NoPageIsNoPage
        <5> QED
          BY <3>1, <3>2, <5>3 DEF Ahead
      <4> QED
        BY <3>1, <4>1, <4>2
    <3>3. Excused' \/ \E h : Recovering(h)'
      <4>1. CASE Excused
        BY <1>0, <3>1, <3>2, <4>1, ExcusedStays
      <4>2. CASE ~Excused
        BY <2>7, <4>2, RecoveringUndo DEF Down
      <4> QED
        BY <4>1, <4>2
    <3> QED
      BY <1>0, <3>1, <3>3 DEF Down
  <2>8. CASE UndoEnd
    <3>1. /\ UNCHANGED <<log, tail, durable, st, position, undone, mem>> /\ mode' # "up"
          /\ disk' = mem
      BY <2>8 DEF UndoEnd, txnVars, recVars
    <3>2. Ahead => Ahead'
      BY <3>1 DEF Ahead
    <3>3. Excused' \/ \E h : Recovering(h)'
      <4>1. CASE Excused
        BY <1>0, <3>1, <3>2, <4>1, ExcusedStays
      <4>2. CASE ~Excused
        BY <2>8, <4>2, RecoveringEnd DEF Down
      <4> QED
        BY <4>1, <4>2
    <3> QED
      BY <1>0, <3>1, <3>3 DEF Down
  <2> QED
    BY <2>1, <2>3, <2>4, <2>5, <2>6, <2>7, <2>8
<1> QED
  BY <1>2, <1>3, <1>4

----------------------------------------------------------------------------
(* The crash.                                                              *)

\* What is said of a log is said of the part of it that survives.
LEMMA CutFacts ==
    ASSUME NEW l, NEW h, LogFacts(l, h), Len(l) \in Nat, NEW n \in 1 .. Len(l),
           NEW k, Len(k) = n, \A i \in 1 .. n : k[i] = l[i]
    PROVE  LogFacts(k, h)
<1>0. \A i \in 1 .. n : i \in 1 .. Len(l)
  OBVIOUS
<1>1. PagesFollow(k, h)
  <2>1. \A i \in 2 .. n : i \in 2 .. Len(l) /\ i \in 1 .. n
    OBVIOUS
  <2> QED
    BY <1>0, <2>1 DEF LogFacts, PagesFollow
<1>2. SlotsAreLocked(k)
  <2>1. SUFFICES ASSUME NEW i \in 1 .. n, NEW j \in 1 .. n, i < j, AboutThePage(k[i]),
                        About(k[j], k[i].slot), k[j].txn # k[i].txn
                 PROVE  \E e \in i + 1 .. j - 1 : Ends(k[e]) /\ k[e].txn = k[i].txn
    BY DEF SlotsAreLocked
  <2>2. k[i] = l[i] /\ k[j] = l[j] /\ i \in 1 .. Len(l) /\ j \in 1 .. Len(l)
    BY <1>0
  <2>3. PICK e \in i + 1 .. j - 1 : Ends(l[e]) /\ l[e].txn = l[i].txn
    BY <2>1, <2>2 DEF LogFacts, SlotsAreLocked
  <2>4. k[e] = l[e]
    OBVIOUS
  <2> QED
    BY <2>2, <2>3, <2>4
<1>3. EndsAreLast(k)
  BY <1>0 DEF LogFacts, EndsAreLast
<1>4. CommitsAreClean(k)
  <2>1. SUFFICES ASSUME NEW c \in 1 .. n, NEW i \in 1 .. c, k[c].type = "COMMIT",
                        k[i].txn = k[c].txn
                 PROVE  /\ k[i].type # "ROLLBACKDELETE"
                        /\ k[i].type = "MARKDELETE" => Applied(k, i, c)
    BY DEF CommitsAreClean
  <2>2. i \in 1 .. n /\ k[i] = l[i] /\ k[c] = l[c] /\ c \in 1 .. Len(l)
    OBVIOUS
  <2>3. l[i].type # "ROLLBACKDELETE" /\ (l[i].type = "MARKDELETE" => Applied(l, i, c))
    BY <2>1, <2>2 DEF LogFacts, CommitsAreClean
  <2>4. \A j \in i + 1 .. c : k[j] = l[j]
    BY <2>2
  <2> QED
    BY <2>2, <2>3, <2>4 DEF Applied
<1>5. Chained(k)
  <2>1. SUFFICES ASSUME NEW i \in 1 .. n PROVE LastOf(k, k[i].txn, i - 1, k[i].prev)
    BY DEF Chained
  <2>2. PICK t, lsn : t = l[i].txn /\ lsn = l[i].prev
    OBVIOUS
  <2>3. LastOf(l, t, i - 1, lsn)
    BY <1>0, <2>2 DEF LogFacts, Chained
  <2>4. lsn \in -1 .. i - 2
    BY <2>3 DEF LastOf
  <2>5. lsn # InvalidLSN => k[lsn + 1] = l[lsn + 1]
    BY <2>4 DEF InvalidLSN
  <2>6. \A j \in lsn + 2 .. i - 1 : k[j] = l[j]
    BY <2>4
  <2>7. LastOf(k, t, i - 1, lsn)
    BY <2>3, <2>4, <2>5, <2>6 DEF LastOf
  <2> QED
    BY <2>2, <2>7
<1> QED
  BY <1>1, <1>2, <1>3, <1>4, <1>5 DEF LogFacts

\* The first crash: the history of the life before is the one to repeat.
LEMMA UpCrash ==
    ASSUME RedoInv, mode = "up", Up, Crash
    PROVE  Down' /\ mode' = "redo"
<1>1. /\ mode' = "redo" /\ mem' = disk /\ disk' = disk /\ undone' = undone /\ position' = 1
      /\ active_txn' = << >> /\ cursor' = InvalidLSN /\ st' = [t \in Txns |-> "unborn"]
  BY DEF Crash
<1>2. PICK n \in durable .. Len(log) : log' = SubSeq(log, 1, n) /\ durable' = n
  BY DEF Crash
<1>3. IsSeq(log) /\ Len(log) \in Nat /\ durable \in 4 .. Len(log) /\ undone = 0 /\ History
  BY Positions DEF RedoInv, Up
<1>4. n \in 0 .. Len(log) /\ n \in 1 .. Len(log) /\ n \in Nat /\ n >= 4
  BY <1>3
<1>5. IsSeq(log') /\ Len(log') = n /\ \A i \in 1 .. n : log'[i] = log[i]
  BY <1>2, <1>3, <1>4, CutAny
<1>6. PICK h, l : h = snapshots /\ l = log'
  OBVIOUS
<1>7. LogFacts(log, h)'
  <2>1. LogFacts(l, h)
    BY <1>3, <1>4, <1>5, <1>6, CutFacts DEF Up
  <2> QED
    BY <1>6, <2>1
<1>8. disk # NoPage => disk.lsn \in Nat /\ disk.page = h[disk.lsn + 1]
  BY <1>3, <1>6 DEF History, OfHistory
<1>9. CASE disk # NoPage /\ disk.lsn >= n
  <2>1. Ahead'
    BY <1>1, <1>5, <1>8, <1>9 DEF Ahead
  <2> QED
    BY <1>1, <1>2, <1>5, <2>1 DEF Down, Excused
<1>10. CASE ~(disk # NoPage /\ disk.lsn >= n)
  <2>1. disk' # NoPage => PageOf(h, disk)'
    <3>1. disk # NoPage => disk.lsn \in 0 .. n - 1
      BY <1>4, <1>8, <1>10
    <3> QED
      BY <1>1, <1>5, <1>8, <3>1 DEF PageOf
  <2>2. Noting(position - 1)'
    <3>1. DOMAIN << >> = {} /\ 1 .. position' - 1 = {}
      BY <1>1
    <3> QED
      BY <1>1, <3>1 DEF Noting
  <2>3. mem' # NoPage => RedoneTo(h, mem)'
    <3>1. ASSUME PageOf(h, mem)' PROVE RedoneTo(h, mem)'
      <4>1. mem'.lsn \in 0 .. n - 1
        BY <1>5, <3>1 DEF PageOf
      <4>2. ~(mem'.lsn + 1 < position')
        BY <1>1, <1>4, <4>1
      <4>3. \A i \in 1 .. Len(log') : ~(i < position')
        BY <1>1, <1>5
      <4> QED
        BY <3>1, <4>2, <4>3 DEF RedoneTo
    <3> QED
      BY <1>1, <2>1, <3>1
  <2>4. position' \in 1 .. Len(log') + 1 /\ position' <= 2
    BY <1>1, <1>4, <1>5
  <2>5. Recovering(h)'
    BY <1>1, <1>7, <2>1, <2>2, <2>3, <2>4 DEF Recovering
  <2> QED
    BY <1>1, <1>2, <1>5, <2>5 DEF Down
<1> QED
  BY <1>1, <1>9, <1>10

----------------------------------------------------------------------------
(* The life before the crash: one record more.                             *)

\* k is l with the record r at its end.
Longer(l, r, k) ==
    /\ Len(l) \in Nat /\ Len(k) = Len(l) + 1 /\ k[Len(l) + 1] = r
    /\ \A i \in 1 .. Len(l) : k[i] = l[i]

\* Positions of the longer log.
LEMMA LongerPositions ==
    ASSUME NEW l, NEW r, NEW k, Longer(l, r, k), NEW i \in 1 .. Len(k)
    PROVE  \/ i \in 1 .. Len(l) /\ k[i] = l[i]
           \/ i = Len(l) + 1 /\ k[i] = r
  BY DEF Longer

\* The last record of a transaction.
LEMMA LongerLast ==
    ASSUME NEW l, NEW r, NEW k, Longer(l, r, k), NEW t, NEW lsn
    PROVE  /\ \A n \in 0 .. Len(l) : LastOf(l, t, n, lsn) => LastOf(k, t, n, lsn)
           /\ LastOf(l, t, Len(l), lsn) /\ r.txn # t => LastOf(k, t, Len(k), lsn)
           /\ r.txn = t => LastOf(k, t, Len(k), Len(l))
<1>0. PICK len : len = Len(l)
  OBVIOUS
<1>1. len \in Nat /\ Len(k) = len + 1 /\ k[len + 1] = r /\ \A i \in 1 .. len : k[i] = l[i]
  BY <1>0 DEF Longer
<1>2. ASSUME NEW n \in 0 .. len, LastOf(l, t, n, lsn) PROVE LastOf(k, t, n, lsn)
  <2>1. lsn \in -1 .. n - 1 /\ \A j \in lsn + 2 .. n : j \in 1 .. len
    BY <1>1, <1>2 DEF LastOf
  <2>2. lsn # InvalidLSN => lsn + 1 \in 1 .. len
    BY <1>1, <2>1 DEF InvalidLSN
  <2> QED
    BY <1>1, <1>2, <2>1, <2>2 DEF LastOf
<1>3. ASSUME LastOf(l, t, len, lsn), r.txn # t PROVE LastOf(k, t, len + 1, lsn)
  <2>1. LastOf(k, t, len, lsn)
    BY <1>1, <1>2, <1>3
  <2>2. lsn \in -1 .. len - 1
    BY <2>1 DEF LastOf
  <2>3. ASSUME NEW j \in lsn + 2 .. len + 1 PROVE k[j].txn # t
    <3>1. j \in lsn + 2 .. len \/ j = len + 1
      BY <1>1, <2>2
    <3> QED
      BY <1>1, <1>3, <2>1, <3>1 DEF LastOf
  <2>4. lsn \in -1 .. (len + 1) - 1
    BY <1>1, <2>2
  <2> QED
    BY <2>1, <2>3, <2>4 DEF LastOf
<1>4. ASSUME r.txn = t PROVE LastOf(k, t, len + 1, len)
  <2>1. len \in -1 .. (len + 1) - 1 /\ len + 2 .. len + 1 = {}
    BY <1>1
  <2> QED
    BY <1>1, <1>4, <2>1 DEF LastOf
<1> QED
  BY <1>0, <1>1, <1>2, <1>3, <1>4

\* What is said of the log is said of the longer one.
LEMMA AppendFacts ==
    ASSUME NEW l, NEW r, NEW k, Longer(l, r, k), Len(l) >= 1,
           NEW h, LogFacts(l, h), NEW pg, NEW g, Longer(h, pg, g), Len(h) = Len(l),
           Accounted(pg), Follows(h[Len(l)], r, pg),
           \A i \in 1 .. Len(l) : AboutThePage(l[i]) /\ About(r, l[i].slot) /\ r.txn # l[i].txn =>
               Ended(l, i),
           \A i \in 1 .. Len(l) : Ends(l[i]) => r.txn # l[i].txn,
           r.type = "COMMIT" => \A i \in 1 .. Len(l) : l[i].txn = r.txn =>
               /\ l[i].type # "ROLLBACKDELETE"
               /\ l[i].type = "MARKDELETE" => Applied(l, i, Len(l)),
           LastOf(l, r.txn, Len(l), r.prev)
    PROVE  LogFacts(k, g)
<1>0. PICK len : len = Len(l)
  OBVIOUS
<1>1. /\ len \in Nat /\ len >= 1 /\ Len(k) = len + 1 /\ k[len + 1] = r
      /\ \A i \in 1 .. len : k[i] = l[i]
      /\ g[len + 1] = pg /\ \A i \in 1 .. len : g[i] = h[i]
  BY <1>0 DEF Longer
<1>2. \A i \in 1 .. len + 1 : i \in 1 .. len \/ i = len + 1
  BY <1>1
<1>3. PagesFollow(k, g)
  <2>1. g[1] = EmptyPage
    <3>1. 1 \in 1 .. len
      BY <1>1
    <3> QED
      BY <1>1, <3>1 DEF LogFacts, PagesFollow
  <2>2. ASSUME NEW i \in 1 .. len + 1 PROVE Accounted(g[i])
    BY <1>0, <1>1, <1>2 DEF LogFacts, PagesFollow
  <2>3. ASSUME NEW i \in 2 .. len + 1 PROVE Follows(g[i - 1], k[i], g[i])
    <3>1. CASE i = len + 1
      <4>1. i - 1 = len /\ len \in 1 .. len
        BY <1>1, <3>1
      <4> QED
        BY <1>0, <1>1, <3>1, <4>1
    <3>2. CASE i # len + 1
      <4>1. i \in 2 .. len /\ i \in 1 .. len /\ i - 1 \in 1 .. len
        BY <1>1, <3>2
      <4> QED
        BY <1>0, <1>1, <4>1 DEF LogFacts, PagesFollow
    <3> QED
      BY <3>1, <3>2
  <2> QED
    BY <1>1, <2>1, <2>2, <2>3 DEF PagesFollow
<1>4. SlotsAreLocked(k)
  <2>1. SUFFICES ASSUME NEW i \in 1 .. len + 1, NEW j \in 1 .. len + 1, i < j, AboutThePage(k[i]),
                        About(k[j], k[i].slot), k[j].txn # k[i].txn
                 PROVE  \E e \in i + 1 .. j - 1 : Ends(k[e]) /\ k[e].txn = k[i].txn
    BY <1>1 DEF SlotsAreLocked
  <2>2. i \in 1 .. len /\ k[i] = l[i]
    BY <1>1, <2>1
  <2>3. PICK e \in i + 1 .. j - 1 : Ends(l[e]) /\ l[e].txn = l[i].txn
    <3>1. CASE j \in 1 .. len
      BY <1>0, <1>1, <2>1, <2>2, <3>1 DEF LogFacts, SlotsAreLocked
    <3>2. CASE j = len + 1
      <4>1. k[j] = r /\ j - 1 = len
        BY <1>1, <3>2
      <4>2. Ended(l, i)
        BY <1>0, <2>1, <2>2, <4>1
      <4> QED
        BY <1>0, <4>1, <4>2 DEF Ended
    <3> QED
      BY <1>2, <3>1, <3>2
  <2>4. k[e] = l[e]
    <3>1. e \in 1 .. len
      BY <1>1, <2>2
    <3> QED
      BY <1>1, <3>1
  <2> QED
    BY <2>2, <2>3, <2>4
<1>5. EndsAreLast(k)
  <2>1. SUFFICES ASSUME NEW i \in 1 .. len + 1, NEW j \in 1 .. len + 1, i < j, Ends(k[i])
                 PROVE  k[j].txn # k[i].txn
    BY <1>1 DEF EndsAreLast
  <2>2. i \in 1 .. len /\ k[i] = l[i]
    BY <1>1, <2>1
  <2>3. CASE j \in 1 .. len
    BY <1>0, <1>1, <2>1, <2>2, <2>3 DEF LogFacts, EndsAreLast
  <2>4. CASE j = len + 1
    BY <1>0, <1>1, <2>1, <2>2, <2>4
  <2> QED
    BY <1>2, <2>3, <2>4
<1>6. CommitsAreClean(k)
  <2>1. SUFFICES ASSUME NEW c \in 1 .. len + 1, NEW i \in 1 .. c, k[c].type = "COMMIT",
                        k[i].txn = k[c].txn
                 PROVE  /\ k[i].type # "ROLLBACKDELETE"
                        /\ k[i].type = "MARKDELETE" => Applied(k, i, c)
    BY <1>1 DEF CommitsAreClean
  <2>2. CASE c \in 1 .. len
    <3>1. i \in 1 .. len /\ k[i] = l[i] /\ k[c] = l[c]
      BY <1>1, <2>2
    <3>2. l[i].type # "ROLLBACKDELETE" /\ (l[i].type = "MARKDELETE" => Applied(l, i, c))
      BY <1>0, <2>1, <2>2, <3>1 DEF LogFacts, CommitsAreClean
    <3>3. \A j \in i + 1 .. c : k[j] = l[j]
      BY <1>1, <2>2, <3>1
    <3> QED
      BY <3>1, <3>2, <3>3 DEF Applied
  <2>3. CASE c = len + 1
    <3>1. k[c] = r
      BY <1>1, <2>3
    <3>2. CASE i = c
      BY <2>1, <3>2
    <3>3. CASE i # c
      <4>1. i \in 1 .. len /\ k[i] = l[i]
        BY <1>1, <2>3, <3>3
      <4>2. l[i].type # "ROLLBACKDELETE" /\ (l[i].type = "MARKDELETE" => Applied(l, i, len))
        BY <1>0, <2>1, <3>1, <4>1
      <4>3. \A j \in i + 1 .. len : k[j] = l[j] /\ j \in i + 1 .. c
        BY <1>1, <2>3, <4>1
      <4> QED
        BY <4>1, <4>2, <4>3 DEF Applied
    <3> QED
      BY <3>2, <3>3
  <2> QED
    BY <1>2, <2>2, <2>3
<1>7. Chained(k)
  <2>1. SUFFICES ASSUME NEW i \in 1 .. len + 1 PROVE LastOf(k, k[i].txn, i - 1, k[i].prev)
    BY <1>1 DEF Chained
  <2>2. CASE i \in 1 .. len
    <3>1. PICK t, lsn : t = l[i].txn /\ lsn = l[i].prev
      OBVIOUS
    <3>2. LastOf(l, t, i - 1, lsn) /\ i - 1 \in 0 .. Len(l)
      BY <1>0, <1>1, <2>2, <3>1 DEF LogFacts, Chained
    <3>3. LastOf(k, t, i - 1, lsn)
      BY <3>2, LongerLast
    <3> QED
      BY <1>1, <2>2, <3>1, <3>3
  <2>3. CASE i = len + 1
    <3>1. PICK t, lsn : t = r.txn /\ lsn = r.prev
      OBVIOUS
    <3>2. len \in 0 .. Len(l) /\ i - 1 = len
      BY <1>0, <1>1, <2>3
    <3>3. LastOf(k, t, len, lsn)
      BY <1>0, <3>1, <3>2, LongerLast
    <3> QED
      BY <1>1, <2>3, <3>1, <3>2, <3>3
  <2> QED
    BY <1>2, <2>2, <2>3
<1> QED
  BY <1>3, <1>4, <1>5, <1>6, <1>7 DEF LogFacts

\* The owners of the slots, after a record of t.
OwnersStep(own, t, r, own2) ==
    /\ AboutThePage(r) => r.slot \in Slots /\ own[r.slot] \in {NoTxn, t} /\ own2[r.slot] = t
    /\ \A s \in Slots : \/ own2[s] = own[s]
                        \/ own[s] \in {NoTxn, t} /\ own2[s] = t
                        \/ own[s] = t /\ Ends(r)

\* A slot is held until the end of the transaction that wrote it.
LEMMA HeldStep ==
    ASSUME NEW l, NEW r, NEW k, Longer(l, r, k), NEW own, HeldUntilEnd(l, own), NEW own2,
           r.txn \in Txns, OwnersStep(own, r.txn, r, own2)
    PROVE  /\ HeldUntilEnd(k, own2)
           /\ \A i \in 1 .. Len(l) : AboutThePage(l[i]) /\ About(r, l[i].slot) /\ r.txn # l[i].txn =>
                Ended(l, i)
<1>1. /\ Len(l) \in Nat /\ Len(k) = Len(l) + 1 /\ k[Len(l) + 1] = r
      /\ \A i \in 1 .. Len(l) : k[i] = l[i]
  BY DEF Longer
<1>2. ASSUME NEW i \in 1 .. Len(l), Ended(l, i) PROVE Ended(k, i)
  <2>1. PICK e \in i + 1 .. Len(l) : Ends(l[e]) /\ l[e].txn = l[i].txn
    BY <1>2 DEF Ended
  <2>2. e \in 1 .. Len(l) /\ e \in i + 1 .. Len(k)
    BY <1>1
  <2> QED
    BY <1>1, <2>1, <2>2 DEF Ended
<1>3. ASSUME NEW i \in 1 .. Len(k), AboutThePage(k[i])
      PROVE  \/ Ended(k, i)
             \/ k[i].txn \in Txns /\ k[i].slot \in Slots /\ own2[k[i].slot] = k[i].txn
  <2>1. CASE i = Len(l) + 1 /\ k[i] = r
    BY <1>3, <2>1 DEF OwnersStep
  <2>2. CASE i \in 1 .. Len(l) /\ k[i] = l[i]
    <3>1. CASE Ended(l, i)
      BY <1>2, <2>2, <3>1
    <3>2. CASE ~Ended(l, i)
      <4>1. l[i].txn \in Txns /\ l[i].slot \in Slots /\ own[l[i].slot] = l[i].txn
        BY <1>3, <2>2, <3>2 DEF HeldUntilEnd
      <4>2. CASE own2[l[i].slot] = own[l[i].slot]
        BY <2>2, <4>1, <4>2
      <4>3. CASE own[l[i].slot] \in {NoTxn, r.txn} /\ own2[l[i].slot] = r.txn
        BY <2>2, <4>1, <4>3, RecoveryAssumption
      <4>4. CASE own[l[i].slot] = r.txn /\ Ends(r)
        <5>1. Len(l) + 1 \in i + 1 .. Len(k)
          BY <1>1, <2>2
        <5> QED
          BY <1>1, <2>2, <4>1, <4>4, <5>1 DEF Ended
      <4> QED
        BY <4>1, <4>2, <4>3, <4>4 DEF OwnersStep
    <3> QED
      BY <3>1, <3>2
  <2> QED
    BY <2>1, <2>2, LongerPositions
<1>4. ASSUME NEW i \in 1 .. Len(l), AboutThePage(l[i]), About(r, l[i].slot), r.txn # l[i].txn
      PROVE  Ended(l, i)
  <2>1. AboutThePage(r) /\ r.slot = l[i].slot
    BY <1>4 DEF About
  <2>2. own[l[i].slot] \in {NoTxn, r.txn}
    BY <2>1 DEF OwnersStep
  <2> QED
    BY <1>4, <2>2, RecoveryAssumption DEF HeldUntilEnd
<1> QED
  BY <1>3, <1>4 DEF HeldUntilEnd

\* The stage of the transaction that wrote the record, and of another one.
LEMMA StageStep ==
    ASSUME NEW l, NEW r, NEW k, Longer(l, r, k)
    PROVE  /\ \A u, x, lsn : u # r.txn /\ Stage(l, u, x, lsn) => Stage(k, u, x, lsn)
           /\ \A x, lsn, y :
                /\ Stage(l, r.txn, x, lsn) /\ x \in {"unborn", "run", "commit", "abort"}
                /\ \/ y \in {"run", "commit", "abort"} /\ ~Ends(r)
                   \/ y \in {"flush", "done"} /\ Ends(r)
                => Stage(k, r.txn, y, Len(l))
<1>1. /\ Len(l) \in Nat /\ Len(k) = Len(l) + 1 /\ k[Len(l) + 1] = r
      /\ \A i \in 1 .. Len(l) : k[i] = l[i]
  BY DEF Longer
<1>2. ASSUME NEW u, NEW x, NEW lsn, u # r.txn, Stage(l, u, x, lsn) PROVE Stage(k, u, x, lsn)
  <2>1. LastOf(k, u, Len(k), lsn)
    BY <1>2, LongerLast DEF Stage
  <2>2. x = "unborn" => \A i \in 1 .. Len(k) : k[i].txn # u
    BY <1>2, LongerPositions DEF Stage
  <2>3. x \in {"run", "commit", "abort"} => \A i \in 1 .. Len(k) : k[i].txn = u => ~Ends(k[i])
    BY <1>2, LongerPositions DEF Stage
  <2>4. x \in {"flush", "done"} => \E e \in 1 .. Len(k) : Ends(k[e]) /\ k[e].txn = u
    <3>1. \A e \in 1 .. Len(l) : e \in 1 .. Len(k)
      BY <1>1
    <3> QED
      BY <1>1, <1>2, <3>1 DEF Stage
  <2> QED
    BY <2>1, <2>2, <2>3, <2>4 DEF Stage
<1>3. ASSUME NEW x, NEW lsn, NEW y, Stage(l, r.txn, x, lsn),
             x \in {"unborn", "run", "commit", "abort"},
             \/ y \in {"run", "commit", "abort"} /\ ~Ends(r)
             \/ y \in {"flush", "done"} /\ Ends(r)
      PROVE  Stage(k, r.txn, y, Len(l))
  <2>1. LastOf(k, r.txn, Len(k), Len(l))
    BY LongerLast
  <2>2. \A i \in 1 .. Len(l) : l[i].txn = r.txn => ~Ends(l[i])
    BY <1>3 DEF Stage
  <2>3. y \in {"run", "commit", "abort"} =>
          \A i \in 1 .. Len(k) : k[i].txn = r.txn => ~Ends(k[i])
    BY <1>3, <2>2, LongerPositions
  <2>4. y \in {"flush", "done"} => \E e \in 1 .. Len(k) : Ends(k[e]) /\ k[e].txn = r.txn
    <3>1. Len(l) + 1 \in 1 .. Len(k)
      BY <1>1
    <3> QED
      BY <1>1, <1>3, <3>1
  <2>5. y # "unborn"
    BY <1>3
  <2> QED
    BY <2>1, <2>3, <2>4, <2>5 DEF Stage
<1> QED
  BY <1>2, <1>3

\* A record leaves the other slots alone.
LEMMA OtherSlots ==
    ASSUME NEW pg, NEW r, NEW pg2, Follows(pg, r, pg2), NEW s \in Slots,
           AboutThePage(r) => s # r.slot
    PROVE  At(pg2, s) = At(pg, s)
<1>1. s \in Nat
  BY RecoveryAssumption DEF Slots
<1> QED
  BY <1>1 DEF Follows, Effect

\* The items of another transaction.
LEMMA FitOther ==
    ASSUME NEW t, NEW u \in Txns, u # t, NEW x, NEW ws, NEW own, NEW pg,
           ItemsFit(u, x, ws, own, pg),
           NEW r, NEW own2, OwnersStep(own, t, r, own2), NEW pg2, Follows(pg, r, pg2)
    PROVE  ItemsFit(u, x, ws, own2, pg2)
<1>1. ASSUME NEW s \in Slots, own[s] = u PROVE own2[s] = u /\ At(pg2, s) = At(pg, s)
  <2>1. own2[s] = u
    BY <1>1, RecoveryAssumption DEF OwnersStep
  <2>2. AboutThePage(r) => s # r.slot
    BY <2>1 DEF OwnersStep
  <2> QED
    BY <2>1, <2>2, OtherSlots
<1> QED
  BY <1>1 DEF ItemsFit

\* An item is added.
LEMMA FitAppend ==
    ASSUME NEW t, NEW ws \in WriteSets, NEW own, NEW pg, ItemsFit(t, "run", ws, own, pg),
           NEW item, item.slot \in Slots, item.tuple \in Tuples,
           NEW own2, own2[item.slot] = t,
           \A s \in Slots \ {item.slot} : own2[s] = own[s],
           NEW pg2, \A s \in Slots \ {item.slot} : At(pg2, s) = At(pg, s),
           IsFull(At(pg, item.slot)) => ~IsDeleted(At(pg, item.slot)),
           IsFull(At(pg2, item.slot)),
           item.wtype = "DELETE" => IsDeleted(At(pg2, item.slot)),
           item.wtype = "INSERT" => ~IsFull(At(pg, item.slot)),
           NEW ws2, Longer(ws, item, ws2)
    PROVE  ItemsFit(t, "run", ws2, own2, pg2)
<1>0. PICK len : len = Len(ws)
  OBVIOUS
<1>1. /\ len \in Nat /\ Len(ws2) = len + 1 /\ ws2[len + 1] = item
      /\ \A a \in 1 .. len : ws2[a] = ws[a]
  BY <1>0 DEF Longer
<1>2. ASSUME NEW a \in 1 .. len + 1
      PROVE  /\ ws2[a].slot \in Slots /\ own2[ws2[a].slot] = t /\ ws2[a].tuple \in Tuples
             /\ IsFull(At(pg2, ws2[a].slot))
             /\ ws2[a].wtype = "DELETE" =>
                  /\ IsDeleted(At(pg2, ws2[a].slot))
                  /\ \A b \in a + 1 .. len + 1 : ws2[b].slot # ws2[a].slot
             /\ ws2[a].wtype = "INSERT" => \A b \in 1 .. a - 1 : ws2[b].slot # ws2[a].slot
  <2>1. CASE a = len + 1
    <3>1. ws2[a] = item /\ a + 1 .. len + 1 = {} /\ a - 1 = len
      BY <1>1, <2>1
    <3>2. item.wtype = "INSERT" => \A b \in 1 .. len : ws2[b].slot # item.slot
      BY <1>0, <1>1 DEF ItemsFit
    <3> QED
      BY <3>1, <3>2
  <2>2. CASE a \in 1 .. len
    <3>1. /\ ws2[a] = ws[a] /\ ws[a].slot \in Slots /\ own[ws[a].slot] = t /\ ws[a].tuple \in Tuples
          /\ IsFull(At(pg, ws[a].slot))
          /\ ws[a].wtype = "DELETE" =>
               /\ IsDeleted(At(pg, ws[a].slot))
               /\ \A b \in a + 1 .. len : ws[b].slot # ws[a].slot
          /\ ws[a].wtype = "INSERT" => \A b \in 1 .. a - 1 : ws[b].slot # ws[a].slot
      BY <1>0, <1>1, <2>2 DEF ItemsFit
    <3>2. ws[a].wtype = "DELETE" => ws[a].slot # item.slot
      BY <3>1
    <3>3. \A b \in a + 1 .. len + 1 : b = len + 1 \/ (b \in a + 1 .. len /\ b \in 1 .. len)
      BY <1>1, <2>2
    <3>4. \A b \in 1 .. a - 1 : b \in 1 .. len
      BY <1>1, <2>2
    <3>5. ws[a].wtype = "DELETE" => \A b \in a + 1 .. len + 1 : ws2[b].slot # ws[a].slot
      BY <1>1, <3>1, <3>2, <3>3
    <3>6. ws[a].wtype = "INSERT" => \A b \in 1 .. a - 1 : ws2[b].slot # ws[a].slot
      BY <1>1, <3>1, <3>4
    <3>7. own2[ws[a].slot] = t /\ IsFull(At(pg2, ws[a].slot))
      BY <3>1
    <3>8. ws[a].wtype = "DELETE" => IsDeleted(At(pg2, ws[a].slot))
      BY <3>1, <3>2
    <3> QED
      BY <3>1, <3>5, <3>6, <3>7, <3>8
  <2> QED
    BY <1>1, <2>1, <2>2
<1> QED
  BY <1>1, <1>2 DEF ItemsFit

\* The last item is taken away.
LEMMA FitPop ==
    ASSUME NEW t, NEW x, NEW ws \in WriteSets, ws # << >>, NEW own, NEW pg,
           ItemsFit(t, x, ws, own, pg), NEW item, item = ws[Len(ws)],
           NEW pg2, \A s \in Slots \ {item.slot} : At(pg2, s) = At(pg, s),
           x # "commit" /\ item.wtype # "INSERT" => IsFull(At(pg2, item.slot)),
           NEW ws2, ws2 = SubSeq(ws, 1, Len(ws) - 1)
    PROVE  ItemsFit(t, x, ws2, own, pg2)
<1>0. PICK len : len = Len(ws)
  OBVIOUS
<1>1. len \in Nat /\ len >= 1 /\ Len(ws2) = len - 1 /\ \A a \in 1 .. len - 1 : ws2[a] = ws[a]
  BY <1>0 DEF WriteSets
<1>2. ASSUME NEW a \in 1 .. len - 1
      PROVE  /\ ws2[a].slot \in Slots /\ own[ws2[a].slot] = t /\ ws2[a].tuple \in Tuples
             /\ x # "commit" => IsFull(At(pg2, ws2[a].slot))
             /\ ws2[a].wtype = "DELETE" =>
                  /\ IsFull(At(pg2, ws2[a].slot)) /\ IsDeleted(At(pg2, ws2[a].slot))
                  /\ \A b \in a + 1 .. len - 1 : ws2[b].slot # ws2[a].slot
             /\ ws2[a].wtype = "INSERT" => \A b \in 1 .. a - 1 : ws2[b].slot # ws2[a].slot
  <2>1. a \in 1 .. len /\ len \in 1 .. len /\ len \in a + 1 .. len /\ a \in 1 .. len - 1
    BY <1>1
  <2>2. /\ ws2[a] = ws[a] /\ ws[a].slot \in Slots /\ own[ws[a].slot] = t /\ ws[a].tuple \in Tuples
        /\ x # "commit" => IsFull(At(pg, ws[a].slot))
        /\ ws[a].wtype = "DELETE" =>
             /\ IsFull(At(pg, ws[a].slot)) /\ IsDeleted(At(pg, ws[a].slot))
             /\ \A b \in a + 1 .. len : ws[b].slot # ws[a].slot
        /\ ws[a].wtype = "INSERT" => \A b \in 1 .. a - 1 : ws[b].slot # ws[a].slot
        /\ item.wtype = "INSERT" => ws[a].slot # item.slot
    BY <1>0, <1>1, <2>1 DEF ItemsFit
  <2>3. ws[a].wtype = "DELETE" => ws[a].slot # item.slot
    BY <1>0, <2>1, <2>2
  <2>4. \A b \in a + 1 .. len - 1 : b \in 1 .. len - 1 /\ b \in a + 1 .. len
    BY <1>1
  <2>5. \A b \in 1 .. a - 1 : b \in 1 .. len - 1
    BY <1>1
  <2>6. ws[a].wtype = "DELETE" => \A b \in a + 1 .. len - 1 : ws2[b].slot # ws[a].slot
    BY <1>1, <2>2, <2>4
  <2>7. ws[a].wtype = "INSERT" => \A b \in 1 .. a - 1 : ws2[b].slot # ws[a].slot
    BY <1>1, <2>2, <2>5
  <2>8. x # "commit" => IsFull(At(pg2, ws[a].slot))
    BY <2>2
  <2>9. ws[a].wtype = "DELETE" => IsFull(At(pg2, ws[a].slot)) /\ IsDeleted(At(pg2, ws[a].slot))
    BY <2>2, <2>3
  <2> QED
    BY <2>2, <2>6, <2>7, <2>8, <2>9
<1> QED
  BY <1>1, <1>2 DEF ItemsFit

\* The deletions of a transaction, when a record is appended.
LEMMA MarksStep ==
    ASSUME NEW l, NEW r, NEW k, Longer(l, r, k), NEW t, NEW ws, MarksListed(t, ws, l), NEW ws2,
           r.txn = t => r.type # "ROLLBACKDELETE",
           r.txn = t /\ r.type = "MARKDELETE" =>
             \E a \in 1 .. Len(ws2) : ws2[a].wtype = "DELETE" /\ ws2[a].slot = r.slot,
           \A b \in 1 .. Len(ws) : ws[b].wtype = "DELETE" =>
             \/ r.txn = t /\ r.type = "APPLYDELETE" /\ r.slot = ws[b].slot
             \/ \E a \in 1 .. Len(ws2) : ws2[a].wtype = "DELETE" /\ ws2[a].slot = ws[b].slot
    PROVE  MarksListed(t, ws2, k)
<1>1. /\ Len(l) \in Nat /\ Len(k) = Len(l) + 1 /\ k[Len(l) + 1] = r
      /\ \A i \in 1 .. Len(l) : k[i] = l[i]
  BY DEF Longer
<1>2. ASSUME NEW i \in 1 .. Len(k), k[i].txn = t
      PROVE  /\ k[i].type # "ROLLBACKDELETE"
             /\ k[i].type = "MARKDELETE" =>
                  \/ Applied(k, i, Len(k))
                  \/ \E a \in 1 .. Len(ws2) : ws2[a].wtype = "DELETE" /\ ws2[a].slot = k[i].slot
  <2>1. CASE i = Len(l) + 1 /\ k[i] = r
    BY <1>2, <2>1
  <2>2. CASE i \in 1 .. Len(l) /\ k[i] = l[i]
    <3>1. /\ l[i].type # "ROLLBACKDELETE"
          /\ l[i].type = "MARKDELETE" =>
               \/ Applied(l, i, Len(l))
               \/ \E b \in 1 .. Len(ws) : ws[b].wtype = "DELETE" /\ ws[b].slot = l[i].slot
      BY <1>2, <2>2 DEF MarksListed
    <3>2. ASSUME Applied(l, i, Len(l)) PROVE Applied(k, i, Len(k))
      <4>1. PICK j \in i + 1 .. Len(l) : /\ l[j].type = "APPLYDELETE" /\ About(l[j], l[i].slot)
                                         /\ l[j].txn = l[i].txn
        BY <3>2 DEF Applied
      <4>2. j \in i + 1 .. Len(k) /\ k[j] = l[j]
        BY <1>1, <2>2
      <4> QED
        BY <2>2, <4>1, <4>2 DEF Applied
    <3>3. ASSUME r.txn = t, r.type = "APPLYDELETE", r.slot = l[i].slot PROVE Applied(k, i, Len(k))
      <4>1. Len(l) + 1 \in i + 1 .. Len(k)
        BY <1>1, <2>2
      <4>2. About(r, l[i].slot)
        BY <3>3 DEF About, AboutThePage
      <4> QED
        BY <1>1, <1>2, <2>2, <3>3, <4>1, <4>2 DEF Applied
    <3> QED
      BY <2>2, <3>1, <3>2, <3>3
  <2> QED
    BY <2>1, <2>2, LongerPositions
<1> QED
  BY <1>2 DEF MarksListed

\* A record of t is appended to the log.
LEMMA UpAppend ==
    ASSUME RedoInv, mode = "up", Up, NEW t \in Txns, NEW r, Append1(t, r), r.txn = t,
           r.prev = prev_lsn[t], NEW pg, Remembers(pg), mem'.page = pg,
           Accounted(pg), Follows(mem.page, r, pg),
           OwnersStep(owner, t, r, owner'), owner' \in [Slots -> Txns \union {NoTxn}],
           NEW y, st' = [st EXCEPT ![t] = y], st[t] \in {"unborn", "run", "commit", "abort"},
           \/ y \in {"run", "commit", "abort"} /\ ~Ends(r)
           \/ y \in {"flush", "done"} /\ Ends(r),
           r.type = "COMMIT" => MarksListed(t, << >>, log),
           write_set' \in [Txns -> WriteSets],
           \A u \in Txns \ {t} : write_set'[u] = write_set[u],
           Items(t, y, write_set'[t], owner', pg, log')
    PROVE  Up'
<1>1. /\ log' = Append(log, r) /\ prev_lsn' = [prev_lsn EXCEPT ![t] = Len(log)] /\ undone' = undone
  BY DEF Append1
<1>2. /\ IsSeq(log) /\ undone = 0 /\ IsSeq(snapshots) /\ Len(snapshots) = Len(log)
      /\ mem.page = snapshots[Len(log)] /\ durable \in 4 .. Len(log) /\ Len(log) \in Nat
  BY Positions DEF RedoInv, History, Up
<1>3. PICK l, h, k, g : l = log /\ h = snapshots /\ k = log' /\ g = snapshots'
  OBVIOUS
<1>4. Longer(l, r, k) /\ Longer(h, pg, g) /\ Len(l) >= 1 /\ Len(h) = Len(l)
  BY <1>1, <1>2, <1>3, AppendAny DEF Longer, Remembers
<1>5. PICK own, own2 : own = owner /\ own2 = owner'
  OBVIOUS
<1>6. /\ LogFacts(l, h) /\ HeldUntilEnd(l, own) /\ OwnersStep(own, r.txn, r, own2)
      /\ r.txn \in Txns /\ Stage(l, t, st[t], prev_lsn[t])
  BY <1>3, <1>5 DEF Up
<1>7. /\ HeldUntilEnd(k, own2)
      /\ \A i \in 1 .. Len(l) : AboutThePage(l[i]) /\ About(r, l[i].slot) /\ r.txn # l[i].txn =>
           Ended(l, i)
  BY <1>4, <1>6, HeldStep
<1>8. LogFacts(k, g)
  <2>1. Follows(h[Len(l)], r, pg)
    BY <1>2, <1>3
  <2>2. \A i \in 1 .. Len(l) : Ends(l[i]) => r.txn # l[i].txn
    BY <1>6 DEF Stage
  <2>3. r.type = "COMMIT" => \A i \in 1 .. Len(l) : l[i].txn = r.txn =>
               /\ l[i].type # "ROLLBACKDELETE"
               /\ l[i].type = "MARKDELETE" => Applied(l, i, Len(l))
    <3>1. 1 .. Len(<< >>) = {}
      OBVIOUS
    <3> QED
      BY <1>3, <3>1 DEF MarksListed
  <2>4. LastOf(l, r.txn, Len(l), r.prev)
    BY <1>6 DEF Stage
  <2> QED
    BY <1>4, <1>6, <1>7, <2>1, <2>2, <2>3, <2>4, AppendFacts
<1>9. UpTypes'
  <2>1. y \in {"unborn", "run", "commit", "abort", "flush", "done"}
    OBVIOUS
  <2> QED
    BY <1>1, <1>2, <2>1 DEF Up, UpTypes
<1>10. ASSUME NEW u \in Txns
       PROVE  /\ Stage(k, u, st'[u], prev_lsn'[u])
              /\ Items(u, st'[u], write_set'[u], own2, pg, k)
  <2>0. st \in [Txns -> {"unborn", "run", "commit", "abort", "flush", "done"}]
        /\ prev_lsn \in [Txns -> Int]
    BY DEF Up, UpTypes
  <2>1. CASE u = t
    <3>1. st'[u] = y /\ prev_lsn'[u] = Len(l)
      BY <1>1, <1>3, <2>0, <2>1
    <3>2. Stage(k, r.txn, y, Len(l))
      BY <1>4, <1>6, StageStep
    <3> QED
      BY <1>3, <1>5, <2>1, <3>1, <3>2
  <2>2. CASE u # t
    <3>1. st'[u] = st[u] /\ prev_lsn'[u] = prev_lsn[u] /\ write_set'[u] = write_set[u]
      BY <1>1, <2>0, <2>2
    <3>2. PICK x, lsn, ws : x = st[u] /\ lsn = prev_lsn[u] /\ ws = write_set[u]
      OBVIOUS
    <3>3. Stage(l, u, x, lsn) /\ Items(u, x, ws, own, mem.page, l)
      BY <1>3, <1>5, <3>2 DEF Up
    <3>4. Stage(k, u, x, lsn)
      BY <1>4, <2>2, <3>3, StageStep
    <3>5. ItemsFit(u, x, ws, own2, pg)
      BY <1>6, <2>2, <3>3, FitOther DEF Items
    <3>6. MarksListed(u, ws, l) => MarksListed(u, ws, k)
      BY <1>4, <2>2, MarksStep
    <3> QED
      BY <3>1, <3>2, <3>3, <3>4, <3>5, <3>6 DEF Items
  <2> QED
    BY <2>1, <2>2
<1> QED
  BY <1>1, <1>2, <1>3, <1>5, <1>7, <1>8, <1>9, <1>10 DEF Up

----------------------------------------------------------------------------
(* The steps of the life before the crash.                                 *)

\* The page and the transactions.
LEMMA UpPage ==
    ASSUME RedoInv, mode = "up", Up
    PROVE  /\ Accounted(mem.page) /\ mem.page \in Page /\ Len(mem.page.slots) \in Nat
           /\ \A s \in Slots : s \in Nat \ {0} /\ Content(s) = At(mem.page, s)
           /\ \A t \in Txns : write_set[t] \in WriteSets
<1>1. /\ mem.page = snapshots[Len(log)] /\ durable \in 4 .. Len(log) /\ Len(log) \in Nat
  BY Positions DEF RedoInv, History, Up
<1>2. Len(log) \in 1 .. Len(log)
  BY <1>1
<1>3. Accounted(mem.page)
  BY <1>1, <1>2 DEF Up, LogFacts, PagesFollow
<1>4. mem.page \in Page /\ Len(mem.page.slots) \in Nat
  BY <1>3 DEF Accounted, Page
<1>5. ASSUME NEW s \in Slots PROVE s \in Nat \ {0} /\ Content(s) = At(mem.page, s)
  <2>1. s \in Nat \ {0}
    BY RecoveryAssumption DEF Slots
  <2> QED
    BY <1>4, <2>1 DEF Content, At
<1> QED
  BY <1>3, <1>4, <1>5 DEF Up, UpTypes

\* A record about the slot that a transaction has locked for it.
LEMMA UpWrite ==
    ASSUME RedoInv, mode = "up", Up, NEW t \in Txns, st[t] = "run",
           NEW s, NEW wtype \in {"INSERT", "DELETE", "UPDATE"}, NEW v \in Tuples, Write(t, s, wtype, v),
           NEW r, NEW pg, Change(t, r, pg), r.txn = t, r.prev = prev_lsn[t], r.slot = s,
           r.type \in {"INSERT", "MARKDELETE", "UPDATE"},
           r.type = "MARKDELETE" => wtype = "DELETE",
           Effect(mem.page, r, pg), Accounted(pg),
           IsFull(At(mem.page, s)) => ~IsDeleted(At(mem.page, s)),
           IsFull(At(pg, s)),
           wtype = "DELETE" => IsDeleted(At(pg, s)),
           wtype = "INSERT" => ~IsFull(At(mem.page, s))
    PROVE  Up'
<1>1. /\ s \in Slots /\ owner[s] \in {NoTxn, t} /\ owner' = [owner EXCEPT ![s] = t]
      /\ st' = st
      /\ write_set' =
           [write_set EXCEPT ![t] = Append(@, [slot |-> s, wtype |-> wtype, tuple |-> v])]
  BY DEF Write, Lockable
<1>2. /\ owner \in [Slots -> Txns \union {NoTxn}] /\ write_set \in [Txns -> WriteSets]
      /\ st \in [Txns -> {"unborn", "run", "commit", "abort", "flush", "done"}]
  BY DEF Up, UpTypes
<1>3. Append1(t, r) /\ Remembers(pg) /\ mem' = [page |-> pg, lsn |-> Len(log)]
  BY DEF Change, Remembers
<1>4. mem'.page = pg
  BY <1>3
<1>5. PICK item, ws, ws2, own, own2 :
        /\ item = [slot |-> s, wtype |-> wtype, tuple |-> v] /\ ws = write_set[t]
        /\ ws2 = Append(ws, item) /\ own = owner /\ own2 = owner'
  OBVIOUS
<1>6. /\ own2 \in [Slots -> Txns \union {NoTxn}] /\ own2[s] = t
      /\ \A n \in Slots \ {s} : own2[n] = own[n]
  BY <1>1, <1>2, <1>5
<1>7. AboutThePage(r) /\ ~Ends(r) /\ Follows(mem.page, r, pg)
  BY DEF AboutThePage, Ends, Follows
<1>8. OwnersStep(own, t, r, own2)
  BY <1>1, <1>5, <1>6 DEF OwnersStep
<1>9. ws \in WriteSets /\ item \in [slot : Slots, wtype : {"INSERT", "DELETE", "UPDATE"}, tuple : Tuples]
      /\ item.slot = s /\ item.wtype = wtype /\ item.tuple = v
  BY <1>1, <1>2, <1>5
<1>10. ws2 \in WriteSets /\ Longer(ws, item, ws2)
  BY <1>5, <1>9 DEF WriteSets, Longer
<1>11. write_set' \in [Txns -> WriteSets] /\ write_set'[t] = ws2
       /\ \A u \in Txns \ {t} : write_set'[u] = write_set[u]
  BY <1>1, <1>2, <1>5, <1>10
<1>12. Items(t, "run", ws, own, mem.page, log)
  BY <1>5 DEF Up
<1>13. ItemsFit(t, "run", ws2, own2, pg)
  <2>1. \A n \in Slots \ {s} : At(pg, n) = At(mem.page, n)
    BY <1>7, OtherSlots
  <2>2. ItemsFit(t, "run", ws, own, mem.page)
    BY <1>12 DEF Items
  <2> QED
    BY <1>1, <1>6, <1>9, <1>10, <2>1, <2>2, FitAppend
<1>14. MarksListed(t, ws2, log')
  <2>1. Longer(log, r, log')
    <3>1. log' = Append(log, r) /\ IsSeq(log)
      BY <1>3 DEF Append1, RedoInv
    <3> QED
      BY <3>1, AppendAny DEF Longer
  <2>2. PICK l, k : l = log /\ k = log'
    OBVIOUS
  <2>3. MarksListed(t, ws, l) /\ Longer(l, r, k)
    BY <1>12, <2>1, <2>2 DEF Items
  <2>4. \A b \in 1 .. Len(ws) : b \in 1 .. Len(ws2) /\ ws2[b] = ws[b]
    BY <1>10 DEF Longer
  <2>5. Len(ws) + 1 \in 1 .. Len(ws2) /\ ws2[Len(ws) + 1] = item
    BY <1>10 DEF Longer
  <2>6. r.type # "ROLLBACKDELETE"
    OBVIOUS
  <2>7. MarksListed(t, ws2, k)
    BY <1>9, <2>3, <2>4, <2>5, <2>6, MarksStep
  <2> QED
    BY <2>2, <2>7
<1>15. Items(t, "run", write_set'[t], owner', pg, log')
  BY <1>5, <1>11, <1>13, <1>14 DEF Items
<1>16. st' = [st EXCEPT ![t] = "run"]
  BY <1>1, <1>2
<1>17. OwnersStep(owner, t, r, owner') /\ owner' \in [Slots -> Txns \union {NoTxn}]
  BY <1>5, <1>6, <1>8
<1>18. r.type # "COMMIT"
  OBVIOUS
<1> QED
  BY <1>3, <1>4, <1>7, <1>11, <1>15, <1>16, <1>17, <1>18, UpAppend

\* The last item of a write set, and the others.
LEMMA PopItem ==
    ASSUME NEW ws \in WriteSets, ws # << >>
    PROVE  /\ Len(ws) \in Nat /\ Len(ws) >= 1 /\ Len(ws) \in 1 .. Len(ws)
           /\ ws[Len(ws)] \in [slot : Slots, wtype : {"INSERT", "DELETE", "UPDATE"}, tuple : Tuples]
           /\ SubSeq(ws, 1, Len(ws) - 1) \in WriteSets
           /\ Len(SubSeq(ws, 1, Len(ws) - 1)) = Len(ws) - 1
           /\ \A a \in 1 .. Len(ws) - 1 : SubSeq(ws, 1, Len(ws) - 1)[a] = ws[a]
<1>1. PICK S : S = [slot : Slots, wtype : {"INSERT", "DELETE", "UPDATE"}, tuple : Tuples]
  OBVIOUS
<1>2. ws \in Seq(S)
  BY <1>1 DEF WriteSets
<1>3. Len(ws) \in Nat /\ Len(ws) >= 1 /\ Len(ws) \in 1 .. Len(ws)
  BY <1>2
<1>4. ws[Len(ws)] \in S
  BY <1>2, <1>3
<1>5. PICK k : k = SubSeq(ws, 1, Len(ws) - 1)
  OBVIOUS
<1>6. k \in Seq(S) /\ Len(k) = Len(ws) - 1 /\ \A a \in 1 .. Len(ws) - 1 : k[a] = ws[a]
  <2>0. Len(ws) - 1 \in 0 .. Len(ws)
    BY <1>3
  <2>1. PICK n \in 0 .. Len(ws) : n = Len(ws) - 1
    BY <2>0
  <2>2. k = SubSeq(ws, 1, n)
    BY <1>5, <2>1
  <2>3. k \in Seq(S) /\ Len(k) = n /\ \A a \in 1 .. n : k[a] = ws[a]
    BY <1>2, <2>2
  <2> QED
    BY <2>1, <2>3
<1> QED
  BY <1>1, <1>3, <1>4, <1>5, <1>6 DEF WriteSets

\* The slot of the last item.
LEMMA LastItem ==
    ASSUME RedoInv, mode = "up", Up, NEW t \in Txns, write_set[t] # << >>
    PROVE  /\ Item(t).slot \in Slots /\ owner[Item(t).slot] = t /\ Item(t).tuple \in Tuples
           /\ Item(t).wtype \in {"INSERT", "DELETE", "UPDATE"}
           /\ st[t] # "commit" \/ Item(t).wtype = "DELETE" => IsFull(At(mem.page, Item(t).slot))
           /\ Item(t).wtype = "DELETE" => IsDeleted(At(mem.page, Item(t).slot))
<1>1. write_set[t] \in WriteSets /\ ItemsFit(t, st[t], write_set[t], owner, mem.page)
  BY DEF Up, UpTypes, Items
<1>2. Len(write_set[t]) \in 1 .. Len(write_set[t])
  BY <1>1, PopItem
<1>3. Item(t) \in [slot : Slots, wtype : {"INSERT", "DELETE", "UPDATE"}, tuple : Tuples]
  BY <1>1, PopItem DEF Item
<1> QED
  BY <1>1, <1>2, <1>3 DEF ItemsFit, Item

\* The last item is taken away, with a record for it.
LEMMA UpPop ==
    ASSUME RedoInv, mode = "up", Up, NEW t \in Txns, st[t] \in {"commit", "abort"},
           write_set[t] # << >>, write_set' = Popped(t), st' = st, owner' = owner,
           NEW r, NEW pg, Change(t, r, pg), r.txn = t, r.prev = prev_lsn[t],
           AboutThePage(r), r.slot = Item(t).slot,
           st[t] = "commit" => r.type = "APPLYDELETE",
           Effect(mem.page, r, pg), Accounted(pg),
           st[t] # "commit" /\ Item(t).wtype # "INSERT" => IsFull(At(pg, r.slot))
    PROVE  Up'
<1>1. /\ Item(t).slot \in Slots /\ owner[Item(t).slot] = t
  BY LastItem
<1>2. /\ owner \in [Slots -> Txns \union {NoTxn}] /\ write_set \in [Txns -> WriteSets]
      /\ st \in [Txns -> {"unborn", "run", "commit", "abort", "flush", "done"}]
  BY DEF Up, UpTypes
<1>3. Append1(t, r) /\ Remembers(pg) /\ mem' = [page |-> pg, lsn |-> Len(log)]
  BY DEF Change, Remembers
<1>4. mem'.page = pg
  BY <1>3
<1>5. PICK item, ws, ws2, x :
        item = Item(t) /\ ws = write_set[t] /\ ws2 = SubSeq(ws, 1, Len(ws) - 1) /\ x = st[t]
  OBVIOUS
<1>6. ~Ends(r) /\ Follows(mem.page, r, pg) /\ r.type # "COMMIT"
  BY DEF AboutThePage, Ends, Follows
<1>7. OwnersStep(owner, t, r, owner')
  BY <1>1 DEF OwnersStep
<1>8. ws \in WriteSets /\ ws # << >> /\ item = ws[Len(ws)] /\ Len(ws) \in Nat /\ Len(ws) >= 1
  <2>1. ws \in WriteSets /\ ws # << >> /\ item = ws[Len(ws)]
    BY <1>2, <1>5 DEF Item
  <2> QED
    BY <2>1, PopItem
<1>9. /\ ws2 \in WriteSets /\ Len(ws2) = Len(ws) - 1 /\ \A a \in 1 .. Len(ws) - 1 : ws2[a] = ws[a]
  BY <1>5, <1>8, PopItem
<1>10. write_set' \in [Txns -> WriteSets] /\ write_set'[t] = ws2
       /\ \A u \in Txns \ {t} : write_set'[u] = write_set[u]
  BY <1>2, <1>5, <1>9 DEF Popped
<1>11. Items(t, x, ws, owner, mem.page, log)
  BY <1>5 DEF Up
<1>12. ItemsFit(t, x, ws2, owner, pg)
  <2>1. \A n \in Slots \ {item.slot} : At(pg, n) = At(mem.page, n)
    BY <1>5, <1>6, OtherSlots
  <2>2. ItemsFit(t, x, ws, owner, mem.page)
    BY <1>11 DEF Items
  <2>3. x # "commit" /\ item.wtype # "INSERT" => IsFull(At(pg, item.slot))
    BY <1>5
  <2>4. PICK old, own : old = mem.page /\ own = owner
    OBVIOUS
  <2>5. ItemsFit(t, x, ws, own, old) /\ \A n \in Slots \ {item.slot} : At(pg, n) = At(old, n)
    BY <2>1, <2>2, <2>4
  <2>6. ws2 = SubSeq(ws, 1, Len(ws) - 1)
    BY <1>5
  <2>7. ItemsFit(t, x, ws2, own, pg)
    BY <1>8, <2>3, <2>5, <2>6, FitPop
  <2> QED
    BY <2>4, <2>7
<1>13. x = "commit" => MarksListed(t, ws2, log')
  <2>1. Longer(log, r, log')
    <3>1. log' = Append(log, r) /\ IsSeq(log)
      BY <1>3 DEF Append1, RedoInv
    <3> QED
      BY <3>1, AppendAny DEF Longer
  <2>2. PICK l, k : l = log /\ k = log'
    OBVIOUS
  <2>3. SUFFICES ASSUME x = "commit" PROVE MarksListed(t, ws2, k)
    BY <2>2
  <2>4. MarksListed(t, ws, l) /\ Longer(l, r, k)
    BY <1>11, <2>1, <2>2, <2>3 DEF Items
  <2>5. \A b \in 1 .. Len(ws) : b = Len(ws) \/ (b \in 1 .. Len(ws2) /\ ws2[b] = ws[b])
    BY <1>8, <1>9
  <2>6. r.type = "APPLYDELETE" /\ r.type # "ROLLBACKDELETE" /\ r.type # "MARKDELETE"
    BY <1>5, <2>3
  <2>7. \A b \in 1 .. Len(ws) : ws[b].wtype = "DELETE" =>
             \/ r.txn = t /\ r.type = "APPLYDELETE" /\ r.slot = ws[b].slot
             \/ \E a \in 1 .. Len(ws2) : ws2[a].wtype = "DELETE" /\ ws2[a].slot = ws[b].slot
    BY <1>5, <1>8, <2>5, <2>6
  <2> QED
    BY <2>4, <2>6, <2>7, MarksStep
<1>14. Items(t, x, write_set'[t], owner', pg, log')
  BY <1>5, <1>10, <1>12, <1>13 DEF Items
<1>15. st' = [st EXCEPT ![t] = x] /\ x \in {"run", "commit", "abort"}
  BY <1>2, <1>5
<1>16. owner' \in [Slots -> Txns \union {NoTxn}]
  BY <1>2
<1> QED
  BY <1>3, <1>4, <1>6, <1>7, <1>10, <1>14, <1>15, <1>16, UpAppend

\* The last item is taken away, and nothing is written for it.
LEMMA UpSkip ==
    ASSUME RedoInv, mode = "up", Up, NEW t \in Txns, st[t] \in {"commit", "abort"},
           write_set[t] # << >>, write_set' = Popped(t), st' = st, owner' = owner, WritesNothing,
           st[t] = "commit" => Item(t).wtype # "DELETE"
    PROVE  Up'
<1>1. /\ log' = log /\ mem' = mem /\ prev_lsn' = prev_lsn /\ snapshots' = snapshots
      /\ undone' = undone
  BY DEF WritesNothing
<1>2. /\ owner \in [Slots -> Txns \union {NoTxn}] /\ write_set \in [Txns -> WriteSets]
      /\ st \in [Txns -> {"unborn", "run", "commit", "abort", "flush", "done"}]
  BY DEF Up, UpTypes
<1>3. PICK item, ws, ws2, x, own, pg, l :
        /\ item = Item(t) /\ ws = write_set[t] /\ ws2 = SubSeq(ws, 1, Len(ws) - 1) /\ x = st[t]
        /\ own = owner /\ pg = mem.page /\ l = log
  OBVIOUS
<1>4. ws \in WriteSets /\ ws # << >> /\ item = ws[Len(ws)]
  BY <1>2, <1>3 DEF Item
<1>5. /\ ws2 \in WriteSets /\ Len(ws) \in Nat /\ Len(ws) >= 1 /\ Len(ws2) = Len(ws) - 1
      /\ \A a \in 1 .. Len(ws) - 1 : ws2[a] = ws[a]
  BY <1>3, <1>4, PopItem
<1>6. write_set' \in [Txns -> WriteSets] /\ write_set'[t] = ws2
      /\ \A u \in Txns \ {t} : write_set'[u] = write_set[u]
  BY <1>2, <1>3, <1>5 DEF Popped
<1>7. Items(t, x, ws, own, pg, l)
  BY <1>3 DEF Up
<1>8. ItemsFit(t, x, ws2, own, pg)
  <2>1. x # "commit" => IsFull(At(pg, item.slot))
    BY <1>3, LastItem
  <2>2. ItemsFit(t, x, ws, own, pg)
    BY <1>7 DEF Items
  <2> QED
    BY <1>3, <1>4, <2>1, <2>2, FitPop
<1>9. x = "commit" => MarksListed(t, ws2, l)
  <2>1. SUFFICES ASSUME x = "commit" PROVE MarksListed(t, ws2, l)
    OBVIOUS
  <2>2. MarksListed(t, ws, l)
    BY <1>7, <2>1 DEF Items
  <2>3. ASSUME NEW b \in 1 .. Len(ws), ws[b].wtype = "DELETE"
        PROVE  b \in 1 .. Len(ws2) /\ ws2[b] = ws[b]
    <3>1. b # Len(ws)
      BY <1>3, <1>4, <2>1, <2>3
    <3> QED
      BY <1>5, <3>1
  <2> QED
    BY <2>2, <2>3 DEF MarksListed
<1>10. Items(t, x, ws2, own, pg, l)
  BY <1>3, <1>8, <1>9 DEF Items
<1>11. ASSUME NEW u \in Txns PROVE Items(u, st[u], write_set'[u], own, pg, l)
  <2>1. CASE u = t
    BY <1>3, <1>6, <1>10, <2>1
  <2>2. CASE u # t
    BY <1>3, <1>6, <2>2 DEF Up
  <2> QED
    BY <2>1, <2>2
<1>12. UpTypes'
  BY <1>1, <1>6 DEF Up, UpTypes
<1> QED
  BY <1>1, <1>3, <1>11, <1>12 DEF Up

\* BEGIN, COMMIT and ABORT.
LEMMA UpTxnRecord ==
    ASSUME RedoInv, mode = "up", Up, NEW t \in Txns, NEW type \in {"BEGIN", "COMMIT", "ABORT"},
           NoChange(t, TxnRecord(t, prev_lsn[t], type)), write_set' = write_set,
           write_set[t] = << >>, NEW y, st' = [st EXCEPT ![t] = y],
           \/ type = "BEGIN" /\ st[t] = "unborn" /\ y = "run" /\ owner' = owner
           \/ type = "COMMIT" /\ st[t] = "commit" /\ y = "flush" /\ owner' = owner
           \/ type = "ABORT" /\ st[t] = "abort" /\ y = "done" /\ owner' = Unlocked(t)
    PROVE  Up'
<1>1. PICK r : r = TxnRecord(t, prev_lsn[t], type)
  OBVIOUS
<1>2. r.type = type /\ r.txn = t /\ r.prev = prev_lsn[t]
  BY <1>1 DEF TxnRecord
<1>3. ~AboutThePage(r) /\ (Ends(r) <=> type # "BEGIN")
  BY <1>2 DEF AboutThePage, Ends
<1>4. Append1(t, r) /\ Remembers(mem.page) /\ mem' = mem
  BY <1>1 DEF NoChange, Remembers
<1>5. Follows(mem.page, r, mem.page) /\ Accounted(mem.page)
  BY <1>3, UpPage DEF Follows
<1>6. /\ owner \in [Slots -> Txns \union {NoTxn}] /\ write_set \in [Txns -> WriteSets]
      /\ st \in [Txns -> {"unborn", "run", "commit", "abort", "flush", "done"}]
  BY DEF Up, UpTypes
<1>7. OwnersStep(owner, t, r, owner') /\ owner' \in [Slots -> Txns \union {NoTxn}]
  <2>1. CASE owner' = owner
    BY <1>3, <1>6, <2>1 DEF OwnersStep
  <2>2. CASE type = "ABORT" /\ owner' = Unlocked(t)
    <3>1. \A s \in Slots : owner'[s] = IF owner[s] = t THEN NoTxn ELSE owner[s]
      BY <2>2 DEF Unlocked
    <3>2. owner' \in [Slots -> Txns \union {NoTxn}]
      BY <1>6, <2>2 DEF Unlocked
    <3> QED
      BY <1>3, <2>2, <3>1, <3>2 DEF OwnersStep
  <2> QED
    BY <2>1, <2>2
<1>8. r.type = "COMMIT" => MarksListed(t, << >>, log)
  <2>1. Items(t, st[t], write_set[t], owner, mem.page, log)
    BY DEF Up
  <2> QED
    BY <1>2, <2>1 DEF Items
<1>9. Items(t, y, write_set'[t], owner', mem.page, log')
  <2>0. write_set'[t] = << >> /\ 1 .. Len(<< >>) = {}
    OBVIOUS
  <2>1. ItemsFit(t, y, << >>, owner', mem.page)
    BY <2>0 DEF ItemsFit
  <2>2. y = "run" => MarksListed(t, << >>, log')
    <3>1. PICK l, k : l = log /\ k = log'
      OBVIOUS
    <3>2. Longer(l, r, k)
      <4>1. log' = Append(log, r) /\ IsSeq(log)
        BY <1>4 DEF Append1, RedoInv
      <4> QED
        BY <3>1, <4>1, AppendAny DEF Longer
    <3>3. SUFFICES ASSUME y = "run" PROVE MarksListed(t, << >>, k)
      BY <3>1
    <3>4. type = "BEGIN" /\ \A i \in 1 .. Len(l) : l[i].txn # t
      BY <3>1, <3>3 DEF Up, Stage
    <3>5. MarksListed(t, << >>, l)
      BY <3>4 DEF MarksListed
    <3> QED
      BY <1>2, <2>0, <3>2, <3>4, <3>5, MarksStep
  <2>3. y # "commit" /\ y # "unborn"
    OBVIOUS
  <2> QED
    BY <2>0, <2>1, <2>2, <2>3 DEF Items
<1>10. /\ st[t] \in {"unborn", "run", "commit", "abort"}
       /\ \/ y \in {"run", "commit", "abort"} /\ ~Ends(r)
          \/ y \in {"flush", "done"} /\ Ends(r)
  BY <1>3
<1>11. PICK pg : pg = mem.page
  OBVIOUS
<1>12. mem'.page = pg /\ Remembers(pg) /\ Accounted(pg) /\ Follows(mem.page, r, pg)
       /\ Items(t, y, write_set'[t], owner', pg, log')
  BY <1>4, <1>5, <1>9, <1>11
<1>13. write_set' \in [Txns -> WriteSets] /\ \A u \in Txns \ {t} : write_set'[u] = write_set[u]
  BY <1>6
<1> QED
  BY <1>2, <1>4, <1>7, <1>8, <1>10, <1>12, <1>13, UpAppend

\* EndStart: the transaction commits or aborts.
LEMMA UpEndStart ==
    ASSUME Up, NEW t \in Txns, EndStart(t)
    PROVE  Up'
<1>1. PICK y \in {"commit", "abort"} : st' = [st EXCEPT ![t] = y]
  BY DEF EndStart
<1>2. /\ UNCHANGED <<log, mem, prev_lsn, write_set, owner, snapshots, undone>>
      /\ st[t] = "run"
  BY DEF EndStart
<1>3. st \in [Txns -> {"unborn", "run", "commit", "abort", "flush", "done"}]
  BY DEF Up, UpTypes
<1>4. ASSUME NEW u \in Txns
      PROVE  /\ Stage(log, u, st'[u], prev_lsn[u])
             /\ Items(u, st'[u], write_set[u], owner, mem.page, log)
  <2>1. Stage(log, u, st[u], prev_lsn[u]) /\ Items(u, st[u], write_set[u], owner, mem.page, log)
    BY DEF Up
  <2>2. CASE u = t
    <3>1. st'[u] = y
      BY <1>1, <1>3, <2>2
    <3> QED
      BY <1>2, <2>1, <2>2, <3>1 DEF Stage, Items, ItemsFit
  <2>3. CASE u # t
    <3>1. st'[u] = st[u]
      BY <1>1, <1>3, <2>3
    <3> QED
      BY <2>1, <3>1
  <2> QED
    BY <2>2, <2>3
<1>5. UpTypes'
  BY <1>1, <1>2 DEF Up, UpTypes
<1> QED
  BY <1>2, <1>4, <1>5 DEF Up

\* CommitFlush: the locks of a transaction that has its COMMIT in the log.
LEMMA UpCommitFlush ==
    ASSUME RedoInv, Up, NEW t \in Txns, CommitFlush(t)
    PROVE  Up'
<1>1. /\ UNCHANGED <<log, mem, prev_lsn, write_set, snapshots, undone>>
      /\ st[t] = "flush" /\ st' = [st EXCEPT ![t] = "done"] /\ owner' = Unlocked(t)
  BY DEF CommitFlush
<1>2. /\ st \in [Txns -> {"unborn", "run", "commit", "abort", "flush", "done"}]
      /\ owner \in [Slots -> Txns \union {NoTxn}]
  BY DEF Up, UpTypes
<1>3. /\ owner' \in [Slots -> Txns \union {NoTxn}]
      /\ \A s \in Slots : owner[s] # t => owner'[s] = owner[s]
  BY <1>1, <1>2 DEF Unlocked
<1>4. UpTypes'
  BY <1>1, <1>2, <1>3 DEF Up, UpTypes
<1>5. ASSUME NEW u \in Txns
      PROVE  /\ Stage(log, u, st'[u], prev_lsn[u])
             /\ Items(u, st'[u], write_set[u], owner', mem.page, log)
  <2>1. Stage(log, u, st[u], prev_lsn[u]) /\ Items(u, st[u], write_set[u], owner, mem.page, log)
    BY DEF Up
  <2>2. CASE u = t
    <3>1. st'[u] = "done"
      BY <1>1, <1>2, <2>2
    <3>2. write_set[u] = << >> /\ 1 .. Len(<< >>) = {}
      BY <1>1, <2>1, <2>2 DEF Items
    <3> QED
      BY <1>1, <2>1, <2>2, <3>1, <3>2 DEF Stage, Items, ItemsFit
  <2>3. CASE u # t
    <3>1. st'[u] = st[u]
      BY <1>1, <1>2, <2>3
    <3>2. ItemsFit(u, st[u], write_set[u], owner', mem.page)
      BY <1>3, <2>1, <2>3 DEF Items, ItemsFit
    <3> QED
      BY <2>1, <3>1, <3>2 DEF Items
  <2> QED
    BY <2>2, <2>3
<1>6. HeldUntilEnd(log, owner')
  <2>0. Len(log) \in Nat
    BY Positions DEF RedoInv
  <2>1. SUFFICES ASSUME NEW i \in 1 .. Len(log), AboutThePage(log[i]), ~Ended(log, i)
                 PROVE  /\ log[i].txn \in Txns /\ log[i].slot \in Slots
                        /\ owner'[log[i].slot] = log[i].txn
    BY DEF HeldUntilEnd
  <2>2. log[i].txn \in Txns /\ log[i].slot \in Slots /\ owner[log[i].slot] = log[i].txn
    BY <2>1 DEF Up, HeldUntilEnd
  <2>3. log[i].txn # t
    <3>1. PICK e \in 1 .. Len(log) : Ends(log[e]) /\ log[e].txn = t
      BY <1>1 DEF Up, Stage
    <3>2. ~Ends(log[i])
      BY <2>1 DEF Ends, AboutThePage
    <3>3. CASE e < i
      BY <3>1, <3>3 DEF Up, LogFacts, EndsAreLast
    <3>4. CASE e > i
      <4>1. e \in i + 1 .. Len(log)
        BY <2>0, <3>4
      <4> QED
        BY <2>1, <3>1, <4>1 DEF Ended
    <3> QED
      BY <3>1, <3>2, <3>3, <3>4
  <2> QED
    BY <1>3, <2>2, <2>3
<1> QED
  BY <1>1, <1>4, <1>5, <1>6 DEF Up

\* A slot of the page that holds a tuple nobody has marked.
LEMMA LiveTuple ==
    ASSUME RedoInv, mode = "up", Up, NEW s \in Slots, ~NoTuple(mem.page, s)
    PROVE  /\ s \in 1 .. Len(mem.page.slots) /\ ~IsDeleted(mem.page.slots[s])
           /\ At(mem.page, s) = mem.page.slots[s] /\ Content(s) = mem.page.slots[s]
           /\ ~IsDeleted(At(mem.page, s)) /\ Content(s).tuple \in Tuples
<1>1. /\ mem.page \in Page /\ Len(mem.page.slots) \in Nat /\ s \in Nat \ {0}
      /\ Content(s) = At(mem.page, s)
  BY UpPage
<1>2. s \in 1 .. Len(mem.page.slots) /\ ~IsDeleted(mem.page.slots[s])
  BY <1>1 DEF NoTuple
<1>3. mem.page.slots[s] \in Slot
  BY <1>1, <1>2 DEF Page
<1> QED
  BY <1>1, <1>2, <1>3, SlotKinds DEF At

\* InsertTuple.
LEMMA UpInsert ==
    ASSUME RedoInv, mode = "up", Up, NEW t \in Txns, NEW v \in Tuples, Insert(t, v)
    PROVE  Up'
<1>1. PICK s, r, pg : /\ s = InsertSlot(mem.page) /\ pg = PutTuple(mem.page, v)
                      /\ r = SlotRecord(t, prev_lsn[t], "INSERT", s, v)
  OBVIOUS
<1>2. st[t] = "run" /\ RoomToInsert(mem.page, v) /\ Write(t, s, "INSERT", v) /\ Change(t, r, pg)
  BY <1>1 DEF Insert
<1>3. r.type = "INSERT" /\ r.txn = t /\ r.prev = prev_lsn[t] /\ r.slot = s /\ r.tuple = v
  BY <1>1 DEF SlotRecord
<1>4. Accounted(mem.page)
  BY UpPage
<1>5. Accounted(pg) /\ Effect(mem.page, r, pg)
  BY <1>1, <1>2, <1>3, <1>4, PutEffect
<1>6. ~IsFull(At(mem.page, s)) /\ IsFull(At(pg, s))
  BY <1>3, <1>5, SlotKinds DEF Effect, SlotEffect
<1> QED
  BY <1>2, <1>3, <1>5, <1>6, UpWrite

\* MarkDelete.
LEMMA UpMark ==
    ASSUME RedoInv, mode = "up", Up, NEW t \in Txns, NEW s \in Slots, MarkDelete(t, s)
    PROVE  Up'
<1>1. PICK v, r, pg : /\ v = Content(s).tuple /\ pg = MarkTuple(mem.page, s)
                      /\ r = MarkRecord(t, prev_lsn[t], "MARKDELETE", s)
  OBVIOUS
<1>2. st[t] = "run" /\ ~NoTuple(mem.page, s) /\ Write(t, s, "DELETE", v) /\ Change(t, r, pg)
  BY <1>1 DEF MarkDelete
<1>3. r.type = "MARKDELETE" /\ r.txn = t /\ r.prev = prev_lsn[t] /\ r.slot = s
  BY <1>1 DEF MarkRecord
<1>4. /\ Accounted(mem.page) /\ s \in 1 .. Len(mem.page.slots) /\ ~IsDeleted(mem.page.slots[s])
      /\ ~IsDeleted(At(mem.page, s)) /\ v \in Tuples
  BY <1>1, <1>2, UpPage, LiveTuple
<1>5. Accounted(pg) /\ Effect(mem.page, r, pg)
  BY <1>1, <1>3, <1>4, MarkEffect
<1>6. IsFull(At(pg, s)) /\ IsDeleted(At(pg, s))
  BY <1>3, <1>5, SlotKinds DEF Effect, SlotEffect
<1> QED
  BY <1>2, <1>3, <1>4, <1>5, <1>6, UpWrite

\* UpdateTuple.
LEMMA UpUpdate ==
    ASSUME RedoInv, mode = "up", Up, NEW t \in Txns, NEW s \in Slots, NEW v \in Tuples, Update(t, s, v)
    PROVE  Up'
<1>1. PICK old, r, pg : /\ old = Content(s).tuple /\ pg = ReplaceTuple(mem.page, s, v)
                        /\ r = UpdateRecord(t, prev_lsn[t], s, old, v)
  OBVIOUS
<1>2. /\ st[t] = "run" /\ ~NoTuple(mem.page, s) /\ RoomToUpdate(mem.page, s, v)
      /\ Write(t, s, "UPDATE", old) /\ Change(t, r, pg)
  BY <1>1 DEF Update
<1>3. /\ r.type = "UPDATE" /\ r.txn = t /\ r.prev = prev_lsn[t] /\ r.slot = s
      /\ r.old = old /\ r.new = v
  BY <1>1 DEF UpdateRecord
<1>4. /\ Accounted(mem.page) /\ s \in 1 .. Len(mem.page.slots) /\ ~IsDeleted(mem.page.slots[s])
      /\ ~IsDeleted(At(mem.page, s)) /\ old \in Tuples /\ old = mem.page.slots[s].tuple
  BY <1>1, <1>2, UpPage, LiveTuple
<1>5. Accounted(pg) /\ Effect(mem.page, r, pg)
  BY <1>1, <1>2, <1>3, <1>4, ReplaceEffect
<1>6. IsFull(At(pg, s))
  BY <1>3, <1>5, SlotKinds DEF Effect, SlotEffect
<1> QED
  BY <1>2, <1>3, <1>4, <1>5, <1>6, UpWrite

\* A full slot is a slot of the page.
LEMMA FullTuple ==
    ASSUME RedoInv, mode = "up", Up, NEW s \in Slots, IsFull(At(mem.page, s))
    PROVE  /\ Accounted(mem.page) /\ s \in 1 .. Len(mem.page.slots)
           /\ At(mem.page, s) = mem.page.slots[s]
<1>1. s \in 1 .. Len(mem.page.slots)
  BY SlotKinds DEF At
<1> QED
  BY <1>1, UpPage DEF At

\* ApplyDelete for the last item.
LEMMA UpDrop ==
    ASSUME RedoInv, mode = "up", Up, NEW t \in Txns, st[t] \in {"commit", "abort"},
           write_set[t] # << >>, write_set' = Popped(t), st' = st, owner' = owner,
           ApplyDelete(t, Item(t).slot),
           Item(t).wtype = IF st[t] = "commit" THEN "DELETE" ELSE "INSERT"
    PROVE  Up'
<1>1. PICK s, r, pg : /\ s = Item(t).slot /\ pg = DropTuple(mem.page, s)
                      /\ r = SlotRecord(t, prev_lsn[t], "APPLYDELETE", s, Content(s).tuple)
  OBVIOUS
<1>2. Change(t, r, pg)
  BY <1>1 DEF ApplyDelete
<1>3. r.type = "APPLYDELETE" /\ r.txn = t /\ r.prev = prev_lsn[t] /\ r.slot = s
  BY <1>1 DEF SlotRecord
<1>4. s \in Slots /\ IsFull(At(mem.page, s))
  BY <1>1, LastItem
<1>5. /\ Accounted(mem.page) /\ s \in 1 .. Len(mem.page.slots) /\ IsFull(mem.page.slots[s])
  BY <1>4, FullTuple
<1>6. Accounted(pg) /\ Effect(mem.page, r, pg)
  BY <1>1, <1>3, <1>5, DropEffect
<1>7. AboutThePage(r)
  BY <1>3 DEF AboutThePage
<1>8. st[t] # "commit" => Item(t).wtype = "INSERT"
  OBVIOUS
<1> QED
  BY <1>1, <1>2, <1>3, <1>6, <1>7, <1>8, UpPop

\* A step of Commit.
LEMMA UpCommitStep ==
    ASSUME RedoInv, mode = "up", Up, NEW t \in Txns, CommitStep(t)
    PROVE  Up'
<1>1. /\ st[t] = "commit" /\ write_set[t] # << >> /\ write_set' = Popped(t) /\ st' = st
      /\ owner' = owner
  BY DEF CommitStep
<1>2. CASE Item(t).wtype = "DELETE"
  <2>1. ApplyDelete(t, Item(t).slot)
    BY <1>2 DEF CommitStep
  <2> QED
    BY <1>1, <1>2, <2>1, UpDrop
<1>3. CASE Item(t).wtype # "DELETE"
  <2>1. WritesNothing
    BY <1>3 DEF CommitStep
  <2> QED
    BY <1>1, <1>3, <2>1, UpSkip
<1> QED
  BY <1>2, <1>3

\* A step of Abort.
LEMMA UpAbortStep ==
    ASSUME RedoInv, mode = "up", Up, NEW t \in Txns, AbortStep(t)
    PROVE  Up'
<1>1. /\ st[t] = "abort" /\ write_set[t] # << >> /\ write_set' = Popped(t) /\ st' = st
      /\ owner' = owner
  BY DEF AbortStep
<1>2. PICK s, v, prev : s = Item(t).slot /\ v = Item(t).tuple /\ prev = prev_lsn[t]
  OBVIOUS
<1>3. s \in Slots /\ v \in Tuples /\ IsFull(At(mem.page, s))
      /\ (Item(t).wtype = "DELETE" => IsDeleted(At(mem.page, s)))
  BY <1>1, <1>2, LastItem
<1>4. /\ Accounted(mem.page) /\ s \in 1 .. Len(mem.page.slots)
      /\ At(mem.page, s) = mem.page.slots[s]
  BY <1>3, FullTuple
<1>5. CASE Item(t).wtype = "INSERT" /\ ApplyDelete(t, s)
  BY <1>1, <1>2, <1>5, UpDrop
<1>6. ASSUME Item(t).wtype = "DELETE",
             Change(t, MarkRecord(t, prev, "ROLLBACKDELETE", s), UnmarkTuple(mem.page, s))
      PROVE  Up'
  <2>1. PICK r, pg : /\ r = MarkRecord(t, prev, "ROLLBACKDELETE", s)
                     /\ pg = UnmarkTuple(mem.page, s)
    OBVIOUS
  <2>2. r.type = "ROLLBACKDELETE" /\ r.txn = t /\ r.prev = prev /\ r.slot = s /\ Change(t, r, pg)
    BY <1>6, <2>1 DEF MarkRecord
  <2>3. Accounted(pg) /\ Effect(mem.page, r, pg)
    BY <1>3, <1>4, <1>6, <2>1, <2>2, UnmarkEffect
  <2>4. IsFull(At(pg, s)) /\ AboutThePage(r)
    BY <2>2, <2>3, SlotKinds DEF Effect, SlotEffect, AboutThePage
  <2> QED
    BY <1>1, <1>2, <2>2, <2>3, <2>4, UpPop
<1>7. ASSUME Item(t).wtype = "UPDATE", RollbackUpdate(t, s, v) PROVE Up'
  <2>1. CASE NoTuple(mem.page, s)
    <3>1. WritesNothing
      BY <1>7, <2>1 DEF RollbackUpdate
    <3> QED
      BY <1>1, <3>1, UpSkip
  <2>2. CASE ~NoTuple(mem.page, s) /\ RoomToUpdate(mem.page, s, v)
    <3>1. PICK old, r, pg : /\ old = Content(s).tuple /\ pg = ReplaceTuple(mem.page, s, v)
                            /\ r = UpdateRecord(t, prev, s, old, v)
      OBVIOUS
    <3>2. /\ r.type = "UPDATE" /\ r.txn = t /\ r.prev = prev /\ r.slot = s
          /\ r.old = old /\ r.new = v
      BY <3>1 DEF UpdateRecord
    <3>3. Change(t, r, pg)
      BY <1>2, <1>7, <2>2, <3>1 DEF RollbackUpdate
    <3>4. ~IsDeleted(mem.page.slots[s]) /\ old = mem.page.slots[s].tuple
      BY <1>3, <2>2, <3>1, LiveTuple
    <3>5. Accounted(pg) /\ Effect(mem.page, r, pg)
      BY <1>3, <1>4, <2>2, <3>1, <3>2, <3>4, ReplaceEffect
    <3>6. IsFull(At(pg, s)) /\ AboutThePage(r)
      BY <3>2, <3>5, SlotKinds DEF Effect, SlotEffect, AboutThePage
    <3> QED
      BY <1>1, <1>2, <3>2, <3>3, <3>5, <3>6, UpPop
  <2>3. CASE ~NoTuple(mem.page, s) /\ ~RoomToUpdate(mem.page, s, v)
    <3>1. PICK r, pg : /\ pg = MarkTuple(mem.page, s)
                       /\ r = MarkRecord(t, prev, "MARKDELETE", s)
      OBVIOUS
    <3>2. r.type = "MARKDELETE" /\ r.txn = t /\ r.prev = prev /\ r.slot = s
      BY <3>1 DEF MarkRecord
    <3>3. Change(t, r, pg)
      BY <1>2, <1>7, <2>3, <3>1 DEF RollbackUpdate
    <3>4. ~IsDeleted(mem.page.slots[s])
      BY <1>3, <2>3, LiveTuple
    <3>5. Accounted(pg) /\ Effect(mem.page, r, pg)
      BY <1>4, <3>1, <3>2, <3>4, MarkEffect
    <3>6. IsFull(At(pg, s)) /\ AboutThePage(r)
      BY <3>2, <3>5, SlotKinds DEF Effect, SlotEffect, AboutThePage
    <3> QED
      BY <1>1, <1>2, <3>2, <3>3, <3>5, <3>6, UpPop
  <2> QED
    BY <2>1, <2>2, <2>3
<1> QED
  BY <1>2, <1>5, <1>6, <1>7 DEF AbortStep

\* Steps that leave the log, the page and the transactions alone.
LEMMA UpSame ==
    ASSUME Up, UNCHANGED <<log, snapshots, mem, st, prev_lsn, write_set, owner, undone>>
    PROVE  Up'
<1>1. UpTypes'
  BY DEF Up, UpTypes
<1> QED
  BY <1>1 DEF Up

\* The steps of the life before the crash, one by one.
LEMMA UpStep ==
    ASSUME RedoInv, mode = "up", Up, Next
    PROVE  (mode' = "up" /\ Up') \/ (mode' # "up" /\ Down')
<1>1. CASE Transactions
  <2>0. PICK t \in Txns :
          \/ Begin(t)
          \/ EndStart(t) \/ CommitStep(t) \/ AbortStep(t)
          \/ CommitRecord(t) \/ CommitFlush(t) \/ AbortRecord(t)
          \/ \E v \in Tuples : Insert(t, v)
          \/ \E s \in Slots : MarkDelete(t, s) \/ \E v \in Tuples : Update(t, s, v)
    BY <1>1 DEF Transactions
  <2>1. mode' = "up"
    BY <2>0 DEF Begin, EndStart, CommitStep, AbortStep, CommitRecord, CommitFlush, AbortRecord,
                Insert, MarkDelete, Update, Change, NoChange, Append1, ApplyDelete,
                RollbackUpdate, WritesNothing
  <2>2. Items(t, st[t], write_set[t], owner, mem.page, log)
    BY DEF Up
  <2>3. CASE Begin(t)
    <3>1. PICK y, type : y = "run" /\ type = "BEGIN"
      OBVIOUS
    <3>2. /\ NoChange(t, TxnRecord(t, prev_lsn[t], type)) /\ write_set' = write_set
          /\ write_set[t] = << >> /\ st' = [st EXCEPT ![t] = y] /\ st[t] = "unborn"
          /\ owner' = owner
      BY <2>2, <2>3, <3>1 DEF Begin, Items
    <3>3. Up'
      BY <3>1, <3>2, UpTxnRecord
    <3> QED
      BY <2>1, <3>3
  <2>4. CASE CommitRecord(t)
    <3>1. PICK y, type : y = "flush" /\ type = "COMMIT"
      OBVIOUS
    <3>2. /\ NoChange(t, TxnRecord(t, prev_lsn[t], type)) /\ write_set' = write_set
          /\ write_set[t] = << >> /\ st' = [st EXCEPT ![t] = y] /\ st[t] = "commit"
          /\ owner' = owner
      BY <2>4, <3>1 DEF CommitRecord
    <3>3. Up'
      BY <3>1, <3>2, UpTxnRecord
    <3> QED
      BY <2>1, <3>3
  <2>5. CASE AbortRecord(t)
    <3>1. PICK y, type : y = "done" /\ type = "ABORT"
      OBVIOUS
    <3>2. /\ NoChange(t, TxnRecord(t, prev_lsn[t], type)) /\ write_set' = write_set
          /\ write_set[t] = << >> /\ st' = [st EXCEPT ![t] = y] /\ st[t] = "abort"
          /\ owner' = Unlocked(t)
      BY <2>5, <3>1 DEF AbortRecord
    <3>3. Up'
      BY <3>1, <3>2, UpTxnRecord
    <3> QED
      BY <2>1, <3>3
  <2> QED
    BY <2>0, <2>1, <2>3, <2>4, <2>5, UpEndStart, UpCommitStep, UpAbortStep, UpCommitFlush,
       UpInsert, UpMark, UpUpdate
<1>2. CASE EvictPage \/ CheckpointPages \/ CheckpointLog
  <2>1. /\ UNCHANGED <<log, snapshots, mem, st, prev_lsn, write_set, owner, undone>>
        /\ mode' = mode
    BY <1>2 DEF EvictPage, CheckpointPages, CheckpointLog, txnVars
  <2> QED
    BY <2>1, UpSame
<1>3. CASE Crash
  BY <1>3, UpCrash
<1>4. ~Recover
  BY DEF Recover, RedoRecord, RedoEnd, UndoNextTxn, UndoRecord, UndoEnd
<1> QED
  BY <1>1, <1>2, <1>3, <1>4 DEF Next

\* The log of NewTableHeap and of one insert.
LEMMA InitIsUp ==
    ASSUME Init
    PROVE  Up /\ PagesHaveLSNs /\ mode = "up"
<1>1. PICK v, filled :
        /\ v \in Tuples
        /\ RoomToInsert(EmptyPage, v) /\ filled = PutTuple(EmptyPage, v)
        /\ mode = "up" /\ disk = NoPage /\ undone = 0
        /\ log = <<TxnRecord(Creator, InvalidLSN, "BEGIN"), TxnRecord(Creator, 0, "NEWPAGE"),
                   SlotRecord(Creator, 1, "INSERT", 1, v), TxnRecord(Creator, 2, "COMMIT")>>
        /\ mem = [page |-> filled, lsn |-> 2]
        /\ snapshots = <<EmptyPage, EmptyPage, filled, filled>>
        /\ st = [t \in Txns |-> "unborn"] /\ prev_lsn = [t \in Txns |-> InvalidLSN]
        /\ write_set = [t \in Txns |-> << >>] /\ owner = [s \in Slots |-> NoTxn]
  BY DEF Init
<1>2. PICK a, b, c, d :
        /\ a = TxnRecord(Creator, InvalidLSN, "BEGIN") /\ b = TxnRecord(Creator, 0, "NEWPAGE")
        /\ c = SlotRecord(Creator, 1, "INSERT", 1, v) /\ d = TxnRecord(Creator, 2, "COMMIT")
  OBVIOUS
<1>3. /\ a.type = "BEGIN" /\ a.txn = Creator /\ a.prev = InvalidLSN
      /\ b.type = "NEWPAGE" /\ b.txn = Creator /\ b.prev = 0
      /\ c.type = "INSERT" /\ c.txn = Creator /\ c.prev = 1 /\ c.slot = 1 /\ c.tuple = v
      /\ d.type = "COMMIT" /\ d.txn = Creator /\ d.prev = 2
  BY <1>2 DEF TxnRecord, SlotRecord
<1>4. log = <<a, b, c, d>>
  BY <1>1, <1>2
<1>5. Len(log) = 4 /\ log[1] = a /\ log[2] = b /\ log[3] = c /\ log[4] = d
  BY <1>4
<1>6. /\ snapshots[1] = EmptyPage /\ snapshots[2] = EmptyPage
      /\ snapshots[3] = filled /\ snapshots[4] = filled
  BY <1>1
<1>7. \A i \in 1 .. 4 : i = 1 \/ i = 2 \/ i = 3 \/ i = 4
  OBVIOUS
<1>8. \A i \in 1 .. Len(log) : log[i].txn = Creator
  BY <1>3, <1>5, <1>7
<1>9. Accounted(EmptyPage)
  <2>1. EmptyPage \in Page /\ Len(EmptyPage.slots) = 0 /\ EmptyPage.free = PageSpace
    BY EmptyPageIsPage DEF EmptyPage
  <2> DEFINE T == [k \in 0 .. 0 |-> 0]
  <2>2. T \in [0 .. 0 -> Int] /\ T[0] = 0
    OBVIOUS
  <2>3. Sums(EmptyPage.slots, T)
    <3>1. 1 .. 0 = {}
      OBVIOUS
    <3> QED
      BY <2>1, <2>2, <3>1 DEF Sums
  <2>4. EmptyPage.free + T[Len(EmptyPage.slots)] = PageSpace
    BY <2>1, <2>2, SpaceAssumption
  <2> QED
    BY <2>1, <2>3, <2>4 DEF Accounted
<1>10. Accounted(filled) /\ Effect(EmptyPage, c, filled)
  <2>1. InsertSlot(EmptyPage) = 1
    <3>1. InsertSlot(EmptyPage) \in 1 .. 0 + 1
      BY EmptyPageIsPage, InsertSlotIsFree
    <3> QED
      BY <3>1
  <2> QED
    BY <1>1, <1>3, <1>9, <2>1, PutEffect
<1>11. PagesFollow(log, snapshots)
  <2>1. \A i \in 1 .. 4 : Accounted(snapshots[i])
    BY <1>6, <1>7, <1>9, <1>10
  <2>2. ASSUME NEW i \in 2 .. 4 PROVE Follows(snapshots[i - 1], log[i], snapshots[i])
    <3>1. CASE i = 2
      BY <1>3, <1>5, <1>6, <3>1 DEF Follows, AboutThePage
    <3>2. CASE i = 3
      BY <1>3, <1>5, <1>6, <1>10, <3>2 DEF Follows, AboutThePage
    <3>3. CASE i = 4
      BY <1>3, <1>5, <1>6, <3>3 DEF Follows, AboutThePage
    <3> QED
      BY <3>1, <3>2, <3>3
  <2> QED
    BY <1>5, <1>6, <2>1, <2>2 DEF PagesFollow
<1>12. SlotsAreLocked(log)
  BY <1>8 DEF SlotsAreLocked
<1>13. EndsAreLast(log)
  <2>1. SUFFICES ASSUME NEW i \in 1 .. 4, NEW j \in 1 .. 4, i < j, Ends(log[i])
                 PROVE  FALSE
    BY <1>5 DEF EndsAreLast
  <2>2. i = 1 \/ i = 2 \/ i = 3
    BY <2>1
  <2> QED
    BY <1>3, <1>5, <2>1, <2>2 DEF Ends
<1>14. CommitsAreClean(log)
  <2>1. ASSUME NEW k \in 1 .. 4, NEW i \in 1 .. k
        PROVE  log[i].type # "ROLLBACKDELETE" /\ log[i].type # "MARKDELETE"
    <3>1. i = 1 \/ i = 2 \/ i = 3 \/ i = 4
      OBVIOUS
    <3> QED
      BY <1>3, <1>5, <3>1
  <2> QED
    BY <1>5, <2>1 DEF CommitsAreClean
<1>15. Chained(log)
  <2>1. ASSUME NEW i \in 1 .. 4 PROVE LastOf(log, log[i].txn, i - 1, log[i].prev)
    <3>1. log[i].txn = Creator /\ log[i].prev = i - 2
      BY <1>3, <1>5, <1>7 DEF InvalidLSN
    <3>2. i - 2 \in -1 .. (i - 1) - 1 /\ (i - 2) + 2 .. i - 1 = {} /\ (i - 2) + 1 = i - 1
      OBVIOUS
    <3>3. i - 2 # InvalidLSN => i - 1 \in 1 .. Len(log)
      BY <1>5 DEF InvalidLSN
    <3> QED
      BY <1>8, <3>1, <3>2, <3>3 DEF LastOf
  <2> QED
    BY <1>5, <2>1 DEF Chained
<1>16. HeldUntilEnd(log, owner)
  <2>1. ASSUME NEW i \in 1 .. 4, AboutThePage(log[i]) PROVE Ended(log, i)
    <3>1. i = 3
      BY <1>3, <1>5, <1>7, <2>1 DEF AboutThePage
    <3>2. 4 \in i + 1 .. Len(log) /\ Ends(log[4]) /\ log[4].txn = log[i].txn
      BY <1>3, <1>5, <3>1 DEF Ends
    <3> QED
      BY <3>2 DEF Ended
  <2> QED
    BY <1>5, <2>1 DEF HeldUntilEnd
<1>17. ASSUME NEW t \in Txns
       PROVE  Stage(log, t, st[t], prev_lsn[t]) /\ Items(t, st[t], write_set[t], owner, mem.page, log)
  <2>1. st[t] = "unborn" /\ prev_lsn[t] = InvalidLSN /\ write_set[t] = << >>
    BY <1>1
  <2>2. \A i \in 1 .. Len(log) : log[i].txn # t
    BY <1>8, RecoveryAssumption
  <2>3. LastOf(log, t, Len(log), InvalidLSN)
    <3>1. InvalidLSN \in -1 .. 4 - 1 /\ \A j \in InvalidLSN + 2 .. 4 : j \in 1 .. 4
      BY DEF InvalidLSN
    <3> QED
      BY <1>5, <2>2, <3>1 DEF LastOf
  <2>4. Stage(log, t, "unborn", InvalidLSN)
    BY <2>2, <2>3 DEF Stage
  <2>5. Items(t, "unborn", << >>, owner, mem.page, log)
    <3>1. 1 .. Len(<< >>) = {}
      OBVIOUS
    <3> QED
      BY <3>1 DEF Items, ItemsFit
  <2> QED
    BY <2>1, <2>4, <2>5
<1>18. UpTypes
  <2>1. << >> \in WriteSets
    BY DEF WriteSets
  <2>2. InvalidLSN \in Int
    BY DEF InvalidLSN
  <2> QED
    BY <1>1, <2>1, <2>2 DEF UpTypes
<1>19. PagesHaveLSNs
  BY <1>1 DEF PagesHaveLSNs, HasLSN
<1> QED
  BY <1>1, <1>11, <1>12, <1>13, <1>14, <1>15, <1>16, <1>17, <1>18, <1>19 DEF Up, LogFacts

\* Steps that change nothing.
LEMMA AtomicSame ==
    ASSUME AtomicInv, UNCHANGED vars
    PROVE  PagesHaveLSNs' /\ (mode' = "up" => Up') /\ (mode' # "up" => Down')
<1>0. /\ UNCHANGED <<mode, log, durable, tail, mem, disk, crashes, snapshots, undone>>
      /\ UNCHANGED <<st, prev_lsn, write_set, owner, position, active_txn, cursor>>
  BY DEF vars, txnVars, recVars
<1>1. PagesHaveLSNs'
  BY <1>0 DEF AtomicInv, PagesHaveLSNs, HasLSN
<1>2. mode = "up" => Up'
  BY <1>0, UpSame DEF AtomicInv
<1>3. ASSUME Down PROVE Down'
  <2>1. Ahead => Ahead'
    BY <1>0 DEF Ahead
  <2>2. undone \in Nat
    BY DEF AtomicInv, RedoInv
  <2>3. Excused => Excused'
    BY <1>0, <2>1, <2>2, ExcusedStays
  <2>4. ASSUME NEW h, Recovering(h) PROVE Recovering(h)'
    <3>1. \A n : Noting(n)' <=> Noting(n)
      BY <1>0 DEF Noting
    <3>2. TakenRecords' = TakenRecords /\ (Undoing' <=> Undoing)
      BY <1>0, SameLog DEF TakenRecords, Undoing
    <3>3. \A m : (PageOf(h, m)' <=> PageOf(h, m)) /\ (PartlyUndone(h, m)' <=> PartlyUndone(h, m))
                 /\ (RedoneTo(h, m)' <=> RedoneTo(h, m)) /\ (NothingToRedo(m)' <=> NothingToRedo(m))
      BY <1>0, SameLog DEF PartlyUndone, RedoneTo
    <3>4. \A pg, P : TakenBackTo(h, pg, P)' <=> TakenBackTo(h, pg, P)
      BY <1>0, SameLog
    <3>5. \A s : Content(s)' = Content(s) /\ CommittedContent(s)' = CommittedContent(s)
      BY <1>0, SameLog DEF Content
    <3> QED
      BY <1>0, <2>4, <3>1, <3>2, <3>3, <3>4, <3>5 DEF Recovering
  <2> QED
    BY <1>0, <1>3, <2>3, <2>4 DEF Down
<1> QED
  BY <1>0, <1>1, <1>2, <1>3 DEF AtomicInv

\* The invariant of the life before the crash and of the recovery after it.
THEOREM AtomicInvariance ==
    ASSUME NoPageIsNoPage
    PROVE  Spec => []AtomicInv
<1>1. Init => AtomicInv
  BY InitHasHistory, InitIsUp DEF AtomicInv
<1>2. ASSUME RedoInv', AtomicInv, [Next]_vars PROVE AtomicInv'
  <2>1. CASE UNCHANGED vars
    BY <1>2, <2>1, AtomicSame DEF AtomicInv
  <2>2. CASE Next
    <3>1. RedoInv /\ PagesHaveLSNs
      BY <1>2 DEF AtomicInv
    <3>2. PagesHaveLSNs'
      BY <2>2, <3>1, PagesKeepLSNs
    <3>3. CASE mode = "up"
      BY <1>2, <2>2, <3>1, <3>2, <3>3, UpStep DEF AtomicInv
    <3>4. CASE mode # "up"
      BY <1>2, <2>2, <3>1, <3>2, <3>4, DownStep DEF AtomicInv
    <3> QED
      BY <3>3, <3>4
  <2> QED
    BY <1>2, <2>1, <2>2
<1>3. Spec => []RedoInv
  BY RedoInvariance
<1> QED
  BY <1>1, <1>2, <1>3, PTL DEF Spec

\* Atomicity across a crash: when the log file is whole, the page is not newer
\* than the log, the unfinished transactions left only records that can be taken
\* back, and no insert of theirs was to be undone when Undo was interrupted,
\* then Redo and Undo (log_recovery.go) meet no failing assertion, and at their
\* end every slot holds what the committed transactions left in it; for any
\* transactions, tuples, length of the log and number of crashes.
THEOREM LosersRecover ==
    ASSUME NoPageIsNoPage
    PROVE  Spec => []ReversibleLosersRecover
<1>1. ASSUME AtomicInv PROVE ReversibleLosersRecover
  <2>1. SUFFICES ASSUME tail = "whole", mem # NoPage => mem.lsn < Len(log),
                        \A i \in LoserRecords : Reversible(i),
                        undone > 1 => \A i \in LoserRecords : log[i].type # "INSERT"
                 PROVE  /\ mode # "panic"
                        /\ mode = "recovered" => \A s \in Slots : Content(s) = CommittedContent(s)
    BY DEF ReversibleLosersRecover
  <2>2. CASE mode = "up"
    BY <2>2
  <2>3. CASE mode # "up"
    <3>1. ~Ahead
      <4>1. Len(log) \in Nat
        BY <1>1, Positions DEF AtomicInv, RedoInv
      <4> QED
        BY <2>1, <4>1 DEF Ahead
    <3>2. ~Excused
      BY <2>1, <3>1 DEF Excused, HasLoserInsert
    <3>3. PICK h : Recovering(h)
      BY <1>1, <2>3, <3>2 DEF AtomicInv, Down
    <3> QED
      BY <3>3 DEF Recovering
  <2> QED
    BY <2>2, <2>3
<1> QED
  BY <1>1, AtomicInvariance, PTL

=============================================================================
