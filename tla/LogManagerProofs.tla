-------------------------- MODULE LogManagerProofs --------------------------
(***************************************************************************)
(* Proofs about LogManager for any number of goroutines, pages and records *)
(* and any size of the log buffer.                                         *)
(*                                                                         *)
(* The log, on disk, in the flush buffer and in the log buffer, is one     *)
(* list: a Flush moves its parts and an append extends it.  A record that  *)
(* is about to be copied has an LSN above those of its page and of its     *)
(* goroutine in the list, because the page is latched and the goroutine    *)
(* appends one record at a time.                                           *)
(***************************************************************************)
EXTENDS LogManager, SequenceTheorems, TLAPS

LoggedRecord ==
    [lsn : Nat, page : Pages \union {NoPage}, thread : Threads,
     size : Sizes \union {HeaderSize}, commit : BOOLEAN]

LogTypeOK ==
    /\ disk \in Seq(LoggedRecord)
    /\ flush_buffer \in Seq(LoggedRecord)
    /\ log_buffer \in Seq(LoggedRecord)
    /\ next_lsn \in Nat
    /\ wlog_mutex \in Threads \union {NoThread}
    /\ pc \in [Threads -> {"idle", "check", "assign", "copy", "flush", "write", "store"}]
    /\ back \in [Threads -> {"idle", "assign", "copy"}]
    /\ rec \in [Threads -> Record \union {NoRecord}]

InFlush(th) == pc[th] \in {"flush", "write", "store"}

\* The goroutine has not taken the LSN of its record, has it but has not
\* copied the record, and waits for the Flush of the COMMIT record it copied.
Preparing(th) == pc[th] \in {"check", "assign"} \/ (InFlush(th) /\ back[th] = "assign")
Copying(th)   == pc[th] = "copy" \/ (InFlush(th) /\ back[th] = "copy")
Waiting(th)   == InFlush(th) /\ back[th] = "idle" /\ rec[th].commit

\* wlog_mutex guards the flush buffer.
MutexOK ==
    /\ \A th \in Threads : pc[th] = "write" <=> wlog_mutex = th
    /\ wlog_mutex = NoThread => flush_buffer = << >>

Has(log, lsn) == \E i \in 1 .. Len(log) : log[i].lsn = lsn

\* The records of the log that have the record's page or its goroutine have
\* smaller LSNs.
Above(log, r) ==
    \A i \in 1 .. Len(log) :
        (log[i].page = r.page /\ r.page # NoPage) \/ log[i].thread = r.thread
            => log[i].lsn < r.lsn

Below(log, lsn) == \A i \in 1 .. Len(log) : log[i].lsn < lsn

\* A log that PageRecordsInOrder and ThreadRecordsInOrder hold of, and in
\* which no LSN is used twice.
OrderedLog(log) ==
    /\ \A i, j \in 1 .. Len(log) : log[i].lsn = log[j].lsn => i = j
    /\ \A i, j \in 1 .. Len(log) :
          i < j /\ log[i].page = log[j].page /\ log[i].page # NoPage
              => log[i].lsn < log[j].lsn
    /\ \A i, j \in 1 .. Len(log) :
          i < j /\ log[i].thread = log[j].thread => log[i].lsn < log[j].lsn

\* The record a goroutine works on, and the log.
RecordOK(th) ==
    /\ Preparing(th) => rec[th] \in Record /\ rec[th].thread = th
    /\ Copying(th) =>
          /\ rec[th] \in LoggedRecord /\ rec[th].thread = th
          /\ rec[th].lsn < next_lsn
          /\ ~Has(Log, rec[th].lsn)
          /\ Above(Log, rec[th])
    /\ Waiting(th) =>
          /\ rec[th] \in LoggedRecord
          /\ pc[th] = "flush" => Has(Log, rec[th].lsn)
          /\ pc[th] = "write" => Has(disk \o flush_buffer, rec[th].lsn)
          /\ pc[th] = "store" => Has(disk, rec[th].lsn)
    /\ ~Preparing(th) /\ ~Copying(th) /\ ~Waiting(th) => rec[th] = NoRecord

\* Two goroutines log for two pages, and have different LSNs.
RecordsDiffer ==
    \A th, u \in Threads : th # u =>
        /\ rec[th].page = rec[u].page => rec[th].page = NoPage
        /\ Copying(th) /\ Copying(u) => rec[th].lsn # rec[u].lsn

\* Every LSN that was assigned is in the log or about to be copied.
NoneLost == \A lsn \in 0 .. next_lsn - 1 : Has(Log, lsn) \/ Pending(lsn)

LogInv ==
    /\ LogTypeOK
    /\ MutexOK
    /\ \A th \in Threads : RecordOK(th)
    /\ RecordsDiffer
    /\ Below(Log, next_lsn)
    /\ OrderedLog(Log)
    /\ NoneLost
    /\ \A lsn \in acked : Has(disk, lsn)

----------------------------------------------------------------------------
(* The log as a list.                                                      *)

\* The parts of the log make one sequence of records.
LEMMA LogIsSeq ==
    ASSUME LogTypeOK
    PROVE  /\ Log \in Seq(LoggedRecord)
           /\ disk \o flush_buffer \in Seq(LoggedRecord)
BY DEF LogTypeOK, Log

\* An append to the log buffer is an append to the log.
LEMMA AppendToLog ==
    ASSUME NEW S, NEW d \in Seq(S), NEW f \in Seq(S), NEW b \in Seq(S), NEW r \in S
    PROVE  (d \o f) \o Append(b, r) = Append((d \o f) \o b, r)
OBVIOUS

\* The swap moves the log buffer to an empty flush buffer.
LEMMA SwapKeepsLog ==
    ASSUME NEW S, NEW d \in Seq(S), NEW b \in Seq(S)
    PROVE  /\ (d \o b) \o << >> = (d \o << >>) \o b
           /\ (d \o << >>) \o b = d \o b
<1>1. d \o << >> = d
  OBVIOUS
<1>2. (d \o b) \in Seq(S)
  OBVIOUS
<1>3. (d \o b) \o << >> = d \o b
  BY <1>2
<1> QED
  BY <1>1, <1>3

\* The records of a log are in every log it is extended to.
LEMMA HasGrows ==
    ASSUME NEW l \in Seq(LoggedRecord), NEW k \in Seq(LoggedRecord), NEW lsn,
           Has(l, lsn)
    PROVE  Has(l \o k, lsn)
<1>1. PICK i \in 1 .. Len(l) : l[i].lsn = lsn
  BY DEF Has
<1>2. i \in 1 .. Len(l \o k) /\ (l \o k)[i] = l[i]
  OBVIOUS
<1> QED
  BY <1>1, <1>2 DEF Has

\* What an append changes.
LEMMA AppendedLog ==
    ASSUME NEW l \in Seq(LoggedRecord), NEW r \in LoggedRecord
    PROVE  /\ Append(l, r) \in Seq(LoggedRecord)
           /\ \A i \in 1 .. Len(Append(l, r)) :
                 \/ i \in 1 .. Len(l) /\ Append(l, r)[i] = l[i]
                 \/ i = Len(l) + 1 /\ Append(l, r)[i] = r
           /\ \A lsn : Has(Append(l, r), lsn) <=> Has(l, lsn) \/ r.lsn = lsn
<1> DEFINE k == Append(l, r)
<1>1. k \in Seq(LoggedRecord) /\ Len(k) = Len(l) + 1 /\ k[Len(l) + 1] = r
  OBVIOUS
<1>2. \A i \in 1 .. Len(l) : k[i] = l[i] /\ i \in 1 .. Len(k)
  OBVIOUS
<1>3. \A i \in 1 .. Len(k) : i \in 1 .. Len(l) \/ i = Len(l) + 1
  BY <1>1
<1>4. Len(l) + 1 \in 1 .. Len(k)
  BY <1>1
<1> HIDE DEF k
<1>5. \A lsn : Has(k, lsn) <=> Has(l, lsn) \/ r.lsn = lsn
  BY <1>1, <1>2, <1>3, <1>4 DEF Has
<1>6. \A i \in 1 .. Len(k) :
        \/ i \in 1 .. Len(l) /\ k[i] = l[i]
        \/ i = Len(l) + 1 /\ k[i] = r
  BY <1>1, <1>2, <1>3
<1> QED
  BY <1>1, <1>5, <1>6 DEF k

\* A record above the log's, with an LSN of its own, keeps it in order.
LEMMA AppendKeepsOrder ==
    ASSUME NEW l \in Seq(LoggedRecord), NEW r \in LoggedRecord,
           OrderedLog(l), Above(l, r), ~Has(l, r.lsn)
    PROVE  OrderedLog(Append(l, r))
<1>0. PICK k : k = Append(l, r)
  OBVIOUS
<1>1. \A i \in 1 .. Len(k) :
        \/ i \in 1 .. Len(l) /\ k[i] = l[i]
        \/ i = Len(l) + 1 /\ k[i] = r
  BY <1>0, AppendedLog
<1>2. Len(l) \in Nat
  OBVIOUS
<1>3. \A i \in 1 .. Len(l) : l[i].lsn # r.lsn
  BY DEF Has
<1>4. ASSUME NEW i \in 1 .. Len(k), NEW j \in 1 .. Len(k), k[i].lsn = k[j].lsn
      PROVE  i = j
  <2>1. CASE i \in 1 .. Len(l) /\ j \in 1 .. Len(l)
    BY <1>1, <1>2, <1>4, <2>1 DEF OrderedLog
  <2>2. CASE i \in 1 .. Len(l) /\ j = Len(l) + 1
    BY <1>1, <1>2, <1>3, <1>4, <2>2
  <2>3. CASE i = Len(l) + 1 /\ j \in 1 .. Len(l)
    BY <1>1, <1>2, <1>3, <1>4, <2>3
  <2> QED
    BY <1>1, <2>1, <2>2, <2>3
<1>5. ASSUME NEW i \in 1 .. Len(k), NEW j \in 1 .. Len(k), i < j
      PROVE  /\ k[i].page = k[j].page /\ k[i].page # NoPage => k[i].lsn < k[j].lsn
             /\ k[i].thread = k[j].thread => k[i].lsn < k[j].lsn
  <2>1. i \in 1 .. Len(l) /\ k[i] = l[i]
    BY <1>1, <1>2, <1>5
  <2>2. CASE j \in 1 .. Len(l) /\ k[j] = l[j]
    BY <1>5, <2>1, <2>2 DEF OrderedLog
  <2>3. CASE j = Len(l) + 1 /\ k[j] = r
    BY <2>1, <2>3 DEF Above
  <2> QED
    BY <1>1, <2>2, <2>3
<1>6. OrderedLog(k)
  BY <1>4, <1>5 DEF OrderedLog
<1> QED
  BY <1>0, <1>6

----------------------------------------------------------------------------
(* What a step of one goroutine leaves to the others.                      *)

\* The step is th's, and what is on disk stays there.
StepOf(th) ==
    /\ pc' = [pc EXCEPT ![th] = pc'[th]]
    /\ back' = [back EXCEPT ![th] = back'[th]]
    /\ rec' = [rec EXCEPT ![th] = rec'[th]]
    /\ \A lsn : Has(disk, lsn) => Has(disk, lsn)'
    /\ \A u \in Threads \ {th} : pc[u] = "write" => UNCHANGED <<disk, flush_buffer>>

\* The other goroutines are where they were.
LEMMA OthersAsTheyWere ==
    ASSUME LogTypeOK, NEW th \in Threads, StepOf(th), NEW u \in Threads \ {th}
    PROVE  /\ pc'[u] = pc[u] /\ back'[u] = back[u] /\ rec'[u] = rec[u]
           /\ InFlush(u)' <=> InFlush(u)
           /\ Preparing(u)' <=> Preparing(u)
           /\ Copying(u)' <=> Copying(u)
           /\ Waiting(u)' <=> Waiting(u)
<1>1. pc'[u] = pc[u] /\ back'[u] = back[u] /\ rec'[u] = rec[u]
  BY DEF LogTypeOK, StepOf
<1>2. InFlush(u)' <=> InFlush(u)
  BY <1>1 DEF InFlush
<1> QED
  BY <1>1, <1>2 DEF Preparing, Copying, Waiting

\* LSNs that are assigned and not copied belong to goroutines that copy.
LEMMA PendingMeansCopying ==
    ASSUME NEW lsn
    PROVE  Pending(lsn) <=> \E th \in Threads : Copying(th) /\ rec[th].lsn = lsn
BY DEF Pending, Copying, InFlush

\* While the log stays as it is, so does what is known of the others' records.
LEMMA OthersKeepLog ==
    ASSUME LogTypeOK, NEW th \in Threads, StepOf(th), NEW u \in Threads \ {th},
           RecordOK(u), Log' = Log, next_lsn \in Nat, next_lsn' \in Nat,
           next_lsn <= next_lsn'
    PROVE  RecordOK(u)'
<1> USE OthersAsTheyWere
<1>1. (Preparing(u) => rec[u] \in Record /\ rec[u].thread = u)'
  BY DEF RecordOK
<1>2. (Copying(u) => /\ rec[u] \in LoggedRecord /\ rec[u].thread = u
                     /\ rec[u].lsn < next_lsn
                     /\ ~Has(Log, rec[u].lsn)
                     /\ Above(Log, rec[u]))'
  <2>1. SUFFICES ASSUME Copying(u)
                 PROVE  (/\ rec[u] \in LoggedRecord /\ rec[u].thread = u
                         /\ rec[u].lsn < next_lsn
                         /\ ~Has(Log, rec[u].lsn)
                         /\ Above(Log, rec[u]))'
    OBVIOUS
  <2>2. rec[u] \in LoggedRecord /\ rec[u].thread = u /\ rec[u].lsn < next_lsn
        /\ ~Has(Log, rec[u].lsn) /\ Above(Log, rec[u])
    BY <2>1 DEF RecordOK
  <2>3. (rec[u].lsn < next_lsn)'
    BY <2>2 DEF LoggedRecord
  <2> QED
    BY <2>2, <2>3
<1>3. (Waiting(u) =>
          /\ rec[u] \in LoggedRecord
          /\ pc[u] = "flush" => Has(Log, rec[u].lsn)
          /\ pc[u] = "write" => Has(disk \o flush_buffer, rec[u].lsn)
          /\ pc[u] = "store" => Has(disk, rec[u].lsn))'
  BY DEF RecordOK, StepOf
<1>4. (~Preparing(u) /\ ~Copying(u) /\ ~Waiting(u) => rec[u] = NoRecord)'
  BY DEF RecordOK
<1> QED
  BY <1>1, <1>2, <1>3, <1>4 DEF RecordOK

\* Nor does the copy of a record of another page and another LSN change it.
LEMMA OthersKeepAppend ==
    ASSUME LogTypeOK, NEW th \in Threads, StepOf(th), NEW u \in Threads \ {th},
           RecordOK(u), next_lsn \in Nat, next_lsn' \in Nat, next_lsn <= next_lsn',
           NEW r \in LoggedRecord, Log' = Append(Log, r), r.thread = th,
           rec[u].page = r.page => r.page = NoPage,
           Copying(u) => rec[u].lsn # r.lsn
    PROVE  RecordOK(u)'
<1> USE OthersAsTheyWere
<1>0. Log \in Seq(LoggedRecord)
  BY LogIsSeq
<1>1. (Preparing(u) => rec[u] \in Record /\ rec[u].thread = u)'
  BY DEF RecordOK
<1>2. (Copying(u) => /\ rec[u] \in LoggedRecord /\ rec[u].thread = u
                     /\ rec[u].lsn < next_lsn
                     /\ ~Has(Log, rec[u].lsn)
                     /\ Above(Log, rec[u]))'
  <2>1. SUFFICES ASSUME Copying(u)
                 PROVE  (/\ rec[u] \in LoggedRecord /\ rec[u].thread = u
                         /\ rec[u].lsn < next_lsn
                         /\ ~Has(Log, rec[u].lsn)
                         /\ Above(Log, rec[u]))'
    OBVIOUS
  <2>2. rec[u] \in LoggedRecord /\ rec[u].thread = u /\ rec[u].lsn < next_lsn
        /\ ~Has(Log, rec[u].lsn) /\ Above(Log, rec[u])
    BY <2>1 DEF RecordOK
  <2>3. (rec[u].lsn < next_lsn)'
    BY <2>2 DEF LoggedRecord
  <2>4. ~Has(Append(Log, r), rec[u].lsn)
    BY <1>0, <2>1, <2>2, AppendedLog
  <2>5. Above(Append(Log, r), rec[u])
    <3>0. PICK l, k : l = Log /\ k = Append(Log, r)
      OBVIOUS
    <3>1. \A i \in 1 .. Len(k) : k[i] = r \/ (i \in 1 .. Len(l) /\ k[i] = l[i])
      BY <1>0, <3>0, AppendedLog
    <3>2. Above(l, rec[u])
      BY <2>2, <3>0
    <3>3. Above(k, rec[u])
      BY <2>2, <3>1, <3>2 DEF Above
    <3> QED
      BY <3>0, <3>3
  <2>6. Has(Log, rec[u].lsn)' <=> Has(Append(Log, r), rec[u].lsn)
    OBVIOUS
  <2>7. Above(Log, rec[u])' <=> Above(Append(Log, r), rec[u])
    OBVIOUS
  <2> QED
    BY <2>2, <2>3, <2>4, <2>5, <2>6, <2>7
<1>3. (Waiting(u) =>
          /\ rec[u] \in LoggedRecord
          /\ pc[u] = "flush" => Has(Log, rec[u].lsn)
          /\ pc[u] = "write" => Has(disk \o flush_buffer, rec[u].lsn)
          /\ pc[u] = "store" => Has(disk, rec[u].lsn))'
  <2>1. Has(Log, rec[u].lsn) => Has(Append(Log, r), rec[u].lsn)
    BY <1>0, AppendedLog
  <2>2. Has(Log, rec[u].lsn)' <=> Has(Append(Log, r), rec[u].lsn)
    OBVIOUS
  <2> QED
    BY <2>1, <2>2 DEF RecordOK, StepOf
<1>4. (~Preparing(u) /\ ~Copying(u) /\ ~Waiting(u) => rec[u] = NoRecord)'
  BY DEF RecordOK
<1> QED
  BY <1>1, <1>2, <1>3, <1>4 DEF RecordOK

\* A step that leaves the log and the LSNs alone keeps the invariant when it
\* keeps what th's own record and the mutex promise.
LEMMA QuietStep ==
    ASSUME LogInv, LogTypeOK', MutexOK', NEW th \in Threads, StepOf(th),
           Log' = Log, next_lsn' = next_lsn, RecordOK(th)',
           Copying(th)' <=> Copying(th),
           Copying(th) => rec'[th] = rec[th],
           \A u \in Threads \ {th} :
               rec'[th].page = rec[u].page => rec'[th].page = NoPage,
           \A lsn \in acked' : Has(disk, lsn)'
    PROVE  LogInv'
<1>0. LogTypeOK /\ next_lsn \in Nat
  BY DEF LogInv, LogTypeOK
<1>1. \A u \in Threads : RecordOK(u)'
  <2>1. \A u \in Threads \ {th} : RecordOK(u)'
    BY <1>0, OthersKeepLog DEF LogInv
  <2> QED
    BY <2>1
<1>2. RecordsDiffer'
  <2>1. \A u \in Threads \ {th} : rec'[u] = rec[u] /\ (Copying(u)' <=> Copying(u))
    BY <1>0, OthersAsTheyWere
  <2>2. \A v, u \in Threads : v # u => (rec[v].page = rec[u].page => rec[v].page = NoPage)'
    BY <2>1 DEF LogInv, RecordsDiffer
  <2>3. \A v, u \in Threads : v # u => (Copying(v) /\ Copying(u) => rec[v].lsn # rec[u].lsn)'
    BY <2>1 DEF LogInv, RecordsDiffer
  <2> QED
    BY <2>2, <2>3 DEF RecordsDiffer
<1>3. Below(Log, next_lsn)' /\ OrderedLog(Log)'
  BY DEF LogInv
<1>4. NoneLost'
  <2>1. \A u \in Threads : Copying(u) => Copying(u)' /\ rec'[u] = rec[u]
    BY <1>0, OthersAsTheyWere
  <2>2. ASSUME NEW lsn \in 0 .. next_lsn - 1
        PROVE  Has(Log, lsn)' \/ Pending(lsn)'
    <3>1. CASE Has(Log, lsn)
      BY <3>1
    <3>2. CASE Pending(lsn)
      <4>1. PICK u \in Threads : Copying(u) /\ rec[u].lsn = lsn
        BY <3>2, PendingMeansCopying
      <4>2. Copying(u)' /\ rec'[u].lsn = lsn
        BY <2>1, <4>1
      <4>3. Pending(lsn)'
        BY <4>2 DEF Pending, Copying, InFlush
      <4> QED
        BY <4>3
    <3> QED
      BY <3>1, <3>2 DEF LogInv, NoneLost
  <2> QED
    BY <2>2 DEF NoneLost
<1> QED
  BY <1>1, <1>2, <1>3, <1>4 DEF LogInv

----------------------------------------------------------------------------
(* The copy of a record into the log buffer.                               *)

\* A record that has its LSN, belongs to th and stands above the log's
\* records of its page and goroutine may be copied.
LEMMA CopyStep ==
    ASSUME LogInv, NEW th \in Threads, NEW r \in LoggedRecord, CopyRecord(th, r),
           UNCHANGED <<flush_buffer, wlog_mutex, disk, acked>>,
           pc[th] \in {"assign", "copy"},
           next_lsn' \in Nat, next_lsn <= next_lsn', r.lsn < next_lsn',
           \A lsn \in 0 .. next_lsn' - 1 : lsn < next_lsn \/ lsn = r.lsn,
           r.thread = th, ~Has(Log, r.lsn), Above(Log, r),
           \A u \in Threads \ {th} :
               /\ rec[u].page = r.page => r.page = NoPage
               /\ Copying(u) => rec[u].lsn # r.lsn,
           Copying(th) => rec[th].lsn = r.lsn
    PROVE  LogInv'
<1>0. LogTypeOK /\ next_lsn \in Nat /\ r.lsn \in Nat
  BY DEF LogInv, LogTypeOK, LoggedRecord
<1>1. LogTypeOK'
  <2>1. log_buffer' \in Seq(LoggedRecord)
    BY <1>0 DEF LogTypeOK, CopyRecord
  <2>2. r \in Record
    BY DEF Record, LoggedRecord
  <2>3. rec' \in [Threads -> Record \union {NoRecord}]
    BY <1>0, <2>2 DEF LogTypeOK, CopyRecord
  <2>4. /\ pc' \in [Threads -> {"idle", "check", "assign", "copy", "flush", "write", "store"}]
        /\ back' \in [Threads -> {"idle", "assign", "copy"}]
    BY <1>0 DEF LogTypeOK, CopyRecord, CallFlush, GoTo
  <2> QED
    BY <1>0, <2>1, <2>3, <2>4 DEF LogTypeOK
<1>2. Log' = Append(Log, r)
  BY <1>0, AppendToLog, SMTT(30) DEF LogTypeOK, Log, CopyRecord
<1>3. StepOf(th)
  <2>1. /\ pc' = [pc EXCEPT ![th] = pc'[th]]
        /\ back' = [back EXCEPT ![th] = back'[th]]
        /\ rec' = [rec EXCEPT ![th] = rec'[th]]
    BY <1>0 DEF LogTypeOK, CopyRecord, CallFlush, GoTo
  <2> QED
    BY <2>1 DEF StepOf, Has
<1>4. Log \in Seq(LoggedRecord)
  BY <1>0, LogIsSeq
<1>5. MutexOK'
  <2>1. pc'[th] # "write" /\ pc[th] # "write"
    BY <1>0 DEF LogTypeOK, CopyRecord, CallFlush, GoTo
  <2>2. \A u \in Threads \ {th} : pc'[u] = pc[u]
    BY <1>0, <1>3, OthersAsTheyWere
  <2> QED
    BY <2>1, <2>2 DEF LogInv, MutexOK
<1>6. ~Copying(th)' /\ ~Preparing(th)' /\ rec'[th] \in {r, NoRecord}
      /\ (rec'[th] = r => r.commit /\ pc'[th] = "flush" /\ back'[th] = "idle")
      /\ (rec'[th] # r => rec'[th] = NoRecord /\ pc'[th] = "idle")
  <2>1. r # NoRecord
    <3>1. NoRecord.lsn = -1
      BY DEF NoRecord, InvalidLSN
    <3> QED
      BY <1>0, <3>1
  <2>2. CASE r.commit
    <3>1. rec'[th] = r /\ pc'[th] = "flush" /\ back'[th] = "idle"
      BY <1>0, <2>2 DEF LogTypeOK, CopyRecord, CallFlush
    <3> QED
      BY <2>2, <3>1 DEF Copying, Preparing, InFlush
  <2>3. CASE ~r.commit
    <3>1. rec'[th] = NoRecord /\ pc'[th] = "idle"
      BY <1>0, <2>3 DEF LogTypeOK, CopyRecord, GoTo
    <3> QED
      BY <2>1, <3>1 DEF Copying, Preparing, InFlush
  <2> QED
    BY <2>2, <2>3
<1>7. RecordOK(th)'
  <2>1. CASE rec'[th] = r
    <3>1. Has(Append(Log, r), r.lsn)
      BY <1>4, AppendedLog
    <3>2. Has(Log, rec[th].lsn)' <=> Has(Append(Log, r), r.lsn)
      BY <1>2, <2>1
    <3> QED
      BY <1>6, <2>1, <3>1, <3>2 DEF RecordOK, Waiting, InFlush
  <2>2. CASE rec'[th] = NoRecord
    BY <1>6, <2>2 DEF RecordOK, Waiting, InFlush, NoRecord
  <2> QED
    BY <1>6, <2>1, <2>2
<1>8. \A u \in Threads : RecordOK(u)'
  <2>1. \A u \in Threads \ {th} : RecordOK(u)'
    BY <1>0, <1>2, <1>3, OthersKeepAppend DEF LogInv
  <2> QED
    BY <1>7, <2>1
<1>9. RecordsDiffer'
  <2>1. \A u \in Threads \ {th} : rec'[u] = rec[u] /\ (Copying(u)' <=> Copying(u))
    BY <1>0, <1>3, OthersAsTheyWere
  <2>2. NoRecord.page = NoPage
    BY DEF NoRecord
  <2>3. \A u \in Threads \ {th} : rec[u].page = rec'[th].page => rec'[th].page = NoPage
    BY <1>6, <2>2
  <2>4. \A v, u \in Threads : v # u => (rec[v].page = rec[u].page => rec[v].page = NoPage)'
    BY <2>1, <2>3 DEF LogInv, RecordsDiffer
  <2>5. \A v, u \in Threads : v # u => (Copying(v) /\ Copying(u) => rec[v].lsn # rec[u].lsn)'
    BY <1>6, <2>1 DEF LogInv, RecordsDiffer
  <2> QED
    BY <2>4, <2>5 DEF RecordsDiffer
<1>10. Below(Log, next_lsn)'
  <2>0. PICK l, k : l = Log /\ k = Append(Log, r)
    OBVIOUS
  <2>1. \A i \in 1 .. Len(k) : k[i] = r \/ (i \in 1 .. Len(l) /\ k[i] = l[i])
    BY <1>4, <2>0, AppendedLog
  <2>2. \A i \in 1 .. Len(l) : l[i].lsn \in Nat /\ l[i].lsn < next_lsn
    <3>1. Below(l, next_lsn) /\ l \in Seq(LoggedRecord)
      BY <1>4, <2>0 DEF LogInv
    <3>2. ASSUME NEW i \in 1 .. Len(l) PROVE l[i].lsn \in Nat
      <4>1. l[i] \in LoggedRecord
        BY <3>1
      <4> QED
        BY <4>1 DEF LoggedRecord
    <3> QED
      BY <3>1, <3>2 DEF Below
  <2>3. Below(k, next_lsn')
    BY <1>0, <2>1, <2>2 DEF Below
  <2> QED
    BY <1>2, <2>0, <2>3
<1>11. OrderedLog(Log)'
  <2>1. OrderedLog(Append(Log, r))
    BY <1>4, AppendKeepsOrder DEF LogInv
  <2> QED
    BY <1>2, <2>1
<1>12. NoneLost'
  <2>1. ASSUME NEW lsn \in 0 .. next_lsn' - 1
        PROVE  Has(Log, lsn)' \/ Pending(lsn)'
    <3>1. Has(Log, lsn)' <=> Has(Log, lsn) \/ r.lsn = lsn
      BY <1>2, <1>4, AppendedLog
    <3>2. CASE Pending(lsn) /\ lsn # r.lsn
      <4>1. PICK u \in Threads : Copying(u) /\ rec[u].lsn = lsn
        BY <3>2, PendingMeansCopying
      <4>2. u # th
        BY <3>2, <4>1
      <4>3. Copying(u)' /\ rec'[u].lsn = lsn
        BY <1>0, <1>3, <4>1, <4>2, OthersAsTheyWere
      <4>4. Pending(lsn)'
        BY <4>3 DEF Pending, Copying, InFlush
      <4> QED
        BY <4>4
    <3>3. CASE lsn # r.lsn
      <4>0. lsn < next_lsn
        BY <2>1, <3>3
      <4>1. lsn \in 0 .. next_lsn - 1
        BY <1>0, <2>1, <4>0
      <4> QED
        BY <3>1, <3>2, <3>3, <4>1 DEF LogInv, NoneLost
    <3> QED
      BY <3>1, <3>3
  <2> QED
    BY <2>1 DEF NoneLost
<1>13. (\A lsn \in acked : Has(disk, lsn))'
  BY DEF LogInv, Has
<1> QED
  BY <1>1, <1>5, <1>8, <1>9, <1>10, <1>11, <1>12, <1>13 DEF LogInv

----------------------------------------------------------------------------
(* One lemma for each step.                                                *)

\* A goroutine in no call has no record.
LEMMA IdleHasNoRecord ==
    ASSUME LogInv, NEW th \in Threads, pc[th] = "idle"
    PROVE  rec[th] = NoRecord /\ ~Copying(th) /\ ~Preparing(th) /\ ~Waiting(th)
<1>1. ~Copying(th) /\ ~Preparing(th) /\ ~Waiting(th)
  BY DEF Copying, Preparing, Waiting, InFlush
<1> QED
  BY <1>1 DEF LogInv, RecordOK

\* Steps that touch neither the buffers, the file nor the mutex.
LEMMA ControlStep ==
    ASSUME LogInv, NEW th \in Threads,
           UNCHANGED <<log_buffer, flush_buffer, disk, wlog_mutex, next_lsn>>,
           NEW r \in Record \union {NoRecord}, rec' = [rec EXCEPT ![th] = r],
           NEW l \in {"idle", "check", "assign", "copy", "flush"},
           pc' = [pc EXCEPT ![th] = l],
           NEW b \in {"idle", "assign", "copy"}, back' = [back EXCEPT ![th] = b],
           pc[th] # "write"
    PROVE  /\ LogTypeOK' /\ MutexOK' /\ StepOf(th) /\ Log' = Log
           /\ pc'[th] = l /\ back'[th] = b /\ rec'[th] = r
           /\ \A lsn : Has(disk, lsn)' <=> Has(disk, lsn)
           /\ \A lsn : Has(Log, lsn)' <=> Has(Log, lsn)
<1>0. LogTypeOK
  BY DEF LogInv
<1>1. LogTypeOK'
  BY <1>0 DEF LogTypeOK
<1>2. pc'[th] = l /\ back'[th] = b /\ rec'[th] = r
  BY <1>0 DEF LogTypeOK
<1>3. \A lsn : Has(disk, lsn)' <=> Has(disk, lsn)
  BY DEF Has
<1>4. StepOf(th)
  BY <1>0, <1>2, <1>3 DEF StepOf, LogTypeOK
<1>5. MutexOK'
  <2>1. \A u \in Threads \ {th} : pc'[u] = pc[u]
    BY <1>0, <1>4, OthersAsTheyWere
  <2>2. l # "write"
    OBVIOUS
  <2> QED
    BY <1>2, <2>1, <2>2 DEF LogInv, MutexOK
<1>6. Log' = Log
  BY DEF Log
<1> QED
  BY <1>1, <1>2, <1>3, <1>4, <1>5, <1>6

\* BeginAppend, of a record whose page no other goroutine logs for.
LEMMA BeginStep ==
    ASSUME LogInv, NEW th \in Threads, NEW page \in Pages \union {NoPage},
           NEW size \in Sizes \union {HeaderSize}, NEW commit \in BOOLEAN,
           page # NoPage => ~Latched(page),
           BeginAppend(th, page, size, commit)
    PROVE  LogInv'
<1>0. LogTypeOK /\ pc[th] = "idle"
  BY DEF LogInv, BeginAppend
<1>1. PICK r : r = [lsn |-> InvalidLSN, page |-> page, thread |-> th,
                    size |-> size, commit |-> commit]
  OBVIOUS
<1>2. r \in Record /\ r.thread = th /\ r.page = page
  BY <1>1 DEF Record
<1>3. back[th] \in {"idle", "assign", "copy"} /\ back' = [back EXCEPT ![th] = back[th]]
  BY <1>0 DEF LogTypeOK, BeginAppend, GoTo
<1>4. /\ LogTypeOK' /\ MutexOK' /\ StepOf(th) /\ Log' = Log
      /\ pc'[th] = "check" /\ rec'[th] = r
      /\ \A lsn : Has(disk, lsn)' <=> Has(disk, lsn)
  BY <1>0, <1>1, <1>2, <1>3, ControlStep DEF BeginAppend, GoTo, bufVars
<1>5. ~Copying(th) /\ ~Copying(th)' /\ Preparing(th)' /\ ~Waiting(th)'
  BY <1>0, <1>4 DEF Copying, Preparing, Waiting, InFlush
<1>6. RecordOK(th)'
  BY <1>2, <1>4, <1>5 DEF RecordOK
<1>7. \A u \in Threads \ {th} : rec'[th].page = rec[u].page => rec'[th].page = NoPage
  BY <1>2, <1>4 DEF Latched
<1>8. next_lsn' = next_lsn /\ acked' = acked
  BY DEF BeginAppend, bufVars
<1>9. \A lsn \in acked' : Has(disk, lsn)'
  BY <1>4, <1>8 DEF LogInv
<1> QED
  BY <1>4, <1>5, <1>6, <1>7, <1>8, <1>9, QuietStep

\* The look at the room for the header.
LEMMA CheckStep ==
    ASSUME LogInv, NEW th \in Threads, CheckHeaderRoom(th)
    PROVE  LogInv'
<1>0. LogTypeOK /\ pc[th] = "check" /\ rec' = rec
  BY DEF LogInv, CheckHeaderRoom
<1>1. rec[th] \in Record \union {NoRecord} /\ rec' = [rec EXCEPT ![th] = rec[th]]
  BY <1>0 DEF LogTypeOK
<1>2. PICK l \in {"assign", "flush"}, b \in {"idle", "assign", "copy"} :
          /\ pc' = [pc EXCEPT ![th] = l] /\ back' = [back EXCEPT ![th] = b]
          /\ l = "flush" => b = "assign"
  <2>1. CASE LogBufferSize - offset < HeaderSize
    BY <2>1 DEF CheckHeaderRoom, CallFlush
  <2>2. CASE ~(LogBufferSize - offset < HeaderSize)
    <3>1. back' = [back EXCEPT ![th] = back[th]] /\ back[th] \in {"idle", "assign", "copy"}
      BY <1>0, <2>2 DEF CheckHeaderRoom, GoTo, LogTypeOK
    <3>2. pc' = [pc EXCEPT ![th] = "assign"]
      BY <2>2 DEF CheckHeaderRoom, GoTo
    <3> QED
      BY <3>1, <3>2
  <2> QED
    BY <2>1, <2>2
<1>4. /\ LogTypeOK' /\ MutexOK' /\ StepOf(th) /\ Log' = Log
      /\ pc'[th] = l /\ back'[th] = b /\ rec'[th] = rec[th]
      /\ \A lsn : Has(disk, lsn)' <=> Has(disk, lsn)
  <2>1. l \in {"idle", "check", "assign", "copy", "flush"} /\ pc[th] # "write"
    BY <1>0
  <2>2. UNCHANGED <<log_buffer, flush_buffer, disk, wlog_mutex, next_lsn>>
    BY DEF CheckHeaderRoom, bufVars
  <2> QED
    BY <1>1, <1>2, <2>1, <2>2, ControlStep
<1>5. ~Copying(th) /\ ~Copying(th)' /\ Preparing(th) /\ Preparing(th)' /\ ~Waiting(th)'
  BY <1>0, <1>2, <1>4 DEF Copying, Preparing, Waiting, InFlush
<1>6. RecordOK(th)'
  BY <1>4, <1>5 DEF RecordOK, LogInv
<1>7. \A u \in Threads \ {th} : rec'[th].page = rec[u].page => rec'[th].page = NoPage
  BY <1>4 DEF LogInv, RecordsDiffer
<1>8. next_lsn' = next_lsn /\ acked' = acked
  BY DEF CheckHeaderRoom, bufVars
<1>9. \A lsn \in acked' : Has(disk, lsn)'
  BY <1>4, <1>8 DEF LogInv
<1> QED
  BY <1>4, <1>5, <1>6, <1>7, <1>8, <1>9, QuietStep

\* A Flush that Commit, the buffer pool or the checkpointer calls.
LEMMA FlushCallStep ==
    ASSUME LogInv, NEW th \in Threads, FlushCall(th)
    PROVE  LogInv'
<1>0. LogTypeOK /\ pc[th] = "idle" /\ rec' = rec
  BY DEF LogInv, FlushCall
<1>1. rec[th] \in Record \union {NoRecord} /\ rec' = [rec EXCEPT ![th] = rec[th]]
  BY <1>0 DEF LogTypeOK
<1>4. /\ LogTypeOK' /\ MutexOK' /\ StepOf(th) /\ Log' = Log
      /\ pc'[th] = "flush" /\ back'[th] = "idle" /\ rec'[th] = rec[th]
      /\ \A lsn : Has(disk, lsn)' <=> Has(disk, lsn)
  BY <1>0, <1>1, ControlStep DEF FlushCall, CallFlush, bufVars
<1>5. rec[th] = NoRecord /\ ~Copying(th)
  BY <1>0, IdleHasNoRecord
<1>6. ~NoRecord.commit
  BY DEF NoRecord
<1>7. ~Copying(th)' /\ ~Preparing(th)' /\ ~Waiting(th)'
  BY <1>4, <1>5, <1>6 DEF Copying, Preparing, Waiting, InFlush
<1>8. RecordOK(th)'
  BY <1>4, <1>5, <1>7 DEF RecordOK
<1>9. \A u \in Threads \ {th} : rec'[th].page = rec[u].page => rec'[th].page = NoPage
  BY <1>4 DEF LogInv, RecordsDiffer
<1>10. next_lsn' = next_lsn /\ acked' = acked
  BY DEF FlushCall, bufVars
<1>11. \A lsn \in acked' : Has(disk, lsn)'
  BY <1>4, <1>10 DEF LogInv
<1> QED
  BY <1>4, <1>5, <1>7, <1>8, <1>9, <1>10, <1>11, QuietStep

\* The swap: the flush buffer was empty, because the mutex was free.
LEMMA SwapStep ==
    ASSUME LogInv, NEW th \in Threads, SwapBuffers(th)
    PROVE  LogInv'
<1>0. LogTypeOK /\ pc[th] = "flush" /\ wlog_mutex = NoThread /\ flush_buffer = << >>
  BY DEF LogInv, SwapBuffers, MutexOK
<1>1. /\ pc' = [pc EXCEPT ![th] = "write"] /\ back' = back /\ rec' = rec
      /\ disk' = disk /\ next_lsn' = next_lsn /\ acked' = acked
      /\ wlog_mutex' = th /\ flush_buffer' = log_buffer /\ log_buffer' = << >>
  BY DEF SwapBuffers, GoTo
<1>2. LogTypeOK'
  BY <1>0, <1>1 DEF LogTypeOK
<1>3. /\ pc'[th] = "write" /\ back'[th] = back[th] /\ rec'[th] = rec[th]
      /\ \A u \in Threads \ {th} : pc'[u] = pc[u]
  BY <1>0, <1>1 DEF LogTypeOK
<1>4. \A u \in Threads : pc[u] # "write"
  BY <1>0, LogAssumption DEF LogInv, MutexOK
<1>5. \A lsn : Has(disk, lsn)' <=> Has(disk, lsn)
  BY <1>1 DEF Has
<1>6. StepOf(th)
  BY <1>0, <1>1, <1>4, <1>5 DEF StepOf, LogTypeOK
<1>7. MutexOK'
  BY <1>1, <1>3, <1>4, LogAssumption DEF MutexOK
<1>8. Log' = Log /\ (disk \o flush_buffer)' = Log
  BY <1>0, <1>1, SwapKeepsLog DEF Log, LogTypeOK
<1>9. /\ Copying(th)' <=> Copying(th)
      /\ Preparing(th)' <=> Preparing(th)
      /\ Waiting(th)' <=> Waiting(th)
  BY <1>0, <1>3 DEF Copying, Preparing, Waiting, InFlush
<1>10. RecordOK(th)'
  <2>1. RecordOK(th)
    BY DEF LogInv
  <2>2. Waiting(th) => Has(disk \o flush_buffer, rec[th].lsn)'
    BY <1>0, <1>3, <1>8, <2>1 DEF RecordOK
  <2> QED
    BY <1>0, <1>1, <1>3, <1>8, <1>9, <2>1, <2>2 DEF RecordOK
<1>11. \A u \in Threads \ {th} : rec'[th].page = rec[u].page => rec'[th].page = NoPage
  BY <1>3 DEF LogInv, RecordsDiffer
<1>12. \A lsn \in acked' : Has(disk, lsn)'
  BY <1>1, <1>5 DEF LogInv
<1> QED
  BY <1>1, <1>2, <1>3, <1>6, <1>7, <1>8, <1>9, <1>10, <1>11, <1>12, QuietStep

\* The write appends the flush buffer to the file and frees the mutex.
LEMMA WriteStep ==
    ASSUME LogInv, NEW th \in Threads, WriteLog(th)
    PROVE  LogInv'
<1>0. LogTypeOK /\ pc[th] = "write" /\ wlog_mutex = th
  BY DEF LogInv, WriteLog, MutexOK
<1>1. /\ pc' = [pc EXCEPT ![th] = "store"] /\ back' = back /\ rec' = rec
      /\ disk' = disk \o flush_buffer /\ next_lsn' = next_lsn /\ acked' = acked
      /\ wlog_mutex' = NoThread /\ flush_buffer' = << >> /\ log_buffer' = log_buffer
  BY DEF WriteLog, GoTo, bufVars
<1>2. LogTypeOK'
  BY <1>0, <1>1, LogIsSeq DEF LogTypeOK
<1>3. /\ pc'[th] = "store" /\ back'[th] = back[th] /\ rec'[th] = rec[th]
      /\ \A u \in Threads \ {th} : pc'[u] = pc[u]
  BY <1>0, <1>1 DEF LogTypeOK
<1>4. \A u \in Threads \ {th} : pc[u] # "write"
  BY <1>0 DEF LogInv, MutexOK
<1>5. \A lsn : Has(disk, lsn) => Has(disk, lsn)'
  <2>1. \A lsn : Has(disk, lsn) => Has(disk \o flush_buffer, lsn)
    BY <1>0, HasGrows DEF LogTypeOK
  <2> QED
    BY <1>1, <2>1
<1>6. StepOf(th)
  BY <1>0, <1>1, <1>4, <1>5 DEF StepOf, LogTypeOK
<1>7. MutexOK'
  BY <1>1, <1>3, <1>4, LogAssumption DEF MutexOK
<1>8. Log' = Log
  <2>1. disk \o flush_buffer \in Seq(LoggedRecord)
    BY <1>0, LogIsSeq
  <2>2. (disk \o flush_buffer) \o << >> = disk \o flush_buffer
    BY <2>1
  <2> QED
    BY <1>1, <2>2 DEF Log
<1>9. /\ Copying(th)' <=> Copying(th)
      /\ Preparing(th)' <=> Preparing(th)
      /\ Waiting(th)' <=> Waiting(th)
  BY <1>0, <1>3 DEF Copying, Preparing, Waiting, InFlush
<1>10. RecordOK(th)'
  <2>1. RecordOK(th)
    BY DEF LogInv
  <2>2. Waiting(th) => Has(disk, rec[th].lsn)'
    BY <1>0, <1>1, <1>3, <2>1 DEF RecordOK
  <2> QED
    BY <1>0, <1>1, <1>3, <1>8, <1>9, <2>1, <2>2 DEF RecordOK
<1>11. \A u \in Threads \ {th} : rec'[th].page = rec[u].page => rec'[th].page = NoPage
  BY <1>3 DEF LogInv, RecordsDiffer
<1>12. \A lsn \in acked' : Has(disk, lsn)'
  BY <1>1, <1>5 DEF LogInv
<1> QED
  BY <1>1, <1>2, <1>3, <1>6, <1>7, <1>8, <1>9, <1>10, <1>11, <1>12, QuietStep

\* The end of a Flush; a Commit that waited for it goes on.
LEMMA StoreStep ==
    ASSUME LogInv, NEW th \in Threads, StorePersistentLSN(th)
    PROVE  LogInv'
<1>0. LogTypeOK /\ pc[th] = "store" /\ RecordOK(th)
  BY DEF LogInv, StorePersistentLSN
<1>1. /\ back[th] \in {"idle", "assign", "copy"} /\ back' = [back EXCEPT ![th] = back[th]]
      /\ pc' = [pc EXCEPT ![th] = back[th]]
  BY <1>0 DEF LogTypeOK, StorePersistentLSN, GoTo
<1>2. UNCHANGED <<log_buffer, flush_buffer, disk, wlog_mutex, next_lsn>>
  BY DEF StorePersistentLSN, bufVars
<1>3. CASE Waiting(th)
  <2>1. rec' = [rec EXCEPT ![th] = NoRecord] /\ acked' = acked \union {rec[th].lsn}
    BY <1>3 DEF StorePersistentLSN, Waiting
  <2>2. back[th] = "idle" /\ Has(disk, rec[th].lsn)
    BY <1>0, <1>3 DEF RecordOK, Waiting
  <2>3. /\ LogTypeOK' /\ MutexOK' /\ StepOf(th) /\ Log' = Log
        /\ pc'[th] = back[th] /\ back'[th] = back[th] /\ rec'[th] = NoRecord
        /\ \A lsn : Has(disk, lsn)' <=> Has(disk, lsn)
    <3>1. NoRecord \in Record \union {NoRecord} /\ pc[th] # "write"
      BY <1>0
    <3>2. back[th] \in {"idle", "check", "assign", "copy", "flush"}
      BY <1>1
    <3> QED
      BY <1>1, <1>2, <2>1, <3>1, <3>2, ControlStep
  <2>4. ~Copying(th)' /\ ~Preparing(th)' /\ ~Waiting(th)'
    BY <2>2, <2>3 DEF Copying, Preparing, Waiting, InFlush
  <2>5. ~Copying(th)
    BY <1>0, <2>2 DEF Copying, InFlush
  <2>6. RecordOK(th)'
    BY <2>3, <2>4 DEF RecordOK
  <2>7. \A lsn \in acked' : Has(disk, lsn)'
    BY <2>1, <2>2, <2>3 DEF LogInv
  <2>8. rec'[th].page = NoPage
    BY <2>3 DEF NoRecord
  <2> QED
    BY <1>2, <2>3, <2>4, <2>5, <2>6, <2>7, <2>8, QuietStep
<1>4. CASE ~Waiting(th)
  <2>1. rec' = rec /\ acked' = acked
    BY <1>0, <1>4 DEF StorePersistentLSN, Waiting, InFlush
  <2>2. rec[th] \in Record \union {NoRecord} /\ rec' = [rec EXCEPT ![th] = rec[th]]
    BY <1>0, <2>1 DEF LogTypeOK
  <2>3. /\ LogTypeOK' /\ MutexOK' /\ StepOf(th) /\ Log' = Log
        /\ pc'[th] = back[th] /\ back'[th] = back[th] /\ rec'[th] = rec[th]
        /\ \A lsn : Has(disk, lsn)' <=> Has(disk, lsn)
    <3>1. pc[th] # "write" /\ back[th] \in {"idle", "check", "assign", "copy", "flush"}
      BY <1>0, <1>1
    <3> QED
      BY <1>1, <1>2, <2>2, <3>1, ControlStep
  <2>4. /\ Copying(th)' <=> Copying(th)
        /\ Preparing(th)' <=> Preparing(th)
        /\ ~Waiting(th)'
    BY <1>0, <1>1, <2>3 DEF Copying, Preparing, Waiting, InFlush
  <2>5. RecordOK(th)'
    BY <1>0, <1>2, <1>4, <2>3, <2>4 DEF RecordOK
  <2>6. \A lsn \in acked' : Has(disk, lsn)'
    BY <2>1, <2>3 DEF LogInv
  <2>7. \A u \in Threads \ {th} : rec'[th].page = rec[u].page => rec'[th].page = NoPage
    BY <2>3 DEF LogInv, RecordsDiffer
  <2> QED
    BY <1>2, <2>3, <2>4, <2>5, <2>6, <2>7, QuietStep
<1> QED
  BY <1>3, <1>4

\* The record of th with the LSN AssignLSN gives it.
Stamped(th) == [rec[th] EXCEPT !.lsn = next_lsn]

\* The LSN that is assigned is above all in the log, and above all that wait
\* to be copied.
LEMMA FreshRecord ==
    ASSUME LogInv, NEW th \in Threads, pc[th] = "assign",
           NEW r
    PROVE  r = Stamped(th) =>
           /\ r \in LoggedRecord /\ r.lsn = next_lsn /\ r.thread = th
           /\ r.page = rec[th].page
           /\ ~Has(Log, next_lsn) /\ Above(Log, r)
           /\ \A u \in Threads \ {th} :
                 /\ rec[u].page = r.page => r.page = NoPage
                 /\ Copying(u) => rec[u].lsn # r.lsn
           /\ ~Copying(th)
<1> HAVE r = Stamped(th)
<1>0. LogTypeOK /\ next_lsn \in Nat /\ RecordOK(th)
  BY DEF LogInv, LogTypeOK
<1>1. Preparing(th) /\ ~Copying(th)
  BY DEF Preparing, Copying, InFlush
<1>2. rec[th] \in Record /\ rec[th].thread = th
  BY <1>0, <1>1 DEF RecordOK
<1>3. r \in LoggedRecord /\ r.lsn = next_lsn /\ r.thread = th /\ r.page = rec[th].page
  BY <1>0, <1>2 DEF Stamped, Record, LoggedRecord
<1>4. PICK l : l = Log
  OBVIOUS
<1>5. \A i \in 1 .. Len(l) : l[i].lsn \in Nat /\ l[i].lsn < next_lsn
  <2>1. l \in Seq(LoggedRecord) /\ Below(l, next_lsn)
    BY <1>0, <1>4, LogIsSeq DEF LogInv
  <2>2. \A i \in 1 .. Len(l) : l[i] \in LoggedRecord
    BY <2>1
  <2> QED
    BY <2>1, <2>2 DEF Below, LoggedRecord
<1>6. ~Has(l, next_lsn) /\ Above(l, r)
  BY <1>0, <1>3, <1>5 DEF Has, Above
<1>7. ASSUME NEW u \in Threads \ {th}
      PROVE  /\ rec[u].page = r.page => r.page = NoPage
             /\ Copying(u) => rec[u].lsn # r.lsn
  <2>1. rec[u].page = r.page => r.page = NoPage
    BY <1>3 DEF LogInv, RecordsDiffer
  <2>2. Copying(u) => rec[u] \in LoggedRecord /\ rec[u].lsn < next_lsn
    BY DEF LogInv, RecordOK
  <2>3. Copying(u) => rec[u].lsn # r.lsn
    BY <1>0, <1>3, <2>2 DEF LoggedRecord
  <2> QED
    BY <2>1, <2>3
<1> QED
  BY <1>1, <1>3, <1>4, <1>6, <1>7

\* AssignLSN: the record is copied, or waits for a Flush with its LSN.
LEMMA AssignStep ==
    ASSUME LogInv, NEW th \in Threads, AssignLSN(th)
    PROVE  LogInv'
<1>0. LogTypeOK /\ next_lsn \in Nat /\ next_lsn' = next_lsn + 1 /\ pc[th] = "assign"
  BY DEF LogInv, LogTypeOK, AssignLSN
<1>1. PICK r : r = Stamped(th)
  OBVIOUS
<1>2. /\ r \in LoggedRecord /\ r.lsn = next_lsn /\ r.thread = th
      /\ r.page = rec[th].page
      /\ ~Has(Log, next_lsn) /\ Above(Log, r)
      /\ \A u \in Threads \ {th} :
            /\ rec[u].page = r.page => r.page = NoPage
            /\ Copying(u) => rec[u].lsn # r.lsn
      /\ ~Copying(th)
  <2>1. pc[th] = "assign"
    BY <1>0
  <2> QED
    BY <1>1, <2>1, FreshRecord
<1>3. UNCHANGED <<flush_buffer, wlog_mutex, disk, acked>>
  BY DEF AssignLSN
<1>4. CASE ~(LogBufferSize - offset < r.size)
  <2>1. CopyRecord(th, r)
    BY <1>1, <1>4 DEF AssignLSN, Stamped
  <2>2. next_lsn' \in Nat /\ next_lsn <= next_lsn' /\ r.lsn < next_lsn'
    BY <1>0, <1>2
  <2>3. \A lsn \in 0 .. next_lsn' - 1 : lsn < next_lsn \/ lsn = r.lsn
    BY <1>0, <1>2
  <2>4. ~Has(Log, r.lsn) /\ pc[th] \in {"assign", "copy"}
    BY <1>0, <1>2
  <2> QED
    BY <1>2, <1>3, <2>1, <2>2, <2>3, <2>4, CopyStep
<1>5. CASE LogBufferSize - offset < r.size
  <2>1. /\ rec' = [rec EXCEPT ![th] = r] /\ pc' = [pc EXCEPT ![th] = "flush"]
        /\ back' = [back EXCEPT ![th] = "copy"] /\ log_buffer' = log_buffer
    BY <1>1, <1>5 DEF AssignLSN, CallFlush, Stamped
  <2>2. r \in Record
    BY <1>2 DEF Record, LoggedRecord
  <2>3. pc'[th] = "flush" /\ back'[th] = "copy" /\ rec'[th] = r
    BY <1>0, <2>1 DEF LogTypeOK
  <2>4. LogTypeOK'
    BY <1>0, <1>3, <2>1, <2>2 DEF LogTypeOK
  <2>5. StepOf(th)
    BY <1>0, <1>3, <2>1, <2>3 DEF StepOf, LogTypeOK, Has
  <2>6. \A u \in Threads \ {th} : rec'[u] = rec[u] /\ pc'[u] = pc[u]
                                    /\ (Copying(u)' <=> Copying(u))
    BY <1>0, <2>5, OthersAsTheyWere
  <2>7. MutexOK'
    BY <1>0, <1>3, <2>3, <2>6 DEF LogInv, MutexOK
  <2>8. Log' = Log
    BY <1>3, <2>1 DEF Log
  <2>9. next_lsn' \in Nat /\ next_lsn <= next_lsn' /\ r.lsn < next_lsn'
    BY <1>0, <1>2
  <2>10. Copying(th)' /\ ~Preparing(th)' /\ ~Waiting(th)'
    BY <2>3 DEF Copying, Preparing, Waiting, InFlush
  <2>11. RecordOK(th)'
    <3>1. Has(Log, rec[th].lsn)' <=> Has(Log, next_lsn)
      BY <1>2, <2>3, <2>8
    <3>2. Above(Log, rec[th])' <=> Above(Log, r)
      BY <2>3, <2>8
    <3> QED
      BY <1>2, <2>3, <2>9, <2>10, <3>1, <3>2 DEF RecordOK
  <2>12. \A u \in Threads : RecordOK(u)'
    <3>1. \A u \in Threads \ {th} : RecordOK(u)'
      BY <1>0, <2>5, <2>8, <2>9, OthersKeepLog DEF LogInv
    <3> QED
      BY <2>11, <3>1
  <2>13. RecordsDiffer'
    <3>1. \A v, u \in Threads : v # u => (rec[v].page = rec[u].page => rec[v].page = NoPage)'
      BY <1>2, <2>3, <2>6 DEF LogInv, RecordsDiffer
    <3>2. \A v, u \in Threads : v # u => (Copying(v) /\ Copying(u) => rec[v].lsn # rec[u].lsn)'
      BY <1>2, <2>3, <2>6 DEF LogInv, RecordsDiffer
    <3> QED
      BY <3>1, <3>2 DEF RecordsDiffer
  <2>14. Below(Log, next_lsn)'
    <3>1. PICK l : l = Log
      OBVIOUS
    <3>2. l \in Seq(LoggedRecord) /\ Below(l, next_lsn)
      BY <1>0, <3>1, LogIsSeq DEF LogInv
    <3>3. \A i \in 1 .. Len(l) : l[i] \in LoggedRecord
      BY <3>2
    <3>4. Below(l, next_lsn')
      BY <1>0, <2>9, <3>2, <3>3 DEF Below, LoggedRecord
    <3> QED
      BY <2>8, <3>1, <3>4
  <2>15. OrderedLog(Log)'
    BY <2>8 DEF LogInv
  <2>16. NoneLost'
    <3>1. ASSUME NEW lsn \in 0 .. next_lsn' - 1
          PROVE  Has(Log, lsn)' \/ Pending(lsn)'
      <4>1. CASE lsn = next_lsn
        <5>1. Copying(th)' /\ rec'[th].lsn = lsn
          BY <1>2, <2>3, <2>10, <4>1
        <5> QED
          BY <5>1 DEF Pending, Copying, InFlush
      <4>2. CASE lsn # next_lsn
        <5>1. lsn \in 0 .. next_lsn - 1
          BY <1>0, <3>1, <4>2
        <5>2. CASE Pending(lsn)
          <6>1. PICK u \in Threads : Copying(u) /\ rec[u].lsn = lsn
            BY <5>2, PendingMeansCopying
          <6>2. Copying(u)' /\ rec'[u].lsn = lsn
            BY <1>2, <2>6, <6>1
          <6> QED
            BY <6>2 DEF Pending, Copying, InFlush
        <5> QED
          BY <2>8, <5>1, <5>2 DEF LogInv, NoneLost
      <4> QED
        BY <4>1, <4>2
    <3> QED
      BY <3>1 DEF NoneLost
  <2>17. (\A lsn \in acked : Has(disk, lsn))'
    BY <1>3 DEF LogInv, Has
  <2> QED
    BY <2>4, <2>7, <2>12, <2>13, <2>14, <2>15, <2>16, <2>17 DEF LogInv
<1> QED
  BY <1>4, <1>5

\* The copy after the Flush.
LEMMA LateCopyStep ==
    ASSUME LogInv, NEW th \in Threads, CopyAfterFlush(th)
    PROVE  LogInv'
<1>0. next_lsn \in Nat /\ next_lsn' = next_lsn /\ pc[th] = "copy"
  BY DEF LogInv, LogTypeOK, CopyAfterFlush
<1>1. PICK r : r = rec[th]
  OBVIOUS
<1>2. Copying(th)
  BY <1>0 DEF Copying
<1>3. /\ r \in LoggedRecord /\ r.thread = th /\ r.lsn < next_lsn
      /\ ~Has(Log, r.lsn) /\ Above(Log, r)
  BY <1>1, <1>2 DEF LogInv, RecordOK
<1>4. \A u \in Threads \ {th} :
          /\ rec[u].page = r.page => r.page = NoPage
          /\ Copying(u) => rec[u].lsn # r.lsn
  BY <1>1, <1>2 DEF LogInv, RecordsDiffer
<1>5. \A lsn \in 0 .. next_lsn' - 1 : lsn < next_lsn \/ lsn = r.lsn
  BY <1>0
<1>6. CopyRecord(th, r) /\ UNCHANGED <<flush_buffer, wlog_mutex, disk, acked>>
  BY <1>1 DEF CopyAfterFlush
<1>7. next_lsn' \in Nat /\ next_lsn <= next_lsn' /\ r.lsn < next_lsn'
  BY <1>0, <1>3
<1>8. pc[th] \in {"assign", "copy"} /\ (Copying(th) => rec[th].lsn = r.lsn)
  BY <1>0, <1>1
<1> QED
  BY <1>3, <1>4, <1>5, <1>6, <1>7, <1>8, CopyStep

----------------------------------------------------------------------------
(* The theorems.                                                           *)

\* The invariant holds of every state of every behaviour of AppendLogRecord
\* and Flush.
THEOREM LogInvariance == Spec => []LogInv
<1>1. Init => LogInv
  <2>1. SUFFICES ASSUME Init PROVE LogInv
    OBVIOUS
  <2>2. LogTypeOK
    BY <2>1 DEF Init, LogTypeOK
  <2>3. Log = << >>
    BY <2>1 DEF Init, Log
  <2>4. MutexOK
    BY <2>1, LogAssumption DEF Init, MutexOK
  <2>5. \A th \in Threads : rec[th] = NoRecord /\ pc[th] = "idle"
    BY <2>1 DEF Init
  <2>6. \A th \in Threads : RecordOK(th)
    BY <2>5 DEF RecordOK, Preparing, Copying, Waiting, InFlush
  <2>7. RecordsDiffer
    BY <2>5 DEF RecordsDiffer, NoRecord, Copying, InFlush
  <2>8. Below(Log, next_lsn) /\ OrderedLog(Log)
    BY <2>3 DEF Below, OrderedLog
  <2>9. NoneLost /\ \A lsn \in acked : Has(disk, lsn)
    BY <2>1 DEF Init, NoneLost
  <2> QED
    BY <2>2, <2>4, <2>6, <2>7, <2>8, <2>9 DEF LogInv
<1>2. LogInv /\ [Next]_vars => LogInv'
  <2>1. SUFFICES ASSUME LogInv, [Next]_vars PROVE LogInv'
    OBVIOUS
  <2>2. ASSUME NEW th \in Threads, Call(th) PROVE LogInv'
    <3>1. CASE \E commit \in BOOLEAN : AppendTxnRecord(th, commit)
      BY <2>1, <3>1, BeginStep DEF AppendTxnRecord
    <3>2. CASE \E page \in Pages, size \in Sizes : AppendPageRecord(th, page, size)
      BY <2>1, <3>2, BeginStep DEF AppendPageRecord
    <3> QED
      BY <2>1, <2>2, <3>1, <3>2, FlushCallStep DEF Call
  <2>3. ASSUME NEW th \in Threads, Step(th) PROVE LogInv'
    BY <2>1, <2>3, CheckStep, AssignStep, LateCopyStep, WriteStep, StoreStep DEF Step
  <2>4. CASE UNCHANGED vars
    <3>1. UNCHANGED <<log_buffer, next_lsn, flush_buffer, wlog_mutex, disk, pc, back, rec,
                      acked>>
      BY <2>4 DEF vars, bufVars
    <3>2. Log' = Log
      BY <3>1 DEF Log
    <3>3. LogTypeOK' /\ MutexOK'
      BY <2>1, <3>1 DEF LogInv, LogTypeOK, MutexOK
    <3>4. ASSUME NEW th \in Threads
          PROVE  /\ Preparing(th)' <=> Preparing(th)
                 /\ Copying(th)' <=> Copying(th)
                 /\ Waiting(th)' <=> Waiting(th)
      BY <3>1 DEF Preparing, Copying, Waiting, InFlush
    <3>5. \A th \in Threads : RecordOK(th)'
      BY <2>1, <3>1, <3>2, <3>4 DEF LogInv, RecordOK
    <3>6. RecordsDiffer'
      BY <2>1, <3>1, <3>4 DEF LogInv, RecordsDiffer
    <3>7. NoneLost'
      BY <2>1, <3>1, <3>2 DEF LogInv, NoneLost, Pending
    <3> QED
      BY <2>1, <3>1, <3>2, <3>3, <3>5, <3>6, <3>7 DEF LogInv
  <2> QED
    BY <2>1, <2>2, <2>3, <2>4, SwapStep DEF Next
<1> QED
  BY <1>1, <1>2, PTL DEF Spec

\* No interleaving of appends with buffer swaps loses a record or logs it
\* twice: every assigned LSN is in the log once or still to be copied.
THEOREM RecordsAreLoggedOnce == Spec => []EachRecordOnce
<1>1. LogInv => EachRecordOnce
  BY DEF LogInv, OrderedLog, NoneLost, Has, EachRecordOnce
<1> QED
  BY <1>1, LogInvariance, PTL

\* A Commit that returned has its COMMIT record in the log file, whichever
\* goroutine's Flush took it there.
THEOREM CommitsAreDurable == Spec => []AckedCommitIsDurable
<1>1. LogInv => AckedCommitIsDurable
  BY DEF LogInv, Has, AckedCommitIsDurable
<1> QED
  BY <1>1, LogInvariance, PTL

\* The records of a page are logged in LSN order, which is the order the page
\* changed in.
THEOREM PagesAreLoggedInOrder == Spec => []PageRecordsInOrder
<1>1. LogInv => PageRecordsInOrder
  BY DEF LogInv, OrderedLog, PageRecordsInOrder
<1> QED
  BY <1>1, LogInvariance, PTL

\* The records of a goroutine are logged in the order it appended them in.
THEOREM ThreadsAreLoggedInOrder == Spec => []ThreadRecordsInOrder
<1>1. LogInv => ThreadRecordsInOrder
  BY DEF LogInv, OrderedLog, ThreadRecordsInOrder
<1> QED
  BY <1>1, LogInvariance, PTL
============================================================================
