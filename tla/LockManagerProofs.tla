-------------------------- MODULE LockManagerProofs --------------------------
(***************************************************************************)
(* Proofs about LockManager, for any set of transactions and of tuples.    *)
(*                                                                         *)
(* LockSetsMatchTables and NoLeakedLocks lean on each other: releaseLocks  *)
(* reads only the transaction's own sets, so that nothing leaks because    *)
(* the sets match the tables, and the tables of the others are not         *)
(* disturbed because Unlock removes only its own entries.  With the types  *)
(* and ForeignReaderOnlyBesideUpgrade they form the inductive invariant.   *)
(***************************************************************************)
EXTENDS LockManager, Integers, TLAPS

LockInv ==
    /\ LockTypeOK
    /\ LockSetsMatchTables
    /\ NoLeakedLocks
    /\ ForeignReaderOnlyBesideUpgrade

\* The initial state, with empty tables and empty lock sets, satisfies the
\* inductive invariant.
LEMMA LockInitInv == LockInit => LockInv
  BY NoTxnAssumption
  DEF LockInit, LockInv, LockTypeOK, LockSetsMatchTables, NoLeakedLocks,
      ForeignReaderOnlyBesideUpgrade

\* LockShared preserves the inductive invariant.
LEMMA LockSharedInv ==
    ASSUME LockInv,
           NEW t \in TxnIDs, t \notin released, NEW r \in RIDs,
           NEW granted \in BOOLEAN, LockShared(t, r, granted)
    PROVE  LockInv'
  <1> USE NoTxnAssumption
  <1>1. LockTypeOK'
    BY DEF LockInv, LockTypeOK, LockShared, HeldByOther
  <1>2. LockSetsMatchTables'
    BY DEF LockInv, LockTypeOK, LockSetsMatchTables, LockShared, HeldByOther
  <1>3. NoLeakedLocks'
    BY DEF LockInv, LockTypeOK, NoLeakedLocks, LockShared, HeldByOther
  <1>4. ForeignReaderOnlyBesideUpgrade'
    BY DEF LockInv, LockTypeOK, ForeignReaderOnlyBesideUpgrade, LockShared
  <1> QED  BY <1>1, <1>2, <1>3, <1>4 DEF LockInv

\* LockExclusive preserves the inductive invariant.
LEMMA LockExclusiveInv ==
    ASSUME LockInv,
           NEW t \in TxnIDs, t \notin released, NEW r \in RIDs,
           NEW granted \in BOOLEAN, LockExclusive(t, r, granted)
    PROVE  LockInv'
  <1> USE NoTxnAssumption
  <1>1. LockTypeOK'
    BY DEF LockInv, LockTypeOK, LockExclusive, PutExclusive
  <1>2. LockSetsMatchTables'
    BY DEF LockInv, LockTypeOK, LockSetsMatchTables, LockExclusive, PutExclusive
  <1>3. NoLeakedLocks'
    BY DEF LockInv, LockTypeOK, NoLeakedLocks, LockExclusive, PutExclusive
  <1>4. ForeignReaderOnlyBesideUpgrade'
    BY DEF LockInv, LockTypeOK, ForeignReaderOnlyBesideUpgrade, LockExclusive,
           PutExclusive
  <1> QED  BY <1>1, <1>2, <1>3, <1>4 DEF LockInv

\* LockUpgrade preserves the inductive invariant: the new exclusive holder is
\* a sharer because its shared_lock_set says so.
LEMMA LockUpgradeInv ==
    ASSUME LockInv,
           NEW t \in TxnIDs, t \notin released, NEW r \in RIDs,
           NEW granted \in BOOLEAN, LockUpgrade(t, r, granted)
    PROVE  LockInv'
  <1> USE NoTxnAssumption DEF LockInv, LockUpgrade, PutExclusive, IsSharedLocked
  <1>1. LockTypeOK'
    BY DEF LockTypeOK, setVars
  <1>2. LockSetsMatchTables'
    BY DEF LockTypeOK, LockSetsMatchTables, setVars
  <1>3. NoLeakedLocks'
    BY DEF LockTypeOK, NoLeakedLocks, setVars
  <1>4. ForeignReaderOnlyBesideUpgrade'
    BY DEF LockTypeOK, LockSetsMatchTables, ForeignReaderOnlyBesideUpgrade, setVars
  <1> QED  BY <1>1, <1>2, <1>3, <1>4

\* releaseLocks preserves the inductive invariant: what t has in the tables
\* is what its own sets list.
LEMMA ReleaseLocksInv ==
    ASSUME LockInv, NEW t \in TxnIDs, t \notin released, ReleaseLocks(t)
    PROVE  LockInv'
  <1> USE NoTxnAssumption DEF LockInv, ReleaseLocks, Unlock, setVars
  <1>1. LockTypeOK'
    BY DEF LockTypeOK
  <1>2. LockSetsMatchTables'
    BY DEF LockTypeOK, LockSetsMatchTables
  <1>3. NoLeakedLocks'
    BY DEF LockTypeOK, LockSetsMatchTables, NoLeakedLocks
  <1>4. ForeignReaderOnlyBesideUpgrade'
    BY DEF LockTypeOK, LockSetsMatchTables, ForeignReaderOnlyBesideUpgrade
  <1> QED  BY <1>1, <1>2, <1>3, <1>4

\* One step of the lock manager preserves the inductive invariant.
LEMMA LockNextInv == LockInv /\ [LockNext]_lockVars => LockInv'
  <1> SUFFICES ASSUME LockInv, [LockNext]_lockVars PROVE LockInv'
    OBVIOUS
  <1>1. CASE UNCHANGED lockVars
    BY <1>1 DEF lockVars, LockInv, LockTypeOK, LockSetsMatchTables, NoLeakedLocks,
                ForeignReaderOnlyBesideUpgrade
  <1>2. CASE LockNext
    BY <1>2, LockSharedInv, LockExclusiveInv, LockUpgradeInv, ReleaseLocksInv
    DEF LockNext
  <1> QED  BY <1>1, <1>2

\* In every behaviour of the lock manager the types hold, the lock sets of
\* the transactions match the tables, a finished transaction leaves no lock
\* behind, and a foreign reader beside a writer implies an upgrade.
THEOREM LockInvariance == LockSpec => []LockInv
  BY LockInitInv, LockNextInv, PTL DEF LockSpec

\* The lock sets of every live transaction match the lock tables.
THEOREM LockSetsMatch == LockSpec => []LockSetsMatchTables
  <1>1. LockInv => LockSetsMatchTables
    BY DEF LockInv
  <1> QED  BY <1>1, LockInvariance, PTL

\* No lock outlives its transaction's releaseLocks.
THEOREM NothingLeaks == LockSpec => []NoLeakedLocks
  <1>1. LockInv => NoLeakedLocks
    BY DEF LockInv
  <1> QED  BY <1>1, LockInvariance, PTL

\* A foreign reader beside an exclusive holder is always the trace of an
\* upgrade.
THEOREM ReadersBesideUpgrades == LockSpec => []ForeignReaderOnlyBesideUpgrade
  <1>1. LockInv => ForeignReaderOnlyBesideUpgrade
    BY DEF LockInv
  <1> QED  BY <1>1, LockInvariance, PTL

\* A granted lock is given up only by its own transaction's releaseLocks.
THEOREM StrictLocking == LockSpec => LocksKeptUntilRelease
  <1> DEFINE Strict == \A t \in TxnIDs : \A r \in RIDs :
                LosesLock(t, r) => t \in released' \ released
  <1>1. LockInv /\ [LockNext]_lockVars => [Strict]_lockVars
    <2> SUFFICES ASSUME LockInv, LockNext PROVE Strict
      OBVIOUS
    <2>1. PICK u \in TxnIDs \ released :
             \/ \E q \in RIDs, granted \in BOOLEAN :
                   \/ LockShared(u, q, granted)
                   \/ LockExclusive(u, q, granted)
                   \/ LockUpgrade(u, q, granted)
             \/ ReleaseLocks(u)
      BY DEF LockNext
    <2>2. ASSUME NEW q \in RIDs, NEW granted \in BOOLEAN, LockShared(u, q, granted)
          PROVE  Strict
      BY <2>2 DEF LockShared, LosesLock, LockInv, LockTypeOK
    <2>3. ASSUME NEW q \in RIDs, NEW granted \in BOOLEAN,
                 LockExclusive(u, q, granted)
          PROVE  Strict
      BY <2>3, NoTxnAssumption
      DEF LockExclusive, PutExclusive, LosesLock, LockInv, LockTypeOK
    <2>4. ASSUME NEW q \in RIDs, NEW granted \in BOOLEAN, LockUpgrade(u, q, granted)
          PROVE  Strict
      BY <2>4, NoTxnAssumption
      DEF LockUpgrade, PutExclusive, LosesLock, LockInv, LockTypeOK, setVars
    <2>5. ASSUME ReleaseLocks(u) PROVE Strict
      BY <2>5 DEF ReleaseLocks, Unlock, LosesLock, LockInv, LockTypeOK
    <2> QED  BY <2>1, <2>2, <2>3, <2>4, <2>5
  <1> QED  BY <1>1, LockInvariance, PTL DEF LockSpec, LocksKeptUntilRelease

----------------------------------------------------------------------------
(* What a request means to its caller.                                     *)

\* A request of t for an exclusive lock of r.
LockEffect(t, r, granted) ==
    /\ [LockNext]_lockVars
    /\ released' = released
    /\ \A u \in TxnIDs \ {t} : /\ exclusive_lock_set'[u] = exclusive_lock_set[u]
                               /\ shared_lock_set'[u] = shared_lock_set[u]
    /\ exclusive_lock_set'[t] =
          IF granted THEN exclusive_lock_set[t] \union {r} ELSE exclusive_lock_set[t]

\* LockExclusive has that effect: granted means that the lock is t's now.
LEMMA LockExclusiveEffect ==
    ASSUME LockInv, NEW t \in TxnIDs, t \notin released, NEW r \in RIDs,
           NEW granted \in BOOLEAN, LockExclusive(t, r, granted)
    PROVE  LockEffect(t, r, granted)
  <1>1. LockNext
    BY DEF LockNext
  <1>2. exclusive_lock_table[r] = t => r \in exclusive_lock_set[t]
    BY DEF LockInv, LockSetsMatchTables
  <1> QED  BY <1>1, <1>2, NoTxnAssumption
           DEF LockEffect, LockExclusive, PutExclusive, LockInv, LockTypeOK

\* Two transactions never have the same tuple in their exclusive lock sets.
LEMMA ExclusiveIsExclusive ==
    ASSUME LockInv, NEW t \in TxnIDs \ released, NEW u \in TxnIDs \ released,
           NEW r \in RIDs, r \in exclusive_lock_set[t], r \in exclusive_lock_set[u]
    PROVE  t = u
  BY DEF LockInv, LockSetsMatchTables

============================================================================
