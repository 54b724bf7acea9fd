---------------------------- MODULE LockManager ----------------------------
(***************************************************************************)
(* storage/access/lock_manager.go: the tuple-level lock tables, and the    *)
(* lock sets every Transaction keeps of itself.                            *)
(*                                                                         *)
(* Every function runs under lock_manager.mutex from its first statement   *)
(* to its return, so each is one action.  No function waits: a request     *)
(* that conflicts returns false at once, and the caller aborts its         *)
(* transaction.  The Go value a function returns is the parameter          *)
(* "granted" of its action.                                                *)
(*                                                                         *)
(* A shared_lock_table entry is a list in the code.  isContainTxnID keeps  *)
(* it free of duplicates and nothing depends on its order, so it is a set  *)
(* here; an absent entry and an empty list behave alike, and are {}.       *)
(***************************************************************************)

CONSTANTS
    TxnIDs,     \* ids of the transactions
    RIDs,       \* record ids, the units of locking
    NoTxn       \* "no entry" of exclusive_lock_table

ASSUME NoTxnAssumption == NoTxn \notin TxnIDs

VARIABLES
    exclusive_lock_table,   \* RIDs -> the one exclusive holder, or NoTxn
    shared_lock_table,      \* RIDs -> the shared holders
    shared_lock_set,        \* TxnIDs -> Transaction.shared_lock_set
    exclusive_lock_set,     \* TxnIDs -> Transaction.exclusive_lock_set
    released                \* the transactions whose releaseLocks has run

tableVars == <<exclusive_lock_table, shared_lock_table>>
setVars   == <<shared_lock_set, exclusive_lock_set>>
lockVars  == <<exclusive_lock_table, shared_lock_table, shared_lock_set,
               exclusive_lock_set, released>>

LockInit ==
    /\ exclusive_lock_table = [r \in RIDs |-> NoTxn]
    /\ shared_lock_table    = [r \in RIDs |-> {}]
    /\ shared_lock_set      = [t \in TxnIDs |-> {}]
    /\ exclusive_lock_set   = [t \in TxnIDs |-> {}]
    /\ released             = {}

----------------------------------------------------------------------------

IsSharedLocked(t, r)    == r \in shared_lock_set[t]
IsExclusiveLocked(t, r) == r \in exclusive_lock_set[t]

\* Somebody else's exclusive entry, the refusal all three requests share.
HeldByOther(t, r) == exclusive_lock_table[r] \notin {NoTxn, t}

\* LockShared that forgets SetSharedLockSet: the lock is never released.
LockSharedNotRecorded(t, r, granted) ==
    /\ granted = ~HeldByOther(t, r)
    /\ IF exclusive_lock_table[r] = NoTxn
         THEN shared_lock_table' = [shared_lock_table EXCEPT ![r] = @ \union {t}]
         ELSE UNCHANGED shared_lock_table
    /\ UNCHANGED <<exclusive_lock_table, setVars, released>>

LockShared(t, r, granted) ==
    /\ granted = ~HeldByOther(t, r)
    /\ IF exclusive_lock_table[r] = NoTxn /\ t \notin shared_lock_table[r]
         THEN /\ shared_lock_table' = [shared_lock_table EXCEPT ![r] = @ \union {t}]
              /\ shared_lock_set' = [shared_lock_set EXCEPT ![t] = @ \union {r}]
         ELSE UNCHANGED <<shared_lock_table, shared_lock_set>>
    /\ UNCHANGED <<exclusive_lock_table, exclusive_lock_set, released>>

\* The granting branch of LockExclusive and of LockUpgrade.
PutExclusive(t, r) ==
    /\ exclusive_lock_table' = [exclusive_lock_table EXCEPT ![r] = t]
    /\ exclusive_lock_set' = [exclusive_lock_set EXCEPT ![t] = @ \union {r}]

\* LockExclusive without the look at shared_lock_table.
LockExclusiveIgnoringReaders(t, r, granted) ==
    /\ granted = ~HeldByOther(t, r)
    /\ IF granted THEN PutExclusive(t, r)
                  ELSE UNCHANGED <<exclusive_lock_table, exclusive_lock_set>>
    /\ UNCHANGED <<shared_lock_table, shared_lock_set, released>>

\* A sharer of r blocks LockExclusive even when it is t itself.
LockExclusive(t, r, granted) ==
    /\ granted = \/ exclusive_lock_table[r] = t
                 \/ exclusive_lock_table[r] = NoTxn /\ shared_lock_table[r] = {}
    /\ IF granted /\ exclusive_lock_table[r] = NoTxn
         THEN PutExclusive(t, r)
         ELSE UNCHANGED <<exclusive_lock_table, exclusive_lock_set>>
    /\ UNCHANGED <<shared_lock_table, shared_lock_set, released>>

(***************************************************************************)
(* The guard is the code's panic: callers ask for an upgrade only of what  *)
(* they share.  The other sharers of r are not looked at, and t stays in   *)
(* shared_lock_table[r] until it unlocks.                                  *)
(***************************************************************************)
LockUpgrade(t, r, granted) ==
    /\ IsSharedLocked(t, r)
    /\ granted = ~HeldByOther(t, r)
    /\ IF exclusive_lock_table[r] = NoTxn
         THEN /\ PutExclusive(t, r)
              /\ shared_lock_set' = [shared_lock_set EXCEPT ![t] = @ \ {r}]
         ELSE UNCHANGED <<exclusive_lock_table, setVars>>
    /\ UNCHANGED <<shared_lock_table, released>>

\* Unlock that treats an exclusive lock as the only one its holder has.
UnlockOneTable(t, rids) ==
    /\ exclusive_lock_table' =
         [r \in RIDs |-> IF r \in rids /\ exclusive_lock_table[r] = t
                         THEN NoTxn ELSE exclusive_lock_table[r]]
    /\ shared_lock_table' =
         [r \in RIDs |-> IF r \in rids /\ exclusive_lock_table[r] # t
                         THEN shared_lock_table[r] \ {t}
                         ELSE shared_lock_table[r]]

\* Unlock that does not ask whose exclusive entry it deletes.
UnlockAnyWriter(t, rids) ==
    /\ exclusive_lock_table' =
         [r \in RIDs |-> IF r \in rids THEN NoTxn ELSE exclusive_lock_table[r]]
    /\ shared_lock_table' =
         [r \in RIDs |-> IF r \in rids THEN shared_lock_table[r] \ {t}
                                       ELSE shared_lock_table[r]]

\* The transaction's own lock sets are left as they are.
Unlock(t, rids) ==
    /\ exclusive_lock_table' =
         [r \in RIDs |-> IF r \in rids /\ exclusive_lock_table[r] = t
                         THEN NoTxn ELSE exclusive_lock_table[r]]
    /\ shared_lock_table' =
         [r \in RIDs |-> IF r \in rids THEN shared_lock_table[r] \ {t}
                                       ELSE shared_lock_table[r]]

\* TransactionManager.releaseLocks, the only caller of Unlock.
ReleaseLocks(t) ==
    /\ Unlock(t, exclusive_lock_set[t] \union shared_lock_set[t])
    /\ released' = released \union {t}
    /\ UNCHANGED setVars

----------------------------------------------------------------------------
(* The lock manager under callers that stop once they have released.       *)

LockNext ==
    \E t \in TxnIDs \ released :
        \/ \E r \in RIDs, granted \in BOOLEAN :
              \/ LockShared(t, r, granted)
              \/ LockExclusive(t, r, granted)
              \/ LockUpgrade(t, r, granted)
        \/ ReleaseLocks(t)

LockSpec == LockInit /\ [][LockNext]_lockVars

----------------------------------------------------------------------------
(* Properties.                                                             *)

\* Types of the lock tables and of the transactions' lock sets.
LockTypeOK ==
    /\ exclusive_lock_table \in [RIDs -> TxnIDs \union {NoTxn}]
    /\ shared_lock_table \in [RIDs -> SUBSET TxnIDs]
    /\ shared_lock_set \in [TxnIDs -> SUBSET RIDs]
    /\ exclusive_lock_set \in [TxnIDs -> SUBSET RIDs]
    /\ released \subseteq TxnIDs

\* The table and the transactions' own sets tell the same story: a caller
\* may decide with IsSharedLocked and IsExclusiveLocked alone, as
\* TablePage.UpdateTuple, MarkDelete and GetTuple do, and releaseLocks, which
\* reads only the sets, finds every table entry of its transaction.
LockSetsMatchTables ==
    \A t \in TxnIDs \ released : \A r \in RIDs :
        /\ r \in exclusive_lock_set[t] <=> exclusive_lock_table[r] = t
        /\ t \in shared_lock_table[r] =>
               r \in shared_lock_set[t] \union exclusive_lock_set[t]
        /\ r \in shared_lock_set[t] =>
               t \in shared_lock_table[r] /\ exclusive_lock_table[r] # t

\* A transaction that ran releaseLocks leaves nothing behind in either table
\* (Unlock must drop the shared entry LockUpgrade left next to the exclusive
\* one); a leaked entry would refuse the tuple to everybody for ever, since
\* no request waits and nothing else removes entries.
NoLeakedLocks ==
    \A t \in released : \A r \in RIDs :
        exclusive_lock_table[r] # t /\ t \notin shared_lock_table[r]

\* How far the missing check of LockUpgrade reaches: a tuple locked
\* exclusively by t is also shared by somebody else only when t upgraded, so
\* that t is still listed as a sharer itself.
ForeignReaderOnlyBesideUpgrade ==
    \A t \in TxnIDs : \A r \in RIDs :
        exclusive_lock_table[r] = t /\ shared_lock_table[r] \ {t} # {}
            => t \in shared_lock_table[r]

\* The step takes from t the exclusive lock or the shared entry it has on r.
LosesLock(t, r) ==
    \/ exclusive_lock_table[r] = t /\ exclusive_lock_table'[r] # t
    \/ t \in shared_lock_table[r] /\ t \notin shared_lock_table'[r]

\* Strictness of the two-phase locking: no request of anybody takes a lock
\* away from a transaction or weakens it, whatever the order of requests; locks
\* go only when their own transaction runs releaseLocks.
LocksKeptUntilRelease ==
    [][\A t \in TxnIDs : \A r \in RIDs :
          LosesLock(t, r) => t \in released' \ released]_lockVars
============================================================================
