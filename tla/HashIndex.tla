----------------------------- MODULE HashIndex -----------------------------
(***************************************************************************)
(* How the executors keep the hash index of a column beside the table:     *)
(* Next of insert_executor.go, delete_executor.go and update_executor.go,  *)
(* and ScanKey of the index.  One statement at a time; its transaction     *)
(* commits, or aborts, before the next one.  The record ids of deleted     *)
(* rows are used again.                                                    *)
(*                                                                         *)
(* Values are record ids (PackRIDtoUint32 keeps 16 bits of the page id and *)
(* of the slot number; the record ids here differ in them).                *)
(***************************************************************************)
EXTENDS LinearProbeHashTable

CONSTANTS
    NoRow           \* no tuple at a record id

ASSUME NoRowAssumption == NoRow \notin Keys

VARIABLES
    table,          \* the index
    rows,           \* record id -> the tuple's value in the indexed column
    strayed         \* history: record ids the index was left wrong about

vars == <<table, rows, strayed>>

Init ==
    /\ table = EmptyTable
    /\ rows = [r \in Values |-> NoRow]
    /\ strayed = {}

ScanKey(k) == GetValue(table, Hash[k])

----------------------------------------------------------------------------
(* The statements.                                                         *)

\* The transaction of a statement that gives the rids their new rows commits,
\* or Abort rolls the table back: it knows nothing of the index.
Ends(rids, new) ==
    \/ rows' = new /\ UNCHANGED strayed
    \/ UNCHANGED rows /\ strayed' = strayed \union rids

InsertExecutor(r, k) ==
    /\ rows[r] = NoRow
    /\ table' = InsertInto(table, Hash[k], r)
    /\ Ends({r}, [rows EXCEPT ![r] = k])

DeleteExecutor(r) ==
    /\ rows[r] # NoRow
    /\ table' = RemoveFrom(table, Hash[rows[r]], r)
    /\ Ends({r}, [rows EXCEPT ![r] = NoRow])

\* DeleteEntry with the key of the new tuple.
ReplaceEntryNewKey(old, r, new, s) ==
    table' = InsertInto(RemoveFrom(table, Hash[new], r), Hash[new], s)

\* InsertEntry without DeleteEntry.
ReplaceEntryKeepingOld(old, r, new, s) == table' = InsertInto(table, Hash[new], s)

\* DeleteEntry of the old tuple, then InsertEntry of the new one.
ReplaceEntry(old, r, new, s) ==
    table' = InsertInto(RemoveFrom(table, Hash[old], r), Hash[new], s)

\* The tuple at r stays in place (s = r) or moves to a free s.
Moved(r, s, k) == [[rows EXCEPT ![r] = NoRow] EXCEPT ![s] = k]

\* All columns change.
UpdateExecutor(r, k, s) ==
    /\ rows[r] # NoRow
    /\ s = r \/ rows[s] = NoRow
    /\ ReplaceEntry(rows[r], r, k, s)
    /\ Ends({r, s}, Moved(r, s, k))

\* Other columns change: TablePage.UpdateTuple keeps the old value of the
\* indexed column, while the index is given the dummy the new tuple has there.
UpdateOtherColumns(r, dummy, s) ==
    /\ rows[r] # NoRow
    /\ s = r \/ rows[s] = NoRow
    /\ ReplaceEntry(rows[r], r, dummy, s)
    /\ rows' = Moved(r, s, rows[r])
    /\ strayed' = strayed \union (IF dummy = rows[r] THEN {} ELSE {s})

Next ==
    \E r \in Values :
        \/ DeleteExecutor(r)
        \/ \E k \in Keys :
              \/ InsertExecutor(r, k)
              \/ \E s \in Values : UpdateExecutor(r, k, s)
              \/ \E s \in Values : UpdateOtherColumns(r, k, s)

Spec == Init /\ [][Next]_vars

----------------------------------------------------------------------------
(* Properties: the harm of a rolled back statement, or of one that named   *)
(* its columns, does not spread to other record ids.                       *)

\* A row the index names is there, and its key has the hash that was asked
\* for, whatever went on since it was filed.  HashScanIndexExecutor hands out
\* what the index names without a look at the predicate (so a row whose key
\* only has the same hash is handed out too), and a missing tuple makes the
\* scan abort its transaction.
HitsAreRows ==
    \A k \in Keys : \A r \in ScanKey(k) \ strayed :
        rows[r] # NoRow /\ Hash[rows[r]] = Hash[k]

\* A row with a key that ScanKey does not find is missing for one of two
\* reasons.  In front of the place it would have, the chain holds a removed
\* slot with the same record id, which Insert takes for the row itself and
\* gives up (the executors do not look at its answer); or no slot is free any
\* more, as removed slots stay occupied for ever.  No chain is cut and nothing
\* is overwritten, over the end of a block or of the table either.
MissingOnlyIfCrowdedOut ==
    \A r \in Values \ strayed : rows[r] # NoRow /\ r \notin ScanKey(rows[r]) =>
        \/ \E p \in Chain(table, Hash[rows[r]]) :
               ~IsReadable(table[p]) /\ table[p].value = r
        \/ \A p \in Positions : IsOccupied(table[p])

\* A row is filed once at most: an update that leaves an entry behind, or a
\* Remove that misses one, would bring the row back when its id is reused.
FiledOnce ==
    \A p, q \in {i \in Positions : IsReadable(table[i])} :
        table[p].value = table[q].value => p = q \/ table[p].value \in strayed
=============================================================================
