------------------------------ MODULE Catalog ------------------------------
(***************************************************************************)
(* The table catalog (catalog/table_catalog.go): CreateTable by several    *)
(* goroutines, the rows it writes to the two catalog tables, their way to  *)
(* the disk, and RecoveryCatalogFromCatalogPage after a shutdown or a      *)
(* crash.  Nothing guards the catalog: nextTableId is read and increased   *)
(* in two steps.                                                           *)
(*                                                                         *)
(* A restart comes as in TestTableCatalogReload: a new instance on the     *)
(* same file, with no replay of the log.  The transactions that create     *)
(* tables commit, each catalog table stays on its first page, the only one *)
(* CreateTable flushes, and no column has an index (it would take pages of *)
(* its own, and be empty after a restart).                                 *)
(***************************************************************************)
EXTENDS Naturals, SequencesExt

CONSTANTS
    Creators,       \* goroutines that call CreateTable
    Names,          \* table names
    NoTable,        \* nil
    MaxColumns,     \* bound: columns of a table
    MaxTables,      \* bound: calls of CreateTable
    MaxRestarts     \* bound: shutdowns and crashes

CatalogNames  == Names \union {"columns_catalog"}
TableMetadata == [oid : Nat, name : CatalogNames, first : Nat, cols : Seq(Nat)]

ASSUME CatalogAssumption ==
    /\ NoTable \notin TableMetadata
    /\ MaxColumns \in Nat \ {0}
    /\ MaxTables \in Nat
    /\ MaxRestarts \in Nat

VARIABLES
    nextTableId,
    tableIds,       \* oid -> TableMetadata
    tableNames,     \* name -> TableMetadata
    tables,         \* the rows of page 0, in the buffer pool
    columns,        \* the rows of page 1, in the buffer pool
    disk,           \* the catalog pages, the number of pages in the file, and
                    \* the first page number this instance gives out
    nextPageID,
    pc, reg,        \* where a goroutine is in CreateTable, and its variables
    asked,          \* history: the tables asked for
    restarts,
    crashed         \* history: there was a crash

memory == <<nextTableId, tableIds, tableNames>>
catalogVars == <<memory, tables, columns, disk, nextPageID, pc, reg, asked, restarts, crashed>>

ColumnsCatalogOID == 0

Oids == 0 .. MaxTables

\* RecoveryCatalogFromCatalogPage: the columns of a table are the rows with
\* its oid, in the order of the page; a later row takes the place of an
\* earlier one with its oid or its name.
ColumnsOf(cols, oid) ==
    LET upTo[i \in 0 .. Len(cols)] ==
          IF i = 0 THEN << >>
          ELSE IF cols[i].oid = oid THEN Append(upTo[i - 1], cols[i].column)
                                    ELSE upTo[i - 1]
    IN  upTo[Len(cols)]

Metadata(row, cols) ==
    [oid |-> row.oid, name |-> row.name, first |-> row.first, cols |-> ColumnsOf(cols, row.oid)]

LastRow(mine, rows, cols) ==
    IF mine = {} THEN NoTable ELSE Metadata(rows[Max(mine)], cols)

ReloadedById(rows, cols) ==
    [oid \in Oids |-> LastRow({i \in DOMAIN rows : rows[i].oid = oid}, rows, cols)]
ReloadedByName(rows, cols) ==
    [name \in Names |-> LastRow({i \in DOMAIN rows : rows[i].name = name}, rows, cols)]

\* BootstrapCatalog: the columns catalog, table 0, describes itself; one
\* column stands for its seven.
BootRow    == [oid |-> ColumnsCatalogOID, name |-> "columns_catalog", first |-> 1]
BootColumn == [oid |-> ColumnsCatalogOID, column |-> 1]

CatalogInit ==
    /\ nextTableId = 1
    /\ tables = <<BootRow>>
    /\ columns = <<BootColumn>>
    /\ tableIds = ReloadedById(tables, columns)
    /\ tableNames = [name \in Names |-> NoTable]
    /\ disk = [tables |-> tables, columns |-> columns, pages |-> 2, start |-> 2]
    /\ nextPageID = 2
    /\ pc = [c \in Creators |-> "idle"]
    /\ reg = [c \in Creators |-> NoTable]
    /\ asked = << >>
    /\ restarts = 0
    /\ crashed = FALSE

----------------------------------------------------------------------------
(* CreateTable                                                             *)

GoTo(c, label) == pc' = [pc EXCEPT ![c] = label]

CreateTable(c, name, n) ==
    /\ pc[c] = "idle"
    /\ Len(asked) < MaxTables
    /\ GoTo(c, "add")
    /\ reg' = [reg EXCEPT ![c] = [oid |-> nextTableId, name |-> name, cols |-> n,
                                  call |-> Len(asked) + 1]]
    /\ asked' = Append(asked, [oid |-> nextTableId, name |-> name, cols |-> n,
                               first |-> 0, done |-> FALSE])
    /\ UNCHANGED <<memory, tables, columns, disk, nextPageID, restarts, crashed>>

AddTableId(c) ==
    /\ pc[c] = "add"
    /\ nextTableId' = nextTableId + 1
    /\ GoTo(c, "heap")
    /\ UNCHANGED <<tableIds, tableNames, tables, columns, disk, nextPageID, reg, asked,
                   restarts, crashed>>

\* NewTableHeap, NewTableMetadata and the two maps.
NewTable(c) ==
    /\ pc[c] = "heap"
    /\ LET meta == [oid |-> reg[c].oid, name |-> reg[c].name, first |-> nextPageID,
                    cols |-> [i \in 1 .. reg[c].cols |-> i]]
       IN /\ tableIds' = [tableIds EXCEPT ![meta.oid] = meta]
          /\ tableNames' = [tableNames EXCEPT ![meta.name] = meta]
          /\ asked' = [asked EXCEPT ![reg[c].call].first = meta.first]
    /\ nextPageID' = nextPageID + 1
    /\ GoTo(c, "table_row")
    /\ UNCHANGED <<nextTableId, tables, columns, disk, reg, restarts, crashed>>

\* insertTable
InsertTableRow(c) ==
    /\ pc[c] = "table_row"
    /\ tables' = Append(tables, [oid |-> reg[c].oid, name |-> reg[c].name,
                                 first |-> asked[reg[c].call].first])
    /\ GoTo(c, "column_rows")
    /\ reg' = [reg EXCEPT ![c] = [oid |-> reg[c].oid, left |-> [i \in 1 .. reg[c].cols |-> i],
                                  call |-> reg[c].call]]
    /\ UNCHANGED <<memory, columns, disk, nextPageID, asked, restarts, crashed>>

InsertColumnRow(c) ==
    /\ pc[c] = "column_rows"
    /\ reg[c].left # << >>
    /\ columns' = Append(columns, [oid |-> reg[c].oid, column |-> Head(reg[c].left)])
    /\ reg' = [reg EXCEPT ![c].left = Tail(@)]
    /\ UNCHANGED <<memory, tables, disk, nextPageID, pc, asked, restarts, crashed>>

\* FlushPage looks the page up, lets the mutex go, and writes the page under
\* its latch: the step is the write.  What may come in between is a matter of
\* BufferPoolManager.
FlushTables(c) ==
    /\ pc[c] = "column_rows"
    /\ reg[c].left = << >>
    /\ disk' = [disk EXCEPT !.tables = tables]
    /\ GoTo(c, "flush_columns")
    /\ UNCHANGED <<memory, tables, columns, nextPageID, reg, asked, restarts, crashed>>

\* CreateTable that returns without the second FlushPage.
FlushColumnsForgotten(c) ==
    /\ pc[c] = "flush_columns"
    /\ disk' = disk
    /\ asked' = [asked EXCEPT ![reg[c].call].done = TRUE]
    /\ reg' = [reg EXCEPT ![c] = NoTable]
    /\ GoTo(c, "idle")
    /\ UNCHANGED <<memory, tables, columns, nextPageID, restarts, crashed>>

FlushColumns(c) ==
    /\ pc[c] = "flush_columns"
    /\ disk' = [disk EXCEPT !.columns = columns]
    /\ asked' = [asked EXCEPT ![reg[c].call].done = TRUE]
    /\ reg' = [reg EXCEPT ![c] = NoTable]
    /\ GoTo(c, "idle")
    /\ UNCHANGED <<memory, tables, columns, nextPageID, restarts, crashed>>

----------------------------------------------------------------------------
(* Pages on their own way to the disk, and restarts.                       *)

\* The buffer pool evicts a page: one of the catalog, or one that was given
\* out since the start, with which the file grows.
EvictPage ==
    /\ \/ disk' = [disk EXCEPT !.tables = tables]
       \/ disk' = [disk EXCEPT !.columns = columns]
       \/ \E p \in disk.start .. nextPageID - 1 :
             p >= disk.pages /\ disk' = [disk EXCEPT !.pages = p + 1]
    /\ UNCHANGED <<memory, tables, columns, nextPageID, pc, reg, asked, restarts, crashed>>

\* A counter that starts at the last page of the file.
LastPageOf(n) == n - 1

\* NewDiskManagerImpl: one page beyond the next one, if there are any.
NextPageOf(n) == IF n > 0 THEN n + 1 ELSE 0

\* From rows t and k and a file of n pages.  The catalog starts counting its
\* tables at 1 again.
Restart(t, k, n) ==
    /\ restarts < MaxRestarts
    /\ restarts' = restarts + 1
    /\ disk' = [tables |-> t, columns |-> k, pages |-> n, start |-> NextPageOf(n)]
    /\ tables' = t
    /\ columns' = k
    /\ nextPageID' = NextPageOf(n)
    /\ nextTableId' = 1
    /\ tableIds' = ReloadedById(t, k)
    /\ tableNames' = ReloadedByName(t, k)
    /\ pc' = [c \in Creators |-> "idle"]
    /\ reg' = [c \in Creators |-> NoTable]
    /\ UNCHANGED asked

\* FlushAllPages, and an end with nothing going on: the file ends with the
\* last page given out; the one a restart skipped is no part of it.
Shutdown ==
    /\ \A c \in Creators : pc[c] = "idle"
    /\ Restart(tables, columns, IF nextPageID > disk.start THEN nextPageID ELSE disk.pages)
    /\ UNCHANGED crashed

Crash == Restart(disk.tables, disk.columns, disk.pages) /\ crashed' = TRUE

CatalogNext ==
    \/ \E c \in Creators :
         \/ \E name \in Names, n \in 1 .. MaxColumns : CreateTable(c, name, n)
         \/ AddTableId(c) \/ NewTable(c) \/ InsertTableRow(c) \/ InsertColumnRow(c)
         \/ FlushTables(c) \/ FlushColumns(c)
    \/ EvictPage
    \/ Shutdown
    \/ Crash

CatalogSpec == CatalogInit /\ [][CatalogNext]_catalogVars

----------------------------------------------------------------------------
(* Properties.                                                             *)

HasOwnOid(i) == \A j \in DOMAIN asked : j # i => asked[j].oid # asked[i].oid

\* At every moment, what RecoveryCatalogFromCatalogPage would find on the disk
\* is right: a table whose CreateTable has returned is there with its name,
\* its first page and all its columns in order, and a table in the making is
\* there with the first of its columns or not at all, whatever goroutines,
\* evictions and crashes come in between.  It holds of the tables that have
\* an oid of their own; the code gives an oid twice to calls that overlap,
\* and after a restart.
ReloadIsFaithful ==
    \A i \in DOMAIN asked : HasOwnOid(i) =>
        LET found == ReloadedById(disk.tables, disk.columns)[asked[i].oid]
            cols  == [k \in 1 .. asked[i].cols |-> k]
        IN /\ asked[i].done => found # NoTable /\ found.cols = cols
           /\ found # NoTable => /\ found.name = asked[i].name
                                 /\ found.first = asked[i].first
                                 /\ IsPrefix(found.cols, cols)

\* As long as the system is only ever shut down in order, no two tables begin
\* on the same page, although the allocation of pages starts anew from the
\* size of the file.  After a crash it does happen: the pages of a new table
\* are not flushed, and their numbers are given out again.
TablesHaveTheirOwnPages ==
    ~crashed => \A i, j \in DOMAIN tables : i # j => tables[i].first # tables[j].first
============================================================================
