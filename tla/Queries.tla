------------------------------ MODULE Queries ------------------------------
(***************************************************************************)
(* The executors that read (execution/executors): sequential scan, hash    *)
(* index scan, limit, order by, aggregation and hash join, put together    *)
(* into a plan from the leaves up, as CreateExecutor of                    *)
(* execution_engine.go does.                                               *)
(*                                                                         *)
(* An executor is what its Next calls return, one after the other: "out"   *)
(* lists the rows and the calls that return no row and are not the end     *)
(* (NilRow: nil, false, nil), "end" is the last call:                      *)
(*   "done"       nil, true, nil                                           *)
(*   "done_error" nil, true, err                                           *)
(*   "error"      nil, false, err                                          *)
(*   "panic"      it does not return.                                      *)
(* The engine and every parent stop there.  A panic of Init has out empty. *)
(*                                                                         *)
(* Rows have two columns; the first is the key of joins, groups and orders *)
(* (the second breaks ties of an order).  The columns of an executor have  *)
(* types: a plan is well-typed, it names columns that exist and compares   *)
(* values of one type.                                                     *)
(*                                                                         *)
(* The buffer pool refuses a page (nil) when every frame is pinned.  Other *)
(* transactions may pin them, and so does every hash join: its last        *)
(* temporary page is never unpinned, and DeletePage is not reached, for no *)
(* executor returns a row together with the end.  So a refusal may meet    *)
(* any request.  What else a scan meets in a table that others write is    *)
(* TableHeap's question, not asked here.                                   *)
(***************************************************************************)
EXTENDS ColumnValues, SequencesExt, FiniteSetsExt

CONSTANTS
    Tables,         \* the contents a scanned table may have, with their types
    Predicates,     \* of scans, NoPredicate among them
    Havings,        \* comparisons of the aggregate, or NoPredicate
    NoPredicate,    \* nil
    NilRow,
    Hash,           \* HashValue: key -> hash
    RowSizes,       \* bytes of a tuple of the left child of a join
    TmpPageSize, TmpHeader,     \* common.PageSize and offsetFreeSpace + 4
    Grants,         \* how many pages the pool may give to a join
    Word,           \* uint32 counts modulo this
    MaxNodes,       \* bound: executors in a plan
    MaxRows         \* bound: rows an executor is given to work on

ASSUME QueryAssumption ==
    /\ MaxNodes \in Nat
    /\ MaxRows \in Nat
    /\ Grants \subseteq Nat
    /\ TmpPageSize \in Nat
    /\ TmpHeader \in Nat
    /\ Word \in Nat
    /\ TmpPageSize < Word
    /\ \A size \in RowSizes : size + TmpHeader <= TmpPageSize

VARIABLES
    stack,          \* the executors that have no parent yet
    last,           \* history: the executor put on top last, and its children
    nodes           \* their number

vars == <<stack, last, nodes>>

Ended(types, rows, end) == [types |-> types, out |-> rows, end |-> end]

Rows(exec) == SelectSeq(exec.out, LAMBDA r : r # NilRow)

Skips(exec) == NilRow \in ToSet(exec.out)

Top    == stack[Len(stack)]
Second == stack[Len(stack) - 1]

Init ==
    /\ stack = << >>
    /\ last = [node |-> "none"]
    /\ nodes = 0

\* Room for another executor over n children, and for the joins that make one
\* plan of the stack.
Ready(n) ==
    /\ nodes + 1 + (Len(stack) - n) <= MaxNodes
    /\ n <= Len(stack)
    /\ \A i \in Len(stack) - n + 1 .. Len(stack) : Len(stack[i].out) <= MaxRows

\* Bound: the pool and the locks refuse nothing more once a part of the plan
\* panics.
MayRefuse == \A i \in 1 .. Len(stack) : stack[i].end # "panic"

Push(node, children, exec, plan) ==
    /\ nodes' = nodes + 1
    /\ stack' = SubSeq(stack, 1, Len(stack) - Len(children)) \o <<exec>>
    /\ last' = [node |-> node, children |-> children, exec |-> exec, plan |-> plan]

----------------------------------------------------------------------------

WellTyped(pred, types) ==
    pred # NoPredicate =>
        \A cmp \in {pred.left, pred.right} :
            cmp.const # Null => (types[cmp.col] = "Boolean" <=> cmp.const \in {True, False})

selects(row, pred) == pred = NoPredicate \/ Evaluate(pred, row)

\* A refused lock ends the iterator and so the scan, a refused page is
\* dereferenced; either may happen at any row.
SeqScanExecutor ==
    /\ Ready(0)
    /\ \E table \in Tables : \E pred \in {p \in Predicates : WellTyped(p, table.types)} :
         LET rows == SelectSeq(table.rows, LAMBDA row : selects(row, pred)) IN
         \/ Push("scan", << >>, Ended(table.types, rows, "done"), [refused |-> "nothing"])
         \/ \E n \in 0 .. Len(rows) : MayRefuse /\
              \/ Push("scan", << >>, Ended(table.types, SubSeq(rows, 1, n), "done"),
                      [refused |-> "lock"])
              \/ Push("scan", << >>, Ended(table.types, SubSeq(rows, 1, n), "panic"),
                      [refused |-> "page"])

\* All in Init: the column of the predicate needs an index; the tuple that is
\* made for the search leaves out Boolean columns, and is indexed past its end
\* if there is one; the hits are taken as they are, for whichever comparison
\* the predicate makes (HashIndex says when the index has them all), but a
\* refused lock throws away those found before; a refused page is dereferenced.
HashScanIndexExecutor ==
    /\ Ready(0)
    /\ \E table \in Tables, indexed \in BOOLEAN :
       \E refused \in {"nothing"} \union IF MayRefuse THEN {"lock", "page"} ELSE {} :
       \E key \in {row[1] : row \in ToSet(table.rows)} :
         LET hits   == SelectSeq(table.rows, LAMBDA row : Hash[row[1]] = Hash[key])
             panics == ~indexed \/ "Boolean" \in ToSet(table.types) \/ refused = "page"
         IN Push("index_scan", << >>,
                 Ended(table.types, IF panics \/ refused = "lock" THEN << >> ELSE hits,
                       IF panics THEN "panic" ELSE "done"),
                 [indexed |-> indexed, refused |-> refused])

\* Next returns nil for each row it skips.  The end of the child is an error,
\* and so is a nil row of the child; an error of the child is handed on.
LimitOf(child, limit, offset) ==
    LET usable == IF Skips(child) THEN << >> ELSE child.out   \* skips come first
        n == Len(usable)
        skipped == [i \in 1 .. Min({n, offset}) |-> NilRow]
        emitted == SubSeq(usable, offset + 1, Min({n, offset + limit}))
    IN Ended(child.types, skipped \o emitted,
             CASE n > offset + limit -> "done"
               [] n <= offset + limit /\ ~Skips(child) /\ child.end # "done" -> child.end
               [] OTHER -> "done_error")

LimitExecutor ==
    /\ Ready(1)
    /\ \E limit \in 0 .. 2, offset \in 0 .. 1 :
         Push("limit", <<Top>>, LimitOf(Top, limit, offset), <<limit, offset>>)

----------------------------------------------------------------------------
(* OrderbyExecutor                                                         *)

\* The comparator of Init: columns 1 and 2 in turn.
Before(type, v, w) ==
    IF type = "ASC" THEN CompareLessThan(v, w) ELSE ~CompareLessThan(v, w)

\* A comparator that lets the first column decide alone.
LessByFirstColumn(types, r, s) == ~CompareEquals(r[1], s[1]) /\ Before(types[1], r[1], s[1])

Less(types, r, s) ==
    IF CompareEquals(r[1], s[1])
      THEN ~CompareEquals(r[2], s[2]) /\ Before(types[2], r[2], s[2])
      ELSE Before(types[1], r[1], s[1])

\* sort.Slice asks for a strict weak order and promises nothing without one.
IsStrictWeakOrder(types, S) ==
    /\ \A r \in S : ~Less(types, r, r)
    /\ \A r, s, u \in S :
         /\ Less(types, r, s) /\ Less(types, s, u) => Less(types, r, u)
         /\ Less(types, r, u) => Less(types, r, s) \/ Less(types, s, u)

Orders(types, rows) ==
    {p \in Permutations(1 .. Len(rows)) :
        IsStrictWeakOrder(types, ToSet(rows)) =>
            \A i, j \in 1 .. Len(rows) : i < j => ~Less(types, rows[p[j]], rows[p[i]])}

\* An index that starts with one.
OrigIdxFromOne(child, i) ==
    Cardinality({n \in 1 .. Len(child.out) :
                   Len(SelectSeq(SubSeq(child.out, 1, n), LAMBDA r : r # NilRow)) < i}) + 1

\* inserted_tuple_cnt when the i-th row is stored: it counts nil rows too.
OrigIdx(child, i) ==
    Cardinality({n \in 1 .. Len(child.out) :
                   Len(SelectSeq(SubSeq(child.out, 1, n), LAMBDA r : r # NilRow)) < i})

OrderbyOf(child, order) ==
    LET rows == Rows(child)
        index(i) == OrigIdx(child, order[i]) + 1
    IN IF child.end = "panic" \/ \E i \in 1 .. Len(rows) : index(i) > Len(rows)
         THEN Ended(child.types, << >>, "panic")
         ELSE Ended(child.types, [i \in 1 .. Len(rows) |-> rows[index(i)]], "done")

OrderbyExecutor ==
    /\ Ready(1)
    /\ \E types \in [1 .. 2 -> {"ASC", "DESC"}] :
         \E order \in Orders(types, Rows(Top)) :
             Push("orderby", <<Top>>, OrderbyOf(Top, order), types)

----------------------------------------------------------------------------
(* AggregationExecutor: one group-by column, one aggregate of column 2.    *)

GenerateInitialAggregateValue(agg) ==
    CASE agg \in {"COUNT", "SUM"} -> 0
      [] agg = "MIN" -> IntMax
      [] agg = "MAX" -> IntMin

CombineAggregateValues(agg, result, input) ==
    CASE agg = "COUNT" -> Add(result, 1)
      [] agg = "SUM"   -> Add(result, input)
      [] agg = "MIN"   -> MinOf(result, input)
      [] agg = "MAX"   -> MaxOf(result, input)

\* The first row of a group is not combined with the initial value.
InsertCombineFirstOnly(agg, ht, row) ==
    IF Hash[row[1]] \in DOMAIN ht
      THEN [ht EXCEPT ![Hash[row[1]]] = [@ EXCEPT !.val = CombineAggregateValues(agg, @, row[2])]]
      ELSE ht @@ (Hash[row[1]] :> [key |-> row[1], val |-> GenerateInitialAggregateValue(agg)])

\* ht_key and ht_val together: hash -> the first key that had it, and the
\* aggregate of all rows that have it.
InsertCombine(agg, ht, row) ==
    LET h == Hash[row[1]]
        old == IF h \in DOMAIN ht THEN ht[h]
               ELSE [key |-> row[1], val |-> GenerateInitialAggregateValue(agg)]
    IN (h :> [old EXCEPT !.val = CombineAggregateValues(agg, @, row[2])]) @@ ht

EmptyHT == [h \in {} |-> 0]

PassesHaving(having, group) ==
    having = NoPredicate \/ performComparison(having.type, group.val, having.const)

\* The aggregates are Integers, whatever the type of the column: another
\* type has no integer to take from its value.
CombinePanics(agg, child) ==
    agg # "COUNT" /\ child.types[2] # "Integer" /\ \E r \in ToSet(Rows(child)) : r[2] # Null

\* Next: the loop over HAVING stops at the last group without looking at it.
AggregationOf(child, ht, having, order) ==
    LET n == Len(order)
        groups == [i \in 1 .. n |-> ht[order[i]]]
        kept == SelectSeq([i \in 1 .. n |-> i],
                          LAMBDA i : i = n \/ PassesHaving(having, groups[i]))
    IN Ended(<<child.types[1], "Integer">>,
             [i \in 1 .. Len(kept) |-> <<groups[kept[i]].key, groups[kept[i]].val>>], "done")

\* The groups come in the order of a Go map.
AggregationExecutor ==
    /\ Ready(1)
    /\ \E agg \in {"COUNT", "SUM", "MIN", "MAX"}, having \in Havings :
         IF Top.end = "panic" \/ CombinePanics(agg, Top)
           THEN Push("aggregation", <<Top>>,
                     Ended(<<Top.types[1], "Integer">>, << >>, "panic"), <<agg, having>>)
           ELSE LET ht == FoldLeft(LAMBDA h, row : InsertCombine(agg, h, row), EmptyHT, Rows(Top))
                IN \E order \in SetToSeqs(DOMAIN ht) :
                     Push("aggregation", <<Top>>, AggregationOf(Top, ht, having, order),
                          <<agg, having>>)

----------------------------------------------------------------------------
(* HashJoinExecutor on column 1 of both children.                          *)

\* The left rows are copied to temporary pages from the end to the front.
\* The comparison in Insert is one of unsigned numbers: a row that is larger
\* than what is left of the page passes it, and is then written outside.
TmpInsert(page, size) ==
    CASE page.count = 0 \/ (page.free - size) % Word < TmpHeader ->
           [page EXCEPT !.count = @ + 1, !.free = TmpPageSize - size]
      [] page.count > 0 /\ page.free < size -> [page EXCEPT !.outside = TRUE]
      [] OTHER -> [page EXCEPT !.free = @ - size]

TmpPages(rows, size) ==
    FoldLeft(LAMBDA page, row : TmpInsert(page, size),
             [count |-> 0, free |-> 0, outside |-> FALSE], rows)

\* Init stops at a nil row of the left child, and takes it for the end.
BuildRows(left) == IF Skips(left) THEN << >> ELSE left.out

\* HashValue knows no Boolean.
HashPanics(types, rows) == types[1] = "Boolean" /\ \E r \in ToSet(rows) : r[1] # Null

JoinHashTable(left, h) ==
    SelectSeq(BuildRows(left), LAMBDA l : l[1] # Null /\ Hash[l[1]] = h)

\* Nil rows come before all others, and Next dereferences the first of them.
ProbeRows(right) == IF Skips(right) THEN << >> ELSE right.out

\* What FetchTupleFromTmpTuplePage fetches, pair by pair: every left row of
\* the bucket of a right row.
Fetches(left, right) ==
    FlattenSeq([i \in 1 .. Len(ProbeRows(right)) |->
        LET r == ProbeRows(right)[i]
            bucket == IF r[1] = Null THEN << >> ELSE JoinHashTable(left, Hash[r[1]])
        IN [j \in 1 .. Len(bucket) |-> <<bucket[j], r>>]])

\* A probe that trusts the hash.
IsValidCombinationByHash(l, r) == TRUE

IsValidCombination(l, r) == CompareEquals(l[1], r[1])

MakeOutputTuple(l, r) == <<l[2], r[2]>>

\* The pool gives a join its first so many pages: new ones for the left rows,
\* then those fetched again.  A refusal is a panic of Init or of Next.  The
\* end of another join on the right, and a nil row, are nil dereferences.
JoinOf(left, right, size, granted) ==
    LET types   == <<left.types[2], right.types[2]>>
        pages   == TmpPages(BuildRows(left), size)
        fetches == Fetches(left, right)
        fetched == SubSeq(fetches, 1, Min({Len(fetches), granted - pages.count}))
        matches == SelectSeq(fetched, LAMBDA f : IsValidCombination(f[1], f[2]))
        rows    == [i \in 1 .. Len(matches) |-> MakeOutputTuple(matches[i][1], matches[i][2])]
    IN CASE \/ left.end = "panic"
            \/ HashPanics(left.types, BuildRows(left))
            \/ pages.outside
            \/ pages.count > granted                    -> Ended(types, << >>, "panic")
         [] OTHER ->
              Ended(types, rows,
                    IF \/ Len(fetched) < Len(fetches)
                       \/ HashPanics(right.types, ProbeRows(right))
                       \/ Skips(right)
                       \/ right.end \in {"error", "panic"}
                      THEN "panic" ELSE "error")

HashJoinExecutor ==
    /\ Ready(2)
    /\ Second.types[1] = Top.types[1]
    /\ \E size \in RowSizes, granted \in IF MayRefuse THEN Grants ELSE {Max(Grants)} :
         Push("join", <<Second, Top>>, JoinOf(Second, Top, size, granted),
              [size |-> size, granted |-> granted])

----------------------------------------------------------------------------

Next ==
    \/ SeqScanExecutor
    \/ HashScanIndexExecutor
    \/ LimitExecutor
    \/ OrderbyExecutor
    \/ AggregationExecutor
    \/ HashJoinExecutor

Spec == Init /\ [][Next]_vars

----------------------------------------------------------------------------
(* Properties.  Each says what relational algebra says of one executor,    *)
(* given the rows its children delivered; so it holds for a whole plan.    *)

Pairs(left, right) ==
    {<<i, j>> \in (1 .. Len(left)) \X (1 .. Len(right)) :
        left[i][1] # Null /\ left[i][1] = right[j][1]}

\* A hash join that ends returns exactly the pairs of rows with equal keys
\* that are not NULL, each as often as it occurs, although keys share hashes
\* and the left rows are copied; unless a left child with OFFSET hands it a
\* nil row, which ends the building of its hash table at once.
JoinIsEquiJoin ==
    last.node = "join" /\ last.exec.end # "panic" /\ ~Skips(last.children[1]) =>
        LET left  == Rows(last.children[1])
            right == Rows(last.children[2])
            rows  == last.exec.out
        IN \A row \in ToSet(rows) \union {<<left[p[1]][2], right[p[2]][2]>> : p \in Pairs(left, right)} :
             Cardinality({i \in 1 .. Len(rows) : rows[i] = row}) =
             Cardinality({p \in Pairs(left, right) : <<left[p[1]][2], right[p[2]][2]>> = row})

Group(rows, key) == SelectSeq(rows, LAMBDA r : r[1] = key)

GroupValues(rows, key) == {r[2] : r \in ToSet(Group(rows, key))} \ {Null}

\* What SQL calls the aggregate of a group, but for COUNT, which counts NULLs
\* here, and for MIN and MAX of no value, which are the limits of Integer.
Aggregate(agg, rows, key) ==
    LET group == Group(rows, key) IN
    CASE agg = "COUNT" -> Wrap(Len(group))
      [] agg = "SUM"   -> Wrap(MapThenSumSet(LAMBDA i : Payload(group[i][2]), 1 .. Len(group)))
      [] agg = "MIN"   -> Min(GroupValues(rows, key) \union {IntMax})
      [] agg = "MAX"   -> Max(GroupValues(rows, key) \union {IntMin})

\* Whatever the order of the Go map: a group that satisfies HAVING is
\* returned once, with the aggregate of all its rows and of no others, and no
\* group is returned that does not satisfy it, but one that comes last.  Keys
\* with one hash are one group in this code and are left out here.
GroupsAreAggregated ==
    last.node = "aggregation" /\ last.exec.end # "panic" =>
        LET rows == Rows(last.children[1])
            keys == {r[1] : r \in ToSet(rows)}
            agg  == last.plan[1]
            out  == last.exec.out
            wanted(k) == PassesHaving(last.plan[2], [val |-> Aggregate(agg, rows, k)])
        IN (\A k, l \in keys : Hash[k] = Hash[l] => k = l) =>
             /\ \A i \in 1 .. Len(out) :
                  /\ out[i][1] \in keys /\ out[i][2] = Aggregate(agg, rows, out[i][1])
                  /\ wanted(out[i][1]) \/ i = Len(out)
                  /\ \A j \in 1 .. i - 1 : out[i][1] # out[j][1]
             /\ \A k \in keys : wanted(k) => \E i \in 1 .. Len(out) : out[i][1] = k

\* The comparison ORDER BY asks for, column by column.
InOrder(type, v, w) == IF type = "ASC" THEN v <= w ELSE v >= w

\* ORDER BY returns the rows of its child, sorted by the first column and,
\* where it is equal, by the second, each in its own direction.  A NULL or a
\* Boolean among them spoils it: the comparator is then no order.
SortedAsAsked ==
    last.node = "orderby" /\ last.exec.end # "panic" =>
        LET rows == Rows(last.children[1])
            out  == last.exec.out
        IN /\ \A r \in ToSet(rows) \union ToSet(out) :
                Cardinality({i \in 1 .. Len(rows) : rows[i] = r}) =
                Cardinality({i \in 1 .. Len(out) : out[i] = r})
           /\ (\A r \in ToSet(rows) : {r[1], r[2]} \intersect {Null, True, False} = {}) =>
                \A i, j \in 1 .. Len(out) : i < j =>
                    /\ InOrder(last.plan[1], out[i][1], out[j][1])
                    /\ out[i][1] = out[j][1] => InOrder(last.plan[2], out[i][2], out[j][2])

\* In a well-typed plan, an executor whose children do not panic panics for
\* one of these reasons and no other.  A scan: the pool refuses a page; of an
\* index, also: the column has none, or the table has a Boolean column.  An
\* order: its child has an OFFSET.  An aggregation: of a column that is not
\* Integer, but not to count it.  A join: the right child has an OFFSET or
\* ends as joins do, with an error; the key is Boolean; a left row meets a
\* temporary page with less room than it needs; or the pool gives it less than
\* a page for every left row and for every pair it may compare.
OnlyKnownPanics ==
    last.node # "none" /\ last.exec.end = "panic"
        /\ (\A i \in 1 .. Len(last.children) : last.children[i].end # "panic") =>
      CASE last.node = "scan" -> last.plan.refused = "page"
        [] last.node = "index_scan" ->
             \/ last.plan.refused = "page"
             \/ ~last.plan.indexed
             \/ "Boolean" \in ToSet(last.exec.types)
        [] last.node = "limit" -> FALSE
        [] last.node = "orderby" -> Skips(last.children[1])
        [] last.node = "aggregation" ->
             last.plan[1] # "COUNT" /\ last.children[1].types[2] # "Integer"
        [] last.node = "join" ->
             LET left  == last.children[1]
                 right == last.children[2]
                 size  == last.plan.size
             IN \/ Skips(right)
                \/ right.end = "error"
                \/ left.types[1] = "Boolean"
                \/ /\ TmpPageSize % size \in TmpHeader .. size - 1
                   /\ Len(left.out) > TmpPageSize \div size
                \/ last.plan.granted < Len(left.out) * (1 + Len(right.out))
============================================================================
