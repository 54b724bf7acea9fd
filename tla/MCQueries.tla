----------------------------- MODULE MCQueries -----------------------------
(* A small instance of Queries.                                            *)
EXTENDS Queries

\* Keys -1 and 3 have the same hash, 3 + 3 is out of range for 3 bits, column
\* 2 decides between equal keys, and there is a NULL in either column.
MCRows == {<< -1, 3 >>, <<3, -1>>, <<3, 3>>, <<1, Null>>, <<Null, 1>>}

MCTables ==
    {[types |-> <<"Integer", "Integer">>, rows |-> rows] :
        rows \in BoundedSeq(MCRows, 1) \union
            {<<r, s>> : r \in {<< -1, 3>>, <<3, 3>>}, s \in MCRows} \union
            {<<r, <<3, 3>>, s>> : r, s \in {<<3, -1>>, <<1, Null>>}}}
    \union
    {[types |-> <<"Integer", "Float">>, rows |-> rows] :
        rows \in {<< <<1, 3>> >>, << <<1, Null>>, <<3, -1>> >>}}
    \union
    {[types |-> <<"Boolean", "Integer">>, rows |-> rows] :
        rows \in {<< <<True, 1>>, <<False, 3>> >>, << <<Null, 1>> >>}}

MCHash ==
    [v \in (IntMin .. IntMax) \union {Null, True, False} |->
        CASE v = -1 -> 3
          [] v = Null -> -1
          [] v = True -> 6
          [] v = False -> 5
          [] OTHER -> v]

Compare(type, col, const) == [type |-> type, col |-> col, const |-> const]

MCPredicates ==
    {NoPredicate,
     [type |-> "AND", left |-> Compare("LessThan", 1, Null), right |-> Compare("NotEqual", 2, -1)],
     [type |-> "OR", left |-> Compare("GreaterThanOrEqual", 1, 3),
                     right |-> Compare("Equal", 1, Null)],
     [type |-> "NOT", left |-> Compare("GreaterThan", 2, 1),
                      right |-> Compare("LessThanOrEqual", 1, 1)],
     [type |-> "AND", left |-> Compare("GreaterThanOrEqual", 1, False),
                      right |-> Compare("LessThanOrEqual", 2, 3)]}

MCHavings == {NoPredicate, Compare("GreaterThan", 2, 1)}
============================================================================
