---------------------------- MODULE MCTableScan ----------------------------
(* Tables for TableScan: years around 10000, whose names are not in the    *)
(* order of time; two months; and a table without partitions.              *)
EXTENDS TableScan, TableQuery

Year(y) == [scheme |-> "year", y |-> y]
Month(y, m) == [scheme |-> "month", y |-> y, m |-> m]
NewYear == DaysFromCivil(10000, 1, 1)

R(s, t) == [sym |-> s, time |-> t]
Ds(rows, a, b) ==
    [rows |-> rows, cols |-> IF b = Unset THEN [f \in {"a"} |-> a]
                             ELSE [f \in {"a", "b"} |-> IF f = "a" THEN a ELSE b]]

Y(a1, a2, b2) ==
    [scheme |-> "year",
     parts |-> [p \in {Year(9999), Year(10000), Year(10001)} |->
        CASE p.y = 9999 -> Ds(<<R(1, NewYear - 2), R(1, NewYear - 1), R(2, NewYear - 1)>>, a1, <<1, 1, 1>>)
          [] p.y = 10000 -> Ds(<<R(1, NewYear), R(2, NewYear), R(2, NewYear + 365)>>, a2, b2)
          [] OTHER -> Ds(<<R(2, NewYear + 366)>>, <<1>>, <<0>>)]]

MCTables ==
    {Y(<<1, 0, 1>>, <<1, 1, Null>>, <<1, 0, 1>>), Y(<<0, 1, Null>>, <<0, 1, 1>>, Unset),
     [scheme |-> "month",
      parts |-> [p \in {Month(1999, 12), Month(2000, 1)} |->
         IF p.y = 1999 THEN Ds(<<R(1, 10956), R(2, 10956)>>, <<1, 0>>, Unset)
         ELSE Ds(<<R(1, 10957), R(2, 10957)>>, <<1, 1>>, <<0, 1>>)]],
     [scheme |-> "none",
      parts |-> [p \in {[scheme |-> "none"]} |-> Ds(<<R(1, 5), R(2, 5), R(2, 6)>>, <<1, 0, 1>>, Unset)]]}

Mixed == [is |-> "or", args |-> <<Cond("sym", "Eq", 1), Cond("a", "Eq", 1)>>]
MCRequests ==
    [sym : {Unset, 2},
     time : {Unset, <<NewYear, NewYear + 366>>, <<NewYear - 1, NewYear + 367>>, <<10950, 10957>>},
     pred : {Unset, Cond("a", "Eq", 1), Cond("b", "Ge", 0), Mixed},
     limit : {Unset, 0, 1, 3}, proj : {{}, {"a"}, {"sym"}}, batch : {Unset, 0, 2}]

MCAnswers == Answers(MCTables, {Predicate(r) : r \in MCRequests})
MCFound == [t \in MCTables |-> [r \in MCRequests |-> MCAnswers[t][Predicate(r)]]]
MCNeeded == QueryNeeded(MCRequests)
MCWanted == QueryWanted(MCTables, MCRequests)
=============================================================================
