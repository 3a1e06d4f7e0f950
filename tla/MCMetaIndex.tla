---------------------------- MODULE MCMetaIndex ----------------------------
(* Inputs and requests for MetaIndex: two syms, at most five rows.         *)
EXTENDS MetaIndex

SeqsUpTo(S, n) == UNION {[1 .. k -> S] : k \in 0 .. n}
RowsOver(syms, times) == {[key |-> s, sym |-> s, time |-> t] : s \in syms, t \in times}

(* Every input in (sym, time) order over two syms and three times, and     *)
(* every input at all: in any order, with repetitions, and from segments   *)
(* with dictionaries of their own, where a code may stand for either name. *)
OrderedInputs == {in \in SeqsUpTo(RowsOver({1, 2}, 0 .. 2), 5) : StrictlyOrdered(in)}
MCInputs == OrderedInputs
            \cup SeqsUpTo([key : {1, 2}, sym : {1, 2}, time : {-1, 0}], 3)
            \cup [1 .. 4 -> RowsOver({1, 2}, 0 .. 2)]

SomePairs ==
    SeqsUpTo([sym : 1 .. 3, time : 0 .. 2], 2)
    \cup [1 .. 1 -> [sym : 1 .. 2, time : {-1}]]
    \cup {ps \in [1 .. 3 -> [sym : 1 .. 2, time : 0 .. 2]] :
             \E i \in 1 .. 2 : Ordered(ps[i], ps[i + 1])}

IntAt(t) == [kind |-> "Int", half |-> 2 * t]
TimeAtoms(values) == [on : {"time"}, op : Ops, value : values]
SymAtoms == [on : {"sym"}, op : {"Eq", "Ne"}, name : 1 .. 3]
OrAtoms == [on : {"or"}, names : {<<>>, <<2>>, <<2, 1>>, <<3, 2>>, <<2, 1, 1>>}]
Whole == {IntAt(0), IntAt(1), IntAt(3), [kind |-> "Float", half |-> 2]}

Conjunctions ==
    SeqsUpTo(SymAtoms \cup OrAtoms \cup TimeAtoms(Whole) \cup {[on |-> "opaque"]}, 2)

(* Nothing is claimed of a scan of an index that is out of order.          *)
ScansInOrder(in) == IF InOrder(in) THEN Conjunctions ELSE {<<>>}

SomeLimits == {None, 0, 2}
SomeWithins == {None, {0, 2}}
============================================================================
