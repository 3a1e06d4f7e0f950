---------------------------- MODULE MCAlgorithms ----------------------------
(* Inputs for Algorithms: bytes of three bits, words of six.               *)
EXTENDS Algorithms

UpTo(S, n) == UNION {[1 .. k -> S] : k \in 0 .. n}

Years == {-401, -400, -101, -1, 0, 1, 99, 399, 400, 999, 1000, 1599, 1600, 1699, 1700,
          1899, 1900, 1969, 1970, 1999, 2000, 2023, 2024, 2099, 2100, 9999}
Days == {NewYear(y) : y \in Years}

(* Days around two ends of years and one of a month, a year apart.         *)
SpansProbes ==
    [kind : {"spans"}, scheme : Schemes, times : UpTo({18261, 18262, 18293, 18627, 18628}, 4)]

(* One or two spans of four rows.                                          *)
SomeSpans == {<<>>, << <<0, 4>> >>, << <<1, 2>> >>, << <<0, 1>>, <<2, 2>> >>, << <<0, 2>>, <<3, 1>> >>}
GatherProbes ==
    [kind : {"gather"}, keys : [1 .. 4 -> 0 .. 2], dict : {<<"x", "y", "z">>}, spans : SomeSpans,
     bits : {None} \cup [1 .. 4 -> {0, 1}]]

(* Copying and counting treat all bits alike: one that differs will do.    *)
Lone == {<<1, 0, 0>>, <<2, 0, 0>>, <<4, 0, 0>>, <<0, 1, 0>>, <<0, 2, 0>>, <<0, 4, 0>>, <<0, 0, 1>>,
         <<0, 0, 2>>, <<0, 0, 4>>}
Flip(bytes) == [i \in DOMAIN bytes |-> 7 - bytes[i]]
BitsProbes ==
    {p \in [kind : {"bits"}, src : Lone \cup {Flip(b) : b \in Lone}, dst : {<<0, 0, 0>>, <<7, 7, 7>>},
            from : 0 .. 8, off : 0 .. 8, len : 0 .. 9] : p.from + p.len <= 9 /\ p.off + p.len <= 9}

(* Narrow values with and without bits, and the ends of wide ones.         *)
CodecProbes ==
    {p \in [kind : {"codec"}, values : UpTo(0 .. 7, 4), width : {3}, signed : BOOLEAN,
            bits : {<<>>, <<5>>, <<2, 1>>}] :
        p.bits = <<>> \/ Len(p.bits) = BytesFor(Len(p.values))}
    \cup [kind : {"codec"}, values : UpTo({0, 1, 31, 32, 63}, 4), width : {6}, signed : BOOLEAN,
          bits : {<<>>}]

Packed(rows) == {<<>>} \cup [1 .. BytesFor(rows) -> {2, 5}]
StitchProbes ==
    [kind : {"stitch"},
     chunks : UpTo(UNION {{r} \X Packed(r) : r \in 1 .. 5}, 2)
              \cup UNION {{<<a, b, c>> : a, b, c \in {2} \X Packed(2)}}]

OffsetsProbes == [kind : {"offsets"}, rows : 0 .. 5, offsets : UpTo(0 .. 5, 4)]
PlanProbes == [kind : {"plan"}, lens : UpTo(1 .. 7, 3) \cup [1 .. 4 -> 1 .. 4], target : 1 .. 4, cap : 1 .. 3]

Bool == [kind |-> "bool", width |-> 3]
I3 == [kind |-> "int", width |-> 3]
I6 == [kind |-> "int", width |-> 6]
U3 == [kind |-> "uint", width |-> 3]
U6 == [kind |-> "uint", width |-> 6]
F6 == [kind |-> "float", width |-> 6]

Floats == {NaN} \cup {-140, -65, -64, -63, -16, -15, -3, -1, 0, 1, 2, 3, 7, 13, 14, 16, 62, 63, 64,
                      126, 127, 128, 140}
Stored(type) == IF type.kind = "float" THEN Floats ELSE 0 .. 2 ^ type.width - 1
Rows_ == UNION {{[type |-> t, stored |-> v] : v \in Stored(t)} : t \in {Bool, I3, I6, U3, U6, F6}}
Scalars ==
    [kind : {"int"}, v : {-32, -31, -17, -4, -1, 0, 1, 3, 4, 16, 17, 31}]
    \cup [kind : {"uint"}, v : {0, 1, 3, 7, 31, 32, 47, 63}]
    \cup [kind : {"float"}, v : Floats]
    \cup [kind : {"bool"}, v : BOOLEAN]
CompareProbes ==
    {[kind |-> "compare", type |-> r.type, stored |-> r.stored, op |-> op, scalar |-> s] :
        r \in Rows_, op \in Ops, s \in Scalars}
CastProbes ==
    {[kind |-> "cast", type |-> r.type, stored |-> r.stored, to |-> t] :
        r \in Rows_, t \in {Bool, I3, I6, U3, U6, F6}}

Cmp(f, op, v) == [is |-> "cmp", field |-> f, op |-> op, value |-> v]
AllOf(ps) == [is |-> "and", args |-> ps]
OneOf(ps) == [is |-> "or", args |-> ps]
Not(p) == [is |-> "not", arg |-> p]

SomeRanges == UpTo((0 .. 3) \X (1 .. 3), 2)
ListsProbes == [kind : {"lists"}, a : SomeRanges, b : SomeRanges, bound : {5}]

(* Pieces of five rows, words of two bits.                                 *)
FieldProbes ==
    [kind : {"field"}, col : [1 .. 7 -> {0, 1, Null}],
     ranges : {<<>>, << <<1, 6>> >>, << <<0, 2>>, <<3, 9>> >>},
     pred : {Cmp("a", "Gt", 0), Not(Cmp("a", "Eq", 1)), OneOf(<<Cmp("a", "Lt", 1), Cmp("a", "Eq", 1)>>)}]

Parts ==
    {Cmp("sym", "Eq", 1), Cmp("sym", "Ne", 1), OneOf(<<Cmp("sym", "Eq", 1), Cmp("sym", "Eq", 3)>>),
     Cmp("time", "Ge", 2), Cmp("time", "Lt", 2), Not(Cmp("sym", "Eq", 1)),
     OneOf(<<Cmp("sym", "Eq", 1), Cmp("time", "Eq", 2)>>),
     Cmp("a", "Eq", 1), Cmp("a", "Le", 1), Not(Cmp("a", "Eq", 0)),
     OneOf(<<Cmp("a", "Eq", 0), Cmp("a", "Eq", 2)>>), Cmp("a", "Eq", Odd), Cmp("b", "Ne", 0),
     OneOf(<<Cmp("sym", "Eq", 1), Cmp("a", "Eq", 1)>>), Not(AllOf(<<Cmp("a", "Eq", 1), Cmp("b", "Eq", 1)>>))}
ScanProbes ==
    [kind : {"scan"},
     ds : {[rows |-> <<[sym |-> 1, time |-> 1], [sym |-> 1, time |-> 2], [sym |-> 2, time |-> 2],
                       [sym |-> 3, time |-> 1], [sym |-> 3, time |-> 2]>>,
            cols |-> cols] :
              cols \in [{"a"} -> {<<0, 1, 2, 1, 0>>, <<1, Null, 1, 1, Null>>}]
                       \cup [{"a", "b"} -> {<<1, 1, Null, 1, 0>>, <<0, 2, 1, 1, 1>>}]},
     pred : {AllOf(<<>>), OneOf(<<>>)} \cup {AllOf(<<p, q>>) : p, q \in Parts}
            \cup {AllOf(<<Cmp("a", "Ge", 1), AllOf(<<p, Cmp("a", "Lt", 2)>>)>>) : p \in Parts},
     ranges : {<<>>, << <<3, 4>>, <<0, 2>> >>, << <<7, 1>> >>}, limit : {Unset, 0, 1, 3}]

MCProbes ==
    ListsProbes \cup FieldProbes \cup ScanProbes \cup
    Days \cup SpansProbes \cup GatherProbes \cup BitsProbes \cup CodecProbes \cup StitchProbes
    \cup OffsetsProbes \cup PlanProbes \cup CompareProbes \cup CastProbes
=============================================================================
