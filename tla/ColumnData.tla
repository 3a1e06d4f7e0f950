---------------------------- MODULE ColumnData -----------------------------
(***************************************************************************)
(* The data of one field: a column of N cells, each a value or NULL.  What *)
(* a value is does not matter to a field file, so Values is a parameter;   *)
(* Zero is the value of zero bytes.                                        *)
(***************************************************************************)
EXTENDS Integers, FiniteSets

CONSTANTS
    N,         \* rows of the column, fixed for the life of the field
    Values,    \* what a valid cell holds
    Zero,      \* the value whose bytes are all zero
    NULL,      \* what a cell with validity bit 0 reads as
    NoColumn,  \* stands for the absence of a column
    Types,     \* the data types a column can have
    Convert    \* Convert[t][v]: the value v after a cast to type t

ASSUME ColumnAssumption ==
    /\ N \in Nat \ {0}
    /\ Zero \in Values
    /\ NULL \notin Values
    /\ Convert \in [Types -> [Values -> Values]]

Rows == 1 .. N
Cell == Values \cup {NULL}
Column == [Rows -> Cell]

ASSUME NoColumnAssumption == NoColumn \notin Column

(* A header-only field: every row reads as NULL.                           *)
AllNull == [i \in Rows |-> NULL]
(* What a grown file reads as when it has no validity region.              *)
AllZero == [i \in Rows |-> Zero]

NullRows(col) == {i \in Rows : col[i] = NULL}
Nulls(col) == Cardinality(NullRows(col))

(* The cells a positional write may carry: a non-empty run of rows.        *)
Patches == UNION {[lo .. hi -> Cell] : lo \in Rows, hi \in Rows} \ {<<>>}

(* The column after the cells of data were written over it.                *)
Patched(col, data) ==
    [i \in Rows |-> IF i \in DOMAIN data THEN data[i] ELSE col[i]]

(* A cast converts the valid cells and leaves the NULL cells NULL.         *)
Converted(col, t) ==
    [i \in Rows |-> IF col[i] = NULL THEN NULL ELSE Convert[t][col[i]]]
============================================================================
