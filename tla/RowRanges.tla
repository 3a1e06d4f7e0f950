----------------------------- MODULE RowRanges ------------------------------
(***************************************************************************)
(* Ranges of rows (splayed-core, scan.rs), as every layer of a scan hands  *)
(* them on, and what may stand in their place.  A range is <<offset,       *)
(* length>>; rows count from 0.                                            *)
(***************************************************************************)
EXTENDS Integers

CONSTANTS
    Unset,      \* no predicate, limit, ... in a request
    Failed      \* the scan returns an error

EndOf(r) == r[1] + r[2]
Lower(a, b) == IF a < b THEN a ELSE b
Upper(a, b) == IF a > b THEN a ELSE b
RowsIn(ranges) == UNION {r[1] .. EndOf(r) - 1 : r \in {ranges[i] : i \in DOMAIN ranges}}

(* The columns of the index, which are no fields.                          *)
Reserved == {"sym", "time"}

(* partition_point and the like: the first of some places.                 *)
FirstOf(S) == CHOOSE b \in S : \A c \in S : b <= c
=============================================================================
