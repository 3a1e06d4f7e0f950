------------------------------ MODULE MCTable ------------------------------
(* Two partitions and two fields of two types, which are interchangeable.  *)
(* Partitions are made with one field or none, further fields one by one;  *)
(* the second index is that of partitions made without fields.  Another    *)
(* process deletes a partition or puts one without fields in its place.    *)
EXTENDS Table, TLC
CONSTANTS r1, r2
Interchangeable == Permutations(Cols) \cup Permutations(Types)
Bare(r) == [rows |-> r, cols |-> <<>>]
MCInputs == {d \in Made : d.rows = r1 /\ Cardinality(DOMAIN d.cols) <= 1} \cup {Bare(r2)}
MCStrangers == Parts \X {None, Bare(r1)}

(* Bounds: after trouble of one kind there is no other, and once fields    *)
(* are made in a partition that another process has changed, nothing       *)
(* follows.                                                                *)
OneTrouble == foreign = {} \/ ~spoiled
StaysSo == \A p \in foreign : part[p] \in {None, Bare(r1), Bare(r2)}
=============================================================================
