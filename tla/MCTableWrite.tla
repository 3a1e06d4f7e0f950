---------------------------- MODULE MCTableWrite ----------------------------
(* A table of two partitions, two keys in the first and one in the second; *)
(* at the beginning the first is there with one column.  One call names    *)
(* only what is there; the other a new partition and a new column, and,    *)
(* once a key was taken away by an update, a key that is missing.          *)
EXTENDS TableWrite

MCPartOf == [k \in Keys |-> IF k = 3 THEN 2 ELSE 1]
In(K, C) == [keys |-> K, cols |-> C]
MCInputs == {In({1}, {"a"}), In({2, 3}, {"b"})}
=============================================================================
