----------------------------- MODULE MCDataset -----------------------------
(* Dataset over two fields, none in a directory of its own: the path of a  *)
(* field ends in its name.                                                 *)
EXTENDS Dataset, Integers

FlatLeaf == [n \in Names |-> n]
MCInodes3 == 1 .. 3
MCInodes4 == 1 .. 4
============================================================================
