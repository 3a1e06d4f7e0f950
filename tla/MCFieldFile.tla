---------------------------- MODULE MCFieldFile ----------------------------
(* FieldFile on two rows with three values; a cast to "bit" keeps the low  *)
(* bit of a value, a cast to "int" the value.                              *)
EXTENDS FieldFile

MCValues == 0 .. 2
MCConvert == [t \in Types |-> [v \in MCValues |-> IF t = "bit" THEN v % 2 ELSE v]]
============================================================================
