---------------------------- MODULE TableQuery ------------------------------
(***************************************************************************)
(* What a query of a table asks of the datasets, and what they answer      *)
(* (splayed-table, query.rs; splayed-core, scan_dataset): the values of    *)
(* the constants of TableScan.  A dataset is that of DatasetScan, a        *)
(* request [sym, time, pred, ...].  Next to it, what is asked for row by   *)
(* row, without indexes, groups of conditions and masks.                   *)
(***************************************************************************)
EXTENDS DatasetScan

(* scan_table: sym, time and the caller's predicate.                       *)
Cond(f, op, v) == [is |-> "cmp", field |-> f, op |-> op, value |-> v]
Predicate(r) ==
    LET parts == (IF r.sym = Unset THEN <<>> ELSE <<Cond("sym", "Eq", r.sym)>>)
                 \o (IF r.time = Unset THEN <<>>
                     ELSE <<Cond("time", "Ge", r.time[1]), Cond("time", "Lt", r.time[2])>>)
                 \o (IF r.pred = Unset THEN <<>> ELSE <<r.pred>>)
    IN  IF parts = <<>> THEN Unset ELSE [is |-> "and", args |-> parts]

(* What the datasets answer, by table, predicate and partition.  They do   *)
(* not change; requests with one predicate have one answer.                *)
Answers(tables, preds) ==
    [t \in tables |-> [pred \in preds |->
        [p \in DOMAIN t.parts |-> ScanRanges(t.parts[p], <<>>, pred)]]]

(* The fields a dataset opens for a scan: those the groups of conditions   *)
(* name.                                                                   *)
FieldsNeeded(pred) ==
    IF pred = Unset THEN {} ELSE IF Groups(pred) = Failed THEN {} ELSE DOMAIN Groups(pred)
QueryNeeded(requests) == [r \in requests |-> FieldsNeeded(r.pred)]

----------------------------------------------------------------------------
(* What is asked for, row by row.                                          *)
RECURSIVE True(_, _)
True(pred, row) ==
    CASE pred.is = "cmp" -> Matches(pred.op, row[pred.field], pred.value)
      [] pred.is = "not" -> ~True(pred.arg, row)
      [] pred.is = "and" -> \A i \in DOMAIN pred.args : True(pred.args[i], row)
      [] OTHER -> \E i \in DOMAIN pred.args : True(pred.args[i], row)

Meets(r, ds, i) ==
    LET row == [f \in Reserved \cup DOMAIN ds.cols |->
                   IF f = "sym" THEN ds.rows[i].sym ELSE IF f = "time" THEN ds.rows[i].time
                   ELSE ds.cols[f][i]]
    IN  /\ r.sym # Unset => row.sym = r.sym
        /\ r.time # Unset => r.time[1] <= row.time /\ row.time < r.time[2]
        /\ r.pred # Unset =>
              /\ FieldsOf(r.pred) \subseteq DOMAIN row
              /\ \A f \in FieldsOf(r.pred) : row[f] # Null
              /\ True(r.pred, row)

QueryWanted(tables, requests) ==
    [t \in tables |-> [r \in requests |-> [p \in DOMAIN t.parts |->
        {i - 1 : i \in {k \in DOMAIN t.parts[p].rows : Meets(r, t.parts[p], k)}}]]]
=============================================================================
