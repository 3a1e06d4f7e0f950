---------------------------- MODULE DatasetScan ----------------------------
(***************************************************************************)
(* Conditional scans (splayed-core, scan.rs, dataset.rs, field_file.rs):   *)
(* lists of row ranges, the scan of one field, and the scan of a dataset,  *)
(* which asks the META index for the conditions on sym and time, every     *)
(* field for its own, and intersects the answers.                          *)
(*                                                                         *)
(* A predicate is                                                          *)
(*   [is |-> "cmp", field |-> name, op |-> Eq.., value |-> v]              *)
(*   [is |-> "and" or "or", args |-> sequence], [is |-> "not", arg |-> p]. *)
(* A dataset is [rows |-> sequence of [sym, time], cols |-> columns by     *)
(* name], a column the sequence of its values or Null.  The rows of a sym  *)
(* follow each other, at ascending times; times before 1970 are left to    *)
(* MetaIndex.                                                              *)
(***************************************************************************)
EXTENDS RowRanges, Sequences, FiniteSets, SequencesExt

CONSTANTS
    EvalCap,    \* rows a field evaluates at once
    MaskBits,   \* bits of a word of the hit mask: 64
    Null,       \* the value of a row that is not valid
    Odd         \* a scalar that does not go with the type of any field

ASSUME ScanAssumption == EvalCap \in Nat \ {0} /\ MaskBits \in Nat \ {0}

Flat(seqs) == FoldLeft(\o, <<>>, seqs)

----------------------------------------------------------------------------
(* Lists of ranges.                                                        *)

MergeNext(acc, r) ==
    IF acc # <<>> /\ r[1] <= EndOf(Last(acc))
    THEN [acc EXCEPT ![Len(acc)] = <<@[1], Upper(@[2], EndOf(r) - @[1])>>]
    ELSE Append(acc, r)

MergeRanges(ranges) ==
    FoldLeft(MergeNext, <<>>,
             SortSeq(ranges, LAMBDA a, b : a[1] < b[1] \/ (a[1] = b[1] /\ EndOf(a) < EndOf(b))))

(* RowRange.intersect with [0, bound), the empty ones left out.            *)
Cut(ranges, bound) ==
    SelectSeq([i \in DOMAIN ranges |->
                  <<ranges[i][1], Lower(EndOf(ranges[i]), bound) - ranges[i][1]>>],
              LAMBDA r : r[2] > 0)

ClampRanges(ranges, bound) ==
    MergeRanges(Cut(IF ranges = <<>> THEN << <<0, bound>> >> ELSE ranges, bound))

(* Two pointers; the side that ends first goes on.                         *)
IntersectLists(a, b) ==
    LET walk[i \in 1 .. Len(a) + 1, j \in 1 .. Len(b) + 1] ==
            IF i > Len(a) \/ j > Len(b) THEN <<>>
            ELSE LET lo == Upper(a[i][1], b[j][1])
                     hi == Lower(EndOf(a[i]), EndOf(b[j]))
                 IN  (IF hi > lo THEN << <<lo, hi - lo>> >> ELSE <<>>)
                     \o (IF EndOf(a[i]) <= EndOf(b[j]) THEN walk[i + 1, j] ELSE walk[i, j + 1])
    IN  walk[1, 1]

----------------------------------------------------------------------------
(* The scan of a field.                                                    *)

(* CmpOp.matches on a value; the value behind a row that is not valid is   *)
(* compared, too, and read as 0.                                           *)
Matches(op, v, w) ==
    LET a == IF v = Null THEN 0 ELSE v
    IN  CASE op = "Eq" -> a = w [] op = "Ne" -> a # w
          [] op = "Lt" -> a < w [] op = "Le" -> a <= w
          [] op = "Gt" -> a > w [] OTHER -> a >= w

(* eval_predicate_bytes: the rows a predicate holds for, whatever field    *)
(* its comparisons name, or Failed.  An And stops at its first part that   *)
(* leaves no row, and does not come upon an error after it.                *)
AndOf(a, b) == IF b = Failed THEN Failed ELSE [i \in DOMAIN b |-> a[i] /\ b[i]]
OrOf(a, b) == IF b = Failed THEN Failed ELSE [i \in DOMAIN b |-> a[i] \/ b[i]]
NotOf(a) == IF a = Failed THEN Failed ELSE [i \in DOMAIN a |-> ~a[i]]

RECURSIVE Hits(_, _)
Hits(pred, values) ==
    LET all == [i \in DOMAIN values |-> TRUE]
        none == [i \in DOMAIN values |-> FALSE]
        AndStep(acc, p) == IF acc \in {Failed, none} THEN acc ELSE AndOf(acc, Hits(p, values))
        OrStep(acc, p) == IF acc = Failed THEN acc ELSE OrOf(acc, Hits(p, values))
    IN  CASE pred.is = "cmp" /\ pred.value = Odd -> Failed
          [] pred.is = "cmp" /\ pred.value # Odd ->
                [i \in DOMAIN values |-> Matches(pred.op, values[i], pred.value)]
          [] pred.is = "not" -> NotOf(Hits(pred.arg, values))
          [] pred.is = "and" -> FoldLeft(AndStep, all, pred.args)
          [] OTHER -> FoldLeft(OrStep, none, pred.args)

(* evaluate_range: the mask, bits from 0, filled up with zeros to words.   *)
WordsFor(n) == (n + MaskBits - 1) \div MaskBits

(* Mutant: rows that are not valid take part as 0.                         *)
MaskBare(hits, values) ==
    IF hits = Failed THEN Failed
    ELSE [b \in 0 .. WordsFor(Len(values)) * MaskBits - 1 |-> b < Len(values) /\ hits[b + 1]]

Mask(hits, values) ==
    IF hits = Failed THEN Failed
    ELSE [b \in 0 .. WordsFor(Len(values)) * MaskBits - 1 |->
             b < Len(values) /\ hits[b + 1] /\ values[b + 1] # Null]

(* next_true_run: word by word, to the first bit set, then to the next     *)
(* that is not; <<>> if none is set from there on.                         *)
WordEnd(b) == (b \div MaskBits + 1) * MaskBits
InWord(mask, from, bit) == {b \in from .. WordEnd(from) - 1 : mask[b] = bit}

RunFrom(mask, len, s) ==
    LET end[b \in 0 .. len + MaskBits] ==
            IF b \notin DOMAIN mask THEN b
            ELSE IF InWord(mask, b, FALSE) # {} THEN FirstOf(InWord(mask, b, FALSE))
            ELSE end[WordEnd(b)]
    IN  IF s >= len THEN <<>> ELSE <<s, Lower(len, end[s])>>

NextTrueRun(mask, len, from) ==
    LET start[b \in 0 .. len + MaskBits] ==
            IF b >= len THEN len
            ELSE IF InWord(mask, b, TRUE) # {} THEN FirstOf(InWord(mask, b, TRUE))
            ELSE start[WordEnd(b)]
    IN  RunFrom(mask, len, start[from])

(* The pieces of a candidate range, and the runs of a piece.               *)
Segments(r) ==
    [k \in 1 .. (r[2] + EvalCap - 1) \div EvalCap |->
        <<r[1] + (k - 1) * EvalCap, Lower(EvalCap, r[2] - (k - 1) * EvalCap)>>]

RunsOf(mask, piece) ==
    LET runs[from \in 0 .. piece[2]] ==
            LET With(run) == IF run = <<>> THEN <<>>
                             ELSE << <<piece[1] + run[1], run[2] - run[1]>> >> \o runs[run[2]]
            IN  With(NextTrueRun(mask, piece[2], from))
    IN  runs[0]

AllSegments(ranges) == FoldLeft(LAMBDA acc, r : acc \o Segments(r), <<>>, ranges)

EvaluateRange(col, piece, pred) ==
    LET values == SubSeq(col, piece[1] + 1, EndOf(piece)) IN Mask(Hits(pred, values), values)

(* FieldScanner: its ranges until it is done, or Failed.  No candidates    *)
(* are all rows.                                                           *)
Runs(masks, pieces) ==
    IF \E i \in DOMAIN masks : masks[i] = Failed THEN Failed
    ELSE Flat([i \in DOMAIN masks |-> RunsOf(masks[i], pieces[i])])
ScanPieces(col, pieces, pred) ==
    Runs([i \in DOMAIN pieces |-> EvaluateRange(col, pieces[i], pred)], pieces)
FieldScan(col, ranges, pred) ==
    ScanPieces(col, AllSegments(Cut(IF ranges = <<>> THEN << <<0, Len(col)>> >> ELSE ranges, Len(col))), pred)

(* What a scanner hands out under a limit; a limit of 0 is noticed when    *)
(* the first range, an empty one, is out.                                  *)
TakeRanges(ranges, limit) ==
    LET Step(acc, r) ==
            IF acc.done THEN acc
            ELSE IF limit = Unset THEN [acc EXCEPT !.out = Append(@, r)]
            ELSE LET take == Lower(r[2], acc.left)
                 IN  [left |-> acc.left - take, done |-> acc.left = take,
                      out |-> Append(acc.out, <<r[1], take>>)]
    IN  FoldLeft(Step, [left |-> limit, done |-> FALSE, out |-> <<>>], ranges).out

----------------------------------------------------------------------------
(* What goes where.                                                        *)
RECURSIVE FieldsOf(_)
FieldsOf(pred) ==
    CASE pred.is = "cmp" -> {pred.field}
      [] pred.is = "not" -> FieldsOf(pred.arg)
      [] OTHER -> UNION {FieldsOf(pred.args[i]) : i \in DOMAIN pred.args}

(* collect_for_fields: the conditions for the index.  An Or of sym and     *)
(* time goes whole; a Not is left out.                                     *)
RECURSIVE Collected(_)
Collected(pred) ==
    CASE pred.is = "cmp" -> IF pred.field \in Reserved THEN <<pred>> ELSE <<>>
      [] pred.is = "not" -> <<>>
      [] pred.is = "or" /\ FieldsOf(pred) \subseteq Reserved -> <<pred>>
      [] OTHER -> Flat([i \in DOMAIN pred.args |-> Collected(pred.args[i])])

(* predicate_groups: the conjuncts that are not Ands; of them those of one *)
(* field are its group.                                                    *)
RECURSIVE Conjuncts(_)
Conjuncts(pred) ==
    IF pred.is = "and" THEN Flat([i \in DOMAIN pred.args |-> Conjuncts(pred.args[i])])
    ELSE <<pred>>

(* Mutant: a condition on a field that has one already replaces it.        *)
GroupedLast(parts) ==
    IF \E i \in DOMAIN parts : Cardinality(FieldsOf(parts[i])) > 1 THEN Failed
    ELSE [f \in UNION {FieldsOf(parts[i]) : i \in DOMAIN parts} |->
             Last(SelectSeq(parts, LAMBDA c : FieldsOf(c) = {f}))]

Grouped(parts) ==
    IF \E i \in DOMAIN parts : Cardinality(FieldsOf(parts[i])) > 1 THEN Failed
    ELSE [f \in UNION {FieldsOf(parts[i]) : i \in DOMAIN parts} |->
             [is |-> "and", args |-> SelectSeq(parts, LAMBDA c : FieldsOf(c) = {f})]]

Groups(pred) == Grouped(SelectSeq(Conjuncts(pred), LAMBDA c : ~(FieldsOf(c) \subseteq Reserved)))

(* compile_predicate on sets: Eq of a sym narrows, an Or of them widens    *)
(* what there is, another Or says nothing, times narrow a window.          *)
IsSym(p) == p.is = "cmp" /\ p.field = "sym" /\ p.op = "Eq"

Compile(acc, c) ==
    CASE c.is = "or" ->
            IF \A i \in DOMAIN c.args : IsSym(c.args[i])
            THEN [acc EXCEPT !.any = FALSE,
                             !.syms = @ \cup {c.args[i].value : i \in DOMAIN c.args}]
            ELSE acc
      [] IsSym(c) -> [acc EXCEPT !.any = FALSE,
                                 !.syms = IF acc.any THEN {c.value} ELSE @ \cap {c.value}]
      [] c.is = "cmp" /\ c.field = "time" ->
            [acc EXCEPT
               !.lo = CASE c.op \in {"Eq", "Ge"} -> Upper(@, c.value)
                        [] c.op = "Gt" -> Upper(@, c.value + 1)
                        [] OTHER -> @,
               !.hi = CASE c.op \in {"Eq", "Le"} -> Lower(@, c.value + 1)
                        [] c.op = "Lt" -> Lower(@, c.value)
                        [] OTHER -> @]
      [] OTHER -> acc

(* MetaHandle.scan: the rows of the syms and the window, what touches      *)
(* merged.                                                                 *)
Singles(rows) == [k \in DOMAIN rows |-> <<rows[k] - 1, 1>>]
RowsMeeting(ds, c) ==
    SelectSeq([i \in DOMAIN ds.rows |-> i],
              LAMBDA i : /\ c.any \/ ds.rows[i].sym \in c.syms
                         /\ c.lo <= ds.rows[i].time /\ ds.rows[i].time < c.hi)
Compiled(conds, last) ==
    FoldLeft(Compile, [any |-> TRUE, syms |-> {}, lo |-> 0, hi |-> last + 1], conds)

MetaScan(ds, conds, ranges) ==
    LET times == {ds.rows[i].time : i \in DOMAIN ds.rows} \cup {0}
        last == CHOOSE t \in times : \A u \in times : u <= t
    IN  IntersectLists(MergeRanges(Singles(RowsMeeting(ds, Compiled(conds, last)))),
                       ClampRanges(ranges, Len(ds.rows)))

----------------------------------------------------------------------------
(* scan_dataset.  The index first, every field with what it leaves, and    *)
(* the answers intersected; a field that is not there is an error.  The    *)
(* fields are scanned one by one or in threads that share nothing.  An     *)
(* empty list of ranges would be all rows to a field.                      *)
Crossed(a, b) == IF b = Failed THEN Failed ELSE IntersectLists(a, b)
MergedOf(found) == IF found = Failed THEN Failed ELSE MergeRanges(found)

ScanFields(ds, current, groups) ==
    LET Narrow(acc, f) ==
            IF acc = Failed THEN Failed
            ELSE Crossed(acc, FieldScan(ds.cols[f], current, groups[f]))
    IN  IF groups = Failed \/ (groups # Failed /\ ~(DOMAIN groups \subseteq DOMAIN ds.cols))
        THEN Failed
        ELSE IF current = <<>> THEN <<>>
        ELSE MergedOf(FoldLeft(Narrow, current, SetToSeq(DOMAIN groups)))

ScanIndex(ds, whole, conds) ==
    IF conds = <<>> THEN whole ELSE IntersectLists(whole, MetaScan(ds, conds, whole))

ScanRanges(ds, ranges, pred) ==
    ScanFields(ds,
        ScanIndex(ds, ClampRanges(ranges, Len(ds.rows)),
                  IF pred = Unset THEN <<>> ELSE Collected(pred)),
        IF pred = Unset THEN [f \in {} |-> Unset] ELSE Groups(pred))

(* With the limit of the request, as DatasetScanner hands them out.        *)
Handed(all, limit) == IF all = Failed THEN Failed ELSE TakeRanges(all, limit)
ScanDataset(ds, ranges, pred, limit) == Handed(ScanRanges(ds, ranges, pred), limit)
=============================================================================
