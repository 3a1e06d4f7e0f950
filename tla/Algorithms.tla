----------------------------- MODULE Algorithms -----------------------------
(***************************************************************************)
(* The pure algorithms of the modules PartitionCalendar, FieldCodec,       *)
(* FieldValues and DatasetScan, each against a definition of its own of    *)
(* what it should compute.  A state is an input; the calendar goes on day  *)
(* by day, by the rules of the calendar and not by the code's formulas.    *)
(***************************************************************************)
EXTENDS PartitionCalendar, FieldCodec, FieldValues, DatasetScan

CONSTANTS
    Probes,     \* the inputs
    WalkDays    \* how many days a walk over the calendar takes

VARIABLE probe

Init == probe \in Probes

(* The next day of the civil calendar.                                     *)
NextDay ==
    /\ probe.kind = "day" /\ probe.left > 0
    /\ LET endsMonth == probe.d = MonthLength(probe.y, probe.m)
           endsYear == endsMonth /\ probe.m = 12
       IN  probe' = [probe EXCEPT
               !.left = @ - 1, !.day = @ + 1,
               !.d = IF endsMonth THEN 1 ELSE @ + 1,
               !.m = IF endsYear THEN 1 ELSE @ + Bit(endsMonth),
               !.y = @ + Bit(endsYear)]

Next == NextDay
Spec == Init /\ [][Next]_probe

(* January 1st of a year, counted from 1970.                               *)
LeapsBefore(y) == (((y - 1) \div 4) - ((y - 1) \div 100)) + ((y - 1) \div 400)
NewYear(y) ==
    [kind |-> "day", y |-> y, m |-> 1, d |-> 1, left |-> WalkDays,
     day |-> 365 * (y - 1970) + LeapsBefore(y) - LeapsBefore(1970)]

Civil == [y |-> probe.y, m |-> probe.m, d |-> probe.d]

----------------------------------------------------------------------------
(* INVARIANT: days and civil dates convert into each other as the calendar *)
(* has it, before the year 0 too (days_from_civil, civil_from_days).       *)
CalendarExact ==
    probe.kind = "day" =>
        /\ CivilFromDays(probe.day) = Civil
        /\ DaysFromCivil(probe.y, probe.m, probe.d) = probe.day

Named(day, scheme, tt) == PartitionName(scheme, DaysToValue(day, tt), tt)

(* INVARIANT: the range read back from the name of a partition holds every *)
(* time of the day that got the name, and the day after has the same name  *)
(* exactly if the range goes on (partition_name, partition_range).  Months *)
(* and dates before the year 0 cannot be read back.                        *)
RangesTile ==
    probe.kind = "day" =>
        \A scheme \in Schemes \ {"none"}, tt \in TimeTypes :
            LET name == Named(probe.day, scheme, tt)
                r == PartitionRange(scheme, name, tt)
                first == DaysToValue(probe.day, tt)
                next == DaysToValue(probe.day + 1, tt)
            IN  IF scheme # "year" /\ probe.y < 0 THEN r = None
                ELSE /\ r[1] <= first /\ next <= r[2]
                     /\ (Named(probe.day + 1, scheme, tt) = name) <=> (next < r[2])
                     /\ PartitionName(scheme, next - 1, tt) = name

(* INVARIANT: two days have the same key exactly if their partitions have  *)
(* the same name (partition_key; write_table groups rows by key, names     *)
(* them by the first).                                                     *)
KeysName ==
    probe.kind = "day" =>
        \A scheme \in Schemes, later \in {1, 27, 31, 365, 366} :
            LET a == probe.day b == probe.day + later
            IN  (PartitionKey(scheme, a, "date32") = PartitionKey(scheme, b, "date32"))
                <=> (Named(a, scheme, "date32") = Named(b, scheme, "date32"))

(* INVARIANT: the order of the names is that of time from year 1000 to     *)
(* 9999, for months and dates from year 0 (discover_partitions sorts by    *)
(* name, the last is where schema(), init_field and fix look).             *)
NamesInTime ==
    probe.kind = "day" =>
        \A scheme \in Schemes \ {"none"} :
            LET a == Named(probe.day, scheme, "date32")
                b == Named(probe.day + 1, scheme, "date32")
            IN  a.y >= (IF scheme = "year" THEN 1000 ELSE 0) /\ b.y <= 9999 =>
                    a = b \/ TextBefore(NameText(a), NameText(b))

(* INVARIANT: the spans of a partition are the rows that its name is the   *)
(* name of, in the order of the input (partition_spans).                   *)
SpansExact ==
    probe.kind = "spans" =>
        \A parts \in {Spans(probe.times, probe.scheme, "date32")},
           names \in {[i \in DOMAIN probe.times |-> Named(probe.times[i], probe.scheme, "date32")]} :
            /\ {parts[i].name : i \in DOMAIN parts} = {names[r] : r \in DOMAIN names}
            /\ \A i \in DOMAIN parts :
                 RowsOfSpans(parts[i].spans)
                 = SelectSeq([r \in DOMAIN names |-> r], LAMBDA r : names[r] = parts[i].name)

(* INVARIANT: gathering a column of strings keeps the string of every row, *)
(* the new dictionary has each string that occurs once, and the bits are   *)
(* left out exactly if all are set (gather_runs, gather_validity).         *)
GatherExact ==
    probe.kind = "gather" =>
        LET rows == RowsOfSpans(probe.spans)
            g == Gather(probe.keys, probe.dict, probe.spans)
            v == GatherValidity(probe.bits, probe.spans)
        IN  /\ [i \in DOMAIN g.keys |-> g.dict[g.keys[i] + 1]]
                 = [i \in DOMAIN rows |-> probe.dict[probe.keys[rows[i]] + 1]]
            /\ \A i, j \in DOMAIN g.dict : g.dict[i] = g.dict[j] => i = j
            /\ {g.keys[i] + 1 : i \in DOMAIN g.keys} = DOMAIN g.dict
            /\ \A i \in DOMAIN rows :
                 (IF v = None THEN 1 ELSE v[i]) = (IF probe.bits = None THEN 1 ELSE probe.bits[rows[i]])

----------------------------------------------------------------------------
Bits(bytes) == [i \in 0 .. Len(bytes) * ByteBits - 1 |-> BitAt(bytes, i)]

(* INVARIANT: copying and filling a range of bits changes these bits and   *)
(* no other, and counting counts them, whatever the phases of the two      *)
(* ranges (bitmap_copy_bits, bitmap_fill_bits, bitmap_count_ones).         *)
BitsExact ==
    probe.kind = "bits" =>
        LET range == probe.off .. probe.off + probe.len - 1
            src == Bits(probe.src)
            dst == Bits(probe.dst)
        IN  /\ Bits(CopyBits(probe.dst, probe.off, probe.src, probe.from, probe.len))
                 = [i \in DOMAIN dst |-> IF i \in range THEN src[i - probe.off + probe.from] ELSE dst[i]]
            /\ \A b \in BOOLEAN :
                 Bits(FillBits(probe.dst, probe.off, probe.len, b))
                 = [i \in DOMAIN dst |-> IF i \in range THEN Bit(b) ELSE dst[i]]
            /\ CountOnes(probe.src, probe.from, probe.len)
                 = Cardinality({i \in probe.from .. probe.from + probe.len - 1 : src[i] = 1})

(* INVARIANT: every encoding gives back the values and the bits, for       *)
(* signed and unsigned values of every width (encode_chunk, decode_chunk). *)
CodecExact ==
    probe.kind = "codec" =>
        \A enc \in Encodings :
            LET chunk == EncodeChunk(enc, probe.values, probe.bits, probe.width, probe.signed)
            IN  chunk # Corrupt /\ DecodeChunk(enc, chunk, probe.width, probe.signed)
                                   = <<probe.values, probe.bits>>

(* INVARIANT: a chunk whose header has one row more or less than its       *)
(* values is refused, unless they are bit-packed (the decoders' checks).   *)
WrongRowsRefused ==
    probe.kind = "codec" =>
        \A enc \in Encodings \ {"bitpack"} :
            LET chunk == EncodeChunk(enc, probe.values, <<>>, probe.width, probe.signed)
            IN  \A r \in {Len(probe.values) - 1, Len(probe.values) + 1} \cap Nat :
                   DecodeChunk(enc, [chunk EXCEPT !.rows = r], probe.width, probe.signed) = Corrupt

(* INVARIANT: the bits of chunks end up one after the other, the chunks    *)
(* without bits as set (stitch_chunk_bits, CastReader).                    *)
StitchExact ==
    probe.kind = "stitch" =>
        LET rows == FoldLeft(LAMBDA n, c : n + c[1], 0, probe.chunks)
            all == FoldLeft(LAMBDA acc, c :
                                acc \o [i \in 1 .. c[1] |-> IF c[2] = <<>> THEN 1 ELSE BitAt(c[2], i - 1)],
                            <<>>, probe.chunks)
            out == Stitch(probe.chunks)
        IN  /\ Len(out) = BytesFor(rows)
            /\ \A i \in 0 .. Len(out) * ByteBits - 1 : BitAt(out, i) = IF i < rows THEN all[i + 1] ELSE 0

Tile(chunks, rows) ==
    /\ chunks # <<>> => chunks[1][1] = 0 /\ Last(chunks)[2] = rows
    /\ \A i \in DOMAIN chunks : chunks[i][1] < chunks[i][2]
    /\ \A i \in 1 .. Len(chunks) - 1 : chunks[i][2] = chunks[i + 1][1]
    /\ chunks = <<>> => rows = 0

(* INVARIANT: offsets that are not refused cut the rows into chunks that   *)
(* follow each other, none of them empty; so do the chunks of even size    *)
(* (compute_chunk_boundaries).                                             *)
ChunksTile ==
    probe.kind = "offsets" =>
        /\ Tile(UniformBoundaries(probe.rows), probe.rows)
        /\ LET chunks == ChunkBoundaries(probe.rows, probe.offsets)
           IN  chunks # Corrupt => Tile(chunks, probe.rows)

(* INVARIANT: the offsets planned from the syms are accepted, cut a sym    *)
(* only if it is longer than the cap, and no chunk has more rows than      *)
(* fit before the target plus one sym of the cap                           *)
(* (sym_aligned_chunk_offsets, sym_chunk_offsets_from_view).               *)
PlanKeepsSyms ==
    probe.kind = "plan" =>
        LET starts == [i \in 1 .. Len(probe.lens) |->
                          FoldLeft(LAMBDA n, l : n + l, 0, SubSeq(probe.lens, 1, i - 1))]
            rows == FoldLeft(LAMBDA n, l : n + l, 0, probe.lens)
            chunks == ChunkBoundaries(rows, SymOffsets(probe.lens, probe.target, probe.cap))
        IN  rows > 0 =>
            /\ chunks # Corrupt
            /\ \A i \in DOMAIN chunks :
                 /\ chunks[i][2] - chunks[i][1] < probe.target + probe.cap
                 /\ \A s \in DOMAIN starts :
                      starts[s] < chunks[i][1] /\ chunks[i][1] < starts[s] + probe.lens[s]
                          => probe.lens[s] > probe.cap

----------------------------------------------------------------------------
(* Twice the number a scalar stands for.                                   *)
Halves(s) == IF s.kind = "float" THEN s.v ELSE 2 * s.v
ExactAsFloat(s) == s.kind \notin {"int", "uint"} \/ s.v \in -Exact .. Exact

(* INVARIANT: a comparison of a number of any type with one of any other   *)
(* is that of the numbers, at the ends of the types too; only beside a     *)
(* floating-point number a large integer may be rounded (eval_cmp_bytes).  *)
CompareExact ==
    probe.kind = "compare" =>
        LET row == RowScalar(probe.type, probe.stored)
            hit == Compare(probe.type, probe.stored, probe.op, probe.scalar)
        IN  IF "bool" \in {row.kind, probe.scalar.kind}
            THEN (hit = Mismatch) <=> (row.kind # probe.scalar.kind)
            ELSE ("float" \in {row.kind, probe.scalar.kind} =>
                     ExactAsFloat(row) /\ ExactAsFloat(probe.scalar))
                 => hit = FloatHolds(probe.op, Halves(row), Halves(probe.scalar))

(* The integers a type holds.                                              *)
HoldsInt(type, n) ==
    CASE type.kind = "bool" -> n \in {0, 1}
      [] type.kind = "int" -> n \in -(2 ^ (type.width - 1)) .. 2 ^ (type.width - 1) - 1
      [] type.kind = "uint" -> n \in 0 .. 2 ^ type.width - 1
      [] OTHER -> n \in -Exact .. Exact
Number(s) == CASE s.kind = "bool" -> Bit(s.v) [] OTHER -> s.v

(* INVARIANT: a cast keeps every integer that the new type holds, and cuts *)
(* a floating-point number it has room for toward zero; other integers are *)
(* cut to the low bits, as Rust's `as` does (convert_values).              *)
CastExact ==
    probe.kind = "cast" =>
        LET s == RowScalar(probe.type, probe.stored)
            n == IF s.kind = "float" THEN FloatTo(s.v, MinInt, MaxUInt) ELSE Number(s)
            t == RowScalar(probe.to, ConvertValue(probe.type, probe.to, probe.stored))
        IN  IF probe.to.kind = "float"
            THEN IF s.kind = "float" THEN t = s
                 ELSE HoldsInt(probe.to, n) => t.v = 2 * n
            ELSE IF HoldsInt(probe.to, n) THEN Number(t) = n
            ELSE s.kind \in {"int", "uint"} /\ probe.to.kind # "bool"
                     => Unsigned(t.v, probe.to.width) = Unsigned(n, probe.to.width)

----------------------------------------------------------------------------
(* Ascending ranges that do not touch, none of them empty.                 *)
Merged(ranges) ==
    /\ \A i \in DOMAIN ranges : ranges[i][2] > 0
    /\ \A i \in 1 .. Len(ranges) - 1 : EndOf(ranges[i]) < ranges[i + 1][1]

(* INVARIANT: lists of ranges stand for sets of rows: clamping any list    *)
(* gives its rows below the bound, merged, and two lists intersect to the  *)
(* rows of both (clamp_ranges, merge_ranges, intersect_range_lists).       *)
RangesAreRows ==
    probe.kind = "lists" =>
        LET a == ClampRanges(probe.a, probe.bound)
            b == ClampRanges(probe.b, probe.bound)
            both == IntersectLists(a, b)
        IN  /\ Merged(a) /\ Merged(MergeRanges(both))
            /\ RowsIn(a) = (IF probe.a = <<>> THEN 0 .. probe.bound - 1
                            ELSE RowsIn(probe.a) \cap 0 .. probe.bound - 1)
            /\ RowsIn(both) = RowsIn(a) \cap RowsIn(b)

(* A predicate on one row, of which every field named must have a value.   *)
RECURSIVE Truth(_, _)
Truth(pred, row) ==
    CASE pred.is = "cmp" -> Holds(pred.op, row[pred.field], pred.value)
      [] pred.is = "not" -> ~Truth(pred.arg, row)
      [] pred.is = "and" -> \A i \in DOMAIN pred.args : Truth(pred.args[i], row)
      [] OTHER -> \E i \in DOMAIN pred.args : Truth(pred.args[i], row)

Meets(pred, row) == (\A f \in FieldsOf(pred) : row[f] # Null) /\ Truth(pred, row)

(* INVARIANT: the scan of a field finds exactly the rows that have a value *)
(* for which the predicate holds, in order, each once, whatever falls on   *)
(* the borders of words of the mask and of pieces (FieldScanner,           *)
(* next_true_run, eval_predicate_bytes).                                   *)
FieldScanExact ==
    probe.kind = "field" =>
        LET found == FieldScan(probe.col, probe.ranges, probe.pred)
            hits == {r \in RowsIn(ClampRanges(probe.ranges, Len(probe.col))) :
                        Meets(probe.pred, [f \in {"a"} |-> probe.col[r + 1]])}
        IN  /\ RowsIn(found) = hits
            /\ \A i \in DOMAIN found : found[i][2] > 0
            /\ \A i \in 1 .. Len(found) - 1 : EndOf(found[i]) <= found[i + 1][1]

(* The row of a dataset as a record; a condition the index leaves out: a   *)
(* Not or an Or that is not of syms, another comparison of sym than Eq;    *)
(* a sym beside an Or of them is one too many.                             *)
RowOf(ds, r) ==
    [f \in Reserved \cup DOMAIN ds.cols |->
        IF f = "sym" THEN ds.rows[r + 1].sym ELSE IF f = "time" THEN ds.rows[r + 1].time
        ELSE ds.cols[f][r + 1]]
Ignored(c) ==
    /\ FieldsOf(c) \subseteq Reserved
    /\ CASE c.is = "or" -> \E i \in DOMAIN c.args : ~IsSym(c.args[i])
         [] c.is = "cmp" -> IF c.field = "sym" THEN c.op # "Eq" ELSE c.op = "Ne"
         [] OTHER -> TRUE
Understood(conjuncts) ==
    /\ \A i \in DOMAIN conjuncts : ~Ignored(conjuncts[i])
    /\ \A i, j \in DOMAIN conjuncts :
         i # j /\ FieldsOf(conjuncts[i]) = {"sym"} /\ FieldsOf(conjuncts[j]) = {"sym"}
             => conjuncts[i].is # "or" /\ conjuncts[j].is # "or"

RECURSIVE HasOdd(_)
HasOdd(pred) ==
    CASE pred.is = "cmp" -> pred.value = Odd
      [] pred.is = "not" -> HasOdd(pred.arg)
      [] OTHER -> \E i \in DOMAIN pred.args : HasOdd(pred.args[i])

(* INVARIANT: the scan of a dataset is refused if an Or or a Not mixes a   *)
(* field with anything else or a field is not there, and otherwise only    *)
(* for a scalar of a wrong type.  It never misses a row that meets the     *)
(* conditions, finds no other if the index understands all of them, and    *)
(* under a limit hands out the first rows of what it finds (scan_dataset,  *)
(* predicate_groups, collect_for_fields, DatasetScanner).                  *)
DatasetScanExact ==
    probe.kind = "scan" =>
        \A ds \in {probe.ds}, cs \in {Conjuncts(probe.pred)},
           found \in {ScanDataset(probe.ds, probe.ranges, probe.pred, Unset)},
           cut \in {ScanDataset(probe.ds, probe.ranges, probe.pred, probe.limit)},
           wanted \in {{r \in RowsIn(ClampRanges(probe.ranges, Len(probe.ds.rows))) :
                           Meets(probe.pred, RowOf(probe.ds, r))}} :
            IF \/ \E i \in DOMAIN cs : Cardinality(FieldsOf(cs[i])) > 1
                                       /\ ~(FieldsOf(cs[i]) \subseteq Reserved)
               \/ ~(FieldsOf(probe.pred) \subseteq Reserved \cup DOMAIN ds.cols)
            THEN found = Failed
            ELSE IF HasOdd(probe.pred) THEN TRUE
            ELSE /\ found # Failed /\ Merged(found)
                 /\ wanted \subseteq RowsIn(found)
                 /\ Understood(cs) => RowsIn(found) = wanted
                 /\ probe.limit = Unset \/
                    RowsIn(cut) = {r \in RowsIn(found) :
                        Cardinality({q \in RowsIn(found) : q < r}) < probe.limit}
----------------------------------------------------------------------------
(* INVARIANT: days, names, ranges and keys of partitions are one calendar  *)
(* (partition.rs).                                                         *)
CalendarAgrees == CalendarExact /\ RangesTile /\ KeysName /\ NamesInTime

(* INVARIANT: rows that are split over partitions are the rows of the      *)
(* input (partition_spans, gather_runs, gather_validity).                  *)
SplitExact == SpansExact /\ GatherExact

(* INVARIANT: bits and values read back from a file as they were written   *)
(* (bitmap.rs, the codecs, stitch_chunk_bits).                             *)
EncodingExact == BitsExact /\ StitchExact /\ CodecExact /\ WrongRowsRefused

(* INVARIANT: chunks tile the rows and keep syms together                  *)
(* (compute_chunk_boundaries, sym_aligned_chunk_offsets).                  *)
ChunksExact == ChunksTile /\ PlanKeepsSyms

(* INVARIANT: comparisons and casts are those of the numbers               *)
(* (eval_cmp_bytes, convert_values).                                       *)
ValuesExact == CompareExact /\ CastExact

(* INVARIANT: ranges of rows, and the scan of a field over them, name      *)
(* exactly the rows meant (clamp_ranges, FieldScanner).                    *)
RowsFoundExact == RangesAreRows /\ FieldScanExact
=============================================================================
