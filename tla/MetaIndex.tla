----------------------------- MODULE MetaIndex -----------------------------
(***************************************************************************)
(* The primary index of a dataset, the META file (splayed-core,            *)
(* meta_file.rs).  It is built in one pass from the rows' (sym, time) and  *)
(* keeps no row: a sorted time axis and, per run of equal dictionary codes *)
(* of sym, one record [row_start, time_start, time_count].  Row r of a run *)
(* has the axis value time_start + (r - row_start); every query relies on  *)
(* that grid.                                                              *)
(* A name is a natural number, ordered as the code orders the bytes of the *)
(* string.  Signed times become unsigned keys, and an axis slot holds only *)
(* the low bits of a key (32 for dates), so both widths are constants.     *)
(* A row whose sym is NULL (an error) is left out.  How the file is put on *)
(* disk is the subject of FieldReplace.                                    *)
(***************************************************************************)
EXTENDS Integers, Sequences, FiniteSets, SequencesExt

CONSTANTS
    W64,        \* values of a u64, scaled down
    WAxis,      \* values of an axis slot: W64 for timestamps, less for dates
    Inputs,     \* what an index may be built from: sequences of InputRow
    PairLists,  \* what locate may be asked: sequences of [sym, time]
    Predicates(_), \* what a scan of an index over these rows may be asked:
                \* conjunctions, sequences of Atom
    Withins,    \* row sets a scan may be limited to, or None
    Limits,     \* limits of a scan, or None
    None        \* no index, no answer, no such option

(* A time is a signed number as wide as an axis slot (i32 or i64).         *)
Time == -(WAxis \div 2) .. WAxis \div 2 - 1

(* key: the code of sym in the dictionary of the row's segment.            *)
InputRow == [key : Nat, sym : Nat, time : Time]
Pair == [sym : Nat, time : Time]
Ops == {"Eq", "Ne", "Lt", "Le", "Gt", "Ge"}

(* A scalar counts in halves, so that a Float may lie between two times.   *)
Scalar == [kind : {"Int", "UInt", "Float"}, half : Int]
Atom == [on : {"sym"}, op : Ops, name : Nat]
   \cup [on : {"time"}, op : Ops, value : Scalar]
   \cup [on : {"or"}, names : Seq(Nat)]  \* an Or of sym = name
   \cup [on : {"opaque"}]                \* Not, another field, another Or

ASSUME WidthAssumption ==
    /\ W64 \in Nat /\ WAxis \in Nat
    /\ 1 < WAxis /\ WAxis <= W64 /\ W64 % WAxis = 0 /\ WAxis % 2 = 0
ASSUME NoneAssumption == None \notin Pair \cup Seq(Nat)
ASSUME InputAssumption == \A in \in Inputs : in \in Seq(InputRow)
ASSUME RequestAssumption ==
    /\ PairLists \subseteq Seq(Pair)
    /\ \A in \in Inputs \cup {<<>>} : \A p \in Predicates(in) :
         /\ p \in Seq(Atom)
         /\ \A i \in DOMAIN p : p[i].on = "time" =>
               p[i].value.kind = "Float" \/ p[i].value.half % 2 = 0
    /\ \A lim \in Limits : lim = None \/ lim \in Nat

VARIABLES
    index,    \* the index in the file, and in its handle: [axis, recs], or None
    rows,     \* history: the input that index was built from
    mapped,   \* whether the handle has the file mapped
    answer    \* the call that just ended and its result, or None

vars == <<index, rows, mapped, answer>>

----------------------------------------------------------------------------
(* Building.  Positions on the axis and row numbers count from 0.          *)

AsU64(t) == t % W64

Starts(in) == {i \in DOMAIN in : i = 1 \/ in[i].key # in[i - 1].key}
RunEnd(in, i) ==
    CHOOSE e \in i .. Len(in) :
        /\ \A j \in i + 1 .. e : j \notin Starts(in)
        /\ e = Len(in) \/ e + 1 \in Starts(in)

Keys(in) == {AsU64(in[i].time) : i \in DOMAIN in}
Position(in, i) == Cardinality({k \in Keys(in) : k < AsU64(in[i].time)})
Span(in, i) == Position(in, RunEnd(in, i)) - Position(in, i) + 1

(* Mutant: the span may be longer than the run.                            *)
FitsLoosely(in) ==
    /\ in # <<>>
    /\ \A i \in Starts(in) : Span(in, i) >= RunEnd(in, i) - i + 1

(* MetaBuilder::build refuses an empty input and a run whose first and     *)
(* last time are not as far apart on the axis as the run has rows.         *)
Fits(in) ==
    /\ in # <<>>
    /\ \A i \in Starts(in) : Span(in, i) = RunEnd(in, i) - i + 1

(* Mutant: every record starts on the axis where the first run does.       *)
RecordAtZero(in, i) ==
    [sym |-> in[i].sym, row_start |-> i - 1,
     time_start |-> Position(in, 1), time_count |-> Span(in, i)]

(* row_start is the sum of the spans before it, which are the runs' rows.  *)
Record(in, i) ==
    [sym |-> in[i].sym, row_start |-> i - 1,
     time_start |-> Position(in, i), time_count |-> Span(in, i)]

(* The members of a set in order: before the k-th there are k - 1.         *)
Ascending(S) ==
    [k \in 1 .. Cardinality(S) |->
        CHOOSE x \in S : Cardinality({y \in S : y < x}) = k - 1]

Built(in) ==
    LET keys   == Ascending(Keys(in))
        starts == Ascending(Starts(in))
    IN  [axis |-> [j \in DOMAIN keys |-> keys[j] % WAxis],
         recs |-> [k \in DOMAIN starts |-> Record(in, starts[k])]]

Empty == [axis |-> <<>>, recs |-> <<>>]

----------------------------------------------------------------------------
(* Reading the grid.                                                       *)

RowCount(ix) == IF ix.recs = <<>> THEN 0
                ELSE Last(ix.recs).row_start + Last(ix.recs).time_count
TimeAt(ix, p) == ix.axis[p + 1]

(* The bytes of a slot read as a signed number of the axis' width.         *)
Signed(slot) == IF slot < WAxis \div 2 THEN slot ELSE slot - WAxis

(* locate_row: the last record that starts at or before the row.           *)
LocateRow(ix, r) ==
    LET k == CHOOSE n \in DOMAIN ix.recs :
                /\ ix.recs[n].row_start <= r
                /\ n < Len(ix.recs) => ix.recs[n + 1].row_start > r
    IN  [id |-> k, at |-> ix.recs[k].time_start + (r - ix.recs[k].row_start)]

(* read_index_handle over one row.                                         *)
RowAt(ix, r) ==
    LET l == LocateRow(ix, r)
    IN  [sym |-> ix.recs[l.id].sym, time |-> Signed(TimeAt(ix, l.at))]

(* sym_id_of: a binary search that takes the names to be in order; 0 if it *)
(* finds none.                                                             *)
SymIdOf(ix, name) ==
    LET n == Len(ix.recs)
        search[w \in (0 .. n) \X (0 .. n)] ==
            LET lo  == w[1]
                hi  == w[2]
                mid == lo + (hi - lo) \div 2
                s   == ix.recs[mid + 1].sym
            IN  IF lo >= hi THEN 0
                ELSE IF s < name THEN search[<<mid + 1, hi>>]
                ELSE IF s > name THEN search[<<lo, mid>>]
                ELSE mid + 1
    IN  search[<<0, n>>]

(* axis_lower_bound: the first axis position whose slot is at least v.     *)
LowerBound(ix, v) == Cardinality({j \in DOMAIN ix.axis : ix.axis[j] < v})

----------------------------------------------------------------------------
(* locate_index_generic: two cursors that only move forward, one over the  *)
(* records for each new sym, one over the axis within the record.          *)

Ordered(p, q) == p.sym < q.sym \/ (p.sym = q.sym /\ p.time < q.time)

NotLess(f(_), from, to, v) ==
    LET hits == {j \in from .. to : f(j) >= v}
    IN  IF hits = {} THEN to + 1 ELSE CHOOSE j \in hits : \A k \in hits : j <= k

(* Mutant: the axis cursor of the last sym is kept for the next.           *)
LocateOneNoReset(ix, st, p) ==
    LET fresh == st.last = None \/ st.last.sym # p.sym
        c     == IF fresh
                 THEN NotLess(LAMBDA k : ix.recs[k].sym, st.sym, Len(ix.recs), p.sym)
                 ELSE st.sym
        found == c <= Len(ix.recs) /\ ix.recs[c].sym = p.sym
        start == ix.recs[c].time_start
        end   == start + ix.recs[c].time_count
        t     == NotLess(LAMBDA j : TimeAt(ix, j), st.time, end - 1, AsU64(p.time))
    IN  IF /\ st.ok
           /\ st.last # None => Ordered(st.last, p)
           /\ found
           /\ t < end
           /\ TimeAt(ix, t) = AsU64(p.time)
        THEN [ok |-> TRUE, sym |-> c, time |-> t, last |-> p,
              found |-> Append(st.found, ix.recs[c].row_start + (t - start))]
        ELSE [st EXCEPT !.ok = FALSE]

LocateOne(ix, st, p) ==
    LET fresh == st.last = None \/ st.last.sym # p.sym
        c     == IF fresh
                 THEN NotLess(LAMBDA k : ix.recs[k].sym, st.sym, Len(ix.recs), p.sym)
                 ELSE st.sym
        found == c <= Len(ix.recs) /\ ix.recs[c].sym = p.sym
        start == ix.recs[c].time_start
        end   == start + ix.recs[c].time_count
        t     == NotLess(LAMBDA j : TimeAt(ix, j),
                         IF fresh THEN start ELSE st.time, end - 1, AsU64(p.time))
    IN  IF /\ st.ok
           /\ st.last # None => Ordered(st.last, p)
           /\ found
           /\ t < end
           /\ TimeAt(ix, t) = AsU64(p.time)
        THEN [ok |-> TRUE, sym |-> c, time |-> t, last |-> p,
              found |-> Append(st.found, ix.recs[c].row_start + (t - start))]
        ELSE [st EXCEPT !.ok = FALSE]

(* The rows of all pairs, or None: one key that is missing fails the call. *)
Located(ix, pairs) ==
    LET end == FoldLeft(LAMBDA st, p : LocateOne(ix, st, p),
                        [ok |-> TRUE, sym |-> 1, time |-> 0, last |-> None,
                         found |-> <<>>], pairs)
    IN  IF end.ok THEN end.found ELSE None

----------------------------------------------------------------------------
(* scan_index_handle.  A predicate compiles to the ids of syms, with how   *)
(* often each is listed (or all ids, each once), and one window [lo, hi)   *)
(* on the axis.  The code's list of ids is in order wherever it matters.   *)

Least(a, b) == IF a < b THEN a ELSE b
Greatest(a, b) == IF a > b THEN a ELSE b

(* `as u64`: an Int wraps, a Float is cut off towards 0 and saturates.     *)
Unsigned(v) ==
    IF v.kind = "Float"
    THEN IF v.half < 0 THEN 0 ELSE Least(v.half \div 2, W64 - 1)
    ELSE AsU64(v.half \div 2)

NoIds == [i \in {} |-> 1]

SymAtom(ix, acc, atom) ==
    LET id == SymIdOf(ix, atom.name)
    IN  CASE atom.op # "Eq" -> acc
          [] atom.op = "Eq" /\ id = 0 -> [acc EXCEPT !.all = FALSE, !.ids = NoIds]
          [] atom.op = "Eq" /\ id # 0 ->
                [acc EXCEPT !.all = FALSE,
                            !.ids = IF acc.all THEN [i \in {id} |-> 1]
                                    ELSE [i \in DOMAIN @ \cap {id} |-> @[i]]]

(* An Or of syms is united with what there is; only then are duplicates    *)
(* removed.                                                                *)
OrAtom(ix, acc, atom) ==
    LET named(i) == {n \in DOMAIN atom.names : SymIdOf(ix, atom.names[n]) = i}
        ids      == {i \in DOMAIN ix.recs : named(i) # {}}
    IN  [acc EXCEPT !.all = FALSE,
                    !.ids = IF acc.all THEN [i \in ids |-> Cardinality(named(i))]
                            ELSE [i \in DOMAIN @ \cup ids |-> 1]]

(* Mutant: `time <= v` leaves v out.                                       *)
TimeAtomShort(ix, acc, atom) ==
    LET v     == Unsigned(atom.value)
        lower == LowerBound(ix, v)
        upper == LowerBound(ix, Least(v + 1, W64 - 1))
    IN  [acc EXCEPT
            !.lo = CASE atom.op \in {"Eq", "Ge"} -> Greatest(@, lower)
                     [] atom.op = "Gt"           -> Greatest(@, upper)
                     [] OTHER                    -> @,
            !.hi = CASE atom.op = "Eq"           -> Least(@, upper)
                     [] atom.op \in {"Le", "Lt"} -> Least(@, lower)
                     [] OTHER                    -> @]

TimeAtom(ix, acc, atom) ==
    LET v     == Unsigned(atom.value)
        lower == LowerBound(ix, v)
        upper == LowerBound(ix, Least(v + 1, W64 - 1))
    IN  [acc EXCEPT
            !.lo = CASE atom.op \in {"Eq", "Ge"} -> Greatest(@, lower)
                     [] atom.op = "Gt"           -> Greatest(@, upper)
                     [] OTHER                    -> @,
            !.hi = CASE atom.op \in {"Eq", "Le"} -> Least(@, upper)
                     [] atom.op = "Lt"           -> Least(@, lower)
                     [] OTHER                    -> @]

CompileNode(ix, acc, atom) ==
    CASE atom.on = "sym"    -> SymAtom(ix, acc, atom)
      [] atom.on = "or"     -> OrAtom(ix, acc, atom)
      [] atom.on = "time"   -> TimeAtom(ix, acc, atom)
      [] atom.on = "opaque" -> acc

Compiled(ix, pred) ==
    FoldLeft(LAMBDA acc, atom : CompileNode(ix, acc, atom),
             [all |-> TRUE, ids |-> NoIds, lo |-> 0, hi |-> Len(ix.axis)], pred)

(* The rows of one record inside the window.                               *)
Window(rec, lo, hi) ==
    {rec.row_start + (j - rec.time_start) :
        j \in Greatest(lo, rec.time_start)
              .. Least(hi, rec.time_start + rec.time_count) - 1}

Lowest(n, S) == {r \in S : Cardinality({q \in S : q < r}) < n}

(* Records are taken in order until the records before have produced as    *)
(* many rows as the limit, each row counted as often as its id is listed.  *)
Produced(ix, c, limit) ==
    LET ids       == IF c.all THEN DOMAIN ix.recs ELSE DOMAIN c.ids
        listed(i) == IF c.all THEN 1 ELSE c.ids[i]
        window(i) == Window(ix.recs[i], c.lo, c.hi)
        before(i) == UNION {window(e) \X (1 .. listed(e)) : e \in {j \in ids : j < i}}
    IN  UNION {window(i) :
            i \in {j \in ids : limit # None => Cardinality(before(j)) < limit}}

(* Only then the candidate ranges of the request, and the limit once more  *)
(* while the scanner is read to its end.                                   *)
Scanned(ix, req) ==
    LET all  == Produced(ix, Compiled(ix, req.pred), req.limit)
        here == IF req.within = None THEN all ELSE all \cap req.within
    IN  IF req.limit = None THEN here ELSE Lowest(req.limit, here)

----------------------------------------------------------------------------
Init == index = None /\ rows = <<>> /\ mapped = TRUE /\ answer = None

Answer(call, arg, result) == answer' = [call |-> call, arg |-> arg, result |-> result]

(* create_index: 64 bytes of header and an empty dictionary.               *)
CreateEmpty ==
    /\ answer = None
    /\ index = None
    /\ index' = Empty
    /\ rows' = <<>>
    /\ Answer("create", None, TRUE)
    /\ UNCHANGED mapped

(* init_index on a free path and update_index of an open handle: a refused *)
(* input leaves the index as it was.                                       *)
Build(in) ==
    /\ Answer("build", in, Fits(in))
    /\ IF Fits(in) THEN index' = Built(in) /\ rows' = in /\ mapped' = TRUE
                   ELSE UNCHANGED <<index, rows, mapped>>

InitIndex == answer = None /\ index = None /\ \E in \in Inputs : Build(in)
UpdateIndex == answer = None /\ index # None /\ \E in \in Inputs : Build(in)

(* update_index puts one byte in the place of its mapping, then renames.   *)
(* When that fails the file is the old one, and the handle keeps the old   *)
(* header over the byte: it has no row to answer with (slicing panics),    *)
(* until an update succeeds or the file is opened again.  (An error before *)
(* that changes nothing.)                                                  *)
UpdateFails ==
    /\ answer = None
    /\ index # None
    /\ mapped' = FALSE
    /\ Answer("failed", None, None)
    /\ UNCHANGED <<index, rows>>

(* open_index                                                              *)
Open ==
    /\ answer = None
    /\ index # None /\ ~mapped
    /\ mapped' = TRUE
    /\ UNCHANGED <<index, rows, answer>>

(* drop_index closes the handle and removes the file.                      *)
DropIndex ==
    /\ answer = None
    /\ index # None
    /\ index' = None
    /\ rows' = <<>>
    /\ mapped' = TRUE
    /\ Answer("drop", None, TRUE)

(* A query changes nothing.                                                *)
MayAsk == answer = None /\ index # None /\ mapped
Ask(call, arg, result) == Answer(call, arg, result) /\ UNCHANGED <<index, rows, mapped>>

Read ==
    /\ MayAsk
    /\ \E offset, length \in 0 .. RowCount(index) + 1 :
         Ask("read", [offset |-> offset, length |-> length],
             IF offset + length > RowCount(index) THEN None
             ELSE [i \in 1 .. length |-> RowAt(index, offset + i - 1)])

Locate == MayAsk /\ \E ps \in PairLists : Ask("locate", ps, Located(index, ps))

Scan ==
    /\ MayAsk
    /\ \E pred \in Predicates(rows), within \in Withins, limit \in Limits :
         LET req == [pred |-> pred, within |-> within, limit |-> limit]
         IN  Ask("scan", req, Scanned(index, req))

(* The caller takes the answer: one call at a time.                        *)
Return ==
    /\ answer # None
    /\ answer' = None
    /\ UNCHANGED <<index, rows, mapped>>

Next ==
    \/ CreateEmpty \/ InitIndex \/ UpdateIndex \/ UpdateFails \/ Open \/ DropIndex
    \/ Read \/ Locate \/ Scan \/ Return

Spec == Init /\ [][Next]_vars

----------------------------------------------------------------------------
RowRecord == [sym : Nat, row_start : Nat, time_start : Nat, time_count : Nat]

TypeOK ==
    /\ mapped \in BOOLEAN
    /\ rows \in Inputs \cup {<<>>}
    /\ index # None => /\ index.axis \in Seq(0 .. WAxis - 1)
                       /\ index.recs \in Seq(RowRecord)

(* INVARIANT: whatever input was accepted, in order or not, the records    *)
(* tile the rows without gap or overlap, every record lies on the axis,    *)
(* and the axis ascends: no query can read past the mapping, if the handle *)
(* has one, or miss a row.                                                 *)
GridTiles ==
    index # None =>
        /\ \A i, j \in DOMAIN index.axis : i < j => index.axis[i] < index.axis[j]
        /\ RowCount(index) = Len(rows)
        /\ \A k \in DOMAIN index.recs :
             LET rec == index.recs[k]
             IN  /\ rec.row_start = IF k = 1 THEN 0
                                    ELSE index.recs[k - 1].row_start
                                         + index.recs[k - 1].time_count
                 /\ rec.time_count > 0
                 /\ rec.time_start + rec.time_count <= Len(index.axis)

(* What meta_file.rs asks of the times of a sym: a stretch of the axis     *)
(* without a gap.                                                          *)
NoGap(in) ==
    \A i \in 1 .. Len(in) - 1 : in[i].sym = in[i + 1].sym =>
        ~\E j \in DOMAIN in : in[i].time < in[j].time /\ in[j].time < in[i + 1].time

StrictlyOrdered(ps) == \A i \in 1 .. Len(ps) - 1 : Ordered(ps[i], ps[i + 1])
(* One dictionary for all of sym, and times an axis slot can hold.         *)
InOrder(in) ==
    /\ StrictlyOrdered(in)
    /\ \A i \in DOMAIN in : in[i].key = in[i].sym /\ in[i].time \in 0 .. WAxis \div 2 - 1

(* INVARIANT: of the inputs in order, exactly those without a gap in the   *)
(* times of a sym are accepted.                                            *)
GapsRefused ==
    answer # None /\ answer.call = "build" /\ InOrder(answer.arg) =>
        answer.result = (answer.arg # <<>> /\ NoGap(answer.arg))

(* INVARIANT: any stretch of an index built from an input in order reads   *)
(* back that input, row for row.                                           *)
ReadsInput ==
    answer # None /\ answer.call = "read" /\ answer.result # None /\ InOrder(rows) =>
        \A i \in DOMAIN answer.result :
            LET in == rows[answer.arg.offset + i]
            IN  answer.result[i] = [sym |-> in.sym, time |-> in.time]

HasPair(p) == \E i \in DOMAIN rows : rows[i].sym = p.sym /\ rows[i].time = p.time

(* INVARIANT: on an index built from an input in order, locate succeeds    *)
(* exactly if its keys are in order and all there, and then names the row  *)
(* of each key.                                                            *)
LocateExact ==
    answer # None /\ answer.call = "locate" /\ InOrder(rows) =>
        IF StrictlyOrdered(answer.arg) /\ \A i \in DOMAIN answer.arg : HasPair(answer.arg[i])
        THEN /\ answer.result # None
             /\ Len(answer.result) = Len(answer.arg)
             /\ \A i \in DOMAIN answer.arg :
                  LET in == rows[answer.result[i] + 1]
                  IN  in.sym = answer.arg[i].sym /\ in.time = answer.arg[i].time
        ELSE answer.result = None

(* INVARIANT: whatever input was accepted, a row locate names reads back   *)
(* as the key it was asked for.                                            *)
LocateReadsBack ==
    answer # None /\ answer.call = "locate" /\ answer.result # None =>
        \A i \in DOMAIN answer.arg :
            /\ answer.result[i] \in 0 .. RowCount(index) - 1
            /\ RowAt(index, answer.result[i]) = answer.arg[i]

(* The rows of the input a predicate holds of; what the index does not     *)
(* look at holds of every row.                                             *)
Compares(op, a, b) ==
    CASE op = "Eq" -> a = b [] op = "Ne" -> a # b [] op = "Lt" -> a < b
      [] op = "Le" -> a <= b [] op = "Gt" -> a > b [] op = "Ge" -> a >= b
Holds(in, atom) ==
    CASE atom.on = "sym"    -> Compares(atom.op, in.sym, atom.name)
      [] atom.on = "or"     -> in.sym \in Range(atom.names)
      [] atom.on = "time"   -> Compares(atom.op, 2 * in.time, atom.value.half)
      [] atom.on = "opaque" -> TRUE
Matching(pred) == {i - 1 : i \in {n \in DOMAIN rows : \A a \in DOMAIN pred : Holds(rows[n], pred[a])}}

(* A scalar that is one of the times a slot can hold.                      *)
OnAxis(v) == v.half % 2 = 0 /\ v.half >= 0 /\ v.half < 2 * W64
Plain(pred) == \A a \in DOMAIN pred : pred[a].on = "time" => OnAxis(pred[a].value)

(* Conjunctions the index can decide: at most one atom about syms, no Ne.  *)
Decidable(pred) ==
    /\ Plain(pred)
    /\ \A a \in DOMAIN pred :
         /\ pred[a].on # "opaque"
         /\ pred[a].on \in {"sym", "time"} => pred[a].op # "Ne"
         /\ pred[a].on = "sym" => pred[a].op = "Eq"
         /\ \A b \in DOMAIN pred : a # b => {pred[a].on, pred[b].on} \cap {"sym", "or"} = {}
                                            \/ "time" \in {pred[a].on, pred[b].on}

Wanted(req) == IF req.within = None THEN Matching(req.pred)
               ELSE Matching(req.pred) \cap req.within

(* INVARIANT: without a limit a scan of an index in order never misses a   *)
(* row its predicate holds of, whatever the index ignores, as long as      *)
(* every time scalar is one an axis slot can hold.                         *)
ScanComplete ==
    answer # None /\ answer.call = "scan" /\ answer.arg.limit = None
        /\ Plain(answer.arg.pred) /\ InOrder(rows) => Wanted(answer.arg) \subseteq answer.result

(* No Or names a sym twice.                                                *)
NamedOnce(pred) ==
    \A a \in DOMAIN pred : pred[a].on = "or" => IsInjective(pred[a].names)

(* INVARIANT: a conjunction the index can decide it decides exactly, and   *)
(* with a limit (and no sym named twice) it returns the first rows that    *)
(* match.  Otherwise it returns only such rows and no more than the limit, *)
(* but may end before the limit is met: the rows counted on the way are    *)
(* then not those of the answer.                                           *)
ScanExact ==
    answer # None /\ answer.call = "scan" /\ Decidable(answer.arg.pred) /\ InOrder(rows) =>
        IF answer.arg.limit = None THEN answer.result = Wanted(answer.arg)
        ELSE /\ answer.result \subseteq Wanted(answer.arg)
             /\ Cardinality(answer.result) <= answer.arg.limit
             /\ answer.arg.within = None /\ NamedOnce(answer.arg.pred) =>
                    answer.result = Lowest(answer.arg.limit, Wanted(answer.arg))

(* INVARIANT: whatever input was accepted, the index is one no query can   *)
(* read past (but with a handle that lost its mapping, UpdateFails), and a *)
(* located row is the row of its key (MetaBuilder::build, locate_pairs).   *)
SoundForAnyInput == TypeOK /\ GridTiles /\ LocateReadsBack

(* INVARIANT: reading and locating on an index in order answer what the    *)
(* input says (MetaReader, locate_pairs).                                  *)
PointsExact == ReadsInput /\ LocateExact

(* INVARIANT: scans of an index in order miss nothing and, where the index *)
(* understands the predicate, find nothing else (MetaScanner).             *)
ScansExact == ScanComplete /\ ScanExact
============================================================================
