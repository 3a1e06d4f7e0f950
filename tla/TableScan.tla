----------------------------- MODULE TableScan -----------------------------
(***************************************************************************)
(* A query of a table (splayed-table, query.rs): scan_table prunes the     *)
(* partitions by the time asked for and opens none; TableScanner opens and *)
(* scans one after the other as its ranges are wanted; TableBatchReader    *)
(* reads them and puts batches together.  Another process may delete       *)
(* partitions at any time, and a partition may lack a field: a call then   *)
(* returns an error, and the caller may go on with the next call.          *)
(*                                                                         *)
(* A partition's name is a record of PartitionCalendar; times are days     *)
(* (Date32).  What a dataset answers to a request and what is asked of it  *)
(* are constants, whose values TableQuery works out; what rows contain is  *)
(* read through mapped files and is not part of the state.                 *)
(***************************************************************************)
EXTENDS PartitionCalendar, RowRanges

CONSTANTS
    Tables,     \* tables: [scheme, parts |-> [rows, cols] by name]
    Requests,   \* [sym, time, pred, limit, proj, batch], each may be Unset;
                \* time |-> <<from, to>>, proj |-> a set of fields
    Found,      \* by table, request, partition: the ranges a scan finds, or Failed
    Needed,     \* by request: the fields a scan that does not fail opens
    Wanted      \* by table, request, partition: the rows asked for

(* Unset is nothing else.                                                  *)
ASSUME UnsetAssumption ==
    /\ Unset \notin Nat /\ Unset \notin Int \X Int /\ Unset \notin Requests
    /\ \A t \in Tables :
          /\ Unset \notin Seq(DOMAIN t.parts)
          /\ Unset \notin [part : DOMAIN t.parts, range : Nat \X Nat]
          /\ \A p \in DOMAIN t.parts : \A s \in SUBSET DOMAIN t.parts[p].cols : Unset # s

ASSUME RequestAssumption ==
    \A r \in Requests :
        /\ r.limit \in Nat \cup {Unset} /\ r.batch \in Nat \cup {Unset}
        /\ r.time \in (Int \X Int) \cup {Unset}

(* write_table: a partition has rows, and its name is that of their times. *)
(* Directories have different names.  open_table: a root that is its one   *)
(* partition has a META.                                                   *)
ASSUME TableAssumption ==
    \A t \in Tables :
        /\ t.scheme \in Schemes /\ IsFiniteSet(DOMAIN t.parts)
        /\ t.scheme = "none" => DOMAIN t.parts # {}
        /\ \A p \in DOMAIN t.parts :
              LET rows == t.parts[p].rows
              IN  /\ Len(rows) \in Nat \ {0} /\ DOMAIN rows = 1 .. Len(rows)
                  /\ \A i \in DOMAIN rows :
                        rows[i].time \in Int /\ PartitionName(t.scheme, rows[i].time, "date32") = p
        /\ \A p, q \in DOMAIN t.parts :
              NameText(p) \in Seq(Int) /\ (NameText(p) = NameText(q) => p = q)

(* Ranges as every scan hands them out.                                    *)
Ascending(ranges) ==
    /\ \A i \in DOMAIN ranges : ranges[i][2] > 0
    /\ \A i, j \in DOMAIN ranges : i < j => EndOf(ranges[i]) <= ranges[j][1]

(* scan_dataset: a scan that does not fail finds the rows asked for, in    *)
(* order, and those lie in the time asked for.                             *)
ASSUME AnswerAssumption ==
    \A t \in Tables, r \in Requests : \A p \in DOMAIN t.parts :
        LET found == Found[t][r][p]
            rows == t.parts[p].rows
        IN  /\ found # Failed =>
                  /\ found \in Seq(Nat \X Nat) /\ Ascending(found)
                  /\ RowsIn(found) = Wanted[t][r][p]
                  /\ Needed[r] \subseteq DOMAIN t.parts[p].cols
            /\ Wanted[t][r][p] \subseteq 0 .. Len(rows) - 1
            /\ r.time # Unset =>
                  \A k \in Wanted[t][r][p] :
                      r.time[1] <= rows[k + 1].time /\ rows[k + 1].time < r.time[2]

VARIABLES
    table,      \* what is queried, one of Tables
    there,      \* the names of the partitions on disk
    open,       \* the datasets the table handle has open: the fields opened
                \* of each, or Unset
    req,        \* the request, or Unset
    scan,       \* TableScanner: [parts, next, cur, ranges, room, left], the
                \* ranges and the room being those of its DatasetScanner
    reader,     \* TableBatchReader: [proj, pending, ended]
    call,       \* a call of next: [at, take, rows]; at "idle" there is none
    out,        \* the batches given out: sequences of <<partition, row>>
    failed,     \* history: some call has returned an error
    answer      \* history: the rows asked for, as the table was then

vars == <<table, there, open, req, scan, reader, call, out, failed, answer>>

Datasets == table.parts
Names == DOMAIN table.parts

Row(p, r) == <<p, r>>

----------------------------------------------------------------------------
(* What is asked for, without pruning: partitions in the order of time if  *)
(* a time is given, else of names, and in each the rows as they are.       *)
Asked(r, names) == UNION {{Row(p, k) : k \in Wanted[table][r][p]} : p \in names}

FirstTime(p) == Datasets[p].rows[1].time
Earlier(p, q) ==
    IF req.time = Unset THEN TextBefore(NameText(p), NameText(q)) ELSE FirstTime(p) < FirstTime(q)
Before(a, b) == IF a[1] = b[1] THEN a[2] < b[2] ELSE Earlier(a[1], b[1])

----------------------------------------------------------------------------
Idle == [at |-> "idle", take |-> Unset, rows |-> <<>>]

Init ==
    /\ table \in Tables
    /\ there = DOMAIN table.parts
    /\ open = [p \in DOMAIN table.parts |-> Unset]
    /\ req = Unset
    /\ scan = [parts |-> <<>>, next |-> 1, cur |-> Unset, ranges |-> <<>>,
               room |-> Unset, left |-> Unset]
    /\ reader = [proj |-> {}, pending |-> Unset, ended |-> FALSE]
    /\ call = [Idle EXCEPT !.at = "new"]
    /\ out = <<>> /\ failed = FALSE /\ answer = {}

(* discover_partitions; the root is the one partition of scheme none, and  *)
(* is not looked for.                                                      *)
Root == [scheme |-> "none"]
Discovered == IF table.scheme = "none" THEN <<Root>> ELSE InNameOrder(there)

(* The partitions whose days meet [lo, hi), in the order of time: from the *)
(* first that ends behind lo, as long as they start before hi.  Unset if a *)
(* name has no days, or there is no partition whose META tells the type of *)
(* the times.                                                              *)
Days(p) == PartitionRange(table.scheme, p, "date32")
InTimeOrder(names) ==
    [i \in 1 .. Cardinality(names) |->
        CHOOSE p \in names : Cardinality({q \in names : Days(q)[1] < Days(p)[1]}) = i - 1]
EndingAfter(parts, lo) ==
    SubSeq(parts, FirstOf({i \in DOMAIN parts : Days(parts[i])[2] > lo} \cup {Len(parts) + 1}), Len(parts))
StartingBefore(parts, hi) ==
    SubSeq(parts, 1, FirstOf({i \in DOMAIN parts : Days(parts[i])[1] >= hi} \cup {Len(parts) + 1}) - 1)

(* Mutant: in the order of the names.                                      *)
PrunedByName(lo, hi) ==
    IF Discovered = <<>> \/ \E i \in DOMAIN Discovered : Days(Discovered[i]) = None
    THEN Unset
    ELSE StartingBefore(EndingAfter(Discovered, lo), hi)

Pruned(lo, hi) ==
    IF Discovered = <<>> \/ \E i \in DOMAIN Discovered : Days(Discovered[i]) = None
    THEN Unset
    ELSE StartingBefore(EndingAfter(InTimeOrder(Range(Discovered)), lo), hi)

(* scan_table and query_table: no dataset is opened.                       *)
Start(r, parts) ==
    IF parts = Unset
    THEN /\ call' = [call EXCEPT !.at = "refused"]
         /\ failed' = TRUE
         /\ UNCHANGED <<scan, reader>>
    ELSE /\ call' = Idle
         /\ scan' = [scan EXCEPT !.parts = parts, !.left = r.limit]
         /\ reader' = [reader EXCEPT !.proj = r.proj]
         /\ UNCHANGED failed

ScanTable(r) ==
    /\ call.at = "new"
    /\ req' = r
    /\ answer' = Asked(r, IF table.scheme = "none" THEN Names ELSE there)
    /\ Start(r, IF r.time = Unset THEN Discovered ELSE Pruned(r.time[1], r.time[2]))
    /\ UNCHANGED <<table, there, open, out>>

----------------------------------------------------------------------------
(* TableBatchReader.next.  A call that fails loses what it had put         *)
(* together and what it had taken.                                         *)
Fail ==
    /\ call' = Idle
    /\ failed' = TRUE
    /\ UNCHANGED out

Return(rows) ==
    /\ call' = IF reader'.ended THEN [Idle EXCEPT !.at = "done"] ELSE Idle
    /\ out' = IF rows = <<>> THEN out ELSE Append(out, rows)
    /\ UNCHANGED failed

(* A batch size of 0 is an error; without one, ranges are given out as     *)
(* they are.                                                               *)
CallNext ==
    /\ call.at = "idle" /\ req # Unset
    /\ IF req.batch = 0 THEN Fail
       ELSE /\ call' = [call EXCEPT !.at = IF req.batch = Unset THEN "pull" ELSE "resolve"]
            /\ UNCHANGED <<out, failed>>
    /\ UNCHANGED <<table, there, open, req, scan, reader, answer>>

(* dataset_for: a dataset once opened stays open.                          *)
CanOpen(p) == p \in Names /\ (open[p] # Unset \/ p \in there)
Opened(p) == IF open[p] = Unset THEN {} ELSE open[p]

(* resolve_projection: no projection is every field of the last partition, *)
(* which is opened for its schema.  With ranges as they are, one has been  *)
(* taken before.                                                           *)
Resolve ==
    LET last == IF Discovered = <<>> THEN Unset ELSE Last(Discovered)
    IN  /\ call.at = "resolve"
        /\ IF reader.proj # {} \/ CanOpen(last)
           THEN /\ call' = [call EXCEPT !.at = IF req.batch = Unset THEN "read" ELSE "pull"]
                /\ IF reader.proj # {} THEN UNCHANGED <<reader, open>>
                   ELSE /\ reader' = [reader EXCEPT !.proj = DOMAIN Datasets[last].cols]
                        /\ open' = [open EXCEPT ![last] = Opened(last)]
                /\ UNCHANGED <<out, failed>>
           ELSE Fail /\ UNCHANGED <<reader, open>>
        /\ UNCHANGED <<table, there, req, scan, answer>>

(* pull_range: what is left of the last range first.                       *)
Take(p, r) ==
    call' = [call EXCEPT !.at = IF req.batch = Unset THEN "resolve" ELSE "read",
                         !.take = [part |-> p, range |-> r]]

PullPending ==
    /\ call.at = "pull" /\ reader.pending # Unset
    /\ Take(reader.pending.part, reader.pending.range)
    /\ reader' = [reader EXCEPT !.pending = Unset]
    /\ UNCHANGED <<table, there, open, req, scan, out, failed, answer>>

(* TableScanner.next.                                                      *)
(* Mutant: the limit is left to the datasets.                              *)
LimitMetNever == FALSE

LimitMet == scan.left = 0

(* A range of the partition that is open, cut to what is left of the limit *)
(* by the dataset's scanner, which drops its other ranges when that is     *)
(* nothing, and then once more.                                            *)
CutTo(n, limit) == IF limit = Unset THEN n ELSE Lower(n, limit)
Less(limit, n) == IF limit = Unset THEN Unset ELSE limit - n

PullRange ==
    LET r == Head(scan.ranges)
        handed == CutTo(r[2], scan.room)
        n == CutTo(handed, scan.left)
    IN  /\ call.at = "pull" /\ reader.pending = Unset
        /\ ~LimitMet /\ scan.ranges # <<>>
        /\ Take(scan.cur, <<r[1], n>>)
        /\ scan' = [scan EXCEPT !.ranges = IF scan.room = handed THEN <<>> ELSE Tail(@),
                                !.room = Less(@, handed), !.left = Less(@, n)]
        /\ UNCHANGED <<table, there, open, req, reader, out, failed, answer>>

(* The next partition, with what is left of the limit.  A partition that   *)
(* fails has been passed.  (Fields that a failing scan had opened are not  *)
(* read any more.)                                                         *)
FieldsFor(found) == IF found = Failed THEN {} ELSE Needed[req]
Openable(p, found) ==
    CanOpen(p) /\ (p \in there \/ FieldsFor(found) \subseteq Opened(p)) /\ found # Failed

(* Mutant: a partition that cannot be opened is tried again.               *)
OpenNextAgain(p, found) ==
    IF Openable(p, found)
    THEN /\ scan' = [scan EXCEPT !.next = @ + 1, !.cur = p, !.ranges = found, !.room = scan.left]
         /\ open' = [open EXCEPT ![p] = Opened(p) \cup FieldsFor(found)]
         /\ UNCHANGED <<call, out, failed>>
    ELSE /\ UNCHANGED scan
         /\ open' = IF CanOpen(p) THEN [open EXCEPT ![p] = Opened(p)] ELSE open
         /\ Fail

OpenNext(p, found) ==
    IF Openable(p, found)
    THEN /\ scan' = [scan EXCEPT !.next = @ + 1, !.cur = p, !.ranges = found, !.room = scan.left]
         /\ open' = [open EXCEPT ![p] = Opened(p) \cup FieldsFor(found)]
         /\ UNCHANGED <<call, out, failed>>
    ELSE /\ scan' = [scan EXCEPT !.next = @ + 1]
         /\ open' = IF CanOpen(p) THEN [open EXCEPT ![p] = Opened(p)] ELSE open
         /\ Fail

PullOpen ==
    LET p == scan.parts[scan.next]
    IN  /\ call.at = "pull" /\ reader.pending = Unset
        /\ ~LimitMet /\ scan.ranges = <<>> /\ scan.next <= Len(scan.parts)
        /\ OpenNext(p, Found[table][req][p])
        /\ UNCHANGED <<table, there, req, reader, answer>>

(* Nothing left: the last batch may be short; later calls return None.     *)
PullEnd ==
    /\ call.at = "pull" /\ reader.pending = Unset
    /\ LimitMet \/ (scan.ranges = <<>> /\ scan.next > Len(scan.parts))
    /\ reader' = [reader EXCEPT !.ended = TRUE]
    /\ Return(call.rows)
    /\ UNCHANGED <<table, there, open, req, scan, answer>>

(* A batch takes what it has room for, and keeps the rest of the range.    *)
(* Mutant: the room of an empty batch.                                     *)
RoomOfAll(t) == Lower(t.range[2], req.batch)

Room(t) == Lower(t.range[2], req.batch - Len(call.rows))

(* Mutant: the rest starts where the range does.                           *)
RestFromStart(t, n) ==
    IF n = t.range[2] THEN Unset ELSE [part |-> t.part, range |-> <<t.range[1], t.range[2] - n>>]

Rest(t, n) ==
    IF n = t.range[2] THEN Unset
    ELSE [part |-> t.part, range |-> <<t.range[1] + n, t.range[2] - n>>]

(* read_rows, through the dataset that is open: its fields are opened all  *)
(* or none.                                                                *)
ReadRows ==
    LET t == call.take
        cols == reader.proj \ Reserved
        n == IF req.batch = Unset THEN t.range[2] ELSE Room(t)
        rows == call.rows \o [k \in 1 .. n |-> Row(t.part, t.range[1] + k - 1)]
    IN  /\ call.at = "read"
        /\ IF /\ cols \subseteq DOMAIN Datasets[t.part].cols
              /\ t.part \in there \/ cols \subseteq Opened(t.part)
           THEN /\ open' = [open EXCEPT ![t.part] = @ \cup cols]
                /\ reader' = [reader EXCEPT !.pending = Rest(t, n)]
                /\ IF req.batch = Unset \/ Len(rows) >= req.batch
                   THEN Return(rows)
                   ELSE /\ call' = [at |-> "pull", take |-> Unset, rows |-> rows]
                        /\ UNCHANGED <<out, failed>>
           ELSE Fail /\ UNCHANGED <<open, reader>>
        /\ UNCHANGED <<table, there, req, scan, answer>>

(* Another process deletes a partition.                                    *)
Vanish(p) ==
    /\ p \in there
    /\ there' = there \ {p}
    /\ UNCHANGED <<table, open, req, scan, reader, call, out, failed, answer>>

Reading == CallNext \/ Resolve \/ PullPending \/ PullRange \/ PullOpen \/ PullEnd \/ ReadRows

Next ==
    \/ \E r \in Requests : ScanTable(r)
    \/ Reading
    \/ \E p \in Names : Vanish(p)

(* A call runs in its thread to its end, and the caller calls until there  *)
(* is nothing more, also after an error.                                   *)
Spec == Init /\ [][Next]_vars /\ WF_vars(Reading)

----------------------------------------------------------------------------
RangesOf(t) == t = Unset \/ (t.part \in Names /\ Len(t.range) = 2 /\ t.range[2] > 0)

(* INVARIANT: the shape of the state; while ranges are pulled, a batch has *)
(* room, and what is taken is a range of an open dataset                   *)
(* (TableBatchReader.next_batch).                                          *)
TypeOK ==
    /\ table \in Tables /\ there \subseteq Names /\ req \in Requests \cup {Unset}
    /\ \A p \in Names : open[p] = Unset \/ open[p] \subseteq DOMAIN Datasets[p].cols
    /\ scan.next \in 1 .. Len(scan.parts) + 1 /\ (scan.left = Unset \/ scan.left \in Nat)
    /\ call.at \in {"new", "refused", "idle", "resolve", "pull", "read", "done"}
    /\ RangesOf(reader.pending) /\ RangesOf(call.take)
    /\ call.take # Unset => open[call.take.part] # Unset
    /\ call.at \in {"pull", "read"} /\ req.batch # Unset => Len(call.rows) < req.batch
    /\ call.at = "done" <=> reader.ended

(* INVARIANT: whatever fails on the way, the rows given out are rows asked *)
(* for, in their order, none of them twice, and no more than the limit     *)
(* (TableScanner.next, next_batch, which cut and keep ranges).             *)
Given == UNION {Range(out[i]) : i \in DOMAIN out}
GivenInOrder ==
    /\ Given \subseteq answer
    /\ \A i \in DOMAIN out : \A k, l \in DOMAIN out[i] : k < l => Before(out[i][k], out[i][l])
    /\ \A i, j \in DOMAIN out :
          i < j => \A a \in Range(out[i]), b \in Range(out[j]) : Before(a, b)
    /\ req # Unset => (req.limit # Unset => Cardinality(Given) <= req.limit)

(* INVARIANT: a query that ends without an error has given out every row   *)
(* asked for, or as many as the limit says and none of those behind a row  *)
(* it left out: no pruning, index or batch leaves one out (scan_table,     *)
(* scan_dataset).                                                          *)
AnswerWhole ==
    call.at = "done" /\ ~failed =>
        IF req.limit = Unset THEN Given = answer
        ELSE /\ Cardinality(Given) = Lower(req.limit, Cardinality(answer))
             /\ \A a \in Given, b \in answer \ Given : Before(a, b)

(* INVARIANT: batches have exactly the size asked for, but for the last of *)
(* an ended query, which is not empty (next_batch).                        *)
BatchesFull ==
    /\ TypeOK
    /\ \A i \in DOMAIN out :
         /\ out[i] # <<>>
         /\ req.batch # Unset =>
              \/ Len(out[i]) = req.batch
              \/ i = Len(out) /\ reader.ended /\ Len(out[i]) < req.batch

(* INVARIANT: as long as nothing failed, the scan has opened no partition  *)
(* outside the time asked for, and none behind the one that reaches the    *)
(* limit (TableScanner.next: the limit is looked at before a partition is  *)
(* opened); one more may be open for its schema.                           *)
Tried == {scan.parts[i] : i \in 1 .. scan.next - 1}
OpensFew ==
    req # Unset /\ ~failed =>
        /\ \A p \in Names : open[p] # Unset /\ p \notin Tried => req.proj = {}
        /\ \A i \in 1 .. scan.next - 1 :
             LET before == {scan.parts[k] : k \in 1 .. i - 1}
                 days == Days(scan.parts[i])
             IN  /\ req.limit # Unset =>
                      Cardinality({a \in answer : a[1] \in before}) < req.limit
                 /\ req.time # Unset => days[1] < req.time[2] /\ req.time[1] < days[2]

(* PROPERTY: a caller that keeps calling comes to the end, whatever fails  *)
(* and vanishes on the way: an error is not met a second time              *)
(* (TableScanner.next advances before it opens a partition).  Only without *)
(* a projection, when no partition is left to tell the fields, next_batch  *)
(* fails every time.                                                       *)
ReadEnds ==
    (call.at = "idle" /\ req.batch # 0)
        ~> (call.at = "done" \/ (reader.proj = {} /\ there = {}))
=============================================================================
