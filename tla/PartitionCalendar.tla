------------------------- MODULE PartitionCalendar -------------------------
(***************************************************************************)
(* Partitions by time (splayed-table, partition.rs, and the splitting of   *)
(* input rows in table.rs): the civil calendar, the names of partition     *)
(* directories and the spans of time they stand for.  A name is the record *)
(* of the numbers that are printed in it; its text matters to the order of *)
(* the directories and to whether the numbers can be read back.            *)
(***************************************************************************)
EXTENDS Integers, Sequences, FiniteSets, SequencesExt

CONSTANTS
    UsPerDay,   \* time values in a day of a TimestampUs column
    None        \* no range: the name cannot be read

ASSUME CalendarAssumption == UsPerDay \in Nat \ {0}
ASSUME NoRangeAssumption == None \notin Int \X Int

Schemes == {"none", "year", "month", "date"}
TimeTypes == {"date32", "timestamp"}

(* Integer division as Rust has it: toward zero.                           *)
Quotient(a, b) == IF a >= 0 THEN a \div b ELSE -((-a) \div b)

Bit(b) == IF b THEN 1 ELSE 0

(* The civil calendar as it is meant: months of 31 and 30 days, February   *)
(* by the leap years.                                                      *)
Leap(y) == y % 4 = 0 /\ (y % 100 # 0 \/ y % 400 = 0)
MonthLength(y, m) == IF m = 2 THEN 28 + Bit(Leap(y)) ELSE IF m \in {4, 6, 9, 11} THEN 30 ELSE 31

----------------------------------------------------------------------------
(* Hinnant's algorithms: years start in March, eras have 400 years.        *)

EraOfYear(y) == Quotient(IF y >= 0 THEN y ELSE y - 399, 400)

DaysBefore(yoe) == yoe * 365 + (yoe \div 4) - (yoe \div 100)
MonthStart(mp) == (153 * mp + 2) \div 5
DaysOf(era, yoe, doy) == era * 146097 + (DaysBefore(yoe) + doy) - 719468

DaysFromCivil(year, m, d) ==
    LET y  == year - Bit(m <= 2)
        mp == IF m > 2 THEN m - 3 ELSE m + 9
    IN  DaysOf(EraOfYear(y), y - EraOfYear(y) * 400, MonthStart(mp) + d - 1)

(* Down from the day: of an era, of a year, of a month.                    *)
EraOfDay(z) == Quotient(IF z >= 0 THEN z ELSE z - 146096, 146097)
YearOfEra(doe) == (doe - (doe \div 1460) + (doe \div 36524) - (doe \div 146096)) \div 365

DateInMonth(y, doy, mp) ==
    LET m == IF mp < 10 THEN mp + 3 ELSE mp - 9
    IN  [y |-> y + Bit(m <= 2), m |-> m, d |-> doy - MonthStart(mp) + 1]
DateInYear(y, doy) == DateInMonth(y, doy, (5 * doy + 2) \div 153)
DateInEra(era, doe) ==
    DateInYear(YearOfEra(doe) + era * 400, doe - DaysBefore(YearOfEra(doe)))

CivilFromDays(days) ==
    LET z == days + 719468
    IN  DateInEra(EraOfDay(z), z - EraOfDay(z) * 146097)

(* value_to_days, days_to_value: div_euclid rounds down for a positive     *)
(* divisor, as \div does.                                                  *)
ValueToDays(v, tt) == IF tt = "date32" THEN v ELSE v \div UsPerDay
DaysToValue(d, tt) == IF tt = "date32" THEN d ELSE d * UsPerDay

----------------------------------------------------------------------------
NameOf(scheme, c) ==
    CASE scheme = "none" -> [scheme |-> "none"]
      [] scheme = "year" -> [scheme |-> "year", y |-> c.y]
      [] scheme = "month" -> [scheme |-> "month", y |-> c.y, m |-> c.m]
      [] OTHER -> [scheme |-> "date", y |-> c.y, m |-> c.m, d |-> c.d]

PartitionName(scheme, v, tt) == NameOf(scheme, CivilFromDays(ValueToDays(v, tt)))

(* partition_range.  The numbers of a month or a date are split at "-": a  *)
(* year before 0 leaves an empty first part.                               *)
(* Mutant: the month after December stays in its year.                     *)
PartitionDaysSameYear(scheme, name) ==
    IF name.scheme # scheme \/ scheme = "none" \/ (scheme # "year" /\ name.y < 0) THEN None
    ELSE CASE scheme = "year" -> <<DaysFromCivil(name.y, 1, 1), DaysFromCivil(name.y + 1, 1, 1)>>
           [] scheme = "month" ->
                <<DaysFromCivil(name.y, name.m, 1), DaysFromCivil(name.y, (name.m % 12) + 1, 1)>>
           [] OTHER -> LET d == DaysFromCivil(name.y, name.m, name.d) IN <<d, d + 1>>

PartitionDays(scheme, name) ==
    IF name.scheme # scheme \/ scheme = "none" \/ (scheme # "year" /\ name.y < 0) THEN None
    ELSE CASE scheme = "year" -> <<DaysFromCivil(name.y, 1, 1), DaysFromCivil(name.y + 1, 1, 1)>>
           [] scheme = "month" ->
                <<DaysFromCivil(name.y, name.m, 1),
                  DaysFromCivil(name.y + Bit(name.m = 12), (name.m % 12) + 1, 1)>>
           [] OTHER -> LET d == DaysFromCivil(name.y, name.m, name.d) IN <<d, d + 1>>

ValuesOf(days, tt) ==
    IF days = None THEN None ELSE <<DaysToValue(days[1], tt), DaysToValue(days[2], tt)>>

PartitionRange(scheme, name, tt) == ValuesOf(PartitionDays(scheme, name), tt)

(* partition_key: rows of one key have one name.                           *)
KeyOf(scheme, days, c) ==
    CASE scheme = "none" -> 0
      [] scheme = "date" -> days
      [] scheme = "year" -> c.y
      [] OTHER -> c.y * 12 + c.m - 1

PartitionKey(scheme, v, tt) ==
    KeyOf(scheme, ValueToDays(v, tt), CivilFromDays(ValueToDays(v, tt)))

----------------------------------------------------------------------------
(* The text of a name, for its order: digits, and -1 for a minus sign,     *)
(* which sorts before them.  A year is not padded, the other numbers are.  *)
Digits[n \in Nat] == IF n < 10 THEN <<n>> ELSE Append(Digits[n \div 10], n % 10)

Padded(n, w) ==
    LET ds   == Digits[IF n < 0 THEN -n ELSE n]
        room == w - Len(ds) - Bit(n < 0)
    IN  (IF n < 0 THEN <<-1>> ELSE <<>>)
        \o [i \in 1 .. (IF room > 0 THEN room ELSE 0) |-> 0] \o ds

NameText(name) ==
    CASE name.scheme = "none" -> <<>>
      [] name.scheme = "year" -> Padded(name.y, 0)
      [] name.scheme = "month" -> Padded(name.y, 4) \o <<-1>> \o Padded(name.m, 2)
      [] OTHER -> Padded(name.y, 4) \o <<-1>> \o Padded(name.m, 2) \o <<-1>> \o Padded(name.d, 2)

TextBefore(s, t) ==
    \/ IsStrictPrefix(s, t)
    \/ \E i \in 1 .. Len(s) :
          /\ i <= Len(t) /\ s[i] < t[i]
          /\ SubSeq(s, 1, i - 1) = SubSeq(t, 1, i - 1)

(* discover_partitions and the writers sort by name.                       *)
InNameOrder(names) ==
    [i \in 1 .. Cardinality(names) |->
        CHOOSE a \in names :
            Cardinality({b \in names : TextBefore(NameText(b), NameText(a))}) = i - 1]

----------------------------------------------------------------------------
(* partition_spans: rows with the same key that follow each other are a    *)
(* span <<start, length>> (rows count from 0), put to the spans of the     *)
(* partition its first time names.                                         *)
KeyRuns(times, scheme, tt) ==
    LET Step(acc, i) ==
            LET k == PartitionKey(scheme, times[i], tt)
            IN  IF acc # <<>> /\ Last(acc).key = k
                THEN [acc EXCEPT ![Len(acc)].len = @ + 1]
                ELSE Append(acc, [key |-> k, start |-> i - 1, len |-> 1,
                                  name |-> PartitionName(scheme, times[i], tt)])
    IN  FoldLeft(Step, <<>>, [i \in 1 .. Len(times) |-> i])

SpansOf(runs, names) ==
    [i \in DOMAIN names |->
        LET mine == SelectSeq(runs, LAMBDA s : s.name = names[i])
        IN  [name |-> names[i], spans |-> [j \in DOMAIN mine |-> <<mine[j].start, mine[j].len>>]]]
ByName(runs) == SpansOf(runs, InNameOrder({s.name : s \in {runs[i] : i \in DOMAIN runs}}))

Spans(times, scheme, tt) == ByName(KeyRuns(times, scheme, tt))

RowsOfSpans(spans) ==
    FoldLeft(LAMBDA acc, s : acc \o [k \in 1 .. s[2] |-> s[1] + k], <<>>, spans)

(* gather_runs for a column of strings: keys are taken over span by span   *)
(* and renumbered as they first appear.  A key that repeats the last one   *)
(* takes a shortcut.  Keys count from 0; dict is the sequence of strings.  *)
(* Mutant: the shortcut compares with the new key.                         *)
GatherOnNew(keys, dict, spans) ==
    LET Step(acc, row) ==
            LET k == keys[row]
            IN  IF acc.keys # <<>> /\ Last(acc.keys) = k
                THEN [acc EXCEPT !.keys = Append(@, Last(@))]
                ELSE IF k \in DOMAIN acc.remap
                THEN [acc EXCEPT !.keys = Append(@, acc.remap[k])]
                ELSE [keys |-> Append(acc.keys, Len(acc.dict)),
                      dict |-> Append(acc.dict, dict[k + 1]),
                      remap |-> [x \in DOMAIN acc.remap \cup {k} |->
                                    IF x = k THEN Len(acc.dict) ELSE acc.remap[x]]]
    IN  FoldLeft(Step, [keys |-> <<>>, dict |-> <<>>, remap |-> [x \in {} |-> 0]], RowsOfSpans(spans))

Gather(keys, dict, spans) ==
    LET Step(acc, row) ==
            LET k == keys[row]
            IN  IF acc.keys # <<>> /\ acc.last = k
                THEN [acc EXCEPT !.keys = Append(@, Last(@))]
                ELSE IF k \in DOMAIN acc.remap
                THEN [acc EXCEPT !.keys = Append(@, acc.remap[k]), !.last = k]
                ELSE [keys |-> Append(acc.keys, Len(acc.dict)), last |-> k,
                      dict |-> Append(acc.dict, dict[k + 1]),
                      remap |-> [x \in DOMAIN acc.remap \cup {k} |->
                                    IF x = k THEN Len(acc.dict) ELSE acc.remap[x]]]
    IN  FoldLeft(Step, [keys |-> <<>>, last |-> 0, dict |-> <<>>, remap |-> [x \in {} |-> 0]],
                 RowsOfSpans(spans))

(* gather_validity: no column of bits where there was none or all are set. *)
BitsUnlessAll(out) == IF \A i \in DOMAIN out : out[i] = 1 THEN None ELSE out
GatherValidity(bits, spans) ==
    LET rows == RowsOfSpans(spans)
    IN  IF bits = None THEN None ELSE BitsUnlessAll([i \in DOMAIN rows |-> bits[rows[i]]])
=============================================================================
