# A verification project for splayed

splayed (the crates under `src/crates`) stores time series as *splayed* columns: a
dataset is a directory with one index file, `.meta`, and one file per field; a table is a
directory of such datasets, one per period. Files are memory mapped, written in place or
replaced by a rename, and handles cache what they have opened. There is no log, no page
checksum and no version check on open, so that the correctness of the store rests on what
each call does to files, headers and caches, in which order, and what it leaves behind when
it fails. This directory states that as TLA+, checks it with TLC on small instances and
proves with TLAPS, for instances of every size, what the stateful layers promise.

## 1. The system

| component | code | state | operations |
|---|---|---|---|
| Format | `splayed-format` | headers, column views, bitmaps | pure |
| Codec | `splayed-codec` | none | rle, delta, bit packing, chunks |
| Field file | `splayed-core/src/field_file.rs` | a file in one of three layouts; a handle with header, mapping or decoded copy | create, open, write, update, update_header, compress, decompress, cast, rename, close, remove, read, scan |
| META index | `splayed-core/src/meta_file.rs` | time axis, one record per sym, both mapped | build, update, read, locate, scan, drop |
| Dataset | `splayed-core/src/dataset.rs` | directory; per handle the META, the schema and a cache of field handles | create, open, read, write, scan, field DDL, update, close, delete |
| Scan requests | `splayed-core/src/scan.rs` | none | scalars, predicates, row ranges |
| Table | `splayed-table/src/table.rs` | directory of datasets; per handle a cache of dataset handles and a memo of statistics | create, open, DDL over all partitions, fix, close |
| Table write | `splayed-table/src/write.rs` | `.lock` file | write by key, missing partitions and columns, update, stream writer |
| Table query | `splayed-table/src/query.rs` | a stream's position | pruning, scan streams |
| Partition calendar | `splayed-table/src/partition.rs` | none | period names and bounds |
| Adapters, benchmarks | arrow, polars, python, duckdb, bench | none of their own | conversions |

The layers call downwards only. A table call opens (and caches) datasets; a dataset call
opens (and caches) fields; field and index calls map files. Two things are shared: the files,
between processes and handles, and the caches, between the calls on one handle. A table's
write takes `.lock`; structural calls do not, and nothing below the table takes any lock.

**The grid.** META keeps no rows. Row `r` of a sym's record is the axis value
`time_start + (r - row_start)`; all columns have as many rows as the index, so which
`(sym, time)` a value belongs to is only a matter of its position and of the META it is
read with.

**What is hard here.**
- A field has three layouts (header only, plain, chunks), and a count of NULLs and a
  generation that are carried along by differences through every call (§3.1).
- The rows of a compressed field are edited in memory and saved by `close` alone, its header
  at once; whoever forgets the handle loses one and keeps the other (§3.1, §3.4).
- Files are replaced through temporary files by three protocols, two of which share a name,
  one of which does not sync (§3.2).
- The index builder validates by comparing spans, the readers walk with cursors (§3.3).
- Handles cache files by name; calls replace files under the name; readers are not told;
  updates go file by file and may stop half way (§3.4).
- A table's calls go over many datasets, on several threads, and stop half way; the handle
  remembers datasets and statistics of directories that calls and other processes change (§3.5).
- Writers in several processes exclude one another with a file that a crash leaves behind, and
  each trusts what it had cached before it got the lock (§3.6).
- A query prunes by names, opens partitions one after the other while they may vanish, and cuts
  ranges three times, for the limit, the scanner and the batch (§3.7).
- Dates, bit phases, packed integers, chunk borders and comparisons across types are arithmetic
  at boundaries (§3.8).

What makes each component correct:
- *field file*: the header describes the file in every layout; conversions, header edits and
  reopening never change a row; the NULL count is the number of NULLs; only `update` resets
  the generation.
- *replacement*: one whole content at the path at any time and after a power failure.
- *index*: exactly the inputs without gaps are accepted; read, locate and scan answer what
  the input says.
- *dataset*: the cache is the directory; the schema is the directory; rows and index belong
  together; a call changes the fields it names and no other.
- *table*: what the handle remembers is what the directory says; types agree between
  partitions; a call loses the unsaved rows of nothing it does not name.
- *writes*: only the holder of the lock writes; nothing is changed before all keys are located;
  a call that succeeds has written its cells and no others.
- *queries*: the rows asked for, each once, in order, and to the end.
- *algorithms*: conversions and their inverses agree; scans find what filtering row by row finds.

## 2. Modules

| module | what it is | checked by | proved in |
|---|---|---|---|
| `ColumnData` | columns, patches, conversions: the data of a field | | `FieldFile_proofs` |
| `FieldColumn` | abstract: a column with at most one draft | `field_closed` | `FieldFile_proofs` |
| `FieldFile` | a field file and its writer, call by call | `field_*` | `FieldFile_proofs` |
| `AtomicFile` | abstract: a file whose content is swapped in one step | `replace_atomic` | `FieldReplace_proofs` |
| `FieldReplace` | the replacement protocols, step by step, over a file system | `replace_*` | `FieldReplace_proofs` |
| `MetaIndex` | the index: builder, readers, predicate compiler | `index_answers` | `MetaIndex_proofs` |
| `DatasetColumns` | abstract: named columns with drafts | `dataset_columns` | `Dataset_proofs` |
| `Dataset` | a dataset directory and the handles on it | `dataset_*` | `Dataset_proofs` |
| `Table` | a table directory and one handle on it, call by call | `table` | `Table_proofs` |
| `TableWrite` | the writers of a table in several processes, step by step | `table_write`, `table_columns` | `TableWrite_proofs` |
| `PartitionCalendar` | days, names and keys of partitions; splitting rows over them | `algorithms` | the calendar: `PartitionCalendar_proofs` |
| `FieldCodec` | bitmaps, encodings, chunks | `algorithms` | |
| `FieldValues` | comparisons and casts of numbers | `algorithms` | |
| `RowRanges` | ranges of rows, as all layers of a scan hand them on | `algorithms`, `scan` | |
| `DatasetScan` | lists of ranges, hit masks, the scan of a field and of a dataset | `algorithms`, `scan` | |
| `Algorithms` | what the four should compute, input by input | `algorithms` | |
| `TableScan` | a query of a table, over `PartitionCalendar`, whatever its datasets answer | `scan` | `TableScan_proofs` |
| `TableQuery` | what a query asks of `DatasetScan`, and what it should answer row by row | `scan` | |
| `MC...` | values for the constants | | |

`FieldFile` is one file with its rows, calls being atomic. `FieldReplace` takes the calls of
`FieldFile` that replace a file apart, the rows being a version number. `Dataset` has many
files and handles, a file being one value plus the grid it was written for, and shows the
protocol between directory, schema and caches. `Table` has many datasets, a field being a type
and a dataset its schema; `TableWrite` takes the calls of `Table` that write apart, the rows
being cells named by their keys. Each abstraction drops what another module checks.

Properties that belong together are one conjunction in a run: `SoundForAnyInput`, `PointsExact`
and `ScansExact` of `MetaIndex`, and all but one of `Algorithms`. Type invariants are checked as
a conjunct of `WholeAfterPowerFailure`, `SoundForAnyInput`, `SchemaOnDisk`, `CacheTrue` and
`BatchesFull`, and on their own in `field_dropped` and `table_write`.

## 3. State, actions and properties

### 3.1 `FieldFile`

`file` is the file at the path: its header (type, layout flag, validity flag, `null_count`,
`generation`) and its body, which the header may or may not describe (`"none"`: 64 bytes of
header; `"plain"`; `"chunks"`). `w` is `FieldHandle`: its copy of the header, the decoded copy
(`working`) and the `modified` flag; status `"spent"` is what `FieldWriter::compress` and
its like leave when the function on the path fails after the mapping was given up; `"bare"` is
what a failing `update` or a failing growth of a header-only file leaves: write mode, but no
mapping, and after an update no decoded copy either. Actions are the calls of `FieldWriter` and
of a `DatasetHandle` on one field, with their error paths: with `Fails` the renaming, reopening
and growing of files may fail. `op` is the last call, `"failed"` or `"panic"`. With `Sliced` a
new column may be a view that starts inside its bitmap: `create_field_file_view_plain` writes
such a bitmap from its first bit (field_file.rs:424), so that the NULLs land in other rows
(`Shifted`), next to a count of the right ones.

- `LayoutDescribed`: headers describe the file; in a handle with a mapping the decoded copy
  exists exactly when the next write or close unwraps it, and one left bare has a copy only of
  a field that is not compressed. The two `expect`s that unwrap the copy (field_file.rs:1257,
  :1447) fail in such a bare handle of a compressed field, and in no other.
- `NullCountExact`, `WorkingCountExact`: the count kept by differences is the count. The first
  needs that no handle is given up with unsaved rows (`Drops = FALSE`): a write into chunks
  stores the new count at once and the rows at close (field_file.rs:1177), so a lost handle
  leaves a wrong count; and that no column is a sliced view (`Sliced = FALSE`): with
  `Sliced = TRUE` in `MCFieldFile_closed.cfg` TLC finds it violated after one create. `open_field_file` counts chunks anew, so the second holds
  always.
- `GenerationKept`: no call but `update` lowers the generation, and a writer with a mapping has
  the one on disk. docs/splayed-format.md:200 says
  strictly increasing and :204 that readers check it on open; the code has no such check, and
  `update` starts at 1 again.
- `FieldIsColumn`: the module implements `FieldColumn` under the refinement mapping *draft =
  the decoded copy if it is modified*.

Bounds: 2 rows (all NULL, none, one; any patch of one or both), 3 values and a cast that
merges two of them, generation at most 3, which lets every pair of edits happen in every
layout. The generation only guards edits; what a third edit can meet is a file the first two
have already produced. `LayoutEdits` (a caller that passes another layout to `update_header`)
is FALSE in every run and an assumption of every theorem: the code takes over what it is given
(field_file.rs:1320) and no document says which edits are legal. `Fails` is TRUE in both runs,
`Drops` and `Sliced` in `field_dropped`.

### 3.2 `FieldReplace`

Two processes replace one file: a `rewrite` (close, compress, decompress, META) or an `update`
next to a `cast`. A content has one block or two; names and blocks reach the disk at any time
and in any order, `Sync` brings all blocks, a power failure leaves what is durable. Any call
may fail at any step, with or without removing its temporary file.

- `WholeAfterPowerFailure`, `ReplaceIsAtomic`: rewrite and cast are atomic, also over power
  failures, leftovers and reuse of `<path>.tmp` (refinement of `AtomicFile`).
- `PublishesItsOwn`: with an update, the file is torn by nothing but a power failure, and a
  rename publishes what its caller wrote.

`OneSharedTmp` is an assumption: close, compress, decompress and update of the same field share
`<path>.tmp`, and only the exclusive `&mut` of one writer keeps them apart. Bounds: 4 inodes
(two files on disk and one per process), 3 versions (one more than processes, so that one
process replaces twice).

### 3.3 `MetaIndex`

`index` is what an open handle sees: the axis and the records. `rows` is history: the input it
was built from. Calls leave their result in `answer`; queries change nothing else. Inputs are
sequences of rows, a row having a dictionary code next to its sym because the builder cuts runs
by code. A time is a signed number as wide as an axis slot; keys are unsigned, and slots are
narrower than keys for dates (`W64`, `WAxis`). The pairs of locate are taken to be times of that
type, too; the code takes any i64, and a number beyond 32 bits asked of dates could be found as the
key of a date before 1970. `mapped` says whether the handle has its file mapped: `update_index`
gives the mapping up before it renames (meta_file.rs:652), and if that fails (`UpdateFails`) the
handle answers nothing until an update succeeds or the file is opened again; the code panics.

- For inputs in order: `GapsRefused`, `ReadsInput`, `LocateExact`, `ScanComplete`,
  `ScanExact` compare every answer with the input.
- For any input the builder takes: `GridTiles`, `LocateReadsBack`.
- In the run: `PointsExact` (`ReadsInput`, `LocateExact`), `ScansExact` (`ScanComplete`,
  `ScanExact`) and `SoundForAnyInput` (`GridTiles`, `LocateReadsBack`).

A predicate is a conjunction of atoms. What it compiles to is the syms it lets through, each with
how often it is listed, and one window on the axis; the list of ids as such is dropped, since
its order matters only where the code has just sorted it.

`ScanComplete` says a scan misses nothing, whatever it ignores; `ScanExact` is for conjunctions
the index can decide: without a limit it answers them exactly; with one, it keeps to the limit and returns the
first rows that match. That takes two conditions, no Or that names a sym twice and no candidate
ranges, because the rows counted while scanning (meta_file.rs:762) are otherwise not those of the answer:
`produced` counts a record once for each time its id is listed, and rows outside the ranges, which are
applied later. Without the two it would be what docs/core/index.md:77 says, and it fails (§7): with
the syms 2, 1, 1 in an Or and a limit of 2, both in the run, one row of sym 1 counts twice and a
row of sym 2 is not reached. Datasets hand the index no limit.
Where an Or of syms stands inside an And the compiler unites instead of
intersecting (meta_file.rs:997), and the scan returns more; the table layer filters rows again.
A date before 1970 is stored in 32 bits but looked up sign-extended to 64 (meta_file.rs:848) and
never found; `InOrder` leaves it out and `WAxis < W64` keeps the widths apart.
Bounds: 2 syms and 3 times, all ordered inputs up to 5 rows (so that a sym may start late, end
early or have a gap another sym fills), any input up to 3 rows over 2 times, one before 1970, with
free dictionary codes, any input of 4 rows; conjunctions of up to 2 atoms, with an Or that
names a sym twice; limits 0 and 2; one candidate range
set with a hole; 2 or 3 keys per locate.

### 3.4 `Dataset`

`dir` maps field names to files (inodes), `store` gives the content of each file that still has
a name or a mapping, `hs` the handles: META (its grid), schema, cache of field handles with the
decoded copies, and the update under way, which is taken apart into its steps. A column is a
value, tagged with the grid it was written under. `Faults` lets calls stop half way, lets the
schema come out empty when it is read again (`Relisted`: `reload_schema` takes a directory it
cannot read for one without fields, and the call returns Ok, dataset.rs:887), and lets an update
fail to remove a column it does not bring, which is no error either (dataset.rs:671). A handle
that has once come to an empty schema in that way is `blind`.

- `CacheOnPath`: what a writer has in its cache is the file at the path of the field, unless it
  is blind: a blind one may create a field that is there and cached, and so remove the file.
- `SchemaOnDisk`: its schema is the directory, unless an update through it failed; a blind one's
  may be empty instead.
- `RowsAligned`: a handle that saw neither another handle's update nor one that was left half
  done finds only rows of its own index; a later update that removes all it does not bring makes
  good one that was left half done. An update of a blind handle, or one that could not remove a
  column, counts as half done although it returned Ok.
- `DatasetIsColumns`: with one writer and flat names the module implements `DatasetColumns`:
  each call changes the columns it names, and drafts are published or discarded with their own
  column only.

Bounds: 2 fields (one that a call names, one it must leave alone; for rename a free name), 2
grids, 4 inodes in `dataset_columns` (two in the directory, two that are mapped but no longer
named, or one new), 3 in `dataset_faults` (a writer and a reader; two files and one that is mapped
but no longer named, or one new; with all taken a rebuild waits until a reader closes), 2 values
where values matter (`dataset_columns`), 1 where only the grid does (`dataset_faults`).

Abstractions: field types and conflicts of nested paths are left out; a plain and a
header-only field are one layout; `update_index` is one step (`FieldReplace` has its steps, and
`MetaIndex` the handle it leaves unmapped when it fails);
`scan_dataset` is what it does to the cache, i.e. a read; a handle opened for reading makes no
DDL calls (`DatasetReader` offers none); a creation that fails leaves no half written file
(dataset.rs:571 removes it; the columns of an update and `create_dataset` do not, which is
listed as a hazard); deletion happens with the writer closed, as `drop_dataset` does it.
Nothing keeps two writers off one dataset at this layer; the properties are about one writer,
and what a second one breaks is listed as a hazard.

### 3.5 `Table`

`part` is the directory of each partition (its index, and each field by type and whether it is
compressed), `ds` the datasets the handle has cached (index, schema, fields with unsaved rows),
`memo` its statistics cache. Actions are the calls of `TableHandle`; the field calls go over all
partitions that have the field (`Structural`), each partition succeeding or not, with the first
error returned. `write_table` is taken as two actions, the columns it adds and the rows it
writes, and `update_table` as what it leaves behind when it succeeds or fails. `Outside` is
another process that deletes or replaces one partition.

- `StatsExact`: what is remembered of a partition's rows is what it has, and nothing is
  remembered of one that is gone.
- `CacheTrue`: a cached dataset has the index and the schema on disk, whatever was changed
  through the handle.
- `TypesAgree`: a field has one type in all partitions.
- `UnsavedKept`: which calls lose unsaved rows, and of what.

Each is conditional on a history variable that says what the code does not protect from: another
process (`foreign`), an update or `fix` that failed half way (`spoiled`), types the caller got
wrong or a cast that stopped half way (`uneven`); §7 describes what happens then. Bounds: 2
partitions (the latest, where `schema`, `init_field` and `fix` look, and another), 2 fields and 2
types, which are interchangeable (symmetry; no property singles one out). Partitions are made
with one field or none and get the second by the calls that add one; there are two index values,
the second only in partitions made without fields. Another process deletes a partition or puts
one without fields in its place; what follows once that partition has fields again, or after an
update or `fix` has failed as well, is not explored (only `UnsavedKept` would say anything of such a
partition and of such a handle).

### 3.6 `TableWrite`

`lock` is the `.lock` file and who created it, `part` the directory of each partition (keys,
columns with a cell per key, readable or not), `cache` what each process has cached of each and
whether that is still the directory at the path, `maps` the field files it has mapped in its
datasets, those still at their path and those that were removed from it (`Unlinked`), whether or
not one of that name is there again, `call` the call each process is in: its stage,
the partitions still to do, those its threads are busy with. A call is taken through its stages:
`scan`, `create` (missing partitions), `locate`, `columns`, `rows` for a write; `remove` for an
update, each thread removing and building a partition; `new`, `stream` for a stream writer, which
looks at the directory before it takes the lock. Any step may fail; `Crash` ends a process in any
step with what that step may have left; `Unlock` is a user who removes a lock file left behind.
A write opens the field files it has not mapped yet, and goes on in those it has; rows that go to
a removed one are lost, and the call succeeds. With `Misreads` a schema that is read again after a
column was made may come out empty (dataset.rs:887, as in §3.4).

All fields are uncompressed: a written cell is in the file and outlives its process. The rows of
a compressed field stay in its `FieldHandle` until that is closed (field_file.rs:1235, :1430), so
the end of a process in one call takes what earlier calls that returned Ok have left there, named
by this call or not. Which calls lose such rows is said by `UnsavedKept` (§3.5), that nothing else
is lost by `FieldIsColumn` and `DatasetIsColumns`; here they would only blur what the steps of a
call do.

- `LockHeld`: whoever works on the table has created the lock that is there.
- `LocatedFirst`: until all keys are located nothing that was there is changed.
- `WriteIsExact`: a write that succeeds has written its cells and no other, all its columns exist
  in all partitions. `ReplaceIsExact`: the same for updates and streams.
- `OthersKept`: no step and no crash changes a cell (of an uncompressed field) that the caller did
  not name.
- `LockFreed`: no call keeps the lock for ever.
- `ColumnsKept` (violated, the finding): a write never touches a column that exists. It holds
  for one process; with two, one whose schema is old makes the other's column, fails, and
  removes it (dataset.rs:571).

`WriteIsExact` and `OthersKept` are about processes whose cache was true when they got the lock
(`Sound`): every cached dataset is the directory at its path, with its index and schema, and every
mapped field file is the one at its path. The lock does not make a handle look again: one whose
partition was rebuilt by another writes into files that are gone or by row numbers of another
index, one whose mapped column was removed by another (dataset.rs:574) and made anew writes into
the removed file, and one whose schema came out empty takes all columns for missing, and removes
one it then fails to make.

Bounds: 2 processes, 2 partitions of two keys and one, two inputs (a key and a column that are
there; a key of each partition and a new column), 2 threads, 3 calls in all, which is a call
before, one that fails or crashes, and one after. A key is missing when an update has taken it
away before. A write to a column that another process has removed
and made anew takes five calls (one process caches the dataset without the column, another makes
and maps it, the first fails on it and removes it, makes it, the other writes again): beyond this
bound, but not beyond the theorem. On one partition with two keys and five calls (471 k states)
TLC finds `WriteIsExact` true, and violated without the condition on mapped files.

### 3.7 `TableScan`

`scan_table` prunes (`Pruned`), `TableScanner` opens and scans partitions as ranges are wanted
(`PullOpen`, `PullRange`), `TableBatchReader` resolves its projection, pulls, reads and keeps the
rest of a range for the next batch. A partition's name is a record of `PartitionCalendar`.
`Vanish` deletes a partition between any two steps; what was opened stays mapped. Ranges are cut
lazily as the code does: by the dataset's scanner, which has what was left of the limit when it
was made (`room`), and once more by the table's (`left`).

What a dataset answers is a constant, `Found`, by table, request and partition, as are the fields
it opens for it (`Needed`) and the rows asked for (`Wanted`). The run gives them the values of
`TableQuery`: `Found` is `DatasetScan!ScanRanges` of scan_table's predicate, `Wanted` is defined
row by row without index, groups of conditions and masks. `AnswerAssumption` says how they
go together: a scan that does not fail finds the rows wanted, as ascending ranges, and no row
outside the time. TLC evaluates it on the run's tables and requests, and `DatasetScanExact` checks the
same for bounded datasets. `TableAssumption` says what `write_table` makes of a table: partitions have rows,
each in the partition that has its name, and different directories have different names.

- `GivenInOrder`: rows given out are rows asked for, in order, each once, up to the limit, also
  after errors. `AnswerWhole`: if nothing failed, all of them.
- `BatchesFull`: all batches but the last have the size asked for.
- `OpensFew`: no partition outside the time, none behind the one that reaches the limit.
- `ReadEnds`: a caller that keeps calling comes to the end.

What is asked for is the set `answer`, taken without pruning when the query begins (`Asked`), and its
order is `Before`; conditions the index ignores are not in the requests (`Mixed` is one that is
refused). Bounds: a table by years around
10000, whose names are not in the order of time, in two versions (with NULLs; with a field that
is missing in a partition), one by months over the end of a year, one without partitions; 2 syms,
4 time windows (a whole partition, parts of its neighbours, none, before all), limits 0, 1 and 3,
batches of 2, each in every combination.

### 3.8 The algorithms

`Algorithms` has one variable, an input; the calendar goes on from it day by day. The invariants
compare what the code computes with a definition that shares nothing with it: days are counted
with the lengths of months, bits one by one, scans filter row by row.

- `CalendarAgrees`: days and dates convert both ways; ranges read back from names tile the days;
  keys are equal exactly if names are; names are in the order of time from year 1000 to 9999.
- `SplitExact`: spans are the rows of their partition, gathered strings those of the rows.
- `EncodingExact`: bits copied, filled, counted and stitched at any phase; every encoding decodes
  to what was encoded and refuses another number of rows (bit packing refuses only what it can
  see).
- `ChunksExact`: chunks tile the rows; a chunk cuts a sym only if it is longer than the cap.
- `ValuesExact`: comparisons and casts are those of the numbers.
- `RowsFoundExact`, `DatasetScanExact`: lists of ranges are sets of rows; a scan finds the rows
  that meet the conditions, and more only where §7 says.

Widths are constants: bytes of 3 bits and words of 6 have the same edges as 8 and 64 (sign bit,
spill into the next byte, a shift by the whole width) with inputs that can be enumerated; pieces
of 5 rows and mask words of 2 stand for 64 Ki and 64. Walks of 400 days start at 26 years, every
kind of leap year and both signs among them.

## 4. The runs

| run | shows | distinct states |
|---|---|---|
| `field_closed` | counts, generation and refinement, if handles are closed, over failing calls | 46 k |
| `field_dropped` | layout and working count, if handles are lost and columns are sliced views | 106 k |
| `replace_atomic` | rewrite + cast, power failures: atomic | 2.2 M |
| `replace_volatile` | update + cast: torn by power failures only | 3.0 M |
| `index_answers` | the builder and every answer of the index | 2.2 M |
| `dataset_columns` | cache and refinement, one writer | 25 k |
| `dataset_faults` | schema and alignment, a failing writer and a reader | 622 k |
| `table` | memo, caches, types and unsaved rows over all calls of a handle | 147 k |
| `table_write` | lock, steps and outcomes of writers that fail and crash | 465 k |
| `table_columns` | *violation*: a writer removes another's column | |
| `scan` | queries while partitions vanish | 457 k |
| `algorithms` | the pure algorithms, input by input | 183 k |

Each run ends within three and a half minutes on two workers.

Every property of a passing run has a mutant in PROJECT.json: a variant of one action or
operator (marked "Mutant" above it in the module) with a bug of the kind that code invites,
which TLC finds with the same configuration. A "violation" run states what a comment or
document says; the counterexample is the finding.

Deadlock is checked in the runs of fields, replacements, the index and datasets, and there is
none. In the others it is off because they do stop: `table_write` when its calls are
used up, `scan` when a query has ended or was refused, `algorithms` when an input is an input; `table`
would only stop in a table nobody can open.

**Fairness.** `TableWrite`: `WF(Step(h))` for each process, that is, a thread in a call goes on
until the call returns, and the owner of a stream writer finishes or drops it. No fairness is
assumed of `Unlock`: the lock of a process that ended stays until a user removes it
(write.rs:14), and `LockFreed` claims no more than that it is not a running call that
keeps it.
`TableScan`: `WF(Reading)`, the caller of an iterator calls `next` until it returns `None`.
Nothing else in this code waits: there are no queues and no condition variables, parallel
sections join.

## 5. What is proved

All proofs are checked by tlapm 1.4.5 with SMT, Zenon and LS4 (the last for temporal steps), and
hold for every value of the constants that meets the assumptions named in the modules, which TLC
evaluates on the instances. The modules of proofs have one shape: an inductive invariant, lemmas
on the operators, a lemma for each action, and the theorems.

| theorem | states | under |
|---|---|---|
| `TypesAlwaysKept`, `LayoutAlwaysDescribed` | `FieldFile!TypeOK`, `LayoutDescribed` | `LayoutEdits = FALSE` |
| `WorkingCountAlwaysExact`, `GenerationAlwaysKept` | `WorkingCountExact`, `GenerationKept` | `LayoutEdits = FALSE` |
| `NullCountAlwaysExact`, `FileImplementsColumn` | `NullCountExact`, `FieldIsColumn` | and `Drops = FALSE`, `Sliced = FALSE` |
| `ReplacePublishes` | `PublishesItsOwn` | |
| `PowerFailureLeavesWhole`, `ReplaceImplementsAtomicFile` | `WholeAfterPowerFailure`, `ReplaceIsAtomic` | `NoUpdates` |
| `GapsAlwaysRefused`, `AlwaysSound`, `AlwaysExact` | `GapsRefused`, `SoundForAnyInput`, `PointsExact` | |
| `ScansAlwaysExact` | `ScansExact` | |
| `CacheStaysOnPath`, `SchemaStaysOnDisk`, `RowsStayAligned` | `CacheOnPath`, `SchemaOnDisk`, `RowsAligned` | `OneWriter` |
| `DatasetImplementsColumns` | `DatasetIsColumns` | `OneWriter`, `SomeWriter`, `Faults = FALSE` |
| `StatsAlwaysExact`, `CacheAlwaysTrue`, `TypesAlwaysAgree` | `StatsExact`, `CacheTrue`, `TypesAgree` | |
| `UnsavedRowsKept` | `UnsavedKept` | |
| `Exclusion`, `NothingLostBeforeLocated` | `LockHeld`, `LocatedFirst` | |
| `TypesAlwaysKept` | `TableWrite!TypeOK` | |
| `WritesAlwaysExact`, `ReplacesAlwaysExact`, `OthersAlwaysKept` | `WriteIsExact`, `ReplaceIsExact`, `OthersKept` | |
| `RowsAlwaysInOrder`, `AnswersAlwaysWhole` | `GivenInOrder`, `AnswerWhole` | |
| `BatchesAlwaysFull`, `AlwaysOpensFew` | `BatchesFull` with `TableScan!TypeOK`, `OpensFew` | |
| `DatesAlwaysConvert`, `RangesAlwaysTile`, `KeysNameAlways` | three parts of `CalendarAgrees`, for every day | |

The hypotheses are conditions without which the code does not do it:

- `LayoutEdits = FALSE`, `Drops = FALSE`, `Sliced = FALSE`: no caller hands another layout to
  `update_header`, no handle is given up with unsaved rows, no column is made from a view that
  starts inside its bitmap (§3.1). Failing calls (`Fails`) are covered by all of them.
- `NoUpdates`: `update_field` renames without a sync (field_file.rs:1082), so that a power failure
  may leave its file torn. `PublishesItsOwn` holds with updates as well.
- `OneWriter`: nothing keeps two writers off one dataset at this layer (a listed hazard). Any
  number of readers is allowed. `SomeWriter` only says that the drafts of the refinement have an
  owner. A handle that could not read the directory, and was told nothing, is excepted in the
  properties themselves (`blind`).
- `Faults = FALSE` for the refinement: an update that has failed leaves the schema stale, and a
  later `rename` or `create` then goes by it and replaces a file it does not know of. The three
  invariants are proved with failures.

**`FieldFile_proofs`**, for every number of rows `N`, every set of values and types, every
conversion and every bound `MaxGen`. `LayoutInv == TypeOK /\ LayoutDescribed`: the types give the
shapes the header updates need, and `LayoutDescribed` carries the link between decoded copy and
layout, without which a write could not be shown to pick the right branch. `CountInv` adds that
the counts on disk and in the handle are exact (for chunks with unsaved rows: that of the decoded
copy); the layout is needed to know which of the two a write changes, and what a handle left bare
can still do to the file. `CountStep` shows in one go
that a step keeps `CountInv` and is a step or a stutter of `FieldColumn`. `WorkingInv` is the part
that survives lost handles. `GenInv` adds that a live writer's generation is the one on disk:
without it a write, which stores the writer's copy plus one, could lower what is on disk. Lemmas
about `ColumnData` (patches, conversions, numbers of NULLs) and one per file-making function
(`CreatedSound`, `CompressedSound`, ...) are stated once.

**`FieldReplace_proofs`**, for any number of replacements of any protocol, inodes and contents.
`Base` says that different names are different files (`Apart`); that a replacement at work has the
file at its temporary name, which is neither the one at the path nor the one a power failure would
bring back there (`OwnFile`, `NotReused`); and that it holds those blocks of the new content that
are not left to be written (`Written`). Atomicity alone is not inductive: an inode is reused as
soon as it is free, so a write must be known not to hit the file under another name. Without
updates `SafeInv` adds that what is about to be renamed is on disk, and that the file at the path
is whole there, now and after a power failure. In `AtomicFile` a rename is the swap and a power
failure goes back to a content that was on disk.

**`MetaIndex_proofs`**, for inputs of any length, any names and times and any width of an axis
slot. *What is accepted*: of the inputs in order exactly those that are not empty and have no gap.
The builder only counts (meta_file.rs:138): the distance of two times on the axis against the rows
between them. That this finds the gaps takes two facts about a run in order: its times are
distinct, so there are as many rows as the axis has keys between the first and the last exactly if
all those keys are times of the run; and a key of another sym that is not one of them lies between
two rows next to each other. *What is built* from any input: `Tiles`, that the starts of the runs
in order tile the rows, and that each run lies on the axis, whose slots ascend because keys of
times keep their order when they are cut to the width of a slot. A sorted list is taken by ranks:
before the k-th member there are k - 1. *What is built* from an input in order: `Exact`, that
every row is on the grid where its record says, as between two rows of a run next to each other
there is no other key, and that the syms of the records ascend. *locate* is a fold over the
pairs; what is known after n pairs (`Reached`: the two cursors are at the last key, and the rows
found read back) is kept by every step, and on an exact index a step finds any key behind the
last one, since the place of the key is the first its cursor can stop at. Inductions over the
pairs and along a run are by a least counterexample. `NoneAssumption` keeps "not found" apart
from a list of rows. *A scan*: the binary search over the syms is a recursive function on
stretches of the records; that there is such a function at all is shown by giving one, and
what it finds by a least stretch where it would be wrong (`SymIdIs`). Compiling is a fold over
the atoms; after n of them (`Compiled_n`) what is compiled lets every place of the grid through
that these atoms hold of and, for a predicate the index can decide, no other (`NodeIs`, with
`SymAtomIs`, `OrAtomIs`, `TimeAtomIs` below it). Each row of an input in order has one
place (`RowHasPlace`, `OnePlace`), so the rows let through are those that match
(`ThroughMatches`). Under a limit, a record is left out only if the rows before it are enough,
and as the rows of a record come before those of the next, the first rows of what is produced
are the first of all (`FirstProduced`). The attempt to prove this last step with neither of
its two conditions is what showed that scans may end before their limit is met.

**`Dataset_proofs`**, for any fields, indexes, columns and files, any readers, and whatever fails
half way. `IInv == TypeOK /\ DirInv /\ \A h : HandleOk(h)` holds the three invariants at once, as
none is inductive by itself: that a file written back lands on rows of the index needs the cache
to be on the path; that an update leaves no file of an older index needs the schema to list what
was there; that the schema is right after a call needs the cache to hold only what it lists. What a
call leaves as schema (`RelistedTo`) is the directory or, for a handle that is blind from then on,
nothing. What joins them is `UpdateOk`, what is known of the directory while an update is under way, and what is
known of a dataset one has left half done (`Whole`, `dated`). The second part of the module shows that
each step is a step or a stutter of `DatasetColumns`, action by action and field by field: that
files move, are replaced and are reused is not to be seen from outside, because cached files are
on their path and every path has a file of its own.

**`Table_proofs`**, for any finite set of partitions, any fields, types and indexes. `IInv` joins
`StatsExact` (statistics read a cached dataset) and `TypesAgree` (calls compare types in cached
schemas, after a failure and after others have been at work) by `CacheInv`, which is more than
`CacheTrue`: the cache is right of a partition unless the types may have come apart *and* the
partition was changed from outside or a call has failed half way. `UnsavedKept` is shown from
`Spares(P, C)`: a step loses no unsaved rows but perhaps those of the partitions `P` and of the
fields `C`. A call that stops at the first error is a set of partitions it has come to; the latest
partition exists because the naturals are well-founded.

**`TableWrite_proofs`**, for any processes, any finite set of partitions, any keys, columns and
inputs, any number of threads and of calls. `IInv` is about the lock: `LocatedFirst` alone is not
inductive, because another process might change the partitions meanwhile, which `LockHeld`
excludes (`Alone`), and because the call itself writes to the partitions it takes for missing;
`CreatesFresh` says they were missing when it began. `OInv` is about what a call has reached:
what it has opened (`Opened`), that a cached dataset which is still the directory at its path has
its index (`Live`), and stage by stage how the table differs from the one the call found: for a
write `Exact` (the shape of the partitions, cells nobody named, columns still to be made, rows
already written), for an update `Rebuilding`, for a stream `Streaming`. The outcomes are these at
the last step; that no step touches what is not named (`OthersKept`) is a lemma for each action.
`Exact` begins with `Cached`: what a sound process has cached is the directory at its path, and in
the stages before it makes columns with the index and schema it has; later a schema may have come
out empty. `MapsInv` says that nothing a sound process has mapped is removed in the midst of its
write (`NothingGone`): only the holder of the lock removes files, and it ends its call when it does.
So the rows go to the files that are read afterwards. These
theorems are about uncompressed fields and sound processes, as the properties are (§3.6).

**`TableScan_proofs`**, for any tables and requests that meet the assumptions of §3.7, any answers of
their datasets, and whatever vanishes and fails. None of the four invariants is inductive: what
was given out says nothing of rows that are put together in a batch, taken but not read, left of a
range, or ahead in partitions not yet opened. `IInv` keeps an account of all of them (`Core`): the
rows handed out so far (`Passed`) come before those of the ranges that are left, and those before
the partitions ahead (`Behind`); what is left of the limit is what it was less the rows handed
out, or less still after an error, which loses rows (`CountOk`); and if nothing has failed, every
row asked for is handed out, in a range that is left, or ahead, unless the limit is met, and then
none before a row handed out is left out (`NoneMissed`). Each kind of step is a lemma on that account
(`CoreStarts`, `CoreTakes`, `CoreOpens`, `CoreLoses`, `CoreEnds`), and another on the batches
(`BatchesRead`, `BatchesGive`, `BatchesLose`); the lemma of an action puts them together.
That the account is right at the start is the pruning (`PlanIs`): the days of partitions share no time (from
`PartitionCalendar_proofs`), so sorting by the first day puts them in the order of time, the two
searches cut off exactly those that do not meet the window, and a row asked for is in none of these.
Without a time it is that names sort as texts. The sorts are taken by ranks, whose places are filled
because a finite set has as many ranks as members.

**`PartitionCalendar_proofs`** is about pure functions. `algorithms` walks the calendar for 400 days
from 26 years; here it is shown for every day and every time, in the integers (the code's i64
are the same as long as nothing overflows): the days are those of the civil calendar, with
1970-01-01 as day 0 and each month as long as it is; dates convert both ways; a range read back from the name of a
partition holds exactly the times that get the name, so that two partitions share no time and
none is lost between them; rows have one key exactly if they have one name. Hinnant's formula for
the year of a day divides by numbers that are no lengths of years (1460, 36524, 146096); a day of an
era written in centuries, cycles of four years, years and days makes each of the quotients one of
those numbers, but for a carry of one that cancels. The rest is by months: they have numbers, a
greater number begins later (`MonthsAscend`), so a day is in one of them (`MonthOfDay`), and the
range of a name is between the beginnings of two. `NoRangeAssumption` keeps "cannot be read" apart
from a range. That names sort in the order of time (`NamesInTime`) is left to TLC: the digits of a
number are a recursive function.

**Only model-checked.** Liveness (`LockFreed`, `ReadEnds`) and ENABLED are beyond TLAPS. The
theorems of induction take an operator, which its provers cannot instantiate; what a recursive
definition computes for inputs of every length is proved only where it was worth an induction by
hand (the folds of locate and of compile_node, the search of sym_id_of). The algorithms but for the
calendar, the scan of a dataset among them, are checked for bounded inputs: `AnswerAssumption` of
`TableScan` rests on the last. Predicates are trees evaluated by RECURSIVE operators, and tlapm has
no SMT in a module that reaches one; that is why `TableScan` takes the answers of datasets as
constants and `TableQuery` works them out for TLC. The other assumptions of the models (§3) are not proved either,
nor is any connection between modules that look at the same calls at different grain other than
the refinements above.

## 6. Plan

Theorems: that a dataset's ranges are those of its conditions (`AnswerAssumption`), with
predicates as recursive functions; candidate ranges in `ScanExact` once the code applies them
before it counts. Modules:
`Dataset` with half written files and with two writers; `TableWrite` with compressed fields, whose
rows are in a handle until it is closed; readers that stream into a new field.

Not modelled, and not planned: adapters and benchmarks (conversions without state, and
measurements); `rename_table`, `metadata()` and the clean-up of empty directories (one call on a
directory each); compression, a third party's and taken as exact; the bytes of headers, lengths
and columns; casts from and to strings, regular expressions, the rounding of f64 to f32.

## 7. Disagreements between the code and what is written about it

One is a run (`table_columns`, §3.6). The following came up while the modules were written; the
models do what the code does, and the properties are stated so that they hold of it.

Fields and their files:
- A column created or updated from a view that starts inside its bitmap, as `read_field_handle`
  returns one (field_file.rs:1131), has its NULLs in other rows than its source, and another number
  of them than its `null_count`: `create_field_file_view_plain` counts the view's
  (field_file.rs:402), but writes a bitmap of one segment with `as_raw()` (field_file.rs:424), which
  knows nothing of `bit_offset` (bitmap.rs:45 says it begins at that byte; it begins at the first).
  docs/splayed-format.md:195 says "`null_count` 为真实 NULL 计数，创建（带数据）与每次成功写入后维护。"
- An `update_field` whose rename or reopening fails (field_file.rs:1077-1080) has dropped mapping
  and decoded copy and leaves the handle in write mode: for a compressed field "compressed write
  handle materializes working" (field_file.rs:1447) and "compressed open materializes working"
  (field_file.rs:1257) fail at the next write or close.
- `FieldWriter::rename` (field_file.rs:606), and cast, compress and decompress, drop the decoded
  copy with rows not written back. docs/splayed-format.md:92 says "close 时如有修改自动重压缩写回",
  docs/core/field.md:253 that rename "自动重建内部写句柄". In `FieldFile` the draft is discarded.
- `update_field` (field_file.rs:1076) does not sync before it renames. docs/core/field.md:233 says
  "写入临时文件 <path>.update.<pid>.tmp 并 sync_all", docs/api-upgrade-v2.1.md:285 "`sync_all()`
  确保落盘"; the temporary file has another name, too. In `FieldReplace` an update may be torn
  by a power failure.
- `update_header` counts the generation up in the handle before it grows a header-only file
  (field_file.rs:1326): if that fails the handle and the file differ by one, and may for good.
- Casts: "逐行 `as` 语义转换" (field_file.rs:1596), but a float cast to a narrow integer goes through
  64 bits and keeps the low ones where `as` saturates, and a cast to bool keeps the low byte.
- A bit-packed chunk with a wrong number of rows is accepted as long as the bytes are enough.

Index and scans:
- The builder compares spans (meta_file.rs:138), so that times 0, 0, 2 are accepted where the axis
  has 0, 1, 2; the comment at meta_file.rs:125 says repetitions and gaps are refused without
  exception ("一律拒绝").
- Conditions of sym and time under Not, Ne or a mixed Or are left to the index ("sym/time 组合由
  META 扫描处理", dataset.rs:1047), which ignores them; an Or of syms next to another condition on
  sym widens it (meta_file.rs:997). The scan then returns more rows than asked for.
- The limit of a scan of the index: "最大匹配行数（满足后提前早停）" (docs/core/index.md:77), but rows outside the
  candidate ranges and those of a sym that an Or names twice count, too (meta_file.rs:773), and the
  scan ends with fewer rows than there are.
- A date before 1970 is never found (§3.3).
- An `update_index` whose rename fails leaves a handle over which reads panic (meta_file.rs:652); the
  file itself is the old one.

Datasets:
- `write_dataset` pairs a handle with its column by the last part of its path (dataset.rs:353),
  while nested names are allowed (docs/core/dataset.md:19) and the comment at dataset.rs:336 takes
  the field's name for that of the file: a write of `a.b` returns Ok and is lost.
- The clean-up at the end of `update_dataset` (dataset.rs:667, "清理旧数据中存在但在新数据中不存在的列")
  goes by the schema the handle had (dataset.rs:668), which a failed update leaves stale: a column
  survives with the rows of another index.
- "刷新内存中缓存的 Schema 与句柄池" (docs/core/dataset.md:257): if the directory or a header cannot be
  read, `reload_schema` (dataset.rs:887) leaves sym and time as the schema and the call returns Ok.
  The next update then leaves columns of the old index behind, a create removes a column that
  is there, and a `write_table` on such a handle does so for every column it is given.
- The same update ignores errors of the removal (`let _ =`, dataset.rs:671) and returns Ok.
- `cast`, `rename` and the conversions over a table that fail half way cannot be repeated: the
  partitions that are done make the second call fail.

Tables:
- `write_table` creates missing partitions before it has located the keys of the others; when it
  then fails, or a column has a type the table does not have, they stay. write.rs:107 says
  "key 缺失 / 定位不足都不产生部分修改". `LocatedFirst` says what does hold: what was there before
  is as it was.
- A process that has a column mapped which another removes (dataset.rs:574) and makes anew goes on
  writing to the removed file: `write_table` returns Ok and the rows are lost. The comment
  at write.rs:217 excepts writes in which a partition fails, and nothing else.
- `update_table` replaces "按分区原子替换" (write.rs:538), but removes a directory and builds it anew;
  an error or a crash leaves it missing or half made.
- `update_table`, `init_field` and `fix` forget cached datasets with their unsaved rows; a failed
  `update_table` leaves the statistics of what it has removed; a `fix` that fails keeps the latest
  partition's dataset with its old schema.
- `init_field` and `create_partition` do not compare types with the other partitions.
- A parallel write that fails returns before the datasets get their own parallelism back
  (write.rs:301).
- `TableStreamWriter` with scheme none never succeeds: its directory exists already.
- A query with a time on a table of scheme none is refused for a bad partition name.
- Names of years before 1000 and after 9999 are not in the order of time, so that "the latest
  partition" is another; months and dates before the year 0 have names that cannot be read back.
- Without a projection, when the last partition is gone, every call of `next_batch` fails; an error
  in the middle of a batch loses the rows gathered for it. A partition that is replaced between
  the opening of its index and of a field is read with both.
