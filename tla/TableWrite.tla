----------------------------- MODULE TableWrite -----------------------------
(***************************************************************************)
(* The writers of a partitioned table (splayed-table, write.rs), each in a *)
(* process of its own: write_table, update_table and TableStreamWriter     *)
(* exclude one another with a .lock file, and every call goes through many *)
(* steps on the directory: partitions that are missing are created, keys   *)
(* located, columns added, rows written partition by partition on several  *)
(* threads.  A process keeps the datasets it has opened from call to call; *)
(* and the field files it has mapped: the lock does not tell it what the   *)
(* others have done to them meanwhile.  A step may fail, and a process may *)
(* end at any point and leave its lock behind.                             *)
(* All fields are uncompressed: what a step writes is in the file and      *)
(* outlives the process.  The rows of a compressed field stay with its     *)
(* handle until that is closed; what becomes of them is the matter of      *)
(* Table (UnsavedKept) and Dataset.                                        *)
(* A writer's rows are told apart by the writer: its name is the value it  *)
(* writes.  Partitions are numbers, in the order of their names.           *)
(***************************************************************************)
EXTENDS Integers, FiniteSets

CONSTANTS
    Procs,      \* the processes
    Parts,      \* the partitions there can be: numbers, ascending by name
    Keys,       \* the (sym, time) keys
    PartOf,     \* the partition of a key
    Cols,       \* the fields there can be
    Inputs,     \* what callers pass: [keys, cols]
    FirstKeys,  \* the keys and columns of the table
    FirstCols,  \*   at the beginning,
    Old,        \*   and the value of all its cells
    Null,       \* a NULL cell
    Junk,       \* a cell written by the row numbers of another index
    None,       \* no directory, no handle, no call, no lock
    Left,       \* a lock file whose process has ended
    Threads,    \* max_parallelism
    Misreads,   \* whether a schema that is read again may come out empty
    MaxCalls    \* bound: the calls of all processes

ASSUME TableWriteAssumption ==
    /\ Parts \subseteq Nat /\ IsFiniteSet(Parts)
    /\ PartOf \in [Keys -> Parts]
    /\ Inputs \subseteq [keys : (SUBSET Keys) \ {{}}, cols : SUBSET Cols]
    /\ FirstKeys \subseteq Keys /\ FirstCols \subseteq Cols
    /\ Procs \cap {None, Left} = {} /\ None # Left
    /\ Threads \in Nat \ {0} /\ Misreads \in BOOLEAN
    /\ MaxCalls \in Nat

Values == Procs \cup {Old, Null, Junk}

(* A partition's directory: the keys of its META, its field files with the *)
(* cell of every key, and whether open_dataset can read it.                *)
Directory(d) ==
    d # None =>
        /\ d \in [keys : SUBSET Keys, cols : [DOMAIN d.cols -> [d.keys -> Values]], ok : BOOLEAN]
        /\ DOMAIN d.cols \subseteq Cols
Table(t) == DOMAIN t = Parts /\ \A p \in Parts : Directory(t[p])

(* What a process has cached of a partition: the index and the schema as   *)
(* it read them; live as long as this is still the directory at the path.  *)
Entry == [keys : SUBSET Keys, cols : SUBSET Cols, live : BOOLEAN]
Entries == [Parts -> Entry \cup {None}]

(* The field files a process has mapped, by a write that opened them: still*)
(* at their path (open), or removed from it since (gone).                  *)
Fields == Parts \X Cols
Maps == [open : SUBSET Fields, gone : SUBSET Fields]
NoMaps == [open |-> {}, gone |-> {}]

(* None is none of the things that may be missing.                         *)
Matrices == UNION {[C -> UNION {[K -> Values] : K \in SUBSET Keys}] : C \in SUBSET Cols}
ASSUME NoneAssumption ==
    None \notin Entry \cup Entries \cup [keys : SUBSET Keys, cols : Matrices, ok : BOOLEAN]

Kinds == {"write", "update", "stream"}
Stages == {"new", "scan", "create", "locate", "columns", "rows",
           "remove", "stream"}

(* A call under way: what it still has to do, the threads it has left and  *)
(* whether one has failed.  History: the table when it got the lock, and   *)
(* whether its cache was true to the table then.                           *)
Call(c) ==
    /\ c \in [kind : Kinds, stage : Stages, keys : SUBSET Keys, cols : SUBSET Cols,
              todo : SUBSET Parts, busy : SUBSET Parts, fields : SUBSET Fields,
              threads : 0 .. Threads, failed : BOOLEAN, before : {c.before}, sound : BOOLEAN]
    /\ Table(c.before)

VARIABLES
    lock,    \* who has created the .lock file, Left, or None
    part,    \* the directory of each partition, or None
    cache,   \* the TableHandle of each process: an Entry or None by partition
    maps,    \* the field handles of each process in its datasets
    call,    \* the call each process is in, or None
    calls    \* bound: the calls made so far

vars == <<lock, part, cache, maps, call, calls>>

TypeOK ==
    /\ lock \in Procs \cup {None, Left}
    /\ Table(part)
    /\ cache \in [Procs -> Entries \cup {None}]
    /\ maps \in [Procs -> Maps]
    /\ DOMAIN call = Procs /\ \A h \in Procs : call[h] # None => Call(call[h])
    /\ calls \in 0 .. MaxCalls

Fill(C, K, v) == [c \in C |-> [k \in K |-> v]]
KeysIn(K, p) == {k \in K : PartOf[k] = p}
PartsOf(K) == {PartOf[k] : k \in K}
Existing == {p \in Parts : part[p] # None}
NoEntries == [p \in Parts |-> None]
Least(S) == CHOOSE p \in S : \A q \in S : p <= q

(* init_table_data: one dataset for each partition that has rows.          *)
FirstTable ==
    [p \in Parts |->
        LET K == KeysIn(FirstKeys, p)
        IN  IF K = {} THEN None ELSE [keys |-> K, cols |-> Fill(FirstCols, K, Old), ok |-> TRUE]]

Init ==
    /\ lock = None
    /\ part \in {FirstTable, NoEntries}
    /\ cache = [h \in Procs |-> None]
    /\ maps = [h \in Procs |-> NoMaps]
    /\ call = [h \in Procs |-> None]
    /\ calls = 0

----------------------------------------------------------------------------
(* open_table: without a partition there is no scheme to infer.            *)
Open(h) ==
    /\ cache[h] = None /\ call[h] = None
    /\ Existing # {}
    /\ cache' = [cache EXCEPT ![h] = NoEntries]
    /\ UNCHANGED <<lock, part, maps, call, calls>>

(* close_table: the handles go, and with them what they have mapped.       *)
Close(h) ==
    /\ cache[h] # None /\ call[h] = None
    /\ cache' = [cache EXCEPT ![h] = None]
    /\ maps' = [maps EXCEPT ![h] = NoMaps]
    /\ UNCHANGED <<lock, part, call, calls>>

(* ensure_dataset: what is cached stays, else the directory is opened.     *)
EntryOf(d) == [keys |-> d.keys, cols |-> DOMAIN d.cols, live |-> TRUE]
Openable(h, p) == cache[h][p] # None \/ (part[p] # None /\ part[p].ok)
Ensured(h, P) ==
    [p \in Parts |-> IF p \in P /\ cache[h][p] = None THEN EntryOf(part[p]) ELSE cache[h][p]]

(* The fields in F are not at their paths any more.                        *)
Unlinked(F) ==
    [h \in Procs |-> [open |-> maps[h].open \ F, gone |-> maps[h].gone \cup (maps[h].open \cap F)]]

(* History: the cache holds the table as it is, and every field file that  *)
(* is mapped is the one at its path.                                       *)
Sound(h) ==
    /\ maps[h].gone = {}
    /\ \A p \in Parts : cache[h] # None /\ cache[h][p] # None =>
        cache[h][p].live /\ part[p] # None /\ cache[h][p] = EntryOf(part[p])

Started(h, kind, stage, in) ==
    [kind |-> kind, stage |-> stage, keys |-> in.keys, cols |-> in.cols,
     todo |-> {}, busy |-> {}, fields |-> {}, threads |-> 0, failed |-> FALSE,
     before |-> part, sound |-> Sound(h)]

(* As many threads as partitions, at most max_parallelism.                 *)
InUse(P) == IF Threads < Cardinality(P) THEN Threads ELSE Cardinality(P)

(* The end of a call, an error or not: the LockGuard is dropped.           *)
End(h) ==
    /\ call' = [call EXCEPT ![h] = None]
    /\ lock' = None
Fails(h) == End(h) /\ UNCHANGED <<part, cache, maps, calls>>

(* Mutant: a call that finds the lock takes it over.                       *)
BeginUnlocked(h) ==
    /\ cache[h] # None /\ call[h] = None
    /\ calls < MaxCalls
    /\ calls' = calls + 1
    /\ lock' = h
    /\ \E in \in Inputs :
         call' = [call EXCEPT ![h] = Started(h, "write", "scan", in)]
    /\ UNCHANGED <<part, cache, maps>>

(* LockGuard::acquire; a call that finds the lock returns an error.  From  *)
(* here on update_table has no dataset open: the cache is cleared.         *)
Begin(h) ==
    /\ cache[h] # None /\ call[h] = None
    /\ calls < MaxCalls
    /\ calls' = calls + 1
    /\ lock = None
    /\ lock' = h
    /\ \E in \in Inputs :
         \/ /\ call' = [call EXCEPT ![h] = Started(h, "write", "scan", in)]
            /\ UNCHANGED <<cache, maps>>
         \/ /\ call' = [call EXCEPT ![h] =
                           [Started(h, "update", "remove", in) EXCEPT
                              !.todo = PartsOf(in.keys), !.threads = InUse(PartsOf(in.keys))]]
            /\ cache' = [cache EXCEPT ![h] = NoEntries]
            /\ maps' = [maps EXCEPT ![h] = NoMaps]
    /\ UNCHANGED part

InStage(h, stage) == call[h] # None /\ call[h].stage = stage
Goes(h, stage, P) == call' = [call EXCEPT ![h].stage = stage, ![h].todo = P]

(* Mutant: all partitions are taken for missing.                           *)
ScanNone(h) ==
    /\ InStage(h, "scan")
    /\ \/ Fails(h)
       \/ /\ Goes(h, "create", PartsOf(call[h].keys))
          /\ UNCHANGED <<lock, part, cache, maps, calls>>

(* scan_partition_runs: an unsorted input is refused; then the partitions  *)
(* that are not there are listed.                                          *)
Scan(h) ==
    /\ InStage(h, "scan")
    /\ \/ Fails(h)
       \/ /\ Goes(h, "create", PartsOf(call[h].keys) \ Existing)
          /\ UNCHANGED <<lock, part, cache, maps, calls>>

----------------------------------------------------------------------------
(* write_table, before anything that exists is changed.                    *)

(* create_dataset_from_view of the caller's rows of p, all or nothing.     *)
Built(h, p) ==
    LET K == KeysIn(call[h].keys, p)
    IN  [keys |-> K, cols |-> Fill(call[h].cols, K, h), ok |-> TRUE]

(* locate_partition_plan, first part: missing partitions get the caller's  *)
(* rows and are opened, in the order of a HashMap.                         *)
CreatePartition(h) ==
    /\ InStage(h, "create") /\ call[h].todo # {}
    /\ \/ \E p \in call[h].todo :
            /\ part' = [part EXCEPT ![p] = Built(h, p)]
            /\ call' = [call EXCEPT ![h].todo = @ \ {p}]
            /\ cache' = [cache EXCEPT ![h][p] =
                            IF @ = None THEN EntryOf(Built(h, p)) ELSE @]
            /\ UNCHANGED <<lock, maps, calls>>
       \/ Fails(h)

StartLocating(h) ==
    /\ InStage(h, "create") /\ call[h].todo = {}
    /\ Goes(h, "locate", PartsOf(call[h].keys))
    /\ UNCHANGED <<lock, part, cache, maps, calls>>

(* locate_partition_plan, second part: the keys are looked up in the index *)
(* the process has of each partition; one that is missing fails the call.  *)
Locate(h) ==
    /\ InStage(h, "locate") /\ call[h].todo # {}
    /\ LET p == Least(call[h].todo)
       IN  \/ /\ Openable(h, p)
              /\ KeysIn(call[h].keys, p) \subseteq Ensured(h, {p})[p].keys
              /\ cache' = [cache EXCEPT ![h] = Ensured(h, {p})]
              /\ call' = [call EXCEPT ![h].todo = @ \ {p}]
              /\ UNCHANGED <<lock, part, maps, calls>>
           \/ Fails(h)

----------------------------------------------------------------------------
(* ensure_missing_columns                                                  *)

(* Mutant: the other partitions do not get the columns.                    *)
LackingHere(h) ==
    {f \in PartsOf(call[h].keys) \X call[h].cols : f[2] \notin Ensured(h, Existing)[f[1]].cols}

Lacking(h) == {f \in Existing \X call[h].cols : f[2] \notin Ensured(h, Existing)[f[1]].cols}

(* Every partition is opened and the columns its schema lacks are listed;  *)
(* a partition that cannot be opened or a column of another type fails the *)
(* call.                                                                   *)
PlanColumns(h) ==
    /\ InStage(h, "locate") /\ call[h].todo = {}
    /\ \/ /\ \A p \in Existing : Openable(h, p)
          /\ cache' = [cache EXCEPT ![h] = Ensured(h, Existing)]
          /\ call' = [call EXCEPT ![h].stage = "columns", ![h].fields = Lacking(h)]
          /\ UNCHANGED <<lock, part, maps, calls>>
       \/ Fails(h)

(* Mutant: a new column has the caller's rows only.                        *)
AlignedShort(h, p) == [k \in part[p].keys \cap call[h].keys |-> h]

(* build_aligned_column: the caller's rows at their place, NULL in all     *)
(* others; the place is wrong if the index is not that of the directory.   *)
Aligned(h, p) ==
    [k \in part[p].keys |-> IF ~cache[h][p].live THEN Junk
                            ELSE IF k \in call[h].keys THEN h ELSE Null]
WithColumn(d, c, col) ==
    [d EXCEPT !.cols = [x \in DOMAIN d.cols \cup {c} |-> IF x = c THEN col ELSE d.cols[x]]]
WithoutColumn(d, c) == [d EXCEPT !.cols = [x \in DOMAIN d.cols \ {c} |-> d.cols[x]]]

NextField(h) ==
    {f \in call[h].fields : \A g \in call[h].fields : f[1] <= g[1]}

(* What a schema that is read again holds: the fields that are there; or   *)
(* none, if they cannot be read, which is no error (reload_schema).        *)
Relisted(d) == {DOMAIN d.cols} \cup IF Misreads THEN {{}} ELSE {}

(* create_dataset_field; a file that is there although the schema lacks it *)
(* fails the call, and is removed: whoever has mapped it keeps the file    *)
(* that was.                                                               *)
CreateColumn(h) ==
    /\ InStage(h, "columns")
    /\ \E f \in NextField(h) :
         LET p == f[1]  c == f[2]
         IN  \/ /\ c \notin DOMAIN part[p].cols
                /\ part' = [part EXCEPT ![p] = WithColumn(part[p], c, Aligned(h, p))]
                /\ \E C \in Relisted(part'[p]) : cache' = [cache EXCEPT ![h][p].cols = C]
                /\ call' = [call EXCEPT ![h].fields = @ \ {f}]
                /\ UNCHANGED <<lock, maps, calls>>
             \/ /\ c \in DOMAIN part[p].cols
                /\ part' = [part EXCEPT ![p] = WithoutColumn(part[p], c)]
                /\ maps' = Unlinked({f})
                /\ End(h)
                /\ UNCHANGED <<cache, calls>>
             \/ /\ c \notin DOMAIN part[p].cols
                /\ Fails(h)

StartRows(h) ==
    /\ InStage(h, "columns") /\ call[h].fields = {}
    /\ Goes(h, "rows", PartsOf(call[h].keys))
    /\ UNCHANGED <<lock, part, cache, maps, calls>>

----------------------------------------------------------------------------
(* write_table, the rows: the partitions are dealt out to the threads; a   *)
(* thread goes through its own in order and stops at an error, the others  *)
(* go on.  One thread is the serial path.                                  *)
Thread(h, p) ==
    Cardinality({q \in PartsOf(call[h].keys) : q < p}) % InUse(PartsOf(call[h].keys))
Turn(h, p) == \A q \in call[h].todo : Thread(h, q) = Thread(h, p) => p <= q

(* Mutant: the offset of the rows is not looked at.                        *)
OverwrittenAll(h, d, W) ==
    [d EXCEPT !.cols = [c \in DOMAIN d.cols |->
        [k \in d.keys |-> IF \E j \in d.keys : <<j, c>> \in W THEN h ELSE d.cols[c][k]]]]

Overwritten(h, d, W) ==
    [d EXCEPT !.cols = [c \in DOMAIN d.cols |->
        [k \in d.keys |-> IF <<k, c>> \in W THEN h ELSE d.cols[c][k]]]]
Cells(h, p, C) == KeysIn(call[h].keys, p) \X C

(* write_dataset knows the columns it is given from its schema, and opens  *)
(* their files first: those it has mapped already stay the ones they are,  *)
(* the others are looked for at their paths.                               *)
Away(h, p) == {c \in call[h].cols : <<p, c>> \in maps[h].gone}
There(p) == IF part[p] = None THEN {} ELSE DOMAIN part[p].cols
Opening(h, p, C) == [maps EXCEPT ![h].open = @ \cup ({p} \X C)]

(* What the rows of a partition can become when the write to the columns   *)
(* of C goes through, and when it is cut short.  A handle of a directory   *)
(* that is gone writes into files that are gone too (nothing happens) or,  *)
(* if it opens them only now, by its own row numbers into those that took  *)
(* their place.                                                            *)
Strayed(p, C) ==
    IF part[p] = None THEN {None}
    ELSE {[part[p] EXCEPT !.cols = [c \in DOMAIN part[p].cols |->
               IF c \in D THEN [k \in part[p].keys |-> Junk] ELSE part[p].cols[c]]] :
            D \in SUBSET C}
After(h, p, C, whole) ==
    IF ~cache[h][p].live THEN Strayed(p, C)
    ELSE IF whole THEN {Overwritten(h, part[p], Cells(h, p, C))}
         ELSE {Overwritten(h, part[p], W) : W \in SUBSET Cells(h, p, C)}

(* Rows that go to a file that is not at its path are written and lost.    *)
WritePartition(h) ==
    /\ InStage(h, "rows")
    /\ \E p \in call[h].todo :
         LET C == call[h].cols \ Away(h, p)
         IN  /\ Turn(h, p)
             /\ call[h].cols \subseteq cache[h][p].cols
             /\ C \subseteq There(p)
             /\ maps' = Opening(h, p, C)
             /\ \E d \in After(h, p, C, TRUE) : part' = [part EXCEPT ![p] = d]
             /\ call' = [call EXCEPT ![h].todo = @ \ {p}]
    /\ UNCHANGED <<lock, cache, calls>>

WriteFails(h) ==
    /\ InStage(h, "rows")
    /\ \E p \in call[h].todo : \E C \in SUBSET ((call[h].cols \ Away(h, p)) \cap There(p)) :
         /\ Turn(h, p)
         /\ maps' = Opening(h, p, C)
         /\ \E d \in After(h, p, C, FALSE) : part' = [part EXCEPT ![p] = d]
         /\ call' = [call EXCEPT
                       ![h].todo = {q \in @ : Thread(h, q) # Thread(h, p)},
                       ![h].failed = TRUE]
    /\ UNCHANGED <<lock, cache, calls>>

EndWrite(h) ==
    /\ InStage(h, "rows") /\ call[h].todo = {}
    /\ Fails(h)

----------------------------------------------------------------------------
(* update_table: each thread takes the next partition, removes it and      *)
(* builds it from the caller's rows, and stops at its first error.         *)

(* The handles of the other processes stay on the directory that was.      *)
Orphaned(p) ==
    [h \in Procs |->
        IF cache[h] = None \/ cache[h][p] = None THEN cache[h]
        ELSE [cache[h] EXCEPT ![p].live = FALSE]]

(* remove_dir_all; its error is not looked at, though it may have removed  *)
(* some of the files.                                                      *)
Bare == [keys |-> {}, cols |-> Fill({}, {}, Null), ok |-> FALSE]
UpdateRemove(h) ==
    /\ InStage(h, "remove")
    /\ Cardinality(call[h].busy) < call[h].threads
    /\ \E p \in call[h].todo :
         /\ call' = [call EXCEPT ![h].todo = @ \ {p}, ![h].busy = @ \cup {p}]
         /\ \/ /\ part' = [part EXCEPT ![p] = None]
               /\ cache' = Orphaned(p) /\ maps' = Unlinked({p} \X Cols)
            \/ /\ part[p] # None
               /\ \/ UNCHANGED <<part, cache, maps>>
                  \/ /\ part' = [part EXCEPT ![p] = Bare]
                     /\ cache' = Orphaned(p) /\ maps' = Unlinked({p} \X Cols)
    /\ UNCHANGED <<lock, calls>>

(* Mutant: what could not be removed passes for the new partition.         *)
UpdateBuildAnyway(h) ==
    /\ InStage(h, "remove")
    /\ \E p \in call[h].busy :
         \/ /\ part' = [part EXCEPT ![p] = IF @ = None THEN Built(h, p) ELSE @]
            /\ call' = [call EXCEPT ![h].busy = @ \ {p}]
         \/ /\ call' = [call EXCEPT ![h].busy = @ \ {p}, ![h].threads = @ - 1,
                                    ![h].failed = TRUE]
            /\ UNCHANGED part
    /\ UNCHANGED <<lock, cache, maps, calls>>

UpdateBuild(h) ==
    /\ InStage(h, "remove")
    /\ \E p \in call[h].busy :
         \/ /\ part[p] = None
            /\ part' = [part EXCEPT ![p] = Built(h, p)]
            /\ call' = [call EXCEPT ![h].busy = @ \ {p}]
         \/ /\ call' = [call EXCEPT ![h].busy = @ \ {p}, ![h].threads = @ - 1,
                                    ![h].failed = TRUE]
            /\ UNCHANGED part
    /\ UNCHANGED <<lock, cache, maps, calls>>

(* Mutant: an update that failed keeps the lock.                           *)
EndUpdateLocked(h) ==
    /\ InStage(h, "remove") /\ call[h].busy = {}
    /\ call[h].todo = {} \/ call[h].threads = 0
    /\ call' = [call EXCEPT ![h] = None]
    /\ lock' = IF call[h].failed THEN lock ELSE None
    /\ UNCHANGED <<part, cache, maps, calls>>

EndUpdate(h) ==
    /\ InStage(h, "remove") /\ call[h].busy = {}
    /\ call[h].todo = {} \/ call[h].threads = 0
    /\ Fails(h)

----------------------------------------------------------------------------
(* TableStreamWriter: new looks whether the directory is empty and takes   *)
(* the lock afterwards; partitions that exist are refused.                 *)
StreamNew(h) ==
    /\ cache[h] = None /\ call[h] = None
    /\ calls < MaxCalls
    /\ calls' = calls + 1
    /\ Existing = {} /\ lock = None
    /\ \E in \in Inputs : call' = [call EXCEPT ![h] = Started(h, "stream", "new", in)]
    /\ UNCHANGED <<lock, part, cache, maps>>

StreamLock(h) ==
    /\ InStage(h, "new")
    /\ IF lock = None
       THEN /\ lock' = h
            /\ call' = [call EXCEPT ![h].stage = "stream", ![h].before = part,
                                    ![h].todo = PartsOf(call[h].keys)]
       ELSE call' = [call EXCEPT ![h] = None] /\ UNCHANGED lock
    /\ UNCHANGED <<part, cache, maps, calls>>

StreamPartition(h) ==
    /\ InStage(h, "stream") /\ call[h].todo # {}
    /\ LET p == Least(call[h].todo)
       IN  \/ /\ part[p] = None
              /\ part' = [part EXCEPT ![p] = Built(h, p)]
              /\ call' = [call EXCEPT ![h].todo = @ \ {p}]
              /\ UNCHANGED <<lock, cache, maps, calls>>
           \/ Fails(h)

StreamFinish(h) ==
    /\ InStage(h, "stream") /\ call[h].todo = {}
    /\ Fails(h)

----------------------------------------------------------------------------
(* The end of a process in the middle of a call.  The lock file stays.     *)

(* What is left of the step it was in: of a new partition, a directory     *)
(* with no META or with some of the columns, the last of which may be one  *)
(* that cannot be read; of a new column, a file that cannot be read; of    *)
(* rows, some cells.                                                       *)
Unfinished(h, p) ==
    {Bare} \cup
    {[keys |-> KeysIn(call[h].keys, p), cols |-> Fill(C, KeysIn(call[h].keys, p), h), ok |-> b] :
        C \in SUBSET call[h].cols, b \in BOOLEAN}
With(p, D) == {[part EXCEPT ![p] = d] : d \in D}
TornBuild(h) ==
    UNION {With(p, Unfinished(h, p)) :
        p \in {q \in call[h].todo :
                \/ InStage(h, "create")
                \/ InStage(h, "stream") /\ q = Least(call[h].todo) /\ part[q] = None}}
TornRebuild(h) ==
    LET P == {p \in call[h].busy : InStage(h, "remove") /\ part[p] = None}
        D == UNION {Unfinished(h, p) : p \in P}
    IN  {[p \in Parts |-> IF p \in P THEN d[p] ELSE part[p]] :
            d \in {g \in [P -> D] : \A p \in P : g[p] \in Unfinished(h, p)}}
TornColumn(h) ==
    {[part EXCEPT ![f[1]].ok = FALSE] :
        f \in {g \in NextField(h) : InStage(h, "columns") /\ g[2] \notin DOMAIN part[g[1]].cols}}
TornRows(h) ==
    UNION {With(p, After(h, p, call[h].cols \ Away(h, p), FALSE)) :
        p \in {q \in call[h].todo : InStage(h, "rows")}}
Torn(h) == {part} \cup TornBuild(h) \cup TornRebuild(h) \cup TornColumn(h) \cup TornRows(h)

Crash(h) ==
    /\ call[h] # None
    /\ part' \in Torn(h)
    /\ call' = [call EXCEPT ![h] = None]
    /\ cache' = [cache EXCEPT ![h] = None]
    /\ maps' = [maps EXCEPT ![h] = NoMaps]
    /\ lock' = IF lock = h THEN Left ELSE lock
    /\ UNCHANGED calls

(* Someone removes a lock file whose process has ended.                    *)
Unlock ==
    /\ lock = Left
    /\ lock' = None
    /\ UNCHANGED <<part, cache, maps, call, calls>>

----------------------------------------------------------------------------
Step(h) ==
    \/ Scan(h) \/ CreatePartition(h) \/ StartLocating(h) \/ Locate(h)
    \/ PlanColumns(h) \/ CreateColumn(h) \/ StartRows(h)
    \/ WritePartition(h) \/ WriteFails(h) \/ EndWrite(h)
    \/ UpdateRemove(h) \/ UpdateBuild(h) \/ EndUpdate(h)
    \/ StreamLock(h) \/ StreamPartition(h) \/ StreamFinish(h)

Next ==
    \/ \E h \in Procs : Open(h) \/ Close(h) \/ Begin(h) \/ StreamNew(h) \/ Step(h) \/ Crash(h)
    \/ Unlock

(* A thread in a call goes on until the call returns.  Nothing removes a   *)
(* lock that was left behind but a user who may not come.                  *)
Fairness == \A h \in Procs : WF_vars(Step(h))

Spec == Init /\ [][Next]_vars /\ Fairness

----------------------------------------------------------------------------
(* A cell of the table as the call found it: its value, NULL where there   *)
(* was no such row or column.                                              *)
Cell(t, k, c) ==
    LET d == t[PartOf[k]]
    IN  IF d # None /\ k \in d.keys /\ c \in DOMAIN d.cols THEN d.cols[c][k] ELSE Null

(* The call of h ends in this step, from its last stage and without error. *)
EndsOk(h, stage) ==
    /\ InStage(h, stage) /\ call'[h] = None /\ lock' = None
    /\ call[h].todo = {} /\ call[h].busy = {} /\ ~call[h].failed

(* INVARIANT: whoever works on the table has created the lock file that is *)
(* there: through errors, ended processes, locks removed by hand and the   *)
(* late lock of a stream writer (write.rs, LockGuard).                     *)
Inside(h) == call[h] # None /\ call[h].stage # "new"
LockHeld == \A h \in Procs : Inside(h) => lock = h

(* INVARIANT: until all keys are located nothing that was in the table     *)
(* when the call got the lock is changed, in any partition, even if new    *)
(* ones have been made meanwhile (write.rs, locate_partition_plan).        *)
LocatedFirst ==
    \A h \in Procs : Inside(h) /\ call[h].stage \in {"scan", "create", "locate"} =>
        \A p \in Parts : call[h].before[p] # None => part[p] = call[h].before[p]

(* PROPERTY: a write that succeeds has written every row it was given and  *)
(* no other: all input columns exist in all partitions, named cells hold   *)
(* the caller's values, all others what they held before, on however many  *)
(* threads, whatever failed in calls before.  A process is excepted that   *)
(* kept a dataset open which another one has changed or rebuilt since, or  *)
(* a field file which was removed from it, though one of that name may be  *)
(* there again; so is one whose schema came out empty (write.rs,           *)
(* write_table).                                                           *)
WriteIsExact ==
    [][\A h \in Procs : EndsOk(h, "rows") /\ call[h].sound =>
          LET b == call[h].before
          IN  /\ \A p \in Existing :
                    /\ call[h].cols \subseteq DOMAIN part[p].cols
                    /\ b[p] # None => /\ part[p].keys = b[p].keys
                                      /\ DOMAIN part[p].cols = DOMAIN b[p].cols \cup call[h].cols
              /\ Existing = {p \in Parts : b[p] # None} \cup PartsOf(call[h].keys)
              /\ \A k \in Keys, c \in Cols :
                    IF k \in call[h].keys /\ c \in call[h].cols THEN Cell(part, k, c) = h
                    ELSE k \in UNION {b[p].keys : p \in {q \in Parts : b[q] # None}} =>
                            Cell(part, k, c) = Cell(b, k, c)]_vars

(* PROPERTY: an update or a stream that succeeds leaves in each partition  *)
(* it names exactly the caller's rows and columns, whatever a crash or an  *)
(* error had left there, and the other partitions as they were; a stream   *)
(* has not replaced anything (write.rs, update_table_data, write_batch).   *)
ReplaceIsExact ==
    [][\A h \in Procs : EndsOk(h, "remove") \/ EndsOk(h, "stream") =>
          \A p \in Parts :
             /\ p \in PartsOf(call[h].keys) => part[p] = Built(h, p)
             /\ p \notin PartsOf(call[h].keys) => part[p] = call[h].before[p]
             /\ call[h].stage = "stream" /\ p \in PartsOf(call[h].keys) =>
                    call[h].before[p] = None]_vars

(* PROPERTY: no step of a write or an update, and no end of its process in *)
(* the middle of one, changes a cell the caller did not name; an update is *)
(* allowed the partitions it names.  The exceptions are those of           *)
(* WriteIsExact; and it is said of uncompressed fields: of a compressed    *)
(* one the end of a process takes the rows that earlier calls have left    *)
(* with its handle (write.rs:217, no atomicity across partitions is        *)
(* promised, but this; field_file.rs:1235).                                *)
OthersKept ==
    [][\A h \in Procs : Inside(h) /\ call[h].sound =>
          \A k \in Keys, c \in Cols :
             IF call[h].stage \in {"remove", "stream"}
             THEN PartOf[k] \notin PartsOf(call[h].keys) => Cell(part', k, c) = Cell(part, k, c)
             ELSE (k \notin call[h].keys \/ c \notin call[h].cols) /\ part[PartOf[k]] # None
                     => Cell(part', k, c) = Cell(part, k, c)]_vars

(* PROPERTY: no call keeps the lock for ever, however it ends: the guard   *)
(* is dropped on every path, or the process has ended (write.rs, the Drop  *)
(* of LockGuard, finish and drop of a stream writer).                      *)
LockFreed == \A h \in Procs : lock = h ~> lock # h

(* PROPERTY, violated by the code: a write creates columns that are        *)
(* missing and never touches one that exists, with handles whose datasets  *)
(* are still those of the directory (the comment at write.rs:2).           *)
ColumnsKept ==
    [][\A h \in Procs :
          /\ Inside(h) /\ call[h].kind = "write"
          /\ \A p \in Existing : cache[h][p] # None => cache[h][p].live
          => \A p \in Existing : DOMAIN part[p].cols \subseteq DOMAIN part'[p].cols]_vars
=============================================================================
