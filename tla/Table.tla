------------------------------- MODULE Table -------------------------------
(***************************************************************************)
(* A table directory and one TableHandle open on it for writing            *)
(* (splayed-table, table.rs): the partitions, what the handle has cached   *)
(* of them (DatasetHandles, with the unsaved rows of compressed fields)    *)
(* and the statistics it remembers.  Calls take no lock unless they are    *)
(* writes, and the handle learns of what others do to the directory only   *)
(* where it reads it.  Calls are atomic here: how the steps of the writes  *)
(* interleave is the subject of TableWrite, what happens inside one        *)
(* partition that of Dataset.  A call that goes through several partitions *)
(* may fail after some of them.  Partitions are numbers, in name order.    *)
(***************************************************************************)
EXTENDS Integers, FiniteSets

CONSTANTS
    Parts,    \* the partitions there can be: numbers, ascending by name
    Cols,     \* the fields there can be
    Types,    \* their types
    Rows,     \* what the META of a partition can hold
    Packs,    \* may fields be compressed?  {FALSE}, or BOOLEAN
    None,     \* no directory, nothing cached
    Inputs,   \* what calls make partitions of: some of Made
    Strangers \* what another process may put in the place of a partition:
              \* pairs of the partition and one of Made, or None

ASSUME TableAssumption ==
    /\ Parts \subseteq Nat /\ IsFiniteSet(Parts)
    /\ None \notin Rows
    /\ Packs \subseteq BOOLEAN /\ FALSE \in Packs

(* A field file, by its type and whether it is in compressed chunks.       *)
Field == [typ : Types, packed : Packs]

(* What a partition can be on disk.                                        *)
Directories == UNION {[rows : Rows, cols : [C -> Field]] : C \in SUBSET Cols}

(* Of a cached DatasetHandle: the index it maps, its schema, and the       *)
(* fields that have rows not written back.                                 *)
Entries ==
    UNION {[rows : Rows, schema : [C -> Types], dirty : SUBSET Cols] : C \in SUBSET Cols}

ASSUME NoneAssumption == None \notin Directories \cup Entries

VARIABLES
    part,      \* the directory of each partition, or None
    open,      \* is the handle open?
    ds,        \* its datasets: one of Entries, or None
    memo,      \* its stats_cache: the rows remembered of a partition, or None
    foreign,   \* history: another process has changed the partition
    spoiled,   \* history: an update or a fix through the handle has failed half way
    uneven     \* history: a cast or a fix has failed, or types differ from outside

vars == <<part, open, ds, memo, foreign, spoiled, uneven>>

TypeOK ==
    /\ part \in [Parts -> Directories \cup {None}]
    /\ open \in BOOLEAN
    /\ ds \in [Parts -> Entries \cup {None}]
    /\ memo \in [Parts -> Rows \cup {None}]
    /\ foreign \in SUBSET Parts
    /\ spoiled \in BOOLEAN /\ uneven \in BOOLEAN

Nothing == [p \in Parts |-> None]

(* discover_partitions                                                     *)
Existing == {p \in Parts : part[p] # None}
Latest == CHOOSE p \in Existing : \A q \in Existing : q <= p

TypesOf(d) == [c \in DOMAIN d.cols |-> d.cols[c].typ]
EntryOf(d) == [rows |-> d.rows, schema |-> TypesOf(d), dirty |-> {}]

(* ensure_dataset: what is cached stays, else the directory is opened.     *)
Ensured(P) ==
    [p \in Parts |-> IF p \in P /\ ds[p] = None THEN EntryOf(part[p]) ELSE ds[p]]

(* The type a field has in the table, where all partitions agree.          *)
Alike(d, e) == \A c \in DOMAIN d.cols \cap DOMAIN e.cols : d.cols[c].typ = e.cols[c].typ
TableType(c, t) == \A p \in Existing : c \in DOMAIN part[p].cols => part[p].cols[c].typ = t
Typed(d) == \A c \in DOMAIN d.cols : TableType(c, d.cols[c].typ)

(* What a call that makes a partition may make: an index and fields, all   *)
(* of them packed or plain.                                                *)
Made ==
    UNION {{[rows |-> r, cols |-> [c \in C |-> [typ |-> T[c], packed |-> k]]] : T \in [C -> Types]} :
             r \in Rows, C \in SUBSET Cols, k \in Packs}
Plain(d) == \A c \in DOMAIN d.cols : ~d.cols[c].packed
ASSUME InputsAssumption == Inputs \subseteq Made /\ Strangers \subseteq Parts \X (Made \cup {None})

Init ==
    /\ part = Nothing
    /\ open = FALSE
    /\ ds = Nothing /\ memo = Nothing
    /\ foreign = {} /\ spoiled = FALSE /\ uneven = FALSE

----------------------------------------------------------------------------
(* init_table_data: one dataset for each partition that has rows, on       *)
(* several threads; an error leaves those that are done.                   *)
InitTable ==
    /\ Existing = {} /\ ~open
    /\ \E P \in SUBSET Parts \ {{}}, d \in Inputs :
         part' = [p \in Parts |-> IF p \in P THEN d ELSE None]
    /\ UNCHANGED <<open, ds, memo, foreign, spoiled, uneven>>

(* create_table: one partition, its fields plain, with no rows in them.    *)
CreateTable ==
    /\ Existing = {} /\ ~open
    /\ \E p \in Parts, d \in {x \in Inputs : Plain(x)} : part' = [part EXCEPT ![p] = d]
    /\ open' = TRUE
    /\ UNCHANGED <<ds, memo, foreign, spoiled, uneven>>

(* open_table: without a partition there is no scheme to infer.            *)
OpenTable ==
    /\ ~open /\ Existing # {}
    /\ open' = TRUE
    /\ foreign' = {} /\ spoiled' = FALSE
    /\ UNCHANGED <<part, ds, memo, uneven>>

(* close, which stops at the first dataset that cannot be saved, or the    *)
(* drop of the handle: nothing of it is left.                              *)
CloseTable ==
    /\ open
    /\ open' = FALSE
    /\ ds' = Nothing /\ memo' = Nothing
    /\ UNCHANGED <<part, foreign, spoiled, uneven>>

(* delete_table, drop_table: remove_dir_all, which may stop half way.      *)
DeleteTable ==
    /\ ~open /\ Existing # {}
    /\ \E P \in SUBSET Existing :
         /\ P # {}
         /\ part' = [p \in Parts |-> IF p \in P THEN None ELSE part[p]]
         /\ uneven' = (uneven /\ P # Existing)
    /\ UNCHANGED <<open, ds, memo, foreign, spoiled>>

----------------------------------------------------------------------------
(* schema: that of the latest partition, by its cached dataset.            *)
Schema ==
    /\ open /\ Existing # {}
    /\ ds' = Ensured({Latest})
    /\ UNCHANGED <<part, open, memo, foreign, spoiled, uneven>>

(* statistics: what is remembered is not looked up again.                  *)
Statistics ==
    /\ open
    /\ LET unknown == {p \in Existing : memo[p] = None}
       IN  /\ ds' = Ensured(unknown)
           /\ memo' = [p \in Parts |-> IF p \in unknown THEN ds'[p].rows ELSE memo[p]]
    /\ UNCHANGED <<part, open, foreign, spoiled, uneven>>

(* create_partition, which write_table calls for each partition it misses. *)
(* The caller's types are not compared with those of other partitions.     *)
CreatePartition ==
    /\ open
    /\ \E p \in Parts \ Existing, d \in Inputs :
         /\ part' = [part EXCEPT ![p] = d]
         /\ ds' = [ds EXCEPT ![p] = IF @ = None THEN EntryOf(d) ELSE @]
         /\ memo' = [memo EXCEPT ![p] = None]
         /\ uneven' = (uneven \/ ~Typed(d))
    /\ UNCHANGED <<open, foreign, spoiled>>

(* Mutant: delete_partition leaves the statistics.                         *)
DeletePartitionOnly(p) ==
    /\ open
    /\ p \in Existing
    /\ part' = [part EXCEPT ![p] = None]
    /\ ds' = [ds EXCEPT ![p] = None]
    /\ UNCHANGED <<open, memo, foreign, spoiled, uneven>>

(* Mutant: all datasets are forgotten.                                     *)
DeletePartitionAll(p) ==
    /\ open
    /\ p \in Existing
    /\ part' = [part EXCEPT ![p] = None]
    /\ memo' = [memo EXCEPT ![p] = None]
    /\ ds' = Nothing
    /\ UNCHANGED <<open, foreign, spoiled, uneven>>

(* delete_partition                                                        *)
DeletePartition(p) ==
    /\ open
    /\ p \in Existing
    /\ part' = [part EXCEPT ![p] = None]
    /\ ds' = [ds EXCEPT ![p] = None]
    /\ memo' = [memo EXCEPT ![p] = None]
    /\ UNCHANGED <<open, foreign, spoiled, uneven>>

----------------------------------------------------------------------------
(* write_table after its partitions are there, by what it leaves of the    *)
(* structure: each step is also where a call that fails may stop.          *)

(* Mutant: only the partition that lacks the column is looked at.          *)
FitsAlways(c, t) == TRUE

(* ensure_missing_columns: a column of another type in any partition stops *)
(* the call before anything is made.                                       *)
Fits(c, t) ==
    LET s == Ensured(Existing)
    IN  \A p \in Existing : c \in DOMAIN s[p].schema => s[p].schema[c] = t

AddColumn ==
    /\ open
    /\ \E p \in Existing, c \in Cols, t \in Types, k \in Packs :
         LET s == Ensured(Existing)
             d == [part[p] EXCEPT !.cols = [x \in DOMAIN @ \cup {c} |->
                      IF x = c THEN [typ |-> t, packed |-> k] ELSE @[x]]]
         IN  /\ Fits(c, t)
             /\ c \notin DOMAIN s[p].schema /\ c \notin DOMAIN part[p].cols
             /\ part' = [part EXCEPT ![p] = d]
             /\ ds' = [s EXCEPT ![p].schema = TypesOf(d)]
    /\ UNCHANGED <<open, memo, foreign, spoiled, uneven>>

(* The rows: those of packed fields stay in the handle until it is closed. *)
WriteRows ==
    /\ open
    /\ \E P \in SUBSET Existing \ {{}}, C \in SUBSET Cols \ {{}} :
         LET s == Ensured(Existing)
         IN  /\ \A p \in Existing : C \subseteq DOMAIN s[p].schema
             /\ ds' = [p \in Parts |->
                         IF p \notin P THEN s[p]
                         ELSE [s[p] EXCEPT !.dirty = @ \cup
                                {c \in C \cap DOMAIN part[p].cols : part[p].cols[c].packed}]]
    /\ UNCHANGED <<part, open, memo, foreign, spoiled, uneven>>

(* update_table: forgets all datasets, removes and builds the partitions   *)
(* it names, and at the end, if no partition failed, forgets the           *)
(* statistics.                                                             *)
UpdateTable ==
    /\ open
    /\ \E P \in SUBSET Parts \ {{}} : \E built \in SUBSET P : \E gone \in SUBSET (P \ built) :
       \E d \in IF built = {} THEN {None} ELSE Inputs :
         /\ part' = [p \in Parts |-> IF p \in built THEN d
                                     ELSE IF p \in gone THEN None ELSE part[p]]
         /\ memo' = IF built = P THEN Nothing ELSE memo
         /\ spoiled' = (spoiled \/ built # P)
         /\ uneven' = (uneven \/ \E p \in Existing \ (built \cup gone), q \in built :
                           ~Alike(part[p], part'[q]))
    /\ ds' = Nothing
    /\ UNCHANGED <<open, foreign>>

----------------------------------------------------------------------------
(* Field structure over all partitions.                                    *)

(* structural_for_each: every partition is open; those whose schema has    *)
(* the field are changed, on several threads, and an error leaves those    *)
(* that are done.  A dataset first forgets the handle of the field, with   *)
(* the rows not written back; it then works by path, and fails if there is *)
(* no file; at last it reads the schema again.                             *)
Targets(s, c) == {p \in Existing : c \in DOMAIN s[p].schema}
Structural(c, P, changed) ==
    LET s == Ensured(Existing)
    IN  /\ Targets(s, c) # {}
        /\ P \subseteq {p \in Targets(s, c) : c \in DOMAIN part[p].cols}
        /\ part' = [p \in Parts |-> IF p \in P THEN [part[p] EXCEPT !.cols = changed[p]] ELSE part[p]]
        /\ \E tried \in SUBSET Targets(s, c) :
             /\ P \subseteq tried
             /\ ds' = [p \in Parts |->
                          IF p \in P
                          THEN [s[p] EXCEPT !.schema = TypesOf(part'[p]), !.dirty = @ \ {c}]
                          ELSE IF p \in tried THEN [s[p] EXCEPT !.dirty = @ \ {c}] ELSE s[p]]
Whole(c, P) == P = Targets(Ensured(Existing), c)

(* update_field: a header edit of the field's files, whose types stay.      *)
UpdateField(c) ==
    /\ open
    /\ Targets(Ensured(Existing), c) # {}
    /\ ds' = Ensured(Existing)
    /\ UNCHANGED <<part, open, memo, foreign, spoiled, uneven>>

Without(cols, c) == [x \in DOMAIN cols \ {c} |-> cols[x]]

DeleteField(c) ==
    /\ open
    /\ \E P \in SUBSET Existing : Structural(c, P, [p \in P |-> Without(part[p].cols, c)])
    /\ UNCHANGED <<open, memo, foreign, spoiled, uneven>>

(* rename_field: refused if the new name is in any schema.                 *)
Renamed(cols, c, n) ==
    [x \in (DOMAIN cols \ {c}) \cup {n} |-> IF x = n THEN cols[c] ELSE cols[x]]
RenameField(c) ==
    /\ open
    /\ \E n \in Cols, P \in SUBSET Existing :
         /\ \A p \in Existing : n \notin DOMAIN Ensured(Existing)[p].schema
         /\ Structural(c, P, [p \in P |-> Renamed(part[p].cols, c, n)])
    /\ UNCHANGED <<open, memo, foreign, spoiled, uneven>>

(* cast_field: refused if the partitions differ in type.                   *)
CastField(c) ==
    /\ open
    /\ \E t \in Types, P \in SUBSET Existing :
         LET s == Ensured(Existing)
         IN  /\ \A p, q \in Targets(s, c) : s[p].schema[c] = s[q].schema[c]
             /\ Structural(c, P, [p \in P |-> [part[p].cols EXCEPT ![c].typ = t]])
             /\ uneven' = (uneven \/ ~Whole(c, P))
    /\ UNCHANGED <<open, memo, foreign, spoiled>>

(* compress_field, decompress_field: refused if one of the files is        *)
(* already what it is to become.                                           *)
Convert(c) ==
    /\ open
    /\ \E k \in Packs, P \in SUBSET Existing :
         /\ \A p \in Targets(Ensured(Existing), c) :
                c \in DOMAIN part[p].cols /\ part[p].cols[c].packed # k
         /\ Structural(c, P, [p \in P |-> [part[p].cols EXCEPT ![c].packed = k]])
    /\ UNCHANGED <<open, memo, foreign, spoiled, uneven>>

----------------------------------------------------------------------------
(* init_field: in the latest partition only, whose dataset is then         *)
(* forgotten.  The types of the others are not looked at.                  *)
(* Mutant: the dataset of the latest partition stays.                      *)
InitFieldKept ==
    /\ open /\ Existing # {}
    /\ \E c \in Cols, t \in Types, k \in Packs :
         LET s == Ensured({Latest})
         IN  /\ c \notin DOMAIN s[Latest].schema /\ c \notin DOMAIN part[Latest].cols
             /\ part' = [part EXCEPT ![Latest].cols = [x \in DOMAIN @ \cup {c} |->
                            IF x = c THEN [typ |-> t, packed |-> k] ELSE @[x]]]
             /\ ds' = s
             /\ uneven' = (uneven \/ ~TableType(c, t))
    /\ UNCHANGED <<open, memo, foreign, spoiled>>

InitField ==
    /\ open /\ Existing # {}
    /\ \E c \in Cols, t \in Types, k \in Packs :
         LET s == Ensured({Latest})
         IN  /\ c \notin DOMAIN s[Latest].schema /\ c \notin DOMAIN part[Latest].cols
             /\ part' = [part EXCEPT ![Latest].cols = [x \in DOMAIN @ \cup {c} |->
                            IF x = c THEN [typ |-> t, packed |-> k] ELSE @[x]]]
             /\ ds' = [s EXCEPT ![Latest] = None]
             /\ uneven' = (uneven \/ ~TableType(c, t))
    /\ UNCHANGED <<open, memo, foreign, spoiled>>

(* fix: the fields that earlier partitions have and the latest lacks are   *)
(* made there, as far as an error lets it, and its dataset is forgotten.   *)
(* Fields of the same name but of two types stop it before it starts.      *)
Lacking(s) ==
    UNION {DOMAIN s[p].schema : p \in Existing \ {Latest}} \ DOMAIN s[Latest].schema
TypeIn(s, c) == {s[p].schema[c] : p \in {q \in Existing \ {Latest} : c \in DOMAIN s[q].schema}}

Fix ==
    /\ open /\ Cardinality(Existing) >= 2
    /\ LET s == Ensured(Existing)
           L == Lacking(s)
           d == part[Latest]
       IN  /\ \A c \in L : Cardinality(TypeIn(s, c)) = 1
           /\ \E done \in SUBSET L :
                /\ done \cap DOMAIN d.cols = {}
                /\ part' = [part EXCEPT ![Latest].cols =
                       [x \in DOMAIN @ \cup done |->
                           IF x \in DOMAIN @ THEN @[x]
                           ELSE [typ |-> CHOOSE t \in TypeIn(s, x) : TRUE, packed |-> FALSE]]]
                /\ ds' = IF L = {} \/ done # L THEN s ELSE [s EXCEPT ![Latest] = None]
                /\ spoiled' = (spoiled \/ done # L)
                /\ uneven' = (uneven \/ done # L)
    /\ UNCHANGED <<open, memo, foreign>>

----------------------------------------------------------------------------
(* Another process deletes or replaces a partition, once while the        *)
(* handle is open.                                                         *)
Outside ==
    /\ open /\ foreign = {}
    /\ \E s \in Strangers :
         /\ part[s[1]] # None \/ s[2] # None
         /\ part' = [part EXCEPT ![s[1]] = s[2]]
         /\ foreign' = {s[1]}
         /\ uneven' = TRUE
    /\ UNCHANGED <<open, ds, memo, spoiled>>

----------------------------------------------------------------------------
Next ==
    \/ InitTable \/ CreateTable \/ OpenTable \/ CloseTable \/ DeleteTable
    \/ Schema \/ Statistics
    \/ CreatePartition \/ \E p \in Parts : DeletePartition(p)
    \/ AddColumn \/ WriteRows \/ UpdateTable
    \/ \E c \in Cols : UpdateField(c)
    \/ \E c \in Cols : DeleteField(c) \/ RenameField(c) \/ CastField(c) \/ Convert(c)
    \/ InitField \/ Fix
    \/ Outside

Spec == Init /\ [][Next]_vars

----------------------------------------------------------------------------
(* INVARIANT: what the handle remembers of a partition's rows is what the  *)
(* partition has, and it remembers none that is gone, unless another       *)
(* process has changed the partition or an update has failed (table.rs,    *)
(* partition_stats: "the memo never expires").                             *)
StatsExact ==
    ~spoiled => \A p \in Parts \ foreign :
        memo[p] # None => part[p] # None /\ memo[p] = part[p].rows

(* INVARIANT: a cached dataset has the index and the schema that are on    *)
(* disk: every call that makes, changes or removes a field or a partition  *)
(* sees to the cache, also if it fails half way (but for fix, which keeps  *)
(* the dataset of before then), unless another process has changed the     *)
(* partition.                                                              *)
CacheTrue ==
    /\ TypeOK
    /\ ~spoiled => \A p \in Parts \ foreign :
         ds[p] # None => /\ part[p] # None
                        /\ ds[p].rows = part[p].rows
                        /\ ds[p].schema = TypesOf(part[p])

(* INVARIANT: as long as whoever makes partitions and single fields gives  *)
(* the types the table has, and no cast has failed, a field has one type   *)
(* in all partitions (what schema() relies on).                            *)
TypesAgree ==
    ~uneven => \A p, q \in Existing : Alike(part[p], part[q])

(* PROPERTY: rows that are not written back are only lost to a call on     *)
(* their field or their partition, to init_field and fix if the partition  *)
(* is the latest, to update_table and to the end of the handle (the calls  *)
(* that drop a DatasetHandle or a FieldFile without closing it).           *)
UnsavedKept ==
    [][\A p \in Parts : ds[p] # None =>
          \A c \in ds[p].dirty :
             \/ ds'[p] # None /\ c \in ds'[p].dirty
             \/ ~open'
             \/ ds' = Nothing /\ (memo' = Nothing \/ spoiled')   \* update_table
             \/ DeletePartition(p)
             \/ DeleteField(c) \/ RenameField(c) \/ CastField(c) \/ Convert(c)
             \/ p = Latest /\ (InitField \/ Fix)]_vars
=============================================================================
