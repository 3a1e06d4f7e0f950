---------------------------- MODULE Table_proofs ----------------------------
(***************************************************************************)
(* What a table handle remembers, for any finite set of partitions, any    *)
(* fields, types and indexes, and whatever calls and others do.            *)
(*                                                                         *)
(* StatsExact needs CacheTrue, because statistics reads a cached dataset;  *)
(* TypesAgree needs more than CacheTrue, because calls compare types in    *)
(* the cached schemas also after an update has failed and after others     *)
(* have been at work.  What is inductive is that the cache is right of     *)
(* every partition unless the types may have come apart and the partition  *)
(* was changed from outside or a call has failed half way.                 *)
(***************************************************************************)
EXTENDS Table, FiniteSetTheorems, WellFoundedInduction, TLAPS

(* May the cache of a partition be relied on?                              *)
Trusted(p) == ~uneven \/ (~spoiled /\ p \notin foreign)

(* The cached dataset of a partition is what is on disk.                   *)
Agrees(p) == ds[p] # None => /\ part[p] # None
                             /\ ds[p].rows = part[p].rows
                             /\ ds[p].schema = TypesOf(part[p])

CacheInv == \A p \in Parts : Trusted(p) => Agrees(p)

(* A step loses no unsaved rows, but perhaps those of some partitions and  *)
(* some fields.                                                            *)
Spares(P, C) ==
    \A p \in Parts \ P : ds[p] # None =>
        ds'[p] # None /\ ds[p].dirty \ C \subseteq ds'[p].dirty

(* Without a handle nothing is cached.                                     *)
Closed == ~open => ds = Nothing /\ memo = Nothing

IInv == TypeOK /\ Closed /\ CacheInv /\ StatsExact /\ TypesAgree

----------------------------------------------------------------------------
(* The latest partition exists.                                            *)

Less == {ss \in Nat \X Nat : ss[1] < ss[2]}

(* The order of the naturals is well-founded.                              *)
LEMMA LessIsWellFounded == IsWellFoundedOn(Less, Nat)
<1>1. OpToRel(<, Nat) = Less
  BY DEF OpToRel, Less
<1> QED BY <1>1, NatLessThanWellFounded, Zenon

(* Of some naturals, one is the least.                                     *)
LEMMA LeastNatural ==
    ASSUME NEW T \in SUBSET Nat, T # {}
    PROVE  \E x \in T : \A y \in T : x <= y
<1>1. PICK x \in T : \A y \in T : ~(<<y, x>> \in Less)
  BY LessIsWellFounded, WFMin
<1>2. ASSUME NEW y \in T, ~(x <= y) PROVE FALSE
  <2>1. x \in Nat /\ y \in Nat /\ y < x
    BY <1>2
  <2>2. <<y, x>> \in Less
    BY <2>1 DEF Less
  <2> QED BY <1>1, <2>2
<1> QED BY <1>2

(* Of finitely many partitions, one is the latest: the one with the fewest *)
(* after it.                                                               *)
LEMMA GreatestNatural ==
    ASSUME NEW P \in SUBSET Nat, IsFiniteSet(P), P # {}
    PROVE  \E x \in P : \A y \in P : y <= x
<1> DEFINE Above(p) == {q \in P : q > p}
           T == {Cardinality(Above(p)) : p \in P}
<1>1. \A p \in P : IsFiniteSet(Above(p)) /\ Cardinality(Above(p)) \in Nat
  BY FS_Subset, FS_CardinalityType
<1>2. PICK x \in P : \A y \in P : Cardinality(Above(x)) <= Cardinality(Above(y))
  <2>1. T \in SUBSET Nat /\ T # {}
    BY <1>1
  <2>2. PICK n \in T : \A m \in T : n <= m
    BY <2>1, LeastNatural
  <2> QED BY <2>2
<1>3. ASSUME NEW y \in P, y > x PROVE FALSE
  <2>1. P \subseteq Nat /\ x \in Nat /\ y \in Nat
    OBVIOUS
  <2>2. ASSUME NEW q \in P, q > y PROVE q > x
    <3>1. q \in Nat
      OBVIOUS
    <3> QED BY <1>3, <2>1, <2>2, <3>1
  <2>3. Above(y) \subseteq Above(x)
    BY <2>2
  <2>4. y \in Above(x) /\ ~(y > y)
    BY <1>3, <2>1
  <2>5. Cardinality(Above(y)) = Cardinality(Above(x))
    <3>1. Cardinality(Above(y)) <= Cardinality(Above(x))
      BY <1>1, <2>3, FS_Subset
    <3> QED BY <1>1, <1>2, <3>1
  <2>6. Above(x) = Above(y)
    BY <1>1, <2>3, <2>5, FS_Subset
  <2> QED BY <2>4, <2>6
<1> QED BY <1>3

(* Latest is a partition that exists, if there is one.                     *)
LEMMA LatestExists == Existing # {} => Latest \in Existing
<1>1. Existing \in SUBSET Nat /\ IsFiniteSet(Existing)
  BY TableAssumption, FS_Subset DEF Existing
<1> QED BY <1>1, GreatestNatural DEF Latest

----------------------------------------------------------------------------
(* Directories and cached datasets.                                        *)

(* The fields of a directory.                                              *)
Fields(f) == f \in [DOMAIN f -> Field] /\ DOMAIN f \subseteq Cols

(* What a directory is made of.                                            *)
LEMMA DirectoryParts ==
    ASSUME NEW d \in Directories
    PROVE  /\ d # None
           /\ d.rows \in Rows /\ d.rows # None
           /\ DOMAIN d.cols \subseteq Cols
           /\ d.cols \in [DOMAIN d.cols -> Field]
           /\ d = [rows |-> d.rows, cols |-> d.cols]
<1>1. PICK C \in SUBSET Cols : d \in [rows : Rows, cols : [C -> Field]]
  BY DEF Directories
<1> QED BY <1>1, NoneAssumption, TableAssumption

(* Directories are made of an index and fields.                            *)
LEMMA DirectoryMade ==
    ASSUME NEW r \in Rows, NEW C \in SUBSET Cols, NEW f \in [C -> Field]
    PROVE  [rows |-> r, cols |-> f] \in Directories
BY DEF Directories

(* What calls are given are directories.                                   *)
LEMMA MadeDirectories == Made \subseteq Directories
<1> SUFFICES ASSUME NEW d \in Made PROVE d \in Directories OBVIOUS
<1>1. PICK r \in Rows, C \in SUBSET Cols, k \in Packs :
        d \in {[rows |-> r, cols |-> [c \in C |-> [typ |-> T[c], packed |-> k]]] :
                 T \in [C -> Types]}
  BY DEF Made
<1>2. PICK T \in [C -> Types] :
        d = [rows |-> r, cols |-> [c \in C |-> [typ |-> T[c], packed |-> k]]]
  BY <1>1
<1>3. [c \in C |-> [typ |-> T[c], packed |-> k]] \in [C -> Field]
  BY DEF Field
<1> QED BY <1>2, <1>3, DirectoryMade

(* What a cached dataset is made of.                                       *)
LEMMA EntryParts ==
    ASSUME NEW e \in Entries
    PROVE  /\ e # None
           /\ e.rows \in Rows /\ e.rows # None
           /\ DOMAIN e.schema \subseteq Cols
           /\ e.schema \in [DOMAIN e.schema -> Types]
           /\ e.dirty \subseteq Cols
           /\ e = [rows |-> e.rows, schema |-> e.schema, dirty |-> e.dirty]
<1>1. PICK C \in SUBSET Cols :
        e \in [rows : Rows, schema : [C -> Types], dirty : SUBSET Cols]
  BY DEF Entries
<1> QED BY <1>1, NoneAssumption, TableAssumption

(* Cached datasets are made of an index, a schema and unsaved fields.      *)
LEMMA EntryMade ==
    ASSUME NEW r \in Rows, NEW C \in SUBSET Cols, NEW f \in [C -> Types],
           NEW D \in SUBSET Cols
    PROVE  [rows |-> r, schema |-> f, dirty |-> D] \in Entries
BY DEF Entries

(* Changing the fields of a directory.                                     *)
LEMMA DirectoryEdited ==
    ASSUME NEW d \in Directories, NEW C \in SUBSET Cols, NEW f \in [C -> Field]
    PROVE  /\ [d EXCEPT !.cols = f] \in Directories
           /\ [d EXCEPT !.cols = f] # None
           /\ [d EXCEPT !.cols = f].rows = d.rows
           /\ [d EXCEPT !.cols = f].cols = f
<1>1. PICK B \in SUBSET Cols : d \in [rows : Rows, cols : [B -> Field]]
  BY DEF Directories
<1>2. /\ [d EXCEPT !.cols = f] \in [rows : Rows, cols : [C -> Field]]
      /\ [d EXCEPT !.cols = f].rows = d.rows
      /\ [d EXCEPT !.cols = f].cols = f
  BY <1>1
<1>3. [d EXCEPT !.cols = f] \in Directories
  BY <1>2 DEF Directories
<1> QED BY <1>2, <1>3, NoneAssumption

(* Reading the schema of a cached dataset again.                           *)
LEMMA SchemaEdited ==
    ASSUME NEW e \in Entries,
           NEW C \in SUBSET Cols, NEW f \in [C -> Types]
    PROVE  /\ [e EXCEPT !.schema = f] \in Entries
           /\ [e EXCEPT !.schema = f].rows = e.rows
           /\ [e EXCEPT !.schema = f].schema = f
           /\ [e EXCEPT !.schema = f].dirty = e.dirty
<1>1. PICK B \in SUBSET Cols :
        e \in [rows : Rows, schema : [B -> Types], dirty : SUBSET Cols]
  BY DEF Entries
<1>2. /\ [e EXCEPT !.schema = f]
             \in [rows : Rows, schema : [C -> Types], dirty : SUBSET Cols]
      /\ [e EXCEPT !.schema = f].rows = e.rows
      /\ [e EXCEPT !.schema = f].schema = f
      /\ [e EXCEPT !.schema = f].dirty = e.dirty
  BY <1>1
<1> QED BY <1>2 DEF Entries

(* Noting or forgetting its unsaved fields.                                *)
LEMMA DirtyEdited ==
    ASSUME NEW e \in Entries, NEW D \in SUBSET Cols
    PROVE  /\ [e EXCEPT !.dirty = D] \in Entries
           /\ [e EXCEPT !.dirty = D].rows = e.rows
           /\ [e EXCEPT !.dirty = D].schema = e.schema
           /\ [e EXCEPT !.dirty = D].dirty = D
<1>1. PICK B \in SUBSET Cols :
        e \in [rows : Rows, schema : [B -> Types], dirty : SUBSET Cols]
  BY DEF Entries
<1>2. /\ [e EXCEPT !.dirty = D]
             \in [rows : Rows, schema : [B -> Types], dirty : SUBSET Cols]
      /\ [e EXCEPT !.dirty = D].rows = e.rows
      /\ [e EXCEPT !.dirty = D].schema = e.schema
      /\ [e EXCEPT !.dirty = D].dirty = D
  BY <1>1
<1> QED BY <1>2 DEF Entries

(* The schema of a directory.                                              *)
LEMMA TypesOfDirectory ==
    ASSUME NEW d \in Directories
    PROVE  /\ DOMAIN TypesOf(d) = DOMAIN d.cols
           /\ TypesOf(d) \in [DOMAIN d.cols -> Types]
           /\ \A c \in DOMAIN d.cols : TypesOf(d)[c] = d.cols[c].typ
BY DirectoryParts DEF TypesOf, Field

(* A dataset that is opened holds what is on disk.                         *)
LEMMA EntryOfDirectory ==
    ASSUME NEW d \in Directories
    PROVE  /\ EntryOf(d) \in Entries
           /\ EntryOf(d).rows = d.rows
           /\ EntryOf(d).schema = TypesOf(d)
           /\ EntryOf(d).dirty = {}
BY DirectoryParts, TypesOfDirectory, EntryMade DEF EntryOf

(* Opening what is not cached keeps the cache right.                       *)
LEMMA EnsuredAgrees ==
    ASSUME TypeOK, NEW P \in SUBSET Existing
    PROVE  LET s == Ensured(P)
           IN  /\ s \in [Parts -> Entries \cup {None}]
               /\ \A p \in Parts : ds[p] # None => s[p] = ds[p]
               /\ \A p \in P : s[p] # None
               /\ \A p \in Parts : Agrees(p) /\ s[p] # None =>
                    /\ part[p] # None
                    /\ s[p].rows = part[p].rows
                    /\ s[p].schema = TypesOf(part[p])
<1>1. \A p \in P : p \in Parts /\ part[p] \in Directories /\ part[p] # None
  BY DEF TypeOK, Existing
<1>2. \A p \in P : /\ EntryOf(part[p]) \in Entries /\ EntryOf(part[p]) # None
                   /\ EntryOf(part[p]).rows = part[p].rows
                   /\ EntryOf(part[p]).schema = TypesOf(part[p])
  BY <1>1, EntryOfDirectory, NoneAssumption
<1>3. Ensured(P) \in [Parts -> Entries \cup {None}]
  BY <1>2 DEF Ensured, TypeOK
<1> QED BY <1>1, <1>2, <1>3 DEF Ensured, Agrees

(* Opening what is not cached loses nothing.                               *)
LEMMA EnsuredSpares ==
    ASSUME IInv, NEW P \in SUBSET Existing, NEW Q \in SUBSET Parts,
           \A p \in Parts \ Q : Ensured(P)[p] # None =>
              ds'[p] # None /\ Ensured(P)[p].dirty \subseteq ds'[p].dirty
    PROVE  Spares(Q, {})
<1>1. \A p \in Parts : ds[p] # None => Ensured(P)[p] = ds[p]
  BY EnsuredAgrees DEF IInv
<1> QED BY <1>1 DEF Spares

----------------------------------------------------------------------------
(* What the parts of the invariant need of a step.                         *)

(* Statistics stay exact if no partition goes and none changes its rows.   *)
LEMMA StatsKept ==
    ASSUME StatsExact, UNCHANGED <<memo, foreign>>, spoiled => spoiled',
           \A p \in Existing : part'[p] # None /\ part'[p].rows = part[p].rows
    PROVE  StatsExact'
BY DEF StatsExact, Existing

(* The cache stays right where it was right of what a call opened, if the  *)
(* partition did not change.                                               *)
LEMMA CacheKept ==
    ASSUME TypeOK, CacheInv, UNCHANGED foreign, spoiled => spoiled', uneven => uneven',
           NEW P \in SUBSET Existing,
           \A p \in Parts :
              \/ Agrees(p)'
              \/ /\ part'[p] = part[p]
                 /\ ds'[p] # None => /\ Ensured(P)[p] # None
                                     /\ ds'[p].rows = Ensured(P)[p].rows
                                     /\ ds'[p].schema = Ensured(P)[p].schema
    PROVE  CacheInv'
<1> SUFFICES ASSUME NEW p \in Parts, Trusted(p)' PROVE Agrees(p)'
  BY DEF CacheInv
<1>1. Trusted(p)
  BY DEF Trusted
<1>2. Agrees(p)
  BY <1>1 DEF CacheInv
<1>3. CASE /\ part'[p] = part[p]
           /\ ds'[p] # None => /\ Ensured(P)[p] # None
                               /\ ds'[p].rows = Ensured(P)[p].rows
                               /\ ds'[p].schema = Ensured(P)[p].schema
  <2>1. Ensured(P)[p] # None => /\ part[p] # None
                                /\ Ensured(P)[p].rows = part[p].rows
                                /\ Ensured(P)[p].schema = TypesOf(part[p])
    BY <1>2, EnsuredAgrees
  <2> QED BY <1>3, <2>1 DEF Agrees, TypesOf
<1> QED BY <1>3

(* What a call on a field makes of the fields of some partitions.          *)
ToFields(c, P, changed) ==
    \A p \in P : c \in DOMAIN part[p].cols => Fields(changed[p])
Changed(c, P, changed) ==
    \A p \in P : c \in DOMAIN part[p].cols /\ part'[p].cols = changed[p]

(* A call on a field of all partitions keeps all but the agreement of      *)
(* types, whichever partitions it changes and wherever it stops.           *)
LEMMA StructuralKeeps ==
    ASSUME IInv, open, NEW c \in Cols, NEW P \in SUBSET Existing, NEW changed,
           Structural(c, P, changed),
           ToFields(c, P, changed),
           UNCHANGED <<open, memo, foreign, spoiled>>, uneven => uneven', uneven' \in BOOLEAN
    PROVE  /\ TypeOK' /\ Closed' /\ CacheInv' /\ StatsExact'
           /\ Existing' = Existing
           /\ Changed(c, P, changed)
           /\ \A p \in Parts \ P : part'[p] = part[p]
           /\ Spares({}, {c})
<1> DEFINE s == Ensured(Existing)
<1>1. /\ TypeOK /\ CacheInv /\ StatsExact
      /\ P \subseteq Parts /\ \A p \in Existing : p \in Parts /\ part[p] \in Directories
      /\ \A p \in Parts : part[p] # None => p \in Existing
  BY DEF IInv, TypeOK, Existing
<1>2. /\ \A p \in P : c \in DOMAIN part[p].cols
      /\ part' = [p \in Parts |->
                    IF p \in P THEN [part[p] EXCEPT !.cols = changed[p]] ELSE part[p]]
  BY DEF Structural
<1>3. PICK tried \in SUBSET Existing :
        ds' = [p \in Parts |->
                 IF p \in P
                 THEN [s[p] EXCEPT !.schema = TypesOf(part'[p]), !.dirty = @ \ {c}]
                 ELSE IF p \in tried THEN [s[p] EXCEPT !.dirty = @ \ {c}] ELSE s[p]]
  BY DEF Structural, Targets
<1>4. ASSUME NEW p \in P
      PROVE  /\ part'[p] \in Directories /\ part'[p] # None
             /\ part'[p].rows = part[p].rows /\ part'[p].cols = changed[p]
  <2>1. part[p] \in Directories /\ p \in Parts
    BY <1>1
  <2>2. part'[p] = [part[p] EXCEPT !.cols = changed[p]]
    BY <1>2, <2>1
  <2>3. PICK C \in SUBSET Cols : changed[p] \in [C -> Field]
    BY <1>2 DEF ToFields, Fields
  <2> QED BY <2>1, <2>2, <2>3, DirectoryEdited
<1>5. \A p \in Parts \ P : part'[p] = part[p]
  BY <1>2
<1>6. /\ part' \in [Parts -> Directories \cup {None}]
      /\ Existing' = Existing
  BY <1>1, <1>2, <1>4, <1>5 DEF TypeOK, Existing
<1>7. /\ s \in [Parts -> Entries \cup {None}]
      /\ \A p \in Existing : s[p] \in Entries
  BY <1>1, EnsuredAgrees DEF Existing
<1>8. ASSUME NEW p \in P
      PROVE  /\ ds'[p] \in Entries /\ ds'[p].rows = s[p].rows
             /\ ds'[p].schema = TypesOf(part'[p])
             /\ ds'[p].dirty = s[p].dirty \ {c}
  <2> DEFINE e == s[p]
             f == TypesOf(part'[p])
             C == DOMAIN part'[p].cols
             D == s[p].dirty \ {c}
  <2>1. ds'[p] = [e EXCEPT !.schema = f, !.dirty = D]
    BY <1>1, <1>3
  <2>2. e \in Entries /\ D \in SUBSET Cols
    BY <1>1, <1>7, EntryParts
  <2>3. C \in SUBSET Cols /\ f \in [C -> Types]
    BY <1>4, TypesOfDirectory, DirectoryParts
  <2> HIDE DEF e, f, C, D
  <2>4. PICK B \in SUBSET Cols :
          e \in [rows : Rows, schema : [B -> Types], dirty : SUBSET Cols]
    BY <2>2 DEF Entries
  <2>5. /\ ds'[p] \in [rows : Rows, schema : [C -> Types], dirty : SUBSET Cols]
        /\ ds'[p].rows = e.rows /\ ds'[p].schema = f /\ ds'[p].dirty = D
    BY <2>1, <2>2, <2>3, <2>4
  <2>6. ds'[p] \in Entries
    BY <2>3, <2>5 DEF Entries
  <2> QED BY <2>5, <2>6 DEF e, f, D
<1>9. ASSUME NEW p \in Parts \ P
      PROVE  /\ ds'[p] \in Entries \cup {None}
             /\ ds'[p] # None => /\ s[p] # None /\ ds'[p].rows = s[p].rows
                                 /\ ds'[p].schema = s[p].schema
             /\ s[p] # None => ds'[p] # None /\ s[p].dirty \ {c} \subseteq ds'[p].dirty
  <2>1. CASE p \in tried
    <3>1. s[p] \in Entries /\ s[p] # None
      BY <1>7, <2>1, NoneAssumption
    <3>2. ds'[p] = [s[p] EXCEPT !.dirty = s[p].dirty \ {c}]
      BY <1>3, <2>1
    <3>3. s[p].dirty \ {c} \in SUBSET Cols
      BY <3>1, EntryParts
    <3> HIDE DEF s
    <3> QED BY <3>1, <3>2, <3>3, DirtyEdited, NoneAssumption
  <2>2. CASE p \notin tried
    BY <1>3, <1>7, <2>2
  <2> QED BY <2>1, <2>2
<1>10. TypeOK'
  <2>1. ds' \in [Parts -> Entries \cup {None}]
    BY <1>3, <1>8, <1>9
  <2> QED BY <1>1, <1>6, <2>1 DEF TypeOK
<1>11. CacheInv'
  <2>1. ASSUME NEW p \in P, Agrees(p) PROVE Agrees(p)'
    <3>1. p \in Existing /\ s[p] # None
      BY <1>7, NoneAssumption
    <3>2. s[p].rows = part[p].rows
      BY <1>1, <2>1, <3>1, EnsuredAgrees
    <3> QED BY <1>4, <1>8, <3>2 DEF Agrees
  <2> SUFFICES ASSUME NEW p \in Parts, Trusted(p)' PROVE Agrees(p)'
    BY DEF CacheInv
  <2>2. Agrees(p)
    BY <1>1 DEF CacheInv, Trusted
  <2>3. CASE p \notin P
    <3>1. s[p] # None => /\ part[p] # None
                         /\ s[p].rows = part[p].rows
                         /\ s[p].schema = TypesOf(part[p])
      BY <1>1, <2>2, EnsuredAgrees
    <3> QED BY <1>5, <1>9, <2>3, <3>1 DEF Agrees, TypesOf
  <2> QED BY <2>1, <2>2, <2>3
<1>12. StatsExact'
  BY <1>1, <1>4, <1>5, StatsKept DEF Existing
<1>13. Spares({}, {c})
  <2> HIDE DEF s
  <2>1. \A p \in Parts : s[p] # None =>
          ds'[p] # None /\ s[p].dirty \ {c} \subseteq ds'[p].dirty
    BY <1>8, <1>9, NoneAssumption
  <2>2. \A p \in Parts : ds[p] # None => s[p] = ds[p]
    BY <1>1, EnsuredAgrees DEF s
  <2> QED BY <2>1, <2>2 DEF Spares
<1> QED BY <1>1, <1>2, <1>4, <1>5, <1>6, <1>10, <1>11, <1>12, <1>13
        DEF Closed, IInv, Changed

(* An empty cache is right, and holds no row counts.                       *)
LEMMA EmptyCache ==
    ASSUME ds' = Nothing, memo' = Nothing
    PROVE  CacheInv' /\ StatsExact' /\ Closed'
BY DEF CacheInv, Agrees, StatsExact, Closed, Nothing

(* Types agree as long as no field appears or changes its type.            *)
LEMMA TypesKept ==
    ASSUME TypesAgree, uneven => uneven',
           \A p \in Parts : part'[p] # None =>
              /\ part[p] # None
              /\ \A c \in DOMAIN part'[p].cols :
                    /\ c \in DOMAIN part[p].cols
                    /\ part'[p].cols[c].typ = part[p].cols[c].typ
    PROVE  TypesAgree'
BY DEF TypesAgree, Existing, Alike

(* Reading and remembering: no partition changes.                          *)
LEMMA Reading ==
    ASSUME IInv, UNCHANGED <<part, foreign, spoiled, uneven>>, open,
           UNCHANGED open,
           ds' \in [Parts -> Entries \cup {None}],
           NEW P \in SUBSET Existing,
           \A p \in Parts : ds'[p] # None =>
              /\ Ensured(P)[p] # None
              /\ ds'[p].rows = Ensured(P)[p].rows
              /\ ds'[p].schema = Ensured(P)[p].schema
    PROVE  CacheInv' /\ TypesAgree' /\ Closed'
           /\ (memo' \in [Parts -> Rows \cup {None}] => TypeOK')
<1>1. CacheInv'
  BY CacheKept DEF IInv
<1>2. TypesAgree'
  BY TypesKept DEF IInv
<1> QED BY <1>1, <1>2 DEF IInv, TypeOK, Closed

----------------------------------------------------------------------------
(* The invariant is inductive, action by action.                           *)

(* No table, no handle.                                                    *)
LEMMA InvInit == Init => IInv
BY DEF Init, IInv, TypeOK, Nothing, Closed, CacheInv, Agrees, StatsExact,
       TypesAgree, Existing

(* init_table_data gives all partitions the same fields.                   *)
LEMMA InvInitTable == ASSUME IInv, InitTable PROVE IInv'
<1>1. /\ Existing = {} /\ ds = Nothing /\ memo = Nothing
      /\ UNCHANGED <<open, ds, memo, foreign, spoiled, uneven>>
  BY DEF InitTable, IInv, Closed
<1>2. PICK P \in SUBSET Parts \ {{}}, d \in Inputs :
        part' = [p \in Parts |-> IF p \in P THEN d ELSE None]
  BY DEF InitTable
<1>3. d \in Directories
  BY InputsAssumption, MadeDirectories
<1>4. TypeOK'
  BY <1>1, <1>2, <1>3 DEF IInv, TypeOK
<1>5. TypesAgree'
  BY <1>2 DEF TypesAgree, Existing, Alike
<1> QED BY <1>1, <1>4, <1>5, EmptyCache DEF IInv

(* create_table makes one partition.                                       *)
LEMMA InvCreateTable == ASSUME IInv, CreateTable PROVE IInv'
<1>1. /\ Existing = {} /\ ds = Nothing /\ memo = Nothing /\ open' = TRUE
      /\ UNCHANGED <<ds, memo, foreign, spoiled, uneven>>
  BY DEF CreateTable, IInv, Closed
<1>2. PICK p \in Parts, d \in Inputs : part' = [part EXCEPT ![p] = d]
  BY DEF CreateTable
<1>3. d \in Directories
  BY InputsAssumption, MadeDirectories
<1>4. TypeOK'
  BY <1>1, <1>2, <1>3 DEF IInv, TypeOK
<1>5. TypesAgree'
  BY <1>1, <1>2 DEF TypesAgree, Existing, Alike, IInv, TypeOK
<1> QED BY <1>1, <1>4, <1>5, EmptyCache DEF IInv

(* A handle that is opened has cached nothing yet.                         *)
LEMMA InvOpenTable == ASSUME IInv, OpenTable PROVE IInv'
<1>1. /\ ds' = Nothing /\ memo' = Nothing /\ open' = TRUE
      /\ foreign' = {} /\ spoiled' = FALSE /\ UNCHANGED <<part, ds, memo, uneven>>
  BY DEF OpenTable, IInv, Closed
<1>2. TypeOK'
  BY <1>1 DEF IInv, TypeOK
<1>3. TypesAgree'
  BY <1>1 DEF IInv, TypesAgree, Existing
<1> QED BY <1>1, <1>2, <1>3, EmptyCache DEF IInv

(* A handle that is closed or dropped takes its cache with it.             *)
LEMMA InvCloseTable == ASSUME IInv, CloseTable PROVE IInv'
<1>1. /\ ds' = Nothing /\ memo' = Nothing /\ open' = FALSE
      /\ UNCHANGED <<part, foreign, spoiled, uneven>>
  BY DEF CloseTable
<1>2. TypeOK'
  BY <1>1 DEF IInv, TypeOK, Nothing
<1>3. TypesAgree'
  BY <1>1 DEF IInv, TypesAgree, Existing
<1> QED BY <1>1, <1>2, <1>3, EmptyCache DEF IInv

(* drop_table, which may stop half way: what is left agrees as before, and *)
(* where nothing is left nothing disagrees.                                *)
LEMMA InvDeleteTable == ASSUME IInv, DeleteTable PROVE IInv'
<1>1. /\ ds' = Nothing /\ memo' = Nothing
      /\ UNCHANGED <<open, ds, memo, foreign, spoiled>>
  BY DEF DeleteTable, IInv, Closed
<1>2. PICK P \in SUBSET Existing :
        /\ part' = [p \in Parts |-> IF p \in P THEN None ELSE part[p]]
        /\ uneven' = (uneven /\ P # Existing)
  BY DEF DeleteTable
<1>3. TypeOK'
  BY <1>1, <1>2 DEF IInv, TypeOK
<1>4. TypesAgree'
  <2>1. CASE P = Existing
    BY <1>2, <2>1 DEF TypesAgree, Existing
  <2>2. CASE P # Existing
    BY <1>2, <2>2, TypesKept DEF IInv
  <2> QED BY <2>1, <2>2
<1> QED BY <1>1, <1>3, <1>4, EmptyCache DEF IInv

(* schema opens the latest partition.                                      *)
LEMMA InvSchema == ASSUME IInv, Schema PROVE IInv'
<1>1. {Latest} \in SUBSET Existing
  BY LatestExists DEF Schema
<1>2. /\ ds' = Ensured({Latest}) /\ open
      /\ UNCHANGED <<part, open, memo, foreign, spoiled, uneven>>
  BY DEF Schema
<1>3. ds' \in [Parts -> Entries \cup {None}]
  BY <1>1, <1>2, EnsuredAgrees DEF IInv
<1>4. CacheInv' /\ TypesAgree' /\ Closed' /\ TypeOK'
  BY <1>1, <1>2, <1>3, Reading DEF IInv, TypeOK
<1>5. StatsExact'
  BY <1>2 DEF IInv, StatsExact
<1> QED BY <1>4, <1>5 DEF IInv

(* statistics remembers the rows of the cached dataset: they are those of  *)
(* the partition because the cache is right.                               *)
LEMMA InvStatistics == ASSUME IInv, Statistics PROVE IInv'
<1> DEFINE unknown == {p \in Existing : memo[p] = None}
           s == Ensured(unknown)
<1>1. /\ ds' = s /\ open /\ unknown \in SUBSET Existing
      /\ memo' = [p \in Parts |-> IF p \in unknown THEN ds'[p].rows ELSE memo[p]]
      /\ UNCHANGED <<part, open, foreign, spoiled, uneven>>
  BY DEF Statistics
<1> HIDE DEF unknown
<1>2. /\ s \in [Parts -> Entries \cup {None}]
      /\ \A p \in unknown : p \in Parts /\ s[p] # None /\ s[p] \in Entries
  BY <1>1, EnsuredAgrees DEF IInv, Existing
<1>3. memo' \in [Parts -> Rows \cup {None}]
  BY <1>1, <1>2, EntryParts DEF IInv, TypeOK
<1>4. CacheInv' /\ TypesAgree' /\ Closed' /\ TypeOK'
  BY <1>1, <1>2, <1>3, Reading
<1>5. StatsExact'
  <2> SUFFICES ASSUME ~spoiled', NEW p \in Parts \ foreign', memo'[p] # None
               PROVE  part'[p] # None /\ memo'[p] = part'[p].rows
    BY DEF StatsExact
  <2>1. CASE p \in unknown
    <3>1. Trusted(p)' /\ Agrees(p)'
      BY <1>1, <1>4 DEF Trusted, CacheInv
    <3> QED BY <1>1, <1>2, <2>1, <3>1 DEF Agrees
  <2>2. CASE p \notin unknown
    BY <1>1, <2>2 DEF IInv, StatsExact
  <2> QED BY <2>1, <2>2
<1> QED BY <1>4, <1>5 DEF IInv

(* Rows of packed fields make cached datasets dirty and nothing else.      *)
LEMMA InvWriteRows == ASSUME IInv, WriteRows PROVE IInv' /\ Spares({}, {})
<1> DEFINE s == Ensured(Existing)
<1>1. /\ open /\ UNCHANGED <<part, open, memo, foreign, spoiled, uneven>>
  BY DEF WriteRows
<1>2. PICK P \in SUBSET Existing \ {{}}, C \in SUBSET Cols \ {{}} :
        ds' = [p \in Parts |->
                 IF p \notin P THEN s[p]
                 ELSE [s[p] EXCEPT !.dirty = @ \cup
                        {c \in C \cap DOMAIN part[p].cols : part[p].cols[c].packed}]]
  BY DEF WriteRows
<1>3. /\ s \in [Parts -> Entries \cup {None}]
      /\ \A p \in P : p \in Parts /\ s[p] # None /\ s[p] \in Entries
  BY EnsuredAgrees DEF IInv, Existing
<1>4. ASSUME NEW p \in P
      PROVE  /\ ds'[p] \in Entries /\ ds'[p].rows = s[p].rows
             /\ ds'[p].schema = s[p].schema /\ s[p].dirty \subseteq ds'[p].dirty
  <2> DEFINE D == s[p].dirty \cup {c \in C \cap DOMAIN part[p].cols : part[p].cols[c].packed}
             e == s[p]
  <2>1. e \in Entries /\ D \in SUBSET Cols /\ ds'[p] = [e EXCEPT !.dirty = D]
    BY <1>2, <1>3, EntryParts
  <2> HIDE DEF D, e
  <2>2. /\ ds'[p] \in Entries /\ ds'[p].rows = e.rows /\ ds'[p].schema = e.schema
        /\ ds'[p].dirty = D
    BY <2>1, DirtyEdited
  <2> QED BY <2>2 DEF D, e
<1>5. ds' \in [Parts -> Entries \cup {None}]
  BY <1>2, <1>3, <1>4
<1>6. \A p \in Parts : ds'[p] # None => /\ s[p] # None
                                       /\ ds'[p].rows = s[p].rows
                                       /\ ds'[p].schema = s[p].schema
  BY <1>2, <1>3, <1>4
<1>7. CacheInv' /\ TypesAgree' /\ Closed' /\ TypeOK'
  BY <1>1, <1>5, <1>6, Reading DEF IInv, TypeOK
<1>8. StatsExact'
  BY <1>1 DEF IInv, StatsExact
<1>9. Spares({}, {})
  <2>1. \A p \in Parts : s[p] # None => ds'[p] # None /\ s[p].dirty \subseteq ds'[p].dirty
    BY <1>2, <1>4, NoneAssumption
  <2> QED BY <2>1, EnsuredSpares
<1> QED BY <1>7, <1>8, <1>9 DEF IInv

(* update_field edits headers only.                                        *)
LEMMA InvUpdateField == ASSUME IInv, NEW c \in Cols, UpdateField(c) PROVE IInv'
<1>1. /\ ds' = Ensured(Existing) /\ open
      /\ UNCHANGED <<part, open, memo, foreign, spoiled, uneven>>
  BY DEF UpdateField
<1>2. ds' \in [Parts -> Entries \cup {None}]
  BY <1>1, EnsuredAgrees DEF IInv
<1>3. CacheInv' /\ TypesAgree' /\ Closed' /\ TypeOK'
  BY <1>1, <1>2, Reading DEF IInv, TypeOK
<1>4. StatsExact'
  BY <1>1 DEF IInv, StatsExact
<1> QED BY <1>3, <1>4 DEF IInv

(* create_partition caches what it has made; types are compared by nobody. *)
LEMMA InvCreatePartition == ASSUME IInv, CreatePartition PROVE IInv'
<1>1. PICK p \in Parts \ Existing, d \in Inputs :
         /\ part' = [part EXCEPT ![p] = d]
         /\ ds' = [ds EXCEPT ![p] = IF @ = None THEN EntryOf(d) ELSE @]
         /\ memo' = [memo EXCEPT ![p] = None]
         /\ uneven' = (uneven \/ ~Typed(d))
  BY DEF CreatePartition
<1>2. /\ open /\ UNCHANGED <<open, foreign, spoiled>>
      /\ part[p] = None /\ part'[p] = d /\ \A q \in Parts : q # p => part'[q] = part[q]
  BY <1>1 DEF CreatePartition, IInv, TypeOK, Existing
<1>3. /\ d \in Directories /\ d # None
      /\ EntryOf(d) \in Entries /\ EntryOf(d).rows = d.rows
      /\ EntryOf(d).schema = TypesOf(d)
  BY InputsAssumption, MadeDirectories, EntryOfDirectory, NoneAssumption
<1>4. TypeOK'
  BY <1>1, <1>2, <1>3 DEF IInv, TypeOK
<1>5. CacheInv'
  <2> SUFFICES ASSUME NEW q \in Parts, Trusted(q)' PROVE Agrees(q)'
    BY DEF CacheInv
  <2>1. Agrees(q)
    BY <1>1, <1>2 DEF Trusted, IInv, CacheInv
  <2>2. CASE q = p
    BY <1>1, <1>2, <1>3, <2>1, <2>2 DEF Agrees, IInv, TypeOK, TypesOf
  <2>3. CASE q # p
    BY <1>1, <1>2, <2>1, <2>3 DEF Agrees, IInv, TypeOK, TypesOf
  <2> QED BY <2>2, <2>3
<1>6. StatsExact'
  BY <1>1, <1>2 DEF IInv, TypeOK, StatsExact
<1>7. TypesAgree'
  <2> SUFFICES ASSUME ~uneven', NEW a \in Existing', NEW b \in Existing'
               PROVE  Alike(part'[a], part'[b])
    BY DEF TypesAgree
  <2>1. ~uneven /\ Typed(d)
    BY <1>1
  <2>2. \A q \in Existing : Alike(part[q], d) /\ Alike(d, part[q])
    BY <2>1 DEF Typed, TableType, Alike
  <2>3. \A q \in Existing' : q = p \/ (q \in Existing /\ part'[q] = part[q])
    BY <1>2 DEF Existing
  <2>4. Alike(d, d) /\ \A q, r \in Existing : Alike(part[q], part[r])
    BY <2>1 DEF Alike, IInv, TypesAgree
  <2> QED BY <1>2, <2>2, <2>3, <2>4
<1> QED BY <1>2, <1>4, <1>5, <1>6, <1>7 DEF IInv, Closed

(* delete_partition forgets the partition.                                 *)
LEMMA InvDeletePartition == ASSUME IInv, NEW p \in Parts, DeletePartition(p) PROVE IInv'
<1>1. /\ open
      /\ part' = [part EXCEPT ![p] = None]
      /\ ds' = [ds EXCEPT ![p] = None]
      /\ memo' = [memo EXCEPT ![p] = None]
      /\ UNCHANGED <<open, foreign, spoiled, uneven>>
  BY DEF DeletePartition
<1>2. TypeOK'
  BY <1>1 DEF IInv, TypeOK
<1>3. CacheInv'
  BY <1>1 DEF IInv, TypeOK, CacheInv, Agrees, Trusted, TypesOf
<1>4. StatsExact'
  BY <1>1 DEF IInv, TypeOK, StatsExact
<1>5. TypesAgree'
  BY <1>1, TypesKept DEF IInv, TypeOK
<1> QED BY <1>1, <1>2, <1>3, <1>4, <1>5 DEF IInv, Closed

(* Adding a field to a directory.                                          *)
LEMMA FieldAdded ==
    ASSUME NEW d \in Directories, NEW c \in Cols, NEW v \in Field
    PROVE  LET f == [x \in DOMAIN d.cols \cup {c} |-> IF x = c THEN v ELSE d.cols[x]]
               e == [d EXCEPT !.cols = f]
           IN  e \in Directories /\ e # None /\ e.rows = d.rows /\ e.cols = f
<1> DEFINE f == [x \in DOMAIN d.cols \cup {c} |-> IF x = c THEN v ELSE d.cols[x]]
           C == DOMAIN d.cols \cup {c}
<1>1. C \in SUBSET Cols /\ f \in [C -> Field]
  BY DirectoryParts
<1> HIDE DEF f, C
<1>2. /\ [d EXCEPT !.cols = f] \in Directories
      /\ [d EXCEPT !.cols = f] # None
      /\ [d EXCEPT !.cols = f].rows = d.rows
      /\ [d EXCEPT !.cols = f].cols = f
  BY <1>1, DirectoryEdited
<1> QED BY <1>2 DEF f

(* Where types agree, the cached schemas are those of the table.           *)
LEMMA SchemasRight ==
    ASSUME IInv, ~uneven, NEW p \in Existing
    PROVE  /\ DOMAIN Ensured(Existing)[p].schema = DOMAIN part[p].cols
           /\ \A c \in DOMAIN part[p].cols :
                 Ensured(Existing)[p].schema[c] = part[p].cols[c].typ
<1>1. TypeOK /\ p \in Parts /\ part[p] \in Directories
  BY DEF IInv, TypeOK, Existing
<1>2. Agrees(p)
  BY <1>1 DEF IInv, CacheInv, Trusted
<1>3. Ensured(Existing)[p].schema = TypesOf(part[p])
  BY <1>1, <1>2, EnsuredAgrees
<1> QED BY <1>1, <1>3, TypesOfDirectory

(* One more field in one partition keeps types alike if no other partition *)
(* has it with another type.                                               *)
LEMMA AddedAlike ==
    ASSUME TypesAgree, NEW p \in Existing, NEW c, NEW v, uneven => uneven',
           Existing' = Existing,
           part'[p].cols = [x \in DOMAIN part[p].cols \cup {c} |->
                              IF x = c THEN v ELSE part[p].cols[x]],
           \A q \in Existing : q # p => part'[q] = part[q],
           ~uneven' => \A q \in Existing \ {p} :
                          c \in DOMAIN part[q].cols => part[q].cols[c].typ = v.typ
    PROVE  TypesAgree'
<1> SUFFICES ASSUME ~uneven', NEW a \in Existing, NEW b \in Existing
             PROVE  Alike(part'[a], part'[b])
  BY DEF TypesAgree
<1>1. Alike(part[a], part[b])
  BY DEF TypesAgree
<1> QED BY <1>1 DEF Alike

(* ensure_missing_columns adds a column in the type the table has.         *)
LEMMA InvAddColumn == ASSUME IInv, AddColumn PROVE IInv' /\ Spares({}, {})
<1> DEFINE s == Ensured(Existing)
<1>1. PICK p \in Existing, c \in Cols, t \in Types, k \in Packs :
         LET d == [part[p] EXCEPT !.cols = [x \in DOMAIN @ \cup {c} |->
                      IF x = c THEN [typ |-> t, packed |-> k] ELSE @[x]]]
         IN  /\ Fits(c, t)
             /\ c \notin DOMAIN s[p].schema /\ c \notin DOMAIN part[p].cols
             /\ part' = [part EXCEPT ![p] = d]
             /\ ds' = [s EXCEPT ![p].schema = TypesOf(d)]
  BY DEF AddColumn
<1>2. open /\ UNCHANGED <<open, memo, foreign, spoiled, uneven>>
  BY DEF AddColumn
<1> DEFINE v == [typ |-> t, packed |-> k]
           d == [part[p] EXCEPT !.cols = [x \in DOMAIN part[p].cols \cup {c} |->
                    IF x = c THEN v ELSE part[p].cols[x]]]
<1>3. /\ part' = [part EXCEPT ![p] = d]
      /\ ds' = [s EXCEPT ![p] = [s[p] EXCEPT !.schema = TypesOf(d)]]
  BY <1>1
<1>4. /\ p \in Parts /\ part[p] \in Directories /\ v \in Field
      /\ s \in [Parts -> Entries \cup {None}] /\ s[p] \in Entries
  BY EnsuredAgrees DEF IInv, TypeOK, Existing, Field
<1>5. /\ d \in Directories /\ d # None /\ d.rows = part[p].rows
      /\ d.cols = [x \in DOMAIN part[p].cols \cup {c} |->
                     IF x = c THEN v ELSE part[p].cols[x]]
  <2> DEFINE o == part[p]
             f == [x \in DOMAIN o.cols \cup {c} |-> IF x = c THEN v ELSE o.cols[x]]
             e == [o EXCEPT !.cols = f]
  <2>1. o \in Directories /\ v \in Field
    BY <1>4
  <2> HIDE DEF o, v
  <2>2. e \in Directories /\ e # None /\ e.rows = o.rows /\ e.cols = f
    BY <2>1, FieldAdded, Zenon
  <2> QED BY <2>2 DEF o
<1> HIDE DEF d, s
<1>6. /\ [s[p] EXCEPT !.schema = TypesOf(d)] \in Entries
      /\ [s[p] EXCEPT !.schema = TypesOf(d)].rows = s[p].rows
      /\ [s[p] EXCEPT !.schema = TypesOf(d)].schema = TypesOf(d)
      /\ [s[p] EXCEPT !.schema = TypesOf(d)].dirty = s[p].dirty
  <2>1. DOMAIN d.cols \in SUBSET Cols /\ TypesOf(d) \in [DOMAIN d.cols -> Types]
    BY <1>5, TypesOfDirectory, DirectoryParts
  <2> QED BY <1>4, <2>1, SchemaEdited
<1>7. TypeOK'
  BY <1>2, <1>3, <1>4, <1>5, <1>6 DEF IInv, TypeOK
<1>8. /\ part'[p] = d /\ ds'[p].rows = s[p].rows /\ ds'[p].schema = TypesOf(d)
      /\ \A q \in Parts : q # p => part'[q] = part[q] /\ ds'[q] = s[q]
      /\ Existing' = Existing
  BY <1>3, <1>4, <1>5, <1>6 DEF IInv, TypeOK, Existing
<1>9. CacheInv'
  <2>1. Agrees(p) => Agrees(p)'
    <3>1. Agrees(p) => s[p].rows = part[p].rows
      BY <1>4, EnsuredAgrees, NoneAssumption DEF IInv, s
    <3> QED BY <1>5, <1>8, <3>1 DEF Agrees, TypesOf
  <2> SUFFICES ASSUME NEW q \in Parts, Trusted(q)' PROVE Agrees(q)'
    BY DEF CacheInv
  <2>2. Agrees(q)
    BY <1>2 DEF Trusted, IInv, CacheInv
  <2>3. s[q] # None => /\ part[q] # None
                       /\ s[q].rows = part[q].rows
                       /\ s[q].schema = TypesOf(part[q])
    BY <2>2, EnsuredAgrees DEF IInv, s
  <2>4. CASE q # p
    BY <1>8, <2>3, <2>4 DEF Agrees, TypesOf
  <2> QED BY <2>1, <2>2, <2>4
<1>10. StatsExact'
  BY <1>2, <1>5, <1>8, StatsKept DEF IInv, Existing
<1>11. TypesAgree'
  <2>1. ~uneven => \A q \in Existing : c \in DOMAIN part[q].cols => part[q].cols[c].typ = t
    BY <1>1, SchemasRight DEF Fits
  <2> QED BY <1>2, <1>5, <1>8, <2>1, AddedAlike DEF IInv, Existing
<1>12. Spares({}, {})
  <2>1. \A q \in Parts : s[q] # None => ds'[q] # None /\ s[q].dirty \subseteq ds'[q].dirty
    BY <1>3, <1>4, <1>6, NoneAssumption
  <2> QED BY <2>1, EnsuredSpares DEF s
<1> QED BY <1>2, <1>7, <1>9, <1>10, <1>11, <1>12 DEF IInv, Closed

(* update_table forgets all datasets before it works, and the statistics   *)
(* if it comes to its end.                                                 *)
LEMMA InvUpdateTable == ASSUME IInv, UpdateTable PROVE IInv'
<1>1. open /\ ds' = Nothing /\ UNCHANGED <<open, foreign>>
  BY DEF UpdateTable
<1> DEFINE Update(P, built, gone, d) ==
         /\ part' = [p \in Parts |-> IF p \in built THEN d
                                     ELSE IF p \in gone THEN None ELSE part[p]]
         /\ memo' = IF built = P THEN Nothing ELSE memo
         /\ spoiled' = (spoiled \/ built # P)
         /\ uneven' = (uneven \/ \E p \in Existing \ (built \cup gone), q \in built :
                           ~Alike(part[p], part'[q]))
<1>2. PICK P \in SUBSET Parts \ {{}} :
        \E built \in SUBSET P : \E gone \in SUBSET (P \ built) :
        \E d \in IF built = {} THEN {None} ELSE Inputs : Update(P, built, gone, d)
  BY DEF UpdateTable
<1> HIDE DEF Update
<1>3. PICK built \in SUBSET P :
        \E gone \in SUBSET (P \ built) :
        \E d \in IF built = {} THEN {None} ELSE Inputs : Update(P, built, gone, d)
  BY <1>2
<1>4. PICK gone \in SUBSET (P \ built) :
        \E d \in IF built = {} THEN {None} ELSE Inputs : Update(P, built, gone, d)
  BY <1>3
<1>5. PICK d \in IF built = {} THEN {None} ELSE Inputs : Update(P, built, gone, d)
  BY <1>4
<1>6. /\ part' = [p \in Parts |-> IF p \in built THEN d
                                  ELSE IF p \in gone THEN None ELSE part[p]]
      /\ memo' = IF built = P THEN Nothing ELSE memo
      /\ spoiled' = (spoiled \/ built # P)
      /\ uneven' = (uneven \/ \E p \in Existing \ (built \cup gone), q \in built :
                        ~Alike(part[p], part'[q]))
  BY <1>5 DEF Update
<1>7. built # {} => d \in Directories
  BY InputsAssumption, MadeDirectories
<1>8. TypeOK'
  <2>1. part' \in [Parts -> Directories \cup {None}]
    BY <1>6, <1>7 DEF IInv, TypeOK
  <2>2. memo' \in [Parts -> Rows \cup {None}] /\ ds' \in [Parts -> Entries \cup {None}]
    BY <1>1, <1>6 DEF IInv, TypeOK, Nothing
  <2>3. spoiled' \in BOOLEAN /\ uneven' \in BOOLEAN
    BY <1>6
  <2> QED BY <1>1, <2>1, <2>2, <2>3 DEF IInv, TypeOK
<1>9. CacheInv'
  BY <1>1 DEF CacheInv, Agrees, Nothing
<1>10. StatsExact'
  BY <1>1, <1>6 DEF StatsExact, Nothing, IInv
<1>11. TypesAgree'
  <2> SUFFICES ASSUME ~uneven', NEW a \in Existing', NEW b \in Existing'
               PROVE  Alike(part'[a], part'[b])
    BY DEF TypesAgree
  <2>1. ASSUME NEW q \in Existing'
        PROVE  \/ q \in built /\ part'[q] = d
               \/ q \in Existing \ (built \cup gone) /\ part'[q] = part[q]
    <3>1. q \in Parts /\ part'[q] # None
      BY DEF Existing
    <3> QED BY <1>6, <3>1 DEF Existing
  <2>2. \A p \in Existing \ (built \cup gone), q \in built : Alike(part[p], part'[q])
    BY <1>6
  <2>3. \A p, q \in Existing : Alike(part[p], part[q])
    BY <1>6 DEF IInv, TypesAgree
  <2>4. Alike(d, d) /\ \A x, y : Alike(x, y) => Alike(y, x)
    BY DEF Alike
  <2> QED BY <2>1, <2>2, <2>3, <2>4
<1> QED BY <1>1, <1>8, <1>9, <1>10, <1>11 DEF IInv, Closed

(* delete_field, as far as it gets.                                        *)
LEMMA InvDeleteField ==
    ASSUME IInv, NEW c \in Cols, DeleteField(c)
    PROVE  IInv' /\ Spares({}, {c})
<1> DEFINE changed(P) == [p \in P |-> Without(part[p].cols, c)]
<1>1. PICK P \in SUBSET Existing : Structural(c, P, changed(P))
  BY DEF DeleteField
<1>2. open /\ UNCHANGED <<open, memo, foreign, spoiled, uneven>>
  BY DEF DeleteField
<1>3. ASSUME NEW p \in P PROVE Fields(changed(P)[p])
  <2>1. part[p] \in Directories
    BY DEF IInv, TypeOK, Existing
  <2>2. DOMAIN part[p].cols \ {c} \in SUBSET Cols
        /\ Without(part[p].cols, c) \in [DOMAIN part[p].cols \ {c} -> Field]
    BY <2>1, DirectoryParts DEF Without
  <2> QED BY <2>2 DEF Fields
<1> HIDE DEF changed
<1> DEFINE ch == changed(P)
<1>4. /\ TypeOK' /\ Closed' /\ CacheInv' /\ StatsExact'
      /\ Existing' = Existing
      /\ Changed(c, P, ch)
      /\ \A p \in Parts \ P : part'[p] = part[p]
      /\ Spares({}, {c})
  <2>1. /\ Structural(c, P, ch)
        /\ ToFields(c, P, ch)
    BY <1>1, <1>3 DEF ToFields
  <2>2. /\ open /\ UNCHANGED <<open, memo, foreign, spoiled>>
        /\ (uneven => uneven') /\ uneven' \in BOOLEAN
    BY <1>2 DEF IInv, TypeOK
  <2> HIDE DEF ch
  <2> QED BY <2>1, <2>2, StructuralKeeps
<1>5. TypesAgree'
  <2>1. ASSUME NEW p \in Parts, part'[p] # None
        PROVE  /\ part[p] # None
               /\ \A x \in DOMAIN part'[p].cols :
                     /\ x \in DOMAIN part[p].cols
                     /\ part'[p].cols[x].typ = part[p].cols[x].typ
    <3>1. part[p] # None
      BY <1>4, <2>1 DEF Existing
    <3>2. CASE p \in P
      <4>1. part'[p].cols = [x \in DOMAIN part[p].cols \ {c} |-> part[p].cols[x]]
        BY <1>4, <3>2 DEF Changed, changed, Without
      <4> QED BY <3>1, <4>1
    <3>3. CASE p \notin P
      <4>1. part'[p] = part[p]
        BY <1>4, <3>3
      <4> QED BY <3>1, <4>1
    <3> QED BY <3>2, <3>3
  <2>2. TypesAgree /\ (uneven => uneven')
    BY <1>2 DEF IInv
  <2> HIDE DEF ch
  <2> QED BY <2>1, <2>2, TypesKept
<1> QED BY <1>4, <1>5 DEF IInv

(* rename_field, as far as it gets: a name nobody had gets the one type    *)
(* of the other.                                                           *)
LEMMA InvRenameField ==
    ASSUME IInv, NEW c \in Cols, RenameField(c)
    PROVE  IInv' /\ Spares({}, {c})
<1> DEFINE changed(P, n) == [p \in P |-> Renamed(part[p].cols, c, n)]
<1>1. PICK n \in Cols, P \in SUBSET Existing :
         /\ \A p \in Existing : n \notin DOMAIN Ensured(Existing)[p].schema
         /\ Structural(c, P, changed(P, n))
  BY DEF RenameField
<1>2. open /\ UNCHANGED <<open, memo, foreign, spoiled, uneven>>
  BY DEF RenameField
<1>3. ASSUME NEW p \in P, c \in DOMAIN part[p].cols
      PROVE  Fields(changed(P, n)[p])
  <2>1. part[p] \in Directories
    BY DEF IInv, TypeOK, Existing
  <2>2. (DOMAIN part[p].cols \ {c}) \cup {n} \in SUBSET Cols
        /\ Renamed(part[p].cols, c, n) \in [(DOMAIN part[p].cols \ {c}) \cup {n} -> Field]
    BY <1>3, <2>1, DirectoryParts DEF Renamed
  <2> QED BY <2>2 DEF Fields
<1> HIDE DEF changed
<1> DEFINE ch == changed(P, n)
<1>4. /\ TypeOK' /\ Closed' /\ CacheInv' /\ StatsExact'
      /\ Existing' = Existing
      /\ Changed(c, P, ch)
      /\ \A p \in Parts \ P : part'[p] = part[p]
      /\ Spares({}, {c})
  <2>1. /\ Structural(c, P, ch)
        /\ ToFields(c, P, ch)
    BY <1>1, <1>3 DEF ToFields
  <2>2. /\ open /\ UNCHANGED <<open, memo, foreign, spoiled>>
        /\ (uneven => uneven') /\ uneven' \in BOOLEAN
    BY <1>2 DEF IInv, TypeOK
  <2> HIDE DEF ch
  <2> QED BY <2>1, <2>2, StructuralKeeps
<1>5. TypesAgree'
  <2> SUFFICES ASSUME ~uneven, NEW a \in Existing, NEW b \in Existing
               PROVE  Alike(part'[a], part'[b])
    BY <1>2, <1>4 DEF TypesAgree
  <2>1. \A p \in Existing : n \notin DOMAIN part[p].cols
    BY <1>1, SchemasRight
  <2>2. Alike(part[a], part[b]) /\ a \in Parts /\ b \in Parts
    BY DEF IInv, TypesAgree, Existing
  <2>3. ASSUME NEW p \in P
        PROVE  /\ DOMAIN part'[p].cols = (DOMAIN part[p].cols \ {c}) \cup {n}
               /\ part'[p].cols[n] = part[p].cols[c]
               /\ \A x \in DOMAIN part'[p].cols : x # n => part'[p].cols[x] = part[p].cols[x]
    <3> DEFINE o == part[p].cols
               q == part'[p].cols
    <3>1. q = [x \in (DOMAIN o \ {c}) \cup {n} |-> IF x = n THEN o[c] ELSE o[x]]
      BY <1>4 DEF Renamed, changed, Changed
    <3> HIDE DEF o, q
    <3>2. /\ DOMAIN q = (DOMAIN o \ {c}) \cup {n}
          /\ q[n] = o[c]
          /\ \A x \in DOMAIN q : x # n => q[x] = o[x]
      BY <3>1
    <3> QED BY <3>2 DEF o, q
  <2>4. CASE a \in P /\ b \in P
    BY <1>4, <2>2, <2>3, <2>4, SMTT(30) DEF Alike, Changed
  <2>5. CASE a \in P /\ b \notin P
    BY <1>4, <2>1, <2>2, <2>3, <2>5 DEF Alike
  <2>6. CASE a \notin P /\ b \in P
    BY <1>4, <2>1, <2>2, <2>3, <2>6 DEF Alike
  <2>7. CASE a \notin P /\ b \notin P
    BY <1>4, <2>2, <2>7
  <2> QED BY <2>4, <2>5, <2>6, <2>7
<1> QED BY <1>4, <1>5 DEF IInv

(* cast_field: all partitions that have the field, or types have come      *)
(* apart.                                                                  *)
LEMMA InvCastField ==
    ASSUME IInv, NEW c \in Cols, CastField(c)
    PROVE  IInv' /\ Spares({}, {c})
<1> DEFINE changed(P, t) == [p \in P |-> [part[p].cols EXCEPT ![c].typ = t]]
<1>1. PICK t \in Types, P \in SUBSET Existing :
         /\ Structural(c, P, changed(P, t))
         /\ uneven' = (uneven \/ ~Whole(c, P))
  BY DEF CastField
<1>2. open /\ UNCHANGED <<open, memo, foreign, spoiled>>
  BY DEF CastField
<1>3. ASSUME NEW p \in P, c \in DOMAIN part[p].cols
      PROVE  /\ changed(P, t)[p] \in [DOMAIN part[p].cols -> Field]
             /\ DOMAIN part[p].cols \in SUBSET Cols
             /\ changed(P, t)[p][c].typ = t
             /\ \A x \in DOMAIN part[p].cols : x # c => changed(P, t)[p][x] = part[p].cols[x]
  <2>1. part[p] \in Directories
    BY DEF IInv, TypeOK, Existing
  <2>2. part[p].cols \in [DOMAIN part[p].cols -> Field]
    BY <2>1, DirectoryParts
  <2> DEFINE v == [part[p].cols[c] EXCEPT !.typ = t]
  <2>3. v \in Field /\ v.typ = t
    BY <1>3, <2>2 DEF Field
  <2>4. changed(P, t)[p] = [part[p].cols EXCEPT ![c] = v]
    OBVIOUS
  <2> HIDE DEF v
  <2> QED BY <1>3, <2>1, <2>2, <2>3, <2>4, DirectoryParts
<1> HIDE DEF changed
<1> DEFINE ch == changed(P, t)
<1>4. /\ TypeOK' /\ Closed' /\ CacheInv' /\ StatsExact'
      /\ Existing' = Existing
      /\ Changed(c, P, ch)
      /\ \A p \in Parts \ P : part'[p] = part[p]
      /\ Spares({}, {c})
  <2>1. /\ Structural(c, P, ch)
        /\ ToFields(c, P, ch)
    BY <1>1, <1>3 DEF Fields, ToFields
  <2>2. /\ open /\ UNCHANGED <<open, memo, foreign, spoiled>>
        /\ (uneven => uneven') /\ uneven' \in BOOLEAN
    BY <1>1, <1>2 DEF IInv, TypeOK
  <2> HIDE DEF ch
  <2> QED BY <2>1, <2>2, StructuralKeeps
<1>5. TypesAgree'
  <2> SUFFICES ASSUME ~uneven', NEW a \in Existing, NEW b \in Existing
               PROVE  Alike(part'[a], part'[b])
    BY <1>4 DEF TypesAgree
  <2>1. ~uneven /\ Whole(c, P)
    BY <1>1
  <2>2. \A p \in Existing \ P : c \notin DOMAIN part[p].cols
    BY <2>1, SchemasRight DEF Whole, Targets
  <2>3. Alike(part[a], part[b]) /\ a \in Parts /\ b \in Parts
    BY <2>1 DEF IInv, TypesAgree, Existing
  <2>4. ASSUME NEW p \in Existing
        PROVE  /\ DOMAIN part'[p].cols = DOMAIN part[p].cols
               /\ c \in DOMAIN part[p].cols => part'[p].cols[c].typ = t
               /\ \A x \in DOMAIN part[p].cols : x # c => part'[p].cols[x] = part[p].cols[x]
    BY <1>3, <1>4, <2>2 DEF Existing, Changed
  <2> QED BY <2>3, <2>4 DEF Alike
<1> QED BY <1>4, <1>5 DEF IInv

(* compress_field and decompress_field change no type.                     *)
LEMMA InvConvert ==
    ASSUME IInv, NEW c \in Cols, Convert(c)
    PROVE  IInv' /\ Spares({}, {c})
<1> DEFINE changed(P, k) == [p \in P |-> [part[p].cols EXCEPT ![c].packed = k]]
<1>1. PICK k \in Packs, P \in SUBSET Existing : Structural(c, P, changed(P, k))
  BY DEF Convert
<1>2. open /\ UNCHANGED <<open, memo, foreign, spoiled, uneven>>
  BY DEF Convert
<1>3. ASSUME NEW p \in P, c \in DOMAIN part[p].cols
      PROVE  /\ changed(P, k)[p] \in [DOMAIN part[p].cols -> Field]
             /\ DOMAIN part[p].cols \in SUBSET Cols
             /\ \A x \in DOMAIN part[p].cols : changed(P, k)[p][x].typ = part[p].cols[x].typ
  <2>1. part[p] \in Directories
    BY DEF IInv, TypeOK, Existing
  <2>2. part[p].cols \in [DOMAIN part[p].cols -> Field]
    BY <2>1, DirectoryParts
  <2> DEFINE v == [part[p].cols[c] EXCEPT !.packed = k]
  <2>3. v \in Field /\ v.typ = part[p].cols[c].typ
    BY <1>3, <2>2 DEF Field
  <2>4. changed(P, k)[p] = [part[p].cols EXCEPT ![c] = v]
    OBVIOUS
  <2> HIDE DEF v
  <2> QED BY <1>3, <2>1, <2>2, <2>3, <2>4, DirectoryParts
<1> HIDE DEF changed
<1> DEFINE ch == changed(P, k)
<1>4. /\ TypeOK' /\ Closed' /\ CacheInv' /\ StatsExact'
      /\ Existing' = Existing
      /\ Changed(c, P, ch)
      /\ \A p \in Parts \ P : part'[p] = part[p]
      /\ Spares({}, {c})
  <2>1. /\ Structural(c, P, ch)
        /\ ToFields(c, P, ch)
    BY <1>1, <1>3 DEF Fields, ToFields
  <2>2. /\ open /\ UNCHANGED <<open, memo, foreign, spoiled>>
        /\ (uneven => uneven') /\ uneven' \in BOOLEAN
    BY <1>1, <1>2 DEF IInv, TypeOK
  <2> HIDE DEF ch
  <2> QED BY <2>1, <2>2, StructuralKeeps
<1>5. TypesAgree'
  <2>1. \A p \in P : /\ p \in Existing
                     /\ DOMAIN part'[p].cols = DOMAIN part[p].cols
                     /\ \A x \in DOMAIN part[p].cols :
                           part'[p].cols[x].typ = part[p].cols[x].typ
    BY <1>3, <1>4 DEF Changed
  <2> QED BY <1>2, <1>4, <2>1, TypesKept DEF IInv, Existing
<1> QED BY <1>4, <1>5 DEF IInv

(* init_field in the latest partition, whose cached dataset goes.          *)
LEMMA InvInitField == ASSUME IInv, InitField PROVE IInv' /\ Spares({Latest}, {})
<1>1. PICK L \in Existing : L = Latest
  BY LatestExists DEF InitField
<1> DEFINE s == Ensured({L})
<1>2. PICK c \in Cols, t \in Types, k \in Packs :
         /\ part' = [part EXCEPT ![L].cols = [x \in DOMAIN @ \cup {c} |->
                        IF x = c THEN [typ |-> t, packed |-> k] ELSE @[x]]]
         /\ ds' = [s EXCEPT ![L] = None]
         /\ uneven' = (uneven \/ ~TableType(c, t))
  BY <1>1 DEF InitField
<1>3. open /\ UNCHANGED <<open, memo, foreign, spoiled>>
  BY DEF InitField
<1> DEFINE v == [typ |-> t, packed |-> k]
           d == [part[L] EXCEPT !.cols = [x \in DOMAIN part[L].cols \cup {c} |->
                    IF x = c THEN v ELSE part[L].cols[x]]]
<1>4. /\ L \in Parts /\ part[L] \in Directories /\ v \in Field
      /\ part' = [part EXCEPT ![L] = d]
  BY <1>1, <1>2 DEF IInv, TypeOK, Existing, Field
<1>5. /\ d \in Directories /\ d # None /\ d.rows = part[L].rows
      /\ d.cols = [x \in DOMAIN part[L].cols \cup {c} |->
                     IF x = c THEN v ELSE part[L].cols[x]]
  BY <1>4, FieldAdded
<1> HIDE DEF d
<1>6. /\ part'[L] \in Directories /\ part'[L] # None /\ part'[L].rows = part[L].rows
      /\ part'[L].cols = [x \in DOMAIN part[L].cols \cup {c} |->
                           IF x = c THEN v ELSE part[L].cols[x]]
      /\ \A q \in Parts : q # L => part'[q] = part[q]
      /\ part' \in [Parts -> Directories \cup {None}]
  BY <1>4, <1>5 DEF IInv, TypeOK
<1>7. /\ s \in [Parts -> Entries \cup {None}]
      /\ ds' \in [Parts -> Entries \cup {None}]
      /\ ds'[L] = None /\ \A q \in Parts : q # L => ds'[q] = s[q]
  BY <1>1, <1>2, <1>4, EnsuredAgrees DEF IInv
<1>8. Existing' = Existing
  BY <1>1, <1>6 DEF Existing
<1>9. TypeOK'
  BY <1>2, <1>3, <1>6, <1>7 DEF IInv, TypeOK
<1>10. CacheInv'
  <2>1. {L} \in SUBSET Existing
    BY <1>1
  <2>2. \A p \in Parts : p # L =>
          /\ part'[p] = part[p]
          /\ ds'[p] # None => /\ Ensured({L})[p] # None
                              /\ ds'[p].rows = Ensured({L})[p].rows
                              /\ ds'[p].schema = Ensured({L})[p].schema
    BY <1>6, <1>7
  <2>3. Agrees(L)'
    BY <1>7 DEF Agrees
  <2>4. uneven => uneven'
    BY <1>2
  <2> QED BY <1>3, <2>1, <2>2, <2>3, <2>4, CacheKept DEF IInv
<1>11. StatsExact'
  BY <1>3, <1>6, StatsKept DEF IInv, Existing
<1>12. TypesAgree'
  <2>1. ~uneven' => \A q \in Existing \ {L} :
                       c \in DOMAIN part[q].cols => part[q].cols[c].typ = t
    BY <1>2 DEF TableType
  <2>2. \A q \in Existing : q # L => part'[q] = part[q]
    BY <1>6 DEF Existing
  <2>3. uneven => uneven'
    BY <1>2
  <2> QED BY <1>1, <1>6, <1>8, <2>1, <2>2, <2>3, AddedAlike, SMTT(30) DEF IInv
<1>13. Spares({Latest}, {})
  <2> HIDE DEF s
  <2>1. \A q \in Parts \ {L} : s[q] # None => ds'[q] # None /\ s[q].dirty \subseteq ds'[q].dirty
    BY <1>7
  <2> QED BY <1>1, <2>1, EnsuredSpares DEF s, Existing
<1> QED BY <1>3, <1>9, <1>10, <1>11, <1>12, <1>13 DEF IInv, Closed

(* Another process changes one partition, of which nothing is claimed      *)
(* from then on.                                                           *)
LEMMA InvOutside == ASSUME IInv, Outside PROVE IInv'
<1>1. PICK s \in Strangers :
         /\ part' = [part EXCEPT ![s[1]] = s[2]]
         /\ foreign' = {s[1]}
  BY DEF Outside
<1>2. /\ open /\ foreign = {} /\ uneven' = TRUE
      /\ UNCHANGED <<open, ds, memo, spoiled>>
  BY DEF Outside
<1>3. s[1] \in Parts /\ s[2] \in Directories \cup {None}
  BY InputsAssumption, MadeDirectories
<1>4. TypeOK'
  BY <1>1, <1>2, <1>3 DEF IInv, TypeOK
<1>5. \A p \in Parts \ foreign' : part'[p] = part[p]
  BY <1>1, <1>3 DEF IInv, TypeOK
<1>6. CacheInv'
  BY <1>2, <1>5 DEF IInv, CacheInv, Trusted, Agrees, TypesOf
<1>7. StatsExact'
  BY <1>2, <1>5 DEF IInv, StatsExact
<1>8. TypesAgree'
  BY <1>2 DEF TypesAgree
<1> QED BY <1>2, <1>4, <1>6, <1>7, <1>8 DEF IInv, Closed

(* fix gives the latest partition fields that others have, in their type;  *)
(* if it does not come to its end the cached dataset stays as it was.      *)
LEMMA InvFix == ASSUME IInv, Fix PROVE IInv' /\ Spares({Latest}, {})
<1>1. PICK m \in Existing : m = Latest
  <2>1. Existing # {}
    BY FS_EmptySet DEF Fix
  <2> QED BY <2>1, LatestExists
<1> DEFINE s == Ensured(Existing)
           L == Lacking(s)
           typ(x) == CHOOSE t \in TypeIn(s, x) : TRUE
           old == part[m].cols
           new(done) == [x \in DOMAIN old \cup done |->
                           IF x \in DOMAIN old THEN old[x]
                           ELSE [typ |-> typ(x), packed |-> FALSE]]
<1>2. PICK done \in SUBSET L :
         /\ part' = [part EXCEPT ![m].cols = new(done)]
         /\ ds' = IF L = {} \/ done # L THEN s ELSE [s EXCEPT ![m] = None]
         /\ spoiled' = (spoiled \/ done # L)
         /\ uneven' = (uneven \/ done # L)
  BY <1>1 DEF Fix
<1>3. open /\ UNCHANGED <<open, memo, foreign>>
  BY DEF Fix
<1>4. /\ m \in Parts /\ part[m] \in Directories
      /\ s \in [Parts -> Entries \cup {None}] /\ \A p \in Existing : s[p] \in Entries
  BY EnsuredAgrees DEF IInv, TypeOK, Existing
<1>5. \A x \in L : /\ x \in Cols /\ typ(x) \in Types
                   /\ \E q \in Existing \ {m} :
                         x \in DOMAIN s[q].schema /\ typ(x) = s[q].schema[x]
  <2> SUFFICES ASSUME NEW x \in L
               PROVE  /\ x \in Cols /\ typ(x) \in Types
                      /\ \E q \in Existing \ {m} :
                            x \in DOMAIN s[q].schema /\ typ(x) = s[q].schema[x]
    OBVIOUS
  <2>1. PICK q \in Existing \ {m} : x \in DOMAIN s[q].schema
    BY <1>1 DEF Lacking
  <2>2. TypeIn(s, x) # {}
    BY <1>1, <2>1 DEF TypeIn
  <2>3. typ(x) \in TypeIn(s, x)
    BY <2>2
  <2>4. PICK r \in Existing \ {m} : x \in DOMAIN s[r].schema /\ typ(x) = s[r].schema[x]
    BY <1>1, <2>3 DEF TypeIn
  <2> HIDE DEF s, typ
  <2>5. s[r] \in Entries
    BY <1>4
  <2>6. DOMAIN s[r].schema \subseteq Cols /\ s[r].schema \in [DOMAIN s[r].schema -> Types]
    BY <2>5, EntryParts
  <2> QED BY <2>4, <2>6
<1> HIDE DEF typ, s, L
<1> DEFINE f == new(done)
           C == DOMAIN old \cup done
           d == [part[m] EXCEPT !.cols = f]
<1>6. C \in SUBSET Cols /\ f \in [C -> Field]
  BY <1>4, <1>5, DirectoryParts, TableAssumption DEF Field
<1>7. part' = [part EXCEPT ![m] = d]
  BY <1>2
<1>8. d \in Directories /\ d # None /\ d.rows = part[m].rows /\ d.cols = f
  <2> HIDE DEF f, C
  <2> QED BY <1>4, <1>6, DirectoryEdited
<1> HIDE DEF d
<1>9. /\ part'[m] = d /\ \A q \in Parts : q # m => part'[q] = part[q]
      /\ part' \in [Parts -> Directories \cup {None}] /\ Existing' = Existing
  BY <1>4, <1>7, <1>8 DEF IInv, TypeOK, Existing
<1>10. TypeOK'
  <2>1. ds' \in [Parts -> Entries \cup {None}]
    BY <1>2, <1>4
  <2>2. spoiled' \in BOOLEAN /\ uneven' \in BOOLEAN
    BY <1>2
  <2> QED BY <1>3, <1>9, <2>1, <2>2 DEF IInv, TypeOK
<1>11. CacheInv'
  <2> SUFFICES ASSUME NEW p \in Parts, Trusted(p)' PROVE Agrees(p)'
    BY DEF CacheInv
  <2>1. done = L
    BY <1>2 DEF Trusted
  <2>2. Agrees(p)
    BY <1>2, <1>3 DEF Trusted, IInv, CacheInv
  <2>3. s[p] # None => /\ part[p] # None
                       /\ s[p].rows = part[p].rows
                       /\ s[p].schema = TypesOf(part[p])
    BY <2>2, EnsuredAgrees DEF IInv, s
  <2>4. CASE p # m
    BY <1>2, <1>4, <1>9, <2>3, <2>4 DEF Agrees, TypesOf
  <2>5. CASE p = m /\ L # {}
    BY <1>2, <1>4, <2>1, <2>5 DEF Agrees
  <2>6. CASE p = m /\ L = {}
    <3>1. ds' = s
      BY <1>2, <2>6
    <3>2. f = part[m].cols
      BY <1>4, <2>1, <2>6, DirectoryParts
    <3>3. TypesOf(d) = TypesOf(part[m])
      BY <1>8, <3>2 DEF TypesOf
    <3>4. TypesOf(part[p])' = TypesOf(d)
      BY <1>9, <2>6 DEF TypesOf
    <3> QED BY <1>8, <1>9, <2>3, <2>6, <3>1, <3>3, <3>4 DEF Agrees
  <2> QED BY <2>4, <2>5, <2>6
<1>12. StatsExact'
  BY <1>2, <1>3, <1>8, <1>9, StatsKept DEF IInv, Existing
<1>13. TypesAgree'
  <2> SUFFICES ASSUME ~uneven', NEW a \in Existing, NEW b \in Existing
               PROVE  Alike(part'[a], part'[b])
    BY <1>9 DEF TypesAgree
  <2>1. ~uneven
    BY <1>2
  <2>2. \A p, q \in Existing : Alike(part[p], part[q])
    BY <2>1 DEF IInv, TypesAgree
  <2>3. \A q \in Existing \ {m} : part'[q] = part[q]
    BY <1>9 DEF Existing
  <2>4. \A p \in Existing : /\ DOMAIN s[p].schema = DOMAIN part[p].cols
                           /\ \A x \in DOMAIN part[p].cols :
                                 s[p].schema[x] = part[p].cols[x].typ
    BY <2>1, SchemasRight DEF s
  <2>5. \A q \in Existing \ {m}, x \in done :
          x \in DOMAIN part[q].cols => part[q].cols[x].typ = typ(x)
    BY <1>5, <2>2, <2>4 DEF Alike
  <2>6. \A x \in DOMAIN f : IF x \in DOMAIN old THEN f[x] = old[x]
                            ELSE x \in done /\ f[x].typ = typ(x)
    OBVIOUS
  <2> HIDE DEF f
  <2>7. \A q \in Existing \ {m} : Alike(d, part[q]) /\ Alike(part[q], d)
    BY <1>8, <2>2, <2>5, <2>6 DEF Alike
  <2>8. Alike(d, d)
    BY DEF Alike
  <2> QED BY <1>9, <2>2, <2>3, <2>7, <2>8
<1>14. Spares({Latest}, {})
  <2>1. \A q \in Parts \ {m} : s[q] # None => ds'[q] # None /\ s[q].dirty \subseteq ds'[q].dirty
    BY <1>2, <1>4
  <2> QED BY <1>1, <2>1, EnsuredSpares DEF s, Existing
<1> QED BY <1>3, <1>10, <1>11, <1>12, <1>13, <1>14 DEF IInv, Closed

----------------------------------------------------------------------------
(* Every step keeps the invariant.                                         *)
LEMMA InvNext == ASSUME IInv, [Next]_vars PROVE IInv'
<1>1. CASE \/ InitTable \/ CreateTable \/ OpenTable \/ CloseTable \/ DeleteTable
           \/ Schema \/ Statistics \/ CreatePartition
  BY <1>1, InvInitTable, InvCreateTable, InvOpenTable, InvCloseTable, InvDeleteTable,
     InvSchema, InvStatistics, InvCreatePartition
<1>2. CASE \/ AddColumn \/ WriteRows \/ UpdateTable \/ InitField \/ Fix \/ Outside
           \/ \E p \in Parts : DeletePartition(p)
  BY <1>2, InvAddColumn, InvWriteRows, InvUpdateTable, InvInitField, InvFix,
     InvOutside, InvDeletePartition
<1>3. CASE \E c \in Cols : \/ UpdateField(c) \/ DeleteField(c) \/ RenameField(c)
                          \/ CastField(c) \/ Convert(c)
  BY <1>3, InvUpdateField, InvDeleteField, InvRenameField, InvCastField, InvConvert
<1>4. CASE UNCHANGED vars
  BY <1>4 DEF vars, IInv, TypeOK, Closed, CacheInv, Trusted, Agrees, TypesOf,
              StatsExact, TypesAgree, Existing, Alike
<1> QED BY <1>1, <1>2, <1>3, <1>4 DEF Next

(* The invariant holds in every state.                                     *)
LEMMA InvAlways == Spec => []IInv
BY InvInit, InvNext, PTL DEF Spec

(* For every set of partitions, fields, types and indexes: the rows a      *)
(* handle remembers of a partition are those the partition has             *)
(* (partition_stats and the calls that must forget what it remembers),     *)
(* unless another process has changed it or an update or a fix has failed. *)
THEOREM StatsAlwaysExact == Spec => []StatsExact
<1>1. IInv => StatsExact
  BY DEF IInv
<1> QED BY <1>1, InvAlways, PTL

(* A cached dataset has the index and the schema that are on disk, under   *)
(* the same conditions (ensure_dataset and all calls on the structure).    *)
THEOREM CacheAlwaysTrue == Spec => []CacheTrue
<1>1. IInv => CacheTrue
  BY DEF IInv, CacheInv, Trusted, Agrees, CacheTrue
<1> QED BY <1>1, InvAlways, PTL

(* A field has one type in all partitions (ensure_missing_columns, cast,   *)
(* rename, fix), unless a caller brings other types or a cast has failed.  *)
THEOREM TypesAlwaysAgree == Spec => []TypesAgree
<1>1. IInv => TypesAgree
  BY DEF IInv
<1> QED BY <1>1, InvAlways, PTL

----------------------------------------------------------------------------
(* Unsaved rows: what the calls that are not on one field do to them.      *)

(* A call that reads.                                                      *)
LEMMA ReadingSpares ==
    ASSUME IInv, Schema \/ Statistics \/ Outside \/ \E c \in Cols : UpdateField(c)
    PROVE  Spares({}, {})
<1>1. CASE Schema
  <2>1. PICK L \in Existing : ds' = Ensured({L})
    BY <1>1, LatestExists DEF Schema
  <2> QED BY <2>1, EnsuredSpares
<1>2. CASE Statistics
  <2>1. PICK P \in SUBSET Existing : ds' = Ensured(P)
    BY <1>2 DEF Statistics
  <2> QED BY <2>1, EnsuredSpares
<1>3. CASE Outside
  BY <1>3 DEF Outside, Spares
<1>4. CASE \E c \in Cols : UpdateField(c)
  <2>1. ds' = Ensured(Existing)
    BY <1>4 DEF UpdateField
  <2> QED BY <2>1, EnsuredSpares
<1> QED BY <1>1, <1>2, <1>3, <1>4

(* A call that makes a partition, and one that removes it.                 *)
LEMMA CreateSpares == ASSUME IInv, CreatePartition PROVE Spares({}, {})
<1>1. PICK p \in Parts \ Existing, d \in Inputs :
        ds' = [ds EXCEPT ![p] = IF @ = None THEN EntryOf(d) ELSE @]
  BY DEF CreatePartition
<1> QED BY <1>1 DEF Spares, IInv, TypeOK

(* Deleting a partition leaves all others as they are.                     *)
LEMMA DeleteSpares ==
    ASSUME IInv, NEW p \in Parts, DeletePartition(p)
    PROVE  Spares({p}, {})
BY DEF DeletePartition, Spares, IInv, TypeOK

(* A step that takes unsaved rows away is one of those that may.           *)
LEMMA UnsavedNext ==
    ASSUME IInv, Next, NEW p \in Parts, ds[p] # None, NEW c \in ds[p].dirty
    PROVE  \/ ds'[p] # None /\ c \in ds'[p].dirty
           \/ ~open'
           \/ ds' = Nothing /\ (memo' = Nothing \/ spoiled')
           \/ DeletePartition(p)
           \/ DeleteField(c) \/ RenameField(c) \/ CastField(c) \/ Convert(c)
           \/ p = Latest /\ (InitField \/ Fix)
<1>1. open
  BY DEF IInv, Closed, Nothing
<1>2. CASE InitTable \/ CreateTable \/ OpenTable \/ DeleteTable
  BY <1>1, <1>2 DEF InitTable, CreateTable, OpenTable, DeleteTable
<1>3. CASE CloseTable
  BY <1>3 DEF CloseTable
<1>4. CASE \/ Schema \/ Statistics \/ Outside \/ CreatePartition \/ AddColumn \/ WriteRows
           \/ \E x \in Cols : UpdateField(x)
  <2>1. Spares({}, {})
    BY <1>4, ReadingSpares, CreateSpares, InvAddColumn, InvWriteRows
  <2> QED BY <2>1 DEF Spares
<1>5. CASE UpdateTable
  <2>1. ds' = Nothing /\ (memo' = Nothing \/ spoiled')
    BY <1>5 DEF UpdateTable
  <2> QED BY <2>1
<1>6. ASSUME NEW q \in Parts, DeletePartition(q)
      PROVE  DeletePartition(p) \/ (ds'[p] # None /\ c \in ds'[p].dirty)
  BY <1>6, DeleteSpares DEF Spares
<1>7. ASSUME NEW x \in Cols, DeleteField(x) \/ RenameField(x) \/ CastField(x) \/ Convert(x)
      PROVE  \/ DeleteField(c) \/ RenameField(c) \/ CastField(c) \/ Convert(c)
             \/ ds'[p] # None /\ c \in ds'[p].dirty
  <2>1. Spares({}, {x})
    BY <1>7, InvDeleteField, InvRenameField, InvCastField, InvConvert
  <2>2. CASE x = c
    BY <1>7, <2>2
  <2>3. CASE x # c
    BY <2>1, <2>3 DEF Spares
  <2> QED BY <2>2, <2>3
<1>8. CASE InitField \/ Fix
  <2>1. Spares({Latest}, {})
    BY <1>8, InvInitField, InvFix
  <2> QED BY <1>8, <2>1 DEF Spares
<1> QED BY <1>2, <1>3, <1>4, <1>5, <1>6, <1>7, <1>8 DEF Next

(* For every set of partitions, fields, types and indexes: rows that are   *)
(* not written back are only lost to a call on their field or their        *)
(* partition, to init_field and fix in the latest partition, to            *)
(* update_table and to the end of the handle (the calls that drop a        *)
(* DatasetHandle or a FieldFile without closing it).                       *)
THEOREM UnsavedRowsKept == Spec => UnsavedKept
<1> DEFINE A == \A p \in Parts : ds[p] # None =>
                  \A c \in ds[p].dirty :
                     \/ ds'[p] # None /\ c \in ds'[p].dirty
                     \/ ~open'
                     \/ ds' = Nothing /\ (memo' = Nothing \/ spoiled')
                     \/ DeletePartition(p)
                     \/ DeleteField(c) \/ RenameField(c) \/ CastField(c) \/ Convert(c)
                     \/ p = Latest /\ (InitField \/ Fix)
<1>1. IInv /\ [Next]_vars => [A]_vars
  BY UnsavedNext DEF vars
<1> QED BY <1>1, InvAlways, PTL DEF Spec, UnsavedKept
=============================================================================
