-------------------------- MODULE FieldFile_proofs --------------------------
(* Proofs about FieldFile, for every number of rows, every set of values   *)
(* and types, and every bound on the generation.                           *)
EXTENDS FieldFile, FiniteSetTheorems, TLAPS

----------------------------------------------------------------------------
(* Columns and their NULLs.                                                *)

(* There are N rows, and at least one.                                     *)
LEMMA RowsFinite == IsFiniteSet(Rows) /\ Cardinality(Rows) = N /\ 1 \in Rows
<1>1. N \in Nat /\ N >= 1
  BY ColumnAssumption
<1>2. IsFiniteSet(1 .. N) /\ Cardinality(1 .. N) = N
  BY <1>1, FS_Interval
<1>3. QED
  BY <1>1, <1>2 DEF Rows

(* The rows that are NULL are finitely many, at most N.                    *)
LEMMA NullsType ==
    ASSUME NEW col \in Column
    PROVE  /\ IsFiniteSet(NullRows(col))
           /\ Nulls(col) \in Nat
           /\ Nulls(col) <= N
           /\ Nulls(col) = N => col = AllNull
<1>1. IsFiniteSet(Rows) /\ Cardinality(Rows) = N
  BY RowsFinite
<1>2. NullRows(col) \subseteq Rows
  BY DEF NullRows
<1>3. /\ IsFiniteSet(NullRows(col))
      /\ Cardinality(NullRows(col)) <= N
      /\ Cardinality(NullRows(col)) = N => NullRows(col) = Rows
  BY <1>1, <1>2, FS_Subset
<1>4. NullRows(col) = Rows => col = AllNull
  BY DEF NullRows, AllNull, Column
<1>5. QED
  BY <1>3, <1>4, FS_CardinalityType DEF Nulls

(* The all-NULL column has N of them, a column of zeros has none.          *)
LEMMA ConstantColumns ==
    /\ AllNull \in Column
    /\ AllZero \in Column
    /\ Nulls(AllNull) = N
    /\ NullRows(AllNull) # {}
    /\ NullRows(AllZero) = {}
<1>1. NullRows(AllNull) = Rows
  BY DEF NullRows, AllNull
<1>2. NullRows(AllZero) = {}
  BY ColumnAssumption DEF NullRows, AllZero
<1>3. Cardinality(Rows) = N /\ 1 \in Rows
  BY RowsFinite
<1>4. AllNull \in Column /\ AllZero \in Column
  BY ColumnAssumption DEF AllNull, AllZero, Column, Cell
<1>5. QED
  BY <1>1, <1>2, <1>3, <1>4 DEF Nulls

(* Writing cells over a column gives a column.                             *)
LEMMA PatchedType ==
    ASSUME NEW col \in Column, NEW data \in Patches
    PROVE  Patched(col, data) \in Column
<1>1. PICK lo \in Rows, hi \in Rows : data \in [lo .. hi -> Cell]
  BY DEF Patches
<1>2. \A i \in DOMAIN data : data[i] \in Cell
  BY <1>1
<1>3. QED
  BY <1>2 DEF Patched, Column

(* A cast gives a column with the same NULL rows.                          *)
LEMMA ConvertedType ==
    ASSUME NEW col \in Column, NEW t \in Types
    PROVE  /\ Converted(col, t) \in Column
           /\ NullRows(Converted(col, t)) = NullRows(col)
           /\ Nulls(Converted(col, t)) = Nulls(col)
<1>1. \A i \in Rows : col[i] # NULL =>
          Convert[t][col[i]] \in Values /\ Convert[t][col[i]] # NULL
  BY ColumnAssumption DEF Column, Cell
<1>2. Converted(col, t) \in Column
  BY <1>1 DEF Converted, Column, Cell
<1>3. NullRows(Converted(col, t)) = NullRows(col)
  BY <1>1 DEF Converted, NullRows
<1>4. QED
  BY <1>2, <1>3 DEF Nulls

----------------------------------------------------------------------------
(* The files the functions on paths produce are files, and their headers   *)
(* describe them.                                                          *)
SoundFile(f) == f \in File /\ Describes(f.header, f)

(* A file with a header and no data is sound.                              *)
LEMMA HeaderOnlySound ==
    ASSUME NEW t \in Types, NEW c \in BOOLEAN, NEW n \in Nat, NEW g \in Nat
    PROVE  SoundFile(HeaderOnly(t, c, n, g))
BY ConstantColumns DEF SoundFile, HeaderOnly, File, Header, Describes

(* A file of plain values is sound.                                        *)
LEMMA PlainSound ==
    ASSUME NEW t \in Types, NEW g \in Nat, NEW n \in Nat, NEW b \in BOOLEAN,
           NEW col \in Column
    PROVE  SoundFile(Plain(t, g, n, b, col))
BY DEF SoundFile, Plain, File, Header, Describes

(* A file of compressed chunks is sound.                                   *)
LEMMA ChunksSound ==
    ASSUME NEW h \in Header, NEW b \in BOOLEAN, NEW col \in Column
    PROVE  SoundFile(Chunks(h, b, col))
<1>1. [h EXCEPT !.chunked = TRUE, !.hasValidity = FALSE] \in Header
  BY DEF Header
<1>2. [h EXCEPT !.chunked = TRUE, !.hasValidity = FALSE].chunked
  BY DEF Header
<1>3. QED
  BY <1>1, <1>2 DEF SoundFile, Chunks, File, Describes

(* What the parts of a file are.                                           *)
LEMMA FileFields ==
    ASSUME NEW f \in File
    PROVE  /\ f.header \in Header
           /\ f.header.type \in Types
           /\ f.header.chunked \in BOOLEAN
           /\ f.header.hasValidity \in BOOLEAN
           /\ f.header.nullCount \in Nat
           /\ f.header.generation \in Nat
           /\ f.bits \in BOOLEAN
           /\ f.cells \in Column
BY DEF File, Header

(* What an uncompressed file is given is a column, and if no view starts   *)
(* inside its bitmap it is the column of the view.                         *)
LEMMA PlainCellsType ==
    ASSUME NEW col \in Column, NEW b \in BOOLEAN, NEW cells \in PlainCells(col, b)
    PROVE  cells \in Column /\ (Sliced = FALSE => cells = col)
<1>1. \A hidden : \A under \in Values : Shifted(col, hidden, under) \in Column
  BY DEF Shifted, Column, Cell
<1>2. QED
  BY <1>1 DEF PlainCells

(* A file just created is sound.                                           *)
LEMMA CreatedSound ==
    ASSUME NEW t \in Types, NEW col \in Column, NEW cells \in Column,
           NEW c \in BOOLEAN, NEW b \in BOOLEAN
    PROVE  /\ SoundFile(Created(t, col, cells, c, b))
           /\ Created(t, col, cells, c, b).header.type = t
<1> DEFINE p == Plain(t, 1, Nulls(col), b, cells)
<1>1. N \in Nat /\ Nulls(col) \in Nat
  BY ColumnAssumption, NullsType
<1>2. SoundFile(HeaderOnly(t, c, N, 1))
  BY <1>1, HeaderOnlySound
<1>3. SoundFile(p)
  BY <1>1, PlainSound
<1>4. SoundFile(Chunks(p.header, b, col))
  BY <1>3, ChunksSound, FileFields DEF SoundFile
<1>5. /\ HeaderOnly(t, c, N, 1).header.type = t
      /\ p.header.type = t
      /\ Chunks(p.header, b, col).header.type = t
  BY DEF HeaderOnly, Plain, Chunks
<1> HIDE DEF p
<1>6. QED
  BY <1>2, <1>3, <1>4, <1>5 DEF Created, p

(* A compressed file is sound.                                             *)
LEMMA CompressedSound ==
    ASSUME NEW f \in File
    PROVE  SoundFile(Compressed(f))
BY FileFields, HeaderOnlySound, ChunksSound DEF Compressed

(* A decompressed file is sound.                                           *)
LEMMA DecompressedSound ==
    ASSUME NEW f \in File
    PROVE  SoundFile(Decompressed(f))
BY FileFields, HeaderOnlySound, PlainSound DEF Decompressed

(* A cast file is sound.                                                   *)
LEMMA CastToSound ==
    ASSUME NEW f, SoundFile(f), NEW t \in Types
    PROVE  SoundFile(CastTo(f, t))
<1> DEFINE col == Converted(f.cells, t)
           p   == Plain(t, f.header.generation, Nulls(col), TRUE, col)
<1>1. f \in File
  BY DEF SoundFile
<1>2. col \in Column /\ Nulls(col) \in Nat /\ N \in Nat
  BY <1>1, FileFields, ConvertedType, NullsType, ColumnAssumption
<1>3. SoundFile(HeaderOnly(t, f.header.chunked, N, f.header.generation))
  BY <1>1, <1>2, FileFields, HeaderOnlySound
<1>4. SoundFile(p)
  BY <1>1, <1>2, FileFields, PlainSound
<1>5. SoundFile(Compressed(p))
  BY <1>4, CompressedSound DEF SoundFile
<1>. HIDE DEF p, col
<1>6. CASE t = f.header.type
  BY <1>6 DEF CastTo
<1>7. CASE t # f.header.type
  BY <1>7, <1>3, <1>4, <1>5 DEF CastTo, p, col
<1>8. QED
  BY <1>6, <1>7

(* Growing a header-only file gives what its header announces.             *)
LEMMA ExpandedSound ==
    ASSUME NEW h \in Header, ~h.chunked
    PROVE  /\ SoundFile(Expanded(h))
           /\ Expanded(h).body = "plain"
BY ConstantColumns DEF Expanded, SoundFile, File, Describes, Header

SameLayout(g, h) ==
    /\ g.type = h.type
    /\ g.chunked = h.chunked
    /\ g.hasValidity = h.hasValidity

(* What open gives for a file whose header describes it.                   *)
SoundHandle(h, f) ==
    /\ h \in Handle
    /\ h.status = "live"
    /\ Describes(h.header, f)
    /\ SameLayout(h.header, f.header)
    /\ (h.working # NoColumn) <=> (h.header.chunked \/ f.body = "none")

(* A handle just opened agrees with its file.                              *)
LEMMA OpenedSound ==
    ASSUME NEW f, SoundFile(f)
    PROVE  SoundHandle(Opened(f), f)
<1>1. f \in File /\ f.cells \in Column /\ Nulls(f.cells) \in Nat
  BY FileFields, NullsType DEF SoundFile
<1>2. f.cells # NoColumn
  BY <1>1, NoColumnAssumption
<1>3. Describes(f.header, f)
  BY DEF SoundFile
<1>4. CASE f.body = "chunks" /\ f.header.chunked
  <2> DEFINE h == [f.header EXCEPT !.nullCount = Nulls(f.cells)]
  <2>1. h \in Header /\ h.chunked = f.header.chunked
        /\ h.hasValidity = f.header.hasValidity /\ h.type = f.header.type
    BY <1>1 DEF File, Header
  <2>2. Opened(f) = [status |-> "live", header |-> h, working |-> f.cells,
                     modified |-> FALSE]
    BY <1>4 DEF Opened
  <2> HIDE DEF h
  <2>3. Opened(f) \in Handle
    BY <2>1, <2>2, <1>1 DEF Handle
  <2>4. Describes(h, f) /\ h.chunked
    BY <2>1, <1>3, <1>4 DEF Describes
  <2>5. /\ Opened(f).status = "live"
        /\ Opened(f).header = h
        /\ Opened(f).working # NoColumn
    BY <2>2, <1>2
  <2>6. SameLayout(Opened(f).header, f.header)
    BY <2>1, <2>5 DEF SameLayout
  <2>7. QED
    BY <2>3, <2>4, <2>5, <2>6 DEF SoundHandle
<1>5. CASE ~(f.body = "chunks" /\ f.header.chunked)
  <2>1. Opened(f) \in Handle
    BY <1>1, <1>5 DEF Opened, Handle, File
  <2>2. QED
    BY <2>1, <1>2, <1>3, <1>5 DEF SoundHandle, Opened, SameLayout
<1>6. QED
  BY <1>4, <1>5

----------------------------------------------------------------------------
(* A handle that lost its mapping when its file should have grown: the     *)
(* next write or header edit tries again.                                  *)
Growable(h, f) ==
    /\ h \in Handle
    /\ h.working # NoColumn
    /\ ~h.header.chunked
    /\ Describes(h.header, f)
    /\ SameLayout(h.header, f.header)

(* The layout of the file.  TypeOK and LayoutDescribed are inductive with  *)
(* one thing more: a decoded copy is there exactly when the header of the  *)
(* writer will ask for it, which is what types its next close, and the     *)
(* header on disk and that of the writer have the same type and layout,    *)
(* which is what describes a file that has grown when mapping it failed    *)
(* and gives the next update of a bare handle its type.                    *)
LayoutInv ==
    /\ TypeOK
    /\ LayoutDescribed
    /\ w.status = "live" => SameLayout(w.header, file.header)
    /\ w.status = "bare" => w.header.type = file.header.type
    /\ w.status = "bare" /\ w.working # NoColumn => Growable(w, file)

(* What the parts of a handle are.                                         *)
LEMMA HandleFields ==
    ASSUME NEW h \in Handle
    PROVE  /\ h.status \in {"closed", "live", "spent", "bare"}
           /\ h.header \in Header
           /\ h.header.chunked \in BOOLEAN
           /\ h.header.hasValidity \in BOOLEAN
           /\ h.header.nullCount \in Nat
           /\ h.header.generation \in Nat
           /\ h.header.type \in Types
           /\ h.working # NoColumn => h.working \in Column
BY DEF Handle, Header

(* A closed handle is a handle.                                            *)
LEMMA ClosedHandleType == ClosedHandle \in Handle /\ ClosedHandle.status = "closed"
BY FieldAssumption DEF ClosedHandle, BlankHeader, Handle, Header

(* A live handle after an edit: the file and the handle changed alike.     *)
LEMMA LiveInv ==
    ASSUME SoundFile(file'), SoundHandle(w', file'), op' \in Calls
    PROVE  LayoutInv'
<1>1. file' # NoFile /\ file' \in File /\ Describes(file'.header, file')
  BY NoFileAssumption DEF SoundFile
<1>2. TypeOK'
  BY <1>1 DEF TypeOK, SoundHandle
<1>3. LayoutDescribed'
  BY <1>1 DEF LayoutDescribed, SoundHandle
<1>4. QED
  BY <1>2, <1>3 DEF LayoutInv, SoundHandle

(* A file that is described, under a handle that was just opened on it, is *)
(* in order; so is one under a closed handle, and one under a handle that  *)
(* has neither mapping nor copy.                                           *)
LEMMA OpenedInv ==
    ASSUME SoundFile(file'), w' = Opened(file'), op' \in Calls
    PROVE  LayoutInv'
BY OpenedSound, LiveInv

(* A call that leaves the handle closed keeps the layout.                  *)
LEMMA ClosedInv ==
    ASSUME file' = NoFile \/ SoundFile(file'), w' = ClosedHandle, op' \in Calls
    PROVE  LayoutInv'
<1>1. w' \in Handle /\ w'.status = "closed"
  BY ClosedHandleType
<1>2. TypeOK'
  BY <1>1 DEF TypeOK, SoundFile
<1>3. LayoutDescribed'
  BY <1>1 DEF LayoutDescribed, SoundFile
<1>4. QED
  BY <1>1, <1>2, <1>3 DEF LayoutInv

(* What Spent and Bare make of a handle.                                   *)
LEMMA LeftHandle ==
    ASSUME NEW h \in Handle
    PROVE  /\ Spent(h) \in Handle /\ Spent(h).status = "spent"
           /\ Spent(h).working = NoColumn
           /\ Bare(h) \in Handle /\ Bare(h).status = "bare"
           /\ Bare(h).working = NoColumn /\ Bare(h).header = h.header
BY DEF Spent, Bare, Handle

(* A call that leaves the handle without mapping and copy keeps it.        *)
LEMMA UnmappedInv ==
    ASSUME SoundFile(file'), w' \in Handle, w'.status \in {"spent", "bare"},
           w'.status = "bare" => w'.header.type = file'.header.type,
           w'.working = NoColumn, op' \in Calls
    PROVE  LayoutInv'
<1>1. file' \in File /\ file' # NoFile /\ Describes(file'.header, file')
  BY NoFileAssumption DEF SoundFile
<1>2. TypeOK'
  BY <1>1 DEF TypeOK
<1>3. LayoutDescribed'
  BY <1>1 DEF LayoutDescribed
<1>4. QED
  BY <1>2, <1>3 DEF LayoutInv

(* So does one that leaves it spent or bare.                               *)
LEMMA LeftInv ==
    ASSUME LayoutInv, SoundFile(file'), op' \in Calls,
           \/ w' = Spent(w)
           \/ w' = Bare(w) /\ file'.header.type = w.header.type
    PROVE  LayoutInv'
BY LeftHandle, UnmappedInv DEF LayoutInv, TypeOK

(* So does one that has replaced the file and opens it again, or fails to. *)
LEMMA ReopenedInv ==
    ASSUME LayoutInv, SoundFile(file'), op' \in Calls,
           \/ Reopened(Spent(w))
           \/ Reopened(Bare(w)) /\ file'.header.type = w.header.type
    PROVE  LayoutInv'
BY OpenedInv, LeftInv DEF Reopened

(* The header after an edit has the layout of the header before.           *)
LEMMA EditedType ==
    ASSUME NEW h \in Header, NEW old \in Column, NEW new \in Column
    PROVE  /\ Edited(h, old, new) \in Header
           /\ Edited(h, old, new).chunked = h.chunked
           /\ Edited(h, old, new).hasValidity = h.hasValidity
           /\ Edited(h, old, new).type = h.type
           /\ Edited(h, old, new).nullCount = CountAfter(h, old, new)
           /\ CountAfter(h, old, new) \in Nat
<1>1. /\ Nulls(old) \in Nat
      /\ Nulls(new) \in Nat
      /\ h.nullCount \in Nat
      /\ h.generation \in Nat
  BY NullsType DEF Header
<1>2. CountAfter(h, old, new) \in Nat
  BY <1>1 DEF CountAfter
<1>3. h.generation + 1 \in Nat
  BY <1>1
<1>4. QED
  BY <1>2, <1>3 DEF Edited, Header

(* The next generation changes nothing else of a header.                   *)
LEMMA GenerationStepType ==
    ASSUME NEW h \in Header
    PROVE  /\ [h EXCEPT !.generation = @ + 1] \in Header
           /\ [h EXCEPT !.generation = @ + 1].chunked = h.chunked
           /\ [h EXCEPT !.generation = @ + 1].hasValidity = h.hasValidity
           /\ [h EXCEPT !.generation = @ + 1].type = h.type
           /\ [h EXCEPT !.generation = @ + 1].nullCount = h.nullCount
<1>1. h.generation + 1 \in Nat
  BY DEF Header
<1>2. QED
  BY <1>1 DEF Header

(* A handle that is not closed is on a sound file.                         *)
LEMMA OpenFile ==
    ASSUME LayoutInv, w.status # "closed"
    PROVE  file # NoFile /\ SoundFile(file) /\ file.cells \in Column
BY FileFields DEF LayoutInv, TypeOK, LayoutDescribed, SoundFile

(* A live handle agrees with its file.                                     *)
LEMMA LiveHandle ==
    ASSUME LayoutInv, w.status = "live"
    PROVE  SoundHandle(w, file)
BY DEF LayoutInv, TypeOK, LayoutDescribed, SoundHandle

(* A growth that fails leaves a described file and a handle that may try   *)
(* again, whatever it has counted meanwhile.                               *)
LEMMA GrowthInv ==
    ASSUME LayoutInv, Growable(w, file), NEW hdr \in Header,
           SameLayout(hdr, w.header), GrowthFails(hdr),
           w' \in Handle, w'.status = "bare", w'.working = w.working,
           SameLayout(w'.header, w.header), w.status # "closed"
    PROVE  LayoutInv'
<1>1. SoundFile(file) /\ file \in File /\ file.header \in Header
  BY OpenFile, FileFields DEF SoundFile
<1>2. ~hdr.chunked /\ SameLayout(hdr, file.header)
  BY DEF Growable, SameLayout
<1>3. SoundFile(Expanded(hdr)) /\ Expanded(hdr).body = "plain"
      /\ Expanded(hdr).bits = hdr.hasValidity
  BY <1>2, ExpandedSound DEF Expanded
<1>4. /\ file' \in File
      /\ file'.header = file.header
      /\ \/ file'.body = file.body /\ file'.bits = file.bits
         \/ file'.body = "plain" /\ file'.bits = hdr.hasValidity
  BY <1>1, <1>3 DEF GrowthFails, SoundFile, File
<1>5. SoundFile(file')
  BY <1>1, <1>2, <1>4 DEF SoundFile, Describes, SameLayout
<1>6. Growable(w', file')
  BY <1>2, <1>4 DEF Growable, Describes, SameLayout
<1>7. TypeOK'
  BY <1>4 DEF TypeOK, GrowthFails, Calls
<1>8. LayoutDescribed'
  BY <1>5, <1>6, NoFileAssumption DEF LayoutDescribed, Growable, SoundFile
<1>9. QED
  BY <1>6, <1>7, <1>8 DEF LayoutInv, Growable, SameLayout

(* A handle that has a copy of a plain field may grow its file.            *)
LEMMA MayGrow ==
    ASSUME LayoutInv, w.status \in {"live", "bare"}, w.working # NoColumn,
           ~w.header.chunked
    PROVE  Growable(w, file)
BY DEF LayoutInv, LayoutDescribed, TypeOK, Growable

(* Writing decoded values keeps the layout.                                *)
LEMMA WriteWorkingInv ==
    ASSUME LayoutInv, w.status = "live", NEW data \in Patches,
           WriteWorking(data), op' \in Calls
    PROVE  LayoutInv'
<1> DEFINE new == Patched(w.working, data)
           hdr == Edited(w.header, w.working, new)
<1>1. SoundFile(file) /\ SoundHandle(w, file)
  BY OpenFile, LiveHandle
<1>2. w \in Handle /\ w.header \in Header /\ w.working \in Column
  BY <1>1, HandleFields DEF SoundHandle, WriteWorking
<1>3. new \in Column /\ new # NoColumn
  BY <1>2, PatchedType, NoColumnAssumption
<1>4. /\ hdr \in Header
      /\ hdr.chunked = w.header.chunked
      /\ hdr.hasValidity = w.header.hasValidity
  BY <1>2, <1>3, EditedType
<1>5. /\ w' = [w EXCEPT !.header = hdr, !.working = new, !.modified = TRUE]
      /\ file' = [file EXCEPT !.header = hdr]
      /\ w.header.chunked
  BY DEF WriteWorking
<1> HIDE DEF hdr, new
<1>6. Describes(hdr, file)
  BY <1>1, <1>4 DEF SoundHandle, Describes
<1>7. SoundFile(file') /\ file'.header = hdr
  BY <1>1, <1>4, <1>5, <1>6 DEF SoundFile, File, Describes
<1>8. SoundHandle(w', file')
  <2>1. w' \in Handle
    BY <1>2, <1>3, <1>4, <1>5 DEF Handle
  <2>2. w'.status = "live" /\ w'.header = hdr /\ w'.working = new
    BY <1>1, <1>2, <1>5 DEF SoundHandle, Handle
  <2>3. file'.body = file.body /\ file'.bits = file.bits
    BY <1>1, <1>5 DEF SoundFile, File
  <2>4. QED
    BY <2>1, <2>2, <2>3, <1>3, <1>4, <1>5, <1>6, <1>7
       DEF SoundHandle, Describes, SameLayout
<1>9. QED
  BY <1>7, <1>8, LiveInv

(* The file an edit in place works on, and the header it leaves.           *)
LEMMA MappedFile ==
    ASSUME LayoutInv, w.status \in {"live", "bare"}, ~w.header.chunked,
           w.status = "live" \/ w.working # NoColumn
    PROVE  LET f == IF w.working # NoColumn THEN Expanded(w.header) ELSE file
           IN  f \in File /\ f.body = "plain" /\ Describes(w.header, f)
<1>1. SoundFile(file) /\ (w.status = "live" => SoundHandle(w, file))
  BY OpenFile, LiveHandle
<1>2. w.header \in Header
  BY HandleFields DEF LayoutInv, TypeOK
<1>3. CASE w.working # NoColumn
  <2>1. SoundFile(Expanded(w.header)) /\ Expanded(w.header).body = "plain"
    BY <1>2, ExpandedSound
  <2>2. Expanded(w.header).header = w.header
    BY DEF Expanded
  <2>3. QED
    BY <1>3, <2>1, <2>2 DEF SoundFile
<1>4. CASE w.working = NoColumn
  <2>1. file.body # "none" /\ file.body # "chunks"
    BY <1>1, <1>4 DEF SoundHandle, Describes
  <2>2. file \in File /\ file.body = "plain"
    BY <1>1, <2>1 DEF SoundFile, File
  <2>3. QED
    BY <1>1, <1>4, <2>2 DEF SoundHandle
<1>5. QED
  BY <1>3, <1>4

(* Writing in the mapped file keeps it.                                    *)
LEMMA WriteMappedInv ==
    ASSUME LayoutInv, w.status \in {"live", "bare"}, NEW data \in Patches,
           WriteMapped(data), op' \in Calls
    PROVE  LayoutInv'
<1> DEFINE f   == IF w.working # NoColumn THEN Expanded(w.header) ELSE file
           new == Patched(f.cells, data)
           hdr == IF w.header.hasValidity
                  THEN Edited(w.header, f.cells, new)
                  ELSE [w.header EXCEPT !.generation = @ + 1]
<1>1. ~w.header.chunked
  BY DEF WriteMapped
<1>2. f \in File /\ f.body = "plain" /\ Describes(w.header, f)
  BY <1>1, MappedFile DEF WriteMapped
<1>3. w \in Handle /\ w.header \in Header
  BY HandleFields DEF LayoutInv, TypeOK
<1> HIDE DEF f
<1>4. f.cells \in Column /\ new \in Column
  BY <1>2, FileFields, PatchedType
<1>5. /\ hdr \in Header
      /\ hdr.chunked = w.header.chunked
      /\ hdr.hasValidity = w.header.hasValidity
  BY <1>3, <1>4, EditedType, GenerationStepType
<1>6. /\ w' = [w EXCEPT !.status = "live", !.header = hdr,
                        !.working = NoColumn, !.modified = TRUE]
      /\ file' = [f EXCEPT !.header = hdr, !.cells = new]
  BY DEF WriteMapped, f
<1> HIDE DEF hdr, new
<1>7. /\ file' \in File
      /\ file'.header = hdr
      /\ file'.body = "plain"
      /\ file'.bits = f.bits
  BY <1>2, <1>4, <1>5, <1>6 DEF File
<1>8. /\ w' \in Handle
      /\ w'.header = hdr
      /\ w'.status = "live"
      /\ w'.working = NoColumn
  BY <1>3, <1>5, <1>6 DEF Handle
<1>9. Describes(hdr, file')
  BY <1>1, <1>2, <1>5, <1>7 DEF Describes
<1>10. SoundFile(file') /\ SoundHandle(w', file')
  BY <1>1, <1>5, <1>7, <1>8, <1>9 DEF SoundFile, SoundHandle, SameLayout
<1>11. QED
  BY <1>10, LiveInv

(* A write keeps it, also one that fails.                                  *)
LEMMA WriteInv ==
    ASSUME LayoutInv, Write
    PROVE  LayoutInv'
<1>1. w.status \in {"live", "bare"} /\ w \in Handle /\ w.header \in Header
      /\ SoundFile(file)
  BY OpenFile, HandleFields DEF Write, LayoutInv, TypeOK
<1>2. ASSUME NEW data \in Patches, op' = "write",
             WriteWorking(data) \/ WriteMapped(data)
      PROVE  LayoutInv'
  <2>1. CASE WriteWorking(data)
    <3>1. w.status = "live"
      BY <1>1, <2>1 DEF WriteWorking, LayoutInv, LayoutDescribed
    <3>2. QED
      BY <1>2, <2>1, <3>1, WriteWorkingInv DEF Calls
  <2>2. CASE WriteMapped(data)
    BY <1>1, <1>2, <2>2, WriteMappedInv DEF Calls
  <2>3. QED
    BY <1>2, <2>1, <2>2
<1>3. ASSUME ~w.header.chunked, w.working # NoColumn, GrowthFails(w.header),
             w' = [w EXCEPT !.status = "bare"]
      PROVE  LayoutInv'
  <2>1. /\ w' \in Handle /\ w'.status = "bare"
        /\ w'.working = w.working /\ w'.header = w.header
    BY <1>1, <1>3 DEF Handle
  <2>2. QED
    BY <1>1, <1>3, <2>1, MayGrow, GrowthInv DEF SameLayout
<1>4. ASSUME w.status = "bare", op' = "failed", UNCHANGED <<file, w>>
      PROVE  LayoutInv'
  BY <1>4 DEF LayoutInv, TypeOK, LayoutDescribed, Calls
<1>5. ASSUME op' = "panic", w' = ClosedHandle, UNCHANGED file
      PROVE  LayoutInv'
  BY <1>1, <1>5, ClosedInv DEF Calls
<1>6. QED
  BY <1>2, <1>3, <1>4, <1>5 DEF Write, WriteFails

(* An edit of the header that spares the layout keeps it, also one that    *)
(* does not reach the file.                                                *)
LEMMA UpdateHeaderInv ==
    ASSUME LayoutEdits = FALSE, LayoutInv, UpdateHeader
    PROVE  LayoutInv'
<1>1. /\ w.status \in {"live", "bare"} /\ SoundFile(file)
      /\ w \in Handle /\ w.header \in Header /\ file \in File
  BY OpenFile, HandleFields DEF UpdateHeader, LayoutInv, TypeOK, SoundFile
<1> DEFINE hdr == [w.header EXCEPT !.chunked = w.header.chunked,
                                   !.hasValidity = w.header.hasValidity,
                                   !.generation = @ + 1]
           grow == w.working # NoColumn /\ ~w.header.chunked
<1>2. hdr = [w.header EXCEPT !.generation = @ + 1]
  BY <1>1 DEF Header
<1>3. /\ hdr \in Header
      /\ hdr.chunked = w.header.chunked
      /\ hdr.hasValidity = w.header.hasValidity
      /\ hdr.type = w.header.type
  BY <1>1, <1>2, GenerationStepType
<1>4. HeaderEdited(hdr)
  BY DEF UpdateHeader
<1> HIDE DEF hdr
<1>5. ASSUME grow, op' = "update_header", file' = Expanded(hdr),
             w' = [w EXCEPT !.status = "live", !.header = hdr, !.modified = TRUE,
                            !.working = NoColumn]
      PROVE  LayoutInv'
  <2>1. SoundFile(Expanded(hdr)) /\ Expanded(hdr).body = "plain"
        /\ Expanded(hdr).header = hdr
    BY <1>3, <1>5, ExpandedSound DEF Expanded
  <2>2. /\ w' \in Handle
        /\ w'.status = "live"
        /\ w'.header = hdr
        /\ w'.working = NoColumn
    BY <1>1, <1>3, <1>5 DEF Handle
  <2>3. SoundFile(file') /\ SoundHandle(w', file')
    BY <1>3, <1>5, <2>1, <2>2 DEF SoundFile, SoundHandle, SameLayout
  <2>4. QED
    BY <2>3, <1>5, LiveInv DEF Calls
<1>6. ASSUME ~grow, w.status = "live", op' = "update_header",
             file' = [file EXCEPT !.header = hdr],
             w' = [w EXCEPT !.status = "live", !.header = hdr, !.modified = TRUE,
                            !.working = w.working]
      PROVE  LayoutInv'
  <2>1. /\ file' \in File
        /\ file'.header = hdr
        /\ file'.body = file.body
        /\ file'.bits = file.bits
    BY <1>1, <1>3, <1>6 DEF File
  <2>2. /\ w' \in Handle
        /\ w'.status = "live"
        /\ w'.header = hdr
        /\ w'.working = w.working
    BY <1>1, <1>3, <1>6 DEF Handle
  <2>3. SoundHandle(w, file)
    BY <1>6, LiveHandle
  <2>4. Describes(hdr, file')
    BY <1>3, <2>1, <2>3 DEF SoundHandle, Describes
  <2>5. SoundFile(file') /\ SoundHandle(w', file')
    BY <1>3, <2>1, <2>2, <2>3, <2>4 DEF SoundFile, SoundHandle, SameLayout
  <2>6. QED
    BY <2>5, <1>6, LiveInv DEF Calls
<1>7. ASSUME w.status = "bare", ~grow, op' = "update_header",
             w' = [w EXCEPT !.header = hdr, !.modified = TRUE], UNCHANGED file
      PROVE  LayoutInv'
  <2>1. w.working = NoColumn
    BY <1>7 DEF LayoutInv, LayoutDescribed
  <2>2. w' \in Handle /\ w'.status = "bare" /\ w'.working = NoColumn
    BY <1>1, <1>3, <1>7, <2>1 DEF Handle
  <2>3. w'.header = hdr /\ w.header.type = file.header.type
    BY <1>1, <1>7 DEF Handle, LayoutInv
  <2>4. QED
    BY <1>1, <1>3, <1>7, <2>2, <2>3, UnmappedInv DEF Calls
<1>8. ASSUME grow, GrowthFails(hdr),
             w' = [w EXCEPT !.status = "bare", !.header = hdr, !.modified = TRUE]
      PROVE  LayoutInv'
  <2>1. /\ w' \in Handle
        /\ w'.status = "bare"
        /\ w'.header = hdr
        /\ w'.working = w.working
    BY <1>1, <1>3, <1>8 DEF Handle
  <2>2. QED
    BY <1>1, <1>3, <1>8, <2>1, MayGrow, GrowthInv DEF SameLayout
<1>9. QED
  BY <1>3, <1>4, <1>5, <1>6, <1>7, <1>8 DEF HeaderEdited

(* Closing keeps it.                                                       *)
LEMMA CloseInv ==
    ASSUME LayoutInv, Close
    PROVE  LayoutInv'
<1>1. SoundFile(file)
  BY OpenFile DEF Close
<1>2. CASE Unsaved
  <2>1. SoundHandle(w, file) /\ w.header.chunked
    BY <1>2, LiveHandle DEF Unsaved
  <2>2. w.header \in Header /\ w.working \in Column
    BY <2>1 DEF SoundHandle, Handle
  <2>3. file' = [header |-> w.header, body |-> "chunks", bits |-> TRUE,
                 cells |-> w.working]
    BY <1>2 DEF Close
  <2>4. SoundFile(file')
    BY <2>1, <2>2, <2>3 DEF SoundFile, File, Describes
  <2>5. QED
    BY <1>2, <2>4, ClosedInv DEF Close, Calls
<1>3. CASE ~Unsaved
  BY <1>1, <1>3, ClosedInv DEF Close, Calls
<1>4. QED
  BY <1>2, <1>3

(* So does every step.                                                     *)
LEMMA LayoutStep ==
    ASSUME LayoutEdits = FALSE, LayoutInv, [Next]_vars
    PROVE  LayoutInv'
<1>1. CASE Create
  <2>1. PICK t \in Types, compressed, bitmap \in BOOLEAN, col \in Column :
            \E cells \in PlainCells(col, bitmap) :
               file' = Created(t, col, cells, compressed, bitmap)
    BY <1>1 DEF Create
  <2>2. PICK cells \in Column : file' = Created(t, col, cells, compressed, bitmap)
    BY <2>1, PlainCellsType
  <2>4. SoundFile(file')
    BY <2>2, CreatedSound
  <2>3. QED
    BY <1>1, <2>4, OpenedInv DEF Create, Calls
<1>2. CASE Open
  <2>1. SoundFile(file')
    BY <1>2 DEF Open, LayoutInv, TypeOK, LayoutDescribed, SoundFile
  <2>2. QED
    BY <1>2, <2>1, OpenedInv DEF Open, Calls
<1>3. CASE Write
  BY <1>3, WriteInv
<1>4. CASE Update
  <2>1. w.header.type \in Types /\ SoundFile(file)
    BY <1>4, OpenFile, HandleFields DEF Update, LayoutInv, TypeOK
  <2>2. ASSUME NEW bitmap \in BOOLEAN, NEW col \in Column,
               NEW cells \in PlainCells(col, bitmap),
               file' = Created(w.header.type, col, cells, FALSE, bitmap)
        PROVE  SoundFile(file') /\ file'.header.type = w.header.type
    <3> DEFINE t == w.header.type
    <3>1. t \in Types /\ cells \in Column /\ FALSE \in BOOLEAN
      BY <2>1, PlainCellsType
    <3> HIDE DEF t
    <3>2. /\ SoundFile(Created(t, col, cells, FALSE, bitmap))
          /\ Created(t, col, cells, FALSE, bitmap).header.type = t
      BY <3>1, CreatedSound
    <3>3. QED
      BY <2>2, <3>2 DEF t
  <2>3. CASE /\ op' = "update" /\ Reopened(Bare(w))
             /\ SoundFile(file') /\ file'.header.type = w.header.type
    BY <2>3, ReopenedInv DEF Calls
  <2>4. CASE op' = "failed" /\ w' = Bare(w) /\ file' = file
    <3>1. w.header.type = file.header.type
      BY <1>4 DEF Update, LayoutInv, SameLayout
    <3>2. QED
      BY <2>1, <2>4, <3>1, LeftInv DEF Calls
  <2>5. QED
    BY <1>4, <2>2, <2>3, <2>4 DEF Update
<1>5. CASE UpdateHeader
  BY <1>5, UpdateHeaderInv
<1>6. CASE Compress
  <2>1. SoundFile(file)
    BY <1>6, OpenFile DEF Compress
  <2>2. SoundFile(Compressed(file))
    BY <2>1, CompressedSound DEF SoundFile
  <2>3. QED
    BY <1>6, <2>1, <2>2, ReopenedInv, LeftInv DEF Compress, Calls
<1>7. CASE Decompress
  <2>1. SoundFile(file)
    BY <1>7, OpenFile DEF Decompress
  <2>2. SoundFile(Decompressed(file))
    BY <2>1, DecompressedSound DEF SoundFile
  <2>3. QED
    BY <1>7, <2>1, <2>2, ReopenedInv, LeftInv DEF Decompress, Calls
<1>8. CASE Cast
  <2>1. PICK t \in Types : file' = CastTo(file, t)
    BY <1>8 DEF Cast
  <2>2. SoundFile(file')
    BY <1>8, <2>1, OpenFile, CastToSound DEF Cast
  <2>3. QED
    BY <1>8, <2>2, ReopenedInv DEF Cast, Calls
<1>9. CASE Rename
  <2>1. SoundFile(file')
    BY <1>9, OpenFile DEF Rename
  <2>2. QED
    BY <1>9, <2>1, ReopenedInv DEF Rename, Calls
<1>10. CASE Close
  BY <1>10, CloseInv
<1>15. CASE ConversionFails
  <2>1. SoundFile(file')
    BY <1>15, OpenFile DEF ConversionFails
  <2>2. QED
    BY <1>15, <2>1, LeftInv DEF ConversionFails, Calls
<1>11. CASE Drop
  <2>1. SoundFile(file')
    BY <1>11, OpenFile DEF Drop
  <2>2. QED
    BY <1>11, <2>1, ClosedInv DEF Drop, Calls
<1>12. CASE Delete
  <2>1. /\ file' = NoFile /\ op' = "delete"
        /\ w' \in Handle /\ w'.status = "closed"
    BY <1>12 DEF Delete, LayoutInv, TypeOK
  <2>2. QED
    BY <2>1 DEF LayoutInv, TypeOK, LayoutDescribed, Calls
<1>13. CASE UNCHANGED vars
  BY <1>13 DEF vars, LayoutInv, TypeOK, LayoutDescribed, Describes
<1>14. QED
  BY <1>1, <1>2, <1>3, <1>4, <1>5, <1>6, <1>7, <1>8, <1>9, <1>10, <1>11,
     <1>12, <1>13, <1>15 DEF Next

(* And it holds at the start.                                              *)
LEMMA LayoutInit == Init => LayoutInv
BY ClosedHandleType DEF Init, LayoutInv, TypeOK, LayoutDescribed, Calls

(* If no caller edits the layout through update_header, every value stays  *)
(* in its type and, after any sequence of conversions, edits, forgotten    *)
(* handles and calls that the file system refuses half way, the header on  *)
(* disk describes the file; a writer that has a mapping describes it too,  *)
(* and holds a decoded copy exactly when its next write or close will      *)
(* unwrap one.  Of a writer left without a mapping this says only that a   *)
(* compressed field has no copy: there the unwrapping panics.              *)
THEOREM LayoutAlwaysDescribed ==
    ASSUME LayoutEdits = FALSE
    PROVE  Spec => [](TypeOK /\ LayoutDescribed)
<1>1. Init => LayoutInv
  BY LayoutInit
<1>2. LayoutInv /\ [Next]_vars => LayoutInv'
  BY LayoutStep
<1>3. LayoutInv => TypeOK /\ LayoutDescribed
  BY DEF LayoutInv
<1>4. QED
  BY <1>1, <1>2, <1>3, PTL DEF Spec

(* Every value stays in its type: the header of a file has one of the      *)
(* types, its body is absent, plain or compressed, and a writer's decoded  *)
(* copy is a column (field_file.rs, the handle and the header it keeps).   *)
THEOREM TypesAlwaysKept == ASSUME LayoutEdits = FALSE PROVE Spec => []TypeOK
<1>1. TypeOK /\ LayoutDescribed => TypeOK
  OBVIOUS
<1>2. QED
  BY <1>1, LayoutAlwaysDescribed, PTL

----------------------------------------------------------------------------
(* The null_count of the file.  Beyond LayoutInv the induction needs: a    *)
(* header-only file is all NULL (or compressing by the count would lose    *)
(* rows), the writer's header is the one on disk, and its decoded copy is  *)
(* counted by it and equals the file until it is edited.                   *)
CountedFile(f) ==
    /\ f.header.nullCount = Nulls(f.cells)
    /\ f.body = "none" => f.cells = AllNull
    /\ f.body # "none" /\ ~f.bits => NullRows(f.cells) = {}

CountedHandle(h, f) ==
    /\ h.header = f.header
    /\ h.working # NoColumn => h.header.nullCount = Nulls(h.working)
    /\ h.working # NoColumn /\ ~(h.header.chunked /\ h.modified)
          => h.working = f.cells

(* A handle whose file could not be grown still announces all NULL.        *)
CountedGrowth(h, f) ==
    /\ h.header.hasValidity
    /\ h.header.nullCount = N
    /\ h.header.type = f.header.type
    /\ f.cells = AllNull

CountInv ==
    file # NoFile =>
        /\ ~Unsaved => CountedFile(file)
        /\ file.body = "none" => file.cells = AllNull
        /\ file.body # "none" /\ ~file.bits => NullRows(file.cells) = {}
        /\ w.status = "live" => CountedHandle(w, file)
        /\ w.status = "bare" /\ w.working # NoColumn => CountedGrowth(w, file)

(* A file just created from a column whose bits are written where they are *)
(* read counts its nulls, and holds what it was given.                     *)
LEMMA CreatedCounted ==
    ASSUME NEW t \in Types, NEW col \in Column,
           NEW c \in BOOLEAN, NEW b \in BOOLEAN, NullRows(col) # {} => b
    PROVE  /\ CountedFile(Created(t, col, col, c, b))
           /\ Created(t, col, col, c, b).cells = col
           /\ Created(t, col, col, c, b).header.type = t
<1> DEFINE p == Plain(t, 1, Nulls(col), b, col)
<1>1. CASE col = AllNull
  BY <1>1, ConstantColumns DEF Created, HeaderOnly, CountedFile
<1>2. CASE col # AllNull
  <2>1. CountedFile(p) /\ p.cells = col /\ p.header.type = t
    BY DEF Plain, CountedFile
  <2>2. /\ CountedFile(Chunks(p.header, b, col))
        /\ Chunks(p.header, b, col).cells = col
        /\ Chunks(p.header, b, col).header.type = t
    BY DEF Plain, Chunks, CountedFile
  <2>3. QED
    BY <1>2, <2>1, <2>2 DEF Created
<1>3. QED
  BY <1>1, <1>2

(* Neither conversion changes a cell of a file that is counted right.      *)
LEMMA CompressedCounted ==
    ASSUME NEW f \in File, CountedFile(f)
    PROVE  /\ CountedFile(Compressed(f))
           /\ Compressed(f).cells = f.cells
           /\ Compressed(f).header.type = f.header.type
<1>1. CASE f.body = "none" \/ f.header.nullCount = N
  <2>1. f.cells = AllNull
    BY <1>1, FileFields, NullsType DEF CountedFile
  <2>2. QED
    BY <1>1, <2>1 DEF Compressed, HeaderOnly, CountedFile
<1>2. CASE ~(f.body = "none" \/ f.header.nullCount = N)
  <2>1. /\ Chunks(f.header, f.bits, f.cells).header.nullCount = f.header.nullCount
        /\ Chunks(f.header, f.bits, f.cells).header.type = f.header.type
    BY DEF Chunks, File, Header
  <2>2. QED
    BY <1>2, <2>1 DEF Compressed, Chunks, CountedFile
<1>3. QED
  BY <1>1, <1>2

(* Decompressing keeps the count, the values and the type.                 *)
LEMMA DecompressedCounted ==
    ASSUME NEW f \in File, CountedFile(f)
    PROVE  /\ CountedFile(Decompressed(f))
           /\ Decompressed(f).cells = f.cells
           /\ Decompressed(f).header.type = f.header.type
BY DEF Decompressed, HeaderOnly, Plain, CountedFile

(* A cast counts the nulls of what it converted.                           *)
LEMMA CastToCounted ==
    ASSUME NEW f \in File, CountedFile(f), NEW t \in Types
    PROVE  /\ CountedFile(CastTo(f, t))
           /\ CastTo(f, t).header.type = t
           /\ CastTo(f, t).cells = IF t = f.header.type THEN f.cells
                                   ELSE Converted(f.cells, t)
<1> DEFINE col == Converted(f.cells, t)
           p   == Plain(t, f.header.generation, Nulls(col), TRUE, col)
<1>1. f.cells \in Column /\ f.header.chunked \in BOOLEAN
  BY FileFields
<1>2. col \in Column /\ NullRows(col) = NullRows(f.cells) /\ Nulls(col) \in Nat
  BY <1>1, ConvertedType, NullsType
<1>3. p \in File /\ CountedFile(p) /\ p.cells = col /\ p.header.type = t
  BY <1>2, FileFields, PlainSound DEF SoundFile, Plain, CountedFile
<1>4. /\ CountedFile(Compressed(p))
      /\ Compressed(p).cells = col
      /\ Compressed(p).header.type = t
  BY <1>3, CompressedCounted
<1>5. f.body = "none" => col = AllNull
  BY <1>1 DEF CountedFile, Converted, AllNull
<1> HIDE DEF p, col
<1>6. CASE t = f.header.type
  BY <1>6 DEF CastTo
<1>7. CASE t # f.header.type /\ f.body = "none"
  <2>1. CastTo(f, t) = HeaderOnly(t, f.header.chunked, N, f.header.generation)
    BY <1>7 DEF CastTo
  <2>2. QED
    BY <1>5, <1>7, <2>1, ConstantColumns DEF HeaderOnly, CountedFile, col
<1>8. CASE t # f.header.type /\ f.body # "none"
  <2>1. CastTo(f, t) = IF f.header.chunked THEN Compressed(p) ELSE p
    BY <1>8 DEF CastTo, p, col
  <2>2. QED
    BY <1>3, <1>4, <1>8, <2>1 DEF col
<1>9. QED
  BY <1>6, <1>7, <1>8

(* A handle just opened counts what its file counts.                       *)
LEMMA OpenedCounted ==
    ASSUME NEW f, SoundFile(f), CountedFile(f)
    PROVE  CountedHandle(Opened(f), f)
<1>1. [f.header EXCEPT !.nullCount = Nulls(f.cells)] = f.header
  BY DEF SoundFile, CountedFile, File, Header
<1>2. Opened(f).header = f.header
  BY <1>1 DEF Opened
<1>3. QED
  BY <1>2 DEF Opened, CountedHandle, CountedFile

(* What an edit makes of the count, when the old count was right.          *)
LEMMA CountAfterExact ==
    ASSUME NEW h \in Header, NEW old \in Column, NEW new \in Column,
           h.nullCount = Nulls(old)
    PROVE  CountAfter(h, old, new) = Nulls(new)
<1>1. Nulls(old) \in Nat /\ Nulls(new) \in Nat
  BY NullsType
<1>2. QED
  BY <1>1 DEF CountAfter

----------------------------------------------------------------------------
(* The step of the count and of the refinement, action by action.  Col is  *)
(* an instance on the same constants, so its columns are the columns here. *)
LEMMA SameColumns ==
    /\ Col!Column = Column
    /\ Col!Patches = Patches
    /\ \A col, data : Col!Patched(col, data) = Patched(col, data)
    /\ \A col, t : Col!Converted(col, t) = Converted(col, t)
BY DEF Col!Column, Col!Cell, Col!Rows, Col!Patches, Col!Patched, Col!Converted,
       Column, Cell, Rows, Patches, Patched, Converted

CountGoal == CountInv' /\ [Col!ColNext]_Col!colVars

(* After a call that leaves the file counted and the handle freshly opened *)
(* on it, closed, or spent.                                                *)
LEMMA OpenedCount ==
    ASSUME SoundFile(file'), CountedFile(file'), w' = Opened(file')
    PROVE  CountInv' /\ ~Unsaved' /\ file' # NoFile /\ file'.cells \in Column
<1>1. CountedHandle(w', file')
  BY OpenedCounted
<1>2. ~w'.modified
  BY DEF Opened
<1>3. file' # NoFile /\ file'.cells \in Column
  BY NoFileAssumption, FileFields DEF SoundFile
<1>4. w'.status = "live"
  BY DEF Opened
<1>5. QED
  BY <1>1, <1>2, <1>3, <1>4 DEF CountInv, Unsaved, CountedFile

(* Without a live handle the count is that of the file.                    *)
LEMMA NotLiveCount ==
    ASSUME file' = NoFile \/ CountedFile(file'), w'.status # "live",
           w'.status = "bare" => w'.working = NoColumn
    PROVE  CountInv' /\ ~Unsaved'
BY DEF CountInv, Unsaved, CountedFile

(* Before a call that may give the handle up.                              *)
LEMMA CountedBefore ==
    ASSUME LayoutInv, CountInv, file # NoFile, ~Unsaved
    PROVE  CountedFile(file) /\ SoundFile(file) /\ file \in File
           /\ file.cells \in Column /\ file.cells # NoColumn
           /\ file.header.type \in Types
BY FileFields, NoColumnAssumption
   DEF LayoutInv, TypeOK, LayoutDescribed, SoundFile, CountInv

(* Writing decoded values keeps the count.                                 *)
LEMMA WriteWorkingCount ==
    ASSUME LayoutInv, CountInv, w.status = "live", op' = "write",
           NEW data \in Patches, WriteWorking(data)
    PROVE  CountGoal
<1> DEFINE new == Patched(w.working, data)
           hdr == Edited(w.header, w.working, new)
<1>1. SoundFile(file) /\ SoundHandle(w, file) /\ file # NoFile
      /\ file.cells \in Column /\ file.cells # NoColumn
  BY OpenFile, LiveHandle, NoColumnAssumption
<1>2. w \in Handle /\ file \in File /\ w.header \in Header /\ w.working \in Column
  BY <1>1, HandleFields DEF SoundHandle, SoundFile, WriteWorking
<1>3. new \in Column /\ new # NoColumn
  BY <1>2, PatchedType, NoColumnAssumption
<1>4. CountedHandle(w, file) /\ w.working # NoColumn
  BY <1>1 DEF CountInv, WriteWorking
<1>5. /\ hdr \in Header
      /\ hdr.chunked
      /\ hdr.nullCount = Nulls(new)
      /\ hdr.type = file.header.type
  <2>1. hdr \in Header /\ hdr.chunked /\ hdr.nullCount = CountAfter(w.header, w.working, new)
    BY <1>2, <1>3, EditedType DEF WriteWorking
  <2>2. CountAfter(w.header, w.working, new) = Nulls(new)
    BY <1>2, <1>3, <1>4, CountAfterExact DEF CountedHandle
  <2>3. hdr.type = w.header.type
    BY <1>2 DEF Edited, Header
  <2>4. QED
    BY <2>1, <2>2, <2>3, <1>4 DEF CountedHandle
<1>6. /\ w' = [w EXCEPT !.header = hdr, !.working = new, !.modified = TRUE]
      /\ file' = [file EXCEPT !.header = hdr]
  BY DEF WriteWorking
<1> HIDE DEF hdr
<1>7. /\ w'.status = "live"
      /\ w'.header = hdr
      /\ w'.working = new
      /\ w'.modified
      /\ file'.header = hdr
      /\ file'.body = file.body
      /\ file'.bits = file.bits
      /\ file'.cells = file.cells
      /\ file' \in File
      /\ file' # NoFile
  BY <1>2, <1>3, <1>5, <1>6, NoFileAssumption DEF Handle, File
<1> HIDE DEF new
<1>8. Unsaved'
  BY <1>5, <1>7 DEF Unsaved
<1>9. CountInv'
  BY <1>1, <1>3, <1>5, <1>7, <1>8 DEF CountInv, CountedHandle
<1>10. (IF Unsaved THEN w.working ELSE file.cells) = w.working
  BY <1>4 DEF CountedHandle, Unsaved
<1>11. Col!EditDraft
  <2>1. Col!Base = w.working
    BY <1>1, <1>4, <1>10 DEF Col!Base
  <2>2. new = Col!Patched(Col!Base, data) /\ data \in Col!Patches
    BY <2>1, SameColumns DEF new
  <2>3. QED
    BY <1>1, <1>5, <1>7, <1>8, <2>2 DEF Col!EditDraft
<1>12. QED
  BY <1>9, <1>11 DEF CountGoal, Col!ColNext

(* Before a header-only file is grown: it is all NULL, and so the header   *)
(* says that is in the writer.                                             *)
LEMMA GrowingCounted ==
    ASSUME LayoutInv, CountInv, w.status \in {"live", "bare"}, ~w.header.chunked,
           w.working # NoColumn
    PROVE  CountedGrowth(w, file)
<1>1. file # NoFile
  BY OpenFile
<1>2. CASE w.status = "live"
  <2>1. SoundHandle(w, file) /\ CountedHandle(w, file)
    BY <1>1, <1>2, LiveHandle DEF CountInv
  <2>2. file.body = "none" /\ w.header.hasValidity
    BY <2>1 DEF SoundHandle, Describes
  <2>3. file.cells = AllNull /\ w.working = file.cells
    BY <1>1, <2>1, <2>2 DEF CountInv, CountedHandle
  <2>4. w.header.nullCount = N
    BY <2>1, <2>3, ConstantColumns DEF CountedHandle
  <2>5. QED
    BY <2>1, <2>2, <2>3, <2>4 DEF CountedGrowth, CountedHandle
<1>3. CASE w.status = "bare"
  BY <1>1, <1>3 DEF CountInv
<1>4. QED
  BY <1>2, <1>3

(* The file an edit in place works on holds what the file held.            *)
LEMMA MappedCounted ==
    ASSUME LayoutInv, CountInv, w.status \in {"live", "bare"}, ~w.header.chunked,
           w.status = "live" \/ w.working # NoColumn
    PROVE  LET f == IF w.working # NoColumn THEN Expanded(w.header) ELSE file
           IN  /\ CountedFile(f)
               /\ f.header = w.header
               /\ f.cells = file.cells
               /\ w.header.type = file.header.type
<1>1. CASE w.working # NoColumn
  <2>1. CountedGrowth(w, file)
    BY <1>1, GrowingCounted
  <2>2. CountedFile(Expanded(w.header))
    BY <2>1, ConstantColumns DEF CountedGrowth, Expanded, CountedFile
  <2>3. QED
    BY <1>1, <2>1, <2>2 DEF Expanded, CountedGrowth
<1>2. CASE w.working = NoColumn
  <2>1. CountedHandle(w, file) /\ CountedFile(file)
    BY <1>2, OpenFile DEF CountInv, Unsaved
  <2>2. QED
    BY <1>2, <2>1 DEF CountedHandle
<1>3. QED
  BY <1>1, <1>2

(* Writing in the mapped file keeps it.                                    *)
LEMMA WriteMappedCount ==
    ASSUME LayoutInv, CountInv, w.status \in {"live", "bare"}, op' = "write",
           NEW data \in Patches, WriteMapped(data)
    PROVE  CountGoal
<1> DEFINE f   == IF w.working # NoColumn THEN Expanded(w.header) ELSE file
           new == Patched(f.cells, data)
           hdr == IF w.header.hasValidity
                  THEN Edited(w.header, f.cells, new)
                  ELSE [w.header EXCEPT !.generation = @ + 1]
<1>1. ~w.header.chunked
  BY DEF WriteMapped
<1>2. /\ f \in File /\ f.body = "plain" /\ Describes(w.header, f)
      /\ CountedFile(f)
      /\ f.header = w.header
      /\ f.cells = file.cells
      /\ w.header.type = file.header.type
  BY <1>1, MappedFile, MappedCounted DEF WriteMapped
<1>3. /\ w \in Handle /\ w.header \in Header
      /\ file # NoFile /\ file.cells \in Column /\ file.cells # NoColumn
  BY HandleFields, OpenFile, NoColumnAssumption DEF LayoutInv, TypeOK
<1>4. /\ w' = [w EXCEPT !.status = "live", !.header = hdr,
                        !.working = NoColumn, !.modified = TRUE]
      /\ file' = [f EXCEPT !.header = hdr, !.cells = new]
      /\ w.header.hasValidity \/ \A i \in DOMAIN data : data[i] # NULL
  BY DEF WriteMapped, f
<1> HIDE DEF f
<1>5. new \in Column
  BY <1>2, <1>3, PatchedType
<1>6. ~f.bits => NullRows(new) = {} /\ Nulls(new) = Nulls(f.cells)
  <2>1. SUFFICES ASSUME ~f.bits
                 PROVE  NullRows(new) = {} /\ Nulls(new) = Nulls(f.cells)
    OBVIOUS
  <2>2. NullRows(f.cells) = {}
    BY <1>2, <2>1 DEF CountedFile
  <2>3. \A i \in DOMAIN data : data[i] # NULL
    BY <1>2, <1>4, <2>1 DEF Describes
  <2>4. NullRows(new) = {}
    BY <2>2, <2>3 DEF NullRows, Patched
  <2>5. QED
    BY <2>2, <2>4 DEF Nulls
<1>7. /\ hdr \in Header
      /\ ~hdr.chunked
      /\ hdr.nullCount = Nulls(new)
      /\ hdr.type = file.header.type
  <2>1. CASE w.header.hasValidity
    <3>1. hdr = Edited(w.header, f.cells, new)
      BY <2>1
    <3>2. Edited(w.header, f.cells, new).type = w.header.type
      BY <1>3 DEF Edited, Header
    <3>3. CountAfter(w.header, f.cells, new) = Nulls(new)
      BY <1>2, <1>3, <1>5, CountAfterExact DEF CountedFile
    <3>4. f.cells \in Column
      BY <1>2, <1>3
    <3>5. /\ Edited(w.header, f.cells, new) \in Header
          /\ Edited(w.header, f.cells, new).chunked = w.header.chunked
          /\ Edited(w.header, f.cells, new).nullCount = Nulls(new)
      BY <3>3, <3>4, <1>3, <1>5, EditedType
    <3>6. QED
      BY <3>1, <3>2, <3>5, <1>1, <1>2
  <2>2. CASE ~w.header.hasValidity
    <3>1. hdr = [w.header EXCEPT !.generation = @ + 1]
      BY <2>2
    <3>2. [w.header EXCEPT !.generation = @ + 1].type = w.header.type
      BY <1>3 DEF Header
    <3>3. w.header.nullCount = Nulls(new)
      BY <1>2, <1>6, <2>2 DEF CountedFile, Describes
    <3>4. QED
      BY <3>1, <3>2, <3>3, <1>1, <1>2, <1>3, GenerationStepType
  <2>3. QED
    BY <2>1, <2>2
<1> HIDE DEF hdr
<1>8. /\ w'.status = "live"
      /\ w'.header = hdr
      /\ w'.working = NoColumn
      /\ file'.header = hdr
      /\ file'.body = "plain"
      /\ file'.bits = f.bits
      /\ file'.cells = new
      /\ file' \in File
      /\ file' # NoFile
  BY <1>2, <1>3, <1>4, <1>5, <1>7, NoFileAssumption DEF Handle, File
<1>9. CountInv'
  BY <1>6, <1>7, <1>8 DEF CountInv, CountedHandle, CountedFile
<1>10. ~Unsaved /\ ~Unsaved'
  BY <1>1, <1>7, <1>8 DEF Unsaved
<1>11. Col!EditStored
  <2>1. new = Col!Patched(file.cells, data) /\ data \in Col!Patches
    BY <1>2, SameColumns
  <2>2. QED
    BY <1>3, <1>7, <1>8, <1>10, <2>1 DEF Col!EditStored
<1>12. QED
  BY <1>9, <1>11 DEF CountGoal, Col!ColNext

(* Closing keeps it.                                                       *)
LEMMA CloseCount ==
    ASSUME LayoutInv, CountInv, Close
    PROVE  CountGoal
<1>1. /\ w' = ClosedHandle
      /\ file # NoFile /\ SoundFile(file)
      /\ file.cells \in Column /\ file.cells # NoColumn
  BY OpenFile, NoColumnAssumption DEF Close
<1>2. w'.status = "closed"
  BY <1>1 DEF ClosedHandle
<1>3. CASE Unsaved
  <2>1. /\ op' = "close"
        /\ file' = [header |-> w.header, body |-> "chunks", bits |-> TRUE,
                    cells |-> w.working]
    BY <1>3 DEF Close
  <2>2. SoundHandle(w, file) /\ CountedHandle(w, file) /\ w.working # NoColumn
    BY <1>1, <1>3, LiveHandle DEF Unsaved, CountInv, SoundHandle
  <2>3. w.header \in Header /\ w.working \in Column
    BY <2>2 DEF SoundHandle, Handle
  <2>4. file' \in File /\ file' # NoFile /\ CountedFile(file')
    <3>1. file' \in File
      BY <2>1, <2>3 DEF File
    <3>2. w.header.nullCount = Nulls(w.working)
      BY <2>2 DEF CountedHandle
    <3>3. CountedFile(file')
      BY <2>1, <3>2 DEF CountedFile
    <3>4. QED
      BY <3>1, <3>3, NoFileAssumption
  <2>5. CountInv' /\ ~Unsaved'
    BY <1>2, <2>4, NotLiveCount
  <2>6. file'.header.type = file.header.type /\ file'.cells = w.working
    BY <2>1, <2>2 DEF CountedHandle
  <2>7. Col!Publish
    BY <1>1, <1>3, <2>1, <2>2, <2>4, <2>5, <2>6 DEF Col!Publish
  <2>8. QED
    BY <2>5, <2>7 DEF CountGoal, Col!ColNext
<1>4. CASE ~Unsaved
  <2>1. file' = file /\ op' \in {"close", "panic"}
    BY <1>4 DEF Close
  <2>2. CountedFile(file)
    BY <1>1, <1>4 DEF CountInv
  <2>3. CountInv' /\ ~Unsaved'
    BY <1>2, <2>1, <2>2, NotLiveCount
  <2>4. Col!Keep
    BY <1>1, <1>4, <2>1, <2>3 DEF Col!Keep
  <2>5. QED
    BY <2>3, <2>4 DEF CountGoal, Col!ColNext
<1>5. QED
  BY <1>3, <1>4

(* A call that may give the handle up and leaves the same type and cells.  *)
LEMMA KeepCount ==
    ASSUME LayoutInv, CountInv, file # NoFile, ~Unsaved,
           CountInv', ~Unsaved', file' # NoFile,
           file'.cells = file.cells, file'.header.type = file.header.type,
           op' \in {"open", "close", "compress", "decompress", "rename",
                    "update_header", "failed", "panic"}
    PROVE  CountGoal
<1>1. Col!Keep
  BY DEF Col!Keep
<1>2. QED
  BY <1>1 DEF CountGoal, Col!ColNext

(* After a call that leaves the file counted and the handle without its    *)
(* mapping and copy, or reopened.                                          *)
LEMMA LeftCount ==
    ASSUME LayoutInv, CountedFile(file'), w' = Spent(w) \/ w' = Bare(w)
    PROVE  CountInv' /\ ~Unsaved'
<1>1. w'.status # "live" /\ w'.working = NoColumn
  BY LeftHandle DEF LayoutInv, TypeOK
<1>2. QED
  BY <1>1, NotLiveCount

(* So it is whether the file is opened again or not.                       *)
LEMMA ReopenedCount ==
    ASSUME LayoutInv, SoundFile(file'), CountedFile(file'),
           Reopened(Spent(w)) \/ Reopened(Bare(w))
    PROVE  CountInv' /\ ~Unsaved' /\ file' # NoFile /\ file'.cells \in Column
<1>1. file' # NoFile /\ file'.cells \in Column
  BY NoFileAssumption, FileFields DEF SoundFile
<1>2. QED
  BY <1>1, OpenedCount, LeftCount DEF Reopened

(* Using up a handle with nothing unsaved keeps it.                        *)
LEMMA SpentCount ==
    ASSUME LayoutInv, CountInv, file # NoFile, ~Unsaved,
           file' = file, w' = Spent(w) \/ w' = Bare(w),
           op' \in {"compress", "decompress", "failed"}
    PROVE  CountGoal
<1>1. CountedFile(file)
  BY DEF CountInv
<1>2. CountInv' /\ ~Unsaved'
  BY <1>1, LeftCount
<1>3. QED
  BY <1>2, KeepCount

(* A growth that fails leaves the rows NULL and the counts as they were.   *)
LEMMA GrowthCount ==
    ASSUME LayoutInv, CountInv, w.status \in {"live", "bare"}, ~w.header.chunked,
           w.working # NoColumn, NEW hdr \in Header,
           SameLayout(hdr, w.header), GrowthFails(hdr),
           w'.status = "bare", w'.working = w.working,
           w'.header.hasValidity = w.header.hasValidity,
           w'.header.nullCount = w.header.nullCount,
           w'.header.type = w.header.type
    PROVE  CountGoal
<1>1. CountedGrowth(w, file)
  BY GrowingCounted
<1>2. file # NoFile /\ file \in File /\ SoundFile(file) /\ ~Unsaved
  BY OpenFile DEF SoundFile, Unsaved
<1>3. CountedFile(file)
  BY <1>2 DEF CountInv
<1>4. Expanded(hdr).cells = AllNull /\ Expanded(hdr).bits
  BY <1>1 DEF Expanded, CountedGrowth, SameLayout
<1>5. /\ file'.cells = file.cells
      /\ file'.header = file.header
      /\ file'.body = "none" => file.body = "none"
      /\ file'.bits \/ (file'.body = file.body /\ file'.bits = file.bits)
  BY <1>1, <1>2, <1>4 DEF GrowthFails, CountedGrowth, Expanded
<1>6. CountedFile(file') /\ file' # NoFile
  <2>1. CountedFile(file')
    BY <1>3, <1>5 DEF CountedFile
  <2>2. Expanded(hdr) \in File /\ file.header \in Header
    BY <1>2, ExpandedSound, FileFields DEF SameLayout, SoundFile
  <2>3. [Expanded(hdr) EXCEPT !.header = file.header] \in File
    BY <2>2 DEF File
  <2>4. file' # NoFile
    BY <1>2, <2>3, NoFileAssumption DEF GrowthFails
  <2>5. QED
    BY <2>1, <2>4
<1>7. CountedGrowth(w', file')
  BY <1>1, <1>5 DEF CountedGrowth
<1>8. CountInv' /\ ~Unsaved'
  BY <1>6, <1>7 DEF CountInv, Unsaved, CountedFile
<1>9. QED
  BY <1>2, <1>5, <1>6, <1>8, KeepCount DEF GrowthFails

(* A write keeps it, also one that fails.                                  *)
LEMMA WriteCount ==
    ASSUME LayoutInv, CountInv, Write
    PROVE  CountGoal
<1>1. w.status \in {"live", "bare"} /\ w \in Handle /\ w.header \in Header
  BY HandleFields DEF Write, LayoutInv, TypeOK
<1>2. ASSUME NEW data \in Patches, op' = "write",
             WriteWorking(data) \/ WriteMapped(data)
      PROVE  CountGoal
  <2>1. CASE WriteWorking(data)
    <3>1. w.status = "live"
      BY <1>1, <2>1 DEF WriteWorking, LayoutInv, LayoutDescribed
    <3>2. QED
      BY <1>2, <2>1, <3>1, WriteWorkingCount
  <2>2. CASE WriteMapped(data)
    BY <1>1, <1>2, <2>2, WriteMappedCount
  <2>3. QED
    BY <1>2, <2>1, <2>2
<1>3. ASSUME ~w.header.chunked, w.working # NoColumn, GrowthFails(w.header),
             w' = [w EXCEPT !.status = "bare"]
      PROVE  CountGoal
  <2>1. w'.status = "bare" /\ w'.working = w.working /\ w'.header = w.header
    BY <1>1, <1>3 DEF Handle
  <2>2. QED
    BY <1>1, <1>3, <2>1, GrowthCount DEF SameLayout
<1>4. ASSUME w.status = "bare", op' = "failed" \/ op' = "panic",
             w' = w \/ w' = ClosedHandle, UNCHANGED file,
             w.working = NoColumn
      PROVE  CountGoal
  <2>1. file # NoFile /\ ~Unsaved
    BY <1>4, OpenFile DEF Unsaved
  <2>2. CountedFile(file)
    BY <2>1 DEF CountInv
  <2>3. CountInv' /\ ~Unsaved'
    BY <1>4, <2>2, NotLiveCount, ClosedHandleType
  <2>4. QED
    BY <1>4, <2>1, <2>3, KeepCount
<1>5. QED
  BY <1>2, <1>3, <1>4 DEF Write, WriteFails, LayoutInv, LayoutDescribed

(* An edit of the header that spares the layout keeps it, also one that    *)
(* does not reach the file.                                                *)
LEMMA UpdateHeaderCount ==
    ASSUME LayoutEdits = FALSE, LayoutInv, CountInv, UpdateHeader
    PROVE  CountGoal
<1> DEFINE hdr == [w.header EXCEPT !.chunked = w.header.chunked,
                                   !.hasValidity = w.header.hasValidity,
                                   !.generation = @ + 1]
           grow == w.working # NoColumn /\ ~w.header.chunked
<1>1. HeaderEdited(hdr)
  BY DEF UpdateHeader
<1>2. /\ w.status \in {"live", "bare"}
      /\ w \in Handle /\ w.header \in Header
      /\ SoundFile(file) /\ file \in File
      /\ file # NoFile /\ file.cells \in Column /\ file.cells # NoColumn
  BY OpenFile, HandleFields, NoColumnAssumption
     DEF UpdateHeader, LayoutInv, TypeOK, SoundFile
<1>3. file.body = "none" => file.cells = AllNull
  BY <1>2 DEF CountInv
<1>4. /\ hdr \in Header
      /\ hdr.chunked = w.header.chunked
      /\ hdr.hasValidity = w.header.hasValidity
      /\ hdr.nullCount = w.header.nullCount
      /\ hdr.type = w.header.type
  <2>1. hdr = [w.header EXCEPT !.generation = @ + 1]
    BY <1>2 DEF Header
  <2>2. hdr.type = w.header.type
    BY <1>2 DEF Header
  <2>3. QED
    BY <1>2, <2>1, <2>2, GenerationStepType
<1> HIDE DEF hdr
<1>5. ASSUME grow, op' = "update_header", file' = Expanded(hdr),
             w' = [w EXCEPT !.status = "live", !.header = hdr, !.modified = TRUE,
                            !.working = NoColumn]
      PROVE  CountGoal
  <2>1. CountedGrowth(w, file)
    BY <1>2, <1>5, GrowingCounted
  <2>2. /\ file'.header = hdr
        /\ file'.body = "plain"
        /\ file'.bits
        /\ file'.cells = file.cells
    BY <1>4, <1>5, <2>1 DEF Expanded, CountedGrowth
  <2>3. hdr.nullCount = Nulls(file.cells) /\ hdr.type = file.header.type
    BY <1>4, <2>1, ConstantColumns DEF CountedGrowth
  <2>4. file' # NoFile
    BY <1>4, <1>5, ExpandedSound, NoFileAssumption DEF SoundFile
  <2>5. w'.status = "live" /\ w'.header = hdr /\ w'.working = NoColumn
    BY <1>2, <1>5 DEF Handle
  <2>6. CountInv'
    BY <2>2, <2>3, <2>5 DEF CountInv, CountedFile, CountedHandle
  <2>7. ~Unsaved /\ ~Unsaved'
    BY <1>4, <1>5, <2>5 DEF Unsaved
  <2>8. QED
    BY <1>2, <1>5, <2>2, <2>3, <2>4, <2>6, <2>7, KeepCount
<1>6. ASSUME ~grow, w.status = "live", op' = "update_header",
             file' = [file EXCEPT !.header = hdr],
             w' = [w EXCEPT !.status = "live", !.header = hdr, !.modified = TRUE,
                            !.working = w.working]
      PROVE  CountGoal
  <2>1. /\ file' \in File
        /\ file' # NoFile
        /\ file'.header = hdr
        /\ file'.body = file.body
        /\ file'.bits = file.bits
        /\ file'.cells = file.cells
    BY <1>2, <1>4, <1>6, NoFileAssumption DEF File
  <2>2. /\ w'.status = "live"
        /\ w'.header = hdr
        /\ w'.modified
        /\ w'.working = w.working
    BY <1>2, <1>6 DEF Handle
  <2>3. SoundHandle(w, file) /\ CountedHandle(w, file)
        /\ hdr.type = file.header.type
    BY <1>2, <1>4, <1>6, LiveHandle DEF CountInv, CountedHandle
  <2>4. CASE w.header.chunked
    <3>1. Unsaved' /\ w.working # NoColumn
      BY <1>4, <2>2, <2>3, <2>4 DEF Unsaved, SoundHandle
    <3>2. CountInv'
      BY <1>2, <1>3, <1>4, <2>1, <2>2, <2>3, <3>1
         DEF CountInv, CountedHandle
    <3>3. (IF Unsaved THEN w.working ELSE file.cells) = w.working
      BY <1>6, <2>3, <2>4, <3>1 DEF CountedHandle, Unsaved
    <3>4. Col!Base = w.working
      BY <1>2, <3>1, <3>3 DEF Col!Base
    <3>5. Col!EditDraft
      BY <1>2, <1>6, <2>1, <2>2, <2>3, <3>1, <3>4 DEF Col!EditDraft
    <3>6. QED
      BY <3>2, <3>5 DEF CountGoal, Col!ColNext
  <2>5. CASE ~w.header.chunked
    <3>1. ~Unsaved /\ ~Unsaved' /\ w'.working = NoColumn
      BY <1>4, <1>6, <2>2, <2>5 DEF Unsaved
    <3>2. CountedFile(file)
      BY <1>2, <3>1 DEF CountInv
    <3>3. CountInv'
      BY <1>4, <2>1, <2>2, <2>3, <3>1, <3>2
         DEF CountInv, CountedFile, CountedHandle
    <3>4. QED
      BY <1>2, <1>6, <2>1, <2>3, <3>1, <3>3, KeepCount
  <2>6. QED
    BY <2>4, <2>5
<1>7. ASSUME w.status = "bare", ~grow, op' = "update_header",
             w' = [w EXCEPT !.header = hdr, !.modified = TRUE], UNCHANGED file
      PROVE  CountGoal
  <2>1. w.working = NoColumn /\ ~Unsaved
    BY <1>7 DEF LayoutInv, LayoutDescribed, Unsaved
  <2>2. w'.status = "bare" /\ w'.working = NoColumn
    BY <1>2, <1>7, <2>1 DEF Handle
  <2>3. CountedFile(file)
    BY <1>2, <2>1 DEF CountInv
  <2>4. CountInv' /\ ~Unsaved'
    BY <1>7, <2>2, <2>3, NotLiveCount
  <2>5. QED
    BY <1>2, <1>7, <2>1, <2>4, KeepCount
<1>8. ASSUME grow, GrowthFails(hdr),
             w' = [w EXCEPT !.status = "bare", !.header = hdr, !.modified = TRUE]
      PROVE  CountGoal
  <2>1. /\ w'.status = "bare"
        /\ w'.header = hdr
        /\ w'.working = w.working
    BY <1>2, <1>8 DEF Handle
  <2>2. QED
    BY <1>2, <1>4, <1>8, <2>1, GrowthCount DEF SameLayout
<1>9. QED
  BY <1>1, <1>4, <1>5, <1>6, <1>7, <1>8 DEF HeaderEdited

(* So does every step, where no handle is dropped unsaved.                 *)
LEMMA CountStep ==
    ASSUME LayoutEdits = FALSE, Drops = FALSE, Sliced = FALSE,
           LayoutInv, CountInv, [Next]_vars
    PROVE  CountGoal
<1>1. CASE Create
  <2>1. PICK t \in Types, compressed, bitmap \in BOOLEAN, col \in Column :
            /\ NullRows(col) # {} => bitmap
            /\ file' = Created(t, col, col, compressed, bitmap)
    BY <1>1, PlainCellsType DEF Create
  <2>2. SoundFile(file')
    BY <2>1, CreatedSound
  <2>3. CountedFile(file') /\ file'.header.type = t
    BY <2>1, CreatedCounted
  <2>4. CountInv' /\ ~Unsaved' /\ file' # NoFile /\ file'.cells \in Column
    BY <1>1, <2>2, <2>3, OpenedCount DEF Create
  <2>5. file = NoFile /\ ~Unsaved /\ op' = "create"
    BY <1>1 DEF Create, LayoutInv, LayoutDescribed, Unsaved
  <2>6. Col!Provide
    BY <2>3, <2>4, <2>5, SameColumns DEF Col!Provide
  <2>7. QED
    BY <2>4, <2>6 DEF CountGoal, Col!ColNext
<1>2. CASE Open
  <2>1. file # NoFile /\ ~Unsaved /\ file' = file /\ w' = Opened(file)
    BY <1>2 DEF Open, Unsaved
  <2>2. CountedFile(file) /\ SoundFile(file)
    BY <2>1, CountedBefore
  <2>3. QED
    BY <1>2, <2>1, <2>2, OpenedCount, KeepCount DEF Open
<1>3. CASE Write
  BY <1>3, WriteCount
<1>4. CASE Update
  <2>1. file # NoFile /\ ~Unsaved
    BY <1>4, OpenFile DEF Update, MayGiveUp
  <2>2. /\ file.cells # NoColumn /\ file.header.type \in Types
        /\ w.header.type \in Types
    BY <2>1, CountedBefore, HandleFields DEF LayoutInv, TypeOK
  <2>3. ASSUME NEW bitmap \in BOOLEAN, NEW col \in Column,
               NullRows(col) # {} => bitmap,
               file' = Created(w.header.type, col, col, FALSE, bitmap)
        PROVE  SoundFile(file') /\ CountedFile(file')
               /\ file'.header.type = w.header.type
    <3> DEFINE t == w.header.type
    <3>1. t \in Types /\ FALSE \in BOOLEAN
      BY <2>2
    <3> HIDE DEF t
    <3>2. /\ CountedFile(Created(t, col, col, FALSE, bitmap))
          /\ Created(t, col, col, FALSE, bitmap).header.type = t
      BY <2>3, <3>1, CreatedCounted, Zenon
    <3>3. SoundFile(Created(t, col, col, FALSE, bitmap))
      BY <3>1, CreatedSound
    <3>4. QED
      BY <2>3, <3>2, <3>3 DEF t
  <2>4. CASE /\ op' = "update" /\ Reopened(Bare(w))
             /\ SoundFile(file') /\ CountedFile(file')
             /\ file'.header.type = w.header.type
    <3>1. CountInv' /\ ~Unsaved' /\ file' # NoFile /\ file'.cells \in Column
      BY <2>4, ReopenedCount
    <3>2. file'.header.type = file.header.type
      BY <1>4, <2>4 DEF Update, LayoutInv, SameLayout
    <3>3. Col!Replace
      BY <2>1, <2>2, <2>4, <3>1, <3>2, SameColumns DEF Col!Replace
    <3>4. QED
      BY <3>1, <3>3 DEF CountGoal, Col!ColNext
  <2>5. CASE op' = "failed" /\ w' = Bare(w) /\ file' = file
    BY <2>1, <2>5, SpentCount
  <2>6. PICK bitmap \in BOOLEAN, col \in Column :
            \/ /\ op' = "update" /\ Reopened(Bare(w))
               /\ NullRows(col) # {} => bitmap
               /\ file' = Created(w.header.type, col, col, FALSE, bitmap)
            \/ op' = "failed" /\ w' = Bare(w) /\ file' = file
    BY <1>4, PlainCellsType, ConstantColumns DEF Update
  <2>7. QED
    BY <2>3, <2>4, <2>5, <2>6
<1>5. CASE UpdateHeader
  BY <1>5, UpdateHeaderCount
<1>6. CASE Compress
  <2>1. file # NoFile /\ ~Unsaved /\ op' = "compress"
    BY <1>6, OpenFile DEF Compress, MayGiveUp
  <2>2. file \in File /\ CountedFile(file)
    BY <2>1, CountedBefore
  <2>3. /\ SoundFile(Compressed(file))
        /\ CountedFile(Compressed(file))
        /\ Compressed(file).cells = file.cells
        /\ Compressed(file).header.type = file.header.type
    BY <2>2, CompressedSound, CompressedCounted
  <2>4. CASE file' = Compressed(file) /\ Reopened(Spent(w))
    BY <2>1, <2>3, <2>4, ReopenedCount, KeepCount
  <2>5. CASE file' = file /\ w' = Spent(w)
    BY <2>1, <2>5, SpentCount
  <2>6. QED
    BY <1>6, <2>4, <2>5 DEF Compress
<1>7. CASE Decompress
  <2>1. file # NoFile /\ ~Unsaved /\ op' = "decompress"
    BY <1>7, OpenFile DEF Decompress, MayGiveUp
  <2>2. file \in File /\ CountedFile(file)
    BY <2>1, CountedBefore
  <2>3. /\ SoundFile(Decompressed(file))
        /\ CountedFile(Decompressed(file))
        /\ Decompressed(file).cells = file.cells
        /\ Decompressed(file).header.type = file.header.type
    BY <2>2, DecompressedSound, DecompressedCounted
  <2>4. CASE file' = Decompressed(file) /\ Reopened(Spent(w))
    BY <2>1, <2>3, <2>4, ReopenedCount, KeepCount
  <2>5. CASE file' = file /\ w' = Spent(w)
    BY <2>1, <2>5, SpentCount
  <2>6. QED
    BY <1>7, <2>4, <2>5 DEF Decompress
<1>8. CASE Cast
  <2>1. file # NoFile /\ ~Unsaved /\ op' = "cast" /\ Reopened(Spent(w))
    BY <1>8, OpenFile DEF Cast, MayGiveUp
  <2>2. PICK t \in Types : file' = CastTo(file, t)
    BY <1>8 DEF Cast
  <2>3. /\ file \in File /\ SoundFile(file) /\ CountedFile(file)
        /\ file.cells # NoColumn
    BY <2>1, CountedBefore
  <2>4. /\ SoundFile(file')
        /\ CountedFile(file')
        /\ file'.header.type = t
        /\ file'.cells = IF t = file.header.type THEN file.cells
                         ELSE Converted(file.cells, t)
    BY <2>2, <2>3, CastToSound, CastToCounted
  <2>5. CountInv' /\ ~Unsaved' /\ file' # NoFile
    BY <2>1, <2>4, ReopenedCount
  <2>6. Converted(file.cells, t) = Col!Converted(file.cells, t)
    BY SameColumns
  <2>7. Col!Recast
    BY <2>1, <2>3, <2>4, <2>5, <2>6 DEF Col!Recast
  <2>8. QED
    BY <2>5, <2>7 DEF CountGoal, Col!ColNext
<1>9. CASE Rename
  <2>1. /\ file # NoFile /\ ~Unsaved /\ op' = "rename"
        /\ file' = file /\ Reopened(Spent(w))
    BY <1>9, OpenFile DEF Rename, MayGiveUp
  <2>2. CountedFile(file) /\ SoundFile(file)
    BY <2>1, CountedBefore
  <2>3. QED
    BY <2>1, <2>2, ReopenedCount, KeepCount
<1>15. CASE ConversionFails
  <2>1. /\ file # NoFile /\ ~Unsaved /\ op' = "failed"
        /\ file' = file /\ w' = Spent(w)
    BY <1>15, OpenFile DEF ConversionFails, MayGiveUp
  <2>2. QED
    BY <2>1, SpentCount
<1>10. CASE Close
  BY <1>10, CloseCount
<1>11. CASE Drop
  BY <1>11 DEF Drop
<1>12. CASE Delete
  <2>1. /\ file # NoFile /\ ~Unsaved /\ op' = "delete"
        /\ file' = NoFile /\ w'.status = "closed"
    BY <1>12 DEF Delete, Unsaved
  <2>2. file.cells # NoColumn
    BY <2>1, CountedBefore
  <2>3. CountInv' /\ ~Unsaved'
    BY <2>1, NotLiveCount
  <2>4. Col!Remove
    BY <2>1, <2>2, <2>3 DEF Col!Remove
  <2>5. QED
    BY <2>3, <2>4 DEF CountGoal, Col!ColNext
<1>13. CASE UNCHANGED vars
  <2>1. CountInv' /\ UNCHANGED Col!colVars
    BY <1>13 DEF vars, CountInv, CountedFile, CountedHandle, CountedGrowth,
                 Unsaved, Col!colVars
  <2>2. QED
    BY <2>1 DEF CountGoal
<1>14. QED
  BY <1>1, <1>2, <1>3, <1>4, <1>5, <1>6, <1>7, <1>8, <1>9, <1>10, <1>11,
     <1>12, <1>13, <1>15 DEF Next

(* And it holds at the start.                                              *)
LEMMA CountInit == Init => CountInv /\ Col!ColInit
BY DEF Init, CountInv, Col!ColInit, ClosedHandle, Unsaved

(* If no handle is given up with unsaved rows, no caller edits the layout  *)
(* and no column is created from a view that starts inside its bitmap, the *)
(* null_count on disk is the number of NULL rows on disk in every layout,  *)
(* after every conversion, edit and call that failed half way, unless a    *)
(* writer holds unsaved rows; and a file without validity bits has no NULL *)
(* row.  Of a column that is created from such a view it is not so: its    *)
(* bits are not those that were counted.                                   *)
THEOREM NullCountAlwaysExact ==
    ASSUME LayoutEdits = FALSE, Drops = FALSE, Sliced = FALSE
    PROVE  Spec => []NullCountExact
<1>1. Init => LayoutInv /\ CountInv
  BY LayoutInit, CountInit
<1>2. LayoutInv /\ CountInv /\ [Next]_vars => LayoutInv' /\ CountInv'
  BY LayoutStep, CountStep DEF CountGoal
<1>3. CountInv => NullCountExact
  BY DEF CountInv, CountedFile, NullCountExact
<1>4. QED
  BY <1>1, <1>2, <1>3, PTL DEF Spec

(* Under the same three conditions a field file and its writer implement a   *)
(* plain column with at most one unpublished draft: the three layouts, the *)
(* conversions between them, header edits and reopening cannot be told     *)
(* from doing nothing, and no call publishes or loses a draft but close.   *)
THEOREM FileImplementsColumn ==
    ASSUME LayoutEdits = FALSE, Drops = FALSE, Sliced = FALSE
    PROVE  Spec => FieldIsColumn
<1>1. Init => LayoutInv /\ CountInv /\ Col!ColInit
  BY LayoutInit, CountInit
<1>2. LayoutInv /\ CountInv /\ [Next]_vars
         => LayoutInv' /\ CountInv' /\ [Col!ColNext]_Col!colVars
  BY LayoutStep, CountStep DEF CountGoal
<1>3. QED
  BY <1>1, <1>2, PTL DEF Spec, FieldIsColumn, Col!ColSpec

----------------------------------------------------------------------------
(* The count of a writer of chunks, even if handles are given up at will.  *)
WorkingInv == LayoutInv /\ WorkingCountExact

(* A handle just opened counts the nulls it decoded.                       *)
LEMMA OpenedWorking ==
    ASSUME SoundFile(file'), w' = Opened(file')
    PROVE  WorkingCountExact'
<1>1. CASE file'.body = "chunks"
  <2>1. file'.header.chunked /\ file' \in File
    BY <1>1 DEF SoundFile, Describes
  <2>2. /\ w'.header = [file'.header EXCEPT !.nullCount = Nulls(file'.cells)]
        /\ w'.working = file'.cells
    BY <1>1, <2>1 DEF Opened
  <2>3. w'.header.nullCount = Nulls(w'.working)
    BY <2>1, <2>2 DEF File, Header
  <2>4. QED
    BY <2>3 DEF WorkingCountExact
<1>2. CASE file'.body # "chunks"
  BY <1>2 DEF WorkingCountExact
<1>3. QED
  BY <1>1, <1>2

(* Writing decoded values keeps that count exact.                          *)
LEMMA WriteWorkingExact ==
    ASSUME WorkingInv, w.status = "live", NEW data \in Patches, WriteWorking(data)
    PROVE  WorkingCountExact'
<1> DEFINE new == Patched(w.working, data)
           hdr == Edited(w.header, w.working, new)
<1>1. SoundFile(file) /\ SoundHandle(w, file)
  BY OpenFile, LiveHandle DEF WorkingInv
<1>2. w \in Handle /\ w.header \in Header /\ w.working \in Column /\ file \in File
  BY <1>1, HandleFields DEF SoundHandle, SoundFile, WriteWorking
<1>3. new \in Column
  BY <1>2, PatchedType
<1>4. w'.header = hdr /\ w'.working = new /\ file'.body = file.body
      /\ w.header.chunked
  BY <1>2 DEF WriteWorking, Handle, File
<1>5. CASE file.body = "chunks"
  <2>1. w.header.nullCount = Nulls(w.working)
    BY <1>4, <1>5 DEF WorkingInv, WorkingCountExact
  <2>2. hdr.nullCount = Nulls(new)
    BY <2>1, <1>2, <1>3, EditedType, CountAfterExact
  <2>3. QED
    BY <1>4, <2>2 DEF WorkingCountExact
<1>6. CASE file.body # "chunks"
  BY <1>4, <1>6 DEF WorkingCountExact
<1>7. QED
  BY <1>5, <1>6

(* So does every step.                                                     *)
LEMMA WorkingStep ==
    ASSUME LayoutEdits = FALSE, WorkingInv, [Next]_vars
    PROVE  WorkingCountExact'
<1>1. LayoutInv /\ LayoutInv'
  BY LayoutStep DEF WorkingInv
<1>2. CASE w' = Opened(file')
  <2>1. w'.status = "live"
    BY <1>2 DEF Opened
  <2>2. SoundFile(file')
    BY <1>1, <2>1 DEF LayoutInv, TypeOK, LayoutDescribed, SoundFile
  <2>3. QED
    BY <1>2, <2>2, OpenedWorking
<1>3. CASE w'.status # "live"
  BY <1>3 DEF WorkingCountExact
<1>4. CASE Write
  <2>1. w \in Handle /\ ClosedHandle.status = "closed"
    BY <1>1, ClosedHandleType DEF LayoutInv, TypeOK
  <2>2. ASSUME NEW data \in Patches, WriteWorking(data)
        PROVE  WorkingCountExact'
    <3>1. w.status = "live"
      BY <1>1, <1>4, <2>2 DEF WriteWorking, Write, LayoutInv, LayoutDescribed
    <3>2. QED
      BY <2>2, <3>1, WriteWorkingExact
  <2>3. ASSUME NEW data \in Patches, WriteMapped(data)
        PROVE  WorkingCountExact'
    <3>1. w'.working = NoColumn
      BY <2>1, <2>3 DEF WriteMapped, Handle
    <3>2. QED
      BY <1>1, <3>1 DEF LayoutInv, LayoutDescribed, WorkingCountExact
  <2>4. CASE WriteFails
    <3>1. w'.status # "live"
      BY <1>4, <2>1, <2>4 DEF WriteFails, Handle
    <3>2. QED
      BY <1>3, <3>1
  <2>5. QED
    BY <1>4, <2>2, <2>3, <2>4 DEF Write
<1>5. CASE UpdateHeader
  <2> DEFINE hdr == [w.header EXCEPT !.chunked = w.header.chunked,
                                     !.hasValidity = w.header.hasValidity,
                                     !.generation = @ + 1]
             grow == w.working # NoColumn /\ ~w.header.chunked
  <2>1. HeaderEdited(hdr)
    BY <1>5 DEF UpdateHeader
  <2>2. w \in Handle /\ w.header \in Header /\ file \in File
    BY <1>1, <1>5, OpenFile, HandleFields
       DEF UpdateHeader, SoundFile, LayoutInv, TypeOK
  <2>3. hdr.nullCount = w.header.nullCount /\ hdr.chunked = w.header.chunked
    BY <2>2 DEF Header
  <2> HIDE DEF hdr
  <2>4. CASE file' = Expanded(hdr)
    BY <2>4 DEF Expanded, WorkingCountExact
  <2>5. ASSUME ~grow, w.status = "live", file' = [file EXCEPT !.header = hdr],
               w' = [w EXCEPT !.status = "live", !.header = hdr,
                              !.modified = TRUE, !.working = w.working]
        PROVE  WorkingCountExact'
    <3>1. /\ w'.header = hdr
          /\ w'.working = w.working
          /\ file'.body = file.body
      BY <2>2, <2>5 DEF Handle, File
    <3>2. QED
      BY <2>3, <2>5, <3>1 DEF WorkingInv, WorkingCountExact
  <2>6. CASE w.status = "bare" /\ w' = [w EXCEPT !.header = hdr, !.modified = TRUE]
    <3>1. w'.status # "live"
      BY <2>2, <2>6 DEF Handle
    <3>2. QED
      BY <1>3, <3>1
  <2>7. CASE w' = [w EXCEPT !.status = "bare", !.header = hdr, !.modified = TRUE]
    <3>1. w'.status # "live"
      BY <2>2, <2>7 DEF Handle
    <3>2. QED
      BY <1>3, <3>1
  <2>8. QED
    BY <2>1, <2>3, <2>4, <2>5, <2>6, <2>7 DEF HeaderEdited
<1>6. CASE UNCHANGED vars
  BY <1>6 DEF vars, WorkingInv, WorkingCountExact
<1>7. CASE Create \/ Open
  BY <1>2, <1>7 DEF Create, Open
<1>8. CASE Compress \/ Decompress \/ Cast \/ Rename \/ Update \/ ConversionFails
  <2>1. w' = Spent(w) \/ w' = Bare(w) => w'.status # "live"
    BY <1>1, LeftHandle DEF LayoutInv, TypeOK
  <2>2. QED
    BY <1>2, <1>3, <1>8, <2>1
       DEF Compress, Decompress, Cast, Rename, Update, ConversionFails, Reopened
<1>9. CASE Close \/ Drop \/ Delete
  BY <1>3, <1>9 DEF Close, Drop, Delete, ClosedHandle
<1>10. QED
  BY <1>4, <1>5, <1>6, <1>7, <1>8, <1>9 DEF Next

(* If no caller edits the layout, a writer of chunks keeps the exact count *)
(* of the NULLs in its decoded copy, even when earlier handles were given  *)
(* up and left a wrong count on disk.                                      *)
THEOREM WorkingCountAlwaysExact ==
    ASSUME LayoutEdits = FALSE
    PROVE  Spec => []WorkingCountExact
<1>1. Init => WorkingInv
  BY LayoutInit DEF Init, ClosedHandle, WorkingInv, WorkingCountExact
<1>2. WorkingInv /\ [Next]_vars => WorkingInv'
  BY LayoutStep, WorkingStep DEF WorkingInv
<1>3. WorkingInv => WorkingCountExact
  BY DEF WorkingInv
<1>4. QED
  BY <1>1, <1>2, <1>3, PTL DEF Spec

----------------------------------------------------------------------------
(* The generation, even if handles are given up at will.                   *)
SameGeneration ==
    /\ w.status = "live" => w.header.generation = file.header.generation
    /\ w.status = "bare" /\ w.working # NoColumn
          => file.header.generation <= w.header.generation

GenInv == LayoutInv /\ SameGeneration

GenGoal ==
    /\ SameGeneration'
    /\ file # NoFile /\ file' # NoFile /\ op' # "update"
          => file'.header.generation >= file.header.generation

(* Opening a file changes no generation.                                   *)
LEMMA OpenedGeneration ==
    ASSUME NEW f \in File
    PROVE  Opened(f).header.generation = f.header.generation
BY DEF Opened, File, Header

(* Compress, decompress and cast hand the generation on.                   *)
LEMMA ConvertedGeneration ==
    ASSUME NEW f \in File, NEW t \in Types
    PROVE  /\ Compressed(f).header.generation = f.header.generation
           /\ Decompressed(f).header.generation = f.header.generation
           /\ CastTo(f, t).header.generation = f.header.generation
<1>1. \A h \in Header : \A b, c :
          Chunks(h, b, c).header.generation = h.generation
  BY DEF Chunks, Header
<1>2. \A g \in File :
          Compressed(g).header.generation = g.header.generation
  BY <1>1, FileFields DEF Compressed, HeaderOnly
<1>3. Decompressed(f).header.generation = f.header.generation
  BY DEF Decompressed, HeaderOnly, Plain
<1> DEFINE col == Converted(f.cells, t)
           p   == Plain(t, f.header.generation, Nulls(col), TRUE, col)
<1>4. p \in File /\ p.header.generation = f.header.generation
  <2>1. col \in Column /\ Nulls(col) \in Nat
    BY FileFields, ConvertedType, NullsType
  <2>2. SoundFile(p)
    BY <2>1, FileFields, PlainSound
  <2>3. QED
    BY <2>2 DEF SoundFile, Plain
<1>5. Compressed(p).header.generation = f.header.generation
  BY <1>2, <1>4
<1> HIDE DEF col, p
<1>6. CASE t = f.header.type
  BY <1>2, <1>3, <1>6 DEF CastTo
<1>7. CASE t # f.header.type
  <2>1. CastTo(f, t).header.generation = f.header.generation
    BY <1>4, <1>5, <1>7 DEF CastTo, HeaderOnly, p, col
  <2>2. QED
    BY <1>2, <1>3, <2>1
<1>8. QED
  BY <1>6, <1>7

(* An edit in place or in the copy adds one on both sides.                 *)
LEMMA NextGeneration ==
    ASSUME NEW h \in Header, NEW old \in Column, NEW new \in Column
    PROVE  /\ Edited(h, old, new).generation = h.generation + 1
           /\ [h EXCEPT !.generation = @ + 1].generation = h.generation + 1
BY DEF Edited, Header

(* A step that leaves the file under a handle just opened on it.           *)
LEMMA OpenedGoal ==
    ASSUME file' \in File, w' = Opened(file'),
           file # NoFile /\ op' # "update"
              => /\ file \in File
                 /\ file'.header.generation = file.header.generation
    PROVE  GenGoal
<1>1. w'.header.generation = file'.header.generation
  BY OpenedGeneration
<1>2. file # NoFile /\ op' # "update"
          => file'.header.generation >= file.header.generation
  BY FileFields
<1>3. w'.status = "live"
  BY DEF Opened
<1>4. QED
  BY <1>1, <1>2, <1>3 DEF GenGoal, SameGeneration

(* A header one generation on, in handle and file, is a step forward.      *)
LEMMA EditGoal ==
    ASSUME NEW hdr, file \in File, GenInv, w \in Handle,
           w.status = "live" \/ (w.status = "bare" /\ w.working # NoColumn),
           hdr.generation = w.header.generation + 1,
           file'.header = hdr, w'.header = hdr, w'.status = "live"
    PROVE  GenGoal
<1>1. /\ file.header.generation <= w.header.generation
      /\ file.header.generation \in Nat
      /\ w.header.generation \in Nat
  BY FileFields, HandleFields DEF GenInv, SameGeneration
<1>2. file'.header.generation >= file.header.generation
  BY <1>1
<1>3. QED
  BY <1>2 DEF GenGoal, SameGeneration

(* A growth that fails leaves the generation on disk.                      *)
LEMMA GrowthGoal ==
    ASSUME GenInv, LayoutInv', w.status \in {"live", "bare"}, w.working # NoColumn,
           NEW hdr, GrowthFails(hdr), w'.status = "bare",
           w'.header.generation >= w.header.generation,
           w'.header.generation \in Nat
    PROVE  GenGoal
<1>1. /\ file \in File /\ w \in Handle
      /\ file.header.generation <= w.header.generation
      /\ file.header.generation \in Nat
      /\ w.header.generation \in Nat
  BY FileFields, HandleFields, OpenFile
     DEF GenInv, LayoutInv, TypeOK, SameGeneration, SoundFile
<1>2. file'.header = file.header
  BY DEF GrowthFails, Expanded
<1>3. QED
  BY <1>1, <1>2 DEF GenGoal, SameGeneration

(* A file that is left alone keeps its generation.                         *)
LEMMA KeptGoal ==
    ASSUME GenInv, file' = file, w'.status # "live",
           w'.status = "bare" => w'.working = NoColumn
    PROVE  GenGoal
<1>1. file # NoFile => file.header.generation \in Nat
  BY FileFields DEF GenInv, LayoutInv, TypeOK
<1>2. QED
  BY <1>1 DEF GenGoal, SameGeneration

(* Writing moves the generation as it should.                              *)
LEMMA WriteGoal ==
    ASSUME GenInv, LayoutInv', NEW data \in Patches, w.status \in {"live", "bare"},
           WriteWorking(data) \/ WriteMapped(data)
    PROVE  GenGoal
<1>1. LayoutInv
  BY DEF GenInv
<1>2. /\ file \in File /\ file.cells \in Column
      /\ w \in Handle /\ w.header \in Header
      /\ w.working # NoColumn => w.working \in Column
  BY <1>1, OpenFile, HandleFields DEF SoundFile, LayoutInv, TypeOK
<1>4. CASE WriteWorking(data)
  <2> DEFINE new == Patched(w.working, data)
             hdr == Edited(w.header, w.working, new)
  <2>1. w.working \in Column /\ new \in Column
    BY <1>2, <1>4, PatchedType DEF WriteWorking
  <2>2. hdr.generation = w.header.generation + 1
    BY <1>2, <2>1, NextGeneration
  <2>3. /\ w' = [w EXCEPT !.header = hdr, !.working = new, !.modified = TRUE]
        /\ file' = [file EXCEPT !.header = hdr]
    BY <1>4 DEF WriteWorking
  <2> HIDE DEF hdr, new
  <2>4. w'.header = hdr /\ file'.header = hdr /\ w'.status = w.status
    BY <1>2, <2>3 DEF Handle, File
  <2>5. w.status = "live"
    BY <1>1, <1>4 DEF WriteWorking, LayoutInv, LayoutDescribed
  <2>6. QED
    BY <1>2, <2>2, <2>4, <2>5, EditGoal
<1>5. CASE WriteMapped(data)
  <2> DEFINE f   == IF w.working # NoColumn THEN Expanded(w.header) ELSE file
             new == Patched(f.cells, data)
             hdr == IF w.header.hasValidity
                    THEN Edited(w.header, f.cells, new)
                    ELSE [w.header EXCEPT !.generation = @ + 1]
  <2>1. f \in File
    BY <1>1, <1>5, MappedFile DEF WriteMapped
  <2>2. /\ w' = [w EXCEPT !.status = "live", !.header = hdr,
                          !.working = NoColumn, !.modified = TRUE]
        /\ file' = [f EXCEPT !.header = hdr, !.cells = new]
        /\ w.status = "live" \/ w.working # NoColumn
    BY <1>5 DEF WriteMapped
  <2> HIDE DEF f
  <2>3. f.cells \in Column /\ new \in Column
    BY <2>1, FileFields, PatchedType
  <2>4. hdr.generation = w.header.generation + 1
    BY <1>2, <2>3, NextGeneration
  <2> HIDE DEF hdr, new
  <2>5. w'.header = hdr /\ file'.header = hdr /\ w'.status = "live"
    BY <1>2, <2>1, <2>2 DEF Handle, File
  <2>6. QED
    BY <1>2, <2>2, <2>4, <2>5, EditGoal
<1>6. QED
  BY <1>4, <1>5

(* So does an edit of the header.                                          *)
LEMMA UpdateHeaderGoal ==
    ASSUME GenInv, LayoutInv', UpdateHeader
    PROVE  GenGoal
<1>1. LayoutInv /\ w.status \in {"live", "bare"}
  BY DEF GenInv, UpdateHeader
<1>2. file \in File /\ w \in Handle /\ w.header \in Header
  BY <1>1, OpenFile, HandleFields DEF SoundFile, LayoutInv, TypeOK
<1>3. PICK c \in BOOLEAN, v \in BOOLEAN :
         HeaderEdited([w.header EXCEPT !.chunked = c, !.hasValidity = v,
                                       !.generation = @ + 1])
  BY DEF UpdateHeader
<1> DEFINE hdr == [w.header EXCEPT !.chunked = c, !.hasValidity = v,
                                   !.generation = @ + 1]
<1>4. hdr.generation = w.header.generation + 1
  BY <1>2 DEF Header
<1>5. w.header.generation \in Nat
  BY <1>2 DEF Header
<1>6. HeaderEdited(hdr)
  BY <1>3
<1> HIDE DEF hdr
<1>7. ASSUME w.status = "live" \/ w.working # NoColumn, w'.header = hdr,
             w'.status = "live", file'.header = hdr
      PROVE  GenGoal
  BY <1>1, <1>2, <1>4, <1>7, EditGoal
<1>8. ASSUME w' = [w EXCEPT !.status = "live", !.header = hdr, !.modified = TRUE,
                            !.working = IF w.working # NoColumn /\ ~hdr.chunked
                                        THEN NoColumn ELSE @],
             w.status = "live" \/ w.working # NoColumn,
             file' = IF w.working # NoColumn /\ ~hdr.chunked
                     THEN Expanded(hdr) ELSE [file EXCEPT !.header = hdr]
      PROVE  GenGoal
  <2>1. w'.header = hdr /\ w'.status = "live"
    BY <1>2, <1>8 DEF Handle
  <2>2. file'.header = hdr
    BY <1>2, <1>8 DEF File, Expanded
  <2>3. QED
    BY <1>7, <1>8, <2>1, <2>2
<1>9. ASSUME w' = [w EXCEPT !.header = hdr, !.modified = TRUE], file' = file,
             w.status = "bare"
      PROVE  GenGoal
  <2>1. w'.header = hdr /\ w'.working = w.working /\ w'.status = "bare"
    BY <1>2, <1>9 DEF Handle
  <2>2. file.header.generation \in Nat
    BY <1>2, FileFields
  <2>3. QED
    BY <1>4, <1>5, <1>9, <2>1, <2>2 DEF GenGoal, GenInv, SameGeneration
<1>10. ASSUME w.working # NoColumn, GrowthFails(hdr),
              w' = [w EXCEPT !.status = "bare", !.header = hdr, !.modified = TRUE]
       PROVE  GenGoal
  <2>1. w'.header = hdr /\ w'.status = "bare"
    BY <1>2, <1>10 DEF Handle
  <2>2. QED
    BY <1>1, <1>4, <1>5, <1>10, <2>1, GrowthGoal
<1>11. QED
  BY <1>6, <1>8, <1>9, <1>10 DEF HeaderEdited

(* So does every step.                                                     *)
LEMMA GenStep ==
    ASSUME LayoutEdits = FALSE, GenInv, [Next]_vars
    PROVE  GenGoal
<1>1. LayoutInv /\ LayoutInv' /\ TypeOK /\ TypeOK'
  BY LayoutStep DEF GenInv, LayoutInv
<1>2. CASE Create
  <2>1. file' \in File
    BY <1>1, <1>2 DEF Create, Opened, LayoutInv, LayoutDescribed, TypeOK
  <2>2. QED
    BY <1>2, <2>1, OpenedGoal DEF Create
<1>13. ASSUME file # NoFile, w' = Spent(w) \/ w' = Bare(w),
              file' \in File,
              op' # "update" => file'.header.generation = file.header.generation
       PROVE  GenGoal
  <2>1. w'.status # "live" /\ (w'.status = "bare" => w'.working = NoColumn)
    BY <1>1, <1>13, LeftHandle DEF TypeOK
  <2>2. file'.header.generation \in Nat
    BY <1>13, FileFields
  <2>3. QED
    BY <1>13, <2>1, <2>2 DEF GenGoal, SameGeneration
<1>14. ASSUME file # NoFile, Reopened(Spent(w)) \/ Reopened(Bare(w)),
              op' # "update" => file'.header.generation = file.header.generation
       PROVE  GenGoal
  <2>1. w'.status # "closed"
    BY <1>1, <1>14, LeftHandle DEF Reopened, Opened, TypeOK
  <2>2. file \in File /\ file' \in File
    BY <1>1, <1>14, <2>1 DEF TypeOK, LayoutInv, LayoutDescribed
  <2>3. QED
    BY <1>13, <1>14, <2>2, OpenedGoal DEF Reopened
<1>3. CASE Open \/ Rename \/ ConversionFails
  <2>1. file # NoFile /\ file' = file /\ file \in File
    BY <1>1, <1>3, OpenFile DEF Open, Rename, ConversionFails, TypeOK
  <2>2. QED
    BY <1>3, <1>13, <1>14, <2>1, OpenedGoal DEF Open, Rename, ConversionFails
<1>4. CASE Write
  <2>1. w \in Handle /\ w.header.generation \in Nat
        /\ w.status \in {"live", "bare"}
        /\ ClosedHandle.status = "closed"
    BY <1>1, <1>4, HandleFields, ClosedHandleType DEF TypeOK, Write
  <2>2. ASSUME NEW data \in Patches, WriteWorking(data) \/ WriteMapped(data)
        PROVE  GenGoal
    BY <1>1, <2>1, <2>2, WriteGoal
  <2>3. ASSUME w.working # NoColumn, GrowthFails(w.header),
               w' = [w EXCEPT !.status = "bare"]
        PROVE  GenGoal
    <3>1. w'.status = "bare" /\ w'.header = w.header
      BY <2>1, <2>3 DEF Handle
    <3>2. QED
      BY <1>1, <2>1, <2>3, <3>1, GrowthGoal
  <2>4. ASSUME w.status = "bare", file' = file,
               w' = ClosedHandle \/ (w' = w /\ w.working = NoColumn)
        PROVE  GenGoal
    BY <2>1, <2>4, KeptGoal
  <2>5. QED
    BY <1>4, <2>2, <2>3, <2>4 DEF Write, WriteFails
<1>5. CASE Update
  <2>1. file # NoFile
    BY <1>1, <1>5, OpenFile DEF Update
  <2>2. CASE op' = "update" /\ Reopened(Bare(w))
    BY <1>14, <2>1, <2>2
  <2>3. CASE w' = Bare(w) /\ file' = file
    BY <1>1, <1>13, <2>1, <2>3 DEF TypeOK
  <2>4. QED
    BY <1>5, <2>2, <2>3 DEF Update
<1>6. CASE UpdateHeader
  BY <1>1, <1>6, UpdateHeaderGoal
<1>7. CASE Compress \/ Decompress \/ Cast
  <2>1. file \in File /\ file # NoFile
    BY <1>1, <1>7, OpenFile DEF Compress, Decompress, Cast, SoundFile
  <2>2. CASE Reopened(Spent(w)) /\ (\/ file' = Compressed(file)
                                   \/ file' = Decompressed(file)
                                   \/ \E t \in Types : file' = CastTo(file, t))
    <3>1. PICK t0 \in Types : TRUE
      BY FieldAssumption
    <3>2. file'.header.generation = file.header.generation
      BY <2>1, <2>2, <3>1, ConvertedGeneration
    <3>3. QED
      BY <1>14, <2>1, <2>2, <3>2
  <2>3. CASE file' = file /\ w' = Spent(w)
    BY <1>13, <2>1, <2>3
  <2>4. QED
    BY <1>7, <2>2, <2>3 DEF Compress, Decompress, Cast
<1>8. CASE Close
  <2>1. w'.status = "closed"
    BY <1>8 DEF Close, ClosedHandle
  <2>2. CASE Unsaved
    <3>1. file'.header = w.header
      BY <1>8, <2>2 DEF Close
    <3>2. w.header.generation = file.header.generation
      BY <2>2 DEF Unsaved, GenInv, SameGeneration
    <3>3. w.header.generation \in Nat
      BY <1>1, HandleFields DEF TypeOK
    <3>4. QED
      BY <2>1, <3>1, <3>2, <3>3 DEF GenGoal, SameGeneration
  <2>3. CASE ~Unsaved
    BY <1>8, <2>1, <2>3, KeptGoal DEF Close
  <2>4. QED
    BY <2>2, <2>3
<1>9. CASE Drop
  BY <1>9, KeptGoal DEF Drop, ClosedHandle
<1>10. CASE Delete
  BY <1>10 DEF Delete, GenGoal, SameGeneration
<1>11. CASE UNCHANGED vars
  <2>1. file # NoFile => file.header.generation \in Nat
    BY <1>1, FileFields DEF TypeOK
  <2>2. QED
    BY <1>11, <2>1 DEF vars, GenInv, GenGoal, SameGeneration
<1>12. QED
  BY <1>2, <1>3, <1>4, <1>5, <1>6, <1>7, <1>8, <1>9, <1>10, <1>11 DEF Next

(* If no caller edits the layout, no call but update lowers the generation *)
(* of a field (conversions and a write-back on close keep it, edits raise  *)
(* it), whatever fails half way, and the copy of a writer with a mapping   *)
(* is always the one on disk, even after handles were given up with        *)
(* unsaved rows.                                                           *)
THEOREM GenerationAlwaysKept ==
    ASSUME LayoutEdits = FALSE
    PROVE  Spec => GenerationKept
<1>1. Init => GenInv
  BY LayoutInit DEF Init, ClosedHandle, GenInv, SameGeneration
<1>2. GenInv /\ [Next]_vars => GenInv'
  BY LayoutStep, GenStep DEF GenInv, GenGoal
<1>3. GenInv /\ [Next]_vars
         => [ /\ file # NoFile /\ file' # NoFile /\ op' # "update"
                 => file'.header.generation >= file.header.generation
              /\ w'.status = "live"
                 => w'.header.generation = file'.header.generation ]_vars
  BY GenStep DEF GenGoal, SameGeneration
<1>4. QED
  BY <1>1, <1>2, <1>3, PTL DEF Spec, GenerationKept

============================================================================
