----------------------------- MODULE FieldFile -----------------------------
(***************************************************************************)
(* One field file of a dataset and the one FieldWriter on it               *)
(* (splayed-core, field_file.rs).  A field is laid out in one of three     *)
(* ways, and a writer treats each differently:                             *)
(*   "none"    64 bytes of header only: every row reads as NULL;           *)
(*   "plain"   values and an optional validity region, edited in place     *)
(*             through a shared mapping;                                   *)
(*   "chunks"  a compressed chunk sequence, edited in a decoded copy that  *)
(*             close encodes again.                                        *)
(* The header is in the mapping in every layout, so a write stores its     *)
(* counters at once, even when the rows wait for close.                    *)
(* A call is one step, which the file system may refuse in the middle      *)
(* (Fails); crashes inside a call are the subject of FieldReplace.  Two    *)
(* writers on one file are outside this module.                            *)
(***************************************************************************)
EXTENDS ColumnData

CONSTANTS
    NoFile,       \* the path does not exist
    MaxGen,       \* bound: no edit once the generation has reached it
    Drops,        \* may a handle be given up with unsaved rows in it?
    Fails,        \* may renaming, reopening or growing a file fail?
    Sliced,       \* may a new column be a view that starts inside its bitmap?
    LayoutEdits   \* may update_header be given another layout?

ASSUME FieldAssumption ==
    /\ Types # {}
    /\ MaxGen \in Nat
    /\ Drops \in BOOLEAN
    /\ Fails \in BOOLEAN
    /\ Sliced \in BOOLEAN
    /\ LayoutEdits \in BOOLEAN

Header == [type : Types, chunked : BOOLEAN, hasValidity : BOOLEAN,
           nullCount : Nat, generation : Nat]

(* bits: a validity region (plain) or validity bits in the chunks exist.   *)
File == [header : Header, body : {"none", "plain", "chunks"},
         bits : BOOLEAN, cells : Column]

ASSUME NoFileAssumption == NoFile \notin File

(* working: the decoded copy of a compressed field, the zeros of a         *)
(* header-only one, else NoColumn.  A failed conversion leaves a "spent"   *)
(* handle: read mode, no mapping, no working copy.  A failed update, or a  *)
(* growth that fails, leaves a "bare" one: write mode, but no mapping.     *)
Handle == [status : {"closed", "live", "spent", "bare"}, header : Header,
           working : Column \cup {NoColumn}, modified : BOOLEAN]

Calls == {"none", "create", "open", "write", "update", "update_header",
          "compress", "decompress", "cast", "rename", "close", "drop", "delete",
          "failed", "panic"}

VARIABLES
    file,     \* the file at the field's path, or NoFile
    w,        \* the writer's handle
    op        \* history: the call made last, "failed" if it returned an
              \* error with the file unreplaced, "panic" if it panicked

vars == <<file, w, op>>

TypeOK ==
    /\ file \in File \cup {NoFile}
    /\ w \in Handle
    /\ op \in Calls

BlankHeader == [type |-> CHOOSE t \in Types : TRUE, chunked |-> FALSE,
                hasValidity |-> FALSE, nullCount |-> 0, generation |-> 0]
ClosedHandle == [status |-> "closed", header |-> BlankHeader,
                 working |-> NoColumn, modified |-> FALSE]

----------------------------------------------------------------------------
(* Files the functions on paths produce.                                   *)

HeaderOnly(t, chunked, nulls, gen) ==
    [header |-> [type |-> t, chunked |-> chunked, hasValidity |-> TRUE,
                 nullCount |-> nulls, generation |-> gen],
     body |-> "none", bits |-> FALSE, cells |-> AllNull]

Plain(t, gen, nulls, bits, col) ==
    [header |-> [type |-> t, chunked |-> FALSE, hasValidity |-> bits,
                 nullCount |-> nulls, generation |-> gen],
     body |-> "plain", bits |-> bits, cells |-> col]

(* The header of a chunked file says nothing of validity: chunks do.       *)
Chunks(hdr, bits, col) ==
    [header |-> [hdr EXCEPT !.chunked = TRUE, !.hasValidity = FALSE],
     body |-> "chunks", bits |-> bits, cells |-> col]

(* The column that bits hidden in the bitmap before the first row of a     *)
(* view make of it when the bitmap is written from its first bit on: the   *)
(* values stay, the validity moves down, and a cell that turns valid shows *)
(* the value it had under its NULL.                                        *)
Shifted(col, hidden, under) ==
    [i \in Rows |->
        LET valid == IF i \in DOMAIN hidden THEN hidden[i]
                     ELSE col[i - Cardinality(DOMAIN hidden)] # NULL
        IN  IF ~valid THEN NULL ELSE IF col[i] = NULL THEN under ELSE col[i]]

(* create_field_file_view_plain with a view of one segment: the bitmap is  *)
(* written as it is (as_raw), wherever the view starts in it; a source     *)
(* without a bitmap, or whose view starts at its first bit, comes out      *)
(* right.                                                                  *)
PlainCells(col, bitmap) ==
    {col} \cup
    IF Sliced /\ bitmap
    THEN {Shifted(col, hidden, under) :
             hidden \in UNION {[1 .. k -> BOOLEAN] : k \in Rows}, under \in Values}
    ELSE {}

(* create_field_file_from_view: an all-NULL column is written as a header  *)
(* alone; bitmap tells whether the source carries one.  The count is that  *)
(* of the view, the cells of an uncompressed file are what was written.    *)
Created(t, col, cells, compressed, bitmap) ==
    IF col = AllNull
    THEN HeaderOnly(t, compressed, N, 1)
    ELSE LET p == Plain(t, 1, Nulls(col), bitmap, cells)
         IN  IF compressed THEN Chunks(p.header, bitmap, col) ELSE p

(* compress_field_file_encoded: whatever the header counts as all NULL     *)
(* becomes a header alone, its data is not looked at.                      *)
Compressed(f) ==
    IF f.body = "none" \/ f.header.nullCount = N
    THEN HeaderOnly(f.header.type, TRUE, f.header.nullCount, f.header.generation)
    ELSE Chunks(f.header, f.bits, f.cells)

(* decompress_field_file: the counters of the header are taken over.       *)
Decompressed(f) ==
    LET h == f.header
    IN  IF f.body = "none"
        THEN HeaderOnly(h.type, FALSE, h.nullCount, h.generation)
        ELSE Plain(h.type, h.generation, h.nullCount, f.bits, f.cells)

(* Mutant: cast leaves the generation create_field_file gave the new file. *)
CastFromOne(f, t) ==
    LET p == Plain(t, 1, Nulls(f.cells), TRUE, Converted(f.cells, t))
    IN  CASE t = f.header.type -> f
          [] t # f.header.type /\ f.body = "none"
                               -> HeaderOnly(t, f.header.chunked, N, 1)
          [] t # f.header.type /\ f.body # "none"
                               -> IF f.header.chunked THEN Compressed(p) ELSE p

(* cast_field_file: the rows are streamed into a new file that always has  *)
(* a validity region and a fresh count; the layout and the generation of   *)
(* the source are kept.                                                    *)
CastTo(f, t) ==
    LET h   == f.header
        col == Converted(f.cells, t)
        p   == Plain(t, h.generation, Nulls(col), TRUE, col)
    IN  CASE t = h.type      -> f
          [] t # h.type /\ f.body = "none"
                             -> HeaderOnly(t, h.chunked, N, h.generation)
          [] t # h.type /\ f.body # "none"
                             -> IF h.chunked THEN Compressed(p) ELSE p

(* Mutants: open believes the count on disk of chunks, too; open builds a  *)
(* working copy of chunks only, not of a header-only file.                 *)
OpenedTrusting(f) ==
    [status  |-> "live", header |-> f.header,
     working |-> IF f.body = "none" \/ f.header.chunked THEN f.cells ELSE NoColumn,
     modified |-> FALSE]

OpenedChunksOnly(f) ==
    [status  |-> "live",
     header  |-> IF f.body = "chunks" THEN [f.header EXCEPT !.nullCount = Nulls(f.cells)]
                                      ELSE f.header,
     working |-> IF f.header.chunked THEN f.cells ELSE NoColumn,
     modified |-> FALSE]

(* open_field_file, write mode: chunks are decoded and their NULLs counted *)
(* anew; of a plain or a header-only file the count on disk is believed.   *)
Opened(f) ==
    [status  |-> "live",
     header  |-> IF f.body = "chunks" /\ f.header.chunked
                 THEN [f.header EXCEPT !.nullCount = Nulls(f.cells)]
                 ELSE f.header,
     working |-> IF f.body = "none" \/ f.header.chunked THEN f.cells ELSE NoColumn,
     modified |-> FALSE]

(* rename, cast, compress and decompress of a writer give up the mapping   *)
(* and the working copy before they call the function on the path.         *)
Spent(h) == [h EXCEPT !.status = "spent", !.working = NoColumn]

(* update_field gives them up too, but stays in write mode.                *)
Bare(h) == [h EXCEPT !.status = "bare", !.working = NoColumn]

(* A function on the path has replaced the file: the writer opens it       *)
(* again, or is left without it.                                           *)
Reopened(left) == w' = Opened(file') \/ (Fails /\ w' = left)

(* Mutant: the grown file reads as zeros, not as NULLs.                    *)
ExpandedValid(hdr) ==
    [header |-> hdr, body |-> "plain", bits |-> hdr.hasValidity, cells |-> AllZero]

(* expand_header_only_file: zeros, and a validity region (all NULL) if the *)
(* header has one.                                                         *)
Expanded(hdr) ==
    [header |-> hdr, body |-> "plain", bits |-> hdr.hasValidity,
     cells |-> IF hdr.hasValidity THEN AllNull ELSE AllZero]

----------------------------------------------------------------------------
(* Rows a writer holds that only close would store.                        *)
Unsaved == w.status = "live" /\ w.header.chunked /\ w.modified

MayGiveUp == Drops \/ ~Unsaved

Init == file = NoFile /\ w = ClosedHandle /\ op = "none"

(* FieldWriter::create / init_empty / init: the path must not exist.       *)
Create ==
    /\ op' = "create"
    /\ file = NoFile
    /\ \E t \in Types, compressed, bitmap \in BOOLEAN, col \in Column :
          /\ NullRows(col) # {} => bitmap
          /\ \E cells \in PlainCells(col, bitmap) :
                file' = Created(t, col, cells, compressed, bitmap)
    /\ w' = Opened(file')

Open ==
    /\ op' = "open"
    /\ file # NoFile
    /\ w.status = "closed"
    /\ w' = Opened(file)
    /\ UNCHANGED file

(* Mutants: the change is taken the wrong way round; no floor at zero.     *)
CountReversed(hdr, old, new) ==
    LET n == hdr.nullCount + Nulls(old) - Nulls(new) IN IF n < 0 THEN 0 ELSE n
CountUnfloored(hdr, old, new) == hdr.nullCount + Nulls(new) - Nulls(old)

(* header.null_count moves by the change of set bits in the written run.   *)
CountAfter(hdr, old, new) ==
    LET n == hdr.nullCount + Nulls(new) - Nulls(old) IN IF n < 0 THEN 0 ELSE n

Edited(hdr, old, new) ==
    [hdr EXCEPT !.nullCount  = CountAfter(hdr, old, new),
                !.generation = @ + 1]

(* write_into_working: the rows change in the copy, the header on disk.    *)
WriteWorking(data) ==
    LET new == Patched(w.working, data)
        hdr == Edited(w.header, w.working, new)
    IN  /\ w.header.chunked
        /\ w.working # NoColumn
        /\ w' = [w EXCEPT !.header = hdr, !.working = new, !.modified = TRUE]
        /\ file' = [file EXCEPT !.header = hdr]

(* write_into_mmap, after expand_header_only_file if the file was a header *)
(* alone, also where that has failed before: a field without a validity    *)
(* region takes no NULL.                                                   *)
WriteMapped(data) ==
    LET f   == IF w.working # NoColumn THEN Expanded(w.header) ELSE file
        new == Patched(f.cells, data)
        hdr == IF w.header.hasValidity
               THEN Edited(w.header, f.cells, new)
               ELSE [w.header EXCEPT !.generation = @ + 1]
    IN  /\ ~w.header.chunked
        /\ w.status = "live" \/ w.working # NoColumn
        /\ w.header.hasValidity \/ \A i \in DOMAIN data : data[i] # NULL
        /\ w' = [w EXCEPT !.status = "live", !.header = hdr,
                          !.working = NoColumn, !.modified = TRUE]
        /\ file' = [f EXCEPT !.header = hdr, !.cells = new]

(* expand_header_only_file unmaps the file first; then opening it, growing *)
(* it or mapping it again fails: it has grown or not, its header is as it  *)
(* was, and the copy of zeros stays for the next try.                      *)
GrowthFails(hdr) ==
    /\ Fails
    /\ op' = "failed"
    /\ file' \in {file, [Expanded(hdr) EXCEPT !.header = file.header]}

(* Without a mapping a plain field reports an error; the decoded copy of a *)
(* compressed one is unwrapped and is not there: a panic, which takes the  *)
(* handle with it.                                                         *)
WriteFails ==
    \/ /\ ~w.header.chunked /\ w.working # NoColumn
       /\ GrowthFails(w.header)
       /\ w' = [w EXCEPT !.status = "bare"]
    \/ /\ w.status = "bare" /\ ~w.header.chunked /\ w.working = NoColumn
       /\ op' = "failed"
       /\ UNCHANGED <<file, w>>
    \/ /\ w.status = "bare" /\ w.header.chunked
       /\ op' = "panic"
       /\ w' = ClosedHandle
       /\ UNCHANGED file

Write ==
    /\ w.status \in {"live", "bare"}
    /\ w.header.generation < MaxGen
    /\ \/ /\ op' = "write"
          /\ \E data \in Patches : WriteWorking(data) \/ WriteMapped(data)
       \/ WriteFails

(* update_field: a new uncompressed file takes the place of the old one.   *)
(* The mapping and the decoded copy go before the rename and the opening   *)
(* that may fail, and the handle stays in write mode.  (If the new file    *)
(* cannot be written, nothing has changed yet.)                            *)
Update ==
    /\ w.status \in {"live", "bare"}
    /\ MayGiveUp
    /\ \/ /\ op' = "update"
          /\ \E bitmap \in BOOLEAN, col \in Column :
                /\ NullRows(col) # {} => bitmap
                /\ \E cells \in PlainCells(col, bitmap) :
                      file' = Created(w.header.type, col, cells, FALSE, bitmap)
          /\ Reopened(Bare(w))
       \/ /\ op' = "failed"
          /\ Fails
          /\ w' = Bare(w)
          /\ UNCHANGED file

(* The header is changed in the writer; then a header-only plain file is   *)
(* grown, which may fail, and the header goes to the mapping, if any.      *)
HeaderEdited(hdr) ==
    LET grow == w.working # NoColumn /\ ~hdr.chunked
    IN  \/ /\ op' = "update_header"
           /\ w.status = "live" \/ grow
           /\ w' = [w EXCEPT !.status = "live", !.header = hdr, !.modified = TRUE,
                             !.working = IF grow THEN NoColumn ELSE @]
           /\ file' = IF grow THEN Expanded(hdr) ELSE [file EXCEPT !.header = hdr]
        \/ /\ op' = "update_header"
           /\ w.status = "bare" /\ ~grow
           /\ w' = [w EXCEPT !.header = hdr, !.modified = TRUE]
           /\ UNCHANGED file
        \/ /\ grow /\ GrowthFails(hdr)
           /\ w' = [w EXCEPT !.status = "bare", !.header = hdr, !.modified = TRUE]

(* update_header: type, rows and null_count are kept, the layout fields    *)
(* are what the caller passes, compared to nothing.  What follows an edit  *)
(* of the layout is not modelled: every run and every theorem has          *)
(* LayoutEdits = FALSE.                                                    *)
UpdateHeader ==
    /\ w.status \in {"live", "bare"}
    /\ w.header.generation < MaxGen
    /\ \E c, v \in BOOLEAN :
          /\ LayoutEdits \/ (c = w.header.chunked /\ v = w.header.hasValidity)
          /\ HeaderEdited([w.header EXCEPT !.chunked = c, !.hasValidity = v,
                                           !.generation = @ + 1])

(* FieldWriter::compress, decompress, cast, rename: the function on the    *)
(* path, then open again.  Compressing what is compressed, decompressing   *)
(* what is not: an error, and the handle is left spent, as it is when the  *)
(* file cannot be replaced (ConversionFails) or not opened again.          *)
Compress ==
    /\ op' = "compress"
    /\ w.status # "closed"
    /\ MayGiveUp
    /\ \/ /\ ~file.header.chunked
          /\ file' = Compressed(file)
          /\ Reopened(Spent(w))
       \/ /\ file.header.chunked
          /\ w' = Spent(w)
          /\ UNCHANGED file

Decompress ==
    /\ op' = "decompress"
    /\ w.status # "closed"
    /\ MayGiveUp
    /\ \/ /\ file.header.chunked
          /\ file' = Decompressed(file)
          /\ Reopened(Spent(w))
       \/ /\ ~file.header.chunked
          /\ w' = Spent(w)
          /\ UNCHANGED file

Cast ==
    /\ op' = "cast"
    /\ w.status # "closed"
    /\ MayGiveUp
    /\ \E t \in Types : file' = CastTo(file, t)
    /\ Reopened(Spent(w))

(* The name is not modelled: the file goes with it.                        *)
Rename ==
    /\ op' = "rename"
    /\ w.status # "closed"
    /\ MayGiveUp
    /\ UNCHANGED file
    /\ Reopened(Spent(w))

ConversionFails ==
    /\ op' = "failed"
    /\ Fails
    /\ w.status # "closed"
    /\ MayGiveUp
    /\ w' = Spent(w)
    /\ UNCHANGED file

(* close_field_handle: only a modified compressed field is written back,   *)
(* from a decoded copy that a handle left bare does not have.              *)
Close ==
    /\ w.status # "closed"
    /\ w' = ClosedHandle
    /\ \/ /\ op' = "close"
          /\ Unsaved
          /\ file' = [header |-> w.header, body |-> "chunks", bits |-> TRUE,
                      cells |-> w.working]
       \/ /\ op' = IF w.status = "bare" /\ w.header.chunked /\ w.modified
                   THEN "panic" ELSE "close"
          /\ ~Unsaved
          /\ UNCHANGED file

(* The handle goes out of scope without a close, which saves nothing: the  *)
(* process ends, a close fails, or a DatasetHandle converts, renames or    *)
(* deletes the field and just forgets the handle it had cached.            *)
Drop ==
    /\ op' = "drop"
    /\ Drops
    /\ w.status # "closed"
    /\ w' = ClosedHandle
    /\ UNCHANGED file

(* FieldWriter::remove closes first.                                       *)
Delete ==
    /\ op' = "delete"
    /\ file # NoFile
    /\ w.status = "closed"
    /\ file' = NoFile
    /\ UNCHANGED w

Next ==
    \/ Create \/ Open \/ Write \/ Update \/ UpdateHeader
    \/ Compress \/ Decompress \/ Cast \/ Rename \/ ConversionFails
    \/ Close \/ Drop \/ Delete

Spec == Init /\ [][Next]_vars

----------------------------------------------------------------------------
(* The layout a header describes is the layout of the file: chunks exactly *)
(* if it says so, a validity region exactly if it says so; a header-only   *)
(* file announces validity, so that growing it yields NULLs.               *)
Describes(hdr, f) ==
    /\ f.body = "plain"  => ~hdr.chunked /\ hdr.hasValidity = f.bits
    /\ f.body = "chunks" => hdr.chunked
    /\ f.body = "none"   => hdr.hasValidity

(* INVARIANT: through every sequence of conversions, edits, failures and   *)
(* lost handles, the header on disk describes the file; of a writer with a *)
(* mapping so does its copy of the header, and it has a decoded copy       *)
(* exactly when its next write or close will unwrap one.  So the two       *)
(* `expect`s in write_into_working and close_field_handle (field_file.rs   *)
(* 1257, 1447) fail in no handle but one an update left without a mapping  *)
(* (a "panic" of those does happen); of these only a field that is not     *)
(* compressed may have a copy left.                                        *)
LayoutDescribed ==
    /\ file # NoFile => Describes(file.header, file)
    /\ w.status # "closed" => file # NoFile
    /\ w.status = "live" =>
         /\ Describes(w.header, file)
         /\ (w.working # NoColumn) <=> (w.header.chunked \/ file.body = "none")
    /\ w.status = "bare" /\ w.working # NoColumn => ~w.header.chunked

(* INVARIANT: the null_count a writer of compressed chunks keeps is the    *)
(* number of NULLs in its decoded copy, whatever the header on disk said   *)
(* when it was opened (open_field_file counts anew).                       *)
WorkingCountExact ==
    w.status = "live" /\ file.body = "chunks" /\ w.header.chunked
        => w.header.nullCount = Nulls(w.working)

(* INVARIANT: as long as no handle is given up with unsaved rows and every *)
(* new column starts at the first bit of its bitmap, the null_count on     *)
(* disk is the number of NULL rows on disk, in every layout, after every   *)
(* conversion and every failure; a file without validity bits has no NULL. *)
(* With Sliced the code breaks it: create counts the NULLs of the view but *)
(* writes the bits from the start of the bitmap.                           *)
NullCountExact ==
    file # NoFile =>
        /\ ~Unsaved => file.header.nullCount = Nulls(file.cells)
        /\ file.body # "none" /\ ~file.bits => NullRows(file.cells) = {}

(* ACTION PROPERTY: no call but update lowers the generation of a field,   *)
(* and the copy of a writer with a mapping is that of the file (one left   *)
(* bare may have counted an update_header that never reached the file):    *)
(* the doc's "strictly increasing" as far as the code keeps it.            *)
GenerationKept ==
    [][ /\ file # NoFile /\ file' # NoFile /\ op' # "update"
           => file'.header.generation >= file.header.generation
        /\ w'.status = "live"
           => w'.header.generation = file'.header.generation ]_vars

(* REFINEMENT: as long as no handle is given up with unsaved rows and      *)
(* every new column starts at the first bit of its bitmap, the file and    *)
(* its writer are a column with at most one draft: conversions between the *)
(* layouts, header edits, growing a header-only file, reopening and calls  *)
(* that fail never change what is stored, and close publishes the draft.   *)
Col == INSTANCE FieldColumn WITH
           dtype  <- IF file = NoFile THEN NoColumn ELSE file.header.type,
           stored <- IF file = NoFile THEN NoColumn ELSE file.cells,
           draft  <- IF Unsaved THEN w.working ELSE NoColumn
FieldIsColumn == Col!ColSpec
============================================================================
