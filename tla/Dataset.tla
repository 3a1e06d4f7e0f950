------------------------------ MODULE Dataset ------------------------------
(***************************************************************************)
(* A dataset directory and the handles open on it (splayed-core,           *)
(* dataset.rs): the META file, one file per field, and in every            *)
(* DatasetHandle the META it opened, the schema it last read from the      *)
(* directory and a cache of field handles that are opened on first use and *)
(* only looked up by name afterwards.  Calls that rebuild a field replace  *)
(* its file (a new inode), so a cached handle may go on looking at a file  *)
(* that is no longer in the directory; whoever replaces a file must see to *)
(* its own cache, and the caches of other handles are not told.            *)
(* A column is one value: what a positional write leaves of it is another  *)
(* value.  Which rows it is for is its grid, the content of the META it    *)
(* was written under: two grids may well have as many rows.  Field types   *)
(* and the layouts a field file goes through are the subject of FieldFile, *)
(* the rename protocols of FieldReplace, the grid of MetaIndex.            *)
(***************************************************************************)
EXTENDS FiniteSets

CONSTANTS
    Handles,    \* the DatasetHandles that may be open
    Writers,    \* those opened in write mode
    Names,      \* the fields there can be
    Leaf,       \* Leaf[n]: the file name at the end of the path of field n
    Grids,      \* what a META can hold
    Vals,       \* what a column can hold
    Inodes,     \* bound: the files that exist at a time
    None,       \* no file, no handle, no working copy, no update
    Faults,     \* may a call stop half way?
    Layouts     \* {FALSE} if no field is compressed, else BOOLEAN

ASSUME DatasetAssumption ==
    /\ Writers \subseteq Handles
    /\ DOMAIN Leaf = Names
    /\ None \notin Grids \cup Vals \cup Inodes
    /\ Faults \in BOOLEAN
    /\ Layouts \subseteq BOOLEAN /\ FALSE \in Layouts

Content == [grid : Grids, chunked : BOOLEAN, val : Vals]

(* A cached field handle: the file it maps, and for a compressed field the *)
(* decoded copy, which is all its reads and writes touch.                  *)
Entry == [ino : Inodes, working : Vals \cup {None}, modified : BOOLEAN]

(* An update under way: its columns, and those it has still to replace.    *)
(* History: the columns may not be those of the handle's grid (dated); an  *)
(* update through this handle has failed (failed); the handle has once     *)
(* taken a directory it could not read for an empty one (blind).           *)
Work == [todo : SUBSET Names, data : SUBSET Names]
Handle == [grid : Grids, schema : SUBSET Names,
           cache : [Names -> Entry \cup {None}], update : Work \cup {None},
           dated : BOOLEAN, failed : BOOLEAN, blind : BOOLEAN]

ASSUME NoneAssumption == None \notin Content \cup Entry \cup Work \cup Handle

VARIABLES
    meta,     \* the META file, or None: there is no such directory
    dir,      \* the file at the path of each field, or None
    store,    \* the files that are in the directory or still mapped
    hs,       \* the handles, None when not open
    torn      \* history: an update was left half done and not made good

vars == <<meta, dir, store, hs, torn>>

TypeOK ==
    /\ meta \in Grids \cup {None}
    /\ dir \in [Names -> Inodes \cup {None}]
    /\ store \in [Inodes -> Content \cup {None}]
    /\ hs \in [Handles -> Handle \cup {None}]
    /\ torn \in BOOLEAN

Present(d) == {n \in Names : d[n] # None}
NoCache == [n \in Names |-> None]

Init ==
    /\ meta = None
    /\ dir = NoCache
    /\ store = [i \in Inodes |-> None]
    /\ hs = [h \in Handles |-> None]
    /\ torn = FALSE

----------------------------------------------------------------------------
(* A file lives as long as it has a path or a mapping.                     *)
Used(d, handles) ==
    {i \in Inodes :
        \/ \E n \in Names : d[n] = i
        \/ \E h \in Handles, n \in Names :
              handles[h] # None /\ handles[h].cache[n] # None /\ handles[h].cache[n].ino = i}
Kept(s, d, handles) == [i \in Inodes |-> IF i \in Used(d, handles) THEN s[i] ELSE None]

Free == {i \in Inodes : store[i] = None}

(* Which of the free files are taken does not matter: one choice will do.  *)
Fresh == CHOOSE i \in Free : TRUE
Injective(f) == \A m, n \in DOMAIN f : m # n => f[m] # f[n]
Fresher(S) ==
    LET P == {f \in [S -> Free] : Injective(f)}
    IN  IF P = {} THEN {} ELSE {CHOOSE f \in P : TRUE}

(* open_field_file: a compressed field is decoded at once.                 *)
EntryOf(i) == [ino |-> i, modified |-> FALSE,
               working |-> IF store[i].chunked THEN store[i].val ELSE None]

(* ensure_field: what is cached stays, what is not is opened by its path.  *)
Ensured(h, S) ==
    [n \in Names |-> IF n \in S /\ hs[h].cache[n] = None THEN EntryOf(dir[n])
                     ELSE hs[h].cache[n]]
Openable(h, S) == \A n \in S : hs[h].cache[n] # None \/ dir[n] # None

(* Mutant: the whole cache is cleared.                                     *)
AllEvicted(h, n) == NoCache

(* fields.remove(name): the handle is forgotten, not closed.               *)
Evicted(h, n) == [hs[h].cache EXCEPT ![n] = None]

(* What a read through the handle returns of a field it has open.          *)
View(h, n) ==
    LET e == hs[h].cache[n] IN IF e.working # None THEN e.working ELSE store[e.ino].val

Idle(h) == hs[h] # None /\ hs[h].update = None
Writes(h) == h \in Writers /\ Idle(h)

(* A step that leaves these files, paths and handles behind.               *)
Leaving(s, d, handles) ==
    /\ dir' = d
    /\ hs' = handles
    /\ store' = Kept(s, d, handles)

(* reload_schema: the schema is read from the directory again; if that     *)
(* fails (a directory or a header cannot be read), it is sym and time and  *)
(* nothing else, and the call that asked for it succeeds all the same.     *)
Relisted(handles, h, d) ==
    {[handles EXCEPT ![h].schema = Present(d)]} \cup
    IF Faults THEN {[handles EXCEPT ![h].schema = {}, ![h].blind = TRUE]} ELSE {}

----------------------------------------------------------------------------
(* create_dataset_from_view: all of it or, after an error, nothing (the    *)
(* directory is removed again).  create_dataset, which makes fields of no  *)
(* rows, may stop half way and leaves a dataset of the fields it has made. *)
Create ==
    /\ meta = None
    /\ \E g \in Grids, S \in SUBSET Names, v \in [Names -> Vals], c \in Layouts :
       \E at \in Fresher(S) :
         LET d == [n \in Names |-> IF n \in S THEN at[n] ELSE None]
         IN  /\ meta' = g
             /\ dir' = d
             /\ store' = [i \in Inodes |->
                            IF \E n \in S : at[n] = i
                            THEN [grid |-> g, chunked |-> c,
                                  val |-> v[CHOOSE n \in S : at[n] = i]]
                            ELSE store[i]]
    /\ torn' = FALSE
    /\ UNCHANGED hs

Whole == ~torn /\ \A h \in Handles : hs[h] # None => hs[h].update = None

(* open_dataset: META is mapped, the schema is read from the directory, no *)
(* field is opened.                                                        *)
Open(h) ==
    /\ hs[h] = None
    /\ meta # None
    /\ hs' = [hs EXCEPT ![h] = [grid |-> meta, schema |-> Present(dir), cache |-> NoCache,
                                update |-> None, dated |-> ~Whole, failed |-> FALSE,
                                blind |-> FALSE]]
    /\ UNCHANGED <<meta, dir, store, torn>>

(* read_dataset: of the fields that are missing in the cache all are       *)
(* opened or none.  (scan_dataset opens the fields of its conditions one   *)
(* by one, and a write that finds one missing has opened those before it:  *)
(* to the cache these are reads of fewer fields.)                          *)
Read(h) ==
    /\ Idle(h)
    /\ \E S \in SUBSET hs[h].schema :
          /\ Openable(h, S)
          /\ hs' = [hs EXCEPT ![h].cache = Ensured(h, S)]
    /\ UNCHANGED <<meta, dir, store, torn>>

(* write_dataset pairs cached handles and columns by the file name.        *)
Targets(S, cache) == {n \in Names : cache[n] # None /\ Leaf[n] \in S}

(* The handles write one after the other or in parallel, in no particular  *)
(* order; a field that refuses its column does not undo the others.        *)
Write(h, S, v, done) ==
    LET cache == Ensured(h, S)
        inPlace(i) == {n \in done : cache[n].ino = i /\ cache[n].working = None}
    IN  /\ Writes(h)
        /\ S # {} /\ S \subseteq hs[h].schema
        /\ Openable(h, S)
        /\ done \subseteq Targets(S, cache)
        /\ Faults \/ done = Targets(S, cache)
        /\ hs' = [hs EXCEPT ![h].cache =
                    [n \in Names |->
                       IF n \in done /\ cache[n].working # None
                       THEN [cache[n] EXCEPT !.working = v[Leaf[n]], !.modified = TRUE]
                       ELSE cache[n]]]
        /\ store' = [i \in Inodes |->
                       IF inPlace(i) = {} THEN store[i]
                       ELSE [store[i] EXCEPT !.val = v[Leaf[CHOOSE n \in inPlace(i) : TRUE]]]]
        /\ UNCHANGED <<meta, dir, torn>>

WriteDataset(h) ==
    \E S \in SUBSET Names : \E v \in [S -> Vals], done \in SUBSET Names : Write(h, S, v, done)

(* update_dataset_field_header: a compressed field counts as modified.     *)
UpdateHeader(h) ==
    /\ Writes(h)
    /\ \E n \in hs[h].schema :
         /\ Openable(h, {n})
         /\ hs' = [hs EXCEPT ![h].cache = [Ensured(h, {n}) EXCEPT
                                             ![n].modified = (@ \/ Ensured(h, {n})[n].working # None)]]
    /\ UNCHANGED <<meta, dir, store, torn>>

(* create_dataset_field: what the schema does not know is created; if that *)
(* fails, whatever is at the path is removed, with no look at the cache.   *)
CreateField(h) ==
    /\ Writes(h)
    /\ \E n \in Names \ hs[h].schema, v \in Vals, c \in Layouts :
         IF dir[n] = None
         THEN LET d == [dir EXCEPT ![n] = Fresh]
              IN  /\ Free # {}
                  /\ \E after \in Relisted(hs, h, d) :
                        Leaving([store EXCEPT ![Fresh] =
                                   [grid |-> hs[h].grid, chunked |-> c, val |-> v]],
                                d, after)
         ELSE Leaving(store, [dir EXCEPT ![n] = None], hs)
    /\ UNCHANGED <<meta, torn>>

(* The calls on one field forget its handle, without a close, before they  *)
(* touch the file; an error leaves it at that.                             *)
Forgotten(h, n) == [hs EXCEPT ![h].cache = Evicted(h, n)]
Refused(h, n) ==
    /\ Faults \/ dir[n] = None
    /\ Leaving(store, dir, Forgotten(h, n))

(* Mutant: the schema is not read again.                                   *)
DeleteFieldNoReload(h) ==
    /\ Writes(h)
    /\ \E n \in hs[h].schema :
         \/ Refused(h, n)
         \/ dir[n] # None /\ Leaving(store, [dir EXCEPT ![n] = None], Forgotten(h, n))
    /\ UNCHANGED <<meta, torn>>

(* delete_dataset_field                                                    *)
DeleteField(h) ==
    /\ Writes(h)
    /\ \E n \in hs[h].schema :
         LET d == [dir EXCEPT ![n] = None]
         IN  \/ Refused(h, n)
             \/ /\ dir[n] # None
                /\ \E after \in Relisted(Forgotten(h, n), h, d) : Leaving(store, d, after)
    /\ UNCHANGED <<meta, torn>>

(* rename_dataset_field: a file at the new path that the schema does not   *)
(* know is replaced.                                                       *)
RenameField(h) ==
    /\ Writes(h)
    /\ \E n \in hs[h].schema, m \in Names \ hs[h].schema :
         LET d == [dir EXCEPT ![m] = dir[n], ![n] = None]
         IN  \/ Refused(h, n)
             \/ /\ dir[n] # None
                /\ \E after \in Relisted(Forgotten(h, n), h, d) : Leaving(store, d, after)
    /\ UNCHANGED <<meta, torn>>

(* Mutant: the handle of a field that is rebuilt stays in the cache.       *)
RebuildKept(h, n, c, after) ==
    /\ Free # {}
    /\ dir[n] # None
    /\ Leaving([store EXCEPT ![Fresh] = [store[dir[n]] EXCEPT !.chunked = c]],
               [dir EXCEPT ![n] = Fresh], [after EXCEPT ![h].cache = hs[h].cache])

(* The functions on a path put a new file in the place of the old one.     *)
Rebuild(h, n, c, after) ==
    /\ Free # {}
    /\ dir[n] # None
    /\ Leaving([store EXCEPT ![Fresh] = [store[dir[n]] EXCEPT !.chunked = c]],
               [dir EXCEPT ![n] = Fresh], after)

(* compress_dataset_field, decompress_dataset_field: of a field that is in *)
(* that layout already only the handle is forgotten.                       *)
Convert(h) ==
    /\ Writes(h)
    /\ \E n \in hs[h].schema, c \in Layouts :
         \/ Refused(h, n)
         \/ /\ dir[n] # None /\ store[dir[n]].chunked = c
            /\ Leaving(store, dir, Forgotten(h, n))
         \/ /\ dir[n] # None /\ store[dir[n]].chunked # c
            /\ Rebuild(h, n, c, Forgotten(h, n))
    /\ UNCHANGED <<meta, torn>>

(* cast_dataset_field: a cast to the type it has leaves the file alone.    *)
(* The schema is read again.                                               *)
CastField(h) ==
    /\ Writes(h)
    /\ \E n \in hs[h].schema :
         \/ Refused(h, n)
         \/ /\ dir[n] # None
            /\ \E after \in Relisted(Forgotten(h, n), h, dir) :
                  \/ Leaving(store, dir, after)
                  \/ Rebuild(h, n, store[dir[n]].chunked, after)
    /\ UNCHANGED <<meta, torn>>

(* update_dataset.  META first: it is replaced and mapped again, and all   *)
(* field handles are forgotten.                                            *)
UpdateBegin(h) ==
    /\ Writes(h)
    /\ \E g \in Grids, data \in SUBSET Names :
         /\ meta' = g
         /\ Leaving(store, dir,
                    [k \in Handles |->
                       IF hs[k] = None THEN None
                       ELSE IF k # h THEN [hs[k] EXCEPT !.dated = TRUE]
                       ELSE [hs[h] EXCEPT !.grid = g, !.cache = NoCache,
                                          !.update = [todo |-> data, data |-> data]]])
    /\ UNCHANGED torn

(* Then column by column, old or new: an uncompressed file.                *)
UpdateColumn(h) ==
    /\ hs[h] # None /\ hs[h].update # None
    /\ Free # {}
    /\ \E n \in hs[h].update.todo, v \in Vals :
         LET d == [dir EXCEPT ![n] = Fresh]
         IN  Leaving([store EXCEPT ![Fresh] =
                        [grid |-> hs[h].grid, chunked |-> FALSE, val |-> v]],
                     d, [hs EXCEPT ![h].update.todo = @ \ {n}])
    /\ UNCHANGED <<meta, torn>>

(* Mutant: the columns that are not in the data stay.                      *)
UpdateEndUnpruned(h) ==
    /\ hs[h] # None /\ hs[h].update # None /\ hs[h].update.todo = {}
    /\ hs' = [hs EXCEPT ![h].schema = Present(dir), ![h].update = None,
                        ![h].dated = hs[h].failed]
    /\ torn' = hs[h].failed
    /\ UNCHANGED <<meta, dir, store>>

(* Then the columns of the old schema that are not in the data are removed *)
(* and the schema is read again.  That a column could not be removed is no *)
(* error (left), and what an old schema does not list is not removed: the  *)
(* update succeeds, and is only half done.                                 *)
UpdateEnd(h) ==
    /\ hs[h] # None /\ hs[h].update # None /\ hs[h].update.todo = {}
    /\ \E left \in SUBSET Names :
         LET old  == hs[h].schema \ hs[h].update.data
             d    == [n \in Names |-> IF n \in old \ left THEN None ELSE dir[n]]
             half == hs[h].failed \/ hs[h].blind \/ left # {}
         IN  /\ left \subseteq old \cap Present(dir)
             /\ Faults \/ left = {}
             /\ \E after \in Relisted([hs EXCEPT ![h].update = None,
                                                ![h].dated = half], h, d) :
                   Leaving(store, d, after)
             /\ torn' = half
    /\ UNCHANGED meta

(* An error in a column ends the call; the schema stays the old one.  (The *)
(* half written file a new column may leave is not modelled.)              *)
UpdateFails(h) ==
    /\ Faults
    /\ hs[h] # None /\ hs[h].update # None /\ hs[h].update.todo # {}
    /\ hs' = [hs EXCEPT ![h].update = None, ![h].dated = TRUE, ![h].failed = TRUE]
    /\ torn' = TRUE
    /\ UNCHANGED <<meta, dir, store>>

Unsaved(h) == {n \in Names : hs[h].cache[n] # None /\ hs[h].cache[n].modified}

(* close_dataset closes one field handle after the other: those modified   *)
(* write their copy to their path; the first error drops the rest.         *)
Close(h) ==
    /\ Idle(h)
    /\ \E saved \in SUBSET Unsaved(h) : \E at \in Fresher(saved) :
         LET d  == [n \in Names |-> IF n \in saved THEN at[n] ELSE dir[n]]
             s  == [i \in Inodes |->
                      IF \E n \in saved : at[n] = i
                      THEN LET e == hs[h].cache[CHOOSE n \in saved : at[n] = i]
                           IN  [store[e.ino] EXCEPT !.val = e.working]
                      ELSE store[i]]
         IN  /\ Faults \/ saved = Unsaved(h)
             /\ Leaving(s, d, [hs EXCEPT ![h] = None])
    /\ UNCHANGED <<meta, torn>>

(* The process ends, or the handle goes out of scope: nothing is saved.    *)
Drop(h) ==
    /\ hs[h] # None
    /\ Leaving(store, dir, [hs EXCEPT ![h] = None])
    /\ torn' = (torn \/ hs[h].update # None)
    /\ UNCHANGED meta

(* delete_dataset removes the directory, whoever reads files of it;        *)
(* drop_dataset and DatasetWriter::remove close the writing handle first.  *)
Delete ==
    /\ meta # None
    /\ \A h \in Writers : hs[h] = None
    /\ meta' = None
    /\ Leaving(store, NoCache,
               [h \in Handles |-> IF hs[h] = None THEN None ELSE [hs[h] EXCEPT !.dated = TRUE]])
    /\ torn' = FALSE

Calls(h) ==
    \/ Open(h) \/ Read(h) \/ WriteDataset(h) \/ UpdateHeader(h)
    \/ CreateField(h) \/ DeleteField(h) \/ RenameField(h)
    \/ Convert(h) \/ CastField(h)
    \/ UpdateBegin(h) \/ UpdateColumn(h) \/ UpdateEnd(h) \/ UpdateFails(h)
    \/ Close(h) \/ Drop(h)

Next == Create \/ Delete \/ \E h \in Handles : Calls(h)

Spec == Init /\ [][Next]_vars

----------------------------------------------------------------------------
(* INVARIANT: whatever a writer has in its cache is the file at the path   *)
(* of that field, with a decoded copy exactly if the file is compressed:   *)
(* every call that replaces, moves or removes a file sees to the cache, so *)
(* no write goes to a file that is not in the directory any more.  Not so  *)
(* of a writer that has once failed to read the directory (blind): it may  *)
(* create a field that is there and cached, and so remove the file.        *)
CacheOnPath ==
    \A h \in Writers, n \in Names :
        hs[h] # None /\ hs[h].cache[n] # None /\ ~hs[h].blind =>
            /\ dir[n] = hs[h].cache[n].ino
            /\ (hs[h].cache[n].working # None) = store[dir[n]].chunked

(* INVARIANT: unless an update through it has failed, the schema a writer  *)
(* answers with is the list of the field files there are, in a state of    *)
(* the right shape (build_schema, create, delete and rename of fields); or *)
(* it is empty, and a call that could not read the directory has made it   *)
(* so without a word (reload_schema).  It is never a list that is wrong in *)
(* another way, also after a blind writer has made or removed a field.     *)
SchemaOnDisk ==
    /\ TypeOK
    /\ \A h \in Writers :
         Idle(h) /\ ~hs[h].failed =>
            \/ hs[h].schema = Present(dir)
            \/ hs[h].blind /\ hs[h].schema = {}

(* INVARIANT: a handle that saw no update of another handle, and that was  *)
(* not opened on the remains of one, finds the rows of its own META in     *)
(* every file it has open or may still open, whatever fields were created, *)
(* moved and rebuilt since; an update that removes all the columns it does *)
(* not bring (half is FALSE) makes good one that was left half done before *)
(* the writer was opened.                                                  *)
RowsAligned ==
    \A h \in Handles :
        Idle(h) /\ ~hs[h].dated =>
            /\ hs[h].grid = meta
            /\ \A n \in Names :
                 /\ dir[n] # None => store[dir[n]].grid = meta
                 /\ hs[h].cache[n] # None => store[hs[h].cache[n].ino].grid = meta

(* REFINEMENT: with one writer, flat field names and no failing call, a    *)
(* dataset is a set of named columns with drafts: every call changes the   *)
(* fields it names and no other.                                           *)
TheWriter == CHOOSE h \in Writers : TRUE
Columns == INSTANCE DatasetColumns WITH
    stored <- [n \in Names |-> IF dir[n] = None THEN None ELSE store[dir[n]].val],
    draft  <- [n \in Names |->
                 IF hs[TheWriter] # None /\ n \in Unsaved(TheWriter)
                 THEN hs[TheWriter].cache[n].working ELSE None]
DatasetIsColumns == Columns!ColsSpec
============================================================================
