--------------------------- MODULE Dataset_proofs ---------------------------
(***************************************************************************)
(* The cache, the schema and the rows of a dataset with one writer and any *)
(* number of readers, for any fields, indexes, columns and files, whatever *)
(* calls fail half way.                                                    *)
(*                                                                         *)
(* The three invariants need each other: that a file written back lands on *)
(* rows of the index needs the cache to be on the path; that an update     *)
(* leaves no file of an older index needs the schema to list what was      *)
(* there before; and that the schema is right after a call needs the cache *)
(* to hold only what it lists.  What joins them is what is known while an  *)
(* update is under way, and of a dataset that one has left half done.      *)
(***************************************************************************)
EXTENDS Dataset, TLAPS

(* There is at most one writer.                                            *)
OneWriter == \A g, h \in Writers : g = h

(* Every path leads to a file of its own; with no update under way or left *)
(* half done, all files are for the index of META.                         *)
Apart(d) == \A m, n \in Names : d[m] # None /\ d[m] = d[n] => m = n
Clean == \A n \in Names : dir[n] # None => store[dir[n]].grid = meta

DirInv ==
    /\ \A n \in Names : dir[n] # None => store[dir[n]] # None
    /\ Apart(dir)
    /\ Whole => Clean
    /\ meta = None => dir = NoCache

(* The cache of any handle: a handle that saw no update has files for its  *)
(* own index only.                                                         *)
CachedOk(h) ==
    \A n \in Names : hs[h].cache[n] # None =>
        /\ store[hs[h].cache[n].ino] # None
        /\ hs[h].cache[n].modified => hs[h].cache[n].working # None
        /\ ~hs[h].dated => store[hs[h].cache[n].ino].grid = meta

(* A handle counts as one that saw no update only while there is none to   *)
(* see.                                                                    *)
DatedOk(h) == ~hs[h].dated => /\ hs[h].grid = meta /\ meta # None
                              /\ hs[h].update = None => Whole

(* Readers keep nothing back and update nothing.                           *)
ReaderOk(h) ==
    /\ hs[h].update = None
    /\ \A n \in Names : hs[h].cache[n] # None => ~hs[h].cache[n].modified

(* The writer has cached files that are on their path and in its schema,   *)
(* which is the directory, or it is blind.                                 *)
OnPath(h) ==
    \A n \in Names : hs[h].cache[n] # None =>
        /\ dir[n] = hs[h].cache[n].ino
        /\ (hs[h].cache[n].working # None) = store[dir[n]].chunked
        /\ n \in hs[h].schema

Listed(h) == hs[h].update = None /\ ~hs[h].failed =>
                \/ hs[h].schema = Present(dir)
                \/ hs[h].blind /\ hs[h].schema = {}

(* Amid an update nothing is cached, what is there was listed or has been  *)
(* written by the update, and what it has written is for the new index.    *)
Written(h) == hs[h].update.data \ hs[h].update.todo
UpdateOk(h) ==
    hs[h].update # None =>
        /\ hs[h].cache = NoCache
        /\ hs[h].update.todo \subseteq hs[h].update.data
        /\ ~hs[h].failed /\ ~hs[h].blind
              => Present(dir) \subseteq hs[h].schema \cup Written(h)
        /\ \A n \in Written(h) : dir[n] # None => store[dir[n]].grid = meta

(* Whether its files may be for another index is then known of the dataset *)
(* as a whole, so that what a blind writer has cached is for this one if   *)
(* all else is.                                                            *)
WriterOk(h) ==
    /\ hs[h].grid = meta /\ meta # None
    /\ hs[h].failed \/ hs[h].dated => torn
    /\ hs[h].blind => Faults
    /\ ~hs[h].blind => OnPath(h)
    /\ Listed(h) /\ UpdateOk(h)

HandleOk(h) ==
    hs[h] # None =>
        /\ CachedOk(h) /\ DatedOk(h)
        /\ IF h \in Writers THEN WriterOk(h) ELSE ReaderOk(h)

IInv == TypeOK /\ DirInv /\ \A h \in Handles : HandleOk(h)

----------------------------------------------------------------------------
(* Handles, cached fields and contents.                                    *)

(* What a handle is made of.                                               *)
LEMMA HandleParts ==
    ASSUME NEW x \in Handle
    PROVE  /\ x # None
           /\ x.grid \in Grids /\ x.schema \subseteq Names
           /\ x.cache \in [Names -> Entry \cup {None}]
           /\ x.update \in Work \cup {None}
           /\ x.dated \in BOOLEAN /\ x.failed \in BOOLEAN /\ x.blind \in BOOLEAN
BY NoneAssumption DEF Handle

(* Changing one part of it.                                                *)
LEMMA CacheEdited ==
    ASSUME NEW x \in Handle, NEW c \in [Names -> Entry \cup {None}]
    PROVE  LET y == [x EXCEPT !.cache = c]
           IN  /\ y \in Handle /\ y # None
               /\ y.cache = c /\ y.grid = x.grid /\ y.schema = x.schema
               /\ y.update = x.update /\ y.dated = x.dated /\ y.failed = x.failed
               /\ y.blind = x.blind
<1>1. [x EXCEPT !.cache = c] \in Handle
  BY DEF Handle
<1> QED BY <1>1, NoneAssumption DEF Handle

(* Changing the fields it lists.                                           *)
LEMMA SchemaEdited ==
    ASSUME NEW x \in Handle, NEW S \in SUBSET Names
    PROVE  LET y == [x EXCEPT !.schema = S]
           IN  /\ y \in Handle /\ y # None
               /\ y.schema = S /\ y.grid = x.grid /\ y.cache = x.cache
               /\ y.update = x.update /\ y.dated = x.dated /\ y.failed = x.failed
               /\ y.blind = x.blind
<1>1. [x EXCEPT !.schema = S] \in Handle
  BY DEF Handle
<1> QED BY <1>1, NoneAssumption DEF Handle

(* Changing the update it is in.                                           *)
LEMMA UpdateEdited ==
    ASSUME NEW x \in Handle, NEW u \in Work \cup {None}
    PROVE  LET y == [x EXCEPT !.update = u]
           IN  /\ y \in Handle /\ y # None
               /\ y.update = u /\ y.grid = x.grid /\ y.cache = x.cache
               /\ y.schema = x.schema /\ y.dated = x.dated /\ y.failed = x.failed
               /\ y.blind = x.blind
<1>1. [x EXCEPT !.update = u] \in Handle
  BY DEF Handle
<1> QED BY <1>1, NoneAssumption DEF Handle

(* Changing whether its columns may not be those of its grid.              *)
LEMMA DatedEdited ==
    ASSUME NEW x \in Handle, NEW b \in BOOLEAN
    PROVE  LET y == [x EXCEPT !.dated = b]
           IN  /\ y \in Handle /\ y # None
               /\ y.dated = b /\ y.grid = x.grid /\ y.cache = x.cache
               /\ y.schema = x.schema /\ y.update = x.update /\ y.failed = x.failed
               /\ y.blind = x.blind
<1>1. [x EXCEPT !.dated = b] \in Handle
  BY DEF Handle
<1> QED BY <1>1, NoneAssumption DEF Handle

(* Changing whether its last call failed.                                  *)
LEMMA FailedEdited ==
    ASSUME NEW x \in Handle, NEW b \in BOOLEAN
    PROVE  LET y == [x EXCEPT !.failed = b]
           IN  /\ y \in Handle /\ y # None
               /\ y.failed = b /\ y.grid = x.grid /\ y.cache = x.cache
               /\ y.schema = x.schema /\ y.update = x.update /\ y.dated = x.dated
<1>1. [x EXCEPT !.failed = b] \in Handle
  BY DEF Handle
<1> QED BY <1>1, NoneAssumption DEF Handle

(* What a cached field is made of.                                         *)
LEMMA EntryParts ==
    ASSUME NEW e \in Entry
    PROVE  /\ e # None
           /\ e.ino \in Inodes /\ e.working \in Vals \cup {None} /\ e.modified \in BOOLEAN
BY NoneAssumption DEF Entry

(* A field that is opened is the file, decoded if it is compressed.        *)
LEMMA EntryOfFile ==
    ASSUME NEW i \in Inodes, store[i] \in Content
    PROVE  LET e == EntryOf(i)
           IN  /\ e \in Entry /\ e # None
               /\ e.ino = i /\ ~e.modified /\ (e.working # None) = store[i].chunked
<1>1. EntryOf(i) \in Entry
  BY DEF EntryOf, Entry, Content
<1> QED BY <1>1, EntryParts, DatasetAssumption DEF EntryOf, Content

----------------------------------------------------------------------------
(* What a step must see to.                                                *)

(* The files a handle has open.                                            *)
Opened(x) == {i \in Inodes : \E n \in Names : x.cache[n] # None /\ x.cache[n].ino = i}

(* The files on S keep the rows they are for.                              *)
Keeps(S) == \A i \in S : store'[i] # None /\ store'[i].grid = store[i].grid

(* A reader that a step does not touch.                                    *)
LEMMA ReaderLeft ==
    ASSUME TypeOK, NEW k \in Handles \ Writers, HandleOk(k), hs[k] # None,
           hs'[k] = hs[k], Keeps(Opened(hs[k])),
           ~hs[k].dated => meta' = meta /\ (Whole => Whole')
    PROVE  HandleOk(k)'
<1>1. hs[k] \in Handle
  BY DEF TypeOK
<1>2. ASSUME NEW n \in Names, hs[k].cache[n] # None
      PROVE  hs[k].cache[n].ino \in Opened(hs[k])
  <2>1. hs[k].cache[n] \in Entry
    BY <1>1, <1>2, HandleParts
  <2> QED BY <1>2, <2>1, EntryParts DEF Opened
<1>3. CachedOk(k)'
  BY <1>1, <1>2 DEF HandleOk, CachedOk, Keeps
<1>4. DatedOk(k)'
  BY DEF HandleOk, DatedOk, ReaderOk
<1>5. ReaderOk(k)'
  BY DEF HandleOk, ReaderOk
<1> QED BY <1>3, <1>4, <1>5 DEF HandleOk

(* A reader whose index another handle has replaced or removed.            *)
LEMMA ReaderDated ==
    ASSUME TypeOK, NEW k \in Handles \ Writers, HandleOk(k), hs[k] # None,
           hs'[k] = [hs[k] EXCEPT !.dated = TRUE], Keeps(Opened(hs[k]))
    PROVE  HandleOk(k)'
<1>1. hs[k] \in Handle
  BY DEF TypeOK
<1>2. ASSUME NEW n \in Names, hs[k].cache[n] # None
      PROVE  hs[k].cache[n].ino \in Opened(hs[k])
  <2>1. hs[k].cache[n] \in Entry
    BY <1>1, <1>2, HandleParts
  <2> QED BY <1>2, <2>1, EntryParts DEF Opened
<1>3. hs'[k].dated /\ hs'[k].cache = hs[k].cache /\ hs'[k].update = hs[k].update
  BY <1>1, DatedEdited
<1>4. CachedOk(k)'
  BY <1>2, <1>3 DEF HandleOk, CachedOk, Keeps
<1>5. DatedOk(k)'
  BY <1>3 DEF DatedOk
<1>6. ReaderOk(k)'
  BY <1>3 DEF HandleOk, ReaderOk
<1> QED BY <1>4, <1>5, <1>6 DEF HandleOk

(* A writer that a step does not touch, nor the directory.                 *)
LEMMA WriterLeft ==
    ASSUME TypeOK, NEW k \in Writers \cap Handles, HandleOk(k), hs[k] # None,
           hs'[k] = hs[k], UNCHANGED <<meta, dir>>, torn => torn',
           \A n \in Names : dir[n] # None => store'[dir[n]] = store[dir[n]],
           \A i \in Opened(hs[k]) : store'[i] = store[i],
           DirInv, Whole => Whole'
    PROVE  HandleOk(k)'
<1>1. hs[k] \in Handle /\ dir \in [Names -> Inodes \cup {None}]
  BY DEF TypeOK
<1>2. ASSUME NEW n \in Names, hs[k].cache[n] # None
      PROVE  store'[hs[k].cache[n].ino] = store[hs[k].cache[n].ino]
  <2>1. hs[k].cache[n] \in Entry
    BY <1>1, <1>2, HandleParts
  <2> QED BY <1>2, <2>1, EntryParts DEF Opened
<1>3. CachedOk(k)'
  BY <1>1, <1>2 DEF HandleOk, CachedOk
<1>4. DatedOk(k)'
  BY DEF HandleOk, DatedOk
<1>5. ~hs[k].blind => OnPath(k)'
  BY <1>2 DEF HandleOk, WriterOk, OnPath
<1>6. Listed(k)'
  BY DEF HandleOk, WriterOk, Listed, Present
<1>7. UpdateOk(k)'
  <2> SUFFICES ASSUME hs[k].update # None PROVE UpdateOk(k)'
    BY DEF UpdateOk
  <2>1. \A n \in Names : dir[n] # None => store'[dir[n]] = store[dir[n]]
    OBVIOUS
  <2>2. Written(k) \subseteq Names /\ Written(k)' = Written(k)
    BY <1>1 DEF Written, Handle, Work
  <2> QED BY <2>1, <2>2 DEF HandleOk, WriterOk, UpdateOk, Present
<1> QED BY <1>3, <1>4, <1>5, <1>6, <1>7 DEF HandleOk, WriterOk

(* A step that leaves the store of the files still in use as s has it.     *)
LEMMA LeavingKeeps ==
    ASSUME NEW s \in [Inodes -> Content \cup {None}], NEW d, NEW k, Leaving(s, d, k)
    PROVE  /\ dir' = d /\ hs' = k
           /\ store' \in [Inodes -> Content \cup {None}]
           /\ \A n \in Names : d[n] \in Inodes => store'[d[n]] = s[d[n]]
           /\ \A h \in Handles : k[h] # None =>
                \A i \in Opened(k[h]) : store'[i] = s[i]
BY DEF Leaving, Kept, Used, Opened

(* What the writer sees to when it has changed fields.                     *)
FieldsRight(x) ==
    \A n \in Names : x.cache[n] # None =>
        /\ store'[x.cache[n].ino] # None
        /\ x.cache[n].modified => x.cache[n].working # None
        /\ Whole => store'[x.cache[n].ino].grid = meta
        /\ ~x.blind => /\ dir'[n] = x.cache[n].ino
                       /\ (x.cache[n].working # None) = store'[dir'[n]].chunked
                       /\ n \in x.schema

FilesRight ==
    /\ dir' \in [Names -> Inodes \cup {None}]
    /\ store' \in [Inodes -> Content \cup {None}]
    /\ Apart(dir')
    /\ \A n \in Names : dir'[n] # None =>
          /\ store'[dir'[n]] # None
          /\ Whole => store'[dir'[n]].grid = meta

(* A call of the writer outside of an update keeps the invariant if it     *)
(* leaves the files and its cache and schema right, and the files that     *)
(* readers have open on their rows.                                        *)
LEMMA WriterStep ==
    ASSUME IInv, OneWriter, NEW h \in Handles, Writes(h), NEW x \in Handle,
           hs' = [hs EXCEPT ![h] = x],
           x.grid = hs[h].grid, x.update = None, x.dated = hs[h].dated,
           x.failed = hs[h].failed, x.blind => Faults,
           \/ x.failed
           \/ x.schema = Present(dir')
           \/ x.blind /\ x.schema = {},
           FieldsRight(x), FilesRight,
           \A k \in Handles \ {h} : hs[k] # None => Keeps(Opened(hs[k])),
           UNCHANGED <<meta, torn>>
    PROVE  IInv'
<1>1. TypeOK /\ DirInv /\ h \in Writers /\ hs[h] # None /\ hs[h].update = None /\ HandleOk(h)
  BY DEF IInv, Writes, Idle
<1>2. hs'[h] = x /\ x # None /\ \A k \in Handles : k # h => hs'[k] = hs[k]
  BY <1>1, HandleParts DEF TypeOK
<1>3. TypeOK'
  BY <1>1 DEF TypeOK, FilesRight
<1>4. Whole' = Whole
  BY <1>1, <1>2 DEF Whole
<1>5. meta # None /\ hs[h].grid = meta /\ (hs[h].failed \/ hs[h].dated => torn)
      /\ (~hs[h].dated => Whole)
  BY <1>1 DEF HandleOk, WriterOk, DatedOk
<1>6. DirInv'
  BY <1>4, <1>5 DEF DirInv, FilesRight, Clean, Apart
<1>7. ASSUME NEW k \in Handles, k # h PROVE HandleOk(k)'
  <2>1. CASE hs[k] # None
    <3>1. k \in Handles \ Writers /\ hs'[k] = hs[k] /\ Keeps(Opened(hs[k]))
      BY <1>1, <1>2, <1>7, <2>1 DEF OneWriter
    <3>2. HandleOk(k)
      BY DEF IInv
    <3> QED BY <1>1, <1>4, <2>1, <3>1, <3>2, ReaderLeft
  <2>2. CASE hs[k] = None
    BY <1>2, <1>7, <2>2 DEF HandleOk
  <2> QED BY <2>1, <2>2
<1>8. HandleOk(h)'
  <2>1. CachedOk(h)'
    BY <1>2, <1>5 DEF CachedOk, FieldsRight
  <2>2. DatedOk(h)'
    BY <1>2, <1>4, <1>5 DEF DatedOk
  <2>3. (~x.blind => OnPath(h)') /\ Listed(h)' /\ UpdateOk(h)'
    BY <1>2 DEF OnPath, Listed, UpdateOk, FieldsRight, Present
  <2> QED BY <1>1, <1>2, <1>5, <2>1, <2>2, <2>3 DEF HandleOk, WriterOk
<1> QED BY <1>3, <1>6, <1>7, <1>8 DEF IInv

----------------------------------------------------------------------------
(* Calls on one field: files come, go and move, and none that is there     *)
(* changes.                                                                *)
FilesFor(s, d) ==
    /\ s \in [Inodes -> Content \cup {None}]
    /\ d \in [Names -> Inodes \cup {None}]
    /\ \A i \in Inodes : store[i] # None => s[i] = store[i]
    /\ Apart(d)
    /\ \A n \in Names : d[n] # None => /\ s[d[n]] # None
                                       /\ Whole => s[d[n]].grid = meta

(* Nothing is done.                                                        *)
LEMMA FilesSame == ASSUME IInv PROVE FilesFor(store, dir)
BY DEF IInv, TypeOK, FilesFor, DirInv, Clean

(* A file is removed.                                                      *)
LEMMA FilesRemoved ==
    ASSUME IInv, NEW n \in Names
    PROVE  FilesFor(store, [dir EXCEPT ![n] = None])
BY DEF IInv, TypeOK, FilesFor, DirInv, Clean, Apart

(* A file is moved.                                                        *)
LEMMA FilesMoved ==
    ASSUME IInv, NEW n \in Names, NEW m \in Names \ {n}
    PROVE  FilesFor(store, [dir EXCEPT ![m] = dir[n], ![n] = None])
<1> DEFINE d == [dir EXCEPT ![m] = dir[n], ![n] = None]
<1>1. TypeOK /\ DirInv
  BY DEF IInv
<1>2. /\ d \in [Names -> Inodes \cup {None}]
      /\ d[n] = None /\ d[m] = dir[n]
      /\ \A k \in Names \ {m, n} : d[k] = dir[k]
  BY <1>1 DEF TypeOK
<1> HIDE DEF d
<1>3. Apart(d)
  BY <1>1, <1>2 DEF DirInv, Apart
<1>4. \A k \in Names : d[k] # None => /\ store[d[k]] # None
                                      /\ Whole => store[d[k]].grid = meta
  BY <1>1, <1>2 DEF DirInv, Clean
<1> QED BY <1>1, <1>2, <1>3, <1>4 DEF FilesFor, TypeOK, d

(* A new file is one that nobody has.                                      *)
LEMMA FreshFile ==
    ASSUME IInv, Free # {}
    PROVE  /\ Fresh \in Inodes /\ Fresh # None /\ store[Fresh] = None
           /\ \A n \in Names : dir[n] # Fresh
<1>1. Fresh \in Free
  BY DEF Fresh
<1> QED BY <1>1, DatasetAssumption DEF Free, IInv, DirInv

(* A file is made, in the place of another or not.                         *)
LEMMA FilesMade ==
    ASSUME IInv, Free # {}, NEW n \in Names, NEW c \in Content, Whole => c.grid = meta
    PROVE  FilesFor([store EXCEPT ![Fresh] = c], [dir EXCEPT ![n] = Fresh])
<1> DEFINE f == Fresh
<1>1. /\ f \in Inodes /\ f # None /\ store[f] = None /\ \A m \in Names : dir[m] # f
      /\ TypeOK /\ DirInv /\ c # None
  BY FreshFile, NoneAssumption DEF IInv
<1> HIDE DEF f
<1> DEFINE s == [store EXCEPT ![f] = c]
           d == [dir EXCEPT ![n] = f]
<1>2. /\ s \in [Inodes -> Content \cup {None}] /\ d \in [Names -> Inodes \cup {None}]
      /\ s[f] = c /\ \A i \in Inodes : i # f => s[i] = store[i]
      /\ d[n] = f /\ \A m \in Names : m # n => d[m] = dir[m]
  BY <1>1 DEF TypeOK
<1> HIDE DEF s, d
<1>3. Apart(d)
  BY <1>1, <1>2 DEF DirInv, Apart
<1>4. \A m \in Names : d[m] # None => /\ s[d[m]] # None
                                      /\ Whole => s[d[m]].grid = meta
  BY <1>1, <1>2 DEF DirInv, Clean, TypeOK
<1> QED BY <1>1, <1>2, <1>3, <1>4 DEF FilesFor, s, d, f

(* What a handle has open exists.                                          *)
LEMMA OpenedStored ==
    ASSUME IInv, NEW k \in Handles, hs[k] # None, NEW i \in Opened(hs[k])
    PROVE  i \in Inodes /\ store[i] # None
BY DEF IInv, HandleOk, CachedOk, Opened

(* Readers go on reading what they have open.                              *)
LEMMA ReadersKeep ==
    ASSUME IInv, NEW h \in Handles, NEW s \in [Inodes -> Content \cup {None}], NEW d,
           \A i \in Inodes : store[i] # None => s[i] # None /\ s[i].grid = store[i].grid,
           Leaving(s, d, hs'), \A k \in Handles : k # h => hs'[k] = hs[k]
    PROVE  \A k \in Handles \ {h} : hs[k] # None => Keeps(Opened(hs[k]))
<1>1. \A k \in Handles : hs'[k] # None => \A i \in Opened(hs'[k]) : store'[i] = s[i]
  BY LeavingKeeps
<1> QED BY <1>1, OpenedStored DEF Keeps

(* What is still cached has not moved.                                     *)
CacheLeft(x, h, d) ==
    \A n \in Names : x.cache[n] # None =>
        /\ x.cache[n] = hs[h].cache[n]
        /\ ~hs[h].blind /\ n \in hs[h].schema => d[n] = dir[n]

(* A call on one field: it may forget cached fields, and answers with what *)
(* is in the directory, or fails.                                          *)
LEMMA FieldStep ==
    ASSUME IInv, OneWriter, NEW h \in Handles, Writes(h), NEW x \in Handle,
           hs' = [hs EXCEPT ![h] = x],
           x.grid = hs[h].grid, x.update = None, x.dated = hs[h].dated,
           x.failed = hs[h].failed, x.blind => Faults, hs[h].blind => x.blind,
           NEW s, NEW d, FilesFor(s, d), Leaving(s, d, hs'),
           CacheLeft(x, h, d),
           \/ x.schema = Present(d)
           \/ x.schema = {} /\ x.blind
           \/ x.schema = hs[h].schema /\ (x.failed \/ Present(d) = Present(dir)),
           UNCHANGED <<meta, torn>>
    PROVE  IInv'
<1>1. /\ TypeOK /\ DirInv /\ h \in Writers /\ hs[h] # None /\ hs[h].update = None
      /\ CachedOk(h) /\ DatedOk(h) /\ (~hs[h].blind => OnPath(h)) /\ Listed(h)
      /\ (hs[h].dated => torn)
  BY DEF IInv, Writes, Idle, HandleOk, WriterOk
<1>2. /\ s \in [Inodes -> Content \cup {None}] /\ d \in [Names -> Inodes \cup {None}]
      /\ \A i \in Inodes : store[i] # None => s[i] = store[i]
      /\ Apart(d)
      /\ \A n \in Names : d[n] # None => s[d[n]] # None /\ (Whole => s[d[n]].grid = meta)
  BY DEF FilesFor
<1>3. /\ dir' = d /\ store' \in [Inodes -> Content \cup {None}]
      /\ \A n \in Names : d[n] \in Inodes => store'[d[n]] = s[d[n]]
  BY <1>2, LeavingKeeps
<1>4. \A k \in Handles : k # h => hs'[k] = hs[k]
  BY <1>1 DEF TypeOK
<1>5. \A k \in Handles \ {h} : hs[k] # None => Keeps(Opened(hs[k]))
  <2>1. \A i \in Inodes : store[i] # None => s[i] # None /\ s[i].grid = store[i].grid
    BY <1>2
  <2> QED BY <1>2, <1>4, <2>1, ReadersKeep
<1>6. FilesRight
  BY <1>2, <1>3 DEF FilesRight
<1>7. FieldsRight(x)
  <2> SUFFICES ASSUME NEW n \in Names, x.cache[n] # None
               PROVE  /\ store'[x.cache[n].ino] # None
                      /\ x.cache[n].modified => x.cache[n].working # None
                      /\ Whole => store'[x.cache[n].ino].grid = meta
                      /\ ~x.blind =>
                           /\ d[n] = x.cache[n].ino
                           /\ (x.cache[n].working # None) = store'[d[n]].chunked
                           /\ n \in x.schema
    BY <1>3 DEF FieldsRight
  <2> DEFINE e == hs[h].cache[n]
  <2>1. x.cache[n] = e /\ e # None
    BY DEF CacheLeft
  <2>2. /\ store[e.ino] # None /\ (e.modified => e.working # None)
        /\ ~hs[h].dated => store[e.ino].grid = meta
    BY <1>1, <2>1 DEF CachedOk
  <2>3. e \in Entry
    BY <2>1, HandleParts
  <2> HIDE DEF e
  <2>4. e.ino \in Inodes /\ e.ino \in Opened(x)
    BY <2>1, <2>3, EntryParts DEF Opened
  <2>5. store'[e.ino] = store[e.ino]
    <3>1. \A i \in Opened(x) : store'[i] = s[i]
      BY <1>1, <1>2, LeavingKeeps, HandleParts DEF TypeOK
    <3> QED BY <1>2, <2>2, <2>4, <3>1
  <2>6. Whole => ~hs[h].dated
    BY <1>1 DEF Whole
  <2>7. ASSUME ~x.blind
        PROVE  /\ d[n] = e.ino /\ (e.working # None) = store'[d[n]].chunked
               /\ n \in x.schema
    <3>1. /\ n \in hs[h].schema /\ d[n] = dir[n] /\ dir[n] = e.ino
          /\ (e.working # None) = store[dir[n]].chunked
      BY <1>1, <2>1, <2>7 DEF OnPath, CacheLeft, e
    <3>2. n \in x.schema
      BY <2>4, <2>7, <3>1, DatasetAssumption DEF Present
    <3> QED BY <2>5, <3>1, <3>2
  <2> QED BY <2>1, <2>2, <2>5, <2>6, <2>7
<1>8. x.failed \/ x.schema = Present(dir') \/ (x.blind /\ x.schema = {})
  BY <1>1, <1>3 DEF Listed
<1> QED BY <1>5, <1>6, <1>7, <1>8, WriterStep

(* What an idle writer knows.                                              *)
LEMMA WriterKnows ==
    ASSUME IInv, NEW h \in Handles, Writes(h)
    PROVE  /\ hs[h] \in Handle /\ hs[h].grid \in Grids
           /\ h \in Writers /\ hs[h] # None /\ hs[h].update = None
           /\ hs[h].grid = meta /\ meta # None
           /\ hs[h].blind \in BOOLEAN /\ (hs[h].blind => Faults)
           /\ hs[h].dated => torn
           /\ ~hs[h].failed => \/ hs[h].schema = Present(dir)
                               \/ hs[h].blind /\ hs[h].schema = {}
           /\ hs[h].schema \subseteq Names
           /\ \A n \in Names : hs[h].cache[n] # None =>
                /\ hs[h].cache[n] \in Entry
                /\ store[hs[h].cache[n].ino] \in Content
                /\ hs[h].cache[n].modified => hs[h].cache[n].working # None
                /\ Whole => store[hs[h].cache[n].ino].grid = meta
                /\ ~hs[h].blind =>
                     /\ n \in hs[h].schema
                     /\ dir[n] = hs[h].cache[n].ino /\ store[dir[n]] \in Content
                     /\ (hs[h].cache[n].working # None) = store[dir[n]].chunked
<1>1. /\ TypeOK /\ hs[h] \in Handle /\ hs[h] # None /\ hs[h].update = None /\ h \in Writers
      /\ HandleOk(h)
  BY DEF IInv, Writes, Idle, TypeOK
<1>2. WriterOk(h) /\ CachedOk(h)
  BY <1>1 DEF HandleOk
<1>3. ASSUME NEW n \in Names, hs[h].cache[n] # None
      PROVE  /\ hs[h].cache[n] \in Entry
             /\ store[hs[h].cache[n].ino] \in Content
             /\ hs[h].cache[n].modified => hs[h].cache[n].working # None
             /\ Whole => store[hs[h].cache[n].ino].grid = meta
             /\ ~hs[h].blind =>
                  /\ n \in hs[h].schema
                  /\ dir[n] = hs[h].cache[n].ino /\ store[dir[n]] \in Content
                  /\ (hs[h].cache[n].working # None) = store[dir[n]].chunked
  <2>1. hs[h].cache[n] \in Entry
    BY <1>1, <1>3, HandleParts
  <2>2. store[hs[h].cache[n].ino] \in Content
    BY <1>1, <1>2, <1>3, <2>1, EntryParts DEF CachedOk, TypeOK
  <2>3. ~hs[h].blind =>
          /\ n \in hs[h].schema /\ dir[n] = hs[h].cache[n].ino
          /\ (hs[h].cache[n].working # None) = store[dir[n]].chunked
    BY <1>2, <1>3 DEF OnPath, WriterOk
  <2>4. Whole => ~hs[h].dated
    BY <1>2 DEF Whole, WriterOk
  <2> QED BY <1>2, <1>3, <2>1, <2>2, <2>3, <2>4 DEF CachedOk
<1> QED BY <1>1, <1>2, <1>3, HandleParts DEF WriterOk, Listed

(* The handle of a field is forgotten, and the schema is read again or not.*)
LEMMA EvictedTypes ==
    ASSUME IInv, NEW h \in Handles, Writes(h), NEW n \in Names
    PROVE  /\ Evicted(h, n) \in [Names -> Entry \cup {None}]
           /\ \A m \in Names : Evicted(h, n)[m] # None =>
                m # n /\ Evicted(h, n)[m] = hs[h].cache[m]
BY WriterKnows, HandleParts DEF Evicted

(* Handle h, which was z, after its schema is read again.                  *)
RelistedTo(after, h, z, d) ==
    \E y \in Handle :
       /\ after = [hs EXCEPT ![h] = y]
       /\ y.cache = z.cache /\ y.grid = z.grid /\ y.update = z.update
       /\ y.dated = z.dated /\ y.failed = z.failed
       /\ \/ y.schema = Present(d) /\ y.blind = z.blind
          \/ y.schema = {} /\ y.blind /\ Faults

(* A handle whose schema is read again lists the directory, or is blind.   *)
LEMMA RelistedIs ==
    ASSUME NEW h \in Handles, hs \in [Handles -> Handle \cup {None}], NEW z \in Handle,
           NEW f, f = [hs EXCEPT ![h] = z], NEW d, NEW after \in Relisted(f, h, d)
    PROVE  RelistedTo(after, h, z, d)
<1>1. CASE after = [f EXCEPT ![h].schema = Present(d)]
  <2> DEFINE S == Present(d)
             y == [z EXCEPT !.schema = S]
  <2>1. after = [hs EXCEPT ![h] = y]
    BY <1>1
  <2>2. S \in SUBSET Names
    BY DEF Present
  <2> HIDE DEF S
  <2>3. /\ y \in Handle /\ y.schema = S /\ y.blind = z.blind
        /\ y.cache = z.cache /\ y.grid = z.grid /\ y.update = z.update
        /\ y.dated = z.dated /\ y.failed = z.failed
    BY <2>2, SchemaEdited
  <2> HIDE DEF y
  <2> QED BY <2>1, <2>3 DEF S, RelistedTo
<1>2. CASE Faults /\ after = [f EXCEPT ![h].schema = {}, ![h].blind = TRUE]
  <2> DEFINE y == [z EXCEPT !.schema = {}, !.blind = TRUE]
  <2>1. after = [hs EXCEPT ![h] = y]
    BY <1>2
  <2>2. /\ y \in Handle /\ y.schema = {} /\ y.blind
        /\ y.cache = z.cache /\ y.grid = z.grid /\ y.update = z.update
        /\ y.dated = z.dated /\ y.failed = z.failed
    BY DEF Handle
  <2> HIDE DEF y
  <2> QED BY <1>2, <2>1, <2>2 DEF RelistedTo
<1> QED BY <1>1, <1>2 DEF Relisted

(* A call that forgets one field and leaves the files right keeps the      *)
(* whole invariant.                                                        *)
LEMMA FieldForgotten ==
    ASSUME IInv, OneWriter, NEW h \in Handles, Writes(h), NEW n \in Names,
           NEW s, NEW d, FilesFor(s, d), Leaving(s, d, hs'),
           \/ hs' = Forgotten(h, n) /\ Present(d) = Present(dir)
           \/ hs' \in Relisted(Forgotten(h, n), h, d),
           \A m \in hs[h].schema : m # n => d[m] = dir[m],
           UNCHANGED <<meta, torn>>
    PROVE  IInv'
<1> DEFINE E == Evicted(h, n)
           y == [hs[h] EXCEPT !.cache = E]
<1>1. hs[h] \in Handle /\ hs[h].update = None /\ hs \in [Handles -> Handle \cup {None}]
  BY WriterKnows DEF IInv, TypeOK
<1>2. /\ E \in [Names -> Entry \cup {None}]
      /\ \A m \in Names : E[m] # None => m # n /\ E[m] = hs[h].cache[m]
  BY EvictedTypes
<1>3. Forgotten(h, n) = [hs EXCEPT ![h] = y]
  BY DEF Forgotten
<1> HIDE DEF E
<1>4. /\ y \in Handle /\ y.cache = E /\ y.grid = hs[h].grid /\ y.schema = hs[h].schema
      /\ y.update = None /\ y.dated = hs[h].dated /\ y.failed = hs[h].failed
      /\ y.blind = hs[h].blind
  BY <1>1, <1>2, CacheEdited
<1> HIDE DEF y
<1>5. PICK x \in Handle :
        /\ hs' = [hs EXCEPT ![h] = x]
        /\ x.cache = E /\ x.grid = hs[h].grid
        /\ x.update = None /\ x.dated = hs[h].dated /\ x.failed = hs[h].failed
        /\ x.blind = hs[h].blind \/ (x.blind /\ Faults)
        /\ \/ x.schema = Present(d)
           \/ x.schema = {} /\ x.blind
           \/ x.schema = hs[h].schema /\ (x.failed \/ Present(d) = Present(dir))
  <2>1. CASE hs' = Forgotten(h, n) /\ Present(d) = Present(dir)
    BY <1>3, <1>4, <2>1
  <2>2. CASE hs' \in Relisted(Forgotten(h, n), h, d)
    <3>1. PICK x \in Handle :
            /\ hs' = [hs EXCEPT ![h] = x]
            /\ x.cache = y.cache /\ x.grid = y.grid /\ x.update = y.update
            /\ x.dated = y.dated /\ x.failed = y.failed
            /\ \/ x.schema = Present(d) /\ x.blind = y.blind
               \/ x.schema = {} /\ x.blind /\ Faults
      <4>1. PICK f : f = Forgotten(h, n)
        OBVIOUS
      <4>2. PICK after : after = hs'
        OBVIOUS
      <4>3. after \in Relisted(f, h, d) /\ f = [hs EXCEPT ![h] = y]
        BY <1>3, <2>2, <4>1, <4>2
      <4>4. RelistedTo(after, h, y, d)
        BY <1>1, <1>4, <4>3, RelistedIs
      <4> QED BY <4>2, <4>4 DEF RelistedTo
    <3> QED BY <1>4, <3>1
  <2> QED BY <2>1, <2>2
<1>6. CacheLeft(x, h, d)
  BY <1>2, <1>5 DEF CacheLeft
<1>7. (x.blind => Faults) /\ (hs[h].blind => x.blind)
  BY <1>5, WriterKnows
<1> QED BY <1>5, <1>6, <1>7, FieldStep

(* What a call on field n leaves.                                          *)
FieldDone(h, n) ==
    \E s, d : /\ FilesFor(s, d)
              /\ \A m \in hs[h].schema : m # n => d[m] = dir[m]
              /\ \/ \E after \in Relisted(Forgotten(h, n), h, d) : Leaving(s, d, after)
                 \/ Leaving(s, d, Forgotten(h, n)) /\ Present(d) = Present(dir)

(* So does a call on one field that is done.                               *)
LEMMA FieldCall ==
    ASSUME IInv, OneWriter, NEW h \in Handles, Writes(h), NEW n \in Names,
           FieldDone(h, n), UNCHANGED <<meta, torn>>
    PROVE  IInv'
<1>1. PICK s, d : /\ FilesFor(s, d)
                  /\ \A m \in hs[h].schema : m # n => d[m] = dir[m]
                  /\ \/ \E after \in Relisted(Forgotten(h, n), h, d) : Leaving(s, d, after)
                     \/ Leaving(s, d, Forgotten(h, n)) /\ Present(d) = Present(dir)
  BY DEF FieldDone
<1>2. /\ Leaving(s, d, hs')
      /\ \/ hs' = Forgotten(h, n) /\ Present(d) = Present(dir)
         \/ hs' \in Relisted(Forgotten(h, n), h, d)
  BY <1>1 DEF Leaving
<1> QED BY <1>1, <1>2, FieldForgotten

(* Nothing but the handle of the field is gone.                            *)
LEMMA OnlyForgotten ==
    ASSUME IInv, NEW h \in Handles, NEW n \in Names,
           \/ Leaving(store, dir, Forgotten(h, n))
           \/ \E after \in Relisted(Forgotten(h, n), h, dir) : Leaving(store, dir, after)
    PROVE  FieldDone(h, n)
BY FilesSame DEF FieldDone

(* delete_dataset_field                                                    *)
LEMMA InvDeleteField ==
    ASSUME IInv, OneWriter, NEW h \in Handles, DeleteField(h) PROVE IInv'
<1>1. PICK n \in hs[h].schema :
        \/ Refused(h, n)
        \/ \E after \in Relisted(Forgotten(h, n), h, [dir EXCEPT ![n] = None]) :
              Leaving(store, [dir EXCEPT ![n] = None], after)
  BY DEF DeleteField
<1>2. Writes(h) /\ UNCHANGED <<meta, torn>> /\ n \in Names
  BY WriterKnows DEF DeleteField
<1>3. /\ FilesFor(store, [dir EXCEPT ![n] = None])
      /\ \A m \in hs[h].schema : m # n => [dir EXCEPT ![n] = None][m] = dir[m]
  BY <1>2, FilesRemoved, WriterKnows DEF IInv, TypeOK
<1>4. FieldDone(h, n)
  BY <1>1, <1>2, <1>3, OnlyForgotten DEF Refused, FieldDone
<1> QED BY <1>2, <1>4, FieldCall

(* rename_dataset_field                                                    *)
LEMMA InvRenameField ==
    ASSUME IInv, OneWriter, NEW h \in Handles, RenameField(h) PROVE IInv'
<1> DEFINE Moved(n, m) == [dir EXCEPT ![m] = dir[n], ![n] = None]
<1>1. PICK n \in hs[h].schema, m \in Names \ hs[h].schema :
        \/ Refused(h, n)
        \/ \E after \in Relisted(Forgotten(h, n), h, Moved(n, m)) :
              Leaving(store, Moved(n, m), after)
  BY DEF RenameField
<1>2. Writes(h) /\ UNCHANGED <<meta, torn>> /\ n \in Names /\ m \in Names \ {n}
  BY WriterKnows DEF RenameField
<1>3. /\ FilesFor(store, Moved(n, m))
      /\ \A k \in hs[h].schema : k # n => Moved(n, m)[k] = dir[k]
  BY <1>2, FilesMoved, WriterKnows DEF IInv, TypeOK
<1> HIDE DEF Moved
<1>4. FieldDone(h, n)
  BY <1>1, <1>2, <1>3, OnlyForgotten DEF Refused, FieldDone
<1> QED BY <1>2, <1>4, FieldCall

(* A rebuild copies rows of the same index.                                *)
LEMMA FilesRebuilt ==
    ASSUME IInv, NEW n \in Names, dir[n] # None, Free # {}, NEW c \in BOOLEAN
    PROVE  FilesFor([store EXCEPT ![Fresh] = [store[dir[n]] EXCEPT !.chunked = c]],
                    [dir EXCEPT ![n] = Fresh])
<1> DEFINE v == [store[dir[n]] EXCEPT !.chunked = c]
<1>1. store[dir[n]] \in Content
  BY DEF IInv, TypeOK, DirInv
<1>2. v \in Content /\ v.grid = store[dir[n]].grid
  BY <1>1 DEF Content
<1>3. Whole => v.grid = meta
  BY <1>2 DEF IInv, DirInv, Clean
<1> HIDE DEF v
<1>4. FilesFor([store EXCEPT ![Fresh] = v], [dir EXCEPT ![n] = Fresh])
  BY <1>2, <1>3, FilesMade
<1> QED BY <1>4 DEF v

(* A field that is rebuilt is where it was.                                *)
LEMMA RebuildDone ==
    ASSUME IInv, NEW h \in Handles, Writes(h), NEW n \in Names, NEW c \in BOOLEAN,
           \/ Rebuild(h, n, c, Forgotten(h, n))
           \/ \E after \in Relisted(Forgotten(h, n), h, dir) : Rebuild(h, n, c, after)
    PROVE  FieldDone(h, n)
<1> DEFINE s == [store EXCEPT ![Fresh] = [store[dir[n]] EXCEPT !.chunked = c]]
           d == [dir EXCEPT ![n] = Fresh]
<1>1. /\ Free # {} /\ dir[n] # None
      /\ \/ Leaving(s, d, Forgotten(h, n))
         \/ \E after \in Relisted(Forgotten(h, n), h, dir) : Leaving(s, d, after)
  BY DEF Rebuild
<1>2. FilesFor(s, d)
  BY <1>1, FilesRebuilt
<1>3. \A m \in hs[h].schema : m # n => d[m] = dir[m]
  BY WriterKnows DEF IInv, TypeOK
<1>4. Present(d) = Present(dir)
  BY <1>1, FreshFile DEF IInv, TypeOK, Present
<1> HIDE DEF s, d
<1>5. Relisted(Forgotten(h, n), h, d) = Relisted(Forgotten(h, n), h, dir)
  BY <1>4 DEF Relisted
<1> QED BY <1>1, <1>2, <1>3, <1>4, <1>5 DEF FieldDone

(* compress_dataset_field, decompress_dataset_field                        *)
LEMMA InvConvert ==
    ASSUME IInv, OneWriter, NEW h \in Handles, Convert(h) PROVE IInv'
<1>1. PICK n \in hs[h].schema, c \in Layouts :
        \/ Refused(h, n)
        \/ Leaving(store, dir, Forgotten(h, n))
        \/ Rebuild(h, n, c, Forgotten(h, n))
  BY DEF Convert
<1>2. Writes(h) /\ UNCHANGED <<meta, torn>> /\ n \in Names /\ c \in BOOLEAN
  BY WriterKnows, DatasetAssumption DEF Convert
<1>3. FieldDone(h, n)
  BY <1>1, <1>2, OnlyForgotten, RebuildDone DEF Refused
<1> QED BY <1>2, <1>3, FieldCall

(* cast_dataset_field                                                      *)
LEMMA InvCastField ==
    ASSUME IInv, OneWriter, NEW h \in Handles, CastField(h) PROVE IInv'
<1>1. PICK n \in hs[h].schema :
        \/ Refused(h, n)
        \/ /\ dir[n] # None
           /\ \E after \in Relisted(Forgotten(h, n), h, dir) :
                 \/ Leaving(store, dir, after)
                 \/ Rebuild(h, n, store[dir[n]].chunked, after)
  BY DEF CastField
<1>2. Writes(h) /\ UNCHANGED <<meta, torn>> /\ n \in Names
  BY WriterKnows DEF CastField
<1>3. dir[n] # None => store[dir[n]].chunked \in BOOLEAN
  BY <1>2 DEF IInv, TypeOK, DirInv, Content
<1>4. FieldDone(h, n)
  BY <1>1, <1>2, <1>3, OnlyForgotten, RebuildDone DEF Refused
<1> QED BY <1>2, <1>4, FieldCall

(* create_dataset_field                                                    *)
LEMMA InvCreateField ==
    ASSUME IInv, OneWriter, NEW h \in Handles, CreateField(h) PROVE IInv'
<1>1. Writes(h) /\ UNCHANGED <<meta, torn>>
  BY DEF CreateField
<1>2. PICK n \in Names \ hs[h].schema, v \in Vals, c \in Layouts :
        IF dir[n] = None
        THEN LET d == [dir EXCEPT ![n] = Fresh]
             IN  /\ Free # {}
                 /\ \E after \in Relisted(hs, h, d) :
                       Leaving([store EXCEPT ![Fresh] =
                                  [grid |-> hs[h].grid, chunked |-> c, val |-> v]],
                               d, after)
        ELSE Leaving(store, [dir EXCEPT ![n] = None], hs)
  BY DEF CreateField
<1>3. /\ hs[h] \in Handle /\ hs[h].update = None /\ c \in BOOLEAN
      /\ hs \in [Handles -> Handle \cup {None}] /\ dir \in [Names -> Inodes \cup {None}]
      /\ n \in Names /\ n \notin hs[h].schema
  BY <1>1, <1>2, WriterKnows, DatasetAssumption DEF IInv, TypeOK
<1>4. \A m \in Names : hs[h].cache[m] # None => hs[h].blind \/ m # n
  BY <1>1, <1>3, WriterKnows
<1>5. CASE dir[n] = None
  <2> DEFINE s0 == [store EXCEPT ![Fresh] = [grid |-> hs[h].grid, chunked |-> c, val |-> v]]
             d0 == [dir EXCEPT ![n] = Fresh]
  <2>1. Free # {} /\ \E after \in Relisted(hs, h, d0) : Leaving(s0, d0, after)
    BY <1>2, <1>5
  <2>2. FilesFor(s0, d0)
    <3>1. [grid |-> hs[h].grid, chunked |-> c, val |-> v] \in Content /\ hs[h].grid = meta
      BY <1>1, <1>2, <1>3, WriterKnows DEF Content
    <3> QED BY <1>3, <2>1, <3>1, FilesMade
  <2>3. \A m \in Names : m # n => d0[m] = dir[m]
    BY <1>3
  <2> HIDE DEF s0, d0
  <2>4. PICK s, d : s = s0 /\ d = d0
    OBVIOUS
  <2>5. FilesFor(s, d) /\ Leaving(s, d, hs') /\ hs' \in Relisted(hs, h, d)
    BY <2>1, <2>2, <2>4 DEF Leaving
  <2>6. hs = [hs EXCEPT ![h] = hs[h]]
    BY <1>3
  <2>7. PICK x \in Handle :
          /\ hs' = [hs EXCEPT ![h] = x]
          /\ x.cache = hs[h].cache /\ x.grid = hs[h].grid /\ x.update = hs[h].update
          /\ x.dated = hs[h].dated /\ x.failed = hs[h].failed
          /\ \/ x.schema = Present(d) /\ x.blind = hs[h].blind
             \/ x.schema = {} /\ x.blind /\ Faults
    <3>1. RelistedTo(hs', h, hs[h], d)
      BY <1>3, <2>5, <2>6, RelistedIs
    <3> QED BY <3>1 DEF RelistedTo
  <2>8. CacheLeft(x, h, d)
    BY <1>4, <2>3, <2>4, <2>7 DEF CacheLeft
  <2>9. (x.blind => Faults) /\ (hs[h].blind => x.blind)
    BY <1>1, <2>7, WriterKnows
  <2> QED BY <1>1, <1>3, <2>5, <2>7, <2>8, <2>9, FieldStep
<1>6. CASE dir[n] # None
  <2> DEFINE d0 == [dir EXCEPT ![n] = None]
  <2>1. Leaving(store, d0, hs) /\ FilesFor(store, d0)
    BY <1>2, <1>3, <1>6, FilesRemoved
  <2>2. \A m \in Names : m # n => d0[m] = dir[m]
    BY <1>3
  <2> HIDE DEF d0
  <2>3. PICK s, d, x : s = store /\ d = d0 /\ x = hs[h]
    OBVIOUS
  <2>4. x \in Handle /\ FilesFor(s, d) /\ Leaving(s, d, hs') /\ hs' = [hs EXCEPT ![h] = x]
    BY <1>3, <2>1, <2>3 DEF Leaving
  <2>5. CacheLeft(x, h, d)
    BY <1>4, <2>2, <2>3 DEF CacheLeft
  <2>6. x.failed \/ (x.blind /\ x.schema = {})
    BY <1>1, <1>3, <1>6, <2>3, WriterKnows, HandleParts DEF Present
  <2>7. (x.blind => Faults) /\ (hs[h].blind => x.blind)
    BY <1>1, <2>3, WriterKnows
  <2> QED BY <1>1, <1>3, <2>3, <2>4, <2>5, <2>6, <2>7, FieldStep
<1> QED BY <1>5, <1>6

----------------------------------------------------------------------------
(* Calls that change no path.                                              *)
FilesStay(h) ==
    /\ store' \in [Inodes -> Content \cup {None}]
    /\ \A n \in Names : dir[n] # None => store'[dir[n]] = store[dir[n]]
    /\ \A k \in Handles \ {h} : hs[k] # None =>
          \A i \in Opened(hs[k]) : store'[i] = store[i]

(* Files that stay while handles leave are as a handle knew them.          *)
LEMMA LeavingStay ==
    ASSUME IInv, NEW h \in Handles, Leaving(store, dir, hs'),
           \A k \in Handles : k # h => hs'[k] = hs[k]
    PROVE  FilesStay(h)
<1>1. store \in [Inodes -> Content \cup {None}] /\ dir \in [Names -> Inodes \cup {None}]
  BY DEF IInv, TypeOK
<1>2. /\ store' \in [Inodes -> Content \cup {None}]
      /\ \A n \in Names : dir[n] \in Inodes => store'[dir[n]] = store[dir[n]]
      /\ \A k \in Handles : hs'[k] # None => \A i \in Opened(hs'[k]) : store'[i] = store[i]
  BY <1>1, LeavingKeeps
<1> QED BY <1>1, <1>2 DEF FilesStay

(* And so are they when no file is written.                                *)
LEMMA StoreStays ==
    ASSUME IInv, NEW h \in Handles, UNCHANGED store PROVE FilesStay(h)
BY DEF IInv, TypeOK, FilesStay

(* A step of one handle that leaves all paths alone, and the files others  *)
(* can see.                                                                *)
LEMMA QuietStep ==
    ASSUME IInv, NEW h \in Handles, UNCHANGED <<meta, dir>>, torn => torn', torn' \in BOOLEAN,
           hs' \in [Handles -> Handle \cup {None}],
           \A k \in Handles : k # h => hs'[k] = hs[k],
           FilesStay(h), Whole' = Whole, HandleOk(h)'
    PROVE  IInv'
<1>1. TypeOK /\ DirInv
  BY DEF IInv
<1>2. TypeOK'
  BY <1>1 DEF TypeOK, FilesStay
<1>3. DirInv'
  BY <1>1 DEF DirInv, Clean, FilesStay, Apart
<1>4. ASSUME NEW k \in Handles, k # h PROVE HandleOk(k)'
  <2>1. HandleOk(k) /\ hs'[k] = hs[k]
    BY <1>4 DEF IInv
  <2>2. CASE hs[k] = None
    BY <2>1, <2>2 DEF HandleOk
  <2>3. CASE hs[k] # None /\ k \in Writers
    BY <1>1, <2>1, <2>3, WriterLeft DEF FilesStay
  <2>4. CASE hs[k] # None /\ k \notin Writers
    <3>1. Keeps(Opened(hs[k]))
      BY <1>4, <2>4, OpenedStored DEF FilesStay, Keeps
    <3> QED BY <1>1, <2>1, <2>4, <3>1, ReaderLeft
  <2> QED BY <2>2, <2>3, <2>4
<1> QED BY <1>2, <1>3, <1>4 DEF IInv

(* open_dataset                                                            *)
LEMMA InvOpen == ASSUME IInv, OneWriter, NEW h \in Handles, Open(h) PROVE IInv'
<1> DEFINE x == [grid |-> meta, schema |-> Present(dir), cache |-> NoCache,
                 update |-> None, dated |-> ~Whole, failed |-> FALSE, blind |-> FALSE]
<1>1. /\ TypeOK /\ meta # None /\ hs[h] = None /\ hs' = [hs EXCEPT ![h] = x]
      /\ UNCHANGED <<meta, dir, store, torn>>
  BY DEF Open, IInv
<1>2. x \in Handle
  BY <1>1 DEF Handle, TypeOK, Present, NoCache, Whole
<1>3. /\ hs' \in [Handles -> Handle \cup {None}] /\ hs'[h] = x
      /\ \A k \in Handles : k # h => hs'[k] = hs[k]
  BY <1>1, <1>2 DEF TypeOK
<1>4. Whole' = Whole
  BY <1>1, <1>3 DEF Whole
<1>5. HandleOk(h)'
  <2>1. /\ hs'[h].cache = NoCache /\ hs'[h].grid = meta /\ hs'[h].update = None
        /\ hs'[h].schema = Present(dir) /\ ~hs'[h].failed /\ ~hs'[h].blind
        /\ hs'[h].dated = ~Whole
    BY <1>3
  <2>2. CachedOk(h)' /\ ReaderOk(h)' /\ OnPath(h)'
    BY <2>1 DEF CachedOk, ReaderOk, OnPath, NoCache
  <2>3. DatedOk(h)'
    <3>1. CASE Whole
      BY <1>1, <1>4, <2>1, <3>1 DEF DatedOk
    <3>2. CASE ~Whole
      BY <2>1, <3>2 DEF DatedOk
    <3> QED BY <3>1, <3>2
  <2>4. Listed(h)' /\ UpdateOk(h)'
    BY <1>1, <2>1 DEF Listed, UpdateOk, Present
  <2>5. h \in Writers /\ ~Whole => torn
    BY <1>1 DEF IInv, HandleOk, ReaderOk, Whole, OneWriter
  <2> QED BY <1>1, <2>1, <2>2, <2>3, <2>4, <2>5 DEF HandleOk, WriterOk
<1> QED BY <1>1, <1>3, <1>4, <1>5, QuietStep, StoreStays DEF TypeOK

(* The handle goes out of scope, perhaps amid an update.                   *)
LEMMA InvDrop == ASSUME IInv, NEW h \in Handles, Drop(h) PROVE IInv'
<1>1. /\ TypeOK /\ hs[h] # None /\ hs' = [hs EXCEPT ![h] = None] /\ dir' = dir
      /\ Leaving(store, dir, hs') /\ meta' = meta
      /\ torn' = (torn \/ hs[h].update # None)
  BY DEF Drop, IInv, Leaving
<1>2. /\ hs' \in [Handles -> Handle \cup {None}] /\ hs'[h] = None
      /\ \A k \in Handles : k # h => hs'[k] = hs[k]
  BY <1>1 DEF TypeOK
<1>3. Whole' = Whole
  BY <1>1, <1>2 DEF Whole
<1>4. HandleOk(h)'
  BY <1>2 DEF HandleOk
<1>5. FilesStay(h)
  BY <1>1, <1>2, LeavingStay
<1>6. torn' \in BOOLEAN /\ (torn => torn')
  BY <1>1 DEF TypeOK
<1> QED BY <1>1, <1>2, <1>3, <1>4, <1>5, <1>6, QuietStep

(* Fields that are opened on first use.                                    *)
LEMMA EnsuredFields ==
    ASSUME IInv, NEW h \in Handles, Idle(h), NEW S \in SUBSET Names, Openable(h, S)
    PROVE  /\ Ensured(h, S) \in [Names -> Entry \cup {None}]
           /\ \A n \in S : Ensured(h, S)[n] # None
           /\ \A n \in Names : Ensured(h, S)[n] # None =>
                LET e == Ensured(h, S)[n]
                IN  \/ e = hs[h].cache[n]
                    \/ /\ n \in S /\ dir[n] # None /\ e.ino = dir[n] /\ ~e.modified
                       /\ (e.working # None) = store[dir[n]].chunked
<1>1. /\ TypeOK /\ DirInv /\ hs[h] \in Handle
      /\ hs[h].cache \in [Names -> Entry \cup {None}]
  BY HandleParts DEF IInv, TypeOK, Idle
<1>2. ASSUME NEW n \in S, hs[h].cache[n] = None
      PROVE  /\ EntryOf(dir[n]) \in Entry /\ EntryOf(dir[n]) # None
             /\ dir[n] # None /\ EntryOf(dir[n]).ino = dir[n] /\ ~EntryOf(dir[n]).modified
             /\ (EntryOf(dir[n]).working # None) = store[dir[n]].chunked
  <2>1. dir[n] # None /\ dir[n] \in Inodes /\ store[dir[n]] \in Content
    BY <1>1, <1>2 DEF Openable, TypeOK, DirInv
  <2> QED BY <2>1, EntryOfFile
<1> QED BY <1>1, <1>2 DEF Ensured

(* What an idle handle may open is for the index that counts.              *)
LEMMA PathClean ==
    ASSUME IInv, NEW h \in Handles, Idle(h), ~hs[h].dated, NEW n \in Names, dir[n] # None
    PROVE  store[dir[n]].grid = meta
BY DEF IInv, HandleOk, DatedOk, Idle, DirInv, Clean

(* A call that opens fields, and of a writer may mark some as modified.    *)
LEMMA CacheStep ==
    ASSUME IInv, NEW h \in Handles, Idle(h), UNCHANGED <<meta, dir, store, torn>>,
           NEW S \in SUBSET hs[h].schema, Openable(h, S),
           NEW c \in [Names -> Entry \cup {None}], hs' = [hs EXCEPT ![h].cache = c],
           \A n \in Names : c[n] # None =>
              LET e == Ensured(h, S)[n]
              IN  /\ e # None
                  /\ c[n].ino = e.ino /\ c[n].working = e.working
                  /\ \/ c[n].modified = e.modified
                     \/ h \in Writers /\ c[n].working # None
    PROVE  IInv'
<1> DEFINE x == [hs[h] EXCEPT !.cache = c]
<1>1. /\ TypeOK /\ DirInv /\ hs[h] \in Handle /\ hs[h] # None /\ hs[h].update = None
      /\ HandleOk(h) /\ S \subseteq Names
  BY HandleParts DEF IInv, TypeOK, Idle
<1>2. hs' = [hs EXCEPT ![h] = x]
  OBVIOUS
<1>3. /\ x \in Handle /\ x.cache = c /\ x.grid = hs[h].grid /\ x.schema = hs[h].schema
      /\ x.update = hs[h].update /\ x.dated = hs[h].dated /\ x.failed = hs[h].failed
      /\ x.blind = hs[h].blind
  BY <1>1, CacheEdited
<1> HIDE DEF x
<1>4. /\ hs' \in [Handles -> Handle \cup {None}] /\ hs'[h] = x
      /\ \A k \in Handles : k # h => hs'[k] = hs[k]
  BY <1>1, <1>2, <1>3 DEF TypeOK
<1>5. Whole' = Whole
  BY <1>1, <1>3, <1>4 DEF Whole
<1>6. ASSUME NEW n \in Names, c[n] # None
      PROVE  LET e == Ensured(h, S)[n]
             IN  /\ e # None
                 /\ c[n].ino = e.ino /\ c[n].working = e.working
                 /\ \/ c[n].modified = e.modified
                    \/ h \in Writers /\ c[n].working # None
                 /\ \/ hs[h].cache[n] # None /\ e = hs[h].cache[n]
                    \/ /\ n \in S /\ dir[n] # None /\ e.ino = dir[n] /\ ~e.modified
                       /\ (e.working # None) = store[dir[n]].chunked
  BY <1>1, <1>6, EnsuredFields
<1>7. CachedOk(h)'
  <2> SUFFICES ASSUME NEW n \in Names, c[n] # None
               PROVE  /\ store[c[n].ino] # None
                      /\ c[n].modified => c[n].working # None
                      /\ ~hs[h].dated => store[c[n].ino].grid = meta
    BY <1>3, <1>4 DEF CachedOk
  <2>1. CASE hs[h].cache[n] # None /\ Ensured(h, S)[n] = hs[h].cache[n]
    BY <1>1, <1>6, <2>1 DEF HandleOk, CachedOk
  <2>2. CASE /\ n \in S /\ dir[n] # None /\ Ensured(h, S)[n].ino = dir[n]
             /\ ~Ensured(h, S)[n].modified
    BY <1>1, <1>6, <2>2, PathClean DEF DirInv
  <2> QED BY <1>6, <2>1, <2>2
<1>8. DatedOk(h)'
  BY <1>1, <1>3, <1>4, <1>5 DEF HandleOk, DatedOk
<1>9. CASE h \in Writers
  <2>1. ~hs[h].blind => OnPath(h)'
    <3> SUFFICES ASSUME ~hs[h].blind, NEW n \in Names, c[n] # None
                 PROVE  /\ dir[n] = c[n].ino
                        /\ (c[n].working # None) = store[dir[n]].chunked
                        /\ n \in hs[h].schema
      BY <1>3, <1>4 DEF OnPath
    <3> QED BY <1>1, <1>6, <1>9 DEF HandleOk, WriterOk, OnPath
  <2>2. Listed(h)' /\ UpdateOk(h)'
    BY <1>1, <1>3, <1>4, <1>9 DEF HandleOk, WriterOk, Listed, UpdateOk, Present
  <2>3. HandleOk(h)'
    BY <1>1, <1>3, <1>4, <1>7, <1>8, <1>9, <2>1, <2>2 DEF HandleOk, WriterOk
  <2> QED BY <1>1, <1>4, <1>5, <2>3, QuietStep, StoreStays DEF TypeOK
<1>10. CASE h \notin Writers
  <2>1. ReaderOk(h)'
    BY <1>1, <1>3, <1>4, <1>6, <1>10 DEF HandleOk, ReaderOk
  <2>2. HandleOk(h)'
    BY <1>7, <1>8, <1>10, <2>1 DEF HandleOk
  <2> QED BY <1>1, <1>4, <1>5, <2>2, QuietStep, StoreStays DEF TypeOK
<1> QED BY <1>9, <1>10

(* read_dataset                                                            *)
LEMMA InvRead == ASSUME IInv, NEW h \in Handles, Read(h) PROVE IInv'
<1>1. PICK S \in SUBSET hs[h].schema :
        Openable(h, S) /\ hs' = [hs EXCEPT ![h].cache = Ensured(h, S)]
  BY DEF Read
<1>2. Idle(h) /\ UNCHANGED <<meta, dir, store, torn>>
  BY DEF Read
<1>3. S \in SUBSET Names
  BY <1>2, HandleParts DEF IInv, TypeOK, Idle
<1>4. Ensured(h, S) \in [Names -> Entry \cup {None}]
  BY <1>1, <1>2, <1>3, EnsuredFields
<1>5. PICK c \in [Names -> Entry \cup {None}] : c = Ensured(h, S)
  BY <1>4
<1> QED BY <1>1, <1>2, <1>5, CacheStep

(* update_dataset_field_header                                             *)
LEMMA InvUpdateHeader == ASSUME IInv, NEW h \in Handles, UpdateHeader(h) PROVE IInv'
<1>1. PICK n \in hs[h].schema :
        /\ Openable(h, {n})
        /\ hs' = [hs EXCEPT ![h].cache = [Ensured(h, {n}) EXCEPT
                    ![n].modified = (@ \/ Ensured(h, {n})[n].working # None)]]
  BY DEF UpdateHeader
<1>2. Idle(h) /\ h \in Writers /\ UNCHANGED <<meta, dir, store, torn>>
  BY DEF UpdateHeader, Writes
<1>3. n \in Names
  BY <1>2, HandleParts DEF IInv, TypeOK, Idle
<1>4. PICK S \in SUBSET hs[h].schema : S = {n}
  OBVIOUS
<1> DEFINE E == Ensured(h, S)
           b == E[n].modified \/ E[n].working # None
           c0 == [E EXCEPT ![n] = [E[n] EXCEPT !.modified = b]]
<1>5. E \in [Names -> Entry \cup {None}] /\ E[n] \in Entry
  BY <1>1, <1>2, <1>3, <1>4, EnsuredFields, SMTT(30)
<1>6. hs' = [hs EXCEPT ![h].cache = c0]
  BY <1>1, <1>4
<1>7. b \in BOOLEAN
  BY <1>5, EntryParts
<1> HIDE DEF E
<1>8. /\ [E[n] EXCEPT !.modified = b] \in Entry
      /\ [E[n] EXCEPT !.modified = b].ino = E[n].ino
      /\ [E[n] EXCEPT !.modified = b].working = E[n].working
      /\ [E[n] EXCEPT !.modified = b].modified = b
  <2> HIDE DEF b
  <2> QED BY <1>5, <1>7 DEF Entry
<1>9. c0 \in [Names -> Entry \cup {None}]
  BY <1>3, <1>5, <1>8
<1>10. \A m \in Names : c0[m] # None =>
          /\ E[m] # None
          /\ c0[m].ino = E[m].ino /\ c0[m].working = E[m].working
          /\ \/ c0[m].modified = E[m].modified
             \/ h \in Writers /\ c0[m].working # None
  BY <1>2, <1>3, <1>5, <1>8, EntryParts
<1> HIDE DEF c0
<1>11. PICK c \in [Names -> Entry \cup {None}] : c = c0
  BY <1>9
<1>12. \A m \in Names : c[m] # None =>
          LET e == Ensured(h, S)[m]
          IN  /\ e # None
              /\ c[m].ino = e.ino /\ c[m].working = e.working
              /\ \/ c[m].modified = e.modified
                 \/ h \in Writers /\ c[m].working # None
  BY <1>10, <1>11 DEF E
<1>13. Openable(h, S) /\ hs' = [hs EXCEPT ![h].cache = c]
  BY <1>1, <1>4, <1>6, <1>11
<1> QED BY <1>2, <1>12, <1>13, CacheStep

(* write_dataset: columns go to decoded copies or to files that are on     *)
(* their path.                                                             *)
LEMMA InvWriteDataset ==
    ASSUME IInv, OneWriter, NEW h \in Handles, WriteDataset(h) PROVE IInv'
<1>1. PICK S \in SUBSET Names : \E v \in [S -> Vals], done \in SUBSET Names : Write(h, S, v, done)
  BY DEF WriteDataset
<1>2. PICK v \in [S -> Vals], done \in SUBSET Names : Write(h, S, v, done)
  BY <1>1
<1> DEFINE E == Ensured(h, S)
           inPlace(i) == {n \in done : E[n].ino = i /\ E[n].working = None}
           c0 == [n \in Names |->
                    IF n \in done /\ E[n].working # None
                    THEN [E[n] EXCEPT !.working = v[Leaf[n]], !.modified = TRUE]
                    ELSE E[n]]
<1>3. /\ Writes(h) /\ S \subseteq hs[h].schema /\ Openable(h, S)
      /\ done \subseteq Targets(S, E)
      /\ hs' = [hs EXCEPT ![h].cache = c0]
      /\ store' = [i \in Inodes |->
                     IF inPlace(i) = {} THEN store[i]
                     ELSE [store[i] EXCEPT !.val = v[Leaf[CHOOSE n \in inPlace(i) : TRUE]]]]
      /\ UNCHANGED <<meta, dir, torn>>
  BY <1>2 DEF Write
<1>4. /\ Idle(h) /\ TypeOK /\ DirInv
      /\ hs[h] \in Handle /\ hs[h].update = None
      /\ hs[h].grid = meta /\ (hs[h].blind => Faults)
      /\ \/ hs[h].failed
         \/ hs[h].schema = Present(dir)
         \/ hs[h].blind /\ hs[h].schema = {}
  BY <1>3, WriterKnows DEF Writes, IInv
<1>5. /\ E \in [Names -> Entry \cup {None}]
      /\ \A n \in Names : E[n] # None =>
           LET e == E[n]
           IN  \/ e = hs[h].cache[n]
               \/ /\ n \in S /\ dir[n] # None /\ e.ino = dir[n] /\ ~e.modified
                  /\ (e.working # None) = store[dir[n]].chunked
  BY <1>3, <1>4, EnsuredFields
<1> HIDE DEF E
<1>6. ASSUME NEW n \in Names, E[n] # None
      PROVE  /\ E[n] \in Entry
             /\ store[E[n].ino] \in Content
             /\ E[n].modified => E[n].working # None
             /\ Whole => store[E[n].ino].grid = meta
             /\ ~hs[h].blind =>
                  /\ dir[n] = E[n].ino
                  /\ (E[n].working # None) = store[dir[n]].chunked
                  /\ n \in hs[h].schema
  <2>1. E[n] \in Entry
    BY <1>5, <1>6
  <2>2. CASE E[n] = hs[h].cache[n]
    <3> DEFINE e == hs[h].cache[n]
    <3>1. /\ store[e.ino] \in Content
          /\ e.modified => e.working # None
          /\ Whole => store[e.ino].grid = meta
          /\ ~hs[h].blind =>
               /\ n \in hs[h].schema /\ dir[n] = e.ino
               /\ (e.working # None) = store[dir[n]].chunked
      BY <1>3, <1>6, <2>2, WriterKnows
    <3>2. E[n] = e
      BY <2>2
    <3> HIDE DEF e
    <3> QED BY <2>1, <3>1, <3>2
  <2>3. CASE /\ n \in S /\ dir[n] # None /\ E[n].ino = dir[n] /\ ~E[n].modified
             /\ (E[n].working # None) = store[dir[n]].chunked
    BY <1>3, <1>4, <2>1, <2>3 DEF TypeOK, DirInv, Clean
  <2> QED BY <1>5, <1>6, <2>2, <2>3
<1>7. \A n \in done : E[n] # None /\ v[Leaf[n]] \in Vals
  BY <1>3 DEF Targets
<1>8. ASSUME NEW n \in Names
      PROVE  /\ c0[n] \in Entry \cup {None}
             /\ c0[n] # None => /\ E[n] # None /\ c0[n].ino = E[n].ino
                                /\ (c0[n].working # None) = (E[n].working # None)
                                /\ c0[n].modified => c0[n].working # None
  <2>1. CASE n \in done /\ E[n].working # None
    <3>1. c0[n] = [E[n] EXCEPT !.working = v[Leaf[n]], !.modified = TRUE]
      BY <2>1
    <3>2. E[n] \in Entry /\ v[Leaf[n]] \in Vals /\ E[n] # None
      BY <1>6, <1>7, <2>1
    <3>3. v[Leaf[n]] # None
      BY <3>2, DatasetAssumption
    <3> HIDE DEF c0
    <3> QED BY <2>1, <3>1, <3>2, <3>3 DEF Entry
  <2>2. CASE ~(n \in done /\ E[n].working # None)
    BY <1>5, <1>6, <2>2
  <2> QED BY <2>1, <2>2
<1>9. ASSUME NEW i \in Inodes
      PROVE  /\ store'[i] \in Content \cup {None}
             /\ store[i] # None => /\ store'[i] # None
                                   /\ store'[i].grid = store[i].grid
                                   /\ store'[i].chunked = store[i].chunked
  <2>1. CASE inPlace(i) = {}
    BY <1>3, <1>4, <2>1 DEF TypeOK
  <2>2. CASE inPlace(i) # {}
    <3>1. PICK m \in done : E[m].ino = i /\ m = (CHOOSE n \in inPlace(i) : TRUE)
      BY <2>2
    <3>2. store'[i] = [store[i] EXCEPT !.val = v[Leaf[m]]]
      BY <1>3, <2>2, <3>1
    <3>3. store[i] \in Content /\ v[Leaf[m]] \in Vals
      BY <1>6, <1>7, <3>1
    <3>4. store'[i] \in Content /\ store'[i].grid = store[i].grid
          /\ store'[i].chunked = store[i].chunked
      BY <3>2, <3>3 DEF Content
    <3> QED BY <3>4, NoneAssumption
  <2> QED BY <2>1, <2>2
<1>10. c0 \in [Names -> Entry \cup {None}] /\ store' \in [Inodes -> Content \cup {None}]
  BY <1>3, <1>8, <1>9
<1> DEFINE x0 == [hs[h] EXCEPT !.cache = c0]
<1> HIDE DEF c0, inPlace
<1>11. /\ x0 \in Handle /\ x0.cache = c0 /\ x0.grid = hs[h].grid /\ x0.schema = hs[h].schema
       /\ x0.update = hs[h].update /\ x0.dated = hs[h].dated /\ x0.failed = hs[h].failed
       /\ x0.blind = hs[h].blind
  BY <1>4, <1>10, CacheEdited
<1>12. hs' = [hs EXCEPT ![h] = x0]
  BY <1>3
<1> HIDE DEF x0
<1>13. PICK x \in Handle : x = x0
  BY <1>11
<1>14. FieldsRight(x)
  <2> SUFFICES ASSUME NEW n \in Names, c0[n] # None
               PROVE  /\ store'[c0[n].ino] # None
                      /\ c0[n].modified => c0[n].working # None
                      /\ Whole => store'[c0[n].ino].grid = meta
                      /\ ~x.blind =>
                           /\ dir[n] = c0[n].ino
                           /\ (c0[n].working # None) = store'[dir[n]].chunked
                           /\ n \in x.schema
    <3>1. dir' = dir /\ meta' = meta /\ x.cache = c0
      BY <1>3, <1>11, <1>13
    <3> QED BY <3>1 DEF FieldsRight
  <2>1. E[n].ino \in Inodes /\ store[E[n].ino] # None
    BY <1>6, <1>8, EntryParts, NoneAssumption
  <2> QED BY <1>6, <1>8, <1>9, <1>11, <1>13, <2>1
<1>15. FilesRight
  <2>1. \A n \in Names : dir[n] # None =>
          /\ dir[n] \in Inodes /\ store[dir[n]] # None
          /\ Whole => store[dir[n]].grid = meta
    BY <1>4 DEF TypeOK, DirInv, Clean
  <2> QED BY <1>3, <1>4, <1>9, <1>10, <2>1 DEF FilesRight, TypeOK, DirInv, Apart
<1>16. \A k \in Handles \ {h} : hs[k] # None => Keeps(Opened(hs[k]))
  BY <1>9, OpenedStored DEF Keeps
<1> QED BY <1>3, <1>4, <1>11, <1>12, <1>13, <1>14, <1>15, <1>16, WriterStep

----------------------------------------------------------------------------
(* Updates.                                                                *)

(* A step of the writer that changes paths.                                *)
LEMMA PathStep ==
    ASSUME IInv, OneWriter, NEW h \in Handles, h \in Writers,
           \A k \in Handles : k # h => hs'[k] = hs[k],
           \A k \in Handles \ {h} : hs[k] # None => Keeps(Opened(hs[k])),
           TypeOK', DirInv', HandleOk(h)', meta' = meta, Whole => Whole'
    PROVE  IInv'
<1>1. ASSUME NEW k \in Handles, k # h PROVE HandleOk(k)'
  <2>1. HandleOk(k) /\ hs'[k] = hs[k] /\ TypeOK /\ k \notin Writers
    BY <1>1 DEF IInv, OneWriter
  <2>2. CASE hs[k] = None
    BY <2>1, <2>2 DEF HandleOk
  <2>3. CASE hs[k] # None
    <3>1. Keeps(Opened(hs[k]))
      BY <1>1, <2>3
    <3> QED BY <2>1, <2>3, <3>1, ReaderLeft
  <2> QED BY <2>2, <2>3
<1> QED BY <1>1 DEF IInv

(* What is known amid an update.                                           *)
LEMMA UpdateKnows ==
    ASSUME IInv, NEW h \in Handles, hs[h] # None, hs[h].update # None
    PROVE  /\ TypeOK /\ DirInv /\ hs[h] \in Handle /\ h \in Writers
           /\ hs[h].update \in Work /\ hs[h].update.todo \subseteq hs[h].update.data
           /\ hs[h].update.data \subseteq Names /\ hs[h].schema \subseteq Names
           /\ hs[h].cache = NoCache /\ ~Whole
           /\ hs[h].grid = meta /\ meta # None /\ meta \in Grids
           /\ hs[h].failed \/ hs[h].dated => torn
           /\ hs[h].blind \in BOOLEAN /\ (hs[h].blind => Faults)
           /\ ~hs[h].failed /\ ~hs[h].blind
                => Present(dir) \subseteq hs[h].schema \cup Written(h)
           /\ \A n \in Written(h) : dir[n] # None => store[dir[n]].grid = meta
<1>1. TypeOK /\ DirInv /\ hs[h] \in Handle /\ HandleOk(h)
  BY DEF IInv, TypeOK
<1>2. h \in Writers /\ WriterOk(h) /\ UpdateOk(h)
  BY <1>1 DEF HandleOk, ReaderOk, WriterOk
<1>3. hs[h].update \in Work /\ hs[h].grid \in Grids /\ hs[h].schema \subseteq Names
  BY <1>1, HandleParts
<1>4. hs[h].update.data \subseteq Names
  BY <1>3 DEF Work
<1>5. ~Whole
  BY DEF Whole
<1>6. /\ hs[h].grid = meta /\ meta # None /\ (hs[h].failed \/ hs[h].dated => torn)
      /\ (hs[h].blind => Faults) /\ hs[h].cache = NoCache
      /\ hs[h].update.todo \subseteq hs[h].update.data
      /\ (~hs[h].failed /\ ~hs[h].blind
            => Present(dir) \subseteq hs[h].schema \cup Written(h))
      /\ \A n \in Written(h) : dir[n] # None => store[dir[n]].grid = meta
  BY <1>2 DEF WriterOk, UpdateOk
<1>7. hs[h].blind \in BOOLEAN
  BY <1>1 DEF Handle
<1> QED BY <1>1, <1>2, <1>3, <1>4, <1>5, <1>6, <1>7

(* An update begins: the new index is there, every other handle is dated.  *)
LEMMA InvUpdateBegin ==
    ASSUME IInv, OneWriter, NEW h \in Handles, UpdateBegin(h) PROVE IInv'
<1>1. PICK g \in Grids, data \in SUBSET Names :
         /\ meta' = g
         /\ Leaving(store, dir,
                    [k \in Handles |->
                       IF hs[k] = None THEN None
                       ELSE IF k # h THEN [hs[k] EXCEPT !.dated = TRUE]
                       ELSE [hs[h] EXCEPT !.grid = g, !.cache = NoCache,
                                          !.update = [todo |-> data, data |-> data]]])
  BY DEF UpdateBegin
<1>2. Writes(h) /\ torn' = torn
  BY DEF UpdateBegin
<1>3. /\ TypeOK /\ DirInv /\ hs[h] \in Handle /\ hs[h] # None /\ hs[h].update = None
      /\ h \in Writers /\ HandleOk(h) /\ g # None
  BY <1>2, WriterKnows, DatasetAssumption DEF IInv
<1> DEFINE u == [todo |-> data, data |-> data]
           x == [hs[h] EXCEPT !.grid = g, !.cache = NoCache, !.update = u]
<1>4. /\ hs'[h] = x
      /\ \A k \in Handles : k # h =>
           hs'[k] = IF hs[k] = None THEN None ELSE [hs[k] EXCEPT !.dated = TRUE]
      /\ DOMAIN hs' = Handles /\ hs' = [k \in Handles |-> hs'[k]]
      /\ dir' = dir /\ Leaving(store, dir, hs')
  BY <1>1, <1>3 DEF Leaving
<1>5. u \in Work /\ u # None /\ u.todo = data /\ u.data = data
      /\ NoCache \in [Names -> Entry \cup {None}]
  BY NoneAssumption DEF Work, NoCache
<1> HIDE DEF u
<1>6. /\ x \in Handle /\ x # None
      /\ x.grid = g /\ x.cache = NoCache /\ x.update = u /\ x.schema = hs[h].schema
      /\ x.dated = hs[h].dated /\ x.failed = hs[h].failed /\ x.blind = hs[h].blind
  <2>1. /\ x \in Handle
        /\ x.grid = g /\ x.cache = NoCache /\ x.update = u /\ x.schema = hs[h].schema
        /\ x.dated = hs[h].dated /\ x.failed = hs[h].failed /\ x.blind = hs[h].blind
    BY <1>3, <1>5 DEF Handle
  <2> QED BY <2>1, HandleParts
<1> HIDE DEF x
<1>7. ASSUME NEW k \in Handles, k # h, hs[k] # None
      PROVE  /\ hs'[k] \in Handle /\ hs'[k] # None
             /\ hs'[k] = [hs[k] EXCEPT !.dated = TRUE] /\ hs'[k].cache = hs[k].cache
  <2> DEFINE x0 == hs[k]
             y == [x0 EXCEPT !.dated = TRUE]
  <2>1. x0 \in Handle /\ hs'[k] = y /\ TRUE \in BOOLEAN
    BY <1>3, <1>4, <1>7 DEF TypeOK
  <2> HIDE DEF x0
  <2>2. y \in Handle /\ y # None /\ y.cache = x0.cache
    BY <2>1, DatedEdited, Zenon
  <2> HIDE DEF y
  <2>3. hs'[k] \in Handle /\ hs'[k] # None /\ hs'[k].cache = x0.cache
    BY <2>1, <2>2
  <2> QED BY <2>1, <2>3 DEF x0, y
<1>8. hs' \in [Handles -> Handle \cup {None}]
  <2>1. \A k \in Handles : hs'[k] \in Handle \cup {None}
    BY <1>4, <1>6, <1>7
  <2> QED BY <1>4, <2>1
<1>9. /\ store' \in [Inodes -> Content \cup {None}]
      /\ \A n \in Names : dir[n] \in Inodes => store'[dir[n]] = store[dir[n]]
      /\ \A k \in Handles : hs'[k] # None => \A i \in Opened(hs'[k]) : store'[i] = store[i]
  BY <1>3, <1>4, LeavingKeeps DEF TypeOK
<1>10. TypeOK'
  BY <1>1, <1>2, <1>3, <1>4, <1>8, <1>9 DEF TypeOK
<1>11. ~Whole'
  BY <1>4, <1>5, <1>6 DEF Whole
<1>12. DirInv'
  BY <1>1, <1>3, <1>4, <1>9, <1>11 DEF DirInv, TypeOK, Apart
<1>13. ASSUME NEW k \in Handles, k # h PROVE HandleOk(k)'
  <2>1. CASE hs[k] = None
    BY <1>4, <1>13, <2>1 DEF HandleOk
  <2>2. CASE hs[k] # None
    <3>1. Opened(hs'[k]) = Opened(hs[k])
      BY <1>7, <1>13, <2>2 DEF Opened
    <3>2. Keeps(Opened(hs[k]))
      BY <1>7, <1>9, <1>13, <2>2, <3>1, OpenedStored DEF Keeps
    <3> QED BY <1>3, <1>7, <1>13, <2>2, <3>2, ReaderDated DEF IInv, OneWriter
  <2> QED BY <2>1, <2>2
<1>14. HandleOk(h)'
  <2>1. CachedOk(h)' /\ OnPath(h)'
    BY <1>4, <1>6 DEF CachedOk, OnPath, NoCache
  <2>2. DatedOk(h)' /\ Listed(h)'
    BY <1>1, <1>3, <1>4, <1>5, <1>6 DEF DatedOk, Listed
  <2>3. UpdateOk(h)'
    <3>1. Written(h)' = {}
      BY <1>4, <1>5, <1>6 DEF Written
    <3>2. ~hs'[h].failed /\ ~hs'[h].blind => Present(dir) \subseteq hs'[h].schema
      BY <1>2, <1>4, <1>6, WriterKnows
    <3>3. Present(dir)' = Present(dir)
      BY <1>4 DEF Present
    <3> QED BY <1>4, <1>5, <1>6, <3>1, <3>2, <3>3 DEF UpdateOk
  <2>4. WriterOk(h)'
    BY <1>1, <1>2, <1>3, <1>4, <1>6, <2>1, <2>2, <2>3 DEF WriterOk, HandleOk
  <2> QED BY <1>3, <2>1, <2>2, <2>4 DEF HandleOk
<1> QED BY <1>10, <1>12, <1>13, <1>14 DEF IInv

(* An error in a column ends the call.                                     *)
LEMMA InvUpdateFails == ASSUME IInv, NEW h \in Handles, UpdateFails(h) PROVE IInv'
<1>1. /\ hs[h] # None /\ hs[h].update # None /\ torn' = TRUE
      /\ hs' = [hs EXCEPT ![h].update = None, ![h].dated = TRUE, ![h].failed = TRUE]
      /\ UNCHANGED <<meta, dir, store>>
  BY DEF UpdateFails
<1>2. /\ TypeOK /\ hs[h] \in Handle /\ h \in Writers /\ ~Whole
      /\ hs[h].cache = NoCache /\ hs[h].grid = meta /\ meta # None /\ Faults
  BY <1>1, UpdateKnows DEF UpdateFails
<1> DEFINE x == [hs[h] EXCEPT !.update = None, !.dated = TRUE, !.failed = TRUE]
<1>3. /\ x \in Handle /\ x.update = None /\ x.dated /\ x.failed
      /\ x.cache = NoCache /\ x.grid = meta
  BY <1>2 DEF Handle
<1>4. /\ hs' \in [Handles -> Handle \cup {None}] /\ hs'[h] = x
      /\ \A k \in Handles : k # h => hs'[k] = hs[k]
  BY <1>1, <1>2, <1>3 DEF TypeOK
<1> HIDE DEF x
<1>5. Whole' = Whole
  BY <1>1, <1>2 DEF Whole
<1>6. HandleOk(h)'
  <2>1. CachedOk(h)' /\ OnPath(h)' /\ DatedOk(h)' /\ Listed(h)' /\ UpdateOk(h)'
    BY <1>3, <1>4 DEF CachedOk, OnPath, NoCache, DatedOk, Listed, UpdateOk
  <2> QED BY <1>1, <1>2, <1>3, <1>4, <2>1 DEF HandleOk, WriterOk
<1> QED BY <1>1, <1>4, <1>5, <1>6, QuietStep, StoreStays

(* One column of the update, for the new index.                            *)
LEMMA InvUpdateColumn ==
    ASSUME IInv, OneWriter, NEW h \in Handles, UpdateColumn(h) PROVE IInv'
<1>1. PICK n \in hs[h].update.todo, v \in Vals :
        Leaving([store EXCEPT ![Fresh] =
                   [grid |-> hs[h].grid, chunked |-> FALSE, val |-> v]],
                [dir EXCEPT ![n] = Fresh],
                [hs EXCEPT ![h].update.todo = hs[h].update.todo \ {n}])
  BY DEF UpdateColumn
<1>2. hs[h] # None /\ hs[h].update # None /\ Free # {} /\ UNCHANGED <<meta, torn>>
  BY DEF UpdateColumn
<1>3. /\ TypeOK /\ DirInv /\ hs[h] \in Handle /\ h \in Writers
      /\ hs[h].update \in Work /\ hs[h].update.todo \subseteq hs[h].update.data
      /\ hs[h].update.data \subseteq Names /\ hs[h].schema \subseteq Names
      /\ hs[h].cache = NoCache /\ ~Whole
      /\ hs[h].grid = meta /\ meta # None /\ meta \in Grids
      /\ (hs[h].failed \/ hs[h].dated => torn) /\ (hs[h].blind => Faults)
  BY <1>2, UpdateKnows
<1>4. n \in Names /\ n \in hs[h].update.data
  BY <1>1, <1>3
<1> DEFINE s == [store EXCEPT ![Fresh] = [grid |-> hs[h].grid, chunked |-> FALSE, val |-> v]]
           d == [dir EXCEPT ![n] = Fresh]
           u == [hs[h].update EXCEPT !.todo = hs[h].update.todo \ {n}]
           x == [hs[h] EXCEPT !.update = u]
<1>5. /\ u \in Work /\ u # None
      /\ u.todo = hs[h].update.todo \ {n} /\ u.data = hs[h].update.data
  <2>1. /\ u \in Work
        /\ u.todo = hs[h].update.todo \ {n} /\ u.data = hs[h].update.data
    BY <1>3 DEF Work
  <2> QED BY <2>1, NoneAssumption
<1>6. Leaving(s, d, hs') /\ hs' = [hs EXCEPT ![h] = x]
  BY <1>1, <1>3 DEF Leaving
<1> HIDE DEF u
<1>7. /\ x \in Handle /\ x # None /\ x.update = u /\ x.grid = meta /\ x.cache = NoCache
      /\ x.schema = hs[h].schema /\ x.dated = hs[h].dated /\ x.failed = hs[h].failed
      /\ x.blind = hs[h].blind
  BY <1>3, <1>5, UpdateEdited
<1> HIDE DEF x
<1>8. /\ hs' \in [Handles -> Handle \cup {None}] /\ hs'[h] = x
      /\ \A k \in Handles : k # h => hs'[k] = hs[k]
  BY <1>3, <1>6, <1>7 DEF TypeOK
<1>9. FilesFor(s, d)
  <2>1. [grid |-> hs[h].grid, chunked |-> FALSE, val |-> v] \in Content
    BY <1>3 DEF Content
  <2> QED BY <1>2, <1>3, <1>4, <2>1, FilesMade
<1>10. /\ s[Fresh] # None /\ s[Fresh].grid = meta /\ Fresh \in Inodes /\ Fresh # None
       /\ \A m \in Names : d[m] = IF m = n THEN Fresh ELSE dir[m]
  <2>1. Fresh \in Inodes /\ Fresh # None
    BY <1>2, FreshFile
  <2> DEFINE c == [grid |-> hs[h].grid, chunked |-> FALSE, val |-> v]
  <2>2. c \in Content /\ c.grid = meta
    BY <1>3 DEF Content
  <2>3. s = [store EXCEPT ![Fresh] = c]
    OBVIOUS
  <2> HIDE DEF c, s
  <2>4. s[Fresh] = c /\ c # None
    BY <1>3, <2>1, <2>2, <2>3, NoneAssumption DEF TypeOK
  <2> QED BY <1>3, <1>4, <2>1, <2>2, <2>4 DEF TypeOK
<1> HIDE DEF s, d
<1>11. /\ s \in [Inodes -> Content \cup {None}] /\ d \in [Names -> Inodes \cup {None}]
       /\ \A i \in Inodes : store[i] # None => s[i] = store[i]
       /\ Apart(d) /\ \A m \in Names : d[m] # None => s[d[m]] # None
  BY <1>9 DEF FilesFor
<1>12. /\ dir' = d /\ store' \in [Inodes -> Content \cup {None}]
       /\ \A m \in Names : d[m] \in Inodes => store'[d[m]] = s[d[m]]
  BY <1>6, <1>11, LeavingKeeps
<1>13. TypeOK'
  BY <1>2, <1>3, <1>8, <1>11, <1>12 DEF TypeOK
<1>14. ~Whole'
  BY <1>5, <1>7, <1>8 DEF Whole
<1>15. DirInv'
  BY <1>2, <1>3, <1>11, <1>12, <1>14 DEF DirInv, Apart
<1>16. \A k \in Handles \ {h} : hs[k] # None => Keeps(Opened(hs[k]))
  <2>1. \A i \in Inodes : store[i] # None => s[i] # None /\ s[i].grid = store[i].grid
    BY <1>11
  <2> QED BY <1>6, <1>8, <1>11, <2>1, ReadersKeep
<1>17. HandleOk(h)'
  <2>1. CachedOk(h)' /\ OnPath(h)'
    BY <1>7, <1>8 DEF CachedOk, OnPath, NoCache
  <2>2. DatedOk(h)' /\ Listed(h)'
    BY <1>2, <1>3, <1>5, <1>7, <1>8 DEF DatedOk, Listed
  <2>3. Written(h)' = Written(h) \cup {n}
    BY <1>3, <1>4, <1>5, <1>7, <1>8 DEF Written
  <2>4. ASSUME NEW m \in Written(h)', d[m] # None
        PROVE  store'[d[m]].grid = meta
    <3>1. m \in Names
      BY <1>3, <1>4, <2>3 DEF Written
    <3>2. CASE m = n
      BY <1>4, <1>10, <1>12, <3>2
    <3>3. CASE m # n
      <4>1. d[m] = dir[m] /\ store[dir[m]].grid = meta /\ store[dir[m]] # None
        BY <1>2, <1>3, <1>10, <2>3, <2>4, <3>1, <3>3, UpdateKnows DEF DirInv
      <4> QED BY <1>11, <1>12, <2>4, <3>1, <4>1
    <3> QED BY <3>2, <3>3
  <2>5. Present(d) \subseteq Present(dir) \cup {n}
    BY <1>10 DEF Present
  <2>6. ~hs[h].failed /\ ~hs[h].blind => Present(d) \subseteq hs[h].schema \cup Written(h)'
    BY <1>2, <2>3, <2>5, UpdateKnows
  <2>7. Present(dir)' = Present(d)
    BY <1>12 DEF Present
  <2>8. u.todo \subseteq u.data
    BY <1>3, <1>5
  <2>9. UpdateOk(h)'
    BY <1>2, <1>7, <1>8, <1>12, <2>4, <2>6, <2>7, <2>8 DEF UpdateOk
  <2> QED BY <1>2, <1>3, <1>7, <1>8, <2>1, <2>2, <2>9 DEF HandleOk, WriterOk
<1> QED BY <1>2, <1>3, <1>8, <1>13, <1>15, <1>16, <1>17, PathStep

(* The update ends: what it did not write is gone, what is left is for the *)
(* new index, and what an earlier update left half done is made good.      *)
LEMMA InvUpdateEnd ==
    ASSUME IInv, OneWriter, NEW h \in Handles, UpdateEnd(h) PROVE IInv'
<1>0. /\ hs[h] # None /\ hs[h].update # None /\ hs[h].update.todo = {} /\ meta' = meta
  BY DEF UpdateEnd
<1> DEFINE E(left) == [n \in Names |->
                         IF n \in (hs[h].schema \ hs[h].update.data) \ left THEN None
                         ELSE dir[n]]
           H(left) == hs[h].failed \/ hs[h].blind \/ left # {}
           f(half) == [hs EXCEPT ![h].update = None, ![h].dated = half]
           z(half) == [hs[h] EXCEPT !.update = None, !.dated = half]
<1>01. PICK left \in SUBSET Names :
          /\ \E after \in Relisted(f(H(left)), h, E(left)) : Leaving(store, E(left), after)
          /\ torn' = H(left)
  BY DEF UpdateEnd
<1>02. PICK d : d = E(left)
  OBVIOUS
<1>03. PICK half : half = H(left)
  OBVIOUS
<1>1. /\ torn' = half
      /\ \E after \in Relisted(f(half), h, d) : Leaving(store, d, after)
  BY <1>01, <1>02, <1>03
<1>2. /\ TypeOK /\ DirInv /\ hs[h] \in Handle /\ h \in Writers
      /\ hs[h].update.data \subseteq Names /\ hs[h].schema \subseteq Names
      /\ hs[h].cache = NoCache /\ ~Whole
      /\ hs[h].grid = meta /\ meta # None /\ meta \in Grids
      /\ hs[h].blind => Faults
      /\ hs[h].failed \in BOOLEAN /\ hs[h].blind \in BOOLEAN
  BY <1>0, UpdateKnows, HandleParts
<1>3. half \in BOOLEAN /\ (~half => ~hs[h].failed /\ ~hs[h].blind /\ left = {})
      /\ (hs[h].failed => half)
  BY <1>2, <1>03
<1>4. /\ z(half) \in Handle /\ z(half).update = None /\ z(half).grid = meta
      /\ z(half).cache = NoCache /\ z(half).dated = half
      /\ z(half).failed = hs[h].failed /\ z(half).blind = hs[h].blind
  BY <1>2, <1>3 DEF Handle
<1>41. f(half) = [hs EXCEPT ![h] = z(half)]
  OBVIOUS
<1> HIDE DEF H, E, f, z
<1>5. PICK x \in Handle :
        /\ Leaving(store, d, hs') /\ hs' = [hs EXCEPT ![h] = x]
        /\ x.update = None /\ x.grid = meta /\ x.cache = NoCache
        /\ x.dated = half /\ x.failed = hs[h].failed
        /\ x.blind => Faults
        /\ x.schema = Present(d) \/ (x.blind /\ x.schema = {})
  <2>1. PICK after \in Relisted(f(half), h, d) : Leaving(store, d, after)
    BY <1>1
  <2>2. hs' = after
    BY <2>1 DEF Leaving
  <2>3. PICK y : y = z(half)
    OBVIOUS
  <2>4. PICK g : g = f(half)
    OBVIOUS
  <2>5. /\ y \in Handle /\ g = [hs EXCEPT ![h] = y] /\ after \in Relisted(g, h, d)
        /\ hs \in [Handles -> Handle \cup {None}]
    BY <1>2, <1>4, <1>41, <2>1, <2>3, <2>4 DEF TypeOK
  <2>6. PICK x \in Handle :
          /\ after = [hs EXCEPT ![h] = x]
          /\ x.cache = y.cache /\ x.grid = y.grid /\ x.update = y.update
          /\ x.dated = y.dated /\ x.failed = y.failed
          /\ \/ x.schema = Present(d) /\ x.blind = y.blind
             \/ x.schema = {} /\ x.blind /\ Faults
    <3>1. RelistedTo(after, h, y, d)
      BY <2>5, RelistedIs
    <3> QED BY <3>1 DEF RelistedTo
  <2> QED BY <1>2, <1>4, <2>1, <2>2, <2>3, <2>6
<1>6. /\ hs' \in [Handles -> Handle \cup {None}] /\ hs'[h] = x
      /\ \A k \in Handles : k # h => hs'[k] = hs[k]
  BY <1>2, <1>5 DEF TypeOK
<1>7. /\ d \in [Names -> Inodes \cup {None}]
      /\ \A n \in Names : d[n] # None =>
           d[n] = dir[n] /\ ~(n \in (hs[h].schema \ hs[h].update.data) \ left)
  BY <1>2, <1>02 DEF E, TypeOK
<1>8. /\ dir' = d /\ store' \in [Inodes -> Content \cup {None}]
      /\ \A n \in Names : d[n] \in Inodes => store'[d[n]] = store[d[n]]
  BY <1>2, <1>5, <1>7, LeavingKeeps DEF TypeOK
<1>9. \A n \in Names : d[n] # None =>
        /\ store'[d[n]] = store[d[n]] /\ store[d[n]] # None
        /\ ~half => store[d[n]].grid = meta
  <2> SUFFICES ASSUME NEW n \in Names, d[n] # None
               PROVE  /\ store'[d[n]] = store[d[n]] /\ store[d[n]] # None
                      /\ ~half => store[d[n]].grid = meta
    OBVIOUS
  <2>1. d[n] \in Inodes /\ d[n] = dir[n] /\ store[dir[n]] # None
    BY <1>2, <1>7 DEF DirInv
  <2>2. Written(h) = hs[h].update.data
    BY <1>0 DEF Written
  <2>3. ASSUME ~half PROVE store[d[n]].grid = meta
    <3>1. n \in hs[h].schema \cup Written(h)
      BY <1>0, <1>3, <2>1, <2>3, UpdateKnows DEF Present
    <3>2. n \in Written(h)
      BY <1>3, <1>7, <2>2, <2>3, <3>1
    <3> QED BY <1>0, <2>1, <3>2, UpdateKnows
  <2> QED BY <1>8, <2>1, <2>3
<1>10. TypeOK'
  BY <1>0, <1>1, <1>2, <1>3, <1>6, <1>7, <1>8 DEF TypeOK
<1>11. Apart(d)
  BY <1>2, <1>7 DEF DirInv, Apart
<1>13. DirInv'
  <2>1. Whole' => ~half
    BY <1>1 DEF Whole
  <2> QED BY <1>0, <1>2, <1>8, <1>9, <1>11, <2>1 DEF DirInv, Clean, Apart
<1>14. \A k \in Handles \ {h} : hs[k] # None => Keeps(Opened(hs[k]))
  BY <1>2, <1>5, <1>6, ReadersKeep DEF TypeOK
<1>15. \A k \in Handles : k # h /\ hs[k] # None => hs[k].update = None
  BY <1>2 DEF IInv, OneWriter, HandleOk, ReaderOk
<1>16. ~half => Whole'
  BY <1>1, <1>5, <1>6, <1>15 DEF Whole
<1>17. HandleOk(h)'
  <2>1. CachedOk(h)' /\ OnPath(h)'
    BY <1>5, <1>6 DEF CachedOk, OnPath, NoCache
  <2>2. DatedOk(h)' /\ Listed(h)' /\ UpdateOk(h)'
    BY <1>0, <1>2, <1>5, <1>6, <1>8, <1>16 DEF DatedOk, Listed, UpdateOk, Present
  <2>3. hs'[h].failed \/ hs'[h].dated => torn'
    BY <1>1, <1>3, <1>5, <1>6
  <2>4. WriterOk(h)'
    BY <1>0, <1>2, <1>5, <1>6, <2>1, <2>2, <2>3 DEF WriterOk
  <2> QED BY <1>2, <2>1, <2>2, <2>4 DEF HandleOk
<1> QED BY <1>0, <1>2, <1>6, <1>10, <1>13, <1>14, <1>17, PathStep

----------------------------------------------------------------------------
(* The directory comes and goes; handles are closed.                       *)

(* New files are free, and no two of them are the same.                    *)
LEMMA FresherFiles ==
    ASSUME NEW S \in SUBSET Names, NEW at \in Fresher(S)
    PROVE  /\ at \in [S -> Free]
           /\ \A m, n \in S : m # n => at[m] # at[n]
BY DEF Fresher, Injective

(* What a close writes back: each decoded copy to a new file at its path.  *)
SavedDir(saved, at) == [n \in Names |-> IF n \in saved THEN at[n] ELSE dir[n]]
SavedStore(h, saved, at) ==
    [i \in Inodes |->
       IF \E n \in saved : at[n] = i
       THEN LET e == hs[h].cache[CHOOSE n \in saved : at[n] = i]
            IN  [store[e.ino] EXCEPT !.val = e.working]
       ELSE store[i]]

(* The files after some of the unsaved fields were saved are right.        *)
LEMMA FilesSaved ==
    ASSUME IInv, NEW h \in Handles, Writes(h), NEW saved \in SUBSET Unsaved(h),
           NEW at \in Fresher(saved)
    PROVE  FilesFor(SavedStore(h, saved, at), SavedDir(saved, at))
<1> DEFINE s == SavedStore(h, saved, at)
           d == SavedDir(saved, at)
<1>1. /\ TypeOK /\ DirInv /\ saved \subseteq Names
      /\ at \in [saved -> Free] /\ \A m, n \in saved : m # n => at[m] # at[n]
  BY FresherFiles DEF IInv, Unsaved
<1>2. \A n \in saved : at[n] \in Inodes /\ at[n] # None /\ store[at[n]] = None
  BY <1>1, DatasetAssumption DEF Free
<1>3. ASSUME NEW n \in saved
      PROVE  /\ s[at[n]] \in Content /\ s[at[n]] # None
             /\ Whole => s[at[n]].grid = meta
  <2> DEFINE m == CHOOSE k \in saved : at[k] = at[n]
             e == hs[h].cache[m]
  <2>1. m \in saved
    OBVIOUS
  <2>2. m \in Names /\ hs[h].cache[m] # None /\ e.modified
    BY <2>1 DEF Unsaved
  <2>3. s[at[n]] = [store[e.ino] EXCEPT !.val = e.working]
    BY <1>2 DEF SavedStore
  <2> HIDE DEF m, e
  <2>4. /\ e \in Entry /\ e.working # None /\ store[e.ino] \in Content
        /\ Whole => store[e.ino].grid = meta
    <3>1. /\ hs[h].cache[m] \in Entry /\ store[hs[h].cache[m].ino] \in Content
          /\ hs[h].cache[m].modified => hs[h].cache[m].working # None
          /\ Whole => store[hs[h].cache[m].ino].grid = meta
      BY <2>2, WriterKnows
    <3> QED BY <2>2, <3>1 DEF e
  <2>5. e.working \in Vals
    BY <2>4, EntryParts, DatasetAssumption
  <2>6. s[at[n]] \in Content /\ s[at[n]].grid = store[e.ino].grid
    BY <2>3, <2>4, <2>5 DEF Content
  <2> QED BY <2>4, <2>6, NoneAssumption
<1>4. \A i \in Inodes : (\A n \in saved : at[n] # i) => s[i] = store[i]
  BY DEF SavedStore
<1>5. /\ \A n \in saved : d[n] = at[n]
      /\ \A n \in Names \ saved : d[n] = dir[n]
      /\ d \in [Names -> Inodes \cup {None}]
  BY <1>1, <1>2 DEF SavedDir, TypeOK
<1>6. s \in [Inodes -> Content \cup {None}]
  <2>1. \A i \in Inodes : s[i] \in Content \cup {None}
    BY <1>1, <1>3, <1>4 DEF TypeOK
  <2> QED BY <2>1 DEF SavedStore
<1> HIDE DEF s, d
<1>7. \A i \in Inodes : store[i] # None => s[i] = store[i]
  BY <1>2, <1>4
<1>8. Apart(d)
  BY <1>1, <1>2, <1>5 DEF DirInv, Apart
<1>9. \A n \in Names : d[n] # None => /\ s[d[n]] # None
                                      /\ Whole => s[d[n]].grid = meta
  <2>1. \A n \in Names : dir[n] # None =>
          /\ dir[n] \in Inodes /\ store[dir[n]] # None
          /\ Whole => store[dir[n]].grid = meta
    BY <1>1 DEF TypeOK, DirInv, Clean
  <2> QED BY <1>3, <1>5, <1>7, <2>1
<1> QED BY <1>5, <1>6, <1>7, <1>8, <1>9 DEF FilesFor, s, d

(* close_dataset                                                           *)
LEMMA InvClose == ASSUME IInv, OneWriter, NEW h \in Handles, Close(h) PROVE IInv'
<1>1. PICK saved \in SUBSET Unsaved(h) : \E at \in Fresher(saved) :
        Leaving(SavedStore(h, saved, at), SavedDir(saved, at), [hs EXCEPT ![h] = None])
  BY DEF Close, SavedStore, SavedDir
<1>2. PICK at \in Fresher(saved) :
        Leaving(SavedStore(h, saved, at), SavedDir(saved, at), [hs EXCEPT ![h] = None])
  BY <1>1
<1>3. /\ TypeOK /\ DirInv /\ Idle(h) /\ UNCHANGED <<meta, torn>>
      /\ hs' = [hs EXCEPT ![h] = None]
  BY <1>2 DEF Close, IInv, Leaving
<1>4. /\ hs' \in [Handles -> Handle \cup {None}] /\ hs'[h] = None
      /\ \A k \in Handles : k # h => hs'[k] = hs[k]
  BY <1>3 DEF TypeOK
<1>5. Whole' = Whole
  BY <1>3, <1>4 DEF Whole, Idle
<1>6. HandleOk(h)'
  BY <1>4 DEF HandleOk
<1>7. CASE h \in Writers
  <2>1. FilesFor(SavedStore(h, saved, at), SavedDir(saved, at))
    BY <1>3, <1>7, FilesSaved DEF Writes
  <2>2. PICK s, d : s = SavedStore(h, saved, at) /\ d = SavedDir(saved, at)
    OBVIOUS
  <2>3. FilesFor(s, d) /\ Leaving(s, d, hs')
    BY <1>3, <1>2, <2>1, <2>2
  <2>4. /\ s \in [Inodes -> Content \cup {None}] /\ d \in [Names -> Inodes \cup {None}]
        /\ \A i \in Inodes : store[i] # None => s[i] = store[i]
        /\ Apart(d)
        /\ \A n \in Names : d[n] # None => s[d[n]] # None /\ (Whole => s[d[n]].grid = meta)
    BY <2>3 DEF FilesFor
  <2>5. /\ dir' = d /\ store' \in [Inodes -> Content \cup {None}]
        /\ \A n \in Names : d[n] \in Inodes => store'[d[n]] = s[d[n]]
    BY <2>3, <2>4, LeavingKeeps
  <2>6. TypeOK'
    BY <1>3, <1>4, <2>4, <2>5 DEF TypeOK
  <2>7. meta # None
    BY <1>3, <1>7, WriterKnows DEF Writes
  <2>8. DirInv'
    BY <1>3, <1>5, <2>4, <2>5, <2>7 DEF DirInv, Clean, Apart
  <2>9. \A k \in Handles \ {h} : hs[k] # None => Keeps(Opened(hs[k]))
    <3>1. \A i \in Inodes : store[i] # None => s[i] # None /\ s[i].grid = store[i].grid
      BY <2>4
    <3> QED BY <1>4, <2>3, <2>4, <3>1, ReadersKeep
  <2> QED BY <1>3, <1>4, <1>5, <1>6, <1>7, <2>6, <2>8, <2>9, PathStep
<1>8. CASE h \notin Writers
  <2>1. Unsaved(h) = {}
    BY <1>3, <1>8 DEF IInv, HandleOk, ReaderOk, Unsaved, Idle
  <2>2. SavedStore(h, saved, at) = store /\ SavedDir(saved, at) = dir
    BY <1>3, <2>1 DEF SavedStore, SavedDir, TypeOK
  <2>3. Leaving(store, dir, hs')
    BY <1>3, <1>2, <2>2
  <2>4. FilesStay(h) /\ dir' = dir
    BY <1>4, <2>3, LeavingStay DEF Leaving
  <2> QED BY <1>3, <1>4, <1>5, <1>6, <2>4, QuietStep DEF TypeOK
<1> QED BY <1>7, <1>8

(* create_dataset, create_dataset_from_view: only dated readers are left   *)
(* of a dataset that was there before.                                     *)
LEMMA InvCreate == ASSUME IInv, Create PROVE IInv'
<1>1. PICK g \in Grids, S \in SUBSET Names, v \in [Names -> Vals], c \in Layouts :
        \E at \in Fresher(S) :
          LET d == [n \in Names |-> IF n \in S THEN at[n] ELSE None]
          IN  /\ meta' = g
              /\ dir' = d
              /\ store' = [i \in Inodes |->
                             IF \E n \in S : at[n] = i
                             THEN [grid |-> g, chunked |-> c,
                                   val |-> v[CHOOSE n \in S : at[n] = i]]
                             ELSE store[i]]
  BY DEF Create
<1>2. PICK at \in Fresher(S) :
        /\ meta' = g
        /\ dir' = [n \in Names |-> IF n \in S THEN at[n] ELSE None]
        /\ store' = [i \in Inodes |->
                       IF \E n \in S : at[n] = i
                       THEN [grid |-> g, chunked |-> c,
                             val |-> v[CHOOSE n \in S : at[n] = i]]
                       ELSE store[i]]
  BY <1>1
<1>3. /\ TypeOK /\ DirInv /\ meta = None /\ torn' = FALSE /\ hs' = hs
      /\ g # None /\ c \in BOOLEAN
  BY DatasetAssumption DEF Create, IInv
<1>4. /\ at \in [S -> Free] /\ \A m, n \in S : m # n => at[m] # at[n]
      /\ \A n \in S : at[n] \in Inodes /\ at[n] # None /\ store[at[n]] = None
  BY FresherFiles, DatasetAssumption DEF Free
<1>5. ASSUME NEW n \in S
      PROVE  store'[at[n]] \in Content /\ store'[at[n]] # None /\ store'[at[n]].grid = g
  <2> DEFINE w == v[CHOOSE k \in S : at[k] = at[n]]
  <2>1. w \in Vals
    OBVIOUS
  <2>2. store'[at[n]] = [grid |-> g, chunked |-> c, val |-> w]
    BY <1>2, <1>4
  <2> HIDE DEF w
  <2> QED BY <1>3, <2>1, <2>2, NoneAssumption DEF Content
<1>6. \A i \in Inodes : (\A n \in S : at[n] # i) => store'[i] = store[i]
  BY <1>2
<1>7. TypeOK'
  <2>1. \A i \in Inodes : store'[i] \in Content \cup {None}
    BY <1>3, <1>5, <1>6 DEF TypeOK
  <2>2. store' \in [Inodes -> Content \cup {None}]
    BY <1>2, <2>1
  <2> QED BY <1>2, <1>3, <1>4, <2>2 DEF TypeOK
<1>8. DirInv'
  <2>1. \A n \in Names : dir'[n] # None => n \in S /\ dir'[n] = at[n]
    BY <1>2
  <2> HIDE <1>2
  <2>2. Apart(dir)'
    BY <1>4, <2>1 DEF Apart
  <2>3. Clean' /\ \A n \in Names : dir'[n] # None => store'[dir'[n]] # None
    <3>1. meta' = g
      BY <1>2
    <3>2. \A n \in Names : dir'[n] # None =>
             store'[dir'[n]] # None /\ store'[dir'[n]].grid = g
      BY <1>5, <2>1
    <3> QED BY <3>1, <3>2 DEF Clean
  <2>4. meta' # None
    BY <1>2, <1>3
  <2> QED BY <2>2, <2>3, <2>4 DEF DirInv
<1>9. ASSUME NEW k \in Handles PROVE HandleOk(k)'
  <2>1. CASE hs[k] = None
    BY <1>3, <2>1 DEF HandleOk
  <2>2. CASE hs[k] # None
    <3>1. HandleOk(k) /\ k \notin Writers /\ hs[k].dated
      BY <1>3, <2>2 DEF IInv, HandleOk, WriterOk, DatedOk
    <3>2. Keeps(Opened(hs[k]))
      BY <1>4, <1>6, <2>2, OpenedStored DEF Keeps
    <3> QED BY <1>3, <2>2, <3>1, <3>2, ReaderLeft
  <2> QED BY <2>1, <2>2
<1> QED BY <1>7, <1>8, <1>9 DEF IInv

(* delete_dataset, drop_dataset                                            *)
LEMMA InvDelete == ASSUME IInv, Delete PROVE IInv'
<1> DEFINE gone == [h \in Handles |-> IF hs[h] = None THEN None
                                      ELSE [hs[h] EXCEPT !.dated = TRUE]]
<1>1. /\ TypeOK /\ \A h \in Writers : hs[h] = None
      /\ meta' = None /\ torn' = FALSE
      /\ Leaving(store, NoCache, hs') /\ dir' = NoCache /\ hs' = gone
  BY DEF Delete, Leaving, IInv
<1>2. /\ store' \in [Inodes -> Content \cup {None}]
      /\ \A h \in Handles : hs'[h] # None => \A i \in Opened(hs'[h]) : store'[i] = store[i]
  <2> HIDE DEF gone
  <2>1. store \in [Inodes -> Content \cup {None}]
    BY <1>1 DEF TypeOK
  <2> QED BY <1>1, <2>1, LeavingKeeps
<1>3. ASSUME NEW k \in Handles, hs[k] # None
      PROVE  /\ hs'[k] \in Handle /\ hs'[k] # None
             /\ hs'[k] = [hs[k] EXCEPT !.dated = TRUE] /\ hs'[k].cache = hs[k].cache
  <2> DEFINE x0 == hs[k]
             y == [x0 EXCEPT !.dated = TRUE]
  <2>1. x0 \in Handle /\ hs'[k] = y /\ TRUE \in BOOLEAN
    BY <1>1, <1>3 DEF TypeOK
  <2> HIDE DEF x0
  <2>2. y \in Handle /\ y # None /\ y.cache = x0.cache
    BY <2>1, DatedEdited, Zenon
  <2> HIDE DEF y
  <2>3. hs'[k] \in Handle /\ hs'[k] # None /\ hs'[k].cache = x0.cache
    BY <2>1, <2>2
  <2> QED BY <2>1, <2>3 DEF x0, y
<1>4. hs' \in [Handles -> Handle \cup {None}]
  <2>1. \A k \in Handles : hs'[k] \in Handle \cup {None}
    BY <1>1, <1>3
  <2> QED BY <1>1, <2>1
<1>5. TypeOK'
  BY <1>1, <1>2, <1>4 DEF TypeOK, NoCache
<1>6. DirInv'
  BY <1>1 DEF DirInv, NoCache, Apart, Clean
<1>7. ASSUME NEW k \in Handles PROVE HandleOk(k)'
  <2>1. CASE hs[k] = None
    BY <1>1, <2>1 DEF HandleOk
  <2>2. CASE hs[k] # None
    <3>1. Opened(hs'[k]) = Opened(hs[k])
      BY <1>3, <2>2 DEF Opened
    <3>2. Keeps(Opened(hs[k]))
      BY <1>2, <1>3, <2>2, <3>1, OpenedStored DEF Keeps
    <3> QED BY <1>1, <1>3, <2>2, <3>2, ReaderDated DEF IInv
  <2> QED BY <2>1, <2>2
<1> QED BY <1>5, <1>6, <1>7 DEF IInv

----------------------------------------------------------------------------
(* Every step keeps the invariant.                                         *)

(* No dataset, no handle.                                                  *)
LEMMA InvInit == Init => IInv
BY DEF Init, IInv, TypeOK, DirInv, Clean, Apart, HandleOk, NoCache

(* Every step keeps the invariant.                                         *)
LEMMA InvNext == ASSUME IInv, OneWriter, [Next]_vars PROVE IInv'
<1>1. CASE Create \/ Delete
  BY <1>1, InvCreate, InvDelete
<1>2. ASSUME NEW h \in Handles, Calls(h) PROVE IInv'
  BY <1>2, InvOpen, InvRead, InvWriteDataset, InvUpdateHeader, InvCreateField,
     InvDeleteField, InvRenameField, InvConvert, InvCastField, InvUpdateBegin,
     InvUpdateColumn, InvUpdateEnd, InvUpdateFails, InvClose, InvDrop DEF Calls
<1>3. CASE UNCHANGED vars
  <2>1. meta' = meta /\ dir' = dir /\ store' = store /\ hs' = hs /\ torn' = torn
    BY <1>3 DEF vars
  <2>2. TypeOK' /\ DirInv'
    BY <2>1 DEF IInv, TypeOK, DirInv, Clean, Apart, Whole
  <2>3. ASSUME NEW h \in Handles PROVE HandleOk(h)'
    <3>1. HandleOk(h)
      BY DEF IInv
    <3> QED BY <2>1, <3>1 DEF HandleOk, CachedOk, DatedOk, Whole, ReaderOk, WriterOk, OnPath,
                              Listed, UpdateOk, Written, Present
  <2> QED BY <2>2, <2>3 DEF IInv
<1> QED BY <1>1, <1>2, <1>3 DEF Next

(* So it always holds, with one writer.                                    *)
LEMMA InvAlways == ASSUME OneWriter PROVE Spec => []IInv
BY InvInit, InvNext, PTL DEF Spec

(* With one writer, for any fields, indexes, columns and files, and        *)
(* whatever fails half way: what the writer has in its cache is the file   *)
(* at the path of that field (every call on a field forgets its handle, so *)
(* that no write goes to a file that is not in the directory any more),    *)
(* unless it is blind: a call on it once failed to read the directory and  *)
(* said nothing, and it does not know its own columns (reload_schema).     *)
THEOREM CacheStaysOnPath == ASSUME OneWriter PROVE Spec => []CacheOnPath
<1>1. IInv => CacheOnPath
  BY DatasetAssumption DEF IInv, HandleOk, WriterOk, OnPath, CacheOnPath
<1> QED BY <1>1, InvAlways, PTL

(* With one writer: its schema is the list of the field files there are,   *)
(* unless an update through it has failed, or it is empty because a call   *)
(* could not read the directory and said nothing (build_schema,            *)
(* reload_schema and the calls that make, remove and rename fields), in a  *)
(* state of the right shape.                                               *)
THEOREM SchemaStaysOnDisk == ASSUME OneWriter PROVE Spec => []SchemaOnDisk
<1>1. IInv => SchemaOnDisk
  BY DatasetAssumption DEF IInv, HandleOk, WriterOk, Listed, SchemaOnDisk, Idle
<1> QED BY <1>1, InvAlways, PTL

(* With one writer and any number of readers: a handle that saw no update  *)
(* and was not opened on the remains of one finds the rows of its own META *)
(* in every file it has open or may still open; an update that removes all *)
(* the columns it does not bring makes good one that was left half done    *)
(* (update_dataset).                                                       *)
THEOREM RowsStayAligned == ASSUME OneWriter PROVE Spec => []RowsAligned
<1>1. IInv => RowsAligned
  BY DEF IInv, HandleOk, CachedOk, DatedOk, DirInv, Clean, RowsAligned, Idle
<1> QED BY <1>1, InvAlways, PTL

----------------------------------------------------------------------------
(***************************************************************************)
(* A dataset with one writer implements DatasetColumns: whatever calls are *)
(* made, each changes the fields it names and no other, and what is not    *)
(* yet written back is published, discarded with its own field, or lost    *)
(* with the writer.  Seen from outside there are columns and drafts; that  *)
(* files move, are replaced and are reused is nowhere to be seen, because  *)
(* cached files are on their path and every path has a file of its own.    *)
(***************************************************************************)


(* There is a writer to have drafts.                                       *)
SomeWriter == Writers # {}

(* What the columns and drafts are, as in Columns, and field by field.     *)
Stored == [n \in Names |-> IF dir[n] = None THEN None ELSE store[dir[n]].val]
Draft == [n \in Names |->
            IF hs[TheWriter] # None /\ n \in Unsaved(TheWriter)
            THEN hs[TheWriter].cache[n].working ELSE None]

Col(d, s, n) == IF d[n] = None THEN None ELSE s[d[n]].val
Unwritten(x, n) ==
    IF x # None /\ x.cache[n] # None /\ x.cache[n].modified THEN x.cache[n].working ELSE None

(* No update has failed: none does if no call stops half way.              *)
NoneFailed == \A h \in Handles : hs[h] # None => ~hs[h].failed

ColsInv == IInv /\ NoneFailed

----------------------------------------------------------------------------
(* The columns, field by field.                                            *)

(* What the abstract columns are, before and after a step.                 *)
LEMMA Views ==
    /\ DOMAIN Stored = Names /\ DOMAIN Stored' = Names
    /\ Stored = [n \in Names |-> Col(dir, store, n)]
    /\ Stored' = [n \in Names |-> Col(dir', store', n)]
    /\ DOMAIN Draft = Names /\ DOMAIN Draft' = Names
    /\ Draft = [n \in Names |-> Unwritten(hs[TheWriter], n)]
    /\ Draft' = [n \in Names |-> Unwritten(hs'[TheWriter], n)]
BY DEF Stored, Draft, Col, Unwritten, Unsaved

(* The writer is the one there is.                                         *)
LEMMA WriterIs == ASSUME OneWriter, NEW h \in Writers PROVE TheWriter = h
BY DEF OneWriter, TheWriter

(* The one writer is a handle.                                             *)
LEMMA WriterThere ==
    ASSUME SomeWriter PROVE TheWriter \in Writers /\ TheWriter \in Handles
BY DatasetAssumption DEF SomeWriter, TheWriter

(* A step does not touch field n.                                          *)
Stays(n) == /\ Col(dir', store', n) = Col(dir, store, n)
            /\ Unwritten(hs'[TheWriter], n) = Unwritten(hs[TheWriter], n)

(* If every field stays as it is, so do the abstract columns.              *)
LEMMA AllStay ==
    ASSUME \A n \in Names : Stays(n) PROVE UNCHANGED <<Stored, Draft>>
BY Views DEF Stays

(* A file at a path is a column with a value, and there is no other.       *)
LEMMA ColumnOfFile ==
    ASSUME IInv, NEW n \in Names
    PROVE  /\ Stored[n] = Col(dir, store, n)
           /\ dir[n] # None => /\ dir[n] \in Inodes /\ store[dir[n]] \in Content
                               /\ Stored[n] = store[dir[n]].val
           /\ Stored[n] \in Vals \cup {None}
           /\ Stored[n] # None <=> dir[n] # None
<1>1. dir[n] # None => dir[n] \in Inodes /\ store[dir[n]] \in Content
  BY DEF IInv, TypeOK, DirInv
<1>2. dir[n] # None => store[dir[n]].val \in Vals
  BY <1>1 DEF Content
<1> QED BY <1>1, <1>2, Views, DatasetAssumption DEF Col

(* After a step a column is stored where there is a file, and only there.  *)
LEMMA ColumnOfFileAfter ==
    ASSUME IInv', NEW n \in Names
    PROVE  /\ Stored'[n] \in Vals \cup {None}
           /\ Stored'[n] # None <=> dir'[n] # None
<1>1. dir'[n] # None => dir'[n] \in Inodes /\ store'[dir'[n]] \in Content
  BY DEF IInv, TypeOK, DirInv
<1>2. dir'[n] # None => store'[dir'[n]].val \in Vals
  BY <1>1 DEF Content
<1> QED BY <1>1, <1>2, Views, DatasetAssumption DEF Col

(* A draft is the decoded copy of a field that is there.                   *)
LEMMA DraftOfWriter ==
    ASSUME Faults = FALSE, IInv, SomeWriter, NEW n \in Names
    PROVE  /\ Draft[n] = Unwritten(hs[TheWriter], n)
           /\ Draft[n] \in Vals \cup {None}
           /\ Draft[n] # None <=>
                /\ hs[TheWriter] # None /\ hs[TheWriter].cache[n] # None
                /\ hs[TheWriter].cache[n].modified
           /\ Draft[n] # None => Stored[n] # None
<1> DEFINE w == TheWriter
<1>1. w \in Writers /\ w \in Handles
  BY WriterThere
<1> HIDE DEF w
<1>2. ASSUME hs[w] # None, hs[w].cache[n] # None
      PROVE  /\ hs[w].cache[n] \in Entry /\ dir[n] # None
             /\ hs[w].cache[n].modified => hs[w].cache[n].working # None
  <2>1. hs[w] \in Handle /\ HandleOk(w)
    BY <1>1, <1>2 DEF IInv, TypeOK
  <2>2. hs[w].cache[n] \in Entry
    BY <1>2, <2>1, HandleParts
  <2>3. dir[n] = hs[w].cache[n].ino
    BY <1>1, <1>2, <2>1 DEF HandleOk, WriterOk, OnPath
  <2> QED BY <1>2, <2>1, <2>2, <2>3, EntryParts, DatasetAssumption DEF HandleOk, CachedOk
<1>3. ASSUME hs[w] # None, hs[w].cache[n] # None
      PROVE  hs[w].cache[n].working \in Vals \cup {None}
  BY <1>2, <1>3, EntryParts
<1> QED BY <1>2, <1>3, Views, ColumnOfFile DEF Unwritten, w

(* Here are the fields with a file.                                        *)
LEMMA HereIs == ASSUME IInv PROVE Columns!Here = Present(dir)
<1>1. Columns!Here = {n \in Names : Stored[n] # None}
  BY DEF Columns!Here, Stored
<1> QED BY <1>1, ColumnOfFile DEF Present

(* No column and no draft.                                                 *)
LEMMA AbsentIs == Columns!Absent = [n \in Names |-> None]
BY DEF Columns!Absent

----------------------------------------------------------------------------
(* What a step leaves.                                                     *)

(* The columns are those of the directory and the files it leaves.         *)
LEMMA LeftColumns ==
    ASSUME NEW s \in [Inodes -> Content \cup {None}],
           NEW d \in [Names -> Inodes \cup {None}], Leaving(s, d, hs')
    PROVE  dir' = d /\ \A n \in Names : Col(dir', store', n) = Col(d, s, n)
<1>1. dir' = d /\ \A n \in Names : d[n] \in Inodes => store'[d[n]] = s[d[n]]
  BY LeavingKeeps
<1> QED BY <1>1 DEF Col

(* The step leaves the directory and the files as they are.                *)
LEMMA NothingMoves ==
    ASSUME IInv, Leaving(store, dir, hs')
    PROVE  dir' = dir /\ \A n \in Names : Col(dir', store', n) = Col(dir, store, n)
BY LeftColumns DEF IInv, TypeOK

(* The draft of field n is given up, whatever becomes of its file.         *)
LEMMA Discarding ==
    ASSUME Faults = FALSE, IInv, SomeWriter, NEW n \in Names,
           \A m \in Names : Col(dir', store', m) = Col(dir, store, m),
           \A m \in Names \ {n} : Unwritten(hs'[TheWriter], m) = Unwritten(hs[TheWriter], m),
           Unwritten(hs'[TheWriter], n) = None
    PROVE  Columns!Discard \/ UNCHANGED <<Stored, Draft>>
<1>1. CASE Stored[n] = None
  <2>1. Draft[n] = None
    BY <1>1, DraftOfWriter
  <2>2. \A m \in Names : Stays(m)
    BY <2>1, Views DEF Stays
  <2> QED BY <2>2, AllStay
<1>2. CASE Stored[n] # None
  <2>1. n \in Columns!Here
    BY <1>2 DEF Columns!Here, Stored
  <2>2. Stored' = [Stored EXCEPT ![n] = Stored[n]] /\ Draft' = [Draft EXCEPT ![n] = None]
    BY Views
  <2>3. Columns!Put(n, Stored[n])
    BY <2>2 DEF Columns!Put, Stored, Draft
  <2> QED BY <2>1, <2>3 DEF Columns!Discard, Stored
<1> QED BY <1>1, <1>2

(* If no call stops half way, the directory can be read.                   *)
LEMMA RelistedSure ==
    ASSUME Faults = FALSE, NEW H, NEW h, NEW d
    PROVE  \A after \in Relisted(H, h, d) : after = [H EXCEPT ![h].schema = Present(d)]
BY DEF Relisted

(* So it is in what a call leaves.                                         *)
LEMMA RelistedLeft ==
    ASSUME Faults = FALSE, NEW H, NEW h, NEW d, NEW s,
           \E after \in Relisted(H, h, d) : Leaving(s, d, after)
    PROVE  Leaving(s, d, [H EXCEPT ![h].schema = Present(d)])
<1>1. PICK after \in Relisted(H, h, d) : Leaving(s, d, after)
  OBVIOUS
<1>2. after = [H EXCEPT ![h].schema = Present(d)]
  BY RelistedSure
<1> QED BY <1>1, <1>2

(* The handle of field n is forgotten, and the schema is read again or not.*)
LEMMA ForgottenDrafts ==
    ASSUME IInv, OneWriter, NEW h \in Handles, Writes(h), NEW n \in Names,
           NEW S \in SUBSET Names,
           \/ hs' = Forgotten(h, n)
           \/ hs' = [Forgotten(h, n) EXCEPT ![h].schema = S]
    PROVE  /\ \A m \in Names \ {n} :
                Unwritten(hs'[TheWriter], m) = Unwritten(hs[TheWriter], m)
           /\ Unwritten(hs'[TheWriter], n) = None
<1> DEFINE E == Evicted(h, n)
           y == [hs[h] EXCEPT !.cache = E]
<1>1. /\ hs[h] \in Handle /\ hs[h] # None /\ hs \in [Handles -> Handle \cup {None}]
      /\ TheWriter = h
  BY WriterKnows, WriterIs DEF IInv, TypeOK
<1>2. /\ E \in [Names -> Entry \cup {None}] /\ E[n] = None
      /\ \A m \in Names : m # n => E[m] = hs[h].cache[m]
  BY <1>1, EvictedTypes, HandleParts DEF Evicted
<1>3. Forgotten(h, n) = [hs EXCEPT ![h] = y]
  BY DEF Forgotten
<1> HIDE DEF E
<1>4. y \in Handle /\ y # None /\ y.cache = E
  BY <1>1, <1>2, CacheEdited
<1> DEFINE z == [y EXCEPT !.schema = S]
<1> HIDE DEF y
<1>5. z \in Handle /\ z # None /\ z.cache = E
  BY <1>4, SchemaEdited
<1>6. hs'[h] # None /\ hs'[h].cache = E
  <2>1. CASE hs' = Forgotten(h, n)
    BY <1>1, <1>3, <1>4, <2>1
  <2>2. CASE hs' = [Forgotten(h, n) EXCEPT ![h].schema = S]
    <3>1. hs' = [hs EXCEPT ![h] = z]
      BY <1>1, <1>3, <2>2 DEF z
    <3> HIDE DEF z
    <3> QED BY <1>1, <1>5, <3>1
  <2> QED BY <2>1, <2>2
<1> QED BY <1>1, <1>2, <1>6 DEF Unwritten

(* A call that goes no further than to forget the handle.                  *)
LEMMA RefusedStep ==
    ASSUME Faults = FALSE, IInv, OneWriter, SomeWriter, NEW h \in Handles, Writes(h), NEW n \in Names,
           Refused(h, n)
    PROVE  Columns!Discard \/ UNCHANGED <<Stored, Draft>>
<1>1. Leaving(store, dir, hs') /\ hs' = Forgotten(h, n)
  BY DEF Refused, Leaving
<1> QED BY <1>1, NothingMoves, ForgottenDrafts, Discarding

(* A rebuild puts the same rows in the place of the old file.              *)
LEMMA RebuildKeeps ==
    ASSUME IInv, NEW h \in Handles, NEW n \in Names, NEW c \in BOOLEAN,
           Rebuild(h, n, c, hs')
    PROVE  \A m \in Names : Col(dir', store', m) = Col(dir, store, m)
<1> DEFINE s == [store EXCEPT ![Fresh] = [store[dir[n]] EXCEPT !.chunked = c]]
           d == [dir EXCEPT ![n] = Fresh]
<1>1. Free # {} /\ dir[n] # None /\ Leaving(s, d, hs')
  BY DEF Rebuild
<1>2. FilesFor(s, d)
  BY <1>1, FilesRebuilt
<1>3. /\ Fresh \in Inodes /\ Fresh # None /\ \A m \in Names : dir[m] # Fresh
      /\ dir \in [Names -> Inodes \cup {None}] /\ store \in [Inodes -> Content \cup {None}]
      /\ store[dir[n]] \in Content
  BY <1>1, FreshFile DEF IInv, TypeOK, DirInv
<1>4. [store[dir[n]] EXCEPT !.chunked = c].val = store[dir[n]].val
  BY <1>3 DEF Content
<1>5. ASSUME NEW m \in Names PROVE Col(d, s, m) = Col(dir, store, m)
  <2>1. CASE m = n
    <3>1. d[m] = Fresh /\ s[d[m]] = [store[dir[n]] EXCEPT !.chunked = c]
      BY <1>3, <2>1
    <3> QED BY <1>1, <1>3, <1>4, <2>1, <3>1 DEF Col
  <2>2. CASE m # n
    <3>1. d[m] = dir[m] /\ dir[m] # Fresh /\ (dir[m] # None => s[dir[m]] = store[dir[m]])
      BY <1>3, <2>2
    <3> QED BY <3>1 DEF Col
  <2> QED BY <2>1, <2>2
<1>6. /\ s \in [Inodes -> Content \cup {None}] /\ d \in [Names -> Inodes \cup {None}]
  BY <1>2 DEF FilesFor
<1> HIDE DEF s, d
<1> QED BY <1>1, <1>5, <1>6, LeftColumns

(* compress, decompress and cast of a field: the columns stay.             *)
LEMMA ConvertStep ==
    ASSUME Faults = FALSE, IInv, OneWriter, SomeWriter, NEW h \in Handles, Convert(h)
    PROVE  Columns!Discard \/ UNCHANGED <<Stored, Draft>>
<1>1. PICK n \in hs[h].schema, c \in Layouts :
        \/ Refused(h, n)
        \/ Leaving(store, dir, Forgotten(h, n))
        \/ Rebuild(h, n, c, Forgotten(h, n))
  BY DEF Convert
<1>2. Writes(h) /\ n \in Names /\ c \in BOOLEAN
  BY WriterKnows, DatasetAssumption DEF Convert
<1>3. CASE Refused(h, n)
  BY <1>2, <1>3, RefusedStep
<1>4. CASE Leaving(store, dir, Forgotten(h, n))
  <2>1. Leaving(store, dir, hs') /\ hs' = Forgotten(h, n)
    BY <1>4 DEF Leaving
  <2> QED BY <1>2, <2>1, NothingMoves, ForgottenDrafts, Discarding
<1>5. CASE Rebuild(h, n, c, Forgotten(h, n))
  <2>1. Rebuild(h, n, c, hs') /\ hs' = Forgotten(h, n)
    BY <1>5 DEF Rebuild, Leaving
  <2>2. \A m \in Names : Col(dir', store', m) = Col(dir, store, m)
    BY <1>2, <2>1, RebuildKeeps
  <2>3. /\ \A m \in Names \ {n} : Unwritten(hs'[TheWriter], m) = Unwritten(hs[TheWriter], m)
        /\ Unwritten(hs'[TheWriter], n) = None
    BY <1>2, <2>1, ForgottenDrafts
  <2> QED BY <1>2, <2>2, <2>3, Discarding
<1> QED BY <1>1, <1>3, <1>4, <1>5

(* A cast of one field drops what is unwritten, or changes nothing         *)
(* abstract.                                                               *)
LEMMA CastFieldStep ==
    ASSUME Faults = FALSE, IInv, OneWriter, SomeWriter, NEW h \in Handles, CastField(h)
    PROVE  Columns!Discard \/ UNCHANGED <<Stored, Draft>>
<1> DEFINE after(n) == [Forgotten(h, n) EXCEPT ![h].schema = Present(dir)]
<1>0. PICK n \in hs[h].schema :
        \/ Refused(h, n)
        \/ /\ dir[n] # None
           /\ \E x \in Relisted(Forgotten(h, n), h, dir) :
                 \/ Leaving(store, dir, x)
                 \/ Rebuild(h, n, store[dir[n]].chunked, x)
  BY DEF CastField
<1>1. \/ Refused(h, n)
      \/ /\ dir[n] # None
         /\ \/ Leaving(store, dir, after(n))
            \/ Rebuild(h, n, store[dir[n]].chunked, after(n))
  <2>1. \A x \in Relisted(Forgotten(h, n), h, dir) : x = after(n)
    BY RelistedSure
  <2> HIDE DEF after
  <2> QED BY <1>0, <2>1
<1>2. Writes(h) /\ n \in Names
  BY WriterKnows DEF CastField
<1>3. PICK S \in SUBSET Names : S = Present(dir)
  BY DEF Present
<1>4. CASE Refused(h, n)
  BY <1>2, <1>4, RefusedStep
<1>5. CASE Leaving(store, dir, after(n))
  <2>1. Leaving(store, dir, hs') /\ hs' = [Forgotten(h, n) EXCEPT ![h].schema = S]
    BY <1>3, <1>5 DEF Leaving
  <2> QED BY <1>2, <2>1, NothingMoves, ForgottenDrafts, Discarding
<1>6. CASE dir[n] # None /\ Rebuild(h, n, store[dir[n]].chunked, after(n))
  <2>1. PICK c \in BOOLEAN : c = store[dir[n]].chunked
    BY <1>2, <1>6 DEF IInv, TypeOK, DirInv, Content
  <2>2. Rebuild(h, n, c, hs') /\ hs' = [Forgotten(h, n) EXCEPT ![h].schema = S]
    BY <1>3, <1>6, <2>1 DEF Rebuild, Leaving
  <2>3. \A m \in Names : Col(dir', store', m) = Col(dir, store, m)
    BY <1>2, <2>1, <2>2, RebuildKeeps
  <2> QED BY <1>2, <1>3, <2>2, <2>3, ForgottenDrafts, Discarding
<1> QED BY <1>1, <1>4, <1>5, <1>6

(* delete_dataset_field                                                    *)
LEMMA DeleteFieldStep ==
    ASSUME Faults = FALSE, IInv, OneWriter, SomeWriter, NEW h \in Handles, DeleteField(h)
    PROVE  Columns!Remove \/ Columns!Discard \/ UNCHANGED <<Stored, Draft>>
<1> DEFINE D(n) == [dir EXCEPT ![n] = None]
<1>0. PICK n \in hs[h].schema :
        \/ Refused(h, n)
        \/ /\ dir[n] # None
           /\ \E after \in Relisted(Forgotten(h, n), h, D(n)) : Leaving(store, D(n), after)
  BY DEF DeleteField
<1>1. \/ Refused(h, n)
      \/ dir[n] # None /\ Leaving(store, D(n), [Forgotten(h, n) EXCEPT ![h].schema = Present(D(n))])
  <2> HIDE DEF D
  <2> QED BY <1>0, RelistedLeft
<1>2. Writes(h) /\ n \in Names
  BY WriterKnows DEF DeleteField
<1>3. CASE Refused(h, n)
  BY <1>2, <1>3, RefusedStep
<1>4. CASE dir[n] # None
           /\ Leaving(store, D(n), [Forgotten(h, n) EXCEPT ![h].schema = Present(D(n))])
  <2>1. PICK S \in SUBSET Names : S = Present(D(n))
    BY DEF Present
  <2>2. Leaving(store, D(n), hs') /\ hs' = [Forgotten(h, n) EXCEPT ![h].schema = S]
    BY <1>4, <2>1 DEF Leaving
  <2>3. /\ \A m \in Names \ {n} : Unwritten(hs'[TheWriter], m) = Unwritten(hs[TheWriter], m)
        /\ Unwritten(hs'[TheWriter], n) = None
    BY <1>2, <2>2, ForgottenDrafts
  <2>4. /\ store \in [Inodes -> Content \cup {None}] /\ D(n) \in [Names -> Inodes \cup {None}]
        /\ \A m \in Names : D(n)[m] = IF m = n THEN None ELSE dir[m]
    BY <1>2 DEF IInv, TypeOK
  <2> HIDE DEF D
  <2>5. PICK d \in [Names -> Inodes \cup {None}] : d = D(n)
    BY <2>4
  <2>6. PICK s \in [Inodes -> Content \cup {None}] : s = store
    BY <2>4
  <2>7. \A m \in Names : Col(dir', store', m) = Col(d, s, m)
    BY <2>2, <2>5, <2>6, LeftColumns
  <2>8. \A m \in Names : Col(dir', store', m) = IF m = n THEN None ELSE Col(dir, store, m)
    BY <2>4, <2>5, <2>6, <2>7 DEF Col
  <2>9. Stored' = [Stored EXCEPT ![n] = None] /\ Draft' = [Draft EXCEPT ![n] = None]
    BY <2>3, <2>8, Views
  <2>10. Columns!Put(n, None)
    BY <2>9 DEF Columns!Put, Stored, Draft
  <2>11. n \in Columns!Here
    BY <1>2, <1>4, HereIs DEF Present
  <2> QED BY <2>10, <2>11 DEF Columns!Remove
<1> QED BY <1>1, <1>3, <1>4

(* rename_dataset_field: the column moves with its name, and nothing is at *)
(* the new path, for the schema lists what is there.                       *)
LEMMA RenameFieldStep ==
    ASSUME Faults = FALSE, ColsInv, OneWriter, SomeWriter, NEW h \in Handles, RenameField(h)
    PROVE  Columns!Move \/ Columns!Discard \/ UNCHANGED <<Stored, Draft>>
<1> DEFINE D(n, m) == [dir EXCEPT ![m] = dir[n], ![n] = None]
<1>0. PICK n \in hs[h].schema, m \in Names \ hs[h].schema :
        \/ Refused(h, n)
        \/ /\ dir[n] # None
           /\ \E after \in Relisted(Forgotten(h, n), h, D(n, m)) :
                 Leaving(store, D(n, m), after)
  BY DEF RenameField
<1>1. \/ Refused(h, n)
      \/ /\ dir[n] # None
         /\ Leaving(store, D(n, m), [Forgotten(h, n) EXCEPT ![h].schema = Present(D(n, m))])
  <2> HIDE DEF D
  <2> QED BY <1>0, RelistedLeft
<1>2. Writes(h) /\ n \in Names /\ m \in Names /\ m # n /\ IInv
  BY WriterKnows DEF RenameField, ColsInv
<1>3. dir[m] = None
  BY <1>0, <1>2, WriterKnows DEF ColsInv, NoneFailed, Present
<1>4. CASE Refused(h, n)
  BY <1>2, <1>4, RefusedStep
<1>5. CASE /\ dir[n] # None
           /\ Leaving(store, D(n, m), [Forgotten(h, n) EXCEPT ![h].schema = Present(D(n, m))])
  <2>1. PICK S \in SUBSET Names : S = Present(D(n, m))
    BY DEF Present
  <2>2. Leaving(store, D(n, m), hs') /\ hs' = [Forgotten(h, n) EXCEPT ![h].schema = S]
    BY <1>5, <2>1 DEF Leaving
  <2>3. /\ \A k \in Names \ {n} : Unwritten(hs'[TheWriter], k) = Unwritten(hs[TheWriter], k)
        /\ Unwritten(hs'[TheWriter], n) = None
    BY <1>2, <2>2, ForgottenDrafts
  <2>4. /\ store \in [Inodes -> Content \cup {None}] /\ D(n, m) \in [Names -> Inodes \cup {None}]
        /\ \A k \in Names : D(n, m)[k] = IF k = n THEN None
                                         ELSE IF k = m THEN dir[n] ELSE dir[k]
    BY <1>2 DEF IInv, TypeOK
  <2> HIDE DEF D
  <2>5. PICK d \in [Names -> Inodes \cup {None}] : d = D(n, m)
    BY <2>4
  <2>6. PICK s \in [Inodes -> Content \cup {None}] : s = store
    BY <2>4
  <2>7. \A k \in Names : Col(dir', store', k) = Col(d, s, k)
    BY <2>2, <2>5, <2>6, LeftColumns
  <2>8. \A k \in Names : Col(dir', store', k) = IF k = n THEN None
                                                ELSE IF k = m THEN Col(dir, store, n)
                                                ELSE Col(dir, store, k)
    BY <1>2, <2>4, <2>5, <2>6, <2>7 DEF Col
  <2>9. /\ Stored' = [Stored EXCEPT ![m] = Stored[n], ![n] = None]
        /\ Draft' = [Draft EXCEPT ![n] = None]
    BY <1>2, <2>3, <2>8, Views
  <2>10. n \in Columns!Here /\ m \in Names \ Columns!Here
    BY <1>2, <1>3, <1>5, HereIs DEF Present
  <2> QED BY <2>9, <2>10 DEF Columns!Move, Stored, Draft
<1> QED BY <1>1, <1>4, <1>5

(* A new file on the path of n that holds v.                               *)
LEMMA PutFile ==
    ASSUME IInv, NEW n \in Names, NEW v \in Vals, NEW c \in Content, c.val = v, Free # {},
           Leaving([store EXCEPT ![Fresh] = c], [dir EXCEPT ![n] = Fresh], hs')
    PROVE  \A m \in Names : Col(dir', store', m) = IF m = n THEN v ELSE Col(dir, store, m)
<1> DEFINE s == [store EXCEPT ![Fresh] = c]
           d == [dir EXCEPT ![n] = Fresh]
<1>1. /\ Fresh \in Inodes /\ Fresh # None /\ \A m \in Names : dir[m] # Fresh
      /\ dir \in [Names -> Inodes \cup {None}] /\ store \in [Inodes -> Content \cup {None}]
  BY FreshFile DEF IInv, TypeOK
<1>2. /\ s \in [Inodes -> Content \cup {None}] /\ d \in [Names -> Inodes \cup {None}]
  BY <1>1
<1>3. ASSUME NEW m \in Names
      PROVE  Col(d, s, m) = IF m = n THEN v ELSE Col(dir, store, m)
  <2>1. CASE m = n
    <3>1. d[m] = Fresh /\ s[d[m]] = c
      BY <1>1, <2>1
    <3> QED BY <1>1, <2>1, <3>1 DEF Col
  <2>2. CASE m # n
    <3>1. d[m] = dir[m] /\ dir[m] # Fresh /\ (dir[m] # None => s[dir[m]] = store[dir[m]])
      BY <1>1, <2>2
    <3> QED BY <2>2, <3>1 DEF Col
  <2> QED BY <2>1, <2>2
<1> HIDE DEF s, d
<1>4. Leaving(s, d, hs')
  BY DEF s, d
<1> QED BY <1>2, <1>3, <1>4, LeftColumns

(* create_dataset_field: what the schema does not know is not there.       *)
LEMMA CreateFieldStep ==
    ASSUME Faults = FALSE, IInv, OneWriter, SomeWriter, NEW h \in Handles, CreateField(h)
    PROVE  Columns!Add \/ Columns!Remove
<1>1. Writes(h)
  BY DEF CreateField
<1> DEFINE D(n) == [dir EXCEPT ![n] = Fresh]
           F(v, c) == [store EXCEPT ![Fresh] =
                         [grid |-> hs[h].grid, chunked |-> c, val |-> v]]
<1>20. PICK n \in Names \ hs[h].schema, v \in Vals, c \in Layouts :
        IF dir[n] = None
        THEN /\ Free # {}
             /\ \E after \in Relisted(hs, h, D(n)) : Leaving(F(v, c), D(n), after)
        ELSE Leaving(store, [dir EXCEPT ![n] = None], hs)
  BY DEF CreateField
<1>21. IF dir[n] = None
       THEN /\ Free # {}
            /\ Leaving(F(v, c), D(n), [hs EXCEPT ![h].schema = Present(D(n))])
       ELSE Leaving(store, [dir EXCEPT ![n] = None], hs)
  <2> HIDE DEF D, F
  <2> QED BY <1>20, RelistedLeft
<1>2. IF dir[n] = None
      THEN LET d == [dir EXCEPT ![n] = Fresh]
           IN  /\ Free # {}
               /\ Leaving([store EXCEPT ![Fresh] =
                             [grid |-> hs[h].grid, chunked |-> c, val |-> v]],
                          d, [hs EXCEPT ![h].schema = Present(d)])
      ELSE Leaving(store, [dir EXCEPT ![n] = None], hs)
  BY <1>21
<1> HIDE DEF D, F
<1>3. /\ hs[h] \in Handle /\ hs[h] # None /\ hs[h].grid \in Grids /\ c \in BOOLEAN
      /\ hs \in [Handles -> Handle \cup {None}] /\ dir \in [Names -> Inodes \cup {None}]
      /\ n \in Names /\ n \notin hs[h].schema /\ TheWriter = h
  BY <1>1, <1>2, WriterKnows, WriterIs, DatasetAssumption DEF IInv, TypeOK
<1>4. hs[h].cache[n] = None
  BY <1>1, <1>3, WriterKnows
<1>5. Draft[n] = None
  BY <1>3, <1>4, DraftOfWriter
<1>6. ASSUME hs'[h] # None, hs'[h].cache = hs[h].cache PROVE Draft' = [Draft EXCEPT ![n] = None]
  <2>1. \A m \in Names : Unwritten(hs'[TheWriter], m) = Unwritten(hs[TheWriter], m)
    BY <1>3, <1>6 DEF Unwritten
  <2> QED BY <1>5, <2>1, Views
<1>7. CASE dir[n] = None
  <2> DEFINE d == [dir EXCEPT ![n] = Fresh]
             C == [grid |-> hs[h].grid, chunked |-> c, val |-> v]
             x == [hs[h] EXCEPT !.schema = Present(d)]
  <2>1. Free # {} /\ Leaving([store EXCEPT ![Fresh] = C], d, [hs EXCEPT ![h] = x])
    BY <1>2, <1>7
  <2>2. Leaving([store EXCEPT ![Fresh] = C], d, hs') /\ hs' = [hs EXCEPT ![h] = x]
    BY <2>1 DEF Leaving
  <2>3. C \in Content /\ C.val = v
    BY <1>2, <1>3 DEF Content
  <2> HIDE DEF C
  <2>4. \A m \in Names : Col(dir', store', m) = IF m = n THEN v ELSE Col(dir, store, m)
    <3>1. PICK k \in Content : k = C
      BY <2>3
    <3> QED BY <1>3, <2>1, <2>2, <2>3, <3>1, PutFile
  <2>5. x # None /\ x.cache = hs[h].cache
    <3> DEFINE o == hs[h]
               S == Present(d)
               y == [o EXCEPT !.schema = S]
    <3>1. S \in SUBSET Names /\ o \in Handle
      BY <1>3 DEF Present
    <3> HIDE DEF o, S
    <3>2. y # None /\ y.cache = o.cache
      BY <3>1, SchemaEdited, Zenon
    <3> QED BY <3>2 DEF o, S
  <2> HIDE DEF x, d
  <2>6. Draft' = [Draft EXCEPT ![n] = None]
    BY <1>3, <1>6, <2>2, <2>5
  <2>7. Stored' = [Stored EXCEPT ![n] = v]
    BY <1>3, <2>4, Views
  <2>8. Columns!Put(n, v)
    BY <2>6, <2>7 DEF Columns!Put, Stored, Draft
  <2>9. n \in Names \ Columns!Here
    BY <1>3, <1>7, HereIs DEF Present
  <2> QED BY <1>2, <2>8, <2>9 DEF Columns!Add
<1>8. CASE dir[n] # None
  <2>1. PICK d \in [Names -> Inodes \cup {None}] : d = [dir EXCEPT ![n] = None]
    BY <1>3
  <2>2. PICK s \in [Inodes -> Content \cup {None}] : s = store
    BY DEF IInv, TypeOK
  <2>3. Leaving(s, d, hs') /\ hs' = hs
    BY <1>2, <1>8, <2>1, <2>2 DEF Leaving
  <2>4. \A m \in Names : Col(dir', store', m) = IF m = n THEN None ELSE Col(dir, store, m)
    <3>1. \A m \in Names : Col(dir', store', m) = Col(d, s, m)
      BY <2>3, LeftColumns
    <3> QED BY <1>3, <2>1, <2>2, <3>1 DEF Col
  <2>5. Draft' = [Draft EXCEPT ![n] = None]
    BY <1>3, <1>6, <2>3
  <2>6. Stored' = [Stored EXCEPT ![n] = None]
    BY <1>3, <2>4, Views
  <2>7. Columns!Put(n, None)
    BY <2>5, <2>6 DEF Columns!Put, Stored, Draft
  <2>8. n \in Columns!Here
    BY <1>3, <1>8, HereIs DEF Present
  <2> QED BY <2>7, <2>8 DEF Columns!Remove
<1> QED BY <1>7, <1>8

----------------------------------------------------------------------------
(* Updates.                                                                *)

(* A writer with nothing in its cache has no drafts.                       *)
LEMMA NoDrafts ==
    ASSUME hs[TheWriter] = None \/ hs[TheWriter].cache = NoCache
    PROVE  Draft = Columns!Absent
BY Views, AbsentIs DEF Unwritten, NoCache

(* A writer that has closed or cached nothing has nothing unwritten.       *)
LEMMA NoDraftsAfter ==
    ASSUME hs'[TheWriter] = None \/ hs'[TheWriter].cache = NoCache
    PROVE  Draft' = Columns!Absent
BY Views, AbsentIs DEF Unwritten, NoCache

(* The drafts are given up, the columns stay.                              *)
LEMMA Forgetting ==
    ASSUME Draft' = Columns!Absent,
           \A n \in Names : Col(dir', store', n) = Col(dir, store, n)
    PROVE  Columns!Forget
<1>1. Stored' = Stored
  BY Views
<1> QED BY <1>1 DEF Columns!Forget, Stored, Draft

(* The index is replaced and every field handle forgotten.                 *)
LEMMA UpdateBeginStep ==
    ASSUME IInv, OneWriter, NEW h \in Handles, UpdateBegin(h)
    PROVE  Columns!Forget
<1>1. PICK g \in Grids, data \in SUBSET Names :
         Leaving(store, dir,
                 [k \in Handles |->
                    IF hs[k] = None THEN None
                    ELSE IF k # h THEN [hs[k] EXCEPT !.dated = TRUE]
                    ELSE [hs[h] EXCEPT !.grid = g, !.cache = NoCache,
                                       !.update = [todo |-> data, data |-> data]]])
  BY DEF UpdateBegin
<1>2. hs[h] \in Handle /\ hs[h] # None /\ TheWriter = h
  BY WriterKnows, WriterIs DEF UpdateBegin
<1>3. /\ Leaving(store, dir, hs')
      /\ hs'[h] = [hs[h] EXCEPT !.grid = g, !.cache = NoCache,
                                !.update = [todo |-> data, data |-> data]]
  BY <1>1, <1>2 DEF Leaving
<1>4. hs'[h].cache = NoCache
  BY <1>2, <1>3 DEF Handle
<1> QED BY <1>2, <1>3, <1>4, NoDraftsAfter, NothingMoves, Forgetting

(* One column of the update, old or new.                                   *)
LEMMA UpdateColumnStep ==
    ASSUME IInv, OneWriter, NEW h \in Handles, UpdateColumn(h)
    PROVE  Columns!Replace
<1>1. PICK n \in hs[h].update.todo, v \in Vals :
        Leaving([store EXCEPT ![Fresh] =
                   [grid |-> hs[h].grid, chunked |-> FALSE, val |-> v]],
                [dir EXCEPT ![n] = Fresh],
                [hs EXCEPT ![h].update.todo = hs[h].update.todo \ {n}])
  BY DEF UpdateColumn
<1>2. hs[h] # None /\ hs[h].update # None /\ Free # {}
  BY DEF UpdateColumn
<1>3. /\ hs[h] \in Handle /\ h \in Writers /\ n \in Names /\ hs[h].grid \in Grids
      /\ hs[h].cache = NoCache /\ TheWriter = h
      /\ hs \in [Handles -> Handle \cup {None}]
  BY <1>1, <1>2, UpdateKnows, WriterIs DEF TypeOK
<1> DEFINE C == [grid |-> hs[h].grid, chunked |-> FALSE, val |-> v]
<1>4. C \in Content /\ C.val = v
  BY <1>1, <1>3 DEF Content
<1>5. /\ Leaving([store EXCEPT ![Fresh] = C], [dir EXCEPT ![n] = Fresh], hs')
      /\ hs'[h].cache = NoCache
  <2>1. hs' = [hs EXCEPT ![h].update.todo = hs[h].update.todo \ {n}]
    BY <1>1 DEF Leaving
  <2>2. hs'[h].cache = NoCache
    BY <1>3, <2>1 DEF Handle
  <2> QED BY <1>1, <2>1, <2>2
<1> HIDE DEF C
<1>6. \A m \in Names : Col(dir', store', m) = IF m = n THEN v ELSE Col(dir, store, m)
  <2>1. PICK c \in Content : c = C
    BY <1>4
  <2> QED BY <1>1, <1>2, <1>3, <1>4, <1>5, <2>1, PutFile
<1>7. Draft = Columns!Absent /\ Draft' = Columns!Absent
  BY <1>3, <1>5, NoDrafts, NoDraftsAfter
<1>8. Stored' = [Stored EXCEPT ![n] = v] /\ Draft' = [Draft EXCEPT ![n] = None]
  BY <1>3, <1>6, <1>7, AbsentIs, Views
<1>9. Columns!Put(n, v)
  BY <1>8 DEF Columns!Put, Stored, Draft
<1> QED BY <1>1, <1>3, <1>7, <1>9 DEF Columns!Replace, Draft

(* Some columns are removed, and nobody has a draft.                       *)
LEMMA Pruning ==
    ASSUME IInv, Draft = Columns!Absent, Draft' = Columns!Absent, NEW S,
           \A n \in Names : Col(dir', store', n) = IF n \in S THEN None
                                                   ELSE Col(dir, store, n)
    PROVE  Columns!Prune
<1> DEFINE T == S \cap Columns!Here
<1>1. Stored' = [n \in Names |-> IF n \in T THEN None ELSE Stored[n]]
  <2>1. \A n \in Names : n \notin Columns!Here => Stored[n] = None
    BY DEF Columns!Here, Stored
  <2>2. \A n \in Names : Stored'[n] = IF n \in T THEN None ELSE Stored[n]
    BY <2>1, Views
  <2> HIDE DEF T
  <2> QED BY <2>2, Views
<1>2. T \in SUBSET Columns!Here
  OBVIOUS
<1> HIDE DEF T
<1> QED BY <1>1, <1>2 DEF Columns!Prune, Stored, Draft

(* The columns of the old schema that the update did not write are gone.   *)
LEMMA UpdateEndStep ==
    ASSUME Faults = FALSE, IInv, OneWriter, NEW h \in Handles, UpdateEnd(h)
    PROVE  Columns!Prune
<1> DEFINE S == hs[h].schema \ hs[h].update.data
           d0 == [n \in Names |-> IF n \in S THEN None ELSE dir[n]]
<1>1. /\ hs[h] # None /\ hs[h].update # None
      /\ \E b \in BOOLEAN : \E after \in Relisted([hs EXCEPT ![h].update = None,
                                                        ![h].dated = b], h, d0) :
            Leaving(store, d0, after)
  BY DEF UpdateEnd
<1>2. /\ hs[h] \in Handle /\ h \in Writers /\ hs[h].cache = NoCache /\ TheWriter = h
      /\ hs \in [Handles -> Handle \cup {None}] /\ store \in [Inodes -> Content \cup {None}]
      /\ dir \in [Names -> Inodes \cup {None}]
  BY <1>1, UpdateKnows, WriterIs DEF TypeOK
<1>3. PICK X : X = Present(d0)
  OBVIOUS
<1>4. PICK d \in [Names -> Inodes \cup {None}] : d = d0
  BY <1>2
<1>5. PICK s \in [Inodes -> Content \cup {None}] : s = store
  BY <1>2
<1>6. /\ Leaving(s, d, hs')
      /\ \E b \in BOOLEAN :
           hs' = [[hs EXCEPT ![h].update = None, ![h].dated = b] EXCEPT ![h].schema = X]
  <2> DEFINE G(b) == [hs EXCEPT ![h].update = None, ![h].dated = b]
  <2> HIDE DEF G
  <2>0. PICK b \in BOOLEAN : \E after \in Relisted(G(b), h, d) : Leaving(s, d, after)
    BY <1>1, <1>4, <1>5 DEF G
  <2>1. PICK after \in Relisted(G(b), h, d) : Leaving(s, d, after)
    BY <2>0
  <2>2. after = [G(b) EXCEPT ![h].schema = X]
    BY <1>3, <1>4, <2>1, RelistedSure
  <2>3. hs' = after
    BY <2>1 DEF Leaving
  <2> QED BY <2>1, <2>2, <2>3 DEF G
<1>7. hs'[h].cache = NoCache
  BY <1>2, <1>6 DEF Handle
<1>8. \A n \in Names : Col(dir', store', n) = Col(d, s, n)
  BY <1>6, LeftColumns
<1>9. \A n \in Names : Col(dir', store', n) = IF n \in S THEN None ELSE Col(dir, store, n)
  BY <1>4, <1>5, <1>8 DEF Col
<1>10. PICK R : R = S
  OBVIOUS
<1> QED BY <1>2, <1>7, <1>9, <1>10, NoDrafts, NoDraftsAfter, Pruning

(* A column fails: what is there stays.                                    *)
LEMMA UpdateFailsStep ==
    ASSUME IInv, OneWriter, NEW h \in Handles, UpdateFails(h)
    PROVE  UNCHANGED <<Stored, Draft>>
<1>1. hs[h] \in Handle /\ h \in Writers /\ hs[h].cache = NoCache /\ TheWriter = h
      /\ hs \in [Handles -> Handle \cup {None}]
  BY UpdateKnows, WriterIs DEF UpdateFails, TypeOK
<1>2. /\ hs' = [hs EXCEPT ![h].update = None, ![h].dated = TRUE, ![h].failed = TRUE]
      /\ UNCHANGED <<dir, store>>
  BY DEF UpdateFails
<1>3. hs'[h].cache = NoCache
  BY <1>1, <1>2 DEF Handle
<1>4. Draft' = Draft
  BY <1>1, <1>3, NoDrafts, NoDraftsAfter
<1> QED BY <1>2, <1>4 DEF Stored

----------------------------------------------------------------------------
(* Handles that come and go.                                               *)

(* A step of a reader that moves no file.                                  *)
LEMMA ReaderQuiet ==
    ASSUME SomeWriter, NEW h \in Handles \ Writers, \A k \in Handles : k # h => hs'[k] = hs[k],
           \A n \in Names : Col(dir', store', n) = Col(dir, store, n)
    PROVE  UNCHANGED <<Stored, Draft>>
<1>1. hs'[TheWriter] = hs[TheWriter]
  BY WriterThere
<1>2. \A n \in Names : Stays(n)
  BY <1>1 DEF Stays
<1> QED BY <1>2, AllStay

(* open_dataset: nothing is cached yet.                                    *)
LEMMA OpenStep ==
    ASSUME IInv, OneWriter, SomeWriter, NEW h \in Handles, Open(h)
    PROVE  UNCHANGED <<Stored, Draft>>
<1> DEFINE x == [grid |-> meta, schema |-> Present(dir), cache |-> NoCache,
                 update |-> None, dated |-> ~Whole, failed |-> FALSE, blind |-> FALSE]
<1>1. /\ hs[h] = None /\ hs' = [hs EXCEPT ![h] = x] /\ UNCHANGED <<dir, store>>
      /\ hs \in [Handles -> Handle \cup {None}]
  BY DEF Open, IInv, TypeOK
<1>2. x.cache = NoCache
  OBVIOUS
<1> HIDE DEF x
<1>3. hs'[h] = x /\ \A k \in Handles : k # h => hs'[k] = hs[k]
  BY <1>1
<1>4. CASE h \in Writers
  <2>1. Draft' = Draft
    BY <1>1, <1>2, <1>3, <1>4, WriterIs, NoDrafts, NoDraftsAfter
  <2> QED BY <1>1, <2>1 DEF Stored
<1>5. CASE h \notin Writers
  BY <1>1, <1>3, <1>5, ReaderQuiet
<1> QED BY <1>4, <1>5

(* The handle goes out of scope, a writer's drafts with it.                *)
LEMMA DropStep ==
    ASSUME IInv, OneWriter, SomeWriter, NEW h \in Handles, Drop(h)
    PROVE  Columns!Forget \/ UNCHANGED <<Stored, Draft>>
<1>1. /\ Leaving(store, dir, hs') /\ hs' = [hs EXCEPT ![h] = None]
      /\ hs \in [Handles -> Handle \cup {None}]
  BY DEF Drop, Leaving, IInv, TypeOK
<1>2. hs'[h] = None /\ \A k \in Handles : k # h => hs'[k] = hs[k]
  BY <1>1
<1>3. \A n \in Names : Col(dir', store', n) = Col(dir, store, n)
  BY <1>1, NothingMoves
<1>4. CASE h \in Writers
  BY <1>2, <1>3, <1>4, WriterIs, NoDraftsAfter, Forgetting
<1>5. CASE h \notin Writers
  BY <1>2, <1>3, <1>5, ReaderQuiet
<1> QED BY <1>4, <1>5

(* delete_dataset, with no writer there.                                   *)
LEMMA DeleteStep == ASSUME IInv, SomeWriter, Delete PROVE Columns!Prune
<1> DEFINE gone == [h \in Handles |-> IF hs[h] = None THEN None
                                      ELSE [hs[h] EXCEPT !.dated = TRUE]]
<1>1. hs[TheWriter] = None /\ hs' = gone /\ Leaving(store, NoCache, hs')
  BY WriterThere DEF Delete, Leaving
<1>2. hs'[TheWriter] = None
  BY <1>1, WriterThere
<1>3. PICK d \in [Names -> Inodes \cup {None}] : d = NoCache
  BY DEF NoCache
<1>4. PICK s \in [Inodes -> Content \cup {None}] : s = store
  BY DEF IInv, TypeOK
<1>5. Leaving(s, d, hs')
  BY <1>1, <1>3, <1>4
<1>6. \A n \in Names : Col(dir', store', n) = Col(d, s, n)
  BY <1>5, LeftColumns
<1>7. \A n \in Names : Col(dir', store', n) = IF n \in Names THEN None ELSE Col(dir, store, n)
  BY <1>3, <1>6 DEF Col, NoCache
<1> QED BY <1>1, <1>2, <1>7, NoDrafts, NoDraftsAfter, Pruning

(* create_dataset, with no directory and so no writer there.               *)
LEMMA CreateStep ==
    ASSUME IInv, IInv', SomeWriter, Create PROVE Columns!Found
<1>1. meta = None /\ dir = NoCache /\ hs' = hs
  BY DEF Create, IInv, DirInv
<1>2. hs[TheWriter] = None
  BY <1>1, WriterThere DEF IInv, HandleOk, WriterOk
<1>3. Draft = Columns!Absent /\ Draft' = Columns!Absent
  BY <1>1, <1>2, NoDrafts, NoDraftsAfter
<1>4. Stored = Columns!Absent
  BY <1>1, Views, AbsentIs DEF Col, NoCache
<1>5. \A n \in Names : Stored'[n] \in Vals \cup {None}
  BY ColumnOfFileAfter
<1>6. Stored' \in [Names -> Vals \cup {None}]
  BY <1>5, Views
<1> QED BY <1>3, <1>4, <1>6 DEF Columns!Found, Stored, Draft

(* read_dataset: what is opened is not modified.                           *)
LEMMA ReadStep ==
    ASSUME IInv, OneWriter, SomeWriter, NEW h \in Handles, Read(h)
    PROVE  UNCHANGED <<Stored, Draft>>
<1>1. PICK S \in SUBSET hs[h].schema :
        Openable(h, S) /\ hs' = [hs EXCEPT ![h].cache = Ensured(h, S)]
  BY DEF Read
<1>2. /\ Idle(h) /\ UNCHANGED <<dir, store>> /\ hs[h] \in Handle /\ hs[h] # None
      /\ hs \in [Handles -> Handle \cup {None}]
  BY DEF Read, IInv, TypeOK, Idle
<1>3. S \in SUBSET Names
  BY <1>2, HandleParts
<1>4. PICK c \in [Names -> Entry \cup {None}] : c = Ensured(h, S)
  BY <1>1, <1>2, <1>3, EnsuredFields
<1>5. \A n \in Names : c[n] # None => c[n] = hs[h].cache[n] \/ ~c[n].modified
  BY <1>1, <1>2, <1>3, <1>4, EnsuredFields
<1>6. \A n \in Names : hs[h].cache[n] # None => c[n] = hs[h].cache[n]
  BY <1>4 DEF Ensured
<1> DEFINE x == [hs[h] EXCEPT !.cache = c]
<1>7. x \in Handle /\ x # None /\ x.cache = c
  BY <1>2, CacheEdited
<1>8. hs' = [hs EXCEPT ![h] = x]
  BY <1>1, <1>4
<1> HIDE DEF x
<1>9. hs'[h] = x /\ \A k \in Handles : k # h => hs'[k] = hs[k]
  BY <1>2, <1>8
<1>10. CASE h \in Writers
  <2>1. \A n \in Names : Unwritten(x, n) = Unwritten(hs[h], n)
    BY <1>2, <1>5, <1>6, <1>7 DEF Unwritten
  <2>2. \A n \in Names : Stays(n)
    BY <1>2, <1>9, <1>10, <2>1, WriterIs DEF Stays
  <2> QED BY <2>2, AllStay
<1>11. CASE h \notin Writers
  BY <1>2, <1>9, <1>11, ReaderQuiet
<1> QED BY <1>10, <1>11

----------------------------------------------------------------------------
(* Writes.                                                                 *)

(* What an edit may do to field n: it takes effect at once, or it waits.   *)
Edited(n) ==
    \/ Stored'[n] # None /\ Draft[n] = None /\ Draft'[n] = None
    \/ Stored'[n] = Stored[n] /\ Draft'[n] # None

(* What is unwritten in a field after a step is a value, or nothing.       *)
LEMMA DraftAfter ==
    ASSUME IInv', SomeWriter, NEW n \in Names PROVE Draft'[n] \in Vals \cup {None}
<1>1. TheWriter \in Handles
  BY WriterThere
<1>2. ASSUME hs'[TheWriter] # None, hs'[TheWriter].cache[n] # None
      PROVE  hs'[TheWriter].cache[n].working \in Vals \cup {None}
  <2>1. hs'[TheWriter] \in Handle
    BY <1>1, <1>2 DEF IInv, TypeOK
  <2> QED BY <1>2, <2>1, HandleParts, EntryParts
<1> QED BY <1>2, Views DEF Unwritten

(* Fields that are there and edited in memory are an abstract edit.        *)
LEMMA Editing ==
    ASSUME IInv, IInv', SomeWriter, NEW S \in SUBSET Present(dir),
           \A n \in Names \ S : Stays(n), \A n \in S : Edited(n)
    PROVE  Columns!Edit
<1>1. S \in SUBSET Columns!Here
  BY HereIs
<1>2. /\ Stored' \in [Names -> Vals \cup {None}]
      /\ Draft' \in [Names -> Vals \cup {None}]
  BY ColumnOfFileAfter, DraftAfter, Views
<1>3. \A n \in Names \ S : Stored'[n] = Stored[n] /\ Draft'[n] = Draft[n]
  BY Views DEF Stays
<1>4. \A n \in S : \/ Stored'[n] # None /\ Draft[n] = None /\ Draft'[n] = None
                   \/ Stored'[n] = Stored[n] /\ Draft'[n] # None
  BY DEF Edited
<1> QED BY <1>1, <1>2, <1>3, <1>4 DEF Columns!Edit, Stored, Draft

(* What the writer finds in its cache after opening what it needs: files   *)
(* on their path, and the drafts it had.                                   *)
EnsuredFor(h, S, n) ==
    LET e == Ensured(h, S)[n]
    IN  /\ Ensured(h, S) \in [Names -> Entry \cup {None}]
        /\ n \in S => e # None
        /\ Unwritten(hs[h], n) = IF e # None /\ e.modified THEN e.working ELSE None
        /\ e # None => /\ e \in Entry /\ dir[n] = e.ino /\ dir[n] # None
                       /\ store[dir[n]] \in Content
                       /\ e.modified => e.working # None

(* That is its cache when no call stops half way: the writer is not blind. *)
LEMMA EnsuredWriter ==
    ASSUME Faults = FALSE, IInv, NEW h \in Handles, Writes(h), NEW S \in SUBSET hs[h].schema, Openable(h, S),
           NEW n \in Names
    PROVE  EnsuredFor(h, S, n)
<1> USE DEF EnsuredFor
<1> DEFINE E == Ensured(h, S)
<1>1. S \in SUBSET Names /\ Idle(h) /\ hs[h] # None
  BY WriterKnows DEF Writes
<1>2. /\ E \in [Names -> Entry \cup {None}] /\ (n \in S => E[n] # None)
      /\ E[n] # None =>
           LET e == E[n]
           IN  \/ e = hs[h].cache[n]
               \/ /\ n \in S /\ dir[n] # None /\ e.ino = dir[n] /\ ~e.modified
                  /\ (e.working # None) = store[dir[n]].chunked
  BY <1>1, EnsuredFields
<1>3. hs[h].cache[n] # None => E[n] = hs[h].cache[n]
  BY DEF Ensured
<1> HIDE DEF E
<1>4. ASSUME E[n] # None
      PROVE  /\ E[n] \in Entry /\ dir[n] = E[n].ino /\ dir[n] # None
             /\ store[dir[n]] \in Content /\ (E[n].modified => E[n].working # None)
  <2>1. E[n] \in Entry
    BY <1>2, <1>4
  <2>2. CASE E[n] = hs[h].cache[n]
    <3>1. E[n].modified => E[n].working # None
      BY <1>1, <1>4, <2>2 DEF IInv, HandleOk, CachedOk
    <3> QED BY <1>4, <2>1, <2>2, <3>1, WriterKnows, EntryParts, DatasetAssumption
  <2>3. CASE dir[n] # None /\ E[n].ino = dir[n] /\ ~E[n].modified
    BY <2>1, <2>3 DEF IInv, TypeOK, DirInv
  <2> QED BY <1>2, <1>4, <2>2, <2>3
<1>5. Unwritten(hs[h], n) = IF E[n] # None /\ E[n].modified THEN E[n].working ELSE None
  BY <1>1, <1>2, <1>3 DEF Unwritten
<1> QED BY <1>2, <1>4, <1>5 DEF E

(* update_dataset_field_header                                             *)
LEMMA UpdateHeaderStep ==
    ASSUME Faults = FALSE, IInv, IInv', OneWriter, SomeWriter, NEW h \in Handles, UpdateHeader(h)
    PROVE  Columns!Edit
<1>1. PICK n \in hs[h].schema :
        /\ Openable(h, {n})
        /\ hs' = [hs EXCEPT ![h].cache = [Ensured(h, {n}) EXCEPT
                    ![n].modified = (@ \/ Ensured(h, {n})[n].working # None)]]
  BY DEF UpdateHeader
<1>2. /\ Writes(h) /\ UNCHANGED <<dir, store>> /\ n \in Names /\ TheWriter = h
      /\ hs[h] \in Handle /\ hs \in [Handles -> Handle \cup {None}]
  BY WriterKnows, WriterIs DEF UpdateHeader, IInv, TypeOK
<1>3. PICK S \in SUBSET hs[h].schema : S = {n}
  OBVIOUS
<1> DEFINE E == Ensured(h, S)
           b == E[n].modified \/ E[n].working # None
           c == [E EXCEPT ![n] = [E[n] EXCEPT !.modified = b]]
           x == [hs[h] EXCEPT !.cache = c]
<1>4. \A m \in Names :
        /\ E \in [Names -> Entry \cup {None}]
        /\ m \in S => E[m] # None
        /\ Unwritten(hs[h], m) = IF E[m] # None /\ E[m].modified THEN E[m].working ELSE None
        /\ E[m] # None => E[m] \in Entry /\ dir[m] # None
                          /\ (E[m].modified => E[m].working # None)
  <2>1. Openable(h, S)
    BY <1>1, <1>3
  <2>2. \A m \in Names : EnsuredFor(h, S, m)
    BY <1>2, <2>1, EnsuredWriter
  <2> HIDE DEF E
  <2> SUFFICES ASSUME NEW m \in Names
               PROVE  /\ E \in [Names -> Entry \cup {None}]
                      /\ m \in S => E[m] # None
                      /\ Unwritten(hs[h], m) = IF E[m] # None /\ E[m].modified
                                               THEN E[m].working ELSE None
                      /\ E[m] # None => E[m] \in Entry /\ dir[m] # None
                                        /\ (E[m].modified => E[m].working # None)
    OBVIOUS
  <2> USE DEF E
  <2> QED BY <2>2 DEF EnsuredFor
<1> HIDE DEF E
<1>5. E \in [Names -> Entry \cup {None}] /\ E[n] \in Entry /\ dir[n] # None
  BY <1>2, <1>3, <1>4
<1>6. b = (E[n].working # None) /\ b \in BOOLEAN
  BY <1>2, <1>3, <1>4, <1>5, EntryParts
<1>7. hs' = [hs EXCEPT ![h] = x]
  BY <1>1, <1>3 DEF E
<1> HIDE DEF b
<1>8. /\ [E[n] EXCEPT !.modified = b] \in Entry
      /\ [E[n] EXCEPT !.modified = b].working = E[n].working
      /\ [E[n] EXCEPT !.modified = b].modified = b
  BY <1>5, <1>6 DEF Entry
<1>9. /\ c \in [Names -> Entry \cup {None}] /\ \A m \in Names : m # n => c[m] = E[m]
      /\ c[n] \in Entry /\ c[n].working = E[n].working /\ c[n].modified = b
  BY <1>2, <1>5, <1>8
<1> HIDE DEF c
<1>10. x # None /\ x.cache = c
  BY <1>2, <1>9, CacheEdited
<1> HIDE DEF x
<1>11. hs'[h] = x
  BY <1>2, <1>7
<1>12. \A m \in Names \ {n} : Stays(m)
  BY <1>2, <1>4, <1>9, <1>10, <1>11 DEF Stays, Unwritten
<1>13. Draft'[n] = E[n].working /\ Draft[n] = IF E[n].modified THEN E[n].working ELSE None
  BY <1>2, <1>4, <1>5, <1>6, <1>9, <1>10, <1>11, EntryParts, Views DEF Unwritten
<1>14. Stored'[n] = Stored[n] /\ Stored[n] # None
  BY <1>2, <1>5, ColumnOfFile, Views
<1>15. Edited(n)
  BY <1>2, <1>4, <1>5, <1>13, <1>14, EntryParts DEF Edited
<1>16. PICK T \in SUBSET Present(dir) : T = {n}
  BY <1>2, <1>5 DEF Present
<1> QED BY <1>12, <1>15, <1>16, Editing

(* write_dataset: a column goes to the file of its own field or waits in   *)
(* the decoded copy, and no two fields share a file.                       *)
LEMMA WriteDatasetStep ==
    ASSUME Faults = FALSE, IInv, IInv', OneWriter, SomeWriter, NEW h \in Handles, WriteDataset(h)
    PROVE  Columns!Edit
<1>1. PICK S \in SUBSET Names : \E v \in [S -> Vals], done \in SUBSET Names : Write(h, S, v, done)
  BY DEF WriteDataset
<1>2. PICK v \in [S -> Vals], done \in SUBSET Names : Write(h, S, v, done)
  BY <1>1
<1> DEFINE E == Ensured(h, S)
           inPlace(i) == {n \in done : E[n].ino = i /\ E[n].working = None}
           c == [n \in Names |->
                   IF n \in done /\ E[n].working # None
                   THEN [E[n] EXCEPT !.working = v[Leaf[n]], !.modified = TRUE]
                   ELSE E[n]]
           x == [hs[h] EXCEPT !.cache = c]
<1>3. /\ Writes(h) /\ S \in SUBSET hs[h].schema /\ Openable(h, S)
      /\ done \subseteq Targets(S, E)
      /\ hs' = [hs EXCEPT ![h] = x]
      /\ store' = [i \in Inodes |->
                     IF inPlace(i) = {} THEN store[i]
                     ELSE [store[i] EXCEPT !.val = v[Leaf[CHOOSE n \in inPlace(i) : TRUE]]]]
      /\ dir' = dir
  BY <1>2 DEF Write
<1>4. \A n \in Names :
        /\ Unwritten(hs[h], n) = IF E[n] # None /\ E[n].modified THEN E[n].working ELSE None
        /\ E[n] # None => /\ E[n] \in Entry /\ dir[n] = E[n].ino /\ dir[n] # None
                          /\ store[dir[n]] \in Content
                          /\ E[n].modified => E[n].working # None
  BY <1>3, EnsuredWriter DEF EnsuredFor
<1> HIDE DEF E
<1>5. \A n \in done : E[n] # None /\ v[Leaf[n]] \in Vals /\ v[Leaf[n]] # None
  BY <1>3, DatasetAssumption DEF Targets
<1>6. /\ TypeOK /\ DirInv /\ hs[h] # None /\ hs'[h] = x /\ TheWriter = h /\ x.cache = c
      /\ x # None
  <2>1. /\ TypeOK /\ DirInv /\ hs[h] # None /\ TheWriter = h /\ hs[h] \in Handle
    BY <1>3, WriterKnows, WriterIs DEF IInv
  <2>2. ASSUME NEW n \in Names PROVE c[n] \in Entry \cup {None}
    <3>1. CASE n \in done /\ E[n].working # None
      BY <1>4, <1>5, <3>1 DEF Entry
    <3>2. CASE ~(n \in done /\ E[n].working # None)
      <4>1. E[n] \in Entry \cup {None}
        BY <1>4
      <4> QED BY <3>2, <4>1
    <3> QED BY <3>1, <3>2
  <2>3. c \in [Names -> Entry \cup {None}]
    BY <2>2
  <2> HIDE DEF c
  <2>4. x.cache = c /\ x # None
    BY <2>1, <2>3, CacheEdited
  <2> HIDE DEF x
  <2> QED BY <1>3, <2>1, <2>4 DEF TypeOK
<1> HIDE DEF x
<1>7. ASSUME NEW n \in Names, n \notin done \/ E[n].working # None
      PROVE  Stored'[n] = Stored[n]
  <2>1. CASE dir[n] = None
    BY <1>3, <2>1, Views DEF Col
  <2>2. CASE dir[n] # None
    <3>1. ASSUME NEW m \in inPlace(dir[n]) PROVE FALSE
      <4>1. m \in Names /\ dir[m] # None /\ dir[m] = dir[n] /\ m \in done /\ E[m].working = None
        BY <1>4, <1>5
      <4>2. m = n
        BY <1>6, <4>1 DEF DirInv, Apart
      <4> QED BY <1>7, <4>1, <4>2
    <3>2. dir[n] \in Inodes
      BY <1>6, <2>2 DEF TypeOK
    <3>3. store'[dir[n]] = store[dir[n]]
      BY <1>3, <3>1, <3>2
    <3>4. dir' = dir
      BY <1>3
    <3>5. Col(dir', store', n) = Col(dir, store, n)
      BY <3>3, <3>4 DEF Col
    <3> QED BY <3>5, Views
  <2> QED BY <2>1, <2>2
<1>8. ASSUME NEW n \in Names \ done PROVE Stays(n)
  <2>1. c[n] = E[n]
    BY <1>8
  <2>2. Unwritten(x, n) = Unwritten(hs[h], n)
    BY <1>4, <1>6, <1>8, <2>1 DEF Unwritten
  <2> QED BY <1>6, <1>7, <1>8, <2>2, Views DEF Stays
<1>9. ASSUME NEW n \in done PROVE Edited(n)
  <2>1. /\ E[n] \in Entry /\ E[n] # None /\ dir[n] # None
        /\ E[n].modified => E[n].working # None
    BY <1>4, <1>5
  <2>2. CASE E[n].working = None
    <3>1. c[n] = E[n]
      BY <2>2
    <3>2. Draft'[n] = None /\ Draft[n] = None
      BY <1>4, <1>6, <2>1, <2>2, <3>1, Views DEF Unwritten
    <3>3. Stored'[n] # None
      BY <1>3, <2>1, ColumnOfFileAfter
    <3> QED BY <3>2, <3>3 DEF Edited
  <2>3. CASE E[n].working # None
    <3>1. c[n] = [E[n] EXCEPT !.working = v[Leaf[n]], !.modified = TRUE]
      BY <2>3
    <3>2. c[n].working = v[Leaf[n]] /\ c[n].modified /\ c[n] \in Entry
      BY <1>5, <2>1, <3>1 DEF Entry
    <3> HIDE DEF c
    <3>3. Draft'[n] # None
      BY <1>5, <1>6, <3>2, EntryParts, Views DEF Unwritten
    <3> QED BY <1>7, <2>3, <3>3 DEF Edited
  <2> QED BY <2>2, <2>3
<1>10. PICK T \in SUBSET Present(dir) : T = done
  BY <1>4, <1>5 DEF Present
<1> QED BY <1>8, <1>9, <1>10, Editing

----------------------------------------------------------------------------
(* Closing.                                                                *)

(* Each draft is in a new file at the path of its own field.               *)
SavedColumn(h, saved, at, n) ==
    Col(SavedDir(saved, at), SavedStore(h, saved, at), n) =
        IF n \in saved THEN Draft[n] ELSE Stored[n]

(* What a close has written.                                               *)
LEMMA SavedColumns ==
    ASSUME Faults = FALSE, IInv, OneWriter, SomeWriter, NEW h \in Handles, Writes(h),
           NEW saved \in SUBSET Unsaved(h), NEW at \in Fresher(saved), NEW n \in Names
    PROVE  SavedColumn(h, saved, at, n)
<1> USE DEF SavedColumn
<1> DEFINE s == SavedStore(h, saved, at)
           d == SavedDir(saved, at)
<1>1. /\ TypeOK /\ DirInv /\ saved \subseteq Names /\ hs[h] # None /\ TheWriter = h
      /\ at \in [saved -> Free] /\ \A k, m \in saved : k # m => at[k] # at[m]
  BY WriterKnows, WriterIs, FresherFiles DEF IInv, Unsaved
<1>2. \A m \in saved : at[m] \in Inodes /\ at[m] # None /\ store[at[m]] = None
  BY <1>1, DatasetAssumption DEF Free
<1>3. CASE n \in saved
  <2> DEFINE e == hs[h].cache[n]
  <2>1. e # None /\ e.modified
    BY <1>3 DEF Unsaved
  <2>2. e \in Entry /\ dir[n] = e.ino /\ store[e.ino] \in Content
    BY <2>1, WriterKnows
  <2>3. Draft[n] = e.working
    BY <1>1, <2>1, Views DEF Unwritten
  <2>4. (CHOOSE m \in saved : at[m] = at[n]) = n
    BY <1>1, <1>3
  <2>5. s[at[n]] = [store[e.ino] EXCEPT !.val = e.working]
    BY <1>2, <1>3, <2>4 DEF SavedStore
  <2>6. s[at[n]].val = e.working
    BY <2>2, <2>5 DEF Content
  <2>7. d[n] = at[n]
    BY <1>3 DEF SavedDir
  <2> QED BY <1>2, <1>3, <2>3, <2>6, <2>7 DEF Col
<1>4. CASE n \notin saved
  <2>1. d[n] = dir[n]
    BY <1>4 DEF SavedDir
  <2>2. dir[n] # None => dir[n] \in Inodes /\ \A m \in saved : at[m] # dir[n]
    BY <1>1, <1>2 DEF TypeOK, DirInv
  <2>3. dir[n] # None => s[dir[n]] = store[dir[n]]
    BY <2>2 DEF SavedStore
  <2> QED BY <1>4, <2>1, <2>3, ColumnOfFile DEF Col
<1> QED BY <1>3, <1>4

(* close_dataset                                                           *)
LEMMA CloseStep ==
    ASSUME Faults = FALSE, IInv, OneWriter, SomeWriter, NEW h \in Handles, Close(h)
    PROVE  Columns!Publish \/ UNCHANGED <<Stored, Draft>>
<1>1. PICK saved \in SUBSET Unsaved(h) : \E at \in Fresher(saved) :
        /\ Faults \/ saved = Unsaved(h)
        /\ Leaving(SavedStore(h, saved, at), SavedDir(saved, at), [hs EXCEPT ![h] = None])
  BY DEF Close, SavedStore, SavedDir
<1>2. PICK at \in Fresher(saved) :
        /\ Faults \/ saved = Unsaved(h)
        /\ Leaving(SavedStore(h, saved, at), SavedDir(saved, at), [hs EXCEPT ![h] = None])
  BY <1>1
<1>3. /\ TypeOK /\ Idle(h) /\ hs' = [hs EXCEPT ![h] = None]
      /\ hs'[h] = None /\ \A k \in Handles : k # h => hs'[k] = hs[k]
  BY <1>2 DEF Close, IInv, Leaving, TypeOK
<1>4. CASE h \in Writers
  <2>1. PICK s, d : s = SavedStore(h, saved, at) /\ d = SavedDir(saved, at)
    OBVIOUS
  <2>2. FilesFor(s, d) /\ Leaving(s, d, hs')
    BY <1>2, <1>3, <1>4, <2>1, FilesSaved DEF Writes
  <2>3. s \in [Inodes -> Content \cup {None}] /\ d \in [Names -> Inodes \cup {None}]
    BY <2>2 DEF FilesFor
  <2>4. \A n \in Names : Stored'[n] = IF n \in saved THEN Draft[n] ELSE Stored[n]
    <3>1. \A n \in Names : Stored'[n] = Col(d, s, n)
      BY <2>2, <2>3, LeftColumns, Views
    <3>2. Writes(h)
      BY <1>3, <1>4 DEF Writes
    <3>3. \A n \in Names : SavedColumn(h, saved, at, n)
      BY <3>2, SavedColumns
    <3> QED BY <2>1, <3>1, <3>3 DEF SavedColumn
  <2>5. \A n \in Names : Draft[n] # None => n \in Unsaved(h)
    BY <1>4, WriterIs, Views DEF Unwritten, Unsaved
  <2>6. \A n \in saved : n \in Names /\ Draft[n] # None
    BY <1>3, <1>4, WriterIs, DraftOfWriter DEF Unsaved, Idle
  <2>7. PICK S \in SUBSET Names :
          (Faults \/ S = Names) /\ saved \subseteq S
          /\ \A n \in S : Draft[n] # None => n \in saved
    <3>1. CASE Faults
      BY <2>6, <3>1
    <3>2. CASE ~Faults
      BY <1>2, <2>5, <2>6, <3>2
    <3> QED BY <3>1, <3>2
  <2>8. Stored' = [n \in Names |-> IF n \in S /\ Draft[n] # None THEN Draft[n] ELSE Stored[n]]
    BY <2>4, <2>6, <2>7, Views
  <2>9. Draft' = Columns!Absent
    BY <1>3, <1>4, WriterIs, NoDraftsAfter
  <2> QED BY <2>7, <2>8, <2>9 DEF Columns!Publish, Stored, Draft
<1>5. CASE h \notin Writers
  <2>1. Unsaved(h) = {}
    BY <1>3, <1>5 DEF IInv, HandleOk, ReaderOk, Unsaved, Idle
  <2>2. SavedStore(h, saved, at) = store /\ SavedDir(saved, at) = dir
    BY <1>3, <2>1 DEF SavedStore, SavedDir, TypeOK
  <2>3. Leaving(store, dir, hs')
    BY <1>2, <1>3, <2>2
  <2> QED BY <1>3, <1>5, <2>3, NothingMoves, ReaderQuiet
<1> QED BY <1>4, <1>5

----------------------------------------------------------------------------
(* All steps.                                                              *)

(* A handle marked as failed stays so when it forgets a field or its       *)
(* schema is read again, and no other becomes so.                          *)
LEMMA FailedStays ==
    ASSUME Faults = FALSE, NEW h \in Handles,
           hs \in [Handles -> Handle \cup {None}], hs[h] \in Handle,
           \/ hs' = hs
           \/ \E d : hs' \in Relisted(hs, h, d)
           \/ \E n : hs' = Forgotten(h, n)
           \/ \E n, d : hs' \in Relisted(Forgotten(h, n), h, d)
    PROVE  \E x : hs' = [hs EXCEPT ![h] = x] /\ x.failed = hs[h].failed
<1>1. CASE hs' = hs
  BY <1>1
<1>2. CASE \E d : hs' \in Relisted(hs, h, d)
  <2>1. PICK S : hs' = [hs EXCEPT ![h].schema = S]
    BY <1>2, RelistedSure
  <2>2. PICK x : x = [hs[h] EXCEPT !.schema = S]
    OBVIOUS
  <2>3. x.failed = hs[h].failed /\ hs' = [hs EXCEPT ![h] = x]
    BY <2>1, <2>2 DEF Handle
  <2> QED BY <2>3
<1>3. CASE \E n : hs' = Forgotten(h, n)
  <2>1. PICK c : hs' = [hs EXCEPT ![h].cache = c]
    BY <1>3 DEF Forgotten
  <2>2. PICK x : x = [hs[h] EXCEPT !.cache = c]
    OBVIOUS
  <2>3. x.failed = hs[h].failed /\ hs' = [hs EXCEPT ![h] = x]
    BY <2>1, <2>2 DEF Handle
  <2> QED BY <2>3
<1>4. CASE \E n, d : hs' \in Relisted(Forgotten(h, n), h, d)
  <2>1. PICK n, S : hs' = [Forgotten(h, n) EXCEPT ![h].schema = S]
    BY <1>4, RelistedSure
  <2>2. PICK c : hs' = [[hs EXCEPT ![h].cache = c] EXCEPT ![h].schema = S]
    BY <2>1 DEF Forgotten
  <2>3. PICK x : x = [[hs[h] EXCEPT !.cache = c] EXCEPT !.schema = S]
    OBVIOUS
  <2>4. x.failed = hs[h].failed /\ hs' = [hs EXCEPT ![h] = x]
    BY <2>2, <2>3 DEF Handle
  <2> QED BY <2>4
<1> QED BY <1>1, <1>2, <1>3, <1>4

(* No call marks a handle but an update that stops half way.               *)
LEMMA NoneFails ==
    ASSUME IInv, NoneFailed, Faults = FALSE, [Next]_vars PROVE NoneFailed'
<1>1. /\ hs \in [Handles -> Handle \cup {None}]
      /\ \A h \in Handles : hs[h] # None => hs[h] \in Handle
  BY DEF IInv, TypeOK
<1>2. CASE Create \/ UNCHANGED vars
  BY <1>2 DEF Create, vars, NoneFailed
<1>3. CASE Delete
  <2>1. \A k \in Handles : hs'[k] = IF hs[k] = None THEN None ELSE [hs[k] EXCEPT !.dated = TRUE]
    BY <1>3 DEF Delete, Leaving
  <2> QED BY <1>1, <2>1 DEF NoneFailed, Handle
<1>4. ASSUME NEW h \in Handles, Calls(h) PROVE NoneFailed'
  <2>1. CASE Open(h)
    BY <1>1, <2>1 DEF Open, NoneFailed
  <2>2. CASE Close(h) \/ Drop(h)
    BY <1>1, <2>2 DEF Close, Drop, Leaving, NoneFailed
  <2>3. CASE UpdateBegin(h)
    <3>1. PICK g \in Grids, data \in SUBSET Names :
            hs' = [k \in Handles |->
                     IF hs[k] = None THEN None
                     ELSE IF k # h THEN [hs[k] EXCEPT !.dated = TRUE]
                     ELSE [hs[h] EXCEPT !.grid = g, !.cache = NoCache,
                                        !.update = [todo |-> data, data |-> data]]]
      BY <2>3 DEF UpdateBegin, Leaving
    <3> QED BY <1>1, <3>1 DEF NoneFailed, Handle
  <2>4. CASE Read(h) \/ WriteDataset(h) \/ UpdateHeader(h) \/ UpdateColumn(h)
    <3>1. hs[h] # None /\ \E x : /\ hs' = [hs EXCEPT ![h] = x]
                                 /\ x.failed = hs[h].failed
      <4>1. CASE Read(h)
        <5>1. hs[h] # None /\ \E c : hs' = [hs EXCEPT ![h].cache = c]
          BY <4>1 DEF Read, Idle
        <5>2. PICK c : hs' = [hs EXCEPT ![h].cache = c]
          BY <5>1
        <5>3. PICK x : x = [hs[h] EXCEPT !.cache = c]
          OBVIOUS
        <5>4. x.failed = hs[h].failed /\ hs' = [hs EXCEPT ![h] = x]
          BY <1>1, <5>1, <5>2, <5>3 DEF Handle
        <5> QED BY <5>1, <5>4
      <4>2. CASE WriteDataset(h)
        <5>1. hs[h] # None /\ \E c : hs' = [hs EXCEPT ![h].cache = c]
          BY <4>2 DEF WriteDataset, Write, Writes, Idle
        <5>2. PICK c : hs' = [hs EXCEPT ![h].cache = c]
          BY <5>1
        <5>3. PICK x : x = [hs[h] EXCEPT !.cache = c]
          OBVIOUS
        <5>4. x.failed = hs[h].failed /\ hs' = [hs EXCEPT ![h] = x]
          BY <1>1, <5>1, <5>2, <5>3 DEF Handle
        <5> QED BY <5>1, <5>4
      <4>3. CASE UpdateHeader(h)
        <5>1. hs[h] # None /\ \E c : hs' = [hs EXCEPT ![h].cache = c]
          BY <4>3 DEF UpdateHeader, Writes, Idle
        <5>2. PICK c : hs' = [hs EXCEPT ![h].cache = c]
          BY <5>1
        <5>3. PICK x : x = [hs[h] EXCEPT !.cache = c]
          OBVIOUS
        <5>4. x.failed = hs[h].failed /\ hs' = [hs EXCEPT ![h] = x]
          BY <1>1, <5>1, <5>2, <5>3 DEF Handle
        <5> QED BY <5>1, <5>4
      <4>4. CASE UpdateColumn(h)
        <5>1. hs[h] # None /\ \E T : hs' = [hs EXCEPT ![h].update.todo = T]
          BY <4>4 DEF UpdateColumn, Leaving
        <5>2. PICK T : hs' = [hs EXCEPT ![h].update.todo = T]
          BY <5>1
        <5>3. PICK x : x = [hs[h] EXCEPT !.update.todo = T]
          OBVIOUS
        <5>4. x.failed = hs[h].failed /\ hs' = [hs EXCEPT ![h] = x]
          BY <1>1, <5>1, <5>2, <5>3 DEF Handle
        <5> QED BY <5>1, <5>4
      <4> QED BY <2>4, <4>1, <4>2, <4>3, <4>4
    <3> QED BY <1>1, <3>1 DEF NoneFailed
  <2>5. CASE CreateField(h) \/ DeleteField(h) \/ RenameField(h) \/ UpdateEnd(h)
    <3>1. hs[h] # None /\ \E x : /\ hs' = [hs EXCEPT ![h] = x]
                                 /\ x.failed = hs[h].failed
      <4>1. CASE CreateField(h)
        <5>1. hs[h] # None /\ (hs' = hs \/ \E d : hs' \in Relisted(hs, h, d))
          BY <4>1 DEF CreateField, Leaving, Writes, Idle
        <5> QED BY <1>1, <5>1, FailedStays
      <4>2. CASE DeleteField(h)
        <5>1. hs[h] # None /\ \E n, d : \/ hs' = Forgotten(h, n)
                                       \/ hs' \in Relisted(Forgotten(h, n), h, d)
          BY <4>2 DEF DeleteField, Refused, Leaving, Writes, Idle
        <5> QED BY <1>1, <5>1, FailedStays
      <4>3. CASE RenameField(h)
        <5>1. hs[h] # None /\ \E n, d : \/ hs' = Forgotten(h, n)
                                       \/ hs' \in Relisted(Forgotten(h, n), h, d)
          BY <4>3 DEF RenameField, Refused, Leaving, Writes, Idle
        <5> QED BY <1>1, <5>1, FailedStays
      <4>4. CASE UpdateEnd(h)
        <5>1. PICK b, d : hs' \in Relisted([hs EXCEPT ![h].update = None, ![h].dated = b], h, d)
          BY <4>4 DEF UpdateEnd, Leaving
        <5>2. PICK S : hs' = [[hs EXCEPT ![h].update = None, ![h].dated = b]
                                EXCEPT ![h].schema = S]
          BY <5>1, RelistedSure
        <5>20. hs[h] # None
          BY <4>4 DEF UpdateEnd
        <5>3. PICK x : x = [[hs[h] EXCEPT !.update = None, !.dated = b] EXCEPT !.schema = S]
          OBVIOUS
        <5>4. x.failed = hs[h].failed /\ hs' = [hs EXCEPT ![h] = x]
          BY <1>1, <5>2, <5>3, <5>20 DEF Handle
        <5> QED BY <5>4, <5>20
      <4> QED BY <2>5, <4>1, <4>2, <4>3, <4>4
    <3> QED BY <1>1, <3>1 DEF NoneFailed
  <2>6. CASE Convert(h) \/ CastField(h)
    <3>1. hs[h] # None /\ \E x : /\ hs' = [hs EXCEPT ![h] = x]
                                 /\ x.failed = hs[h].failed
      <4>1. CASE Convert(h)
        <5>1. hs[h] # None /\ \E n : hs' = Forgotten(h, n)
          BY <4>1 DEF Convert, Rebuild, Refused, Leaving, Writes, Idle
        <5> QED BY <1>1, <5>1, FailedStays
      <4>2. CASE CastField(h)
        <5>1. hs[h] # None /\ \E n, d : \/ hs' = Forgotten(h, n)
                                       \/ hs' \in Relisted(Forgotten(h, n), h, d)
          BY <4>2 DEF CastField, Rebuild, Refused, Leaving, Writes, Idle
        <5> QED BY <1>1, <5>1, FailedStays
      <4> QED BY <2>6, <4>1, <4>2
    <3> QED BY <1>1, <3>1 DEF NoneFailed
  <2>7. CASE UpdateFails(h)
    BY <2>7 DEF UpdateFails
  <2> QED BY <1>4, <2>1, <2>2, <2>3, <2>4, <2>5, <2>6, <2>7 DEF Calls
<1> QED BY <1>2, <1>3, <1>4 DEF Next

(* Every step of a dataset is one of the columns.                          *)
LEMMA ColsStep ==
    ASSUME Faults = FALSE, ColsInv, IInv', OneWriter, SomeWriter, [Next]_vars
    PROVE  [Columns!ColsNext]_<<Stored, Draft>>
<1>1. IInv
  BY DEF ColsInv
<1>2. CASE Create
  BY <1>1, <1>2, CreateStep DEF Columns!ColsNext
<1>3. CASE Delete
  BY <1>1, <1>3, DeleteStep DEF Columns!ColsNext
<1>4. ASSUME NEW h \in Handles, Calls(h)
      PROVE  Columns!ColsNext \/ UNCHANGED <<Stored, Draft>>
  <2>1. CASE Open(h) \/ Read(h) \/ Close(h) \/ Drop(h)
    BY <1>1, <2>1, OpenStep, ReadStep, CloseStep, DropStep DEF Columns!ColsNext
  <2>2. CASE WriteDataset(h) \/ UpdateHeader(h)
    BY <1>1, <2>2, WriteDatasetStep, UpdateHeaderStep DEF Columns!ColsNext
  <2>3. CASE CreateField(h) \/ DeleteField(h) \/ RenameField(h)
    BY <1>1, <2>3, CreateFieldStep, DeleteFieldStep, RenameFieldStep DEF Columns!ColsNext
  <2>4. CASE Convert(h) \/ CastField(h)
    BY <1>1, <2>4, ConvertStep, CastFieldStep DEF Columns!ColsNext
  <2>5. CASE UpdateBegin(h) \/ UpdateColumn(h) \/ UpdateEnd(h) \/ UpdateFails(h)
    BY <1>1, <2>5, UpdateBeginStep, UpdateColumnStep, UpdateEndStep, UpdateFailsStep
       DEF Columns!ColsNext
  <2> QED BY <1>4, <2>1, <2>2, <2>3, <2>4, <2>5 DEF Calls
<1>5. CASE UNCHANGED vars
  BY <1>5 DEF vars, Stored, Draft, Unsaved
<1> QED BY <1>2, <1>3, <1>4, <1>5 DEF Next

(* With one writer, any number of readers and no call that stops half way: *)
(* a dataset implements DatasetColumns.  Each call changes the fields it   *)
(* names and no other, and drafts are never lost to a call on another      *)
(* field (DatasetHandle: cached handles, file per field, close_dataset).   *)
THEOREM DatasetImplementsColumns ==
    ASSUME OneWriter, SomeWriter, Faults = FALSE PROVE Spec => DatasetIsColumns
<1>1. Init => NoneFailed
  BY DEF Init, NoneFailed
<1>2. IInv /\ NoneFailed /\ [Next]_vars => NoneFailed'
  BY NoneFails
<1>3. Spec => []NoneFailed
  BY <1>1, <1>2, InvAlways, PTL DEF Spec
<1>4. Init => Columns!ColsInit
  <2>1. ASSUME Init PROVE Stored = Columns!Absent /\ Draft = Columns!Absent
    <3>1. hs[TheWriter] = None /\ dir = NoCache
      BY <2>1, WriterThere DEF Init
    <3>2. Stored = Columns!Absent
      BY <3>1, Views, AbsentIs DEF Col, NoCache
    <3> QED BY <3>1, <3>2, NoDrafts
  <2> QED BY <2>1 DEF Columns!ColsInit, Stored, Draft
<1>5. IInv /\ NoneFailed /\ IInv' /\ [Next]_vars => [Columns!ColsNext]_<<Stored, Draft>>
  BY ColsStep DEF ColsInv
<1>6. [Columns!ColsNext]_<<Stored, Draft>> => [Columns!ColsNext]_(Columns!colsVars)
  BY DEF Columns!colsVars, Stored, Draft
<1> QED BY <1>3, <1>4, <1>5, <1>6, InvAlways, PTL DEF Spec, DatasetIsColumns, Columns!ColsSpec
=============================================================================
