------------------------ MODULE FieldReplace_proofs ------------------------
(***************************************************************************)
(* Replacing a file is atomic, for any number of replacements, inodes and  *)
(* contents.                                                               *)
(*                                                                         *)
(* The invariant says that names are names of different files; that a      *)
(* replacement at work has the file at its temporary name, which nobody    *)
(* else has and which is neither the file at the path nor the one a power  *)
(* failure would bring back there; and that this file holds those blocks   *)
(* of the new content that are not left to be written.  Without updates,   *)
(* which do not sync, the file at the path and the one a power failure     *)
(* would leave there are besides whole and on disk as processes see them.  *)
(***************************************************************************)
EXTENDS FieldReplace, TLAPS

Working == {"write", "sync", "rename"}

(* Different names are names of different files.                           *)
Apart(d) == \A m, n \in Names : m # n /\ d[m] # Nil => d[m] # d[n]

(* A replacement at work has the file at its temporary name.               *)
OwnFile ==
    \A a \in Actors : actor[a].step \in Working =>
        actor[a].inode # Nil /\ actor[a].inode = dir[TmpName(a)]

(* What a power failure would bring back at the path has no other name.    *)
NotReused ==
    \A n \in Names \ {Path} : durableDir[Path] # Nil => dir[n] # durableDir[Path]

(* The file of a replacement holds what it has written so far.             *)
Progress(r, d) ==
    /\ r.step \in {"remove", "create"} => r.left = 1 .. r.version.size
    /\ r.step = "write" => r.left \subseteq 1 .. r.version.size
    /\ r.step \in {"sync", "rename"} => r.left = {}
    /\ r.step \in Working =>
          \A b \in Blocks \ r.left : d[r.inode][b] = Content(r.version)[b]

Written == \A a \in Actors : Progress(actor[a], data)

Base == TypeOK /\ Apart(dir) /\ Apart(durableDir) /\ OwnFile /\ NotReused /\ Written

(* Without updates: what is about to be renamed is on disk, and so is what *)
(* is at the path, now and after a power failure.                          *)
Synced ==
    \A a \in Actors : actor[a].step = "rename" =>
        durableData[actor[a].inode] = data[actor[a].inode]

Safe(i) == i # Nil /\ data[i] \in Whole /\ durableData[i] = data[i]

SafeInv == Base /\ Synced /\ Safe(dir[Path]) /\ Safe(durableDir[Path])

NoUpdates == \A a \in Actors : Kind[a] # "update"

----------------------------------------------------------------------------
(* Facts about names and contents.                                         *)

(* A temporary name is not the path, and belongs to one replacement.       *)
LEMMA TmpNames ==
    ASSUME NEW a \in Actors
    PROVE  /\ TmpName(a) \in Names /\ TmpName(a) # Path
           /\ \A c \in Actors : TmpName(c) = TmpName(a) => c = a
BY ReplaceAssumption, OneSharedTmp DEF TmpName, Names, Kinds

(* A content is data, block by block.                                      *)
LEMMA ContentIsData ==
    ASSUME NEW v \in Version
    PROVE  /\ Content(v) \in Data /\ Content(v) \in Whole
           /\ \A b \in Blocks : Content(v)[b] = IF b <= v.size THEN v ELSE Nil
BY DEF Content, Data, Whole

(* A file that was never written holds data, all of its blocks Nil.        *)
LEMMA NoDataIsData == NoData \in Data /\ \A b \in Blocks : NoData[b] = Nil
BY DEF NoData, Data

(* Data are equal when their blocks are.                                   *)
LEMMA SameBlocks ==
    ASSUME NEW d \in Data, NEW e \in Data, \A b \in Blocks : d[b] = e[b]
    PROVE  d = e
BY DEF Data

(* A replacement that has written and not yet renamed has its content in   *)
(* its file.                                                               *)
LEMMA WrittenOut ==
    ASSUME Base, NEW a \in Actors, actor[a].step \in {"sync", "rename"}
    PROVE  /\ actor[a].inode \in Inodes
           /\ actor[a].inode = dir[TmpName(a)]
           /\ data[actor[a].inode] = Content(actor[a].version)
<1>1. actor[a].inode \in Inodes /\ actor[a].inode = dir[TmpName(a)]
  BY DEF Base, TypeOK, OwnFile, Working
<1>2. actor[a].version \in Version /\ data[actor[a].inode] \in Data
  BY <1>1 DEF Base, TypeOK
<1>3. \A b \in Blocks : data[actor[a].inode][b] = Content(actor[a].version)[b]
  BY DEF Base, Written, Progress, Working
<1> QED BY <1>1, <1>2, <1>3, ContentIsData, SameBlocks

(* The file at a temporary name is nobody else's.                          *)
LEMMA NotShared ==
    ASSUME Base, NEW a \in Actors, dir[TmpName(a)] # Nil
    PROVE  /\ dir[TmpName(a)] \in Inodes
           /\ dir[TmpName(a)] # dir[Path]
           /\ dir[TmpName(a)] # durableDir[Path]
           /\ \A c \in Actors : c # a /\ actor[c].step \in Working
                                    => actor[c].inode # dir[TmpName(a)]
<1>1. dir[TmpName(a)] \in Inodes /\ Path \in Names
  BY TmpNames DEF Base, TypeOK, Names
<1>2. dir[TmpName(a)] # dir[Path]
  BY <1>1, TmpNames DEF Base, Apart
<1>3. dir[TmpName(a)] # durableDir[Path]
  BY TmpNames DEF Base, NotReused
<1>4. \A c \in Actors : c # a /\ actor[c].step \in Working
                            => actor[c].inode # dir[TmpName(a)]
  BY TmpNames DEF Base, OwnFile, Apart
<1> QED BY <1>1, <1>2, <1>3, <1>4

----------------------------------------------------------------------------
(* Base is inductive, whatever the protocols.                              *)

(* The first state: one whole file at the path, no replacement.            *)
LEMMA BaseInit == Init => Base
<1> SUFFICES ASSUME Init PROVE Base OBVIOUS
<1>1. PICK n \in Blocks :
        LET i == CHOOSE j \in Inodes : TRUE
            d == [j \in Inodes |-> IF j = i THEN Content([id |-> 0, size |-> n])
                                            ELSE NoData]
        IN  /\ dir = [m \in Names |-> IF m = Path THEN i ELSE Nil]
            /\ data = d
            /\ durableData = d
  BY DEF Init
<1> DEFINE i == CHOOSE j \in Inodes : TRUE
<1> HIDE DEF i
<1>2. i \in Inodes /\ i # Nil
  BY ReplaceAssumption DEF i
<1>3. [id |-> 0, size |-> n] \in Version
  BY ReplaceAssumption DEF Version
<1>4. Content([id |-> 0, size |-> n]) \in Data /\ NoData \in Data
  BY <1>3, ContentIsData, NoDataIsData
<1>5. dir = [m \in Names |-> IF m = Path THEN i ELSE Nil]
  BY <1>1 DEF i
<1>6. data \in [Inodes -> Data] /\ durableData \in [Inodes -> Data]
  BY <1>1, <1>4
<1>7. /\ actor = [a \in Actors |-> Idle] /\ used = 0 /\ durableDir = dir
  BY DEF Init
<1>8. Idle \in [step : Steps, inode : Inodes \cup {Nil},
                version : Version, left : SUBSET Blocks]
  BY ReplaceAssumption DEF Idle, Steps, Version, Blocks
<1>9. TypeOK
  <2>1. dir \in [Names -> Inodes \cup {Nil}]
    BY <1>2, <1>5
  <2>2. actor \in [Actors -> [step : Steps, inode : Inodes \cup {Nil},
                              version : Version, left : SUBSET Blocks]]
    BY <1>7, <1>8
  <2> QED BY <1>6, <1>7, <2>1, <2>2, ReplaceAssumption DEF TypeOK
<1>10. Apart(dir) /\ NotReused
  BY <1>2, <1>5, <1>7 DEF Apart, NotReused, Names
<1>11. OwnFile /\ Written
  BY <1>7 DEF OwnFile, Written, Progress, Working, Idle
<1> QED BY <1>7, <1>9, <1>10, <1>11 DEF Base

(* Start gives a replacement its content, and everything of it to write.   *)
LEMMA BaseStart == ASSUME Base, NEW a \in Actors, Start(a) PROVE Base'
<1>1. PICK n \in Blocks :
        actor' = [actor EXCEPT ![a] =
                    [step    |-> IF Kind[a] = "update" THEN "remove" ELSE "create",
                     inode   |-> Nil,
                     version |-> [id |-> used', size |-> n],
                     left    |-> 1 .. n]]
  BY DEF Start
<1>2. UNCHANGED <<dir, data, durableDir, durableData>> /\ used' \in 0 .. MaxVersion
  BY ReplaceAssumption DEF Start, Base, TypeOK
<1>3. 1 .. n \subseteq Blocks
  BY DEF Blocks
<1>4. actor'[a] = [step    |-> IF Kind[a] = "update" THEN "remove" ELSE "create",
                   inode   |-> Nil,
                   version |-> [id |-> used', size |-> n],
                   left    |-> 1 .. n]
      /\ \A c \in Actors : c # a => actor'[c] = actor[c]
  BY <1>1 DEF Base, TypeOK
<1>5. actor'[a] \in [step : Steps, inode : Inodes \cup {Nil},
                     version : Version, left : SUBSET Blocks]
  BY <1>2, <1>3, <1>4 DEF Version, Steps
<1>6. TypeOK'
  BY <1>1, <1>2, <1>4, <1>5 DEF Base, TypeOK
<1>7. OwnFile' /\ Written'
  BY <1>2, <1>4 DEF Base, OwnFile, Written, Progress, Working
<1> QED BY <1>2, <1>6, <1>7 DEF Base, Apart, NotReused

(* Remove unlinks a temporary file.                                        *)
LEMMA BaseRemove == ASSUME Base, NEW a \in Actors, Remove(a) PROVE Base'
<1>1. /\ actor[a].step = "remove"
      /\ dir' = [dir EXCEPT ![TmpName(a)] = Nil]
      /\ actor' = [actor EXCEPT ![a].step = "create"]
      /\ UNCHANGED <<data, durableDir, durableData, used>>
  BY DEF Remove
<1>2. TypeOK'
  BY <1>1 DEF Base, TypeOK, Steps
<1>3. Apart(dir)' /\ NotReused'
  BY <1>1, TmpNames DEF Base, TypeOK, Apart, NotReused
<1>4. OwnFile'
  BY <1>1, TmpNames DEF Base, TypeOK, OwnFile, Working
<1>5. Written'
  BY <1>1 DEF Base, TypeOK, Written, Progress, Working
<1> QED BY <1>1, <1>2, <1>3, <1>4, <1>5 DEF Base, Apart

(* A new file is one nobody knew.                                          *)
LEMMA BaseNewFile ==
    ASSUME Base, NEW a \in Actors, actor[a].step = "create",
           Kind[a] = "cast" \/ dir[TmpName(a)] = Nil,
           NewFile(a), UNCHANGED <<durableDir, used>>
    PROVE  Base'
<1> DEFINE i == CHOOSE j \in Free : TRUE
<1>1. i \in Free
  BY DEF NewFile
<1> HIDE DEF i
<1>2. /\ dir' = [dir EXCEPT ![TmpName(a)] = i]
      /\ data' = [data EXCEPT ![i] = NoData]
      /\ durableData' = [durableData EXCEPT ![i] = NoData]
      /\ actor' = [actor EXCEPT ![a].inode = i, ![a].step = "write"]
      /\ UNCHANGED <<durableDir, used>>
  BY DEF NewFile, i
<1>3. /\ i \in Inodes /\ i # Nil
      /\ \A n \in Names : dir[n] # i /\ durableDir[n] # i
      /\ \A c \in Actors : actor[c].inode # i
  BY <1>1, ReplaceAssumption DEF Free
<1>4. /\ actor'[a] = [actor[a] EXCEPT !.inode = i, !.step = "write"]
      /\ \A c \in Actors : c # a => actor'[c] = actor[c]
  BY <1>2 DEF Base, TypeOK
<1>5. TypeOK'
  BY <1>2, <1>3, NoDataIsData DEF Base, TypeOK, Steps
<1>6. Apart(dir)' /\ NotReused'
  BY <1>2, <1>3, TmpNames DEF Base, TypeOK, Apart, NotReused, Names
<1>7. OwnFile'
  BY <1>2, <1>3, <1>4, TmpNames DEF Base, TypeOK, OwnFile, Working
<1>8. Written'
  <2>1. \A b \in Blocks \ actor[a].left : Content(actor[a].version)[b] = Nil
    BY ContentIsData DEF Base, TypeOK, Written, Progress, Version, Blocks
  <2>2. actor[a].left \subseteq 1 .. actor[a].version.size
    BY DEF Base, Written, Progress
  <2>3. \A c \in Actors : c # a /\ actor[c].step \in Working =>
          data'[actor[c].inode] = data[actor[c].inode]
    BY <1>2, <1>3 DEF Base, TypeOK, OwnFile
  <2>4. data'[i] = NoData
    BY <1>2, <1>3 DEF Base, TypeOK
  <2>5. Progress(actor'[a], data')
    BY <1>4, <2>1, <2>2, <2>4, NoDataIsData DEF Base, TypeOK, Progress, Working
  <2>6. \A c \in Actors : c # a => Progress(actor'[c], data')
    BY <1>4, <2>3 DEF Base, Written, Progress
  <2> QED BY <2>5, <2>6 DEF Written
<1> QED BY <1>2, <1>5, <1>6, <1>7, <1>8 DEF Base, Apart

(* Create truncates the file it finds, or takes a new one.                 *)
LEMMA BaseCreate == ASSUME Base, NEW a \in Actors, Create(a) PROVE Base'
<1>1. CASE Kind[a] = "rewrite" /\ dir[TmpName(a)] # Nil
  <2> DEFINE i == dir[TmpName(a)]
  <2>1. /\ data' = [data EXCEPT ![i] = NoData]
        /\ actor' = [actor EXCEPT ![a].inode = i, ![a].step = "write"]
        /\ UNCHANGED <<dir, durableDir, durableData, used>>
        /\ actor[a].step = "create"
    BY <1>1 DEF Create
  <2>2. /\ i \in Inodes /\ i # Nil
        /\ \A c \in Actors : c # a /\ actor[c].step \in Working
                                 => actor[c].inode # i
    BY <1>1, NotShared, ReplaceAssumption
  <2> HIDE DEF i
  <2>3. /\ actor'[a] = [actor[a] EXCEPT !.inode = i, !.step = "write"]
        /\ \A c \in Actors : c # a => actor'[c] = actor[c]
    BY <2>1 DEF Base, TypeOK
  <2>4. TypeOK'
    BY <2>1, <2>2, NoDataIsData DEF Base, TypeOK, Steps
  <2>5. OwnFile'
    BY <2>1, <2>2, <2>3 DEF Base, TypeOK, OwnFile, i
  <2>6. Written'
    <3>1. \A b \in Blocks \ actor[a].left : Content(actor[a].version)[b] = Nil
      BY <2>1, ContentIsData DEF Base, TypeOK, Written, Progress, Version, Blocks
    <3>2. actor[a].left \subseteq 1 .. actor[a].version.size
      BY <2>1 DEF Base, Written, Progress
    <3>3. \A c \in Actors : c # a /\ actor[c].step \in Working =>
            data'[actor[c].inode] = data[actor[c].inode]
      BY <2>1, <2>2 DEF Base, TypeOK, OwnFile
    <3>4. data'[i] = NoData
      BY <2>1, <2>2 DEF Base, TypeOK
    <3>5. Progress(actor'[a], data')
      BY <2>1, <2>3, <3>1, <3>2, <3>4, NoDataIsData
      DEF Base, TypeOK, Progress, Working
    <3>6. \A c \in Actors : c # a => Progress(actor'[c], data')
      BY <2>3, <3>3 DEF Base, Written, Progress
    <3> QED BY <3>5, <3>6 DEF Written
  <2> QED BY <2>1, <2>4, <2>5, <2>6 DEF Base, Apart, NotReused
<1>2. CASE NewFile(a) /\ (Kind[a] = "cast" \/ dir[TmpName(a)] = Nil)
  BY <1>2, BaseNewFile DEF Create
<1> QED BY <1>1, <1>2 DEF Create

(* Write puts one more block of the content into the own file.             *)
LEMMA BaseWrite == ASSUME Base, NEW a \in Actors, Write(a) PROVE Base'
<1>1. PICK b \in actor[a].left :
        /\ data' = [data EXCEPT ![actor[a].inode][b] = actor[a].version]
        /\ actor' = [actor EXCEPT
             ![a].left = actor[a].left \ {b},
             ![a].step = CASE actor[a].left \ {b} # {}   -> "write"
                           [] actor[a].left \ {b} = {} /\ Kind[a] = "update" -> "rename"
                           [] actor[a].left \ {b} = {} /\ Kind[a] # "update" -> "sync"]
  BY DEF Write
<1>2. actor[a].step = "write" /\ UNCHANGED <<dir, durableDir, durableData, used>>
  BY DEF Write
<1> DEFINE i == actor[a].inode
           v == actor[a].version
           rest == actor[a].left \ {b}
<1>3. /\ i \in Inodes /\ i = dir[TmpName(a)] /\ i # Nil
      /\ v \in Version /\ b \in Blocks /\ b \in 1 .. v.size
  BY <1>2, ReplaceAssumption DEF Base, TypeOK, OwnFile, Written, Progress, Working
<1>4. \A c \in Actors : c # a /\ actor[c].step \in Working => actor[c].inode # i
  BY <1>3, NotShared
<1>5. data' = [data EXCEPT ![i] = [data[i] EXCEPT ![b] = v]]
  BY <1>1, <1>3 DEF Base, TypeOK, Data
<1>6. data[i] \in Data /\ [data[i] EXCEPT ![b] = v] \in Data
  BY <1>3 DEF Base, TypeOK, Data
<1>7. /\ actor'[a].inode = i /\ actor'[a].version = v /\ actor'[a].left = rest
      /\ rest # {} => actor'[a].step = "write"
      /\ rest = {} => actor'[a].step = IF Kind[a] = "update" THEN "rename" ELSE "sync"
      /\ actor'[a] \in [step : Steps, inode : Inodes \cup {Nil},
                        version : Version, left : SUBSET Blocks]
      /\ \A c \in Actors : c # a => actor'[c] = actor[c]
  BY <1>1 DEF Base, TypeOK, Steps
<1>8. TypeOK'
  <2>1. data' \in [Inodes -> Data]
    BY <1>5, <1>6 DEF Base, TypeOK
  <2>2. actor' \in [Actors -> [step : Steps, inode : Inodes \cup {Nil},
                              version : Version, left : SUBSET Blocks]]
    BY <1>1, <1>7 DEF Base, TypeOK
  <2> QED BY <1>2, <2>1, <2>2 DEF Base, TypeOK
<1>9. OwnFile'
  BY <1>2, <1>3, <1>7 DEF Base, OwnFile, Working
<1>10. Written'
  <2>1. \A c \in Actors : c # a /\ actor[c].step \in Working =>
          data'[actor[c].inode] = data[actor[c].inode]
    BY <1>4, <1>5 DEF Base, TypeOK, OwnFile
  <2>2. \A x \in Blocks \ rest : data'[i][x] = Content(v)[x]
    <3>1. \A x \in Blocks \ actor[a].left : data[i][x] = Content(v)[x]
      BY <1>2 DEF Base, Written, Progress, Working
    <3>2. data'[i][b] = v
      BY <1>3, <1>5, <1>6 DEF Base, TypeOK, Data
    <3>3. Content(v)[b] = v
      BY <1>3, ContentIsData DEF Version, Blocks
    <3>4. \A x \in Blocks : x # b => data'[i][x] = data[i][x]
      BY <1>3, <1>5, <1>6 DEF Base, TypeOK, Data
    <3> QED BY <3>1, <3>2, <3>3, <3>4
  <2>3. rest \subseteq 1 .. v.size
    BY <1>2 DEF Base, Written, Progress
  <2>4. Progress(actor'[a], data')
    BY <1>7, <2>2, <2>3 DEF Progress
  <2>5. \A c \in Actors : c # a => Progress(actor'[c], data')
    BY <1>7, <2>1 DEF Base, Written, Progress
  <2> QED BY <2>4, <2>5 DEF Written
<1> QED BY <1>2, <1>8, <1>9, <1>10 DEF Base, Apart, NotReused

(* Sync writes nothing a process sees.                                     *)
LEMMA BaseSync == ASSUME Base, NEW a \in Actors, Sync(a) PROVE Base'
<1>1. /\ actor[a].step = "sync"
      /\ durableData' = [durableData EXCEPT ![actor[a].inode] = data[actor[a].inode]]
      /\ actor' = [actor EXCEPT ![a].step = "rename"]
      /\ UNCHANGED <<dir, data, durableDir, used>>
  BY DEF Sync
<1>2. actor[a].inode \in Inodes
  BY <1>1, WrittenOut
<1>3. TypeOK'
  BY <1>1, <1>2 DEF Base, TypeOK, Steps
<1>4. OwnFile' /\ Written'
  BY <1>1 DEF Base, TypeOK, OwnFile, Written, Progress, Working
<1> QED BY <1>1, <1>3, <1>4 DEF Base, Apart, NotReused

(* Rename moves the file from the temporary name to the path.              *)
LEMMA BaseRename == ASSUME Base, NEW a \in Actors, Rename(a) PROVE Base'
<1> DEFINE i == dir[TmpName(a)]
<1>1. /\ actor[a].step = "rename" /\ i # Nil
      /\ dir' = [dir EXCEPT ![Path] = i, ![TmpName(a)] = Nil]
      /\ actor' = [actor EXCEPT ![a] = Idle]
      /\ UNCHANGED <<data, durableDir, durableData, used>>
  BY DEF Rename
<1>2. /\ i \in Inodes /\ i # dir[Path] /\ i # durableDir[Path]
  BY <1>1, NotShared
<1>3. /\ Path \in Names /\ dir'[Path] = i /\ dir'[TmpName(a)] = Nil
      /\ \A n \in Names \ {Path, TmpName(a)} : dir'[n] = dir[n]
  BY <1>1, TmpNames DEF Base, TypeOK, Names
<1>4. /\ actor'[a] = Idle
      /\ \A c \in Actors : c # a => actor'[c] = actor[c]
  BY <1>1 DEF Base, TypeOK
<1>5. TypeOK'
  <2>1. Idle \in [step : Steps, inode : Inodes \cup {Nil},
                  version : Version, left : SUBSET Blocks]
    BY ReplaceAssumption DEF Idle, Steps, Version, Blocks
  <2>2. actor' \in [Actors -> [step : Steps, inode : Inodes \cup {Nil},
                              version : Version, left : SUBSET Blocks]]
    BY <1>1, <2>1 DEF Base, TypeOK
  <2>3. dir' \in [Names -> Inodes \cup {Nil}]
    BY <1>1, <1>2 DEF Base, TypeOK
  <2> QED BY <1>1, <2>2, <2>3 DEF Base, TypeOK
<1>6. Apart(dir)'
  <2>1. \A n \in Names \ {Path} : dir'[n] # i
    BY <1>1, <1>3, TmpNames DEF Base, Apart
  <2>2. \A n \in Names : dir'[n] # Nil /\ n # Path => dir'[n] = dir[n]
    BY <1>3
  <2> QED BY <1>3, <2>1, <2>2 DEF Base, Apart
<1>7. NotReused'
  BY <1>1, <1>3, TmpNames, ReplaceAssumption DEF Base, NotReused, TypeOK
<1>8. OwnFile'
  BY <1>3, <1>4, TmpNames DEF Base, OwnFile, Working, Idle
<1>9. Written'
  BY <1>1, <1>4 DEF Base, Written, Progress, Working, Idle
<1> QED BY <1>1, <1>5, <1>6, <1>7, <1>8, <1>9 DEF Base, Apart

(* A call that fails leaves or removes the temporary file.                 *)
LEMMA BaseFail == ASSUME Base, NEW a \in Actors, Fail(a) PROVE Base'
<1>1. /\ actor' = [actor EXCEPT ![a] = Idle]
      /\ dir' = [dir EXCEPT ![TmpName(a)] = Nil] \/ dir' = dir
      /\ UNCHANGED <<data, durableDir, durableData, used>>
  BY DEF Fail
<1>2. /\ \A n \in Names : dir'[n] = dir[n] \/ (n = TmpName(a) /\ dir'[n] = Nil)
      /\ dir' \in [Names -> Inodes \cup {Nil}]
  BY <1>1 DEF Base, TypeOK
<1>3. /\ actor'[a] = Idle
      /\ \A c \in Actors : c # a => actor'[c] = actor[c]
  BY <1>1 DEF Base, TypeOK
<1>4. TypeOK'
  <2>1. Idle \in [step : Steps, inode : Inodes \cup {Nil},
                  version : Version, left : SUBSET Blocks]
    BY ReplaceAssumption DEF Idle, Steps, Version, Blocks
  <2>2. actor' \in [Actors -> [step : Steps, inode : Inodes \cup {Nil},
                              version : Version, left : SUBSET Blocks]]
    BY <1>1, <2>1 DEF Base, TypeOK
  <2> QED BY <1>1, <1>2, <2>2 DEF Base, TypeOK
<1>5. Apart(dir)' /\ NotReused'
  BY <1>1, <1>2 DEF Base, Apart, NotReused
<1>6. OwnFile'
  BY <1>2, <1>3, TmpNames DEF Base, OwnFile, Working, Idle
<1>7. Written'
  BY <1>1, <1>3 DEF Base, Written, Progress, Working, Idle
<1> QED BY <1>1, <1>4, <1>5, <1>6, <1>7 DEF Base, Apart

(* What reaches the disk changes nothing a process sees.                   *)
LEMMA BaseFlushBlock ==
    ASSUME Base, NEW i \in Inodes, NEW b \in Blocks, FlushBlock(i, b)
    PROVE  Base'
<1>1. /\ durableData' = [durableData EXCEPT ![i][b] = data[i][b]]
      /\ UNCHANGED <<dir, data, durableDir, actor, used>>
  BY DEF FlushBlock
<1>2. durableData' = [durableData EXCEPT ![i] = [durableData[i] EXCEPT ![b] = data[i][b]]]
  BY <1>1 DEF Base, TypeOK, Data
<1>3. [durableData[i] EXCEPT ![b] = data[i][b]] \in Data
  BY DEF Base, TypeOK, Data
<1>4. TypeOK'
  BY <1>1, <1>2, <1>3 DEF Base, TypeOK
<1> QED BY <1>1, <1>4 DEF Base, Apart, NotReused, OwnFile, Written, Progress

(* The directory reaches the disk as a whole.                              *)
LEMMA BaseFlushDir == ASSUME Base, FlushDir PROVE Base'
<1>1. durableDir' = dir /\ UNCHANGED <<dir, data, durableData, actor, used>>
  BY DEF FlushDir
<1>2. TypeOK'
  BY <1>1 DEF Base, TypeOK
<1>3. Apart(durableDir)' /\ NotReused'
  BY <1>1 DEF Base, Apart, NotReused, Names
<1> QED BY <1>1, <1>2, <1>3 DEF Base, Apart, OwnFile, Written, Progress

(* A power failure ends every replacement.                                 *)
LEMMA BasePowerFailure == ASSUME Base, PowerFailure PROVE Base'
<1>1. /\ dir' = durableDir /\ data' = durableData
      /\ actor' = [c \in Actors |-> Idle]
      /\ UNCHANGED <<durableDir, durableData, used>>
  BY DEF PowerFailure
<1>2. TypeOK'
  BY <1>1, ReplaceAssumption DEF Base, TypeOK, Idle, Steps, Version, Blocks
<1>3. Apart(dir)' /\ NotReused'
  BY <1>1 DEF Base, Apart, NotReused, Names
<1>4. OwnFile' /\ Written'
  BY <1>1 DEF OwnFile, Written, Progress, Working, Idle
<1> QED BY <1>1, <1>2, <1>3, <1>4 DEF Base, Apart

(* Every step keeps Base.                                                  *)
LEMMA BaseNext == ASSUME Base, [Next]_vars PROVE Base'
<1>1. CASE \E a \in Actors : \/ Start(a) \/ Remove(a) \/ Create(a) \/ Write(a)
                             \/ Sync(a) \/ Rename(a) \/ Fail(a)
  BY <1>1, BaseStart, BaseRemove, BaseCreate, BaseWrite, BaseSync, BaseRename, BaseFail
<1>2. CASE \E i \in Inodes, b \in Blocks : FlushBlock(i, b)
  BY <1>2, BaseFlushBlock
<1>3. CASE FlushDir \/ PowerFailure
  BY <1>3, BaseFlushDir, BasePowerFailure
<1>4. CASE UNCHANGED vars
  BY <1>4 DEF vars, Base, TypeOK, Apart, NotReused, OwnFile, Written, Progress
<1> QED BY <1>1, <1>2, <1>3, <1>4 DEF Next

(* Base holds in every state.                                              *)
LEMMA BaseAlways == Spec => []Base
BY BaseInit, BaseNext, PTL DEF Spec

----------------------------------------------------------------------------
(* What a reader of the path sees.                                         *)

(* Only Rename changes what the path reads, apart from a power failure.    *)
LEMMA CurrentKept ==
    ASSUME Base, dir[Path] # Nil, [Next]_vars,
           ~PowerFailure, \A a \in Actors : ~Rename(a)
    PROVE  dir'[Path] = dir[Path] /\ Current' = Current
<1>1. dir[Path] \in Inodes /\ Path \in Names
  BY DEF Base, TypeOK, Names
<1>2. ASSUME NEW a \in Actors, Start(a) \/ Sync(a)
      PROVE  dir' = dir /\ data' = data
  BY <1>2 DEF Start, Sync
<1>3. ASSUME NEW a \in Actors, Remove(a) \/ Fail(a)
      PROVE  dir'[Path] = dir[Path] /\ data' = data
  BY <1>1, <1>3, TmpNames DEF Remove, Fail, Base, TypeOK
<1>4. ASSUME NEW a \in Actors, Create(a)
      PROVE  dir'[Path] = dir[Path] /\ data'[dir[Path]] = data[dir[Path]]
  <2>1. CASE NewFile(a)
    <3> DEFINE i == CHOOSE j \in Free : TRUE
    <3>1. i \in Free
      BY <2>1 DEF NewFile
    <3> HIDE DEF i
    <3>2. i # dir[Path]
      BY <1>1, <3>1 DEF Free
    <3>3. /\ dir' = [dir EXCEPT ![TmpName(a)] = i]
          /\ data' = [data EXCEPT ![i] = NoData]
      BY <2>1 DEF NewFile, i
    <3> QED BY <1>1, <3>2, <3>3, TmpNames DEF Base, TypeOK
  <2>2. CASE dir[TmpName(a)] # Nil /\ dir' = dir
             /\ data' = [data EXCEPT ![dir[TmpName(a)]] = NoData]
    BY <1>1, <2>2, NotShared DEF Base, TypeOK
  <2> QED BY <1>4, <2>1, <2>2 DEF Create
<1>5. ASSUME NEW a \in Actors, Write(a)
      PROVE  dir' = dir /\ data'[dir[Path]] = data[dir[Path]]
  <2>1. actor[a].inode # dir[Path]
    BY <1>5, NotShared DEF Write, Base, OwnFile, Working
  <2>2. dir' = dir /\ \E b \in actor[a].left :
          data' = [data EXCEPT ![actor[a].inode][b] = actor[a].version]
    BY <1>5 DEF Write
  <2> QED BY <1>1, <2>1, <2>2 DEF Base, TypeOK
<1>6. CASE FlushDir \/ (\E i \in Inodes, b \in Blocks : FlushBlock(i, b))
           \/ UNCHANGED vars
  BY <1>6 DEF FlushDir, FlushBlock, vars, Current
<1> QED BY <1>2, <1>3, <1>4, <1>5, <1>6 DEF Next, Current

(* Rename puts the content of the replacement at the path.                 *)
LEMMA RenamePublishes ==
    ASSUME Base, NEW a \in Actors, Rename(a)
    PROVE  /\ dir'[Path] = actor[a].inode /\ dir'[Path] # Nil
           /\ Current' = Content(actor[a].version)
           /\ Current' \in Whole
<1>1. /\ dir[TmpName(a)] # Nil /\ data' = data /\ actor[a].step = "rename"
      /\ dir' = [dir EXCEPT ![Path] = dir[TmpName(a)], ![TmpName(a)] = Nil]
  BY DEF Rename
<1>2. dir'[Path] = dir[TmpName(a)]
  BY <1>1, TmpNames DEF Base, TypeOK, Names
<1>3. data[dir[TmpName(a)]] = Content(actor[a].version)
      /\ actor[a].inode = dir[TmpName(a)]
  BY <1>1, WrittenOut
<1>4. Content(actor[a].version) \in Whole
  BY ContentIsData DEF Base, TypeOK
<1> QED BY <1>1, <1>2, <1>3, <1>4 DEF Current

(* For every protocol and any number of replacements at once: while        *)
(* processes run, the path reads one whole content, and a replacement that *)
(* succeeds has put its own content there (tmp_path, unique_tmp_path and   *)
(* rename in close, compress, decompress, update_field and the casts).     *)
THEOREM ReplacePublishes == Spec => PublishesItsOwn
<1> DEFINE Publishes == /\ ReadsWhole => ReadsWhole' \/ PowerFailure
                        /\ \A a \in Actors :
                             Rename(a) => Current' = Content(actor[a].version)
<1>1. ASSUME Base, [Next]_vars PROVE Publishes
  <2>1. \A a \in Actors : Rename(a) =>
          Current' = Content(actor[a].version) /\ ReadsWhole'
    BY <1>1, RenamePublishes DEF ReadsWhole
  <2>2. CASE ReadsWhole /\ ~PowerFailure /\ \A a \in Actors : ~Rename(a)
    BY <1>1, <2>2, CurrentKept DEF ReadsWhole
  <2> QED BY <2>1, <2>2
<1> QED BY <1>1, BaseAlways, PTL DEF Spec, PublishesItsOwn

----------------------------------------------------------------------------
(* Replacements that sync: the part of the invariant about the disk.       *)

Disk == Synced /\ Safe(dir[Path]) /\ Safe(durableDir[Path])

(* The first file is whole, and on disk.                                   *)
LEMMA DiskInit == Init => Disk
<1> SUFFICES ASSUME Init PROVE Disk OBVIOUS
<1>1. PICK n \in Blocks :
        LET i == CHOOSE j \in Inodes : TRUE
            d == [j \in Inodes |-> IF j = i THEN Content([id |-> 0, size |-> n])
                                            ELSE NoData]
        IN  /\ dir = [m \in Names |-> IF m = Path THEN i ELSE Nil]
            /\ data = d
            /\ durableData = d
  BY DEF Init
<1> DEFINE i == CHOOSE j \in Inodes : TRUE
<1>2. i \in Inodes /\ i # Nil
  BY ReplaceAssumption
<1> HIDE DEF i
<1>3. /\ dir[Path] = i /\ durableDir[Path] = i /\ data = durableData
      /\ data[i] = Content([id |-> 0, size |-> n])
  BY <1>1, <1>2 DEF Init, i, Names
<1>4. Content([id |-> 0, size |-> n]) \in Whole
  BY ReplaceAssumption, ContentIsData DEF Version
<1>5. Synced
  BY DEF Init, Synced, Idle
<1> QED BY <1>2, <1>3, <1>4, <1>5 DEF Disk, Safe

(* What a step must leave alone for the disk to stay as it was: the        *)
(* contents of the two files at the path and of those about to be renamed. *)
LEMMA DiskKept ==
    ASSUME Disk,
           \A i : Safe(i) /\ (i = dir[Path] \/ i = durableDir[Path]) =>
                    data'[i] = data[i] /\ durableData'[i] = durableData[i],
           dir'[Path] = dir[Path], durableDir' = durableDir,
           \A a \in Actors : actor'[a].step = "rename" =>
              /\ actor' [a] = actor[a]
              /\ data'[actor[a].inode] = data[actor[a].inode]
              /\ durableData'[actor[a].inode] = durableData[actor[a].inode]
    PROVE  Disk'
BY DEF Disk, Synced, Safe

(* Steps of a replacement that write no file.                              *)
LEMMA DiskDirectory ==
    ASSUME SafeInv, NEW a \in Actors, Start(a) \/ Remove(a) \/ Fail(a)
    PROVE  Disk'
<1>1. UNCHANGED <<data, durableDir, durableData>>
  BY DEF Start, Remove, Fail
<1>2. dir'[Path] = dir[Path]
  BY TmpNames DEF Start, Remove, Fail, SafeInv, Base, TypeOK, Names
<1>3. /\ actor'[a].step # "rename"
      /\ \A c \in Actors : c # a => actor'[c] = actor[c]
  BY DEF Start, Remove, Fail, SafeInv, Base, TypeOK, Idle
<1> QED BY <1>1, <1>2, <1>3, DiskKept DEF SafeInv, Disk

(* A temporary file is not at the path, on disk or not.                    *)
LEMMA DiskCreate == ASSUME SafeInv, NEW a \in Actors, Create(a) PROVE Disk'
<1>1. Base /\ Disk
  BY DEF SafeInv, Disk
<1>2. PICK i \in Inodes :
        /\ i # dir[Path] /\ i # durableDir[Path]
        /\ \A c \in Actors : c # a /\ actor[c].step \in Working => actor[c].inode # i
        /\ data' = [data EXCEPT ![i] = NoData]
        /\ durableData' = [durableData EXCEPT ![i] = NoData] \/ durableData' = durableData
        /\ actor' = [actor EXCEPT ![a].inode = i, ![a].step = "write"]
        /\ dir' = [dir EXCEPT ![TmpName(a)] = i] \/ dir' = dir
  <2>1. CASE NewFile(a)
    <3> DEFINE i == CHOOSE j \in Free : TRUE
    <3>1. i \in Free
      BY <2>1 DEF NewFile
    <3> HIDE DEF i
    <3>2. /\ i \in Inodes /\ i # dir[Path] /\ i # durableDir[Path]
          /\ \A c \in Actors : actor[c].inode # i
      BY <3>1 DEF Free, Names
    <3>3. /\ dir' = [dir EXCEPT ![TmpName(a)] = i]
          /\ data' = [data EXCEPT ![i] = NoData]
          /\ durableData' = [durableData EXCEPT ![i] = NoData]
          /\ actor' = [actor EXCEPT ![a].inode = i, ![a].step = "write"]
      BY <2>1 DEF NewFile, i
    <3> QED BY <3>2, <3>3
  <2>2. CASE /\ dir[TmpName(a)] # Nil /\ UNCHANGED <<dir, durableData>>
             /\ data' = [data EXCEPT ![dir[TmpName(a)]] = NoData]
             /\ actor' = [actor EXCEPT ![a].inode = dir[TmpName(a)], ![a].step = "write"]
    BY <1>1, <2>2, NotShared
  <2> QED BY <2>1, <2>2 DEF Create
<1>3. dir'[Path] = dir[Path] /\ durableDir' = durableDir
  BY <1>1, <1>2, TmpNames DEF Create, Base, TypeOK, Names
<1>4. \A j \in Inodes : j # i => data'[j] = data[j] /\ durableData'[j] = durableData[j]
  BY <1>1, <1>2 DEF Base, TypeOK
<1>5. /\ actor'[a].step = "write"
      /\ \A c \in Actors : c # a => actor'[c] = actor[c]
  BY <1>1, <1>2 DEF Base, TypeOK
<1>6. \A c \in Actors : actor'[c].step = "rename" =>
        c # a /\ actor[c].inode \in Inodes /\ actor[c].inode # i
  BY <1>1, <1>2, <1>5 DEF Base, TypeOK, OwnFile, Working
<1>7. dir[Path] \in Inodes /\ durableDir[Path] \in Inodes
  BY <1>1 DEF Disk, Safe, Base, TypeOK, Names
<1> QED BY <1>1, <1>2, <1>3, <1>4, <1>5, <1>6, <1>7, DiskKept

(* Nor does Write reach a file at the path; who syncs is not about to      *)
(* rename yet.                                                             *)
LEMMA DiskWrite ==
    ASSUME SafeInv, NoUpdates, NEW a \in Actors, Write(a) PROVE Disk'
<1>1. Base /\ Disk
  BY DEF SafeInv, Disk
<1> DEFINE i == actor[a].inode
<1>2. /\ i = dir[TmpName(a)] /\ i # Nil /\ i \in Inodes
      /\ i # dir[Path] /\ i # durableDir[Path]
      /\ \A c \in Actors : c # a /\ actor[c].step \in Working => actor[c].inode # i
  <2>1. i = dir[TmpName(a)] /\ i # Nil
    BY <1>1 DEF Write, Base, OwnFile, Working
  <2> QED BY <1>1, <2>1, NotShared
<1>3. PICK b \in actor[a].left :
        /\ data' = [data EXCEPT ![i][b] = actor[a].version]
        /\ actor' = [actor EXCEPT
             ![a].left = actor[a].left \ {b},
             ![a].step = CASE actor[a].left \ {b} # {}   -> "write"
                           [] actor[a].left \ {b} = {} /\ Kind[a] = "update" -> "rename"
                           [] actor[a].left \ {b} = {} /\ Kind[a] # "update" -> "sync"]
  BY DEF Write
<1>4. UNCHANGED <<dir, durableDir, durableData>>
  BY DEF Write
<1>5. /\ actor'[a].step \in {"write", "sync"}
      /\ \A c \in Actors : c # a => actor'[c] = actor[c]
  BY <1>1, <1>3 DEF NoUpdates, Base, TypeOK
<1>6. \A j \in Inodes : j # i => data'[j] = data[j]
  BY <1>1, <1>3 DEF Base, TypeOK
<1>7. \A c \in Actors : actor'[c].step = "rename" =>
        c # a /\ actor[c].inode \in Inodes /\ actor[c].inode # i
  BY <1>1, <1>2, <1>5 DEF Base, TypeOK, OwnFile, Working
<1>8. dir[Path] \in Inodes /\ durableDir[Path] \in Inodes
  BY <1>1 DEF Disk, Safe, Base, TypeOK, Names
<1> QED BY <1>1, <1>2, <1>4, <1>5, <1>6, <1>7, <1>8, DiskKept

(* Sync brings the own file to disk.                                       *)
LEMMA DiskSync == ASSUME SafeInv, NEW a \in Actors, Sync(a) PROVE Disk'
<1>1. /\ Base /\ Disk /\ actor[a].step = "sync"
      /\ durableData' = [durableData EXCEPT ![actor[a].inode] = data[actor[a].inode]]
      /\ actor' = [actor EXCEPT ![a].step = "rename"]
      /\ UNCHANGED <<dir, data, durableDir, used>>
  BY DEF Sync, SafeInv, Disk
<1>2. \A j \in Inodes : durableData'[j] = durableData[j] \/ durableData'[j] = data'[j]
  BY <1>1 DEF Base, TypeOK
<1>3. actor[a].inode \in Inodes /\ durableData'[actor[a].inode] = data'[actor[a].inode]
  BY <1>1, WrittenOut DEF Base, TypeOK
<1>4. Synced'
  <2>1. /\ actor'[a].inode = actor[a].inode
        /\ \A c \in Actors : c # a => actor'[c] = actor[c]
    BY <1>1 DEF Base, TypeOK
  <2>2. \A c \in Actors : actor[c].step = "rename" => actor[c].inode \in Inodes
    BY <1>1, WrittenOut
  <2> QED BY <1>1, <1>2, <1>3, <2>1, <2>2 DEF Disk, Synced
<1>5. dir[Path] \in Inodes /\ durableDir[Path] \in Inodes
  BY <1>1 DEF Disk, Safe, Base, TypeOK, Names
<1>6. Safe(dir[Path])' /\ Safe(durableDir[Path])'
  BY <1>1, <1>2, <1>5 DEF Disk, Safe
<1> QED BY <1>4, <1>6 DEF Disk

(* Rename brings a file to the path that is whole and on disk.             *)
LEMMA DiskRename == ASSUME SafeInv, NEW a \in Actors, Rename(a) PROVE Disk'
<1>1. /\ Base /\ Disk /\ actor[a].step = "rename"
      /\ actor' = [actor EXCEPT ![a] = Idle]
      /\ UNCHANGED <<data, durableDir, durableData, used>>
  BY DEF Rename, SafeInv, Disk
<1>2. /\ dir'[Path] = actor[a].inode /\ dir'[Path] # Nil
      /\ Current' \in Whole
  BY <1>1, RenamePublishes
<1>3. Safe(dir[Path])'
  BY <1>1, <1>2 DEF Disk, Synced, Safe, Current
<1>4. Synced'
  BY <1>1 DEF Disk, Synced, Idle, Base, TypeOK
<1> QED BY <1>1, <1>3, <1>4 DEF Disk, Safe

(* What is flushed of a file that is on disk changes nothing.              *)
LEMMA DiskFlush ==
    ASSUME SafeInv,
           (\E i \in Inodes, b \in Blocks : FlushBlock(i, b)) \/ FlushDir
    PROVE  Disk'
<1>1. Base /\ Disk
  BY DEF SafeInv, Disk
<1>2. ASSUME NEW i \in Inodes, NEW b \in Blocks, FlushBlock(i, b) PROVE Disk'
  <2>1. /\ durableData' = [durableData EXCEPT ![i][b] = data[i][b]]
        /\ durableData[i] # data[i]
        /\ UNCHANGED <<dir, data, durableDir, actor, used>>
    BY <1>2 DEF FlushBlock
  <2>2. \A j \in Inodes : durableData[j] = data[j] => durableData'[j] = durableData[j]
    BY <1>1, <2>1 DEF Base, TypeOK
  <2>3. \A c \in Actors : actor[c].step = "rename" => actor[c].inode \in Inodes
    BY <1>1, WrittenOut
  <2>4. dir[Path] \in Inodes /\ durableDir[Path] \in Inodes
    BY <1>1 DEF Disk, Safe, Base, TypeOK, Names
  <2> QED BY <1>1, <2>1, <2>2, <2>3, <2>4 DEF Disk, Synced, Safe
<1>3. CASE FlushDir
  BY <1>1, <1>3 DEF FlushDir, Disk, Synced, Safe
<1> QED BY <1>2, <1>3

(* A power failure leaves the file that is safe.                           *)
LEMMA DiskPowerFailure == ASSUME SafeInv, PowerFailure PROVE Disk'
BY DEF SafeInv, PowerFailure, Disk, Synced, Safe, Idle

(* Without updates, every step keeps the invariant.                        *)
LEMMA SafeNext == ASSUME SafeInv, NoUpdates, [Next]_vars PROVE SafeInv'
<1>1. Base' /\ Base /\ Disk
  BY BaseNext DEF SafeInv, Disk
<1>2. Disk'
  <2>1. CASE \E a \in Actors : \/ Start(a) \/ Remove(a) \/ Create(a) \/ Write(a)
                               \/ Sync(a) \/ Rename(a) \/ Fail(a)
    BY <2>1, DiskDirectory, DiskCreate, DiskWrite, DiskSync, DiskRename
  <2>2. CASE (\E i \in Inodes, b \in Blocks : FlushBlock(i, b)) \/ FlushDir
    BY <2>2, DiskFlush
  <2>3. CASE PowerFailure
    BY <2>3, DiskPowerFailure
  <2>4. CASE UNCHANGED vars
    BY <1>1, <2>4 DEF vars, Disk, Synced, Safe
  <2> QED BY <2>1, <2>2, <2>3, <2>4 DEF Next
<1> QED BY <1>1, <1>2 DEF SafeInv, Disk

(* Where every protocol syncs before it renames, the invariant holds.      *)
LEMMA SafeAlways == ASSUME NoUpdates PROVE Spec => []SafeInv
<1>1. Init => SafeInv
  BY BaseInit, DiskInit DEF SafeInv, Disk
<1>2. SafeInv /\ [Next]_vars => SafeInv'
  BY SafeNext
<1> QED BY <1>1, <1>2, PTL DEF Spec

(* For every number of rewrites and casts, and of files and contents: a    *)
(* power failure at any moment leaves one whole content at the path,       *)
(* because each of them calls sync_all before rename (close, compress,     *)
(* decompress, the casts, the META writers).                               *)
THEOREM PowerFailureLeavesWhole ==
    ASSUME NoUpdates PROVE Spec => []WholeAfterPowerFailure
<1>1. SafeInv => WholeAfterPowerFailure
  BY DEF SafeInv, Base, Safe, WholeAfterPowerFailure, Durable
<1> QED BY <1>1, SafeAlways, PTL

----------------------------------------------------------------------------
(* The refinement, step by step.                                           *)

(* Only the directory reaching the disk changes what a power failure       *)
(* leaves at the path.                                                     *)
LEMMA DurableKept ==
    ASSUME SafeInv, [Next]_vars, ~FlushDir
    PROVE  Durable' = Durable
<1>1. /\ durableDir[Path] \in Inodes /\ Path \in Names /\ Base
      /\ data[durableDir[Path]] = durableData[durableDir[Path]]
  BY DEF SafeInv, Safe, Base, TypeOK, Names
<1>2. ASSUME NEW a \in Actors,
             \/ Start(a) \/ Remove(a) \/ Write(a) \/ Rename(a) \/ Fail(a)
      PROVE  Durable' = Durable
  BY <1>2 DEF Start, Remove, Write, Rename, Fail, Durable
<1>3. ASSUME NEW a \in Actors, Create(a) PROVE Durable' = Durable
  <2>1. CASE NewFile(a)
    <3> DEFINE i == CHOOSE j \in Free : TRUE
    <3>1. i \in Free
      BY <2>1 DEF NewFile
    <3> HIDE DEF i
    <3>2. i # durableDir[Path]
      BY <1>1, <3>1 DEF Free
    <3>3. durableData' = [durableData EXCEPT ![i] = NoData] /\ durableDir' = durableDir
      BY <1>3, <2>1 DEF NewFile, Create, i
    <3> QED BY <1>1, <3>2, <3>3 DEF Durable, Base, TypeOK
  <2>2. CASE durableData' = durableData
    BY <1>3, <2>2 DEF Create, Durable
  <2> QED BY <1>3, <2>1, <2>2 DEF Create
<1>4. ASSUME NEW a \in Actors, Sync(a) PROVE Durable' = Durable
  BY <1>1, <1>4 DEF Sync, Durable, Base, TypeOK
<1>5. ASSUME NEW i \in Inodes, NEW b \in Blocks, FlushBlock(i, b)
      PROVE  Durable' = Durable
  BY <1>1, <1>5 DEF FlushBlock, Durable, Base, TypeOK
<1>6. CASE PowerFailure \/ UNCHANGED vars
  BY <1>6 DEF PowerFailure, vars, Durable
<1> QED BY <1>2, <1>3, <1>4, <1>5, <1>6 DEF Next

(* What a process reads, and what a power failure leaves, change together  *)
(* only as the abstract file does.                                         *)
LEMMA AtomicStep ==
    ASSUME SafeInv, SafeInv', NoUpdates, [Next]_vars
    PROVE  [ \/ Atomic!Replace \/ Atomic!Persist
             \/ Atomic!PowerFailure ]_<<Current, Durable>>
<1>1. /\ Base /\ dir[Path] # Nil /\ durableDir[Path] # Nil
      /\ Current \in Whole /\ Durable \in Whole /\ Current' \in Whole
      /\ Durable = data[durableDir[Path]] /\ Durable' = data'[durableDir'[Path]]
      /\ Current = durableData[dir[Path]] /\ Current' = durableData'[dir'[Path]]
  BY DEF SafeInv, Safe, Current, Durable
<1>2. CASE PowerFailure
  <2>1. Current' = Durable /\ Durable' = Durable
    BY <1>2 DEF PowerFailure, Current, Durable
  <2> QED BY <2>1 DEF Atomic!PowerFailure
<1>3. CASE FlushDir
  <2>1. Durable' = Current /\ Current' = Current
    BY <1>1, <1>3 DEF FlushDir, Current, Durable
  <2> QED BY <2>1 DEF Atomic!Persist
<1>4. ASSUME NEW a \in Actors, Rename(a) PROVE Atomic!Replace
  <2>1. Durable' = Durable
    BY <1>4 DEF Rename, Durable
  <2> QED BY <1>1, <2>1 DEF Atomic!Replace
<1>5. CASE ~PowerFailure /\ ~FlushDir /\ \A a \in Actors : ~Rename(a)
  <2>1. dir'[Path] = dir[Path] /\ Current' = Current
    BY <1>1, <1>5, CurrentKept
  <2>3. Durable' = Durable
    BY <1>5, DurableKept
  <2> QED BY <2>1, <2>3
<1> QED BY <1>2, <1>3, <1>4, <1>5

(* For every number of rewrites and casts: seen from outside, replacing a  *)
(* file is one step, over power failures too; what was published is lost   *)
(* only back to a whole content that was on disk (rename after sync_all).  *)
THEOREM ReplaceImplementsAtomicFile ==
    ASSUME NoUpdates PROVE Spec => ReplaceIsAtomic
<1>1. Init => SafeInv
  BY BaseInit, DiskInit DEF SafeInv, Disk
<1>2. Init => Atomic!Init
  <2>1. SafeInv /\ Init => Current = Durable
    BY DEF SafeInv, Safe, Init, Current, Durable
  <2> QED BY <1>1, <2>1 DEF SafeInv, Safe, Atomic!Init, Current, Durable
<1>3. SafeInv /\ SafeInv' /\ [Next]_vars =>
        [ \/ Atomic!Replace \/ Atomic!Persist
          \/ Atomic!PowerFailure ]_<<Current, Durable>>
  BY AtomicStep
<1> QED BY <1>2, <1>3, SafeAlways, PTL DEF Spec, ReplaceIsAtomic, Atomic!AtomicSpec
=============================================================================
