--------------------------- MODULE FieldReplace ----------------------------
(***************************************************************************)
(* How a field file or the META file is replaced as a whole (splayed-core, *)
(* field_file.rs and meta_file.rs): a temporary file next to it is written *)
(* and renamed over it, step by step, with failing calls and power         *)
(* failures in between.  There are three protocols:                        *)
(*   "rewrite"  close, compress, decompress and the META writers: open     *)
(*              <path>.tmp with create and truncate, write, sync, rename;  *)
(*   "cast"     a temporary name of its own, write, sync, rename;          *)
(*   "update"   remove <path>.tmp, create it anew, write, rename.          *)
(* The file system is the usual one: processes see a volatile state; a     *)
(* power failure leaves the durable one; single blocks reach it at any     *)
(* time, sync brings all blocks of a file, the directory follows its       *)
(* volatile state at any time and as a whole.                              *)
(* Files edited in place, and what a content means, are not modelled.      *)
(***************************************************************************)
EXTENDS Integers

CONSTANTS
    Actors,      \* running replacements
    Kind,        \* the protocol of each
    Inodes,
    Path,        \* the name of the file
    SharedTmp,   \* <path>.tmp
    Nil,         \* no inode; a block that was never written
    MaxVersion   \* bound on the contents ever written

Kinds == {"rewrite", "cast", "update"}

ASSUME ReplaceAssumption ==
    /\ Kind \in [Actors -> Kinds]
    /\ Path # SharedTmp /\ Path \notin Actors /\ SharedTmp \notin Actors
    /\ Inodes # {} /\ Nil \notin Inodes
    /\ MaxVersion \in Nat

(* Callers hold the writer of a field exclusively (&mut), so that at most  *)
(* one replacement uses <path>.tmp; casts of other handles may run.        *)
ASSUME OneSharedTmp ==
    \A a, b \in Actors : Kind[a] # "cast" /\ Kind[b] # "cast" => a = b

Names == {Path, SharedTmp} \cup Actors
Blocks == {1, 2}

(* A content is one block (a header-only file) or two.                     *)
Version == [id : 0 .. MaxVersion, size : Blocks]
Data == [Blocks -> Version \cup {Nil}]
NoData == [b \in Blocks |-> Nil]
Content(v) == [b \in Blocks |-> IF b <= v.size THEN v ELSE Nil]
Whole == {Content(v) : v \in Version}

VARIABLES
    dir, data,              \* what processes see: names, blocks of inodes
    durableDir, durableData,\* what a power failure leaves
    actor,                  \* each replacement: its step, inode and content
    used                    \* the last version number given out

vars == <<dir, data, durableDir, durableData, actor, used>>

Steps == {"idle", "remove", "create", "write", "sync", "rename"}
Idle == [step |-> "idle", inode |-> Nil, version |-> [id |-> 0, size |-> 1],
         left |-> {}]

TypeOK ==
    /\ dir \in [Names -> Inodes \cup {Nil}]
    /\ durableDir \in [Names -> Inodes \cup {Nil}]
    /\ data \in [Inodes -> Data]
    /\ durableData \in [Inodes -> Data]
    /\ actor \in [Actors -> [step : Steps, inode : Inodes \cup {Nil},
                             version : Version, left : SUBSET Blocks]]
    /\ used \in 0 .. MaxVersion

----------------------------------------------------------------------------
(* Mutant: every replacement writes <path>.tmp.                            *)
TmpSharedByAll(a) == SharedTmp

(* tmp_path and unique_tmp_path.                                           *)
TmpName(a) == IF Kind[a] = "cast" THEN a ELSE SharedTmp

(* Inodes nobody refers to.                                                *)
Free == {i \in Inodes :
            /\ \A n \in Names : dir[n] # i /\ durableDir[n] # i
            /\ \A a \in Actors : actor[a].inode # i}

Init ==
    /\ \E n \in Blocks :
         LET i == CHOOSE j \in Inodes : TRUE
             d == [j \in Inodes |-> IF j = i THEN Content([id |-> 0, size |-> n])
                                             ELSE NoData]
         IN  /\ dir = [m \in Names |-> IF m = Path THEN i ELSE Nil]
             /\ data = d
             /\ durableData = d
    /\ durableDir = dir
    /\ actor = [a \in Actors |-> Idle]
    /\ used = 0

Start(a) ==
    /\ actor[a].step = "idle"
    /\ used < MaxVersion
    /\ used' = used + 1
    /\ \E n \in Blocks :
         actor' = [actor EXCEPT ![a] =
                      [step    |-> IF Kind[a] = "update" THEN "remove" ELSE "create",
                       inode   |-> Nil,
                       version |-> [id |-> used', size |-> n],
                       left    |-> 1 .. n]]
    /\ UNCHANGED <<dir, data, durableDir, durableData>>

(* update_field removes a temporary file that was left behind.             *)
Remove(a) ==
    /\ actor[a].step = "remove"
    /\ dir' = [dir EXCEPT ![TmpName(a)] = Nil]
    /\ actor' = [actor EXCEPT ![a].step = "create"]
    /\ UNCHANGED <<data, durableDir, durableData, used>>

(* Which free inode a new file gets makes no difference.                   *)
NewFile(a) ==
    LET i == CHOOSE j \in Free : TRUE
    IN  /\ Free # {}
        /\ dir' = [dir EXCEPT ![TmpName(a)] = i]
        /\ data' = [data EXCEPT ![i] = NoData]
        /\ durableData' = [durableData EXCEPT ![i] = NoData]
        /\ actor' = [actor EXCEPT ![a].inode = i, ![a].step = "write"]

(* A rewrite truncates a file left behind, an update does not open one.    *)
(* The name of a cast is new each time: an older leftover of it is         *)
(* forgotten here, in the code it lies around under another name.          *)
Create(a) ==
    /\ actor[a].step = "create"
    /\ \/ /\ Kind[a] = "rewrite" /\ dir[TmpName(a)] # Nil
          /\ data' = [data EXCEPT ![dir[TmpName(a)]] = NoData]
          /\ actor' = [actor EXCEPT ![a].inode = dir[TmpName(a)], ![a].step = "write"]
          /\ UNCHANGED <<dir, durableData>>
       \/ /\ Kind[a] = "rewrite" /\ dir[TmpName(a)] = Nil
          /\ NewFile(a)
       \/ /\ Kind[a] = "update" /\ dir[TmpName(a)] = Nil
          /\ NewFile(a)
       \/ /\ Kind[a] = "cast"
          /\ NewFile(a)
    /\ UNCHANGED <<durableDir, used>>

(* Blocks in any order: decompress writes the header last, the others      *)
(* write it first.                                                         *)
Write(a) ==
    /\ actor[a].step = "write"
    /\ \E b \in actor[a].left :
         LET rest == actor[a].left \ {b}
         IN  /\ data' = [data EXCEPT ![actor[a].inode][b] = actor[a].version]
             /\ actor' = [actor EXCEPT
                  ![a].left = rest,
                  ![a].step = CASE rest # {}                       -> "write"
                                [] rest = {} /\ Kind[a] = "update" -> "rename"
                                [] rest = {} /\ Kind[a] # "update" -> "sync"]
    /\ UNCHANGED <<dir, durableDir, durableData, used>>

(* Mutant: flush in place of sync_all.                                     *)
SyncNothing(a) ==
    /\ actor[a].step = "sync"
    /\ actor' = [actor EXCEPT ![a].step = "rename"]
    /\ UNCHANGED <<dir, data, durableDir, durableData, used>>

Sync(a) ==
    /\ actor[a].step = "sync"
    /\ durableData' = [durableData EXCEPT ![actor[a].inode] = data[actor[a].inode]]
    /\ actor' = [actor EXCEPT ![a].step = "rename"]
    /\ UNCHANGED <<dir, data, durableDir, used>>

(* Mutant: the temporary file is copied over the other.                    *)
RenameCopying(a) ==
    /\ actor[a].step = "rename"
    /\ dir[TmpName(a)] # Nil
    /\ data' = [data EXCEPT ![dir[Path]] = data[dir[TmpName(a)]]]
    /\ dir' = [dir EXCEPT ![TmpName(a)] = Nil]
    /\ actor' = [actor EXCEPT ![a] = Idle]
    /\ UNCHANGED <<durableDir, durableData, used>>

(* rename goes by the name, whoever wrote the file that has it.  The       *)
(* directory is not synced.                                                *)
Rename(a) ==
    /\ actor[a].step = "rename"
    /\ dir[TmpName(a)] # Nil
    /\ dir' = [dir EXCEPT ![Path] = dir[TmpName(a)], ![TmpName(a)] = Nil]
    /\ actor' = [actor EXCEPT ![a] = Idle]
    /\ UNCHANGED <<data, durableDir, durableData, used>>

(* A call fails; most error paths remove the temporary file, a few (the    *)
(* header-only ones, rename, update) leave it.                             *)
Fail(a) ==
    /\ actor[a].step # "idle"
    /\ actor' = [actor EXCEPT ![a] = Idle]
    /\ \/ dir' = [dir EXCEPT ![TmpName(a)] = Nil]
       \/ UNCHANGED dir
    /\ UNCHANGED <<data, durableDir, durableData, used>>

----------------------------------------------------------------------------
(* The operating system.                                                   *)

FlushBlock(i, b) ==
    /\ i \notin Free
    /\ durableData[i][b] # data[i][b]
    /\ durableData' = [durableData EXCEPT ![i][b] = data[i][b]]
    /\ UNCHANGED <<dir, data, durableDir, actor, used>>

FlushDir ==
    /\ durableDir # dir
    /\ durableDir' = dir
    /\ UNCHANGED <<dir, data, durableData, actor, used>>

PowerFailure ==
    /\ dir' = durableDir
    /\ data' = durableData
    /\ actor' = [a \in Actors |-> Idle]
    /\ UNCHANGED <<durableDir, durableData, used>>

Next ==
    \/ \E a \in Actors :
         \/ Start(a) \/ Remove(a) \/ Create(a) \/ Write(a)
         \/ Sync(a) \/ Rename(a) \/ Fail(a)
    \/ \E i \in Inodes, b \in Blocks : FlushBlock(i, b)
    \/ FlushDir
    \/ PowerFailure

Spec == Init /\ [][Next]_vars

----------------------------------------------------------------------------
Current == data[dir[Path]]
Durable == durableData[durableDir[Path]]

(* INVARIANT: the file a power failure would leave is one whole content    *)
(* (sync_all before rename in close, compress, decompress and cast).       *)
WholeAfterPowerFailure ==
    TypeOK /\ durableDir[Path] # Nil /\ Durable \in Whole

(* ACTION PROPERTY: while processes run, the file at the path is one whole *)
(* content, never a mixture, a prefix, or new blocks in front of older     *)
(* ones a temporary file left behind still had; only a power failure can   *)
(* tear it, and only after an update.  A replacement that succeeds has put *)
(* its own content at the path, not that of another one running at the     *)
(* same time (tmp_path, unique_tmp_path, rename).                          *)
ReadsWhole == dir[Path] # Nil /\ Current \in Whole
PublishesItsOwn ==
    [][ /\ ReadsWhole => ReadsWhole' \/ PowerFailure
        /\ \A a \in Actors :
             Rename(a) => Current' = Content(actor[a].version) ]_vars

(* REFINEMENT: replacing is atomic, also over power failures.              *)
Atomic == INSTANCE AtomicFile WITH
              Contents <- Whole, current <- Current, safe <- Durable
ReplaceIsAtomic == Atomic!AtomicSpec
============================================================================
