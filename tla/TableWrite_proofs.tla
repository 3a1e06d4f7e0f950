------------------------- MODULE TableWrite_proofs -------------------------
(***************************************************************************)
(* The lock of a table holds, a call that succeeds has done what it says,  *)
(* and none touches what its caller did not name: for any processes,       *)
(* partitions, keys and columns, any number of threads and of calls.       *)
(*                                                                         *)
(* The first invariant, IInv, says that who works on the table has created *)
(* the lock file, so no two do; that what a call found at its beginning is *)
(* still there until the keys are located; and that the partitions it      *)
(* means to create were not there.  The second, OInv, is about a call      *)
(* under way: what it has opened (Opened), and, stage by stage, how the    *)
(* table differs from the one it found (Exact, Rebuilding, Streaming).     *)
(* The third, MapsInv, says that no field file such a call has mapped has  *)
(* been removed since it began.                                            *)
(***************************************************************************)
EXTENDS TableWrite, FiniteSetTheorems, WellFoundedInduction, TLAPS

CallFields ==
    {"kind", "stage", "keys", "cols", "todo", "busy", "fields", "threads", "failed", "before",
     "sound"}

(* As much of the types as the steps need: EXCEPT keeps to these domains.  *)
Domains ==
    /\ DOMAIN part = Parts
    /\ DOMAIN call = Procs
    /\ \A h \in Procs : call[h] # None => DOMAIN call[h] = CallFields

Early == {"scan", "create", "locate"}

CreatesFresh ==
    \A h \in Procs : Inside(h) /\ call[h].stage = "create" =>
        \A p \in call[h].todo : p \in Parts => call[h].before[p] = None

IInv == Domains /\ LockHeld /\ LocatedFirst /\ CreatesFresh

(* A step of h leaves the shape of the state and the calls of the others.  *)
Local(h) == Domains' /\ \A g \in Procs \ {h} : call'[g] = call[g]

----------------------------------------------------------------------------
(* The shape of the state.                                                 *)

(* What a crash leaves has the partitions there were (Torn).               *)
LEMMA TornDomain ==
    ASSUME DOMAIN part = Parts, NEW h \in Procs, NEW t \in Torn(h)
    PROVE  DOMAIN t = Parts
<1>1. ASSUME NEW p, NEW D, t \in With(p, D)
      PROVE  DOMAIN t = Parts
  BY <1>1 DEF With
<1>2. CASE t = part
  BY <1>2
<1>3. CASE t \in TornBuild(h)
  <2>1. PICK p, D : t \in With(p, D)
    BY <1>3 DEF TornBuild
  <2> QED BY <1>1, <2>1
<1>4. CASE t \in TornRebuild(h)
  BY <1>4 DEF TornRebuild
<1>5. CASE t \in TornColumn(h)
  BY <1>5 DEF TornColumn
<1>6. CASE t \in TornRows(h)
  <2>1. PICK p, D : t \in With(p, D)
    BY <1>6 DEF TornRows
  <2> QED BY <1>1, <2>1
<1> QED BY <1>2, <1>3, <1>4, <1>5, <1>6 DEF Torn

(* A step that replaces one partition and one call keeps the shape.        *)
LEMMA ShapeKept ==
    ASSUME Domains, NEW h \in Procs,
           DOMAIN part' = Parts,
           NEW STATE c, call' = [call EXCEPT ![h] = c],
           c = None \/ DOMAIN c = CallFields
    PROVE  Local(h)
BY DEF Domains, Local

(* Everything a step of h does to its own call: it is over, or h has the   *)
(* record it had with some fields replaced.                                *)
LEMMA FieldsStay ==
    ASSUME NEW c, DOMAIN c = CallFields
    PROVE  /\ \A s, P : DOMAIN [c EXCEPT !.stage = s, !.todo = P] = CallFields
           /\ \A P : DOMAIN [c EXCEPT !.todo = P] = CallFields
           /\ \A s, F : DOMAIN [c EXCEPT !.stage = s, !.fields = F] = CallFields
           /\ \A F : DOMAIN [c EXCEPT !.fields = F] = CallFields
           /\ \A P, b : DOMAIN [c EXCEPT !.todo = P, !.failed = b] = CallFields
           /\ \A P, B : DOMAIN [c EXCEPT !.todo = P, !.busy = B] = CallFields
           /\ \A B : DOMAIN [c EXCEPT !.busy = B] = CallFields
OBVIOUS

----------------------------------------------------------------------------
(* The invariant.                                                          *)

(* It holds at the beginning: nobody is in a call.                         *)
LEMMA InitInv == Init => IInv
<1> SUFFICES ASSUME Init PROVE IInv
  OBVIOUS
<1>1. DOMAIN part = Parts
  BY DEF Init, FirstTable, NoEntries
<1>2. \A h \in Procs : call[h] = None
  BY DEF Init
<1> QED BY <1>1, <1>2 DEF Init, IInv, Domains, LockHeld, LocatedFirst, CreatesFresh, Inside

(* While h is at work no other process is.                                 *)
LEMMA Alone ==
    ASSUME IInv, NEW h \in Procs, lock = h, NEW g \in Procs \ {h}
    PROVE  ~Inside(g)
BY DEF IInv, LockHeld

(* With nobody's lock there, no process is at work.                        *)
LEMMA NoneAtWork ==
    ASSUME IInv, lock \notin Procs, NEW g \in Procs
    PROVE  ~Inside(g)
BY DEF IInv, LockHeld

(* A step of the process that holds the lock, past the search for keys or  *)
(* ending the call, keeps the invariant.                                   *)
LEMMA LaterStep ==
    ASSUME IInv, NEW h \in Procs, Inside(h), Local(h),
           \/ call'[h] = None
           \/ lock' = lock /\ call'[h].stage \notin Early
    PROVE  IInv'
<1>1. lock = h
  BY DEF IInv, LockHeld
<1>2. \A g \in Procs \ {h} : ~Inside(g)'
  BY <1>1, Alone DEF Local, Inside
<1>3. LockHeld'
  BY <1>1, <1>2 DEF LockHeld, Inside
<1>4. LocatedFirst' /\ CreatesFresh'
  BY <1>2 DEF LocatedFirst, CreatesFresh, Inside, Early
<1> QED BY <1>3, <1>4 DEF IInv, Local

(* A step that only ends the call of h, with or without error.             *)
LEMMA FailsStep ==
    ASSUME IInv, NEW h \in Procs, Inside(h), End(h), DOMAIN part' = Parts
    PROVE  IInv'
<1>1. call'[h] = None /\ Local(h)
  <2>1. call' = [call EXCEPT ![h] = None]
    BY DEF End
  <2> QED BY <2>1, ShapeKept DEF IInv, Domains
<1> QED BY <1>1, LaterStep

(* open_table and close touch neither the table nor a call.                *)
LEMMA QuietStep ==
    ASSUME IInv, UNCHANGED <<lock, part, call>>
    PROVE  IInv'
BY DEF IInv, Domains, LockHeld, LocatedFirst, CreatesFresh, Inside

(* A new call has seen the table as it is.                                 *)
LEMMA StartedShape ==
    ASSUME NEW h, NEW kind, NEW stage, NEW in
    PROVE  /\ DOMAIN Started(h, kind, stage, in) = CallFields
           /\ Started(h, kind, stage, in).stage = stage
           /\ Started(h, kind, stage, in).before = part
BY DEF Started, CallFields

(* A call that has just begun, its lock its own or not yet taken.          *)
LEMMA NewCall ==
    ASSUME IInv, NEW h \in Procs, UNCHANGED part,
           NEW STATE c, call' = [call EXCEPT ![h] = c], DOMAIN c = CallFields,
           c.before = part, c.stage # "create",
           \/ lock \notin Procs /\ lock' = h
           \/ lock' = lock /\ c.stage = "new"
    PROVE  IInv'
<1>1. Local(h) /\ call'[h] = c
  <2>1. DOMAIN part' = Parts /\ (c = None \/ DOMAIN c = CallFields)
    BY DEF IInv, Domains
  <2> QED BY <2>1, ShapeKept DEF IInv, Domains
<1>2. \A g \in Procs \ {h} : Inside(g)' => Inside(g) /\ lock' = lock
  BY <1>1, NoneAtWork DEF Local, Inside
<1>3. LockHeld'
  BY <1>1, <1>2 DEF LockHeld, IInv, Inside
<1>4. LocatedFirst' /\ CreatesFresh'
  BY <1>1, <1>2 DEF LocatedFirst, CreatesFresh, IInv, Inside, Local
<1> QED BY <1>1, <1>3, <1>4 DEF IInv, Local

(* LockGuard::acquire: the lock was not there, so nobody was at work.      *)
LEMMA BeginStep ==
    ASSUME IInv, NEW h \in Procs, Begin(h)
    PROVE  IInv'
<1>1. lock \notin Procs /\ lock' = h /\ UNCHANGED part
  BY TableWriteAssumption DEF Begin
<1>2. PICK in \in Inputs :
         \/ call' = [call EXCEPT ![h] = Started(h, "write", "scan", in)]
         \/ call' = [call EXCEPT ![h] =
                        [Started(h, "update", "remove", in) EXCEPT
                           !.todo = PartsOf(in.keys), !.threads = InUse(PartsOf(in.keys))]]
  BY DEF Begin
<1>3. CASE call' = [call EXCEPT ![h] = Started(h, "write", "scan", in)]
  <2> DEFINE c == Started(h, "write", "scan", in)
  <2>1. DOMAIN c = CallFields /\ c.stage # "create" /\ c.before = part
    BY StartedShape
  <2>2. call' = [call EXCEPT ![h] = c]
    BY <1>3
  <2> HIDE DEF c
  <2> QED BY <1>1, <2>1, <2>2, NewCall
<1>4. CASE call' = [call EXCEPT ![h] =
                      [Started(h, "update", "remove", in) EXCEPT
                         !.todo = PartsOf(in.keys), !.threads = InUse(PartsOf(in.keys))]]
  <2> DEFINE c == [Started(h, "update", "remove", in) EXCEPT
                     !.todo = PartsOf(in.keys), !.threads = InUse(PartsOf(in.keys))]
  <2>1. DOMAIN c = CallFields /\ c.stage # "create" /\ c.before = part
    BY StartedShape DEF CallFields
  <2>2. call' = [call EXCEPT ![h] = c]
    BY <1>4
  <2> HIDE DEF c
  <2> QED BY <1>1, <2>1, <2>2, NewCall
<1> QED BY <1>2, <1>3, <1>4

(* TableStreamWriter::new, before it has the lock.                         *)
LEMMA StreamNewStep ==
    ASSUME IInv, NEW h \in Procs, StreamNew(h)
    PROVE  IInv'
<1>1. PICK in \in Inputs : call' = [call EXCEPT ![h] = Started(h, "stream", "new", in)]
  BY DEF StreamNew
<1> DEFINE c == Started(h, "stream", "new", in)
<1>2. DOMAIN c = CallFields /\ c.stage = "new" /\ c.before = part
  BY StartedShape
<1>3. call' = [call EXCEPT ![h] = c] /\ UNCHANGED part /\ lock' = lock
  BY <1>1 DEF StreamNew
<1> HIDE DEF c
<1> QED BY <1>2, <1>3, NewCall

(* TableStreamWriter::new takes the lock: nobody was at work; or fails.    *)
LEMMA StreamLockStep ==
    ASSUME IInv, NEW h \in Procs, StreamLock(h)
    PROVE  IInv'
<1>1. part' = part /\ ~Inside(h)
  BY DEF StreamLock, InStage, Inside
<1>2. CASE lock = None
  <2>1. \A g \in Procs : ~Inside(g)
    BY <1>2, TableWriteAssumption, NoneAtWork
  <2> DEFINE c == [call[h] EXCEPT !.stage = "stream", !.before = part, !.todo = PartsOf(call[h].keys)]
  <2>2. call' = [call EXCEPT ![h] = c] /\ lock' = h
    BY <1>2 DEF StreamLock
  <2>3. DOMAIN c = CallFields /\ c.stage = "stream"
    BY DEF StreamLock, InStage, IInv, Domains, CallFields
  <2> HIDE DEF c
  <2>4. Local(h) /\ call'[h] = c
    BY <1>1, <2>2, <2>3, ShapeKept DEF IInv, Domains
  <2>5. \A g \in Procs \ {h} : ~Inside(g)'
    BY <2>1, <2>4 DEF Local, Inside
  <2> QED BY <2>2, <2>3, <2>4, <2>5
          DEF IInv, Local, LockHeld, LocatedFirst, CreatesFresh, Inside
<1>3. CASE lock # None
  <2>1. call' = [call EXCEPT ![h] = None] /\ lock' = lock
    BY <1>3 DEF StreamLock
  <2>2. Local(h) /\ call'[h] = None
    BY <1>1, <2>1, ShapeKept DEF IInv, Domains
  <2> QED BY <1>1, <2>1, <2>2 DEF IInv, Local, LockHeld, LocatedFirst, CreatesFresh, Inside
<1> QED BY <1>2, <1>3

----------------------------------------------------------------------------
(* The steps of a write before all its keys are located.                   *)

(* Such a step keeps the invariant if it replaces no partition that was    *)
(* there when the call began.                                              *)
LEMMA EarlyStep ==
    ASSUME IInv, NEW h \in Procs, Inside(h), Local(h), lock' = lock,
           call[h].stage \in Early, call'[h].stage \in Early,
           call'[h].before = call[h].before,
           \A p \in Parts : call[h].before[p] # None => part'[p] = part[p],
           call'[h].stage = "create" =>
               \A p \in call'[h].todo : p \in Parts => call[h].before[p] = None
    PROVE  IInv'
<1>1. lock = h
  BY DEF IInv, LockHeld
<1>2. \A g \in Procs \ {h} : ~Inside(g)'
  BY <1>1, Alone DEF Local, Inside
<1>3. LockHeld'
  BY <1>1, <1>2 DEF LockHeld
<1>4. LocatedFirst'
  <2>1. \A p \in Parts : call[h].before[p] # None => part[p] = call[h].before[p]
    BY DEF IInv, LocatedFirst, Early
  <2> QED BY <1>2, <2>1 DEF LocatedFirst
<1>5. CreatesFresh'
  BY <1>2 DEF CreatesFresh
<1> QED BY <1>3, <1>4, <1>5 DEF IInv, Local

(* A call goes on to another stage or has one thing less to do.            *)
LEMMA CallChanges ==
    ASSUME IInv, NEW h \in Procs, call[h] # None, DOMAIN part' = Parts,
           NEW STATE s, NEW STATE P,
           call' = [call EXCEPT ![h].stage = s, ![h].todo = P]
    PROVE  /\ Local(h)
           /\ call'[h].stage = s /\ call'[h].todo = P /\ call'[h].before = call[h].before
<1> DEFINE c == [call[h] EXCEPT !.stage = s, !.todo = P]
<1>1. DOMAIN c = CallFields /\ c.stage = s /\ c.todo = P /\ c.before = call[h].before
  BY DEF IInv, Domains, CallFields
<1>2. call' = [call EXCEPT ![h] = c]
  OBVIOUS
<1> HIDE DEF c
<1>3. Local(h)
  BY <1>1, <1>2, ShapeKept DEF IInv
<1>4. call'[h] = c
  BY <1>2 DEF IInv, Domains
<1> QED BY <1>1, <1>3, <1>4

(* The stage stays, the work to do changes.                                *)
LEMMA TodoChanges ==
    ASSUME IInv, NEW h \in Procs, call[h] # None, DOMAIN part' = Parts,
           NEW STATE P,
           call' = [call EXCEPT ![h].todo = P]
    PROVE  /\ Local(h)
           /\ call'[h].stage = call[h].stage
           /\ call'[h].todo = P /\ call'[h].before = call[h].before
<1> DEFINE c == [call[h] EXCEPT !.todo = P]
<1>1. DOMAIN c = CallFields /\ c.stage = call[h].stage /\ c.todo = P /\ c.before = call[h].before
  BY DEF IInv, Domains, CallFields
<1>2. call' = [call EXCEPT ![h] = c]
  OBVIOUS
<1> HIDE DEF c
<1>3. Local(h)
  BY <1>1, <1>2, ShapeKept DEF IInv
<1>4. call'[h] = c
  BY <1>2 DEF IInv, Domains
<1> QED BY <1>1, <1>3, <1>4

(* scan_partition_runs lists partitions that are not there, and nothing    *)
(* has changed since the call began.                                       *)
LEMMA ScanStep ==
    ASSUME IInv, NEW h \in Procs, Scan(h)
    PROVE  IInv'
<1>1. Inside(h) /\ call[h].stage = "scan" /\ call[h] # None
  BY DEF Scan, InStage, Inside
<1>2. CASE Fails(h)
  BY <1>1, <1>2, FailsStep DEF Fails, IInv, Domains
<1>3. CASE Goes(h, "create", PartsOf(call[h].keys) \ Existing) /\ UNCHANGED <<lock, part>>
  <2> DEFINE P == PartsOf(call[h].keys) \ Existing
  <2>1. call' = [call EXCEPT ![h].stage = "create", ![h].todo = P] /\ DOMAIN part' = Parts
    BY <1>3 DEF Goes, IInv, Domains
  <2>2. \A p \in P : p \in Parts => call[h].before[p] = None
    BY <1>1 DEF Existing, IInv, LocatedFirst
  <2> HIDE DEF P
  <2>3. /\ Local(h)
        /\ call'[h].stage = "create" /\ call'[h].todo = P /\ call'[h].before = call[h].before
    BY <1>1, <2>1, CallChanges, Zenon
  <2> QED BY <1>1, <1>3, <2>2, <2>3, EarlyStep DEF Early
<1> QED BY <1>2, <1>3 DEF Scan

(* locate_partition_plan creates partitions only where there were none.    *)
LEMMA CreatePartitionStep ==
    ASSUME IInv, NEW h \in Procs, CreatePartition(h)
    PROVE  IInv'
<1>1. Inside(h) /\ call[h].stage = "create" /\ call[h] # None
  BY DEF CreatePartition, InStage, Inside
<1>2. CASE Fails(h)
  BY <1>1, <1>2, FailsStep DEF Fails, IInv, Domains
<1>3. ASSUME NEW p \in call[h].todo,
             part' = [part EXCEPT ![p] = Built(h, p)],
             call' = [call EXCEPT ![h].todo = @ \ {p}], lock' = lock
      PROVE  IInv'
  <2> DEFINE P == call[h].todo \ {p}
  <2>1. call' = [call EXCEPT ![h].todo = P] /\ DOMAIN part' = Parts
    BY <1>3 DEF IInv, Domains
  <2>2. \A q \in call[h].todo : q \in Parts => call[h].before[q] = None
    BY <1>1 DEF IInv, CreatesFresh
  <2>3. \A q \in Parts : call[h].before[q] # None => part'[q] = part[q]
    BY <1>3, <2>2 DEF IInv, Domains
  <2>4. \A q \in P : q \in Parts => call[h].before[q] = None
    BY <2>2
  <2> HIDE DEF P
  <2>5. /\ Local(h) /\ call'[h].stage = "create" /\ call'[h].todo = P
        /\ call'[h].before = call[h].before
    BY <1>1, <2>1, TodoChanges
  <2> QED BY <1>1, <1>3, <2>3, <2>4, <2>5, EarlyStep DEF Early
<1> QED BY <1>2, <1>3 DEF CreatePartition

(* The second part of locate_partition_plan begins.                        *)
LEMMA StartLocatingStep ==
    ASSUME IInv, NEW h \in Procs, StartLocating(h)
    PROVE  IInv'
<1>1. Inside(h) /\ call[h].stage = "create" /\ call[h] # None
  BY DEF StartLocating, InStage, Inside
<1> DEFINE P == PartsOf(call[h].keys)
<1>2. /\ call' = [call EXCEPT ![h].stage = "locate", ![h].todo = P]
      /\ DOMAIN part' = Parts /\ part' = part /\ lock' = lock
  BY DEF StartLocating, Goes, IInv, Domains
<1> HIDE DEF P
<1>3. Local(h) /\ call'[h].stage = "locate" /\ call'[h].before = call[h].before
  BY <1>1, <1>2, CallChanges
<1> QED BY <1>1, <1>2, <1>3, EarlyStep DEF Early

(* Locating keys changes nothing but what the process has cached.          *)
LEMMA LocateStep ==
    ASSUME IInv, NEW h \in Procs, Locate(h)
    PROVE  IInv'
<1>1. Inside(h) /\ call[h].stage = "locate" /\ call[h] # None
  BY DEF Locate, InStage, Inside
<1>2. CASE Fails(h)
  BY <1>1, <1>2, FailsStep DEF Fails, IInv, Domains
<1>3. CASE ~Fails(h)
  <2> DEFINE P == call[h].todo \ {Least(call[h].todo)}
  <2>1. /\ call' = [call EXCEPT ![h].todo = P]
        /\ DOMAIN part' = Parts /\ part' = part /\ lock' = lock
    BY <1>3 DEF Locate, IInv, Domains
  <2> HIDE DEF P
  <2>2. Local(h) /\ call'[h].stage = "locate" /\ call'[h].before = call[h].before
    BY <1>1, <2>1, TodoChanges
  <2> QED BY <1>1, <2>1, <2>2, EarlyStep DEF Early
<1> QED BY <1>2, <1>3

----------------------------------------------------------------------------
(* The steps of a write once all its keys are located, and those of the    *)
(* other two writers.                                                      *)

(* Such a step may do what it likes to the partitions: it holds the lock.  *)
LEMMA WorkStep ==
    ASSUME IInv, NEW h \in Procs, Inside(h), lock' = lock, DOMAIN part' = Parts,
           NEW STATE c, call' = [call EXCEPT ![h] = c],
           DOMAIN c = CallFields, c.stage \notin Early
    PROVE  IInv'
<1>1. Local(h)
  BY ShapeKept DEF IInv
<1>2. call'[h] = c
  BY DEF IInv, Domains
<1> QED BY <1>1, <1>2, LaterStep

(* Columns are planned: the directory is left alone.                       *)
LEMMA PlanColumnsStep ==
    ASSUME IInv, NEW h \in Procs, PlanColumns(h)
    PROVE  IInv'
<1>1. Inside(h) /\ call[h].stage = "locate" /\ DOMAIN call[h] = CallFields
  BY DEF PlanColumns, InStage, Inside, IInv, Domains
<1>2. CASE Fails(h)
  BY <1>1, <1>2, FailsStep DEF Fails, IInv, Domains
<1>3. CASE ~Fails(h)
  <2> DEFINE c == [call[h] EXCEPT !.stage = "columns", !.fields = Lacking(h)]
  <2>1. call' = [call EXCEPT ![h] = c] /\ DOMAIN part' = Parts /\ lock' = lock
    BY <1>3 DEF PlanColumns, IInv, Domains
  <2>2. DOMAIN c = CallFields /\ c.stage \notin Early
    BY <1>1 DEF CallFields, Early
  <2> HIDE DEF c
  <2> QED BY <1>1, <2>1, <2>2, WorkStep
<1> QED BY <1>2, <1>3

(* A column is created, or the call fails.                                 *)
LEMMA CreateColumnStep ==
    ASSUME IInv, NEW h \in Procs, CreateColumn(h)
    PROVE  IInv'
<1>1. Inside(h) /\ call[h].stage = "columns" /\ DOMAIN call[h] = CallFields
  BY DEF CreateColumn, InStage, Inside, IInv, Domains
<1>2. PICK f \in NextField(h) :
         \/ /\ part' = [part EXCEPT ![f[1]] = WithColumn(part[f[1]], f[2], Aligned(h, f[1]))]
            /\ call' = [call EXCEPT ![h].fields = @ \ {f}]
            /\ lock' = lock
         \/ part' = [part EXCEPT ![f[1]] = WithoutColumn(part[f[1]], f[2])] /\ End(h)
         \/ part' = part /\ End(h)
  BY DEF CreateColumn, Fails
<1>3. DOMAIN part' = Parts
  BY <1>2 DEF IInv, Domains
<1>4. CASE End(h)
  BY <1>1, <1>3, <1>4, FailsStep
<1>5. CASE ~End(h)
  <2> DEFINE c == [call[h] EXCEPT !.fields = @ \ {f}]
  <2>1. call' = [call EXCEPT ![h] = c] /\ lock' = lock
    BY <1>2, <1>5
  <2>2. DOMAIN c = CallFields /\ c.stage \notin Early
    BY <1>1 DEF CallFields, Early
  <2> HIDE DEF c
  <2> QED BY <1>1, <1>3, <2>1, <2>2, WorkStep
<1> QED BY <1>4, <1>5

(* The rows are dealt out.                                                 *)
LEMMA StartRowsStep ==
    ASSUME IInv, NEW h \in Procs, StartRows(h)
    PROVE  IInv'
<1>1. Inside(h) /\ call[h].stage = "columns" /\ DOMAIN call[h] = CallFields
  BY DEF StartRows, InStage, Inside, IInv, Domains
<1> DEFINE c == [call[h] EXCEPT !.stage = "rows", !.todo = PartsOf(call[h].keys)]
<1>2. call' = [call EXCEPT ![h] = c] /\ DOMAIN part' = Parts /\ lock' = lock
  BY DEF StartRows, Goes, IInv, Domains
<1>3. DOMAIN c = CallFields /\ c.stage \notin Early
  BY <1>1 DEF CallFields, Early
<1> HIDE DEF c
<1> QED BY <1>1, <1>2, <1>3, WorkStep

(* A thread writes the rows of a partition.                                *)
LEMMA WritePartitionStep ==
    ASSUME IInv, NEW h \in Procs, WritePartition(h)
    PROVE  IInv'
<1>1. Inside(h) /\ call[h].stage = "rows" /\ DOMAIN call[h] = CallFields
  BY DEF WritePartition, InStage, Inside, IInv, Domains
<1>2. PICK p, d : /\ part' = [part EXCEPT ![p] = d]
                  /\ call' = [call EXCEPT ![h].todo = @ \ {p}]
                  /\ lock' = lock
  BY DEF WritePartition
<1> DEFINE c == [call[h] EXCEPT !.todo = @ \ {p}]
<1>3. call' = [call EXCEPT ![h] = c] /\ DOMAIN part' = Parts
  BY <1>2 DEF IInv, Domains
<1>4. DOMAIN c = CallFields /\ c.stage \notin Early
  BY <1>1 DEF CallFields, Early
<1> HIDE DEF c
<1> QED BY <1>1, <1>2, <1>3, <1>4, WorkStep

(* A thread fails and leaves its other partitions.                         *)
LEMMA WriteFailsStep ==
    ASSUME IInv, NEW h \in Procs, WriteFails(h)
    PROVE  IInv'
<1>1. Inside(h) /\ call[h].stage = "rows" /\ DOMAIN call[h] = CallFields
  BY DEF WriteFails, InStage, Inside, IInv, Domains
<1>2. PICK p, d :
         /\ part' = [part EXCEPT ![p] = d]
         /\ call' = [call EXCEPT ![h].todo = {q \in @ : Thread(h, q) # Thread(h, p)},
                                 ![h].failed = TRUE]
         /\ lock' = lock
  BY DEF WriteFails
<1> DEFINE c == [call[h] EXCEPT !.todo = {q \in @ : Thread(h, q) # Thread(h, p)}, !.failed = TRUE]
<1>3. call' = [call EXCEPT ![h] = c] /\ DOMAIN part' = Parts
  BY <1>2 DEF IInv, Domains
<1>4. DOMAIN c = CallFields /\ c.stage \notin Early
  BY <1>1 DEF CallFields, Early
<1> HIDE DEF c
<1> QED BY <1>1, <1>2, <1>3, <1>4, WorkStep

(* write_table returns.                                                    *)
LEMMA EndWriteStep ==
    ASSUME IInv, NEW h \in Procs, EndWrite(h)
    PROVE  IInv'
<1>1. Inside(h) /\ call[h].stage = "rows" /\ DOMAIN call[h] = CallFields
  BY DEF EndWrite, InStage, Inside, IInv, Domains
<1>2. End(h) /\ DOMAIN part' = Parts
  BY DEF EndWrite, Fails, IInv, Domains
<1> QED BY <1>1, <1>2, FailsStep

(* update_table removes a partition, or some of it.                        *)
LEMMA UpdateRemoveStep ==
    ASSUME IInv, NEW h \in Procs, UpdateRemove(h)
    PROVE  IInv'
<1>1. Inside(h) /\ call[h].stage = "remove" /\ DOMAIN call[h] = CallFields
  BY DEF UpdateRemove, InStage, Inside, IInv, Domains
<1>2. PICK p : /\ call' = [call EXCEPT ![h].todo = @ \ {p}, ![h].busy = @ \cup {p}]
               /\ part' = part \/ \E d : part' = [part EXCEPT ![p] = d]
               /\ lock' = lock
  BY DEF UpdateRemove
<1> DEFINE c == [call[h] EXCEPT !.todo = @ \ {p}, !.busy = @ \cup {p}]
<1>3. call' = [call EXCEPT ![h] = c] /\ DOMAIN part' = Parts
  BY <1>2 DEF IInv, Domains
<1>4. DOMAIN c = CallFields /\ c.stage \notin Early
  BY <1>1 DEF CallFields, Early
<1> HIDE DEF c
<1> QED BY <1>1, <1>2, <1>3, <1>4, WorkStep

(* update_table builds a partition, or a thread fails.                     *)
LEMMA UpdateBuildStep ==
    ASSUME IInv, NEW h \in Procs, UpdateBuild(h)
    PROVE  IInv'
<1>1. Inside(h) /\ call[h].stage = "remove" /\ DOMAIN call[h] = CallFields
  BY DEF UpdateBuild, InStage, Inside, IInv, Domains
<1>2. PICK p :
         \/ /\ part' = [part EXCEPT ![p] = Built(h, p)]
            /\ call' = [call EXCEPT ![h].busy = @ \ {p}]
         \/ /\ part' = part
            /\ call' = [call EXCEPT ![h].busy = @ \ {p}, ![h].threads = @ - 1,
                                    ![h].failed = TRUE]
  BY DEF UpdateBuild
<1>3. DOMAIN part' = Parts /\ lock' = lock
  BY <1>2 DEF UpdateBuild, IInv, Domains
<1>4. CASE call' = [call EXCEPT ![h].busy = @ \ {p}]
  <2> DEFINE c == [call[h] EXCEPT !.busy = @ \ {p}]
  <2>1. call' = [call EXCEPT ![h] = c]
    BY <1>4
  <2>2. DOMAIN c = CallFields /\ c.stage \notin Early
    BY <1>1 DEF CallFields, Early
  <2> HIDE DEF c
  <2> QED BY <1>1, <1>3, <2>1, <2>2, WorkStep
<1>5. CASE call' = [call EXCEPT ![h].busy = @ \ {p}, ![h].threads = @ - 1, ![h].failed = TRUE]
  <2> DEFINE c == [call[h] EXCEPT !.busy = @ \ {p}, !.threads = @ - 1, !.failed = TRUE]
  <2>1. call' = [call EXCEPT ![h] = c]
    BY <1>5
  <2>2. DOMAIN c = CallFields /\ c.stage \notin Early
    BY <1>1 DEF CallFields, Early
  <2> HIDE DEF c
  <2> QED BY <1>1, <1>3, <2>1, <2>2, WorkStep
<1> QED BY <1>2, <1>4, <1>5

(* update_table returns.                                                   *)
LEMMA EndUpdateStep ==
    ASSUME IInv, NEW h \in Procs, EndUpdate(h)
    PROVE  IInv'
<1>1. Inside(h) /\ call[h].stage = "remove" /\ DOMAIN call[h] = CallFields
  BY DEF EndUpdate, InStage, Inside, IInv, Domains
<1>2. End(h) /\ DOMAIN part' = Parts
  BY DEF EndUpdate, Fails, IInv, Domains
<1> QED BY <1>1, <1>2, FailsStep

(* write_batch creates a partition, or fails.                              *)
LEMMA StreamPartitionStep ==
    ASSUME IInv, NEW h \in Procs, StreamPartition(h)
    PROVE  IInv'
<1>1. Inside(h) /\ call[h].stage = "stream" /\ DOMAIN call[h] = CallFields
  BY DEF StreamPartition, InStage, Inside, IInv, Domains
<1>2. CASE Fails(h)
  BY <1>1, <1>2, FailsStep DEF Fails, IInv, Domains
<1>3. CASE ~Fails(h)
  <2> DEFINE p == Least(call[h].todo)
             c == [call[h] EXCEPT !.todo = @ \ {p}]
  <2>1. /\ part' = [part EXCEPT ![p] = Built(h, p)]
        /\ call' = [call EXCEPT ![h] = c] /\ lock' = lock
    BY <1>3 DEF StreamPartition
  <2>2. DOMAIN part' = Parts
    BY <2>1 DEF IInv, Domains
  <2>3. DOMAIN c = CallFields /\ c.stage \notin Early
    BY <1>1 DEF CallFields, Early
  <2> HIDE DEF p, c
  <2> QED BY <1>1, <2>1, <2>2, <2>3, WorkStep
<1> QED BY <1>2, <1>3

(* finish returns.                                                         *)
LEMMA StreamFinishStep ==
    ASSUME IInv, NEW h \in Procs, StreamFinish(h)
    PROVE  IInv'
<1>1. Inside(h) /\ call[h].stage = "stream" /\ DOMAIN call[h] = CallFields
  BY DEF StreamFinish, InStage, Inside, IInv, Domains
<1>2. End(h) /\ DOMAIN part' = Parts
  BY DEF StreamFinish, Fails, IInv, Domains
<1> QED BY <1>1, <1>2, FailsStep

----------------------------------------------------------------------------
(* The end of a process and the lock it leaves.                            *)

(* A process ends: its lock file belongs to nobody, and half a step of its *)
(* is in the directory.                                                    *)
LEMMA CrashStep ==
    ASSUME IInv, NEW h \in Procs, Crash(h)
    PROVE  IInv'
<1>1. DOMAIN part' = Parts
  BY TornDomain DEF Crash, IInv, Domains
<1>2. call' = [call EXCEPT ![h] = None] /\ lock' = IF lock = h THEN Left ELSE lock
  BY DEF Crash
<1>3. call'[h] = None /\ Local(h)
  BY <1>1, <1>2, ShapeKept DEF IInv, Domains
<1>4. CASE Inside(h)
  BY <1>3, <1>4, LaterStep
<1>5. CASE ~Inside(h) /\ lock = h
  <2>1. \A g \in Procs : ~Inside(g)'
    BY <1>3, <1>5, Alone DEF Local, Inside
  <2> QED BY <1>3, <2>1 DEF IInv, Local, LockHeld, LocatedFirst, CreatesFresh
<1>6. CASE ~Inside(h) /\ lock # h
  <2>1. lock' = lock
    BY <1>2, <1>6
  <2>2. \A p \in Parts : part'[p] = part[p]
    <3>1. call[h].stage = "new" /\ call[h] # None
      BY <1>6 DEF Crash, Inside
    <3>2. TornBuild(h) = {} /\ TornColumn(h) = {} /\ TornRows(h) = {}
      BY <3>1 DEF TornBuild, TornColumn, TornRows, InStage
    <3>3. \A t \in TornRebuild(h) : t = [p \in Parts |-> part[p]]
      BY <3>1 DEF TornRebuild, InStage
    <3> QED BY <3>2, <3>3 DEF Crash, Torn
  <2> QED BY <1>3, <2>1, <2>2
          DEF IInv, Local, LockHeld, LocatedFirst, CreatesFresh, Inside
<1> QED BY <1>4, <1>5, <1>6

(* Someone removes the lock file of a process that has ended.              *)
LEMMA UnlockStep ==
    ASSUME IInv, Unlock
    PROVE  IInv'
<1>1. \A h \in Procs : ~Inside(h)
  BY TableWriteAssumption, NoneAtWork DEF Unlock
<1>2. UNCHANGED <<part, call>>
  BY DEF Unlock
<1> QED BY <1>1, <1>2 DEF IInv, Domains, LockHeld, LocatedFirst, CreatesFresh, Inside

----------------------------------------------------------------------------
(* The theorems.                                                           *)

(* A step of a call keeps the invariant.                                   *)
LEMMA CallStep ==
    ASSUME IInv, NEW h \in Procs, Step(h)
    PROVE  IInv'
BY ScanStep, CreatePartitionStep, StartLocatingStep, LocateStep, PlanColumnsStep,
   CreateColumnStep, StartRowsStep, WritePartitionStep, WriteFailsStep, EndWriteStep,
   UpdateRemoveStep, UpdateBuildStep, EndUpdateStep, StreamLockStep, StreamPartitionStep,
   StreamFinishStep DEF Step

(* Every step keeps the invariant.                                         *)
LEMMA NextInv == IInv /\ [Next]_vars => IInv'
<1> SUFFICES ASSUME IInv, [Next]_vars PROVE IInv'
  OBVIOUS
<1>1. CASE UNCHANGED vars
  BY <1>1, QuietStep DEF vars
<1>2. ASSUME NEW h \in Procs, Open(h) \/ Close(h)
      PROVE  IInv'
  BY <1>2, QuietStep DEF Open, Close
<1>3. ASSUME NEW h \in Procs, Begin(h) \/ StreamNew(h) \/ Step(h) \/ Crash(h)
      PROVE  IInv'
  BY <1>3, BeginStep, StreamNewStep, CallStep, CrashStep
<1>4. CASE Unlock
  BY <1>4, UnlockStep
<1> QED BY <1>1, <1>2, <1>3, <1>4 DEF Next

(* The inductive invariant holds in every state.                           *)
LEMMA Inductive == Spec => []IInv
BY InitInv, NextInv, PTL DEF Spec

(* Whoever works on the table has created the lock file that is there, so  *)
(* no two processes work on it at once, whatever fails, whoever ends, and  *)
(* however late a stream writer takes the lock (LockGuard).                *)
THEOREM Exclusion == Spec => []LockHeld
<1>1. IInv => LockHeld
  BY DEF IInv
<1> QED BY <1>1, Inductive, PTL

(* A write that has not located all its keys has changed nothing of what   *)
(* it found (locate_partition_plan): with a key that is missing it returns *)
(* its error with every partition that was there as it was.                *)
THEOREM NothingLostBeforeLocated == Spec => []LocatedFirst
<1>1. IInv => LocatedFirst
  BY DEF IInv
<1> QED BY <1>1, Inductive, PTL

----------------------------------------------------------------------------
(* What a call has reached.                                                *)

(* The types, but for the files that are mapped.                           *)
Typed ==
    /\ lock \in Procs \cup {None, Left}
    /\ Table(part)
    /\ cache \in [Procs -> Entries \cup {None}]
    /\ DOMAIN call = Procs /\ \A h \in Procs : call[h] # None => Call(call[h])
    /\ calls \in 0 .. MaxCalls

(* A dataset that is still the directory at its path has its index.        *)
Live ==
    \A h \in Procs, p \in Parts :
        cache[h] # None /\ cache[h][p] # None /\ cache[h][p].live =>
            part[p] # None /\ cache[h][p].keys = part[p].keys

WriteStages == {"scan", "create", "locate", "columns", "rows"}

(* The dataset of p is open and its index has the caller's keys.           *)
Found(h, p) == cache[h][p] # None /\ KeysIn(call[h].keys, p) \subseteq cache[h][p].keys

(* A write has opened what it needs for its next step.                     *)
Opened(h) ==
    LET c == call[h]
        P == PartsOf(c.keys)
    IN  /\ cache[h] # None
        /\ c.todo \subseteq P
        /\ c.stage = "create" => \A p \in c.todo : part[p] = None
        /\ c.stage \in {"locate", "columns"} => \A p \in P \ c.todo : Found(h, p)
        /\ c.stage = "columns" => /\ c.todo = {}
                                  /\ \A f \in c.fields : part[f[1]] # None /\ cache[h][f[1]] # None
        /\ c.stage = "rows" => \A p \in P : Found(h, p)

(* The partitions are those there were and the caller's, with the index    *)
(* they had and no columns but the old ones and the caller's.              *)
Shaped(h) ==
    LET c == call[h]
        b == c.before
    IN  \A p \in Parts :
          /\ b[p] # None => /\ part[p] # None /\ part[p].keys = b[p].keys
                            /\ DOMAIN b[p].cols \subseteq DOMAIN part[p].cols
                            /\ DOMAIN part[p].cols \subseteq DOMAIN b[p].cols \cup c.cols
          /\ b[p] = None /\ part[p] # None => p \in PartsOf(c.keys)
          /\ p \in PartsOf(c.keys) /\ part[p] = None =>
                c.stage = "scan" \/ (c.stage = "create" /\ p \in c.todo)

Named(h, k, x) == k \in call[h].keys /\ x \in call[h].cols

(* What the caller did not name is as it was.                              *)
OthersAsBefore(h) ==
    \A k \in Keys, x \in Cols :
        ~Named(h, k, x) => Cell(part, k, x) = Cell(call[h].before, k, x)

(* The columns that are missing are those still to be made.                *)
Columned(h) ==
    LET c == call[h]
    IN  /\ c.stage = "columns" =>
             /\ \A f \in c.fields : f[2] \in c.cols /\ f[2] \notin DOMAIN part[f[1]].cols
             /\ \A p \in Existing, x \in c.cols : x \in DOMAIN part[p].cols \/ <<p, x>> \in c.fields
        /\ c.stage = "rows" => \A p \in Existing : c.cols \subseteq DOMAIN part[p].cols

(* The rows of the partitions that are done have been written.             *)
Written(h) ==
    LET c == call[h]
    IN  c.stage = "rows" /\ ~c.failed =>
            \A k \in Keys, x \in Cols :
                Named(h, k, x) /\ PartOf[k] \notin c.todo => Cell(part, k, x) = h

(* What is open is at its path; until the columns are planned, its schema  *)
(* is true too (one that is read again may come out empty).                *)
Alive(h) ==
    \A p \in Parts : cache[h] # None /\ cache[h][p] # None => cache[h][p].live /\ part[p] # None
Agrees(h) ==
    \A p \in Parts : cache[h] # None /\ cache[h][p] # None =>
        cache[h][p].live /\ part[p] # None /\ cache[h][p] = EntryOf(part[p])
Cached(h) == Alive(h) /\ (call[h].stage \in Early => Agrees(h))

Exact(h) ==
    Cached(h) /\ Shaped(h) /\ OthersAsBefore(h) /\ Columned(h) /\ Written(h)

(* An update: its partitions are to be removed, under way, or new.         *)
Rebuilding(h) ==
    LET c == call[h]
        P == PartsOf(c.keys)
    IN  /\ c.todo \subseteq P /\ c.busy \subseteq P
        /\ Cardinality(c.busy) <= c.threads
        /\ \A p \in Parts \ P : part[p] = c.before[p]
        /\ ~c.failed => \A p \in P \ (c.todo \cup c.busy) : part[p] = Built(h, p)

(* A stream: its partitions are as they were, or new where there was none. *)
Streaming(h) ==
    LET c == call[h]
        P == PartsOf(c.keys)
    IN  /\ c.todo \subseteq P
        /\ \A p \in Parts : IF p \in P \ c.todo THEN c.before[p] = None /\ part[p] = Built(h, p)
                            ELSE part[p] = c.before[p]

Going(h) ==
    /\ call[h].stage \in WriteStages => Opened(h) /\ (call[h].sound => Exact(h))
    /\ call[h].stage = "remove" => Rebuilding(h)
    /\ call[h].stage = "stream" => Streaming(h)

OInv == Typed /\ IInv /\ Live /\ \A h \in Procs : Inside(h) => Going(h)

(* No field file that a sound write has mapped has been removed since.     *)
NothingGone ==
    \A h \in Procs :
        call[h] # None /\ call[h].stage \in WriteStages /\ call[h].sound => maps[h].gone = {}
MapsInv == maps \in [Procs -> Maps] /\ NothingGone

----------------------------------------------------------------------------
(* Directories.                                                            *)

(* Every key belongs to a partition.                                       *)
LEMMA PartOfKey == \A k \in Keys : PartOf[k] \in Parts
BY TableWriteAssumption

(* The partitions of some keys.                                            *)
LEMMA PartsOfKeys ==
    ASSUME NEW K \in SUBSET Keys
    PROVE  /\ PartsOf(K) \subseteq Parts
           /\ \A k \in K : PartOf[k] \in PartsOf(K)
           /\ \A p : KeysIn(K, p) \subseteq K
BY PartOfKey DEF PartsOf, KeysIn

(* A record of an index, columns with a cell for each of its keys, and     *)
(* whether it can be read, is a directory.                                 *)
LEMMA DirectoryMade ==
    ASSUME NEW STATE K, K \in SUBSET Keys, NEW STATE C, C \in SUBSET Cols,
           NEW STATE f, f \in [C -> [K -> Values]], NEW b \in BOOLEAN
    PROVE  /\ Directory([keys |-> K, cols |-> f, ok |-> b])
           /\ [keys |-> K, cols |-> f, ok |-> b] # None
<1>1. f \in Matrices
  <2> DEFINE Columns == UNION {[L -> Values] : L \in SUBSET Keys}
  <2>1. \A x \in C : f[x] \in Columns
    OBVIOUS
  <2> HIDE DEF Columns
  <2>2. f \in [C -> Columns]
    BY <2>1
  <2>3. f \in UNION {[D -> Columns] : D \in SUBSET Cols}
    BY <2>2
  <2> QED BY <2>3 DEF Matrices, Columns
<1>2. [keys |-> K, cols |-> f, ok |-> b] \in [keys : SUBSET Keys, cols : Matrices, ok : BOOLEAN]
  BY <1>1
<1>3. DOMAIN f = C
  OBVIOUS
<1> QED BY <1>1, <1>2, <1>3, NoneAssumption DEF Directory

(* And every directory is such a record.                                   *)
LEMMA DirectoryHas ==
    ASSUME NEW STATE d, Directory(d), d # None
    PROVE  /\ d.keys \in SUBSET Keys /\ DOMAIN d.cols \in SUBSET Cols
           /\ d.cols \in [DOMAIN d.cols -> [d.keys -> Values]]
           /\ d.ok \in BOOLEAN
           /\ d = [keys |-> d.keys, cols |-> d.cols, ok |-> d.ok]
BY DEF Directory

(* The directory e is the directory d with the columns f.                  *)
Recolumned(d, f, e) == Directory(e) /\ e # None /\ e.keys = d.keys /\ e.cols = f

(* Other columns in the same directory.                                    *)
LEMMA ColsReplaced ==
    ASSUME NEW STATE d, Directory(d), d # None,
           NEW STATE C, C \in SUBSET Cols, NEW STATE f, f \in [C -> [d.keys -> Values]]
    PROVE  Recolumned(d, f, [d EXCEPT !.cols = f])
<1>1. d.keys \in SUBSET Keys /\ d.ok \in BOOLEAN
      /\ d = [keys |-> d.keys, cols |-> d.cols, ok |-> d.ok]
  BY DirectoryHas
<1>2. [d EXCEPT !.cols = f] = [keys |-> d.keys, cols |-> f, ok |-> d.ok]
  BY <1>1
<1> DEFINE e == [keys |-> d.keys, cols |-> f, ok |-> d.ok]
<1>3. Directory(e) /\ e # None
  BY <1>1, DirectoryMade, Zenon
<1>4. e.keys = d.keys /\ e.cols = f
  OBVIOUS
<1> DEFINE g == [d EXCEPT !.cols = f]
<1>5. g = e
  BY <1>2
<1> HIDE DEF e, g
<1>6. Recolumned(d, f, g)
  BY <1>3, <1>4, <1>5 DEF Recolumned
<1> QED BY <1>6 DEF g

(* The same directory, with a file that cannot be read.                    *)
LEMMA OkReplaced ==
    ASSUME NEW STATE d, Directory(d), d # None, NEW b \in BOOLEAN
    PROVE  /\ Directory([d EXCEPT !.ok = b]) /\ [d EXCEPT !.ok = b] # None
           /\ [d EXCEPT !.ok = b].keys = d.keys /\ [d EXCEPT !.ok = b].cols = d.cols
<1>1. /\ d.keys \in SUBSET Keys /\ DOMAIN d.cols \in SUBSET Cols
      /\ d.cols \in [DOMAIN d.cols -> [d.keys -> Values]]
      /\ d = [keys |-> d.keys, cols |-> d.cols, ok |-> d.ok]
  BY DirectoryHas
<1>2. [d EXCEPT !.ok = b] = [keys |-> d.keys, cols |-> d.cols, ok |-> b]
  BY <1>1
<1> DEFINE e == [keys |-> d.keys, cols |-> d.cols, ok |-> b]
<1>3. Directory(e) /\ e # None
  BY <1>1, DirectoryMade, Zenon
<1> QED BY <1>2, <1>3

(* Columns filled with one value.                                          *)
LEMMA FillIs ==
    ASSUME NEW C, NEW K, NEW v
    PROVE  /\ DOMAIN Fill(C, K, v) = C
           /\ \A x \in C, k \in K : Fill(C, K, v)[x][k] = v
           /\ v \in Values => Fill(C, K, v) \in [C -> [K -> Values]]
BY DEF Fill

(* The value of a cell in a directory, NULL if there is none.              *)
CellAt(d, k, x) == IF d # None /\ k \in d.keys /\ x \in DOMAIN d.cols THEN d.cols[x][k] ELSE Null

(* The cells of a table are those of its directories.                      *)
LEMMA CellIs == \A t, k, x : Cell(t, k, x) = CellAt(t[PartOf[k]], k, x)
BY DEF Cell, CellAt

(* One partition is replaced.                                              *)
LEMMA PartReplaced ==
    ASSUME Table(part), NEW p \in Parts, NEW STATE d, Directory(d), part' = [part EXCEPT ![p] = d]
    PROVE  /\ Table(part)' /\ part'[p] = d
           /\ \A q \in Parts \ {p} : part'[q] = part[q]
BY DEF Table

(* create_dataset_from_view: the caller's rows of the partition.           *)
LEMMA BuiltIs ==
    ASSUME NEW h \in Procs, Call(call[h]), NEW p \in Parts
    PROVE  /\ Directory(Built(h, p)) /\ Built(h, p) # None
           /\ Built(h, p).keys = KeysIn(call[h].keys, p)
           /\ DOMAIN Built(h, p).cols = call[h].cols
           /\ \A k \in Keys, x \in Cols : PartOf[k] = p =>
                CellAt(Built(h, p), k, x) = IF Named(h, k, x) THEN h ELSE Null
<1> DEFINE K == KeysIn(call[h].keys, p)
           C == call[h].cols
           f == Fill(C, K, h)
<1>1. K \in SUBSET Keys /\ C \in SUBSET Cols /\ h \in Values
  BY DEF Call, KeysIn, Values
<1>2. DOMAIN f = C /\ (\A x \in C, k \in K : f[x][k] = h) /\ f \in [C -> [K -> Values]]
  BY <1>1, FillIs
<1>3. Built(h, p) = [keys |-> K, cols |-> f, ok |-> TRUE]
  BY DEF Built
<1>4. \A k : PartOf[k] = p => (k \in K <=> k \in call[h].keys)
  BY DEF KeysIn
<1> HIDE DEF K, f
<1>5. Directory(Built(h, p)) /\ Built(h, p) # None
  BY <1>1, <1>2, <1>3, DirectoryMade
<1> QED BY <1>2, <1>3, <1>4, <1>5 DEF K, CellAt, Named

(* Some cells of a directory are overwritten.                              *)
LEMMA OverwrittenIs ==
    ASSUME NEW h \in Procs, NEW STATE d, Directory(d), d # None, NEW W
    PROVE  LET e == Overwritten(h, d, W)
           IN  /\ Directory(e) /\ e # None
               /\ e.keys = d.keys /\ DOMAIN e.cols = DOMAIN d.cols
               /\ \A k, x : CellAt(e, k, x) =
                    IF <<k, x>> \in W /\ k \in d.keys /\ x \in DOMAIN d.cols THEN h
                    ELSE CellAt(d, k, x)
<1> DEFINE f == [x \in DOMAIN d.cols |-> [k \in d.keys |->
                    IF <<k, x>> \in W THEN h ELSE d.cols[x][k]]]
<1>1. DOMAIN d.cols \in SUBSET Cols /\ d.cols \in [DOMAIN d.cols -> [d.keys -> Values]]
      /\ h \in Values
  BY DirectoryHas DEF Values
<1>2. f \in [DOMAIN d.cols -> [d.keys -> Values]]
  BY <1>1
<1>3. Overwritten(h, d, W) = [d EXCEPT !.cols = f]
  BY DEF Overwritten
<1>4. \A k, x : k \in d.keys /\ x \in DOMAIN d.cols =>
        f[x][k] = IF <<k, x>> \in W THEN h ELSE d.cols[x][k]
  OBVIOUS
<1>5. DOMAIN f = DOMAIN d.cols
  OBVIOUS
<1> HIDE DEF f
<1> DEFINE e == Overwritten(h, d, W)
<1>6. Directory(e) /\ e # None /\ e.keys = d.keys /\ e.cols = f
  <2> DEFINE g == [d EXCEPT !.cols = f]
  <2>1. Recolumned(d, f, g)
    BY <1>1, <1>2, ColsReplaced, Zenon
  <2> HIDE DEF g
  <2> QED BY <1>3, <2>1 DEF Recolumned, g
<1> HIDE DEF e
<1>7. \A k, x : CellAt(e, k, x) =
        IF <<k, x>> \in W /\ k \in d.keys /\ x \in DOMAIN d.cols THEN h ELSE CellAt(d, k, x)
  BY <1>4, <1>5, <1>6 DEF CellAt
<1>8. DOMAIN e.cols = DOMAIN d.cols
  BY <1>5, <1>6
<1> QED BY <1>6, <1>7, <1>8 DEF e

(* A directory has another column.                                         *)
LEMMA WithColumnIs ==
    ASSUME NEW STATE d, Directory(d), d # None,
           NEW c \in Cols, NEW STATE col, col \in [d.keys -> Values]
    PROVE  LET e == WithColumn(d, c, col)
           IN  /\ Directory(e) /\ e # None
               /\ e.keys = d.keys /\ DOMAIN e.cols = DOMAIN d.cols \cup {c}
               /\ \A k, x : CellAt(e, k, x) =
                    IF x # c THEN CellAt(d, k, x) ELSE IF k \in d.keys THEN col[k] ELSE Null
<1> DEFINE C == DOMAIN d.cols \cup {c}
           f == [x \in C |-> IF x = c THEN col ELSE d.cols[x]]
<1>1. DOMAIN d.cols \in SUBSET Cols /\ d.cols \in [DOMAIN d.cols -> [d.keys -> Values]]
  BY DirectoryHas
<1>2. f \in [C -> [d.keys -> Values]] /\ C \in SUBSET Cols
  BY <1>1
<1>3. WithColumn(d, c, col) = [d EXCEPT !.cols = f]
  BY DEF WithColumn
<1>4. \A x \in C : f[x] = IF x = c THEN col ELSE d.cols[x]
  OBVIOUS
<1>5. DOMAIN f = C
  OBVIOUS
<1> HIDE DEF f
<1> DEFINE e == WithColumn(d, c, col)
<1>6. Directory(e) /\ e # None /\ e.keys = d.keys /\ e.cols = f
  <2> DEFINE g == [d EXCEPT !.cols = f]
  <2>1. Recolumned(d, f, g)
    BY <1>2, ColsReplaced, Zenon
  <2> HIDE DEF g
  <2> QED BY <1>3, <2>1 DEF Recolumned, g
<1> HIDE DEF e
<1>7. \A k, x : CellAt(e, k, x) =
        IF x # c THEN CellAt(d, k, x) ELSE IF k \in d.keys THEN col[k] ELSE Null
  BY <1>4, <1>5, <1>6 DEF CellAt
<1>8. DOMAIN e.cols = DOMAIN d.cols \cup {c}
  BY <1>5, <1>6
<1> QED BY <1>6, <1>7, <1>8 DEF e

(* A directory has lost a column.                                          *)
LEMMA WithoutColumnIs ==
    ASSUME NEW STATE d, Directory(d), d # None, NEW c
    PROVE  LET e == WithoutColumn(d, c)
           IN  Directory(e) /\ e # None /\ e.keys = d.keys
<1> DEFINE C == DOMAIN d.cols \ {c}
           f == [x \in C |-> d.cols[x]]
<1>1. DOMAIN d.cols \in SUBSET Cols /\ d.cols \in [DOMAIN d.cols -> [d.keys -> Values]]
  BY DirectoryHas
<1>2. f \in [C -> [d.keys -> Values]] /\ C \in SUBSET Cols
  BY <1>1
<1>3. WithoutColumn(d, c) = [d EXCEPT !.cols = f]
  BY DEF WithoutColumn
<1> HIDE DEF f
<1> DEFINE g == [d EXCEPT !.cols = f]
<1>4. Recolumned(d, f, g)
  BY <1>2, ColsReplaced, Zenon
<1>5. WithoutColumn(d, c) = g
  BY <1>3
<1> HIDE DEF g
<1> QED BY <1>4, <1>5 DEF Recolumned

(* What rows written through a dataset that is gone leave.                 *)
LEMMA StrayedIs ==
    ASSUME NEW p \in Parts, Table(part), NEW C, NEW d \in Strayed(p, C)
    PROVE  /\ Directory(d)
           /\ part[p] = None => d = None
           /\ part[p] # None => d # None /\ d.keys = part[p].keys
<1>1. CASE part[p] = None
  BY <1>1 DEF Strayed, Directory
<1>2. CASE part[p] # None
  <2>1. PICK o : o = part[p]
    OBVIOUS
  <2>2. PICK D \in SUBSET C : d = [o EXCEPT !.cols = [c \in DOMAIN o.cols |->
               IF c \in D THEN [k \in o.keys |-> Junk] ELSE o.cols[c]]]
    BY <1>2, <2>1 DEF Strayed
  <2> DEFINE f == [c \in DOMAIN o.cols |-> IF c \in D THEN [k \in o.keys |-> Junk] ELSE o.cols[c]]
             g == [o EXCEPT !.cols = f]
  <2>3. Directory(o) /\ o # None
    BY <1>2, <2>1 DEF Table
  <2>4. /\ DOMAIN o.cols \in SUBSET Cols /\ Junk \in Values
        /\ o.cols \in [DOMAIN o.cols -> [o.keys -> Values]]
    BY <2>3, DirectoryHas DEF Values
  <2>5. f \in [DOMAIN o.cols -> [o.keys -> Values]]
    BY <2>4
  <2>6. d = g
    BY <2>2
  <2> HIDE DEF f
  <2>7. Recolumned(o, f, g)
    BY <2>3, <2>4, <2>5, ColsReplaced, Zenon
  <2> HIDE DEF g
  <2> QED BY <1>2, <2>1, <2>6, <2>7 DEF Recolumned
<1> QED BY <1>1, <1>2

(* What is known of a dataset once it is opened.                           *)
LEMMA EntryIs ==
    ASSUME NEW STATE d, Directory(d), d # None
    PROVE  /\ EntryOf(d) \in Entry /\ EntryOf(d) # None
           /\ EntryOf(d).keys = d.keys /\ EntryOf(d).cols = DOMAIN d.cols /\ EntryOf(d).live
<1>1. d.keys \in SUBSET Keys /\ DOMAIN d.cols \in SUBSET Cols
  BY DirectoryHas
<1>2. EntryOf(d) \in Entry
  BY <1>1 DEF EntryOf, Entry
<1> QED BY <1>2, NoneAssumption DEF EntryOf

(* ensure_dataset opens what is not open and leaves what is.               *)
LEMMA EnsuredIs ==
    ASSUME Typed, NEW h \in Procs, cache[h] # None, NEW STATE P,
           \A p \in P : p \in Parts => Openable(h, p)
    PROVE  /\ Ensured(h, P) \in Entries /\ Ensured(h, P) # None
           /\ \A p \in Parts :
                /\ cache[h][p] # None => Ensured(h, P)[p] = cache[h][p]
                /\ p \notin P => Ensured(h, P)[p] = cache[h][p]
                /\ p \in P => Ensured(h, P)[p] # None
                /\ p \in P /\ cache[h][p] = None =>
                      part[p] # None /\ Ensured(h, P)[p] = EntryOf(part[p])
<1> DEFINE e == Ensured(h, P)
<1>1. \A p \in Parts : e[p] = IF p \in P /\ cache[h][p] = None THEN EntryOf(part[p]) ELSE cache[h][p]
  BY DEF Ensured
<1>2. e = [p \in Parts |-> e[p]]
  BY DEF Ensured
<1> HIDE DEF e
<1>3. cache[h] \in Entries
  BY DEF Typed
<1>4. ASSUME NEW p \in Parts, p \in P, cache[h][p] = None
      PROVE  part[p] # None /\ EntryOf(part[p]) \in Entry /\ EntryOf(part[p]) # None
  <2>1. part[p] # None
    BY <1>4 DEF Openable
  <2>2. Directory(part[p])
    BY DEF Typed, Table
  <2> QED BY <2>1, <2>2, EntryIs
<1>5. \A p \in Parts : e[p] \in Entry \cup {None}
  BY <1>1, <1>3, <1>4 DEF Entries
<1>6. e \in Entries
  BY <1>2, <1>5 DEF Entries
<1>7. e # None
  BY <1>6, NoneAssumption
<1> QED BY <1>1, <1>4, <1>6, <1>7 DEF e

----------------------------------------------------------------------------
(* What a step of a call does.                                             *)

Caches == [Procs -> Entries \cup {None}]

(* It spares what the caller did not name.                                 *)
Spares(h) ==
    /\ call[h].sound /\ call[h].stage \in WriteStages =>
         \A k \in Keys, x \in Cols : ~Named(h, k, x) => Cell(part', k, x) = Cell(part, k, x)
    /\ call[h].stage \in {"remove", "stream"} =>
         \A p \in Parts \ PartsOf(call[h].keys) : part'[p] = part[p]

Does(h) ==
    /\ Typed' /\ Live' /\ (Inside(h)' => Going(h)')
    /\ \A g \in Procs \ {h} : call'[g] = call[g]
    /\ Spares(h)

(* One call changes and has the type of a call.                            *)
LEMMA CallNext ==
    ASSUME Typed, NEW h \in Procs, NEW STATE c, call' = [call EXCEPT ![h] = c],
           c = None \/ Call(c)
    PROVE  /\ DOMAIN call' = Procs /\ \A g \in Procs : call'[g] # None => Call(call'[g])
           /\ call'[h] = c
           /\ \A g \in Procs \ {h} : call'[g] = call[g]
BY DEF Typed

(* A call ends.                                                            *)
LEMMA EndDoes ==
    ASSUME OInv, NEW h \in Procs, End(h), calls' = calls,
           Table(part)', (cache \in Caches)', Live', Spares(h)
    PROVE  Does(h)
<1>1. call' = [call EXCEPT ![h] = None] /\ lock' = None
  BY DEF End
<1>2. /\ DOMAIN call' = Procs /\ \A g \in Procs : call'[g] # None => Call(call'[g])
      /\ call'[h] = None /\ \A g \in Procs \ {h} : call'[g] = call[g]
  BY <1>1, CallNext DEF OInv
<1>3. Typed'
  BY <1>1, <1>2 DEF Typed, Caches, OInv
<1> QED BY <1>2, <1>3 DEF Does, Inside

(* A step that leaves the directory alone spares all of it.                *)
LEMMA PartSpared ==
    ASSUME NEW h \in Procs, part' = part
    PROVE  Spares(h)
BY DEF Spares, Cell

(* A call fails, or returns: the table stays.                              *)
LEMMA FailsDoes ==
    ASSUME OInv, NEW h \in Procs, Fails(h)
    PROVE  Does(h)
<1>1. part' = part /\ cache' = cache /\ calls' = calls /\ End(h)
  BY DEF Fails
<1>2. Table(part)' /\ (cache \in Caches)' /\ Live'
  BY <1>1 DEF OInv, Typed, Caches, Live, Table
<1> QED BY <1>1, <1>2, EndDoes, PartSpared

(* The call goes on with the same rows.                                    *)
Same(h) ==
    /\ call'[h].keys = call[h].keys /\ call'[h].cols = call[h].cols
    /\ call'[h].before = call[h].before /\ call'[h].sound = call[h].sound
Works(h) == call' = [call EXCEPT ![h] = call'[h]] /\ Call(call'[h]) /\ Same(h)

(* A call that has kept its rows and its lock has done what it should if   *)
(* it has reached what it says.                                            *)
LEMMA WorkDoes ==
    ASSUME OInv, NEW h \in Procs, lock' = lock, calls' = calls,
           Table(part)', (cache \in Caches)', Live', Spares(h), Works(h), Going(h)'
    PROVE  Does(h)
<1>1. /\ DOMAIN call' = Procs /\ \A g \in Procs : call'[g] # None => Call(call'[g])
      /\ \A g \in Procs \ {h} : call'[g] = call[g]
  BY DEF OInv, Typed, Works
<1>2. Typed'
  BY <1>1 DEF Typed, Caches, OInv
<1> QED BY <1>1, <1>2 DEF Does

SparesCells(h) ==
    \A k \in Keys, x \in Cols : ~Named(h, k, x) => Cell(part', k, x) = Cell(part, k, x)

(* What the caller did not name is still as it was.                        *)
LEMMA OthersStay ==
    ASSUME NEW h \in Procs, Same(h), SparesCells(h), OthersAsBefore(h)
    PROVE  OthersAsBefore(h)'
BY DEF Same, SparesCells, OthersAsBefore, Named

(* With table and cache as they were, so is what is known of them.         *)
LEMMA QuietState ==
    ASSUME OInv, part' = part, cache' = cache
    PROVE  /\ Table(part)' /\ (cache \in Caches)' /\ Live'
           /\ \A h \in Procs : (Agrees(h) => Agrees(h)') /\ (Alive(h) => Alive(h)')
BY DEF OInv, Typed, Caches, Live, Table, Agrees, Alive

(* And no cell has changed.                                                *)
LEMMA QuietCells ==
    ASSUME part' = part, NEW h \in Procs
    PROVE  SparesCells(h)
BY DEF SparesCells, Cell

(* What is known of a call that is under way.                              *)
LEMMA Here ==
    ASSUME OInv, NEW h \in Procs, NEW stage, InStage(h, stage)
    PROVE  /\ call[h] # None /\ call[h].stage = stage /\ Call(call[h])
           /\ stage # "new" => Inside(h) /\ Going(h) /\ lock = h
           /\ stage \in WriteStages => Opened(h) /\ (call[h].sound => Exact(h))
           /\ call[h].keys \in SUBSET Keys /\ call[h].cols \in SUBSET Cols
           /\ PartsOf(call[h].keys) \subseteq Parts
           /\ cache[h] \in Entries \cup {None}
BY PartsOfKeys DEF InStage, Inside, OInv, Typed, Call, Going, IInv, LockHeld, WriteStages

(* The call of h becomes c, with the rows it had.                          *)
LEMMA CallWorks ==
    ASSUME OInv, NEW h \in Procs, NEW STATE c, call' = [call EXCEPT ![h] = c], Call(c),
           c.keys = call[h].keys, c.cols = call[h].cols, c.before = call[h].before,
           c.sound = call[h].sound
    PROVE  Works(h) /\ call'[h] = c
<1>1. call'[h] = c
  BY DEF OInv, Typed
<1> QED BY <1>1 DEF Works, Same

(* Stage and work change, nothing else.                                    *)
LEMMA CallGoes ==
    ASSUME OInv, NEW h \in Procs, call[h] # None,
           NEW STATE s, s \in Stages, NEW STATE P, P \in SUBSET Parts, Goes(h, s, P)
    PROVE  /\ Works(h) /\ Same(h) /\ call'[h].stage = s /\ call'[h].todo = P
           /\ call'[h].fields = call[h].fields /\ call'[h].failed = call[h].failed
<1> DEFINE c == [call[h] EXCEPT !.stage = s, !.todo = P]
<1>1. Call(call[h])
  BY DEF OInv, Typed
<1>2. Call(c) /\ c.stage = s /\ c.todo = P /\ c.keys = call[h].keys /\ c.cols = call[h].cols
      /\ c.before = call[h].before /\ c.sound = call[h].sound
      /\ c.fields = call[h].fields /\ c.failed = call[h].failed
  BY <1>1 DEF Call
<1>3. call' = [call EXCEPT ![h] = c]
  BY DEF Goes
<1> HIDE DEF c
<1>4. Works(h) /\ call'[h] = c
  BY <1>2, <1>3, CallWorks
<1> QED BY <1>2, <1>4 DEF Works

(* The work to do changes, nothing else.                                   *)
LEMMA CallTodo ==
    ASSUME OInv, NEW h \in Procs, call[h] # None, NEW STATE P, P \in SUBSET Parts,
           call' = [call EXCEPT ![h].todo = P]
    PROVE  /\ Works(h) /\ call'[h].stage = call[h].stage /\ call'[h].todo = P
           /\ call'[h].fields = call[h].fields /\ call'[h].failed = call[h].failed
<1> DEFINE c == [call[h] EXCEPT !.todo = P]
<1>1. Call(call[h])
  BY DEF OInv, Typed
<1>2. Call(c) /\ c.stage = call[h].stage /\ c.todo = P /\ c.keys = call[h].keys
      /\ c.cols = call[h].cols /\ c.before = call[h].before /\ c.sound = call[h].sound
      /\ c.fields = call[h].fields /\ c.failed = call[h].failed
  BY <1>1 DEF Call
<1>3. call' = [call EXCEPT ![h] = c]
  OBVIOUS
<1> HIDE DEF c
<1> QED BY <1>2, <1>3, CallWorks

(* scan_partition_runs lists the partitions that are missing.              *)
LEMMA ScanDoes ==
    ASSUME OInv, NEW h \in Procs, Scan(h)
    PROVE  Does(h)
<1>1. InStage(h, "scan")
  BY DEF Scan
<1>2. CASE Fails(h)
  BY <1>2, FailsDoes
<1>3. CASE ~Fails(h)
  <2> DEFINE P == PartsOf(call[h].keys) \ Existing
  <2>1. /\ Goes(h, "create", P)
        /\ part' = part /\ cache' = cache /\ lock' = lock /\ calls' = calls
    BY <1>3 DEF Scan
  <2>2. P \in SUBSET Parts /\ P \subseteq PartsOf(call[h].keys) /\ "create" \in Stages
        /\ \A p \in Parts : p \in P <=> p \in PartsOf(call[h].keys) /\ part[p] = None
    BY <1>1, Here DEF Stages, Existing
  <2> HIDE DEF P
  <2>3. call[h] # None
    BY <1>1, Here
  <2>4. Works(h) /\ Same(h) /\ call'[h].stage = "create" /\ call'[h].todo = P
    BY <2>1, <2>2, <2>3, CallGoes
  <2>5. Opened(h)'
    <3>1. cache[h] # None
      BY <1>1, Here DEF Opened, WriteStages
    <3> QED BY <2>1, <2>2, <2>4, <3>1 DEF Opened, Same
  <2>6. ASSUME call[h].sound PROVE Exact(h)'
    <3>1. Exact(h)
      BY <1>1, <2>6, Here DEF WriteStages
    <3>2. Cached(h)' /\ OthersAsBefore(h)'
      <4>1. Agrees(h)
        BY <1>1, <3>1, Here DEF Exact, Cached, Early
      <4>2. Agrees(h)' /\ Alive(h)'
        BY <2>1, <3>1, <4>1, QuietState DEF Exact, Cached
      <4>3. OthersAsBefore(h)'
        BY <2>1, <2>4, <3>1, QuietCells, OthersStay DEF Exact
      <4> QED BY <4>2, <4>3 DEF Cached
    <3>3. Columned(h)' /\ Written(h)'
      BY <2>4 DEF Columned, Written
    <3>4. Shaped(h)'
      BY <2>1, <2>2, <2>4, <3>1 DEF Exact, Shaped, Same
    <3> QED BY <3>2, <3>3, <3>4 DEF Exact
  <2>7. Going(h)'
    BY <2>4, <2>5, <2>6 DEF Going, Same
  <2> QED BY <2>1, <2>4, <2>7, QuietState, PartSpared, WorkDoes
<1> QED BY <1>2, <1>3

(* locate_partition_plan goes on to its second part.                       *)
LEMMA StartLocatingDoes ==
    ASSUME OInv, NEW h \in Procs, StartLocating(h)
    PROVE  Does(h)
<1>1. InStage(h, "create") /\ call[h].todo = {}
  BY DEF StartLocating
<1> DEFINE P == PartsOf(call[h].keys)
<1>2. /\ Goes(h, "locate", P)
      /\ part' = part /\ cache' = cache /\ lock' = lock /\ calls' = calls
  BY DEF StartLocating
<1>3. P \in SUBSET Parts /\ "locate" \in Stages /\ call[h] # None /\ call[h].stage = "create"
  BY <1>1, Here DEF Stages
<1>4. P = PartsOf(call[h].keys)
  OBVIOUS
<1> HIDE DEF P
<1>5. Works(h) /\ Same(h) /\ call'[h].stage = "locate" /\ call'[h].todo = P
  BY <1>2, <1>3, CallGoes
<1>6. Opened(h)'
  <2>1. cache[h] # None
    BY <1>1, Here DEF Opened, WriteStages
  <2> QED BY <1>4, <1>2, <1>5, <2>1 DEF Opened, Same
<1>7. ASSUME call[h].sound PROVE Exact(h)'
  <2>1. Exact(h)
    BY <1>1, <1>7, Here DEF WriteStages
  <2>2. Cached(h)' /\ OthersAsBefore(h)'
    <3>1. Agrees(h)
      BY <1>3, <2>1 DEF Exact, Cached, Early
    <3>2. Agrees(h)' /\ Alive(h)'
      BY <1>2, <2>1, <3>1, QuietState DEF Exact, Cached
    <3>3. OthersAsBefore(h)'
      BY <1>2, <1>5, <2>1, QuietCells, OthersStay DEF Exact
    <3> QED BY <3>2, <3>3 DEF Cached
  <2>3. Columned(h)' /\ Written(h)'
    BY <1>5 DEF Columned, Written
  <2>4. Shaped(h)'
    BY <1>1, <1>2, <1>3, <1>5, <2>1 DEF Exact, Shaped, Same
  <2> QED BY <2>2, <2>3, <2>4 DEF Exact
<1>8. Going(h)'
  BY <1>5, <1>6, <1>7 DEF Going, Same
<1> QED BY <1>2, <1>5, <1>8, QuietState, PartSpared, WorkDoes

(* The least of a set of partitions is one of them.                        *)
Less == {ss \in Nat \X Nat : ss[1] < ss[2]}

(* The order of the numbers is well-founded.                               *)
LEMMA LessIsWellFounded == IsWellFoundedOn(Less, Nat)
<1>1. OpToRel(<, Nat) = Less
  BY DEF OpToRel, Less
<1> QED BY <1>1, NatLessThanWellFounded, Zenon

(* So a set of partitions that is not empty has a least one.               *)
LEMMA LeastIs ==
    ASSUME NEW S \in SUBSET Parts, S # {}
    PROVE  Least(S) \in S
<1>1. S \subseteq Nat
  BY TableWriteAssumption
<1>2. PICK x \in S : \A y \in S : ~(<<y, x>> \in Less)
  BY <1>1, LessIsWellFounded, WFMin
<1>3. \A y \in S : x <= y
  <2>1. ASSUME NEW y \in S, ~(x <= y) PROVE <<y, x>> \in Less
    BY <1>1, <2>1 DEF Less
  <2> QED BY <1>2, <2>1
<1> QED BY <1>3 DEF Least

(* Datasets are opened, nothing else changes but the call.                 *)
LEMMA OpenedState ==
    ASSUME OInv, NEW h \in Procs, cache[h] # None, NEW STATE P, P \in SUBSET Parts,
           \A p \in P : Openable(h, p),
           part' = part, cache' = [cache EXCEPT ![h] = Ensured(h, P)]
    PROVE  /\ Table(part)' /\ (cache \in Caches)' /\ Live'
           /\ cache'[h] # None
           /\ \A p \in Parts : cache[h][p] # None => cache'[h][p] = cache[h][p]
           /\ \A p \in P : cache'[h][p] # None
           /\ Agrees(h) => Agrees(h)'
<1> DEFINE e == Ensured(h, P)
<1>1. /\ e \in Entries /\ e # None
      /\ \A p \in Parts :
           /\ cache[h][p] # None => e[p] = cache[h][p]
           /\ p \notin P => e[p] = cache[h][p]
           /\ p \in P => e[p] # None
           /\ p \in P /\ cache[h][p] = None => part[p] # None /\ e[p] = EntryOf(part[p])
  BY EnsuredIs DEF OInv
<1>2. cache' = [cache EXCEPT ![h] = e]
  OBVIOUS
<1> HIDE DEF e
<1>3. cache'[h] = e /\ \A g \in Procs \ {h} : cache'[g] = cache[g]
  BY <1>2 DEF OInv, Typed
<1>4. Table(part)' /\ (cache \in Caches)'
  BY <1>1, <1>2 DEF OInv, Typed, Caches, Table
<1>5. \A p \in Parts : e[p] = cache[h][p]
                       \/ (part[p] # None /\ e[p] = EntryOf(part[p]))
  BY <1>1
<1>6. \A p \in Parts : part[p] # None => EntryOf(part[p]).keys = part[p].keys /\ EntryOf(part[p]).live
  BY EntryIs DEF OInv, Typed, Table
<1>7. Live'
  <2> SUFFICES ASSUME NEW g \in Procs, NEW p \in Parts,
                      cache'[g] # None, cache'[g][p] # None, cache'[g][p].live
               PROVE  part[p] # None /\ cache'[g][p].keys = part[p].keys
    BY DEF Live
  <2>1. CASE g # h
    BY <1>3, <2>1 DEF OInv, Live
  <2>2. CASE g = h
    BY <1>3, <1>5, <1>6, <2>2 DEF OInv, Live
  <2> QED BY <2>1, <2>2
<1>8. Agrees(h) => Agrees(h)'
  BY <1>3, <1>5, <1>6 DEF Agrees
<1> QED BY <1>1, <1>3, <1>4, <1>7, <1>8

(* locate_partition_plan opens a partition and finds its keys.             *)
LEMMA LocateDoes ==
    ASSUME OInv, NEW h \in Procs, Locate(h)
    PROVE  Does(h)
<1>1. InStage(h, "locate") /\ call[h].todo # {}
  BY DEF Locate
<1>2. CASE Fails(h)
  BY <1>2, FailsDoes
<1>3. CASE ~Fails(h)
  <2>1. PICK p : p = Least(call[h].todo)
    OBVIOUS
  <2>2. /\ call[h] # None /\ call[h].stage = "locate" /\ call[h].todo \in SUBSET Parts
        /\ Opened(h) /\ (call[h].sound => Exact(h)) /\ cache[h] # None
    BY <1>1, Here DEF Call, WriteStages, Opened
  <2>3. PICK T \in SUBSET Parts : T = call[h].todo
    BY <2>2
  <2>4. p \in T /\ p \in Parts
    BY <1>1, <2>1, <2>3, LeastIs
  <2> DEFINE P == T \ {p}
  <2>5. /\ Openable(h, p) /\ KeysIn(call[h].keys, p) \subseteq Ensured(h, {p})[p].keys
        /\ cache' = [cache EXCEPT ![h] = Ensured(h, {p})]
        /\ call' = [call EXCEPT ![h].todo = P]
        /\ part' = part /\ lock' = lock /\ calls' = calls
    BY <1>3, <2>1, <2>3 DEF Locate
  <2>6. P \in SUBSET Parts /\ P = T \ {p}
    BY <2>4
  <2> HIDE DEF P
  <2>7. Works(h) /\ Same(h) /\ call'[h].stage = "locate" /\ call'[h].todo = P
    BY <2>2, <2>5, <2>6, CallTodo DEF Works
  <2> DEFINE S == {p}
  <2>8. /\ S \in SUBSET Parts /\ \A q \in S : Openable(h, q)
        /\ cache' = [cache EXCEPT ![h] = Ensured(h, S)] /\ cache[h] # None /\ part' = part
    BY <2>2, <2>4, <2>5
  <2> HIDE DEF S
  <2>9. /\ Table(part)' /\ (cache \in Caches)' /\ Live'
        /\ cache'[h] # None
        /\ \A q \in Parts : cache[h][q] # None => cache'[h][q] = cache[h][q]
        /\ \A q \in S : cache'[h][q] # None
        /\ Agrees(h) => Agrees(h)'
    BY <2>8, OpenedState
  <2>10. /\ Table(part)' /\ (cache \in Caches)' /\ Live'
         /\ cache'[h] # None
         /\ \A q \in Parts : cache[h][q] # None => cache'[h][q] = cache[h][q]
         /\ cache'[h][p] # None
         /\ Agrees(h) => Agrees(h)'
    BY <2>9 DEF S
  <2>11. cache'[h] = Ensured(h, {p})
    BY <2>5 DEF OInv, Typed
  <2>12. Opened(h)'
    <3>1. \A q \in PartsOf(call[h].keys) : q \in Parts
      BY <1>1, Here
    <3>2. ASSUME NEW q \in PartsOf(call[h].keys) \ P
          PROVE  cache'[h][q] # None /\ KeysIn(call[h].keys, q) \subseteq cache'[h][q].keys
      <4>1. CASE q = p
        BY <2>5, <2>10, <2>11, <4>1
      <4>2. CASE q # p
        BY <2>2, <2>3, <2>6, <2>10, <3>1, <4>2 DEF Opened, Found
      <4> QED BY <4>1, <4>2
    <3>3. P \subseteq PartsOf(call[h].keys)
      BY <2>2, <2>3, <2>6 DEF Opened
    <3> QED BY <2>7, <2>10, <3>2, <3>3 DEF Opened, Found, Same
  <2>13. ASSUME call[h].sound PROVE Exact(h)'
    <3>1. Cached(h)' /\ OthersAsBefore(h)'
      <4>1. Agrees(h)
        BY <2>2, <2>13 DEF Exact, Cached, Early
      <4>2. Cached(h)'
        BY <2>10, <4>1 DEF Cached, Alive, Agrees
      <4> QED BY <2>2, <2>5, <2>7, <2>13, <4>2, QuietCells, OthersStay DEF Exact
    <3>2. Columned(h)' /\ Written(h)'
      BY <2>7 DEF Columned, Written
    <3>3. Shaped(h)'
      BY <2>2, <2>5, <2>7, <2>13 DEF Exact, Shaped, Same
    <3> QED BY <3>1, <3>2, <3>3 DEF Exact
  <2>14. Going(h)'
    BY <2>7, <2>12, <2>13 DEF Going, Same
  <2> QED BY <2>5, <2>7, <2>10, <2>14, PartSpared, WorkDoes
<1> QED BY <1>2, <1>3

(* ensure_missing_columns opens every partition and lists what it lacks.   *)
LEMMA PlanColumnsDoes ==
    ASSUME OInv, NEW h \in Procs, PlanColumns(h)
    PROVE  Does(h)
<1>1. InStage(h, "locate") /\ call[h].todo = {}
  BY DEF PlanColumns
<1>2. CASE Fails(h)
  BY <1>2, FailsDoes
<1>3. CASE ~Fails(h)
  <2>1. /\ call[h] # None /\ call[h].stage = "locate" /\ Call(call[h])
        /\ Opened(h) /\ (call[h].sound => Exact(h)) /\ cache[h] # None
        /\ call[h].cols \subseteq Cols
    BY <1>1, Here DEF WriteStages, Opened
  <2> DEFINE F == Lacking(h)
             c == [call[h] EXCEPT !.stage = "columns", !.fields = F]
  <2>2. /\ \A p \in Existing : Openable(h, p)
        /\ cache' = [cache EXCEPT ![h] = Ensured(h, Existing)]
        /\ call' = [call EXCEPT ![h] = c]
        /\ part' = part /\ lock' = lock /\ calls' = calls
    BY <1>3 DEF PlanColumns
  <2>3. Existing \in SUBSET Parts
    BY DEF Existing
  <2>4. F \in SUBSET (Parts \X Cols) /\ \A f \in F : part[f[1]] # None
    BY <2>1, <2>3 DEF Lacking, Existing
  <2>5. /\ Table(part)' /\ (cache \in Caches)' /\ Live'
        /\ cache'[h] # None
        /\ \A q \in Parts : cache[h][q] # None => cache'[h][q] = cache[h][q]
        /\ \A q \in Existing : cache'[h][q] # None
        /\ Agrees(h) => Agrees(h)'
    BY <2>1, <2>2, <2>3, OpenedState
  <2>6. cache'[h] = Ensured(h, Existing)
    BY <2>2 DEF OInv, Typed
  <2>7. F = {f \in Existing \X call[h].cols : f[2] \notin cache'[h][f[1]].cols}
    BY <2>6 DEF Lacking
  <2> HIDE DEF F
  <2>8. /\ Call(c) /\ c.stage = "columns" /\ c.fields = F /\ c.todo = {}
        /\ c.keys = call[h].keys /\ c.cols = call[h].cols
        /\ c.before = call[h].before /\ c.sound = call[h].sound
    BY <1>1, <2>1, <2>4 DEF Call, Stages, Fields
  <2> HIDE DEF c
  <2>9. Works(h) /\ Same(h) /\ call'[h] = c
    BY <2>2, <2>8, CallWorks DEF Works
  <2>10. Opened(h)'
    <3>1. ASSUME NEW q \in PartsOf(call[h].keys)
          PROVE  cache'[h][q] # None /\ KeysIn(call[h].keys, q) \subseteq cache'[h][q].keys
      BY <1>1, <2>1, <2>5, Here DEF Opened, Found
    <3>2. \A f \in F : f[1] \in Existing
      BY <2>7
    <3> QED BY <2>2, <2>4, <2>5, <2>8, <2>9, <3>1, <3>2 DEF Opened, Found
  <2>11. ASSUME call[h].sound PROVE Exact(h)'
    <3>1. Agrees(h)' /\ Cached(h)' /\ OthersAsBefore(h)'
      <4>1. Agrees(h)
        BY <2>1, <2>11 DEF Exact, Cached, Early
      <4>2. Agrees(h)' /\ Cached(h)'
        BY <2>5, <4>1 DEF Cached, Alive, Agrees
      <4> QED BY <2>1, <2>2, <2>9, <2>11, <4>2, QuietCells, OthersStay DEF Exact
    <3>2. Columned(h)'
      <4>1. \A p \in Existing : cache'[h][p].cols = DOMAIN part[p].cols
        <5>1. \A p \in Existing : p \in Parts /\ part[p] # None /\ Directory(part[p])
          BY DEF Existing, OInv, Typed, Table
        <5> QED BY <2>2, <2>5, <3>1, <5>1, EntryIs DEF Agrees
      <4>2. Existing' = Existing
        BY <2>2 DEF Existing
      <4>3. \A f \in F : f[2] \in call[h].cols /\ f[2] \notin DOMAIN part[f[1]].cols
        BY <2>7, <4>1
      <4>4. \A p \in Existing, x \in call[h].cols : x \in DOMAIN part[p].cols \/ <<p, x>> \in F
        BY <2>7, <4>1
      <4> QED BY <2>2, <2>8, <2>9, <4>2, <4>3, <4>4 DEF Columned
    <3>3. Written(h)'
      BY <2>8, <2>9 DEF Written
    <3>4. Shaped(h)'
      BY <1>1, <2>1, <2>2, <2>8, <2>9, <2>11 DEF Exact, Shaped
    <3> QED BY <3>1, <3>2, <3>3, <3>4 DEF Exact
  <2>12. Going(h)'
    BY <2>8, <2>9, <2>10, <2>11 DEF Going
  <2> QED BY <2>2, <2>5, <2>9, <2>12, PartSpared, WorkDoes
<1> QED BY <1>2, <1>3

(* One partition changes, and in it only cells the caller named.           *)
LEMMA SparesOne ==
    ASSUME NEW h \in Procs, NEW p \in Parts,
           \A q \in Parts \ {p} : part'[q] = part[q],
           \A k \in Keys, x \in Cols : PartOf[k] = p /\ ~Named(h, k, x) =>
               CellAt(part'[p], k, x) = CellAt(part[p], k, x)
    PROVE  SparesCells(h)
<1> SUFFICES ASSUME NEW k \in Keys, NEW x \in Cols, ~Named(h, k, x)
             PROVE  Cell(part', k, x) = Cell(part, k, x)
  BY DEF SparesCells
<1>1. PartOf[k] \in Parts
  BY PartOfKey
<1>2. CellAt(part'[PartOf[k]], k, x) = CellAt(part[PartOf[k]], k, x)
  BY <1>1
<1> QED BY <1>2 DEF Cell, CellAt

(* A step of a write that spares the cells spares all it has to.           *)
LEMMA WriteSpares ==
    ASSUME NEW h \in Procs, call[h].stage \in WriteStages, call[h].sound => SparesCells(h)
    PROVE  Spares(h)
BY DEF Spares, SparesCells, WriteStages

(* The index of the partition that changes stays, or it had none.          *)
LEMMA LiveOne ==
    ASSUME OInv, NEW p \in Parts, cache' = cache,
           \A q \in Parts \ {p} : part'[q] = part[q],
           part[p] # None => part'[p] # None /\ part'[p].keys = part[p].keys
    PROVE  Live'
BY DEF OInv, Live

(* locate_partition_plan creates a partition that is missing and opens it. *)
LEMMA CreatePartitionDoes ==
    ASSUME OInv, NEW h \in Procs, CreatePartition(h)
    PROVE  Does(h)
<1>1. InStage(h, "create")
  BY DEF CreatePartition
<1>2. CASE Fails(h)
  BY <1>2, FailsDoes
<1>3. CASE ~Fails(h)
  <2>1. /\ call[h] # None /\ call[h].stage = "create" /\ Call(call[h])
        /\ Opened(h) /\ (call[h].sound => Exact(h)) /\ cache[h] # None /\ cache[h] \in Entries
        /\ call[h].todo \in SUBSET Parts /\ lock = h
    BY <1>1, Here DEF WriteStages, Opened, Call
  <2>2. PICK p \in call[h].todo :
          /\ part' = [part EXCEPT ![p] = Built(h, p)]
          /\ call' = [call EXCEPT ![h].todo = @ \ {p}]
          /\ cache' = [cache EXCEPT ![h][p] = IF @ = None THEN EntryOf(Built(h, p)) ELSE @]
          /\ lock' = lock /\ calls' = calls
    BY <1>3 DEF CreatePartition
  <2>3. p \in Parts /\ part[p] = None /\ p \in PartsOf(call[h].keys)
    BY <2>1 DEF Opened
  <2>4. /\ Directory(Built(h, p)) /\ Built(h, p) # None
        /\ Built(h, p).keys = KeysIn(call[h].keys, p)
        /\ DOMAIN Built(h, p).cols = call[h].cols
        /\ \A k \in Keys, x \in Cols : PartOf[k] = p =>
             CellAt(Built(h, p), k, x) = IF Named(h, k, x) THEN h ELSE Null
    BY <2>1, <2>3, BuiltIs
  <2> DEFINE d == Built(h, p)
             P == call[h].todo \ {p}
             e == [cache[h] EXCEPT ![p] = IF @ = None THEN EntryOf(d) ELSE @]
  <2>5. P \in SUBSET Parts /\ call' = [call EXCEPT ![h].todo = P]
    BY <2>1, <2>2
  <2>6. P = call[h].todo \ {p}
    OBVIOUS
  <2> HIDE DEF P
  <2>7. Works(h) /\ call'[h].stage = "create" /\ call'[h].todo = P
    BY <2>1, <2>5, CallTodo
  <2>8. Same(h)
    BY <2>7 DEF Works
  <2>9. Table(part)' /\ part'[p] = d /\ \A q \in Parts \ {p} : part'[q] = part[q]
    BY <2>2, <2>3, <2>4, PartReplaced DEF OInv, Typed
  <2>10. /\ EntryOf(d) \in Entry /\ EntryOf(d) # None /\ EntryOf(d).keys = d.keys
         /\ EntryOf(d).live
    BY <2>4, EntryIs
  <2> HIDE DEF d
  <2>11. /\ e \in Entries /\ e # None
         /\ e[p] = IF cache[h][p] = None THEN EntryOf(d) ELSE cache[h][p]
         /\ \A q \in Parts \ {p} : e[q] = cache[h][q]
    BY <2>1, <2>3, <2>10, NoneAssumption DEF Entries
  <2>12. cache' = [cache EXCEPT ![h] = e]
    BY <2>2 DEF d
  <2> HIDE DEF e
  <2>13. cache'[h] = e /\ (\A g \in Procs \ {h} : cache'[g] = cache[g]) /\ (cache \in Caches)'
    BY <2>11, <2>12 DEF OInv, Typed, Caches
  <2>14. Live'
    <3> SUFFICES ASSUME NEW g \in Procs, NEW q \in Parts,
                        cache'[g] # None, cache'[g][q] # None, cache'[g][q].live
                 PROVE  part'[q] # None /\ cache'[g][q].keys = part'[q].keys
      BY DEF Live
    <3>1. CASE cache'[g][q] = cache[g][q] /\ cache[g] # None
      <4>1. part[q] # None /\ cache[g][q].keys = part[q].keys
        BY <3>1 DEF OInv, Live
      <4> QED BY <2>3, <2>9, <3>1, <4>1
    <3>2. CASE g = h /\ q = p /\ cache'[g][q] = EntryOf(d)
      BY <2>4, <2>9, <2>10, <3>2 DEF d
    <3> QED BY <2>1, <2>11, <2>13, <3>1, <3>2
  <2>15. SparesCells(h)
    <3>1. \A k \in Keys, x \in Cols : PartOf[k] = p /\ ~Named(h, k, x) =>
            CellAt(part'[p], k, x) = CellAt(part[p], k, x)
      BY <2>3, <2>4, <2>9 DEF CellAt, d
    <3> QED BY <2>3, <2>9, <3>1, SparesOne
  <2>16. Opened(h)'
    <3>1. P \subseteq PartsOf(call[h].keys) /\ \A q \in P : part'[q] = None
      BY <2>1, <2>5, <2>6, <2>9 DEF Opened
    <3> QED BY <2>7, <2>8, <2>11, <2>13, <3>1 DEF Opened, Same
  <2>17. ASSUME call[h].sound PROVE Exact(h)'
    <3>1. Exact(h)
      BY <2>1, <2>17
    <3>2. OthersAsBefore(h)'
      BY <2>8, <2>15, <3>1, OthersStay DEF Exact
    <3>3. Cached(h)'
      <4>1. cache[h][p] = None
        BY <2>1, <2>3, <3>1 DEF Exact, Cached, Alive
      <4>2. cache'[h][p] = EntryOf(part'[p]) /\ part'[p] # None /\ cache'[h][p].live
        BY <2>4, <2>9, <2>10, <2>11, <2>13, <4>1 DEF d
      <4>3. \A q \in Parts \ {p} : cache'[h][q] = cache[h][q] /\ part'[q] = part[q]
        BY <2>9, <2>11, <2>13
      <4>4. \A q \in Parts \ {p} : cache[h][q] # None =>
              cache[h][q].live /\ part[q] # None /\ cache[h][q] = EntryOf(part[q])
        BY <2>1, <3>1 DEF Exact, Cached, Agrees, Early
      <4>5. \A q \in Parts : cache'[h][q] # None =>
              cache'[h][q].live /\ part'[q] # None /\ cache'[h][q] = EntryOf(part'[q])
        BY <4>2, <4>3, <4>4
      <4> QED BY <4>5 DEF Cached, Alive, Agrees
    <3>4. Columned(h)' /\ Written(h)'
      BY <2>7 DEF Columned, Written
    <3>5. Shaped(h)'
      <4>1. call[h].before[p] = None
        BY <2>3, <3>1 DEF Exact, Shaped
      <4>2. part'[p] # None
        BY <2>4, <2>9 DEF d
      <4> QED BY <2>1, <2>3, <2>6, <2>7, <2>8, <2>9, <3>1, <4>1, <4>2 DEF Exact, Shaped, Same
    <3> QED BY <3>2, <3>3, <3>4, <3>5 DEF Exact
  <2>18. Going(h)'
    BY <2>7, <2>8, <2>16, <2>17 DEF Going, Same
  <2>19. Spares(h)
    BY <2>1, <2>15, WriteSpares DEF WriteStages
  <2> QED BY <2>2, <2>7, <2>9, <2>13, <2>14, <2>18, <2>19, WorkDoes
<1> QED BY <1>2, <1>3

(* The column a write makes: a cell for every row.                         *)
LEMMA AlignedIs ==
    ASSUME OInv, NEW h \in Procs, NEW p \in Parts
    PROVE  /\ Aligned(h, p) \in [part[p].keys -> Values]
           /\ cache[h][p].live => \A k \in part[p].keys :
                Aligned(h, p)[k] = IF k \in call[h].keys THEN h ELSE Null
BY DEF Aligned, Values

(* ensure_missing_columns makes a column, or finds the file there.         *)
LEMMA CreateColumnDoes ==
    ASSUME OInv, NEW h \in Procs, CreateColumn(h)
    PROVE  Does(h)
<1>1. InStage(h, "columns")
  BY DEF CreateColumn
<1>2. /\ call[h] # None /\ call[h].stage = "columns" /\ Call(call[h]) /\ lock = h
      /\ Opened(h) /\ (call[h].sound => Exact(h)) /\ cache[h] # None /\ cache[h] \in Entries
      /\ call[h].fields \in SUBSET (Parts \X Cols)
  BY <1>1, Here DEF WriteStages, Opened, Call, Fields
<1>3. PICK f \in NextField(h) :
         \/ /\ f[2] \notin DOMAIN part[f[1]].cols
            /\ part' = [part EXCEPT ![f[1]] = WithColumn(part[f[1]], f[2], Aligned(h, f[1]))]
            /\ \E C \in Relisted(part'[f[1]]) : cache' = [cache EXCEPT ![h][f[1]].cols = C]
            /\ call' = [call EXCEPT ![h].fields = @ \ {f}]
            /\ UNCHANGED <<lock, calls>>
         \/ /\ f[2] \in DOMAIN part[f[1]].cols
            /\ part' = [part EXCEPT ![f[1]] = WithoutColumn(part[f[1]], f[2])]
            /\ End(h)
            /\ UNCHANGED <<cache, calls>>
         \/ f[2] \notin DOMAIN part[f[1]].cols /\ Fails(h)
  BY DEF CreateColumn
<1>4. PICK p \in Parts, c \in Cols : f = <<p, c>> /\ f \in call[h].fields
  BY <1>2 DEF NextField
<1>5. f[1] = p /\ f[2] = c /\ part[p] # None /\ cache[h][p] # None /\ Directory(part[p])
  BY <1>2, <1>4 DEF Opened, OInv, Typed, Table
<1>6. call[h].sound => c \in call[h].cols /\ c \notin DOMAIN part[p].cols
  BY <1>2, <1>4, <1>5 DEF Exact, Columned
<1>7. CASE Fails(h)
  BY <1>7, FailsDoes
<1>8. CASE /\ c \in DOMAIN part[p].cols
           /\ part' = [part EXCEPT ![p] = WithoutColumn(part[p], c)]
           /\ End(h) /\ UNCHANGED <<cache, calls>>
  <2> DEFINE d == WithoutColumn(part[p], c)
  <2>1. Directory(d) /\ d # None /\ d.keys = part[p].keys
    BY <1>5, WithoutColumnIs
  <2>2. part' = [part EXCEPT ![p] = d] /\ Table(part)
    BY <1>8 DEF OInv, Typed
  <2> HIDE DEF d
  <2>3. Table(part)' /\ part'[p] = d /\ \A q \in Parts \ {p} : part'[q] = part[q]
    BY <2>1, <2>2, PartReplaced
  <2>4. Live'
    BY <1>8, <2>1, <2>3, LiveOne
  <2>5. Spares(h)
    BY <1>2, <1>6, <1>8, WriteSpares DEF WriteStages
  <2>6. (cache \in Caches)'
    BY <1>8 DEF OInv, Typed, Caches
  <2> QED BY <1>8, <2>3, <2>4, <2>5, <2>6, EndDoes
<1>9. CASE /\ c \notin DOMAIN part[p].cols
           /\ part' = [part EXCEPT ![p] = WithColumn(part[p], c, Aligned(h, p))]
           /\ \E C \in Relisted(part'[p]) : cache' = [cache EXCEPT ![h][p].cols = C]
           /\ call' = [call EXCEPT ![h].fields = @ \ {f}]
           /\ UNCHANGED <<lock, calls>>
  <2>0. PICK L \in Relisted(part'[p]) : cache' = [cache EXCEPT ![h][p].cols = L]
    BY <1>9
  <2> DEFINE d == WithColumn(part[p], c, Aligned(h, p))
             o == cache[h][p]
             e == [cache[h] EXCEPT ![p] = [o EXCEPT !.cols = L]]
             F == call[h].fields \ {f}
             n == [call[h] EXCEPT !.fields = F]
  <2>1. /\ Aligned(h, p) \in [part[p].keys -> Values]
        /\ o.live => \A k \in part[p].keys :
             Aligned(h, p)[k] = IF k \in call[h].keys THEN h ELSE Null
    BY AlignedIs
  <2>2. /\ Directory(d) /\ d # None /\ d.keys = part[p].keys
        /\ DOMAIN d.cols = DOMAIN part[p].cols \cup {c}
        /\ \A k, x : CellAt(d, k, x) =
             IF x # c THEN CellAt(part[p], k, x)
             ELSE IF k \in part[p].keys THEN Aligned(h, p)[k] ELSE Null
    BY <1>5, <2>1, WithColumnIs
  <2>3. part' = [part EXCEPT ![p] = d] /\ Table(part)
    BY <1>9 DEF OInv, Typed
  <2> HIDE DEF d
  <2>4. Table(part)' /\ part'[p] = d /\ \A q \in Parts \ {p} : part'[q] = part[q]
    BY <2>2, <2>3, PartReplaced
  <2>5. cache' = [cache EXCEPT ![h] = e]
    BY <2>0
  <2>6. o \in Entry /\ o # None /\ L \in SUBSET Cols
    <3>1. DOMAIN d.cols \in SUBSET Cols
      BY <2>2, DirectoryHas
    <3>2. L \in SUBSET Cols
      BY <2>0, <2>4, <3>1 DEF Relisted
    <3> QED BY <1>2, <1>5, <3>2 DEF Entries
  <2>7. /\ [o EXCEPT !.cols = L] \in Entry
        /\ [o EXCEPT !.cols = L].keys = o.keys
        /\ [o EXCEPT !.cols = L].live = o.live
    BY <2>6 DEF Entry
  <2>8. /\ e \in Entries /\ e # None
        /\ e[p] = [o EXCEPT !.cols = L] /\ e[p] # None
        /\ \A q \in Parts \ {p} : e[q] = cache[h][q]
    BY <1>2, <2>7, NoneAssumption DEF Entries
  <2> HIDE DEF e
  <2>9. cache'[h] = e /\ (\A g \in Procs \ {h} : cache'[g] = cache[g]) /\ (cache \in Caches)'
    BY <2>5, <2>8 DEF OInv, Typed, Caches
  <2>10. Live'
    <3> SUFFICES ASSUME NEW g \in Procs, NEW q \in Parts,
                        cache'[g] # None, cache'[g][q] # None, cache'[g][q].live
                 PROVE  part'[q] # None /\ cache'[g][q].keys = part'[q].keys
      BY DEF Live
    <3>1. /\ cache[g] # None /\ cache[g][q] # None /\ cache[g][q].live
          /\ cache'[g][q].keys = cache[g][q].keys
      <4>1. CASE g = h /\ q = p
        <5>1. cache'[g][q] = [o EXCEPT !.cols = L]
          BY <2>8, <2>9, <4>1
        <5> QED BY <1>2, <1>5, <2>7, <4>1, <5>1
      <4>2. CASE g = h /\ q # p
        <5>1. cache'[g][q] = cache[g][q]
          BY <2>8, <2>9, <4>2
        <5> QED BY <1>2, <4>2, <5>1
      <4>3. CASE g # h
        BY <2>9, <4>3
      <4> QED BY <4>1, <4>2, <4>3
    <3>2. part[q] # None /\ cache[g][q].keys = part[q].keys
      BY <3>1 DEF OInv, Live
    <3> QED BY <2>2, <2>4, <3>1, <3>2
  <2>11. /\ Call(n) /\ n.stage = "columns" /\ n.fields = F /\ n.todo = call[h].todo
         /\ n.keys = call[h].keys /\ n.cols = call[h].cols
         /\ n.before = call[h].before /\ n.sound = call[h].sound
    BY <1>2 DEF Call
  <2>12. call' = [call EXCEPT ![h] = n]
    BY <1>9
  <2> HIDE DEF n
  <2>13. Works(h) /\ Same(h) /\ call'[h] = n
    BY <2>11, <2>12, CallWorks DEF Works
  <2>14. ASSUME call[h].sound PROVE SparesCells(h)
    <3>1. o.live
      BY <1>2, <1>5, <2>14 DEF Exact, Cached, Alive
    <3>2. \A k \in Keys, x \in Cols : PartOf[k] = p /\ ~Named(h, k, x) =>
            CellAt(d, k, x) = CellAt(part[p], k, x)
      BY <1>6, <2>1, <2>2, <2>14, <3>1 DEF CellAt, Named
    <3> QED BY <2>4, <3>2, SparesOne
  <2>15. Opened(h)'
    <3>1. ASSUME NEW q \in PartsOf(call[h].keys)
          PROVE  cache'[h][q] # None /\ KeysIn(call[h].keys, q) \subseteq cache'[h][q].keys
      <4>1. q \in Parts
        BY <1>1, Here
      <4>2. cache[h][q] # None /\ KeysIn(call[h].keys, q) \subseteq cache[h][q].keys
        BY <1>2 DEF Opened, Found
      <4>3. cache'[h][q] # None /\ cache'[h][q].keys = cache[h][q].keys
        BY <2>7, <2>8, <2>9, <4>1, <4>2
      <4> QED BY <4>2, <4>3
    <3>2. \A g \in F : part'[g[1]] # None /\ cache'[h][g[1]] # None
      <4>1. \A g \in F : g[1] \in Parts /\ part[g[1]] # None /\ cache[h][g[1]] # None
        BY <1>2 DEF Opened
      <4> QED BY <2>2, <2>4, <2>8, <2>9, <4>1
    <3> QED BY <1>2, <2>8, <2>9, <2>11, <2>13, <3>1, <3>2 DEF Opened, Found
  <2>16. ASSUME call[h].sound PROVE Exact(h)'
    <3>1. Exact(h)
      BY <1>2, <2>16
    <3>2. OthersAsBefore(h)'
      BY <2>13, <2>14, <2>16, <3>1, OthersStay DEF Exact
    <3>3. Cached(h)'
      <4>1. Alive(h)
        BY <3>1 DEF Exact, Cached
      <4>2. cache'[h][p].live /\ part'[p] # None
        BY <1>2, <1>5, <2>2, <2>4, <2>7, <2>8, <2>9, <4>1 DEF Alive
      <4>3. ASSUME NEW q \in Parts \ {p}, cache'[h][q] # None
            PROVE  cache'[h][q].live /\ part'[q] # None
        BY <1>2, <2>4, <2>8, <2>9, <4>1, <4>3 DEF Alive
      <4>4. Alive(h)'
        BY <4>2, <4>3 DEF Alive
      <4> QED BY <2>11, <2>13, <4>4 DEF Cached, Early
    <3>4. Columned(h)'
      <4>1. ASSUME NEW g \in F
            PROVE  g[2] \in call[h].cols /\ g[2] \notin DOMAIN part'[g[1]].cols
        <5>1. g \in Parts \X Cols /\ g # f /\ g[2] \in call[h].cols
              /\ g[2] \notin DOMAIN part[g[1]].cols
          BY <1>2, <3>1 DEF Exact, Columned
        <5>2. CASE g[1] = p
          <6>1. g[2] # c
            BY <1>4, <5>1, <5>2
          <6> QED BY <2>2, <2>4, <5>1, <5>2, <6>1
        <5>3. CASE g[1] # p
          BY <2>4, <5>1, <5>3
        <5> QED BY <5>2, <5>3
      <4>2. ASSUME NEW q \in Existing', NEW x \in call[h].cols
            PROVE  x \in DOMAIN part'[q].cols \/ <<q, x>> \in F
        <5>1. q \in Existing /\ q \in Parts
          BY <1>5, <2>4, <4>2 DEF Existing
        <5>2. x \in DOMAIN part[q].cols \/ <<q, x>> \in call[h].fields
          BY <1>2, <3>1, <5>1 DEF Exact, Columned
        <5> QED BY <1>4, <2>2, <2>4, <5>1, <5>2
      <4> QED BY <2>11, <2>13, <4>1, <4>2 DEF Columned
    <3>5. Written(h)'
      BY <2>11, <2>13 DEF Written
    <3>6. Shaped(h)'
      <4>1. c \in call[h].cols
        BY <1>6, <2>16
      <4>2. \A q \in Parts : /\ part'[q] = None <=> part[q] = None
                             /\ part[q] # None => part'[q].keys = part[q].keys
        BY <1>5, <2>2, <2>4
      <4>3. \A q \in Parts : /\ DOMAIN part[q].cols \subseteq DOMAIN part'[q].cols
                             /\ DOMAIN part'[q].cols \subseteq DOMAIN part[q].cols \cup call[h].cols
        BY <2>2, <2>4, <4>1
      <4> QED BY <1>2, <2>11, <2>13, <3>1, <4>2, <4>3 DEF Exact, Shaped
    <3> QED BY <3>2, <3>3, <3>4, <3>5, <3>6 DEF Exact
  <2>17. Going(h)'
    BY <2>11, <2>13, <2>15, <2>16 DEF Going
  <2>18. Spares(h)
    BY <1>2, <2>14, WriteSpares DEF WriteStages
  <2> QED BY <1>9, <2>4, <2>9, <2>10, <2>13, <2>17, <2>18, WorkDoes
<1> QED BY <1>3, <1>5, <1>7, <1>8, <1>9

(* The rows are dealt out to the threads.                                  *)
LEMMA StartRowsDoes ==
    ASSUME OInv, NEW h \in Procs, StartRows(h)
    PROVE  Does(h)
<1>1. InStage(h, "columns") /\ call[h].fields = {}
  BY DEF StartRows
<1> DEFINE P == PartsOf(call[h].keys)
<1>2. /\ Goes(h, "rows", P)
      /\ part' = part /\ cache' = cache /\ lock' = lock /\ calls' = calls
  BY DEF StartRows
<1>3. /\ P \in SUBSET Parts /\ "rows" \in Stages /\ call[h] # None /\ call[h].stage = "columns"
      /\ Opened(h) /\ (call[h].sound => Exact(h))
  BY <1>1, Here DEF Stages, WriteStages
<1>4. P = PartsOf(call[h].keys)
  OBVIOUS
<1> HIDE DEF P
<1>5. Works(h) /\ call'[h].stage = "rows" /\ call'[h].todo = P
  BY <1>2, <1>3, CallGoes
<1>6. Same(h)
  BY <1>5 DEF Works
<1>7. Opened(h)'
  BY <1>2, <1>3, <1>4, <1>5, <1>6 DEF Opened, Found, Same
<1>8. ASSUME call[h].sound PROVE Exact(h)'
  <2>1. Exact(h)
    BY <1>3, <1>8
  <2>2. Cached(h)' /\ OthersAsBefore(h)'
    <3>1. Alive(h)'
      BY <1>2, <2>1, QuietState DEF Exact, Cached
    <3>2. OthersAsBefore(h)'
      BY <1>2, <1>6, <2>1, QuietCells, OthersStay DEF Exact
    <3> QED BY <1>5, <3>1, <3>2 DEF Cached, Early
  <2>3. Columned(h)'
    <3>1. \A p \in Existing : call[h].cols \subseteq DOMAIN part[p].cols
      BY <1>1, <1>3, <2>1 DEF Exact, Columned
    <3>2. Existing' = Existing
      BY <1>2 DEF Existing
    <3> QED BY <1>2, <1>5, <1>6, <3>1, <3>2 DEF Columned, Same
  <2>4. Written(h)'
    BY <1>4, <1>5, <1>6 DEF Written, Named, Same, PartsOf
  <2>5. Shaped(h)'
    BY <1>2, <1>3, <1>5, <1>6, <2>1 DEF Exact, Shaped, Same
  <2> QED BY <2>2, <2>3, <2>4, <2>5 DEF Exact
<1>9. Going(h)'
  BY <1>5, <1>6, <1>7, <1>8 DEF Going, Same
<1> QED BY <1>2, <1>5, <1>9, QuietState, PartSpared, WorkDoes

(* A sound write goes to all its columns.                                  *)
Covers(h, C, whole) == whole /\ call[h].sound => C = call[h].cols

(* What becomes of a partition whose rows are written, or some of them.    *)
RowsIn(h, p, whole, d) ==
    /\ p \in Parts /\ Directory(d)
    /\ part[p] = None <=> d = None
    /\ part[p] # None => d.keys = part[p].keys
    /\ call[h].sound =>
         /\ part[p] # None /\ DOMAIN d.cols = DOMAIN part[p].cols
         /\ \A k \in Keys, x \in Cols : PartOf[k] = p =>
              /\ ~Named(h, k, x) => CellAt(d, k, x) = CellAt(part[p], k, x)
              /\ whole /\ Named(h, k, x) => CellAt(d, k, x) = h

(* A handle of a directory that is gone may spoil the rows, but then the   *)
(* call was not sound.                                                     *)
LEMMA AfterIs ==
    ASSUME OInv, NEW h \in Procs, InStage(h, "rows"), NEW p \in call[h].todo,
           NEW C \in SUBSET call[h].cols, NEW whole \in BOOLEAN,
           Covers(h, C, whole),
           NEW d \in After(h, p, C, whole)
    PROVE  RowsIn(h, p, whole, d)
<1>1. /\ call[h] # None /\ call[h].stage = "rows" /\ Call(call[h])
      /\ Opened(h) /\ (call[h].sound => Exact(h)) /\ cache[h] # None
      /\ call[h].todo \in SUBSET Parts /\ Table(part)
  BY Here DEF WriteStages, Opened, Call, OInv, Typed
<1>2. p \in Parts /\ Found(h, p)
  BY <1>1 DEF Opened
<1>3. CASE ~cache[h][p].live
  <2>1. d \in Strayed(p, C)
    BY <1>3 DEF After
  <2>3. /\ Directory(d)
        /\ part[p] = None => d = None
        /\ part[p] # None => d # None /\ d.keys = part[p].keys
    BY <1>1, <1>2, <2>1, StrayedIs
  <2>4. ~call[h].sound
    BY <1>1, <1>2, <1>3 DEF Exact, Cached, Alive, Found
  <2> QED BY <1>2, <2>3, <2>4 DEF RowsIn
<1>4. CASE cache[h][p].live
  <2>1. part[p] # None /\ cache[h][p].keys = part[p].keys /\ Directory(part[p])
    BY <1>1, <1>2, <1>4 DEF OInv, Live, Found, Table
  <2>2. PICK W \in SUBSET Cells(h, p, C) :
          d = Overwritten(h, part[p], W) /\ (whole => W = Cells(h, p, C))
    BY <1>4 DEF After
  <2>3. /\ Directory(d) /\ d # None
        /\ d.keys = part[p].keys /\ DOMAIN d.cols = DOMAIN part[p].cols
        /\ \A k, x : CellAt(d, k, x) =
             IF <<k, x>> \in W /\ k \in part[p].keys /\ x \in DOMAIN part[p].cols THEN h
             ELSE CellAt(part[p], k, x)
    BY <2>1, <2>2, OverwrittenIs
  <2>4. \A k, x : /\ <<k, x>> \in Cells(h, p, C) => PartOf[k] = p /\ Named(h, k, x)
                  /\ C = call[h].cols /\ PartOf[k] = p /\ Named(h, k, x) =>
                        <<k, x>> \in Cells(h, p, C)
    BY DEF Cells, KeysIn, Named
  <2>5. ASSUME call[h].sound, NEW k \in Keys, NEW x \in Cols, PartOf[k] = p, Named(h, k, x)
        PROVE  k \in part[p].keys /\ x \in DOMAIN part[p].cols
    <3>1. p \in Existing
      BY <1>2, <2>1 DEF Existing
    <3>2. call[h].cols \subseteq DOMAIN part[p].cols
      BY <1>1, <2>5, <3>1 DEF Exact, Columned
    <3> QED BY <1>2, <2>1, <2>5, <3>2 DEF Found, KeysIn, Named
  <2>6. ASSUME call[h].sound, NEW k \in Keys, NEW x \in Cols, PartOf[k] = p
        PROVE  /\ ~Named(h, k, x) => CellAt(d, k, x) = CellAt(part[p], k, x)
               /\ whole /\ Named(h, k, x) => CellAt(d, k, x) = h
    <3>1. <<k, x>> \in W => Named(h, k, x)
      BY <2>2, <2>4
    <3>2. whole /\ Named(h, k, x) => <<k, x>> \in W
      BY <2>2, <2>4, <2>6 DEF Covers
    <3> QED BY <2>3, <2>5, <2>6, <3>1, <3>2
  <2> QED BY <1>2, <2>1, <2>3, <2>6 DEF RowsIn
<1> QED BY <1>3, <1>4

(* A step on the rows of a partition.                                      *)
RowsStep(h, p, d) ==
    /\ Table(part)' /\ part'[p] = d /\ \A q \in Parts \ {p} : part'[q] = part[q]
    /\ call[h].sound => SparesCells(h)
    /\ Spares(h)
    /\ cache' = cache => Live' /\ (cache \in Caches)' /\ (call[h].sound => Alive(h)')

(* It spares what the caller did not name.                                 *)
LEMMA RowsState ==
    ASSUME OInv, NEW h \in Procs, InStage(h, "rows"), NEW p \in call[h].todo,
           NEW C \in SUBSET call[h].cols, NEW whole \in BOOLEAN,
           Covers(h, C, whole),
           NEW d \in After(h, p, C, whole),
           part' = [part EXCEPT ![p] = d]
    PROVE  RowsStep(h, p, d)
<1>1. /\ p \in Parts /\ Directory(d)
      /\ part[p] = None <=> d = None
      /\ part[p] # None => d.keys = part[p].keys
      /\ call[h].sound =>
           /\ part[p] # None /\ DOMAIN d.cols = DOMAIN part[p].cols
           /\ \A k \in Keys, x \in Cols : PartOf[k] = p /\ ~Named(h, k, x) =>
                CellAt(d, k, x) = CellAt(part[p], k, x)
  <2>1. RowsIn(h, p, whole, d)
    BY AfterIs
  <2> QED BY <2>1 DEF RowsIn
<1>2. Table(part)' /\ part'[p] = d /\ \A q \in Parts \ {p} : part'[q] = part[q]
  BY <1>1, PartReplaced DEF OInv, Typed
<1>3. call[h].sound => SparesCells(h)
  BY <1>1, <1>2, SparesOne
<1>4. /\ call[h].stage = "rows" /\ (call[h].sound => Exact(h))
  BY Here DEF WriteStages
<1>5. Spares(h)
  BY <1>3, <1>4, WriteSpares DEF WriteStages
<1>6. ASSUME cache' = cache
      PROVE  Live' /\ (cache \in Caches)' /\ (call[h].sound => Alive(h)')
  <2>1. Live' /\ (cache \in Caches)'
    BY <1>1, <1>2, <1>6, LiveOne DEF OInv, Typed, Caches
  <2>2. ASSUME call[h].sound PROVE Alive(h)'
    <3>1. \A q \in Parts : part[q] # None => part'[q] # None
      BY <1>1, <1>2
    <3> QED BY <1>4, <1>6, <2>2, <3>1 DEF Exact, Cached, Alive
  <2> QED BY <2>1, <2>2
<1> QED BY <1>2, <1>3, <1>5, <1>6 DEF RowsStep

(* The call goes on after it, if the rows are written as far as it says.   *)
LEMMA RowsGo ==
    ASSUME OInv, NEW h \in Procs, InStage(h, "rows"), NEW p \in call[h].todo,
           NEW C \in SUBSET call[h].cols, NEW whole \in BOOLEAN,
           Covers(h, C, whole),
           NEW d \in After(h, p, C, whole),
           part' = [part EXCEPT ![p] = d], cache' = cache,
           Works(h), call'[h].stage = "rows", call'[h].todo \subseteq call[h].todo,
           ~call'[h].failed => ~call[h].failed /\ whole /\ call'[h].todo = call[h].todo \ {p}
    PROVE  Going(h)'
<1>1. /\ call[h] # None /\ call[h].stage = "rows"
      /\ Opened(h) /\ (call[h].sound => Exact(h)) /\ Same(h)
  <2>1. Same(h)
    BY DEF Works
  <2>2. "rows" \in WriteStages
    BY DEF WriteStages
  <2>3. /\ call[h] # None /\ call[h].stage = "rows"
        /\ "rows" \in WriteStages => Opened(h) /\ (call[h].sound => Exact(h))
    BY Here, Zenon
  <2> QED BY <2>1, <2>2, <2>3
<1>2. /\ part'[p] = d /\ \A q \in Parts \ {p} : part'[q] = part[q]
      /\ call[h].sound => SparesCells(h) /\ Alive(h)'
  <2>1. RowsStep(h, p, d)
    BY RowsState
  <2> QED BY <2>1 DEF RowsStep
<1>3. Opened(h)'
  BY <1>1 DEF Opened, Found, Same
<1>4. ASSUME call[h].sound PROVE Exact(h)'
  <2>1. /\ p \in Parts /\ d # None /\ part[p] # None
        /\ d.keys = part[p].keys /\ DOMAIN d.cols = DOMAIN part[p].cols
        /\ \A k \in Keys, x \in Cols : PartOf[k] = p /\ whole /\ Named(h, k, x) =>
             CellAt(d, k, x) = h
    <3>1. RowsIn(h, p, whole, d)
      BY AfterIs
    <3> QED BY <1>4, <3>1 DEF RowsIn
  <2>2. Exact(h)
    BY <1>1, <1>4
  <2>3. \A q \in Parts : /\ part'[q] = None <=> part[q] = None
                         /\ part'[q].keys = part[q].keys
                         /\ DOMAIN part'[q].cols = DOMAIN part[q].cols
    BY <1>2, <2>1
  <2>4. Cached(h)' /\ OthersAsBefore(h)'
    <3>1. OthersAsBefore(h)'
      BY <1>1, <1>2, <1>4, <2>2, OthersStay DEF Exact
    <3> QED BY <1>2, <1>4, <3>1 DEF Cached, Early
  <2>5. Columned(h)'
    <3>1. Existing' = Existing /\ \A q \in Existing : q \in Parts /\ part[q] # None
      BY <2>3 DEF Existing
    <3> QED BY <1>1, <2>2, <2>3, <3>1 DEF Exact, Columned, Same
  <2>6. Shaped(h)'
    <3>1. /\ call'[h].before = call[h].before /\ call'[h].keys = call[h].keys
          /\ call'[h].cols = call[h].cols /\ call'[h].stage = "rows" /\ call[h].stage = "rows"
          /\ PartsOf(call[h].keys)' = PartsOf(call[h].keys)
      BY <1>1 DEF Same, PartsOf
    <3>2. Shaped(h)
      BY <2>2 DEF Exact
    <3> QED BY <2>3, <3>1, <3>2 DEF Shaped
  <2>7. Written(h)'
    <3> SUFFICES ASSUME ~call'[h].failed, NEW k \in Keys, NEW x \in Cols,
                        Named(h, k, x), PartOf[k] \notin call'[h].todo
                 PROVE  Cell(part', k, x) = h
      BY <1>1 DEF Written, Named, Same
    <3>1. CASE PartOf[k] = p
      <4>1. CellAt(part'[p], k, x) = h
        BY <1>2, <2>1, <3>1
      <4> QED BY <3>1, <4>1 DEF Cell, CellAt
    <3>2. CASE PartOf[k] # p
      <4>1. PartOf[k] \in Parts /\ PartOf[k] \notin call[h].todo
        BY <3>2, PartOfKey
      <4>2. Cell(part, k, x) = h
        BY <1>1, <2>2, <4>1 DEF Exact, Written
      <4>3. part'[PartOf[k]] = part[PartOf[k]]
        BY <1>2, <3>2, <4>1
      <4> QED BY <4>2, <4>3 DEF Cell
    <3> QED BY <3>1, <3>2
  <2> QED BY <2>4, <2>5, <2>6, <2>7 DEF Exact
<1> QED BY <1>1, <1>3, <1>4 DEF Going, Same

(* A thread writes the rows of a partition.                                *)
LEMMA WritePartitionDoes ==
    ASSUME OInv, NothingGone, NEW h \in Procs, WritePartition(h)
    PROVE  Does(h)
<1>1. InStage(h, "rows")
  BY DEF WritePartition
<1>2. PICK p \in call[h].todo : \E d \in After(h, p, call[h].cols \ Away(h, p), TRUE) :
         /\ part' = [part EXCEPT ![p] = d]
         /\ call' = [call EXCEPT ![h].todo = @ \ {p}]
         /\ lock' = lock /\ cache' = cache /\ calls' = calls
  BY DEF WritePartition
<1> DEFINE C == call[h].cols \ Away(h, p)
<1>20. C \in SUBSET call[h].cols /\ Covers(h, C, TRUE)
  <2>1. call[h].sound => maps[h].gone = {}
    BY <1>1, Here DEF NothingGone, WriteStages
  <2> QED BY <2>1 DEF Away, Covers
<1>3. PICK d \in After(h, p, C, TRUE) :
         /\ part' = [part EXCEPT ![p] = d]
         /\ call' = [call EXCEPT ![h].todo = @ \ {p}]
         /\ lock' = lock /\ cache' = cache /\ calls' = calls
  BY <1>2
<1> HIDE DEF C
<1>4. call[h] # None /\ call[h].stage = "rows" /\ call[h].todo \in SUBSET Parts
  BY <1>1, Here DEF Call
<1> DEFINE P == call[h].todo \ {p}
<1>5. P \in SUBSET Parts /\ call' = [call EXCEPT ![h].todo = P]
  BY <1>3, <1>4
<1>6. P = call[h].todo \ {p}
  OBVIOUS
<1> HIDE DEF P
<1>7. /\ Works(h) /\ call'[h].stage = "rows" /\ call'[h].todo = P
      /\ call'[h].failed = call[h].failed
  BY <1>4, <1>5, CallTodo
<1>8. TRUE \in BOOLEAN /\ part' = [part EXCEPT ![p] = d] /\ cache' = cache
  BY <1>3
<1>9. Table(part)' /\ Live' /\ (cache \in Caches)' /\ Spares(h)
  <2>1. RowsStep(h, p, d)
    BY <1>1, <1>8, <1>20, RowsState
  <2> QED BY <1>8, <2>1 DEF RowsStep
<1>10. call'[h].todo \subseteq call[h].todo
       /\ (~call'[h].failed => ~call[h].failed /\ TRUE /\ call'[h].todo = call[h].todo \ {p})
  BY <1>6, <1>7
<1>11. Going(h)'
  BY <1>1, <1>7, <1>8, <1>10, <1>20, RowsGo
<1> QED BY <1>3, <1>7, <1>9, <1>11, WorkDoes

(* A thread fails in the middle of a partition and leaves the rest.        *)
LEMMA WriteFailsDoes ==
    ASSUME OInv, NEW h \in Procs, WriteFails(h)
    PROVE  Does(h)
<1>1. InStage(h, "rows")
  BY DEF WriteFails
<1> DEFINE Rest(p) == {q \in call[h].todo : Thread(h, q) # Thread(h, p)}
<1>2. PICK p \in call[h].todo, C \in SUBSET call[h].cols : \E d \in After(h, p, C, FALSE) :
         /\ part' = [part EXCEPT ![p] = d]
         /\ call' = [call EXCEPT ![h].todo = Rest(p), ![h].failed = TRUE]
         /\ lock' = lock /\ cache' = cache /\ calls' = calls
  BY DEF WriteFails
<1>3. PICK d \in After(h, p, C, FALSE) :
         /\ part' = [part EXCEPT ![p] = d]
         /\ call' = [call EXCEPT ![h].todo = Rest(p), ![h].failed = TRUE]
         /\ lock' = lock /\ cache' = cache /\ calls' = calls
  BY <1>2
<1>4. call[h] # None /\ call[h].stage = "rows" /\ Call(call[h])
  BY <1>1, Here
<1> DEFINE P == Rest(p)
           c == [call[h] EXCEPT !.todo = P, !.failed = TRUE]
<1>5. P \subseteq call[h].todo
  OBVIOUS
<1>6. call' = [call EXCEPT ![h] = c]
  BY <1>3
<1> HIDE DEF P
<1>7. /\ Call(c) /\ c.stage = "rows" /\ c.todo = P /\ c.failed
      /\ c.keys = call[h].keys /\ c.cols = call[h].cols
      /\ c.before = call[h].before /\ c.sound = call[h].sound
  BY <1>4, <1>5 DEF Call
<1> HIDE DEF c
<1>8. Works(h) /\ call'[h] = c
  BY <1>6, <1>7, CallWorks
<1>9. FALSE \in BOOLEAN /\ part' = [part EXCEPT ![p] = d] /\ cache' = cache
      /\ Covers(h, C, FALSE)
  BY <1>3 DEF Covers
<1>10. Table(part)' /\ Live' /\ (cache \in Caches)' /\ Spares(h)
  <2>1. RowsStep(h, p, d)
    BY <1>1, <1>9, RowsState
  <2> QED BY <1>9, <2>1 DEF RowsStep
<1>11. /\ call'[h].stage = "rows" /\ call'[h].todo \subseteq call[h].todo
       /\ (~call'[h].failed => ~call[h].failed /\ FALSE /\ call'[h].todo = call[h].todo \ {p})
  BY <1>5, <1>7, <1>8
<1>12. Going(h)'
  BY <1>1, <1>8, <1>9, <1>11, RowsGo
<1> QED BY <1>3, <1>8, <1>10, <1>12, WorkDoes

(* A call returns.                                                         *)
LEMMA EndsDo ==
    ASSUME OInv, NEW h \in Procs, EndWrite(h) \/ EndUpdate(h) \/ StreamFinish(h)
    PROVE  Does(h)
<1>1. Fails(h)
  BY DEF EndWrite, EndUpdate, StreamFinish
<1> QED BY <1>1, FailsDoes

----------------------------------------------------------------------------
(* An update.                                                              *)

(* A set of partitions is finite, and so is what is left or added to it.   *)
LEMMA Counted ==
    ASSUME NEW B \in SUBSET Parts, NEW p \in Parts
    PROVE  /\ Cardinality(B) \in Nat
           /\ Cardinality(B \cup {p}) <= Cardinality(B) + 1
           /\ p \in B => Cardinality(B \ {p}) = Cardinality(B) - 1 /\ Cardinality(B) >= 1
<1>1. IsFiniteSet(B)
  BY TableWriteAssumption, FS_Subset
<1>2. Cardinality(B) \in Nat
  BY <1>1, FS_CardinalityType
<1>3. Cardinality(B \cup {p}) = IF p \in B THEN Cardinality(B) ELSE Cardinality(B) + 1
  BY <1>1, FS_AddElement
<1>4. Cardinality(B \ {p}) = IF p \in B THEN Cardinality(B) - 1 ELSE Cardinality(B)
  BY <1>1, FS_RemoveElement
<1>5. ASSUME p \in B PROVE Cardinality(B) >= 1
  <2>1. Cardinality(B \ {p}) \in Nat
    BY <1>1, FS_Subset, FS_CardinalityType
  <2> QED BY <1>2, <1>4, <1>5, <2>1
<1> QED BY <1>2, <1>3, <1>4, <1>5

(* No more threads than max_parallelism.                                   *)
LEMMA InUseIs ==
    ASSUME NEW P \in SUBSET Parts
    PROVE  InUse(P) \in 0 .. Threads
<1>1. Cardinality(P) \in Nat
  BY TableWriteAssumption, FS_Subset, FS_CardinalityType
<1> QED BY <1>1, TableWriteAssumption DEF InUse

(* The handles of a directory that has gone are no longer live.            *)
LEMMA OrphanedIs ==
    ASSUME OInv, NEW p \in Parts
    PROVE  /\ Orphaned(p) \in Caches
           /\ \A g \in Procs : /\ Orphaned(p)[g] # None => cache[g] # None
                               /\ Orphaned(p)[g] # None /\ Orphaned(p)[g][p] # None =>
                                      ~Orphaned(p)[g][p].live
                               /\ \A q \in Parts \ {p} : Orphaned(p)[g] # None =>
                                      Orphaned(p)[g][q] = cache[g][q]
<1> DEFINE o == Orphaned(p)
<1>1. o = [g \in Procs |-> o[g]]
  BY DEF Orphaned
<1>2. ASSUME NEW g \in Procs
      PROVE  /\ o[g] \in Entries \cup {None}
             /\ o[g] # None => cache[g] # None
             /\ o[g] # None /\ o[g][p] # None => ~o[g][p].live
             /\ \A q \in Parts \ {p} : o[g] # None => o[g][q] = cache[g][q]
  <2>1. cache[g] \in Entries \cup {None}
    BY DEF OInv, Typed
  <2>2. CASE cache[g] = None \/ cache[g][p] = None
    <3>1. o[g] = cache[g]
      BY <2>2 DEF Orphaned
    <3> QED BY <2>1, <2>2, <3>1
  <2>3. CASE cache[g] # None /\ cache[g][p] # None
    <3> DEFINE e == cache[g][p]
               n == [e EXCEPT !.live = FALSE]
    <3>1. o[g] = [cache[g] EXCEPT ![p] = n]
      BY <2>3 DEF Orphaned
    <3>2. cache[g] \in [Parts -> Entry \cup {None}]
      BY <2>1, <2>3 DEF Entries
    <3>3. e \in Entry
      BY <2>3, <3>2
    <3>4. n \in Entry /\ ~n.live
      BY <3>3 DEF Entry
    <3> HIDE DEF n
    <3>5. /\ o[g] \in Entries /\ o[g][p] = n
          /\ \A q \in Parts \ {p} : o[g][q] = cache[g][q]
      BY <3>1, <3>2, <3>4 DEF Entries
    <3> QED BY <2>3, <3>4, <3>5
  <2> QED BY <2>2, <2>3
<1> HIDE DEF o
<1>3. o \in Caches
  BY <1>1, <1>2 DEF Caches
<1> QED BY <1>2, <1>3 DEF o

(* update_table removes a partition, some of it, or none.                  *)
LEMMA UpdateRemoveDoes ==
    ASSUME OInv, NEW h \in Procs, UpdateRemove(h)
    PROVE  Does(h)
<1>1. InStage(h, "remove")
  BY DEF UpdateRemove
<1>2. /\ call[h].stage = "remove" /\ Call(call[h]) /\ Rebuilding(h)
      /\ call[h].todo \in SUBSET Parts /\ call[h].busy \in SUBSET Parts
      /\ call[h].threads \in Nat /\ PartsOf(call[h].keys) \subseteq Parts
  BY <1>1, Here, TableWriteAssumption DEF Going, Call
<1>3. PICK p \in call[h].todo :
         /\ call' = [call EXCEPT ![h].todo = @ \ {p}, ![h].busy = @ \cup {p}]
         /\ \/ part' = [part EXCEPT ![p] = None] /\ cache' = Orphaned(p)
            \/ part' = part /\ cache' = cache
            \/ part' = [part EXCEPT ![p] = Bare] /\ cache' = Orphaned(p)
  BY DEF UpdateRemove
<1>4. lock' = lock /\ calls' = calls /\ Cardinality(call[h].busy) < call[h].threads
  BY DEF UpdateRemove
<1>5. p \in Parts /\ p \in PartsOf(call[h].keys)
  BY <1>2 DEF Rebuilding
<1>6. Directory(None) /\ Directory(Bare)
  <2> DEFINE K == {}
             f == Fill(K, K, Null)
  <2>1. K \in SUBSET Keys /\ K \in SUBSET Cols /\ f \in [K -> [K -> Values]] /\ FALSE \in BOOLEAN
    BY FillIs DEF Values
  <2>2. Bare = [keys |-> K, cols |-> f, ok |-> FALSE]
    BY DEF Bare
  <2> HIDE DEF K, f
  <2>3. Directory(Bare)
    BY <2>1, <2>2, DirectoryMade
  <2> QED BY <2>3 DEF Directory
<1>7. Table(part)' /\ \A q \in Parts \ {p} : part'[q] = part[q]
  BY <1>3, <1>5, <1>6, PartReplaced DEF OInv, Typed, Table
<1>8. (cache \in Caches)' /\ Live'
  <2>1. CASE part' = part /\ cache' = cache
    BY <2>1, QuietState
  <2>2. CASE cache' = Orphaned(p)
    <3>1. /\ cache' \in Caches
          /\ \A g \in Procs : /\ cache'[g] # None => cache[g] # None
                              /\ cache'[g] # None /\ cache'[g][p] # None => ~cache'[g][p].live
                              /\ \A q \in Parts \ {p} : cache'[g] # None =>
                                     cache'[g][q] = cache[g][q]
      BY <1>5, <2>2, OrphanedIs
    <3>2. ASSUME NEW g \in Procs, NEW q \in Parts,
                 cache'[g] # None, cache'[g][q] # None, cache'[g][q].live
          PROVE  part'[q] # None /\ cache'[g][q].keys = part'[q].keys
      <4>1. q # p /\ cache[g] # None /\ cache'[g][q] = cache[g][q] /\ part'[q] = part[q]
        BY <1>7, <3>1, <3>2
      <4> QED BY <3>2, <4>1 DEF OInv, Live
    <3> QED BY <3>1, <3>2 DEF Live
  <2> QED BY <1>3, <2>1, <2>2
<1> DEFINE P == call[h].todo \ {p}
           B == call[h].busy \cup {p}
           c == [call[h] EXCEPT !.todo = P, !.busy = B]
<1>9. call' = [call EXCEPT ![h] = c] /\ P \subseteq Parts /\ B \subseteq Parts
  BY <1>2, <1>3, <1>5
<1>10. P \cup B = call[h].todo \cup call[h].busy
  OBVIOUS
<1>11. Cardinality(B) <= call[h].threads
  <2>1. Cardinality(call[h].busy) \in Nat /\ Cardinality(B) <= Cardinality(call[h].busy) + 1
    BY <1>2, <1>5, Counted
  <2>2. Cardinality(B) \in Nat
    BY <1>5, <1>9, Counted
  <2> QED BY <1>2, <1>4, <2>1, <2>2
<1>12. P \subseteq PartsOf(call[h].keys) /\ B \subseteq PartsOf(call[h].keys) /\ p \in B
  BY <1>2, <1>5 DEF Rebuilding
<1> HIDE DEF P, B
<1>13. /\ Call(c) /\ c.stage = "remove" /\ c.todo = P /\ c.busy = B
       /\ c.threads = call[h].threads /\ c.failed = call[h].failed
       /\ c.keys = call[h].keys /\ c.cols = call[h].cols
       /\ c.before = call[h].before /\ c.sound = call[h].sound
  BY <1>2, <1>9 DEF Call
<1> HIDE DEF c
<1>14. call' = [call EXCEPT ![h] = c]
  BY <1>9
<1>15. Works(h) /\ call'[h] = c
  BY <1>13, <1>14, CallWorks
<1>16. \A q : Built(h, q)' = Built(h, q)
  BY <1>13, <1>15 DEF Built
<1>17. Rebuilding(h)'
  <2>1. \A q \in Parts \ PartsOf(call[h].keys) : part'[q] = call[h].before[q]
    BY <1>2, <1>5, <1>7 DEF Rebuilding
  <2>2. ASSUME ~call[h].failed, NEW q \in PartsOf(call[h].keys) \ (P \cup B)
        PROVE  part'[q] = Built(h, q)
    <3>1. q # p /\ q \in Parts /\ q \notin call[h].todo \cup call[h].busy
      BY <1>2, <1>10, <1>12, <2>2
    <3> QED BY <1>2, <1>7, <2>2, <3>1 DEF Rebuilding
  <2> QED BY <1>11, <1>12, <1>13, <1>15, <1>16, <2>1, <2>2 DEF Rebuilding
<1>18. Going(h)'
  BY <1>13, <1>15, <1>17 DEF Going, WriteStages
<1>19. Spares(h)
  BY <1>2, <1>5, <1>7 DEF Spares, WriteStages
<1> QED BY <1>4, <1>7, <1>8, <1>15, <1>18, <1>19, WorkDoes

(* update_table builds a partition where there is none, or a thread fails. *)
LEMMA UpdateBuildDoes ==
    ASSUME OInv, NEW h \in Procs, UpdateBuild(h)
    PROVE  Does(h)
<1>1. InStage(h, "remove")
  BY DEF UpdateBuild
<1>2. /\ call[h].stage = "remove" /\ Call(call[h]) /\ Rebuilding(h)
      /\ call[h].todo \in SUBSET Parts /\ call[h].busy \in SUBSET Parts
      /\ call[h].threads \in 0 .. Threads /\ PartsOf(call[h].keys) \subseteq Parts
  BY <1>1, Here DEF Going, Call
<1>3. PICK p \in call[h].busy :
         \/ /\ part[p] = None
            /\ part' = [part EXCEPT ![p] = Built(h, p)]
            /\ call' = [call EXCEPT ![h].busy = @ \ {p}]
         \/ /\ call' = [call EXCEPT ![h].busy = @ \ {p}, ![h].threads = @ - 1, ![h].failed = TRUE]
            /\ part' = part
  BY DEF UpdateBuild
<1>4. lock' = lock /\ calls' = calls /\ cache' = cache
  BY DEF UpdateBuild
<1>5. p \in Parts /\ p \in PartsOf(call[h].keys)
  BY <1>2 DEF Rebuilding
<1> DEFINE B == call[h].busy \ {p}
<1>6. B \in SUBSET Parts /\ B \subseteq PartsOf(call[h].keys) /\ B = call[h].busy \ {p}
  BY <1>2 DEF Rebuilding
<1>7. /\ Cardinality(B) \in Nat /\ Cardinality(B) = Cardinality(call[h].busy) - 1
      /\ Cardinality(call[h].busy) \in Nat /\ Cardinality(call[h].busy) >= 1
      /\ Cardinality(call[h].busy) <= call[h].threads
  BY <1>2, <1>5, <1>6, Counted DEF Rebuilding
<1> HIDE DEF B
<1>8. \A q \in Parts \ PartsOf(call[h].keys) : part[q] = call[h].before[q]
  BY <1>2 DEF Rebuilding
<1>9. CASE /\ part[p] = None
           /\ part' = [part EXCEPT ![p] = Built(h, p)]
           /\ call' = [call EXCEPT ![h].busy = @ \ {p}]
  <2> DEFINE d == Built(h, p)
             c == [call[h] EXCEPT !.busy = B]
  <2>1. Directory(d)
    BY <1>2, <1>5, BuiltIs
  <2>2. part' = [part EXCEPT ![p] = d] /\ Table(part)
    BY <1>9 DEF OInv, Typed
  <2>3. d = Built(h, p)
    OBVIOUS
  <2> HIDE DEF d
  <2>4. Table(part)' /\ part'[p] = d /\ \A q \in Parts \ {p} : part'[q] = part[q]
    BY <1>5, <2>1, <2>2, PartReplaced
  <2>5. Live' /\ (cache \in Caches)'
    BY <1>4, <1>5, <1>9, <2>4, LiveOne DEF OInv, Typed, Caches
  <2>6. /\ Call(c) /\ c.stage = "remove" /\ c.todo = call[h].todo /\ c.busy = B
        /\ c.threads = call[h].threads /\ c.failed = call[h].failed
        /\ c.keys = call[h].keys /\ c.cols = call[h].cols
        /\ c.before = call[h].before /\ c.sound = call[h].sound
    BY <1>2, <1>6 DEF Call
  <2>7. call' = [call EXCEPT ![h] = c]
    BY <1>6, <1>9
  <2> HIDE DEF c
  <2>8. Works(h) /\ call'[h] = c
    BY <2>6, <2>7, CallWorks
  <2>9. \A q : Built(h, q)' = Built(h, q)
    BY <2>6, <2>8 DEF Built
  <2>10. Rebuilding(h)'
    <3>1. \A q \in Parts \ PartsOf(call[h].keys) : part'[q] = call[h].before[q]
      BY <1>5, <1>8, <2>4
    <3>2. ASSUME ~call[h].failed, NEW q \in PartsOf(call[h].keys) \ (call[h].todo \cup B)
          PROVE  part'[q] = Built(h, q)
      <4>1. CASE q = p
        BY <2>3, <2>4, <4>1
      <4>2. CASE q # p
        <5>1. q \in Parts /\ q \notin call[h].todo \cup call[h].busy
          BY <1>2, <1>6, <3>2, <4>2
        <5> QED BY <1>2, <2>4, <3>2, <4>2, <5>1 DEF Rebuilding
      <4> QED BY <4>1, <4>2
    <3>3. call[h].todo \subseteq PartsOf(call[h].keys)
      BY <1>2 DEF Rebuilding
    <3>4. Cardinality(B) <= call[h].threads
      BY <1>2, <1>7
    <3>5. /\ call'[h].keys = call[h].keys /\ call'[h].before = call[h].before
          /\ call'[h].todo = call[h].todo /\ call'[h].busy = B
          /\ call'[h].threads = call[h].threads /\ call'[h].failed = call[h].failed
      BY <2>6, <2>8
    <3>6. B \subseteq PartsOf(call[h].keys)
      BY <1>6
    <3> QED BY <2>9, <3>1, <3>2, <3>3, <3>4, <3>5, <3>6 DEF Rebuilding
  <2>11. Going(h)'
    BY <2>6, <2>8, <2>10 DEF Going, WriteStages
  <2>12. Spares(h)
    BY <1>2, <1>5, <2>4 DEF Spares, WriteStages
  <2> QED BY <1>4, <2>4, <2>5, <2>8, <2>11, <2>12, WorkDoes
<1>10. CASE /\ call' = [call EXCEPT ![h].busy = @ \ {p}, ![h].threads = @ - 1, ![h].failed = TRUE]
            /\ part' = part
  <2> DEFINE n == call[h].threads - 1
             c == [call[h] EXCEPT !.busy = B, !.threads = n, !.failed = TRUE]
  <2>1. n \in 0 .. Threads /\ Cardinality(B) <= n
    BY <1>2, <1>7, TableWriteAssumption
  <2>2. call' = [call EXCEPT ![h] = c]
    BY <1>6, <1>10
  <2> HIDE DEF n
  <2>3. /\ Call(c) /\ c.stage = "remove" /\ c.todo = call[h].todo /\ c.busy = B
        /\ c.threads = n /\ c.failed
        /\ c.keys = call[h].keys /\ c.cols = call[h].cols
        /\ c.before = call[h].before /\ c.sound = call[h].sound
    BY <1>2, <1>6, <2>1 DEF Call
  <2> HIDE DEF c
  <2>4. Works(h) /\ call'[h] = c
    BY <2>2, <2>3, CallWorks
  <2>5. Rebuilding(h)'
    <3>1. call[h].todo \subseteq PartsOf(call[h].keys)
      BY <1>2 DEF Rebuilding
    <3> QED BY <1>6, <1>8, <1>10, <2>1, <2>3, <2>4, <3>1 DEF Rebuilding
  <2>6. Going(h)'
    BY <2>3, <2>4, <2>5 DEF Going, WriteStages
  <2> QED BY <1>4, <1>10, <2>4, <2>6, QuietState, PartSpared, WorkDoes
<1> QED BY <1>3, <1>9, <1>10

----------------------------------------------------------------------------
(* A stream.                                                               *)

(* write_batch creates the next partition, or fails.                       *)
LEMMA StreamPartitionDoes ==
    ASSUME OInv, NEW h \in Procs, StreamPartition(h)
    PROVE  Does(h)
<1>1. InStage(h, "stream") /\ call[h].todo # {}
  BY DEF StreamPartition
<1>2. CASE Fails(h)
  BY <1>2, FailsDoes
<1>3. CASE ~Fails(h)
  <2>1. /\ call[h] # None /\ call[h].stage = "stream" /\ Call(call[h]) /\ Streaming(h)
        /\ call[h].todo \in SUBSET Parts /\ PartsOf(call[h].keys) \subseteq Parts
    BY <1>1, Here DEF Going, Call
  <2>2. PICK p : p = Least(call[h].todo)
    OBVIOUS
  <2>3. PICK T \in SUBSET Parts : T = call[h].todo
    BY <2>1
  <2>4. p \in T /\ p \in Parts /\ p \in PartsOf(call[h].keys)
    BY <1>1, <2>1, <2>2, <2>3, LeastIs DEF Streaming
  <2> DEFINE d == Built(h, p)
             P == T \ {p}
  <2>5. /\ part[p] = None
        /\ part' = [part EXCEPT ![p] = d]
        /\ call' = [call EXCEPT ![h].todo = P]
        /\ lock' = lock /\ cache' = cache /\ calls' = calls
    BY <1>3, <2>2, <2>3 DEF StreamPartition
  <2>6. Directory(d) /\ d # None /\ d = Built(h, p)
    BY <2>1, <2>4, BuiltIs
  <2>7. P \in SUBSET Parts /\ P = T \ {p}
    OBVIOUS
  <2> HIDE DEF d, P
  <2>8. Table(part)' /\ part'[p] = d /\ \A q \in Parts \ {p} : part'[q] = part[q]
    BY <2>4, <2>5, <2>6, PartReplaced DEF OInv, Typed
  <2>9. Live' /\ (cache \in Caches)'
    BY <2>4, <2>5, <2>8, LiveOne DEF OInv, Typed, Caches
  <2>10. Works(h) /\ call'[h].stage = "stream" /\ call'[h].todo = P
    BY <2>1, <2>5, <2>7, CallTodo
  <2>11. Same(h)
    BY <2>10 DEF Works
  <2>12. \A q : Built(h, q)' = Built(h, q)
    BY <2>11 DEF Built, Same
  <2>13. Streaming(h)'
    <3>1. P \subseteq PartsOf(call[h].keys)
      BY <2>1, <2>3, <2>7 DEF Streaming
    <3>2. ASSUME NEW q \in Parts
          PROVE  IF q \in PartsOf(call[h].keys) \ P
                 THEN call[h].before[q] = None /\ part'[q] = Built(h, q)
                 ELSE part'[q] = call[h].before[q]
      <4>1. CASE q = p
        BY <2>1, <2>3, <2>4, <2>5, <2>6, <2>7, <2>8, <4>1 DEF Streaming
      <4>2. CASE q # p
        BY <2>1, <2>3, <2>7, <2>8, <4>2 DEF Streaming
      <4> QED BY <4>1, <4>2
    <3> QED BY <2>10, <2>11, <2>12, <3>1, <3>2 DEF Streaming, Same
  <2>14. Going(h)'
    BY <2>10, <2>13 DEF Going, WriteStages
  <2>15. Spares(h)
    BY <2>1, <2>4, <2>8 DEF Spares, WriteStages
  <2> QED BY <2>5, <2>8, <2>9, <2>10, <2>14, <2>15, WorkDoes
<1> QED BY <1>2, <1>3

(* TableStreamWriter::new takes the lock and sees the table as it is now.  *)
LEMMA StreamLockDoes ==
    ASSUME OInv, NEW h \in Procs, StreamLock(h)
    PROVE  Does(h)
<1>1. InStage(h, "new") /\ part' = part /\ cache' = cache /\ calls' = calls
  BY DEF StreamLock
<1>2. Call(call[h]) /\ PartsOf(call[h].keys) \in SUBSET Parts /\ Table(part)
  BY <1>1, Here DEF OInv, Typed
<1>3. Table(part)' /\ (cache \in Caches)' /\ Live'
  BY <1>1, QuietState
<1>4. CASE lock = None
  <2> DEFINE P == PartsOf(call[h].keys)
             c == [call[h] EXCEPT !.stage = "stream", !.before = part, !.todo = P]
  <2>1. call' = [call EXCEPT ![h] = c] /\ lock' = h
    BY <1>4 DEF StreamLock
  <2>2. P \in SUBSET Parts /\ P = PartsOf(call[h].keys)
    BY <1>2
  <2> HIDE DEF P
  <2>3. Call(c) /\ c.stage = "stream" /\ c.todo = P /\ c.before = part /\ c.keys = call[h].keys
    BY <1>2, <2>2 DEF Call, Stages
  <2> HIDE DEF c
  <2>4. /\ DOMAIN call' = Procs /\ \A g \in Procs : call'[g] # None => Call(call'[g])
        /\ call'[h] = c /\ \A g \in Procs \ {h} : call'[g] = call[g]
    BY <2>1, <2>3, CallNext DEF OInv
  <2>5. Typed'
    BY <1>1, <1>3, <2>1, <2>4 DEF OInv, Typed, Caches
  <2>6. Going(h)'
    BY <1>1, <2>2, <2>3, <2>4 DEF Going, WriteStages, Streaming
  <2> QED BY <1>1, <1>3, <2>4, <2>5, <2>6, PartSpared DEF Does
<1>5. CASE lock # None
  <2>1. call' = [call EXCEPT ![h] = None] /\ lock' = lock
    BY <1>5 DEF StreamLock
  <2>2. /\ DOMAIN call' = Procs /\ \A g \in Procs : call'[g] # None => Call(call'[g])
        /\ call'[h] = None /\ \A g \in Procs \ {h} : call'[g] = call[g]
    BY <2>1, CallNext DEF OInv
  <2>3. Typed'
    BY <1>1, <1>3, <2>1, <2>2 DEF OInv, Typed, Caches
  <2> QED BY <1>1, <1>3, <2>2, <2>3, PartSpared DEF Does, Inside
<1> QED BY <1>4, <1>5

----------------------------------------------------------------------------
(* The beginning and the end of a call.                                    *)

(* A new call has done nothing yet.                                        *)
LEMMA StartedIs ==
    ASSUME OInv, NEW h \in Procs, NEW kind \in Kinds, NEW stage \in Stages, NEW in \in Inputs
    PROVE  LET c == Started(h, kind, stage, in)
           IN  /\ Call(c) /\ c.stage = stage /\ c.keys = in.keys /\ c.cols = in.cols
               /\ c.todo = {} /\ c.busy = {} /\ c.before = part /\ ~c.failed
               /\ c.sound = Sound(h)
               /\ in.keys \in SUBSET Keys
<1>1. in.keys \in SUBSET Keys /\ in.cols \in SUBSET Cols
  BY TableWriteAssumption
<1>2. Sound(h) \in BOOLEAN /\ 0 \in 0 .. Threads
  BY TableWriteAssumption DEF Sound
<1>3. PICK s \in BOOLEAN : s = Sound(h)
  BY <1>2
<1> DEFINE c == [kind |-> kind, stage |-> stage, keys |-> in.keys, cols |-> in.cols,
                 todo |-> {}, busy |-> {}, fields |-> {}, threads |-> 0, failed |-> FALSE,
                 before |-> part, sound |-> s]
<1>4. Started(h, kind, stage, in) = c
  BY <1>3 DEF Started
<1>5. Call(c)
  BY <1>1, <1>2 DEF Call, OInv, Typed
<1> QED BY <1>1, <1>3, <1>4, <1>5

(* LockGuard::acquire: the table is as the call finds it.                  *)
LEMMA BeginDoes ==
    ASSUME OInv, NEW h \in Procs, Begin(h)
    PROVE  Does(h)
<1>1. /\ cache[h] # None /\ call[h] = None /\ part' = part
      /\ calls < MaxCalls /\ calls' = calls + 1 /\ lock' = h
  BY DEF Begin
<1>2. PICK in \in Inputs :
         \/ /\ call' = [call EXCEPT ![h] = Started(h, "write", "scan", in)]
            /\ cache' = cache
         \/ /\ call' = [call EXCEPT ![h] =
                           [Started(h, "update", "remove", in) EXCEPT
                              !.todo = PartsOf(in.keys), !.threads = InUse(PartsOf(in.keys))]]
            /\ cache' = [cache EXCEPT ![h] = NoEntries]
  BY DEF Begin
<1>3. calls' \in 0 .. MaxCalls
  BY <1>1, TableWriteAssumption DEF OInv, Typed
<1>4. CASE /\ call' = [call EXCEPT ![h] = Started(h, "write", "scan", in)]
           /\ cache' = cache
  <2> DEFINE c == Started(h, "write", "scan", in)
  <2>1. /\ Call(c) /\ c.stage = "scan" /\ c.todo = {} /\ c.before = part
        /\ c.sound = Sound(h)
    BY StartedIs DEF Kinds, Stages
  <2>2. call' = [call EXCEPT ![h] = c]
    BY <1>4
  <2> HIDE DEF c
  <2>3. /\ DOMAIN call' = Procs /\ \A g \in Procs : call'[g] # None => Call(call'[g])
        /\ call'[h] = c /\ \A g \in Procs \ {h} : call'[g] = call[g]
    BY <2>1, <2>2, CallNext DEF OInv
  <2>4. Table(part)' /\ (cache \in Caches)' /\ Live' /\ (Agrees(h) => Agrees(h)')
    BY <1>1, <1>4, QuietState
  <2>5. Typed'
    BY <1>1, <1>3, <2>3, <2>4 DEF Typed, Caches
  <2>6. Opened(h)'
    BY <1>1, <1>4, <2>1, <2>3 DEF Opened
  <2>7. ASSUME c.sound PROVE Exact(h)'
    <3>1. Cached(h)'
      <4>1. Agrees(h)
        BY <2>1, <2>7 DEF Sound, Agrees
      <4> QED BY <2>4, <4>1 DEF Cached, Alive, Agrees
    <3>2. Shaped(h)'
      BY <1>1, <2>1, <2>3 DEF Shaped
    <3>3. OthersAsBefore(h)'
      BY <1>1, <2>1, <2>3 DEF OthersAsBefore
    <3>4. Columned(h)' /\ Written(h)'
      BY <2>1, <2>3 DEF Columned, Written
    <3> QED BY <3>1, <3>2, <3>3, <3>4 DEF Exact
  <2>8. Going(h)'
    BY <2>1, <2>3, <2>6, <2>7 DEF Going
  <2> QED BY <1>1, <2>3, <2>4, <2>5, <2>8, PartSpared DEF Does
<1>5. CASE /\ call' = [call EXCEPT ![h] =
                          [Started(h, "update", "remove", in) EXCEPT
                             !.todo = PartsOf(in.keys), !.threads = InUse(PartsOf(in.keys))]]
           /\ cache' = [cache EXCEPT ![h] = NoEntries]
  <2> DEFINE s == Started(h, "update", "remove", in)
             P == PartsOf(in.keys)
             n == InUse(P)
             c == [s EXCEPT !.todo = P, !.threads = n]
  <2>1. /\ Call(s) /\ s.stage = "remove" /\ s.keys = in.keys /\ s.busy = {} /\ s.before = part
        /\ in.keys \in SUBSET Keys
    BY StartedIs DEF Kinds, Stages
  <2>2. P \in SUBSET Parts /\ P = PartsOf(in.keys)
    BY <2>1, PartsOfKeys
  <2>3. call' = [call EXCEPT ![h] = c]
    BY <1>5
  <2> HIDE DEF s, P
  <2>4. n \in 0 .. Threads
    BY <2>2, InUseIs
  <2> HIDE DEF n
  <2>5. /\ Call(c) /\ c.stage = "remove" /\ c.keys = in.keys /\ c.busy = {} /\ c.before = part
        /\ c.todo = P /\ c.threads = n
    BY <2>1, <2>2, <2>4 DEF Call
  <2> HIDE DEF c
  <2>6. /\ DOMAIN call' = Procs /\ \A g \in Procs : call'[g] # None => Call(call'[g])
        /\ call'[h] = c /\ \A g \in Procs \ {h} : call'[g] = call[g]
    BY <2>3, <2>5, CallNext DEF OInv
  <2>7. NoEntries \in Entries /\ \A p \in Parts : NoEntries[p] = None
    BY DEF NoEntries, Entries
  <2>8. (cache \in Caches)' /\ cache'[h] = NoEntries /\ \A g \in Procs \ {h} : cache'[g] = cache[g]
    BY <1>5, <2>7 DEF OInv, Typed, Caches
  <2>9. Live'
    <3> SUFFICES ASSUME NEW g \in Procs, NEW q \in Parts,
                        cache'[g] # None, cache'[g][q] # None, cache'[g][q].live
                 PROVE  part'[q] # None /\ cache'[g][q].keys = part'[q].keys
      BY DEF Live
    <3>1. g # h
      BY <2>7, <2>8
    <3> QED BY <1>1, <2>8, <3>1 DEF OInv, Live
  <2>10. Typed'
    BY <1>1, <1>3, <2>6, <2>8 DEF OInv, Typed, Caches, Table
  <2>11. Going(h)'
    <3>1. Cardinality({}) <= n
      BY <2>4, FS_EmptySet, TableWriteAssumption
    <3> QED BY <1>1, <2>2, <2>5, <2>6, <3>1 DEF Going, WriteStages, Rebuilding
  <2> QED BY <1>1, <2>6, <2>9, <2>10, <2>11, PartSpared DEF Does
<1> QED BY <1>2, <1>4, <1>5

(* TableStreamWriter::new looks at the directory.                          *)
LEMMA StreamNewDoes ==
    ASSUME OInv, NEW h \in Procs, StreamNew(h)
    PROVE  Does(h)
<1>1. /\ part' = part /\ cache' = cache /\ lock' = lock
      /\ calls < MaxCalls /\ calls' = calls + 1
  BY DEF StreamNew
<1>2. PICK in \in Inputs : call' = [call EXCEPT ![h] = Started(h, "stream", "new", in)]
  BY DEF StreamNew
<1> DEFINE c == Started(h, "stream", "new", in)
<1>3. Call(c) /\ c.stage = "new"
  BY StartedIs DEF Kinds, Stages
<1>4. call' = [call EXCEPT ![h] = c]
  BY <1>2
<1> HIDE DEF c
<1>5. /\ DOMAIN call' = Procs /\ \A g \in Procs : call'[g] # None => Call(call'[g])
      /\ call'[h] = c /\ \A g \in Procs \ {h} : call'[g] = call[g]
  BY <1>3, <1>4, CallNext DEF OInv
<1>6. Table(part)' /\ (cache \in Caches)' /\ Live'
  BY <1>1, QuietState
<1>7. Typed'
  BY <1>1, <1>5, <1>6, TableWriteAssumption DEF OInv, Typed, Caches
<1> QED BY <1>1, <1>3, <1>5, <1>6, <1>7, PartSpared DEF Does, Inside

(* What the end of a process in a call may leave of a partition.           *)
Leaves(h, p, d) ==
    /\ Directory(d)
    /\ part[p] # None => d # None /\ d.keys = part[p].keys
    /\ call[h].stage \in WriteStages /\ call[h].sound =>
         \A k \in Keys, x \in Cols : PartOf[k] = p /\ ~Named(h, k, x) =>
            CellAt(d, k, x) = CellAt(part[p], k, x)

(* A partition half made has no cell but some of the caller's.             *)
LEMMA UnfinishedIs ==
    ASSUME OInv, NEW h \in Procs, Call(call[h]), NEW p \in Parts, part[p] = None,
           NEW d \in Unfinished(h, p)
    PROVE  Leaves(h, p, d)
<1> DEFINE K == KeysIn(call[h].keys, p)
<1>1. K \in SUBSET Keys /\ call[h].cols \in SUBSET Cols /\ h \in Values
  BY DEF Call, KeysIn, Values
<1>2. CASE d = Bare
  <2> DEFINE N == {}
             f == Fill(N, N, Null)
  <2>1. N \in SUBSET Keys /\ N \in SUBSET Cols /\ f \in [N -> [N -> Values]] /\ FALSE \in BOOLEAN
    BY FillIs DEF Values
  <2>2. Bare = [keys |-> N, cols |-> f, ok |-> FALSE]
    BY DEF Bare
  <2> HIDE DEF f
  <2>3. Directory(Bare) /\ Bare.keys = {}
    BY <2>1, <2>2, DirectoryMade
  <2> QED BY <1>2, <2>3 DEF Leaves, CellAt
<1>3. CASE d # Bare
  <2>1. PICK C \in SUBSET call[h].cols, b \in BOOLEAN :
          d = [keys |-> K, cols |-> Fill(C, K, h), ok |-> b]
    BY <1>3 DEF Unfinished
  <2> DEFINE f == Fill(C, K, h)
  <2>2. DOMAIN f = C /\ f \in [C -> [K -> Values]] /\ C \in SUBSET Cols
    BY <1>1, FillIs
  <2> HIDE DEF f
  <2>3. d = [keys |-> K, cols |-> f, ok |-> b]
    BY <2>1 DEF f
  <2>4. \A k : k \in K => k \in call[h].keys
    BY DEF KeysIn
  <2> HIDE DEF K
  <2>5. Directory(d)
    BY <1>1, <2>2, <2>3, DirectoryMade
  <2>6. d.keys = K /\ DOMAIN d.cols = C
    BY <2>2, <2>3
  <2>7. \A k \in Keys, x \in Cols : ~Named(h, k, x) => ~(k \in d.keys /\ x \in DOMAIN d.cols)
    BY <2>4, <2>6 DEF Named
  <2> QED BY <2>5, <2>7 DEF Leaves, CellAt
<1> QED BY <1>2, <1>3

(* So it is for each partition, whatever the step that was cut short.      *)
LEMMA TornIs ==
    ASSUME OInv, NEW h \in Procs, call[h] # None, NEW t \in Torn(h)
    PROVE  /\ DOMAIN t = Parts
           /\ \A p \in Parts :
                /\ Leaves(h, p, t[p])
                /\ call[h].stage \in {"remove", "stream"} /\ p \notin PartsOf(call[h].keys) =>
                     t[p] = part[p]
<1> DEFINE Good == /\ DOMAIN t = Parts
                   /\ \A p \in Parts :
                        /\ Leaves(h, p, t[p])
                        /\ call[h].stage \in {"remove", "stream"}
                              /\ p \notin PartsOf(call[h].keys) => t[p] = part[p]
<1>1. Call(call[h]) /\ Table(part) /\ call[h].todo \in SUBSET Parts /\ call[h].busy \in SUBSET Parts
      /\ call[h].fields \in SUBSET (Parts \X Cols)
  BY DEF OInv, Typed, Call, Fields
<1>2. \A p \in Parts : Leaves(h, p, part[p])
  BY <1>1 DEF Leaves, Table
<1>3. ASSUME NEW p \in Parts, NEW d, t = [part EXCEPT ![p] = d], Leaves(h, p, d),
             call[h].stage \notin {"remove", "stream"} \/ p \in PartsOf(call[h].keys)
      PROVE  Good
  <2>1. DOMAIN t = Parts /\ t[p] = d /\ \A q \in Parts \ {p} : t[q] = part[q]
    BY <1>1, <1>3 DEF Table
  <2>2. ASSUME NEW q \in Parts
        PROVE  /\ Leaves(h, q, t[q])
               /\ call[h].stage \in {"remove", "stream"} /\ q \notin PartsOf(call[h].keys) =>
                     t[q] = part[q]
    <3>1. CASE q = p
      BY <1>3, <2>1, <3>1
    <3>2. CASE q # p
      <4>1. t[q] = part[q]
        BY <2>1, <3>2
      <4> QED BY <1>2, <4>1
    <3> QED BY <3>1, <3>2
  <2> QED BY <2>1, <2>2
<1>4. CASE t = part
  BY <1>1, <1>2, <1>4 DEF Table
<1>5. CASE t \in TornBuild(h)
  <2>1. PICK p \in call[h].todo :
          /\ t \in With(p, Unfinished(h, p))
          /\ \/ InStage(h, "create")
             \/ InStage(h, "stream") /\ p = Least(call[h].todo) /\ part[p] = None
    BY <1>5 DEF TornBuild
  <2>2. PICK d \in Unfinished(h, p) : t = [part EXCEPT ![p] = d]
    BY <2>1 DEF With
  <2>3. CASE InStage(h, "create")
    <3>1. call[h].stage = "create" /\ Opened(h)
      BY <2>3, Here DEF WriteStages
    <3>2. part[p] = None /\ p \in Parts
      BY <1>1, <3>1 DEF Opened
    <3> QED BY <1>1, <1>3, <2>2, <3>1, <3>2, UnfinishedIs
  <2>4. CASE InStage(h, "stream") /\ part[p] = None
    <3>1. call[h].stage = "stream" /\ Streaming(h)
      BY <2>4, Here DEF Going
    <3>2. p \in Parts /\ p \in PartsOf(call[h].keys)
      BY <1>1, <3>1 DEF Streaming
    <3> QED BY <1>1, <1>3, <2>2, <2>4, <3>2, UnfinishedIs
  <2> QED BY <2>1, <2>3, <2>4
<1>6. CASE t \in TornRebuild(h)
  <2> DEFINE P == {p \in call[h].busy : InStage(h, "remove") /\ part[p] = None}
  <2>1. PICK d : /\ t = [p \in Parts |-> IF p \in P THEN d[p] ELSE part[p]]
                 /\ \A p \in P : d[p] \in Unfinished(h, p)
    BY <1>6 DEF TornRebuild
  <2>2. ASSUME NEW p \in P
        PROVE  part[p] = None /\ p \in PartsOf(call[h].keys)
    <3>1. InStage(h, "remove") /\ part[p] = None /\ p \in call[h].busy
      OBVIOUS
    <3>2. Rebuilding(h)
      BY <3>1, Here DEF Going
    <3> QED BY <3>1, <3>2 DEF Rebuilding
  <2> HIDE DEF P
  <2>3. DOMAIN t = Parts /\ \A p \in Parts : t[p] = IF p \in P THEN d[p] ELSE part[p]
    BY <2>1
  <2>4. ASSUME NEW p \in Parts
        PROVE  /\ Leaves(h, p, t[p])
               /\ p \notin PartsOf(call[h].keys) => t[p] = part[p]
    <3>1. CASE p \in P
      <4>1. part[p] = None /\ p \in PartsOf(call[h].keys) /\ t[p] = d[p]
        BY <2>2, <2>3, <3>1
      <4>2. PICK e : e = d[p]
        OBVIOUS
      <4>3. e \in Unfinished(h, p)
        BY <2>1, <3>1, <4>2
      <4>4. Leaves(h, p, e)
        BY <1>1, <4>1, <4>3, UnfinishedIs
      <4> QED BY <4>1, <4>2, <4>4
    <3>2. CASE p \notin P
      <4>1. t[p] = part[p]
        BY <2>3, <3>2
      <4> QED BY <1>2, <4>1
    <3> QED BY <3>1, <3>2
  <2> QED BY <2>3, <2>4
<1>7. CASE t \in TornColumn(h)
  <2>1. PICK f \in NextField(h) : InStage(h, "columns") /\ t = [part EXCEPT ![f[1]].ok = FALSE]
    BY <1>7 DEF TornColumn
  <2>2. PICK p \in Parts : p = f[1] /\ f \in call[h].fields
    BY <1>1, <2>1 DEF NextField
  <2>3. call[h].stage = "columns" /\ Opened(h)
    BY <2>1, Here DEF WriteStages
  <2>4. part[p] # None /\ Directory(part[p])
    BY <1>1, <2>2, <2>3 DEF Opened, Table
  <2>5. PICK o : o = part[p]
    OBVIOUS
  <2> DEFINE d == [o EXCEPT !.ok = FALSE]
  <2>6. Directory(d) /\ d # None /\ d.keys = o.keys /\ d.cols = o.cols
    <3>1. Directory(o) /\ o # None /\ FALSE \in BOOLEAN
      BY <2>4, <2>5
    <3> QED BY <3>1, OkReplaced
  <2>7. t = [part EXCEPT ![p] = d]
    BY <2>1, <2>2, <2>5
  <2> HIDE DEF d
  <2>8. Leaves(h, p, d)
    BY <2>4, <2>5, <2>6 DEF Leaves, CellAt
  <2> QED BY <1>3, <2>3, <2>7, <2>8
<1>8. CASE t \in TornRows(h)
  <2>1. PICK p \in call[h].todo, C \in SUBSET call[h].cols :
           InStage(h, "rows") /\ t \in With(p, After(h, p, C, FALSE))
    BY <1>8 DEF TornRows
  <2>2. PICK d \in After(h, p, C, FALSE) : t = [part EXCEPT ![p] = d]
    BY <2>1 DEF With
  <2>3. PICK whole \in BOOLEAN : whole = FALSE
    OBVIOUS
  <2>4. /\ p \in Parts /\ Directory(d)
        /\ part[p] = None <=> d = None
        /\ part[p] # None => d.keys = part[p].keys
        /\ call[h].sound =>
             /\ part[p] # None /\ DOMAIN d.cols = DOMAIN part[p].cols
             /\ \A k \in Keys, x \in Cols : PartOf[k] = p =>
                  /\ ~Named(h, k, x) => CellAt(d, k, x) = CellAt(part[p], k, x)
                  /\ whole /\ Named(h, k, x) => CellAt(d, k, x) = h
    <3>1. InStage(h, "rows") /\ d \in After(h, p, C, whole) /\ Covers(h, C, whole)
      BY <2>1, <2>2, <2>3 DEF Covers
    <3>2. RowsIn(h, p, whole, d)
      BY <3>1, AfterIs
    <3> QED BY <3>2 DEF RowsIn
  <2>5. Leaves(h, p, d)
    BY <2>4 DEF Leaves
  <2>6. call[h].stage = "rows"
    BY <2>1, Here
  <2> QED BY <1>3, <2>2, <2>4, <2>5, <2>6
<1> QED BY <1>4, <1>5, <1>6, <1>7, <1>8 DEF Torn

(* A process ends in the middle of a call.                                 *)
LEMMA CrashDoes ==
    ASSUME OInv, NEW h \in Procs, Crash(h)
    PROVE  Does(h)
<1>1. /\ call[h] # None /\ part' \in Torn(h)
      /\ call' = [call EXCEPT ![h] = None] /\ cache' = [cache EXCEPT ![h] = None]
      /\ lock' = (IF lock = h THEN Left ELSE lock) /\ calls' = calls
  BY DEF Crash
<1>2. PICK t : t = part'
  OBVIOUS
<1>3. /\ DOMAIN t = Parts
      /\ \A p \in Parts :
           /\ Leaves(h, p, t[p])
           /\ call[h].stage \in {"remove", "stream"} /\ p \notin PartsOf(call[h].keys) =>
                t[p] = part[p]
  BY <1>1, <1>2, TornIs
<1>4. Table(part)'
  BY <1>2, <1>3 DEF Table, Leaves
<1>5. cache'[h] = None /\ (\A g \in Procs \ {h} : cache'[g] = cache[g]) /\ (cache \in Caches)'
  BY <1>1 DEF OInv, Typed, Caches
<1>6. Live'
  <2> SUFFICES ASSUME NEW g \in Procs, NEW q \in Parts,
                      cache'[g] # None, cache'[g][q] # None, cache'[g][q].live
               PROVE  part'[q] # None /\ cache'[g][q].keys = part'[q].keys
    BY DEF Live
  <2>1. cache'[g] = cache[g]
    BY <1>5
  <2>2. part[q] # None /\ cache[g][q].keys = part[q].keys
    BY <2>1 DEF OInv, Live
  <2>3. part'[q] # None /\ part'[q].keys = part[q].keys
    BY <1>2, <1>3, <2>2 DEF Leaves
  <2> QED BY <2>1, <2>2, <2>3
<1>7. Spares(h)
  <2>1. ASSUME call[h].sound, call[h].stage \in WriteStages, NEW k \in Keys, NEW x \in Cols,
               ~Named(h, k, x)
        PROVE  Cell(part', k, x) = Cell(part, k, x)
    <3>1. PICK p \in Parts : p = PartOf[k]
      BY PartOfKey
    <3>2. Leaves(h, p, part'[p])
      BY <1>2, <1>3
    <3>3. CellAt(part'[p], k, x) = CellAt(part[p], k, x)
      BY <2>1, <3>1, <3>2 DEF Leaves
    <3> QED BY <3>1, <3>3 DEF Cell, CellAt
  <2>2. call[h].stage \in {"remove", "stream"} =>
          \A p \in Parts \ PartsOf(call[h].keys) : part'[p] = part[p]
    BY <1>2, <1>3
  <2> QED BY <2>1, <2>2 DEF Spares
<1>8. /\ DOMAIN call' = Procs /\ \A g \in Procs : call'[g] # None => Call(call'[g])
      /\ call'[h] = None /\ \A g \in Procs \ {h} : call'[g] = call[g]
  BY <1>1, CallNext DEF OInv
<1>9. Typed'
  BY <1>1, <1>4, <1>5, <1>8 DEF OInv, Typed, Caches
<1> QED BY <1>6, <1>7, <1>8, <1>9 DEF Does, Inside

----------------------------------------------------------------------------
(* The invariant.                                                          *)

(* It holds at the beginning.                                              *)
LEMMA InitOutcomes == Init => OInv
<1> SUFFICES ASSUME Init PROVE OInv
  OBVIOUS
<1>1. \A h \in Procs : cache[h] = None /\ call[h] = None
  BY DEF Init
<1>2. Table(FirstTable)
  <2> SUFFICES ASSUME NEW p \in Parts PROVE Directory(FirstTable[p])
    BY DEF Table, FirstTable
  <2> DEFINE K == KeysIn(FirstKeys, p)
             f == Fill(FirstCols, K, Old)
             d == [keys |-> K, cols |-> f, ok |-> TRUE]
  <2>1. K \in SUBSET Keys /\ FirstCols \in SUBSET Cols /\ Old \in Values
    BY TableWriteAssumption DEF KeysIn, Values
  <2>2. f \in [FirstCols -> [K -> Values]]
    BY <2>1, FillIs
  <2>3. FirstTable[p] = IF K = {} THEN None ELSE d
    BY DEF FirstTable
  <2> HIDE DEF K, f
  <2>4. Directory(d)
    BY <2>1, <2>2, DirectoryMade
  <2> QED BY <2>3, <2>4 DEF Directory
<1>3. Table(NoEntries)
  BY DEF Table, NoEntries, Directory
<1>4. Typed
  BY <1>2, <1>3, TableWriteAssumption DEF Init, Typed
<1>5. Live /\ \A h \in Procs : ~Inside(h)
  BY <1>1 DEF Live, Inside
<1> QED BY <1>4, <1>5, InitInv DEF OInv

(* No partition changes.                                                   *)
Unmoved == \A p \in Parts : part'[p] = part[p]

(* Then no cell has changed.                                               *)
LEMMA UnmovedSpares ==
    ASSUME Unmoved, NEW h \in Procs
    PROVE  Spares(h)
BY PartOfKey DEF Unmoved, Spares, Cell

(* What a call has reached depends on the directory, its own cache and     *)
(* itself.                                                                 *)
LEMMA GoingStays ==
    ASSUME NEW g \in Procs, Call(call[g]), Going(g),
           Unmoved, cache'[g] = cache[g], call'[g] = call[g]
    PROVE  Going(g)'
<1>1. /\ PartsOf(call[g].keys) \subseteq Parts /\ call[g].todo \subseteq Parts
      /\ call[g].fields \subseteq Parts \X Cols
  BY PartsOfKeys DEF Call, Fields
<1>2. Opened(g) => Opened(g)'
  BY <1>1 DEF Opened, Found, Unmoved
<1>3. Exact(g) => Exact(g)'
  <2>1. Cached(g) => Cached(g)'
    BY DEF Cached, Alive, Agrees, EntryOf, Unmoved
  <2>2. Shaped(g) => Shaped(g)'
    BY DEF Shaped, Unmoved
  <2>3. \A k \in Keys, x \in Cols : Cell(part', k, x) = Cell(part, k, x)
    BY PartOfKey DEF Cell, Unmoved
  <2>4. OthersAsBefore(g) => OthersAsBefore(g)'
    BY <2>3 DEF OthersAsBefore, Named
  <2>5. Columned(g) => Columned(g)'
    <3>1. Existing' = Existing /\ Existing \subseteq Parts
      BY DEF Existing, Unmoved
    <3>2. \A f \in call[g].fields : part'[f[1]] = part[f[1]]
      BY <1>1 DEF Unmoved
    <3>3. \A p \in Existing : part'[p] = part[p]
      BY <3>1 DEF Unmoved
    <3> QED BY <3>1, <3>2, <3>3 DEF Columned
  <2>6. Written(g) => Written(g)'
    BY <2>3 DEF Written, Named
  <2> QED BY <2>1, <2>2, <2>4, <2>5, <2>6 DEF Exact
<1>4. \A p : Built(g, p)' = Built(g, p)
  BY DEF Built
<1>5. Rebuilding(g) => Rebuilding(g)'
  BY <1>1, <1>4 DEF Rebuilding, Unmoved
<1>6. Streaming(g) => Streaming(g)'
  BY <1>4 DEF Streaming, Unmoved
<1> QED BY <1>2, <1>3, <1>5, <1>6 DEF Going

(* A step of h that leaves the work of the others alone.                   *)
Moves(h) ==
    Does(h) /\ \A g \in Procs \ {h} : Inside(g) => Unmoved /\ cache'[g] = cache[g]

(* Such a step keeps the invariant.                                        *)
LEMMA MovesKeep ==
    ASSUME OInv, IInv', NEW h \in Procs, Moves(h)
    PROVE  OInv' /\ \A g \in Procs : Inside(g) => Spares(g)
<1>1. Typed' /\ Live'
  BY DEF Moves, Does
<1>2. ASSUME NEW g \in Procs, Inside(g)' PROVE Going(g)'
  <2>1. CASE g = h
    BY <1>2, <2>1 DEF Moves, Does
  <2>2. CASE g # h
    <3>1. call'[g] = call[g] /\ Inside(g)
      BY <1>2, <2>2 DEF Moves, Does, Inside
    <3>2. Unmoved /\ cache'[g] = cache[g] /\ Going(g) /\ Call(call[g])
      BY <2>2, <3>1 DEF Moves, OInv, Typed, Inside
    <3> QED BY <3>1, <3>2, GoingStays
  <2> QED BY <2>1, <2>2
<1>3. ASSUME NEW g \in Procs, Inside(g) PROVE Spares(g)
  <2>1. CASE g = h
    BY <2>1 DEF Moves, Does
  <2>2. CASE g # h
    <3>1. Unmoved
      BY <1>3, <2>2 DEF Moves
    <3> QED BY <3>1, UnmovedSpares
  <2> QED BY <2>1, <2>2
<1> QED BY <1>1, <1>2, <1>3 DEF OInv

(* Whoever is at work is alone.                                            *)
LEMMA InsideMoves ==
    ASSUME OInv, NEW h \in Procs, Inside(h), Does(h)
    PROVE  Moves(h)
<1>1. lock = h
  BY DEF OInv, IInv, LockHeld
<1>2. \A g \in Procs \ {h} : ~Inside(g)
  BY <1>1, Alone DEF OInv
<1> QED BY <1>2 DEF Moves

(* A step of a call is such a step,                                        *)
LEMMA StepMoves ==
    ASSUME OInv, NothingGone, NEW h \in Procs, Step(h)
    PROVE  Moves(h)
<1>1. CASE StreamLock(h)
  BY <1>1, StreamLockDoes DEF Moves, StreamLock, Unmoved
<1>2. CASE ~StreamLock(h)
  <2>1. Does(h)
    BY <1>2, ScanDoes, CreatePartitionDoes, StartLocatingDoes, LocateDoes, PlanColumnsDoes,
       CreateColumnDoes, StartRowsDoes, WritePartitionDoes, WriteFailsDoes, EndsDo,
       UpdateRemoveDoes, UpdateBuildDoes, StreamPartitionDoes DEF Step
  <2>2. Inside(h)
    BY <1>2 DEF Step, Scan, CreatePartition, StartLocating, Locate, PlanColumns, CreateColumn,
       StartRows, WritePartition, WriteFails, EndWrite, UpdateRemove, UpdateBuild, EndUpdate,
       StreamPartition, StreamFinish, InStage, Inside
  <2> QED BY <2>1, <2>2, InsideMoves
<1> QED BY <1>1, <1>2

(* the end of a process is,                                                *)
LEMMA CrashMoves ==
    ASSUME OInv, NEW h \in Procs, Crash(h)
    PROVE  Moves(h)
<1>1. CASE Inside(h)
  BY <1>1, CrashDoes, InsideMoves
<1>2. CASE ~Inside(h)
  <2>1. call[h].stage = "new" /\ call[h] # None /\ part' \in Torn(h)
    BY <1>2 DEF Crash, Inside
  <2>2. TornBuild(h) = {} /\ TornColumn(h) = {} /\ TornRows(h) = {}
    BY <2>1 DEF TornBuild, TornColumn, TornRows, InStage
  <2>3. \A t \in TornRebuild(h) : t = [p \in Parts |-> part[p]]
    BY <2>1 DEF TornRebuild, InStage
  <2>4. Unmoved
    BY <2>1, <2>2, <2>3 DEF Torn, Unmoved
  <2>5. \A g \in Procs \ {h} : cache'[g] = cache[g]
    BY DEF Crash, OInv, Typed
  <2> QED BY <2>4, <2>5, CrashDoes DEF Moves
<1> QED BY <1>1, <1>2

(* and so is the beginning of a call.                                      *)
LEMMA BeginMoves ==
    ASSUME OInv, NEW h \in Procs, Begin(h) \/ StreamNew(h)
    PROVE  Moves(h)
<1>1. CASE Begin(h)
  <2>1. \A g \in Procs : ~Inside(g)
    BY <1>1, TableWriteAssumption, NoneAtWork DEF Begin, OInv
  <2> QED BY <1>1, <2>1, BeginDoes DEF Moves
<1>2. CASE StreamNew(h)
  BY <1>2, StreamNewDoes DEF Moves, StreamNew, Unmoved
<1> QED BY <1>1, <1>2

(* open_table and close, the removal of a lock, and steps of others.       *)
LEMMA QuietMoves ==
    ASSUME OInv, IInv', part' = part, call' = call, calls' = calls,
           lock' \in Procs \cup {None, Left}, (cache \in Caches)', Live',
           \A g \in Procs : call[g] # None => cache'[g] = cache[g]
    PROVE  OInv' /\ \A g \in Procs : Inside(g) => Spares(g)
<1>1. Typed'
  BY DEF OInv, Typed, Caches, Table
<1>2. ASSUME NEW g \in Procs, Inside(g)' PROVE Going(g)'
  <2>1. Inside(g) /\ Going(g) /\ cache'[g] = cache[g] /\ Call(call[g])
    BY <1>2 DEF Inside, OInv, Typed
  <2> QED BY <2>1, GoingStays DEF Unmoved
<1> QED BY <1>1, <1>2, PartSpared DEF OInv

(* open_table and close change the cache of a process that is in no call.  *)
LEMMA OpenKeeps ==
    ASSUME OInv, IInv', NEW h \in Procs, Open(h) \/ Close(h)
    PROVE  OInv' /\ \A g \in Procs : Inside(g) => Spares(g)
<1>1. PICK e \in {None, NoEntries} : cache' = [cache EXCEPT ![h] = e]
  BY DEF Open, Close
<1>2. /\ call[h] = None /\ part' = part /\ call' = call /\ calls' = calls /\ lock' = lock
  BY DEF Open, Close
<1>3. NoEntries \in Entries /\ \A p \in Parts : NoEntries[p] = None
  BY DEF NoEntries, Entries
<1>4. (cache \in Caches)' /\ cache'[h] = e /\ \A g \in Procs \ {h} : cache'[g] = cache[g]
  BY <1>1, <1>3 DEF OInv, Typed, Caches
<1>5. Live'
  <2> SUFFICES ASSUME NEW g \in Procs, NEW q \in Parts,
                      cache'[g] # None, cache'[g][q] # None, cache'[g][q].live
               PROVE  part'[q] # None /\ cache'[g][q].keys = part'[q].keys
    BY DEF Live
  <2>1. g # h
    BY <1>3, <1>4
  <2> QED BY <1>2, <1>4, <2>1 DEF OInv, Live
<1>6. lock' \in Procs \cup {None, Left}
  BY <1>2 DEF OInv, Typed
<1>7. \A g \in Procs : call[g] # None => cache'[g] = cache[g]
  BY <1>2, <1>4
<1> QED BY <1>2, <1>4, <1>5, <1>6, <1>7, QuietMoves

(* Every step keeps the invariant, and spares what no caller at work has   *)
(* named.                                                                  *)
LEMMA NextOutcomes ==
    OInv /\ MapsInv /\ [Next]_vars => OInv' /\ \A g \in Procs : Inside(g) => Spares(g)
<1> SUFFICES ASSUME OInv, NothingGone, [Next]_vars
             PROVE  OInv' /\ \A g \in Procs : Inside(g) => Spares(g)
  BY DEF MapsInv
<1>1. IInv'
  BY NextInv DEF OInv
<1>2. CASE UNCHANGED vars
  <2>1. /\ part' = part /\ call' = call /\ calls' = calls /\ cache' = cache
        /\ lock' \in Procs \cup {None, Left}
    BY <1>2 DEF vars, OInv, Typed
  <2>2. (cache \in Caches)' /\ Live' /\ \A g \in Procs : call[g] # None => cache'[g] = cache[g]
    BY <2>1, QuietState
  <2> QED BY <1>1, <2>1, <2>2, QuietMoves
<1>3. ASSUME NEW h \in Procs, Open(h) \/ Close(h)
      PROVE  OInv' /\ \A g \in Procs : Inside(g) => Spares(g)
  BY <1>1, <1>3, OpenKeeps
<1>4. ASSUME NEW h \in Procs, Begin(h) \/ StreamNew(h) \/ Step(h) \/ Crash(h)
      PROVE  OInv' /\ \A g \in Procs : Inside(g) => Spares(g)
  <2>1. Moves(h)
    BY <1>4, BeginMoves, StepMoves, CrashMoves
  <2> QED BY <1>1, <2>1, MovesKeep
<1>5. CASE Unlock
  <2>1. /\ part' = part /\ call' = call /\ calls' = calls /\ cache' = cache
        /\ lock' \in Procs \cup {None, Left}
    BY <1>5 DEF Unlock
  <2>2. (cache \in Caches)' /\ Live' /\ \A g \in Procs : call[g] # None => cache'[g] = cache[g]
    BY <2>1, QuietState
  <2> QED BY <1>1, <2>1, <2>2, QuietMoves
<1> QED BY <1>2, <1>3, <1>4, <1>5 DEF Next

----------------------------------------------------------------------------
(* The files that are mapped.                                              *)

(* Files are removed, or opened by a write: of the right type.             *)
LEMMA MapsTyped ==
    ASSUME OInv, maps \in [Procs -> Maps], NEW h \in Procs
    PROVE  /\ \A F : Unlinked(F) \in [Procs -> Maps]
           /\ [maps EXCEPT ![h] = NoMaps] \in [Procs -> Maps]
           /\ \A p \in Parts, C \in SUBSET Cols :
                /\ Opening(h, p, C) \in [Procs -> Maps]
                /\ \A g \in Procs : Opening(h, p, C)[g].gone = maps[g].gone
<1>1. \A g \in Procs : maps[g] \in Maps /\ maps[g].open \subseteq Fields /\ maps[g].gone \subseteq Fields
  BY DEF Maps
<1>2. ASSUME NEW F PROVE Unlinked(F) \in [Procs -> Maps]
  BY <1>1 DEF Unlinked, Maps
<1>3. ASSUME NEW p \in Parts, NEW C \in SUBSET Cols
      PROVE  /\ Opening(h, p, C) \in [Procs -> Maps]
             /\ \A g \in Procs : Opening(h, p, C)[g].gone = maps[g].gone
  <2> DEFINE o == maps[h].open \cup ({p} \X C)
             n == [maps[h] EXCEPT !.open = o]
  <2>1. o \in SUBSET Fields
    BY <1>1 DEF Fields
  <2>2. Opening(h, p, C) = [maps EXCEPT ![h] = n]
    BY DEF Opening
  <2> HIDE DEF o
  <2>3. n \in Maps /\ n.gone = maps[h].gone
    BY <1>1, <2>1 DEF Maps
  <2> HIDE DEF n
  <2> QED BY <1>1, <2>2, <2>3
<1>4. NoMaps \in Maps
  BY DEF NoMaps, Maps
<1> QED BY <1>2, <1>3, <1>4

(* One call changes: it ends, is no write, or the write it was.            *)
LEMMA GoneStays ==
    ASSUME OInv, NothingGone, NEW h \in Procs, NEW STATE c, call' = [call EXCEPT ![h] = c],
           \/ c = None
           \/ c.stage \notin WriteStages
           \/ call[h] # None /\ call[h].stage \in WriteStages /\ c.sound = call[h].sound,
           \A g \in Procs : call'[g] # None /\ call'[g].stage \in WriteStages =>
               maps'[g].gone = maps[g].gone
    PROVE  NothingGone'
<1>1. call'[h] = c /\ \A g \in Procs \ {h} : call'[g] = call[g]
  BY DEF OInv, Typed
<1> SUFFICES ASSUME NEW g \in Procs, call'[g] # None, call'[g].stage \in WriteStages, call'[g].sound
             PROVE  maps'[g].gone = {}
  BY DEF NothingGone
<1>2. call[g] # None /\ call[g].stage \in WriteStages /\ call[g].sound
  BY <1>1
<1> QED BY <1>2 DEF NothingGone

(* What a step of a write makes of its call.                               *)
LEMMA SoundStays ==
    ASSUME NEW c, DOMAIN c = CallFields
    PROVE  /\ \A s, P : [c EXCEPT !.stage = s, !.todo = P].sound = c.sound
           /\ \A P : [c EXCEPT !.todo = P].sound = c.sound
           /\ \A s, F : [c EXCEPT !.stage = s, !.fields = F].sound = c.sound
           /\ \A F : [c EXCEPT !.fields = F].sound = c.sound
           /\ \A P, b : [c EXCEPT !.todo = P, !.failed = b].sound = c.sound
BY DEF CallFields

(* A step of a write removes at most files that others have mapped.        *)
LEMMA WriteMaps ==
    ASSUME OInv, MapsInv, NEW h \in Procs, InStage(h, call[h].stage), call[h].stage \in WriteStages,
           Step(h)
    PROVE  MapsInv'
<1>1. /\ call[h] # None /\ DOMAIN call[h] = CallFields /\ Inside(h)
      /\ call[h].stage # "remove" /\ call[h].stage # "stream" /\ call[h].stage # "new"
      /\ call[h].cols \subseteq Cols /\ call[h].todo \subseteq Parts
  BY DEF InStage, OInv, IInv, Domains, Inside, WriteStages, Typed, Call
<1>2. \A g \in Procs \ {h} : ~Inside(g)
  BY <1>1, Alone DEF OInv, IInv, LockHeld
<1>3. maps \in [Procs -> Maps] /\ NothingGone
  BY DEF MapsInv
<1>4. ASSUME End(h), maps' = maps \/ \E F : maps' = Unlinked(F)
      PROVE  MapsInv'
  <2>1. call' = [call EXCEPT ![h] = None]
    BY <1>4 DEF End
  <2>2. call'[h] = None /\ \A g \in Procs \ {h} : call'[g] = call[g]
    BY <2>1 DEF OInv, Typed
  <2>3. \A g \in Procs : call'[g] = None \/ call'[g].stage \notin WriteStages
    BY <1>2, <2>2 DEF Inside, WriteStages
  <2>4. NothingGone'
    BY <2>3 DEF NothingGone
  <2>5. maps' \in [Procs -> Maps]
    BY <1>3, <1>4, MapsTyped
  <2> QED BY <2>4, <2>5 DEF MapsInv
<1>5. CASE Fails(h)
  BY <1>4, <1>5 DEF Fails
<1>6. ASSUME NEW STATE c, call' = [call EXCEPT ![h] = c], c.sound = call[h].sound,
             maps' \in [Procs -> Maps], \A g \in Procs : maps'[g].gone = maps[g].gone
      PROVE  MapsInv'
  BY <1>1, <1>3, <1>6, GoneStays DEF MapsInv
<1>7. CASE ~Fails(h) /\ (Scan(h) \/ CreatePartition(h) \/ StartLocating(h) \/ Locate(h)
                         \/ PlanColumns(h) \/ StartRows(h))
  <2>1. maps' = maps
    BY <1>7 DEF Scan, CreatePartition, StartLocating, Locate, PlanColumns, StartRows
  <2>2. ASSUME NEW s, NEW P, call' = [call EXCEPT ![h] = [call[h] EXCEPT !.stage = s, !.todo = P]]
        PROVE  MapsInv'
    <3>1. PICK c : c = [call[h] EXCEPT !.stage = s, !.todo = P]
      OBVIOUS
    <3>2. c.sound = call[h].sound /\ call' = [call EXCEPT ![h] = c]
      BY <1>1, <2>2, <3>1, SoundStays
    <3> QED BY <1>3, <1>6, <2>1, <3>2
  <2>3. ASSUME NEW P, call' = [call EXCEPT ![h] = [call[h] EXCEPT !.todo = P]]
        PROVE  MapsInv'
    <3>1. PICK c : c = [call[h] EXCEPT !.todo = P]
      OBVIOUS
    <3>2. c.sound = call[h].sound /\ call' = [call EXCEPT ![h] = c]
      BY <1>1, <2>3, <3>1, SoundStays
    <3> QED BY <1>3, <1>6, <2>1, <3>2
  <2>4. CASE Scan(h) \/ StartLocating(h) \/ StartRows(h)
    <3>1. PICK s, P : Goes(h, s, P)
      BY <1>7, <2>4 DEF Scan, StartLocating, StartRows
    <3> QED BY <2>2, <3>1 DEF Goes
  <2>5. CASE CreatePartition(h)
    <3>1. PICK p : call' = [call EXCEPT ![h].todo = @ \ {p}]
      BY <1>7, <2>5 DEF CreatePartition
    <3>2. PICK P : P = call[h].todo \ {p}
      OBVIOUS
    <3> QED BY <2>3, <3>1, <3>2
  <2>6. CASE Locate(h)
    <3>1. PICK p : call' = [call EXCEPT ![h].todo = @ \ {p}]
      BY <1>7, <2>6 DEF Locate
    <3>2. PICK P : P = call[h].todo \ {p}
      OBVIOUS
    <3> QED BY <2>3, <3>1, <3>2
  <2>7. CASE PlanColumns(h)
    <3>1. PICK F : F = Lacking(h)
      OBVIOUS
    <3>2. call' = [call EXCEPT ![h].stage = "columns", ![h].fields = F]
      BY <1>7, <2>7, <3>1 DEF PlanColumns
    <3>3. PICK c : c = [call[h] EXCEPT !.stage = "columns", !.fields = F]
      OBVIOUS
    <3>4. call' = [call EXCEPT ![h] = c]
      BY <3>2, <3>3
    <3>5. c.sound = call[h].sound
      BY <1>1, <3>3, SoundStays
    <3> QED BY <1>3, <1>6, <2>1, <3>4, <3>5
  <2> QED BY <1>7, <2>4, <2>5, <2>6, <2>7
<1>8. CASE CreateColumn(h)
  <2>1. PICK f \in NextField(h) :
           \/ call' = [call EXCEPT ![h].fields = @ \ {f}] /\ maps' = maps
           \/ maps' = Unlinked({f}) /\ End(h)
           \/ Fails(h)
    BY <1>8 DEF CreateColumn
  <2>2. CASE call' = [call EXCEPT ![h].fields = @ \ {f}] /\ maps' = maps
    <3>1. PICK F : F = call[h].fields \ {f}
      OBVIOUS
    <3>2. PICK c : c = [call[h] EXCEPT !.fields = F]
      OBVIOUS
    <3>3. call' = [call EXCEPT ![h] = c] /\ c.sound = call[h].sound
      BY <1>1, <2>2, <3>1, <3>2, SoundStays
    <3> QED BY <1>3, <1>6, <2>2, <3>3
  <2> QED BY <1>4, <1>5, <2>1, <2>2
<1>9. CASE WritePartition(h)
  <2>1. PICK p \in call[h].todo :
           /\ maps' = Opening(h, p, call[h].cols \ Away(h, p))
           /\ call' = [call EXCEPT ![h].todo = @ \ {p}]
    BY <1>9 DEF WritePartition
  <2>2. PICK P : P = call[h].todo \ {p}
    OBVIOUS
  <2>3. PICK c : c = [call[h] EXCEPT !.todo = P]
    OBVIOUS
  <2>4. call' = [call EXCEPT ![h] = c] /\ c.sound = call[h].sound
    BY <1>1, <2>1, <2>2, <2>3, SoundStays
  <2>5. maps' \in [Procs -> Maps] /\ \A g \in Procs : maps'[g].gone = maps[g].gone
    BY <1>1, <1>3, <2>1, MapsTyped
  <2> QED BY <1>6, <2>4, <2>5
<1>10. CASE WriteFails(h)
  <2> DEFINE Rest(p) == {q \in call[h].todo : Thread(h, q) # Thread(h, p)}
  <2>1. PICK p \in call[h].todo, C \in SUBSET call[h].cols :
           /\ maps' = Opening(h, p, C)
           /\ call' = [call EXCEPT ![h].todo = Rest(p), ![h].failed = TRUE]
    BY <1>10 DEF WriteFails
  <2>2. PICK P : P = Rest(p)
    OBVIOUS
  <2>3. PICK c : c = [call[h] EXCEPT !.todo = P, !.failed = TRUE]
    OBVIOUS
  <2>4. call' = [call EXCEPT ![h] = c]
    BY <2>1, <2>2, <2>3
  <2> HIDE DEF Rest
  <2>5. c.sound = call[h].sound
    BY <1>1, <2>3, SoundStays
  <2>6. maps' \in [Procs -> Maps] /\ \A g \in Procs : maps'[g].gone = maps[g].gone
    BY <1>1, <1>3, <2>1, MapsTyped
  <2> QED BY <1>6, <2>4, <2>5, <2>6
<1>11. CASE EndWrite(h)
  BY <1>5, <1>11 DEF EndWrite
<1>12. ~(UpdateRemove(h) \/ UpdateBuild(h) \/ EndUpdate(h)
         \/ StreamLock(h) \/ StreamPartition(h) \/ StreamFinish(h))
  BY <1>1 DEF UpdateRemove, UpdateBuild, EndUpdate, StreamLock, StreamPartition, StreamFinish, InStage
<1> QED BY <1>5, <1>7, <1>8, <1>9, <1>10, <1>11, <1>12 DEF Step

(* A step of another call: while it is at work there is no write.          *)
LEMMA OtherMaps ==
    ASSUME OInv, MapsInv, NEW h \in Procs, InStage(h, call[h].stage),
           call[h].stage \notin WriteStages, Step(h)
    PROVE  MapsInv'
<1>1. maps \in [Procs -> Maps] /\ NothingGone
  BY DEF MapsInv
<1>2. CASE UpdateRemove(h)
  <2>1. PICK p \in call[h].todo :
           /\ call' = [call EXCEPT ![h].todo = @ \ {p}, ![h].busy = @ \cup {p}]
           /\ maps' = maps \/ maps' = Unlinked({p} \X Cols)
    BY <1>2 DEF UpdateRemove
  <2>2. PICK F : maps' = maps \/ maps' = Unlinked(F)
    BY <2>1
  <2>3. maps' \in [Procs -> Maps]
    BY <1>1, <2>2, MapsTyped
  <2>4. call[h] # None /\ call[h].stage = "remove" /\ DOMAIN call[h] = CallFields /\ Inside(h)
    BY <1>2 DEF UpdateRemove, InStage, Inside, OInv, IInv, Domains
  <2>5. \A g \in Procs \ {h} : ~Inside(g)
    BY <2>4, Alone DEF OInv, IInv, LockHeld
  <2>6. call'[h].stage = "remove" /\ \A g \in Procs \ {h} : call'[g] = call[g]
    BY <2>1, <2>4 DEF OInv, Typed, CallFields
  <2>7. \A g \in Procs : call'[g] = None \/ call'[g].stage \notin WriteStages
    BY <2>5, <2>6 DEF Inside, WriteStages
  <2> QED BY <2>3, <2>7 DEF NothingGone, MapsInv
<1>3. CASE ~UpdateRemove(h)
  <2>1. UpdateBuild(h) \/ EndUpdate(h) \/ StreamLock(h) \/ StreamPartition(h) \/ StreamFinish(h)
    BY <1>3 DEF Step, Scan, CreatePartition, StartLocating, Locate, PlanColumns, CreateColumn,
       StartRows, WritePartition, WriteFails, EndWrite, InStage, WriteStages
  <2>2. maps' = maps
    BY <2>1 DEF UpdateBuild, EndUpdate, StreamLock, StreamPartition, StreamFinish, Fails
  <2>3. call[h] # None /\ DOMAIN call[h] = CallFields
    BY DEF InStage, OInv, IInv, Domains
  <2>4. /\ \A g \in Procs \ {h} : call'[g] = call[g]
        /\ call'[h] = None \/ call'[h].stage \notin WriteStages
    <3>1. CASE Fails(h)
      BY <3>1 DEF Fails, End, OInv, Typed
    <3>2. CASE UpdateBuild(h)
      <4>1. PICK p :
               \/ call' = [call EXCEPT ![h].busy = @ \ {p}]
               \/ call' = [call EXCEPT ![h].busy = @ \ {p}, ![h].threads = @ - 1, ![h].failed = TRUE]
        BY <3>2 DEF UpdateBuild
      <4> QED BY <2>3, <4>1 DEF OInv, Typed, CallFields
    <3>3. CASE StreamLock(h)
      <4>1. \/ call' = [call EXCEPT ![h].stage = "stream", ![h].before = part,
                                    ![h].todo = PartsOf(call[h].keys)]
            \/ call' = [call EXCEPT ![h] = None]
        BY <3>3 DEF StreamLock
      <4> QED BY <2>3, <4>1 DEF OInv, Typed, CallFields, WriteStages
    <3>4. CASE StreamPartition(h) /\ ~Fails(h)
      <4>1. PICK P : call' = [call EXCEPT ![h].todo = P]
        BY <3>4 DEF StreamPartition
      <4> QED BY <2>3, <4>1 DEF OInv, Typed, CallFields
    <3> QED BY <2>1, <3>1, <3>2, <3>3, <3>4 DEF EndUpdate, StreamFinish
  <2> QED BY <1>1, <2>2, <2>4 DEF NothingGone, MapsInv
<1> QED BY <1>2, <1>3

(* The beginning of a call, its sudden end, and the rest.                  *)
LEMMA CallMaps ==
    ASSUME OInv, MapsInv, NEW h \in Procs,
           Open(h) \/ Close(h) \/ Begin(h) \/ StreamNew(h) \/ Crash(h)
    PROVE  MapsInv'
<1>1. maps \in [Procs -> Maps] /\ NothingGone
  BY DEF MapsInv
<1>2. maps' = maps \/ maps' = [maps EXCEPT ![h] = NoMaps]
  BY DEF Open, Close, Begin, StreamNew, Crash
<1>3. maps' \in [Procs -> Maps] /\ \A g \in Procs \ {h} : maps'[g] = maps[g]
  BY <1>1, <1>2, MapsTyped
<1>4. ASSUME NEW STATE c, call' = [call EXCEPT ![h] = c],
             c = None \/ c.stage \notin WriteStages \/ (c.sound => maps'[h].gone = {})
      PROVE  MapsInv'
  <2>1. call'[h] = c /\ \A g \in Procs \ {h} : call'[g] = call[g]
    BY <1>4 DEF OInv, Typed
  <2> QED BY <1>1, <1>3, <1>4, <2>1 DEF NothingGone, MapsInv
<1>5. CASE Open(h) \/ Close(h)
  <2>1. call' = call /\ call[h] = None
    BY <1>5 DEF Open, Close
  <2>2. NothingGone'
    BY <1>1, <1>3, <2>1 DEF NothingGone
  <2> QED BY <1>3, <2>2 DEF MapsInv
<1>6. CASE Begin(h)
  <2>1. PICK in \in Inputs :
           \/ /\ call' = [call EXCEPT ![h] = Started(h, "write", "scan", in)]
              /\ maps' = maps
           \/ call' = [call EXCEPT ![h] =
                          [Started(h, "update", "remove", in) EXCEPT
                             !.todo = PartsOf(in.keys), !.threads = InUse(PartsOf(in.keys))]]
    BY <1>6 DEF Begin
  <2>2. CASE /\ call' = [call EXCEPT ![h] = Started(h, "write", "scan", in)]
             /\ maps' = maps
    <3>1. PICK c : c = Started(h, "write", "scan", in)
      OBVIOUS
    <3>2. c.sound => maps'[h].gone = {}
      BY <2>2, <3>1 DEF Started, Sound
    <3> QED BY <1>4, <2>2, <3>1, <3>2
  <2>3. CASE call' = [call EXCEPT ![h] =
                        [Started(h, "update", "remove", in) EXCEPT
                           !.todo = PartsOf(in.keys), !.threads = InUse(PartsOf(in.keys))]]
    <3>1. PICK s, P, n : s = Started(h, "update", "remove", in) /\ P = PartsOf(in.keys)
                         /\ n = InUse(PartsOf(in.keys))
      OBVIOUS
    <3>2. PICK c : c = [s EXCEPT !.todo = P, !.threads = n]
      OBVIOUS
    <3>3. c.stage \notin WriteStages
      BY <3>1, <3>2 DEF Started, WriteStages
    <3> QED BY <1>4, <2>3, <3>1, <3>2, <3>3
  <2> QED BY <2>1, <2>2, <2>3
<1>7. CASE StreamNew(h)
  <2>1. PICK in \in Inputs : call' = [call EXCEPT ![h] = Started(h, "stream", "new", in)]
    BY <1>7 DEF StreamNew
  <2>2. PICK c : c = Started(h, "stream", "new", in)
    OBVIOUS
  <2>3. c.stage \notin WriteStages
    BY <2>2 DEF Started, WriteStages
  <2> QED BY <1>4, <2>1, <2>2, <2>3
<1>8. CASE Crash(h)
  <2>1. call' = [call EXCEPT ![h] = None]
    BY <1>8 DEF Crash
  <2> QED BY <1>4, <2>1
<1> QED BY <1>5, <1>6, <1>7, <1>8

(* Every step keeps the files as they should be.                           *)
LEMMA NextMaps == OInv /\ MapsInv /\ [Next]_vars => MapsInv'
<1> SUFFICES ASSUME OInv, MapsInv, [Next]_vars PROVE MapsInv'
  OBVIOUS
<1>1. CASE UNCHANGED vars \/ Unlock
  BY <1>1 DEF vars, Unlock, MapsInv, NothingGone
<1>2. ASSUME NEW h \in Procs, Step(h) PROVE MapsInv'
  <2>1. InStage(h, call[h].stage)
    BY <1>2 DEF Step, Scan, CreatePartition, StartLocating, Locate, PlanColumns, CreateColumn,
       StartRows, WritePartition, WriteFails, EndWrite, UpdateRemove, UpdateBuild, EndUpdate,
       StreamLock, StreamPartition, StreamFinish, InStage
  <2> QED BY <1>2, <2>1, WriteMaps, OtherMaps
<1>3. ASSUME NEW h \in Procs, Open(h) \/ Close(h) \/ Begin(h) \/ StreamNew(h) \/ Crash(h)
      PROVE  MapsInv'
  BY <1>3, CallMaps
<1> QED BY <1>1, <1>2, <1>3 DEF Next

(* At the beginning nothing is mapped.                                     *)
LEMMA InitMaps == Init => MapsInv
BY DEF Init, MapsInv, NothingGone, Maps, NoMaps

(* Both invariants hold in every state.                                    *)
LEMMA Outcomes == Spec => [](OInv /\ MapsInv)
<1>1. OInv /\ MapsInv /\ [Next]_vars => (OInv /\ MapsInv)'
  BY NextOutcomes, NextMaps
<1> QED BY <1>1, InitOutcomes, InitMaps, PTL DEF Spec

(* Every call keeps its types: a directory has a cell of every key in      *)
(* every column, a cached dataset an index and a schema, a call its        *)
(* partitions and no more threads than it was given, through failures,     *)
(* ended processes and what they leave half made (write.rs).               *)
THEOREM TypesAlwaysKept == Spec => []TypeOK
<1>1. OInv /\ MapsInv => TypeOK
  BY DEF OInv, Typed, MapsInv, TypeOK
<1> QED BY <1>1, Outcomes, PTL

(* A write that has come to its end without an error has done what it      *)
(* promises.                                                               *)
LEMMA RowsDone ==
    ASSUME OInv, NEW h \in Procs, InStage(h, "rows"), call[h].todo = {}, ~call[h].failed,
           call[h].sound
    PROVE  LET b == call[h].before
           IN  /\ \A p \in Existing :
                     /\ call[h].cols \subseteq DOMAIN part[p].cols
                     /\ b[p] # None => /\ part[p].keys = b[p].keys
                                       /\ DOMAIN part[p].cols = DOMAIN b[p].cols \cup call[h].cols
               /\ Existing = {p \in Parts : b[p] # None} \cup PartsOf(call[h].keys)
               /\ \A k \in Keys, c \in Cols :
                     IF k \in call[h].keys /\ c \in call[h].cols THEN Cell(part, k, c) = h
                     ELSE Cell(part, k, c) = Cell(b, k, c)
<1>1. /\ call[h].stage = "rows" /\ Exact(h) /\ PartsOf(call[h].keys) \subseteq Parts
  BY Here DEF WriteStages
<1>2. PICK b : b = call[h].before
  OBVIOUS
<1>3. \A p \in Parts :
        /\ b[p] # None => /\ part[p] # None /\ part[p].keys = b[p].keys
                          /\ DOMAIN b[p].cols \subseteq DOMAIN part[p].cols
                          /\ DOMAIN part[p].cols \subseteq DOMAIN b[p].cols \cup call[h].cols
        /\ b[p] = None /\ part[p] # None => p \in PartsOf(call[h].keys)
        /\ p \in PartsOf(call[h].keys) => part[p] # None
  BY <1>1, <1>2 DEF Exact, Shaped
<1>4. \A p \in Existing : p \in Parts /\ part[p] # None /\ call[h].cols \subseteq DOMAIN part[p].cols
  BY <1>1 DEF Exact, Columned, Existing
<1>5. Existing = {p \in Parts : b[p] # None} \cup PartsOf(call[h].keys)
  BY <1>1, <1>3 DEF Existing
<1>6. ASSUME NEW p \in Existing, b[p] # None
      PROVE  /\ part[p].keys = b[p].keys
             /\ DOMAIN part[p].cols = DOMAIN b[p].cols \cup call[h].cols
  BY <1>3, <1>4, <1>6
<1>7. ASSUME NEW k \in Keys, NEW c \in Cols
      PROVE  IF k \in call[h].keys /\ c \in call[h].cols THEN Cell(part, k, c) = h
             ELSE Cell(part, k, c) = Cell(b, k, c)
  BY <1>1, <1>2 DEF Exact, Written, OthersAsBefore, Named
<1> QED BY <1>2, <1>4, <1>5, <1>6, <1>7

(* A write that succeeds has written every row it was given and no other:  *)
(* all its columns are in all partitions, the cells it names hold its      *)
(* values and all others what they held before, whatever failed, ended or  *)
(* was left behind in calls before; provided that at its beginning the     *)
(* process had nothing open or mapped that others have changed or removed  *)
(* since, and for uncompressed fields (write_table).                       *)
THEOREM WritesAlwaysExact == Spec => WriteIsExact
<1> DEFINE Body == \A h \in Procs : EndsOk(h, "rows") /\ call[h].sound =>
                      LET b == call[h].before
                      IN  /\ \A p \in Existing :
                                /\ call[h].cols \subseteq DOMAIN part[p].cols
                                /\ b[p] # None => /\ part[p].keys = b[p].keys
                                                  /\ DOMAIN part[p].cols = DOMAIN b[p].cols \cup call[h].cols
                          /\ Existing = {p \in Parts : b[p] # None} \cup PartsOf(call[h].keys)
                          /\ \A k \in Keys, c \in Cols :
                                IF k \in call[h].keys /\ c \in call[h].cols THEN Cell(part, k, c) = h
                                ELSE k \in UNION {b[p].keys : p \in {q \in Parts : b[q] # None}} =>
                                        Cell(part, k, c) = Cell(b, k, c)
<1>1. OInv /\ [Next]_vars => [Body]_vars
  BY RowsDone DEF EndsOk
<1>2. WriteIsExact <=> [][Body]_vars
  BY DEF WriteIsExact
<1> HIDE DEF Body
<1> QED BY <1>1, <1>2, Outcomes, PTL DEF Spec

(* An update or a stream that succeeds leaves in each partition it names   *)
(* exactly the caller's rows and columns, whatever a crash or an error had *)
(* left there, the other partitions as they were, and a stream has         *)
(* replaced nothing (update_table_data, write_batch).                      *)
THEOREM ReplacesAlwaysExact == Spec => ReplaceIsExact
<1> DEFINE Body == \A h \in Procs : EndsOk(h, "remove") \/ EndsOk(h, "stream") =>
                      \A p \in Parts :
                         /\ p \in PartsOf(call[h].keys) => part[p] = Built(h, p)
                         /\ p \notin PartsOf(call[h].keys) => part[p] = call[h].before[p]
                         /\ call[h].stage = "stream" /\ p \in PartsOf(call[h].keys) =>
                                call[h].before[p] = None
<1>1. ASSUME OInv, NEW h \in Procs, EndsOk(h, "remove") \/ EndsOk(h, "stream"), NEW p \in Parts
      PROVE  /\ p \in PartsOf(call[h].keys) => part[p] = Built(h, p)
             /\ p \notin PartsOf(call[h].keys) => part[p] = call[h].before[p]
             /\ call[h].stage = "stream" /\ p \in PartsOf(call[h].keys) => call[h].before[p] = None
  <2>1. CASE EndsOk(h, "remove")
    <3>1. InStage(h, "remove") /\ call[h].todo = {} /\ call[h].busy = {} /\ ~call[h].failed
      BY <2>1 DEF EndsOk
    <3>2. call[h].stage = "remove" /\ Rebuilding(h)
      BY <1>1, <3>1, Here DEF Going
    <3> QED BY <3>1, <3>2 DEF Rebuilding
  <2>2. CASE EndsOk(h, "stream")
    <3>1. InStage(h, "stream") /\ call[h].todo = {}
      BY <2>2 DEF EndsOk
    <3>2. Streaming(h)
      BY <1>1, <3>1, Here DEF Going
    <3> QED BY <3>1, <3>2 DEF Streaming
  <2> QED BY <1>1, <2>1, <2>2
<1>2. OInv /\ [Next]_vars => [Body]_vars
  BY <1>1
<1>3. ReplaceIsExact <=> [][Body]_vars
  BY DEF ReplaceIsExact
<1> HIDE DEF Body
<1> QED BY <1>2, <1>3, Outcomes, PTL DEF Spec

(* No step of a call, and no end of its process in the middle of one,      *)
(* changes a cell the caller did not name; an update or a stream is        *)
(* allowed the partitions it names.  The proviso is that of                *)
(* WritesAlwaysExact; rows of a compressed field that an earlier call left *)
(* with its handle are not in the file yet, so nothing is said of them     *)
(* (write.rs, the write and update paths).                                 *)
THEOREM OthersAlwaysKept == Spec => OthersKept
<1> DEFINE Body == \A h \in Procs : Inside(h) /\ call[h].sound =>
                      \A k \in Keys, c \in Cols :
                         IF call[h].stage \in {"remove", "stream"}
                         THEN PartOf[k] \notin PartsOf(call[h].keys) =>
                                 Cell(part', k, c) = Cell(part, k, c)
                         ELSE (k \notin call[h].keys \/ c \notin call[h].cols)
                                 /\ part[PartOf[k]] # None
                                 => Cell(part', k, c) = Cell(part, k, c)
<1>1. ASSUME NEW h \in Procs, OInv, Inside(h), call[h].sound, Spares(h), NEW k \in Keys, NEW c \in Cols
      PROVE  IF call[h].stage \in {"remove", "stream"}
             THEN PartOf[k] \notin PartsOf(call[h].keys) => Cell(part', k, c) = Cell(part, k, c)
             ELSE (k \notin call[h].keys \/ c \notin call[h].cols) /\ part[PartOf[k]] # None
                     => Cell(part', k, c) = Cell(part, k, c)
  <2>1. call[h].stage \in WriteStages \cup {"remove", "stream"}
    BY <1>1 DEF OInv, Typed, Call, Inside, Stages, WriteStages
  <2>2. CASE call[h].stage \in {"remove", "stream"}
    BY <1>1, <2>2, PartOfKey DEF Spares, Cell
  <2>3. CASE call[h].stage \notin {"remove", "stream"}
    BY <1>1, <2>1, <2>3 DEF Spares, Named
  <2> QED BY <2>2, <2>3
<1>2. OInv /\ MapsInv /\ [Next]_vars => [Body]_vars
  BY <1>1, NextOutcomes
<1>3. OthersKept <=> [][Body]_vars
  BY DEF OthersKept
<1> HIDE DEF Body
<1> QED BY <1>2, <1>3, Outcomes, PTL DEF Spec
=============================================================================
