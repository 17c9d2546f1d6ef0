---------------------------- MODULE StoreProofs -----------------------------
(***************************************************************************)
(* Proofs about the triplestore on disk: the file-backed adapter that      *)
(* writes dataset.nq, and the queries that read it in a worker thread.     *)
(***************************************************************************)
EXTENDS OxigraphAdapter, QueryExecutor, FiniteSetTheorems, SequenceTheorems, TLAPS

-----------------------------------------------------------------------------
(***************************************************************************)
(* OxigraphAdapter: the durability contract, for any number of callers,    *)
(* versions and nested batches.                                            *)
(***************************************************************************)

(* Strengthening.                                                          *)

\* What a dump or a crash can leave behind is always a prefix of what was
\* written: the file, the temp file and the running dump never run ahead of
\* the store that produced them.
FilesTrailMemory ==
    /\ disk <= mem
    /\ phase # "none" => dump \in disk .. mem
    /\ phase = "written" => tmp = dump

\* Nobody asks for a version that has not been made.
AskedExists == \A c \in Callers : asked[c] <= mem

\* A mutation the running flush does not hold has another saver.
LateWriteHasSaver ==
    phase # "none" /\ mem > dump => pending \/ dirty \/ abandoned

\* batchDepth counts exactly the batches that are open.
OpenBatches == {p \in Callers \X (1 .. MaxNesting) : p[2] <= own[p[1]]}
DepthCounts ==
    /\ IsFiniteSet(OpenBatches)
    /\ batchDepth = Cardinality(OpenBatches)
    /\ dirty => batchDepth > 0

IInv ==
    /\ TypeOK
    /\ FilesTrailMemory
    /\ JoinCoversWrite
    /\ FlushedIsDurable
    /\ NothingForgotten
    /\ AskedExists
    /\ LateWriteHasSaver
    /\ DepthCounts

-----------------------------------------------------------------------------
\* One more open batch of c is one more element of OpenBatches, one less is
\* one element less: the count the adapter keeps in batchDepth.
LEMMA OpenOneMore ==
    ASSUME own \in [Callers -> 0 .. MaxNesting],
           IsFiniteSet(OpenBatches),
           NEW c \in Callers, own[c] < MaxNesting,
           own' = [own EXCEPT ![c] = @ + 1]
    PROVE  /\ IsFiniteSet(OpenBatches')
           /\ Cardinality(OpenBatches') = Cardinality(OpenBatches) + 1
<1> DEFINE new == <<c, own[c] + 1>>
<1>1. OpenBatches' = OpenBatches \cup {new}
  <2>1. ASSUME NEW p \in Callers \X (1 .. MaxNesting)
        PROVE  p[2] <= own'[p[1]] <=> p[2] <= own[p[1]] \/ p = new
    <3>1. CASE p[1] = c
      <4>1. own'[c] = own[c] + 1  OBVIOUS
      <4>2. p = <<c, p[2]>> /\ p[2] \in Nat  BY <3>1
      <4> QED  BY OxigraphAssumption, <3>1, <4>1, <4>2 DEF OxigraphAssumption
    <3>2. CASE p[1] # c  BY <3>2
    <3> QED  BY <3>1, <3>2
  <2>2. new \in Callers \X (1 .. MaxNesting)  BY OxigraphAssumption DEF OxigraphAssumption
  <2> QED  BY <2>1, <2>2 DEF OpenBatches
<1>2. new \notin OpenBatches  BY OxigraphAssumption DEF OpenBatches, OxigraphAssumption
<1> QED  BY <1>1, <1>2, FS_AddElement

LEMMA OpenOneLess ==
    ASSUME own \in [Callers -> 0 .. MaxNesting],
           IsFiniteSet(OpenBatches),
           NEW c \in Callers, own[c] > 0,
           own' = [own EXCEPT ![c] = @ - 1]
    PROVE  /\ IsFiniteSet(OpenBatches')
           /\ Cardinality(OpenBatches') = Cardinality(OpenBatches) - 1
           /\ Cardinality(OpenBatches) > 0
<1> DEFINE old == <<c, own[c]>>
<1>1. OpenBatches' = OpenBatches \ {old}
  <2>1. ASSUME NEW p \in Callers \X (1 .. MaxNesting)
        PROVE  p[2] <= own'[p[1]] <=> p[2] <= own[p[1]] /\ p # old
    <3>1. CASE p[1] = c
      <4>1. own'[c] = own[c] - 1  OBVIOUS
      <4>2. p = <<c, p[2]>> /\ p[2] \in Nat  BY <3>1
      <4> QED  BY OxigraphAssumption, <3>1, <4>1, <4>2 DEF OxigraphAssumption
    <3>2. CASE p[1] # c  BY <3>2
    <3> QED  BY <3>1, <3>2
  <2> QED  BY <2>1 DEF OpenBatches
<1>2. old \in OpenBatches  BY OxigraphAssumption DEF OpenBatches, OxigraphAssumption
<1>3. Cardinality(OpenBatches) # 0  BY <1>2, FS_EmptySet
<1>4. Cardinality(OpenBatches) \in Nat  BY FS_CardinalityType
<1>5. /\ IsFiniteSet(OpenBatches \ {old})
      /\ Cardinality(OpenBatches \ {old}) = Cardinality(OpenBatches) - 1
  BY <1>2, FS_RemoveElement
<1> QED  BY <1>1, <1>3, <1>4, <1>5

-----------------------------------------------------------------------------
LEMMA InitInv == Init => IInv
<1> SUFFICES ASSUME Init PROVE IInv  OBVIOUS
<1>1. OpenBatches = {}  BY OxigraphAssumption DEF Init, OpenBatches, OxigraphAssumption
<1>2. DepthCounts  BY <1>1, FS_EmptySet DEF DepthCounts, Init
<1>3. TypeOK
  <2>1. 0 \in 0 .. MaxNesting  BY OxigraphAssumption DEF OxigraphAssumption
  <2>2. own \in [Callers -> 0 .. MaxNesting]  BY <2>1 DEF Init
  <2> QED  BY <2>2 DEF Init, TypeOK
<1> QED
  BY <1>2, <1>3 DEF Init, IInv, FilesTrailMemory, JoinCoversWrite,
     FlushedIsDurable, NothingForgotten, AskedExists, LateWriteHasSaver

\* Steps that leave own, batchDepth and dirty alone leave the count alone.
LEMMA CountKept ==
    ASSUME DepthCounts, UNCHANGED <<own, batchDepth, dirty>>
    PROVE  DepthCounts'
BY DEF DepthCounts, OpenBatches

LEMMA WriteThroughInv ==
    ASSUME IInv, NEW c \in Callers, WriteThrough(c)
    PROVE  IInv'
<1> USE DEF WriteThrough, Idle, JoinFlush, fileVars, callVars, history, IInv
<1>1. TypeOK'  BY DEF TypeOK
<1>2. FilesTrailMemory' /\ JoinCoversWrite' /\ AskedExists'
  BY DEF TypeOK, FilesTrailMemory, JoinCoversWrite, AskedExists
<1>3. FlushedIsDurable' /\ NothingForgotten' /\ LateWriteHasSaver'
  BY DEF FlushedIsDurable, NothingForgotten, LateWriteHasSaver
<1>4. DepthCounts'  BY CountKept
<1> QED  BY <1>1, <1>2, <1>3, <1>4

LEMMA WriteDeferredInv ==
    ASSUME IInv, NEW c \in Callers, WriteDeferred(c)
    PROVE  IInv'
<1> USE DEF WriteDeferred, Idle, fileVars, IInv
<1>1. TypeOK'  BY DEF TypeOK, Newer
<1>2. FilesTrailMemory' /\ JoinCoversWrite' /\ AskedExists'
  BY DEF TypeOK, FilesTrailMemory, JoinCoversWrite, AskedExists
<1>3. FlushedIsDurable' /\ NothingForgotten' /\ LateWriteHasSaver'
  BY DEF FlushedIsDurable, NothingForgotten, LateWriteHasSaver
<1>4. DepthCounts'  BY DEF DepthCounts, OpenBatches
<1> QED  BY <1>1, <1>2, <1>3, <1>4

LEMMA BeginBatchInv ==
    ASSUME IInv, NEW c \in Callers, BeginBatch(c)
    PROVE  IInv'
<1> USE DEF BeginBatch, Idle, fileVars, history, IInv
<1>1. TypeOK'  BY OxigraphAssumption DEF TypeOK, OxigraphAssumption
<1>2. FilesTrailMemory' /\ JoinCoversWrite' /\ AskedExists'
  BY DEF TypeOK, FilesTrailMemory, JoinCoversWrite, AskedExists
<1>3. FlushedIsDurable' /\ NothingForgotten' /\ LateWriteHasSaver'
  BY DEF FlushedIsDurable, NothingForgotten, LateWriteHasSaver, TypeOK
<1>4. DepthCounts'
  <2>1. /\ IsFiniteSet(OpenBatches')
        /\ Cardinality(OpenBatches') = Cardinality(OpenBatches) + 1
    BY OpenOneMore DEF TypeOK, DepthCounts
  <2> QED  BY <2>1 DEF DepthCounts, TypeOK
<1> QED  BY <1>1, <1>2, <1>3, <1>4

LEMMA EndBatchInv ==
    ASSUME IInv, NEW c \in Callers, EndBatch(c)
    PROVE  IInv'
<1> USE DEF EndBatch, Idle, JoinFlush, fileVars, IInv
<1>1. /\ IsFiniteSet(OpenBatches')
      /\ Cardinality(OpenBatches') = Cardinality(OpenBatches) - 1
      /\ batchDepth > 0
  BY OpenOneLess DEF TypeOK, DepthCounts
<1>2. TypeOK'
  <2>1. own' \in [Callers -> 0 .. MaxNesting]
    BY OxigraphAssumption DEF TypeOK, OxigraphAssumption
  <2>2. batchDepth' \in Nat  BY <1>1 DEF TypeOK
  <2>4. /\ asked' \in [Callers -> Nat]
        /\ wait' \in [Callers -> {"none", "pending", "running"}]
    BY DEF TypeOK
  <2>5. pending' \in BOOLEAN /\ dirty' \in BOOLEAN
    BY ZenonT(30) DEF TypeOK
  <2>6. /\ UNCHANGED <<mem, disk, tmp, phase, dump, status, stopping, promised,
                      abandoned>>
    OBVIOUS
  <2> HIDE DEF EndBatch, IInv
  <2>7. TypeOK  BY DEF IInv
  <2> QED  BY <2>1, <2>2, <2>4, <2>5, <2>6, <2>7 DEF TypeOK
<1>3. FilesTrailMemory' /\ JoinCoversWrite' /\ AskedExists'
  BY DEF TypeOK, FilesTrailMemory, JoinCoversWrite, AskedExists
<1>4. FlushedIsDurable' /\ LateWriteHasSaver'
  BY DEF FlushedIsDurable, LateWriteHasSaver
<1>5. DepthCounts'  BY <1>1 DEF DepthCounts, TypeOK
<1>6. NothingForgotten'  BY <1>1, <1>5 DEF NothingForgotten, DepthCounts
<1> QED  BY <1>2, <1>3, <1>4, <1>5, <1>6

LEMMA RestoreThrowsInv ==
    ASSUME IInv, NEW c \in Callers, RestoreThrows(c)
    PROVE  IInv'
<1> USE DEF RestoreThrows, Idle, fileVars, callVars, IInv
<1>1. TypeOK'  BY DEF TypeOK
<1>2. FilesTrailMemory' /\ JoinCoversWrite' /\ AskedExists'
  BY DEF TypeOK, FilesTrailMemory, JoinCoversWrite, AskedExists
<1>3. FlushedIsDurable' /\ LateWriteHasSaver'
  BY DEF FlushedIsDurable, LateWriteHasSaver
<1>4. DepthCounts'  BY CountKept
<1>5. NothingForgotten'  BY DEF NothingForgotten, DepthCounts
<1> QED  BY <1>1, <1>2, <1>3, <1>4, <1>5

LEMMA StopCallInv ==
    ASSUME IInv, NEW c \in Callers, StopCall(c)
    PROVE  IInv'
<1> USE DEF StopCall, Idle, JoinFlush, fileVars, callVars, history, IInv
<1>1. TypeOK'  BY DEF TypeOK
<1>2. FilesTrailMemory' /\ JoinCoversWrite' /\ AskedExists'
  BY DEF TypeOK, FilesTrailMemory, JoinCoversWrite, AskedExists
<1>3. FlushedIsDurable' /\ NothingForgotten' /\ LateWriteHasSaver'
  BY DEF FlushedIsDurable, NothingForgotten, LateWriteHasSaver
<1>4. DepthCounts'  BY CountKept
<1> QED  BY <1>1, <1>2, <1>3, <1>4

LEMMA StartFlushInv ==
    ASSUME IInv, StartFlush
    PROVE  IInv'
<1> USE DEF StartFlush, fileVars, callVars, history, IInv
<1>1. TypeOK'  BY DEF TypeOK
<1>2. FilesTrailMemory' /\ JoinCoversWrite' /\ AskedExists'
  BY DEF TypeOK, FilesTrailMemory, JoinCoversWrite, AskedExists
<1>3. FlushedIsDurable' /\ NothingForgotten' /\ LateWriteHasSaver'
  BY DEF FlushedIsDurable, NothingForgotten, LateWriteHasSaver, TypeOK
<1>4. DepthCounts'  BY CountKept
<1> QED  BY <1>1, <1>2, <1>3, <1>4

LEMMA WriteTmpInv ==
    ASSUME IInv, WriteTmp
    PROVE  IInv'
<1> USE DEF WriteTmp, callVars, history, IInv
<1>1. TypeOK'  BY DEF TypeOK
<1>2. FilesTrailMemory' /\ JoinCoversWrite' /\ AskedExists'
  BY DEF TypeOK, FilesTrailMemory, JoinCoversWrite, AskedExists
<1>3. FlushedIsDurable' /\ NothingForgotten' /\ LateWriteHasSaver'
  BY DEF FlushedIsDurable, NothingForgotten, LateWriteHasSaver
<1>4. DepthCounts'  BY CountKept
<1> QED  BY <1>1, <1>2, <1>3, <1>4

LEMMA RenameInv ==
    ASSUME IInv, Rename
    PROVE  IInv'
<1> USE DEF Rename, Release, Joined, Settle, callVars, IInv
<1>1. TypeOK'  BY DEF TypeOK, Newer
<1>2. FilesTrailMemory' /\ JoinCoversWrite' /\ AskedExists'
  BY DEF TypeOK, FilesTrailMemory, JoinCoversWrite, AskedExists
<1>3. FlushedIsDurable'
  BY DEF FlushedIsDurable, FilesTrailMemory, JoinCoversWrite, Newer, TypeOK
<1>4. DepthCounts'  BY CountKept
<1>5. NothingForgotten' /\ LateWriteHasSaver'
  BY DEF NothingForgotten, LateWriteHasSaver, FilesTrailMemory, DepthCounts,
         TypeOK
<1> QED  BY <1>1, <1>2, <1>3, <1>4, <1>5

LEMMA FlushFailsInv ==
    ASSUME IInv, FlushFails
    PROVE  IInv'
<1> USE DEF FlushFails, Release, Joined, fileVars, callVars, IInv
<1>1. TypeOK'  BY DEF TypeOK
<1>2. FilesTrailMemory' /\ JoinCoversWrite' /\ AskedExists'
  BY DEF TypeOK, FilesTrailMemory, JoinCoversWrite, AskedExists
<1>3. FlushedIsDurable' /\ LateWriteHasSaver'
  BY DEF FlushedIsDurable, LateWriteHasSaver
<1>4. DepthCounts'  BY CountKept
<1>5. NothingForgotten'  BY DEF NothingForgotten, DepthCounts
<1> QED  BY <1>1, <1>2, <1>3, <1>4, <1>5

LEMMA CrashRestartInv ==
    ASSUME IInv, CrashRestart
    PROVE  IInv'
<1> USE DEF CrashRestart, fileVars, IInv
<1>1. TypeOK'
  <2>1. 0 \in 0 .. MaxNesting  BY OxigraphAssumption DEF OxigraphAssumption
  <2>2. own' \in [Callers -> 0 .. MaxNesting]  BY <2>1
  <2> QED  BY <2>2 DEF TypeOK
<1>2. FilesTrailMemory' /\ JoinCoversWrite' /\ AskedExists'
  BY DEF TypeOK, FilesTrailMemory, JoinCoversWrite, AskedExists
<1>3. FlushedIsDurable' /\ NothingForgotten' /\ LateWriteHasSaver'
  BY DEF FlushedIsDurable, NothingForgotten, LateWriteHasSaver, TypeOK
<1>4. OpenBatches' = {}  BY OxigraphAssumption DEF OpenBatches, OxigraphAssumption
<1>5. DepthCounts'  BY <1>4, FS_EmptySet DEF DepthCounts
<1> QED  BY <1>1, <1>2, <1>3, <1>5

LEMMA StutterInv ==
    ASSUME IInv, UNCHANGED vars
    PROVE  IInv'
BY DEF vars, IInv, TypeOK, FilesTrailMemory, JoinCoversWrite, AskedExists,
       FlushedIsDurable, NothingForgotten, LateWriteHasSaver, DepthCounts,
       OpenBatches

LEMMA NextInv ==
    ASSUME IInv, [Next]_vars
    PROVE  IInv'
<1>1. CASE UNCHANGED vars  BY <1>1, StutterInv
<1>2. ASSUME NEW c \in Callers, Call(c) PROVE IInv'
  BY <1>2, WriteThroughInv, WriteDeferredInv, BeginBatchInv, EndBatchInv,
     RestoreThrowsInv, StopCallInv DEF Call
<1>3. CASE StartFlush \/ WriteTmp \/ Rename \/ FlushFails \/ CrashRestart
  BY <1>3, StartFlushInv, WriteTmpInv, RenameInv, FlushFailsInv,
     CrashRestartInv
<1> QED  BY <1>1, <1>2, <1>3 DEF Next

LEMMA SpecInv == Spec => []IInv
<1>1. Init => IInv  BY InitInv
<1>2. IInv /\ [Next]_vars => IInv'  BY NextInv
<1> QED  BY <1>1, <1>2, PTL DEF Spec

-----------------------------------------------------------------------------
\* The adapter's variables keep their types; in particular batchDepth never
\* goes below zero, which a batch() ended twice would do.
THEOREM TypeCorrect == Spec => []TypeOK
BY SpecInv, PTL DEF IInv

\* The durability contract of flush(): what a caller awaited a flush for is
\* in the file, for any interleaving of writes, batches, failures, crashes.
THEOREM Durability == Spec => []FlushedIsDurable
BY SpecInv, PTL DEF IInv

\* Unless a call failed, memory ahead of the file always has a saver.
THEOREM NoForgottenWrite == Spec => []NothingForgotten
BY SpecInv, PTL DEF IInv

\* A waiting caller is always joined to a flush that covers its write.
THEOREM JoinIsSound == Spec => []JoinCoversWrite
BY SpecInv, PTL DEF IInv

\* A deferred write always has an open batch whose end will flush it.
THEOREM DeferredHasOwner == Spec => []DirtyHasOwner
<1>1. IInv => DirtyHasOwner
  <2> SUFFICES ASSUME IInv, dirty PROVE \E c \in Callers : own[c] > 0
    BY DEF DirtyHasOwner
  <2>1. OpenBatches # {}  BY FS_EmptySet DEF IInv, DepthCounts, TypeOK
  <2>2. PICK p \in OpenBatches : TRUE  BY <2>1
  <2> QED  BY <2>2 DEF OpenBatches, IInv, TypeOK
<1> QED  BY <1>1, SpecInv, PTL

-----------------------------------------------------------------------------
\* Every step of the adapter is a step of the durable store or leaves its
\* memory, file and promises alone.
LEMMA StepRefines ==
    ASSUME IInv, [Next]_vars
    PROVE  [Store!DSNext]_(Store!dsVars)
<1> USE DEF Store!DSNext, Store!dsVars
<1>1. CASE UNCHANGED vars  BY <1>1 DEF vars
<1>2. ASSUME NEW c \in Callers, Call(c)
      PROVE  Store!Mutate \/ UNCHANGED Store!dsVars
  BY <1>2 DEF Call, WriteThrough, WriteDeferred, BeginBatch, EndBatch,
     RestoreThrows, StopCall, fileVars, history, Store!Mutate
<1>3. CASE StartFlush \/ WriteTmp \/ FlushFails
  BY <1>3 DEF StartFlush, WriteTmp, FlushFails, fileVars, history
<1>4. CASE Rename
  <2>1. disk' \in disk .. mem
    BY <1>4 DEF IInv, TypeOK, FilesTrailMemory, Rename
  <2>2. promised' \in [Callers -> Nat]
    BY <1>4 DEF IInv, TypeOK, Rename, Settle, Joined, Newer
  <2>3. \A c \in Callers : promised'[c] \in promised[c] .. disk'
    BY <1>4 DEF IInv, TypeOK, FilesTrailMemory, JoinCoversWrite,
       FlushedIsDurable, Rename, Settle, Joined, Newer
  <2>4. mem' = mem  BY <1>4 DEF Rename
  <2> QED  BY <2>1, <2>2, <2>3, <2>4 DEF Store!Persist
<1>5. CASE CrashRestart  BY <1>5 DEF CrashRestart, fileVars, Store!Reload
<1> QED  BY <1>1, <1>2, <1>3, <1>4, <1>5 DEF Next

\* The adapter implements the durable store: a file that only moves forward
\* along the mutations made, promises only for what it holds.
THEOREM ImplementsStore == Spec => StoreSpec
<1>1. Init => Store!DSInit  BY DEF Init, Store!DSInit
<1>2. IInv /\ [Next]_vars => [Store!DSNext]_(Store!dsVars)  BY StepRefines
<1> QED  BY <1>1, <1>2, SpecInv, PTL DEF Spec, StoreSpec, Store!DSSpec

\* The file never goes back to an older dataset.
THEOREM NoRegression == Spec => DiskNeverRegresses
<1>1. IInv /\ [Next]_vars => [disk' >= disk]_disk
  <2> SUFFICES ASSUME IInv, [Next]_vars PROVE [disk' >= disk]_disk
    OBVIOUS
  <2>1. [Store!DSNext]_(Store!dsVars)  BY StepRefines
  <2> QED
    BY <2>1 DEF Store!DSNext, Store!dsVars, Store!Mutate, Store!Persist,
       Store!Reload, IInv, TypeOK
<1> QED  BY <1>1, SpecInv, PTL DEF Spec, DiskNeverRegresses

-----------------------------------------------------------------------------
(***************************************************************************)
(* QueryExecutor: what a query is told is its own doing, for any number of *)
(* queries, any of which may run away, any number of replacements of the   *)
(* file and any number of workers that fail or die.                        *)
(***************************************************************************)

Kinds    == {"started", "result", "error", "threw", "exit"}
Event    == [kind : Kinds, query : Query, version : Version]
Outcomes == {"unasked", "waiting", "answered", "failed", "crashed", "timed out", "refused"}

QueriesTypeOK ==
    /\ file \in Version
    /\ tail \in Seq(Query)
    /\ current \in Query \cup {None} /\ timer \in BOOLEAN
    /\ worker \in Query \cup {None} /\ closed \in BOOLEAN
    /\ pc \in [Query -> {"none", "idle", "stat", "read", "evaluate", "gone"}]
    /\ job \in [Query -> Query \cup {None}]
    /\ seen \in [Query -> Version \cup {None}]
    /\ replica \in [Query -> [signature : Version \cup {None}, version : Version]]
    /\ terminated \in SUBSET Query
    /\ events \in [Query -> Seq(Event)]
    /\ outcome \in [Query -> Outcomes]
    /\ given \in [Query -> Query \cup {None}]
    /\ from \in [Query -> Version] /\ answer \in [Query -> Version]
    /\ evaluated \in SUBSET Query /\ fell \in SUBSET Query

(* Strengthening.                                                          *)

\* A query that has not had its turn was given to no worker, waits at most
\* once, and no worker has its name yet.
WaitingIsFresh ==
    /\ \A i \in 1 .. Len(tail) : outcome[tail[i]] = "waiting" /\ given[tail[i]] = None
    /\ \A i, j \in 1 .. Len(tail) : tail[i] = tail[j] => i = j
    /\ \A q \in Query : outcome[q] = "unasked" => given[q] = None
    /\ \A q \in Query : given[q] = None => pc[q] = "none"

\* The current query is with the executor's worker, which nobody has
\* terminated; its deadline runs only once its evaluation has begun.
CurrentIsServed ==
    /\ current # None => worker # None /\ given[current] = worker
    /\ timer => current # None /\ current \in evaluated
    /\ worker # None => pc[worker] # "none" /\ worker \notin terminated
    /\ \A k \in terminated : pc[k] # "none"

\* A worker is on a query that had its turn.
JobIsGiven == \A k \in Query : pc[k] # "none" => job[k] # None /\ given[job[k]] # None

\* No signature is newer than what was read under it, and an evaluation never
\* rests on an older file than the query found when it had its turn.
ReplicaIsRecent ==
    /\ \A q \in Query : from[q] <= file
    /\ \A k \in Query :
        /\ seen[k] # None => seen[k] <= file
        /\ replica[k].signature # None => replica[k].signature <= replica[k].version
        /\ pc[k] = "evaluate" => from[job[k]] <= replica[k].version

\* What worker k may still say.
Sound(k) ==
    {e \in Event :
        /\ given[e.query] # None
        /\ e.kind = "result" => from[e.query] <= e.version
        /\ e.kind = "started" => e.query \in evaluated
        /\ e.kind \in {"threw", "exit"} => k \in fell \cup terminated}

EventsAreSound == \A k \in Query : events[k] \in Seq(Sound(k))

OutcomeInv ==
    /\ QueriesTypeOK
    /\ WaitingIsFresh
    /\ CurrentIsServed
    /\ JobIsGiven
    /\ ReplicaIsRecent
    /\ EventsAreSound
    /\ OutcomeIsOwn

-----------------------------------------------------------------------------
\* What may be said stays sayable as long as no query is given away twice and
\* nothing that has begun or died is forgotten.
Remembered ==
    /\ \A q \in Query : given[q] # None => given'[q] = given[q] /\ from'[q] = from[q]
    /\ evaluated \subseteq evaluated' /\ fell \cup terminated \subseteq fell' \cup terminated'

LEMMA SoundGrows == ASSUME Remembered, NEW k \in Query PROVE Sound(k) \subseteq Sound(k)'
<1> SUFFICES ASSUME NEW e \in Sound(k) PROVE e \in Sound(k)'  OBVIOUS
<1>1. e.query \in Query /\ given[e.query] # None  BY DEF Sound, Event
<1> QED  BY <1>1 DEF Sound, Remembered

LEMMA EventsKept == ASSUME EventsAreSound, Remembered, UNCHANGED events PROVE EventsAreSound'
<1> SUFFICES ASSUME NEW k \in Query PROVE events[k] \in Seq(Sound(k)')  BY DEF EventsAreSound
<1> QED  BY SoundGrows, SeqMonotonic DEF EventsAreSound

\* A worker says one thing more.
LEMMA EventsGrow ==
    ASSUME QueriesTypeOK, EventsAreSound, Remembered, NEW k \in Query, NEW e,
           events' = [events EXCEPT ![k] = Append(@, e)], e \in Sound(k)'
    PROVE  EventsAreSound' /\ events' \in [Query -> Seq(Event)]
<1>1. ASSUME NEW w \in Query PROVE events'[w] \in Seq(Sound(w)')
  <2>1. events[w] \in Seq(Sound(w)')  BY SoundGrows, SeqMonotonic DEF EventsAreSound
  <2>2. CASE w = k  BY <2>1, <2>2, AppendProperties DEF QueriesTypeOK
  <2>3. CASE w # k  BY <2>1, <2>3 DEF QueriesTypeOK
  <2> QED  BY <2>2, <2>3
<1>2. ASSUME NEW w \in Query PROVE events'[w] \in Seq(Event)
  <2>1. Sound(w)' \subseteq Event  BY DEF Sound
  <2> QED  BY <1>1, <2>1, SeqMonotonic
<1> QED  BY <1>1, <1>2 DEF EventsAreSound, QueriesTypeOK

\* The main thread hears the first thing a worker has said.
LEMMA EventsShrink ==
    ASSUME QueriesTypeOK, EventsAreSound, Remembered, NEW k \in Query, events[k] # <<>>,
           events' = [events EXCEPT ![k] = Tail(@)]
    PROVE  /\ EventsAreSound' /\ events' \in [Query -> Seq(Event)]
           /\ Head(events[k]) \in Sound(k)
<1>1. Head(events[k]) \in Sound(k) /\ Tail(events[k]) \in Seq(Sound(k))
  BY HeadTailProperties DEF EventsAreSound
<1>2. ASSUME NEW w \in Query PROVE events'[w] \in Seq(Sound(w)')
  <2>1. events'[w] \in Seq(Sound(w))
    <3>1. CASE w = k  BY <1>1, <3>1 DEF QueriesTypeOK
    <3>2. CASE w # k  BY <3>2 DEF QueriesTypeOK, EventsAreSound
    <3> QED  BY <3>1, <3>2
  <2> QED  BY <2>1, SoundGrows, SeqMonotonic
<1>3. ASSUME NEW w \in Query PROVE events'[w] \in Seq(Event)
  <2>1. Sound(w)' \subseteq Event  BY DEF Sound
  <2> QED  BY <1>2, <2>1, SeqMonotonic
<1> QED  BY <1>1, <1>2, <1>3 DEF EventsAreSound, QueriesTypeOK

-----------------------------------------------------------------------------
LEMMA OutcomeInvInit == QueriesInit => OutcomeInv
<1> SUFFICES ASSUME QueriesInit PROVE OutcomeInv  OBVIOUS
<1> USE QueryExecutorAssumption DEF QueryExecutorAssumption, QueriesInit
<1>1. QueriesTypeOK
  <2>1. file \in Version /\ 0 \in Version  BY DEF Version
  <2>2. replica \in [Query -> [signature : Version \cup {None}, version : Version]]
    BY <2>1
  <2>3. tail \in Seq(Query) /\ events \in [Query -> Seq(Event)]  BY EmptySeq
  <2>4. outcome \in [Query -> Outcomes]  BY DEF Outcomes
  <2> QED  BY <2>1, <2>2, <2>3, <2>4 DEF QueriesTypeOK
<1>2. WaitingIsFresh  BY DEF WaitingIsFresh
<1>3. CurrentIsServed /\ JobIsGiven /\ ReplicaIsRecent
  BY DEF CurrentIsServed, JobIsGiven, ReplicaIsRecent, Version
<1>4. EventsAreSound  BY DEF EventsAreSound
<1>5. OutcomeIsOwn  BY DEF OutcomeIsOwn
<1> QED  BY <1>1, <1>2, <1>3, <1>4, <1>5 DEF OutcomeInv

LEMMA ExecuteInv == ASSUME OutcomeInv, NEW q \in Query, Execute(q) PROVE OutcomeInv'
<1> USE DEF Execute, workerVars, ghosts, OutcomeInv
<1>1. outcome[q] = "unasked" /\ given[q] = None
  <2>1. q \notin 1 .. q - 1  BY QueryExecutorAssumption DEF QueryExecutorAssumption, Query
  <2> QED  BY <2>1 DEF Asked, WaitingIsFresh
<1>2. /\ tail' \in Seq(Query) /\ Len(tail') = Len(tail) + 1
      /\ tail'[Len(tail) + 1] = q
      /\ \A i \in 1 .. Len(tail) : tail'[i] = tail[i]
  BY AppendProperties DEF QueriesTypeOK
<1>3. QueriesTypeOK'  BY <1>2 DEF QueriesTypeOK, Outcomes
<1>4. WaitingIsFresh'
  <2>1. \A i \in 1 .. Len(tail) : tail[i] # q  BY <1>1 DEF WaitingIsFresh
  <2>2. \A i \in 1 .. Len(tail') : i = Len(tail) + 1 \/ i \in 1 .. Len(tail)
    BY <1>2, LenProperties DEF QueriesTypeOK
  <2>3. \A i, j \in 1 .. Len(tail') : tail'[i] = tail'[j] => i = j
    BY <1>2, <2>1, <2>2 DEF WaitingIsFresh
  <2>4. \A i \in 1 .. Len(tail') : outcome'[tail'[i]] = "waiting" /\ given'[tail'[i]] = None
    <3> TAKE i \in 1 .. Len(tail')
    <3>1. CASE i = Len(tail) + 1  BY <1>1, <1>2, <3>1 DEF QueriesTypeOK
    <3>2. CASE i \in 1 .. Len(tail)
      BY <1>2, <2>1, <3>2, ElementOfSeq DEF QueriesTypeOK, WaitingIsFresh
    <3> QED  BY <2>2, <3>1, <3>2
  <2> QED  BY <1>1, <2>3, <2>4 DEF WaitingIsFresh, QueriesTypeOK
<1>5. CurrentIsServed' /\ JobIsGiven' /\ ReplicaIsRecent'
  BY DEF CurrentIsServed, JobIsGiven, ReplicaIsRecent
<1>6. EventsAreSound'  BY EventsKept DEF Remembered
<1>7. OutcomeIsOwn'  BY DEF OutcomeIsOwn, QueriesTypeOK
<1> QED  BY <1>3, <1>4, <1>5, <1>6, <1>7

-----------------------------------------------------------------------------
(* The main thread *)

\* The query at the head of the tail is known to nobody but the executor.
LEMMA HeadIsFresh ==
    ASSUME OutcomeInv, tail # <<>>
    PROVE  /\ Head(tail) \in Query /\ Tail(tail) \in Seq(Query)
           /\ given[Head(tail)] = None /\ pc[Head(tail)] = "none"
           /\ outcome[Head(tail)] = "waiting"
           /\ \A i \in 1 .. Len(Tail(tail)) :
                 /\ Tail(tail)[i] \in Query \ {Head(tail)}
                 /\ outcome[Tail(tail)[i]] = "waiting" /\ given[Tail(tail)[i]] = None
           /\ \A i, j \in 1 .. Len(Tail(tail)) : Tail(tail)[i] = Tail(tail)[j] => i = j
<1> USE DEF OutcomeInv
<1>1. /\ Head(tail) \in Query /\ Tail(tail) \in Seq(Query)
      /\ Len(Tail(tail)) = Len(tail) - 1 /\ Len(tail) \in Nat \ {0}
      /\ \A i \in 1 .. Len(Tail(tail)) : Tail(tail)[i] = tail[i + 1]
  BY HeadTailProperties, EmptySeq DEF QueriesTypeOK
<1>2. Head(tail) = tail[1] /\ 1 \in 1 .. Len(tail)  BY <1>1 DEF QueriesTypeOK
<1>3. \A i \in 1 .. Len(Tail(tail)) : i + 1 \in 1 .. Len(tail) /\ i + 1 # 1  BY <1>1
<1>4. \A i \in 1 .. Len(Tail(tail)) : Tail(tail)[i] \in Query  BY <1>1, ElementOfSeq
<1>5. given[Head(tail)] = None /\ outcome[Head(tail)] = "waiting"
  BY <1>2 DEF WaitingIsFresh
<1>6. pc[Head(tail)] = "none"  BY <1>1, <1>5 DEF WaitingIsFresh
<1>7. \A i \in 1 .. Len(Tail(tail)) :
         Tail(tail)[i] # Head(tail)
         /\ outcome[Tail(tail)[i]] = "waiting" /\ given[Tail(tail)[i]] = None
  BY <1>1, <1>2, <1>3 DEF WaitingIsFresh
<1>8. \A i, j \in 1 .. Len(Tail(tail)) : Tail(tail)[i] = Tail(tail)[j] => i = j
  <2> TAKE i, j \in 1 .. Len(Tail(tail))
  <2> HAVE Tail(tail)[i] = Tail(tail)[j]
  <2>1. i + 1 = j + 1  BY <1>1, <1>3 DEF WaitingIsFresh
  <2> QED  BY <2>1
<1> QED  BY <1>1, <1>4, <1>5, <1>6, <1>7, <1>8

\* To settle the current query touches none of those that wait.
LEMMA SettleInv ==
    ASSUME OutcomeInv, NEW how \in Outcomes \ {"unasked"}, current # None, SettleCurrent(how),
           UNCHANGED <<tail, given, pc>>
    PROVE  /\ WaitingIsFresh' /\ outcome' \in [Query -> Outcomes]
           /\ \A q \in Query : outcome'[q] = IF q = current THEN how ELSE outcome[q]
<1> USE DEF OutcomeInv
<1>1. current \in Query /\ given[current] # None
  BY QueryExecutorAssumption DEF QueriesTypeOK, CurrentIsServed, QueryExecutorAssumption
<1>2. \A i \in 1 .. Len(tail) : tail[i] \in Query /\ tail[i] # current
  BY <1>1, ElementOfSeq DEF QueriesTypeOK, WaitingIsFresh
<1>3. \A q \in Query : outcome'[q] = IF q = current THEN how ELSE outcome[q]
  BY <1>1 DEF SettleCurrent, QueriesTypeOK
<1>4. outcome' \in [Query -> Outcomes]  BY <1>1 DEF SettleCurrent, QueriesTypeOK
<1>5. \A q \in Query : outcome'[q] = "unasked" => outcome[q] = "unasked"  BY <1>3
<1> QED  BY <1>2, <1>3, <1>4, <1>5 DEF WaitingIsFresh

LEMMA RefuseInv == ASSUME OutcomeInv, Refuse PROVE OutcomeInv'
<1> USE DEF Refuse, workerVars, ghosts, OutcomeInv
<1> DEFINE q == Head(tail)
<1>1. /\ q \in Query /\ outcome'[q] = "refused"
      /\ \A p \in Query : p # q => outcome'[p] = outcome[p]
  BY HeadIsFresh DEF QueriesTypeOK
<1>2. QueriesTypeOK'  BY HeadIsFresh DEF QueriesTypeOK, Outcomes
<1>3. WaitingIsFresh'  BY <1>1, HeadIsFresh DEF WaitingIsFresh
<1>4. CurrentIsServed' /\ JobIsGiven' /\ ReplicaIsRecent'
  BY DEF CurrentIsServed, JobIsGiven, ReplicaIsRecent
<1>5. EventsAreSound'  BY EventsKept DEF Remembered
<1>6. OutcomeIsOwn'
  <2>1. ASSUME NEW p \in Query, outcome'[p] \in {"answered", "crashed", "timed out"}
        PROVE  outcome[p] = outcome'[p]
    BY <1>1, <2>1
  <2> QED  BY <2>1 DEF OutcomeIsOwn
<1> QED  BY <1>2, <1>3, <1>4, <1>5, <1>6

LEMMA RunOneInv == ASSUME OutcomeInv, RunOne PROVE OutcomeInv'
<1> USE DEF OutcomeInv
<1> DEFINE q == Head(tail)
           k == IF worker = None THEN q ELSE worker
<1>1. /\ q \in Query /\ k \in Query /\ q # None /\ k # None
      /\ given[q] = None /\ pc[q] = "none" /\ outcome[q] = "waiting"
  BY HeadIsFresh, QueryExecutorAssumption DEF RunOne, QueriesTypeOK, QueryExecutorAssumption
<1>2. /\ current = None /\ current' = q /\ worker' = k /\ tail' = Tail(tail)
      /\ given' = [given EXCEPT ![q] = k] /\ from' = [from EXCEPT ![q] = file]
      /\ UNCHANGED <<file, timer, closed, seen, replica, terminated, events,
                     outcome, mishaps, answer, evaluated, fell>>
  BY DEF RunOne
<1>3. /\ \A p \in Query : given'[p] = IF p = q THEN k ELSE given[p]
      /\ \A p \in Query : from'[p] = IF p = q THEN file ELSE from[p]
  BY <1>1, <1>2 DEF QueriesTypeOK
<1>4. /\ \A w \in Query : w # k => pc'[w] = pc[w] /\ job'[w] = job[w]
      /\ \/ pc[k] = "gone" /\ pc'[k] = "gone" /\ job'[k] = job[k]
         \/ pc'[k] = "stat" /\ job'[k] = q
      /\ pc' \in [Query -> {"none", "idle", "stat", "read", "evaluate", "gone"}]
      /\ job' \in [Query -> Query \cup {None}]
  <2>1. /\ pc \in [Query -> {"none", "idle", "stat", "read", "evaluate", "gone"}]
        /\ job \in [Query -> Query \cup {None}]
    BY DEF QueriesTypeOK
  <2>2. IF pc[k] = "gone" THEN UNCHANGED <<pc, job>>
        ELSE pc' = [pc EXCEPT ![k] = "stat"] /\ job' = [job EXCEPT ![k] = q]
    BY DEF RunOne
  <2> HIDE DEF q, k
  <2> QED  BY <1>1, <2>1, <2>2
<1>5. worker # None => worker = k /\ pc[k] # "none" /\ given[k] # None /\ k \notin terminated
  BY <1>1 DEF CurrentIsServed, WaitingIsFresh
<1>6. worker = None => k = q  OBVIOUS
<1> HIDE DEF q, k
<1>7. QueriesTypeOK'
  <2>1. given' \in [Query -> Query \cup {None}] /\ from' \in [Query -> Version]
    BY <1>1, <1>2 DEF QueriesTypeOK
  <2>2. tail' \in Seq(Query)  BY <1>2, HeadIsFresh DEF RunOne
  <2> QED  BY <1>1, <1>2, <1>4, <2>1, <2>2 DEF QueriesTypeOK
<1>8. WaitingIsFresh'
  <2>1. ASSUME NEW p \in Query, given'[p] = None PROVE pc'[p] = "none"
    <3>1. p # q /\ given[p] = None  BY <1>1, <1>3, <2>1
    <3>2. p # k  BY <1>5, <1>6, <3>1
    <3> QED  BY <1>4, <3>1, <3>2 DEF WaitingIsFresh
  <2>2. ASSUME NEW p \in Query, outcome'[p] = "unasked" PROVE given'[p] = None
    BY <1>1, <1>2, <1>3, <2>2 DEF WaitingIsFresh
  <2>3. \A i \in 1 .. Len(tail') : outcome'[tail'[i]] = "waiting" /\ given'[tail'[i]] = None
    BY <1>2, <1>3, HeadIsFresh DEF RunOne, q
  <2>4. \A i, j \in 1 .. Len(tail') : tail'[i] = tail'[j] => i = j
    BY <1>2, HeadIsFresh DEF RunOne
  <2> QED  BY <2>1, <2>2, <2>3, <2>4 DEF WaitingIsFresh
<1>9. CurrentIsServed'
  <2>1. ~timer'  BY <1>2 DEF CurrentIsServed, QueriesTypeOK
  <2>2. pc'[k] # "none" /\ k \notin terminated'
    BY <1>1, <1>2, <1>4, <1>5, <1>6 DEF CurrentIsServed
  <2>3. \A w \in terminated' : pc'[w] # "none"
    BY <1>2, <1>4, <2>2 DEF CurrentIsServed, QueriesTypeOK
  <2> QED  BY <1>1, <1>2, <1>3, <2>1, <2>2, <2>3 DEF CurrentIsServed
<1>10. JobIsGiven'
  <2> SUFFICES ASSUME NEW w \in Query, pc'[w] # "none"
               PROVE  job'[w] # None /\ given'[job'[w]] # None
    BY DEF JobIsGiven
  <2>1. CASE w = k /\ job'[k] = q  BY <1>1, <1>3, <2>1
  <2>2. CASE pc[w] # "none" /\ job'[w] = job[w]
    <3>1. job[w] \in Query /\ given[job[w]] # None  BY <2>2 DEF JobIsGiven, QueriesTypeOK
    <3> QED  BY <1>1, <1>3, <2>2, <3>1, QueryExecutorAssumption DEF QueryExecutorAssumption
  <2> QED  BY <1>4, <2>1, <2>2
<1>11. ReplicaIsRecent'
  <2>1. \A p \in Query : from'[p] <= file'
    BY <1>2, <1>3, QueryExecutorAssumption DEF QueriesTypeOK, Version, ReplicaIsRecent, QueryExecutorAssumption
  <2>2. ASSUME NEW w \in Query, pc'[w] = "evaluate" PROVE from'[job'[w]] <= replica'[w].version
    <3>1. w # k /\ pc[w] = "evaluate" /\ job'[w] = job[w]  BY <1>4, <2>2
    <3>2. job[w] \in Query /\ given[job[w]] # None  BY <3>1 DEF JobIsGiven, QueriesTypeOK
    <3>3. from'[job[w]] = from[job[w]]  BY <1>1, <1>3, <3>2
    <3> QED  BY <1>2, <3>1, <3>3 DEF ReplicaIsRecent
  <2> QED  BY <1>2, <2>1, <2>2 DEF ReplicaIsRecent
<1>12. EventsAreSound'
  <2>1. Remembered  BY <1>1, <1>2, <1>3 DEF Remembered
  <2> QED  BY <1>2, <2>1, EventsKept
<1>13. OutcomeIsOwn'
  <2> SUFFICES ASSUME NEW p \in Query
               PROVE  /\ outcome'[p] = "answered" => answer'[p] >= from'[p]
                      /\ outcome'[p] = "crashed" => given'[p] \in fell'
                      /\ outcome'[p] = "timed out" => p \in evaluated'
    BY DEF OutcomeIsOwn
  <2>1. CASE p = q
    <3>1. outcome'[p] = "waiting"  BY <1>1, <1>2, <2>1
    <3> QED  BY <3>1
  <2>2. CASE p # q
    <3>1. outcome'[p] = outcome[p] /\ answer'[p] = answer[p] /\ fell' = fell /\ evaluated' = evaluated
      BY <1>2
    <3>2. from'[p] = from[p] /\ given'[p] = given[p]  BY <1>3, <2>2
    <3> QED  BY <3>1, <3>2 DEF OutcomeIsOwn
  <2> QED  BY <2>1, <2>2
<1> QED  BY <1>7, <1>8, <1>9, <1>10, <1>11, <1>12, <1>13

LEMMA OnMessageInv == ASSUME OutcomeInv, NEW k \in Query, OnMessage(k) PROVE OutcomeInv'
<1> USE DEF OutcomeInv
<1> DEFINE e == Head(events[k])
<1>1. /\ events[k] # <<>> /\ events' = [events EXCEPT ![k] = Tail(@)]
      /\ UNCHANGED <<file, tail, worker, closed, pc, job, seen, replica,
                     terminated, mishaps, given, from, evaluated, fell>>
  BY DEF OnMessage
<1>2. Remembered  BY <1>1 DEF Remembered
<1>3. EventsAreSound' /\ events' \in [Query -> Seq(Event)] /\ e \in Sound(k)
  BY <1>1, <1>2, EventsShrink
<1>4. JobIsGiven' /\ ReplicaIsRecent'  BY <1>1 DEF JobIsGiven, ReplicaIsRecent
<1>5. e.query \in Query /\ e.version \in Version /\ e.query # None
  BY <1>3, QueryExecutorAssumption DEF Sound, Event, QueryExecutorAssumption
<1>6. CASE UNCHANGED <<current, timer, outcome, answer>>
  <2>1. QueriesTypeOK'  BY <1>1, <1>3, <1>6 DEF QueriesTypeOK
  <2>2. WaitingIsFresh' /\ CurrentIsServed'  BY <1>1, <1>6 DEF WaitingIsFresh, CurrentIsServed
  <2>3. OutcomeIsOwn'  BY <1>1, <1>6 DEF OutcomeIsOwn
  <2> QED  BY <1>3, <1>4, <2>1, <2>2, <2>3
<1>7. CASE /\ Heard(k, e) /\ e.kind = "started" /\ timer' = TRUE
           /\ UNCHANGED <<current, outcome, answer>>
  <2>1. QueriesTypeOK'  BY <1>1, <1>3, <1>7 DEF QueriesTypeOK
  <2>2. WaitingIsFresh'  BY <1>1, <1>7 DEF WaitingIsFresh
  <2>3. current # None /\ current \in evaluated  BY <1>3, <1>5, <1>7 DEF Heard, Sound
  <2>4. CurrentIsServed'  BY <1>1, <1>7, <2>3 DEF CurrentIsServed
  <2>5. OutcomeIsOwn'  BY <1>1, <1>7 DEF OutcomeIsOwn
  <2> QED  BY <1>3, <1>4, <2>1, <2>2, <2>4, <2>5
<1>8. CASE /\ Heard(k, e) /\ e.kind = "result" /\ SettleCurrent("answered")
           /\ answer' = [answer EXCEPT ![current] = e.version]
  <2>1. current = e.query /\ from[current] <= e.version  BY <1>3, <1>8 DEF Heard, Sound
  <2>2. /\ WaitingIsFresh' /\ outcome' \in [Query -> Outcomes]
        /\ \A q \in Query : outcome'[q] = IF q = current THEN "answered" ELSE outcome[q]
    <3>1. "answered" \in Outcomes \ {"unasked"}  BY DEF Outcomes
    <3> QED  BY <1>1, <1>5, <1>8, <2>1, <3>1, SettleInv
  <2>3. QueriesTypeOK'  BY <1>1, <1>3, <1>5, <1>8, <2>2 DEF QueriesTypeOK, SettleCurrent
  <2>4. CurrentIsServed'  BY <1>1, <1>8 DEF CurrentIsServed, SettleCurrent
  <2>5. OutcomeIsOwn'
    <3> SUFFICES ASSUME NEW q \in Query
                 PROVE  /\ outcome'[q] = "answered" => answer'[q] >= from[q]
                        /\ outcome'[q] = "crashed" => given[q] \in fell
                        /\ outcome'[q] = "timed out" => q \in evaluated
      BY <1>1 DEF OutcomeIsOwn
    <3>1. CASE q = current
      <4>1. outcome'[q] = "answered"  BY <2>2, <3>1
      <4>2. answer'[q] = e.version  BY <1>8, <3>1 DEF QueriesTypeOK
      <4>3. e.version >= from[q]
        BY <1>5, <2>1, <3>1, QueryExecutorAssumption DEF QueriesTypeOK, Version, QueryExecutorAssumption
      <4> QED  BY <4>1, <4>2, <4>3
    <3>2. CASE q # current
      <4>1. outcome'[q] = outcome[q]  BY <2>2, <3>2
      <4>2. answer'[q] = answer[q]  BY <1>8, <3>2 DEF QueriesTypeOK
      <4> QED  BY <4>1, <4>2 DEF OutcomeIsOwn
    <3> QED  BY <3>1, <3>2
  <2> QED  BY <1>3, <1>4, <2>2, <2>3, <2>4, <2>5
<1>9. CASE Heard(k, e) /\ e.kind = "error" /\ SettleCurrent("failed") /\ UNCHANGED answer
  <2>1. current = e.query  BY <1>9 DEF Heard
  <2>2. /\ WaitingIsFresh' /\ outcome' \in [Query -> Outcomes]
        /\ \A q \in Query : outcome'[q] = IF q = current THEN "failed" ELSE outcome[q]
    <3>1. "failed" \in Outcomes \ {"unasked"}  BY DEF Outcomes
    <3> QED  BY <1>1, <1>5, <1>9, <2>1, <3>1, SettleInv
  <2>3. QueriesTypeOK'  BY <1>1, <1>3, <1>9, <2>2 DEF QueriesTypeOK, SettleCurrent
  <2>4. CurrentIsServed'  BY <1>1, <1>9 DEF CurrentIsServed, SettleCurrent
  <2>5. OutcomeIsOwn'
    <3> SUFFICES ASSUME NEW q \in Query
                 PROVE  /\ outcome'[q] = "answered" => answer[q] >= from[q]
                        /\ outcome'[q] = "crashed" => given[q] \in fell
                        /\ outcome'[q] = "timed out" => q \in evaluated
      BY <1>1, <1>9 DEF OutcomeIsOwn
    <3>1. CASE q = current
      <4>1. outcome'[q] = "failed"  BY <2>2, <3>1
      <4> QED  BY <4>1
    <3>2. CASE q # current
      <4>1. outcome'[q] = outcome[q]  BY <2>2, <3>2
      <4> QED  BY <4>1 DEF OutcomeIsOwn
    <3> QED  BY <3>1, <3>2
  <2> QED  BY <1>3, <1>4, <2>2, <2>3, <2>4, <2>5
<1> QED  BY <1>6, <1>7, <1>8, <1>9 DEF OnMessage

\* Whoever settles the current query with a true reason tells everybody the
\* truth who was told.
LEMMA SettledIsOwn ==
    ASSUME OutcomeInv, NEW how \in Outcomes \ {"unasked", "answered"}, current # None,
           SettleCurrent(how), UNCHANGED <<tail, pc, ghosts>>,
           how = "crashed" => given[current] \in fell,
           how = "timed out" => current \in evaluated
    PROVE  WaitingIsFresh' /\ outcome' \in [Query -> Outcomes] /\ OutcomeIsOwn'
<1> USE DEF ghosts
<1>1. /\ WaitingIsFresh' /\ outcome' \in [Query -> Outcomes]
      /\ \A q \in Query : outcome'[q] = IF q = current THEN how ELSE outcome[q]
  BY SettleInv
<1>2. OutcomeIsOwn'
  <2> SUFFICES ASSUME NEW q \in Query
               PROVE  /\ outcome'[q] = "answered" => answer[q] >= from[q]
                      /\ outcome'[q] = "crashed" => given[q] \in fell
                      /\ outcome'[q] = "timed out" => q \in evaluated
    BY DEF OutcomeIsOwn
  <2>1. CASE q = current
    <3>1. outcome'[q] = how  BY <1>1, <2>1
    <3> QED  BY <2>1, <3>1
  <2>2. CASE q # current
    <3>1. outcome'[q] = outcome[q]  BY <1>1, <2>2
    <3> QED  BY <3>1 DEF OutcomeIsOwn, OutcomeInv
  <2> QED  BY <2>1, <2>2
<1> QED  BY <1>1, <1>2

LEMMA OnDeadInv == ASSUME OutcomeInv, NEW k \in Query, OnDead(k) PROVE OutcomeInv'
<1> USE DEF OutcomeInv
<1>1. /\ events[k] # <<>> /\ events' = [events EXCEPT ![k] = Tail(@)]
      /\ Head(events[k]).kind \in {"threw", "exit"} /\ Dead(k)
      /\ UNCHANGED <<file, tail, closed, pc, job, seen, replica, terminated,
                     mishaps, ghosts>>
  BY DEF OnDead
<1>2. Remembered  BY <1>1 DEF Remembered, ghosts
<1>3. EventsAreSound' /\ events' \in [Query -> Seq(Event)] /\ Head(events[k]) \in Sound(k)
  BY <1>1, <1>2, EventsShrink
<1>4. k \in fell \cup terminated  BY <1>1, <1>3 DEF Sound
<1>5. JobIsGiven' /\ ReplicaIsRecent'  BY <1>1 DEF JobIsGiven, ReplicaIsRecent, ghosts
<1>6. CASE worker # k \/ current = None
  <2>1. /\ current' = current /\ timer' = timer /\ outcome' = outcome
        /\ worker' = worker \/ (current = None /\ worker' = None)
    BY <1>1, <1>6 DEF Dead, SettleAny
  <2>2. QueriesTypeOK'  BY <1>1, <1>3, <2>1 DEF QueriesTypeOK, ghosts
  <2>3. WaitingIsFresh'  BY <1>1, <2>1 DEF WaitingIsFresh, ghosts
  <2>4. CurrentIsServed'  BY <1>1, <2>1 DEF CurrentIsServed, ghosts
  <2>5. OutcomeIsOwn'  BY <1>1, <2>1 DEF OutcomeIsOwn, ghosts
  <2> QED  BY <1>3, <1>5, <2>2, <2>3, <2>4, <2>5
<1>7. CASE current # None /\ worker = k /\ worker' = None /\ SettleCurrent("crashed")
  <2>1. given[current] \in fell
    BY <1>4, <1>7 DEF CurrentIsServed
  <2>2. WaitingIsFresh' /\ outcome' \in [Query -> Outcomes] /\ OutcomeIsOwn'
    <3>1. "crashed" \in Outcomes \ {"unasked", "answered"}  BY DEF Outcomes
    <3> QED  BY <1>1, <1>7, <2>1, <3>1, SettledIsOwn
  <2>3. QueriesTypeOK'  BY <1>1, <1>3, <1>7, <2>2 DEF QueriesTypeOK, SettleCurrent, ghosts
  <2>4. CurrentIsServed'  BY <1>1, <1>7 DEF CurrentIsServed, SettleCurrent
  <2> QED  BY <1>3, <1>5, <2>2, <2>3, <2>4
<1> QED  BY <1>1, <1>6, <1>7 DEF Dead, SettleAny

\* A worker that is retired is one that was started.
LEMMA RetireInv ==
    ASSUME OutcomeInv, Retire, current' = None, timer' = FALSE, UNCHANGED pc
    PROVE  /\ CurrentIsServed' /\ worker' = None
           /\ terminated' \in SUBSET Query /\ terminated \subseteq terminated'
BY DEF OutcomeInv, Retire, CurrentIsServed, QueriesTypeOK

LEMMA TimeoutInv == ASSUME OutcomeInv, Timeout PROVE OutcomeInv'
<1> USE DEF OutcomeInv
<1>1. /\ current # None /\ timer /\ SettleCurrent("timed out") /\ Retire
      /\ UNCHANGED <<file, tail, closed, pc, job, seen, replica, events, mishaps, ghosts>>
  BY DEF Timeout
<1>2. /\ CurrentIsServed' /\ worker' = None
      /\ terminated' \in SUBSET Query /\ terminated \subseteq terminated'
  BY <1>1, RetireInv DEF SettleCurrent
<1>3. WaitingIsFresh' /\ outcome' \in [Query -> Outcomes] /\ OutcomeIsOwn'
  <2>1. "timed out" \in Outcomes \ {"unasked", "answered"}  BY DEF Outcomes
  <2>2. current \in evaluated  BY <1>1 DEF CurrentIsServed
  <2> QED  BY <1>1, <2>1, <2>2, SettledIsOwn
<1>4. QueriesTypeOK'  BY <1>1, <1>2, <1>3 DEF QueriesTypeOK, SettleCurrent, ghosts
<1>5. JobIsGiven' /\ ReplicaIsRecent'  BY <1>1 DEF JobIsGiven, ReplicaIsRecent, ghosts
<1>6. EventsAreSound'
  <2>1. Remembered  BY <1>1, <1>2 DEF Remembered, ghosts
  <2> QED  BY <1>1, <2>1, EventsKept
<1> QED  BY <1>2, <1>3, <1>4, <1>5, <1>6

LEMMA CloseInv == ASSUME OutcomeInv, Close PROVE OutcomeInv'
<1> USE DEF OutcomeInv
<1>1. /\ SettleAny("refused") /\ Retire /\ closed' = TRUE
      /\ UNCHANGED <<file, tail, pc, job, seen, replica, events, mishaps, ghosts>>
  BY DEF Close
<1>2. current' = None /\ timer' = FALSE
  BY <1>1 DEF SettleAny, SettleCurrent, CurrentIsServed, QueriesTypeOK
<1>3. /\ CurrentIsServed' /\ worker' = None
      /\ terminated' \in SUBSET Query /\ terminated \subseteq terminated'
  BY <1>1, <1>2, RetireInv
<1>4. WaitingIsFresh' /\ outcome' \in [Query -> Outcomes] /\ OutcomeIsOwn'
  <2>1. CASE current = None
    BY <1>1, <2>1 DEF SettleAny, WaitingIsFresh, OutcomeIsOwn, QueriesTypeOK, ghosts
  <2>2. CASE current # None
    <3>1. "refused" \in Outcomes \ {"unasked", "answered"}  BY DEF Outcomes
    <3> QED  BY <1>1, <2>2, <3>1, SettledIsOwn DEF SettleAny
  <2> QED  BY <2>1, <2>2
<1>5. QueriesTypeOK'  BY <1>1, <1>2, <1>3, <1>4 DEF QueriesTypeOK, ghosts
<1>6. JobIsGiven' /\ ReplicaIsRecent'  BY <1>1 DEF JobIsGiven, ReplicaIsRecent, ghosts
<1>7. EventsAreSound'
  <2>1. Remembered  BY <1>1, <1>3 DEF Remembered, ghosts
  <2> QED  BY <1>1, <2>1, EventsKept
<1> QED  BY <1>3, <1>4, <1>5, <1>6, <1>7

-----------------------------------------------------------------------------
(* The worker thread and the adapter *)

\* A worker at work is on a query that had its turn.
LEMMA WorkerKnowsItsJob ==
    ASSUME OutcomeInv, NEW k \in Query, pc[k] # "none"
    PROVE  job[k] \in Query /\ given[job[k]] # None
BY DEF OutcomeInv, JobIsGiven, QueriesTypeOK

\* What holds of the main thread is untouched by a worker's step.
LEMMA WorkerStep ==
    ASSUME OutcomeInv, NEW k \in Query, NEW p \in {"idle", "read", "evaluate", "gone"},
           pc[k] # "none", pc' = [pc EXCEPT ![k] = p],
           UNCHANGED <<executorVars, job, terminated, outcome, given, from, answer>>,
           evaluated \subseteq evaluated', fell \subseteq fell'
    PROVE  /\ pc' \in [Query -> {"none", "idle", "stat", "read", "evaluate", "gone"}]
           /\ WaitingIsFresh' /\ CurrentIsServed' /\ JobIsGiven' /\ OutcomeIsOwn'
           /\ \A w \in Query : w # k => pc'[w] = pc[w]
           /\ Remembered
<1> USE DEF OutcomeInv, executorVars
<1>1. /\ \A w \in Query : pc'[w] = IF w = k THEN p ELSE pc[w]
      /\ pc' \in [Query -> {"none", "idle", "stat", "read", "evaluate", "gone"}]
  BY DEF QueriesTypeOK
<1>2. \A w \in Query : pc'[w] = "none" <=> pc[w] = "none"  BY <1>1
<1>3. WaitingIsFresh'  BY <1>2 DEF WaitingIsFresh
<1>4. CurrentIsServed'  BY <1>2, QueryExecutorAssumption DEF CurrentIsServed, QueriesTypeOK
<1>5. JobIsGiven'  BY <1>2 DEF JobIsGiven
<1>6. OutcomeIsOwn'  BY DEF OutcomeIsOwn
<1> QED  BY <1>1, <1>3, <1>4, <1>5, <1>6 DEF Remembered

\* What a worker says of its own evaluation is sound.
LEMMA SayIsSound ==
    ASSUME OutcomeInv, NEW k \in Query, NEW kind \in Kinds, pc[k] # "none",
           UNCHANGED <<job, given, from>>,
           replica' \in [Query -> [signature : Version \cup {None}, version : Version]],
           kind = "result" => from[job[k]] <= replica'[k].version,
           kind = "started" => job[k] \in evaluated',
           kind \in {"threw", "exit"} => k \in fell' \cup terminated'
    PROVE  Say(k, kind) \in Sound(k)'
<1>1. job[k] \in Query /\ given[job[k]] # None  BY WorkerKnowsItsJob
<1>2. Say(k, kind) \in Event  BY <1>1 DEF Say, Event
<1> QED  BY <1>1, <1>2 DEF Say, Sound

\* The clock of a query may start when what the replica holds is recent enough.
LEMMA BeginInv ==
    ASSUME OutcomeInv, NEW k \in Query, NEW g \in Version \cup {None}, NEW v \in Version,
           pc[k] \in {"stat", "read"}, Begin(k),
           replica' = [replica EXCEPT ![k] = [signature |-> g, version |-> v]],
           g # None => g <= v, from[job[k]] <= v,
           seen' = seen \/ seen' = [seen EXCEPT ![k] = file],
           UNCHANGED <<file, executorVars, job, terminated, outcome, mishaps, given,
                       from, answer, fell>>
    PROVE  OutcomeInv'
<1> USE DEF OutcomeInv
<1>1. pc[k] # "none" /\ job[k] \in Query  BY WorkerKnowsItsJob
<1>2. /\ pc' = [pc EXCEPT ![k] = "evaluate"]
      /\ events' = [events EXCEPT ![k] = Append(@, Say(k, "started"))]
      /\ evaluated' = evaluated \cup {job[k]}
  BY DEF Begin
<1>3. /\ pc' \in [Query -> {"none", "idle", "stat", "read", "evaluate", "gone"}]
      /\ WaitingIsFresh' /\ CurrentIsServed' /\ JobIsGiven' /\ OutcomeIsOwn'
      /\ \A w \in Query : w # k => pc'[w] = pc[w]
      /\ Remembered
  BY <1>1, <1>2, WorkerStep
<1>4. /\ replica' \in [Query -> [signature : Version \cup {None}, version : Version]]
      /\ \A w \in Query : w # k => replica'[w] = replica[w]
      /\ replica'[k] = [signature |-> g, version |-> v]
  BY DEF QueriesTypeOK
<1>5. /\ seen' \in [Query -> Version \cup {None}]
      /\ \A w \in Query : seen'[w] = seen[w] \/ seen'[w] = file
  <2>1. seen \in [Query -> Version \cup {None}] /\ file \in Version  BY DEF QueriesTypeOK
  <2> QED  BY <2>1
<1>6. EventsAreSound' /\ events' \in [Query -> Seq(Event)]
  <2>1. Say(k, "started") \in Sound(k)'
    BY <1>1, <1>2, <1>4, SayIsSound DEF Kinds
  <2> QED  BY <1>2, <1>3, <2>1, EventsGrow
<1>7. QueriesTypeOK'  BY <1>1, <1>2, <1>3, <1>4, <1>5, <1>6 DEF QueriesTypeOK, executorVars
<1>8. ReplicaIsRecent'
  <2>1. ASSUME NEW w \in Query PROVE seen'[w] # None => seen'[w] <= file
    <3>1. file <= file
      BY QueryExecutorAssumption DEF QueriesTypeOK, Version, QueryExecutorAssumption
    <3>2. seen[w] # None => seen[w] <= file  BY DEF ReplicaIsRecent
    <3>3. seen'[w] = seen[w] \/ seen'[w] = file  BY <1>5
    <3> QED  BY <3>1, <3>2, <3>3
  <2>2. ASSUME NEW w \in Query
        PROVE  /\ replica'[w].signature # None => replica'[w].signature <= replica'[w].version
               /\ pc'[w] = "evaluate" => from[job[w]] <= replica'[w].version
    <3>1. CASE w = k  BY <1>4, <3>1
    <3>2. CASE w # k  BY <1>3, <1>4, <3>2 DEF ReplicaIsRecent
    <3> QED  BY <3>1, <3>2
  <2> QED  BY <2>1, <2>2 DEF ReplicaIsRecent
<1> QED  BY <1>3, <1>6, <1>7, <1>8

LEMMA StatInv == ASSUME OutcomeInv, NEW k \in Query, Stat(k) PROVE OutcomeInv'
<1> USE DEF OutcomeInv
<1>1. /\ pc[k] = "stat" /\ seen' = [seen EXCEPT ![k] = file]
      /\ UNCHANGED <<file, executorVars, job, terminated, outcome, mishaps, given,
                     from, answer, fell>>
  BY DEF Stat
<1>2. job[k] \in Query /\ from[job[k]] <= file
  BY <1>1, WorkerKnowsItsJob DEF ReplicaIsRecent
<1>3. replica[k] \in [signature : Version \cup {None}, version : Version] /\ file \in Version
      /\ file # None /\ from[job[k]] \in Version
  BY <1>2, QueryExecutorAssumption DEF QueriesTypeOK, QueryExecutorAssumption
<1>4. CASE file = replica[k].signature /\ UNCHANGED replica /\ Begin(k)
  <2>1. file <= replica[k].version  BY <1>3, <1>4 DEF ReplicaIsRecent
  <2>2. from[job[k]] <= replica[k].version
    BY <1>2, <1>3, <2>1, QueryExecutorAssumption DEF Version, QueryExecutorAssumption
  <2>3. replica' = [replica EXCEPT ![k] =
                       [signature |-> replica[k].signature, version |-> replica[k].version]]
    BY <1>3, <1>4 DEF QueriesTypeOK
  <2> QED  BY <1>1, <1>3, <1>4, <2>1, <2>2, <2>3, BeginInv
<1>5. CASE /\ file = 0 /\ Begin(k)
           /\ replica' = [replica EXCEPT ![k] = [signature |-> 0, version |-> 0]]
  <2>1. 0 \in Version /\ 0 <= 0 /\ from[job[k]] <= 0
    BY <1>2, <1>5, QueryExecutorAssumption DEF Version, QueryExecutorAssumption
  <2> QED  BY <1>1, <1>5, <2>1, BeginInv
<1>6. CASE pc' = [pc EXCEPT ![k] = "read"] /\ UNCHANGED <<replica, events, evaluated>>
  <2>1. /\ pc' \in [Query -> {"none", "idle", "stat", "read", "evaluate", "gone"}]
        /\ WaitingIsFresh' /\ CurrentIsServed' /\ JobIsGiven' /\ OutcomeIsOwn'
        /\ \A w \in Query : w # k => pc'[w] = pc[w]
        /\ Remembered
    BY <1>1, <1>6, WorkerStep
  <2>2. /\ seen' \in [Query -> Version \cup {None}]
        /\ \A w \in Query : seen'[w] = seen[w] \/ seen'[w] = file
    BY <1>1, <1>3 DEF QueriesTypeOK
  <2>3. QueriesTypeOK'  BY <1>1, <1>6, <2>1, <2>2 DEF QueriesTypeOK, executorVars
  <2>4. ReplicaIsRecent'
    <3>1. \A w \in Query : seen'[w] # None => seen'[w] <= file
      BY <1>3, <2>2, QueryExecutorAssumption DEF ReplicaIsRecent, Version, QueryExecutorAssumption
    <3>2. \A w \in Query : pc'[w] = "evaluate" => pc[w] = "evaluate"
      BY <1>6, <2>1 DEF QueriesTypeOK
    <3> QED  BY <1>1, <1>6, <3>1, <3>2 DEF ReplicaIsRecent
  <2>5. EventsAreSound'  BY <1>6, <2>1, EventsKept
  <2> QED  BY <2>1, <2>3, <2>4, <2>5
<1> QED  BY <1>4, <1>5, <1>6 DEF Stat

LEMMA ReadFileInv == ASSUME OutcomeInv, NEW k \in Query, ReadFile(k) PROVE OutcomeInv'
<1> USE DEF OutcomeInv
<1>1. pc[k] = "read" /\ Begin(k)  BY DEF ReadFile
<1>2. seen[k] \in Version \cup {None} /\ file \in Version /\ (seen[k] # None => seen[k] <= file)
  BY DEF QueriesTypeOK, ReplicaIsRecent
<1>3. from[job[k]] <= file  BY <1>1, WorkerKnowsItsJob DEF ReplicaIsRecent
<1> QED  BY <1>1, <1>2, <1>3, BeginInv DEF ReadFile

\* The steps after which a worker evaluates no more.
LEMMA StopInv ==
    ASSUME OutcomeInv, NEW k \in Query, NEW p \in {"idle", "gone"}, NEW kind \in Kinds,
           pc[k] # "none", pc' = [pc EXCEPT ![k] = p],
           events' = [events EXCEPT ![k] = Append(@, Say(k, kind))],
           UNCHANGED <<file, executorVars, job, seen, replica, terminated, outcome, ghosts>>,
           kind = "result" => from[job[k]] <= replica[k].version,
           kind # "started", kind \in {"threw", "exit"} => k \in terminated
    PROVE  OutcomeInv'
<1> USE DEF OutcomeInv, ghosts
<1>1. /\ pc' \in [Query -> {"none", "idle", "stat", "read", "evaluate", "gone"}]
      /\ WaitingIsFresh' /\ CurrentIsServed' /\ JobIsGiven' /\ OutcomeIsOwn'
      /\ \A w \in Query : w # k => pc'[w] = pc[w]
      /\ Remembered
  BY WorkerStep
<1>2. EventsAreSound' /\ events' \in [Query -> Seq(Event)]
  <2>1. Say(k, kind) \in Sound(k)'  BY SayIsSound DEF QueriesTypeOK
  <2> QED  BY <1>1, <2>1, EventsGrow
<1>3. QueriesTypeOK'  BY <1>1, <1>2 DEF QueriesTypeOK, executorVars
<1>4. ReplicaIsRecent'
  <2>1. \A w \in Query : pc'[w] = "evaluate" => pc[w] = "evaluate"  BY <1>1 DEF QueriesTypeOK
  <2> QED  BY <2>1 DEF ReplicaIsRecent
<1> QED  BY <1>1, <1>2, <1>3, <1>4

LEMMA EvaluateInv == ASSUME OutcomeInv, NEW k \in Query, Evaluate(k) PROVE OutcomeInv'
<1>1. from[job[k]] <= replica[k].version  BY DEF Evaluate, OutcomeInv, ReplicaIsRecent
<1> QED  BY <1>1, StopInv DEF Evaluate, Kinds

LEMMA FailInv == ASSUME OutcomeInv, NEW k \in Query, Fail(k) PROVE OutcomeInv'
BY StopInv DEF Fail, Kinds

LEMMA ExitInv == ASSUME OutcomeInv, NEW k \in Query, Exit(k) PROVE OutcomeInv'
BY StopInv DEF Exit, Alive, Kinds

LEMMA CrashInv == ASSUME OutcomeInv, NEW k \in Query, Crash(k) PROVE OutcomeInv'
<1> USE DEF OutcomeInv
<1>1. /\ pc[k] # "none" /\ pc' = [pc EXCEPT ![k] = "gone"] /\ fell' = fell \cup {k}
      /\ UNCHANGED <<file, executorVars, job, seen, replica, terminated, outcome, given,
                     from, answer, evaluated>>
  BY DEF Crash, Alive
<1>2. PICK last \in {<<Say(k, "exit")>>, <<Say(k, "threw"), Say(k, "exit")>>} :
         events' = [events EXCEPT ![k] = @ \o last]
  BY DEF Crash
<1>3. /\ pc' \in [Query -> {"none", "idle", "stat", "read", "evaluate", "gone"}]
      /\ WaitingIsFresh' /\ CurrentIsServed' /\ JobIsGiven' /\ OutcomeIsOwn'
      /\ \A w \in Query : w # k => pc'[w] = pc[w]
      /\ Remembered
  BY <1>1, WorkerStep
<1>4. last \in Seq(Sound(k)')
  <2>1. Say(k, "exit") \in Sound(k)' /\ Say(k, "threw") \in Sound(k)'
    <3>1. "exit" \in Kinds /\ "threw" \in Kinds  BY DEF Kinds
    <3> QED  BY <1>1, <3>1, SayIsSound DEF QueriesTypeOK
  <2>2. ASSUME NEW S, NEW x \in S, NEW e \in S PROVE <<e>> \in Seq(S) /\ <<x, e>> \in Seq(S)
    OBVIOUS
  <2> QED  BY <2>1, <2>2
<1>5. ASSUME NEW w \in Query PROVE events'[w] \in Seq(Sound(w)')
  <2>1. events[w] \in Seq(Sound(w)')
    BY <1>3, SoundGrows, SeqMonotonic DEF EventsAreSound
  <2>2. CASE w = k
    <3>1. events'[k] = events[k] \o last  BY <1>2 DEF QueriesTypeOK
    <3> QED  BY <1>4, <2>1, <2>2, <3>1, ConcatProperties
  <2>3. CASE w # k  BY <1>2, <2>1, <2>3 DEF QueriesTypeOK
  <2> QED  BY <2>2, <2>3
<1>6. events' \in [Query -> Seq(Event)]
  <2>1. ASSUME NEW w \in Query PROVE events'[w] \in Seq(Event)
    <3>1. Sound(w)' \subseteq Event  BY DEF Sound
    <3> QED  BY <1>5, <3>1, SeqMonotonic
  <2> QED  BY <1>2, <2>1 DEF QueriesTypeOK
<1>7. QueriesTypeOK'  BY <1>1, <1>3, <1>6 DEF QueriesTypeOK, executorVars
<1>8. ReplicaIsRecent'
  <2>1. \A w \in Query : pc'[w] = "evaluate" => pc[w] = "evaluate"
    BY <1>1, <1>3 DEF QueriesTypeOK
  <2> QED  BY <1>1, <2>1 DEF ReplicaIsRecent
<1> QED  BY <1>3, <1>5, <1>7, <1>8 DEF EventsAreSound

LEMMA ReplaceInv == ASSUME OutcomeInv, Replace PROVE OutcomeInv'
<1> USE QueryExecutorAssumption
    DEF OutcomeInv, Replace, workerVars, executorVars, ghosts, QueryExecutorAssumption
<1>1. file' \in Version /\ file < file'  BY DEF QueriesTypeOK, Version
<1>2. QueriesTypeOK'  BY <1>1 DEF QueriesTypeOK
<1>3. WaitingIsFresh' /\ CurrentIsServed' /\ JobIsGiven' /\ OutcomeIsOwn'
  BY DEF WaitingIsFresh, CurrentIsServed, JobIsGiven, OutcomeIsOwn
<1>4. ReplicaIsRecent'
  <2>1. \A n \in Version : n <= file => n <= file'  BY DEF QueriesTypeOK, Version
  <2>2. \A q \in Query : from'[q] <= file'  BY <2>1 DEF QueriesTypeOK, ReplicaIsRecent
  <2>3. \A k \in Query : seen'[k] # None => seen'[k] <= file'
    BY <2>1 DEF QueriesTypeOK, ReplicaIsRecent
  <2> QED  BY <2>2, <2>3 DEF ReplicaIsRecent
<1>5. EventsAreSound'  BY EventsKept DEF Remembered
<1> QED  BY <1>2, <1>3, <1>4, <1>5

-----------------------------------------------------------------------------
LEMMA OutcomeInvNext == ASSUME OutcomeInv, [QueriesNext]_queriesVars PROVE OutcomeInv'
<1>1. CASE UNCHANGED queriesVars
  <2> USE <1>1 DEF OutcomeInv, queriesVars, executorVars, workerVars, ghosts
  <2>1. QueriesTypeOK' /\ WaitingIsFresh' /\ CurrentIsServed'
    BY DEF QueriesTypeOK, WaitingIsFresh, CurrentIsServed
  <2>2. JobIsGiven' /\ ReplicaIsRecent' /\ OutcomeIsOwn'
    BY DEF JobIsGiven, ReplicaIsRecent, OutcomeIsOwn
  <2>3. EventsAreSound'  BY EventsKept DEF Remembered
  <2> QED  BY <2>1, <2>2, <2>3
<1>2. CASE Turn  BY <1>2, RefuseInv, RunOneInv DEF Turn
<1>3. CASE Timeout \/ Close \/ Replace  BY <1>3, TimeoutInv, CloseInv, ReplaceInv
<1>4. CASE \E q \in Query : Execute(q)  BY <1>4, ExecuteInv
<1>5. CASE \E k \in Query : Hear(k)  BY <1>5, OnMessageInv, OnDeadInv DEF Hear
<1>6. CASE \E k \in Query : Work(k)  BY <1>6, StatInv, ReadFileInv, EvaluateInv DEF Work
<1>7. CASE \E k \in Query : Fail(k) \/ Crash(k) \/ Exit(k)
  BY <1>7, FailInv, CrashInv, ExitInv
<1> QED  BY <1>1, <1>2, <1>3, <1>4, <1>5, <1>6, <1>7 DEF QueriesNext

LEMMA Invariance == QueriesSpec => []OutcomeInv
<1>1. QueriesInit => OutcomeInv  BY OutcomeInvInit
<1>2. OutcomeInv /\ [QueriesNext]_queriesVars => OutcomeInv'  BY OutcomeInvNext
<1> QED  BY <1>1, <1>2, PTL DEF QueriesSpec

(* The executor, its workers and their messages keep the shape the code    *)
(* gives them (OxigraphQueryExecutor.ts:40-60).                            *)
THEOREM QueriesTypeCorrect == QueriesSpec => []QueriesTypeOK
<1>1. OutcomeInv => QueriesTypeOK  BY DEF OutcomeInv
<1> QED  BY <1>1, Invariance, PTL

(* Whatever queries run away, workers die and files are renamed into       *)
(* place: an answer is never older than the file its query found, a query  *)
(* is told of a crash only when its own worker died by itself, and times   *)
(* out only when its own evaluation began                                  *)
(* (OxigraphQueryExecutor.ts:92-161, OxigraphQueryWorker.ts:16-43).        *)
THEOREM OutcomesAreOwn == QueriesSpec => []OutcomeIsOwn
<1>1. OutcomeInv => OutcomeIsOwn  BY DEF OutcomeInv
<1> QED  BY <1>1, Invariance, PTL
=============================================================================
