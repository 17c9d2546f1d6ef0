-------------------------- MODULE OxigraphAdapter --------------------------
(***************************************************************************)
(* The file-backed triplestore adapter                                     *)
(* (packages/semantic-memory/src/adapters/OxigraphAdapter.ts): an          *)
(* in-memory store, a full dump to dataset.nq through a temp file and a    *)
(* rename, flushes that run one at a time and are shared by every write    *)
(* that arrives before they start, and batches that defer the flush while  *)
(* ANY batch of ANY caller is open.                                        *)
(*                                                                         *)
(* Callers are the concurrent asynchronous call chains of the gateway.     *)
(* Between two awaits a chain runs alone, so one action is one such run.   *)
(* The dataset is abstracted to its version: the number of mutations made  *)
(* on the way to it (an update, a putGraph, an import or a restore is one  *)
(* mutation).  What a version contains never matters here, only which      *)
(* mutations it includes.                                                  *)
(***************************************************************************)
EXTENDS Naturals, FiniteSets

CONSTANTS
    Callers,     \* concurrent call chains
    MaxVersion,  \* bound on the version of the in-memory dataset
    MaxNesting   \* bound on nested batch() calls of one chain

ASSUME OxigraphAssumption ==
    /\ IsFiniteSet(Callers)
    /\ MaxVersion \in Nat
    /\ MaxNesting \in Nat \ {0}

VARIABLES
    mem,        \* this.store: version of the in-memory dataset
    disk,       \* dataset.nq: version of the file
    tmp,        \* dataset.nq.tmp: version of the temp file
    phase,      \* where the running flush is: "none", "dumped", "written"
    dump,       \* version the running flush has dumped
    pending,    \* pendingFlush # null: a flush is queued and not started
    batchDepth, \* depth of nested and overlapping batch() calls
    dirty,      \* a write was deferred by an open batch
    status,     \* adapter status: "running" or "stopped"
    own,        \* own[c]: how many of the open batches are c's
    wait,       \* wait[c]: the flush c awaits: "none", "pending", "running"
    asked,      \* asked[c]: newest version c's current call has to save
    stopping,   \* stopping[c]: c's await is the one inside stop()
    \* history of what callers were told, and of what they were told failed
    promised,   \* promised[c]: newest version c awaited a flush for, and got
    abandoned   \* a failed call left a mutation that nothing will save

vars == <<mem, disk, tmp, phase, dump, pending, batchDepth, dirty, status,
          own, wait, asked, stopping, promised, abandoned>>

callVars == <<own, batchDepth, dirty>>
fileVars == <<disk, tmp>>
history  == <<promised, abandoned>>

Newer(a, b) == IF a > b THEN a ELSE b

TypeOK ==
    /\ mem \in Nat /\ disk \in Nat /\ tmp \in Nat /\ dump \in Nat
    /\ phase \in {"none", "dumped", "written"}
    /\ pending \in BOOLEAN /\ dirty \in BOOLEAN /\ batchDepth \in Nat
    /\ status \in {"running", "stopped"}
    /\ own \in [Callers -> 0 .. MaxNesting]
    /\ wait \in [Callers -> {"none", "pending", "running"}]
    /\ asked \in [Callers -> Nat]
    /\ stopping \in [Callers -> BOOLEAN]
    /\ promised \in [Callers -> Nat]
    /\ abandoned \in BOOLEAN

Init ==
    /\ mem = 0 /\ disk = 0 /\ tmp = 0 /\ dump = 0
    /\ phase = "none" /\ pending = FALSE
    /\ batchDepth = 0 /\ dirty = FALSE /\ status = "running"
    /\ own = [c \in Callers |-> 0]
    /\ wait = [c \in Callers |-> "none"]
    /\ asked = [c \in Callers |-> 0]
    /\ stopping = [c \in Callers |-> FALSE]
    /\ promised = [c \in Callers |-> 0]
    /\ abandoned = FALSE

-----------------------------------------------------------------------------
(* Calls.                                                                  *)

Idle(c) == wait[c] = "none"

\* Mutation: a caller joins the flush that is already running.
JoinRunning(c, version) ==
    /\ pending' = (pending \/ phase = "none")
    /\ wait' = [wait EXCEPT ![c] = IF phase = "none" THEN "pending"
                                   ELSE "running"]
    /\ asked' = [asked EXCEPT ![c] = version]

\* flush(): join the queued flush, or queue one behind the running one.
JoinFlush(c, version) ==
    /\ pending' = TRUE
    /\ wait' = [wait EXCEPT ![c] = "pending"]
    /\ asked' = [asked EXCEPT ![c] = version]

\* update() and everything built on it, putGraph(), importDataset(): mutate
\* the store, then persistOrDefer().
WriteThrough(c) ==
    /\ Idle(c) /\ mem < MaxVersion
    /\ batchDepth = 0
    /\ mem' = mem + 1
    /\ JoinFlush(c, mem')
    /\ UNCHANGED <<fileVars, phase, dump, callVars, status, stopping, history>>

\* In a batch, of whichever chain, the flush is left to the end of the batch;
\* a caller that has none of its own is told at once that it is done.
WriteDeferred(c) ==
    /\ Idle(c) /\ mem < MaxVersion
    /\ batchDepth > 0
    /\ mem' = mem + 1
    /\ dirty' = TRUE
    /\ asked' = [asked EXCEPT ![c] = IF own[c] = 0 THEN @ ELSE mem']
    /\ UNCHANGED <<fileVars, phase, dump, pending, batchDepth, status, own,
                   wait, stopping, promised, abandoned>>

\* Mutation: a batch starts with nothing deferred.
BeginBatchClean(c) ==
    /\ Idle(c) /\ own[c] < MaxNesting
    /\ batchDepth' = batchDepth + 1
    /\ own' = [own EXCEPT ![c] = @ + 1]
    /\ dirty' = FALSE
    /\ UNCHANGED <<mem, fileVars, phase, dump, pending, status, wait,
                   asked, stopping, history>>

\* batch(fn) up to the call of fn.
BeginBatch(c) ==
    /\ Idle(c) /\ own[c] < MaxNesting
    /\ batchDepth' = batchDepth + 1
    /\ own' = [own EXCEPT ![c] = @ + 1]
    /\ UNCHANGED <<mem, fileVars, phase, dump, pending, dirty, status, wait,
                   asked, stopping, history>>

\* batch(fn) after fn returned or threw: the finally block.  Whether fn threw
\* changes only what the caller is told, never what is flushed.
EndBatch(c) ==
    /\ Idle(c) /\ own[c] > 0
    /\ batchDepth' = batchDepth - 1
    /\ own' = [own EXCEPT ![c] = @ - 1]
    /\ IF batchDepth' = 0 /\ dirty
       THEN /\ dirty' = FALSE
            /\ JoinFlush(c, asked[c])
       ELSE /\ asked' = [asked EXCEPT ![c] = IF own[c] = 1 THEN 0 ELSE @]
            /\ UNCHANGED <<dirty, pending, wait>>
    /\ UNCHANGED <<mem, fileVars, phase, dump, status, stopping, promised,
                   abandoned>>

\* restore(): the store is replaced and the backup loaded into it.  A backup
\* that does not load throws after the replacement, so the emptied store
\* stays in memory and no flush is asked for.
RestoreThrows(c) ==
    /\ Idle(c) /\ own[c] = 0 /\ mem < MaxVersion
    /\ mem' = mem + 1
    /\ abandoned' = (abandoned \/ ~(pending \/ dirty))
    /\ UNCHANGED <<fileVars, phase, dump, pending, callVars, status, wait,
                   asked, stopping, promised>>

\* stop(): flush whatever is in memory, open batches or not.
StopCall(c) ==
    /\ Idle(c) /\ own[c] = 0 /\ status = "running"
    /\ JoinFlush(c, mem)
    /\ stopping' = [stopping EXCEPT ![c] = TRUE]
    /\ UNCHANGED <<mem, fileVars, phase, dump, callVars, status, history>>

-----------------------------------------------------------------------------
(* The flush queue.                                                        *)

\* The queued flush starts: it stops accepting joiners and dumps the store
\* in one synchronous step, after the previous flush has settled.
StartFlush ==
    /\ pending /\ phase = "none"
    /\ pending' = FALSE
    /\ phase' = "dumped"
    /\ dump' = mem
    /\ wait' = [c \in Callers |-> IF wait[c] = "pending" THEN "running"
                                  ELSE wait[c]]
    /\ UNCHANGED <<mem, fileVars, callVars, status, asked, stopping, history>>

WriteTmp ==
    /\ phase = "dumped"
    /\ tmp' = dump
    /\ phase' = "written"
    /\ UNCHANGED <<mem, disk, dump, pending, callVars, status, wait, asked,
                   stopping, history>>

Joined == {c \in Callers : wait[c] = "running"}

Release ==
    /\ phase' = "none"
    /\ dump' = 0
    /\ wait' = [c \in Callers |-> IF c \in Joined THEN "none" ELSE wait[c]]
    /\ asked' = [c \in Callers |-> IF c \in Joined THEN 0 ELSE asked[c]]
    /\ stopping' = [c \in Callers |-> stopping[c] /\ c \notin Joined]

\* Mutation: everybody who waits is told, not only who joined.
SettleAll(told) == [c \in Callers |-> IF Idle(c) THEN told[c]
                                     ELSE Newer(told[c], asked[c])]

\* What the callers of a settled flush have been told.
Settle(told) == [c \in Callers |-> IF c \in Joined THEN Newer(told[c], asked[c])
                                  ELSE told[c]]

\* The rename replaces dataset.nq; every joined caller resolves.
Rename ==
    /\ phase = "written"
    /\ disk' = tmp
    /\ tmp' = 0
    /\ Release
    /\ status' = IF \E c \in Joined : stopping[c] THEN "stopped" ELSE status
    /\ promised' = Settle(promised)
    /\ abandoned' = (abandoned /\ mem > tmp)
    /\ UNCHANGED <<mem, pending, callVars>>

\* Mutation: a failed flush clears the queue behind it.
FlushFailsClears ==
    /\ phase # "none"
    /\ Release
    /\ abandoned' = TRUE
    /\ pending' = FALSE
    /\ UNCHANGED <<mem, fileVars, callVars, status, promised>>

\* The dump, the write or the rename fails; every joined caller is rejected
\* and nothing retries for them.
FlushFails ==
    /\ phase # "none"
    /\ Release
    /\ abandoned' = (abandoned \/ ~(pending \/ dirty))
    /\ UNCHANGED <<mem, fileVars, pending, callVars, status, promised>>

-----------------------------------------------------------------------------
\* The process dies, or exits after stop(); the next one runs initialize()
\* and start() on a fresh adapter, which loads dataset.nq.
CrashRestart ==
    /\ mem' = disk
    /\ phase' = "none" /\ dump' = 0 /\ pending' = FALSE
    /\ batchDepth' = 0 /\ dirty' = FALSE /\ status' = "running"
    /\ own' = [c \in Callers |-> 0]
    /\ wait' = [c \in Callers |-> "none"]
    /\ asked' = [c \in Callers |-> 0]
    /\ stopping' = [c \in Callers |-> FALSE]
    /\ abandoned' = FALSE
    /\ UNCHANGED <<fileVars, promised>>

Call(c) ==
    \/ WriteThrough(c)
    \/ WriteDeferred(c)
    \/ BeginBatch(c)
    \/ EndBatch(c)
    \/ RestoreThrows(c)
    \/ StopCall(c)

Next ==
    \/ \E c \in Callers : Call(c)
    \/ StartFlush \/ WriteTmp \/ Rename \/ FlushFails
    \/ CrashRestart

Spec == Init /\ [][Next]_vars

\* libuv completes every file operation and node runs every ready
\* continuation, so a flush that can take its next step takes it.
Fairness ==
    /\ WF_vars(StartFlush)
    /\ WF_vars(WriteTmp)
    /\ WF_vars(Rename \/ FlushFails)

FairSpec == Spec /\ Fairness

-----------------------------------------------------------------------------
(* Safety.                                                                 *)

\* The durability contract of flush(): a caller whose promise was resolved
\* by a flush has its mutation in dataset.nq, also after a crash, whatever
\* writes, batches and failures surround it.
FlushedIsDurable == \A c \in Callers : promised[c] <= disk

\* A flush a caller is joined to covers the caller's mutation: the queued one
\* because it has not dumped yet, the running one because it dumped later.
JoinCoversWrite ==
    \A c \in Callers :
        /\ wait[c] # "none" => asked[c] <= mem
        /\ wait[c] = "running" => phase # "none" /\ asked[c] <= dump
        /\ wait[c] = "pending" => pending

\* No write is forgotten: as long as no call failed, memory ahead of the file
\* always has somebody who will save it (an open batch that is marked dirty, a
\* queued flush, or a running flush that dumped the newest version).
NothingForgotten ==
    mem > disk =>
        \/ abandoned
        \/ dirty /\ batchDepth > 0
        \/ pending
        \/ phase # "none" /\ dump = mem

\* The deferred-flush mark is never left behind without an open batch whose
\* end will act on it.
DirtyHasOwner == dirty => \E c \in Callers : own[c] > 0

\* The file never goes back to an older dataset.
DiskNeverRegresses == [][disk' >= disk]_disk

-----------------------------------------------------------------------------
(* Liveness.                                                               *)

\* Every caller that waits for a flush is eventually resolved or rejected.
WaitersSettle == \A c \in Callers : wait[c] # "none" ~> wait[c] = "none"

-----------------------------------------------------------------------------
\* The adapter implements the durable store.
Store == INSTANCE DurableStore WITH
    Callers <- Callers, mem <- mem, disk <- disk, promised <- promised
StoreSpec == Store!DSSpec
=============================================================================
