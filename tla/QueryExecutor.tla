---------------------------- MODULE QueryExecutor ----------------------------
(***************************************************************************)
(* The read-only queries of the SPARQL endpoint: OxigraphQueryExecutor on  *)
(* the main thread and OxigraphQueryWorker in a worker thread.             *)
(*                                                                         *)
(* Queries run one at a time, in the order they were asked.  The worker    *)
(* owns a replica of the adapter's file, which it reloads when the file's  *)
(* signature changed; it reports that the evaluation starts, which arms    *)
(* the query's deadline, and then evaluates without a pause.  A deadline   *)
(* that passes terminates the worker, a worker may also die by itself, and *)
(* the next query starts another one.  Meanwhile the events of workers     *)
(* that are already replaced still arrive.                                 *)
(*                                                                         *)
(* A worker is named by the query that spawned it.  The content of the     *)
(* file is a version, its signature the version as well (each write        *)
(* renames another file into place, so the inode differs).                 *)
(***************************************************************************)
EXTENDS Naturals, Sequences

CONSTANTS
    Queries,        \* how many queries are asked
    Runaway,        \* the queries whose evaluation never ends
    LastVersion,    \* bound on the replacements of the file
    MaxMishaps,     \* bound on the crashes and failures of workers
    None            \* no query, no worker, no signature

Query == 1 .. Queries
Version == 0 .. LastVersion     \* 0: the file does not exist

ASSUME QueryExecutorAssumption ==
    /\ Queries \in Nat /\ LastVersion \in Nat \ {0} /\ MaxMishaps \in Nat
    /\ Runaway \subseteq Query
    /\ None \notin Query \cup Version

VARIABLES
    file,           \* the version of dataset.nq
    tail,           \* the queries chained behind the current one
    current,        \* the query the worker was given, or None
    timer,          \* the current query's deadline is armed
    worker,         \* the executor's worker, or None
    closed,
    pc,             \* of each worker: what it is doing
    job,            \* of each worker: the query it is on
    seen,           \* of each worker: the signature refresh() has just read
    replica,        \* of each worker: the signature and the version it holds
    terminated,     \* the workers that terminate() was called on
    events,         \* of each worker: what the main thread has yet to be told
    outcome,        \* of each query: how its promise was settled
    mishaps,
    given, from, answer, evaluated, fell      \* history, see below

executorVars == <<tail, current, timer, worker, closed>>
workerVars == <<pc, job, seen, replica, terminated, events>>
ghosts == <<given, from, answer, evaluated, fell>>
queriesVars == <<file, executorVars, workerVars, outcome, mishaps, ghosts>>

Asked == {q \in Query : outcome[q] # "unasked"}
Alive == {k \in Query : pc[k] \notin {"none", "gone"}}

QueriesInit ==
    /\ file \in {0, 1}
    /\ tail = <<>> /\ current = None /\ timer = FALSE
    /\ worker = None /\ closed = FALSE
    /\ pc = [k \in Query |-> "none"]
    /\ job = [k \in Query |-> None]
    /\ seen = [k \in Query |-> None]
    /\ replica = [k \in Query |-> [signature |-> None, version |-> 0]]
    /\ terminated = {}
    /\ events = [k \in Query |-> <<>>]
    /\ outcome = [q \in Query |-> "unasked"]
    /\ mishaps = 0
    \* the worker each query was posted to, the file's version then, the
    \* version its answer rests on; the queries whose evaluation began, and
    \* the workers that died by themselves
    /\ given = [q \in Query |-> None]
    /\ from = [q \in Query |-> 0]
    /\ answer = [q \in Query |-> 0]
    /\ evaluated = {} /\ fell = {}

-----------------------------------------------------------------------------
(* The main thread *)

\* settle() and the rejection or resolution of the current query
SettleCurrent(how) ==
    /\ current' = None
    /\ timer' = FALSE
    /\ outcome' = [outcome EXCEPT ![current] = how]

SettleAny(how) ==
    IF current = None THEN UNCHANGED <<current, timer, outcome>> ELSE SettleCurrent(how)

Execute(q) ==
    /\ Asked = 1 .. q - 1
    /\ outcome' = [outcome EXCEPT ![q] = "waiting"]
    /\ tail' = Append(tail, q)
    /\ UNCHANGED <<file, current, timer, worker, closed, workerVars, mishaps,
                   ghosts>>

\* A query that has its turn after close() is refused.
Refuse ==
    /\ current = None /\ tail # <<>> /\ closed
    /\ outcome' = [outcome EXCEPT ![Head(tail)] = "refused"]
    /\ tail' = Tail(tail)
    /\ UNCHANGED <<file, current, timer, worker, closed, workerVars, mishaps,
                   ghosts>>

\* The message reaches a worker that waits for one; posted to a worker that has
\* died meanwhile it is lost.
RunOne ==
    /\ current = None /\ tail # <<>> /\ ~closed
    /\ LET q == Head(tail)
           k == IF worker = None THEN q ELSE worker
       IN  /\ current' = q
           /\ worker' = k
           /\ given' = [given EXCEPT ![q] = k]
           /\ from' = [from EXCEPT ![q] = file]
           /\ IF pc[k] = "gone" THEN UNCHANGED <<pc, job>>
              ELSE /\ pc' = [pc EXCEPT ![k] = "stat"]
                   /\ job' = [job EXCEPT ![k] = q]
    /\ tail' = Tail(tail)
    /\ UNCHANGED <<file, timer, closed, seen, replica, terminated, events,
                   outcome, mishaps, answer, evaluated, fell>>

\* The 'message' event: what another query or a replaced worker says is dropped.
Heard(k, e) == current = e.query /\ worker = k

OnMessage(k) ==
    /\ events[k] # <<>>
    /\ LET e == Head(events[k])
       IN  /\ e.kind \in {"started", "result", "error"}
           /\ \/ /\ ~Heard(k, e)
                 /\ UNCHANGED <<current, timer, outcome, answer>>
              \/ /\ Heard(k, e) /\ e.kind = "started"
                 /\ timer' = TRUE
                 /\ UNCHANGED <<current, outcome, answer>>
              \/ /\ Heard(k, e) /\ e.kind = "result"
                 /\ SettleCurrent("answered")
                 /\ answer' = [answer EXCEPT ![current] = e.version]
              \/ /\ Heard(k, e) /\ e.kind = "error"
                 /\ SettleCurrent("failed")
                 /\ UNCHANGED answer
    /\ events' = [events EXCEPT ![k] = Tail(@)]
    /\ UNCHANGED <<file, tail, worker, closed, pc, job, seen, replica,
                   terminated, mishaps, given, from, evaluated, fell>>

\* Mutation: the exit of a retired worker is taken for that of the present one.
DeadOfAnyWorker(k) == worker' = None /\ SettleAny("crashed")

\* Mutation: a worker that died stays the executor's worker.
DeadStays(k) ==
    IF worker # k THEN UNCHANGED <<worker, current, timer, outcome>>
    ELSE UNCHANGED worker /\ SettleAny("crashed")

\* dead(): of a worker already replaced or retired nothing is done.
Dead(k) ==
    IF worker # k THEN UNCHANGED <<worker, current, timer, outcome>>
    ELSE worker' = None /\ SettleAny("crashed")

\* The 'error' and the 'exit' event
OnDead(k) ==
    /\ events[k] # <<>>
    /\ Head(events[k]).kind \in {"threw", "exit"}
    /\ Dead(k)
    /\ events' = [events EXCEPT ![k] = Tail(@)]
    /\ UNCHANGED <<file, tail, closed, pc, job, seen, replica, terminated,
                   mishaps, ghosts>>

\* The worker is retired before it has stopped.
Retire ==
    /\ worker' = None
    /\ terminated' = IF worker = None THEN terminated ELSE terminated \cup {worker}

Timeout ==
    /\ current # None /\ timer
    /\ SettleCurrent("timed out")
    /\ Retire
    /\ UNCHANGED <<file, tail, closed, pc, job, seen, replica, events, mishaps,
                   ghosts>>

Close ==
    /\ ~closed
    /\ closed' = TRUE
    /\ SettleAny("refused")
    /\ Retire
    /\ UNCHANGED <<file, tail, pc, job, seen, replica, events, mishaps, ghosts>>

-----------------------------------------------------------------------------
(* The worker thread *)

Say(k, kind) == [kind |-> kind, query |-> job[k], version |-> replica'[k].version]

\* refresh() is over: the clock of the query may start.
Begin(k) ==
    /\ pc' = [pc EXCEPT ![k] = "evaluate"]
    /\ events' = [events EXCEPT ![k] = Append(@, Say(k, "started"))]
    /\ evaluated' = evaluated \cup {job[k]}

\* refresh() reads the signature; a file that does not exist is not read.
Stat(k) ==
    /\ pc[k] = "stat"
    /\ seen' = [seen EXCEPT ![k] = file]
    /\ \/ /\ file = replica[k].signature
          /\ UNCHANGED replica
          /\ Begin(k)
       \/ /\ file # replica[k].signature /\ file = 0
          /\ replica' = [replica EXCEPT ![k] = [signature |-> 0, version |-> 0]]
          /\ Begin(k)
       \/ /\ file # replica[k].signature /\ file # 0
          /\ pc' = [pc EXCEPT ![k] = "read"]
          /\ UNCHANGED <<replica, events, evaluated>>
    /\ UNCHANGED <<file, executorVars, job, terminated, outcome, mishaps, given,
                   from, answer, fell>>

\* The file read may be newer than the signature kept for it.
ReadFile(k) ==
    /\ pc[k] = "read"
    /\ replica' = [replica EXCEPT ![k] =
                       [signature |-> seen[k], version |-> file]]
    /\ Begin(k)
    /\ UNCHANGED <<file, executorVars, job, seen, terminated, outcome, mishaps,
                   given, from, answer, fell>>

Evaluate(k) ==
    /\ pc[k] = "evaluate" /\ job[k] \notin Runaway
    /\ pc' = [pc EXCEPT ![k] = "idle"]
    /\ UNCHANGED replica
    /\ events' = [events EXCEPT ![k] = Append(@, Say(k, "result"))]
    /\ UNCHANGED <<file, executorVars, job, seen, terminated, outcome, mishaps,
                   ghosts>>

\* The file cannot be read or parsed, or the query cannot be evaluated.
Fail(k) ==
    /\ pc[k] \in {"stat", "read", "evaluate"} /\ mishaps < MaxMishaps
    /\ mishaps' = mishaps + 1
    /\ pc' = [pc EXCEPT ![k] = "idle"]
    /\ UNCHANGED replica
    /\ events' = [events EXCEPT ![k] = Append(@, Say(k, "error"))]
    /\ UNCHANGED <<file, executorVars, job, seen, terminated, outcome, ghosts>>

\* The thread dies: 'error', when something was thrown, and 'exit' will follow.
Crash(k) ==
    /\ k \in Alive /\ mishaps < MaxMishaps
    /\ mishaps' = mishaps + 1
    /\ pc' = [pc EXCEPT ![k] = "gone"]
    /\ UNCHANGED replica
    /\ \E last \in {<<Say(k, "exit")>>, <<Say(k, "threw"), Say(k, "exit")>>} :
          events' = [events EXCEPT ![k] = @ \o last]
    /\ fell' = fell \cup {k}
    /\ UNCHANGED <<file, executorVars, job, seen, terminated, outcome, given,
                   from, answer, evaluated>>

\* terminate() takes effect.
Exit(k) ==
    /\ k \in terminated \cap Alive
    /\ pc' = [pc EXCEPT ![k] = "gone"]
    /\ UNCHANGED replica
    /\ events' = [events EXCEPT ![k] = Append(@, Say(k, "exit"))]
    /\ UNCHANGED <<file, executorVars, job, seen, terminated, outcome, mishaps,
                   ghosts>>

\* The adapter renames a newer file into place.
Replace ==
    /\ file < LastVersion
    /\ file' = file + 1
    /\ UNCHANGED <<executorVars, workerVars, outcome, mishaps, ghosts>>

-----------------------------------------------------------------------------
Turn == Refuse \/ RunOne
Hear(k) == OnMessage(k) \/ OnDead(k)
Work(k) == Stat(k) \/ ReadFile(k) \/ Evaluate(k)

QueriesNext ==
    \/ Turn \/ Timeout \/ Close \/ Replace
    \/ \E q \in Query : Execute(q)
    \/ \E k \in Query : Hear(k) \/ Work(k) \/ Fail(k) \/ Crash(k) \/ Exit(k)

\* The event loop runs promises, timers and the workers' events; a thread that
\* is not terminated goes on.  Nothing makes a runaway evaluation end.
QueriesSpec ==
    /\ QueriesInit /\ [][QueriesNext]_queriesVars
    /\ WF_queriesVars(Turn) /\ WF_queriesVars(Timeout)
    /\ \A k \in Query : WF_queriesVars(Hear(k)) /\ WF_queriesVars(Work(k)) /\ WF_queriesVars(Exit(k))

-----------------------------------------------------------------------------
(* Every way a query ends is its own doing: an answer rests on the file as *)
(* it was when the worker got the query or on a newer one, whatever the    *)
(* replica held before; a crash is reported only to the query of a worker  *)
(* that died by itself, never because the late exit of a terminated worker *)
(* was heard; and a query times out only when its own evaluation has       *)
(* started, so that neither waiting nor reloading is charged to it.        *)
(* QueryExecutor.ts:65-74, OxigraphQueryWorker.ts:16-43.                   *)
OutcomeIsOwn ==
    \A q \in Query :
        /\ outcome[q] = "answered" => answer[q] >= from[q]
        /\ outcome[q] = "crashed" => given[q] \in fell
        /\ outcome[q] = "timed out" => q \in evaluated

(* Every query that is asked is settled, in spite of queries whose         *)
(* evaluation never ends, workers that die with or without a query, and an *)
(* executor that is closed while queries wait: QueryExecutor.ts:92-161.    *)
EveryQuerySettles ==
    \A q \in Query : outcome[q] = "waiting" ~> outcome[q] \notin {"unasked", "waiting"}
=============================================================================
