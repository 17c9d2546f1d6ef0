---------------------------- MODULE PersistQueue ----------------------------
(***************************************************************************)
(* The CycleManager off the reply path: cognitive cycles end in any order, *)
(* and what they leave behind is written by jobs that queue up on one      *)
(* promise chain per session.  A job writes in two waves with the carry-   *)
(* over of the previous cycle's working memory between them.  Inside a     *)
(* wave every write is on its own: one that fails is reported and the      *)
(* others are stored.                                                      *)
(*                                                                         *)
(* A turn whose core threw, and whose request named no session, is written *)
(* under the session "unknown".  All turns are of one user, since every    *)
(* map is keyed by session and user together.                              *)
(***************************************************************************)
EXTENDS Integers, Sequences, FiniteSets, SequencesExt, Functions

CONSTANTS
    Turns,        \* bound: turns, numbered in the order in which they open
    Session,      \* the sessions, with the one called "unknown"
    Unknown,
    None,
    Threshold,    \* CONSOLIDATION_TRACE_THRESHOLD
    MaxMishaps    \* bound: writes that fail, jobs that throw and crashes together

ASSUME ConstantsAssumption ==
    /\ {Turns, Threshold} \subseteq Nat \ {0}
    /\ MaxMishaps \in Nat
    /\ Unknown \in Session /\ None \notin Session \cup Nat

Turn == 1..Turns

VARIABLES
    opened,       \* how many turns have opened
    turn,         \* each turn: its session, its stage, and whether attention is on
    tail,         \* persistTails: the job a session's next one waits for
    after,        \* the job a job waits for (the prev of enqueuePersist)
    lastCycle,    \* the newest cycle of a session whose attention was written
    traces,       \* tracesSinceConsolidation
    consolidating,   \* the turns whose traces asked for a consolidation, until it has run
    flush,        \* flushPending: not called, awaiting, or answered
    recorded,     \* the store: the cycles with a record,
    carriedFrom,  \*   the cycle whose entries a cycle holds copies of,
    closed,       \*   the working graphs that are marked closed
    mishaps,      \* counter, for the bound
    promptFrom,   \* history: the graph a turn's prompt was built from
    writes,       \* history: how often a turn's working graph was written
    attended,     \* history: the cycles that became their session's last one
    missed,       \* history: the cycles whose record could not be written
    asked, begun  \* history: the jobs of this process in the order they were queued, and began

memory  == <<tail, after, lastCycle, traces, consolidating, flush>>
store   == <<recorded, carriedFrom, closed>>
history == <<promptFrom, writes, attended, missed, asked, begun>>
vars    == <<opened, turn, memory, store, mishaps, history>>

Stages  == {"new", "open", "queued", "first", "carry", "second", "done", "lost"}
NewTurn == [session |-> Unknown, stage |-> "new", attends |-> FALSE]

TypeOK ==
    /\ opened \in 0..Turns
    /\ turn \in [Turn -> [session : Session, stage : Stages, attends : BOOLEAN]]
    /\ tail \in [Session -> Turn \cup {None}]
    /\ after \in [Turn -> Turn \cup {None}]
    /\ lastCycle \in [Session -> Turn \cup {None}]
    /\ traces \in 0..Threshold - 1
    /\ consolidating \subseteq Turn
    /\ flush \in {"no", "waits", "done"}
    /\ recorded \subseteq Turn /\ closed \subseteq Turn
    /\ carriedFrom \in [Turn -> Turn \cup {None}]
    /\ mishaps \in 0..MaxMishaps
    /\ promptFrom \in [Turn -> Turn \cup {None}]
    /\ writes \in [Turn -> 0..4]
    /\ attended \subseteq Turn /\ missed \subseteq Turn
    /\ asked \in [Session -> Seq(Turn)] /\ begun \in [Session -> Seq(Turn)]

Init ==
    /\ opened = 0
    /\ turn = [t \in Turn |-> NewTurn]
    /\ tail = [s \in Session |-> None]
    /\ after = [t \in Turn |-> None]
    /\ lastCycle = [s \in Session |-> None]
    /\ traces = 0 /\ consolidating = {} /\ flush = "no"
    /\ recorded = {} /\ closed = {}
    /\ carriedFrom = [t \in Turn |-> None]
    /\ mishaps = 0
    /\ promptFrom = [t \in Turn |-> None]
    /\ writes = [t \in Turn |-> 0]
    /\ attended = {} /\ missed = {}
    /\ asked = [s \in Session |-> <<>>] /\ begun = [s \in Session |-> <<>>]

At(t, stage) == [turn EXCEPT ![t].stage = stage]
Writing(t)   == turn[t].stage \in {"first", "carry", "second"}

SettledEarly(t) == turn[t].stage \in {"second", "done", "lost"}
SettledWell(t)  == turn[t].stage = "lost" \/ (turn[t].stage = "done" /\ t \in recorded)
Settled(t)      == turn[t].stage \in {"done", "lost"}

InFlightWriting == consolidating \cup {t \in Turn : Writing(t)}
InFlight        == consolidating \cup {t \in Turn : turn[t].stage = "queued" \/ Writing(t)}

\* The cycle whose working graph the next one takes over from.
NewestEnded(s) == tail[s]
Newest(s)      == lastCycle[s]
Previous(t)    == Newest(turn[t].session)

\* A settled job that is still the tail of its session leaves the map.
Settle(t) ==
    /\ turn' = At(t, "done")
    /\ tail' = [tail EXCEPT ![turn[t].session] = IF @ = t THEN None ELSE @]

\* Which writes fail is decided when they are issued.
Failing(writing) ==
    /\ mishaps + Cardinality(writing) <= MaxMishaps
    /\ mishaps' = mishaps + Cardinality(writing)

-----------------------------------------------------------------------------
(* The turn: it opens, its prompt is built, its core ends or throws.         *)

\* The live prompt shows the entries that the previous cycle carries forward,
\* read from its graph; the carry itself is written later, by the job.
Open == \E s \in Session \ {Unknown}, attends \in BOOLEAN :
    /\ opened < Turns /\ opened' = opened + 1
    /\ turn' = [turn EXCEPT ![opened'] =
                  [session |-> s, stage |-> "open", attends |-> attends]]
    /\ promptFrom' = [promptFrom EXCEPT ![opened'] = Newest(s)]
    /\ UNCHANGED <<memory, store, mishaps, writes, attended, missed, asked, begun>>

\* enqueuePersist: the job of t is chained to the session's tail, settled or not.
Enqueue(t, s) ==
    /\ turn' = [turn EXCEPT ![t].stage = "queued", ![t].session = s]
    /\ after' = [after EXCEPT ![t] = tail[s]]
    /\ tail' = [tail EXCEPT ![s] = t]
    /\ asked' = [asked EXCEPT ![s] = Append(@, t)]
    /\ UNCHANGED <<opened, lastCycle, traces, consolidating, flush, store, mishaps,
                   promptFrom, writes, attended, missed, begun>>

Finish(t) == turn[t].stage = "open" /\ Enqueue(t, turn[t].session)

\* The core threw: a turn whose request named its session stays with it.
Abort(t) == turn[t].stage = "open" /\ \E s \in {turn[t].session, Unknown} : Enqueue(t, s)

-----------------------------------------------------------------------------
(* The job of one turn.                                                      *)

ReadyAtOnce(t) == turn[t].stage = "queued"
Ready(t) ==
    /\ turn[t].stage = "queued"
    /\ after[t] # None => Settled(after[t])

Begin(t) ==
    /\ Ready(t)
    /\ turn' = At(t, "first") /\ after' = [after EXCEPT ![t] = None]
    /\ begun' = [begun EXCEPT ![turn[t].session] = Append(@, t)]
    /\ UNCHANGED <<opened, tail, lastCycle, traces, consolidating, flush, store, mishaps,
                   promptFrom, writes, attended, missed, asked>>

\* noteTracesWritten: stored traces are counted (one call of a tool per turn),
\* and enough of them ask for a consolidation.
NoteTraces(t) ==
    IF traces + 1 < Threshold THEN traces' = traces + 1 /\ UNCHANGED consolidating
                              ELSE traces' = 0 /\ consolidating' = consolidating \cup {t}

\* The writes of the first wave.
WriteGraph(t, fails) ==
    writes' = IF "graph" \in fails THEN writes ELSE [writes EXCEPT ![t] = @ + 1]

RecordCycle(t, fails) ==
    IF "record" \in fails
    THEN missed' = missed \cup {t} /\ UNCHANGED recorded
    ELSE recorded' = recorded \cup {t} /\ UNCHANGED missed

RecordTraces(t, fails) ==
    IF "traces" \in fails THEN UNCHANGED <<traces, consolidating>> ELSE NoteTraces(t)

ClosePrevious(t, fails) ==
    closed' = IF turn[t].attends /\ Previous(t) # None /\ "close" \notin fails
              THEN closed \cup {Previous(t)} ELSE closed

FirstWave(t) ==
    /\ turn[t].stage = "first"
    /\ turn' = At(t, IF turn[t].attends THEN "carry" ELSE "second")
    /\ \E fails \in SUBSET {"graph", "record", "traces", "close"} :
        /\ Failing(fails)
        /\ WriteGraph(t, fails) /\ RecordCycle(t, fails)
        /\ RecordTraces(t, fails) /\ ClosePrevious(t, fails)
    /\ UNCHANGED <<opened, tail, after, lastCycle, flush, carriedFrom, promptFrom,
                   attended, asked, begun>>

\* The entries that carry over are copied from the previous cycle's graph.
Copy(t, fails) ==
    IF "copy" \in fails \/ Previous(t) = None
    THEN UNCHANGED <<carriedFrom, writes>>
    ELSE /\ carriedFrom' = [carriedFrom EXCEPT ![t] = Previous(t)]
         /\ writes' = [writes EXCEPT ![t] = @ + 1]

\* The copy, then the reads of the salience rules.  When one of them fails the
\* attention of the turn is given up, with or without the copy.
CarryOver(t) ==
    /\ turn[t].stage = "carry"
    /\ \E fails \in SUBSET {"copy", "attend"} :
        /\ Failing(fails)
        /\ Copy(t, fails)
        /\ turn' = [turn EXCEPT ![t].stage = "second", ![t].attends = fails = {}]
    /\ UNCHANGED <<opened, memory, recorded, closed, promptFrom, attended, missed, asked, begun>>

\* The changes of the salience rules are stored; now the cycle is its session's
\* last one.
Attend(t, fails) ==
    IF turn[t].attends /\ "attend" \notin fails
    THEN /\ writes' = [writes EXCEPT ![t] = @ + 1]
         /\ lastCycle' = [lastCycle EXCEPT ![turn[t].session] = t]
         /\ attended' = attended \cup {t}
    ELSE UNCHANGED <<writes, lastCycle, attended>>

\* Attention, and the episodes, goals and the marker, which touch nothing here.
SecondWave(t) ==
    /\ turn[t].stage = "second"
    /\ \E fails \in SUBSET {"attend"} : Failing(fails) /\ Attend(t, fails)
    /\ Settle(t)
    /\ UNCHANGED <<opened, after, traces, consolidating, flush, store,
                   promptFrom, missed, asked, begun>>

\* The job throws between its waves: it is reported, and the queue goes on.
JobThrows(t) ==
    /\ Writing(t) /\ Failing({"job"})
    /\ missed' = IF t \in recorded THEN missed ELSE missed \cup {t}
    /\ Settle(t)
    /\ UNCHANGED <<opened, after, lastCycle, traces, consolidating, flush, store,
                   promptFrom, writes, attended, asked, begun>>

\* The consolidation ends, well or not; one that ran resets the counter.
Consolidated(t) ==
    /\ t \in consolidating
    /\ consolidating' = consolidating \ {t}
    /\ traces' \in {0, traces}
    /\ UNCHANGED <<opened, turn, tail, after, lastCycle, flush, store, mishaps, history>>

-----------------------------------------------------------------------------
(* A clean stop awaits what is in flight until nothing is; it keeps no turn  *)
(* from ending later.                                                        *)

Stop ==
    /\ flush = "no" /\ flush' = "waits"
    /\ UNCHANGED <<opened, turn, tail, after, lastCycle, traces, consolidating, store, mishaps,
                   history>>

\* allSettled is called again for what came in while it waited.
FlushAnswers ==
    /\ flush = "waits" /\ InFlight = {}
    /\ flush' = "done"
    /\ UNCHANGED <<opened, turn, tail, after, lastCycle, traces, consolidating, store, mishaps,
                   history>>

\* The process dies and starts anew: what was queued is lost, the maps are empty.
Crash ==
    /\ mishaps < MaxMishaps /\ mishaps' = mishaps + 1
    /\ turn' = [t \in Turn |-> IF turn[t].stage \in {"new", "done"} THEN turn[t]
                               ELSE [turn[t] EXCEPT !.stage = "lost"]]
    /\ tail' = [s \in Session |-> None] /\ after' = [t \in Turn |-> None]
    /\ lastCycle' = [s \in Session |-> None]
    /\ traces' = 0 /\ consolidating' = {} /\ flush' = "no"
    /\ asked' = [s \in Session |-> <<>>] /\ begun' = [s \in Session |-> <<>>]
    /\ UNCHANGED <<opened, store, promptFrom, writes, attended, missed>>

-----------------------------------------------------------------------------
JobStep(t) == Begin(t) \/ FirstWave(t) \/ CarryOver(t) \/ SecondWave(t) \/ JobThrows(t)

Next ==
    \/ Open \/ Stop \/ FlushAnswers \/ Crash
    \/ \E t \in Turn : Finish(t) \/ Abort(t) \/ JobStep(t) \/ Consolidated(t)

\* The store answers, so a job that has begun goes on; turns may take forever.
Fairness ==
    /\ \A t \in Turn : WF_vars(JobStep(t)) /\ WF_vars(Consolidated(t))
    /\ WF_vars(FlushAnswers)

Spec == Init /\ [][Next]_vars /\ Fairness

-----------------------------------------------------------------------------
(* Properties                                                                *)

\* The jobs of a session are a serial queue: they begin in the order in which
\* the cycles ended, one at a time, and a job that fails does not stop the next
\* (enqueuePersist; the code keeps only the tail of each chain).
Queue == INSTANCE SerialQueue WITH
    Chain <- Session, Work <- Turn, asked <- asked, begun <- begun,
    settled <- [s \in Session |->
                  Cardinality({t \in Range(begun[s]) : turn[t].stage = "done"})]
JobsAreSerial == Queue!Spec

\* A cycle takes over from the newest cycle of its session that was written
\* before it with its attention, not from one further back and not from one
\* that is still being written (carryAndAttend, lastCycle).
CarriesFromPredecessor ==
    \A s \in Session : \A n \in 1..Len(begun[s]) :
        LET t == begun[s][n] IN
        carriedFrom[t] # None =>
            \E m \in 1..n - 1 : /\ carriedFrom[t] = begun[s][m] /\ begun[s][m] \in attended
                                /\ \A i \in m + 1..n - 1 : begun[s][i] \notin attended

\* What was read is final: a working graph that a prompt was built from, that a
\* carry-over copied or that is marked closed is not written again
\* (carriedPromptEntries, prepareCarryForward, markClosed).
ReadGraphsAreFinal ==
    [][\A t \in Turn :
         t \in closed \cup Range(promptFrom) \cup Range(carriedFrom) => writes'[t] = writes[t]]_vars

\* When a clean stop has been answered, every cycle that ended before is in
\* the store, unless its own write failed, and every consolidation its traces
\* asked for has ended (flushPending, AgentRuntime.stop).
FlushedIsRecorded ==
    [][flush # "done" /\ flush' = "done" =>
         /\ \A s \in Session : Range(asked[s]) \subseteq recorded \cup missed
         /\ consolidating = {}]_vars

\* Whatever fails before it, the job of every cycle that ended is done in the
\* end, and a stop that was asked for is answered.
EveryCycleSettles ==
    /\ \A t \in Turn : turn[t].stage = "queued" ~> Settled(t)
    /\ flush = "waits" ~> flush # "waits"
=============================================================================
