---------------------------- MODULE Consolidation ----------------------------
(***************************************************************************)
(* Procedural memory: the traces of the cycles are consolidated into skill *)
(* rows and a sequence skill, from a watermark on.                         *)
(*                                                                         *)
(* Every cycle calls the tools one after the other; its traces are written *)
(* together by its persistence job, some time later.  The cron job, the    *)
(* command and the trace counter start consolidations, of which one at a   *)
(* time runs.  A row is abstracted to how often it counts each cycle's     *)
(* trace; rates, durations and patterns derive from the same rows of the   *)
(* window.  A row that is absent counts nothing.  Time 0 stands for never. *)
(* Procedural memory stays switched on.                                    *)
(***************************************************************************)
EXTENDS Integers, FiniteSets

CONSTANTS
    Cycles,       \* bound: cycles
    Tools,        \* every cycle calls tools 1..Tools at most
    Runs,         \* bound: consolidations asked for at the same time
    Lag,          \* CONSOLIDATION_LAG_MS
    FirstWindow,  \* DEFAULT_FIRST_WINDOW_MS
    MinCycles,    \* SEQ_MIN_CYCLES
    Threshold,    \* CONSOLIDATION_TRACE_THRESHOLD
    MaxTime,      \* bound: the clock
    MaxMishaps    \* bound: failed updates and queries, and crashes

ASSUME ConsolidationAssumption ==
    /\ {Cycles, Tools, Runs, MinCycles, Threshold, FirstWindow} \subseteq Nat \ {0}
    /\ {Lag, MaxTime, MaxMishaps} \subseteq Nat /\ MaxTime > 2 * Lag

VARIABLES
    now,
    ts,        \* executedAt of each trace
    written,   \* store: the cycles whose traces are in it
    row,       \* store: what each tool's Skill counts
    seq,       \* store: the cycles the SequenceSkill counts
    seqThere,  \* store: whether it has all its predicates
    mark,      \* store: lastConsolidatedAt
    fresh,     \* tracesSinceConsolidation
    inFlight,  \* consolidationInFlight: the run, or 0
    run,       \* the consolidations
    mishaps,
    late,      \* history: traces written when the lag was over
    torn,      \* history: a run was cut off after its first row, before its watermark
    wiped      \* history: counted traces of a row that was deleted and not inserted

store == <<written, row, seq, seqThere, mark>>
history == <<late, torn, wiped>>
consolidationVars == <<now, ts, store, fresh, inFlight, run, mishaps, history>>

Cycle == 1..Cycles
Tool  == 1..Tools
Trace == Cycle \X Tool
Run   == 1..Runs

NoneCounted == [c \in Cycle |-> 0]
Add(counts, cs) == [c \in Cycle |-> counts[c] + IF c \in cs THEN 1 ELSE 0]
Idle == [stage |-> "idle", until |-> 0, mark |-> 0, hits |-> {}, todo |-> {}, prev |-> NoneCounted]

ConsolidationInit ==
    /\ now = Lag + 1 /\ ts = [k \in Trace |-> 0]
    /\ written = {} /\ row = [t \in Tool |-> NoneCounted]
    /\ seq = NoneCounted /\ seqThere = FALSE /\ mark = 0
    /\ fresh = 0 /\ inFlight = 0 /\ run = [r \in Run |-> Idle]
    /\ mishaps = 0 /\ late = {} /\ torn = FALSE /\ wiped = {}

-----------------------------------------------------------------------------
(* The cycles *)

Tick == /\ now < MaxTime /\ now' = now + 1
        /\ UNCHANGED <<ts, store, fresh, inFlight, run, mishaps, history>>

\* Cycles are numbered by their first call.  Bound: the last call is early
\* enough for the clock to pass the lag.
CallTool(c, t) ==
    /\ \A d \in 1..c - 1 : ts[<<d, 1>>] # 0
    /\ c \notin written /\ ts[<<c, t>>] = 0 /\ \A u \in 1..t - 1 : ts[<<c, u>>] # 0
    /\ now <= MaxTime - Lag
    /\ ts' = [ts EXCEPT ![<<c, t>>] = now]
    /\ UNCHANGED <<now, store, fresh, inFlight, run, mishaps, history>>

Asked(r) == run[r].stage = "idle" /\ run' = [run EXCEPT ![r].stage = "ask"]

\* recordTraces, then noteTracesWritten, which may ask for a consolidation.
Write(c) ==
    LET mine == {k \in Trace : k[1] = c /\ ts[k] # 0}
        n    == fresh + Cardinality(mine)
    IN  /\ c \notin written /\ mine # {} /\ written' = written \cup {c}
        /\ late' = late \cup {k \in mine : now - Lag >= ts[k]}
        /\ IF n < Threshold THEN fresh' = n /\ UNCHANGED run
                            ELSE fresh' = 0 /\ \E r \in Run : Asked(r)
        /\ UNCHANGED <<now, ts, row, seq, seqThere, mark, inFlight, mishaps, torn, wiped>>

-----------------------------------------------------------------------------
(* A consolidation *)

\* The cron job or the owner.
Ask(r) == /\ Asked(r)
          /\ UNCHANGED <<now, ts, store, fresh, inFlight, mishaps, history>>

NeverBusy == FALSE
Busy      == inFlight # 0
UntilNow  == now
Until     == now - Lag

\* The flag has been read: the run joins the one in flight, or is it.
Join(r) ==
    /\ run[r].stage = "ask" /\ Busy
    /\ run' = [run EXCEPT ![r].stage = "joined"]
    /\ UNCHANGED <<now, ts, store, fresh, inFlight, mishaps, history>>
Start(r) ==
    /\ run[r].stage = "ask" /\ ~Busy
    /\ inFlight' = r /\ run' = [run EXCEPT ![r].stage = "mark", ![r].until = Until]
    /\ UNCHANGED <<now, ts, store, fresh, mishaps, history>>

\* The run is over, for those who joined it too.  After an error the finally
\* clause has reset consolidationInFlight all the same.
FlightWhenWell(well) == IF well THEN 0 ELSE inFlight
Flight(well)         == 0
End(r, well) ==
    /\ run' = [q \in Run |-> IF q = r \/ run[q].stage = "joined" THEN Idle ELSE run[q]]
    /\ inFlight' = Flight(well)
    /\ fresh' = IF well THEN 0 ELSE fresh

To(r, from, to) == run[r].stage = from /\ run' = [run EXCEPT ![r] = to]
At(r, stage)    == [run[r] EXCEPT !.stage = stage]

ReadMark(r) ==
    /\ run[r].stage = "mark"
    /\ IF mark # 0 /\ run[r].until <= mark
       THEN End(r, TRUE)
       ELSE To(r, "mark", [At(r, "read") EXCEPT !.mark = mark]) /\ UNCHANGED <<fresh, inFlight>>
    /\ UNCHANGED <<now, ts, store, mishaps, history>>

\* The window is exclusive below where there is a watermark.
InWindow(k, r) ==
    /\ ts[k] <= run[r].until
    /\ IF run[r].mark = 0 THEN ts[k] >= run[r].until - FirstWindow ELSE ts[k] > run[r].mark
ReadTraces(r) ==
    LET hits == {k \in Trace : ts[k] # 0 /\ k[1] \in written /\ InWindow(k, r)} IN
    /\ To(r, "read", IF hits = {} THEN At(r, "unmark")
                     ELSE [At(r, "rows") EXCEPT !.hits = hits, !.todo = {k[2] : k \in hits}])
    /\ UNCHANGED <<now, ts, store, fresh, inFlight, mishaps, history>>

\* upsertSkill, one tool after the other: the row is read, deleted, inserted.
First(r) == CHOOSE t \in run[r].todo : \A u \in run[r].todo : t <= u
CyclesOf(r, t) == {c \in Cycle : <<c, t>> \in run[r].hits}
ReadRow(r) ==
    /\ run[r].todo # {}
    /\ To(r, "rows", [At(r, "delete") EXCEPT !.prev = row[First(r)]])
    /\ UNCHANGED <<now, ts, store, fresh, inFlight, mishaps, history>>
DeleteRow(r) ==
    /\ To(r, "delete", At(r, "insert"))
    /\ row' = [row EXCEPT ![First(r)] = NoneCounted]
    /\ UNCHANGED <<now, ts, written, seq, seqThere, mark, fresh, inFlight, mishaps, history>>
InsertRow(r) ==
    /\ To(r, "insert", [At(r, "rows") EXCEPT !.todo = @ \ {First(r)}, !.prev = NoneCounted])
    /\ row' = [row EXCEPT ![First(r)] = Add(run[r].prev, CyclesOf(r, First(r)))]
    /\ UNCHANGED <<now, ts, written, seq, seqThere, mark, fresh, inFlight, mishaps, history>>

\* detectSequences: the cycles of the window with all the tools, here one
\* signature.  A row that exists is reinforced, else one is minted when there
\* are enough of them in this window.
Sequences(r) == {c \in Cycle : \A t \in Tool : <<c, t>> \in run[r].hits}
ReadSequence(r) ==
    /\ run[r].todo = {}
    /\ To(r, "rows", IF Sequences(r) # {} /\ seqThere
                     THEN [At(r, "take") EXCEPT !.prev = seq]
                     ELSE At(r, IF Cardinality(Sequences(r)) >= MinCycles THEN "mint" ELSE "unmark"))
    /\ UNCHANGED <<now, ts, store, fresh, inFlight, mishaps, history>>

\* reinforceSequenceSkill: the predicates are deleted and inserted one by one;
\* while one is missing, no reader finds the row.
TakeSequence(r) ==
    /\ To(r, "take", At(r, "mint")) /\ seqThere' = FALSE
    /\ UNCHANGED <<now, ts, written, row, seq, mark, fresh, inFlight, mishaps, history>>
PutSequence(r) ==
    /\ To(r, "mint", [At(r, "unmark") EXCEPT !.prev = NoneCounted])
    /\ seqThere' = TRUE /\ seq' = Add(run[r].prev, Sequences(r))
    /\ UNCHANGED <<now, ts, written, row, mark, fresh, inFlight, mishaps, history>>

\* setWatermark: deleted, then inserted.
Unmark(r) ==
    /\ To(r, "unmark", At(r, "remark")) /\ mark' = 0
    /\ UNCHANGED <<now, ts, written, row, seq, seqThere, fresh, inFlight, mishaps, history>>
Remark(r) ==
    /\ run[r].stage = "remark" /\ mark' = run[r].until
    /\ End(r, TRUE)
    /\ UNCHANGED <<now, ts, written, row, seq, seqThere, mishaps, history>>

-----------------------------------------------------------------------------
(* Failures *)

\* What the run has changed in the store is not undone.
Midway(r) == run[r].todo # {k[2] : k \in run[r].hits} \/ run[r].stage = "remark"
Lost(r) == IF run[r].stage = "insert"
           THEN {k \in Trace : k[2] = First(r) /\ run[r].prev[k[1]] > 0} ELSE {}
Fail(r) ==
    /\ run[r].stage \notin {"idle", "ask", "joined"}
    /\ mishaps < MaxMishaps /\ mishaps' = mishaps + 1
    /\ torn' = (torn \/ Midway(r)) /\ wiped' = wiped \cup Lost(r)
    /\ End(r, FALSE)
    /\ UNCHANGED <<now, ts, store, late>>

Crash ==
    /\ mishaps < MaxMishaps /\ mishaps' = mishaps + 1
    /\ torn' = (torn \/ \E r \in Run : Midway(r))
    /\ wiped' = wiped \cup UNION {Lost(r) : r \in Run}
    /\ ts' = [k \in Trace |-> IF k[1] \in written THEN ts[k] ELSE 0]
    /\ fresh' = 0 /\ inFlight' = 0 /\ run' = [r \in Run |-> Idle]
    /\ UNCHANGED <<now, store, late>>

-----------------------------------------------------------------------------
Step(r) ==
    \/ Join(r) \/ Start(r) \/ ReadMark(r) \/ ReadTraces(r)
    \/ ReadRow(r) \/ DeleteRow(r) \/ InsertRow(r)
    \/ ReadSequence(r) \/ TakeSequence(r) \/ PutSequence(r) \/ Unmark(r) \/ Remark(r)

ConsolidationNext ==
    \/ Tick \/ Crash
    \/ \E c \in Cycle : Write(c) \/ \E t \in Tool : CallTool(c, t)
    \/ \E r \in Run : Ask(r) \/ Step(r) \/ Fail(r)

\* Time passes, the cron job comes back (it finds the run of before over or
\* joins it), and the store answers.
ConsolidationSpec ==
    /\ ConsolidationInit /\ [][ConsolidationNext]_consolidationVars
    /\ WF_consolidationVars(Tick)
    /\ \A r \in Run : WF_consolidationVars(Ask(r)) /\ WF_consolidationVars(Step(r))

-----------------------------------------------------------------------------
(* Properties                                                                *)

\* Whoever asks for consolidations, and however often, a trace is counted once
\* by its skill and a cycle once by the sequence, as long as no run is cut off
\* between its first row and its watermark (consolidateIncremental).
CountedOnce ==
    ~torn => \A c \in Cycle : seq[c] <= 1 /\ \A t \in Tool : row[t][c] <= 1

\* A trace that is written within the lag is counted in the end, although its
\* window may have been read before, a run fails or the process dies; only what
\* was counted before can be lost, with a row that a failure left deleted
\* (CONSOLIDATION_LAG_MS, consolidateProceduralMemory).
EventuallyCounted ==
    \A c \in Cycle : c \in written ~>
        \A t \in Tool : ts[<<c, t>>] = 0 \/ row[t][c] > 0 \/ <<c, t>> \in late \cup wiped
=============================================================================
