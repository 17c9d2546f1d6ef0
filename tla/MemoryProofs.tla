---------------------------- MODULE MemoryProofs ----------------------------
(***************************************************************************)
(* Proofs about what the agent remembers: the traces that consolidation    *)
(* turns into facts, and the beliefs that claims support.                  *)
(***************************************************************************)
EXTENDS BeliefRevision, Consolidation, FiniteSetTheorems, TLAPS

-----------------------------------------------------------------------------
(***************************************************************************)
(* Consolidation: any number of cycles, tools, consolidations and failures *)
(* of them.  What is counted lies below the watermark, or was counted by   *)
(* the consolidation at work, whose window begins above it.                *)
(***************************************************************************)

\* The stages of a run that waits, is at work, or has read no traces yet.
Waiting  == {"idle", "ask", "joined"}
Work     == {"mark", "read", "rows", "delete", "insert", "take", "mint", "unmark", "remark"}
Early    == Waiting \cup {"mark", "read"}
RunState == [stage : Waiting \cup Work, until : 0..MaxTime, mark : 0..MaxTime,
             hits : SUBSET Trace, todo : SUBSET Tool, prev : [Cycle -> Nat]]

ConsolidationTypeOK ==
    /\ now \in Lag + 1..MaxTime /\ ts \in [Trace -> 0..MaxTime]
    /\ written \subseteq Cycle /\ row \in [Tool -> [Cycle -> Nat]]
    /\ seq \in [Cycle -> Nat] /\ seqThere \in BOOLEAN /\ mark \in 0..MaxTime
    /\ fresh \in 0..Threshold - 1 /\ inFlight \in 0..Runs
    /\ run \in [Run -> RunState] /\ mishaps \in 0..MaxMishaps
    /\ late \subseteq Trace /\ torn \in BOOLEAN /\ wiped \subseteq Trace

\* The consolidation that holds consolidationInFlight is the one at work.
OneAtWork == \A r \in Run : run[r].stage \in Work <=> inFlight = r

\* What a run holds at each stage.
Holds(r) ==
    /\ run[r].stage \in Early => run[r].hits = {} /\ run[r].todo = {}
    /\ run[r].stage \notin {"delete", "insert", "take", "mint"} => run[r].prev = NoneCounted
    /\ run[r].stage \in {"delete", "insert"} => run[r].todo # {}
    /\ run[r].stage \in {"take", "mint", "unmark", "remark"} => run[r].todo = {}

\* Its window begins above the watermark, which stays until the run is over.
Above(r) ==
    /\ run[r].stage \in Work \ {"mark", "remark"} => run[r].mark = mark
    /\ run[r].stage \in Work \ {"mark"} => run[r].mark = 0 \/ run[r].until > run[r].mark
    /\ \A k \in run[r].hits : /\ k[1] \in written /\ ts[k] # 0
                              /\ ts[k] > run[r].mark /\ ts[k] <= run[r].until

\* What the runs of before may have counted: the traces up to their watermark.
Base == IF inFlight = 0 \/ run[inFlight].stage = "mark" THEN mark ELSE run[inFlight].mark
Before(k)      == k[1] \in written /\ ts[k] # 0 /\ ts[k] <= Base
ByRun(r, k)    == k \in run[r].hits /\ k[2] \notin run[r].todo
SeqByRun(r, c) == run[r].stage \in {"unmark", "remark"} /\ c \in Sequences(r)

\* What is counted lies there, or was counted by the run at work.
RowsCount == \A k \in Trace : row[k[2]][k[1]] # 0 =>
    row[k[2]][k[1]] = 1 /\ (Before(k) \/ \E r \in Run : ByRun(r, k))
SeqCounts == \A c \in Cycle : seq[c] # 0 =>
    seq[c] = 1 /\ (Before(<<c, 1>>) \/ \E r \in Run : SeqByRun(r, c))

\* What the run at work has read of a row, and will add to, lies there too.
PrevCounts(r) == \A c \in Cycle : run[r].prev[c] # 0 =>
    /\ run[r].prev[c] = 1
    /\ run[r].stage \in {"delete", "insert"} => Before(<<c, First(r)>>)
    /\ run[r].stage \in {"take", "mint"} => Before(<<c, 1>>)

Reads    == \A r \in Run : Holds(r) /\ Above(r)
Counts   == RowsCount /\ SeqCounts /\ \A r \in Run : PrevCounts(r)
CountInv == ConsolidationTypeOK /\ OneAtWork /\ Reads /\ (~torn => Counts)

-----------------------------------------------------------------------------

\* The numbers that the bounds are.
LEMMA ConsolidationNumbers ==
    /\ Cycles \in Nat \ {0} /\ Tools \in Nat \ {0} /\ Runs \in Nat \ {0}
    /\ Threshold \in Nat \ {0} /\ Lag \in Nat /\ MaxTime \in Nat /\ MaxMishaps \in Nat
    /\ Lag < MaxTime
<1>1. /\ Cycles \in Nat \ {0} /\ Tools \in Nat \ {0} /\ Runs \in Nat \ {0}
      /\ Threshold \in Nat \ {0} /\ Lag \in Nat /\ MaxTime \in Nat /\ MaxMishaps \in Nat
    BY Zenon, ConsolidationAssumption
<1>2. MaxTime > 2 * Lag
    BY ConsolidationAssumption
<1> QED BY <1>1, <1>2

\* The rows are consolidated one after the other: the next one is one of those
\* that are left.
LEMMA FirstIsLeft ==
    ASSUME NEW due \in SUBSET Tool, due # {}
    PROVE  (CHOOSE t \in due : \A u \in due : t <= u) \in due
<1>1. due \subseteq Nat
    BY ConsolidationNumbers DEF Tool
<1>2. PICK t \in due : \A u \in due : ~(<<u, t>> \in OpToRel(<, Nat))
    BY <1>1, WFMin, NatLessThanWellFounded
<1>3. ASSUME NEW u \in due PROVE t <= u
    <2>1. u \in Nat /\ t \in Nat
        BY <1>1
    <2>2. ASSUME u < t PROVE FALSE
        <3>1. <<u, t>> \in OpToRel(<, Nat)
            BY <2>1, <2>2 DEF OpToRel
        <3> QED BY <1>2, <3>1
    <2> QED BY <2>1, <2>2
<1> QED BY <1>3

\* A trace is that of a cycle and a tool; the first tool is one.
LEMMA TraceParts ==
    /\ \A k \in Trace : k[1] \in Cycle /\ k[2] \in Tool /\ k = <<k[1], k[2]>>
    /\ \A c \in Cycle, t \in Tool : <<c, t>> \in Trace
    /\ 1 \in Tool
BY ConsolidationNumbers DEF Trace, Cycle, Tool

\* The traces of a cycle that are written are finitely many.
LEMMA TracesAreFinite == \A S \in SUBSET Trace : Cardinality(S) \in Nat
<1>1. IsFiniteSet(Cycle) /\ IsFiniteSet(Tool)
    BY ConsolidationNumbers, FS_Interval DEF Cycle, Tool
<1>2. IsFiniteSet(Trace)
    BY <1>1, FS_Product DEF Trace
<1> QED BY <1>2, FS_Subset, FS_CardinalityType

\* Counting once more keeps a row a row.
LEMMA AddIsTyped ==
    ASSUME NEW counts \in [Cycle -> Nat], NEW cs
    PROVE  Add(counts, cs) \in [Cycle -> Nat]
<1>1. \A c \in Cycle : counts[c] + (IF c \in cs THEN 1 ELSE 0) \in Nat
    OBVIOUS
<1> QED BY <1>1 DEF Add

LEMMA NoneIsTyped == NoneCounted \in [Cycle -> Nat]
BY DEF NoneCounted

LEMMA IdleIsTyped == Idle \in RunState
BY ConsolidationNumbers, NoneIsTyped DEF Idle, RunState, Waiting

\* The new state of a run, field by field.
LEMMA RunIsTyped ==
    ASSUME NEW s \in Waiting \cup Work, NEW r \in RunState, NEW m \in 0..MaxTime,
           NEW h \in SUBSET Trace, NEW d \in SUBSET Tool, NEW p \in [Cycle -> Nat]
    PROVE  /\ [r EXCEPT !.stage = s] \in RunState
           /\ [r EXCEPT !.stage = s, !.until = m] \in RunState
           /\ [[r EXCEPT !.stage = s] EXCEPT !.mark = m] \in RunState
           /\ [[r EXCEPT !.stage = s] EXCEPT !.hits = h, !.todo = d] \in RunState
           /\ [[r EXCEPT !.stage = s] EXCEPT !.todo = d, !.prev = p] \in RunState
           /\ [[r EXCEPT !.stage = s] EXCEPT !.prev = p] \in RunState
BY DEF RunState

-----------------------------------------------------------------------------
(* Types                                                                     *)

LEMMA ConsolidationTypedInit == ConsolidationInit => ConsolidationTypeOK
<1> SUFFICES ASSUME ConsolidationInit PROVE ConsolidationTypeOK
    OBVIOUS
<1> USE DEF ConsolidationInit
<1>1. /\ now \in Lag + 1..MaxTime /\ ts \in [Trace -> 0..MaxTime] /\ mark \in 0..MaxTime
      /\ fresh \in 0..Threshold - 1 /\ inFlight \in 0..Runs /\ mishaps \in 0..MaxMishaps
    BY ConsolidationNumbers
<1>2. row \in [Tool -> [Cycle -> Nat]] /\ seq \in [Cycle -> Nat]
    BY NoneIsTyped
<1>3. run \in [Run -> RunState]
    BY IdleIsTyped
<1> QED BY <1>1, <1>2, <1>3 DEF ConsolidationTypeOK

\* The runs when one is over.
LEMMA EndIsTyped ==
    ASSUME ConsolidationTypeOK, NEW r \in Run, NEW well \in BOOLEAN, End(r, well)
    PROVE  run' \in [Run -> RunState] /\ inFlight' \in 0..Runs /\ fresh' \in 0..Threshold - 1
BY IdleIsTyped, ConsolidationNumbers DEF ConsolidationTypeOK, End, Flight

\* The runs when one goes on.
LEMMA ToIsTyped ==
    ASSUME ConsolidationTypeOK, NEW r \in Run, NEW from, NEW to, To(r, from, to),
           to \in RunState
    PROVE  run' \in [Run -> RunState]
BY DEF ConsolidationTypeOK, To

LEMMA StepIsTyped ==
    ASSUME ConsolidationTypeOK, NEW r \in Run, Step(r)
    PROVE  ConsolidationTypeOK'
<1> USE DEF ConsolidationTypeOK, store, history
<1>0. run[r] \in RunState /\ (now - Lag) \in 0..MaxTime /\ r \in 0..Runs
    BY ConsolidationNumbers DEF Run
<1>1. CASE Join(r)
    <2>1. run' \in [Run -> RunState]
        BY <1>0, <1>1, RunIsTyped DEF Join, Waiting
    <2> QED BY <1>1, <2>1 DEF Join
<1>2. CASE Start(r)
    <2>1. run' \in [Run -> RunState]
        BY <1>0, <1>2, RunIsTyped DEF Start, Work, Until
    <2> QED BY <1>0, <1>2, <2>1 DEF Start
<1>3. CASE ReadMark(r)
    <2>1. [At(r, "read") EXCEPT !.mark = mark] \in RunState
        BY <1>0, RunIsTyped DEF At, Work
    <2>2. run' \in [Run -> RunState] /\ inFlight' \in 0..Runs /\ fresh' \in 0..Threshold - 1
        BY <1>3, <2>1, EndIsTyped, ToIsTyped DEF ReadMark
    <2> QED BY <1>3, <2>2 DEF ReadMark
<1>4. CASE ReadTraces(r)
    <2> DEFINE hits == {k \in Trace : ts[k] # 0 /\ k[1] \in written /\ InWindow(k, r)}
               due == {k[2] : k \in hits}
    <2>1. hits \in SUBSET Trace /\ due \in SUBSET Tool
        BY TraceParts
    <2>2. To(r, "read", IF hits = {} THEN At(r, "unmark")
                        ELSE [At(r, "rows") EXCEPT !.hits = hits, !.todo = due])
        BY <1>4 DEF ReadTraces
    <2>3. At(r, "unmark") \in RunState
        BY <1>0, RunIsTyped DEF At, Work
    <2>4. [At(r, "rows") EXCEPT !.hits = hits, !.todo = due] \in RunState
        <3> HIDE DEF hits, due
        <3> QED BY <1>0, <2>1, RunIsTyped DEF At, Work
    <2>5. run' \in [Run -> RunState]
        <3> HIDE DEF hits, due
        <3> QED BY <2>2, <2>3, <2>4, ToIsTyped
    <2> QED BY <1>4, <2>5 DEF ReadTraces
<1>5. CASE ReadRow(r)
    <2>1. First(r) \in Tool
        BY <1>0, <1>5, FirstIsLeft DEF ReadRow, First, RunState
    <2>2. [At(r, "delete") EXCEPT !.prev = row[First(r)]] \in RunState
        BY <1>0, <2>1, RunIsTyped DEF At, Work
    <2>3. run' \in [Run -> RunState]
        BY <1>5, <2>2, ToIsTyped DEF ReadRow
    <2> QED BY <1>5, <2>3 DEF ReadRow
<1>6. CASE DeleteRow(r)
    <2>1. At(r, "insert") \in RunState
        BY <1>0, RunIsTyped DEF At, Work
    <2>2. run' \in [Run -> RunState]
        BY <1>6, <2>1, ToIsTyped DEF DeleteRow
    <2>3. row' \in [Tool -> [Cycle -> Nat]]
        BY <1>6, NoneIsTyped DEF DeleteRow
    <2> QED BY <1>6, <2>2, <2>3 DEF DeleteRow
<1>7. CASE InsertRow(r)
    <2>1. run[r].todo \ {First(r)} \in SUBSET Tool /\ run[r].prev \in [Cycle -> Nat]
        BY <1>0 DEF RunState
    <2>2. [At(r, "rows") EXCEPT !.todo = @ \ {First(r)}, !.prev = NoneCounted] \in RunState
        <3>1. [At(r, "rows") EXCEPT !.todo = @ \ {First(r)}, !.prev = NoneCounted]
                = [At(r, "rows") EXCEPT !.todo = run[r].todo \ {First(r)}, !.prev = NoneCounted]
            BY <1>0 DEF At, RunState
        <3> QED BY <1>0, <2>1, <3>1, NoneIsTyped, RunIsTyped DEF At, Work
    <2>3. run' \in [Run -> RunState]
        BY <1>7, <2>2, ToIsTyped DEF InsertRow
    <2>4. row' \in [Tool -> [Cycle -> Nat]]
        BY <1>7, <2>1, AddIsTyped DEF InsertRow
    <2> QED BY <1>7, <2>3, <2>4 DEF InsertRow
<1>8. CASE ReadSequence(r)
    <2>1. [At(r, "take") EXCEPT !.prev = seq] \in RunState
        BY <1>0, RunIsTyped DEF At, Work
    <2>2. At(r, "mint") \in RunState /\ At(r, "unmark") \in RunState
        BY <1>0, RunIsTyped DEF At, Work
    <2>3. run' \in [Run -> RunState]
        BY <1>8, <2>1, <2>2, ToIsTyped DEF ReadSequence, At
    <2> QED BY <1>8, <2>3 DEF ReadSequence
<1>9. CASE TakeSequence(r)
    <2>1. At(r, "mint") \in RunState
        BY <1>0, RunIsTyped DEF At, Work
    <2>2. run' \in [Run -> RunState]
        BY <1>9, <2>1, ToIsTyped DEF TakeSequence
    <2> QED BY <1>9, <2>2 DEF TakeSequence
<1>10. CASE PutSequence(r)
    <2>1. [At(r, "unmark") EXCEPT !.prev = NoneCounted] \in RunState
        BY <1>0, NoneIsTyped, RunIsTyped DEF At, Work
    <2>2. run' \in [Run -> RunState]
        BY <1>10, <2>1, ToIsTyped DEF PutSequence
    <2>3. seq' \in [Cycle -> Nat]
        <3>1. run[r].prev \in [Cycle -> Nat]
            BY <1>0 DEF RunState
        <3> QED BY <1>10, <3>1, AddIsTyped DEF PutSequence
    <2> QED BY <1>10, <2>2, <2>3 DEF PutSequence
<1>11. CASE Unmark(r)
    <2>1. At(r, "remark") \in RunState
        BY <1>0, RunIsTyped DEF At, Work
    <2>2. run' \in [Run -> RunState]
        BY <1>11, <2>1, ToIsTyped DEF Unmark
    <2> QED BY <1>11, <2>2, ConsolidationNumbers DEF Unmark
<1>12. CASE Remark(r)
    <2>1. run' \in [Run -> RunState] /\ inFlight' \in 0..Runs /\ fresh' \in 0..Threshold - 1
        BY <1>12, EndIsTyped DEF Remark
    <2>2. mark' \in 0..MaxTime
        BY <1>0, <1>12 DEF Remark, RunState
    <2> QED BY <1>12, <2>1, <2>2 DEF Remark
<1> QED BY <1>1, <1>2, <1>3, <1>4, <1>5, <1>6, <1>7, <1>8, <1>9, <1>10, <1>11, <1>12 DEF Step

LEMMA AskedIsTyped ==
    ASSUME ConsolidationTypeOK, NEW r \in Run, Asked(r)
    PROVE  run' \in [Run -> RunState]
<1>1. run[r] \in RunState /\ "ask" \in Waiting \cup Work
    BY DEF ConsolidationTypeOK, Waiting
<1>2. [run[r] EXCEPT !.stage = "ask"] \in RunState
    BY <1>1 DEF RunState
<1> QED BY <1>2 DEF ConsolidationTypeOK, Asked

LEMMA ConsolidationTypedStep ==
    ASSUME ConsolidationTypeOK, [ConsolidationNext]_consolidationVars
    PROVE  ConsolidationTypeOK'
<1> USE DEF ConsolidationTypeOK, store, history
<1>1. CASE UNCHANGED consolidationVars
    BY <1>1 DEF consolidationVars
<1>2. CASE Tick
    BY <1>2, ConsolidationNumbers DEF Tick
<1>3. CASE Crash
    <2>1. ts' \in [Trace -> 0..MaxTime]
        BY <1>3, ConsolidationNumbers DEF Crash
    <2>2. run' \in [Run -> RunState]
        BY <1>3, IdleIsTyped DEF Crash
    <2>3. wiped' \subseteq Trace
        BY <1>3 DEF Crash, Lost
    <2>4. torn' \in BOOLEAN
        BY <1>3 DEF Crash
    <2>5. fresh' \in 0..Threshold - 1 /\ inFlight' \in 0..Runs /\ mishaps' \in 0..MaxMishaps
        BY <1>3, ConsolidationNumbers DEF Crash
    <2> QED BY <1>3, <2>1, <2>2, <2>3, <2>4, <2>5 DEF Crash
<1>4. ASSUME NEW c \in Cycle, Write(c) PROVE ConsolidationTypeOK'
    <2> DEFINE mine == {k \in Trace : k[1] = c /\ ts[k] # 0}
               n    == fresh + Cardinality(mine)
    <2>1. n \in Nat
        BY TracesAreFinite, ConsolidationNumbers
    <2>2. run' \in [Run -> RunState]
        BY <1>4, AskedIsTyped DEF Write
    <2>3. fresh' \in 0..Threshold - 1
        <3>1. (n < Threshold /\ fresh' = n) \/ fresh' = 0
            BY <1>4 DEF Write
        <3> HIDE DEF n
        <3> QED BY <2>1, <3>1, ConsolidationNumbers
    <2>4. written' \subseteq Cycle /\ late' \subseteq Trace
        BY <1>4 DEF Write
    <2> QED BY <1>4, <2>2, <2>3, <2>4 DEF Write
<1>5. ASSUME NEW c \in Cycle, NEW t \in Tool, CallTool(c, t) PROVE ConsolidationTypeOK'
    <2>1. now \in 0..MaxTime
        BY ConsolidationNumbers
    <2>2. ts' \in [Trace -> 0..MaxTime]
        BY <1>5, <2>1 DEF CallTool
    <2> QED BY <1>5, <2>2 DEF CallTool
<1>6. ASSUME NEW r \in Run, Ask(r) PROVE ConsolidationTypeOK'
    BY <1>6, AskedIsTyped DEF Ask
<1>7. ASSUME NEW r \in Run, Fail(r) PROVE ConsolidationTypeOK'
    <2>1. run' \in [Run -> RunState] /\ inFlight' \in 0..Runs /\ fresh' \in 0..Threshold - 1
        BY <1>7, EndIsTyped DEF Fail
    <2>2. wiped' \subseteq Trace
        BY <1>7 DEF Fail, Lost
    <2>3. torn' \in BOOLEAN /\ mishaps' \in 0..MaxMishaps
        BY <1>7, ConsolidationNumbers DEF Fail, Midway
    <2> QED BY <1>7, <2>1, <2>2, <2>3 DEF Fail
<1> QED BY <1>1, <1>2, <1>3, <1>4, <1>5, <1>6, <1>7, StepIsTyped DEF ConsolidationNext

-----------------------------------------------------------------------------
(* What a step of the run at work does to the runs.                          *)

\* The other runs wait, and hold nothing.
Resting(r) == \A q \in Run \ {r} : run'[q] = run[q] /\ run[q].stage \in Waiting

LEMMA OthersWait ==
    ASSUME ConsolidationTypeOK, OneAtWork, NEW r \in Run, run[r].stage \in Work
    PROVE  inFlight = r /\ \A q \in Run \ {r} : run[q].stage \in Waiting
<1>1. inFlight = r
    BY DEF OneAtWork
<1>2. ASSUME NEW q \in Run \ {r} PROVE run[q].stage \in Waiting
    <2>1. run[q].stage \in Waiting \cup Work
        BY DEF ConsolidationTypeOK, RunState
    <2>2. run[q].stage \notin Work
        BY <1>1 DEF OneAtWork
    <2> QED BY <2>1, <2>2
<1> QED BY <1>1, <1>2

LEMMA GoesOn ==
    ASSUME ConsolidationTypeOK, OneAtWork, NEW r \in Run, NEW from \in Work, NEW to,
           to.stage \in Work, To(r, from, to), inFlight' = inFlight
    PROVE  /\ OneAtWork' /\ inFlight = r /\ inFlight' = r /\ Resting(r)
           /\ run[r].stage = from /\ run'[r] = to
<1>1. run[r].stage = from /\ run'[r] = to /\ \A q \in Run \ {r} : run'[q] = run[q]
    BY DEF To, ConsolidationTypeOK
<1>2. inFlight = r /\ Resting(r)
    BY <1>1, OthersWait DEF Resting
<1>3. OneAtWork'
    <2> SUFFICES ASSUME NEW q \in Run PROVE run'[q].stage \in Work <=> inFlight' = q
        BY DEF OneAtWork
    <2>1. CASE q = r
        BY <1>1, <1>2, <2>1
    <2>2. CASE q # r
        BY <1>1, <2>2 DEF OneAtWork
    <2> QED BY <2>1, <2>2
<1> QED BY <1>1, <1>2, <1>3

\* A run that waits has read nothing, and counts nothing.
LEMMA WaitingReadsNothing ==
    ASSUME NEW q \in Run, Holds(q), run[q].stage \in Waiting
    PROVE  /\ Above(q) /\ PrevCounts(q)
           /\ \A k \in Trace : ~ByRun(q, k)
           /\ \A c \in Cycle : ~SeqByRun(q, c)
<1>1. run[q].hits = {} /\ run[q].prev = NoneCounted /\ run[q].stage \notin Work
    BY DEF Holds, Early, Waiting, Work
<1>2. Above(q)
    BY <1>1 DEF Above
<1>3. PrevCounts(q)
    BY <1>1 DEF PrevCounts, NoneCounted
<1>4. \A c \in Cycle : ~SeqByRun(q, c)
    BY <1>1 DEF SeqByRun, Work
<1> QED BY <1>1, <1>2, <1>3, <1>4 DEF ByRun

LEMMA RestingReadsNothing ==
    ASSUME Reads, NEW r \in Run, Resting(r), NEW q \in Run \ {r}
    PROVE  /\ Holds(q)' /\ Above(q)' /\ PrevCounts(q)'
           /\ \A k \in Trace : ~ByRun(q, k)'
           /\ \A c \in Cycle : ~SeqByRun(q, c)'
<1>1. run'[q] = run[q] /\ run[q].stage \in Waiting
    BY DEF Resting
<1>2. run[q].hits = {} /\ run[q].todo = {} /\ run[q].prev = NoneCounted /\ run[q].stage \notin Work
    BY <1>1 DEF Reads, Holds, Early, Waiting, Work
<1>3. Holds(q)'
    BY <1>1, <1>2 DEF Holds, Waiting, Early, NoneCounted
<1>4. Above(q)'
    BY <1>1, <1>2 DEF Above
<1>5. PrevCounts(q)'
    BY <1>1, <1>2 DEF PrevCounts, NoneCounted
<1>6. \A c \in Cycle : ~SeqByRun(q, c)'
    BY <1>1, <1>2 DEF SeqByRun, Work
<1> QED BY <1>1, <1>2, <1>3, <1>4, <1>5, <1>6 DEF ByRun

LEMMA ReadsOfOne ==
    ASSUME Reads, NEW r \in Run, Resting(r), Holds(r)', Above(r)'
    PROVE  Reads'
BY RestingReadsNothing DEF Reads

\* What is counted, in terms of the one run at work.
RowCounts(k, r) == row[k[2]][k[1]] # 0 => row[k[2]][k[1]] = 1 /\ (Before(k) \/ ByRun(r, k))
SeqCount(c, r)  == seq[c] # 0 => seq[c] = 1 /\ (Before(<<c, 1>>) \/ SeqByRun(r, c))

LEMMA CountsByOne ==
    ASSUME ConsolidationTypeOK, OneAtWork, Reads, Counts, NEW r \in Run, run[r].stage \in Work
    PROVE  /\ \A k \in Trace : RowCounts(k, r)
           /\ \A c \in Cycle : SeqCount(c, r)
           /\ PrevCounts(r)
<1>1. \A q \in Run \ {r} : /\ \A k \in Trace : ~ByRun(q, k)
                           /\ \A c \in Cycle : ~SeqByRun(q, c)
    BY OthersWait, WaitingReadsNothing DEF Reads
<1>2. \A k \in Trace : RowCounts(k, r)
    BY <1>1 DEF Counts, RowsCount, RowCounts
<1>3. \A c \in Cycle : SeqCount(c, r)
    BY <1>1 DEF Counts, SeqCounts, SeqCount
<1> QED BY <1>2, <1>3 DEF Counts

LEMMA CountsOfOne ==
    ASSUME Reads, NEW r \in Run, Resting(r), PrevCounts(r)',
           \A k \in Trace : RowCounts(k, r)', \A c \in Cycle : SeqCount(c, r)'
    PROVE  Counts'
<1>1. RowsCount'
    BY DEF RowsCount, RowCounts
<1>2. SeqCounts'
    BY DEF SeqCounts, SeqCount
<1>3. \A q \in Run : PrevCounts(q)'
    BY RestingReadsNothing
<1> QED BY <1>1, <1>2, <1>3 DEF Counts

-----------------------------------------------------------------------------
(* The steps of the run at work                                              *)

\* A step within the run keeps the invariant when what it changes does.
LEMMA StepKeeps ==
    ASSUME CountInv, ConsolidationTypeOK', NEW r \in Run, OneAtWork', Resting(r),
           run[r].stage \in Work, torn' = torn, Holds(r)', Above(r)',
           Counts => /\ PrevCounts(r)'
                     /\ \A k \in Trace : RowCounts(k, r)'
                     /\ \A c \in Cycle : SeqCount(c, r)'
    PROVE  CountInv'
<1>1. Reads'
    BY ReadsOfOne DEF CountInv
<1>2. ~torn' => Counts'
    BY CountsOfOne DEF CountInv
<1> QED BY <1>1, <1>2 DEF CountInv

\* What was counted before still was, as long as the watermark is not written.
LEMMA BeforeKept ==
    ASSUME Base' = Base, UNCHANGED <<ts, written>>
    PROVE  \A k \in Trace : Before(k)' = Before(k)
BY DEF Before

\* The watermark of the run at work.
LEMMA BaseOfOne ==
    ASSUME NEW r \in Run, inFlight = r
    PROVE  Base = IF run[r].stage = "mark" THEN mark ELSE run[r].mark
BY ConsolidationNumbers DEF Base, Run

LEMMA BaseOfOnePrimed ==
    ASSUME NEW r \in Run, inFlight' = r
    PROVE  Base' = IF run'[r].stage = "mark" THEN mark' ELSE run'[r].mark
BY ConsolidationNumbers DEF Base, Run

\* The row that comes next.
LEMMA FirstOfTodo ==
    ASSUME ConsolidationTypeOK, NEW r \in Run, run[r].todo # {}
    PROVE  First(r) \in run[r].todo /\ First(r) \in Tool
<1>1. run[r].todo \in SUBSET Tool
    BY DEF ConsolidationTypeOK, RunState
<1> QED BY <1>1, FirstIsLeft DEF First

LEMMA ReadMarkGoesOn ==
    ASSUME CountInv, ConsolidationTypeOK', NEW r \in Run, ReadMark(r),
           To(r, "mark", [At(r, "read") EXCEPT !.mark = mark]), UNCHANGED <<fresh, inFlight>>,
           mark = 0 \/ run[r].until > mark
    PROVE  CountInv'
<1> DEFINE to == [At(r, "read") EXCEPT !.mark = mark]
<1>0. To(r, "mark", to) /\ inFlight' = inFlight
    OBVIOUS
<1>1. /\ run[r] \in RunState /\ run[r].stage = "mark" /\ "mark" \in Work
    BY DEF CountInv, ConsolidationTypeOK, ReadMark, Work
<1>2. /\ to.stage = "read" /\ to.mark = mark /\ to.until = run[r].until
      /\ to.hits = run[r].hits /\ to.todo = run[r].todo /\ to.prev = run[r].prev
    BY <1>1 DEF At, RunState
<1>3. /\ OneAtWork' /\ inFlight = r /\ inFlight' = r /\ Resting(r) /\ run'[r] = to
    <2>1. to.stage \in Work
        BY <1>2 DEF Work
    <2> HIDE DEF to
    <2> QED BY <1>0, <1>1, <2>1, GoesOn DEF CountInv
<1> HIDE DEF to
<1>4. run[r].hits = {} /\ run[r].todo = {} /\ run[r].prev = NoneCounted
    BY <1>1 DEF CountInv, Reads, Holds, Early
<1>5. UNCHANGED <<ts, written, row, seq, mark, torn>>
    BY DEF ReadMark, store, history
<1>6. Holds(r)'
    BY <1>2, <1>3, <1>4 DEF Holds, NoneCounted
<1>7. Above(r)'
    BY <1>2, <1>3, <1>4, <1>5 DEF Above
<1>8. Base' = Base
    BY <1>1, <1>2, <1>3, <1>5, BaseOfOne, BaseOfOnePrimed
<1>9. ASSUME Counts
      PROVE  /\ PrevCounts(r)'
             /\ \A k \in Trace : RowCounts(k, r)'
             /\ \A c \in Cycle : SeqCount(c, r)'
    <2>1. /\ \A k \in Trace : RowCounts(k, r)
          /\ \A c \in Cycle : SeqCount(c, r)
        BY <1>1, <1>9, CountsByOne DEF CountInv
    <2>2. PrevCounts(r)'
        BY <1>2, <1>3, <1>4 DEF PrevCounts, NoneCounted
    <2>3. ASSUME NEW k \in Trace PROVE RowCounts(k, r)'
        BY <2>1, <1>4, <1>5, <1>8, BeforeKept DEF RowCounts, ByRun
    <2>4. ASSUME NEW c \in Cycle PROVE SeqCount(c, r)'
        <3>1. ~SeqByRun(r, c) /\ <<c, 1>> \in Trace
            BY <1>1, TraceParts DEF SeqByRun
        <3> QED BY <2>1, <3>1, <1>5, <1>8, BeforeKept DEF SeqCount
    <2> QED BY <2>2, <2>3, <2>4
<1> QED BY <1>1, <1>3, <1>5, <1>6, <1>7, <1>9, StepKeeps

LEMMA ReadTracesInv ==
    ASSUME CountInv, ConsolidationTypeOK', NEW r \in Run, ReadTraces(r)
    PROVE  CountInv'
<1> DEFINE hits == {k \in Trace : ts[k] # 0 /\ k[1] \in written /\ InWindow(k, r)}
           due == {k[2] : k \in hits}
           to   == IF hits = {} THEN At(r, "unmark")
                   ELSE [At(r, "rows") EXCEPT !.hits = hits, !.todo = due]
<1>0. To(r, "read", to)
    BY DEF ReadTraces
<1>1. /\ run[r] \in RunState /\ run[r].stage = "read" /\ "read" \in Work
    BY <1>0 DEF CountInv, ConsolidationTypeOK, To, Work
<1>2. run[r].hits = {} /\ run[r].todo = {} /\ run[r].prev = NoneCounted
    BY <1>1 DEF CountInv, Reads, Holds, Early
<1>3. /\ to.stage = IF hits = {} THEN "unmark" ELSE "rows"
      /\ to.mark = run[r].mark /\ to.until = run[r].until
      /\ to.hits = hits /\ to.todo = due /\ to.prev = NoneCounted
    <2>1. CASE hits = {}
        <3>1. due = {}
            BY <2>1
        <3> HIDE DEF hits, due
        <3> QED BY <1>1, <1>2, <2>1, <3>1 DEF At, RunState
    <2>2. CASE hits # {}
        <3> HIDE DEF hits, due
        <3> QED BY <1>1, <1>2, <2>2 DEF At, RunState
    <2> QED BY <2>1, <2>2
<1>4. \A k \in hits : /\ k \in Trace /\ k[1] \in written /\ ts[k] # 0
                      /\ ts[k] > run[r].mark /\ ts[k] <= run[r].until
    <2> SUFFICES ASSUME NEW k \in hits
                 PROVE  ts[k] > run[r].mark /\ ts[k] <= run[r].until
        OBVIOUS
    <2>1. ts[k] # 0 /\ ts[k] \in Nat /\ run[r].mark \in Nat
        <3>1. k \in Trace /\ ts[k] # 0
            OBVIOUS
        <3> HIDE DEF hits
        <3> QED BY <1>1, <3>1, ConsolidationNumbers DEF CountInv, ConsolidationTypeOK, RunState
    <2>2. InWindow(k, r)
        OBVIOUS
    <2>3. ts[k] <= run[r].until /\ (run[r].mark # 0 => ts[k] > run[r].mark)
        <3> HIDE DEF hits
        <3> QED BY <2>2 DEF InWindow
    <2> HIDE DEF hits
    <2> QED BY <2>1, <2>3
<1>5. \A k \in hits : k[2] \in due
    OBVIOUS
<1> HIDE DEF hits, due
<1>6. /\ OneAtWork' /\ inFlight = r /\ inFlight' = r /\ Resting(r) /\ run'[r] = to
    <2>1. to.stage \in Work
        BY <1>3 DEF Work
    <2>2. inFlight' = inFlight
        BY DEF ReadTraces
    <2> HIDE DEF to
    <2> QED BY <1>0, <1>1, <2>1, <2>2, GoesOn DEF CountInv
<1> HIDE DEF to
<1>7. UNCHANGED <<ts, written, row, seq, mark, torn>>
    BY DEF ReadTraces, store, history
<1>8. Holds(r)'
    <2>1. hits = {} => due = {}
        BY DEF due
    <2> QED BY <1>3, <1>6, <2>1 DEF Holds, NoneCounted, Early, Waiting
<1>9. Above(r)'
    <2>1. Above(r)
        BY DEF CountInv, Reads
    <2>2. run[r].mark = mark /\ (run[r].mark = 0 \/ run[r].until > run[r].mark)
        BY <1>1, <2>1 DEF Above
    <2> QED BY <1>3, <1>4, <1>6, <1>7, <2>2 DEF Above
<1>10. Base' = Base
    BY <1>1, <1>3, <1>6, <1>7, BaseOfOne, BaseOfOnePrimed
<1>11. ASSUME Counts
       PROVE  /\ PrevCounts(r)'
              /\ \A k \in Trace : RowCounts(k, r)'
              /\ \A c \in Cycle : SeqCount(c, r)'
    <2>1. /\ \A k \in Trace : RowCounts(k, r)
          /\ \A c \in Cycle : SeqCount(c, r)
        BY <1>1, <1>11, CountsByOne DEF CountInv
    <2>2. PrevCounts(r)'
        BY <1>3, <1>6 DEF PrevCounts, NoneCounted
    <2>3. ASSUME NEW k \in Trace PROVE RowCounts(k, r)'
        BY <2>1, <1>2, <1>7, <1>10, BeforeKept DEF RowCounts, ByRun
    <2>4. ASSUME NEW c \in Cycle PROVE SeqCount(c, r)'
        <3>1. ~SeqByRun(r, c) /\ <<c, 1>> \in Trace
            BY <1>1, TraceParts DEF SeqByRun
        <3> QED BY <2>1, <3>1, <1>7, <1>10, BeforeKept DEF SeqCount
    <2> QED BY <2>2, <2>3, <2>4
<1> QED BY <1>1, <1>6, <1>7, <1>8, <1>9, <1>11, StepKeeps

LEMMA ReadRowInv ==
    ASSUME CountInv, ConsolidationTypeOK', NEW r \in Run, ReadRow(r)
    PROVE  CountInv'
<1> DEFINE f == First(r)
           to == [At(r, "delete") EXCEPT !.prev = row[f]]
<1>0. To(r, "rows", to) /\ run[r].todo # {} /\ inFlight' = inFlight
    BY DEF ReadRow
<1>1. /\ run[r] \in RunState /\ run[r].stage = "rows" /\ "rows" \in Work
    BY <1>0 DEF CountInv, ConsolidationTypeOK, To, Work
<1>2. f \in run[r].todo /\ f \in Tool
    BY <1>0, FirstOfTodo DEF CountInv
<1>3. /\ to.stage = "delete" /\ to.mark = run[r].mark /\ to.until = run[r].until
      /\ to.hits = run[r].hits /\ to.todo = run[r].todo /\ to.prev = row[f]
    <2> HIDE DEF f
    <2> QED BY <1>1 DEF At, RunState
<1>4. /\ OneAtWork' /\ inFlight = r /\ inFlight' = r /\ Resting(r) /\ run'[r] = to
    <2>1. to.stage \in Work
        BY <1>3 DEF Work
    <2> HIDE DEF to
    <2> QED BY <1>0, <1>1, <2>1, GoesOn DEF CountInv
<1> HIDE DEF to
<1>5. UNCHANGED <<ts, written, row, seq, mark, torn>>
    BY DEF ReadRow, store, history
<1>6. Holds(r) /\ Above(r)
    BY DEF CountInv, Reads
<1>7. Holds(r)'
    BY <1>0, <1>3, <1>4 DEF Holds, Early, Waiting
<1>8. Above(r)'
    BY <1>1, <1>3, <1>4, <1>5, <1>6 DEF Above, Work
<1>9. Base' = Base
    BY <1>1, <1>3, <1>4, <1>5, BaseOfOne, BaseOfOnePrimed
<1>10. ASSUME Counts
       PROVE  /\ PrevCounts(r)'
              /\ \A k \in Trace : RowCounts(k, r)'
              /\ \A c \in Cycle : SeqCount(c, r)'
    <2>1. /\ \A k \in Trace : RowCounts(k, r)
          /\ \A c \in Cycle : SeqCount(c, r)
        BY <1>1, <1>10, CountsByOne DEF CountInv
    <2>2. First(r)' = f
        BY <1>3, <1>4 DEF First
    <2>3. PrevCounts(r)'
        <3>1. PICK t \in Tool : t = f
            BY <1>2
        <3>2. ASSUME NEW c \in Cycle, row[t][c] # 0
              PROVE  row[t][c] = 1 /\ Before(<<c, t>>)'
            <4>1. <<c, t>> \in Trace /\ ~ByRun(r, <<c, t>>)
                BY <1>2, <3>1, TraceParts DEF ByRun
            <4> QED BY <2>1, <3>2, <4>1, <1>5, <1>9, BeforeKept DEF RowCounts
        <3>3. run'[r].prev = row[t] /\ run'[r].stage = "delete" /\ First(r)' = t
            BY <1>3, <1>4, <2>2, <3>1
        <3> QED BY <3>2, <3>3 DEF PrevCounts
    <2>4. ASSUME NEW k \in Trace PROVE RowCounts(k, r)'
        BY <2>1, <1>3, <1>4, <1>5, <1>9, BeforeKept DEF RowCounts, ByRun
    <2>5. ASSUME NEW c \in Cycle PROVE SeqCount(c, r)'
        <3>1. ~SeqByRun(r, c) /\ <<c, 1>> \in Trace
            BY <1>1, TraceParts DEF SeqByRun
        <3> QED BY <2>1, <3>1, <1>5, <1>9, BeforeKept DEF SeqCount
    <2> QED BY <2>3, <2>4, <2>5
<1> QED BY <1>1, <1>4, <1>5, <1>7, <1>8, <1>10, StepKeeps

LEMMA DeleteRowInv ==
    ASSUME CountInv, ConsolidationTypeOK', NEW r \in Run, DeleteRow(r)
    PROVE  CountInv'
<1> DEFINE f  == First(r)
           to == At(r, "insert")
<1>0. To(r, "delete", to) /\ inFlight' = inFlight
    BY DEF DeleteRow
<1>1. /\ run[r] \in RunState /\ run[r].stage = "delete" /\ "delete" \in Work
    BY <1>0 DEF CountInv, ConsolidationTypeOK, To, Work
<1>2. Holds(r) /\ Above(r)
    BY DEF CountInv, Reads
<1>3. run[r].todo # {} /\ f \in run[r].todo /\ f \in Tool
    BY <1>1, <1>2, FirstOfTodo DEF CountInv, Holds
<1>4. /\ to.stage = "insert" /\ to.mark = run[r].mark /\ to.until = run[r].until
      /\ to.hits = run[r].hits /\ to.todo = run[r].todo /\ to.prev = run[r].prev
    BY <1>1 DEF At, RunState
<1>5. /\ OneAtWork' /\ inFlight = r /\ inFlight' = r /\ Resting(r) /\ run'[r] = to
    <2>1. to.stage \in Work
        BY <1>4 DEF Work
    <2> HIDE DEF to
    <2> QED BY <1>0, <1>1, <2>1, GoesOn DEF CountInv
<1> HIDE DEF to
<1>6. UNCHANGED <<ts, written, seq, mark, torn>> /\ row' = [row EXCEPT ![f] = NoneCounted]
    BY DEF DeleteRow, history
<1>7. Holds(r)'
    BY <1>3, <1>4, <1>5 DEF Holds, Early, Waiting
<1>8. Above(r)'
    BY <1>1, <1>2, <1>4, <1>5, <1>6 DEF Above, Work
<1>9. Base' = Base
    BY <1>1, <1>4, <1>5, <1>6, BaseOfOne, BaseOfOnePrimed
<1>10. ASSUME Counts
       PROVE  /\ PrevCounts(r)'
              /\ \A k \in Trace : RowCounts(k, r)'
              /\ \A c \in Cycle : SeqCount(c, r)'
    <2>1. /\ \A k \in Trace : RowCounts(k, r)
          /\ \A c \in Cycle : SeqCount(c, r)
          /\ PrevCounts(r)
        BY <1>1, <1>10, CountsByOne DEF CountInv
    <2>2. First(r)' = f
        BY <1>4, <1>5 DEF First
    <2>3. PrevCounts(r)'
        <3>1. PICK t \in Tool : t = f
            BY <1>3
        <3>2. ASSUME NEW c \in Cycle, run[r].prev[c] # 0
              PROVE  run[r].prev[c] = 1 /\ Before(<<c, t>>)'
            <4>1. <<c, t>> \in Trace
                BY TraceParts
            <4>2. run[r].prev[c] = 1 /\ Before(<<c, t>>)
                BY <2>1, <1>1, <3>1, <3>2 DEF PrevCounts
            <4> QED BY <4>1, <4>2, <1>6, <1>9, BeforeKept
        <3>3. run'[r].prev = run[r].prev /\ run'[r].stage = "insert" /\ First(r)' = t
            BY <1>4, <1>5, <2>2, <3>1
        <3> QED BY <3>2, <3>3 DEF PrevCounts
    <2>4. ASSUME NEW k \in Trace PROVE RowCounts(k, r)'
        <3>1. k[1] \in Cycle /\ k[2] \in Tool
            BY TraceParts
        <3>2. CASE k[2] = f
            <4>1. row'[k[2]][k[1]] = 0
                BY <3>1, <3>2, <1>6 DEF NoneCounted, CountInv, ConsolidationTypeOK
            <4> QED BY <4>1 DEF RowCounts
        <3>3. CASE k[2] # f
            <4>1. row'[k[2]] = row[k[2]]
                BY <3>1, <3>3, <1>6 DEF CountInv, ConsolidationTypeOK
            <4> QED BY <4>1, <2>1, <1>4, <1>5, <1>6, <1>9, BeforeKept DEF RowCounts, ByRun
        <3> QED BY <3>2, <3>3
    <2>5. ASSUME NEW c \in Cycle PROVE SeqCount(c, r)'
        <3>1. ~SeqByRun(r, c) /\ <<c, 1>> \in Trace
            BY <1>1, TraceParts DEF SeqByRun
        <3> QED BY <2>1, <3>1, <1>6, <1>9, BeforeKept DEF SeqCount
    <2> QED BY <2>3, <2>4, <2>5
<1> QED BY <1>1, <1>5, <1>6, <1>7, <1>8, <1>10, StepKeeps

LEMMA InsertRowInv ==
    ASSUME CountInv, ConsolidationTypeOK', NEW r \in Run, InsertRow(r)
    PROVE  CountInv'
<1> DEFINE f  == First(r)
           to == [At(r, "rows") EXCEPT !.todo = @ \ {f}, !.prev = NoneCounted]
<1>0. To(r, "insert", to) /\ inFlight' = inFlight
    BY DEF InsertRow
<1>1. /\ run[r] \in RunState /\ run[r].stage = "insert" /\ "insert" \in Work
    BY <1>0 DEF CountInv, ConsolidationTypeOK, To, Work
<1>2. Holds(r) /\ Above(r)
    BY DEF CountInv, Reads
<1>3. run[r].todo # {} /\ f \in run[r].todo /\ f \in Tool
    BY <1>1, <1>2, FirstOfTodo DEF CountInv, Holds
<1>4. /\ to.stage = "rows" /\ to.mark = run[r].mark /\ to.until = run[r].until
      /\ to.hits = run[r].hits /\ to.todo = run[r].todo \ {f} /\ to.prev = NoneCounted
    <2> HIDE DEF f
    <2> QED BY <1>1 DEF At, RunState
<1>5. /\ OneAtWork' /\ inFlight = r /\ inFlight' = r /\ Resting(r) /\ run'[r] = to
    <2>1. to.stage \in Work
        BY <1>4 DEF Work
    <2> HIDE DEF to
    <2> QED BY <1>0, <1>1, <2>1, GoesOn DEF CountInv
<1> HIDE DEF to
<1>6. /\ UNCHANGED <<ts, written, seq, mark, torn>>
      /\ row' = [row EXCEPT ![f] = Add(run[r].prev, CyclesOf(r, f))]
    BY DEF InsertRow, history
<1>7. Holds(r)'
    BY <1>4, <1>5 DEF Holds, Early, Waiting, NoneCounted
<1>8. Above(r)'
    BY <1>1, <1>2, <1>4, <1>5, <1>6 DEF Above, Work
<1>9. Base' = Base /\ Base = run[r].mark
    BY <1>1, <1>4, <1>5, <1>6, BaseOfOne, BaseOfOnePrimed
<1>10. ASSUME Counts
       PROVE  /\ PrevCounts(r)'
              /\ \A k \in Trace : RowCounts(k, r)'
              /\ \A c \in Cycle : SeqCount(c, r)'
    <2>1. /\ \A k \in Trace : RowCounts(k, r)
          /\ \A c \in Cycle : SeqCount(c, r)
          /\ PrevCounts(r)
        BY <1>1, <1>10, CountsByOne DEF CountInv
    <2>2. PrevCounts(r)'
        BY <1>4, <1>5 DEF PrevCounts, NoneCounted
    <2>3. ASSUME NEW k \in Trace PROVE RowCounts(k, r)'
        <3>1. k[1] \in Cycle /\ k[2] \in Tool /\ k = <<k[1], k[2]>>
            BY TraceParts
        <3>2. CASE k[2] = f
            <4> DEFINE p == run[r].prev[k[1]]
                       hit == k \in run[r].hits
            <4>1. row'[k[2]][k[1]] = p + IF hit THEN 1 ELSE 0
                <5>1. row'[k[2]][k[1]] = p + IF k[1] \in CyclesOf(r, f) THEN 1 ELSE 0
                    BY <3>1, <3>2, <1>3, <1>6 DEF Add, CountInv, ConsolidationTypeOK
                <5>2. k[1] \in CyclesOf(r, f) <=> hit
                    BY <3>1, <3>2 DEF CyclesOf
                <5> QED BY <5>1, <5>2
            <4>2. p \in Nat
                BY <1>1, <3>1 DEF RunState
            <4>3. p # 0 => p = 1 /\ Before(k)
                BY <2>1, <1>1, <3>1, <3>2 DEF PrevCounts
            <4>4. hit => ts[k] > run[r].mark
                BY <1>2 DEF Above
            <4>5. ~(hit /\ Before(k))
                <5>1. ts[k] \in Nat /\ run[r].mark \in Nat
                    BY <1>1, ConsolidationNumbers DEF CountInv, ConsolidationTypeOK, RunState
                <5>2. Before(k) => ts[k] <= run[r].mark
                    BY <1>9 DEF Before
                <5> HIDE DEF hit
                <5> QED BY <4>4, <5>1, <5>2
            <4>6. hit => ByRun(r, k)'
                BY <1>4, <1>5, <3>2 DEF ByRun
            <4>7. Before(k)' = Before(k)
                BY <1>6, <1>9, BeforeKept
            <4> HIDE DEF p, hit
            <4> QED BY <4>1, <4>2, <4>3, <4>5, <4>6, <4>7 DEF RowCounts
        <3>3. CASE k[2] # f
            <4>1. row'[k[2]] = row[k[2]]
                BY <3>1, <3>3, <1>6 DEF CountInv, ConsolidationTypeOK
            <4> QED BY <4>1, <2>1, <1>4, <1>5, <1>6, <1>9, BeforeKept DEF RowCounts, ByRun
        <3> QED BY <3>2, <3>3
    <2>4. ASSUME NEW c \in Cycle PROVE SeqCount(c, r)'
        <3>1. ~SeqByRun(r, c) /\ <<c, 1>> \in Trace
            BY <1>1, TraceParts DEF SeqByRun
        <3> QED BY <2>1, <3>1, <1>6, <1>9, BeforeKept DEF SeqCount
    <2> QED BY <2>2, <2>3, <2>4
<1> QED BY <1>1, <1>5, <1>6, <1>7, <1>8, <1>10, StepKeeps

LEMMA ReadSequenceInv ==
    ASSUME CountInv, ConsolidationTypeOK', NEW r \in Run, ReadSequence(r)
    PROVE  CountInv'
<1> DEFINE to == IF Sequences(r) # {} /\ seqThere
                   THEN [At(r, "take") EXCEPT !.prev = seq]
                   ELSE At(r, IF Cardinality(Sequences(r)) >= MinCycles THEN "mint" ELSE "unmark")
<1>0. To(r, "rows", to) /\ run[r].todo = {} /\ inFlight' = inFlight
    BY DEF ReadSequence
<1>1. /\ run[r] \in RunState /\ run[r].stage = "rows" /\ "rows" \in Work
    BY <1>0 DEF CountInv, ConsolidationTypeOK, To, Work
<1>2. Holds(r) /\ Above(r)
    BY DEF CountInv, Reads
<1>3. /\ to.mark = run[r].mark /\ to.until = run[r].until
      /\ to.hits = run[r].hits /\ to.todo = {}
      /\ \/ to.stage = "take" /\ to.prev = seq
         \/ to.stage \in {"mint", "unmark"} /\ to.prev = NoneCounted
    <2>1. run[r].prev = NoneCounted
        BY <1>1, <1>2 DEF Holds
    <2>2. CASE Sequences(r) # {} /\ seqThere
        BY <1>0, <1>1, <2>2 DEF At, RunState
    <2>3. CASE ~(Sequences(r) # {} /\ seqThere)
        <3>1. to \in {At(r, "mint"), At(r, "unmark")}
            BY <2>3
        <3> HIDE DEF to
        <3> QED BY <1>0, <1>1, <2>1, <3>1 DEF At, RunState
    <2> QED BY <2>2, <2>3
<1>4. /\ OneAtWork' /\ inFlight = r /\ inFlight' = r /\ Resting(r) /\ run'[r] = to
    <2>1. to.stage \in Work
        BY <1>3 DEF Work
    <2> HIDE DEF to
    <2> QED BY <1>0, <1>1, <2>1, GoesOn DEF CountInv
<1> HIDE DEF to
<1>5. UNCHANGED <<ts, written, row, seq, mark, torn>>
    BY DEF ReadSequence, store, history
<1>6. Holds(r)'
    BY <1>3, <1>4 DEF Holds, Early, Waiting, NoneCounted
<1>7. Above(r)'
    BY <1>1, <1>2, <1>3, <1>4, <1>5 DEF Above, Work
<1>8. Base' = Base
    BY <1>1, <1>3, <1>4, <1>5, BaseOfOne, BaseOfOnePrimed
<1>9. ASSUME Counts
      PROVE  /\ PrevCounts(r)'
             /\ \A k \in Trace : RowCounts(k, r)'
             /\ \A c \in Cycle : SeqCount(c, r)'
    <2>1. /\ \A k \in Trace : RowCounts(k, r)
          /\ \A c \in Cycle : SeqCount(c, r)
        BY <1>1, <1>9, CountsByOne DEF CountInv
    <2>2. ASSUME NEW c \in Cycle, seq[c] # 0 PROVE seq[c] = 1 /\ Before(<<c, 1>>)'
        <3>1. ~SeqByRun(r, c) /\ <<c, 1>> \in Trace
            BY <1>1, TraceParts DEF SeqByRun
        <3> QED BY <2>1, <2>2, <3>1, <1>5, <1>8, BeforeKept DEF SeqCount
    <2>3. PrevCounts(r)'
        BY <2>2, <1>3, <1>4 DEF PrevCounts, NoneCounted
    <2>4. ASSUME NEW k \in Trace PROVE RowCounts(k, r)'
        BY <2>1, <1>0, <1>3, <1>4, <1>5, <1>8, BeforeKept DEF RowCounts, ByRun
    <2>5. ASSUME NEW c \in Cycle PROVE SeqCount(c, r)'
        BY <2>2, <1>5 DEF SeqCount
    <2> QED BY <2>3, <2>4, <2>5
<1> QED BY <1>1, <1>4, <1>5, <1>6, <1>7, <1>9, StepKeeps

LEMMA TakeSequenceInv ==
    ASSUME CountInv, ConsolidationTypeOK', NEW r \in Run, TakeSequence(r)
    PROVE  CountInv'
<1> DEFINE to == At(r, "mint")
<1>0. To(r, "take", to) /\ inFlight' = inFlight
    BY DEF TakeSequence
<1>1. /\ run[r] \in RunState /\ run[r].stage = "take" /\ "take" \in Work
    BY <1>0 DEF CountInv, ConsolidationTypeOK, To, Work
<1>2. Holds(r) /\ Above(r)
    BY DEF CountInv, Reads
<1>3. /\ to.stage = "mint" /\ to.mark = run[r].mark /\ to.until = run[r].until
      /\ to.hits = run[r].hits /\ to.todo = run[r].todo /\ to.prev = run[r].prev
    BY <1>1 DEF At, RunState
<1>4. /\ OneAtWork' /\ inFlight = r /\ inFlight' = r /\ Resting(r) /\ run'[r] = to
    <2>1. to.stage \in Work
        BY <1>3 DEF Work
    <2> HIDE DEF to
    <2> QED BY <1>0, <1>1, <2>1, GoesOn DEF CountInv
<1> HIDE DEF to
<1>5. UNCHANGED <<ts, written, row, seq, mark, torn>>
    BY DEF TakeSequence, history
<1>6. Holds(r)'
    BY <1>1, <1>2, <1>3, <1>4 DEF Holds, Early, Waiting
<1>7. Above(r)'
    BY <1>1, <1>2, <1>3, <1>4, <1>5 DEF Above, Work
<1>8. Base' = Base
    BY <1>1, <1>3, <1>4, <1>5, BaseOfOne, BaseOfOnePrimed
<1>9. ASSUME Counts
      PROVE  /\ PrevCounts(r)'
             /\ \A k \in Trace : RowCounts(k, r)'
             /\ \A c \in Cycle : SeqCount(c, r)'
    <2>1. /\ \A k \in Trace : RowCounts(k, r)
          /\ \A c \in Cycle : SeqCount(c, r)
          /\ PrevCounts(r)
        BY <1>1, <1>9, CountsByOne DEF CountInv
    <2>2. PrevCounts(r)'
        <3> SUFFICES ASSUME NEW c \in Cycle, run[r].prev[c] # 0
                     PROVE  run[r].prev[c] = 1 /\ Before(<<c, 1>>)'
            BY <1>3, <1>4 DEF PrevCounts
        <3>1. <<c, 1>> \in Trace
            BY TraceParts
        <3> QED BY <2>1, <3>1, <1>1, <1>5, <1>8, BeforeKept DEF PrevCounts
    <2>3. ASSUME NEW k \in Trace PROVE RowCounts(k, r)'
        BY <2>1, <1>3, <1>4, <1>5, <1>8, BeforeKept DEF RowCounts, ByRun
    <2>4. ASSUME NEW c \in Cycle PROVE SeqCount(c, r)'
        <3>1. ~SeqByRun(r, c) /\ <<c, 1>> \in Trace
            BY <1>1, TraceParts DEF SeqByRun
        <3> QED BY <2>1, <3>1, <1>5, <1>8, BeforeKept DEF SeqCount
    <2> QED BY <2>2, <2>3, <2>4
<1> QED BY <1>1, <1>4, <1>5, <1>6, <1>7, <1>9, StepKeeps

LEMMA PutSequenceInv ==
    ASSUME CountInv, ConsolidationTypeOK', NEW r \in Run, PutSequence(r)
    PROVE  CountInv'
<1> DEFINE to == [At(r, "unmark") EXCEPT !.prev = NoneCounted]
<1>0. To(r, "mint", to) /\ inFlight' = inFlight
    BY DEF PutSequence
<1>1. /\ run[r] \in RunState /\ run[r].stage = "mint" /\ "mint" \in Work
    BY <1>0 DEF CountInv, ConsolidationTypeOK, To, Work
<1>2. Holds(r) /\ Above(r)
    BY DEF CountInv, Reads
<1>3. /\ to.stage = "unmark" /\ to.mark = run[r].mark /\ to.until = run[r].until
      /\ to.hits = run[r].hits /\ to.todo = run[r].todo /\ to.prev = NoneCounted
    BY <1>1 DEF At, RunState
<1>4. /\ OneAtWork' /\ inFlight = r /\ inFlight' = r /\ Resting(r) /\ run'[r] = to
    <2>1. to.stage \in Work
        BY <1>3 DEF Work
    <2> HIDE DEF to
    <2> QED BY <1>0, <1>1, <2>1, GoesOn DEF CountInv
<1> HIDE DEF to
<1>5. /\ UNCHANGED <<ts, written, row, mark, torn>>
      /\ seq' = Add(run[r].prev, Sequences(r))
    BY DEF PutSequence, history
<1>6. Holds(r)'
    BY <1>1, <1>2, <1>3, <1>4 DEF Holds, Early, Waiting, NoneCounted
<1>7. Above(r)'
    BY <1>1, <1>2, <1>3, <1>4, <1>5 DEF Above, Work
<1>8. Base' = Base /\ Base = run[r].mark
    BY <1>1, <1>3, <1>4, <1>5, BaseOfOne, BaseOfOnePrimed
<1>9. ASSUME Counts
      PROVE  /\ PrevCounts(r)'
             /\ \A k \in Trace : RowCounts(k, r)'
             /\ \A c \in Cycle : SeqCount(c, r)'
    <2>1. /\ \A k \in Trace : RowCounts(k, r)
          /\ PrevCounts(r)
        BY <1>1, <1>9, CountsByOne DEF CountInv
    <2>2. PrevCounts(r)'
        BY <1>3, <1>4 DEF PrevCounts, NoneCounted
    <2>3. ASSUME NEW k \in Trace PROVE RowCounts(k, r)'
        BY <2>1, <1>3, <1>4, <1>5, <1>8, BeforeKept DEF RowCounts, ByRun
    <2>4. ASSUME NEW c \in Cycle PROVE SeqCount(c, r)'
        <3> DEFINE p   == run[r].prev[c]
                   hit == c \in Sequences(r)
                   k   == <<c, 1>>
        <3>1. seq'[c] = p + IF hit THEN 1 ELSE 0
            BY <1>5 DEF Add
        <3>2. p \in Nat /\ k \in Trace
            BY <1>1, TraceParts DEF RunState
        <3>3. p # 0 => p = 1 /\ Before(k)
            BY <2>1, <1>1 DEF PrevCounts
        <3>4. hit => k \in run[r].hits
            BY TraceParts DEF Sequences
        <3>5. ~(hit /\ Before(k))
            <4>1. ts[k] \in Nat /\ run[r].mark \in Nat
                BY <1>1, <3>2, ConsolidationNumbers DEF CountInv, ConsolidationTypeOK, RunState
            <4>2. Before(k) => ts[k] <= run[r].mark
                BY <1>8 DEF Before
            <4>3. hit => ts[k] > run[r].mark
                BY <1>2, <3>4 DEF Above
            <4> HIDE DEF hit, k
            <4> QED BY <4>1, <4>2, <4>3
        <3>6. hit => SeqByRun(r, c)'
            <4>1. Sequences(r)' = Sequences(r)
                BY <1>3, <1>4 DEF Sequences
            <4> QED BY <4>1, <1>3, <1>4 DEF SeqByRun
        <3>7. Before(k)' = Before(k)
            BY <1>5, <1>8, <3>2, BeforeKept
        <3> HIDE DEF p, hit
        <3> QED BY <3>1, <3>2, <3>3, <3>5, <3>6, <3>7 DEF SeqCount
    <2> QED BY <2>2, <2>3, <2>4
<1> QED BY <1>1, <1>4, <1>5, <1>6, <1>7, <1>9, StepKeeps

LEMMA UnmarkInv ==
    ASSUME CountInv, ConsolidationTypeOK', NEW r \in Run, Unmark(r)
    PROVE  CountInv'
<1> DEFINE to == At(r, "remark")
<1>0. To(r, "unmark", to) /\ inFlight' = inFlight
    BY DEF Unmark
<1>1. /\ run[r] \in RunState /\ run[r].stage = "unmark" /\ "unmark" \in Work
    BY <1>0 DEF CountInv, ConsolidationTypeOK, To, Work
<1>2. Holds(r) /\ Above(r)
    BY DEF CountInv, Reads
<1>3. /\ to.stage = "remark" /\ to.mark = run[r].mark /\ to.until = run[r].until
      /\ to.hits = run[r].hits /\ to.todo = run[r].todo /\ to.prev = run[r].prev
    BY <1>1 DEF At, RunState
<1>4. /\ OneAtWork' /\ inFlight = r /\ inFlight' = r /\ Resting(r) /\ run'[r] = to
    <2>1. to.stage \in Work
        BY <1>3 DEF Work
    <2> HIDE DEF to
    <2> QED BY <1>0, <1>1, <2>1, GoesOn DEF CountInv
<1> HIDE DEF to
<1>5. UNCHANGED <<ts, written, row, seq, torn>>
    BY DEF Unmark, history
<1>6. Holds(r)'
    BY <1>1, <1>2, <1>3, <1>4 DEF Holds, Early, Waiting, NoneCounted
<1>7. Above(r)'
    BY <1>1, <1>2, <1>3, <1>4, <1>5 DEF Above, Work
<1>8. Base' = Base
    BY <1>1, <1>3, <1>4, BaseOfOne, BaseOfOnePrimed
<1>9. ASSUME Counts
      PROVE  /\ PrevCounts(r)'
             /\ \A k \in Trace : RowCounts(k, r)'
             /\ \A c \in Cycle : SeqCount(c, r)'
    <2>1. /\ \A k \in Trace : RowCounts(k, r)
          /\ \A c \in Cycle : SeqCount(c, r)
        BY <1>1, <1>9, CountsByOne DEF CountInv
    <2>2. PrevCounts(r)'
        BY <1>1, <1>2, <1>3, <1>4 DEF PrevCounts, NoneCounted, Holds
    <2>3. ASSUME NEW k \in Trace PROVE RowCounts(k, r)'
        BY <2>1, <1>3, <1>4, <1>5, <1>8, BeforeKept DEF RowCounts, ByRun
    <2>4. ASSUME NEW c \in Cycle PROVE SeqCount(c, r)'
        <3>1. Sequences(r)' = Sequences(r)
            BY <1>3, <1>4 DEF Sequences
        <3>2. SeqByRun(r, c) => SeqByRun(r, c)'
            BY <3>1, <1>3, <1>4 DEF SeqByRun
        <3>3. <<c, 1>> \in Trace
            BY TraceParts
        <3> QED BY <2>1, <3>2, <3>3, <1>5, <1>8, BeforeKept DEF SeqCount
    <2> QED BY <2>2, <2>3, <2>4
<1> QED BY <1>1, <1>4, <1>5, <1>6, <1>7, <1>9, StepKeeps

-----------------------------------------------------------------------------
(* The end of a run, and what goes on beside it                              *)

\* Nobody is at work, and what is counted lies below the watermark.
LEMMA NobodyAtWork ==
    ASSUME ConsolidationTypeOK', inFlight' = 0,
           \A q \in Run : run'[q].stage \in Waiting /\ Holds(q)',
           ~torn' => /\ \A k \in Trace : row'[k[2]][k[1]] # 0 =>
                            row'[k[2]][k[1]] = 1 /\ k[1] \in written' /\ ts'[k] # 0 /\ ts'[k] <= mark'
                     /\ \A c \in Cycle : seq'[c] # 0 =>
                            /\ seq'[c] = 1 /\ c \in written'
                            /\ ts'[<<c, 1>>] # 0 /\ ts'[<<c, 1>>] <= mark'
    PROVE  CountInv'
<1>1. OneAtWork'
    BY ConsolidationNumbers DEF OneAtWork, Run, Waiting, Work
<1>2. ASSUME NEW q \in Run PROVE Above(q)' /\ PrevCounts(q)'
    <2>1. /\ run'[q].hits = {} /\ run'[q].prev = NoneCounted /\ run'[q].stage \notin Work
        BY DEF Holds, Early, Waiting, Work, NoneCounted
    <2>2. Above(q)'
        BY <2>1 DEF Above
    <2> QED BY <2>1, <2>2 DEF PrevCounts, NoneCounted
<1>3. Reads'
    BY <1>2 DEF Reads
<1>4. Base' = mark'
    BY DEF Base
<1>5. ASSUME ~torn' PROVE Counts'
    <2>1. RowsCount'
        BY <1>4, <1>5 DEF RowsCount, Before
    <2>2. SeqCounts'
        BY <1>4, <1>5 DEF SeqCounts, Before
    <2> QED BY <1>2, <2>1, <2>2 DEF Counts
<1> QED BY <1>1, <1>3, <1>5 DEF CountInv

\* The runs when the run at work is over.
LEMMA EndRests ==
    ASSUME CountInv, NEW r \in Run, run[r].stage \in Work, NEW well, End(r, well)
    PROVE  inFlight' = 0 /\ \A q \in Run : run'[q].stage \in Waiting /\ Holds(q)'
<1>1. inFlight' = 0
    BY DEF End, Flight
<1>2. ASSUME NEW q \in Run PROVE run'[q].stage \in Waiting /\ Holds(q)'
    <2>1. CASE run'[q] = Idle
        BY <2>1 DEF Idle, Waiting, Holds, Early, NoneCounted
    <2>2. CASE run'[q] # Idle
        <3>1. run'[q] = run[q] /\ q # r
            BY <2>2 DEF End
        <3>2. run[q].stage \in Waiting /\ Holds(q)
            BY <3>1, OthersWait DEF CountInv, Reads
        <3> QED BY <3>1, <3>2 DEF Holds, NoneCounted
    <2> QED BY <2>1, <2>2
<1> QED BY <1>1, <1>2

\* The watermark covers the window already: nothing is done.
LEMMA ReadMarkStops ==
    ASSUME CountInv, ConsolidationTypeOK', NEW r \in Run, ReadMark(r), End(r, TRUE)
    PROVE  CountInv'
<1>1. run[r].stage = "mark" /\ run[r].stage \in Work
    BY DEF ReadMark, Work
<1>2. inFlight' = 0 /\ \A q \in Run : run'[q].stage \in Waiting /\ Holds(q)'
    BY <1>1, EndRests
<1>3. UNCHANGED <<ts, written, row, seq, mark, torn>>
    BY DEF ReadMark, store, history
<1>4. run[r].hits = {} /\ run[r].todo = {}
    BY <1>1 DEF CountInv, Reads, Holds, Early
<1>5. inFlight = r /\ Base = mark
    BY <1>1, OthersWait, BaseOfOne DEF CountInv
<1>6. ASSUME ~torn
      PROVE  /\ \A k \in Trace : row[k[2]][k[1]] # 0 => row[k[2]][k[1]] = 1 /\ Before(k)
             /\ \A c \in Cycle : seq[c] # 0 => seq[c] = 1 /\ Before(<<c, 1>>)
    <2>1. Counts
        BY <1>6 DEF CountInv
    <2>2. /\ \A k \in Trace : RowCounts(k, r)
          /\ \A c \in Cycle : SeqCount(c, r)
        BY <1>1, <2>1, CountsByOne DEF CountInv
    <2>3. \A k \in Trace : ~ByRun(r, k)
        BY <1>4 DEF ByRun
    <2>4. \A c \in Cycle : ~SeqByRun(r, c)
        BY <1>1 DEF SeqByRun
    <2> QED BY <2>2, <2>3, <2>4 DEF RowCounts, SeqCount
<1> QED BY <1>2, <1>3, <1>5, <1>6, NobodyAtWork DEF Before

\* The new watermark covers what was counted before and by this run.
LEMMA RemarkInv ==
    ASSUME CountInv, ConsolidationTypeOK', NEW r \in Run, Remark(r)
    PROVE  CountInv'
<1>1. run[r].stage = "remark" /\ run[r].stage \in Work /\ run[r] \in RunState
    BY DEF Remark, Work, CountInv, ConsolidationTypeOK
<1>2. inFlight' = 0 /\ \A q \in Run : run'[q].stage \in Waiting /\ Holds(q)'
    BY <1>1, EndRests DEF Remark
<1>3. UNCHANGED <<ts, written, row, seq, torn>> /\ mark' = run[r].until
    BY DEF Remark, history
<1>4. inFlight = r /\ Base = run[r].mark
    BY <1>1, OthersWait, BaseOfOne DEF CountInv
<1>5. Above(r)
    BY DEF CountInv, Reads
<1>6. \A k \in Trace : ts[k] \in Nat
    BY ConsolidationNumbers DEF CountInv, ConsolidationTypeOK
<1>7. run[r].until \in Nat /\ run[r].mark \in Nat
    BY <1>1, ConsolidationNumbers DEF RunState
<1>8. ASSUME NEW k \in Trace, Before(k) \/ k \in run[r].hits
      PROVE  k[1] \in written /\ ts[k] # 0 /\ ts[k] <= run[r].until
    <2>1. CASE k \in run[r].hits
        BY <1>5, <2>1 DEF Above
    <2>2. CASE Before(k)
        <3>1. k[1] \in written /\ ts[k] # 0 /\ ts[k] <= run[r].mark
            BY <1>4, <2>2 DEF Before
        <3>2. run[r].mark = 0 \/ run[r].until > run[r].mark
            BY <1>1, <1>5 DEF Above
        <3> QED BY <1>6, <1>7, <3>1, <3>2
    <2> QED BY <1>8, <2>1, <2>2
<1>9. ASSUME ~torn
      PROVE  /\ \A k \in Trace : row[k[2]][k[1]] # 0 =>
                    row[k[2]][k[1]] = 1 /\ k[1] \in written /\ ts[k] # 0 /\ ts[k] <= run[r].until
             /\ \A c \in Cycle : seq[c] # 0 =>
                    seq[c] = 1 /\ c \in written /\ ts[<<c, 1>>] # 0 /\ ts[<<c, 1>>] <= run[r].until
    <2>1. Counts
        BY <1>9 DEF CountInv
    <2>2. /\ \A k \in Trace : RowCounts(k, r)
          /\ \A c \in Cycle : SeqCount(c, r)
        BY <1>1, <2>1, CountsByOne DEF CountInv
    <2>3. ASSUME NEW c \in Cycle, SeqByRun(r, c) PROVE <<c, 1>> \in run[r].hits
        BY <2>3, TraceParts DEF SeqByRun, Sequences
    <2>4. ASSUME NEW k \in Trace, row[k[2]][k[1]] # 0
          PROVE  row[k[2]][k[1]] = 1 /\ k[1] \in written /\ ts[k] # 0 /\ ts[k] <= run[r].until
        BY <2>2, <2>4, <1>8 DEF RowCounts, ByRun
    <2>5. ASSUME NEW c \in Cycle, seq[c] # 0
          PROVE  seq[c] = 1 /\ c \in written /\ ts[<<c, 1>>] # 0 /\ ts[<<c, 1>>] <= run[r].until
        <3>1. <<c, 1>> \in Trace /\ <<c, 1>>[1] = c
            BY TraceParts
        <3>2. seq[c] = 1 /\ (Before(<<c, 1>>) \/ <<c, 1>> \in run[r].hits)
            BY <2>2, <2>3, <2>5 DEF SeqCount
        <3> QED BY <1>8, <3>1, <3>2
    <2> QED BY <2>4, <2>5
<1> QED BY <1>2, <1>3, <1>9, NobodyAtWork

\* A run that is cut off before its first row, with the old watermark in its
\* place, has counted nothing.
LEMMA UncountedRun ==
    ASSUME CountInv, Counts, NEW r \in Run, run[r].stage \in Work, ~Midway(r)
    PROVE  /\ \A k \in Trace : row[k[2]][k[1]] # 0 =>
                  row[k[2]][k[1]] = 1 /\ k[1] \in written /\ ts[k] # 0 /\ ts[k] <= mark
           /\ \A c \in Cycle : seq[c] # 0 =>
                  seq[c] = 1 /\ c \in written /\ ts[<<c, 1>>] # 0 /\ ts[<<c, 1>>] <= mark
<1>1. Holds(r) /\ Above(r)
    BY DEF CountInv, Reads
<1>2. run[r].todo = {k[2] : k \in run[r].hits} /\ run[r].stage # "remark"
    BY DEF Midway
<1>3. Base = mark
    BY <1>1, <1>2, OthersWait, BaseOfOne DEF CountInv, Above
<1>4. /\ \A k \in Trace : RowCounts(k, r)
      /\ \A c \in Cycle : SeqCount(c, r)
    BY CountsByOne DEF CountInv
<1>5. \A k \in Trace : ~ByRun(r, k)
    BY <1>2 DEF ByRun
<1>6. ASSUME NEW c \in Cycle PROVE ~SeqByRun(r, c)
    <2> SUFFICES ASSUME SeqByRun(r, c) PROVE FALSE
        OBVIOUS
    <2>1. run[r].stage = "unmark" /\ <<c, 1>> \in run[r].hits
        BY <1>2, TraceParts DEF SeqByRun, Sequences
    <2>2. run[r].todo = {}
        BY <1>1, <2>1 DEF Holds
    <2>3. <<c, 1>>[2] \in run[r].todo
        BY <1>2, <2>1
    <2> QED BY <2>2, <2>3
<1>7. \A c \in Cycle : <<c, 1>> \in Trace /\ <<c, 1>>[1] = c
    BY TraceParts
<1> QED BY <1>3, <1>4, <1>5, <1>6, <1>7 DEF RowCounts, SeqCount, Before

LEMMA FailInv ==
    ASSUME CountInv, ConsolidationTypeOK', NEW r \in Run, Fail(r)
    PROVE  CountInv'
<1>1. run[r].stage \in Work
    <2>1. run[r].stage \in Waiting \cup Work
        BY DEF CountInv, ConsolidationTypeOK, RunState
    <2> QED BY <2>1 DEF Fail, Waiting
<1>2. inFlight' = 0 /\ \A q \in Run : run'[q].stage \in Waiting /\ Holds(q)'
    BY <1>1, EndRests DEF Fail
<1>3. UNCHANGED <<ts, written, row, seq, mark>>
    BY DEF Fail, store
<1>4. ~torn' => ~torn /\ ~Midway(r)
    BY DEF Fail
<1>5. ~torn' => Counts
    BY <1>4 DEF CountInv
<1> QED BY <1>1, <1>2, <1>3, <1>4, <1>5, UncountedRun, NobodyAtWork

LEMMA ConsolidationCrashInv ==
    ASSUME CountInv, ConsolidationTypeOK', Crash
    PROVE  CountInv'
<1>1. inFlight' = 0 /\ \A q \in Run : run'[q].stage \in Waiting /\ Holds(q)'
    BY DEF Crash, Idle, Waiting, Holds, Early, NoneCounted
<1>2. UNCHANGED <<written, row, seq, mark>>
    BY DEF Crash, store
<1>3. \A k \in Trace : k[1] \in written => ts'[k] = ts[k]
    BY DEF Crash
<1>4. ~torn' => ~torn /\ \A q \in Run : ~Midway(q)
    BY DEF Crash
<1>5. ASSUME ~torn'
      PROVE  /\ \A k \in Trace : row[k[2]][k[1]] # 0 =>
                    row[k[2]][k[1]] = 1 /\ k[1] \in written /\ ts[k] # 0 /\ ts[k] <= mark
             /\ \A c \in Cycle : seq[c] # 0 =>
                    seq[c] = 1 /\ c \in written /\ ts[<<c, 1>>] # 0 /\ ts[<<c, 1>>] <= mark
    <2>1. Counts
        BY <1>4, <1>5 DEF CountInv
    <2>2. CASE \E r \in Run : run[r].stage \in Work
        BY <1>4, <1>5, <2>1, <2>2, UncountedRun
    <2>3. CASE \A r \in Run : run[r].stage \notin Work
        <3>1. \A q \in Run : run[q].stage \in Waiting
            BY <2>3 DEF CountInv, ConsolidationTypeOK, RunState
        <3>2. inFlight = 0
            <4>1. \A q \in Run : inFlight # q
                BY <2>3 DEF CountInv, OneAtWork
            <4> QED BY <4>1, ConsolidationNumbers DEF CountInv, ConsolidationTypeOK, Run
        <3>3. Base = mark
            BY <3>2 DEF Base
        <3>4. \A q \in Run : /\ \A k \in Trace : ~ByRun(q, k)
                             /\ \A c \in Cycle : ~SeqByRun(q, c)
            BY <3>1, WaitingReadsNothing DEF CountInv, Reads
        <3>5. \A c \in Cycle : <<c, 1>> \in Trace /\ <<c, 1>>[1] = c
            BY TraceParts
        <3> QED BY <2>1, <3>3, <3>4, <3>5 DEF Counts, RowsCount, SeqCounts, Before
    <2> QED BY <2>2, <2>3
<1>6. \A c \in Cycle : <<c, 1>> \in Trace /\ <<c, 1>>[1] = c
    BY TraceParts
<1> QED BY <1>1, <1>2, <1>3, <1>5, <1>6, NobodyAtWork

\* What happens beside the run at work: traces are stamped or written, and a
\* run asks, joins or starts.
LEMMA AsideKeeps ==
    ASSUME CountInv, ConsolidationTypeOK', OneAtWork', Base' = Base,
           UNCHANGED <<row, seq, mark, torn>>, written \subseteq written',
           \A k \in Trace : k[1] \in written => ts'[k] = ts[k],
           \A q \in Run : \/ run'[q] = run[q]
                          \/ /\ run[q].stage \in Waiting /\ run'[q].stage \in Waiting \cup {"mark"}
                             /\ run'[q].hits = run[q].hits /\ run'[q].todo = run[q].todo
                             /\ run'[q].prev = run[q].prev /\ run'[q].mark = run[q].mark
    PROVE  CountInv'
<1>1. \A k \in Trace : Before(k) => Before(k)'
    BY DEF Before
<1>2. ASSUME NEW q \in Run PROVE Holds(q)' /\ Above(q)'
    <2>1. Holds(q) /\ Above(q)
        BY DEF CountInv, Reads
    <2>2. run[q].hits \subseteq Trace
        BY DEF CountInv, ConsolidationTypeOK, RunState
    <2>3. CASE run'[q] = run[q]
        <3>1. Holds(q)'
            BY <2>1, <2>3 DEF Holds, NoneCounted
        <3>2. Above(q)'
            BY <2>1, <2>2, <2>3 DEF Above
        <3> QED BY <3>1, <3>2
    <2>4. CASE run'[q] # run[q]
        <3>1. /\ run[q].hits = {} /\ run[q].todo = {} /\ run[q].prev = NoneCounted
              /\ run'[q].stage \in Waiting \cup {"mark"} /\ run'[q].hits = {}
              /\ run'[q].todo = {} /\ run'[q].prev = NoneCounted
            BY <2>1, <2>4 DEF Holds, Early, Waiting
        <3>2. Holds(q)'
            BY <3>1 DEF Holds, Early, Waiting, NoneCounted
        <3> QED BY <3>1, <3>2 DEF Above, Waiting, Work
    <2> QED BY <2>3, <2>4
<1>3. ASSUME NEW q \in Run, NEW k \in Trace, ByRun(q, k) PROVE ByRun(q, k)'
    BY <1>3 DEF ByRun
<1>4. ASSUME NEW q \in Run, NEW c \in Cycle, SeqByRun(q, c) PROVE SeqByRun(q, c)'
    <2>1. run'[q] = run[q]
        BY <1>4 DEF SeqByRun, Waiting
    <2> QED BY <1>4, <2>1 DEF SeqByRun, Sequences
<1>5. \A c \in Cycle : <<c, 1>> \in Trace
    BY TraceParts
<1>6. ASSUME ~torn' PROVE Counts'
    <2>1. Counts
        BY <1>6 DEF CountInv
    <2>2. RowsCount'
        BY <2>1, <1>1, <1>3 DEF Counts, RowsCount
    <2>3. SeqCounts'
        BY <2>1, <1>1, <1>4, <1>5 DEF Counts, SeqCounts
    <2>4. ASSUME NEW q \in Run PROVE PrevCounts(q)'
        <3>1. CASE run'[q] = run[q]
            <4>1. run[q].stage \in {"delete", "insert"} => First(q) \in Tool
                BY FirstOfTodo DEF CountInv, Reads, Holds
            <4>2. \A c \in Cycle : run[q].stage \in {"delete", "insert"} => <<c, First(q)>> \in Trace
                BY <4>1, TraceParts
            <4>3. First(q)' = First(q)
                BY <3>1 DEF First
            <4>4. ASSUME NEW c \in Cycle, run[q].stage \in {"delete", "insert"}, Before(<<c, First(q)>>)
                  PROVE  Before(<<c, First(q)>>)'
                <5>1. PICK t \in Tool : t = First(q)
                    BY <4>1, <4>4
                <5>2. <<c, t>> \in Trace /\ Before(<<c, t>>)
                    BY <4>4, <5>1, TraceParts
                <5>3. Before(<<c, t>>)'
                    BY <1>1, <5>2
                <5> QED BY <4>3, <5>1, <5>3
            <4>5. PrevCounts(q)
                BY <2>1 DEF Counts
            <4> QED BY <3>1, <4>4, <4>5, <1>1, <1>5 DEF PrevCounts
        <3>2. CASE run'[q] # run[q]
            <4>1. run'[q].prev = NoneCounted
                BY <3>2 DEF CountInv, Reads, Holds, Waiting
            <4> QED BY <4>1 DEF PrevCounts, NoneCounted
        <3> QED BY <3>1, <3>2
    <2> QED BY <2>2, <2>3, <2>4 DEF Counts
<1> QED BY <1>2, <1>6 DEF CountInv, Reads

\* The runs as they were, but for one that waits.
Waits(r, stages) ==
    /\ run[r].stage \in Waiting /\ run'[r].stage \in stages
    /\ run'[r].hits = run[r].hits /\ run'[r].todo = run[r].todo
    /\ run'[r].prev = run[r].prev /\ run'[r].mark = run[r].mark
    /\ \A q \in Run \ {r} : run'[q] = run[q]

LEMMA WaitingKeeps ==
    ASSUME CountInv, NEW r \in Run, Waits(r, Waiting), inFlight' = inFlight, mark' = mark
    PROVE  OneAtWork' /\ Base' = Base
<1>1. run[r].stage \notin Work /\ run'[r].stage \notin Work
    BY DEF Waits, Waiting, Work
<1>2. inFlight # r
    BY <1>1 DEF CountInv, OneAtWork
<1>3. OneAtWork'
    BY <1>1 DEF CountInv, OneAtWork, Waits
<1>4. Base' = Base
    <2>1. CASE inFlight = 0
        BY <2>1 DEF Base
    <2>2. CASE inFlight # 0
        <3>1. inFlight \in Run \ {r}
            BY <1>2, <2>2, ConsolidationNumbers DEF CountInv, ConsolidationTypeOK, Run
        <3>2. run'[inFlight] = run[inFlight]
            BY <3>1 DEF Waits
        <3> QED BY <3>2 DEF Base
    <2> QED BY <2>1, <2>2
<1> QED BY <1>3, <1>4

LEMMA AskedWaits ==
    ASSUME ConsolidationTypeOK, NEW r \in Run, Asked(r)
    PROVE  Waits(r, Waiting)
<1>1. run[r] \in RunState /\ run[r].stage = "idle" /\ run' = [run EXCEPT ![r].stage = "ask"]
    BY DEF ConsolidationTypeOK, Asked
<1> QED BY <1>1 DEF ConsolidationTypeOK, RunState, Waits, Waiting

LEMMA JoinInv ==
    ASSUME CountInv, ConsolidationTypeOK', NEW r \in Run, Join(r)
    PROVE  CountInv'
<1>1. run[r] \in RunState /\ run[r].stage = "ask" /\ run' = [run EXCEPT ![r].stage = "joined"]
    BY DEF CountInv, ConsolidationTypeOK, Join
<1>2. Waits(r, Waiting)
    BY <1>1 DEF CountInv, ConsolidationTypeOK, RunState, Waits, Waiting
<1>3. UNCHANGED <<ts, written, row, seq, mark, torn, inFlight>>
    BY DEF Join, store, history
<1> QED BY <1>2, <1>3, WaitingKeeps, AsideKeeps DEF Waits

\* A run starts only when none is in flight.
LEMMA StartInv ==
    ASSUME CountInv, ConsolidationTypeOK', NEW r \in Run, Start(r)
    PROVE  CountInv'
<1>1. /\ run[r] \in RunState /\ run[r].stage = "ask" /\ inFlight = 0 /\ inFlight' = r
      /\ run' = [run EXCEPT ![r].stage = "mark", ![r].until = Until]
    BY DEF CountInv, ConsolidationTypeOK, Start, Busy
<1>2. Waits(r, {"mark"})
    BY <1>1 DEF CountInv, ConsolidationTypeOK, RunState, Waits, Waiting
<1>3. UNCHANGED <<ts, written, row, seq, mark, torn>>
    BY DEF Start, store, history
<1>4. OneAtWork'
    <2>1. r # 0 /\ \A q \in Run : q # 0
        BY ConsolidationNumbers DEF Run
    <2>2. \A q \in Run \ {r} : run'[q].stage \notin Work
        BY <1>1, <1>2, <2>1 DEF CountInv, OneAtWork, Waits
    <2>3. run'[r].stage \in Work
        BY <1>2 DEF Waits, Work
    <2> QED BY <1>1, <2>2, <2>3 DEF OneAtWork
<1>5. Base' = Base
    <2>1. run'[r].stage = "mark"
        BY <1>2 DEF Waits
    <2> QED BY <1>1, <1>3, <2>1 DEF Base
<1> QED BY <1>2, <1>3, <1>4, <1>5, AsideKeeps DEF Waits

-----------------------------------------------------------------------------

LEMMA ConsolidationStepInv ==
    ASSUME CountInv, ConsolidationTypeOK', NEW r \in Run, Step(r)
    PROVE  CountInv'
<1>1. CASE ReadMark(r)
    <2>1. CASE mark # 0 /\ run[r].until <= mark
        BY <1>1, <2>1, ReadMarkStops DEF ReadMark
    <2>2. CASE ~(mark # 0 /\ run[r].until <= mark)
        <3>1. mark \in Nat /\ run[r].until \in Nat
            BY ConsolidationNumbers DEF CountInv, ConsolidationTypeOK, RunState
        <3>2. mark = 0 \/ run[r].until > mark
            BY <2>2, <3>1
        <3> QED BY <1>1, <2>2, <3>2, ReadMarkGoesOn DEF ReadMark
    <2> QED BY <2>1, <2>2
<1> QED BY <1>1, JoinInv, StartInv, ReadTracesInv, ReadRowInv, DeleteRowInv, InsertRowInv,
           ReadSequenceInv, TakeSequenceInv, PutSequenceInv, UnmarkInv, RemarkInv DEF Step

LEMMA ConsolidationNextInv ==
    ASSUME CountInv, [ConsolidationNext]_consolidationVars
    PROVE  CountInv'
<1>0. ConsolidationTypeOK /\ ConsolidationTypeOK'
    BY ConsolidationTypedStep DEF CountInv
<1>1. ASSUME run' = run, UNCHANGED <<row, seq, mark, torn, inFlight>>, written \subseteq written',
             \A k \in Trace : k[1] \in written => ts'[k] = ts[k]
      PROVE  CountInv'
    <2>1. OneAtWork' /\ Base' = Base
        BY <1>1 DEF CountInv, OneAtWork, Base
    <2> QED BY <1>0, <1>1, <2>1, AsideKeeps
<1>2. CASE UNCHANGED consolidationVars
    BY <1>1, <1>2 DEF consolidationVars, store, history
<1>3. CASE Tick
    BY <1>1, <1>3 DEF Tick, store, history
<1>4. CASE Crash
    BY <1>0, <1>4, ConsolidationCrashInv
<1>5. ASSUME NEW c \in Cycle, NEW t \in Tool, CallTool(c, t) PROVE CountInv'
    <2>1. \A k \in Trace : k[1] \in written => ts'[k] = ts[k]
        BY <1>0, <1>5 DEF CallTool, ConsolidationTypeOK
    <2> QED BY <1>1, <1>5, <2>1 DEF CallTool, store, history
<1>6. ASSUME NEW c \in Cycle, Write(c) PROVE CountInv'
    <2>1. UNCHANGED <<ts, row, seq, mark, torn, inFlight>> /\ written \subseteq written'
        BY <1>6 DEF Write
    <2>2. CASE run' = run
        BY <1>1, <2>1, <2>2
    <2>3. CASE \E r \in Run : Asked(r)
        <3>1. PICK r \in Run : Asked(r)
            BY <2>3
        <3>2. Waits(r, Waiting)
            BY <1>0, <3>1, AskedWaits
        <3> QED BY <1>0, <2>1, <3>2, WaitingKeeps, AsideKeeps DEF Waits
    <2> QED BY <1>6, <2>2, <2>3 DEF Write
<1>7. ASSUME NEW r \in Run, Ask(r) PROVE CountInv'
    <2>1. Waits(r, Waiting)
        BY <1>0, <1>7, AskedWaits DEF Ask
    <2>2. UNCHANGED <<ts, written, row, seq, mark, torn, inFlight>>
        BY <1>7 DEF Ask, store, history
    <2> QED BY <1>0, <2>1, <2>2, WaitingKeeps, AsideKeeps DEF Waits
<1>8. ASSUME NEW r \in Run, Step(r) PROVE CountInv'
    BY <1>0, <1>8, ConsolidationStepInv
<1>9. ASSUME NEW r \in Run, Fail(r) PROVE CountInv'
    BY <1>0, <1>9, FailInv
<1> QED BY <1>2, <1>3, <1>4, <1>5, <1>6, <1>7, <1>8, <1>9 DEF ConsolidationNext

LEMMA ConsolidationInitInv == ConsolidationInit => CountInv
<1> SUFFICES ASSUME ConsolidationInit PROVE CountInv
    OBVIOUS
<1>1. ConsolidationTypeOK
    BY ConsolidationTypedInit
<1>2. /\ inFlight = 0 /\ \A r \in Run : run[r] = Idle
      /\ \A k \in Trace : row[k[2]][k[1]] = 0
      /\ \A c \in Cycle : seq[c] = 0
    BY TraceParts DEF ConsolidationInit, NoneCounted
<1>3. OneAtWork
    BY <1>2, ConsolidationNumbers DEF OneAtWork, Run, Idle, Work
<1>4. ASSUME NEW r \in Run PROVE Holds(r) /\ run[r].stage \in Waiting
    BY <1>2 DEF Idle, Holds, Early, Waiting, NoneCounted
<1>5. \A r \in Run : Above(r) /\ PrevCounts(r)
    BY <1>4, WaitingReadsNothing
<1>6. RowsCount /\ SeqCounts
    BY <1>2 DEF RowsCount, SeqCounts
<1> QED BY <1>1, <1>3, <1>4, <1>5, <1>6 DEF CountInv, Reads, Counts

\* Types: the clock, the counters, the rows and the runs of the consolidation
\* keep their ranges.
THEOREM ConsolidationTypeCorrect == ConsolidationSpec => []ConsolidationTypeOK
<1>1. ConsolidationInit => ConsolidationTypeOK
    BY ConsolidationTypedInit
<1>2. ConsolidationTypeOK /\ [ConsolidationNext]_consolidationVars => ConsolidationTypeOK'
    BY ConsolidationTypedStep
<1> QED BY <1>1, <1>2, PTL DEF ConsolidationSpec

\* Whoever asks for consolidations, and however often, a trace is counted once
\* by its skill and a cycle once by the sequence, as long as no run is cut off
\* between its first row and its watermark (consolidateIncremental).
THEOREM TracesAreCountedOnce == ConsolidationSpec => []CountedOnce
<1>1. CountInv => CountedOnce
    <2> SUFFICES ASSUME CountInv, ~torn, NEW c \in Cycle
                 PROVE  seq[c] <= 1 /\ \A t \in Tool : row[t][c] <= 1
        BY DEF CountedOnce
    <2>1. seq[c] = 0 \/ seq[c] = 1
        BY DEF CountInv, Counts, SeqCounts
    <2>2. ASSUME NEW t \in Tool PROVE row[t][c] = 0 \/ row[t][c] = 1
        <3>1. <<c, t>> \in Trace
            BY TraceParts
        <3> QED BY <3>1 DEF CountInv, Counts, RowsCount
    <2> QED BY <2>1, <2>2
<1>2. CountInv /\ [ConsolidationNext]_consolidationVars => CountInv'
    BY ConsolidationNextInv
<1> QED BY <1>1, <1>2, ConsolidationInitInv, PTL DEF ConsolidationSpec

-----------------------------------------------------------------------------
(***************************************************************************)
(* BeliefRevision: the inductive invariant says where each claim stands in *)
(* the life of its chain: a claim exists only when its chain is done, so a *)
(* chain that still retires others is itself invisible to them; and what a *)
(* chain has begun on a claim it has not finished.  InOrder adds what holds *)
(* as long as requests come one after another.                             *)
(***************************************************************************)

Retiring   == {"supersede", "unassert", "recheck", "withdraw", "record"}
Retracting == {"retractClaims", "rebuildRead", "rebuildClear", "rebuildFill"}

\* A claim is stored in the last step of its chain.
ClaimedAtEnd == \A p \in Chain : status[p] # "none" => pc[p] = "done"

\* Chains retire claims that exist, and know when the triple is gone already.
TargetsExist ==
    \A p \in Chain :
        /\ \A q \in todo[p] : status[q] # "none"
        /\ pc[p] \in Retiring =>
             /\ current[p] \in Chain
             /\ status[current[p]] # "none"
        /\ pc[p] = "supersede" /\ ~answer[p] => status[current[p]] = "deleted"

\* The forward link comes and goes with the status "superseded".
Linked == \A q \in Chain : by[q] \in Chain <=> status[q] = "superseded"

\* A successor that is not done is still on its way to the Conflict record.
AuditUnderWay ==
    \A q \in Chain : status[q] = "superseded" =>
        \/ <<q, by[q]>> \in conflicts
        \/ pc[by[q]] \in Retiring \ {"supersede"} /\ current[by[q]] = q
        \/ pc[by[q]] = "failed"

KindFits ==
    \A p \in Chain :
        /\ pc[p] = "idle" => kind[p] = "store"
        /\ pc[p] \in Retracting => kind[p] = "retract"

\* A triple with an accepted claim, or with a chain at work on it.
Covered(v) ==
    \/ \E q \in Chain : status[q] = "accepted" /\ v \in value[q]
    \/ \E p \in Chain : pc[p] \in {"insertInferred", "claim"} /\ v \in value[p]
    \/ \E p \in Chain : pc[p] = "unassert" /\ v \in value[current[p]]

IInv ==
    /\ TypeOK /\ ClaimedAtEnd /\ TargetsExist /\ Linked
    /\ AuditUnderWay /\ KindFits /\ AcyclicHistory /\ EveryTripleIsClaimed

USE DEF Ended, Stages, Retiring, Retracting, beliefs, requests, Goto, Fault, AllFaults, AllKinds

-----------------------------------------------------------------------------

\* A step keeps the types; the claims a chain retires are claims.
LEMMA TypeStep == TypeOK /\ TargetsExist /\ [Next]_vars => TypeOK'
<1> SUFFICES ASSUME TypeOK, TargetsExist, [Next]_vars PROVE TypeOK'
  OBVIOUS
<1> USE DEF TypeOK
<1>1. CASE UNCHANGED vars
  BY <1>1 DEF vars
<1>2. ASSUME NEW p \in Chain, NEW v \in Value, Store(p, v) PROVE TypeOK'
  <2>1. pc' \in [Chain -> Stages]
    BY <1>2 DEF Store, Begin
  <2>2. faults' \in SUBSET AllFaults
    BY <1>2 DEF Store, Begin
  <2>3. QED BY <1>2, <2>1, <2>2 DEF Store, Begin
<1>3. ASSUME NEW p \in Chain, NEW v \in Value, Promote(p, v) PROVE TypeOK'
  BY <1>3 DEF Promote, Begin
<1>4. ASSUME NEW p \in Chain, PromoteUnlessClaimed(p) PROVE TypeOK'
  BY <1>4 DEF PromoteUnlessClaimed
<1>5. ASSUME NEW p \in Chain, PromoteUnlessCompeting(p) PROVE TypeOK'
  <2>1. pc' \in [Chain -> Stages]
    BY <1>5 DEF PromoteUnlessCompeting
  <2>2. faults' \in SUBSET AllFaults
    BY <1>5 DEF PromoteUnlessCompeting
  <2>3. QED BY <1>5, <2>1, <2>2 DEF PromoteUnlessCompeting
<1>6. ASSUME NEW p \in Chain, FindConflicting(p) PROVE TypeOK'
  <2>1. pc' \in [Chain -> Stages]
    BY <1>6 DEF FindConflicting, Competing
  <2>2. faults' \in SUBSET AllFaults
    <3>1. faults' = faults \/ faults' = faults \cup {"lookup"}
      BY <1>6 DEF FindConflicting
    <3>2. QED BY <3>1
  <2>3. todo' \in [Chain -> SUBSET Chain]
    BY <1>6 DEF FindConflicting, Competing
  <2>4. QED BY <1>6, <2>1, <2>2, <2>3 DEF FindConflicting, Competing
<1>7. ASSUME NEW p \in Chain, ReadClaim(p) PROVE TypeOK'
  <2>1. pc' \in [Chain -> Stages]
    BY <1>7 DEF ReadClaim
  <2>2. faults' \in SUBSET AllFaults
    BY <1>7 DEF ReadClaim
  <2>3. todo' \in [Chain -> SUBSET Chain]
    BY <1>7 DEF ReadClaim
  <2>4. current' \in [Chain -> Chain \cup {NoChain}]
    BY <1>7 DEF ReadClaim
  <2>5. answer' \in [Chain -> BOOLEAN]
    BY <1>7 DEF ReadClaim
  <2>6. UNCHANGED <<asserted, status, by, conflicts, inferred, pending, kind, value, overlapped>>
    BY <1>7 DEF ReadClaim
  <2>7. QED BY <2>1, <2>2, <2>3, <2>4, <2>5, <2>6
<1>8. ASSUME NEW p \in Chain, Supersede(p) PROVE TypeOK'
  BY <1>8 DEF Supersede
<1>9. ASSUME NEW p \in Chain, Unassert(p) PROVE TypeOK'
  BY <1>9 DEF Unassert
<1>10. ASSUME NEW p \in Chain, Recheck(p) PROVE TypeOK'
  <2>1. pc' \in [Chain -> Stages]
    BY <1>10 DEF Recheck, Caused, Entailed, TargetsExist
  <2>2. faults' \in SUBSET AllFaults
    BY <1>10 DEF Recheck, Caused, Entailed, TargetsExist
  <2>3. pending' \in SUBSET Chain
    BY <1>10 DEF Recheck, Caused, Entailed, TargetsExist
  <2>4. answer' \in [Chain -> BOOLEAN]
    BY <1>10 DEF Recheck, Caused, Entailed, TargetsExist
  <2>5. QED BY <1>10, <2>1, <2>2, <2>3, <2>4 DEF Recheck, Caused, Entailed, TargetsExist
<1>11. ASSUME NEW p \in Chain, Withdraw(p) PROVE TypeOK'
  <2>1. faults' \in SUBSET AllFaults
    BY <1>11 DEF Withdraw, TargetsExist
  <2>2. pending' = pending \/ pending' = pending \cup {current[p]}
    BY Zenon, <1>11 DEF Withdraw
  <2>3. pending' \in SUBSET Chain
    <3>1. current[p] \in Chain
      BY <1>11 DEF Withdraw, TargetsExist
    <3>2. QED BY <2>2, <3>1
  <2>4. inferred' \in BOOLEAN
    BY Zenon, <1>11 DEF Withdraw
  <2>5. QED BY <1>11, <2>1, <2>3, <2>4 DEF Withdraw, TargetsExist
<1>12. ASSUME NEW p \in Chain, Record(p) PROVE TypeOK'
  <2>1. pc' \in [Chain -> Stages]
    BY <1>12 DEF Record, TargetsExist
  <2>2. conflicts' \in SUBSET (Chain \X Chain)
    BY <1>12 DEF Record, TargetsExist
  <2>3. QED BY <1>12, <2>1, <2>2 DEF Record, TargetsExist
<1>13. ASSUME NEW p \in Chain, Materialize(p) PROVE TypeOK'
  BY <1>13 DEF Materialize, Caused, Entailed
<1>14. ASSUME NEW p \in Chain, Insert(p) PROVE TypeOK'
  BY <1>14 DEF Insert
<1>15. ASSUME NEW p \in Chain, InsertInferred(p) PROVE TypeOK'
  BY <1>15 DEF InsertInferred
<1>16. ASSUME NEW p \in Chain, CreateClaim(p) PROVE TypeOK'
  BY <1>16 DEF CreateClaim
<1>17. ASSUME NEW p \in Chain, NEW facts \in {{v} : v \in Value} \cup {Value}, Retract(p, facts) PROVE TypeOK'
  <2>1. facts \subseteq Value
    OBVIOUS
  <2>2. QED BY <1>17, <2>1 DEF Retract, Begin
<1>18. ASSUME NEW p \in Chain, RetractClaims(p) PROVE TypeOK'
  BY <1>18 DEF RetractClaims
<1>19. ASSUME NEW p \in Chain, RebuildRead(p) PROVE TypeOK'
  BY <1>19 DEF RebuildRead, Entailed
<1>20. ASSUME NEW p \in Chain, RebuildClear(p) PROVE TypeOK'
  BY <1>20 DEF RebuildClear
<1>21. ASSUME NEW p \in Chain, RebuildFill(p) PROVE TypeOK'
  BY <1>21 DEF RebuildFill
<1>22. ASSUME NEW p \in Chain, ChainFails(p) PROVE TypeOK'
  BY <1>22, ConstantsAssumption DEF ChainFails
<1>23. QED
  BY <1>1, <1>2, <1>3, <1>4, <1>5, <1>6, <1>7, <1>8, <1>9, <1>10, <1>11,
     <1>12, <1>13, <1>14, <1>15, <1>16, <1>17, <1>18, <1>19, <1>20, <1>21, <1>22 DEF Next, Commit

\* A step gives a claim only to a chain that is done with it.
LEMMA ClaimStep == TypeOK /\ ClaimedAtEnd /\ TargetsExist /\ [Next]_vars => ClaimedAtEnd'
<1> SUFFICES ASSUME TypeOK, ClaimedAtEnd, TargetsExist, [Next]_vars PROVE ClaimedAtEnd'
  OBVIOUS
<1> USE DEF TypeOK, ClaimedAtEnd, TargetsExist
<1>1. CASE UNCHANGED vars
  BY <1>1 DEF vars
<1>2. ASSUME NEW p \in Chain, NEW v \in Value, Store(p, v) PROVE ClaimedAtEnd'
  BY <1>2 DEF Store, Begin
<1>3. ASSUME NEW p \in Chain, NEW v \in Value, Promote(p, v) PROVE ClaimedAtEnd'
  BY <1>3 DEF Promote, Begin
<1>4. ASSUME NEW p \in Chain, PromoteUnlessClaimed(p) PROVE ClaimedAtEnd'
  BY <1>4 DEF PromoteUnlessClaimed
<1>5. ASSUME NEW p \in Chain, PromoteUnlessCompeting(p) PROVE ClaimedAtEnd'
  BY <1>5 DEF PromoteUnlessCompeting
<1>6. ASSUME NEW p \in Chain, FindConflicting(p) PROVE ClaimedAtEnd'
  BY <1>6 DEF FindConflicting, Competing
<1>7. ASSUME NEW p \in Chain, ReadClaim(p) PROVE ClaimedAtEnd'
  BY <1>7 DEF ReadClaim
<1>8. ASSUME NEW p \in Chain, Supersede(p) PROVE ClaimedAtEnd'
  BY <1>8 DEF Supersede
<1>9. ASSUME NEW p \in Chain, Unassert(p) PROVE ClaimedAtEnd'
  BY <1>9 DEF Unassert
<1>10. ASSUME NEW p \in Chain, Recheck(p) PROVE ClaimedAtEnd'
  BY <1>10 DEF Recheck
<1>11. ASSUME NEW p \in Chain, Withdraw(p) PROVE ClaimedAtEnd'
  BY <1>11 DEF Withdraw
<1>12. ASSUME NEW p \in Chain, Record(p) PROVE ClaimedAtEnd'
  BY <1>12 DEF Record
<1>13. ASSUME NEW p \in Chain, Materialize(p) PROVE ClaimedAtEnd'
  BY <1>13 DEF Materialize
<1>14. ASSUME NEW p \in Chain, Insert(p) PROVE ClaimedAtEnd'
  BY <1>14 DEF Insert
<1>15. ASSUME NEW p \in Chain, InsertInferred(p) PROVE ClaimedAtEnd'
  BY <1>15 DEF InsertInferred
<1>16. ASSUME NEW p \in Chain, CreateClaim(p) PROVE ClaimedAtEnd'
  BY <1>16 DEF CreateClaim
<1>17. ASSUME NEW p \in Chain, NEW facts \in {{v} : v \in Value} \cup {Value}, Retract(p, facts) PROVE ClaimedAtEnd'
  BY <1>17 DEF Retract, Begin
<1>18. ASSUME NEW p \in Chain, RetractClaims(p) PROVE ClaimedAtEnd'
  BY <1>18 DEF RetractClaims
<1>19. ASSUME NEW p \in Chain, RebuildRead(p) PROVE ClaimedAtEnd'
  BY <1>19 DEF RebuildRead
<1>20. ASSUME NEW p \in Chain, RebuildClear(p) PROVE ClaimedAtEnd'
  BY <1>20 DEF RebuildClear
<1>21. ASSUME NEW p \in Chain, RebuildFill(p) PROVE ClaimedAtEnd'
  BY <1>21 DEF RebuildFill
<1>22. ASSUME NEW p \in Chain, ChainFails(p) PROVE ClaimedAtEnd'
  BY <1>22 DEF ChainFails
<1>23. QED
  BY <1>1, <1>2, <1>3, <1>4, <1>5, <1>6, <1>7, <1>8, <1>9, <1>10, <1>11,
     <1>12, <1>13, <1>14, <1>15, <1>16, <1>17, <1>18, <1>19, <1>20, <1>21, <1>22 DEF Next, Commit

\* A step leaves every chain at work on claims that exist.
LEMMA TargetStep == TypeOK /\ ClaimedAtEnd /\ TargetsExist /\ [Next]_vars => TargetsExist'
<1> SUFFICES ASSUME TypeOK, ClaimedAtEnd, TargetsExist, [Next]_vars PROVE TargetsExist'
  OBVIOUS
<1> USE DEF TypeOK, ClaimedAtEnd, TargetsExist
<1>1. CASE UNCHANGED vars
  BY <1>1 DEF vars
<1>2. ASSUME NEW p \in Chain, NEW v \in Value, Store(p, v) PROVE TargetsExist'
  BY <1>2 DEF Store, Begin
<1>3. ASSUME NEW p \in Chain, NEW v \in Value, Promote(p, v) PROVE TargetsExist'
  BY <1>3 DEF Promote, Begin
<1>4. ASSUME NEW p \in Chain, PromoteUnlessClaimed(p) PROVE TargetsExist'
  BY <1>4 DEF PromoteUnlessClaimed
<1>5. ASSUME NEW p \in Chain, PromoteUnlessCompeting(p) PROVE TargetsExist'
  BY <1>5 DEF PromoteUnlessCompeting
<1>6. ASSUME NEW p \in Chain, FindConflicting(p) PROVE TargetsExist'
  BY <1>6 DEF FindConflicting, Competing
<1>7. ASSUME NEW p \in Chain, ReadClaim(p) PROVE TargetsExist'
  <2>1. PICK q \in todo[p] :
          \/ /\ current' = [current EXCEPT ![p] = q]
             /\ answer' = [answer EXCEPT ![p] = status[q] # "deleted"]
             /\ pc' = [pc EXCEPT ![p] = "supersede"]
             /\ UNCHANGED todo
          \/ /\ todo' = [todo EXCEPT ![p] = @ \ {q}]
             /\ pc' = [pc EXCEPT ![p] = IF todo[p] = {q} THEN "materialize" ELSE "retire"]
             /\ UNCHANGED <<current, answer>>
    BY <1>7 DEF ReadClaim
  <2>2. UNCHANGED status /\ q \in Chain /\ status[q] # "none"
    BY <1>7, <2>1 DEF ReadClaim
  <2>3. CASE current' = [current EXCEPT ![p] = q] /\ answer' = [answer EXCEPT ![p] = status[q] # "deleted"]
             /\ pc' = [pc EXCEPT ![p] = "supersede"] /\ UNCHANGED todo
    <3>1. current'[p] = q /\ pc'[p] = "supersede" /\ (~answer'[p] => status[q] = "deleted")
      BY ZenonT(40), <2>3
    <3>2. \A r \in Chain \ {p} : current'[r] = current[r] /\ pc'[r] = pc[r] /\ answer'[r] = answer[r]
      <4>1. \A r \in Chain \ {p} : current'[r] = current[r]
        BY <2>3
      <4>2. \A r \in Chain \ {p} : pc'[r] = pc[r]
        BY <2>3
      <4>3. \A r \in Chain \ {p} : answer'[r] = answer[r]
        BY <2>3
      <4>4. QED BY <4>1, <4>2, <4>3
    <3>3. ASSUME NEW r \in Chain
          PROVE  /\ \A c \in todo'[r] : status'[c] # "none"
                 /\ pc'[r] \in Retiring => current'[r] \in Chain /\ status'[current'[r]] # "none"
                 /\ pc'[r] = "supersede" /\ ~answer'[r] => status'[current'[r]] = "deleted"
      BY <2>2, <2>3, <3>1, <3>2
    <3>4. QED BY <3>3
  <2>4. CASE todo' = [todo EXCEPT ![p] = @ \ {q}] /\ UNCHANGED <<current, answer>>
             /\ pc' = [pc EXCEPT ![p] = IF todo[p] = {q} THEN "materialize" ELSE "retire"]
    <3>1. pc'[p] \in {"materialize", "retire"} /\ \A r \in Chain \ {p} : pc'[r] = pc[r]
      BY <2>4
    <3>2. QED BY <2>2, <2>4, <3>1
  <2>5. QED BY <2>1, <2>3, <2>4
<1>8. ASSUME NEW p \in Chain, Supersede(p) PROVE TargetsExist'
  BY <1>8 DEF Supersede
<1>9. ASSUME NEW p \in Chain, Unassert(p) PROVE TargetsExist'
  BY <1>9 DEF Unassert
<1>10. ASSUME NEW p \in Chain, Recheck(p) PROVE TargetsExist'
  BY <1>10 DEF Recheck
<1>11. ASSUME NEW p \in Chain, Withdraw(p) PROVE TargetsExist'
  BY <1>11 DEF Withdraw
<1>12. ASSUME NEW p \in Chain, Record(p) PROVE TargetsExist'
  BY <1>12 DEF Record
<1>13. ASSUME NEW p \in Chain, Materialize(p) PROVE TargetsExist'
  BY <1>13 DEF Materialize
<1>14. ASSUME NEW p \in Chain, Insert(p) PROVE TargetsExist'
  BY <1>14 DEF Insert
<1>15. ASSUME NEW p \in Chain, InsertInferred(p) PROVE TargetsExist'
  BY <1>15 DEF InsertInferred
<1>16. ASSUME NEW p \in Chain, CreateClaim(p) PROVE TargetsExist'
  BY <1>16 DEF CreateClaim
<1>17. ASSUME NEW p \in Chain, NEW facts \in {{v} : v \in Value} \cup {Value}, Retract(p, facts) PROVE TargetsExist'
  BY <1>17 DEF Retract, Begin
<1>18. ASSUME NEW p \in Chain, RetractClaims(p) PROVE TargetsExist'
  BY <1>18 DEF RetractClaims
<1>19. ASSUME NEW p \in Chain, RebuildRead(p) PROVE TargetsExist'
  BY <1>19 DEF RebuildRead
<1>20. ASSUME NEW p \in Chain, RebuildClear(p) PROVE TargetsExist'
  BY <1>20 DEF RebuildClear
<1>21. ASSUME NEW p \in Chain, RebuildFill(p) PROVE TargetsExist'
  BY <1>21 DEF RebuildFill
<1>22. ASSUME NEW p \in Chain, ChainFails(p) PROVE TargetsExist'
  BY <1>22 DEF ChainFails
<1>23. QED
  BY <1>1, <1>2, <1>3, <1>4, <1>5, <1>6, <1>7, <1>8, <1>9, <1>10, <1>11,
     <1>12, <1>13, <1>14, <1>15, <1>16, <1>17, <1>18, <1>19, <1>20, <1>21, <1>22 DEF Next, Commit

\* A step sets or removes the forward link together with the status "superseded".
LEMMA LinkStep == TypeOK /\ ClaimedAtEnd /\ TargetsExist /\ Linked /\ [Next]_vars => Linked'
<1> SUFFICES ASSUME TypeOK, ClaimedAtEnd, TargetsExist, Linked, [Next]_vars PROVE Linked'
  OBVIOUS
<1> USE DEF TypeOK, ClaimedAtEnd, TargetsExist, Linked
<1>1. CASE UNCHANGED vars
  BY <1>1 DEF vars
<1>2. ASSUME NEW p \in Chain, NEW v \in Value, Store(p, v) PROVE Linked'
  BY <1>2 DEF Store, Begin
<1>3. ASSUME NEW p \in Chain, NEW v \in Value, Promote(p, v) PROVE Linked'
  BY <1>3 DEF Promote, Begin
<1>4. ASSUME NEW p \in Chain, PromoteUnlessClaimed(p) PROVE Linked'
  BY <1>4 DEF PromoteUnlessClaimed
<1>5. ASSUME NEW p \in Chain, PromoteUnlessCompeting(p) PROVE Linked'
  BY <1>5 DEF PromoteUnlessCompeting
<1>6. ASSUME NEW p \in Chain, FindConflicting(p) PROVE Linked'
  BY <1>6 DEF FindConflicting, Competing
<1>7. ASSUME NEW p \in Chain, ReadClaim(p) PROVE Linked'
  BY <1>7 DEF ReadClaim
<1>8. ASSUME NEW p \in Chain, Supersede(p) PROVE Linked'
  BY <1>8 DEF Supersede
<1>9. ASSUME NEW p \in Chain, Unassert(p) PROVE Linked'
  BY <1>9 DEF Unassert
<1>10. ASSUME NEW p \in Chain, Recheck(p) PROVE Linked'
  BY <1>10 DEF Recheck
<1>11. ASSUME NEW p \in Chain, Withdraw(p) PROVE Linked'
  BY <1>11 DEF Withdraw
<1>12. ASSUME NEW p \in Chain, Record(p) PROVE Linked'
  BY <1>12 DEF Record
<1>13. ASSUME NEW p \in Chain, Materialize(p) PROVE Linked'
  BY <1>13 DEF Materialize
<1>14. ASSUME NEW p \in Chain, Insert(p) PROVE Linked'
  BY <1>14 DEF Insert
<1>15. ASSUME NEW p \in Chain, InsertInferred(p) PROVE Linked'
  BY <1>15 DEF InsertInferred
<1>16. ASSUME NEW p \in Chain, CreateClaim(p) PROVE Linked'
  BY <1>16 DEF CreateClaim
<1>17. ASSUME NEW p \in Chain, NEW facts \in {{v} : v \in Value} \cup {Value}, Retract(p, facts) PROVE Linked'
  BY <1>17 DEF Retract, Begin
<1>18. ASSUME NEW p \in Chain, RetractClaims(p) PROVE Linked'
  BY <1>18 DEF RetractClaims
<1>19. ASSUME NEW p \in Chain, RebuildRead(p) PROVE Linked'
  BY <1>19 DEF RebuildRead
<1>20. ASSUME NEW p \in Chain, RebuildClear(p) PROVE Linked'
  BY <1>20 DEF RebuildClear
<1>21. ASSUME NEW p \in Chain, RebuildFill(p) PROVE Linked'
  BY <1>21 DEF RebuildFill
<1>22. ASSUME NEW p \in Chain, ChainFails(p) PROVE Linked'
  BY <1>22 DEF ChainFails
<1>23. QED
  BY <1>1, <1>2, <1>3, <1>4, <1>5, <1>6, <1>7, <1>8, <1>9, <1>10, <1>11,
     <1>12, <1>13, <1>14, <1>15, <1>16, <1>17, <1>18, <1>19, <1>20, <1>21, <1>22 DEF Next, Commit

\* A step that supersedes a claim keeps its chain on the way to the Conflict record.
LEMMA AuditStep == TypeOK /\ ClaimedAtEnd /\ TargetsExist /\ Linked /\ AuditUnderWay /\ [Next]_vars => AuditUnderWay'
<1> SUFFICES ASSUME TypeOK, ClaimedAtEnd, TargetsExist, Linked, AuditUnderWay, [Next]_vars PROVE AuditUnderWay'
  OBVIOUS
<1> USE DEF TypeOK, ClaimedAtEnd, TargetsExist, Linked, AuditUnderWay
<1>1. CASE UNCHANGED vars
  BY <1>1 DEF vars
<1>2. ASSUME NEW p \in Chain, NEW v \in Value, Store(p, v) PROVE AuditUnderWay'
  BY <1>2 DEF Store, Begin
<1>3. ASSUME NEW p \in Chain, NEW v \in Value, Promote(p, v) PROVE AuditUnderWay'
  BY <1>3 DEF Promote, Begin
<1>4. ASSUME NEW p \in Chain, PromoteUnlessClaimed(p) PROVE AuditUnderWay'
  BY <1>4 DEF PromoteUnlessClaimed
<1>5. ASSUME NEW p \in Chain, PromoteUnlessCompeting(p) PROVE AuditUnderWay'
  BY <1>5 DEF PromoteUnlessCompeting
<1>6. ASSUME NEW p \in Chain, FindConflicting(p) PROVE AuditUnderWay'
  BY <1>6 DEF FindConflicting, Competing
<1>7. ASSUME NEW p \in Chain, ReadClaim(p) PROVE AuditUnderWay'
  BY <1>7 DEF ReadClaim
<1>8. ASSUME NEW p \in Chain, Supersede(p) PROVE AuditUnderWay'
  BY <1>8 DEF Supersede
<1>9. ASSUME NEW p \in Chain, Unassert(p) PROVE AuditUnderWay'
  BY <1>9 DEF Unassert
<1>10. ASSUME NEW p \in Chain, Recheck(p) PROVE AuditUnderWay'
  BY <1>10 DEF Recheck
<1>11. ASSUME NEW p \in Chain, Withdraw(p) PROVE AuditUnderWay'
  BY <1>11 DEF Withdraw
<1>12. ASSUME NEW p \in Chain, Record(p) PROVE AuditUnderWay'
  BY <1>12 DEF Record
<1>13. ASSUME NEW p \in Chain, Materialize(p) PROVE AuditUnderWay'
  BY <1>13 DEF Materialize
<1>14. ASSUME NEW p \in Chain, Insert(p) PROVE AuditUnderWay'
  BY <1>14 DEF Insert
<1>15. ASSUME NEW p \in Chain, InsertInferred(p) PROVE AuditUnderWay'
  BY <1>15 DEF InsertInferred
<1>16. ASSUME NEW p \in Chain, CreateClaim(p) PROVE AuditUnderWay'
  BY <1>16 DEF CreateClaim
<1>17. ASSUME NEW p \in Chain, NEW facts \in {{v} : v \in Value} \cup {Value}, Retract(p, facts) PROVE AuditUnderWay'
  BY <1>17 DEF Retract, Begin
<1>18. ASSUME NEW p \in Chain, RetractClaims(p) PROVE AuditUnderWay'
  BY <1>18 DEF RetractClaims
<1>19. ASSUME NEW p \in Chain, RebuildRead(p) PROVE AuditUnderWay'
  BY <1>19 DEF RebuildRead
<1>20. ASSUME NEW p \in Chain, RebuildClear(p) PROVE AuditUnderWay'
  BY <1>20 DEF RebuildClear
<1>21. ASSUME NEW p \in Chain, RebuildFill(p) PROVE AuditUnderWay'
  BY <1>21 DEF RebuildFill
<1>22. ASSUME NEW p \in Chain, ChainFails(p) PROVE AuditUnderWay'
  BY <1>22 DEF ChainFails
<1>23. QED
  BY <1>1, <1>2, <1>3, <1>4, <1>5, <1>6, <1>7, <1>8, <1>9, <1>10, <1>11,
     <1>12, <1>13, <1>14, <1>15, <1>16, <1>17, <1>18, <1>19, <1>20, <1>21, <1>22 DEF Next, Commit

\* Chains in the stages of a retraction are retractions.
LEMMA KindStep == TypeOK /\ KindFits /\ [Next]_vars => KindFits'
<1> SUFFICES ASSUME TypeOK, KindFits, [Next]_vars PROVE KindFits'
  OBVIOUS
<1> USE DEF TypeOK, KindFits
<1>1. CASE UNCHANGED vars
  BY <1>1 DEF vars
<1>2. ASSUME NEW p \in Chain, NEW v \in Value, Store(p, v) PROVE KindFits'
  BY <1>2 DEF Store, Begin
<1>3. ASSUME NEW p \in Chain, NEW v \in Value, Promote(p, v) PROVE KindFits'
  BY <1>3 DEF Promote, Begin
<1>4. ASSUME NEW p \in Chain, PromoteUnlessClaimed(p) PROVE KindFits'
  BY <1>4 DEF PromoteUnlessClaimed
<1>5. ASSUME NEW p \in Chain, PromoteUnlessCompeting(p) PROVE KindFits'
  BY <1>5 DEF PromoteUnlessCompeting
<1>6. ASSUME NEW p \in Chain, FindConflicting(p) PROVE KindFits'
  BY <1>6 DEF FindConflicting, Competing
<1>7. ASSUME NEW p \in Chain, ReadClaim(p) PROVE KindFits'
  BY <1>7 DEF ReadClaim
<1>8. ASSUME NEW p \in Chain, Supersede(p) PROVE KindFits'
  BY <1>8 DEF Supersede
<1>9. ASSUME NEW p \in Chain, Unassert(p) PROVE KindFits'
  BY <1>9 DEF Unassert
<1>10. ASSUME NEW p \in Chain, Recheck(p) PROVE KindFits'
  BY <1>10 DEF Recheck
<1>11. ASSUME NEW p \in Chain, Withdraw(p) PROVE KindFits'
  BY <1>11 DEF Withdraw
<1>12. ASSUME NEW p \in Chain, Record(p) PROVE KindFits'
  BY <1>12 DEF Record
<1>13. ASSUME NEW p \in Chain, Materialize(p) PROVE KindFits'
  BY <1>13 DEF Materialize
<1>14. ASSUME NEW p \in Chain, Insert(p) PROVE KindFits'
  BY <1>14 DEF Insert
<1>15. ASSUME NEW p \in Chain, InsertInferred(p) PROVE KindFits'
  BY <1>15 DEF InsertInferred
<1>16. ASSUME NEW p \in Chain, CreateClaim(p) PROVE KindFits'
  BY <1>16 DEF CreateClaim
<1>17. ASSUME NEW p \in Chain, NEW facts \in {{v} : v \in Value} \cup {Value}, Retract(p, facts) PROVE KindFits'
  BY <1>17 DEF Retract, Begin
<1>18. ASSUME NEW p \in Chain, RetractClaims(p) PROVE KindFits'
  BY <1>18 DEF RetractClaims
<1>19. ASSUME NEW p \in Chain, RebuildRead(p) PROVE KindFits'
  BY <1>19 DEF RebuildRead
<1>20. ASSUME NEW p \in Chain, RebuildClear(p) PROVE KindFits'
  BY <1>20 DEF RebuildClear
<1>21. ASSUME NEW p \in Chain, RebuildFill(p) PROVE KindFits'
  BY <1>21 DEF RebuildFill
<1>22. ASSUME NEW p \in Chain, ChainFails(p) PROVE KindFits'
  BY <1>22 DEF ChainFails
<1>23. QED
  BY <1>1, <1>2, <1>3, <1>4, <1>5, <1>6, <1>7, <1>8, <1>9, <1>10, <1>11,
     <1>12, <1>13, <1>14, <1>15, <1>16, <1>17, <1>18, <1>19, <1>20, <1>21, <1>22 DEF Next, Commit

\* A step keeps the history well founded: a new successor has no successor of its own.
LEMMA AcyclicStep ==
    TypeOK /\ ClaimedAtEnd /\ TargetsExist /\ Linked /\ AcyclicHistory /\ [Next]_vars => AcyclicHistory'
<1> SUFFICES ASSUME TypeOK, ClaimedAtEnd, TargetsExist, Linked, AcyclicHistory, [Next]_vars,
                    NEW S \in SUBSET Chain, S # {}
             PROVE  \E q \in S : by'[q] \notin S
  BY DEF AcyclicHistory
<1>1. PICK q \in S : by[q] \notin S
  BY DEF AcyclicHistory
<1>2. CASE UNCHANGED by
  BY <1>1, <1>2
\* The chain that becomes a successor has no claim yet, so no successor either.
<1>3. ASSUME NEW p \in Chain, Supersede(p), by' # by PROVE \E r \in S : by'[r] \notin S
  <2>1. by' = [by EXCEPT ![current[p]] = p] /\ current[p] \in Chain /\ current[p] # p
    BY <1>3 DEF Supersede, TargetsExist, ClaimedAtEnd, TypeOK
  <2>2. by[p] \notin Chain
    BY <1>3 DEF Supersede, ClaimedAtEnd, Linked
  <2>3. CASE p \in S
    BY <2>1, <2>2, <2>3 DEF TypeOK
  <2>4. CASE p \notin S
    BY <1>1, <2>1, <2>4 DEF TypeOK
  <2>5. QED BY <2>3, <2>4
\* A retraction only takes forward links away.
<1>4. ASSUME NEW p \in Chain, RetractClaims(p) PROVE \E r \in S : by'[r] \notin S
  <2>1. by'[q] \in {by[q], NoChain}
    BY <1>4 DEF RetractClaims
  <2>2. QED BY <1>1, <2>1, ConstantsAssumption
<1>5. QED
  BY ZenonT(40), <1>2, <1>3, <1>4 DEF Next, vars, Commit, Store, Promote, Retract, Begin, PromoteUnlessClaimed,
     PromoteUnlessCompeting, FindConflicting, ReadClaim, Unassert, Recheck, Withdraw, Record, Materialize,
     Insert, InsertInferred, CreateClaim, RebuildRead, RebuildClear, RebuildFill, ChainFails

\* The last safety property in the form the step lemma uses.
LEMMA CoveredMeaning == EveryTripleIsClaimed <=> (NoRetraction /\ "chain" \notin faults => \A v \in asserted : Covered(v))
  BY DEF EveryTripleIsClaimed, Covered, AcceptedFor

\* A step leaves no triple without a claim or a chain at work on it.
LEMMA TripleStep ==
    TypeOK /\ ClaimedAtEnd /\ TargetsExist /\ KindFits /\ EveryTripleIsClaimed /\ [Next]_vars => EveryTripleIsClaimed'
<1> SUFFICES ASSUME TypeOK, ClaimedAtEnd, TargetsExist, KindFits, EveryTripleIsClaimed, [Next]_vars,
                    NoRetraction', "chain" \notin faults', NEW v \in asserted'
             PROVE  Covered(v)'
  BY CoveredMeaning DEF EveryTripleIsClaimed, Covered, AcceptedFor
\* Only its first step changes the kind of a request.
<1>a. NoRetraction /\ "chain" \notin faults
  <2>1. UNCHANGED kind \/ \E p \in Chain, k \in AllKinds : pc[p] = "idle" /\ kind' = [kind EXCEPT ![p] = k]
    BY ZenonT(40) DEF Next, vars, Commit, Store, Promote, Retract, Begin, PromoteUnlessClaimed, PromoteUnlessCompeting,
       FindConflicting, ReadClaim, Supersede, Unassert, Recheck, Withdraw, Record, Materialize, Insert,
       InsertInferred, CreateClaim, RetractClaims, RebuildRead, RebuildClear, RebuildFill, ChainFails
  <2>2. faults \subseteq faults'
    BY DEF Next, vars, Commit, Store, Promote, Retract, PromoteUnlessClaimed, PromoteUnlessCompeting,
       FindConflicting, ReadClaim, Supersede, Unassert, Recheck, Withdraw, Record, Materialize, Insert,
       InsertInferred, CreateClaim, RetractClaims, RebuildRead, RebuildClear, RebuildFill, ChainFails
  <2>3. NoRetraction
    BY <2>1 DEF NoRetraction, TypeOK, KindFits
  <2>4. QED BY <2>2, <2>3
<1>b. v \in asserted => Covered(v)
  BY <1>a, CoveredMeaning
<1> USE DEF TypeOK, ClaimedAtEnd, TargetsExist, Covered
<1>1. CASE UNCHANGED vars
  BY <1>b, <1>1 DEF vars
<1>2. ASSUME NEW p \in Chain, NEW w \in Value, Store(p, w) PROVE Covered(v)'
  BY <1>b, <1>2 DEF Store, Begin
<1>3. ASSUME NEW p \in Chain, NEW w \in Value, Promote(p, w) PROVE Covered(v)'
  BY <1>b, <1>3 DEF Promote, Begin
<1>4. ASSUME NEW p \in Chain, PromoteUnlessClaimed(p) PROVE Covered(v)'
  BY <1>b, <1>4 DEF PromoteUnlessClaimed
<1>5. ASSUME NEW p \in Chain, PromoteUnlessCompeting(p) PROVE Covered(v)'
  BY <1>b, <1>5 DEF PromoteUnlessCompeting
<1>6. ASSUME NEW p \in Chain, FindConflicting(p) PROVE Covered(v)'
  BY <1>b, <1>6 DEF FindConflicting, Competing
<1>7. ASSUME NEW p \in Chain, ReadClaim(p) PROVE Covered(v)'
  BY <1>b, <1>7 DEF ReadClaim
<1>8. ASSUME NEW p \in Chain, Supersede(p) PROVE Covered(v)'
  BY <1>b, <1>8 DEF Supersede
<1>9. ASSUME NEW p \in Chain, Unassert(p) PROVE Covered(v)'
  BY <1>b, <1>9 DEF Unassert
<1>10. ASSUME NEW p \in Chain, Recheck(p) PROVE Covered(v)'
  BY <1>b, <1>10 DEF Recheck
<1>11. ASSUME NEW p \in Chain, Withdraw(p) PROVE Covered(v)'
  BY <1>b, <1>11 DEF Withdraw
<1>12. ASSUME NEW p \in Chain, Record(p) PROVE Covered(v)'
  BY <1>b, <1>12 DEF Record
<1>13. ASSUME NEW p \in Chain, Materialize(p) PROVE Covered(v)'
  BY <1>b, <1>13 DEF Materialize
<1>14. ASSUME NEW p \in Chain, Insert(p) PROVE Covered(v)'
  BY <1>b, <1>14 DEF Insert
<1>15. ASSUME NEW p \in Chain, InsertInferred(p) PROVE Covered(v)'
  BY <1>b, <1>15 DEF InsertInferred
<1>16. ASSUME NEW p \in Chain, CreateClaim(p) PROVE Covered(v)'
  BY <1>b, <1>16 DEF CreateClaim
<1>17. ASSUME NEW p \in Chain, NEW facts \in {{w} : w \in Value} \cup {Value}, Retract(p, facts) PROVE Covered(v)'
  BY <1>b, <1>17 DEF Retract, Begin
<1>18. ASSUME NEW p \in Chain, RetractClaims(p) PROVE Covered(v)'
  BY <1>a, <1>18 DEF RetractClaims, KindFits, NoRetraction
<1>19. ASSUME NEW p \in Chain, RebuildRead(p) PROVE Covered(v)'
  BY <1>b, <1>19 DEF RebuildRead
<1>20. ASSUME NEW p \in Chain, RebuildClear(p) PROVE Covered(v)'
  BY <1>b, <1>20 DEF RebuildClear
<1>21. ASSUME NEW p \in Chain, RebuildFill(p) PROVE Covered(v)'
  BY <1>b, <1>21 DEF RebuildFill
<1>22. ASSUME NEW p \in Chain, ChainFails(p) PROVE Covered(v)'
  BY <1>b, <1>22 DEF ChainFails
<1>23. QED
  BY <1>b, <1>1, <1>2, <1>3, <1>4, <1>5, <1>6, <1>7, <1>8, <1>9, <1>10, <1>11,
     <1>12, <1>13, <1>14, <1>15, <1>16, <1>17, <1>18, <1>19, <1>20, <1>21, <1>22 DEF Next, Commit

-----------------------------------------------------------------------------
(* Requests one after another.                                             *)

Checking  == {"claimed", "competing", "find"}
Storing   == Checking \cup Retiring \cup {"retire", "materialize", "insert", "insertInferred", "claim"}
Rebuilding == {"rebuildRead", "rebuildClear", "rebuildFill"}

\* Nobody is at work beside another one.
Alone == ~overlapped => \A p, q \in Chain : pc[p] \notin Ended /\ pc[q] \notin Ended => p = q

\* What is stored, and what is claimed, is one value.
OneValue ==
    \A p \in Chain : pc[p] \in Storing \/ status[p] # "none" => \E v \in Value : value[p] = {v}

Accepted(q) == status[q] = "accepted"
AtMostOne   == \A v, w \in asserted : v = w
Claimed     == \A v \in asserted : \E q \in Chain : Accepted(q) /\ v \in value[q]
Agreed      == AtMostOne /\ Claimed /\ \A q \in Chain : Accepted(q) => value[q] \subseteq asserted

\* Where a request stands: before it has changed anything the triples and the
\* claims agree; it then retires every accepted claim, with the triples that
\* only these account for; nothing is left when it asserts its own value.
Stand(p) ==
    /\ AtMostOne
    /\ pc[p] \in Checking => Agreed /\ ~(value[p] \subseteq asserted)
    /\ pc[p] \in Retiring \cup {"retire"} =>
         /\ \A q \in Chain : Accepted(q) => q \in todo[p]
         /\ \A q \in todo[p] : status[q] # "deleted"
         /\ \A v \in asserted :
              \/ \E q \in Chain : Accepted(q) /\ v \in value[q]
              \/ pc[p] = "unassert" /\ v \in value[current[p]]
    /\ pc[p] = "supersede" => answer[p]
    /\ pc[p] \in Retiring \ {"supersede"} => ~Accepted(current[p])
    /\ pc[p] \in {"materialize", "insert"} => asserted = {}
    /\ pc[p] \in {"insertInferred", "claim"} => asserted = value[p]
    /\ pc[p] \in {"materialize", "insert", "insertInferred", "claim"} =>
         \A q \in Chain : ~Accepted(q)
    /\ pc[p] = "retractClaims" =>
         /\ Claimed /\ asserted \cap value[p] = {}
         /\ \A q \in Chain : Accepted(q) => value[q] \subseteq asserted \/ value[q] \cap value[p] # {}
    /\ pc[p] \in Rebuilding => Agreed

Calm == ~overlapped /\ faults \subseteq {"reason", "unheard"}
InStep == Calm => (Quiet => Agreed) /\ \A p \in Chain : pc[p] \notin Ended => Stand(p)

Tidy == ~overlapped /\ "chain" \notin faults

Starts(p) ==
    \/ \E v \in Value : Store(p, v) \/ Promote(p, v)
    \/ \E facts \in {{v} : v \in Value} \cup {Value} : Retract(p, facts)
Works(p) ==
    \/ PromoteUnlessClaimed(p) \/ PromoteUnlessCompeting(p) \/ Commit(p)
    \/ RetractClaims(p) \/ RebuildRead(p) \/ RebuildClear(p) \/ RebuildFill(p) \/ ChainFails(p)

\* A request that starts was idle, and meets whoever is at work.
LEMMA StartShape ==
    ASSUME TypeOK, NEW p \in Chain, Starts(p)
    PROVE  /\ pc[p] = "idle" /\ pc' \in [Chain -> Stages] /\ \A q \in Chain \ {p} : pc'[q] = pc[q]
           /\ overlapped' = (overlapped \/ ~Quiet) /\ faults \subseteq faults'
           /\ \A q \in Chain \ {p} : value'[q] = value[q]
           /\ UNCHANGED <<status, inferred, pending, current, answer, todo>>
           /\ asserted' = asserted \/ pc'[p] = "retractClaims"
<1>1. ASSUME NEW v \in Value, Store(p, v) \/ Promote(p, v)
      PROVE  /\ pc[p] = "idle" /\ pc' \in [Chain -> Stages] /\ \A q \in Chain \ {p} : pc'[q] = pc[q]
             /\ overlapped' = (overlapped \/ ~Quiet) /\ faults \subseteq faults'
             /\ \A q \in Chain \ {p} : value'[q] = value[q]
             /\ UNCHANGED <<asserted, status, inferred, pending, current, answer, todo>>
  BY <1>1 DEF Store, Promote, Begin, TypeOK
<1>2. ASSUME NEW facts, Retract(p, facts)
      PROVE  /\ pc[p] = "idle" /\ pc' \in [Chain -> Stages] /\ \A q \in Chain \ {p} : pc'[q] = pc[q]
             /\ overlapped' = (overlapped \/ ~Quiet) /\ faults \subseteq faults'
             /\ \A q \in Chain \ {p} : value'[q] = value[q] /\ pc'[p] = "retractClaims"
             /\ UNCHANGED <<status, inferred, pending, current, answer, todo>>
  BY <1>2 DEF Retract, Begin, TypeOK
<1>3. QED BY <1>1, <1>2 DEF Starts, Retract, TypeOK

\* A request that goes on leaves the others where they are.
LEMMA WorkShape ==
    ASSUME TypeOK, NEW p \in Chain, Works(p)
    PROVE  /\ pc[p] \notin Ended /\ \A q \in Chain \ {p} : pc'[q] = pc[q]
           /\ UNCHANGED <<kind, value, overlapped>>
           /\ faults \subseteq faults' /\ pending \subseteq pending'
<1>1. CASE PromoteUnlessClaimed(p) \/ PromoteUnlessCompeting(p) \/ FindConflicting(p) \/ ReadClaim(p)
  BY <1>1 DEF PromoteUnlessClaimed, PromoteUnlessCompeting, FindConflicting, ReadClaim, TypeOK
<1>2. CASE Supersede(p) \/ Unassert(p) \/ Recheck(p) \/ Withdraw(p) \/ Record(p)
  BY <1>2 DEF Supersede, Unassert, Recheck, Withdraw, Record, TypeOK
<1>3. CASE Materialize(p) \/ Insert(p) \/ InsertInferred(p) \/ CreateClaim(p)
  BY <1>3 DEF Materialize, Insert, InsertInferred, CreateClaim, TypeOK
<1>4. CASE RetractClaims(p) \/ RebuildRead(p) \/ RebuildClear(p) \/ RebuildFill(p) \/ ChainFails(p)
  BY <1>4 DEF RetractClaims, RebuildRead, RebuildClear, RebuildFill, ChainFails, TypeOK
<1>5. QED BY <1>1, <1>2, <1>3, <1>4 DEF Works, Commit

LEMMA NextShape == [Next]_vars <=> UNCHANGED vars \/ \E p \in Chain : Starts(p) \/ Works(p)
BY DEF Next, Starts, Works

\* Unless requests have overlapped, one is at work at a time.
LEMMA AloneStep == TypeOK /\ Alone /\ [Next]_vars => Alone'
<1> SUFFICES ASSUME TypeOK, Alone, [Next]_vars, ~overlapped' PROVE Alone'
  BY DEF Alone
<1>1. CASE UNCHANGED vars
  BY <1>1 DEF vars, Alone
<1>2. ASSUME NEW p \in Chain, Starts(p) PROVE Alone'
  BY <1>2, StartShape DEF Alone, Quiet
<1>3. ASSUME NEW p \in Chain, Works(p) PROVE Alone'
  BY <1>3, WorkShape DEF Alone
<1>4. QED BY <1>1, <1>2, <1>3, NextShape

\* What is stored stays one value.
LEMMA OneValueStep == TypeOK /\ ClaimedAtEnd /\ TargetsExist /\ OneValue /\ [Next]_vars => OneValue'
<1> SUFFICES ASSUME TypeOK, ClaimedAtEnd, TargetsExist, OneValue, [Next]_vars PROVE OneValue'
  OBVIOUS
<1> USE DEF Storing, Checking
<1>1. CASE UNCHANGED vars
  BY <1>1 DEF vars, OneValue
<1>2. ASSUME NEW p \in Chain, Starts(p) PROVE OneValue'
  <2>1. status[p] = "none"
    BY <1>2, StartShape DEF ClaimedAtEnd
  <2>2. pc'[p] = "retractClaims" \/ \E v \in Value : value'[p] = {v}
    BY ZenonT(40), <1>2 DEF Starts, Store, Promote, Retract, Begin, TypeOK
  <2>3. \A q \in Chain \ {p} : pc'[q] = pc[q] /\ status'[q] = status[q] /\ value'[q] = value[q]
    BY <1>2, StartShape
  <2>4. status'[p] = "none"
    BY <1>2, <2>1, StartShape
  <2>5. \A q \in Chain \ {p} :
          pc'[q] \in Storing \/ status'[q] # "none" => \E v \in Value : value'[q] = {v}
    BY <2>3 DEF OneValue
  <2>6. pc'[p] \in Storing => \E v \in Value : value'[p] = {v}
    BY <2>2
  <2>7. QED BY <2>4, <2>5, <2>6 DEF OneValue
<1>3. ASSUME NEW p \in Chain, Works(p) PROVE OneValue'
  <2>1. pc'[p] \in Storing => pc[p] \in Storing
    <3>1. CASE RetractClaims(p) \/ RebuildRead(p) \/ RebuildClear(p) \/ RebuildFill(p) \/ ChainFails(p)
      BY <3>1 DEF RetractClaims, RebuildRead, RebuildClear, RebuildFill, ChainFails, TypeOK
    <3>2. CASE PromoteUnlessClaimed(p) \/ PromoteUnlessCompeting(p) \/ Commit(p)
      BY <3>2 DEF PromoteUnlessClaimed, PromoteUnlessCompeting, Commit, FindConflicting, ReadClaim,
         Supersede, Unassert, Recheck, Withdraw, Record, Materialize, Insert, InsertInferred, CreateClaim
    <3>3. QED BY <1>3, <3>1, <3>2 DEF Works
  <2>2. \A q \in Chain : status'[q] # "none" => status[q] # "none" \/ (q = p /\ pc[p] = "claim")
    <3>1. CASE Supersede(p)
      BY <3>1 DEF Supersede, TypeOK
    <3>2. CASE CreateClaim(p) \/ RetractClaims(p)
      BY <3>2 DEF CreateClaim, RetractClaims, TypeOK
    <3>3. CASE UNCHANGED status
      BY <3>3
    <3>4. QED BY <1>3, <3>1, <3>2, <3>3 DEF Works, Commit, PromoteUnlessClaimed, PromoteUnlessCompeting,
                 FindConflicting, ReadClaim, Unassert, Recheck, Withdraw, Record, Materialize, Insert,
                 InsertInferred, RebuildRead, RebuildClear, RebuildFill, ChainFails
  <2>3. QED BY <1>3, <2>1, <2>2, WorkShape DEF OneValue
<1>4. QED BY <1>1, <1>2, <1>3, NextShape

\* A request that is alone goes from one stand to the next, and ends in agreement.
LEMMA StandStep ==
    ASSUME TypeOK, TargetsExist, OneValue, NEW p \in Chain, Works(p), Calm', Stand(p)
    PROVE  (pc'[p] \in Ended => Agreed') /\ (pc'[p] \notin Ended => Stand(p)')
<1> USE DEF TypeOK, Checking, Rebuilding, Accepted
<1>1. UNCHANGED value /\ faults' \subseteq {"reason", "unheard"}
  BY WorkShape DEF Calm
<1>2. CASE PromoteUnlessClaimed(p) \/ PromoteUnlessCompeting(p)
  BY <1>1, <1>2 DEF PromoteUnlessClaimed, PromoteUnlessCompeting, Stand, Agreed, AtMostOne, Claimed
<1>3. CASE FindConflicting(p)
  <2>1. /\ todo'[p] = Competing(p) /\ pc'[p] = IF Competing(p) = {} THEN "materialize" ELSE "retire"
        /\ Agreed /\ ~(value[p] \subseteq asserted) /\ UNCHANGED <<asserted, status>>
    BY <1>1, <1>3 DEF FindConflicting, Stand, Competing
  <2>2. \A q \in Chain : Accepted(q) => q \in Competing(p)
    BY <2>1 DEF Agreed, Competing
  <2>3. \A q \in Competing(p) : status[q] # "deleted"
    BY DEF Competing
  <2>4. CASE Competing(p) = {}
    <3>1. asserted = {}
      BY <2>1, <2>2, <2>4 DEF Agreed, Claimed
    <3>2. QED BY <2>1, <2>2, <2>4, <3>1 DEF Stand, Agreed, AtMostOne
  <2>5. CASE Competing(p) # {}
    BY <1>1, <2>1, <2>2, <2>3, <2>5 DEF Stand, Agreed, AtMostOne, Claimed
  <2>6. QED BY <2>4, <2>5
<1>4. CASE ReadClaim(p)
  <2>1. PICK q \in todo[p] :
          /\ current' = [current EXCEPT ![p] = q]
          /\ answer' = [answer EXCEPT ![p] = status[q] # "deleted"]
          /\ Goto(p, "supersede") /\ UNCHANGED todo
    BY <1>1, <1>4 DEF ReadClaim
  <2>2. pc[p] = "retire" /\ pc'[p] = "supersede" /\ UNCHANGED <<asserted, status>>
    BY <1>4, <2>1 DEF ReadClaim
  <2>a. answer'[p] = TRUE
    <3>1. (status[q] # "deleted") = TRUE
      BY <2>2 DEF Stand
    <3>2. answer' = [answer EXCEPT ![p] = TRUE]
      BY <2>1, <3>1
    <3>3. QED BY <3>2
  <2>3. QED BY <1>1, <2>1, <2>2, <2>a DEF Stand, AtMostOne
<1>5. CASE Supersede(p)
  <2>1. /\ pc[p] = "supersede" /\ pc'[p] = "unassert" /\ current[p] \in Chain
        /\ UNCHANGED <<asserted, todo, current>>
    BY <1>5 DEF Supersede, Stand, TargetsExist
  <2>2. /\ \A q \in Chain \ {current[p]} : status'[q] = status[q]
        /\ status'[current[p]] = IF Accepted(current[p]) THEN "superseded" ELSE status[current[p]]
    BY <1>5, <2>1 DEF Supersede
  <2>3. QED BY <1>1, <2>1, <2>2 DEF Stand, AtMostOne
<1>6. CASE Unassert(p)
  <2>1. /\ pc[p] = "unassert" /\ pc'[p] = "recheck" /\ asserted' = asserted \ value[current[p]]
        /\ UNCHANGED <<status, todo, current>>
    BY <1>6 DEF Unassert
  <2>2. QED BY <1>1, <2>1 DEF Stand, AtMostOne
<1>7. CASE Recheck(p) \/ Withdraw(p)
  <2>1. /\ pc[p] \in {"recheck", "withdraw"} /\ pc'[p] \in {"withdraw", "record"}
        /\ UNCHANGED <<asserted, status, todo, current>>
    BY <1>7 DEF Recheck, Withdraw
  <2>2. QED BY <1>1, <2>1 DEF Stand, AtMostOne
<1>8. CASE Record(p)
  <2>1. /\ pc[p] = "record" /\ todo'[p] = todo[p] \ {current[p]} /\ UNCHANGED <<asserted, status>>
        /\ pc'[p] = IF todo'[p] = {} THEN "materialize" ELSE "retire"
    BY <1>8 DEF Record
  <2>2. \A q \in Chain : Accepted(q) => q \in todo'[p]
    BY <2>1 DEF Stand
  <2>3. CASE todo'[p] = {}
    BY <1>1, <2>1, <2>2, <2>3 DEF Stand, AtMostOne
  <2>4. CASE todo'[p] # {}
    BY <1>1, <2>1, <2>2, <2>4 DEF Stand, AtMostOne
  <2>5. QED BY <2>3, <2>4
<1>9. CASE Materialize(p)
  BY <1>1, <1>9 DEF Materialize, Stand, AtMostOne
<1>10. CASE Insert(p)
  <2>1. \E v \in Value : value[p] = {v}
    BY <1>10 DEF Insert, OneValue, Storing
  <2>2. /\ pc[p] = "insert" /\ pc'[p] \in {"insertInferred", "claim"} /\ asserted' = value[p]
        /\ UNCHANGED status
    BY <1>10 DEF Insert, Stand
  <2>3. QED BY <1>1, <2>1, <2>2 DEF Stand, AtMostOne
<1>11. CASE InsertInferred(p)
  BY <1>1, <1>11 DEF InsertInferred, Stand, AtMostOne
<1>12. CASE CreateClaim(p)
  <2>1. /\ pc'[p] = "done" /\ asserted = value[p] /\ UNCHANGED asserted
        /\ \A q \in Chain : status'[q] = "accepted" <=> q = p
    BY <1>12 DEF CreateClaim, Stand
  <2>2. QED BY <1>1, <1>12, <2>1 DEF Stand, Agreed, AtMostOne, Claimed, CreateClaim
<1>13. CASE RetractClaims(p)
  <2>1. /\ pc[p] = "retractClaims" /\ pc'[p] = "rebuildRead" /\ UNCHANGED asserted
        /\ \A q \in Chain : Accepted(q)' <=> Accepted(q) /\ value[q] \cap value[p] = {}
    BY <1>13 DEF RetractClaims
  <2>2. \A q \in Chain : Accepted(q)' => value[q] \subseteq asserted
    BY <2>1 DEF Stand
  <2>3. ASSUME NEW v \in asserted PROVE \E q \in Chain : Accepted(q)' /\ v \in value[q]
    <3>1. PICK q \in Chain : Accepted(q) /\ v \in value[q]
      BY <2>1 DEF Stand, Claimed
    <3>2. value[q] = {v} /\ v \notin value[p]
      BY <2>1, <3>1 DEF OneValue, Stand
    <3>3. QED BY <2>1, <3>1, <3>2
  <2>4. QED BY <1>1, <2>1, <2>2, <2>3 DEF Stand, Agreed, AtMostOne, Claimed
<1>14. CASE RebuildRead(p) \/ RebuildClear(p) \/ RebuildFill(p)
  <2>1. pc[p] \in Rebuilding /\ pc'[p] \in Rebuilding \cup {"done"} /\ UNCHANGED <<asserted, status>>
    BY <1>14 DEF RebuildRead, RebuildClear, RebuildFill
  <2>2. Agreed' /\ AtMostOne'
    BY <1>1, <2>1 DEF Stand, Agreed, AtMostOne, Claimed
  <2>3. QED BY <2>1, <2>2 DEF Stand
<1>15. CASE ChainFails(p)
  BY <1>1, <1>15 DEF ChainFails
<1>16. QED BY <1>2, <1>3, <1>4, <1>5, <1>6, <1>7, <1>8, <1>9, <1>10, <1>11, <1>12, <1>13, <1>14, <1>15
           DEF Works, Commit

LEMMA InStepStep ==
    TypeOK /\ ClaimedAtEnd /\ TargetsExist /\ Alone /\ OneValue /\ InStep /\ [Next]_vars => InStep'
<1> SUFFICES ASSUME TypeOK, ClaimedAtEnd, TargetsExist, Alone, OneValue, InStep, [Next]_vars, Calm'
             PROVE  (Quiet' => Agreed') /\ \A p \in Chain : pc'[p] \notin Ended => Stand(p)'
  BY DEF InStep
<1>1. CASE UNCHANGED vars
  BY <1>1 DEF vars, InStep, Calm, Quiet, Agreed, AtMostOne, Claimed, Accepted, Stand
<1>2. ASSUME NEW p \in Chain, Starts(p)
      PROVE  (Quiet' => Agreed') /\ \A q \in Chain : pc'[q] \notin Ended => Stand(q)'
  <2>1. Calm /\ Quiet /\ pc[p] = "idle" /\ UNCHANGED status
    BY <1>2, StartShape DEF Calm
  <2>2. Agreed
    BY <2>1 DEF InStep
  <2>3. \A q \in Chain \ {p} : pc'[q] \in Ended
    BY <1>2, <2>1, StartShape DEF Quiet
  <2>4. status[p] = "none"
    BY <2>1 DEF ClaimedAtEnd
  <2>5. (pc'[p] \in Ended => Agreed') /\ (pc'[p] \notin Ended => Stand(p)')
    <3>1. ASSUME NEW v \in Value, Store(p, v) \/ Promote(p, v)
          PROVE  (pc'[p] \in Ended => Agreed') /\ (pc'[p] \notin Ended => Stand(p)')
      <4>1. /\ UNCHANGED asserted /\ value'[p] = {v} /\ \A q \in Chain \ {p} : value'[q] = value[q]
            /\ pc'[p] = "done" \/ (pc'[p] \in Checking /\ v \notin asserted)
        BY <3>1 DEF Store, Promote, Begin, Calm, Checking, TypeOK
      <4>2. Agreed'
        BY <2>1, <2>2, <2>4, <4>1 DEF Agreed, AtMostOne, Claimed, Accepted
      <4>3. QED BY <4>1, <4>2 DEF Stand, Checking, Rebuilding, Agreed
    <3>2. ASSUME NEW facts, Retract(p, facts)
          PROVE  (pc'[p] \in Ended => Agreed') /\ (pc'[p] \notin Ended => Stand(p)')
      <4>1. /\ pc'[p] = "retractClaims" /\ value'[p] = facts /\ asserted' = asserted \ facts
            /\ \A q \in Chain \ {p} : value'[q] = value[q]
        BY <3>2 DEF Retract, Begin, TypeOK
      <4>2. \A q \in Chain : Accepted(q)' => Accepted(q) /\ value'[q] = value[q]
        BY <2>1, <2>4, <4>1 DEF Accepted
      <4>3. Claimed'
        BY <2>1, <2>2, <2>4, <4>1 DEF Agreed, Claimed, Accepted
      <4>4. \A q \in Chain : Accepted(q)' => value'[q] \subseteq asserted' \/ value'[q] \cap value'[p] # {}
        BY <2>2, <4>1, <4>2 DEF Agreed
      <4>5. AtMostOne' /\ asserted' \cap value'[p] = {}
        BY <2>2, <4>1 DEF Agreed, AtMostOne
      <4>6. QED BY <4>1, <4>3, <4>4, <4>5 DEF Stand, Checking, Rebuilding
    <3>3. QED BY <1>2, <3>1, <3>2 DEF Starts
  <2>6. QED BY <2>3, <2>5 DEF Quiet
<1>3. ASSUME NEW p \in Chain, Works(p)
      PROVE  (Quiet' => Agreed') /\ \A q \in Chain : pc'[q] \notin Ended => Stand(q)'
  <2>1. Calm /\ pc[p] \notin Ended /\ \A q \in Chain \ {p} : pc'[q] = pc[q]
    BY <1>3, WorkShape DEF Calm
  <2>2. Stand(p) /\ \A q \in Chain \ {p} : pc'[q] \in Ended
    BY <2>1 DEF InStep, Alone, Calm
  <2>3. (pc'[p] \in Ended => Agreed') /\ (pc'[p] \notin Ended => Stand(p)')
    BY <1>3, <2>2, StandStep DEF Calm
  <2>4. QED BY <2>2, <2>3 DEF Quiet
<1>4. QED BY <1>1, <1>2, <1>3, NextShape

\* What is derived, in the words of one request p that is alone.
Grounded(p) ==
    /\ pc[p] = "insert" /\ answer[p] => Entailed(asserted \cup value[p])
    /\ pc[p] = "rebuildClear" /\ answer[p] => Entailed(asserted)
    /\ pc[p] \in {"insertInferred", "rebuildFill"} => Entailed(asserted)
    /\ pc[p] = "withdraw" => ~Entailed(asserted)
    /\ pending = {} /\ "unheard" \notin faults /\ inferred =>
         \/ Entailed(asserted)
         \/ pc[p] \in {"recheck", "withdraw"} /\ Entailed(value[current[p]])
         \/ pc[p] \in {"retractClaims", "rebuildRead", "rebuildClear"}
    /\ faults = {} =>
         /\ Entailed(asserted) => inferred \/ pc[p] \in {"insertInferred", "rebuildFill"}
         /\ pc[p] = "insert" /\ Entailed(asserted \cup value[p]) => inferred \/ answer[p]
         /\ pc[p] = "rebuildClear" /\ Entailed(asserted) => answer[p]

\* What follows from more follows from the parts of it.
LEMMA EntailedUnion ==
    /\ \A S, T : Entailed(S \cup T) <=> Entailed(S) \/ Entailed(T)
    /\ \A S, T : S \subseteq T /\ Entailed(S) => Entailed(T)
    /\ \A S, T : Entailed(S) => Entailed(S \ T) \/ Entailed(T)
BY DEF Entailed

LEMMA GroundedStep ==
    ASSUME TypeOK, TargetsExist, NEW p \in Chain, Works(p), "chain" \notin faults', Grounded(p)
    PROVE  Grounded(p)'
<1> USE DEF TypeOK
<1>0. UNCHANGED value /\ faults \subseteq faults' /\ pending \subseteq pending'
  BY WorkShape
<1>1. ASSUME pc'[p] \notin {"insert", "rebuildClear", "insertInferred", "rebuildFill", "withdraw", "recheck",
                            "retractClaims", "rebuildRead"},
             pc[p] \notin {"insertInferred", "rebuildFill", "withdraw", "recheck",
                            "retractClaims", "rebuildRead", "rebuildClear"},
             UNCHANGED <<asserted, inferred>>
      PROVE  Grounded(p)'
  BY <1>0, <1>1 DEF Grounded
<1>2. CASE PromoteUnlessClaimed(p) \/ PromoteUnlessCompeting(p) \/ FindConflicting(p)
           \/ ReadClaim(p) \/ Supersede(p) \/ Record(p) \/ CreateClaim(p)
  <2>1. UNCHANGED <<asserted, inferred>>
    BY <1>2 DEF PromoteUnlessClaimed, PromoteUnlessCompeting, FindConflicting, ReadClaim, Supersede,
       Record, CreateClaim
  <2>2. pc'[p] \in {"competing", "find", "done", "materialize", "retire", "supersede", "unassert", "record"}
    BY <1>2 DEF PromoteUnlessClaimed, PromoteUnlessCompeting, FindConflicting, ReadClaim, Supersede,
       Record, CreateClaim
  <2>3. pc[p] \in {"claimed", "competing", "find", "retire", "supersede", "record", "claim"}
    BY <1>2 DEF PromoteUnlessClaimed, PromoteUnlessCompeting, FindConflicting, ReadClaim, Supersede,
       Record, CreateClaim
  <2>4. QED BY <1>1, <2>1, <2>2, <2>3
<1>3. CASE Unassert(p)
  <2>1. /\ pc[p] = "unassert" /\ pc'[p] = "recheck" /\ asserted' = asserted \ value[current[p]]
        /\ UNCHANGED <<inferred, pending, faults, current>>
    BY <1>3 DEF Unassert
  <2>2. /\ Entailed(asserted) => Entailed(asserted') \/ Entailed(value[current[p]])
        /\ Entailed(asserted') => Entailed(asserted)
    BY <2>1, EntailedUnion
  <2>3. QED BY <1>0, <2>1, <2>2 DEF Grounded
<1>4. CASE Recheck(p)
  <2>1. /\ pc[p] = "recheck" /\ current[p] \in Chain /\ UNCHANGED <<asserted, inferred, current>>
        /\ \/ /\ pc'[p] = IF Caused(value[current[p]]) THEN "withdraw" ELSE "record"
              /\ UNCHANGED <<pending, faults>>
           \/ pc'[p] = "record" /\ faults' # {} /\ (pending' # {} \/ "unheard" \in faults')
    <3>1. pc[p] = "recheck" /\ current[p] \in Chain /\ UNCHANGED <<asserted, inferred, current>>
      BY <1>4 DEF Recheck, TargetsExist
    <3>2. CASE /\ answer' = [answer EXCEPT ![p] = Caused(value[current[p]])]
               /\ Goto(p, IF answer'[p] THEN "withdraw" ELSE "record") /\ UNCHANGED <<pending, faults>>
      <4>1. answer'[p] = Caused(value[current[p]])
        BY <3>2
      <4>2. pc'[p] = IF Caused(value[current[p]]) THEN "withdraw" ELSE "record"
        BY <3>2, <4>1
      <4>3. QED BY <3>1, <3>2, <4>2
    <3>3. CASE Fault("reason") /\ pending' = pending \cup {current[p]} /\ Goto(p, "record")
      BY <3>1, <3>3
    <3>4. CASE Fault("unheard") /\ Goto(p, "record")
      BY <3>1, <3>4
    <3>5. QED BY <1>4, <3>2, <3>3, <3>4 DEF Recheck
  <2>2. Caused(value[current[p]]) <=>
            (Entailed(asserted) \/ Entailed(value[current[p]])) /\ ~Entailed(asserted)
    BY EntailedUnion DEF Caused
  <2>3. QED BY <1>0, <2>1, <2>2 DEF Grounded
<1>5. CASE Withdraw(p)
  <2>1. /\ pc[p] = "withdraw" /\ pc'[p] = "record" /\ UNCHANGED asserted
        /\ \/ inferred' = FALSE /\ UNCHANGED <<pending, faults>>
           \/ pending' # {} /\ faults' # {}
    BY <1>5 DEF Withdraw
  <2>2. QED BY <1>0, <2>1 DEF Grounded
<1>6. CASE Materialize(p)
  <2>1. /\ pc[p] = "materialize" /\ pc'[p] = "insert" /\ UNCHANGED <<asserted, inferred, pending>>
        /\ \/ answer'[p] = Caused(value[p]) /\ UNCHANGED faults
           \/ answer'[p] = FALSE /\ faults' # {}
    BY <1>6 DEF Materialize
  <2>2. Caused(value[p]) <=> Entailed(asserted \cup value[p]) /\ ~Entailed(asserted)
    BY DEF Caused
  <2>3. QED BY <1>0, <2>1, <2>2 DEF Grounded
<1>7. CASE Insert(p)
  <2>1. /\ pc[p] = "insert" /\ asserted' = asserted \cup value[p]
        /\ pc'[p] = IF answer[p] THEN "insertInferred" ELSE "claim"
        /\ UNCHANGED <<inferred, pending, faults, current>>
    BY <1>7 DEF Insert
  <2>2. Entailed(asserted) => Entailed(asserted')
    BY <2>1, EntailedUnion
  <2>3. QED BY <1>0, <2>1, <2>2 DEF Grounded
<1>8. CASE InsertInferred(p) \/ RebuildFill(p)
  <2>1. /\ pc[p] \in {"insertInferred", "rebuildFill"} /\ pc'[p] \in {"claim", "done"} /\ inferred' = TRUE
        /\ UNCHANGED asserted
    BY <1>8 DEF InsertInferred, RebuildFill
  <2>2. QED BY <2>1 DEF Grounded
<1>9. CASE RetractClaims(p)
  <2>1. /\ pc[p] = "retractClaims" /\ pc'[p] = "rebuildRead" /\ UNCHANGED <<asserted, inferred, faults>>
    BY <1>9 DEF RetractClaims
  <2>2. QED BY <1>0, <2>1 DEF Grounded
<1>10. CASE RebuildRead(p)
  <2>1. /\ pc[p] = "rebuildRead" /\ pc'[p] = "rebuildClear" /\ UNCHANGED <<asserted, inferred, pending>>
        /\ \/ answer'[p] = Entailed(asserted) /\ UNCHANGED faults
           \/ answer'[p] = FALSE /\ faults' # {}
    BY <1>10 DEF RebuildRead
  <2>2. QED BY <1>0, <2>1 DEF Grounded
<1>11. CASE RebuildClear(p)
  <2>1. /\ pc[p] = "rebuildClear" /\ inferred' = FALSE /\ UNCHANGED <<asserted, faults>>
        /\ pc'[p] = IF answer[p] THEN "rebuildFill" ELSE "done"
    BY <1>11 DEF RebuildClear
  <2>2. QED BY <1>0, <2>1 DEF Grounded
<1>12. CASE ChainFails(p)
  BY <1>12 DEF ChainFails
<1>13. QED BY <1>2, <1>3, <1>4, <1>5, <1>6, <1>7, <1>8, <1>9, <1>10, <1>11, <1>12 DEF Works, Commit

\* The inferred graph agrees while nobody is at work.
Matched ==
    /\ pending = {} /\ "unheard" \notin faults /\ inferred => Entailed(asserted)
    /\ faults = {} /\ Entailed(asserted) => inferred
Inferring == Tidy => (Quiet => Matched) /\ \A p \in Chain : pc[p] \notin Ended => Grounded(p)

LEMMA InferringStep ==
    TypeOK /\ TargetsExist /\ Alone /\ Inferring /\ [Next]_vars => Inferring'
<1> SUFFICES ASSUME TypeOK, TargetsExist, Alone, Inferring, [Next]_vars, Tidy'
             PROVE  (Quiet' => Matched') /\ \A p \in Chain : pc'[p] \notin Ended => Grounded(p)'
  BY DEF Inferring
<1>1. CASE UNCHANGED vars
  BY <1>1 DEF vars, Inferring, Tidy, Quiet, Matched, Grounded, Entailed
<1>2. ASSUME NEW p \in Chain, Starts(p)
      PROVE  (Quiet' => Matched') /\ \A q \in Chain : pc'[q] \notin Ended => Grounded(q)'
  <2>1. Tidy /\ Quiet /\ UNCHANGED <<inferred, pending>> /\ faults \subseteq faults'
    BY <1>2, StartShape DEF Tidy
  <2>2. Matched /\ \A q \in Chain \ {p} : pc'[q] \in Ended
    BY <1>2, <2>1, StartShape DEF Inferring, Quiet
  <2>3. \/ UNCHANGED asserted /\ pc'[p] \in {"done", "find", "claimed"}
        \/ asserted' \subseteq asserted /\ pc'[p] = "retractClaims"
    <3>1. ASSUME NEW v \in Value, Store(p, v) \/ Promote(p, v)
          PROVE  UNCHANGED asserted /\ pc'[p] \in {"done", "find", "claimed"}
      BY <3>1 DEF Store, Promote, TypeOK
    <3>2. ASSUME NEW facts, Retract(p, facts)
          PROVE  asserted' \subseteq asserted /\ pc'[p] = "retractClaims"
      BY <3>2 DEF Retract, TypeOK
    <3>3. QED BY <1>2, <3>1, <3>2 DEF Starts
  <2>4. Entailed(asserted') => Entailed(asserted)
    BY <2>3, EntailedUnion
  <2>5. (pc'[p] \in Ended => Matched') /\ Grounded(p)'
    BY <2>1, <2>2, <2>3, <2>4 DEF Matched, Grounded
  <2>6. QED BY <2>2, <2>5 DEF Quiet
<1>3. ASSUME NEW p \in Chain, Works(p)
      PROVE  (Quiet' => Matched') /\ \A q \in Chain : pc'[q] \notin Ended => Grounded(q)'
  <2>1. Tidy /\ pc[p] \notin Ended /\ \A q \in Chain \ {p} : pc'[q] = pc[q]
    BY <1>3, WorkShape DEF Tidy
  <2>2. Grounded(p) /\ \A q \in Chain \ {p} : pc'[q] \in Ended
    BY <2>1 DEF Inferring, Alone, Tidy
  <2>3. Grounded(p)'
    BY <1>3, <2>2, GroundedStep DEF Tidy
  <2>4. Quiet' => Matched'
    BY <2>3 DEF Quiet, Grounded, Matched
  <2>5. QED BY <2>2, <2>3, <2>4
<1>4. QED BY <1>1, <1>2, <1>3, NextShape

\* The inductive invariant of requests one after another.
InOrder == Alone /\ OneValue /\ InStep /\ Inferring

LEMMA InOrderInit == Init => InOrder
<1> SUFFICES ASSUME Init PROVE InOrder
  OBVIOUS
<1>1. /\ asserted = {} /\ inferred = FALSE
      /\ \A p \in Chain : pc[p] = "idle" /\ status[p] = "none"
  BY DEF Init
<1>2. Alone /\ OneValue
  BY <1>1 DEF Alone, OneValue, Storing, Checking
<1>3. InStep
  BY <1>1 DEF InStep, Agreed, AtMostOne, Claimed, Accepted
<1>4. Inferring
  BY <1>1 DEF Inferring, Matched, Entailed
<1>5. QED BY <1>2, <1>3, <1>4 DEF InOrder

\* All parts of the inductive invariant hold together.
LEMMA Inductive == Spec => []IInv
<1>1. Init => IInv
  <2> USE DEF Init
  <2>4. Init => TypeOK
    BY ZenonT(40) DEF TypeOK
  <2>5. Init => ClaimedAtEnd /\ TargetsExist
    BY DEF ClaimedAtEnd, TargetsExist
  <2>6. Init => AuditUnderWay /\ KindFits
    BY DEF AuditUnderWay, KindFits
  <2>1. Init => TypeOK /\ ClaimedAtEnd /\ TargetsExist /\ AuditUnderWay /\ KindFits
    BY <2>4, <2>5, <2>6
  <2>2. Init => Linked /\ AcyclicHistory /\ EveryTripleIsClaimed
    BY ConstantsAssumption DEF Linked, AcyclicHistory, EveryTripleIsClaimed
  <2>3. QED BY <2>1, <2>2 DEF IInv
<1>2. IInv /\ [Next]_vars => IInv'
  BY TypeStep, ClaimStep, TargetStep, LinkStep, AuditStep, KindStep, AcyclicStep, TripleStep DEF IInv
<1>3. QED BY <1>1, <1>2, PTL DEF Spec

-----------------------------------------------------------------------------

LEMMA Orders == Spec => []InOrder
<1>1. IInv => TypeOK /\ ClaimedAtEnd /\ TargetsExist
  BY DEF IInv
<1>2. TypeOK /\ ClaimedAtEnd /\ TargetsExist /\ InOrder /\ [Next]_vars => InOrder'
  BY AloneStep, OneValueStep, InStepStep, InferringStep DEF InOrder
<1>3. QED BY Inductive, InOrderInit, <1>1, <1>2, PTL DEF Spec

\* Every variable keeps its type, for any chains, values and failures.
THEOREM TypeCorrect == Spec => []TypeOK
<1>1. IInv => TypeOK
  BY DEF IInv
<1>2. QED BY <1>1, Inductive, PTL

\* The supersession history never becomes circular: no set of claims holds the
\* successor of each of its members.
THEOREM Acyclic == Spec => []AcyclicHistory
<1>1. IInv => AcyclicHistory
  BY DEF IInv
<1>2. QED BY <1>1, Inductive, PTL

\* Once the successor a claim names is done, the Conflict record naming both exists.
THEOREM Audited == Spec => []AuditComplete
<1>1. IInv => AuditComplete
  BY DEF IInv, AuditUnderWay, AuditComplete
<1>2. QED BY <1>1, Inductive, PTL

\* Without retractions and failed chains, no triple is left without a claim.
THEOREM TriplesAreClaimed == Spec => []EveryTripleIsClaimed
<1>1. IInv => EveryTripleIsClaimed
  BY DEF IInv
<1>2. QED BY <1>1, Inductive, PTL

\* Requests one after another leave one value of a functional property,
\* whatever they were and in whatever order, and however often the reasoner
\* failed, heard or unheard (commitFact, promoteToUserGraph, memory_retract).
THEOREM OneValueStands == Spec => []SingleValued
<1>1. InOrder => SingleValued
  BY DEF InOrder, InStep, Calm, Orderly, SingleValued, Agreed, AtMostOne
<1>2. QED BY <1>1, Orders, PTL

\* Requests one after another leave no accepted claim whose triple is gone:
\* what is superseded loses both, what is retracted loses both.
THEOREM ClaimsStand == Spec => []AcceptedIsAsserted
<1>1. InOrder => AcceptedIsAsserted
  BY DEF InOrder, InStep, Calm, Orderly, AcceptedIsAsserted, Agreed, Accepted
<1>2. QED BY <1>1, Orders, PTL

\* Requests one after another keep the inferred graph in agreement with what
\* is asserted, also when lookups and reads of claims fail: a derivation whose
\* support is gone is withdrawn, or remembered as an open repair.  The one failure
\* that is excluded is the one the code does not hear of: a reasoner that throws
\* over a retired triple, which materialize() answers with "nothing follows".
THEOREM InferredIsKept == Spec => []InferredAgrees
<1>1. InOrder => InferredAgrees
  BY DEF InOrder, Inferring, Tidy, Orderly, InferredAgrees, Matched
<1>2. QED BY <1>1, Orders, PTL
=============================================================================
