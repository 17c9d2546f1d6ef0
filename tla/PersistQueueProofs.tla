------------------------- MODULE PersistQueueProofs -------------------------
(***************************************************************************)
(* The chains of any number of sessions and turns, with any number of      *)
(* failing writes, throwing jobs and crashes.                              *)
(***************************************************************************)
EXTENDS PersistQueue, FiniteSetTheorems, SequenceTheorems, TLAPS

\* The turns that have not opened are as they were.
Unopened == \A t \in Turn : t > opened => turn[t].stage = "new"

\* A working graph is written once in each wave and once by the carry-over.
WritesFit ==
    \A t \in Turn :
        /\ turn[t].stage \in {"new", "open", "queued", "first"} => writes[t] = 0
        /\ turn[t].stage = "carry" => writes[t] <= 1
        /\ turn[t].stage = "second" => writes[t] <= 2
        /\ writes[t] <= 3
Typed == TypeOK /\ Unopened /\ WritesFit

(* A chain: the jobs in the order in which they were queued; all that have *)
(* begun but the last are done, those that have not wait for the one       *)
(* before them, and the tail is the last one unless it is done.            *)
StageAt(s, i) ==
    IF i < Len(begun[s]) THEN {"done"}
    ELSE IF i = Len(begun[s]) THEN {"first", "carry", "second", "done"} ELSE {"queued"}
WaitsAt(s, i) ==
    LET t == asked[s][i] IN
    \/ i > 1 /\ after[t] = asked[s][i - 1]
    \/ /\ after[t] = None /\ i = Len(begun[s]) + 1
       /\ i > 1 => turn[asked[s][i - 1]].stage = "done"
Jobs(s) ==
    /\ Len(begun[s]) <= Len(asked[s])
    /\ \A i \in 1 .. Len(begun[s]) : begun[s][i] = asked[s][i]
    /\ \A i, j \in 1 .. Len(asked[s]) : asked[s][i] = asked[s][j] => i = j
    /\ \A i \in 1 .. Len(asked[s]) : /\ turn[asked[s][i]].session = s
                                     /\ turn[asked[s][i]].stage \in StageAt(s, i)
                                     /\ i > Len(begun[s]) => WaitsAt(s, i)
Tail1(s) ==
    tail[s] = IF asked[s] # <<>> /\ turn[asked[s][Len(asked[s])]].stage # "done"
              THEN asked[s][Len(asked[s])] ELSE None

DoneOf(s) == {t \in Range(begun[s]) : turn[t].stage = "done"}
Count(s) ==
    Cardinality(DoneOf(s)) =
        IF begun[s] # <<>> /\ turn[begun[s][Len(begun[s])]].stage # "done"
        THEN Len(begun[s]) - 1 ELSE Len(begun[s])

Pending == {"queued", "first", "carry", "second"}
Covered ==
    \A t \in Turn : turn[t].stage \in Pending =>
        \E i \in 1 .. Len(asked[turn[t].session]) : asked[turn[t].session][i] = t
Chained == Covered /\ \A s \in Session : Jobs(s) /\ Tail1(s) /\ Count(s)

(* What a cycle takes over: the last cycle of a session is the last that   *)
(* was written with its attention, and that one is done.                   *)
LastIsAttended ==
    \A s \in Session :
        \/ /\ lastCycle[s] = None
           /\ \A i \in 1 .. Len(begun[s]) : begun[s][i] \notin attended
        \/ \E m \in 1 .. Len(begun[s]) :
              /\ lastCycle[s] = begun[s][m] /\ begun[s][m] \in attended
              /\ \A i \in m + 1 .. Len(begun[s]) : begun[s][i] \notin attended
NotYetCarried ==
    \A t \in Turn : turn[t].stage \in {"new", "open", "queued", "first", "carry"} =>
                        carriedFrom[t] = None
AttendedIsDone == \A t \in attended : turn[t].stage = "done"
ReadIsAttended ==
    closed \cup Range(promptFrom) \cup Range(carriedFrom) \subseteq attended \cup {None}
Carried ==
    LastIsAttended /\ NotYetCarried /\ AttendedIsDone /\ ReadIsAttended /\ CarriesFromPredecessor

\* A cycle whose first wave is over has its record, or missed it.
RecordedIsKnown ==
    \A s \in Session : \A i \in 1 .. Len(begun[s]) :
        turn[begun[s][i]].stage # "first" => begun[s][i] \in recorded \cup missed

IInv == Typed /\ Chained /\ Carried /\ RecordedIsKnown

-----------------------------------------------------------------------------
(* What a step does to the turns.                                          *)

TurnRecord == [session : Session, stage : Stages, attends : BOOLEAN]
Others(t) == \A u \in Turn \ {t} : turn'[u] = turn[u]
Moved(t, stages) ==
    /\ turn' \in [Turn -> TurnRecord] /\ Others(t)
    /\ turn'[t].session = turn[t].session /\ turn'[t].stage \in stages

\* A turn goes on to another stage.
LEMMA MoveTo ==
    ASSUME TypeOK, NEW t \in Turn, NEW stage \in Stages, NEW attends \in BOOLEAN,
           turn' = At(t, stage) \/ turn' = [turn EXCEPT ![t].stage = stage, ![t].attends = attends]
    PROVE  Moved(t, {stage})
<1>1. turn[t] \in TurnRecord
    BY DEF TypeOK, TurnRecord
<1>2. \/ turn' = [turn EXCEPT ![t] = [turn[t] EXCEPT !.stage = stage]]
      \/ turn' = [turn EXCEPT ![t] = [turn[t] EXCEPT !.stage = stage, !.attends = attends]]
    BY DEF At, TypeOK
<1>3. PICK r \in TurnRecord : /\ r.session = turn[t].session /\ r.stage = stage
                              /\ turn' = [turn EXCEPT ![t] = r]
    BY <1>1, <1>2 DEF TurnRecord
<1> QED BY <1>3 DEF TypeOK, TurnRecord, Moved, Others

\* The operations of a job move its turn, and no other one.
LEMMA JobSteps ==
    ASSUME TypeOK, NEW t \in Turn
    PROVE  /\ Begin(t) => turn[t].stage = "queued" /\ Moved(t, {"first"})
           /\ FirstWave(t) => turn[t].stage = "first" /\ Moved(t, {"carry", "second"})
           /\ CarryOver(t) => turn[t].stage = "carry" /\ Moved(t, {"second"})
           /\ SecondWave(t) => turn[t].stage = "second" /\ Moved(t, {"done"})
           /\ JobThrows(t) => Writing(t) /\ Moved(t, {"done"})
<1>0. {"first", "carry", "second", "done"} \subseteq Stages
    BY DEF Stages
<1>1. Begin(t) => turn[t].stage = "queued" /\ Moved(t, {"first"})
    BY <1>0, MoveTo DEF Begin, Ready
<1>2. FirstWave(t) => turn[t].stage = "first" /\ Moved(t, {"carry", "second"})
    <2>1. FirstWave(t) => turn[t].stage = "first" /\ (turn' = At(t, "carry") \/ turn' = At(t, "second"))
        BY DEF FirstWave
    <2> QED BY <1>0, <2>1, MoveTo DEF Moved
<1>3. CarryOver(t) => turn[t].stage = "carry" /\ Moved(t, {"second"})
    <2> SUFFICES ASSUME CarryOver(t) PROVE turn[t].stage = "carry" /\ Moved(t, {"second"})
        OBVIOUS
    <2>1. PICK attends \in BOOLEAN :
              turn' = [turn EXCEPT ![t].stage = "second", ![t].attends = attends]
        BY DEF CarryOver
    <2> QED BY <1>0, <2>1, MoveTo DEF CarryOver
<1>4. SecondWave(t) => turn[t].stage = "second" /\ Moved(t, {"done"})
    BY <1>0, MoveTo DEF SecondWave, Settle
<1>5. JobThrows(t) => Writing(t) /\ Moved(t, {"done"})
    BY <1>0, MoveTo DEF JobThrows, Settle
<1> QED BY <1>1, <1>2, <1>3, <1>4, <1>5

\* A turn that ends is queued, as its own session's or as the unknown one's.
LEMMA EnqueueStep ==
    ASSUME TypeOK, NEW t \in Turn, Finish(t) \/ Abort(t)
    PROVE  \E s \in Session :
               /\ turn[t].stage = "open" /\ Enqueue(t, s)
               /\ turn' \in [Turn -> TurnRecord] /\ Others(t)
               /\ turn'[t].session = s /\ turn'[t].stage = "queued"
<1>1. turn[t] \in TurnRecord /\ turn[t].session \in Session
    BY DEF TypeOK, TurnRecord
<1>2. PICK s \in Session : turn[t].stage = "open" /\ Enqueue(t, s)
    BY <1>1, ConstantsAssumption DEF Finish, Abort
<1> DEFINE r == [turn[t] EXCEPT !.stage = "queued", !.session = s]
<1>3. r \in TurnRecord /\ r.session = s /\ r.stage = "queued"
    BY <1>1 DEF TurnRecord, Stages
<1>4. turn' = [turn EXCEPT ![t] = r]
    BY <1>2 DEF Enqueue, TypeOK
<1> HIDE DEF r
<1>5. turn' \in [Turn -> TurnRecord] /\ Others(t) /\ turn'[t] = r
    BY <1>3, <1>4 DEF TypeOK, TurnRecord, Others
<1> QED BY <1>2, <1>3, <1>5

\* The next turn opens.
LEMMA OpenStep ==
    ASSUME Typed, Open
    PROVE  \E t \in Turn :
               /\ t = opened + 1 /\ opened' = t /\ turn[t].stage = "new"
               /\ turn' \in [Turn -> TurnRecord] /\ Others(t) /\ turn'[t].stage = "open"
               /\ \E s \in Session : promptFrom' = [promptFrom EXCEPT ![t] = lastCycle[s]]
<1>1. PICK s \in Session, attends \in BOOLEAN :
          /\ opened < Turns /\ opened' = opened + 1
          /\ turn' = [turn EXCEPT ![opened'] =
                        [session |-> s, stage |-> "open", attends |-> attends]]
          /\ promptFrom' = [promptFrom EXCEPT ![opened'] = lastCycle[s]]
    BY DEF Open, Newest
<1>2. opened + 1 \in Turn /\ opened + 1 > opened
    BY <1>1, ConstantsAssumption DEF Typed, TypeOK, Turn
<1>3. [session |-> s, stage |-> "open", attends |-> attends] \in TurnRecord
    BY DEF TurnRecord, Stages
<1>4. turn[opened + 1].stage = "new"
    BY <1>2 DEF Typed, Unopened
<1>5. /\ turn' \in [Turn -> TurnRecord] /\ Others(opened + 1) /\ turn'[opened + 1].stage = "open"
    BY <1>1, <1>2, <1>3 DEF Typed, TypeOK, TurnRecord, Others
<1> QED BY <1>1, <1>2, <1>4, <1>5

LEMMA CrashStep ==
    ASSUME TypeOK, Crash
    PROVE  /\ turn' \in [Turn -> TurnRecord]
           /\ \A t \in Turn : /\ turn'[t].stage = IF turn[t].stage \in {"new", "done"}
                                                  THEN turn[t].stage ELSE "lost"
<1>1. \A t \in Turn : LET r == [turn[t] EXCEPT !.stage = "lost"] IN
          turn[t] \in TurnRecord /\ r \in TurnRecord /\ r.stage = "lost"
    BY DEF TypeOK, TurnRecord, Stages
<1>2. turn' = [t \in Turn |-> IF turn[t].stage \in {"new", "done"} THEN turn[t]
                              ELSE [turn[t] EXCEPT !.stage = "lost"]]
    BY DEF Crash
<1> QED BY <1>1, <1>2

\* The bound on mishaps is kept.
LEMMA FailingTyped ==
    ASSUME TypeOK, NEW writing, IsFiniteSet(writing), Failing(writing)
    PROVE  mishaps' \in 0 .. MaxMishaps
<1>1. Cardinality(writing) \in Nat
    BY FS_CardinalityType
<1> QED BY <1>1, ConstantsAssumption DEF TypeOK, Failing

LEMMA FailsAreFinite ==
    /\ \A fails \in SUBSET {"graph", "record", "traces", "close"} : IsFiniteSet(fails)
    /\ \A fails \in SUBSET {"copy", "attend"} : IsFiniteSet(fails)
    /\ \A fails \in SUBSET {"attend"} : IsFiniteSet(fails)
    /\ IsFiniteSet({"job"})
<1>1. IsFiniteSet({"graph"}) /\ IsFiniteSet({"attend"}) /\ IsFiniteSet({"job"})
    BY FS_Singleton
<1>2. IsFiniteSet({"graph"} \cup {"record"})
    BY <1>1, FS_AddElement
<1>3. IsFiniteSet(({"graph"} \cup {"record"}) \cup {"traces"})
    BY <1>2, FS_AddElement
<1>4. IsFiniteSet((({"graph"} \cup {"record"}) \cup {"traces"}) \cup {"close"})
    BY <1>3, FS_AddElement
<1>5. IsFiniteSet({"attend"} \cup {"copy"})
    BY <1>1, FS_AddElement
<1>6. /\ {"graph", "record", "traces", "close"}
             = (({"graph"} \cup {"record"}) \cup {"traces"}) \cup {"close"}
      /\ {"copy", "attend"} = {"attend"} \cup {"copy"}
    OBVIOUS
<1> QED BY <1>1, <1>4, <1>5, <1>6, FS_Subset

-----------------------------------------------------------------------------
\* Types: every variable keeps its type, and a graph is written at most once in
\* each phase of its job.
LEMMA TypedInit == Init => Typed
<1> SUFFICES ASSUME Init PROVE Typed
    OBVIOUS
<1>1. NewTurn \in TurnRecord /\ NewTurn.stage = "new"
    BY ConstantsAssumption DEF NewTurn, TurnRecord, Stages
<1>2. TypeOK
    BY <1>1, ConstantsAssumption DEF Init, TypeOK, TurnRecord
<1>3. Unopened /\ WritesFit
    BY <1>1 DEF Init, Unopened, WritesFit
<1> QED BY <1>2, <1>3 DEF Typed

\* A turn that has opened moves on, and the writes follow its stage.
LEMMA TypedTurn ==
    ASSUME Typed, NEW t \in Turn, turn[t].stage # "new", Others(t),
           turn' \in [Turn -> TurnRecord], opened' = opened,
           \/ UNCHANGED writes
           \/ writes' = [writes EXCEPT ![t] = @ + 1],
           /\ turn'[t].stage \in {"open", "queued", "first"} => writes'[t] = 0
           /\ turn'[t].stage = "carry" => writes'[t] <= 1
           /\ turn'[t].stage = "second" => writes'[t] <= 2,
           turn'[t].stage # "new", writes'[t] <= 3
    PROVE  Unopened' /\ WritesFit' /\ writes' \in [Turn -> 0 .. 4]
<1>1. Unopened'
    BY DEF Typed, Unopened, Others, Turn
<1>2. writes' \in [Turn -> 0 .. 4]
    <2>1. writes \in [Turn -> 0 .. 4] /\ writes[t] \in 0 .. 4 /\ writes[t] <= 3
        BY DEF Typed, TypeOK, WritesFit
    <2>2. writes[t] + 1 \in 0 .. 4
        BY <2>1
    <2> QED BY <2>1, <2>2
<1>3. \A u \in Turn \ {t} : writes'[u] = writes[u] /\ turn'[u] = turn[u]
    BY DEF Typed, TypeOK, Others
<1>4. WritesFit'
    BY <1>3 DEF Typed, WritesFit, Turn
<1> QED BY <1>1, <1>2, <1>4

LEMMA TypedStep == ASSUME Typed, [Next]_vars PROVE Typed'
<1> USE DEF Typed
<1>1. ASSUME Open PROVE Typed'
    <2>1. PICK t \in Turn :
              /\ t = opened + 1 /\ opened' = t /\ turn[t].stage = "new"
              /\ turn' \in [Turn -> TurnRecord] /\ Others(t) /\ turn'[t].stage = "open"
              /\ \E s \in Session : promptFrom' = [promptFrom EXCEPT ![t] = lastCycle[s]]
        BY <1>1, OpenStep
    <2>2. UNCHANGED <<memory, store, mishaps, writes, attended, missed, asked, begun>>
        BY <1>1 DEF Open
    <2>3. promptFrom' \in [Turn -> Turn \cup {None}] /\ opened' \in 0 .. Turns
        BY <2>1, ConstantsAssumption DEF TypeOK, Turn
    <2>4. TypeOK'
        BY <2>1, <2>2, <2>3 DEF TypeOK, TurnRecord, memory, store, Turn
    <2>5. Unopened'
        BY <2>1 DEF TypeOK, Unopened, Others, Turn
    <2>6. WritesFit'
        BY <2>1, <2>2 DEF WritesFit, Others, Turn
    <2> QED BY <2>4, <2>5, <2>6
<1>2. ASSUME NEW t \in Turn, Finish(t) \/ Abort(t) PROVE Typed'
    <2>1. PICK s \in Session :
              /\ turn[t].stage = "open" /\ Enqueue(t, s)
              /\ turn' \in [Turn -> TurnRecord] /\ Others(t)
              /\ turn'[t].session = s /\ turn'[t].stage = "queued"
        BY <1>2, EnqueueStep
    <2>2. UNCHANGED <<opened, lastCycle, traces, consolidating, flush, store, mishaps,
                      promptFrom, writes, attended, missed, begun>>
        BY <2>1 DEF Enqueue
    <2>3. /\ after' \in [Turn -> Turn \cup {None}] /\ tail' \in [Session -> Turn \cup {None}]
          /\ asked' \in [Session -> Seq(Turn)]
        BY <2>1 DEF Enqueue, TypeOK
    <2>4. Unopened' /\ WritesFit'
        BY <2>1, <2>2, TypedTurn DEF WritesFit
    <2> QED BY <2>1, <2>2, <2>3, <2>4 DEF TypeOK, TurnRecord, store, Turn
<1>3. ASSUME NEW t \in Turn, Begin(t) PROVE Typed'
    <2>1. turn[t].stage = "queued" /\ Moved(t, {"first"})
        BY <1>3, JobSteps
    <2>2. UNCHANGED <<opened, tail, lastCycle, traces, consolidating, flush, store, mishaps,
                      promptFrom, writes, attended, missed, asked>>
        BY <1>3 DEF Begin
    <2>3. turn[t].session \in Session
        BY DEF TypeOK
    <2>4. after' \in [Turn -> Turn \cup {None}] /\ begun' \in [Session -> Seq(Turn)]
        BY <1>3, <2>3 DEF Begin, TypeOK
    <2>5. Unopened' /\ WritesFit'
        BY <2>1, <2>2, TypedTurn DEF WritesFit, Moved
    <2> QED BY <2>1, <2>2, <2>4, <2>5 DEF TypeOK, TurnRecord, Moved, store, Turn
<1>4. ASSUME NEW t \in Turn, FirstWave(t) PROVE Typed'
    <2>1. turn[t].stage = "first" /\ Moved(t, {"carry", "second"})
        BY <1>4, JobSteps
    <2>2. UNCHANGED <<opened, tail, after, lastCycle, flush, carriedFrom, promptFrom,
                      attended, asked, begun>>
        BY <1>4 DEF FirstWave
    <2>3. PICK fails \in SUBSET {"graph", "record", "traces", "close"} :
              /\ Failing(fails) /\ WriteGraph(t, fails) /\ RecordCycle(t, fails)
              /\ RecordTraces(t, fails) /\ ClosePrevious(t, fails)
        BY <1>4 DEF FirstWave
    <2>4. mishaps' \in 0 .. MaxMishaps
        BY <2>3, FailsAreFinite, FailingTyped
    <2>5. recorded' \subseteq Turn /\ missed' \subseteq Turn
        BY <2>3 DEF RecordCycle, TypeOK
    <2>6. traces' \in 0 .. Threshold - 1 /\ consolidating' \subseteq Turn
        BY <2>3, ConstantsAssumption DEF RecordTraces, NoteTraces, TypeOK
    <2>7. closed' \subseteq Turn
        <3>1. turn[t].session \in Session
            BY DEF TypeOK
        <3> QED BY <2>3, <3>1 DEF ClosePrevious, Previous, Newest, TypeOK
    <2>8. UNCHANGED writes \/ writes' = [writes EXCEPT ![t] = @ + 1]
        BY <2>3 DEF WriteGraph
    <2>9. writes'[t] \in 0 .. 1
        <3>1. writes[t] = 0 /\ writes \in [Turn -> 0 .. 4]
            BY <2>1 DEF WritesFit, TypeOK
        <3> QED BY <2>8, <3>1
    <2>10. Unopened' /\ WritesFit' /\ writes' \in [Turn -> 0 .. 4]
        BY <2>1, <2>2, <2>8, <2>9, TypedTurn DEF Moved
    <2>11. turn' \in [Turn -> TurnRecord]
        BY <2>1 DEF Moved
    <2>12. TypeOK'
        BY <2>2, <2>4, <2>5, <2>6, <2>7, <2>10, <2>11 DEF TypeOK, TurnRecord, Turn
    <2> QED BY <2>10, <2>12
<1>5. ASSUME NEW t \in Turn, CarryOver(t) PROVE Typed'
    <2>1. turn[t].stage = "carry" /\ Moved(t, {"second"})
        BY <1>5, JobSteps
    <2>2. UNCHANGED <<opened, memory, recorded, closed, promptFrom, attended, missed, asked, begun>>
        BY <1>5 DEF CarryOver
    <2>3. PICK fails \in SUBSET {"copy", "attend"} : Failing(fails) /\ Copy(t, fails)
        BY <1>5 DEF CarryOver
    <2>4. mishaps' \in 0 .. MaxMishaps
        BY <2>3, FailsAreFinite, FailingTyped
    <2>5. carriedFrom' \in [Turn -> Turn \cup {None}]
        <3>1. turn[t].session \in Session
            BY DEF TypeOK
        <3> QED BY <2>3, <3>1 DEF Copy, Previous, Newest, TypeOK
    <2>6. UNCHANGED writes \/ writes' = [writes EXCEPT ![t] = @ + 1]
        BY <2>3 DEF Copy
    <2>7. writes'[t] \in 0 .. 2
        <3>1. writes[t] \in 0 .. 1 /\ writes \in [Turn -> 0 .. 4]
            <4>1. writes \in [Turn -> 0 .. 4] /\ writes[t] \in 0 .. 4
                BY DEF TypeOK
            <4>2. writes[t] <= 1
                BY <2>1 DEF WritesFit
            <4> QED BY <4>1, <4>2
        <3> QED BY <2>6, <3>1
    <2>8. Unopened' /\ WritesFit' /\ writes' \in [Turn -> 0 .. 4]
        BY <2>1, <2>2, <2>6, <2>7, TypedTurn DEF Moved
    <2>9. TypeOK'
        BY <2>1, <2>2, <2>4, <2>5, <2>8 DEF TypeOK, TurnRecord, Moved, memory, Turn
    <2> QED BY <2>8, <2>9
<1>6. ASSUME NEW t \in Turn, SecondWave(t) PROVE Typed'
    <2>1. turn[t].stage = "second" /\ Moved(t, {"done"})
        BY <1>6, JobSteps
    <2>2. UNCHANGED <<opened, after, traces, consolidating, flush, store,
                      promptFrom, missed, asked, begun>>
        BY <1>6 DEF SecondWave
    <2>3. PICK fails \in SUBSET {"attend"} : Failing(fails) /\ Attend(t, fails)
        BY <1>6 DEF SecondWave
    <2>4. mishaps' \in 0 .. MaxMishaps
        BY <2>3, FailsAreFinite, FailingTyped
    <2>5. tail' \in [Session -> Turn \cup {None}]
        BY <1>6 DEF SecondWave, Settle, TypeOK
    <2>6. lastCycle' \in [Session -> Turn \cup {None}] /\ attended' \subseteq Turn
        <3>1. lastCycle' = lastCycle \/ lastCycle' = [lastCycle EXCEPT ![turn[t].session] = t]
            BY <2>3 DEF Attend
        <3>2. attended' = attended \/ attended' = attended \cup {t}
            BY <2>3 DEF Attend
        <3>3. lastCycle \in [Session -> Turn \cup {None}] /\ attended \subseteq Turn
            BY DEF TypeOK
        <3> QED BY <3>1, <3>2, <3>3
    <2>7. UNCHANGED writes \/ writes' = [writes EXCEPT ![t] = @ + 1]
        BY <2>3 DEF Attend
    <2>8. writes'[t] \in 0 .. 3
        <3>1. writes[t] \in 0 .. 2 /\ writes \in [Turn -> 0 .. 4]
            <4>1. writes \in [Turn -> 0 .. 4] /\ writes[t] \in 0 .. 4
                BY DEF TypeOK
            <4>2. writes[t] <= 2
                BY <2>1 DEF WritesFit
            <4> QED BY <4>1, <4>2
        <3> QED BY <2>7, <3>1
    <2>9. Unopened' /\ WritesFit' /\ writes' \in [Turn -> 0 .. 4]
        BY <2>1, <2>2, <2>7, <2>8, TypedTurn DEF Moved
    <2>10. TypeOK'
        BY <2>1, <2>2, <2>4, <2>5, <2>6, <2>9 DEF TypeOK, TurnRecord, Moved, store, Turn
    <2> QED BY <2>9, <2>10
<1>7. ASSUME NEW t \in Turn, JobThrows(t) PROVE Typed'
    <2>1. Writing(t) /\ Moved(t, {"done"})
        BY <1>7, JobSteps
    <2>2. UNCHANGED <<opened, after, lastCycle, traces, consolidating, flush, store,
                      promptFrom, writes, attended, asked, begun>>
        BY <1>7 DEF JobThrows
    <2>3. mishaps' \in 0 .. MaxMishaps
        BY <1>7, FailsAreFinite, FailingTyped DEF JobThrows
    <2>4. tail' \in [Session -> Turn \cup {None}] /\ missed' \subseteq Turn
        BY <1>7 DEF JobThrows, Settle, TypeOK
    <2>5. turn[t].stage # "new" /\ writes[t] <= 3
        BY <2>1 DEF Writing, WritesFit
    <2>6. Unopened' /\ WritesFit'
        BY <2>1, <2>2, <2>5, TypedTurn DEF Moved, TypeOK
    <2>7. TypeOK'
        BY <2>1, <2>2, <2>3, <2>4 DEF TypeOK, TurnRecord, Moved, store, Turn
    <2> QED BY <2>6, <2>7
<1>8. ASSUME NEW t \in Turn, Consolidated(t) PROVE Typed'
    <2>1. traces' \in 0 .. Threshold - 1 /\ consolidating' \subseteq Turn
        BY <1>8, ConstantsAssumption DEF Consolidated, TypeOK
    <2>2. UNCHANGED <<opened, turn, tail, after, lastCycle, flush, store, mishaps, history>>
        BY <1>8 DEF Consolidated
    <2> QED BY <2>1, <2>2 DEF TypeOK, Unopened, WritesFit, store, history, Turn
<1>9. ASSUME Stop \/ FlushAnswers PROVE Typed'
    BY <1>9 DEF Stop, FlushAnswers, TypeOK, Unopened, WritesFit, store, history, Turn
<1>10. ASSUME Crash PROVE Typed'
    <2>1. /\ turn' \in [Turn -> TurnRecord]
          /\ \A t \in Turn : turn'[t].stage = IF turn[t].stage \in {"new", "done"}
                                              THEN turn[t].stage ELSE "lost"
        BY <1>10, CrashStep
    <2>2. /\ UNCHANGED <<opened, store, promptFrom, writes, attended, missed>>
          /\ mishaps' \in 0 .. MaxMishaps
        BY <1>10, ConstantsAssumption DEF Crash, TypeOK
    <2>3. /\ tail' \in [Session -> Turn \cup {None}] /\ after' \in [Turn -> Turn \cup {None}]
          /\ lastCycle' \in [Session -> Turn \cup {None}] /\ traces' \in 0 .. Threshold - 1
          /\ consolidating' = {} /\ flush' = "no"
          /\ asked' \in [Session -> Seq(Turn)] /\ begun' \in [Session -> Seq(Turn)]
        BY <1>10, ConstantsAssumption DEF Crash, TypeOK
    <2>4. TypeOK'
        BY <2>1, <2>2, <2>3 DEF TypeOK, TurnRecord, store, Turn
    <2>5. Unopened' /\ WritesFit'
        BY <2>1, <2>2 DEF Unopened, WritesFit, Turn
    <2> QED BY <2>4, <2>5
<1>11. CASE UNCHANGED vars
    BY <1>11 DEF vars, memory, store, history, TypeOK, Unopened, WritesFit, Turn
<1> QED BY <1>1, <1>2, <1>3, <1>4, <1>5, <1>6, <1>7, <1>8, <1>9, <1>10, <1>11
        DEF Next, JobStep

-----------------------------------------------------------------------------
(* The chains.                                                             *)

\* The sequences of a chain, and what is in them.
LEMMA ChainTypes ==
    ASSUME TypeOK, NEW s \in Session
    PROVE  /\ asked[s] \in Seq(Turn) /\ begun[s] \in Seq(Turn)
           /\ Len(asked[s]) \in Nat /\ Len(begun[s]) \in Nat
           /\ \A i \in 1 .. Len(asked[s]) : asked[s][i] \in Turn
           /\ \A i \in 1 .. Len(begun[s]) : begun[s][i] \in Turn
           /\ asked[s] = <<>> <=> Len(asked[s]) = 0
           /\ begun[s] = <<>> <=> Len(begun[s]) = 0
           /\ None \notin Turn
<1>1. asked[s] \in Seq(Turn) /\ begun[s] \in Seq(Turn)
    BY DEF TypeOK
<1>2. None \notin Turn
    BY ConstantsAssumption DEF Turn
<1> QED BY <1>1, <1>2

\* A sequence with one more element.
LEMMA Appended ==
    ASSUME NEW S, NEW q \in Seq(S), NEW e \in S
    PROVE  LET v == Append(q, e) IN
           /\ Len(q) \in Nat /\ DOMAIN q = 1 .. Len(q) /\ v # <<>> /\ Len(v) = Len(q) + 1
           /\ DOMAIN v = 1 .. Len(q) + 1 /\ v[Len(q) + 1] = e
           /\ \A i \in 1 .. Len(q) : v[i] = q[i]
    OBVIOUS

\* A job that writes is the last one of its chain that has begun, and nowhere
\* else.
LEMMA Located ==
    ASSUME TypeOK, Chained, NEW t \in Turn, Writing(t)
    PROVE  LET s == turn[t].session n == Len(begun[s]) IN
           /\ s \in Session /\ n \in 1 .. Len(asked[s]) /\ begun[s][n] = t /\ asked[s][n] = t
           /\ \A z \in Session : \A i \in 1 .. Len(asked[z]) :
                  asked[z][i] = t => z = s /\ i = n
<1> DEFINE s == turn[t].session n == Len(begun[s])
<1>1. s \in Session
    BY DEF TypeOK
<1>2. PICK k \in 1 .. Len(asked[s]) : asked[s][k] = t
    BY DEF Chained, Covered, Pending, Writing
<1>3. Jobs(s)
    BY <1>1 DEF Chained
<1>4. k = n
    BY <1>1, <1>2, <1>3, ChainTypes DEF Jobs, StageAt, Writing
<1>5. begun[s][n] = t
    BY <1>1, <1>2, <1>3, <1>4, ChainTypes DEF Jobs
<1>6. \A z \in Session : \A i \in 1 .. Len(asked[z]) : asked[z][i] = t => z = s /\ i = n
    <2> SUFFICES ASSUME NEW z \in Session, NEW i \in 1 .. Len(asked[z]), asked[z][i] = t
                 PROVE  z = s /\ i = n
        OBVIOUS
    <2>1. z = s
        BY DEF Chained, Jobs
    <2> QED BY <1>2, <1>3, <1>4, <2>1 DEF Jobs
<1> QED BY <1>1, <1>2, <1>4, <1>5, <1>6

\* A turn that is new, open or lost is in no chain.
LEMMA Unchained ==
    ASSUME Chained, NEW t \in Turn, turn[t].stage \in {"new", "open", "lost"}
    PROVE  \A z \in Session : \A i \in 1 .. Len(asked[z]) : asked[z][i] # t
<1> SUFFICES ASSUME NEW z \in Session, NEW i \in 1 .. Len(asked[z]), asked[z][i] = t
             PROVE  FALSE
    OBVIOUS
<1> QED BY DEF Chained, Jobs, StageAt

\* What has begun is what was asked for.
LEMMA BegunIsAsked ==
    ASSUME TypeOK, Chained, NEW s \in Session
    PROVE  /\ Len(begun[s]) <= Len(asked[s])
           /\ \A i \in 1 .. Len(begun[s]) : i \in 1 .. Len(asked[s]) /\ begun[s][i] = asked[s][i]
           /\ \A t : t \in Range(begun[s]) <=> \E i \in 1 .. Len(begun[s]) : begun[s][i] = t
           /\ Range(begun[s]) \subseteq Turn
           /\ DoneOf(s) \subseteq Turn /\ IsFiniteSet(DoneOf(s))
<1>1. Jobs(s) /\ begun[s] \in Seq(Turn) /\ Len(asked[s]) \in Nat /\ Len(begun[s]) \in Nat
    BY ChainTypes DEF Chained
<1>2. /\ Len(begun[s]) <= Len(asked[s])
      /\ \A i \in 1 .. Len(begun[s]) : i \in 1 .. Len(asked[s]) /\ begun[s][i] = asked[s][i]
    BY <1>1 DEF Jobs
<1>3. DOMAIN begun[s] = 1 .. Len(begun[s])
    BY <1>1
<1>4. \A t : t \in Range(begun[s]) <=> \E i \in 1 .. Len(begun[s]) : begun[s][i] = t
    BY <1>3 DEF Range
<1>5. Range(begun[s]) \subseteq Turn /\ DoneOf(s) \subseteq Turn
    BY <1>4, ChainTypes DEF DoneOf
<1>6. IsFiniteSet(Turn)
    BY FS_Interval, ConstantsAssumption DEF Turn
<1> QED BY <1>2, <1>4, <1>5, <1>6, FS_Subset

\* A job goes on.
LEMMA ChainedGoesOn ==
    ASSUME TypeOK, Chained, NEW t \in Turn, Writing(t), Moved(t, {"first", "carry", "second"}),
           UNCHANGED <<tail, after, asked, begun>>
    PROVE  Chained' /\ \A s \in Session : DoneOf(s)' = DoneOf(s)
<1>1. \A u \in Turn : /\ turn'[u].session = turn[u].session
                      /\ (turn'[u].stage = "done") <=> (turn[u].stage = "done")
                      /\ turn'[u].stage \in Pending <=> turn[u].stage \in Pending
                      /\ u # t => turn'[u] = turn[u]
    BY DEF Moved, Others, Writing, Pending
<1>2. Covered'
    BY <1>1 DEF Chained, Covered, Turn
<1>3. ASSUME NEW s \in Session PROVE Jobs(s)' /\ Tail1(s)' /\ Count(s)' /\ DoneOf(s)' = DoneOf(s)
    <2>1. Jobs(s) /\ Tail1(s) /\ Count(s)
        BY DEF Chained
    <2>2. DoneOf(s)' = DoneOf(s)
        <3>1. Range(begun[s]) \subseteq Turn
            BY BegunIsAsked
        <3> QED BY <1>1, <3>1 DEF DoneOf
    <2>3. Count(s)'
        BY <1>1, <2>1, <2>2, ChainTypes DEF Count
    <2>4. Tail1(s)'
        BY <1>1, <2>1, ChainTypes DEF Tail1
    <2>5. ASSUME NEW i \in 1 .. Len(asked[s])
          PROVE  /\ turn'[asked[s][i]].session = s /\ turn'[asked[s][i]].stage \in StageAt(s, i)'
                 /\ i > Len(begun[s]) => WaitsAt(s, i)'
        <3>1. asked[s][i] \in Turn /\ (i > 1 => asked[s][i - 1] \in Turn)
            BY ChainTypes
        <3>2. turn'[asked[s][i]].session = s
            BY <1>1, <2>1, <3>1 DEF Jobs
        <3>3. turn'[asked[s][i]].stage \in StageAt(s, i)'
            <4>1. CASE asked[s][i] = t
                <5>1. i = Len(begun[s])
                    BY <4>1, Located
                <5> QED BY <4>1, <5>1, ChainTypes DEF Moved, StageAt
            <4>2. CASE asked[s][i] # t
                BY <1>1, <2>1, <3>1, <4>2 DEF Jobs, StageAt
            <4> QED BY <4>1, <4>2
        <3>4. i > Len(begun[s]) => WaitsAt(s, i)'
            BY <1>1, <2>1, <3>1 DEF Jobs, WaitsAt
        <3> QED BY <3>2, <3>3, <3>4
    <2>6. Jobs(s)'
        BY <2>1, <2>5 DEF Jobs
    <2> QED BY <2>2, <2>3, <2>4, <2>6
<1> QED BY <1>2, <1>3 DEF Chained

\* A job settles: one more of its chain is done.
LEMMA ChainedSettles ==
    ASSUME TypeOK, Chained, NEW t \in Turn, Writing(t), Moved(t, {"done"}),
           tail' = [tail EXCEPT ![turn[t].session] = IF @ = t THEN None ELSE @],
           UNCHANGED <<after, asked, begun>>
    PROVE  /\ Chained'
           /\ LET s == turn[t].session IN
              /\ Cardinality(DoneOf(s)) = Len(begun[s]) - 1
              /\ Cardinality(DoneOf(s)') = Len(begun[s])
              /\ \A z \in Session \ {s} : DoneOf(z)' = DoneOf(z)
<1> DEFINE here == turn[t].session
<1>1. /\ here \in Session /\ turn[t].stage # "done" /\ turn'[t].stage = "done"
      /\ \A u \in Turn : /\ turn'[u].session = turn[u].session
                         /\ u # t => turn'[u] = turn[u]
                         /\ turn[u].stage = "done" => turn'[u].stage = "done"
    BY DEF Moved, Others, Writing, TypeOK
<1>2. Covered'
    BY <1>1 DEF Chained, Covered, Pending, Turn
<1>3. /\ begun[here][Len(begun[here])] = t /\ begun[here] # <<>>
      /\ \A z \in Session : \A i \in 1 .. Len(asked[z]) :
             asked[z][i] = t => z = here /\ i = Len(begun[here])
      /\ Len(begun[here]) \in 1 .. Len(asked[here]) /\ asked[here][Len(begun[here])] = t
    BY <1>1, Located, ChainTypes
<1>4. ASSUME NEW z \in Session \ {here} PROVE DoneOf(z)' = DoneOf(z)
    <2>1. Range(begun[z]) \subseteq Turn /\ t \notin Range(begun[z])
        <3>1. z \in Session /\ z # here
            OBVIOUS
        <3>2. /\ \A i \in 1 .. Len(begun[z]) : i \in 1 .. Len(asked[z]) /\ begun[z][i] = asked[z][i]
              /\ \A u : u \in Range(begun[z]) <=> \E i \in 1 .. Len(begun[z]) : begun[z][i] = u
              /\ Range(begun[z]) \subseteq Turn
            BY <3>1, BegunIsAsked
        <3> QED BY <1>3, <3>1, <3>2
    <2> QED BY <1>1, <2>1 DEF DoneOf
<1>5. /\ Cardinality(DoneOf(here)) = Len(begun[here]) - 1
      /\ Cardinality(DoneOf(here)') = Len(begun[here])
    <2>1. Cardinality(DoneOf(here)) = Len(begun[here]) - 1
        BY <1>1, <1>3 DEF Chained, Count
    <2>2. DoneOf(here)' = DoneOf(here) \cup {t}
        <3>1. t \in Range(begun[here]) /\ Range(begun[here]) \subseteq Turn
            <4>1. Len(begun[here]) \in 1 .. Len(begun[here])
                BY <1>1, <1>3, ChainTypes
            <4> QED BY <1>1, <1>3, <4>1, BegunIsAsked
        <3> QED BY <1>1, <3>1 DEF DoneOf
    <2>3. t \notin DoneOf(here) /\ IsFiniteSet(DoneOf(here))
        BY <1>1, BegunIsAsked DEF DoneOf
    <2>4. Cardinality(DoneOf(here) \cup {t}) = Cardinality(DoneOf(here)) + 1
        BY <2>3, FS_AddElement
    <2>5. Len(begun[here]) \in Nat
        BY <1>1, ChainTypes
    <2> QED BY <2>1, <2>2, <2>4, <2>5
<1>6. ASSUME NEW s \in Session PROVE Jobs(s)' /\ Tail1(s)' /\ Count(s)'
    <2>1. Jobs(s) /\ Tail1(s) /\ Count(s)
        BY DEF Chained
    <2>2. Count(s)'
        <3>1. CASE s = here
            BY <1>1, <1>3, <1>5, <3>1, ChainTypes DEF Count
        <3>2. CASE s # here
            <4>1. \A i \in 1 .. Len(begun[s]) : begun[s][i] # t
                BY <1>3, <3>2, BegunIsAsked
            <4> QED BY <1>1, <1>4, <2>1, <3>2, <4>1, ChainTypes DEF Count
        <3> QED BY <3>1, <3>2
    <2>3. Tail1(s)'
        <3> DEFINE last == asked[s][Len(asked[s])]
        <3>1. CASE asked[s] # <<>> /\ last = t
            <4>1. s = here /\ tail[s] = t
                BY <1>1, <1>3, <2>1, <3>1, ChainTypes DEF Tail1
            <4> QED BY <1>1, <3>1, <4>1 DEF Tail1, TypeOK
        <3>2. CASE asked[s] # <<>> /\ last # t
            <4>1. last \in Turn /\ turn'[last] = turn[last] /\ t # None
                BY <1>1, <3>2, ChainTypes
            <4>2. tail[s] # t /\ tail'[s] = tail[s]
                BY <1>1, <2>1, <3>2, <4>1 DEF Tail1, TypeOK
            <4> QED BY <2>1, <3>2, <4>1, <4>2 DEF Tail1
        <3>3. CASE asked[s] = <<>>
            <4>1. tail[s] = None /\ t # None
                BY <2>1, <3>3, ChainTypes DEF Tail1
            <4> QED BY <1>1, <3>3, <4>1 DEF Tail1, TypeOK
        <3> QED BY <3>1, <3>2, <3>3
    <2>4. ASSUME NEW i \in 1 .. Len(asked[s])
          PROVE  /\ turn'[asked[s][i]].session = s /\ turn'[asked[s][i]].stage \in StageAt(s, i)'
                 /\ i > Len(begun[s]) => WaitsAt(s, i)'
        <3>1. asked[s][i] \in Turn /\ (i > 1 => asked[s][i - 1] \in Turn)
            BY ChainTypes
        <3>2. turn'[asked[s][i]].session = s
            BY <1>1, <2>1, <3>1 DEF Jobs
        <3>3. turn'[asked[s][i]].stage \in StageAt(s, i)'
            <4>1. CASE asked[s][i] = t
                <5>1. i = Len(begun[s])
                    BY <1>3, <4>1
                <5> QED BY <1>1, <4>1, <5>1, ChainTypes DEF StageAt
            <4>2. CASE asked[s][i] # t
                BY <1>1, <2>1, <3>1, <4>2 DEF Jobs, StageAt
            <4> QED BY <4>1, <4>2
        <3>4. i > Len(begun[s]) => WaitsAt(s, i)'
            BY <1>1, <2>1, <3>1 DEF Jobs, WaitsAt
        <3> QED BY <3>2, <3>3, <3>4
    <2>5. Jobs(s)'
        BY <2>1, <2>4 DEF Jobs
    <2> QED BY <2>2, <2>3, <2>5
<1> QED BY <1>2, <1>4, <1>5, <1>6 DEF Chained

\* Nothing of the chains changes.
LEMMA ChainedRests ==
    ASSUME TypeOK, Chained, UNCHANGED <<tail, after, asked, begun>>,
           \A u \in Turn : \/ turn'[u] = turn[u]
                           \/ turn[u].stage \in {"new", "open"} /\ turn'[u].stage = "open"
    PROVE  Chained' /\ \A s \in Session : DoneOf(s)' = DoneOf(s)
<1>1. Covered'
    BY DEF Chained, Covered, Pending, Turn
<1>2. ASSUME NEW s \in Session PROVE Jobs(s)' /\ Tail1(s)' /\ Count(s)' /\ DoneOf(s)' = DoneOf(s)
    <2>1. Jobs(s) /\ Tail1(s) /\ Count(s)
        BY DEF Chained
    <2>2. \A i \in 1 .. Len(asked[s]) : turn'[asked[s][i]] = turn[asked[s][i]]
        <3> SUFFICES ASSUME NEW i \in 1 .. Len(asked[s])
                     PROVE  turn'[asked[s][i]] = turn[asked[s][i]]
            OBVIOUS
        <3>1. asked[s][i] \in Turn /\ turn[asked[s][i]].stage \notin {"new", "open"}
            BY ChainTypes, Unchained
        <3> QED BY <3>1
    <2>3. \A i \in 1 .. Len(begun[s]) : turn'[begun[s][i]] = turn[begun[s][i]]
        BY <2>2, BegunIsAsked
    <2>4. DoneOf(s)' = DoneOf(s)
        <3>1. \A u \in Range(begun[s]) : turn'[u] = turn[u]
            BY <2>3, BegunIsAsked
        <3> QED BY <3>1 DEF DoneOf
    <2>5. Count(s)'
        <3>1. begun'[s] = begun[s]
            OBVIOUS
        <3>2. begun[s] # <<>> => turn'[begun[s][Len(begun[s])]] = turn[begun[s][Len(begun[s])]]
            BY <2>3, ChainTypes
        <3> QED BY <2>1, <2>4, <3>1, <3>2 DEF Count
    <2>7. Tail1(s)'
        <3>1. asked[s] # <<>> => turn'[asked[s][Len(asked[s])]] = turn[asked[s][Len(asked[s])]]
            BY <2>2, ChainTypes
        <3> QED BY <2>1, <3>1 DEF Tail1
    <2>6. Jobs(s)'
        <3>1. \A i \in 1 .. Len(asked[s]) : i > 1 => i - 1 \in 1 .. Len(asked[s])
            BY ChainTypes
        <3> QED BY <2>1, <2>2, <3>1 DEF Jobs, StageAt, WaitsAt
    <2> QED BY <2>4, <2>5, <2>6, <2>7
<1> QED BY <1>1, <1>2 DEF Chained

\* A job is queued: it comes last in its chain, and waits for the one that was.
LEMMA ChainedEnqueue ==
    ASSUME TypeOK, Chained, NEW t \in Turn, NEW here \in Session, turn[t].stage = "open",
           Enqueue(t, here), Others(t), turn'[t].session = here, turn'[t].stage = "queued"
    PROVE  Chained' /\ \A s \in Session : DoneOf(s)' = DoneOf(s)
<1> DEFINE q == asked[here] n == Len(q)
<1>1. /\ asked' = [asked EXCEPT ![here] = Append(q, t)] /\ UNCHANGED begun
      /\ after' = [after EXCEPT ![t] = tail[here]] /\ tail' = [tail EXCEPT ![here] = t]
    BY DEF Enqueue
<1>2. \A z \in Session : \A i \in 1 .. Len(asked[z]) : asked[z][i] # t
    BY Unchained
<1>3. /\ asked'[here] = Append(q, t) /\ Len(asked'[here]) = n + 1 /\ n \in Nat
      /\ asked'[here][n + 1] = t /\ \A i \in 1 .. n : asked'[here][i] = q[i]
      /\ \A z \in Session : z # here => asked'[z] = asked[z]
      /\ asked'[here] # <<>>
    <2>1. q \in Seq(Turn) /\ asked'[here] = Append(q, t)
        BY <1>1 DEF TypeOK
    <2>2. \A z \in Session : z # here => asked'[z] = asked[z]
        BY <1>1 DEF TypeOK
    <2> HIDE DEF q
    <2> QED BY <2>1, <2>2, Appended
<1>4. Covered'
    <2> SUFFICES ASSUME NEW u \in Turn, turn'[u].stage \in Pending
                 PROVE  \E i \in 1 .. Len(asked'[turn'[u].session]) :
                            asked'[turn'[u].session][i] = u
        BY DEF Covered, Turn
    <2>1. CASE u = t
        BY <1>3, <2>1
    <2>2. CASE u # t
        <3>1. turn'[u] = turn[u] /\ turn[u].session \in Session
            BY <2>2 DEF Others, TypeOK
        <3>2. PICK i \in 1 .. Len(asked[turn[u].session]) : asked[turn[u].session][i] = u
            BY <3>1 DEF Chained, Covered
        <3>3. i \in 1 .. Len(asked'[turn[u].session]) /\ asked'[turn[u].session][i] = u
            <4>1. CASE turn[u].session = here
                <5>1. i \in 1 .. n /\ q[i] = u
                    BY <3>2, <4>1
                <5> HIDE DEF q, n
                <5> QED BY <1>3, <4>1, <5>1
            <4>2. CASE turn[u].session # here
                BY <1>3, <3>1, <3>2, <4>2
            <4> QED BY <4>1, <4>2
        <3> QED BY <3>1, <3>3
    <2> QED BY <2>1, <2>2
<1>5. ASSUME NEW s \in Session PROVE Jobs(s)' /\ Tail1(s)' /\ Count(s)' /\ DoneOf(s)' = DoneOf(s)
    <2>1. Jobs(s) /\ Tail1(s) /\ Count(s)
        BY DEF Chained
    <2>2. \A i \in 1 .. Len(asked[s]) : /\ turn'[asked[s][i]] = turn[asked[s][i]]
                                        /\ after'[asked[s][i]] = after[asked[s][i]]
        <3> SUFFICES ASSUME NEW i \in 1 .. Len(asked[s])
                     PROVE  /\ turn'[asked[s][i]] = turn[asked[s][i]]
                            /\ after'[asked[s][i]] = after[asked[s][i]]
            OBVIOUS
        <3>1. asked[s][i] \in Turn \ {t}
            BY <1>2, ChainTypes
        <3> QED BY <1>1, <3>1 DEF Others, TypeOK
    <2>3. \A i \in 1 .. Len(begun[s]) : turn'[begun[s][i]] = turn[begun[s][i]]
        BY <2>2, BegunIsAsked
    <2>4. DoneOf(s)' = DoneOf(s)
        <3>1. \A u : u \in Range(begun[s]) <=> \E i \in 1 .. Len(begun[s]) : begun[s][i] = u
            BY BegunIsAsked
        <3>2. \A u \in Range(begun[s]) : turn'[u] = turn[u]
            BY <2>3, <3>1
        <3> QED BY <1>1, <3>2 DEF DoneOf
    <2>5. Count(s)'
        <3>1. begun'[s] = begun[s]
            BY <1>1
        <3>2. begun[s] # <<>> => turn'[begun[s][Len(begun[s])]] = turn[begun[s][Len(begun[s])]]
            <4>1. begun[s] # <<>> => Len(begun[s]) \in 1 .. Len(begun[s])
                BY ChainTypes
            <4> QED BY <2>3, <4>1
        <3> QED BY <2>1, <2>4, <3>1, <3>2 DEF Count
    <2>6. CASE s # here
        <3>1. asked'[s] = asked[s] /\ tail'[s] = tail[s]
            BY <1>1, <1>3, <2>6 DEF TypeOK
        <3>2. Tail1(s)'
            BY <2>1, <2>2, <3>1, ChainTypes DEF Tail1
        <3>3. \A i \in 1 .. Len(asked[s]) : i > 1 => i - 1 \in 1 .. Len(asked[s])
            BY ChainTypes
        <3>4. ASSUME NEW i \in 1 .. Len(asked[s])
              PROVE  /\ turn'[asked[s][i]].session = s /\ turn'[asked[s][i]].stage \in StageAt(s, i)'
                     /\ i > Len(begun[s]) => WaitsAt(s, i)'
            <4>1. /\ asked'[s][i] = asked[s][i] /\ begun'[s] = begun[s]
                  /\ turn'[asked[s][i]] = turn[asked[s][i]] /\ after'[asked[s][i]] = after[asked[s][i]]
                BY <1>1, <2>2, <3>1
            <4>2. StageAt(s, i)' = StageAt(s, i)
                BY <4>1 DEF StageAt
            <4>3. i > 1 => /\ asked'[s][i - 1] = asked[s][i - 1]
                           /\ turn'[asked[s][i - 1]] = turn[asked[s][i - 1]]
                BY <2>2, <3>1, <3>3
            <4>4. WaitsAt(s, i) => WaitsAt(s, i)'
                BY <4>1, <4>3 DEF WaitsAt
            <4> QED BY <2>1, <4>1, <4>2, <4>4 DEF Jobs
        <3>5. begun' = begun
            BY <1>1
        <3>6. Jobs(s)'
            BY <2>1, <3>1, <3>4, <3>5 DEF Jobs
        <3> QED BY <2>4, <2>5, <3>2, <3>6
    <2>7. CASE s = here
        <3>1. Tail1(s)'
            BY <1>1, <1>3, <2>7 DEF Tail1, TypeOK
        <3>2. Len(begun[s]) <= n /\ Len(begun[s]) \in Nat /\ begun' = begun
            BY <1>1, <2>1, <2>7, ChainTypes DEF Jobs
        <3>3. after'[t] = tail[here]
            BY <1>1 DEF TypeOK
        <3>4. ASSUME NEW i \in Nat, i = n + 1 PROVE WaitsAt(s, i)'
            <4>1. CASE n = 0
                <5>1. tail[here] = None
                    BY <2>1, <2>7, <4>1, ChainTypes DEF Tail1
                <5> QED BY <1>3, <2>7, <3>2, <3>3, <3>4, <4>1, <5>1 DEF WaitsAt
            <4>2. CASE n # 0 /\ turn[q[n]].stage # "done"
                <5>1. tail[here] = q[n]
                    BY <2>1, <2>7, <4>2, ChainTypes DEF Tail1
                <5> QED BY <1>3, <2>7, <3>3, <3>4, <4>2, <5>1 DEF WaitsAt
            <4>3. CASE n # 0 /\ turn[q[n]].stage = "done"
                <5>1. tail[here] = None
                    BY <2>1, <2>7, <4>3, ChainTypes DEF Tail1
                <5>2. Len(begun[s]) = n
                    BY <1>3, <2>1, <2>7, <3>2, <4>3 DEF Jobs, StageAt
                <5>3. turn'[q[n]].stage = "done"
                    BY <1>3, <2>2, <2>7, <4>3
                <5> QED BY <1>3, <2>7, <3>2, <3>3, <3>4, <4>3, <5>1, <5>2, <5>3 DEF WaitsAt
            <4> QED BY <4>1, <4>2, <4>3
        <3>5. ASSUME NEW i \in 1 .. n + 1
              PROVE  /\ turn'[asked'[s][i]].session = s
                     /\ turn'[asked'[s][i]].stage \in StageAt(s, i)'
                     /\ i > Len(begun'[s]) => WaitsAt(s, i)'
            <4>1. CASE i = n + 1
                BY <1>3, <2>7, <3>2, <3>4, <4>1 DEF StageAt
            <4>2. CASE i \in 1 .. n
                <5>1. asked'[s][i] = q[i] /\ (i > 1 => i - 1 \in 1 .. n /\ asked'[s][i - 1] = q[i - 1])
                    BY <1>3, <2>7, <4>2
                <5>2. begun'[s] = begun[s] /\ asked[s][i] = q[i] /\ i \in 1 .. Len(asked[s])
                    BY <2>7, <3>2, <4>2
                <5>3. turn'[q[i]] = turn[q[i]] /\ after'[q[i]] = after[q[i]]
                    BY <2>2, <2>7, <4>2
                <5>4. i > 1 => turn'[q[i - 1]] = turn[q[i - 1]] /\ asked[s][i - 1] = q[i - 1]
                    BY <2>2, <2>7, <5>1
                <5>5. turn[q[i]].session = s /\ turn[q[i]].stage \in StageAt(s, i)
                      /\ (i > Len(begun[s]) => WaitsAt(s, i))
                    BY <2>1, <5>2 DEF Jobs
                <5>6. StageAt(s, i)' = StageAt(s, i)
                    BY <5>2 DEF StageAt
                <5> HIDE DEF q, n
                <5>7. WaitsAt(s, i) => WaitsAt(s, i)'
                    BY <5>1, <5>2, <5>3, <5>4 DEF WaitsAt
                <5> QED BY <5>1, <5>2, <5>3, <5>5, <5>6, <5>7
            <4>3. i = n + 1 \/ i \in 1 .. n
                BY <1>3
            <4> QED BY <4>1, <4>2, <4>3
        <3>6. \A i, j \in 1 .. n + 1 : asked'[s][i] = asked'[s][j] => i = j
            <4> SUFFICES ASSUME NEW i \in 1 .. n + 1, NEW j \in 1 .. n + 1,
                                asked'[s][i] = asked'[s][j]
                         PROVE  i = j
                OBVIOUS
            <4>1. \A k \in 1 .. n : asked'[s][k] = q[k] /\ q[k] # t
                BY <1>2, <1>3, <2>7
            <4>2. asked'[s][n + 1] = t
                BY <1>3, <2>7
            <4>3. \A k, l \in 1 .. n : q[k] = q[l] => k = l
                BY <2>1, <2>7 DEF Jobs
            <4> HIDE DEF q, n
            <4>4. i = n + 1 \/ i \in 1 .. n
                BY <1>3
            <4>5. j = n + 1 \/ j \in 1 .. n
                BY <1>3
            <4> QED BY <4>1, <4>2, <4>3, <4>4, <4>5
        <3>7. \A i \in 1 .. Len(begun[s]) : begun[s][i] = asked'[s][i]
            <4> SUFFICES ASSUME NEW i \in 1 .. Len(begun[s]) PROVE begun[s][i] = asked'[s][i]
                OBVIOUS
            <4>1. begun[s][i] = q[i]
                BY <2>1, <2>7 DEF Jobs
            <4> HIDE DEF q, n
            <4>2. i \in 1 .. n
                BY <1>3, <3>2
            <4> QED BY <1>3, <2>7, <4>1, <4>2
        <3>8. Len(asked'[s]) = n + 1 /\ Len(begun'[s]) <= Len(asked'[s])
            BY <1>3, <2>7, <3>2
        <3>9. Jobs(s)'
            BY <3>2, <3>5, <3>6, <3>7, <3>8 DEF Jobs
        <3> QED BY <2>4, <2>5, <3>1, <3>9
    <2> QED BY <2>6, <2>7
<1> QED BY <1>4, <1>5 DEF Chained

\* A job begins: it is the next of its chain, and all before it are done.
LEMMA ChainedBegin ==
    ASSUME TypeOK, Chained, NEW t \in Turn, Begin(t)
    PROVE  /\ Chained'
           /\ LET s == turn[t].session n == Len(begun[s]) IN
              /\ s \in Session /\ n + 1 \in 1 .. Len(asked[s]) /\ asked[s][n + 1] = t
              /\ begun' = [begun EXCEPT ![s] = Append(@, t)]
              /\ Cardinality(DoneOf(s)) = n
           /\ \A z \in Session : DoneOf(z)' = DoneOf(z)
<1> DEFINE here == turn[t].session n == Len(begun[here])
<1>1. /\ turn[t].stage = "queued" /\ Moved(t, {"first"}) /\ UNCHANGED <<tail, asked>>
      /\ after' = [after EXCEPT ![t] = None]
      /\ after[t] # None => Settled(after[t])
      /\ begun' = [begun EXCEPT ![here] = Append(@, t)] /\ here \in Session
    BY JobSteps DEF Begin, Ready, TypeOK
<1>2. /\ Jobs(here) /\ n \in Nat /\ Len(asked[here]) \in Nat /\ n <= Len(asked[here])
      /\ Count(here)
    BY <1>1, ChainTypes DEF Chained, Jobs
<1>3. PICK k \in 1 .. Len(asked[here]) : asked[here][k] = t
    BY <1>1 DEF Chained, Covered, Pending
<1>4. k > n /\ WaitsAt(here, k)
    <2>1. turn[t].stage \in StageAt(here, k) /\ (k > n => WaitsAt(here, k))
        BY <1>2, <1>3 DEF Jobs
    <2>2. k > n
        BY <1>1, <1>2, <1>3, <2>1 DEF StageAt
    <2> QED BY <2>1, <2>2
<1>5. k = n + 1 /\ (k > 1 => turn[asked[here][k - 1]].stage = "done")
    <2>1. CASE after[t] = None
        <3>1. after[t] # asked[here][k - 1] \/ k = 1
            BY <1>1, <1>3, <2>1, ChainTypes
        <3> QED BY <1>3, <1>4, <2>1, <3>1 DEF WaitsAt
    <2>2. CASE after[t] # None
        <3>1. k > 1 /\ after[t] = asked[here][k - 1] /\ k - 1 \in 1 .. Len(asked[here])
            BY <1>2, <1>3, <1>4, <2>2 DEF WaitsAt
        <3>2. turn[asked[here][k - 1]].stage = "done"
            <4>1. turn[asked[here][k - 1]].stage \in {"done", "lost"}
                BY <1>1, <2>2, <3>1 DEF Settled
            <4>2. turn[asked[here][k - 1]].stage # "lost"
                BY <1>2, <3>1 DEF Jobs, StageAt
            <4> QED BY <4>1, <4>2
        <3>3. k - 1 <= n
            <4>1. turn[asked[here][k - 1]].stage \in StageAt(here, k - 1)
                BY <1>2, <3>1 DEF Jobs
            <4>2. k - 1 \in Nat
                BY <1>2, <3>1
            <4> HIDE DEF here
            <4> QED BY <1>2, <3>2, <4>1, <4>2 DEF StageAt
        <3> QED BY <1>2, <1>4, <3>2, <3>3
    <2> QED BY <2>1, <2>2
<1>6. /\ begun'[here] = Append(begun[here], t) /\ Len(begun'[here]) = n + 1
      /\ begun'[here][n + 1] = t /\ \A i \in 1 .. n : begun'[here][i] = begun[here][i]
      /\ \A z \in Session : z # here => begun'[z] = begun[z]
      /\ begun'[here] # <<>>
    <2>1. begun[here] \in Seq(Turn) /\ begun'[here] = Append(begun[here], t)
        BY <1>1 DEF TypeOK
    <2>2. \A z \in Session : z # here => begun'[z] = begun[z]
        BY <1>1 DEF TypeOK
    <2> HIDE DEF here
    <2> QED BY <2>1, <2>2, Appended
<1>7. /\ \A u \in Turn : /\ turn'[u].session = turn[u].session
                         /\ (turn'[u].stage = "done") <=> (turn[u].stage = "done")
                         /\ turn'[u].stage \in Pending <=> turn[u].stage \in Pending
                         /\ u # t => turn'[u] = turn[u] /\ after'[u] = after[u]
      /\ turn'[t].stage = "first"
    <2>1. turn'[t].stage = "first" /\ turn'[t].session = turn[t].session
        BY <1>1 DEF Moved
    <2>2. \A u \in Turn \ {t} : turn'[u] = turn[u] /\ after'[u] = after[u]
        BY <1>1 DEF Moved, Others, TypeOK
    <2> QED BY <1>1, <2>1, <2>2 DEF Pending
<1>8. \A z \in Session : \A i \in 1 .. Len(asked[z]) : asked[z][i] = t => z = here /\ i = n + 1
    <2> SUFFICES ASSUME NEW z \in Session, NEW i \in 1 .. Len(asked[z]), asked[z][i] = t
                 PROVE  z = here /\ i = n + 1
        OBVIOUS
    <2>1. z = here
        BY DEF Chained, Jobs
    <2> QED BY <1>2, <1>3, <1>5, <2>1 DEF Jobs
<1>9. Covered'
    BY <1>1, <1>7 DEF Chained, Covered, Turn
<1>10. Cardinality(DoneOf(here)) = n
    <2>1. CASE n = 0
        BY <1>1, <1>2, <2>1, ChainTypes DEF Count
    <2>2. CASE n > 0
        <3>1. turn[begun[here][n]].stage = "done"
            <4>1. n \in 1 .. n /\ begun[here][n] = asked[here][n]
                BY <1>2, <2>2 DEF Jobs
            <4>2. k > 1 /\ k - 1 = n
                BY <1>2, <1>5, <2>2
            <4> QED BY <1>5, <4>1, <4>2
        <3> QED BY <1>1, <1>2, <3>1 DEF Count
    <2> QED BY <1>2, <2>1, <2>2
<1>11. ASSUME NEW z \in Session PROVE DoneOf(z)' = DoneOf(z)
    <2>1. Range(begun[z]) \subseteq Turn
        BY BegunIsAsked
    <2>2. Range(begun'[z]) = IF z = here THEN Range(begun[z]) \cup {t} ELSE Range(begun[z])
        <3>1. CASE z = here
            <4>1. /\ DOMAIN begun'[z] = 1 .. n + 1 /\ DOMAIN begun[z] = 1 .. n
                  /\ 1 .. n + 1 = (1 .. n) \cup {n + 1}
                <5>1. begun[here] \in Seq(Turn) /\ begun'[here] = Append(begun[here], t)
                    BY <1>1, <1>6 DEF TypeOK
                <5> HIDE DEF here
                <5> QED BY <1>2, <3>1, <5>1, Appended
            <4>2. \A u : u \in Range(begun'[z]) <=> \E i \in 1 .. n + 1 : begun'[here][i] = u
                BY <3>1, <4>1 DEF Range
            <4>3. \A u : u \in Range(begun[z]) <=> \E i \in 1 .. n : begun[here][i] = u
                BY <3>1, <4>1 DEF Range
            <4>4. \A u : u \in Range(begun'[z]) <=> u \in Range(begun[z]) \/ u = t
                BY <1>6, <4>1, <4>2, <4>3
            <4> QED BY <3>1, <4>4
        <3>2. CASE z # here
            BY <1>6, <3>2
        <3> QED BY <3>1, <3>2
    <2> QED BY <1>1, <1>7, <2>1, <2>2 DEF DoneOf
<1>12. ASSUME NEW s \in Session PROVE Jobs(s)' /\ Tail1(s)' /\ Count(s)'
    <2>1. Jobs(s) /\ Tail1(s) /\ Count(s)
        BY DEF Chained
    <2>2. Tail1(s)'
        BY <1>1, <1>7, <2>1, ChainTypes DEF Tail1
    <2>3. CASE s # here
        <3>1. begun'[s] = begun[s] /\ asked' = asked
            BY <1>1, <1>6, <2>3
        <3>2. \A i \in 1 .. Len(asked[s]) : asked[s][i] \in Turn \ {t}
            BY <1>8, <2>3, ChainTypes
        <3>3. Count(s)'
            <4>1. begun[s] # <<>> => begun[s][Len(begun[s])] \in Turn
                BY ChainTypes
            <4> QED BY <1>7, <1>11, <2>1, <3>1, <4>1 DEF Count
        <3>4. \A i \in 1 .. Len(asked[s]) : i > 1 => i - 1 \in 1 .. Len(asked[s])
            BY ChainTypes
        <3>5. \A i \in 1 .. Len(asked[s]) :
                  turn'[asked[s][i]] = turn[asked[s][i]] /\ after'[asked[s][i]] = after[asked[s][i]]
            BY <1>7, <3>2
        <3>6. ASSUME NEW i \in 1 .. Len(asked[s])
              PROVE  /\ turn'[asked[s][i]].session = s /\ turn'[asked[s][i]].stage \in StageAt(s, i)'
                     /\ i > Len(begun[s]) => WaitsAt(s, i)'
            <4>1. turn'[asked[s][i]].session = s /\ turn'[asked[s][i]].stage \in StageAt(s, i)'
                BY <2>1, <3>1, <3>5 DEF Jobs, StageAt
            <4>2. i > Len(begun[s]) => WaitsAt(s, i)'
                BY <2>1, <3>1, <3>4, <3>5 DEF Jobs, WaitsAt
            <4> QED BY <4>1, <4>2
        <3>7. Jobs(s)'
            BY <2>1, <3>1, <3>6 DEF Jobs
        <3> QED BY <2>2, <3>3, <3>7
    <2>4. CASE s = here
        <3>1. Count(s)'
            <4>1. Cardinality(DoneOf(s)') = n
                BY <1>1, <1>10, <1>11, <2>4
            <4>2. begun'[s][Len(begun'[s])] = t /\ Len(begun'[s]) - 1 = n /\ begun'[s] # <<>>
                BY <1>2, <1>6, <2>4
            <4> HIDE DEF here, n
            <4> QED BY <1>7, <4>1, <4>2 DEF Count
        <3>2. ASSUME NEW i \in 1 .. Len(asked[s])
              PROVE  /\ turn'[asked[s][i]].session = s
                     /\ turn'[asked[s][i]].stage \in StageAt(s, i)'
                     /\ i > n + 1 => WaitsAt(s, i)'
            <4>1. asked[s][i] \in Turn /\ (i > 1 => asked[s][i - 1] \in Turn)
                BY ChainTypes
            <4>2. turn'[asked[s][i]].session = s
                BY <1>7, <2>1, <4>1 DEF Jobs
            <4>3. Len(begun'[s]) = n + 1 /\ turn[asked[s][i]].stage \in StageAt(s, i)
                BY <1>6, <2>1, <2>4 DEF Jobs
            <4>4. turn'[asked[s][i]].stage \in StageAt(s, i)'
                <5>1. CASE i = n + 1
                    <6>1. asked[s][i] = t /\ ~(i < Len(begun'[s])) /\ i = Len(begun'[s])
                        BY <1>2, <1>3, <1>5, <2>4, <4>3, <5>1
                    <6> QED BY <1>7, <6>1 DEF StageAt
                <5>2. CASE i > n + 1
                    <6>1. asked[s][i] # t /\ turn[asked[s][i]].stage = "queued"
                        BY <1>2, <1>8, <2>4, <4>3, <5>2 DEF StageAt
                    <6> QED BY <1>2, <1>7, <4>1, <4>3, <5>2, <6>1 DEF StageAt
                <5>3. CASE i <= n
                    <6>1. turn[asked[s][i]].stage = "done"
                        BY <1>2, <1>5, <2>4, <4>3, <5>3 DEF StageAt
                    <6> QED BY <1>2, <1>7, <4>1, <4>3, <5>3, <6>1 DEF StageAt
                <5> QED BY <1>2, <5>1, <5>2, <5>3
            <4>5. ASSUME i > n + 1 PROVE WaitsAt(s, i)'
                <5>1. asked[s][i] # t /\ WaitsAt(s, i)
                    BY <1>2, <1>8, <2>1, <2>4, <4>5 DEF Jobs
                <5>2. i > 1 /\ after[asked[s][i]] = asked[s][i - 1]
                    BY <1>2, <2>4, <4>5, <5>1 DEF WaitsAt
                <5> QED BY <1>1, <1>7, <4>1, <5>1, <5>2 DEF WaitsAt
            <4> QED BY <4>2, <4>4, <4>5
        <3>3. ASSUME NEW i \in 1 .. n + 1 PROVE begun'[s][i] = asked[s][i]
            <4>1. CASE i = n + 1
                BY <1>3, <1>5, <1>6, <2>4, <4>1
            <4>2. CASE i \in 1 .. n
                BY <1>6, <2>1, <2>4, <4>2 DEF Jobs
            <4> QED BY <1>2, <4>1, <4>2
        <3>4. Jobs(s)'
            <4>1. asked'[s] = asked[s] /\ Len(begun'[s]) = n + 1
                BY <1>1, <1>6, <2>4
            <4>2. n + 1 <= Len(asked[s])
                BY <1>2, <1>3, <1>5, <2>4
            <4>3. \A i, j \in 1 .. Len(asked[s]) : asked[s][i] = asked[s][j] => i = j
                BY <2>1 DEF Jobs
            <4> HIDE DEF here, n
            <4> QED BY <3>2, <3>3, <4>1, <4>2, <4>3 DEF Jobs
        <3> QED BY <2>2, <3>1, <3>4
    <2> QED BY <2>3, <2>4
<1> QED BY <1>1, <1>3, <1>5, <1>9, <1>10, <1>11, <1>12 DEF Chained

\* The process dies: the chains are empty.
LEMMA ChainedCrash ==
    ASSUME TypeOK, Crash
    PROVE  /\ Chained'
           /\ \A s \in Session : asked'[s] = <<>> /\ begun'[s] = <<>> /\ DoneOf(s)' = {}
<1>1. \A t \in Turn : turn'[t].stage \in {"new", "done", "lost"}
    BY CrashStep
<1>2. Covered'
    BY <1>1 DEF Covered, Pending, Turn
<1>3. ASSUME NEW s \in Session
      PROVE  /\ asked'[s] = <<>> /\ begun'[s] = <<>> /\ DoneOf(s)' = {}
             /\ Jobs(s)' /\ Tail1(s)' /\ Count(s)'
    <2>1. asked'[s] = <<>> /\ begun'[s] = <<>> /\ tail'[s] = None
        BY DEF Crash
    <2>2. Len(<<>>) = 0 /\ DOMAIN <<>> = {}
        OBVIOUS
    <2>3. DoneOf(s)' = {}
        BY <2>1, <2>2 DEF DoneOf, Range
    <2>4. Jobs(s)' /\ Tail1(s)'
        BY <2>1, <2>2 DEF Jobs, Tail1
    <2>5. Count(s)'
        BY <2>1, <2>2, <2>3, FS_EmptySet DEF Count
    <2> QED BY <2>1, <2>3, <2>4, <2>5
<1> QED BY <1>2, <1>3 DEF Chained

-----------------------------------------------------------------------------
(* The chains are serial queues.                                           *)

\* What each step is to the chains: nothing of them changes, a job is asked
\* for, begins or settles, or the chains are forgotten.
LEMMA ChainStep ==
    ASSUME Typed, Chained, [Next]_vars
    PROVE  /\ Chained'
           /\ \/ UNCHANGED <<asked, begun>> /\ \A s \in Session : DoneOf(s)' = DoneOf(s)
              \/ \E s \in Session, t \in Turn :
                    /\ asked' = [asked EXCEPT ![s] = Append(@, t)] /\ UNCHANGED begun
                    /\ \A z \in Session : DoneOf(z)' = DoneOf(z)
              \/ \E s \in Session :
                    /\ Cardinality(DoneOf(s)) = Len(begun[s]) /\ Len(begun[s]) < Len(asked[s])
                    /\ begun' = [begun EXCEPT ![s] = Append(@, asked[s][Len(@) + 1])]
                    /\ UNCHANGED asked /\ \A z \in Session : DoneOf(z)' = DoneOf(z)
              \/ \E s \in Session :
                    /\ Cardinality(DoneOf(s)) = Len(begun[s]) - 1
                    /\ Cardinality(DoneOf(s)') = Len(begun[s])
                    /\ \A z \in Session \ {s} : DoneOf(z)' = DoneOf(z)
                    /\ UNCHANGED <<asked, begun>> /\ Len(begun[s]) \in Nat
              \/ \A s \in Session : asked'[s] = <<>> /\ begun'[s] = <<>> /\ DoneOf(s)' = {}
<1> USE DEF Typed
<1> DEFINE Rests == UNCHANGED <<asked, begun>> /\ \A s \in Session : DoneOf(s)' = DoneOf(s)
           Asks == \E s \in Session, t \in Turn :
                    /\ asked' = [asked EXCEPT ![s] = Append(@, t)] /\ UNCHANGED begun
                    /\ \A z \in Session : DoneOf(z)' = DoneOf(z)
           Begins == \E s \in Session :
                    /\ Cardinality(DoneOf(s)) = Len(begun[s]) /\ Len(begun[s]) < Len(asked[s])
                    /\ begun' = [begun EXCEPT ![s] = Append(@, asked[s][Len(@) + 1])]
                    /\ UNCHANGED asked /\ \A z \in Session : DoneOf(z)' = DoneOf(z)
           Settles == \E s \in Session :
                    /\ Cardinality(DoneOf(s)) = Len(begun[s]) - 1
                    /\ Cardinality(DoneOf(s)') = Len(begun[s])
                    /\ \A z \in Session \ {s} : DoneOf(z)' = DoneOf(z)
                    /\ UNCHANGED <<asked, begun>> /\ Len(begun[s]) \in Nat
           Forgets == \A s \in Session : asked'[s] = <<>> /\ begun'[s] = <<>> /\ DoneOf(s)' = {}
<1>1. ASSUME Open PROVE Chained' /\ Rests
    <2>1. PICK t \in Turn : turn[t].stage = "new" /\ Others(t) /\ turn'[t].stage = "open"
        BY <1>1, OpenStep
    <2>2. UNCHANGED <<tail, after, asked, begun>>
        BY <1>1 DEF Open, memory
    <2>3. \A u \in Turn : \/ turn'[u] = turn[u]
                          \/ turn[u].stage \in {"new", "open"} /\ turn'[u].stage = "open"
        BY <2>1 DEF Others
    <2> QED BY <2>2, <2>3, ChainedRests
<1>2. ASSUME \/ UNCHANGED vars \/ Stop \/ FlushAnswers \/ \E t \in Turn : Consolidated(t)
      PROVE  Chained' /\ Rests
    <2>1. UNCHANGED <<turn, tail, after, asked, begun>>
        BY <1>2 DEF vars, memory, history, Stop, FlushAnswers, Consolidated
    <2> QED BY <2>1, ChainedRests
<1>3. ASSUME NEW t \in Turn, Finish(t) \/ Abort(t) PROVE Chained' /\ Asks
    <2>1. PICK s \in Session :
              /\ turn[t].stage = "open" /\ Enqueue(t, s) /\ Others(t)
              /\ turn'[t].session = s /\ turn'[t].stage = "queued"
        BY <1>3, EnqueueStep
    <2>2. Chained' /\ \A z \in Session : DoneOf(z)' = DoneOf(z)
        BY <2>1, ChainedEnqueue
    <2> QED BY <2>1, <2>2 DEF Enqueue
<1>4. ASSUME NEW t \in Turn, Begin(t) PROVE Chained' /\ Begins
    <2> DEFINE s == turn[t].session n == Len(begun[s])
    <2>1. /\ Chained' /\ s \in Session /\ n + 1 \in 1 .. Len(asked[s]) /\ asked[s][n + 1] = t
          /\ begun' = [begun EXCEPT ![s] = Append(@, t)] /\ Cardinality(DoneOf(s)) = n
          /\ \A z \in Session : DoneOf(z)' = DoneOf(z)
        BY <1>4, ChainedBegin
    <2>2. n < Len(asked[s]) /\ UNCHANGED asked
        BY <1>4, <2>1, ChainTypes DEF Begin
    <2>3. begun' = [begun EXCEPT ![s] = Append(@, asked[s][Len(@) + 1])]
        BY <2>1
    <2> QED BY <2>1, <2>2, <2>3
<1>5. ASSUME NEW t \in Turn, FirstWave(t) \/ CarryOver(t) PROVE Chained' /\ Rests
    <2>1. Writing(t) /\ Moved(t, {"first", "carry", "second"})
        BY <1>5, JobSteps DEF Writing, Moved
    <2>2. UNCHANGED <<tail, after, asked, begun>>
        BY <1>5 DEF FirstWave, CarryOver, memory
    <2> QED BY <2>1, <2>2, ChainedGoesOn
<1>6. ASSUME NEW t \in Turn, SecondWave(t) \/ JobThrows(t) PROVE Chained' /\ Settles
    <2>1. Writing(t) /\ Moved(t, {"done"})
        BY <1>6, JobSteps DEF Writing
    <2>2. /\ tail' = [tail EXCEPT ![turn[t].session] = IF @ = t THEN None ELSE @]
          /\ UNCHANGED <<after, asked, begun>>
        BY <1>6 DEF SecondWave, JobThrows, Settle
    <2>3. turn[t].session \in Session
        BY DEF TypeOK
    <2>4. Len(begun[turn[t].session]) \in Nat
        BY <2>3, ChainTypes
    <2>5. /\ Chained'
          /\ Cardinality(DoneOf(turn[t].session)) = Len(begun[turn[t].session]) - 1
          /\ Cardinality(DoneOf(turn[t].session)') = Len(begun[turn[t].session])
          /\ \A z \in Session \ {turn[t].session} : DoneOf(z)' = DoneOf(z)
        BY <2>1, <2>2, ChainedSettles
    <2>6. ASSUME NEW s \in Session, s = turn[t].session PROVE Settles
        <3>1. Cardinality(DoneOf(s)') = Len(begun[s])
            <4>1. DoneOf(s)' = {u \in Range(begun'[s]) : turn'[u].stage = "done"}
                BY DEF DoneOf
            <4> QED BY <2>1, <2>5, <2>6, <4>1 DEF DoneOf, Moved
        <3> QED BY <2>2, <2>4, <2>5, <2>6, <3>1
    <2> QED BY <2>3, <2>5, <2>6
<1>7. ASSUME Crash PROVE Chained' /\ Forgets
    BY <1>7, ChainedCrash
<1>8. Chained' /\ (Rests \/ Asks \/ Begins \/ Settles \/ Forgets)
    <2> HIDE DEF Rests, Asks, Begins, Settles, Forgets
    <2> QED BY <1>1, <1>2, <1>3, <1>4, <1>5, <1>6, <1>7 DEF Next, JobStep
<1> QED BY <1>8

LEMMA ChainedInit == Init => Chained
<1> SUFFICES ASSUME Init PROVE Chained
    OBVIOUS
<1>1. \A t \in Turn : turn[t].stage = "new"
    BY DEF Init, NewTurn
<1>2. \A s \in Session : asked[s] = <<>> /\ begun[s] = <<>> /\ tail[s] = None
    BY DEF Init
<1>3. Len(<<>>) = 0 /\ DOMAIN <<>> = {}
    OBVIOUS
<1>4. \A s \in Session : DoneOf(s) = {}
    BY <1>2, <1>3 DEF DoneOf, Range
<1>5. \A s \in Session : Jobs(s) /\ Tail1(s)
    BY <1>2, <1>3 DEF Jobs, Tail1
<1>6. \A s \in Session : Count(s)
    BY <1>2, <1>3, <1>4, FS_EmptySet DEF Count
<1>7. Covered
    BY <1>1 DEF Covered, Pending
<1> QED BY <1>5, <1>6, <1>7 DEF Chained

\* The types of the queues: what the model of the CycleManager's persistence
\* keeps for any number of turns, sessions, failing writes and crashes.
THEOREM TypeCorrect == Spec => []TypeOK
<1>1. Typed /\ [Next]_vars => Typed'
    BY TypedStep
<1>2. Typed => TypeOK
    BY DEF Typed
<1> QED BY TypedInit, <1>1, <1>2, PTL DEF Spec

\* Every step of the jobs is a step of serial queues, or none: the jobs of a
\* session begin in the order in which they were queued, one at a time,
\* although only the tail of each chain is kept (enqueuePersist).
THEOREM JobsRefineQueue == Spec => JobsAreSerial
<1> DEFINE settled == [s \in Session |-> Cardinality(DoneOf(s))]
<1>1. Init => Queue!Init
    <2> SUFFICES ASSUME Init PROVE Queue!Init
        OBVIOUS
    <2>1. \A s \in Session : DoneOf(s) = {}
        <3>1. DOMAIN <<>> = {}
            OBVIOUS
        <3> QED BY <3>1 DEF Init, DoneOf, Range
    <2>2. settled = [s \in Session |-> 0]
        BY <2>1, FS_EmptySet
    <2> QED BY <2>2 DEF Init, Queue!Init, Queue!Empty, DoneOf
<1>2. Typed /\ Chained /\ [Next]_vars => [Queue!Next]_Queue!vars
    <2> SUFFICES ASSUME Typed, Chained, [Next]_vars PROVE [Queue!Next]_Queue!vars
        OBVIOUS
    <2>1. CASE UNCHANGED <<asked, begun>> /\ \A s \in Session : DoneOf(s)' = DoneOf(s)
        <3>1. settled' = settled
            BY <2>1
        <3> QED BY <2>1, <3>1 DEF Queue!vars, DoneOf
    <2>2. CASE \E s \in Session, t \in Turn :
                   /\ asked' = [asked EXCEPT ![s] = Append(@, t)] /\ UNCHANGED begun
                   /\ \A z \in Session : DoneOf(z)' = DoneOf(z)
        <3>1. settled' = settled
            BY <2>2
        <3>2. \E s \in Session, t \in Turn : Queue!Ask(s, t)
            BY <2>2, <3>1 DEF Queue!Ask, DoneOf
        <3> QED BY <3>2 DEF Queue!Next
    <2>3. ASSUME NEW s \in Session,
                 Cardinality(DoneOf(s)) = Len(begun[s]), Len(begun[s]) < Len(asked[s]),
                 begun' = [begun EXCEPT ![s] = Append(@, asked[s][Len(@) + 1])],
                 UNCHANGED asked, \A z \in Session : DoneOf(z)' = DoneOf(z)
          PROVE  Queue!Next
        <3>1. settled' = settled /\ settled[s] = Len(begun[s])
            BY <2>3
        <3>2. Queue!Begin(s)
            BY <2>3, <3>1 DEF Queue!Begin, DoneOf
        <3> QED BY <3>2 DEF Queue!Next
    <2>4. ASSUME NEW s \in Session,
                 Cardinality(DoneOf(s)) = Len(begun[s]) - 1,
                 Cardinality(DoneOf(s)') = Len(begun[s]),
                 \A z \in Session \ {s} : DoneOf(z)' = DoneOf(z),
                 UNCHANGED <<asked, begun>>, Len(begun[s]) \in Nat
          PROVE  Queue!Next
        <3>1. settled[s] < Len(begun[s]) /\ settled' = [settled EXCEPT ![s] = @ + 1]
            <4>1. \A z \in Session : Cardinality(DoneOf(z)') =
                      IF z = s THEN Cardinality(DoneOf(s)) + 1 ELSE Cardinality(DoneOf(z))
                BY <2>4
            <4>2. settled' = [z \in Session |-> Cardinality(DoneOf(z)')]
                OBVIOUS
            <4>3. settled = [z \in Session |-> Cardinality(DoneOf(z))]
                OBVIOUS
            <4> HIDE DEF settled
            <4> QED BY <2>4, <4>1, <4>2, <4>3
        <3>2. Queue!Settle(s)
            BY <2>4, <3>1 DEF Queue!Settle, DoneOf
        <3> QED BY <3>2 DEF Queue!Next
    <2>5. CASE \A s \in Session : asked'[s] = <<>> /\ begun'[s] = <<>> /\ DoneOf(s)' = {}
        <3>1. settled' = [s \in Session |-> 0]
            BY <2>5, FS_EmptySet
        <3>2. asked' \in [Session -> Seq(Turn)] /\ begun' \in [Session -> Seq(Turn)]
            BY TypedStep DEF Typed, TypeOK, Turn
        <3>3. asked' = [s \in Session |-> <<>>] /\ begun' = [s \in Session |-> <<>>]
            BY <2>5, <3>2
        <3>4. Queue!Forget
            BY <3>1, <3>3 DEF Queue!Forget, Queue!Empty, DoneOf
        <3> QED BY <3>4 DEF Queue!Next
    <2> QED BY <2>1, <2>2, <2>3, <2>4, <2>5, ChainStep
<1>3. Typed /\ Chained /\ [Next]_vars => Typed' /\ Chained'
    BY TypedStep, ChainStep
<1> QED BY <1>1, <1>2, <1>3, TypedInit, ChainedInit, PTL DEF Spec, JobsAreSerial, Queue!Spec

-----------------------------------------------------------------------------
(* What a cycle takes over.                                                *)

Early == {"new", "open", "queued", "first", "carry"}

\* The last cycle of a session was written with its attention, and is done.
LEMMA LastIsDone ==
    ASSUME Typed, Carried
    PROVE  \A s \in Session : lastCycle[s] \in attended \cup {None}
BY DEF Carried, LastIsAttended

\* A step that neither carries over nor makes a cycle the last one: what it
\* reads is a last cycle.
LEMMA CarriedRests ==
    ASSUME Typed, Carried, UNCHANGED <<lastCycle, carriedFrom, attended, begun>>,
           \A t \in Turn : /\ turn[t].stage = "done" => turn'[t].stage = "done"
                           /\ turn'[t].stage \in Early => turn[t].stage \in Early,
           closed' \subseteq closed \cup {lastCycle[s] : s \in Session},
           Range(promptFrom)' \subseteq Range(promptFrom) \cup {lastCycle[s] : s \in Session}
    PROVE  Carried'
<1>1. LastIsAttended' /\ CarriesFromPredecessor'
    BY DEF Carried, LastIsAttended, CarriesFromPredecessor
<1>2. NotYetCarried'
    BY DEF Carried, NotYetCarried, Early, Turn
<1>3. AttendedIsDone'
    BY DEF Carried, AttendedIsDone, Typed, TypeOK
<1>4. ReadIsAttended'
    <2>1. \A s \in Session : lastCycle[s] \in attended \cup {None}
        BY LastIsDone
    <2>2. Range(carriedFrom)' = Range(carriedFrom)
        BY DEF Range
    <2> QED BY <2>1, <2>2 DEF Carried, ReadIsAttended
<1> QED BY <1>1, <1>2, <1>3, <1>4 DEF Carried

\* A job that begins has taken over nothing yet, and is not a last cycle.
LEMMA CarriedBegin ==
    ASSUME Typed, Chained, Carried, NEW t \in Turn, Begin(t)
    PROVE  Carried'
<1> DEFINE here == turn[t].session n == Len(begun[here])
<1>1. /\ here \in Session /\ turn[t].stage = "queued" /\ Moved(t, {"first"})
      /\ begun[here] \in Seq(Turn) /\ n \in Nat
      /\ begun' = [begun EXCEPT ![here] = Append(@, t)]
      /\ UNCHANGED <<lastCycle, closed, carriedFrom, promptFrom, attended>>
    BY JobSteps, ChainTypes DEF Begin, Typed, TypeOK, store
<1>2. carriedFrom[t] = None /\ t \notin attended
    BY <1>1 DEF Carried, NotYetCarried, AttendedIsDone
<1>3. /\ Len(begun'[here]) = n + 1 /\ begun'[here][n + 1] = t
      /\ \A i \in 1 .. n : begun'[here][i] = begun[here][i]
      /\ \A s \in Session \ {here} : begun'[s] = begun[s]
    <2>1. begun'[here] = Append(begun[here], t)
        BY <1>1 DEF Typed, TypeOK
    <2>2. \A s \in Session \ {here} : begun'[s] = begun[s]
        BY <1>1 DEF Typed, TypeOK
    <2> QED BY <1>1, <2>1, <2>2, Appended
<1> HIDE DEF here, n
<1>4. LastIsAttended'
    <2> SUFFICES ASSUME NEW s \in Session
                 PROVE \/ /\ lastCycle[s] = None
                          /\ \A i \in 1 .. Len(begun'[s]) : begun'[s][i] \notin attended
                       \/ \E m \in 1 .. Len(begun'[s]) :
                            /\ lastCycle[s] = begun'[s][m] /\ begun'[s][m] \in attended
                            /\ \A i \in m + 1 .. Len(begun'[s]) : begun'[s][i] \notin attended
        BY <1>1 DEF LastIsAttended
    <2>1. CASE s = here
        BY <1>1, <1>2, <1>3, <2>1 DEF Carried, LastIsAttended, n
    <2>2. CASE s # here
        BY <1>3, <2>2 DEF Carried, LastIsAttended
    <2> QED BY <2>1, <2>2
<1>5. CarriesFromPredecessor'
    <2> SUFFICES ASSUME NEW s \in Session, NEW k \in 1 .. Len(begun'[s]),
                        carriedFrom[begun'[s][k]] # None
                 PROVE  \E m \in 1 .. k - 1 :
                          /\ carriedFrom[begun'[s][k]] = begun'[s][m] /\ begun'[s][m] \in attended
                          /\ \A i \in m + 1 .. k - 1 : begun'[s][i] \notin attended
        BY <1>1 DEF CarriesFromPredecessor
    <2>1. CASE s = here
        <3>1. k \in 1 .. n
            BY <1>1, <1>2, <1>3, <2>1
        <3>2. \A i \in 1 .. k : begun'[s][i] = begun[s][i]
            BY <1>1, <1>3, <2>1, <3>1
        <3>3. PICK m \in 1 .. k - 1 :
                  /\ carriedFrom[begun[s][k]] = begun[s][m] /\ begun[s][m] \in attended
                  /\ \A i \in m + 1 .. k - 1 : begun[s][i] \notin attended
            BY <2>1, <3>1, <3>2 DEF Carried, CarriesFromPredecessor, n
        <3>4. \A i \in m + 1 .. k - 1 : i \in 1 .. k
            BY <1>1, <3>1, <3>3
        <3> QED BY <1>1, <3>1, <3>2, <3>3, <3>4
    <2>2. CASE s # here
        <3>1. begun'[s] = begun[s] /\ k \in 1 .. Len(begun[s]) /\ carriedFrom[begun[s][k]] # None
            BY <1>3, <2>2
        <3>2. \E m \in 1 .. k - 1 :
                 /\ carriedFrom[begun[s][k]] = begun[s][m] /\ begun[s][m] \in attended
                 /\ \A i \in m + 1 .. k - 1 : begun[s][i] \notin attended
            BY <3>1 DEF Carried, CarriesFromPredecessor
        <3> QED BY <3>1, <3>2
    <2> QED BY <2>1, <2>2
<1>6. NotYetCarried' /\ AttendedIsDone'
    BY <1>1, <1>2 DEF Carried, NotYetCarried, AttendedIsDone, Moved, Others, Typed, TypeOK, Turn
<1>7. ReadIsAttended'
    <2>1. Range(carriedFrom)' = Range(carriedFrom) /\ Range(promptFrom)' = Range(promptFrom)
        BY <1>1 DEF Range
    <2> QED BY <1>1, <2>1 DEF Carried, ReadIsAttended
<1> QED BY <1>4, <1>5, <1>6, <1>7 DEF Carried

\* Where the job of a turn that writes is: last in the chain of its session.
LEMMA WriterIsLast ==
    ASSUME TypeOK, Chained, NEW t \in Turn, Writing(t)
    PROVE  LET s == turn[t].session IN
           /\ s \in Session /\ Len(begun[s]) \in Nat \ {0} /\ begun[s][Len(begun[s])] = t
           /\ \A z \in Session : \A i \in 1 .. Len(begun[z]) :
                  begun[z][i] = t => z = s /\ i = Len(begun[s])
<1> DEFINE s == turn[t].session
<1>1. s \in Session
    BY DEF TypeOK
<1>2. /\ begun[s][Len(begun[s])] = t /\ begun[s] # <<>>
      /\ \A z \in Session : \A i \in 1 .. Len(asked[z]) :
             asked[z][i] = t => z = s /\ i = Len(begun[s])
    BY <1>1, Located, ChainTypes
<1>3. ASSUME NEW z \in Session, NEW i \in 1 .. Len(begun[z]), begun[z][i] = t
      PROVE  z = s /\ i = Len(begun[s])
    BY <1>2, <1>3, BegunIsAsked
<1> QED BY <1>1, <1>2, <1>3, ChainTypes

\* The carry-over copies from the last cycle, which began before.
LEMMA CarriedCarryOver ==
    ASSUME Typed, Chained, Carried, NEW t \in Turn, CarryOver(t)
    PROVE  Carried'
<1> DEFINE here == turn[t].session n == Len(begun[here])
<1>1. /\ turn[t].stage = "carry" /\ Moved(t, {"second"})
      /\ UNCHANGED <<lastCycle, closed, promptFrom, attended, begun>>
    BY JobSteps DEF CarryOver, memory, Typed
<1>2. /\ here \in Session /\ n \in Nat \ {0} /\ begun[here][n] = t
      /\ \A z \in Session : \A i \in 1 .. Len(begun[z]) : begun[z][i] = t => z = here /\ i = n
    BY <1>1, WriterIsLast DEF Typed, Writing
<1>3. t \notin attended
    BY <1>1 DEF Carried, AttendedIsDone
<1>4. \/ UNCHANGED carriedFrom
      \/ lastCycle[here] # None /\ carriedFrom' = [carriedFrom EXCEPT ![t] = lastCycle[here]]
    BY DEF CarryOver, Copy, Previous, Newest
<1> HIDE DEF here, n
<1>5. carriedFrom \in [Turn -> Turn \cup {None}]
    BY DEF Typed, TypeOK
<1>6. /\ \A u \in Turn \ {t} : carriedFrom'[u] = carriedFrom[u]
      /\ carriedFrom'[t] \in {carriedFrom[t], lastCycle[here]}
    BY <1>4, <1>5
<1>7. LastIsAttended'
    BY <1>1 DEF Carried, LastIsAttended
<1>8. CarriesFromPredecessor'
    <2> SUFFICES ASSUME NEW s \in Session, NEW k \in 1 .. Len(begun[s]),
                        carriedFrom'[begun[s][k]] # None
                 PROVE  \E m \in 1 .. k - 1 :
                          /\ carriedFrom'[begun[s][k]] = begun[s][m] /\ begun[s][m] \in attended
                          /\ \A i \in m + 1 .. k - 1 : begun[s][i] \notin attended
        BY <1>1 DEF CarriesFromPredecessor
    <2>1. begun[s][k] \in Turn
        BY ChainTypes DEF Typed
    <2>2. CASE carriedFrom'[begun[s][k]] = carriedFrom[begun[s][k]]
        BY <2>2 DEF Carried, CarriesFromPredecessor
    <2>3. CASE carriedFrom'[begun[s][k]] # carriedFrom[begun[s][k]]
        <3>1. begun[s][k] = t /\ carriedFrom'[t] = lastCycle[here]
            BY <1>6, <2>1, <2>3
        <3>2. s = here /\ k = n
            BY <1>2, <3>1
        <3>3. PICK m \in 1 .. n :
                  /\ lastCycle[here] = begun[here][m] /\ begun[here][m] \in attended
                  /\ \A i \in m + 1 .. n : begun[here][i] \notin attended
            BY <1>2, <3>1 DEF Carried, LastIsAttended, n
        <3>4. m \in 1 .. n - 1
            BY <1>2, <1>3, <3>3
        <3> QED BY <1>2, <3>1, <3>2, <3>3, <3>4
    <2> QED BY <2>2, <2>3
<1>9. NotYetCarried' /\ AttendedIsDone'
    <2>1. /\ \A u \in Turn \ {t} : turn'[u] = turn[u] /\ carriedFrom'[u] = carriedFrom[u]
          /\ turn'[t].stage = "second"
        BY <1>1, <1>6 DEF Moved, Others
    <2>2. NotYetCarried'
        BY <2>1 DEF Carried, NotYetCarried, Turn
    <2>3. attended \subseteq Turn \ {t} /\ attended' = attended
        BY <1>1, <1>3 DEF Typed, TypeOK
    <2>4. AttendedIsDone'
        BY <2>1, <2>3 DEF Carried, AttendedIsDone
    <2> QED BY <2>2, <2>4
<1>10. ReadIsAttended'
    <2>1. Range(promptFrom)' = Range(promptFrom)
        BY <1>1 DEF Range
    <2>2. Range(carriedFrom)' \subseteq Range(carriedFrom) \cup {lastCycle[here]}
        BY <1>4, <1>5 DEF Range
    <2> QED BY <1>1, <1>2, <2>1, <2>2, LastIsDone DEF Carried, ReadIsAttended
<1> QED BY <1>7, <1>8, <1>9, <1>10 DEF Carried

\* The attention is written: the cycle is the last one of its session.
LEMMA CarriedSecondWave ==
    ASSUME Typed, Chained, Carried, NEW t \in Turn, SecondWave(t)
    PROVE  Carried'
<1> DEFINE here == turn[t].session n == Len(begun[here])
<1>1. /\ turn[t].stage = "second" /\ Moved(t, {"done"})
      /\ UNCHANGED <<carriedFrom, closed, promptFrom, begun>>
    BY JobSteps DEF SecondWave, store, Typed
<1>2. /\ here \in Session /\ n \in Nat \ {0} /\ begun[here][n] = t
      /\ \A z \in Session : \A i \in 1 .. Len(begun[z]) : begun[z][i] = t => z = here /\ i = n
    BY <1>1, WriterIsLast DEF Typed, Writing
<1>3. \/ UNCHANGED <<lastCycle, attended>>
      \/ lastCycle' = [lastCycle EXCEPT ![here] = t] /\ attended' = attended \cup {t}
    BY DEF SecondWave, Attend
<1>4. /\ attended' \subseteq attended \cup {t} /\ attended \subseteq attended'
      /\ \A s \in Session \ {here} : lastCycle'[s] = lastCycle[s]
    BY <1>3 DEF Typed, TypeOK
<1>5. \/ lastCycle'[here] = t /\ t \in attended'
      \/ UNCHANGED <<lastCycle, attended>>
    BY <1>2, <1>3 DEF Typed, TypeOK
<1> HIDE DEF here, n
<1>6. LastIsAttended'
    <2> SUFFICES ASSUME NEW s \in Session
                 PROVE \/ /\ lastCycle'[s] = None
                          /\ \A i \in 1 .. Len(begun[s]) : begun[s][i] \notin attended'
                       \/ \E m \in 1 .. Len(begun[s]) :
                            /\ lastCycle'[s] = begun[s][m] /\ begun[s][m] \in attended'
                            /\ \A i \in m + 1 .. Len(begun[s]) : begun[s][i] \notin attended'
        BY <1>1 DEF LastIsAttended
    <2>1. CASE s = here /\ lastCycle'[here] = t /\ t \in attended'
        <3>1. n \in 1 .. Len(begun[s]) /\ begun[s][n] = t /\ n = Len(begun[s])
            BY <1>2, <2>1 DEF n
        <3>2. \A i \in n + 1 .. n : FALSE
            BY <1>2
        <3> QED BY <2>1, <3>1, <3>2
    <2>2. CASE UNCHANGED <<lastCycle, attended>>
        BY <2>2 DEF Carried, LastIsAttended
    <2>3. CASE s # here
        <3>1. \A i \in 1 .. Len(begun[s]) : begun[s][i] # t
            BY <1>2, <2>3
        <3>2. \A i \in 1 .. Len(begun[s]) : begun[s][i] \in attended' <=> begun[s][i] \in attended
            BY <1>4, <3>1
        <3>3. Len(begun[s]) \in Nat
            BY ChainTypes DEF Typed
        <3> QED BY <1>4, <2>3, <3>2, <3>3 DEF Carried, LastIsAttended
    <2> QED BY <1>5, <2>1, <2>2, <2>3
<1>7. CarriesFromPredecessor'
    <2> SUFFICES ASSUME NEW s \in Session, NEW k \in 1 .. Len(begun[s]),
                        carriedFrom[begun[s][k]] # None
                 PROVE  \E m \in 1 .. k - 1 :
                          /\ carriedFrom[begun[s][k]] = begun[s][m] /\ begun[s][m] \in attended'
                          /\ \A i \in m + 1 .. k - 1 : begun[s][i] \notin attended'
        BY <1>1 DEF CarriesFromPredecessor
    <2>1. PICK m \in 1 .. k - 1 :
              /\ carriedFrom[begun[s][k]] = begun[s][m] /\ begun[s][m] \in attended
              /\ \A i \in m + 1 .. k - 1 : begun[s][i] \notin attended
        BY DEF Carried, CarriesFromPredecessor
    <2>2. \A i \in 1 .. k - 1 : begun[s][i] # t
        <3>1. Len(begun[s]) \in Nat
            BY ChainTypes DEF Typed
        <3>2. \A i \in 1 .. k - 1 : i \in 1 .. Len(begun[s]) /\ i # Len(begun[s])
            BY <3>1
        <3> QED BY <1>2, <3>2 DEF n
    <2>3. \A i \in m + 1 .. k - 1 : i \in 1 .. k - 1
        BY <2>1
    <2> QED BY <1>4, <2>1, <2>2, <2>3
<1>8. NotYetCarried' /\ AttendedIsDone'
    <2>1. /\ \A u \in Turn \ {t} : turn'[u] = turn[u]
          /\ turn'[t].stage = "done" /\ attended \subseteq Turn
        BY <1>1 DEF Moved, Others, Typed, TypeOK
    <2>2. NotYetCarried'
        BY <1>1, <2>1 DEF Carried, NotYetCarried, Turn
    <2>3. AttendedIsDone'
        BY <1>4, <2>1 DEF Carried, AttendedIsDone
    <2> QED BY <2>2, <2>3
<1>9. ReadIsAttended'
    <2>1. Range(promptFrom)' = Range(promptFrom) /\ Range(carriedFrom)' = Range(carriedFrom)
        BY <1>1 DEF Range
    <2> QED BY <1>1, <1>4, <2>1 DEF Carried, ReadIsAttended
<1> QED BY <1>6, <1>7, <1>8, <1>9 DEF Carried

\* The process dies: the chains are empty, and what was read stays final.
LEMMA CarriedCrash ==
    ASSUME Typed, Carried, Crash
    PROVE  Carried'
<1>1. /\ \A t \in Turn : turn'[t].stage = IF turn[t].stage \in {"new", "done"}
                                          THEN turn[t].stage ELSE "lost"
      /\ UNCHANGED <<carriedFrom, closed, promptFrom, attended>>
      /\ \A s \in Session : lastCycle'[s] = None /\ begun'[s] = <<>>
    BY CrashStep DEF Typed, Crash, store
<1>2. Len(<<>>) = 0
    OBVIOUS
<1>3. LastIsAttended' /\ CarriesFromPredecessor'
    BY <1>1, <1>2 DEF LastIsAttended, CarriesFromPredecessor
<1>4. NotYetCarried'
    BY <1>1 DEF Carried, NotYetCarried, Turn
<1>5. AttendedIsDone'
    BY <1>1 DEF Carried, AttendedIsDone, Typed, TypeOK
<1>6. ReadIsAttended'
    <2>1. Range(promptFrom)' = Range(promptFrom) /\ Range(carriedFrom)' = Range(carriedFrom)
        BY <1>1 DEF Range
    <2> QED BY <1>1, <2>1 DEF Carried, ReadIsAttended
<1> QED BY <1>3, <1>4, <1>5, <1>6 DEF Carried

LEMMA CarriedStep == ASSUME Typed, Chained, Carried, [Next]_vars PROVE Carried'
<1>1. ASSUME Open PROVE Carried'
    <2>1. PICK t \in Turn :
              /\ turn[t].stage = "new" /\ Others(t) /\ turn'[t].stage = "open"
              /\ \E s \in Session : promptFrom' = [promptFrom EXCEPT ![t] = lastCycle[s]]
        BY <1>1, OpenStep
    <2>2. UNCHANGED <<lastCycle, carriedFrom, attended, begun, closed>>
        BY <1>1 DEF Open, memory, store
    <2>3. \A u \in Turn : /\ turn[u].stage = "done" => turn'[u].stage = "done"
                          /\ turn'[u].stage \in Early => turn[u].stage \in Early
        BY <2>1 DEF Others, Early
    <2>4. Range(promptFrom)' \subseteq Range(promptFrom) \cup {lastCycle[s] : s \in Session}
        BY <2>1 DEF Range, Typed, TypeOK
    <2> QED BY <2>2, <2>3, <2>4, CarriedRests
<1>2. ASSUME NEW t \in Turn, Finish(t) \/ Abort(t) \/ FirstWave(t) \/ JobThrows(t)
      PROVE  Carried'
    <2>1. UNCHANGED <<lastCycle, carriedFrom, attended, begun, promptFrom>>
        BY <1>2, EnqueueStep DEF Enqueue, FirstWave, JobThrows, store, Typed
    <2>2. \A u \in Turn : /\ turn[u].stage = "done" => turn'[u].stage = "done"
                          /\ turn'[u].stage \in Early => turn[u].stage \in Early
        <3>1. /\ Others(t) /\ turn[t].stage # "done"
              /\ turn'[t].stage \in Early => turn[t].stage \in Early
            BY <1>2, EnqueueStep, JobSteps DEF Moved, Writing, Early, Typed
        <3> QED BY <3>1 DEF Others
    <2>3. closed' \subseteq closed \cup {lastCycle[s] : s \in Session}
        <3>1. CASE FirstWave(t)
            <4>1. turn[t].session \in Session
                BY DEF Typed, TypeOK
            <4> QED BY <3>1, <4>1 DEF FirstWave, ClosePrevious, Previous, Newest
        <3>2. CASE ~FirstWave(t)
            BY <1>2, <3>2, EnqueueStep DEF Enqueue, JobThrows, store, Typed
        <3> QED BY <3>1, <3>2
    <2>4. Range(promptFrom)' \subseteq Range(promptFrom)
        BY <2>1 DEF Range
    <2> QED BY <2>1, <2>2, <2>3, <2>4, CarriedRests
<1>3. ASSUME \/ UNCHANGED vars \/ Stop \/ FlushAnswers \/ \E t \in Turn : Consolidated(t)
      PROVE  Carried'
    <2>1. UNCHANGED <<turn, lastCycle, carriedFrom, closed, promptFrom, attended, begun>>
        BY <1>3 DEF vars, memory, store, history, Stop, FlushAnswers, Consolidated
    <2>2. Range(promptFrom)' = Range(promptFrom)
        BY <2>1 DEF Range
    <2> QED BY <2>1, <2>2, CarriedRests
<1> QED BY <1>1, <1>2, <1>3, CarriedBegin, CarriedCarryOver, CarriedSecondWave, CarriedCrash
        DEF Next, JobStep

LEMMA CarriedInit == Init => Carried
<1> SUFFICES ASSUME Init PROVE Carried
    OBVIOUS
<1>1. Len(<<>>) = 0
    OBVIOUS
<1>2. /\ \A t \in Turn : carriedFrom[t] = None
      /\ \A s \in Session : lastCycle[s] = None /\ begun[s] = <<>>
      /\ attended = {} /\ closed = {}
    BY DEF Init
<1>3. Range(promptFrom) \subseteq {None} /\ Range(carriedFrom) \subseteq {None}
    BY DEF Init, Range
<1> QED BY <1>1, <1>2, <1>3
        DEF Carried, LastIsAttended, NotYetCarried, AttendedIsDone, ReadIsAttended,
            CarriesFromPredecessor

-----------------------------------------------------------------------------
(* What is in the store.                                                   *)

\* No job begins, and one that leaves its first wave has its record or missed it.
LEMMA RecordedRests ==
    ASSUME TypeOK, RecordedIsKnown, UNCHANGED begun,
           recorded \cup missed \subseteq recorded' \cup missed',
           \A t \in Turn : turn[t].stage = "first" =>
                               turn'[t].stage = "first" \/ t \in recorded' \cup missed'
    PROVE  RecordedIsKnown'
<1> SUFFICES ASSUME NEW s \in Session, NEW i \in 1 .. Len(begun[s]),
                    turn'[begun[s][i]].stage # "first"
             PROVE  begun[s][i] \in recorded' \cup missed'
    BY DEF RecordedIsKnown
<1>1. begun[s][i] \in Turn
    BY ChainTypes
<1> QED BY <1>1 DEF RecordedIsKnown

LEMMA RecordedStep ==
    ASSUME Typed, Chained, RecordedIsKnown, [Next]_vars PROVE RecordedIsKnown'
<1> USE DEF Typed
<1>1. ASSUME Open PROVE RecordedIsKnown'
    <2>1. UNCHANGED <<recorded, missed, begun>>
        BY <1>1 DEF Open, store
    <2>2. \A t \in Turn : turn[t].stage = "first" => turn'[t].stage = "first"
        BY <1>1, OpenStep DEF Others
    <2> QED BY <2>1, <2>2, RecordedRests
<1>2. ASSUME NEW t \in Turn, Finish(t) \/ Abort(t) PROVE RecordedIsKnown'
    <2>1. turn[t].stage = "open" /\ Others(t) /\ UNCHANGED <<recorded, missed, begun>>
        BY <1>2, EnqueueStep DEF Enqueue, store
    <2>2. \A u \in Turn : turn[u].stage = "first" => turn'[u].stage = "first"
        BY <2>1 DEF Others
    <2> QED BY <2>1, <2>2, RecordedRests
<1>3. ASSUME NEW t \in Turn, Begin(t) PROVE RecordedIsKnown'
    <2> DEFINE here == turn[t].session
    <2>1. /\ Moved(t, {"first"}) /\ here \in Session /\ begun[here] \in Seq(Turn)
          /\ begun' = [begun EXCEPT ![here] = Append(@, t)] /\ UNCHANGED <<recorded, missed>>
        <3>1. here \in Session
            BY DEF TypeOK
        <3> QED BY <1>3, <3>1, JobSteps, ChainTypes DEF Begin, store
    <2> SUFFICES ASSUME NEW s \in Session, NEW i \in 1 .. Len(begun'[s]),
                        turn'[begun'[s][i]].stage # "first"
                 PROVE  begun'[s][i] \in recorded \cup missed
        BY <2>1 DEF RecordedIsKnown
    <2>2. i \in 1 .. Len(begun[s]) /\ begun'[s][i] = begun[s][i]
        <3>1. CASE s = here
            <4>1. begun'[s] = Append(begun[s], t)
                BY <2>1, <3>1 DEF TypeOK
            <4>2. turn'[t].stage = "first" /\ Len(begun[s]) \in Nat
                BY <2>1, <3>1 DEF Moved
            <4>3. i # Len(begun[s]) + 1
                BY <2>1, <3>1, <4>1, <4>2, Appended
            <4> QED BY <2>1, <3>1, <4>1, <4>2, <4>3, Appended
        <3>2. CASE s # here
            BY <2>1, <3>2
        <3> QED BY <3>1, <3>2
    <2>3. begun[s][i] \in Turn
        BY <2>2, ChainTypes
    <2>4. turn[begun[s][i]].stage # "first"
        BY <1>3, <2>1, <2>2, <2>3, JobSteps DEF Moved, Others
    <2> QED BY <2>2, <2>4 DEF RecordedIsKnown
<1>4. ASSUME NEW t \in Turn, FirstWave(t) \/ CarryOver(t) \/ SecondWave(t) \/ JobThrows(t)
      PROVE  RecordedIsKnown'
    <2>1. UNCHANGED begun /\ Others(t)
        BY <1>4, JobSteps DEF FirstWave, CarryOver, SecondWave, JobThrows, Moved
    <2>2. recorded \cup missed \subseteq recorded' \cup missed'
        BY <1>4 DEF FirstWave, RecordCycle, CarryOver, SecondWave, JobThrows, store
    <2>3. turn[t].stage = "first" => t \in recorded' \cup missed'
        BY <1>4 DEF FirstWave, RecordCycle, CarryOver, SecondWave, JobThrows, store
    <2> QED BY <2>1, <2>2, <2>3, RecordedRests DEF Others
<1>5. ASSUME \/ UNCHANGED vars \/ Stop \/ FlushAnswers \/ \E t \in Turn : Consolidated(t)
      PROVE  RecordedIsKnown'
    <2>1. UNCHANGED <<turn, recorded, missed, begun>>
        BY <1>5 DEF vars, store, history, Stop, FlushAnswers, Consolidated
    <2> QED BY <2>1, RecordedRests
<1>6. ASSUME Crash PROVE RecordedIsKnown'
    <2>1. Len(<<>>) = 0
        OBVIOUS
    <2> QED BY <1>6, <2>1 DEF Crash, RecordedIsKnown
<1> QED BY <1>1, <1>2, <1>3, <1>4, <1>5, <1>6 DEF Next, JobStep

LEMMA RecordedInit == Init => RecordedIsKnown
<1>1. Len(<<>>) = 0
    OBVIOUS
<1> QED BY <1>1 DEF Init, RecordedIsKnown

\* The inductive invariant: the types, the chains, what cycles take over and
\* what is in the store.
THEOREM Invariance == Spec => []IInv
<1>1. Init => IInv
    BY TypedInit, ChainedInit, CarriedInit, RecordedInit DEF IInv
<1>2. IInv /\ [Next]_vars => IInv'
    BY TypedStep, ChainStep, CarriedStep, RecordedStep DEF IInv
<1> QED BY <1>1, <1>2, PTL DEF Spec

\* A cycle takes over from the newest cycle of its session that was written
\* before it with its attention, however many turns end in between and
\* whatever fails or throws (carryAndAttend, lastCycle).
THEOREM CarriedFromPredecessor == Spec => []CarriesFromPredecessor
<1>1. IInv => CarriesFromPredecessor
    BY DEF IInv, Carried
<1> QED BY Invariance, <1>1, PTL

\* A graph that a prompt was built from, that a carry-over copied or that is
\* closed is not written again: what is read belongs to a cycle that is done,
\* and only a job that is not done writes (carriedPromptEntries, markClosed).
THEOREM ReadIsFinal == Spec => ReadGraphsAreFinal
<1>1. ASSUME IInv, [Next]_vars
      PROVE  \A t \in Turn : t \in closed \cup Range(promptFrom) \cup Range(carriedFrom) =>
                                 writes'[t] = writes[t]
    <2> SUFFICES ASSUME NEW t \in Turn,
                        t \in closed \cup Range(promptFrom) \cup Range(carriedFrom)
                 PROVE  writes'[t] = writes[t]
        OBVIOUS
    <2>1. turn[t].stage = "done" /\ writes \in [Turn -> 0 .. 4]
        <3>1. t # None
            BY ConstantsAssumption DEF Turn
        <3> QED BY <1>1, <3>1 DEF IInv, Carried, ReadIsAttended, AttendedIsDone, Typed, TypeOK
    <2>2. ASSUME NEW u \in Turn, JobStep(u) PROVE writes'[t] = writes[t]
        <3>1. UNCHANGED writes \/ writes' = [writes EXCEPT ![u] = @ + 1]
            BY <2>2 DEF JobStep, Begin, FirstWave, WriteGraph, CarryOver, Copy, SecondWave, Attend,
                        JobThrows
        <3>2. turn[u].stage # "done"
            BY <1>1, <2>2, JobSteps DEF IInv, Typed, JobStep, Writing
        <3>3. t # u
            BY <2>1, <3>2
        <3> QED BY <2>1, <3>1, <3>3
    <2>3. CASE \E u \in Turn : Finish(u) \/ Abort(u)
        BY <1>1, <2>3, EnqueueStep DEF Enqueue, IInv, Typed
    <2>4. CASE Open \/ Stop \/ FlushAnswers \/ Crash \/ UNCHANGED vars \/ \E u \in Turn : Consolidated(u)
        BY <2>4 DEF Open, Stop, FlushAnswers, Crash, Consolidated, vars, history
    <2> QED BY <1>1, <2>2, <2>3, <2>4 DEF Next
<1> QED BY Invariance, <1>1, PTL DEF Spec, ReadGraphsAreFinal

\* A clean stop is answered only when every cycle that ended before is in the
\* store or missed its own write, and no consolidation is under way, although
\* more jobs may be queued while it waits (flushPending).
THEOREM StopIsClean == Spec => FlushedIsRecorded
<1>1. ASSUME IInv, [Next]_vars, flush # "done", flush' = "done"
      PROVE  /\ \A s \in Session : Range(asked[s]) \subseteq recorded \cup missed
             /\ consolidating = {}
    <2>1. FlushAnswers
        <3>1. CASE \E t \in Turn : Finish(t) \/ Abort(t)
            BY <1>1, <3>1, EnqueueStep DEF Enqueue, IInv, Typed
        <3>2. CASE \E t \in Turn : JobStep(t) \/ Consolidated(t)
            BY <1>1, <3>2 DEF JobStep, Begin, FirstWave, CarryOver, SecondWave, JobThrows,
                              Consolidated, memory
        <3>3. CASE Open \/ Stop \/ Crash \/ UNCHANGED vars
            BY <1>1, <3>3 DEF Open, Stop, Crash, vars, memory
        <3> QED BY <1>1, <3>1, <3>2, <3>3 DEF Next
    <2>2. consolidating = {} /\ \A t \in Turn : turn[t].stage # "queued" /\ ~Writing(t)
        BY <2>1 DEF FlushAnswers, InFlight
    <2>3. ASSUME NEW s \in Session, NEW t \in Range(asked[s]) PROVE t \in recorded \cup missed
        <3>1. /\ asked[s] \in Seq(Turn) /\ Len(begun[s]) \in Nat
              /\ Jobs(s)
            BY <1>1, ChainTypes DEF IInv, Typed, Chained
        <3>2. PICK i \in 1 .. Len(asked[s]) : asked[s][i] = t
            BY <3>1 DEF Range
        <3>3. t \in Turn /\ turn[t].stage \in StageAt(s, i)
            BY <3>1, <3>2 DEF Jobs
        <3>4. i \in 1 .. Len(begun[s]) /\ turn[t].stage = "done"
            BY <2>2, <3>1, <3>2, <3>3 DEF StageAt, Writing
        <3>5. begun[s][i] = t
            BY <3>1, <3>2, <3>4 DEF Jobs
        <3> QED BY <1>1, <3>4, <3>5 DEF IInv, RecordedIsKnown
    <2> QED BY <2>2, <2>3
<1> QED BY Invariance, <1>1, PTL DEF Spec, FlushedIsRecorded

=============================================================================
