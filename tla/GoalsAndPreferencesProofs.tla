--------------------- MODULE GoalsAndPreferencesProofs ----------------------
(***************************************************************************)
(* Proofs about what the agent pursues and what its owner prefers: the     *)
(* goals of a conversation, and the preference mined from its plans.       *)
(***************************************************************************)
EXTENDS GoalTurns, PreferenceShift, FiniteSetTheorems, SequenceTheorems, TLAPS

-----------------------------------------------------------------------------
(***************************************************************************)
(* GoalTurns: any number of turns, goals, tool calls and crashes.  A turn  *)
(* touches the stack once, the goals of another process are older than any *)
(* it has pushed, and an implicit goal is in the hands of a turn or was    *)
(* counted an orphan; the tracker of idle goals never counts a goal idle   *)
(* that one of the last turns worked on.                                   *)
(***************************************************************************)

(* The goals of a conversation: the invariants                               *)

GoalRec == [kind : {"task", "implicit"}, status : {"none", "active", "resolved", "abandoned"},
            armed : BOOLEAN, stamp : 0..MaxTools,
            by : {"nobody", "sweep", "cue", "tool", "superseded", "ended"},
            epoch : 0..MaxMishaps, idleFrom : 0..Turns]
TurnRec == [stage : Stages, newest : 0..MaxGoals, goal : MaybeGoal, implicit : MaybeGoal,
            todo : SUBSET Goal, next : MaybeGoal]

\* The goals are numbered without a gap, and a goal knows no later process, turn
\* or write of a tool than there has been.
Known == {g \in Goal : goal[g].status # "none"}

GoalsTyped ==
    /\ goal \in [Goal -> GoalRec]
    /\ Pushed \in 0..MaxGoals /\ Known = 1..Pushed
    /\ tools \in 0..MaxTools /\ mishaps \in 0..MaxMishaps /\ epoch \in 0..mishaps
    /\ orphans \subseteq Goal /\ missed \subseteq Goal /\ forgotten \in BOOLEAN
    /\ \A g \in Goal : /\ goal[g].stamp <= tools /\ goal[g].epoch <= epoch
                       /\ goal[g].idleFrom <= Len(winners)

\* A turn works on goals that exist; it has something left to do only while it
\* closes, sweeps or supersedes, and an implicit goal only from its core on.
TurnTyped(t) ==
    /\ turn[t].newest <= Pushed
    /\ turn[t].todo \subseteq Known /\ turn[t].implicit \in Known \cup {None}
    /\ turn[t].todo # {} => turn[t].stage \in {"sweep", "close", "supersede"}
    /\ turn[t].stage = "close" => turn[t].todo # {}
    /\ turn[t].implicit # None => turn[t].stage \in {"core", "queued", "supersede", "done"}

TurnsTyped ==
    /\ turn \in [Turn -> TurnRec] /\ queue \in Seq(Turn) /\ touched \in BOOLEAN
    /\ \A t \in Turn : TurnTyped(t)

\* No turn is counted twice by one process.
Past == {t \in Turn : turn[t].stage \in {"supersede", "done"}}

Tracks == [counted : 0..Turns, last : [Goal -> 0..Turns], stamp : [Goal -> 0..MaxTools]]

TrackTyped ==
    /\ track \in Tracks /\ plan \in Tracks /\ plan.counted = track.counted
    /\ winners \in Seq(MaybeGoal)
    /\ Len(winners) = track.counted /\ track.counted <= Cardinality(Past)

GoalTyped == GoalsTyped /\ TurnsTyped /\ TrackTyped

\* Before the first touch of a process no turn of it has come far, and every goal
\* is from a process before it; the turn that touches first sees all of those, and
\* its cleanup keeps to them.  One that touches the session anew, after it has been
\* forgotten, keeps to what there was when it began.
FirstTouch ==
    /\ ~touched /\ ~forgotten =>
        /\ \A t \in Turn : /\ turn[t].stage \in {"new", "open", "done"}
                           /\ turn[t].stage = "open" => turn[t].newest = Pushed
        /\ \A g \in Known : goal[g].epoch < epoch
    /\ \A t \in Turn : turn[t].stage \in {"touch", "sweep"} =>
        /\ ~forgotten => \A g \in Known : g <= turn[t].newest => goal[g].epoch < epoch
        /\ \A g \in turn[t].todo : g <= turn[t].newest

\* The implicit goals are owned, or within the reach of the cleanup.
Owned(g)   == \E t \in Turn : turn[t].stage # "done" /\ turn[t].implicit = g
InReach(g) == \E t \in Turn : \/ turn[t].stage = "touch" /\ g <= turn[t].newest
                              \/ turn[t].stage = "sweep" /\ g \in turn[t].todo
OwnerInv ==
    touched \/ forgotten => \A g \in Active("implicit") \ orphans : Owned(g) \/ InReach(g)

\* What the tracking will say of a goal once the job at work is through: since the turn at which it was last active it
\* has won no turn, and unless its stamp has moved on no tool has touched it.
TrackInv ==
    \A g \in Goal \ missed : plan.last[g] # 0 =>
        /\ g \in Known /\ goal[g].kind = "task" /\ plan.last[g] <= Len(winners)
        /\ \A i \in plan.last[g] + 1..Len(winners) : winners[i] # g
        /\ plan.stamp[g] <= goal[g].stamp
        /\ goal[g].stamp = plan.stamp[g] => goal[g].idleFrom < plan.last[g]

\* Only a job in its loop has a plan that the tracking does not show yet.
PlanInv == plan = track \/ \E t \in Turn : turn[t].stage = "supersede" /\ turn[t].todo # {}

\* A goal that is about to be superseded has been idle.
WasIdle(g) ==
    LET n == Len(winners) IN
    /\ n > AfterTurns
    /\ \A i \in n - AfterTurns + 1..n : winners[i] # g
    /\ goal[g].idleFrom = n \/ goal[g].idleFrom < n - AfterTurns

IdleInv ==
    \A t \in Turn : turn[t].stage = "supersede" =>
        Running(t) /\ \A g \in turn[t].todo \ missed : WasIdle(g)

-----------------------------------------------------------------------------
(* The goal stack                                                            *)

\* A set of goals that is not empty has a greatest element, which Max picks.
LEMMA TopIsThere ==
    ASSUME NEW S \in SUBSET Goal, S # {}
    PROVE  Max(S) \in S
<1>m. MaxGoals \in Nat
  BY ConstantsAssumption
<1>1. PICK g \in S : \A h \in S : g >= h
  <2> DEFINE B == {n \in Nat : \E g \in S : n = MaxGoals - g}
  <2>1. PICK g \in S : TRUE
    OBVIOUS
  <2>2. g \in 1..MaxGoals
    BY DEF Goal
  <2>3. MaxGoals - g \in B
    BY <1>m, <2>2
  <2>4. B # {} /\ B \subseteq Nat
    BY <2>3
  <2>5. PICK x \in B : \A y \in B : ~(<<y, x>> \in OpToRel(<, Nat))
    BY <2>4, NatLessThanWellFounded, WFMin
  <2>6. PICK h \in S : x = MaxGoals - h
    BY <2>5
  <2>7. ASSUME NEW k \in S PROVE h >= k
    <3>1. h \in 1..MaxGoals /\ k \in 1..MaxGoals
      BY DEF Goal
    <3>2. MaxGoals - k \in B
      BY <1>m, <3>1
    <3>3. ~(<<MaxGoals - k, x>> \in OpToRel(<, Nat))
      BY <2>5, <3>2
    <3>4. ~(MaxGoals - k < x)
      <4>1. ASSUME MaxGoals - k < x PROVE FALSE
        <5>1. <<MaxGoals - k, x>> \in OpToRel(<, Nat)
          BY <4>1, <3>2, <2>4, <2>5 DEF OpToRel
        <5> QED BY <5>1, <3>3
      <4> QED BY <4>1
    <3> QED BY <1>m, <3>1, <3>4, <2>6
  <2> QED BY <2>7
<1> QED BY <1>1 DEF Max

LEMMA NewestTyped ==
    ASSUME NEW S \in SUBSET Goal PROVE Newest(S) \in S \cup {None}
BY TopIsThere DEF Newest

LEMMA FirstTyped ==
    ASSUME NEW a \in MaybeGoal, NEW b \in MaybeGoal PROVE First(a, b) \in {a, b}
BY DEF First

LEMMA NoneIsNoGoal == None \notin Goal /\ 0 \notin Goal
BY ConstantsAssumption DEF Goal

\* The number of the goals is that of the newest one.
LEMMA PushedIsNewest ==
    ASSUME NEW n \in Nat, Known = 1..n PROVE Pushed = n
<1>1. Cardinality(1..n) = n
  BY FS_Interval
<1> QED BY <1>1 DEF Pushed, Known

\* The kinds of writes: a goal ends, a tool works on one, one is pushed, or the
\* process dies.
Ends(g) == \E status \in {"resolved", "abandoned"} :
             \E by \in {"sweep", "cue", "tool", "superseded", "ended"} : SetStatus(g, status, by)

GoalStep ==
    \/ UNCHANGED goal /\ tools' = tools
    \/ tools' \in tools..MaxTools /\ \E g \in Known : Ends(g)
    \/ tools' = tools + 1 /\ tools' \in 0..MaxTools /\ \E g \in Known : Step(g) \/ Arm(g)
    \/ tools' = tools /\ \E kind \in {"task", "implicit"} : Push(kind)

\* One and the same goal afterwards, as far as nobody writes it.
LEMMA GoalRecFields ==
    ASSUME GoalsTyped, NEW g \in Goal
    PROVE  goal[g] \in GoalRec
BY DEF GoalsTyped

LEMMA EndsKeeps ==
    ASSUME GoalsTyped, NEW g \in Known, Ends(g)
    PROVE  /\ goal' \in [Goal -> GoalRec] /\ Known' = Known /\ Pushed' = Pushed
           /\ \A h \in Goal \ {g} : goal'[h] = goal[h]
           /\ goal'[g].status # "active"
           /\ \A h \in Goal : /\ goal'[h].kind = goal[h].kind /\ goal'[h].stamp = goal[h].stamp
                              /\ goal'[h].epoch = goal[h].epoch /\ goal'[h].idleFrom = goal[h].idleFrom
<1>1. PICK status \in {"resolved", "abandoned"},
           by \in {"sweep", "cue", "tool", "superseded", "ended"} :
        goal' = [goal EXCEPT ![g].status = status, ![g].by = by]
  BY DEF Ends, SetStatus
<1>2. goal \in [Goal -> GoalRec] /\ g \in Goal /\ goal[g] \in GoalRec /\ goal[g].status # "none"
  BY DEF GoalsTyped, Known
<1>3. goal' = [goal EXCEPT ![g] = [goal[g] EXCEPT !.status = status, !.by = by]]
  BY <1>1, <1>2
<1>4. [goal[g] EXCEPT !.status = status, !.by = by] \in GoalRec
  BY <1>2 DEF GoalRec
<1>5. goal' \in [Goal -> GoalRec]
  BY <1>2, <1>3, <1>4
<1>6. \A h \in Goal \ {g} : goal'[h] = goal[h]
  BY <1>2, <1>3
<1>7. /\ goal'[g].status = status /\ goal'[g].kind = goal[g].kind
      /\ goal'[g].stamp = goal[g].stamp /\ goal'[g].epoch = goal[g].epoch
      /\ goal'[g].idleFrom = goal[g].idleFrom
  BY <1>2, <1>3 DEF GoalRec
<1>8. Known' = Known
  BY <1>2, <1>6, <1>7 DEF Known
<1>9. Pushed' = Pushed
  BY <1>8 DEF Pushed, Known
<1> QED BY <1>5, <1>6, <1>7, <1>8, <1>9

LEMMA ToolKeeps ==
    ASSUME GoalsTyped, TrackTyped, tools' = tools + 1, tools' \in 0..MaxTools,
           NEW g \in Known, Step(g) \/ Arm(g)
    PROVE  /\ goal' \in [Goal -> GoalRec] /\ Known' = Known /\ Pushed' = Pushed
           /\ \A h \in Goal \ {g} : goal'[h] = goal[h]
           /\ goal'[g].stamp = goal[g].stamp + 1 /\ goal'[g].idleFrom = Len(winners)
           /\ \A h \in Goal : /\ goal'[h].kind = goal[h].kind /\ goal'[h].status = goal[h].status
                              /\ goal'[h].epoch = goal[h].epoch /\ goal'[h].by = goal[h].by
<1>1. PICK a \in BOOLEAN :
        goal' = [goal EXCEPT ![g] = [goal[g] EXCEPT !.armed = a, !.stamp = goal[g].stamp + 1,
                                                    !.idleFrom = Len(winners)]]
  <2>1. goal \in [Goal -> GoalRec] /\ g \in Goal /\ goal[g] \in GoalRec
    BY DEF GoalsTyped, Known
  <2>2. CASE Step(g)
    <3>1. goal[g].armed \in BOOLEAN
      BY <2>1 DEF GoalRec
    <3>2. goal' = [goal EXCEPT ![g] = [goal[g] EXCEPT !.armed = goal[g].armed,
                      !.stamp = goal[g].stamp + 1, !.idleFrom = Len(winners)]]
      BY <2>1, <2>2 DEF Step, GoalRec
    <3> QED BY <3>1, <3>2
  <2>3. CASE Arm(g)
    <3>1. goal' = [goal EXCEPT ![g] = [goal[g] EXCEPT !.armed = TRUE,
                      !.stamp = goal[g].stamp + 1, !.idleFrom = Len(winners)]]
      BY <2>1, <2>3 DEF Arm, GoalRec
    <3> QED BY <3>1
  <2> QED BY <2>2, <2>3
<1>2. goal \in [Goal -> GoalRec] /\ g \in Goal /\ goal[g] \in GoalRec
  BY DEF GoalsTyped, Known
<1>3. goal[g].stamp + 1 \in 0..MaxTools /\ Len(winners) \in 0..Turns
  <2>1. goal[g].stamp \in Nat /\ goal[g].stamp <= tools /\ tools \in Nat /\ MaxTools \in Nat
    BY <1>2, ConstantsAssumption DEF GoalsTyped, GoalRec
  <2>2. Len(winners) \in 0..Turns
    BY DEF TrackTyped, Tracks
  <2> QED BY <2>1, <2>2
<1>4. [goal[g] EXCEPT !.armed = a, !.stamp = goal[g].stamp + 1, !.idleFrom = Len(winners)]
        \in GoalRec
  BY <1>2, <1>3 DEF GoalRec
<1>5. goal' \in [Goal -> GoalRec]
  BY <1>1, <1>2, <1>4
<1>6. \A h \in Goal \ {g} : goal'[h] = goal[h]
  BY <1>1, <1>2
<1>7. /\ goal'[g].status = goal[g].status /\ goal'[g].kind = goal[g].kind
      /\ goal'[g].stamp = goal[g].stamp + 1 /\ goal'[g].epoch = goal[g].epoch
      /\ goal'[g].idleFrom = Len(winners) /\ goal'[g].by = goal[g].by
  BY <1>1, <1>2 DEF GoalRec
<1>8. Known' = Known
  BY <1>2, <1>6, <1>7 DEF Known
<1>9. Pushed' = Pushed
  BY <1>8 DEF Pushed, Known
<1> QED BY <1>5, <1>6, <1>7, <1>8, <1>9

LEMMA PushKeeps ==
    ASSUME GoalsTyped, TrackTyped, NEW kind \in {"task", "implicit"}, Push(kind)
    PROVE  /\ goal' \in [Goal -> GoalRec] /\ Pushed + 1 \in Goal /\ Pushed + 1 \notin Known
           /\ Known' = Known \cup {Pushed + 1} /\ Pushed' = Pushed + 1
           /\ \A h \in Goal \ {Pushed + 1} : goal'[h] = goal[h]
           /\ goal'[Pushed + 1] = [NoGoal EXCEPT !.kind = kind, !.status = "active",
                                                 !.epoch = epoch, !.idleFrom = Len(winners)]
<1>1. Pushed \in 0..MaxGoals /\ Known = 1..Pushed /\ Pushed < MaxGoals /\ MaxGoals \in Nat
  BY ConstantsAssumption DEF GoalsTyped, Push
<1> DEFINE new == [NoGoal EXCEPT !.kind = kind, !.status = "active", !.epoch = epoch,
                                 !.idleFrom = Len(winners)]
<1>n. PICK p \in Nat : p = Pushed + 1
  BY <1>1
<1>2. p \in Goal /\ p \notin Known /\ Known \cup {p} = 1..p
  BY <1>1, <1>n DEF Goal
<1>3. new \in GoalRec /\ new.status = "active"
  <2>1. epoch \in 0..MaxMishaps /\ Len(winners) \in 0..Turns
    BY ConstantsAssumption DEF GoalsTyped, TrackTyped, Tracks
  <2>2. 0 \in 0..MaxTools
    BY ConstantsAssumption
  <2> QED BY <2>1, <2>2 DEF GoalRec, NoGoal
<1>4. goal' = [goal EXCEPT ![p] = new] /\ goal \in [Goal -> GoalRec]
  BY <1>n DEF Push, GoalsTyped
<1> HIDE DEF new
<1>5. goal' \in [Goal -> GoalRec] /\ goal'[p] = new /\ \A h \in Goal \ {p} : goal'[h] = goal[h]
  BY <1>2, <1>3, <1>4
<1>6. Known' = Known \cup {p}
  BY <1>2, <1>3, <1>5 DEF Known
<1>7. Pushed' = p
  <2>1. Cardinality(1..p) = p
    BY FS_Interval
  <2>2. Pushed' = Cardinality(Known')
    BY DEF Pushed, Known
  <2> QED BY <2>1, <2>2, <1>2, <1>6
<1> QED BY <1>n, <1>2, <1>5, <1>6, <1>7 DEF new
-----------------------------------------------------------------------------
(* Where a step leaves its turn                                              *)

\* The turn t, and no other, moves to a stage, with what it holds on to.
Became(t, stage, newest, g, implicit, todo) ==
    /\ turn' \in [Turn -> TurnRec]
    /\ \A u \in Turn \ {t} : turn'[u] = turn[u]
    /\ turn'[t].stage = stage /\ turn'[t].newest = newest /\ turn'[t].goal = g
    /\ turn'[t].implicit = implicit /\ turn'[t].todo = todo

Went(t, stage)         == Became(t, stage, turn[t].newest, turn[t].goal, turn[t].implicit, turn[t].todo)
WentWith(t, stage, todo) == Became(t, stage, turn[t].newest, turn[t].goal, turn[t].implicit, todo)

LEMMA TurnRecOf ==
    ASSUME TurnsTyped, NEW t \in Turn PROVE turn[t] \in TurnRec
BY DEF TurnsTyped

LEMMA BecomesTyped ==
    ASSUME TurnsTyped, NEW t \in Turn, NEW r \in TurnRec, turn' = [turn EXCEPT ![t] = r]
    PROVE  Became(t, r.stage, r.newest, r.goal, r.implicit, r.todo)
BY DEF TurnsTyped, Became

\* A move changes the stage only.
LEMMA MoveGoes ==
    ASSUME TurnsTyped, NEW t \in Turn, NEW s \in Stages, Move(t, s)
    PROVE  Went(t, s)
<1> DEFINE r == [turn[t] EXCEPT !.stage = s]
<1>1. turn[t] \in TurnRec
  BY TurnRecOf
<1>2. r \in TurnRec /\ r.stage = s /\ r.newest = turn[t].newest /\ r.goal = turn[t].goal
      /\ r.implicit = turn[t].implicit /\ r.todo = turn[t].todo
  BY <1>1 DEF TurnRec
<1>3. turn' = [turn EXCEPT ![t] = r]
  BY <1>1 DEF Move, TurnsTyped
<1> QED BY <1>2, <1>3, BecomesTyped DEF Went

LEMMA ChooseGoes ==
    ASSUME TurnsTyped, NEW t \in Turn, NEW g \in MaybeGoal, Choose(t, g)
    PROVE  Became(t, "core", turn[t].newest, g, turn[t].implicit, turn[t].todo)
<1> DEFINE r == [turn[t] EXCEPT !.stage = "core", !.goal = g]
<1>1. turn[t] \in TurnRec
  BY TurnRecOf
<1>2. r \in TurnRec /\ r.stage = "core" /\ r.newest = turn[t].newest /\ r.goal = g
      /\ r.implicit = turn[t].implicit /\ r.todo = turn[t].todo
  BY <1>1 DEF TurnRec, Stages
<1>3. turn' = [turn EXCEPT ![t] = r]
  BY <1>1 DEF Choose, TurnsTyped
<1> QED BY <1>2, <1>3, BecomesTyped

\* What a turn still has to do, with or without a move.
LEMMA TodoGoes ==
    ASSUME TurnsTyped, NEW t \in Turn, NEW s \in Stages, NEW d \in SUBSET Goal,
           \/ turn' = [turn EXCEPT ![t].stage = s, ![t].todo = d]
           \/ turn[t].stage = s /\ turn' = [turn EXCEPT ![t].todo = d]
    PROVE  WentWith(t, s, d)
<1> DEFINE r == [turn[t] EXCEPT !.stage = s, !.todo = d]
<1>1. turn[t] \in TurnRec
  BY TurnRecOf
<1>2. r \in TurnRec /\ r.stage = s /\ r.newest = turn[t].newest /\ r.goal = turn[t].goal
      /\ r.implicit = turn[t].implicit /\ r.todo = d
  BY <1>1 DEF TurnRec
<1>3. turn' = [turn EXCEPT ![t] = r]
  <2>1. CASE turn' = [turn EXCEPT ![t].stage = s, ![t].todo = d]
    BY <1>1, <2>1 DEF TurnsTyped
  <2>2. CASE turn[t].stage = s /\ turn' = [turn EXCEPT ![t].todo = d]
    <3>1. r = [turn[t] EXCEPT !.todo = d]
      BY <1>1, <2>2 DEF TurnRec
    <3> QED BY <1>1, <2>2, <3>1 DEF TurnsTyped
  <2> QED BY <2>1, <2>2
<1> QED BY <1>2, <1>3, BecomesTyped DEF WentWith

LEMMA BeginGoes ==
    ASSUME GoalTyped, NEW t \in Turn, Begin(t)
    PROVE  Became(t, "open", Pushed, turn[t].goal, turn[t].implicit, turn[t].todo)
<1> DEFINE r == [turn[t] EXCEPT !.stage = "open", !.newest = Pushed]
<1>t. TurnsTyped /\ Pushed \in 0..MaxGoals
  BY DEF GoalTyped, GoalsTyped
<1>1. turn[t] \in TurnRec
  BY <1>t, TurnRecOf
<1>2. r \in TurnRec /\ r.stage = "open" /\ r.newest = Pushed /\ r.goal = turn[t].goal
      /\ r.implicit = turn[t].implicit /\ r.todo = turn[t].todo
  BY <1>1, <1>t DEF TurnRec, Stages
<1>3. turn' = [turn EXCEPT ![t] = r]
  BY <1>1, <1>t DEF Begin, TurnsTyped
<1> QED BY <1>t, <1>2, <1>3, BecomesTyped

\* Phase 3 decides on a goal, on a goal to close or on a new one, or falls back.
LEMMA LookGoes ==
    ASSUME GoalTyped, NEW t \in Turn, Look(t)
    PROVE  \/ \E g \in MaybeGoal :
                Became(t, "core", turn[t].newest, g, turn[t].implicit, turn[t].todo)
           \/ \E s \in {"push", "ensure"} : Went(t, s)
           \/ \E g \in Open :
                Became(t, "close", turn[t].newest, turn[t].goal, turn[t].implicit, {g})
<1>t. TurnsTyped
  BY DEF GoalTyped
<1>s. Open \subseteq Goal /\ Armed \subseteq Goal
  BY DEF Open, Armed, Active
<1>m. /\ Newest(Open) \in MaybeGoal /\ Newest(Armed) \in MaybeGoal
      /\ \A S \in SUBSET Goal : Newest(S) \in MaybeGoal
      /\ First(Newest(Open), Newest(Armed)) \in MaybeGoal
  <2>1. \A S \in SUBSET Goal : Newest(S) \in MaybeGoal
    BY NewestTyped DEF MaybeGoal
  <2>2. Newest(Open) \in MaybeGoal /\ Newest(Armed) \in MaybeGoal
    BY <1>s, <2>1
  <2> QED BY <2>1, <2>2 DEF First
<1>e. "push" \in Stages /\ "ensure" \in Stages /\ "close" \in Stages
  BY DEF Stages, Phase3
<1>1. ASSUME NEW g \in MaybeGoal, Fallback(t, g)
      PROVE  \/ \E h \in MaybeGoal :
                  Became(t, "core", turn[t].newest, h, turn[t].implicit, turn[t].todo)
             \/ \E s \in {"push", "ensure"} : Went(t, s)
  <2>1. CASE g # None
    BY <1>1, <2>1, <1>t, ChooseGoes DEF Fallback
  <2>2. CASE g = None
    <3>1. Move(t, "ensure")
      BY <1>1, <2>2 DEF Fallback
    <3> QED BY <3>1, <1>t, <1>e, MoveGoes
  <2> QED BY <2>1, <2>2
<1>2. CASE Cue(t) /\ Open = {}
  BY <1>2, <1>1, <1>m DEF Cue
<1>3. CASE Cue(t) /\ Open # {}
  <2> DEFINE x == First(Newest(Open \ {Max(Open)}), Newest(Armed))
             r == [turn[t] EXCEPT !.stage = "close", !.todo = {Max(Open)}, !.next = x]
  <2>1. Max(Open) \in Open
    BY <1>3, <1>s, TopIsThere
  <2>2. x \in MaybeGoal
    <3>1. Open \ {Max(Open)} \in SUBSET Goal
      BY <1>s
    <3>2. Newest(Open \ {Max(Open)}) \in MaybeGoal
      BY <3>1, <1>m
    <3> QED BY <3>2, <1>m DEF First
  <2>3. turn[t] \in TurnRec
    BY <1>t, TurnRecOf
  <2>4. turn' = [turn EXCEPT ![t].stage = "close", ![t].todo = {Max(Open)}, ![t].next = x]
    BY <1>3 DEF Cue
  <2> HIDE DEF x
  <2>5. {Max(Open)} \in SUBSET Goal
    BY <2>1, <1>s
  <2>6. r \in TurnRec /\ r.stage = "close" /\ r.newest = turn[t].newest /\ r.goal = turn[t].goal
        /\ r.implicit = turn[t].implicit /\ r.todo = {Max(Open)}
    BY <2>2, <2>3, <2>5, <1>e DEF TurnRec
  <2>7. turn' = [turn EXCEPT ![t] = r]
    BY <2>3, <2>4, <1>t DEF TurnsTyped
  <2>8. Became(t, "close", turn[t].newest, turn[t].goal, turn[t].implicit, {Max(Open)})
    BY <2>6, <2>7, <1>t, BecomesTyped
  <2> QED BY <2>1, <2>2, <2>8
<1>4. CASE Overlap(t)
  <2>1. PICK g \in Open : Choose(t, g)
    BY <1>4 DEF Overlap
  <2>2. g \in MaybeGoal
    BY <2>1, <1>s DEF MaybeGoal
  <2> QED BY <2>1, <2>2, <1>t, ChooseGoes
<1>5. CASE NewGoal(t)
  <2>1. Move(t, "push")
    BY <1>5 DEF NewGoal
  <2> QED BY <2>1, <1>t, <1>e, MoveGoes
<1>6. CASE Carry(t)
  BY <1>6, <1>1, <1>m DEF Carry
<1> QED BY <1>2, <1>3, <1>4, <1>5, <1>6 DEF Look

LEMMA CloseGoes ==
    ASSUME GoalTyped, NEW t \in Turn, CloseTop(t)
    PROVE  \E s \in {"ensure", "core"} : \E g \in MaybeGoal :
             Became(t, s, turn[t].newest, g, turn[t].implicit, {})
<1> DEFINE s == IF turn[t].next = None THEN "ensure" ELSE "core"
           r == [turn[t] EXCEPT !.stage = s, !.goal = turn[t].next, !.todo = {}, !.next = None]
<1>t. TurnsTyped
  BY DEF GoalTyped
<1>1. turn[t] \in TurnRec
  BY <1>t, TurnRecOf
<1>2. r \in TurnRec /\ r.stage = s /\ r.newest = turn[t].newest /\ r.goal = turn[t].next
      /\ r.implicit = turn[t].implicit /\ r.todo = {} /\ turn[t].next \in MaybeGoal
      /\ s \in {"ensure", "core"}
  BY <1>1 DEF TurnRec, Stages, Phase3, MaybeGoal
<1>3. turn' = [turn EXCEPT ![t] = r]
  BY <1>1, <1>t DEF CloseTop, TurnsTyped
<1> HIDE DEF s, r
<1>4. Became(t, s, turn[t].newest, turn[t].next, turn[t].implicit, {})
  BY <1>t, <1>2, <1>3, BecomesTyped
<1> QED BY <1>2, <1>4

\* The turn takes up the newest goal, which is its own when it is implicit.
LEMMA EnsureGoes ==
    ASSUME GoalTyped, NEW t \in Turn, EnsureImplicit(t)
    PROVE  \/ Went(t, "seed")
           \/ \E g \in Known : \E i \in {g, None} :
                Became(t, "core", turn[t].newest, g, i, turn[t].todo)
<1> DEFINE top == First(Newest(Active("task")), Newest(Active("implicit")))
<1>t. TurnsTyped
  BY DEF GoalTyped
<1>1. turn[t] \in TurnRec
  BY <1>t, TurnRecOf
<1>2. CASE top = None
  <2>1. Move(t, "seed") /\ "seed" \in Stages
    BY <1>2 DEF EnsureImplicit, Stages, Phase3
  <2> QED BY <2>1, <1>t, MoveGoes
<1>3. CASE top # None
  <2>1. top \in Active("task") \cup Active("implicit")
    <3>1. /\ Newest(Active("task")) \in Active("task") \cup {None}
          /\ Newest(Active("implicit")) \in Active("implicit") \cup {None}
      BY NewestTyped DEF Active
    <3> QED BY <1>3, <3>1 DEF First
  <2>2. PICK g \in Known : g = top
    BY <2>1 DEF Known, Active
  <2>3. Serve(t, g)
    BY <1>3, <2>2 DEF EnsureImplicit
  <2> DEFINE i == IF goal[g].kind = "implicit" THEN g ELSE None
             r == [turn[t] EXCEPT !.stage = "core", !.goal = g, !.implicit = i]
  <2>4. g \in Goal /\ i \in {g, None} /\ i \in MaybeGoal /\ g \in MaybeGoal
    BY DEF Known, MaybeGoal
  <2>5. r \in TurnRec /\ r.stage = "core" /\ r.newest = turn[t].newest /\ r.goal = g
        /\ r.implicit = i /\ r.todo = turn[t].todo
    <3> HIDE DEF i
    <3> QED BY <1>1, <2>4 DEF TurnRec, Stages
  <2>6. turn' = [turn EXCEPT ![t] = r]
    <3>1. turn' = [turn EXCEPT ![t].stage = "core", ![t].goal = g, ![t].implicit = i]
      BY <2>3 DEF Serve
    <3> HIDE DEF i
    <3> QED BY <1>1, <1>t, <3>1 DEF TurnsTyped
  <2> HIDE DEF i, r
  <2>7. Became(t, "core", turn[t].newest, g, i, turn[t].todo)
    BY <1>t, <2>5, <2>6, BecomesTyped
  <2> QED BY <2>4, <2>7
<1> QED BY <1>2, <1>3

LEMMA SeedGoes ==
    ASSUME GoalTyped, NEW t \in Turn, Seed(t)
    PROVE  \/ /\ Became(t, "core", turn[t].newest, Pushed + 1, Pushed + 1, turn[t].todo)
              /\ UNCHANGED <<mishaps, orphans>>
           \/ /\ Went(t, "core") /\ Mishap /\ orphans' = orphans \cup {Pushed + 1}
<1>t. TurnsTyped /\ GoalsTyped /\ TrackTyped /\ "core" \in Stages
  BY DEF GoalTyped, Stages
<1>1. turn[t] \in TurnRec
  BY <1>t, TurnRecOf
<1>2. CASE Mishap /\ Move(t, "core") /\ orphans' = orphans \cup {Pushed + 1}
  BY <1>2, <1>t, MoveGoes
<1>3. CASE turn' = [turn EXCEPT ![t].stage = "core", ![t].goal = Pushed + 1,
                                ![t].implicit = Pushed + 1]
           /\ UNCHANGED <<mishaps, orphans>>
  <2>1. PICK p \in Goal : p = Pushed + 1
    <3>1. Push("implicit")
      BY DEF Seed
    <3> QED BY <3>1, <1>t, PushKeeps
  <2> DEFINE r == [turn[t] EXCEPT !.stage = "core", !.goal = p, !.implicit = p]
  <2>2. p \in MaybeGoal
    BY DEF MaybeGoal
  <2>3. r \in TurnRec /\ r.stage = "core" /\ r.newest = turn[t].newest /\ r.goal = p
        /\ r.implicit = p /\ r.todo = turn[t].todo
    BY <1>1, <1>t, <2>2 DEF TurnRec
  <2>4. turn' = [turn EXCEPT ![t] = r]
    BY <1>1, <1>t, <1>3, <2>1 DEF TurnsTyped
  <2>5. Became(t, "core", turn[t].newest, p, p, turn[t].todo)
    BY <1>t, <2>3, <2>4, BecomesTyped
  <2> QED BY <1>3, <2>1, <2>5
<1> QED BY <1>2, <1>3 DEF Seed

LEMMA FailsGoes ==
    ASSUME GoalTyped, NEW t \in Turn, Phase3Fails(t)
    PROVE  WentWith(t, "core", {})
<1> DEFINE r == [turn[t] EXCEPT !.stage = "core", !.todo = {}, !.next = None]
<1>t. TurnsTyped
  BY DEF GoalTyped
<1>1. turn[t] \in TurnRec
  BY <1>t, TurnRecOf
<1>2. r \in TurnRec /\ r.stage = "core" /\ r.newest = turn[t].newest /\ r.goal = turn[t].goal
      /\ r.implicit = turn[t].implicit /\ r.todo = {}
  BY <1>1 DEF TurnRec, Stages, MaybeGoal
<1>3. turn' = [turn EXCEPT ![t] = r]
  BY <1>1, <1>t DEF Phase3Fails, TurnsTyped
<1> QED BY <1>t, <1>2, <1>3, BecomesTyped DEF WentWith

\* What is left of the cleanup, of the supersession and of the job.
LEMMA TouchGoes ==
    ASSUME GoalTyped, NEW t \in Turn, Touch(t)
    PROVE  Went(t, IF touched THEN "look" ELSE "touch")
<1>1. "look" \in Stages /\ "touch" \in Stages /\ TurnsTyped
  BY DEF Stages, Phase3, GoalTyped
<1> QED BY <1>1, MoveGoes DEF Touch

LEMMA FindGoes ==
    ASSUME GoalTyped, NEW t \in Turn, FindStale(t)
    PROVE  WentWith(t, "sweep", Stale(t))
<1>1. "sweep" \in Stages /\ Stale(t) \in SUBSET Goal /\ TurnsTyped
  BY DEF Stages, Stale, Active, GoalTyped
<1> QED BY <1>1, TodoGoes DEF FindStale

LEMMA SweepGoes ==
    ASSUME GoalTyped, NEW t \in Turn, Sweep(t)
    PROVE  \/ turn[t].todo = {} /\ Went(t, "look") /\ UNCHANGED goal
           \/ \E g \in turn[t].todo : /\ SetStatus(g, "resolved", "sweep")
                                      /\ WentWith(t, "sweep", turn[t].todo \ {g})
<1>t. /\ "look" \in Stages /\ "sweep" \in Stages /\ TurnsTyped /\ turn[t].todo \in SUBSET Goal
      /\ turn[t].stage = "sweep"
  BY TurnRecOf DEF Stages, Phase3, GoalTyped, TurnRec, Sweep
<1>1. CASE turn[t].todo = {}
  BY <1>1, <1>t, MoveGoes DEF Sweep
<1>2. CASE turn[t].todo # {}
  <2>1. PICK g \in turn[t].todo : g = Max(turn[t].todo)
    BY <1>2, <1>t, TopIsThere
  <2>2. SetStatus(g, "resolved", "sweep") /\ turn' = [turn EXCEPT ![t].todo = @ \ {g}]
    BY <1>2, <2>1 DEF Sweep
  <2>3. turn' = [turn EXCEPT ![t].todo = turn[t].todo \ {g}]
    BY <2>2, <1>t DEF TurnsTyped
  <2> QED BY <2>2, <2>3, <1>t, TodoGoes
<1> QED BY <1>1, <1>2

LEMMA SweepFailsGoes ==
    ASSUME GoalTyped, NEW t \in Turn, SweepFails(t)
    PROVE  WentWith(t, "look", {})
<1>1. "look" \in Stages /\ {} \in SUBSET Goal /\ TurnsTyped
  BY DEF Stages, Phase3, GoalTyped
<1> QED BY <1>1, TodoGoes DEF SweepFails

LEMMA CloseEnds ==
    ASSUME GoalTyped, NEW t \in Turn, Close(t)
    PROVE  \E g \in turn[t].todo : \E status \in {"resolved", "abandoned"} : SetStatus(g, status, "cue")
<1>1. turn[t].todo \in SUBSET Goal /\ turn[t].todo # {}
  BY TurnRecOf DEF GoalTyped, TurnsTyped, TurnTyped, TurnRec, Close
<1>2. Max(turn[t].todo) \in turn[t].todo
  BY <1>1, TopIsThere
<1> QED BY <1>2 DEF Close

LEMMA PushGoes ==
    ASSUME GoalTyped, NEW t \in Turn, PushIntent(t)
    PROVE  Became(t, "core", turn[t].newest, Pushed + 1, turn[t].implicit, turn[t].todo)
<1>1. Pushed + 1 \in MaybeGoal
  BY PushKeeps DEF PushIntent, GoalTyped, MaybeGoal
<1> QED BY <1>1, ChooseGoes DEF PushIntent, GoalTyped

LEMMA FinishGoes ==
    ASSUME GoalTyped, NEW t \in Turn, Finish(t) PROVE Went(t, "queued")
<1>1. "queued" \in Stages /\ TurnsTyped
  BY DEF Stages, GoalTyped
<1> QED BY <1>1, MoveGoes DEF Finish

\* A turn that is over holds on to nothing.
LEMMA OverGoes ==
    ASSUME TurnsTyped, NEW t \in Turn, TurnOver(t)
    PROVE  Became(t, "done", 0, None, None, {})
<1>1. /\ OverTurn.stage = "done" /\ OverTurn.newest = 0 /\ OverTurn.goal = None
      /\ OverTurn.implicit = None /\ OverTurn.todo = {} /\ OverTurn.next = None
  BY DEF OverTurn, NewTurn
<1>2. OverTurn \in TurnRec
  BY ConstantsAssumption DEF OverTurn, NewTurn, TurnRec, Stages, MaybeGoal
<1>3. turn' = [turn EXCEPT ![t] = OverTurn]
  BY DEF TurnOver
<1>4. Became(t, OverTurn.stage, OverTurn.newest, OverTurn.goal, OverTurn.implicit, OverTurn.todo)
  BY <1>2, <1>3, BecomesTyped
<1> QED BY <1>1, <1>4

LEMMA AbortGoes ==
    ASSUME GoalTyped, NEW t \in Turn, Abort(t)
    PROVE  Became(t, "done", 0, None, None, {})
BY OverGoes DEF Abort, GoalTyped

LEMMA CountGoes ==
    ASSUME GoalTyped, NEW t \in Turn, CountTurn(t) PROVE WentWith(t, "supersede", Idle(t))
<1>1. "supersede" \in Stages /\ Idle(t) \in SUBSET Goal /\ TurnsTyped
  BY DEF Stages, Idle, Open, Active, GoalTyped
<1> QED BY <1>1, TodoGoes DEF CountTurn

LEMMA CountFailsGoes ==
    ASSUME GoalTyped, NEW t \in Turn, CountFails(t) PROVE Went(t, "supersede")
<1>1. "supersede" \in Stages /\ TurnsTyped
  BY DEF Stages, GoalTyped
<1> QED BY <1>1, MoveGoes DEF CountFails

\* The loop has come to one of the goals that it has left.
LEMMA SupersedingAt ==
    ASSUME GoalTyped, NEW t \in Turn, Superseding(t)
    PROVE  /\ Running(t) /\ turn[t].stage = "supersede" /\ turn[t].todo \in SUBSET Goal
           /\ Max(turn[t].todo) \in turn[t].todo
<1>1. /\ Running(t) /\ turn[t].stage = "supersede" /\ turn[t].todo # {}
      /\ turn[t].todo \in SUBSET Goal
  BY TurnRecOf DEF GoalTyped, TurnRec, Superseding
<1> QED BY <1>1, TopIsThere

LEMMA SupersedeGoes ==
    ASSUME GoalTyped, NEW t \in Turn, Supersede(t)
    PROVE  \E g \in turn[t].todo :
             /\ SetStatus(g, "abandoned", "superseded")
             /\ WentWith(t, "supersede", turn[t].todo \ {g})
             /\ plan' = Without(plan, {g})
             /\ track' = Down(turn[t].todo \ {g}, plan')
<1>t. /\ "supersede" \in Stages /\ TurnsTyped /\ turn[t].todo \in SUBSET Goal
      /\ turn[t].stage = "supersede"
  BY SupersedingAt DEF Stages, GoalTyped, Supersede
<1>1. PICK g \in turn[t].todo : g = Max(turn[t].todo)
  BY SupersedingAt DEF Supersede
<1>2. /\ SetStatus(g, "abandoned", "superseded") /\ turn' = [turn EXCEPT ![t].todo = @ \ {g}]
      /\ plan' = Without(plan, {g}) /\ track' = Down(turn[t].todo \ {g}, plan')
  BY <1>1 DEF Supersede, Abandon
<1>3. turn' = [turn EXCEPT ![t].todo = turn[t].todo \ {g}]
  BY <1>2, <1>t DEF TurnsTyped
<1>4. WentWith(t, "supersede", turn[t].todo \ {g})
  BY <1>3, <1>t, TodoGoes
<1> QED BY <1>2, <1>4

LEMMA SupersedeFailsGoes ==
    ASSUME GoalTyped, NEW t \in Turn, SupersedeFails(t) PROVE WentWith(t, "supersede", {})
<1>1. "supersede" \in Stages /\ {} \in SUBSET Goal /\ TurnsTyped
  BY DEF Stages, GoalTyped
<1>2. turn[t].stage = "supersede" /\ turn' = [turn EXCEPT ![t].todo = {}]
  BY DEF SupersedeFails, Superseding
<1> QED BY <1>1, <1>2, TodoGoes

\* The end of the implicit goal of a turn.
LEMMA ImplicitEnds ==
    ASSUME GoalTyped, NEW t \in Turn, EndImplicit(t)
    PROVE  \/ turn[t].implicit = None /\ UNCHANGED goal
           \/ turn[t].implicit \in Known /\ SetStatus(turn[t].implicit, "resolved", "ended")
<1>1. turn[t].implicit \in Known \cup {None}
  BY DEF GoalTyped, TurnsTyped, TurnTyped
<1> QED BY <1>1 DEF EndImplicit

LEMMA EndJobGoes ==
    ASSUME GoalTyped, NEW t \in Turn, EndJob(t) \/ JobFails(t)
    PROVE  Became(t, "done", 0, None, None, {})
BY OverGoes DEF EndJob, JobFails, GoalTyped

\* A step of a turn, or of its job.
Acts(t) ==
    \/ Begin(t) \/ Touch(t) \/ FindStale(t) \/ Sweep(t) \/ SweepFails(t)
    \/ Look(t) \/ CloseTop(t) \/ PushIntent(t) \/ EnsureImplicit(t) \/ Seed(t)
    \/ Phase3Fails(t) \/ UseTool(t) \/ Finish(t) \/ Abort(t)
    \/ CountTurn(t) \/ CountFails(t) \/ Supersede(t) \/ SupersedeFails(t)
    \/ EndJob(t) \/ JobFails(t)

\* Only Touch marks the first touch of the process.
LEMMA TouchedSteps ==
    ASSUME NEW t \in Turn, Acts(t)
    PROVE  (Touch(t) /\ touched' = TRUE) \/ (~Touch(t) /\ touched' = touched)
<1>1. CASE Touch(t)
  BY <1>1 DEF Touch
<1>2. CASE ~Touch(t)
  BY <1>2 DEF Acts, Begin, FindStale, Sweep, SweepFails, Look, CloseTop, PushIntent,
              EnsureImplicit, Seed, Phase3Fails, UseTool, Finish, Abort, CountTurn, CountFails,
              Supersede, SupersedeFails, EndJob, JobFails
<1> QED BY <1>1, <1>2

\* A turn or its job writes the status of a goal: a cleanup that of a goal it found
\* stale, a supersession that of one it found idle.
Marks(t, h) ==
    \E status \in {"resolved", "abandoned"} :
        \E by \in {"sweep", "cue", "tool", "superseded", "ended"} :
            /\ SetStatus(h, status, by)
            /\ by = "sweep" => turn[t].stage = "sweep" /\ h \in turn[t].todo
            /\ by = "superseded" => turn[t].stage = "supersede" /\ h \in turn[t].todo

Works == tools' = tools + 1 /\ tools' \in 0..MaxTools /\ \E h \in Known : Step(h) \/ Arm(h)

LEMMA EveryWrite ==
    ASSUME GoalTyped, NEW t \in Turn, Acts(t)
    PROVE  \/ UNCHANGED goal /\ tools' = tools
           \/ tools' \in tools..MaxTools /\ \E h \in Known : Marks(t, h)
           \/ Works
           \/ tools' = tools /\ Push("task")
           \/ tools' = tools /\ Seed(t) /\ Push("implicit")
<1> DEFINE Marked == tools' \in tools..MaxTools /\ \E h \in Known : Marks(t, h)
           Same   == UNCHANGED goal /\ tools' = tools
<1>t. /\ turn[t].todo \subseteq Known /\ turn[t].todo \in SUBSET Goal
      /\ turn[t].todo # {} => turn[t].stage \in {"sweep", "close", "supersede"}
      /\ tools \in 0..MaxTools /\ MaxTools \in Nat /\ tools \in tools..MaxTools
  BY ConstantsAssumption, TurnRecOf DEF GoalTyped, TurnsTyped, TurnTyped, GoalsTyped, TurnRec
<1>m. ASSUME tools' = tools, NEW h \in Known, Marks(t, h) PROVE Marked
  BY <1>m, <1>t
<1>1. CASE \/ Begin(t) \/ Touch(t) \/ FindStale(t) \/ Look(t) \/ EnsureImplicit(t)
           \/ Finish(t) \/ Abort(t) \/ CountTurn(t) \/ CountFails(t)
  BY <1>1 DEF Begin, Touch, FindStale, Look, EnsureImplicit, Finish, Abort, CountTurn, CountFails
<1>2. CASE Sweep(t)
  <2>1. tools' = tools /\ turn[t].stage = "sweep"
    BY <1>2 DEF Sweep
  <2>2. ASSUME NEW g \in turn[t].todo, SetStatus(g, "resolved", "sweep") PROVE Marks(t, g)
    BY <2>1, <2>2 DEF Marks
  <2>3. UNCHANGED goal \/ \E g \in turn[t].todo : SetStatus(g, "resolved", "sweep")
    BY <1>2, SweepGoes
  <2> QED BY <2>1, <2>2, <2>3, <1>m, <1>t
<1>3. CASE SweepFails(t)
  <2>1. tools' = tools /\ turn[t].stage \in {"touch", "sweep"}
    BY <1>3 DEF SweepFails
  <2>2. CASE UNCHANGED goal
    BY <2>1, <2>2
  <2>3. CASE turn[t].todo # {} /\ SetStatus(Max(turn[t].todo), "resolved", "sweep")
    <3>1. PICK g \in turn[t].todo : g = Max(turn[t].todo)
      BY <2>3, <1>t, TopIsThere
    <3>2. turn[t].stage = "sweep"
      BY <2>1, <2>3, <1>t
    <3>3. Marks(t, g)
      BY <2>3, <3>1, <3>2 DEF Marks
    <3> QED BY <2>1, <3>3, <1>m, <1>t
  <2> QED BY <1>3, <2>2, <2>3 DEF SweepFails
<1>4. CASE CloseTop(t) \/ Phase3Fails(t)
  <2>1. tools' = tools
    BY <1>4 DEF CloseTop, Phase3Fails
  <2>2. CASE UNCHANGED goal \/ Push("task")
    BY <2>1, <2>2
  <2>3. CASE Close(t)
    <3>1. PICK g \in turn[t].todo, status \in {"resolved", "abandoned"} : SetStatus(g, status, "cue")
      BY <2>3, CloseEnds
    <3>2. Marks(t, g)
      BY <3>1 DEF Marks
    <3> QED BY <2>1, <3>2, <1>m, <1>t
  <2> QED BY <1>4, <2>2, <2>3 DEF CloseTop, Phase3Fails
<1>5. CASE PushIntent(t) \/ Seed(t)
  BY <1>5 DEF PushIntent, Seed
<1>6. CASE UseTool(t)
  <2>1. PICK g \in Known : Step(g) \/ CloseGoal(g) \/ Arm(g)
    BY <1>6 DEF UseTool, Active, Known
  <2>2. tools' = tools + 1 /\ tools < MaxTools
    BY <1>6 DEF UseTool, Tool
  <2>3. tools' \in tools..MaxTools /\ tools' \in 0..MaxTools
    BY <2>2, <1>t
  <2>4. CloseGoal(g) => Marks(t, g)
    BY DEF CloseGoal, Marks
  <2> QED BY <2>1, <2>2, <2>3, <2>4 DEF Works
<1>7. CASE Supersede(t) \/ SupersedeFails(t)
  <2>1. tools' = tools
    BY <1>7 DEF Supersede, SupersedeFails
  <2>2. turn[t].stage = "supersede" /\ Max(turn[t].todo) \in turn[t].todo
    BY <1>7, SupersedingAt DEF Supersede, SupersedeFails
  <2>3. CASE UNCHANGED goal
    BY <2>1, <2>3
  <2>4. CASE Abandon(t)
    <3>1. Marks(t, Max(turn[t].todo))
      BY <2>2, <2>4 DEF Abandon, Marks
    <3> QED BY <2>1, <2>2, <3>1, <1>m, <1>t
  <2> QED BY <1>7, <2>3, <2>4 DEF Supersede, SupersedeFails
<1>8. CASE EndJob(t) \/ JobFails(t)
  <2>1. tools' = tools
    BY <1>8 DEF EndJob, JobFails
  <2>2. CASE UNCHANGED goal
    BY <2>1, <2>2
  <2>3. CASE turn[t].implicit \in Known /\ SetStatus(turn[t].implicit, "resolved", "ended")
    <3>1. Marks(t, turn[t].implicit)
      BY <2>3 DEF Marks
    <3> QED BY <2>1, <2>3, <3>1, <1>m
  <2> QED BY <1>8, <2>2, <2>3, ImplicitEnds DEF EndJob, JobFails
<1> QED BY <1>1, <1>2, <1>3, <1>4, <1>5, <1>6, <1>7, <1>8 DEF Acts

\* Whatever a step does to the goals is one of four kinds of writes.
LEMMA EveryGoalStep ==
    ASSUME GoalTyped, NEW t \in Turn, Acts(t)
    PROVE  GoalStep
<1>1. \A h \in Known : Marks(t, h) => Ends(h)
  BY DEF Marks, Ends
<1> QED BY <1>1, EveryWrite DEF GoalStep, Works

\* The counters go up, and a goal once given up by its turn stays so.
LEMMA EveryCountStep ==
    ASSUME GoalTyped, NEW t \in Turn, Acts(t)
    PROVE  /\ epoch' = epoch /\ mishaps' \in mishaps..MaxMishaps
           /\ orphans \subseteq orphans' /\ orphans' \subseteq Goal
           /\ forgotten' = forgotten /\ missed \subseteq missed' /\ missed' \subseteq Goal
           /\ \/ winners' = winners
              \/ \E g \in MaybeGoal : winners' = Append(winners, g)
<1>t. /\ mishaps \in 0..MaxMishaps /\ MaxMishaps \in Nat /\ orphans \subseteq Goal /\ missed \subseteq Goal
      /\ turn[t] \in TurnRec /\ GoalsTyped /\ TrackTyped
  BY ConstantsAssumption, TurnRecOf DEF GoalTyped, GoalsTyped
<1>m. ASSUME Mishap \/ mishaps' = mishaps PROVE mishaps' \in mishaps..MaxMishaps
  BY <1>m, <1>t DEF Mishap
<1>1. CASE \/ Begin(t) \/ Touch(t) \/ FindStale(t) \/ Sweep(t) \/ Look(t) \/ CloseTop(t)
           \/ PushIntent(t) \/ EnsureImplicit(t) \/ UseTool(t) \/ Finish(t) \/ Supersede(t)
           \/ EndJob(t)
  <2>1. UNCHANGED history /\ mishaps' = mishaps
    BY <1>1 DEF Begin, Touch, FindStale, Sweep, Look, CloseTop, PushIntent, EnsureImplicit, UseTool,
                Finish, Supersede, EndJob
  <2> QED BY <2>1, <1>t, <1>m DEF history
<1>2. CASE Phase3Fails(t)
  <2>1. UNCHANGED history /\ Mishap
    BY <1>2 DEF Phase3Fails
  <2> QED BY <2>1, <1>t, <1>m DEF history
<1>3. CASE SweepFails(t)
  BY <1>3, <1>t, <1>m DEF SweepFails, Stale, Active
<1>4. CASE Seed(t)
  <2>1. Pushed + 1 \in Goal
    BY <1>4, <1>t, PushKeeps DEF Seed
  <2> QED BY <1>4, <2>1, <1>t, <1>m DEF Seed
<1>5. CASE Abort(t) \/ JobFails(t)
  <2>1. {turn[t].implicit} \ {None} \subseteq Goal
    BY <1>t DEF TurnRec, MaybeGoal
  <2> QED BY <1>5, <2>1, <1>t, <1>m DEF Abort, JobFails
<1>6. CASE CountTurn(t)
  <2>1. turn[t].goal \in MaybeGoal
    BY <1>t DEF TurnRec
  <2> QED BY <1>6, <2>1, <1>t, <1>m DEF CountTurn
<1>7. CASE CountFails(t)
  <2>1. None \in MaybeGoal
    BY DEF MaybeGoal
  <2> QED BY <1>7, <2>1, <1>t, <1>m DEF CountFails
<1>8. CASE SupersedeFails(t)
  <2>1. missed \subseteq missed' /\ missed' \subseteq Goal
    BY <1>8, <1>t DEF SupersedeFails
  <2> QED BY <1>8, <2>1, <1>t, <1>m DEF SupersedeFails
<1> QED BY <1>1, <1>2, <1>3, <1>4, <1>5, <1>6, <1>7, <1>8 DEF Acts
-----------------------------------------------------------------------------
(* The typing invariant                                                      *)

LEMMA GoalsTypedStep ==
    ASSUME GoalTyped, NEW t \in Turn, Acts(t)
    PROVE  GoalsTyped'
<1>t. GoalsTyped /\ TrackTyped
  BY DEF GoalTyped
<1>n. MaxGoals \in Nat /\ MaxTools \in Nat /\ MaxMishaps \in Nat
  BY ConstantsAssumption
<1>c. /\ epoch' = epoch /\ mishaps' \in 0..MaxMishaps /\ epoch' \in 0..mishaps' /\ orphans' \subseteq Goal
      /\ missed' \subseteq Goal /\ forgotten' \in BOOLEAN
  BY EveryCountStep, <1>t, <1>n DEF GoalsTyped
<1>w. Len(winners) \in Nat /\ Len(winners') \in Nat /\ Len(winners) <= Len(winners')
  <2>1. winners \in Seq(MaybeGoal)
    BY <1>t DEF TrackTyped
  <2>2. CASE winners' = winners
    BY <2>1, <2>2
  <2>3. ASSUME NEW g \in MaybeGoal, winners' = Append(winners, g)
        PROVE  Len(winners) \in Nat /\ Len(winners') = Len(winners) + 1
    BY <2>1, <2>3
  <2> QED BY <2>1, <2>2, <2>3, EveryCountStep
<1>f. \A g \in Goal : /\ goal[g].stamp \in Nat /\ goal[g].epoch \in Nat /\ goal[g].idleFrom \in Nat
                      /\ goal[g].stamp <= tools /\ goal[g].epoch <= epoch
                      /\ goal[g].idleFrom <= Len(winners)
  BY <1>t, <1>n DEF GoalsTyped, GoalRec
<1>p. tools \in Nat /\ epoch \in Nat /\ Pushed \in 0..MaxGoals /\ Known = 1..Pushed
      /\ goal \in [Goal -> GoalRec]
  BY <1>t, <1>n DEF GoalsTyped
<1>1. CASE UNCHANGED goal /\ tools' = tools
  <2>1. Known' = Known /\ Pushed' = Pushed
    BY <1>1 DEF Known, Pushed
  <2>2. \A g \in Goal : goal'[g].idleFrom <= Len(winners')
    BY <1>1, <1>f, <1>w
  <2> QED BY <1>1, <2>1, <2>2, <1>c, <1>t DEF GoalsTyped
<1>2. CASE tools' \in tools..MaxTools /\ \E g \in Known : Ends(g)
  <2>1. PICK g \in Known : Ends(g)
    BY <1>2
  <2>2. /\ goal' \in [Goal -> GoalRec] /\ Known' = Known /\ Pushed' = Pushed
        /\ \A h \in Goal : /\ goal'[h].stamp = goal[h].stamp /\ goal'[h].epoch = goal[h].epoch
                           /\ goal'[h].idleFrom = goal[h].idleFrom
    BY <2>1, <1>t, EndsKeeps
  <2>3. \A h \in Goal : /\ goal'[h].stamp <= tools' /\ goal'[h].epoch <= epoch'
                        /\ goal'[h].idleFrom <= Len(winners')
    BY <1>2, <2>2, <1>f, <1>w, <1>c, <1>p, <1>n
  <2>4. tools' \in 0..MaxTools
    BY <1>2, <1>p, <1>n
  <2> QED BY <2>2, <2>3, <2>4, <1>c, <1>p DEF GoalsTyped
<1>3. CASE tools' = tools + 1 /\ tools' \in 0..MaxTools /\ \E g \in Known : Step(g) \/ Arm(g)
  <2>1. PICK g \in Known : Step(g) \/ Arm(g)
    BY <1>3
  <2>2. /\ goal' \in [Goal -> GoalRec] /\ Known' = Known /\ Pushed' = Pushed
        /\ \A h \in Goal \ {g} : goal'[h] = goal[h]
        /\ goal'[g].stamp = goal[g].stamp + 1 /\ goal'[g].idleFrom = Len(winners)
        /\ \A h \in Goal : goal'[h].epoch = goal[h].epoch
    BY <2>1, <1>3, <1>t, ToolKeeps
  <2>3. \A h \in Goal : /\ goal'[h].stamp <= tools' /\ goal'[h].epoch <= epoch'
                        /\ goal'[h].idleFrom <= Len(winners')
    <3> TAKE h \in Goal
    <3>1. goal'[h].epoch <= epoch'
      BY <2>2, <1>f, <1>c
    <3>2. CASE h = g
      BY <1>3, <2>2, <3>1, <3>2, <1>f, <1>w, <1>p
    <3>3. CASE h # g
      <4>1. goal'[h].stamp <= tools /\ goal'[h].idleFrom <= Len(winners) /\ goal'[h].stamp \in Nat
        BY <2>2, <3>3, <1>f
      <4>2. goal'[h].idleFrom <= Len(winners')
        BY <2>2, <3>3, <1>f, <1>w
      <4> QED BY <1>3, <3>1, <4>1, <4>2, <1>p
    <3> QED BY <3>2, <3>3
  <2> QED BY <1>3, <2>2, <2>3, <1>c, <1>p DEF GoalsTyped
<1>4. CASE tools' = tools /\ \E kind \in {"task", "implicit"} : Push(kind)
  <2>1. PICK kind \in {"task", "implicit"} : Push(kind)
    BY <1>4
  <2>p. PICK p \in Goal : p = Pushed + 1
    BY <2>1, <1>t, PushKeeps
  <2>2. /\ goal' \in [Goal -> GoalRec] /\ Known' = Known \cup {p} /\ Pushed' = p
        /\ \A h \in Goal \ {p} : goal'[h] = goal[h]
        /\ goal'[p] = [NoGoal EXCEPT !.kind = kind, !.status = "active",
                                     !.epoch = epoch, !.idleFrom = Len(winners)]
    BY <2>1, <2>p, <1>t, PushKeeps
  <2>3. goal'[p].stamp = 0 /\ goal'[p].epoch = epoch /\ goal'[p].idleFrom = Len(winners)
    BY <2>2 DEF NoGoal
  <2>4. \A h \in Goal : /\ goal'[h].stamp <= tools' /\ goal'[h].epoch <= epoch'
                        /\ goal'[h].idleFrom <= Len(winners')
    <3>1. ASSUME NEW h \in Goal \ {p}
          PROVE  /\ goal'[h].stamp <= tools' /\ goal'[h].epoch <= epoch'
                 /\ goal'[h].idleFrom <= Len(winners')
      <4>1. goal'[h] = goal[h]
        BY <2>2
      <4> QED BY <1>4, <4>1, <1>f, <1>w, <1>c, <1>p
    <3>2. /\ goal'[p].stamp <= tools' /\ goal'[p].epoch <= epoch'
          /\ goal'[p].idleFrom <= Len(winners')
      BY <1>4, <2>3, <1>w, <1>c, <1>p
    <3> QED BY <3>1, <3>2
  <2>5. p \in 0..MaxGoals /\ Known \cup {p} = 1..p
    BY <2>p, <1>p, <1>n DEF Goal
  <2>6. tools' \in 0..MaxTools
    BY <1>4, <1>t DEF GoalsTyped
  <2> QED BY <2>2, <2>4, <2>5, <2>6, <1>c DEF GoalsTyped
<1> QED BY <1>1, <1>2, <1>3, <1>4, EveryGoalStep DEF GoalStep

\* A goal is of one kind and of one process for good, never comes back, and its
\* stamp tells whether a tool has touched it.
LEMMA KnownGoalsStay ==
    ASSUME GoalTyped, NEW t \in Turn, Acts(t)
    PROVE  /\ Known \subseteq Known' /\ Known' \subseteq Known \cup {Pushed + 1}
           /\ Pushed <= Pushed' /\ Pushed' \in Nat
           /\ \A h \in Known :
                /\ goal'[h].kind = goal[h].kind /\ goal'[h].epoch = goal[h].epoch
                /\ goal'[h].status = "active" => goal[h].status = "active"
                /\ \/ goal'[h].stamp = goal[h].stamp /\ goal'[h].idleFrom = goal[h].idleFrom
                   \/ goal'[h].stamp = goal[h].stamp + 1 /\ goal'[h].idleFrom = Len(winners)
<1>t. GoalsTyped /\ TrackTyped
  BY DEF GoalTyped
<1>p. Pushed \in Nat /\ \A h \in Known : h \in Goal
  BY <1>t, ConstantsAssumption DEF GoalsTyped, Known
<1>1. CASE UNCHANGED goal
  <2>1. Known' = Known /\ Pushed' = Pushed
    BY <1>1 DEF Known, Pushed
  <2> QED BY <1>1, <2>1, <1>p
<1>2. ASSUME NEW g \in Known, Ends(g)
      PROVE  /\ Known' = Known /\ Pushed' = Pushed
             /\ \A h \in Goal :
                  /\ goal'[h].kind = goal[h].kind /\ goal'[h].epoch = goal[h].epoch
                  /\ goal'[h].status = "active" => goal[h].status = "active"
                  /\ goal'[h].stamp = goal[h].stamp /\ goal'[h].idleFrom = goal[h].idleFrom
  BY <1>2, <1>t, EndsKeeps
<1>3. ASSUME tools' = tools + 1, tools' \in 0..MaxTools, NEW g \in Known, Step(g) \/ Arm(g)
      PROVE  /\ Known' = Known /\ Pushed' = Pushed
             /\ \A h \in Goal :
                  /\ goal'[h].kind = goal[h].kind /\ goal'[h].epoch = goal[h].epoch
                  /\ goal'[h].status = goal[h].status
                  /\ \/ goal'[h].stamp = goal[h].stamp /\ goal'[h].idleFrom = goal[h].idleFrom
                     \/ goal'[h].stamp = goal[h].stamp + 1 /\ goal'[h].idleFrom = Len(winners)
  BY <1>3, <1>t, ToolKeeps
<1>4. ASSUME NEW kind \in {"task", "implicit"}, Push(kind)
      PROVE  /\ Known' = Known \cup {Pushed + 1} /\ Pushed' = Pushed + 1
             /\ \A h \in Known : goal'[h] = goal[h]
  <2>p. PICK p \in Goal : p = Pushed + 1 /\ p \notin Known
    BY <1>4, <1>t, PushKeeps
  <2>2. /\ Known' = Known \cup {p} /\ Pushed' = p /\ \A h \in Goal \ {p} : goal'[h] = goal[h]
    BY <1>4, <2>p, <1>t, PushKeeps
  <2> QED BY <2>p, <2>2, <1>p
<1>5. CASE \E g \in Known : Ends(g)
  BY <1>5, <1>2, <1>p
<1>6. CASE tools' = tools + 1 /\ tools' \in 0..MaxTools /\ \E g \in Known : Step(g) \/ Arm(g)
  BY <1>6, <1>3, <1>p
<1>7. CASE \E kind \in {"task", "implicit"} : Push(kind)
  <2>1. /\ Known' = Known \cup {Pushed + 1} /\ Pushed' = Pushed + 1
        /\ \A h \in Known : goal'[h] = goal[h]
    BY <1>7, <1>4
  <2> QED BY <2>1, <1>p
<1> QED BY <1>1, <1>5, <1>6, <1>7, EveryGoalStep DEF GoalStep

\* A turn that does not move stays typed.
LEMMA OthersStayTyped ==
    ASSUME GoalTyped, NEW t \in Turn, Acts(t), NEW u \in Turn, turn'[u] = turn[u]
    PROVE  TurnTyped(u)'
<1>1. TurnTyped(u) /\ turn[u].newest \in Nat /\ Pushed \in Nat
  BY TurnRecOf, ConstantsAssumption DEF GoalTyped, TurnsTyped, TurnRec, GoalsTyped
<1> QED BY <1>1, KnownGoalsStay DEF TurnTyped

\* So does one that moves with what it had, or drops some of it.
LEMMA GoesTyped ==
    ASSUME GoalTyped, NEW t \in Turn, Acts(t), NEW s, NEW n \in Nat, NEW g, NEW i, NEW d,
           Became(t, s, n, g, i, d),
           n <= Pushed', d \subseteq Known', i \in Known' \cup {None},
           d # {} => s \in {"sweep", "close", "supersede"},
           s = "close" => d # {},
           i # None => s \in {"core", "queued", "supersede", "done"}
    PROVE  turn' \in [Turn -> TurnRec] /\ \A u \in Turn : TurnTyped(u)'
<1>1. turn' \in [Turn -> TurnRec]
  BY DEF Became
<1>2. TurnTyped(t)'
  BY DEF Became, TurnTyped
<1>3. \A u \in Turn \ {t} : TurnTyped(u)'
  BY OthersStayTyped DEF Became
<1> QED BY <1>1, <1>2, <1>3

LEMMA TurnsTypedStep ==
    ASSUME GoalTyped, NEW t \in Turn, Acts(t)
    PROVE  TurnsTyped'
<1>t. GoalsTyped /\ TrackTyped /\ TurnsTyped
  BY DEF GoalTyped
<1>k. Known \subseteq Known' /\ Pushed <= Pushed' /\ Pushed' \in Nat /\ Pushed \in Nat
  BY KnownGoalsStay, ConstantsAssumption, <1>t DEF GoalsTyped
<1>r. /\ TurnTyped(t) /\ turn[t] \in TurnRec /\ turn[t].newest \in Nat
      /\ turn[t].newest <= Pushed' /\ turn[t].todo \subseteq Known'
      /\ turn[t].implicit \in Known' \cup {None}
  <2>1. TurnTyped(t) /\ turn[t] \in TurnRec /\ turn[t].newest \in Nat
    BY <1>t, TurnRecOf, ConstantsAssumption DEF TurnsTyped, TurnRec
  <2> QED BY <2>1, <1>k DEF TurnTyped
<1>q. queue' \in Seq(Turn)
  <2>1. queue \in Seq(Turn)
    BY <1>t DEF TurnsTyped
  <2>2. CASE Finish(t)
    BY <2>1, <2>2, AppendProperties DEF Finish
  <2>3. CASE EndJob(t) \/ JobFails(t)
    <3>1. queue' = Tail(queue) /\ queue # <<>>
      BY <2>3 DEF EndJob, JobFails, Running
    <3> QED BY <2>1, <3>1, HeadTailProperties
  <2>4. CASE ~Finish(t) /\ ~EndJob(t) /\ ~JobFails(t)
    <3>1. UNCHANGED queue
      BY <2>4 DEF Acts, Begin, Touch, FindStale, Sweep, SweepFails, Look, CloseTop, PushIntent,
                  EnsureImplicit, Seed, Phase3Fails, UseTool, Abort, CountTurn, CountFails,
                  Supersede, SupersedeFails
    <3> QED BY <2>1, <3>1
  <2> QED BY <2>2, <2>3, <2>4
<1>b. touched' \in BOOLEAN
  <2>1. CASE Touch(t)
    BY <2>1 DEF Touch
  <2>2. CASE ~Touch(t)
    <3>1. UNCHANGED touched
      BY <2>2, TouchedSteps
    <3> QED BY <3>1, <1>t DEF TurnsTyped
  <2> QED BY <2>1, <2>2
<1> DEFINE Typed == turn' \in [Turn -> TurnRec] /\ \A u \in Turn : TurnTyped(u)'
<1>g. ASSUME NEW s, NEW n \in Nat, NEW g, NEW i, NEW d,
             Became(t, s, n, g, i, d),
             n <= Pushed', d \subseteq Known', i \in Known' \cup {None},
             d # {} => s \in {"sweep", "close", "supersede"},
             s = "close" => d # {},
             i # None => s \in {"core", "queued", "supersede", "done"}
      PROVE  Typed
  BY <1>g, GoesTyped
<1>s. \* a stage of the core or of the job, with nothing left to do
      ASSUME NEW s \in {"core", "queued", "supersede", "done"}, WentWith(t, s, {}) PROVE Typed
  BY <1>s, <1>g, <1>r DEF WentWith
<1>p. \* a stage before, for a turn without an implicit goal
      ASSUME NEW s \in {"look", "touch", "push", "ensure", "seed", "open"},
             turn[t].implicit = None, WentWith(t, s, {})
      PROVE  Typed
  BY <1>p, <1>g, <1>r DEF WentWith
<1>c. \* the core, or the fallback before it, with a goal
      ASSUME NEW s \in {"core", "ensure", "open"}, NEW n \in Nat, n <= Pushed', NEW g,
             NEW i \in Known' \cup {None}, i # None => s = "core", Became(t, s, n, g, i, {})
      PROVE  Typed
  <2> DEFINE d == {}
  <2>1. d \subseteq Known' /\ d = {} /\ s # "close"
    OBVIOUS
  <2>2. i # None => s \in {"core", "queued", "supersede", "done"}
    BY <1>c
  <2>3. Became(t, s, n, g, i, d)
    BY <1>c
  <2> HIDE DEF d
  <2> QED BY <1>c, <2>1, <2>2, <2>3, GoesTyped
<1>v. \* a loop that has goals left, for a turn without an implicit goal
      ASSUME NEW s \in {"sweep", "close"}, NEW d, d \subseteq Known', s = "close" => d # {},
             Became(t, s, turn[t].newest, turn[t].goal, None, d)
      PROVE  Typed
  <2>1. PICK n \in Nat : n = turn[t].newest /\ n <= Pushed'
    BY <1>r
  <2>2. PICK g : g = turn[t].goal
    OBVIOUS
  <2>3. Became(t, s, n, g, None, d)
    BY <1>v, <2>1, <2>2
  <2> QED BY <1>v, <2>1, <2>3, <1>g
<1>e. turn[t].stage \notin {"sweep", "close", "supersede"} => turn[t].todo = {}
  BY <1>r DEF TurnTyped
<1>i. turn[t].stage \notin {"core", "queued", "supersede", "done"} => turn[t].implicit = None
  BY <1>r DEF TurnTyped
<1>1. CASE Begin(t)
  <2>1. turn[t].todo = {} /\ turn[t].implicit = None
    BY <1>1, <1>e, <1>i DEF Begin
  <2>2. Became(t, "open", Pushed, turn[t].goal, None, {})
    BY <1>1, <2>1, BeginGoes
  <2>3. Typed
    BY <2>2, <1>c, <1>k
  <2> QED BY <2>3, <1>q, <1>b DEF TurnsTyped
<1>2. CASE Touch(t) \/ SweepFails(t)
  <2>1. turn[t].implicit = None
    BY <1>2, <1>i DEF Touch, SweepFails
  <2>2. \E s \in {"look", "touch"} : WentWith(t, s, {})
    <3>1. CASE Touch(t)
      BY <3>1, <1>e, TouchGoes DEF Went, WentWith, Touch
    <3>2. CASE SweepFails(t)
      BY <3>2, SweepFailsGoes
    <3> QED BY <1>2, <3>1, <3>2
  <2> QED BY <2>1, <2>2, <1>p, <1>q, <1>b DEF TurnsTyped
<1>3. CASE FindStale(t)
  <2>1. turn[t].implicit = None /\ Stale(t) \subseteq Known
    BY <1>3, <1>i DEF FindStale, Stale, Active, Known
  <2>2. Became(t, "sweep", turn[t].newest, turn[t].goal, None, Stale(t))
    BY <1>3, <2>1, FindGoes DEF WentWith
  <2>3. Stale(t) \subseteq Known'
    BY <2>1, <1>k
  <2> QED BY <2>2, <2>3, <1>g, <1>r, <1>q, <1>b DEF TurnsTyped
<1>4. CASE Sweep(t)
  <2>1. turn[t].implicit = None
    BY <1>4, <1>i DEF Sweep
  <2>2. CASE WentWith(t, "look", {})
    BY <2>1, <2>2, <1>p, <1>q, <1>b DEF TurnsTyped
  <2>3. ASSUME NEW g \in turn[t].todo, WentWith(t, "sweep", turn[t].todo \ {g}) PROVE Typed
    <3>1. Became(t, "sweep", turn[t].newest, turn[t].goal, None, turn[t].todo \ {g})
      BY <2>1, <2>3 DEF WentWith
    <3>2. turn[t].todo \ {g} \subseteq Known'
      BY <1>r
    <3> QED BY <3>1, <3>2, <1>v
  <2>4. WentWith(t, "look", {}) \/ \E g \in turn[t].todo : WentWith(t, "sweep", turn[t].todo \ {g})
    BY <1>4, SweepGoes DEF Went, WentWith
  <2> QED BY <2>2, <2>3, <2>4, <1>q, <1>b DEF TurnsTyped
<1>5. CASE Look(t)
  <2>1. turn[t].implicit = None /\ turn[t].todo = {}
    BY <1>5, <1>i, <1>e DEF Look
  <2>2. ASSUME NEW g \in MaybeGoal, Became(t, "core", turn[t].newest, g, None, {}) PROVE Typed
    BY <2>2, <1>c, <1>r
  <2>3. ASSUME NEW s \in {"push", "ensure"}, WentWith(t, s, {}) PROVE Typed
    BY <2>1, <2>3, <1>p
  <2>4. ASSUME NEW g \in Open, Became(t, "close", turn[t].newest, turn[t].goal, None, {g}) PROVE Typed
    <3>1. {g} \subseteq Known'
      BY <1>k DEF Open, Active, Known
    <3> QED BY <2>4, <3>1, <1>v
  <2>5. \/ \E g \in MaybeGoal : Became(t, "core", turn[t].newest, g, None, {})
        \/ \E s \in {"push", "ensure"} : WentWith(t, s, {})
        \/ \E g \in Open : Became(t, "close", turn[t].newest, turn[t].goal, None, {g})
    BY <1>5, <2>1, LookGoes DEF Went, WentWith
  <2> QED BY <2>2, <2>3, <2>4, <2>5, <1>q, <1>b DEF TurnsTyped
<1>6. CASE CloseTop(t)
  <2>1. turn[t].implicit = None
    BY <1>6, <1>i DEF CloseTop, Close
  <2>2. PICK s \in {"ensure", "core"}, g \in MaybeGoal : Became(t, s, turn[t].newest, g, None, {})
    BY <1>6, <2>1, CloseGoes
  <2>3. Typed
    BY <2>2, <1>c, <1>r
  <2> QED BY <2>3, <1>q, <1>b DEF TurnsTyped
<1>7. CASE PushIntent(t)
  <2>1. turn[t].implicit = None /\ turn[t].todo = {}
    BY <1>7, <1>i, <1>e DEF PushIntent
  <2>2. Became(t, "core", turn[t].newest, Pushed + 1, None, {})
    BY <1>7, <2>1, PushGoes
  <2>3. Typed
    BY <2>2, <1>c, <1>r
  <2> QED BY <2>3, <1>q, <1>b DEF TurnsTyped
<1>8. CASE EnsureImplicit(t)
  <2>1. turn[t].implicit = None /\ turn[t].todo = {}
    BY <1>8, <1>i, <1>e DEF EnsureImplicit
  <2>2. CASE WentWith(t, "seed", {})
    BY <2>1, <2>2, <1>p, <1>q, <1>b DEF TurnsTyped
  <2>3. ASSUME NEW g \in Known, NEW i \in {g, None}, Became(t, "core", turn[t].newest, g, i, {})
        PROVE  Typed
    <3>1. i \in Known' \cup {None}
      BY <1>k
    <3> QED BY <2>3, <3>1, <1>c, <1>r
  <2>4. \/ WentWith(t, "seed", {})
        \/ \E g \in Known : \E i \in {g, None} : Became(t, "core", turn[t].newest, g, i, {})
    BY <1>8, <2>1, EnsureGoes DEF Went, WentWith
  <2> QED BY <2>2, <2>3, <2>4, <1>q, <1>b DEF TurnsTyped
<1>9. CASE Seed(t)
  <2>1. turn[t].todo = {}
    BY <1>9, <1>e DEF Seed
  <2>2. Pushed + 1 \in Known'
    BY <1>9, <1>t, PushKeeps DEF Seed
  <2>3. CASE Became(t, "core", turn[t].newest, Pushed + 1, Pushed + 1, {})
    <3>1. Typed
      BY <2>2, <2>3, <1>c, <1>r
    <3> QED BY <3>1, <1>q, <1>b DEF TurnsTyped
  <2>4. CASE WentWith(t, "core", {})
    BY <2>4, <1>s, <1>q, <1>b DEF TurnsTyped
  <2> QED BY <1>9, <2>1, <2>3, <2>4, SeedGoes DEF Went, WentWith
<1>10. CASE Phase3Fails(t)
  BY <1>10, <1>s, <1>q, <1>b, FailsGoes DEF TurnsTyped
<1>11. CASE UseTool(t)
  <2>1. turn' = turn
    BY <1>11 DEF UseTool
  <2> QED BY <2>1, <1>t, <1>q, <1>b, OthersStayTyped DEF TurnsTyped
<1>o. \* the end of a turn
      ASSUME Became(t, "done", 0, None, None, {}) PROVE Typed
  BY <1>o, <1>g, <1>k
<1>12. CASE Finish(t)
  <2>1. turn[t].todo = {}
    BY <1>12, <1>e DEF Finish
  <2>2. WentWith(t, "queued", {})
    BY <1>12, <2>1, FinishGoes DEF Went, WentWith
  <2> QED BY <2>2, <1>s, <1>q, <1>b DEF TurnsTyped
<1>13. CASE CountTurn(t)
  <2>1. Idle(t) \subseteq Known'
    BY <1>k DEF Idle, Open, Active, Known
  <2>2. Became(t, "supersede", turn[t].newest, turn[t].goal, turn[t].implicit, Idle(t))
    BY <1>13, CountGoes DEF WentWith
  <2> QED BY <2>1, <2>2, <1>g, <1>r, <1>q, <1>b DEF TurnsTyped
<1>14. CASE CountFails(t)
  <2>1. turn[t].todo = {}
    BY <1>14, <1>e DEF CountFails
  <2>2. WentWith(t, "supersede", {})
    BY <1>14, <2>1, CountFailsGoes DEF Went, WentWith
  <2> QED BY <2>2, <1>s, <1>q, <1>b DEF TurnsTyped
<1>15. CASE Supersede(t)
  <2>1. PICK g \in turn[t].todo : WentWith(t, "supersede", turn[t].todo \ {g})
    BY <1>15, SupersedeGoes
  <2>2. Became(t, "supersede", turn[t].newest, turn[t].goal, turn[t].implicit, turn[t].todo \ {g})
        /\ turn[t].todo \ {g} \subseteq Known'
    BY <2>1, <1>r DEF WentWith
  <2> QED BY <2>2, <1>g, <1>r, <1>q, <1>b DEF TurnsTyped
<1>16. CASE SupersedeFails(t)
  BY <1>16, <1>s, <1>q, <1>b, SupersedeFailsGoes DEF TurnsTyped
<1>17. CASE Abort(t) \/ EndJob(t) \/ JobFails(t)
  BY <1>17, <1>o, <1>q, <1>b, AbortGoes, EndJobGoes DEF TurnsTyped
<1> QED BY <1>1, <1>2, <1>3, <1>4, <1>5, <1>6, <1>7, <1>8, <1>9, <1>10, <1>11, <1>12, <1>13,
           <1>14, <1>15, <1>16, <1>17 DEF Acts

\* The turns that have been counted, or are over, are at most all of them.
LEMMA PastIsBounded ==
    ASSUME NEW S \in SUBSET Turn
    PROVE  IsFiniteSet(S) /\ Cardinality(S) \in Nat /\ Cardinality(S) <= Turns
<1>n. Turns \in Nat
  BY ConstantsAssumption
<1>1. IsFiniteSet(Turn) /\ Cardinality(Turn) = Turns
  BY <1>n, FS_Interval DEF Turn
<1>2. IsFiniteSet(S) /\ Cardinality(S) <= Cardinality(Turn)
  BY <1>1, FS_Subset
<1>3. Cardinality(S) \in Nat
  BY <1>2, FS_CardinalityType
<1> QED BY <1>1, <1>2, <1>3

\* The stage in which each step finds its turn.
LEMMA Guards ==
    ASSUME NEW t \in Turn
    PROVE  /\ Begin(t) => turn[t].stage = "new"
           /\ Touch(t) => turn[t].stage = "open"
           /\ FindStale(t) => turn[t].stage = "touch"
           /\ Sweep(t) => turn[t].stage = "sweep"
           /\ SweepFails(t) => turn[t].stage \in {"touch", "sweep"}
           /\ Look(t) => turn[t].stage = "look"
           /\ CloseTop(t) => turn[t].stage = "close"
           /\ PushIntent(t) => turn[t].stage = "push"
           /\ EnsureImplicit(t) => turn[t].stage = "ensure"
           /\ Seed(t) => turn[t].stage = "seed"
           /\ Phase3Fails(t) => turn[t].stage \in {"look", "close", "push", "ensure", "seed"}
           /\ UseTool(t) => turn[t].stage = "core"
           /\ Finish(t) => turn[t].stage = "core"
           /\ Abort(t) => turn[t].stage \in {"open", "core"}
           /\ CountTurn(t) => turn[t].stage = "queued"
           /\ CountFails(t) => turn[t].stage = "queued"
           /\ Supersede(t) => turn[t].stage = "supersede"
           /\ SupersedeFails(t) => turn[t].stage = "supersede"
           /\ EndJob(t) => turn[t].stage \in {"queued", "supersede"}
BY DEF Begin, Touch, FindStale, Sweep, SweepFails, Look, CloseTop, PushIntent, EnsureImplicit, Seed,
       Phase3Fails, Phase3, UseTool, Tool, Finish, Abort, CountTurn, CountFails, Supersede,
       SupersedeFails, Superseding, Close, EndJob

\* A step moves its own turn only.
Alone(t) == turn' \in [Turn -> TurnRec] /\ \A u \in Turn \ {t} : turn'[u] = turn[u]

LEMMA EveryTurnStep ==
    ASSUME GoalTyped, NEW t \in Turn, Acts(t)
    PROVE  Alone(t)
<1> USE DEF Went, WentWith, Became, Alone
<1>1. Begin(t) => Alone(t)
  BY BeginGoes
<1>2. Touch(t) => Alone(t)
  BY TouchGoes
<1>3. FindStale(t) => Alone(t)
  BY FindGoes
<1>4. Sweep(t) => Alone(t)
  BY SweepGoes
<1>5. SweepFails(t) => Alone(t)
  BY SweepFailsGoes
<1>6. Look(t) => Alone(t)
  BY LookGoes
<1>7. CloseTop(t) => Alone(t)
  BY CloseGoes
<1>8. PushIntent(t) => Alone(t)
  BY PushGoes
<1>9. EnsureImplicit(t) => Alone(t)
  BY EnsureGoes
<1>10. Seed(t) => Alone(t)
  BY SeedGoes
<1>11. Phase3Fails(t) => Alone(t)
  BY FailsGoes
<1>12. UseTool(t) => Alone(t)
  BY DEF UseTool, GoalTyped, TurnsTyped
<1>13. Finish(t) => Alone(t)
  BY FinishGoes
<1>14. Abort(t) => Alone(t)
  BY AbortGoes
<1>15. CountTurn(t) => Alone(t)
  BY CountGoes
<1>16. CountFails(t) => Alone(t)
  BY CountFailsGoes
<1>17. Supersede(t) => Alone(t)
  BY SupersedeGoes
<1>18. SupersedeFails(t) => Alone(t)
  BY SupersedeFailsGoes
<1>19. EndJob(t) => Alone(t)
  BY EndJobGoes
<1>20. JobFails(t) => Alone(t)
  BY EndJobGoes
<1> HIDE DEF Went, WentWith, Became, Alone
<1> QED BY <1>1, <1>2, <1>3, <1>4, <1>5, <1>6, <1>7, <1>8, <1>9, <1>10, <1>11, <1>12, <1>13, <1>14,
           <1>15, <1>16, <1>17, <1>18, <1>19, <1>20 DEF Acts

LEMMA PastGrows ==
    ASSUME GoalTyped, NEW t \in Turn, Acts(t)
    PROVE  /\ Past \subseteq Past'
           /\ CountTurn(t) \/ CountFails(t) => Past \cup {t} \subseteq Past' /\ t \notin Past
<1>a. Alone(t)
  BY EveryTurnStep
<1>1. ASSUME turn[t].stage \notin {"supersede", "done"} PROVE Past \subseteq Past'
  <2>1. \A u \in Past : u # t /\ u \in Turn \ {t} /\ turn'[u] = turn[u]
    BY <1>1, <1>a DEF Alone, Past
  <2>2. Past \subseteq Past'
    BY <2>1 DEF Past
  <2> QED BY <2>2
<1>2. ASSUME turn[t].stage \in {"supersede", "done"} PROVE Past \subseteq Past'
  <2>1. Supersede(t) \/ SupersedeFails(t) \/ EndJob(t) \/ JobFails(t)
    BY <1>2, Guards DEF Acts
  <2>2. turn'[t].stage \in {"supersede", "done"}
    BY <2>1, SupersedeGoes, SupersedeFailsGoes, EndJobGoes DEF WentWith, Became
  <2>3. \A u \in Past : u \in Turn /\ (u = t \/ turn'[u] = turn[u])
    BY <1>a DEF Alone, Past
  <2> QED BY <2>2, <2>3 DEF Past
<1>3. ASSUME CountTurn(t) \/ CountFails(t) PROVE Past \cup {t} \subseteq Past' /\ t \notin Past
  <2>1. t \notin Past
    BY <1>3, Guards DEF Past
  <2>2. turn'[t].stage = "supersede"
    BY <1>3, CountGoes, CountFailsGoes DEF Went, WentWith, Became
  <2>3. \A u \in Past : u \in Turn /\ (u = t \/ turn'[u] = turn[u])
    BY <1>a DEF Alone, Past
  <2> QED BY <2>1, <2>2, <2>3 DEF Past
<1>4. Past \subseteq Past'
  BY <1>1, <1>2
<1> QED BY <1>3, <1>4

\* A counted turn is one more that is past.
LEMMA OneMoreTurn ==
    ASSUME GoalTyped, NEW t \in Turn, CountTurn(t) \/ CountFails(t)
    PROVE  /\ track.counted + 1 \in 0..Turns /\ track.counted + 1 <= Cardinality(Past')
<1>t. TrackTyped
  BY DEF GoalTyped
<1>c. track.counted \in Nat /\ track.counted <= Cardinality(Past) /\ Turns \in Nat
  BY <1>t, ConstantsAssumption DEF TrackTyped
<1>1. Past \cup {t} \subseteq Past' /\ t \notin Past
  BY PastGrows DEF Acts
<1>2. Past \in SUBSET Turn /\ Past' \in SUBSET Turn /\ Past \cup {t} \in SUBSET Turn
  BY DEF Past
<1>3. IsFiniteSet(Past) /\ IsFiniteSet(Past') /\ Cardinality(Past) \in Nat
      /\ Cardinality(Past') \in Nat /\ Cardinality(Past') <= Turns
  BY <1>2, PastIsBounded
<1>4. Cardinality(Past \cup {t}) = Cardinality(Past) + 1
  BY <1>1, <1>3, FS_AddElement
<1>5. Cardinality(Past \cup {t}) <= Cardinality(Past')
  BY <1>1, <1>3, FS_Subset
<1> QED BY <1>c, <1>3, <1>4, <1>5

\* What the helpers of the loop make of a tracking.
LEMMA WithoutTracks ==
    ASSUME NEW p \in Tracks, NEW left
    PROVE  /\ Without(p, left) \in Tracks /\ Without(p, left).counted = p.counted
           /\ \A g \in Goal :
                /\ Without(p, left).last[g] = IF g \in left THEN 0 ELSE p.last[g]
                /\ Without(p, left).stamp[g] = IF g \in left THEN 0 ELSE p.stamp[g]
<1> DEFINE last  == [g \in Goal |-> IF g \in left THEN 0 ELSE p.last[g]]
           stamp == [g \in Goal |-> IF g \in left THEN 0 ELSE p.stamp[g]]
<1>1. 0 \in 0..Turns /\ 0 \in 0..MaxTools
  BY ConstantsAssumption
<1>2. last \in [Goal -> 0..Turns] /\ stamp \in [Goal -> 0..MaxTools]
  BY <1>1 DEF Tracks
<1>3. Without(p, left) = [counted |-> p.counted, last |-> last, stamp |-> stamp]
  BY DEF Without
<1>4. \A g \in Goal : /\ last[g] = (IF g \in left THEN 0 ELSE p.last[g])
                      /\ stamp[g] = (IF g \in left THEN 0 ELSE p.stamp[g])
  OBVIOUS
<1> HIDE DEF last, stamp
<1> QED BY <1>2, <1>3, <1>4 DEF Tracks

LEMMA DownTracks ==
    ASSUME track \in Tracks, NEW to \in Tracks, NEW todo
    PROVE  Down(todo, to) \in Tracks /\ Down(todo, to).counted = to.counted
<1> DEFINE passed(g) == \A h \in todo : g > h
           last  == [g \in Goal |-> IF passed(g) THEN to.last[g] ELSE track.last[g]]
           stamp == [g \in Goal |-> IF passed(g) THEN to.stamp[g] ELSE track.stamp[g]]
<1>1. Down(todo, to) = [counted |-> to.counted, last |-> last, stamp |-> stamp]
  BY DEF Down
<1> HIDE DEF passed
<1>2. last \in [Goal -> 0..Turns] /\ stamp \in [Goal -> 0..MaxTools]
  BY DEF Tracks
<1> HIDE DEF last, stamp
<1> QED BY <1>1, <1>2 DEF Tracks

\* Two trackings that know the same of every goal are one.
LEMMA SameTracks ==
    ASSUME NEW p \in Tracks, NEW q \in Tracks, p.counted = q.counted,
           \A g \in Goal : p.last[g] = q.last[g] /\ p.stamp[g] = q.stamp[g]
    PROVE  p = q
<1>1. p.last = q.last /\ p.stamp = q.stamp
  <2>1. /\ p.last \in [Goal -> 0..Turns] /\ q.last \in [Goal -> 0..Turns]
        /\ p.stamp \in [Goal -> 0..MaxTools] /\ q.stamp \in [Goal -> 0..MaxTools]
    BY DEF Tracks
  <2> QED BY <2>1
<1> QED BY <1>1 DEF Tracks

\* With no goal left the loop has passed all of them.
LEMMA DownToTheEnd ==
    ASSUME track \in Tracks, NEW to \in Tracks
    PROVE  Down({}, to) = to
<1>1. \A g \in Goal : Down({}, to).last[g] = to.last[g] /\ Down({}, to).stamp[g] = to.stamp[g]
  BY DEF Down
<1> QED BY <1>1, DownTracks, SameTracks

\* What is known of a goal when a turn is counted: nothing if it is gone, this turn
\* if it counts as active anew, and what was known before otherwise.
LEMMA CountedTurn ==
    ASSUME GoalTyped, NEW t \in Turn, CountTurn(t)
    PROVE  /\ plan' \in Tracks /\ track' \in Tracks
           /\ plan'.counted = track.counted + 1 /\ track'.counted = track.counted + 1
           /\ \A g \in Goal :
                /\ plan'.last[g] = IF g \in Gone THEN 0
                                   ELSE IF g \in Active("task") /\ Seen(t, g)
                                        THEN track.counted + 1 ELSE track.last[g]
                /\ plan'.stamp[g] = IF g \in Gone THEN 0
                                    ELSE IF g \in Active("task") /\ Seen(t, g)
                                         THEN goal[g].stamp ELSE track.stamp[g]
           /\ Idle(t) = {} => plan' = track'
<1> DEFINE Now(g) == g \in Active("task") /\ Seen(t, g)
           n      == track.counted + 1
           last   == [g \in Goal |-> IF Now(g) THEN n ELSE track.last[g]]
           stamp  == [g \in Goal |-> IF Now(g) THEN goal[g].stamp ELSE track.stamp[g]]
<1>t. track \in Tracks /\ n \in 0..Turns
  <2>1. track.counted + 1 \in 0..Turns
    BY OneMoreTurn
  <2> QED BY <2>1 DEF GoalTyped, TrackTyped
<1>1. Refreshed(t) = [counted |-> n, last |-> last, stamp |-> stamp]
  BY DEF Refreshed
<1>2. \A g \in Goal : /\ track.last[g] \in 0..Turns /\ track.stamp[g] \in 0..MaxTools
                      /\ goal[g].stamp \in 0..MaxTools
  BY <1>t DEF Tracks, GoalTyped, GoalsTyped, GoalRec
<1> HIDE DEF Now, n
<1>3. last \in [Goal -> 0..Turns] /\ stamp \in [Goal -> 0..MaxTools]
  BY <1>t, <1>2
<1>4. /\ \A g \in Goal : last[g] = (IF Now(g) THEN n ELSE track.last[g])
      /\ \A g \in Goal : stamp[g] = (IF Now(g) THEN goal[g].stamp ELSE track.stamp[g])
  OBVIOUS
<1> HIDE DEF last, stamp
<1>5. PICK r \in Tracks : r = Refreshed(t) /\ r.counted = n /\ r.last = last /\ r.stamp = stamp
  BY <1>t, <1>1, <1>3 DEF Tracks
<1>6. PICK p \in Tracks : p = plan' /\ p = Without(r, Gone) /\ p.counted = n
  BY <1>5, WithoutTracks DEF CountTurn
<1>7. \A g \in Goal : /\ p.last[g] = IF g \in Gone THEN 0 ELSE last[g]
                      /\ p.stamp[g] = IF g \in Gone THEN 0 ELSE stamp[g]
  BY <1>5, <1>6, WithoutTracks
<1>8. track' = Without(Down(Idle(t), p), Gone)
  BY <1>6 DEF CountTurn
<1>9. track' \in Tracks /\ track'.counted = n
  BY <1>6, <1>8, <1>t, DownTracks, WithoutTracks
<1>10. ASSUME Idle(t) = {} PROVE plan' = track'
  <2>1. Down(Idle(t), p) = p
    BY <1>10, <1>t, DownToTheEnd
  <2>2. track' = Without(p, Gone)
    BY <1>8, <2>1
  <2>3. \A g \in Goal : track'.last[g] = p.last[g] /\ track'.stamp[g] = p.stamp[g]
    BY <2>2, <1>7, WithoutTracks
  <2> QED BY <2>3, <1>6, <1>9, SameTracks
<1> QED BY <1>4, <1>6, <1>7, <1>9, <1>10 DEF Now, n

\* The goal that is superseded leaves the plan, and the tracking follows the plan
\* down to the next one.
LEMMA SupersededTracks ==
    ASSUME GoalTyped, NEW t \in Turn, Supersede(t)
    PROVE  /\ plan' \in Tracks /\ track' \in Tracks
           /\ plan'.counted = plan.counted /\ track'.counted = plan.counted
           /\ \A g \in Goal : \/ plan'.last[g] = 0
                              \/ plan'.last[g] = plan.last[g] /\ plan'.stamp[g] = plan.stamp[g]
           /\ turn'[t].todo = {} => plan' = track'
<1>t. track \in Tracks /\ plan \in Tracks
  BY DEF GoalTyped, TrackTyped
<1>1. PICK g \in turn[t].todo : /\ WentWith(t, "supersede", turn[t].todo \ {g})
                                /\ plan' = Without(plan, {g})
                                /\ track' = Down(turn[t].todo \ {g}, plan')
  BY SupersedeGoes
<1>2. PICK p \in Tracks : p = plan' /\ p.counted = plan.counted /\ p = Without(plan, {g})
  BY <1>1, <1>t, WithoutTracks
<1>3. \A h \in Goal : p.last[h] = 0 \/ (p.last[h] = plan.last[h] /\ p.stamp[h] = plan.stamp[h])
  BY <1>2, <1>t, WithoutTracks
<1>4. track' = Down(turn[t].todo \ {g}, p)
  BY <1>1, <1>2
<1>5. track' \in Tracks /\ track'.counted = p.counted
  BY <1>4, <1>t, DownTracks
<1>6. ASSUME turn'[t].todo = {} PROVE plan' = track'
  <2>1. turn[t].todo \ {g} = {}
    BY <1>1, <1>6 DEF WentWith, Became
  <2> QED BY <2>1, <1>2, <1>4, <1>t, DownToTheEnd
<1> QED BY <1>2, <1>3, <1>5, <1>6

\* What a step does to the winners and to what is tracked.
LEMMA TrackSteps ==
    ASSUME NEW t \in Turn, Acts(t)
    PROVE  \/ UNCHANGED <<track, plan, winners, missed>>
           \/ CountTurn(t) \/ CountFails(t) \/ Supersede(t) \/ SupersedeFails(t)
BY DEF Acts, Begin, Touch, FindStale, Sweep, SweepFails, Look, CloseTop, PushIntent, EnsureImplicit,
       Seed, Phase3Fails, UseTool, Finish, Abort, EndJob, JobFails, history

LEMMA TrackTypedStep ==
    ASSUME GoalTyped, NEW t \in Turn, Acts(t)
    PROVE  TrackTyped'
<1>t. TrackTyped /\ GoalsTyped /\ TurnsTyped
  BY DEF GoalTyped
<1>c. /\ track \in Tracks /\ plan \in Tracks /\ plan.counted = track.counted
      /\ track.counted \in Nat /\ Len(winners) = track.counted /\ winners \in Seq(MaybeGoal)
  BY <1>t, ConstantsAssumption DEF TrackTyped, Tracks
<1>p. track.counted <= Cardinality(Past')
  <2>1. Past \in SUBSET Turn /\ Past' \in SUBSET Turn
    BY DEF Past
  <2>2. /\ IsFiniteSet(Past') /\ Cardinality(Past) \in Nat /\ Cardinality(Past') \in Nat
    BY <2>1, PastIsBounded
  <2>3. Cardinality(Past) <= Cardinality(Past')
    BY <2>2, PastGrows, FS_Subset
  <2> QED BY <2>2, <2>3, <1>t, <1>c DEF TrackTyped
<1>1. CASE CountTurn(t)
  <2>1. track.counted + 1 <= Cardinality(Past')
    BY <1>1, OneMoreTurn
  <2>2. turn[t].goal \in MaybeGoal
    BY <1>t, TurnRecOf DEF TurnRec
  <2>3. winners' = Append(winners, turn[t].goal)
    BY <1>1 DEF CountTurn
  <2>4. winners' \in Seq(MaybeGoal) /\ Len(winners') = track.counted + 1
    BY <2>2, <2>3, <1>c, AppendProperties
  <2>5. /\ plan' \in Tracks /\ track' \in Tracks
        /\ plan'.counted = track.counted + 1 /\ track'.counted = track.counted + 1
    BY <1>1, CountedTurn
  <2> QED BY <2>1, <2>4, <2>5 DEF TrackTyped
<1>2. CASE CountFails(t)
  <2>1. track.counted + 1 \in 0..Turns /\ track.counted + 1 <= Cardinality(Past')
    BY <1>2, OneMoreTurn
  <2>2. winners' = Append(winners, None) /\ None \in MaybeGoal
        /\ track' = [track EXCEPT !.counted = track.counted + 1] /\ plan' = track'
    BY <1>2, <1>c DEF CountFails, MaybeGoal
  <2>3. winners' \in Seq(MaybeGoal) /\ Len(winners') = track.counted + 1
    BY <2>2, <1>c, AppendProperties
  <2>4. track' \in Tracks /\ track'.counted = track.counted + 1
    BY <2>1, <2>2, <1>c DEF Tracks
  <2> QED BY <2>1, <2>2, <2>3, <2>4 DEF TrackTyped
<1>3. CASE Supersede(t)
  <2>1. winners' = winners
    BY <1>3 DEF Supersede, history
  <2>2. /\ plan' \in Tracks /\ track' \in Tracks
        /\ plan'.counted = plan.counted /\ track'.counted = plan.counted
    BY <1>3, SupersededTracks
  <2> QED BY <2>1, <2>2, <1>c, <1>p DEF TrackTyped
<1>4. CASE SupersedeFails(t)
  <2>1. plan' = track /\ track' = track /\ winners' = winners
    BY <1>4 DEF SupersedeFails
  <2> QED BY <2>1, <1>c, <1>p DEF TrackTyped
<1>5. CASE UNCHANGED <<track, plan, winners, missed>>
  BY <1>5, <1>c, <1>p DEF TrackTyped
<1> QED BY <1>1, <1>2, <1>3, <1>4, <1>5, TrackSteps

\* Nothing is tracked at the start, after a restart and after a drop.
LEMMA NothingTracked ==
    /\ NoTrack \in Tracks /\ NoTrack.counted = 0 /\ \A g \in Goal : NoTrack.last[g] = 0
    /\ 0 <= Cardinality(Past) /\ 0 <= Cardinality(Past')
<1>1. NoTrack \in Tracks /\ NoTrack.counted = 0 /\ \A g \in Goal : NoTrack.last[g] = 0
  BY ConstantsAssumption DEF NoTrack, Tracks
<1>2. Past \in SUBSET Turn /\ Past' \in SUBSET Turn
  BY DEF Past
<1>3. Cardinality(Past) \in Nat /\ Cardinality(Past') \in Nat
  BY <1>2, PastIsBounded
<1> QED BY <1>1, <1>3

LEMMA GoalTypedInit == Init => GoalTyped
<1> SUFFICES ASSUME Init PROVE GoalTyped
  OBVIOUS
<1>n. /\ Turns \in Nat /\ MaxGoals \in Nat /\ MaxTools \in Nat /\ MaxMishaps \in Nat
  BY ConstantsAssumption
<1>i. /\ goal = [g \in Goal |-> NoGoal] /\ turn = [t \in Turn |-> NewTurn]
      /\ queue = <<>> /\ track = NoTrack /\ plan = NoTrack /\ tools = 0 /\ mishaps = 0
      /\ epoch = 0 /\ winners = <<>> /\ orphans = {} /\ missed = {}
  BY DEF Init
<1>1. Known = {} /\ Pushed = 0
  <2>1. Known = {}
    BY <1>i DEF Known, NoGoal
  <2> QED BY <2>1, FS_EmptySet DEF Pushed, Known
<1>2. GoalsTyped
  <2>1. NoGoal \in GoalRec /\ NoGoal.stamp = 0 /\ NoGoal.epoch = 0 /\ NoGoal.idleFrom = 0
    BY <1>n DEF NoGoal, GoalRec
  <2>2. goal \in [Goal -> GoalRec] /\ \A g \in Goal : goal[g] = NoGoal
    BY <1>i, <2>1
  <2>3. 1..0 = {} /\ 0 \in 0..MaxGoals /\ 0 \in 0..MaxTools /\ 0 \in 0..MaxMishaps /\ 0 \in 0..0
    BY <1>n
  <2>4. Len(winners) = 0
    BY <1>i
  <2>5. \A g \in Goal : goal[g].stamp <= tools /\ goal[g].epoch <= epoch
                        /\ goal[g].idleFrom <= Len(winners)
    BY <2>1, <2>2, <2>4, <1>i
  <2>6. forgotten \in BOOLEAN
    BY Zenon DEF Init
  <2> QED BY <2>2, <2>3, <2>5, <2>6, <1>1, <1>i DEF GoalsTyped
<1>3. TurnsTyped
  <2>1. NewTurn \in TurnRec
    BY <1>n DEF NewTurn, TurnRec, Stages, MaybeGoal
  <2>2. turn \in [Turn -> TurnRec] /\ \A t \in Turn : turn[t] = NewTurn
    BY <1>i, <2>1
  <2>3. \A t \in Turn : TurnTyped(t)
    BY <2>2, <1>1 DEF TurnTyped, NewTurn
  <2>4. touched \in BOOLEAN
    BY Zenon DEF Init
  <2> QED BY <2>2, <2>3, <2>4, <1>i DEF TurnsTyped
<1>4. TrackTyped
  <2>1. winners \in Seq(MaybeGoal) /\ Len(winners) = 0
    BY <1>i
  <2> QED BY <2>1, <1>i, NothingTracked DEF TrackTyped
<1> QED BY <1>2, <1>3, <1>4 DEF GoalTyped

\* A goal that starts to be idle anew is otherwise the same.
LEMMA IdleAnew ==
    ASSUME GoalsTyped, goal' = [g \in Goal |-> [goal[g] EXCEPT !.idleFrom = 0]]
    PROVE  /\ goal' \in [Goal -> GoalRec] /\ Known' = Known /\ Pushed' = Pushed
           /\ \A g \in Goal :
                /\ goal'[g].kind = goal[g].kind /\ goal'[g].status = goal[g].status
                /\ goal'[g].stamp = goal[g].stamp /\ goal'[g].epoch = goal[g].epoch
                /\ goal'[g].by = goal[g].by /\ goal'[g].idleFrom = 0
<1>1. ASSUME NEW g \in Goal
      PROVE  /\ goal'[g] \in GoalRec
             /\ goal'[g].kind = goal[g].kind /\ goal'[g].status = goal[g].status
             /\ goal'[g].stamp = goal[g].stamp /\ goal'[g].epoch = goal[g].epoch
             /\ goal'[g].by = goal[g].by /\ goal'[g].idleFrom = 0
  <2>1. goal[g] \in GoalRec
    BY GoalRecFields
  <2>2. goal'[g] = [goal[g] EXCEPT !.idleFrom = 0]
    OBVIOUS
  <2>3. 0 \in 0..Turns
    BY ConstantsAssumption
  <2> QED BY <2>1, <2>2, <2>3 DEF GoalRec
<1>2. Known' = Known
  BY <1>1 DEF Known
<1>3. Pushed' = Pushed
  BY <1>2 DEF Pushed, Known
<1>4. goal' \in [Goal -> GoalRec]
  BY <1>1
<1> QED BY <1>1, <1>2, <1>3, <1>4

LEMMA AnewTyped ==
    ASSUME GoalsTyped, goal' = [g \in Goal |-> [goal[g] EXCEPT !.idleFrom = 0]],
           winners' = <<>>, tools' = tools, orphans' = orphans, missed' = {}, forgotten' \in BOOLEAN,
           mishaps' \in 0..MaxMishaps, epoch' \in 0..mishaps', epoch <= epoch'
    PROVE  GoalsTyped'
<1>1. /\ goal' \in [Goal -> GoalRec] /\ Known' = Known /\ Pushed' = Pushed
      /\ \A g \in Goal : /\ goal'[g].stamp = goal[g].stamp /\ goal'[g].epoch = goal[g].epoch
                         /\ goal'[g].idleFrom = 0
  BY IdleAnew
<1>2. /\ epoch \in Nat /\ epoch' \in Nat
      /\ \A g \in Goal : goal[g].stamp <= tools /\ goal[g].epoch <= epoch /\ goal[g].epoch \in Nat
  BY ConstantsAssumption DEF GoalsTyped, GoalRec
<1>3. Len(winners') = 0
  OBVIOUS
<1>4. \A g \in Goal : /\ goal'[g].stamp <= tools' /\ goal'[g].epoch <= epoch'
                      /\ goal'[g].idleFrom <= Len(winners')
  BY <1>1, <1>2, <1>3
<1> QED BY <1>1, <1>4 DEF GoalsTyped

\* A crash forgets the turns, and no goal.
LEMMA CrashKeeps ==
    ASSUME GoalTyped, Crash
    PROVE  /\ GoalTyped' /\ Known' = Known
           /\ ~touched' /\ ~forgotten' /\ epoch' = epoch + 1 /\ plan' = track'
           /\ \A t \in Turn : /\ turn'[t].stage \in {"new", "done"} /\ turn'[t].todo = {}
           /\ \A g \in Goal : plan'.last[g] = 0
           /\ \A g \in Goal : goal'[g].epoch = goal[g].epoch /\ goal'[g].by = goal[g].by
<1>n. /\ Turns \in Nat /\ MaxGoals \in Nat /\ MaxTools \in Nat /\ MaxMishaps \in Nat
  BY ConstantsAssumption
<1>t. GoalsTyped /\ TurnsTyped /\ TrackTyped
  BY DEF GoalTyped
<1>i. /\ goal' = [g \in Goal |-> [goal[g] EXCEPT !.idleFrom = 0]]
      /\ turn' = [t \in Turn |-> IF turn[t].stage = "new" THEN turn[t] ELSE OverTurn]
      /\ queue' = <<>> /\ track' = NoTrack /\ plan' = NoTrack /\ winners' = <<>> /\ missed' = {}
      /\ epoch' = epoch + 1 /\ mishaps < MaxMishaps /\ mishaps' = mishaps + 1
      /\ tools' = tools /\ orphans' = orphans
  BY DEF Crash, Mishap
<1>5. ~touched' /\ touched' \in BOOLEAN /\ ~forgotten' /\ forgotten' \in BOOLEAN
  BY Zenon DEF Crash
<1>1. /\ Known' = Known /\ Pushed' = Pushed
      /\ \A g \in Goal : goal'[g].epoch = goal[g].epoch /\ goal'[g].by = goal[g].by
  BY <1>i, <1>t, IdleAnew
<1>3. GoalsTyped'
  <2>1. /\ mishaps' \in 0..MaxMishaps /\ epoch' \in 0..mishaps' /\ epoch <= epoch'
    BY <1>i, <1>t, <1>n DEF GoalsTyped
  <2> QED BY <2>1, <1>i, <1>t, <1>5, AnewTyped
<1>4. ASSUME NEW t \in Turn
      PROVE  /\ turn'[t] \in TurnRec /\ TurnTyped(t)' /\ turn'[t].stage \in {"new", "done"}
             /\ turn'[t].todo = {}
  <2>1. CASE turn[t].stage = "new"
    <3>1. turn'[t] = turn[t] /\ turn[t] \in TurnRec /\ TurnTyped(t)
      BY <2>1, <1>i, <1>t, TurnRecOf DEF TurnsTyped
    <3> QED BY <2>1, <3>1, <1>1 DEF TurnTyped
  <2>2. CASE turn[t].stage # "new"
    <3>1. turn'[t] = OverTurn
      BY <2>2, <1>i
    <3>2. /\ turn'[t].stage = "done" /\ turn'[t].newest = 0 /\ turn'[t].goal = None
          /\ turn'[t].implicit = None /\ turn'[t].todo = {}
      BY <3>1 DEF OverTurn, NewTurn
    <3>3. turn'[t] \in TurnRec
      BY <3>1, <1>n DEF OverTurn, NewTurn, TurnRec, Stages, MaybeGoal
    <3>4. Pushed' \in Nat
      BY <1>3, <1>n DEF GoalsTyped
    <3> QED BY <3>2, <3>3, <3>4 DEF TurnTyped
  <2> QED BY <2>1, <2>2
<1>6. TurnsTyped'
  <2>1. turn' \in [Turn -> TurnRec]
    BY <1>i, <1>4
  <2>2. queue' \in Seq(Turn)
    BY <1>i
  <2> QED BY <2>1, <2>2, <1>4, <1>5 DEF TurnsTyped
<1>7. TrackTyped' /\ \A g \in Goal : plan'.last[g] = 0
  <2>1. winners' \in Seq(MaybeGoal) /\ Len(winners') = 0
    BY <1>i
  <2> QED BY <2>1, <1>i, NothingTracked DEF TrackTyped
<1> QED BY <1>1, <1>3, <1>4, <1>5, <1>6, <1>7, <1>i DEF GoalTyped

\* That the tracking of the session is dropped changes no goal and no turn.
LEMMA DropKeeps ==
    ASSUME GoalTyped, Drop
    PROVE  /\ GoalTyped' /\ Known' = Known /\ Pushed' = Pushed /\ plan' = track'
           /\ UNCHANGED <<turn, queue, touched, epoch, orphans, forgotten>>
           /\ \A t \in Turn : turn[t].stage # "supersede"
           /\ \A g \in Goal : plan'.last[g] = 0
           /\ \A g \in Goal : /\ goal'[g].kind = goal[g].kind /\ goal'[g].status = goal[g].status
                              /\ goal'[g].epoch = goal[g].epoch /\ goal'[g].by = goal[g].by
<1>t. GoalsTyped /\ TurnsTyped /\ TrackTyped
  BY DEF GoalTyped
<1>i. /\ goal' = [g \in Goal |-> [goal[g] EXCEPT !.idleFrom = 0]]
      /\ track' = NoTrack /\ plan' = NoTrack /\ winners' = <<>> /\ missed' = {}
      /\ UNCHANGED <<turn, queue, touched, tools, mishaps, epoch, orphans, forgotten>>
      /\ \A t \in Turn : turn[t].stage # "supersede"
  BY DEF Drop
<1>1. /\ Known' = Known /\ Pushed' = Pushed
      /\ \A g \in Goal : /\ goal'[g].kind = goal[g].kind /\ goal'[g].status = goal[g].status
                         /\ goal'[g].epoch = goal[g].epoch /\ goal'[g].by = goal[g].by
  BY <1>i, <1>t, IdleAnew
<1>2. GoalsTyped'
  <2>1. mishaps' \in 0..MaxMishaps /\ epoch' \in 0..mishaps' /\ epoch <= epoch' /\ forgotten' \in BOOLEAN
    BY <1>i, <1>t, ConstantsAssumption DEF GoalsTyped
  <2> QED BY <2>1, <1>i, <1>t, AnewTyped
<1>3. TurnsTyped'
  BY <1>1, <1>i, <1>t DEF TurnsTyped, TurnTyped
<1>4. TrackTyped' /\ \A g \in Goal : plan'.last[g] = 0
  <2>1. winners' \in Seq(MaybeGoal) /\ Len(winners') = 0
    BY <1>i
  <2> QED BY <2>1, <1>i, NothingTracked DEF TrackTyped
<1> QED BY <1>1, <1>2, <1>3, <1>4, <1>i DEF GoalTyped

LEMMA GoalTypedStep == GoalTyped /\ [Next]_vars => GoalTyped'
<1> SUFFICES ASSUME GoalTyped, [Next]_vars PROVE GoalTyped'
  OBVIOUS
<1>1. CASE UNCHANGED vars
  BY <1>1 DEF vars, history, GoalTyped, GoalsTyped, TurnsTyped, TrackTyped, TurnTyped, Known, Pushed,
              Past
<1>2. CASE Crash \/ Drop
  BY <1>2, CrashKeeps, DropKeeps
<1>3. CASE Forget
  <2>1. /\ UNCHANGED <<goal, turn, queue, track, plan, tools, mishaps, epoch, winners, orphans, missed>>
    BY <1>3 DEF Forget
  <2>2. touched' \in BOOLEAN /\ forgotten' \in BOOLEAN
    BY <1>3, Zenon DEF Forget
  <2> QED BY <2>1, <2>2 DEF GoalTyped, GoalsTyped, TurnsTyped, TrackTyped, TurnTyped, Known, Pushed,
                            Past
<1>4. ASSUME NEW t \in Turn, Acts(t) PROVE GoalTyped'
  BY <1>4, GoalsTypedStep, TurnsTypedStep, TrackTypedStep DEF GoalTyped
<1> QED BY <1>1, <1>2, <1>3, <1>4 DEF Next, Acts

\* The goals, the turns, their jobs and the tracking are of their types in every
\* state, however many turns, failures and crashes there are.
THEOREM GoalTurnsTypeCorrect == Spec => []TypeOK
<1>1. GoalTyped => TypeOK
  <2> SUFFICES ASSUME GoalTyped PROVE TypeOK
    OBVIOUS
  <2>1. mishaps \in 0..MaxMishaps /\ epoch \in 0..MaxMishaps
    BY ConstantsAssumption DEF GoalTyped, GoalsTyped
  <2> QED BY <2>1 DEF GoalTyped, GoalsTyped, TurnsTyped, TrackTyped, Tracks, TypeOK, GoalRec, TurnRec
<1> QED BY <1>1, GoalTypedInit, GoalTypedStep, PTL DEF Spec
-----------------------------------------------------------------------------
(* The cleanup of a first touch                                              *)

\* The stage to which each step leads.
LEMMA StagesAfter ==
    ASSUME GoalTyped, NEW t \in Turn
    PROVE  /\ Begin(t) => turn'[t].stage = "open" /\ turn'[t].newest = Pushed
           /\ Touch(t) => turn'[t].stage = (IF touched THEN "look" ELSE "touch")
           /\ Sweep(t) => turn'[t].stage \in {"look", "sweep"}
           /\ SweepFails(t) => turn'[t].stage = "look"
           /\ Look(t) => turn'[t].stage \in {"core", "push", "ensure", "close"}
           /\ CloseTop(t) => turn'[t].stage \in {"core", "ensure"}
           /\ PushIntent(t) => turn'[t].stage = "core"
           /\ EnsureImplicit(t) => turn'[t].stage \in {"seed", "core"}
           /\ Seed(t) => turn'[t].stage = "core"
           /\ Phase3Fails(t) => turn'[t].stage = "core"
           /\ UseTool(t) => turn'[t].stage = "core"
           /\ Finish(t) => turn'[t].stage = "queued"
           /\ Abort(t) => turn'[t].stage = "done"
           /\ CountTurn(t) => turn'[t].stage = "supersede"
           /\ CountFails(t) => turn'[t].stage = "supersede"
           /\ Supersede(t) => turn'[t].stage = "supersede"
           /\ SupersedeFails(t) => turn'[t].stage = "supersede"
           /\ EndJob(t) => turn'[t].stage = "done"
           /\ JobFails(t) => turn'[t].stage = "done"
<1> USE DEF Went, WentWith, Became
<1>1. Begin(t) => turn'[t].stage = "open" /\ turn'[t].newest = Pushed
  BY BeginGoes
<1>2. Touch(t) => turn'[t].stage = (IF touched THEN "look" ELSE "touch")
  BY TouchGoes
<1>3. Sweep(t) => turn'[t].stage \in {"look", "sweep"}
  BY SweepGoes
<1>4. SweepFails(t) => turn'[t].stage = "look"
  BY SweepFailsGoes
<1>5. Look(t) => turn'[t].stage \in {"core", "push", "ensure", "close"}
  BY LookGoes
<1>6. CloseTop(t) => turn'[t].stage \in {"core", "ensure"}
  BY CloseGoes
<1>7. PushIntent(t) => turn'[t].stage = "core"
  BY PushGoes
<1>8. EnsureImplicit(t) => turn'[t].stage \in {"seed", "core"}
  BY EnsureGoes
<1>9. Seed(t) => turn'[t].stage = "core"
  BY SeedGoes
<1>10. Phase3Fails(t) => turn'[t].stage = "core"
  BY FailsGoes
<1>11. UseTool(t) => turn'[t].stage = "core"
  BY DEF UseTool, Tool
<1>12. Finish(t) => turn'[t].stage = "queued"
  BY FinishGoes
<1>13. Abort(t) => turn'[t].stage = "done"
  BY AbortGoes
<1>14. CountTurn(t) => turn'[t].stage = "supersede"
  BY CountGoes
<1>15. CountFails(t) => turn'[t].stage = "supersede"
  BY CountFailsGoes
<1>16. Supersede(t) => turn'[t].stage = "supersede"
  BY SupersedeGoes
<1>17. SupersedeFails(t) => turn'[t].stage = "supersede"
  BY SupersedeFailsGoes
<1>18. EndJob(t) => turn'[t].stage = "done"
  BY EndJobGoes
<1>19. JobFails(t) => turn'[t].stage = "done"
  BY EndJobGoes
<1> HIDE DEF Went, WentWith, Became
<1> QED BY <1>1, <1>2, <1>3, <1>4, <1>5, <1>6, <1>7, <1>8, <1>9, <1>10, <1>11, <1>12, <1>13, <1>14,
           <1>15, <1>16, <1>17, <1>18, <1>19

\* Each queued job is that of another turn, whose core is over.
QueueInv ==
    /\ \A i \in 1..Len(queue) : turn[queue[i]].stage \in {"queued", "supersede"}
    /\ \A i, j \in 1..Len(queue) : queue[i] = queue[j] => i = j

\* The steps that change the queue.
LEMMA QueueSteps ==
    ASSUME NEW t \in Turn, Acts(t)
    PROVE  UNCHANGED queue \/ Finish(t) \/ EndJob(t) \/ JobFails(t)
BY DEF Acts, Begin, Touch, FindStale, Sweep, SweepFails, Look, CloseTop, PushIntent, EnsureImplicit,
       Seed, Phase3Fails, UseTool, Abort, CountTurn, CountFails, Supersede, SupersedeFails

LEMMA QueueInvStep ==
    ASSUME GoalTyped, QueueInv, NEW t \in Turn, Acts(t)
    PROVE  QueueInv'
<1>q. /\ queue \in Seq(Turn) /\ Len(queue) \in Nat
      /\ \A i \in 1..Len(queue) : queue[i] \in Turn
  BY DEF GoalTyped, TurnsTyped
<1>a. \A u \in Turn \ {t} : turn'[u] = turn[u]
  BY EveryTurnStep DEF Alone
<1>1. CASE Finish(t)
  <2>1. turn[t].stage = "core" /\ queue' = Append(queue, t)
    BY <1>1 DEF Finish
  <2>2. turn'[t].stage = "queued"
    BY <1>1, StagesAfter
  <2>3. \A i \in 1..Len(queue) : queue[i] # t /\ turn'[queue[i]] = turn[queue[i]]
    BY <2>1, <1>q, <1>a DEF QueueInv
  <2>n. PICK n \in Nat : n = Len(queue)
    BY <1>q
  <2>4. /\ Len(queue') = n + 1 /\ queue'[n + 1] = t
        /\ \A i \in 1..n : queue'[i] = queue[i]
    BY <2>1, <2>n, <1>q
  <2>5. ASSUME NEW i \in 1..Len(queue') PROVE turn'[queue'[i]].stage \in {"queued", "supersede"}
    BY <2>2, <2>3, <2>4, <2>n DEF QueueInv
  <2>6. ASSUME NEW i \in 1..Len(queue'), NEW j \in 1..Len(queue'), queue'[i] = queue'[j]
        PROVE  i = j
    BY <2>3, <2>4, <2>6, <2>n DEF QueueInv
  <2> QED BY <2>5, <2>6 DEF QueueInv
<1>2. CASE EndJob(t) \/ JobFails(t)
  <2>1. queue # <<>> /\ Head(queue) = t /\ queue' = Tail(queue)
    BY <1>2 DEF EndJob, JobFails, Running
  <2>n. PICK n \in Nat : n + 1 = Len(queue)
    <3>1. Len(queue) > 0
      BY <2>1, <1>q
    <3>2. Len(queue) - 1 \in Nat /\ Len(queue) - 1 + 1 = Len(queue)
      BY <3>1, <1>q
    <3> QED BY <3>2
  <2>2. queue[1] = t /\ Len(queue') = n /\ \A i \in 1..n : queue'[i] = queue[i + 1]
    BY <2>1, <2>n, <1>q
  <2>3. \A i \in 1..n : i + 1 \in 1..Len(queue) /\ i + 1 # 1 /\ 1 \in 1..Len(queue)
    BY <2>n
  <2>4. \A i \in 1..n : queue'[i] # t
    BY <2>2, <2>3 DEF QueueInv
  <2>5. \A i \in 1..n : turn'[queue'[i]] = turn[queue[i + 1]]
    BY <2>2, <2>3, <2>4, <1>a, <1>q
  <2>6. ASSUME NEW i \in 1..Len(queue') PROVE turn'[queue'[i]].stage \in {"queued", "supersede"}
    BY <2>2, <2>3, <2>5 DEF QueueInv
  <2>7. ASSUME NEW i \in 1..Len(queue'), NEW j \in 1..Len(queue'), queue'[i] = queue'[j]
        PROVE  i = j
    <3>1. i \in 1..n /\ j \in 1..n /\ queue[i + 1] = queue[j + 1]
      BY <2>2, <2>7
    <3>2. i + 1 = j + 1
      BY <3>1, <2>3 DEF QueueInv
    <3> QED BY <3>1, <3>2
  <2> QED BY <2>6, <2>7 DEF QueueInv
<1>3. CASE UNCHANGED queue /\ ~Finish(t) /\ ~EndJob(t) /\ ~JobFails(t)
  <2>1. turn[t].stage \in {"queued", "supersede"} => turn'[t].stage \in {"queued", "supersede"}
    BY <1>3, Guards, StagesAfter DEF Acts
  <2> QED BY <1>3, <1>a, <1>q, <2>1 DEF QueueInv
<1> QED BY <1>1, <1>2, <1>3, QueueSteps

\* A job runs for a turn whose core is over.
LEMMA RunningStage ==
    ASSUME GoalTyped, QueueInv, NEW t \in Turn, Running(t)
    PROVE  turn[t].stage \in {"queued", "supersede"}
<1>1. queue \in Seq(Turn) /\ queue # <<>> /\ queue[1] = t
  BY DEF GoalTyped, TurnsTyped, Running
<1>2. 1 \in 1..Len(queue)
  BY <1>1
<1> QED BY <1>1, <1>2 DEF QueueInv

LEMMA FirstTouchStep ==
    ASSUME GoalTyped, QueueInv, FirstTouch, NEW t \in Turn, Acts(t)
    PROVE  FirstTouch'
<1>t. GoalsTyped /\ TurnsTyped /\ TrackTyped /\ TurnTyped(t) /\ Pushed \in Nat /\ Known = 1..Pushed
  BY ConstantsAssumption DEF GoalTyped, TurnsTyped, GoalsTyped
<1>a. \A u \in Turn \ {t} : turn'[u] = turn[u]
  BY EveryTurnStep DEF Alone
<1>k. /\ Known \subseteq Known' /\ Known' \subseteq Known \cup {Pushed + 1} /\ epoch' = epoch
      /\ forgotten' = forgotten
      /\ \A g \in Known : goal'[g].epoch = goal[g].epoch
  BY KnownGoalsStay, EveryCountStep
<1>n. \A u \in Turn : turn[u].newest \in Nat /\ turn[u].newest <= Pushed
  BY <1>t, TurnRecOf, ConstantsAssumption DEF TurnsTyped, TurnTyped, TurnRec
<1>1. ASSUME ~touched', ~forgotten'
      PROVE  /\ \A u \in Turn : /\ turn'[u].stage \in {"new", "open", "done"}
                                /\ turn'[u].stage = "open" => turn'[u].newest = Pushed'
             /\ \A g \in Known' : goal'[g].epoch < epoch'
  <2>1. ~touched /\ ~forgotten /\ ~Touch(t)
    BY <1>1, <1>k, TouchedSteps, Zenon
  <2>2. turn[t].stage \in {"new", "open", "done"}
    BY <2>1 DEF FirstTouch
  <2>3. Begin(t) \/ Abort(t)
    <3>1. Begin(t) \/ Abort(t) \/ JobFails(t)
      BY <2>1, <2>2, Guards DEF Acts
    <3>2. ~JobFails(t)
      BY <2>2, RunningStage DEF JobFails
    <3> QED BY <3>1, <3>2
  <2>4. UNCHANGED goal
    BY <2>3 DEF Begin, Abort
  <2>5. Known' = Known /\ Pushed' = Pushed
    BY <2>4 DEF Known, Pushed
  <2>6. turn'[t].stage \in {"open", "done"} /\ (turn'[t].stage = "open" => turn'[t].newest = Pushed)
    BY <2>3, StagesAfter
  <2> QED BY <2>1, <2>4, <2>5, <2>6, <1>a, <1>k DEF FirstTouch
<1>2. ASSUME NEW u \in Turn \ {t}, turn'[u].stage \in {"touch", "sweep"}
      PROVE  /\ ~forgotten' => \A g \in Known' : g <= turn'[u].newest => goal'[g].epoch < epoch'
             /\ \A g \in turn'[u].todo : g <= turn'[u].newest
  <2>1. turn'[u] = turn[u]
    BY <1>a
  <2>2. \A g \in Known' : g <= turn[u].newest => g \in Known
    BY <1>k, <1>n, <1>t
  <2> QED BY <1>2, <2>1, <2>2, <1>k DEF FirstTouch
<1>3. ASSUME turn'[t].stage \in {"touch", "sweep"}
      PROVE  /\ ~forgotten' => \A g \in Known' : g <= turn'[t].newest => goal'[g].epoch < epoch'
             /\ \A g \in turn'[t].todo : g <= turn'[t].newest
  <2>1. (Touch(t) /\ ~touched) \/ FindStale(t) \/ Sweep(t)
    BY <1>3, StagesAfter DEF Acts
  <2>2. turn'[t].newest = turn[t].newest
    BY <2>1, TouchGoes, FindGoes, SweepGoes DEF Went, WentWith, Became
  <2>3. \A g \in Known' : g <= turn[t].newest => g \in Known
    BY <1>k, <1>n, <1>t
  <2>4. ASSUME ~forgotten PROVE \A g \in Known : g <= turn[t].newest => goal[g].epoch < epoch
    <3>1. CASE Touch(t) /\ ~touched
      BY <2>4, <3>1, Guards DEF FirstTouch
    <3>2. CASE FindStale(t) \/ Sweep(t)
      BY <2>4, <3>2, Guards DEF FirstTouch
    <3> QED BY <2>1, <3>1, <3>2
  <2>5. \A g \in turn'[t].todo : g <= turn[t].newest
    <3>1. CASE Touch(t)
      <4>1. turn'[t].todo = {}
        BY <3>1, <1>t, Guards, TouchGoes DEF Went, Became, TurnTyped
      <4> QED BY <4>1
    <3>2. CASE FindStale(t)
      <4>1. turn'[t].todo = Stale(t)
        BY <3>2, FindGoes DEF WentWith, Became
      <4> QED BY <4>1 DEF Stale
    <3>3. CASE Sweep(t)
      <4>1. turn'[t].todo \subseteq turn[t].todo
        BY <3>3, SweepGoes DEF Went, WentWith, Became
      <4> QED BY <3>3, <4>1, Guards DEF FirstTouch
    <3> QED BY <2>1, <3>1, <3>2, <3>3
  <2> QED BY <2>2, <2>3, <2>4, <2>5, <1>k
<1> QED BY <1>1, <1>2, <1>3 DEF FirstTouch

\* A new implicit goal has the turn that pushed it, or is an orphan at once.
LEMMA NewImplicitOwned ==
    ASSUME GoalTyped, NEW t \in Turn, Acts(t),
           NEW g \in Active("implicit")' \ orphans', g \notin Known
    PROVE  Owned(g)'
<1>t. GoalsTyped /\ TrackTyped
  BY DEF GoalTyped
<1>g. g \in Known' /\ goal'[g].kind = "implicit"
  BY DEF Active, Known
<1>1. (Push("task") \/ Seed(t)) /\ \E kind \in {"task", "implicit"} : Push(kind)
  <2>1. CASE UNCHANGED goal
    BY <2>1, <1>g DEF Known
  <2>2. ASSUME NEW h \in Known, Marks(t, h) PROVE FALSE
    <3>1. Ends(h)
      BY <2>2 DEF Marks, Ends
    <3> QED BY <3>1, <1>g, <1>t, EndsKeeps
  <2>3. ASSUME Works PROVE FALSE
    BY <2>3, <1>g, <1>t, ToolKeeps DEF Works
  <2> QED BY <2>1, <2>2, <2>3, EveryWrite
<1>p. PICK p \in Goal : p = Pushed + 1 /\ p \notin Known
  BY <1>1, <1>t, PushKeeps
<1>2. ASSUME NEW kind \in {"task", "implicit"}, Push(kind) PROVE g = p /\ goal'[p].kind = kind
  <2>1. /\ Known' = Known \cup {p}
        /\ goal'[p] = [NoGoal EXCEPT !.kind = kind, !.status = "active", !.epoch = epoch,
                                     !.idleFrom = Len(winners)]
    BY <1>2, <1>p, <1>t, PushKeeps
  <2>2. goal'[p].kind = kind
    BY <2>1 DEF NoGoal
  <2> QED BY <2>1, <2>2, <1>g
<1>3. g = p
  BY <1>1, <1>2
<1>4. ~Push("task")
  BY <1>2, <1>3, <1>g
<1>5. Seed(t)
  BY <1>1, <1>4
<1>6. CASE Became(t, "core", turn[t].newest, Pushed + 1, Pushed + 1, turn[t].todo)
  BY <1>6, <1>p, <1>3 DEF Became, Owned
<1>7. CASE orphans' = orphans \cup {Pushed + 1}
  BY <1>7, <1>p, <1>3
<1> QED BY <1>5, <1>6, <1>7, SeedGoes

\* A turn that does not move keeps what it owns and what it reaches.
LEMMA OwnerInvStep ==
    ASSUME GoalTyped, QueueInv, FirstTouch, OwnerInv, NEW t \in Turn, Acts(t)
    PROVE  OwnerInv'
<1> SUFFICES ASSUME touched' \/ forgotten', NEW g \in Active("implicit")' \ orphans'
             PROVE  Owned(g)' \/ InReach(g)'
  BY DEF OwnerInv
<1>t. /\ GoalsTyped /\ TurnsTyped /\ TrackTyped /\ TurnTyped(t) /\ Pushed \in Nat
      /\ Known = 1..Pushed /\ turn[t] \in TurnRec
  BY TurnRecOf, ConstantsAssumption DEF GoalTyped, TurnsTyped, GoalsTyped
<1>a. \A u \in Turn \ {t} : turn'[u] = turn[u]
  BY EveryTurnStep DEF Alone
<1>1. CASE g \notin Known
  BY <1>1, NewImplicitOwned
<1>2. CASE g \in Known
  <2>1. g \in Active("implicit") /\ g \notin orphans /\ g \in Goal /\ g # None /\ goal'[g].status = "active"
    <3>1. /\ goal'[g].kind = goal[g].kind
          /\ goal'[g].status = "active" => goal[g].status = "active"
      BY <1>2, KnownGoalsStay
    <3>2. orphans \subseteq orphans'
      BY EveryCountStep
    <3>3. g \in Goal /\ g # None
      BY NoneIsNoGoal DEF Active
    <3> QED BY <3>1, <3>2, <3>3 DEF Active
  <2>2. CASE ~touched /\ ~forgotten
    <3>1. Touch(t)
      <4>1. forgotten' = forgotten
        BY EveryCountStep
      <4> QED BY <2>2, <4>1, TouchedSteps, Zenon
    <3>2. turn[t].stage = "open" /\ turn[t].newest = Pushed
      BY <2>2, <3>1, Guards DEF FirstTouch
    <3>3. turn'[t].stage = "touch" /\ turn'[t].newest = Pushed
      BY <2>2, <3>1, <3>2, TouchGoes DEF Went, Became
    <3>4. g <= turn'[t].newest
      BY <1>2, <1>t, <3>3
    <3> QED BY <3>3, <3>4 DEF InReach
  <2>3. CASE touched \/ forgotten
    <3>1. CASE Owned(g)
      <4>1. PICK u \in Turn : turn[u].stage # "done" /\ turn[u].implicit = g
        BY <3>1 DEF Owned
      <4>2. CASE u # t
        BY <4>1, <4>2, <1>a DEF Owned
      <4>3. CASE u = t
        <5>1. turn[t].stage \in {"core", "queued", "supersede"}
          BY <4>1, <4>3, <2>1, <1>t DEF TurnTyped
        <5>2. ~Abort(t)
          <6>1. ASSUME Abort(t) PROVE FALSE
            <7>1. orphans' = orphans \cup ({turn[t].implicit} \ {None})
              BY <6>1 DEF Abort
            <7> QED BY <7>1, <4>1, <4>3, <2>1
          <6> QED BY <6>1
        <5>3. ~JobFails(t)
          <6>1. ASSUME JobFails(t) PROVE FALSE
            <7>1. orphans' = orphans \cup ({turn[t].implicit} \ {None})
              BY <6>1 DEF JobFails
            <7> QED BY <7>1, <4>1, <4>3, <2>1
          <6> QED BY <6>1
        <5>4. ~EndJob(t)
          <6>1. ASSUME EndJob(t) PROVE FALSE
            <7>1. SetStatus(g, "resolved", "ended")
              BY <6>1, <4>1, <4>3, <2>1 DEF EndJob, EndImplicit
            <7>2. Ends(g)
              BY <7>1 DEF Ends
            <7>3. goal'[g].status # "active"
              BY <7>2, <1>2, <1>t, EndsKeeps
            <7> QED BY <7>3, <2>1
          <6> QED BY <6>1
        <5>5. \/ UseTool(t) \/ Finish(t) \/ CountTurn(t) \/ CountFails(t) \/ Supersede(t)
              \/ SupersedeFails(t)
          BY <5>1, <5>2, <5>3, <5>4, Guards DEF Acts
        <5>6. turn'[t].implicit = turn[t].implicit /\ turn'[t].stage # "done"
          <6>1. CASE UseTool(t)
            BY <6>1, <5>1 DEF UseTool
          <6>2. CASE Finish(t) \/ CountTurn(t) \/ CountFails(t)
            BY <6>2, FinishGoes, CountGoes, CountFailsGoes DEF Went, WentWith, Became
          <6>3. CASE Supersede(t) \/ SupersedeFails(t)
            BY <6>3, SupersedeGoes, SupersedeFailsGoes DEF WentWith, Became
          <6> QED BY <5>5, <6>1, <6>2, <6>3
        <5> QED BY <5>6, <4>1, <4>3 DEF Owned
      <4> QED BY <4>2, <4>3
    <3>2. CASE InReach(g)
      <4>1. PICK u \in Turn : \/ turn[u].stage = "touch" /\ g <= turn[u].newest
                              \/ turn[u].stage = "sweep" /\ g \in turn[u].todo
        BY <3>2 DEF InReach
      <4>2. CASE u # t
        BY <4>1, <4>2, <1>a DEF InReach
      <4>3. CASE u = t
        <5>1. g \in Stale(t)
          BY <4>1, <4>3, <2>1 DEF Stale, FirstTouch
        <5>2. ~SweepFails(t)
          BY <5>1 DEF SweepFails
        <5>3. ~JobFails(t)
          BY <4>1, <4>3, RunningStage DEF JobFails
        <5>4. FindStale(t) \/ Sweep(t)
          BY <4>1, <4>3, <5>2, <5>3, Guards DEF Acts
        <5>5. CASE FindStale(t)
          BY <5>5, <5>1, FindGoes DEF WentWith, Became, InReach
        <5>6. CASE Sweep(t)
          <6>1. turn[t].stage = "sweep" /\ g \in turn[t].todo
            BY <5>6, <4>1, <4>3, Guards
          <6>2. PICK h \in turn[t].todo : /\ SetStatus(h, "resolved", "sweep")
                                          /\ WentWith(t, "sweep", turn[t].todo \ {h})
            BY <5>6, <6>1, SweepGoes
          <6>3. h \in Known /\ Ends(h)
            BY <6>2, <1>t DEF TurnTyped, Ends
          <6>4. g # h
            BY <6>3, <2>1, <1>t, EndsKeeps
          <6> QED BY <6>1, <6>2, <6>4 DEF WentWith, Became, InReach
        <5> QED BY <5>4, <5>5, <5>6
      <4> QED BY <4>2, <4>3
    <3> QED BY <2>1, <2>3, <3>1, <3>2 DEF OwnerInv
  <2> QED BY <2>2, <2>3
<1> QED BY <1>1, <1>2

\* Who writes that a goal was swept, or superseded.
LEMMA WhoWrites ==
    ASSUME GoalTyped, NEW t \in Turn, Acts(t), NEW g \in Goal, goal'[g].by # goal[g].by
    PROVE  /\ goal'[g].by = "sweep" => turn[t].stage = "sweep" /\ g \in turn[t].todo
           /\ goal'[g].by = "superseded" => turn[t].stage = "supersede" /\ g \in turn[t].todo
<1>t. GoalsTyped /\ TurnsTyped /\ TrackTyped /\ goal \in [Goal -> GoalRec]
  BY DEF GoalTyped, GoalsTyped
<1>s. ASSUME NEW h \in Known, NEW status, NEW by, SetStatus(h, status, by)
      PROVE  g = h /\ goal'[g].by = by
  <2>1. h \in Goal /\ goal[h] \in GoalRec
    BY <1>t DEF Known
  <2>2. goal' = [goal EXCEPT ![h] = [goal[h] EXCEPT !.status = status, !.by = by]]
    BY <1>s, <1>t, <2>1 DEF SetStatus
  <2>3. g = h
    BY <2>1, <2>2, <1>t
  <2> QED BY <2>1, <2>2, <2>3, <1>t DEF GoalRec
<1>1. CASE \E h \in Known : Marks(t, h)
  <2>1. PICK h \in Known, status \in {"resolved", "abandoned"},
             by \in {"sweep", "cue", "tool", "superseded", "ended"} :
          /\ SetStatus(h, status, by)
          /\ by = "sweep" => turn[t].stage = "sweep" /\ h \in turn[t].todo
          /\ by = "superseded" => turn[t].stage = "supersede" /\ h \in turn[t].todo
    BY <1>1 DEF Marks
  <2>2. g = h /\ goal'[g].by = by
    BY <2>1, <1>s
  <2> QED BY <2>1, <2>2
<1>2. CASE Works
  BY <1>2, <1>t, ToolKeeps DEF Works
<1>3. ASSUME NEW kind \in {"task", "implicit"}, Push(kind) PROVE goal'[g].by = "nobody"
  <2>1. PICK p \in Goal : p = Pushed + 1
    BY <1>3, <1>t, PushKeeps
  <2>2. /\ \A h \in Goal \ {p} : goal'[h] = goal[h]
        /\ goal'[p] = [NoGoal EXCEPT !.kind = kind, !.status = "active", !.epoch = epoch,
                                     !.idleFrom = Len(winners)]
    BY <1>3, <2>1, <1>t, PushKeeps
  <2>3. g = p
    BY <2>2
  <2> QED BY <2>2, <2>3 DEF NoGoal
<1> QED BY <1>1, <1>2, <1>3, EveryWrite

TouchInv == GoalTyped /\ QueueInv /\ FirstTouch /\ OwnerInv

LEMMA TouchInvInit == Init => TouchInv
<1> SUFFICES ASSUME Init PROVE TouchInv
  OBVIOUS
<1>1. GoalTyped
  BY GoalTypedInit
<1>2. /\ goal = [g \in Goal |-> NoGoal] /\ turn = [t \in Turn |-> NewTurn]
      /\ queue = <<>>
  BY DEF Init
<1>3. ~touched /\ ~forgotten
  BY DEF Init
<1>4. QueueInv
  BY <1>2 DEF QueueInv
<1>5. FirstTouch
  <2>1. \A t \in Turn : turn[t].stage = "new"
    BY <1>2 DEF NewTurn
  <2>2. Known = {}
    BY <1>2 DEF Known, NoGoal
  <2> QED BY <2>1, <2>2 DEF FirstTouch
<1>6. OwnerInv
  BY <1>3 DEF OwnerInv
<1> QED BY <1>1, <1>4, <1>5, <1>6 DEF TouchInv

LEMMA TouchInvStep == TouchInv /\ [Next]_vars => TouchInv'
<1> SUFFICES ASSUME TouchInv, [Next]_vars PROVE TouchInv'
  OBVIOUS
<1>g. GoalTyped'
  BY GoalTypedStep DEF TouchInv
<1>1. CASE UNCHANGED vars
  <2>1. QueueInv'
    BY <1>1 DEF TouchInv, QueueInv, vars
  <2>2. FirstTouch'
    BY <1>1 DEF TouchInv, FirstTouch, vars, history, Known, Pushed
  <2>3. OwnerInv'
    BY <1>1 DEF TouchInv, OwnerInv, Owned, InReach, Active, vars, history
  <2> QED BY <1>g, <2>1, <2>2, <2>3 DEF TouchInv
<1>2. CASE Crash
  <2>1. /\ Known' = Known /\ ~touched' /\ ~forgotten' /\ epoch' = epoch + 1
        /\ \A t \in Turn : turn'[t].stage \in {"new", "done"}
        /\ \A g \in Goal : goal'[g].epoch = goal[g].epoch
    BY <1>2, CrashKeeps DEF TouchInv
  <2>2. QueueInv'
    <3>1. queue' = <<>>
      BY <1>2 DEF Crash
    <3> QED BY <3>1 DEF QueueInv
  <2>3. FirstTouch'
    <3>1. \A g \in Known : g \in Goal /\ goal[g].epoch \in Nat /\ goal[g].epoch <= epoch /\ epoch \in Nat
      BY ConstantsAssumption DEF TouchInv, GoalTyped, GoalsTyped, GoalRec, Known
    <3>2. \A g \in Known' : goal'[g].epoch < epoch'
      BY <2>1, <3>1
    <3> QED BY <2>1, <3>2 DEF FirstTouch
  <2> QED BY <1>g, <2>1, <2>2, <2>3 DEF TouchInv, OwnerInv
<1>3. CASE Forget
  <2>1. /\ UNCHANGED <<goal, turn, queue, epoch, orphans>> /\ touched /\ forgotten'
    BY <1>3 DEF Forget
  <2>2. QueueInv'
    BY <2>1 DEF TouchInv, QueueInv
  <2>3. FirstTouch'
    BY <2>1 DEF TouchInv, FirstTouch
  <2>4. OwnerInv'
    BY <2>1 DEF TouchInv, OwnerInv, Owned, InReach, Active
  <2> QED BY <1>g, <2>2, <2>3, <2>4 DEF TouchInv
<1>4. CASE Drop
  <2>1. /\ Known' = Known /\ Pushed' = Pushed
        /\ UNCHANGED <<turn, queue, touched, epoch, orphans, forgotten>>
        /\ \A g \in Goal : /\ goal'[g].kind = goal[g].kind /\ goal'[g].status = goal[g].status
                           /\ goal'[g].epoch = goal[g].epoch
    BY <1>4, DropKeeps DEF TouchInv
  <2>2. QueueInv'
    BY <2>1 DEF TouchInv, QueueInv
  <2>3. FirstTouch'
    <3>1. \A g \in Known : g \in Goal
      BY DEF Known
    <3> QED BY <2>1, <3>1 DEF TouchInv, FirstTouch
  <2>4. OwnerInv'
    <3>1. Active("implicit")' = Active("implicit")
      BY <2>1 DEF Active
    <3> QED BY <2>1, <3>1 DEF TouchInv, OwnerInv, Owned, InReach
  <2> QED BY <1>g, <2>2, <2>3, <2>4 DEF TouchInv
<1>5. ASSUME NEW t \in Turn, Acts(t) PROVE TouchInv'
  BY <1>5, <1>g, QueueInvStep, FirstTouchStep, OwnerInvStep DEF TouchInv
<1> QED BY <1>1, <1>2, <1>3, <1>4, <1>5 DEF Next, Acts

LEMMA TouchInvariant == Spec => []TouchInv
BY TouchInvInit, TouchInvStep, PTL DEF Spec

\* No implicit goal is left behind as a zombie: once a process has touched the
\* session, and though it forgets that it has, each active one is outside a cleanup
\* that of a turn whose end is still to come, or of a turn that could not end it.
THEOREM ImplicitGoalsHaveOwners == Spec => []ImplicitHasOwner
<1>1. TouchInv => ImplicitHasOwner
  BY DEF TouchInv, OwnerInv, ImplicitHasOwner, Cleaning, Owned, InReach
<1> QED BY <1>1, TouchInvariant, PTL

\* The cleanup of a first touch ends goals of processes that are gone only; that of
\* a session the process has forgotten ends what was there when its turn began, and
\* no goal that was pushed since.
THEOREM CleanupSparesThisProcess == Spec => SweepSparesThisProcess
<1> DEFINE Spared(g) == \/ goal[g].epoch < epoch
                        \/ /\ forgotten
                           /\ \E t \in Turn : turn[t].stage = "sweep" /\ g <= turn[t].newest
<1>1. TouchInv /\ [Next]_vars =>
        [\A g \in Goal : goal'[g].by = "sweep" /\ goal[g].by # "sweep" => Spared(g)]_vars
  <2> SUFFICES ASSUME TouchInv, [Next]_vars, NEW g \in Goal,
                      goal'[g].by = "sweep", goal[g].by # "sweep"
               PROVE  Spared(g)
    OBVIOUS
  <2>1. CASE UNCHANGED vars
    BY <2>1 DEF vars
  <2>2. CASE Crash \/ Drop
    BY <2>2, CrashKeeps, DropKeeps DEF TouchInv
  <2>3. CASE Forget
    BY <2>3 DEF Forget
  <2>4. ASSUME NEW t \in Turn, Acts(t) PROVE Spared(g)
    <3>1. turn[t].stage = "sweep" /\ g \in turn[t].todo
      BY <2>4, WhoWrites DEF TouchInv
    <3>2. g \in Known /\ g <= turn[t].newest
      BY <3>1 DEF TouchInv, GoalTyped, TurnsTyped, TurnTyped, FirstTouch
    <3>3. ~forgotten => goal[g].epoch < epoch
      BY <3>1, <3>2 DEF TouchInv, FirstTouch
    <3> QED BY <3>1, <3>2, <3>3
  <2> QED BY <2>1, <2>2, <2>3, <2>4 DEF Next, Acts
<1> QED BY <1>1, TouchInvariant, PTL DEF Spec, SweepSparesThisProcess

-----------------------------------------------------------------------------
(* The supersession of idle goals                                            *)

\* A goal that is tracked keeps what is known of it while no turn is counted.
LEMMA TrackedStays ==
    ASSUME GoalTyped, TrackInv, NEW t \in Turn, Acts(t), NEW g \in Goal \ missed,
           winners' = winners, plan'.last[g] = plan.last[g], plan'.stamp[g] = plan.stamp[g],
           plan'.last[g] # 0
    PROVE  /\ g \in Known' /\ goal'[g].kind = "task" /\ plan'.last[g] <= Len(winners')
           /\ \A i \in plan'.last[g] + 1..Len(winners') : winners'[i] # g
           /\ plan'.stamp[g] <= goal'[g].stamp
           /\ goal'[g].stamp = plan'.stamp[g] => goal'[g].idleFrom < plan'.last[g]
<1>1. /\ g \in Known /\ goal[g].kind = "task" /\ plan.last[g] <= Len(winners)
      /\ \A i \in plan.last[g] + 1..Len(winners) : winners[i] # g
      /\ plan.stamp[g] <= goal[g].stamp
      /\ goal[g].stamp = plan.stamp[g] => goal[g].idleFrom < plan.last[g]
  BY DEF TrackInv
<1>2. /\ g \in Known' /\ goal'[g].kind = goal[g].kind
      /\ \/ goal'[g].stamp = goal[g].stamp /\ goal'[g].idleFrom = goal[g].idleFrom
         \/ goal'[g].stamp = goal[g].stamp + 1
  BY <1>1, KnownGoalsStay
<1>3. plan.stamp[g] \in Nat /\ goal[g].stamp \in Nat
  BY ConstantsAssumption DEF GoalTyped, TrackTyped, Tracks, GoalsTyped, GoalRec
<1>4. plan'.stamp[g] <= goal'[g].stamp
      /\ (goal'[g].stamp = plan'.stamp[g] => goal'[g].idleFrom = goal[g].idleFrom
                                            /\ goal[g].stamp = plan.stamp[g])
  BY <1>1, <1>2, <1>3
<1> QED BY <1>1, <1>2, <1>4

\* The job that counts a turn finds no other in its loop, and the tracking complete.
LEMMA PlanIsThere ==
    ASSUME PlanInv, IdleInv, NEW t \in Turn, Running(t), turn[t].stage # "supersede"
    PROVE  plan = track
<1>1. \A u \in Turn : turn[u].stage = "supersede" => Running(u)
  BY DEF IdleInv
<1>2. \A u \in Turn : Running(u) => u = t
  BY DEF Running
<1> QED BY <1>1, <1>2 DEF PlanInv

LEMMA PlanInvStep ==
    ASSUME GoalTyped, PlanInv, NEW t \in Turn, Acts(t)
    PROVE  PlanInv'
<1>a. \A u \in Turn \ {t} : turn'[u] = turn[u]
  BY EveryTurnStep DEF Alone
<1>1. CASE CountTurn(t)
  <2>1. turn'[t].stage = "supersede" /\ turn'[t].todo = Idle(t)
    BY <1>1, CountGoes DEF WentWith, Became
  <2> QED BY <1>1, <2>1, CountedTurn DEF PlanInv
<1>2. CASE CountFails(t) \/ SupersedeFails(t)
  BY <1>2 DEF CountFails, SupersedeFails, PlanInv
<1>3. CASE Supersede(t)
  <2>1. turn'[t].stage = "supersede"
    BY <1>3, StagesAfter
  <2> QED BY <1>3, <2>1, SupersededTracks DEF PlanInv
<1>4. CASE UNCHANGED <<track, plan, winners, missed>> /\ ~Supersede(t) /\ ~SupersedeFails(t)
  <2>1. CASE plan = track
    BY <1>4, <2>1 DEF PlanInv
  <2>2. ASSUME NEW u \in Turn, turn[u].stage = "supersede", turn[u].todo # {} PROVE PlanInv'
    <3>1. CASE u # t
      BY <2>2, <3>1, <1>a DEF PlanInv
    <3>2. CASE u = t
      <4>1. EndJob(t) \/ JobFails(t)
        BY <1>4, <2>2, <3>2, Guards DEF Acts
      <4>2. turn[t].todo = {}
        BY <4>1, <2>2, <3>2 DEF EndJob, JobFails
      <4> QED BY <4>2, <2>2, <3>2
    <3> QED BY <3>1, <3>2
  <2> QED BY <2>1, <2>2 DEF PlanInv
<1> QED BY <1>1, <1>2, <1>3, <1>4, TrackSteps

LEMMA TrackInvStep ==
    ASSUME GoalTyped, PlanInv, IdleInv, TrackInv, NEW t \in Turn, Acts(t)
    PROVE  TrackInv'
<1>t. /\ GoalsTyped /\ TurnsTyped /\ TrackTyped /\ winners \in Seq(MaybeGoal) /\ Len(winners) \in Nat
      /\ Len(winners) = track.counted /\ track \in Tracks
  BY DEF GoalTyped, TrackTyped
<1>n. PICK n \in Nat : n = Len(winners)
  BY <1>t
<1>f. \A g \in Goal : /\ plan.last[g] \in Nat /\ plan.stamp[g] \in Nat /\ goal[g].stamp \in Nat
                      /\ goal[g].idleFrom \in Nat /\ goal[g].idleFrom <= n
  BY <1>t, <1>n, ConstantsAssumption DEF GoalsTyped, GoalRec, TrackTyped, Tracks
<1>m. missed \subseteq missed'
  BY EveryCountStep
<1> SUFFICES ASSUME NEW g \in Goal \ missed', plan'.last[g] # 0
             PROVE  /\ g \in Known' /\ goal'[g].kind = "task" /\ plan'.last[g] <= Len(winners')
                    /\ \A i \in plan'.last[g] + 1..Len(winners') : winners'[i] # g
                    /\ plan'.stamp[g] <= goal'[g].stamp
                    /\ goal'[g].stamp = plan'.stamp[g] => goal'[g].idleFrom < plan'.last[g]
  BY DEF TrackInv
<1>g. g \in Goal \ missed
  BY <1>m
<1>s. ASSUME winners' = winners, plan'.last[g] = plan.last[g], plan'.stamp[g] = plan.stamp[g]
      PROVE  /\ g \in Known' /\ goal'[g].kind = "task" /\ plan'.last[g] <= Len(winners')
             /\ \A i \in plan'.last[g] + 1..Len(winners') : winners'[i] # g
             /\ plan'.stamp[g] <= goal'[g].stamp
             /\ goal'[g].stamp = plan'.stamp[g] => goal'[g].idleFrom < plan'.last[g]
  BY <1>s, <1>g, TrackedStays
<1>1. CASE UNCHANGED <<track, plan, winners, missed>>
  BY <1>1, <1>s
<1>2. CASE Supersede(t)
  <2>1. winners' = winners
    BY <1>2 DEF Supersede, history
  <2>2. plan'.last[g] = plan.last[g] /\ plan'.stamp[g] = plan.stamp[g]
    BY <1>2, SupersededTracks
  <2> QED BY <2>1, <2>2, <1>s
<1>3. CASE SupersedeFails(t)
  <2>1. winners' = winners /\ plan' = track
    BY <1>3 DEF SupersedeFails
  <2>2. plan.last[g] = track.last[g] /\ plan.stamp[g] = track.stamp[g]
    BY <1>3 DEF SupersedeFails
  <2> QED BY <2>1, <2>2, <1>s
<1>4. CASE CountFails(t)
  <2>1. UNCHANGED goal /\ track' = [track EXCEPT !.counted = track.counted + 1] /\ plan' = track'
        /\ winners' = Append(winners, None)
    BY <1>4 DEF CountFails
  <2>2. /\ Len(winners') = n + 1 /\ winners'[n + 1] = None
        /\ \A i \in 1..n : winners'[i] = winners[i]
    BY <2>1, <1>t, <1>n
  <2>3. plan = track
    BY <1>4, PlanIsThere DEF CountFails
  <2>4. plan'.last[g] = plan.last[g] /\ plan'.stamp[g] = plan.stamp[g]
    BY <2>1, <2>3, <1>t DEF Tracks
  <2>5. /\ g \in Known /\ goal[g].kind = "task" /\ plan.last[g] <= n
        /\ \A i \in plan.last[g] + 1..n : winners[i] # g
        /\ plan.stamp[g] <= goal[g].stamp
        /\ goal[g].stamp = plan.stamp[g] => goal[g].idleFrom < plan.last[g]
    BY <2>4, <1>g, <1>n DEF TrackInv
  <2>6. Known' = Known
    BY <2>1 DEF Known
  <2>7. \A i \in plan.last[g] + 1..n + 1 : winners'[i] # g
    <3>1. g # None
      BY NoneIsNoGoal
    <3>2. \A i \in plan.last[g] + 1..n + 1 : i = n + 1 \/ (i \in 1..n /\ i \in plan.last[g] + 1..n)
      BY <1>f
    <3> QED BY <3>1, <3>2, <2>2, <2>5
  <2> QED BY <2>1, <2>2, <2>4, <2>5, <2>6, <2>7, <1>f
<1>5. CASE CountTurn(t)
  <2>1. UNCHANGED goal /\ winners' = Append(winners, turn[t].goal) /\ turn[t].goal \in MaybeGoal
    BY <1>5, <1>t, TurnRecOf DEF CountTurn, TurnRec
  <2>2. /\ Len(winners') = n + 1 /\ winners'[n + 1] = turn[t].goal
        /\ \A i \in 1..n : winners'[i] = winners[i]
    BY <2>1, <1>t, <1>n
  <2>p. plan = track
    BY <1>5, PlanIsThere DEF CountTurn
  <2> DEFINE Now == g \in Active("task") /\ Seen(t, g)
  <2>3. /\ g \notin Gone
        /\ plan'.last[g] = IF Now THEN n + 1 ELSE plan.last[g]
        /\ plan'.stamp[g] = IF Now THEN goal[g].stamp ELSE plan.stamp[g]
    BY <1>5, <1>n, <1>t, <2>p, CountedTurn
  <2>4. Known' = Known
    BY <2>1 DEF Known
  <2>5. g \in Known /\ goal[g].status = "active"
    BY <2>3 DEF Known, Gone
  <2>6. CASE Now
    <3>1. plan'.last[g] = n + 1 /\ plan'.stamp[g] = goal[g].stamp /\ goal[g].kind = "task"
      BY <2>3, <2>6 DEF Active
    <3>2. goal'[g] = goal[g] /\ goal[g].idleFrom < n + 1
      BY <2>1, <1>f
    <3>3. n + 1 + 1..n + 1 = {}
      BY <1>n
    <3> QED BY <3>1, <3>2, <3>3, <2>2, <2>4, <2>5, <1>f
  <2>7. CASE ~Now
    <3>1. plan'.last[g] = plan.last[g] /\ plan'.stamp[g] = plan.stamp[g] /\ plan.last[g] # 0
      BY <2>3, <2>7
    <3>2. /\ goal[g].kind = "task" /\ plan.last[g] <= n
          /\ \A i \in plan.last[g] + 1..n : winners[i] # g
          /\ plan.stamp[g] <= goal[g].stamp
          /\ goal[g].stamp = plan.stamp[g] => goal[g].idleFrom < plan.last[g]
      BY <3>1, <1>g, <1>n DEF TrackInv
    <3>3. g # turn[t].goal
      BY <2>5, <2>7, <3>2 DEF Seen, Active
    <3>4. \A i \in plan.last[g] + 1..n + 1 : winners'[i] # g
      <4>1. \A i \in plan.last[g] + 1..n + 1 : i = n + 1 \/ (i \in 1..n /\ i \in plan.last[g] + 1..n)
        BY <1>f
      <4> QED BY <4>1, <3>2, <3>3, <2>2
    <3>5. goal'[g] = goal[g]
      BY <2>1
    <3> QED BY <3>1, <3>2, <3>4, <3>5, <2>2, <2>4, <2>5, <1>f
  <2> QED BY <2>6, <2>7
<1> QED BY <1>1, <1>2, <1>3, <1>4, <1>5, TrackSteps

\* A goal found idle stays so, or was touched just now, until a turn is counted.
LEMMA IdleStays ==
    ASSUME GoalTyped, NEW t \in Turn, Acts(t), winners' = winners, NEW g \in Known, WasIdle(g)
    PROVE  WasIdle(g)'
<1>1. goal'[g].idleFrom = goal[g].idleFrom \/ goal'[g].idleFrom = Len(winners)
  BY KnownGoalsStay
<1> QED BY <1>1 DEF WasIdle

\* The goals that a counted turn gives up have been idle.
LEMMA AppendOne ==
    ASSUME NEW S, NEW s \in Seq(S), NEW w \in S, NEW a, a = Append(s, w),
           NEW n \in Nat, n = Len(s)
    PROVE  /\ Len(a) = n + 1 /\ a[n + 1] = w
           /\ \A i \in 1..n : a[i] = s[i]
  BY AppendProperties

LEMMA CountFindsIdle ==
    ASSUME GoalTyped, TrackInv, plan = track, NEW t \in Turn, CountTurn(t), NEW g \in Idle(t) \ missed
    PROVE  WasIdle(g)'
<1>n. PICK n \in Nat : n = Len(winners) /\ n = track.counted /\ winners \in Seq(MaybeGoal)
  BY DEF GoalTyped, TrackTyped
<1>p. PICK k \in Nat : k = AfterTurns /\ k > 0
  BY ConstantsAssumption
<1>1. /\ g \in Goal /\ track.last[g] # 0 /\ goal[g].stamp = track.stamp[g] /\ g # turn[t].goal
      /\ track.counted + 1 - track.last[g] >= AfterTurns
  BY DEF Idle, Seen, Open, Active
<1>2. /\ track.last[g] <= n /\ \A i \in track.last[g] + 1..n : winners[i] # g
      /\ goal[g].idleFrom < track.last[g]
  BY <1>1, <1>n DEF TrackInv
<1>3. track.last[g] \in Nat /\ goal[g].idleFrom \in Nat
  BY <1>1, ConstantsAssumption DEF GoalTyped, TrackTyped, Tracks, GoalsTyped, GoalRec
<1>l. PICK l \in Nat : l = track.last[g] /\ l # 0 /\ l <= n /\ n + 1 - l >= k
  BY <1>1, <1>2, <1>3, <1>n, <1>p
<1>4. goal' = goal
  BY DEF CountTurn
<1>w. PICK w \in MaybeGoal : w = turn[t].goal
  BY TurnRecOf DEF GoalTyped, TurnRec
<1>a. winners' = Append(winners, w)
  BY <1>w DEF CountTurn
<1>5. /\ Len(winners') = n + 1 /\ winners'[n + 1] = w
      /\ \A i \in 1..n : winners'[i] = winners[i]
  <2>1. winners \in Seq(MaybeGoal)
    BY <1>n
  <2>2. n = Len(winners)
    BY <1>n
  <2>3. winners' = Append(winners, w)
    BY <1>a
  <2> HIDE DEF MaybeGoal
  <2> QED BY <2>1, <2>2, <2>3, AppendOne
<1>6. n + 1 > k
  BY <1>l
<1>7. \A i \in n + 1 - k + 1..n + 1 : i = n + 1 \/ (i \in 1..n /\ i \in l + 1..n)
  BY <1>l
<1>8. \A i \in n + 1 - k + 1..n + 1 : winners'[i] # g
  BY <1>1, <1>2, <1>5, <1>7, <1>l, <1>w
<1>9. goal'[g].idleFrom < n + 1 - k
  BY <1>2, <1>3, <1>4, <1>l
<1>10. AfterTurns' = k
  BY <1>p
<1> QED BY <1>5, <1>6, <1>8, <1>9, <1>p DEF WasIdle

LEMMA IdleInvStep ==
    ASSUME GoalTyped, QueueInv, PlanInv, TrackInv, IdleInv, NEW t \in Turn, Acts(t)
    PROVE  IdleInv'
<1> SUFFICES ASSUME NEW u \in Turn, turn'[u].stage = "supersede"
             PROVE  Running(u)' /\ \A g \in turn'[u].todo \ missed' : WasIdle(g)'
  BY DEF IdleInv
<1>q. queue \in Seq(Turn) /\ (\A v \in Turn : turn[v].todo \subseteq Known)
  BY DEF GoalTyped, TurnsTyped, TurnTyped
<1>m. missed \subseteq missed'
  BY EveryCountStep
<1>1. CASE u # t
  <2>1. turn'[u] = turn[u]
    BY <1>1, EveryTurnStep DEF Alone
  <2>2. Running(u) /\ \A g \in turn[u].todo \ missed : WasIdle(g)
    BY <2>1 DEF IdleInv
  <2>3. ~Running(t)
    BY <1>1, <2>2 DEF Running
  <2>4. winners' = winners /\ (UNCHANGED queue \/ Finish(t))
    BY <2>3, TrackSteps, QueueSteps DEF CountTurn, CountFails, Supersede, SupersedeFails, Superseding,
                                        EndJob, JobFails
  <2>5. Running(u)'
    <3>1. CASE UNCHANGED queue
      BY <3>1, <2>2 DEF Running
    <3>2. CASE Finish(t)
      <4>1. queue' = Append(queue, t)
        BY <3>2 DEF Finish
      <4>2. queue # <<>> /\ Head(queue) = u
        BY <2>2 DEF Running
      <4>3. queue' # <<>> /\ Head(queue') = Head(queue)
        BY <4>1, <4>2, <1>q, AppendProperties
      <4> QED BY <4>2, <4>3 DEF Running
    <3> QED BY <2>4, <3>1, <3>2
  <2>6. \A g \in turn[u].todo \ missed : WasIdle(g)'
    BY <2>2, <2>4, <1>q, IdleStays
  <2> QED BY <2>1, <2>5, <2>6, <1>m
<1>2. CASE u = t
  <2>1. CountTurn(t) \/ CountFails(t) \/ Supersede(t) \/ SupersedeFails(t)
    BY <1>2, StagesAfter, FindGoes DEF Acts, WentWith, Became
  <2>2. Running(t) /\ UNCHANGED queue
    BY <2>1 DEF CountTurn, CountFails, Supersede, SupersedeFails, Superseding
  <2>3. Running(t)'
    BY <2>2 DEF Running
  <2>4. CASE CountTurn(t)
    <3>1. turn'[t].todo = Idle(t)
      BY <2>4, CountGoes DEF WentWith, Became
    <3>2. plan = track
      BY <2>4, PlanIsThere DEF CountTurn
    <3> QED BY <1>2, <2>3, <2>4, <3>1, <3>2, <1>m, CountFindsIdle
  <2>5. CASE CountFails(t)
    <3>1. turn'[t].todo = {}
      BY <2>5, Guards, CountFailsGoes DEF Went, Became, GoalTyped, TurnsTyped, TurnTyped
    <3> QED BY <1>2, <2>3, <3>1
  <2>6. CASE Supersede(t)
    <3>1. turn'[t].todo \subseteq turn[t].todo /\ winners' = winners /\ turn[t].stage = "supersede"
      BY <2>6, Guards, SupersedeGoes DEF WentWith, Became, Supersede, history
    <3>2. \A g \in turn[t].todo \ missed : WasIdle(g)'
      BY <3>1, <1>q, IdleStays DEF IdleInv
    <3> QED BY <1>2, <2>3, <3>1, <3>2, <1>m
  <2>7. CASE SupersedeFails(t)
    <3>1. turn'[t].todo = {}
      BY <2>7, SupersedeFailsGoes DEF WentWith, Became
    <3> QED BY <1>2, <2>3, <3>1
  <2> QED BY <2>1, <2>4, <2>5, <2>6, <2>7
<1> QED BY <1>1, <1>2

SupersessionInv == GoalTyped /\ QueueInv /\ PlanInv /\ TrackInv /\ IdleInv

LEMMA SupersessionInvInit == Init => SupersessionInv
<1> SUFFICES ASSUME Init PROVE SupersessionInv
  OBVIOUS
<1>1. GoalTyped /\ QueueInv
  BY TouchInvInit DEF TouchInv
<1>2. track = NoTrack /\ plan = NoTrack /\ turn = [t \in Turn |-> NewTurn]
  BY DEF Init
<1>3. PlanInv /\ TrackInv
  BY <1>2 DEF PlanInv, TrackInv, NoTrack
<1>4. IdleInv
  BY <1>2 DEF IdleInv, NewTurn
<1> QED BY <1>1, <1>3, <1>4 DEF SupersessionInv

LEMMA SupersessionInvStep == SupersessionInv /\ [Next]_vars => SupersessionInv'
<1> SUFFICES ASSUME SupersessionInv, [Next]_vars PROVE SupersessionInv'
  OBVIOUS
<1>g. GoalTyped'
  BY GoalTypedStep DEF SupersessionInv
<1>1. CASE UNCHANGED vars \/ Forget
  <2>1. UNCHANGED <<goal, turn, queue, track, plan, winners, missed>>
    BY <1>1 DEF vars, history, Forget
  <2>2. QueueInv'
    BY <2>1 DEF SupersessionInv, QueueInv
  <2>3. PlanInv' /\ TrackInv'
    BY <2>1 DEF SupersessionInv, PlanInv, TrackInv, Known
  <2>4. IdleInv'
    BY <2>1 DEF SupersessionInv, IdleInv, WasIdle, Running
  <2> QED BY <1>g, <2>2, <2>3, <2>4 DEF SupersessionInv
<1>2. CASE Crash
  <2>1. /\ \A t \in Turn : turn'[t].stage \in {"new", "done"}
        /\ \A g \in Goal : plan'.last[g] = 0
        /\ plan' = track'
    BY <1>2, CrashKeeps DEF SupersessionInv
  <2>2. QueueInv'
    <3>1. queue' = <<>>
      BY <1>2 DEF Crash
    <3> QED BY <3>1 DEF QueueInv
  <2> QED BY <1>g, <2>1, <2>2 DEF SupersessionInv, PlanInv, TrackInv, IdleInv
<1>3. CASE Drop
  <2>1. /\ UNCHANGED <<turn, queue>> /\ plan' = track'
        /\ \A t \in Turn : turn[t].stage # "supersede"
        /\ \A g \in Goal : plan'.last[g] = 0
    BY <1>3, DropKeeps DEF SupersessionInv
  <2>2. QueueInv'
    BY <2>1 DEF SupersessionInv, QueueInv
  <2> QED BY <1>g, <2>1, <2>2 DEF SupersessionInv, PlanInv, TrackInv, IdleInv
<1>4. ASSUME NEW t \in Turn, Acts(t) PROVE SupersessionInv'
  BY <1>4, <1>g, QueueInvStep, PlanInvStep, TrackInvStep, IdleInvStep DEF SupersessionInv
<1> QED BY <1>1, <1>2, <1>3, <1>4 DEF Next, Acts

\* A goal is superseded only when it has been idle: neither the goal of one of the
\* last AfterTurns turns that were counted, nor touched before them; unless it is
\* one that a supersession that failed had not come to.
THEOREM OnlyIdleGoalsAreSuperseded == Spec => SupersededWasIdle
<1>1. SupersessionInv /\ [Next]_vars =>
        [\A g \in Goal \ missed : goal'[g].by = "superseded" /\ goal[g].by # "superseded" =>
           LET n == Len(winners) IN
           /\ n > AfterTurns
           /\ \A i \in n - AfterTurns + 1..n : winners[i] # g
           /\ goal[g].idleFrom = n \/ goal[g].idleFrom < n - AfterTurns]_vars
  <2> SUFFICES ASSUME SupersessionInv, [Next]_vars, NEW g \in Goal \ missed,
                      goal'[g].by = "superseded", goal[g].by # "superseded"
               PROVE  WasIdle(g)
    BY DEF WasIdle
  <2>1. CASE UNCHANGED vars
    BY <2>1 DEF vars
  <2>2. CASE Crash \/ Drop
    BY <2>2, CrashKeeps, DropKeeps DEF SupersessionInv
  <2>3. CASE Forget
    BY <2>3 DEF Forget
  <2>4. ASSUME NEW t \in Turn, Acts(t) PROVE WasIdle(g)
    <3>1. turn[t].stage = "supersede" /\ g \in turn[t].todo
      BY <2>4, WhoWrites DEF SupersessionInv
    <3> QED BY <3>1 DEF SupersessionInv, IdleInv
  <2> QED BY <2>1, <2>2, <2>3, <2>4 DEF Next, Acts
<1> QED BY <1>1, SupersessionInvInit, SupersessionInvStep, PTL DEF Spec, SupersededWasIdle

-----------------------------------------------------------------------------
(***************************************************************************)
(* PreferenceShift: between two runs of the consolidation at most one      *)
(* preference stands, and what the owner has retracted stays away, for any *)
(* number of values, offers and retractions.                               *)
(***************************************************************************)

(* The preferences of one signature: the typing invariant                    *)

Shift   == {"find", "read", "supersede", "unassert", "release"}
Rivalry == {"read", "supersede", "unassert"}

\* A run has its candidate from the ledger on, and its rival while it withdraws
\* it; a press waits only when there is an offer to answer.
RunTyped ==
    /\ run \in Runs
    /\ run.stage \notin {"off", "choices"} => run.cand \in Value
    /\ run.stage \in Rivalry => run.rival \in Value

ChainTyped ==
    /\ offers \in 0..MaxOffers /\ chain \in Seq(Value) /\ checked \in BOOLEAN
    /\ choices \in Seq([offer : 1..MaxOffers, value : Value, group : Group])
    /\ checked => chain # <<>>
    /\ chain # <<>> => offers > 0

BeliefsTyped ==
    /\ asserted \subseteq Value /\ accepted \subseteq Value
    /\ ledger \in Seq([type : {"promoted", "superseded"}, value : Value])

OwnerTyped ==
    /\ retracting \subseteq Value /\ held \subseteq Value /\ gone \subseteq Value
    /\ retractions \in 0..MaxRetractions /\ faults \in 0..MaxFaults
    /\ overlapped \in BOOLEAN /\ torn \in BOOLEAN

PreferenceTyped == ChainTyped /\ BeliefsTyped /\ OwnerTyped /\ RunTyped

\* The recorded presses and the chain are typed in every state.
LEMMA PreferenceTypedInit == PreferenceInit => PreferenceTyped
<1> SUFFICES ASSUME PreferenceInit PROVE PreferenceTyped
  OBVIOUS
<1> USE DEF PreferenceInit
<1>1. ChainTyped
  <2>1. MaxOffers \in Nat
    BY PreferenceAssumption
  <2>2. checked \in BOOLEAN /\ ~checked
    BY Zenon
  <2>3. offers = 0 /\ chain = <<>> /\ choices = <<>>
    OBVIOUS
  <2>4. 0 \in 0..MaxOffers /\ <<>> \in Seq(Value)
        /\ <<>> \in Seq([offer : 1..MaxOffers, value : Value, group : Group])
    BY <2>1
  <2> HIDE DEF PreferenceInit
  <2> QED BY <2>2, <2>3, <2>4 DEF ChainTyped
<1>2. BeliefsTyped
  BY DEF BeliefsTyped
<1>3. OwnerTyped
  <2>1. MaxRetractions \in Nat /\ MaxFaults \in Nat
    BY PreferenceAssumption
  <2>2. overlapped \in BOOLEAN /\ torn \in BOOLEAN
    BY Zenon
  <2>3. /\ retracting = {} /\ held = {} /\ gone = {} /\ retractions = 0 /\ faults = 0
    OBVIOUS
  <2> HIDE DEF PreferenceInit
  <2> QED BY <2>1, <2>2, <2>3 DEF OwnerTyped
<1>4. RunTyped
  BY DEF RunTyped, NoRun, Runs, Rivalry
<1> QED BY <1>1, <1>2, <1>3, <1>4 DEF PreferenceTyped

\* The end of a run, and the way on to the next rival, keep the run typed.
LEMMA StopTyped == Stop => RunTyped'
BY DEF Stop, RunTyped, NoRun, Runs, Rivalry

LEMMA OnwardTyped ==
    ASSUME RunTyped, run.stage \in Shift, NEW rest \in SUBSET Value, NEW out \in SUBSET Value,
           Onward(rest, out)
    PROVE  RunTyped'
<1>1. CASE rest \cup out = {}
  BY <1>1, StopTyped DEF Onward
<1>2. CASE rest \cup out # {}
  <2>1. run' = [run EXCEPT !.stage = IF rest # {} THEN "find" ELSE "release",
                           !.rivals = rest, !.withdrawn = out]
    BY <1>2 DEF Onward
  <2>2. run.cand \in Value
    BY DEF RunTyped, Shift
  <2> QED BY <2>1, <2>2 DEF RunTyped, Runs, Writing, Rivalry
<1> QED BY <1>1, <1>2

\* Each step of a run keeps it typed.
LEMMA RunStepTyped ==
    ASSUME PreferenceTyped, RunStep \/ Start \/ Fail
    PROVE  RunTyped'
<1> USE DEF At, Goto
<1>t. RunTyped
  BY DEF PreferenceTyped
<1>1. CASE Start
  BY <1>1, <1>t DEF Start, RunTyped, Runs, Reading, Rivalry
<1>2. CASE ReadChoices
  BY <1>2, <1>t, StopTyped DEF ReadChoices, RunTyped, Runs, Reading, Rivalry
<1>3. CASE ReadLedger
  <2>1. CASE Stop
    BY <2>1, StopTyped
  <2>2. CASE ~Stop
    <3>1. /\ run' = [run EXCEPT !.stage = "present", !.standing = Standing]
          /\ run \in Runs /\ run.cand \in Value
      BY <1>3, <2>2, <1>t DEF ReadLedger, RunTyped
    <3>2. Standing \in SUBSET Value
      BY DEF Standing
    <3> QED BY <3>1, <3>2 DEF RunTyped, Runs, Reading, Rivalry
  <2> QED BY <2>1, <2>2
<1>4. CASE AskPresent
  <2>b. (run.cand \in asserted) \in BOOLEAN
    OBVIOUS
  <2>1. PICK b \in BOOLEAN : run' = [run EXCEPT !.stage = "claimed", !.found = b]
    BY <1>4, <2>b, Zenon DEF AskPresent
  <2>2. run.cand \in Value
    BY <1>4, <1>t DEF AskPresent, RunTyped
  <2> QED BY <2>1, <2>2, <1>t DEF RunTyped, Runs, Reading, Rivalry
<1>5. CASE AskClaimed
  BY <1>5, <1>t, StopTyped DEF AskClaimed, RunTyped, Runs, Reading, Rivalry
<1>6. CASE Insert
  BY <1>6, <1>t DEF Insert, RunTyped, Runs, Writing, Rivalry
<1>7. CASE CreateClaim
  BY <1>7, <1>t DEF CreateClaim, RunTyped, Runs, Writing, Rivalry
<1>8. CASE RecordPromotion
  <2>1. CASE Stop
    BY <2>1, StopTyped
  <2>2. CASE ~Stop
    <3>1. /\ run' = [run EXCEPT !.stage = "find", !.rivals = run.standing]
          /\ run \in Runs /\ run.cand \in Value
      BY <1>8, <2>2, <1>t DEF RecordPromotion, RunTyped
    <3> QED BY <3>1 DEF RunTyped, Runs, Writing, Rivalry
  <2> QED BY <2>1, <2>2
<1>9. CASE FindRival
  <2>1. PICK v \in run.rivals :
          IF v \in accepted
            THEN run' = [run EXCEPT !.stage = "read", !.rival = v, !.rivals = @ \ {v}]
            ELSE Onward(run.rivals \ {v}, run.withdrawn)
    BY <1>9 DEF FindRival
  <2>2. run.stage = "find" /\ v \in Value /\ run.rivals \ {v} \in SUBSET Value
        /\ run.withdrawn \in SUBSET Value
    BY <1>9, <1>t DEF FindRival, RunTyped, Runs
  <2>3. CASE v \in accepted
    <3>1. run' = [run EXCEPT !.stage = "read", !.rival = v, !.rivals = @ \ {v}]
      BY <2>1, <2>3
    <3>2. run \in Runs /\ run.cand \in Value
      BY <2>2, <1>t DEF RunTyped
    <3> QED BY <2>2, <3>1, <3>2 DEF RunTyped, Runs, Writing, Rivalry
  <2>4. CASE v \notin accepted
    BY <2>1, <2>2, <2>4, <1>t, OnwardTyped DEF Shift
  <2> QED BY <2>3, <2>4
<1>10. CASE ReadRival
  <2>b. (run.rival \in accepted) \in BOOLEAN
    OBVIOUS
  <2>1. PICK b \in BOOLEAN : run' = [run EXCEPT !.stage = "supersede", !.found = b]
    BY <1>10, <2>b, Zenon DEF ReadRival
  <2>2. run.cand \in Value /\ run.rival \in Value
    BY <1>10, <1>t DEF ReadRival, RunTyped, Rivalry
  <2> QED BY <2>1, <2>2, <1>t DEF RunTyped, Runs, Writing, Rivalry
<1>11. CASE SupersedeClaim
  BY <1>11, <1>t DEF SupersedeClaim, RunTyped, Runs, Writing, Rivalry
<1>12. CASE Unassert
  <2>1. run.stage \in Shift /\ run.rivals \in SUBSET Value
        /\ run.withdrawn \cup {run.rival} \in SUBSET Value
    BY <1>12, <1>t DEF Unassert, RunTyped, Runs, Rivalry, Shift
  <2> QED BY <1>12, <1>t, <2>1, OnwardTyped DEF Unassert
<1>13. CASE Release
  <2>1. PICK v \in run.withdrawn : Onward({}, run.withdrawn \ {v})
    BY <1>13 DEF Release
  <2>2. run.stage \in Shift /\ run.withdrawn \ {v} \in SUBSET Value
    BY <1>13, <1>t DEF Release, RunTyped, Runs, Shift
  <2> QED BY <1>t, <2>1, <2>2, OnwardTyped
<1>14. CASE Fail
  <2>1. CASE Stop
    BY <2>1, StopTyped
  <2>2. CASE At("read") /\ Onward(run.rivals, run.withdrawn)
    <3>1. run.stage \in Shift /\ run.rivals \in SUBSET Value /\ run.withdrawn \in SUBSET Value
      BY <2>2, <1>t DEF RunTyped, Runs, Shift
    <3> QED BY <2>2, <3>1, <1>t, OnwardTyped
  <2> QED BY <1>14, <2>1, <2>2 DEF Fail
<1> QED BY <1>1, <1>2, <1>3, <1>4, <1>5, <1>6, <1>7, <1>8, <1>9, <1>10, <1>11, <1>12,
           <1>13, <1>14 DEF RunStep

\* So does every step for what the presses leave behind ...
LEMMA ChainStepTyped ==
    ASSUME PreferenceTyped, PreferenceNext
    PROVE  ChainTyped'
<1>t. ChainTyped
  BY DEF PreferenceTyped
<1>m. MaxOffers \in Nat \ {0}
  BY PreferenceAssumption
<1>1. CASE UNCHANGED capture
  BY <1>1, <1>t DEF ChainTyped, capture
<1>2. ASSUME NEW v \in Value, Press(v) PROVE ChainTyped'
  <2>1. /\ offers' \in 0..MaxOffers /\ offers' > 0
        /\ chain' = Append(chain, v) /\ checked' = checked /\ choices' = choices
    BY <1>2, <1>t, <1>m DEF Press, ChainTyped
  <2>2. chain' \in Seq(Value) /\ chain' # <<>>
    BY <2>1, <1>t, AppendProperties DEF ChainTyped
  <2> QED BY <2>1, <2>2, <1>t DEF ChainTyped
<1>o. ASSUME Over, offers' = offers, chain # <<>>,
             choices' \in Seq([offer : 1..MaxOffers, value : Value, group : Group])
      PROVE  ChainTyped'
  <2>1. Tail(chain) \in Seq(Value)
    BY <1>t, <1>o, HeadTailProperties DEF ChainTyped
  <2> QED BY <1>t, <1>o, <2>1 DEF ChainTyped, Over
<1>3. CASE CheckPress
  <2>1. CASE ChoiceMade
    BY <1>3, <1>t, <1>o, <2>1 DEF CheckPress, ChainTyped
  <2>2. CASE ~ChoiceMade
    BY <1>3, <1>t, <2>2 DEF CheckPress, ChainTyped
  <2> QED BY <2>1, <2>2
<1>4. ASSUME NEW g \in Group, RecordPress(g) PROVE ChainTyped'
  <2>1. chain # <<>> /\ offers \in 1..MaxOffers /\ Head(chain) \in Value
    BY <1>4, <1>t, <1>m, HeadTailProperties DEF RecordPress, ChainTyped
  <2>2. [offer |-> offers, value |-> Head(chain), group |-> g]
          \in [offer : 1..MaxOffers, value : Value, group : Group]
    BY <2>1
  <2>3. choices' \in Seq([offer : 1..MaxOffers, value : Value, group : Group])
    BY <1>4, <1>t, <2>2, AppendProperties DEF RecordPress, ChainTyped
  <2> QED BY <1>4, <1>o, <2>1, <2>3 DEF RecordPress
<1>5. CASE ~Capture
  <2>1. UNCHANGED capture
    <3>1. Start => UNCHANGED capture
      BY DEF Start
    <3>2. RunStep => UNCHANGED capture
      BY DEF RunStep, ReadChoices, ReadLedger, AskPresent, AskClaimed, Insert, CreateClaim,
             RecordPromotion, FindRival, ReadRival, SupersedeClaim, Unassert, Release
    <3>3. Fail \/ RetractClaims \/ (\E facts \in {{v} : v \in Value} \cup {Value} : Retract(facts))
            => UNCHANGED capture
      BY DEF Fail, RetractClaims, Retract
    <3> QED BY <1>5, <3>1, <3>2, <3>3 DEF PreferenceNext
  <2> QED BY <2>1, <1>1
<1> QED BY <1>2, <1>3, <1>4, <1>5 DEF Capture

\* ... for the two graphs and the ledger ...
LEMMA BeliefsStepTyped ==
    ASSUME PreferenceTyped, PreferenceNext
    PROVE  BeliefsTyped'
<1> DEFINE Entries == [type : {"promoted", "superseded"}, value : Value]
<1> USE DEF At
<1>t. BeliefsTyped /\ RunTyped
  BY DEF PreferenceTyped
<1>1. CASE UNCHANGED beliefs
  BY <1>1, <1>t DEF BeliefsTyped, beliefs
<1>e. ASSUME NEW type \in {"promoted", "superseded"}, NEW v \in Value,
             ledger' = Append(ledger, Entry(type, v))
      PROVE  ledger' \in Seq(Entries)
  <2>1. Entry(type, v) \in Entries
    BY DEF Entry
  <2> QED BY <1>e, <1>t, <2>1, AppendProperties DEF BeliefsTyped
<1>2. CASE Insert
  BY <1>2, <1>t DEF Insert, BeliefsTyped, RunTyped
<1>3. CASE CreateClaim
  BY <1>3, <1>t DEF CreateClaim, BeliefsTyped, RunTyped
<1>4. CASE RecordPromotion
  <2>1. run.cand \in Value
    BY <1>4, <1>t DEF RecordPromotion, RunTyped
  <2>2. ledger' \in Seq(Entries)
    BY <1>4, <2>1, <1>e DEF RecordPromotion
  <2> QED BY <1>4, <1>t, <2>2 DEF RecordPromotion, BeliefsTyped
<1>5. CASE SupersedeClaim
  BY <1>5, <1>t DEF SupersedeClaim, BeliefsTyped
<1>6. CASE Unassert
  BY <1>6, <1>t DEF Unassert, BeliefsTyped
<1>7. CASE Release
  <2>1. PICK v \in run.withdrawn : ledger' = Append(ledger, Entry("superseded", v))
    BY <1>7 DEF Release
  <2>2. v \in Value
    BY <1>t, <2>1 DEF RunTyped, Runs
  <2>3. ledger' \in Seq(Entries)
    BY <2>1, <2>2, <1>e
  <2> QED BY <1>7, <1>t, <2>3 DEF Release, BeliefsTyped
<1>8. CASE RetractClaims
  BY <1>8, <1>t DEF RetractClaims, BeliefsTyped
<1>9. ASSUME NEW facts, Retract(facts) PROVE BeliefsTyped'
  BY <1>9, <1>t DEF Retract, BeliefsTyped
<1>10. CASE Capture \/ Start \/ Fail
  <2>1. UNCHANGED beliefs
    BY <1>10 DEF Capture, CheckPress, Press, RecordPress, Start, Fail
  <2> QED BY <2>1, <1>1
<1>11. CASE ReadChoices \/ ReadLedger \/ AskPresent \/ AskClaimed \/ FindRival \/ ReadRival
  <2>1. UNCHANGED beliefs
    BY <1>11 DEF ReadChoices, ReadLedger, AskPresent, AskClaimed, FindRival, ReadRival
  <2> QED BY <2>1, <1>1
<1> QED BY <1>2, <1>3, <1>4, <1>5, <1>6, <1>7, <1>8, <1>9, <1>10, <1>11
        DEF PreferenceNext, RunStep

\* ... and for the retraction and the counters.
LEMMA OwnerStepTyped ==
    ASSUME PreferenceTyped, PreferenceNext
    PROVE  OwnerTyped'
<1>t. OwnerTyped /\ BeliefsTyped
  BY DEF PreferenceTyped
<1>m. MaxRetractions \in Nat /\ MaxFaults \in Nat
  BY PreferenceAssumption
<1>1. CASE UNCHANGED <<owner, faults, disturbed>>
  BY <1>1, <1>t DEF OwnerTyped, owner, disturbed
<1>2. CASE Start
  <2>1. overlapped' \in BOOLEAN /\ UNCHANGED <<owner, faults, torn>>
    BY <1>2, Zenon DEF Start
  <2> QED BY <2>1, <1>t DEF OwnerTyped, owner
<1>3. CASE Fail
  <2>1. torn' \in BOOLEAN
    BY <1>3, Zenon DEF Fail
  <2>2. faults' \in 0..MaxFaults /\ UNCHANGED <<owner, overlapped>>
    BY <1>3, <1>t, <1>m DEF Fail, OwnerTyped
  <2> QED BY <2>1, <2>2, <1>t DEF OwnerTyped, owner
<1>4. ASSUME NEW facts \in {{v} : v \in Value} \cup {Value}, Retract(facts)
      PROVE  OwnerTyped'
  <2>1. overlapped' \in BOOLEAN
    BY <1>4, Zenon DEF Retract
  <2>2. retractions' \in 0..MaxRetractions
    BY <1>4, <1>t, <1>m DEF Retract, OwnerTyped
  <2>3. retracting' \subseteq Value /\ held' \subseteq Value
    BY <1>4, <1>t DEF Retract, OwnerTyped
  <2> QED BY <1>4, <1>t, <2>1, <2>2, <2>3 DEF Retract, OwnerTyped
<1>5. CASE RetractClaims
  BY <1>5, <1>t DEF RetractClaims, OwnerTyped, disturbed
<1>6. CASE Capture \/ RunStep
  <2>1. Capture => UNCHANGED <<owner, faults, disturbed>>
    BY DEF Capture, CheckPress, Press, RecordPress
  <2>2. RunStep => UNCHANGED <<owner, faults, disturbed>>
    BY DEF RunStep, ReadChoices, ReadLedger, AskPresent, AskClaimed, Insert, CreateClaim,
           RecordPromotion, FindRival, ReadRival, SupersedeClaim, Unassert, Release
  <2> QED BY <1>6, <1>1, <2>1, <2>2
<1> QED BY <1>2, <1>3, <1>4, <1>5, <1>6 DEF PreferenceNext

LEMMA PreferenceTypedStep ==
    PreferenceTyped /\ [PreferenceNext]_preferenceVars => PreferenceTyped'
<1> SUFFICES ASSUME PreferenceTyped, [PreferenceNext]_preferenceVars PROVE PreferenceTyped'
  OBVIOUS
<1>1. CASE UNCHANGED preferenceVars
  BY <1>1 DEF PreferenceTyped, ChainTyped, BeliefsTyped, OwnerTyped, RunTyped, preferenceVars,
              capture, beliefs, owner, disturbed
<1>2. CASE PreferenceNext
  <2>1. RunTyped'
    <3>1. CASE UNCHANGED run
      BY <3>1 DEF PreferenceTyped, RunTyped
    <3>2. CASE RunStep \/ Start \/ Fail
      BY <3>2, RunStepTyped
    <3>3. Capture \/ RetractClaims \/ (\E facts \in {{v} : v \in Value} \cup {Value} : Retract(facts))
            => UNCHANGED run
      BY DEF Capture, CheckPress, Press, RecordPress, RetractClaims, Retract
    <3> QED BY <1>2, <3>1, <3>2, <3>3 DEF PreferenceNext
  <2> QED BY <1>2, <2>1, ChainStepTyped, BeliefsStepTyped, OwnerStepTyped DEF PreferenceTyped
<1> QED BY <1>1, <1>2

\* The whole state of the presses, the graphs and the consolidation is of its
\* type in every state.
THEOREM PreferenceTypeCorrect == PreferenceSpec => []PreferenceTypeOK
<1>1. PreferenceTyped => PreferenceTypeOK
  BY DEF PreferenceTyped, ChainTyped, BeliefsTyped, OwnerTyped, RunTyped, PreferenceTypeOK
<1> QED BY <1>1, PreferenceTypedInit, PreferenceTypedStep, PTL DEF PreferenceSpec
-----------------------------------------------------------------------------
(* What stands                                                               *)

AtMostOne(S) == \A u, v \in S : u = v

\* The entry that makes v stand: its promotion, with no withdrawal after it.
Upholds(i, v) ==
    /\ i \in DOMAIN ledger /\ ledger[i] = Entry("promoted", v)
    /\ \A j \in i + 1..Len(ledger) : ledger[j] # Entry("superseded", v)

LEMMA StandingByEntry ==
    ASSUME NEW v \in Value
    PROVE  v \in Standing <=> \E i : Upholds(i, v)
BY DEF Standing, Upholds

\* A promotion adds its value to what stands ...
LEMMA PromotionStands ==
    ASSUME PreferenceTyped, NEW v \in Value, ledger' = Append(ledger, Entry("promoted", v))
    PROVE  Standing' = Standing \cup {v}
<1>n. PICK n \in Nat : n = Len(ledger)
  BY DEF PreferenceTyped, BeliefsTyped
<1>t. /\ n = Len(ledger) /\ Len(ledger') = n + 1 /\ DOMAIN ledger = 1..n /\ DOMAIN ledger' = 1..n + 1
      /\ \A i \in 1..n : ledger'[i] = ledger[i]
      /\ ledger'[n + 1] = Entry("promoted", v)
  BY <1>n DEF PreferenceTyped, BeliefsTyped
<1>s. \A u : Entry("superseded", u) # Entry("promoted", v)
  BY DEF Entry
<1>1. ASSUME NEW u \in Value, NEW i, Upholds(i, u) PROVE Upholds(i, u)'
  BY <1>1, <1>t, <1>s DEF Upholds
<1>2. Upholds(n + 1, v)'
  <2>1. n + 1 + 1..n + 1 = {} /\ n + 1 \in 1..n + 1
    BY <1>t
  <2> QED BY <1>t, <2>1 DEF Upholds
<1>3. ASSUME NEW u \in Value, NEW i, Upholds(i, u)', u # v PROVE Upholds(i, u)
  <2>1. Entry("promoted", u) # Entry("promoted", v)
    BY <1>3 DEF Entry
  <2>2. i \in 1..n
    BY <1>3, <1>t, <2>1 DEF Upholds
  <2> QED BY <1>3, <1>t, <2>2 DEF Upholds
<1>4. \A u \in Value : u \in Standing' <=> \E i : Upholds(i, u)'
  BY DEF Standing, Upholds
<1>5. \A u \in Value : u \in Standing' <=> u \in Standing \/ u = v
  BY <1>1, <1>2, <1>3, <1>4, StandingByEntry
<1>6. Standing \subseteq Value /\ Standing' \subseteq Value
  BY DEF Standing
<1> QED BY <1>5, <1>6

\* ... and the release of a value takes it, and nothing else, away.
LEMMA ReleaseFrees ==
    ASSUME PreferenceTyped, NEW v \in Value, ledger' = Append(ledger, Entry("superseded", v))
    PROVE  Standing' = Standing \ {v}
<1> DEFINE n == Len(ledger)
<1>t. /\ n \in Nat /\ Len(ledger') = n + 1 /\ DOMAIN ledger = 1..n /\ DOMAIN ledger' = 1..n + 1
      /\ \A i \in 1..n : ledger'[i] = ledger[i]
      /\ ledger'[n + 1] = Entry("superseded", v)
  BY DEF PreferenceTyped, BeliefsTyped
<1>s. \A u : Entry("promoted", u) # Entry("superseded", v)
  BY DEF Entry
<1>1. ASSUME NEW u \in Value, NEW i, Upholds(i, u), u # v PROVE Upholds(i, u)'
  <2>1. Entry("superseded", u) # Entry("superseded", v)
    BY <1>1 DEF Entry
  <2> QED BY <1>1, <1>t, <2>1 DEF Upholds
<1>2. ASSUME NEW u \in Value, NEW i, Upholds(i, u)' PROVE Upholds(i, u) /\ u # v
  <2>1. i \in 1..n
    BY <1>2, <1>t, <1>s DEF Upholds
  <2>2. n + 1 \in i + 1..n + 1
    BY <2>1, <1>t
  <2>3. u # v
    BY <1>2, <1>t, <2>2 DEF Upholds
  <2> QED BY <1>2, <1>t, <2>1, <2>3 DEF Upholds
<1>4. \A u \in Value : u \in Standing' <=> \E i : Upholds(i, u)'
  BY DEF Standing, Upholds
<1>5. \A u \in Value : u \in Standing' <=> u \in Standing /\ u # v
  BY <1>1, <1>2, <1>4, StandingByEntry
<1>6. Standing \subseteq Value /\ Standing' \subseteq Value
  BY DEF Standing
<1> QED BY <1>5, <1>6

LEMMA StandingStays == UNCHANGED ledger => Standing' = Standing
BY DEF Standing
-----------------------------------------------------------------------------
(* What a run and the owner's hand know of each other                        *)

\* The hand works between two runs only; what it took while it was in the graph
\* stays in the ledger, and is neither in the graph nor claimed.
Hand ==
    /\ retracting # {} => At("off")
    /\ held = accepted \cap retracting
    /\ gone \subseteq Standing /\ gone \cap accepted = {} /\ gone \cap asserted = {}

\* Before its first write a run finds at most one preference, with its claim.
Calm == run.stage \in {"off"} \cup Reading =>
    /\ asserted = accepted \ retracting /\ accepted \subseteq Standing /\ AtMostOne(accepted)
    /\ run.withdrawn = {}

\* What the ledger said when the candidate was found not to stand is still true.
Picked == run.stage \in {"present", "claimed", "insert", "claim", "record"} =>
    /\ run.cand \notin Standing /\ run.standing = Standing /\ run.withdrawn = {}

Promoting ==
    /\ At("claim")  => asserted = accepted \cup {run.cand} /\ accepted \subseteq Standing
    /\ At("record") => asserted = accepted /\ accepted \subseteq Standing \cup {run.cand}

\* The shift: whatever is in the graph beside the candidate is still to be
\* withdrawn, and what was withdrawn is not in it any more.
Shifting ==
    /\ run.stage \in Shift =>
        /\ run.cand \in Standing /\ accepted \subseteq Standing
        /\ run.withdrawn \cap (asserted \cup gone) = {}
        /\ run.cand \notin run.rivals \cup run.withdrawn
    /\ run.stage \in {"find", "release"} =>
        asserted = accepted /\ asserted \subseteq {run.cand} \cup run.rivals
    /\ run.stage \in Rivalry =>
        /\ run.rival \notin gone /\ run.rival # run.cand
        /\ asserted \subseteq {run.cand, run.rival} \cup run.rivals
    /\ run.stage \in {"read", "supersede"} => asserted = accepted /\ run.rival \in accepted
    /\ run.stage \in {"supersede", "unassert"} => run.found
    /\ At("unassert") => accepted = asserted \ {run.rival}
    /\ At("release") => run.rivals = {}

Agreed   == Hand /\ Calm /\ Picked /\ Promoting /\ Shifting
ShiftInv == Undisturbed => Agreed

LEMMA ShiftInvInit == PreferenceInit => ShiftInv
BY DEF PreferenceInit, ShiftInv, Agreed, Hand, Calm, Picked, Promoting, Shifting, NoRun, At,
       AtMostOne, Shift, Rivalry

\* A run that ends leaves what it found, when that is one preference at most.
LEMMA StopAgrees ==
    ASSUME Stop, Hand', asserted' = accepted', retracting' = {},
           accepted' \subseteq Standing', AtMostOne(accepted)'
    PROVE  Agreed'
<1>1. run' = NoRun
  BY DEF Stop
<1> QED BY <1>1 DEF Agreed, Calm, Picked, Promoting, Shifting, NoRun, At, Shift, Rivalry

\* So does the way on of the shift, with the rivals that are left.
LEMMA OnwardAgrees ==
    ASSUME PreferenceTyped, run.stage \in Shift,
           NEW rest \in SUBSET Value, NEW out \in SUBSET Value, Onward(rest, out),
           Hand', asserted' = accepted', retracting' = {},
           accepted' \subseteq Standing', run.cand \in Standing',
           asserted' \subseteq {run.cand} \cup rest,
           out \cap (asserted' \cup gone') = {}, run.cand \notin rest \cup out
    PROVE  Agreed'
<1>1. CASE rest \cup out = {}
  <2>1. Stop
    BY <1>1 DEF Onward
  <2>2. AtMostOne(accepted)'
    BY <1>1 DEF AtMostOne
  <2> QED BY <2>1, <2>2, StopAgrees
<1>2. CASE rest \cup out # {}
  <2>1. run' = [run EXCEPT !.stage = IF rest # {} THEN "find" ELSE "release",
                           !.rivals = rest, !.withdrawn = out]
    BY <1>2 DEF Onward
  <2>2. /\ run'.stage \in {"find", "release"} /\ (run'.stage = "release" => rest = {})
        /\ run'.cand = run.cand /\ run'.rivals = rest /\ run'.withdrawn = out
    BY <2>1 DEF PreferenceTyped, RunTyped, Runs
  <2>3. Calm' /\ Picked' /\ Promoting'
    BY <2>2 DEF Calm, Picked, Promoting, At, Reading
  <2>4. Shifting'
    BY <2>2 DEF Shifting, At, Shift, Rivalry
  <2> QED BY <2>3, <2>4 DEF Agreed
<1> QED BY <1>1, <1>2

\* The steps before the first write change the run only.
LEMMA ReadingAgrees ==
    ASSUME PreferenceTyped, Agreed, ReadChoices \/ ReadLedger \/ AskPresent \/ AskClaimed
    PROVE  Agreed'
<1> USE DEF At, Goto
<1>r. run \in Runs
  BY DEF PreferenceTyped, RunTyped
<1>u. /\ UNCHANGED <<asserted, accepted, ledger, retracting, held, gone>>
      /\ run.stage \in {"off"} \cup Reading /\ run.stage # "off"
  BY DEF ReadChoices, ReadLedger, AskPresent, AskClaimed, beliefs, owner, Reading
<1>s. Standing' = Standing
  BY <1>u, StandingStays
<1>h. Hand' /\ retracting = {} /\ asserted = accepted /\ accepted \subseteq Standing /\ AtMostOne(accepted)
  BY <1>u, <1>s DEF Agreed, Hand, Calm
<1>1. CASE Stop
  BY <1>1, <1>u, <1>s, <1>h, StopAgrees DEF AtMostOne
<1>2. ASSUME run'.stage \in {"ledger", "present", "claimed", "insert"}, run'.withdrawn = {}, Picked'
      PROVE  Agreed'
  <2>1. Calm'
    BY <1>2, <1>u, <1>s, <1>h DEF Calm, AtMostOne
  <2>2. Promoting' /\ Shifting'
    BY <1>2 DEF Promoting, Shifting, Shift, Rivalry
  <2> QED BY <1>2, <1>h, <2>1, <2>2 DEF Agreed
<1>3. run.withdrawn = {}
  BY <1>u DEF Agreed, Calm
<1>4. CASE ReadChoices /\ ~Stop
  <2>1. run'.stage = "ledger" /\ run'.withdrawn = {}
    BY <1>4, <1>r, <1>3 DEF ReadChoices, Runs
  <2> QED BY <2>1, <1>2 DEF Picked
<1>5. CASE ReadLedger /\ ~Stop
  <2>1. /\ run'.stage = "present" /\ run'.withdrawn = {} /\ run'.cand = run.cand
        /\ run'.standing = Standing /\ run.cand \notin Standing
    BY <1>5, <1>r, <1>3 DEF ReadLedger, Runs
  <2> QED BY <2>1, <1>2, <1>s DEF Picked
<1>6. CASE (AskPresent \/ AskClaimed) /\ ~Stop
  <2>1. /\ run'.stage \in {"claimed", "insert"} /\ run'.withdrawn = {} /\ run'.cand = run.cand
        /\ run'.standing = run.standing /\ run.stage \in {"present", "claimed"}
    BY <1>6, <1>r, <1>3 DEF AskPresent, AskClaimed, Runs
  <2> QED BY <2>1, <1>2, <1>s DEF Agreed, Picked
<1> QED BY <1>1, <1>4, <1>5, <1>6

\* The promotion: the triple, its claim, and the ledger entry.
LEMMA PromotionAgrees ==
    ASSUME PreferenceTyped, Agreed, Start \/ Insert \/ CreateClaim \/ RecordPromotion,
           ~overlapped'
    PROVE  Agreed'
<1> USE DEF At, Goto
<1>r. run \in Runs /\ run.stage \notin Shift
  BY DEF PreferenceTyped, RunTyped, Start, Insert, CreateClaim, RecordPromotion, Shift
<1>h. Hand
  BY DEF Agreed
<1>1. CASE Start
  <2>1. UNCHANGED <<asserted, accepted, ledger, held, gone, retracting>> /\ retracting = {}
    BY <1>1 DEF Start, beliefs, owner
  <2>2. Standing' = Standing
    BY <2>1, StandingStays
  <2>3. run'.stage = "choices" /\ run'.withdrawn = run.withdrawn /\ run.stage = "off"
    BY <1>1, <1>r DEF Start, Runs
  <2>4. Hand' /\ Calm'
    BY <2>1, <2>2, <2>3, <1>h DEF Agreed, Hand, Calm, Reading, AtMostOne
  <2>5. Picked' /\ Promoting' /\ Shifting'
    BY <2>3 DEF Picked, Promoting, Shifting, Shift, Rivalry
  <2> QED BY <2>4, <2>5 DEF Agreed
<1>2. CASE Insert
  <2>1. /\ UNCHANGED <<accepted, ledger, held, gone, retracting>>
        /\ asserted' = asserted \cup {run.cand} /\ run.stage = "insert"
    BY <1>2 DEF Insert, owner
  <2>2. Standing' = Standing
    BY <2>1, StandingStays
  <2>3. /\ run'.stage = "claim" /\ run'.withdrawn = run.withdrawn /\ run'.cand = run.cand
        /\ run'.standing = run.standing
    BY <1>2, <1>r DEF Insert, Runs
  <2>4. retracting = {} /\ asserted = accepted /\ accepted \subseteq Standing
    BY <2>1, <1>h DEF Agreed, Hand, Calm, Reading
  <2>5. Picked /\ run.cand \notin Standing
    BY <2>1 DEF Agreed, Picked
  <2>6. Hand' /\ Promoting'
    BY <2>1, <2>2, <2>3, <2>4, <2>5, <1>h DEF Hand, Promoting
  <2>7. Picked' /\ Calm' /\ Shifting'
    BY <2>1, <2>2, <2>3, <2>5 DEF Picked, Calm, Shifting, Reading, Shift, Rivalry
  <2> QED BY <2>6, <2>7 DEF Agreed
<1>3. CASE CreateClaim
  <2>1. /\ UNCHANGED <<asserted, ledger, held, gone, retracting>>
        /\ accepted' = accepted \cup {run.cand} /\ run.stage = "claim"
    BY <1>3 DEF CreateClaim, owner
  <2>2. Standing' = Standing
    BY <2>1, StandingStays
  <2>3. /\ run'.stage = "record" /\ run'.withdrawn = run.withdrawn /\ run'.cand = run.cand
        /\ run'.standing = run.standing
    BY <1>3, <1>r DEF CreateClaim, Runs
  <2>4. /\ retracting = {} /\ asserted = accepted \cup {run.cand} /\ accepted \subseteq Standing
        /\ Picked /\ run.cand \notin Standing
    BY <2>1, <1>h DEF Agreed, Hand, Promoting, Picked
  <2>6. Hand' /\ Promoting'
    BY <2>1, <2>2, <2>3, <2>4, <1>h DEF Hand, Promoting
  <2>7. Picked' /\ Calm' /\ Shifting'
    BY <2>1, <2>2, <2>3, <2>4 DEF Picked, Calm, Shifting, Reading, Shift, Rivalry
  <2> QED BY <2>6, <2>7 DEF Agreed
<1>4. CASE RecordPromotion
  <2>1. /\ UNCHANGED <<asserted, accepted, held, gone, retracting>> /\ run.stage = "record"
        /\ ledger' = Append(ledger, Entry("promoted", run.cand)) /\ run.cand \in Value
    BY <1>4 DEF RecordPromotion, owner, PreferenceTyped, RunTyped
  <2>2. Standing' = Standing \cup {run.cand}
    BY <2>1, PromotionStands
  <2>3. /\ retracting = {} /\ asserted = accepted /\ accepted \subseteq Standing'
        /\ run.cand \notin Standing /\ run.standing = Standing /\ run.withdrawn = {}
    BY <2>1, <2>2, <1>h DEF Agreed, Hand, Promoting, Picked
  <2>4. Hand'
    BY <2>1, <2>2, <2>3, <1>h DEF Hand
  <2>5. CASE run.standing = {}
    <3>1. AtMostOne(accepted)'
      BY <2>1, <2>2, <2>3, <2>5 DEF AtMostOne
    <3> QED BY <1>4, <2>1, <2>3, <2>4, <2>5, <3>1, StopAgrees DEF RecordPromotion
  <2>6. CASE run.standing # {}
    <3>1. /\ run'.stage = "find" /\ run'.cand = run.cand /\ run'.rivals = Standing
          /\ run'.withdrawn = {}
      BY <1>4, <2>3, <2>6, <1>r DEF RecordPromotion, Runs
    <3>2. Picked' /\ Calm' /\ Promoting'
      BY <3>1 DEF Picked, Calm, Promoting, Reading
    <3>3. Shifting'
      BY <3>1, <2>1, <2>2, <2>3 DEF Shifting, Shift, Rivalry
    <3> QED BY <2>4, <3>2, <3>3 DEF Agreed
  <2> QED BY <2>5, <2>6
<1> QED BY <1>1, <1>2, <1>3, <1>4

\* The shift: the rivals go one by one, and then their ledger entries.
LEMMA ShiftAgrees ==
    ASSUME PreferenceTyped, Agreed,
           FindRival \/ ReadRival \/ SupersedeClaim \/ Unassert \/ Release
    PROVE  Agreed'
<1> USE DEF At, Goto
<1>r. run \in Runs /\ run.stage \in Shift /\ (run.stage \in Rivalry => run.rival \in Value)
  BY DEF PreferenceTyped, RunTyped, FindRival, ReadRival, SupersedeClaim, Unassert, Release, Shift
<1>h. /\ Hand /\ Shifting /\ retracting = {} /\ run.cand \in Standing /\ accepted \subseteq Standing
      /\ run.withdrawn \cap (asserted \cup gone) = {}
      /\ run.cand \notin run.rivals \cup run.withdrawn
  BY <1>r DEF Agreed, Hand, Shifting, Shift
<1>u. UNCHANGED <<retracting, held, gone>> /\ retracting' = {}
  BY <1>h DEF FindRival, ReadRival, SupersedeClaim, Unassert, Release, owner
<1>c. ASSUME run'.stage \in Shift PROVE Calm' /\ Picked' /\ Promoting'
  BY <1>c DEF Calm, Picked, Promoting, Shift, Reading
<1>1. CASE FindRival
  <2>1. PICK v \in run.rivals :
          IF v \in accepted
            THEN run' = [run EXCEPT !.stage = "read", !.rival = v, !.rivals = @ \ {v}]
            ELSE Onward(run.rivals \ {v}, run.withdrawn)
    BY <1>1 DEF FindRival
  <2>2. UNCHANGED <<asserted, accepted, ledger>> /\ run.stage = "find"
    BY <1>1 DEF FindRival, beliefs
  <2>3. Standing' = Standing
    BY <2>2, StandingStays
  <2>4. asserted = accepted /\ asserted \subseteq {run.cand} \cup run.rivals
    BY <2>2, <1>h DEF Shifting
  <2>5. Hand'
    BY <2>2, <2>3, <1>u, <1>h DEF Hand
  <2>6. CASE v \in accepted
    <3>1. /\ run'.stage = "read" /\ run'.rival = v /\ run'.rivals = run.rivals \ {v}
          /\ run'.cand = run.cand /\ run'.withdrawn = run.withdrawn
      BY <2>1, <2>6, <1>r DEF Runs
    <3>2. v \notin gone
      BY <2>6, <1>h DEF Hand
    <3>3. Shifting'
      BY <2>2, <2>3, <2>4, <2>6, <1>h, <1>u, <3>1, <3>2 DEF Shifting, Shift, Rivalry
    <3> QED BY <2>5, <3>1, <3>3, <1>c DEF Agreed, Shift
  <2>7. CASE v \notin accepted
    <3>1. Onward(run.rivals \ {v}, run.withdrawn) /\ run.rivals \ {v} \in SUBSET Value
          /\ run.withdrawn \in SUBSET Value
      BY <2>1, <2>7, <1>r DEF Runs
    <3>2. asserted' \subseteq {run.cand} \cup (run.rivals \ {v})
      BY <2>2, <2>4, <2>7
    <3> QED BY <2>2, <2>3, <2>4, <2>5, <3>1, <3>2, <1>h, <1>u, <1>r, OnwardAgrees
  <2> QED BY <2>6, <2>7
<1>2. CASE ReadRival
  <2>1. /\ UNCHANGED <<asserted, accepted, ledger>> /\ run.stage = "read"
        /\ run' = [run EXCEPT !.stage = "supersede", !.found = run.rival \in accepted]
    BY <1>2 DEF ReadRival, beliefs
  <2>2. asserted = accepted /\ run.rival \in accepted /\ run.rival \notin gone /\ run.rival # run.cand
        /\ asserted \subseteq {run.cand, run.rival} \cup run.rivals
    BY <2>1, <1>h DEF Shifting, Rivalry
  <2>3. run'.found
    BY <2>1, <2>2, <1>r DEF Runs
  <2>4. /\ run'.stage = "supersede" /\ run'.rival = run.rival /\ run'.rivals = run.rivals
        /\ run'.cand = run.cand /\ run'.withdrawn = run.withdrawn
    BY <2>1, <1>r DEF Runs
  <2>5. Standing' = Standing
    BY <2>1, StandingStays
  <2>6. Hand'
    BY <2>1, <2>5, <1>u, <1>h DEF Hand
  <2>7. Shifting'
    BY <2>1, <2>2, <2>3, <2>4, <2>5, <1>h, <1>u DEF Shifting, Shift, Rivalry
  <2> QED BY <2>4, <2>6, <2>7, <1>c DEF Agreed, Shift
<1>3. CASE SupersedeClaim
  <2>1. /\ UNCHANGED <<asserted, ledger>> /\ run.stage = "supersede"
        /\ accepted' = accepted \ {run.rival}
    BY <1>3 DEF SupersedeClaim
  <2>2. /\ run'.stage = "unassert" /\ run'.rival = run.rival /\ run'.rivals = run.rivals
        /\ run'.cand = run.cand /\ run'.withdrawn = run.withdrawn /\ run'.found = run.found
    BY <1>3, <1>r DEF SupersedeClaim, Runs
  <2>3. asserted = accepted /\ run.rival \notin gone /\ run.found /\ run.rival # run.cand
        /\ asserted \subseteq {run.cand, run.rival} \cup run.rivals
    BY <2>1, <1>h DEF Shifting, Rivalry
  <2>5. Standing' = Standing
    BY <2>1, StandingStays
  <2>6. Hand'
    BY <2>1, <2>5, <1>u, <1>h DEF Hand
  <2>7. Shifting'
    BY <2>1, <2>2, <2>3, <2>5, <1>h, <1>u DEF Shifting, Shift, Rivalry
  <2> QED BY <2>2, <2>6, <2>7, <1>c DEF Agreed, Shift
<1>4. CASE Unassert
  <2>1. run.found /\ run.rival \notin gone /\ run.rival # run.cand /\ accepted = asserted \ {run.rival}
        /\ asserted \subseteq {run.cand, run.rival} \cup run.rivals
    BY <1>4, <1>h DEF Unassert, Shifting, Rivalry
  <2>2. /\ asserted' = asserted \ {run.rival} /\ UNCHANGED <<accepted, ledger>>
        /\ Onward(run.rivals, run.withdrawn \cup {run.rival}) /\ run.stage = "unassert"
    BY <1>4, <2>1 DEF Unassert
  <2>3. Standing' = Standing
    BY <2>2, StandingStays
  <2>4. run.rivals \in SUBSET Value /\ run.withdrawn \cup {run.rival} \in SUBSET Value
    BY <2>2, <1>r DEF Runs, Rivalry
  <2>5. Hand'
    BY <2>1, <2>2, <2>3, <1>u, <1>h DEF Hand
  <2>6. /\ asserted' = accepted' /\ asserted' \subseteq {run.cand} \cup run.rivals
        /\ (run.withdrawn \cup {run.rival}) \cap (asserted' \cup gone') = {}
        /\ run.cand \notin run.rivals \cup run.withdrawn \cup {run.rival}
    BY <2>1, <2>2, <1>u, <1>h
  <2> QED BY <2>2, <2>3, <2>4, <2>5, <2>6, <1>h, <1>u, <1>r, OnwardAgrees
<1>5. CASE Release
  <2>1. PICK v \in run.withdrawn : /\ ledger' = Append(ledger, Entry("superseded", v))
                                   /\ Onward({}, run.withdrawn \ {v})
    BY <1>5 DEF Release
  <2>2. UNCHANGED <<asserted, accepted>> /\ run.stage = "release" /\ v \in Value
        /\ run.withdrawn \ {v} \in SUBSET Value
    BY <1>5, <2>1, <1>r DEF Release, Runs
  <2>3. Standing' = Standing \ {v}
    BY <2>1, <2>2, ReleaseFrees
  <2>4. v \notin asserted /\ v \notin gone /\ asserted = accepted /\ asserted \subseteq {run.cand}
    BY <2>1, <2>2, <1>h DEF Shifting
  <2>5. Hand'
    BY <2>2, <2>3, <2>4, <1>u, <1>h DEF Hand
  <2>6. /\ asserted' = accepted' /\ accepted' \subseteq Standing' /\ asserted' \subseteq {run.cand}
        /\ (run.withdrawn \ {v}) \cap (asserted' \cup gone') = {}
        /\ run.cand \in Standing' /\ run.cand \notin run.withdrawn
    BY <2>2, <2>3, <2>4, <1>u, <1>h DEF Shifting
  <2>7. run.cand \notin {} \cup (run.withdrawn \ {v}) /\ {} \in SUBSET Value
    BY <2>6
  <2> QED BY <2>1, <2>2, <2>5, <2>6, <2>7, <1>h, <1>u, <1>r, OnwardAgrees
<1> QED BY <1>1, <1>2, <1>3, <1>4, <1>5

\* The owner's hand, while nothing runs.
LEMMA HandAgrees ==
    ASSUME PreferenceTyped, Agreed, At("off"), ~overlapped',
           RetractClaims \/ (\E facts \in {{v} : v \in Value} \cup {Value} : Retract(facts))
    PROVE  Agreed'
<1> USE DEF At
<1>h. /\ Hand /\ asserted = accepted \ retracting /\ accepted \subseteq Standing
      /\ AtMostOne(accepted) /\ run.withdrawn = {}
  BY DEF Agreed, Calm
<1>u. UNCHANGED <<run, ledger>> /\ run'.stage = "off"
  BY DEF RetractClaims, Retract
<1>s. Standing' = Standing
  BY <1>u, StandingStays
<1>o. Picked' /\ Promoting' /\ Shifting'
  BY <1>u DEF Picked, Promoting, Shifting, Shift, Rivalry
<1>1. ASSUME NEW facts, Retract(facts) PROVE Agreed'
  <2>1. Hand'
    BY <1>1, <1>h, <1>u, <1>s DEF Hand, Retract
  <2>2. Calm'
    BY <1>1, <1>h, <1>u, <1>s DEF Hand, Calm, Retract, AtMostOne
  <2> QED BY <2>1, <2>2, <1>o DEF Agreed
<1>2. CASE RetractClaims
  <2>1. Hand'
    BY <1>2, <1>h, <1>u, <1>s DEF Hand, RetractClaims
  <2>2. Calm'
    BY <1>2, <1>h, <1>u, <1>s DEF Hand, Calm, RetractClaims, AtMostOne
  <2> QED BY <2>1, <2>2, <1>o DEF Agreed
<1> QED BY <1>1, <1>2

LEMMA ShiftInvStep ==
    PreferenceTyped /\ ShiftInv /\ [PreferenceNext]_preferenceVars => ShiftInv'
<1> SUFFICES ASSUME PreferenceTyped, ShiftInv, [PreferenceNext]_preferenceVars, Undisturbed'
             PROVE  Agreed'
  BY DEF ShiftInv
<1>1. CASE UNCHANGED <<asserted, accepted, ledger, run, retracting, held, gone, torn, overlapped>>
  <2>1. Agreed
    BY <1>1 DEF ShiftInv, Undisturbed
  <2> QED BY <1>1, <2>1 DEF Agreed, Hand, Calm, Picked, Promoting, Shifting, Standing, At, AtMostOne
<1>2. CASE UNCHANGED preferenceVars
  BY <1>2, <1>1 DEF preferenceVars, beliefs, owner, disturbed
<1>3. CASE Capture
  BY <1>3, <1>1 DEF Capture, CheckPress, Press, RecordPress, beliefs, owner, disturbed
<1>4. CASE RetractClaims \/ (\E facts \in {{v} : v \in Value} \cup {Value} : Retract(facts))
  <2>1. ~torn /\ ~overlapped
    <3>1. CASE RetractClaims
      BY <3>1 DEF RetractClaims, Undisturbed, disturbed
    <3>2. ASSUME NEW facts, Retract(facts) PROVE ~torn /\ ~overlapped
      <4>1. torn' = torn /\ overlapped' = (overlapped \/ ~At("off"))
        BY <3>2 DEF Retract
      <4> QED BY <4>1, Zenon DEF Undisturbed
    <3> QED BY <1>4, <3>1, <3>2
  <2>2. At("off")
    <3>1. CASE RetractClaims
      BY <3>1, <2>1 DEF RetractClaims, ShiftInv, Undisturbed, Agreed, Hand
    <3>2. ASSUME NEW facts, Retract(facts) PROVE At("off")
      BY <3>2 DEF Retract, Undisturbed
    <3> QED BY <1>4, <3>1, <3>2
  <2>3. Agreed /\ ~overlapped'
    BY <2>1 DEF ShiftInv, Undisturbed
  <2> QED BY <1>4, <2>2, <2>3, HandAgrees
<1>5. CASE Start \/ RunStep
  <2>1. ~torn /\ ~overlapped
    <3>1. CASE Start
      BY <3>1 DEF Start, Undisturbed
    <3>2. CASE RunStep
      <4>1. UNCHANGED disturbed
        BY <3>2 DEF RunStep, ReadChoices, ReadLedger, AskPresent, AskClaimed, Insert, CreateClaim,
                    RecordPromotion, FindRival, ReadRival, SupersedeClaim, Unassert, Release
      <4> QED BY <4>1 DEF Undisturbed, disturbed
    <3> QED BY <1>5, <3>1, <3>2
  <2>2. Agreed /\ ~overlapped'
    BY <2>1 DEF ShiftInv, Undisturbed
  <2>3. CASE ReadChoices \/ ReadLedger \/ AskPresent \/ AskClaimed
    BY <2>2, <2>3, ReadingAgrees
  <2>4. CASE Start \/ Insert \/ CreateClaim \/ RecordPromotion
    BY <2>2, <2>4, PromotionAgrees
  <2>5. CASE FindRival \/ ReadRival \/ SupersedeClaim \/ Unassert \/ Release
    BY <2>2, <2>5, ShiftAgrees
  <2> QED BY <1>5, <2>3, <2>4, <2>5 DEF RunStep
<1>6. CASE Fail
  <2>1. ~torn /\ ~overlapped /\ run.stage \in Reading
    BY <1>6 DEF Fail, Undisturbed, PreferenceTyped, RunTyped, Runs, At
  <2>2. Agreed /\ UNCHANGED <<asserted, accepted, ledger, retracting, held, gone>> /\ Stop
    BY <1>6, <2>1 DEF ShiftInv, Undisturbed, Fail, beliefs, owner, Reading, At
  <2>3. Standing' = Standing
    BY <2>2, StandingStays
  <2>4. retracting = {} /\ asserted = accepted /\ accepted \subseteq Standing /\ AtMostOne(accepted)
    BY <2>1, <2>2 DEF Agreed, Hand, Calm, At, Reading
  <2>5. Hand' /\ AtMostOne(accepted)'
    BY <2>2, <2>3, <2>4 DEF Agreed, Hand, AtMostOne
  <2> QED BY <2>2, <2>3, <2>4, <2>5, StopAgrees
<1> QED BY <1>2, <1>3, <1>4, <1>5, <1>6 DEF PreferenceNext

LEMMA ShiftInvariant == PreferenceSpec => [](PreferenceTyped /\ ShiftInv)
<1> QED BY PreferenceTypedInit, PreferenceTypedStep, ShiftInvInit, ShiftInvStep, PTL
        DEF PreferenceSpec

\* A set without two different elements has one element at most.
LEMMA OneAtMost == ASSUME NEW S, AtMostOne(S) PROVE Cardinality(S) <= 1
<1>1. CASE S = {}
  BY <1>1, FS_EmptySet
<1>2. CASE S # {}
  <2>1. PICK x : x \in S
    BY <1>2
  <2>2. S = {x}
    BY <2>1 DEF AtMostOne
  <2>3. Cardinality({x}) = 1
    BY FS_Singleton
  <2> QED BY <2>2, <2>3
<1> QED BY <1>1, <1>2

\* Between two runs the graph holds one preference for the signature at most,
\* whatever the user chose and retracted, unless a run broke off or met a
\* retraction.
THEOREM OnePreferenceStands == PreferenceSpec => []OnePreference
<1>1. ShiftInv => OnePreference
  <2> SUFFICES ASSUME ShiftInv, At("off"), Undisturbed PROVE Cardinality(asserted) <= 1
    BY DEF OnePreference
  <2>1. asserted \subseteq accepted /\ AtMostOne(accepted)
    BY DEF ShiftInv, Agreed, Calm, At
  <2>2. AtMostOne(asserted)
    BY <2>1 DEF AtMostOne
  <2> QED BY <2>2, OneAtMost
<1> QED BY <1>1, ShiftInvariant, PTL

\* What the owner has retracted does not come back, under the same condition.
THEOREM RetractedNeverReturns == PreferenceSpec => []RetractedStaysAway
<1>1. ShiftInv => RetractedStaysAway
  BY DEF ShiftInv, Agreed, Hand, RetractedStaysAway
<1> QED BY <1>1, ShiftInvariant, PTL
=============================================================================
