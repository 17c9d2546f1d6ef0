------------------------------ MODULE GoalTurns ------------------------------
(***************************************************************************)
(* The goals of one user in one session: what the turns of a conversation  *)
(* do with them (Phase 3 of the cognitive cycle), and what the persistence *)
(* job of each turn does with them later.                                  *)
(*                                                                         *)
(* A turn reads the goals, decides, and writes; nothing keeps two turns of *)
(* a session apart, so that an action is what a turn does between two of   *)
(* its awaits.  The jobs run one after the other, in the order in which    *)
(* the turns ended (PersistQueue).  Goals are numbered as they are pushed: *)
(* a larger number is a more recent intent.  What the message says (a cue, *)
(* an overlap with a goal's entities, an intent) is a choice.              *)
(*                                                                         *)
(* A write that fails may have changed the store before it failed: the     *)
(* file-backed adapter changes its memory first and flushes it then.       *)
(***************************************************************************)
EXTENDS Integers, Sequences, FiniteSets, FiniteSetsExt

CONSTANTS
    Turns,        \* bound: turns of the session
    UnderWay,     \* bound: turns that are not over, each with its job, at once
    MaxGoals,     \* bound: goals pushed
    AfterTurns,   \* goalSupersedeAfterTurns
    None,
    MaxTools,     \* bound: writes of the goal tools
    MaxMishaps    \* bound: failures and crashes together

ASSUME ConstantsAssumption ==
    /\ {Turns, UnderWay, MaxGoals, MaxTools, MaxMishaps} \subseteq Nat
    /\ AfterTurns \in Nat \ {0}
    /\ None \notin Nat

VARIABLES
    goal,      \* the stored goals
    turn,      \* where each turn is, and the goals it holds on to
    queue,     \* the turns whose jobs wait, the one that runs first
    touched,   \* touchedGoalSessions: this process has seen the session
    track,     \* goalTurns: the turns counted, and what is known of each goal
    plan,      \* what the job at work will have made of track when it is through
    tools, mishaps,   \* counters, for the bounds
    epoch,     \* history: restarts of the process
    winners,   \* history: the goals of the turns counted by this process
    orphans,   \* history: implicit goals whose turn could not end them
    forgotten, \* history: the session has been touched, and dropped from touched
    missed     \* history: goals a supersession that failed has not come to

history == <<epoch, winners, orphans, forgotten, missed>>
vars    == <<goal, turn, queue, touched, track, plan, tools, mishaps, history>>

Turn    == 1..Turns
Goal    == 1..MaxGoals
MaybeGoal == Goal \cup {None}

\* Phase 3, the core of the turn, and its job.
Phase3 == {"look", "close", "push", "ensure", "seed"}
Stages == Phase3 \cup {"new", "open", "touch", "sweep", "core", "queued", "count",
                       "supersede", "done"}

NoGoal  == [kind |-> "task", status |-> "none", armed |-> FALSE, stamp |-> 0,
            by |-> "nobody", epoch |-> 0, idleFrom |-> 0]
NewTurn == [stage |-> "new", newest |-> 0, goal |-> None, implicit |-> None,
            todo |-> {}, next |-> None]
OverTurn == [NewTurn EXCEPT !.stage = "done"]
NoTrack == [counted |-> 0, last |-> [g \in Goal |-> 0], stamp |-> [g \in Goal |-> 0]]

TypeOK ==
    /\ goal \in [Goal -> [kind : {"task", "implicit"},
                          status : {"none", "active", "resolved", "abandoned"},
                          armed : BOOLEAN, stamp : 0..MaxTools,
                          by : {"nobody", "sweep", "cue", "tool", "superseded", "ended"},
                          epoch : 0..MaxMishaps, idleFrom : 0..Turns]]
    /\ turn \in [Turn -> [stage : Stages, newest : 0..MaxGoals, goal : MaybeGoal,
                          implicit : MaybeGoal, todo : SUBSET Goal, next : MaybeGoal]]
    /\ queue \in Seq(Turn) /\ touched \in BOOLEAN
    /\ {track, plan} \subseteq
         [counted : 0..Turns, last : [Goal -> 0..Turns], stamp : [Goal -> 0..MaxTools]]
    /\ tools \in 0..MaxTools /\ mishaps \in 0..MaxMishaps /\ epoch \in 0..MaxMishaps
    /\ winners \in Seq(MaybeGoal) /\ orphans \subseteq Goal
    /\ forgotten \in BOOLEAN /\ missed \subseteq Goal

Init ==
    /\ goal = [g \in Goal |-> NoGoal] /\ turn = [t \in Turn |-> NewTurn]
    /\ queue = <<>> /\ touched = FALSE /\ track = NoTrack /\ plan = NoTrack
    /\ tools = 0 /\ mishaps = 0
    /\ epoch = 0 /\ winners = <<>> /\ orphans = {}
    /\ forgotten = FALSE /\ missed = {}

-----------------------------------------------------------------------------
(* The goal stack *)

Pushed == Cardinality({g \in Goal : goal[g].status # "none"})
Active(kind) == {g \in Goal : goal[g].status = "active" /\ goal[g].kind = kind}
Armed == {g \in Active("task") : goal[g].armed}
Open  == Active("task") \ Armed

Newest(S) == IF S = {} THEN None ELSE Max(S)
First(a, b) == IF a # None THEN a ELSE b

\* push: the goal is active at once.
Push(kind) ==
    /\ Pushed < MaxGoals
    /\ goal' = [goal EXCEPT ![Pushed + 1] =
                  [NoGoal EXCEPT !.kind = kind, !.status = "active", !.epoch = epoch,
                                 !.idleFrom = Len(winners)]]

\* setStatus writes the status whatever it is by now.
SetStatus(g, status, by) ==
    goal' = [goal EXCEPT ![g].status = status, ![g].by = by]

-----------------------------------------------------------------------------
(* The conversational turn *)

Move(t, stage)  == turn' = [turn EXCEPT ![t].stage = stage]
Choose(t, g)    == turn' = [turn EXCEPT ![t].stage = "core", ![t].goal = g]
Fallback(t, g)  == IF g # None THEN Choose(t, g) ELSE Move(t, "ensure")
TurnOver(t)     == turn' = [turn EXCEPT ![t] = OverTurn]
Mishap          == mishaps < MaxMishaps /\ mishaps' = mishaps + 1

Begin(t) ==
    /\ Cardinality({u \in Turn : turn[u].stage \notin {"new", "done"}}) < UnderWay
    /\ turn[t].stage = "new" /\ \A u \in Turn : u < t => turn[u].stage # "new"
    /\ turn' = [turn EXCEPT ![t].stage = "open", ![t].newest = Pushed]
    /\ UNCHANGED <<goal, queue, touched, track, plan, tools, mishaps, history>>

\* The first turn of the session in this process cleans up after the last one.
Touch(t) ==
    /\ turn[t].stage = "open"
    /\ touched' = TRUE /\ Move(t, IF touched THEN "look" ELSE "touch")
    /\ UNCHANGED <<goal, queue, track, plan, tools, mishaps, history>>

\* The 5001st session to be touched empties the set of those that were.
Forget ==
    /\ touched /\ touched' = FALSE /\ forgotten' = TRUE
    /\ UNCHANGED <<goal, turn, queue, track, plan, tools, mishaps, epoch, winners, orphans, missed>>

\* resolveStaleImplicit: the implicit goals that are older than the turn.
StaleOfAny(t)  == Active("implicit")
StaleButOne(t) == {g \in Active("implicit") : g < turn[t].newest}
Stale(t)       == {g \in Active("implicit") : g <= turn[t].newest}

FindStale(t) ==
    /\ turn[t].stage = "touch"
    /\ turn' = [turn EXCEPT ![t].stage = "sweep", ![t].todo = Stale(t)]
    /\ UNCHANGED <<goal, queue, touched, track, plan, tools, mishaps, history>>

Sweep(t) ==
    /\ turn[t].stage = "sweep"
    /\ IF turn[t].todo = {} THEN Move(t, "look") /\ UNCHANGED goal
       ELSE LET g == Max(turn[t].todo)
            IN SetStatus(g, "resolved", "sweep") /\ turn' = [turn EXCEPT ![t].todo = @ \ {g}]
    /\ UNCHANGED <<queue, touched, track, plan, tools, mishaps, history>>

\* The cleanup fails: the session counts as touched all the same.
SweepFails(t) ==
    /\ turn[t].stage \in {"touch", "sweep"} /\ Mishap
    /\ turn' = [turn EXCEPT ![t].stage = "look", ![t].todo = {}]
    /\ orphans' = orphans \cup Stale(t)
    /\ \/ turn[t].todo # {} /\ SetStatus(Max(turn[t].todo), "resolved", "sweep")
       \/ UNCHANGED goal
    /\ UNCHANGED <<queue, touched, track, plan, tools, epoch, winners, forgotten, missed>>

\* A cue closes the top goal; with nothing to close it creates none.
Cue(t) ==
    IF Open = {} THEN Fallback(t, Newest(Armed))
    ELSE turn' = [turn EXCEPT ![t].stage = "close", ![t].todo = {Max(Open)},
                              ![t].next = First(Newest(Open \ {Max(Open)}), Newest(Armed))]

\* The message is about a goal's entities.
Overlap(t) == \E g \in Open : Choose(t, g)

\* An intent asks for a new goal.
NewGoal(t) == Move(t, "push")

\* A follow-up, or chit-chat: the most recent goal is carried on.
Carry(t) == Fallback(t, First(Newest(Open), Newest(Armed)))

\* manageConversationalGoals: the goals are read, and decided upon.
Look(t) ==
    /\ turn[t].stage = "look"
    /\ Cue(t) \/ Overlap(t) \/ NewGoal(t) \/ Carry(t)
    /\ UNCHANGED <<goal, queue, touched, track, plan, tools, mishaps, history>>

Close(t) ==
    /\ turn[t].stage = "close"
    /\ \E status \in {"resolved", "abandoned"} : SetStatus(Max(turn[t].todo), status, "cue")

CloseTop(t) ==
    /\ Close(t)
    /\ turn' = [turn EXCEPT ![t].stage = IF turn[t].next = None THEN "ensure" ELSE "core",
                            ![t].goal = turn[t].next, ![t].todo = {}, ![t].next = None]
    /\ UNCHANGED <<queue, touched, track, plan, tools, mishaps, history>>

PushIntent(t) ==
    /\ turn[t].stage = "push" /\ Push("task") /\ Choose(t, Pushed + 1)
    /\ UNCHANGED <<queue, touched, track, plan, tools, mishaps, history>>

\* ensureImplicit reads the goals again: whatever is active serves the turn.
Serve(t, g) == turn' = [turn EXCEPT ![t].stage = "core", ![t].goal = g,
                  ![t].implicit = IF goal[g].kind = "implicit" THEN g ELSE None]
EnsureImplicit(t) ==
    /\ turn[t].stage = "ensure"
    /\ LET top == First(Newest(Active("task")), Newest(Active("implicit")))
       IN IF top = None THEN Move(t, "seed") ELSE Serve(t, top)
    /\ UNCHANGED <<goal, queue, touched, track, plan, tools, mishaps, history>>

\* The implicit goal is pushed, and read back.
Seed(t) ==
    /\ turn[t].stage = "seed" /\ Push("implicit")
    /\ \/ /\ turn' = [turn EXCEPT ![t].stage = "core", ![t].goal = Pushed + 1,
                                  ![t].implicit = Pushed + 1]
          /\ UNCHANGED <<mishaps, orphans>>
       \/ /\ Mishap /\ Move(t, "core") /\ orphans' = orphans \cup {Pushed + 1}
    /\ UNCHANGED <<queue, touched, track, plan, tools, epoch, winners, forgotten, missed>>

\* Phase 3 fails: the turn goes on without a goal.
Phase3Fails(t) ==
    /\ turn[t].stage \in Phase3 /\ Mishap
    /\ turn' = [turn EXCEPT ![t].stage = "core", ![t].todo = {}, ![t].next = None]
    /\ \/ Close(t)
       \/ turn[t].stage = "push" /\ Push("task")
       \/ UNCHANGED goal
    /\ UNCHANGED <<queue, touched, track, plan, tools, history>>

-----------------------------------------------------------------------------
(* The core: its goal tools work on any open goal of the user.               *)

Tool(t) == turn[t].stage = "core" /\ tools < MaxTools /\ tools' = tools + 1

\* update_goal moves a goal on (its updatedAt changes) or closes it.
Step(g)      == goal' = [goal EXCEPT ![g].stamp = @ + 1, ![g].idleFrom = Len(winners)]
CloseGoal(g) == SetStatus(g, "resolved", "tool")

\* arm_goal: the goal has an owner's mandate and a wake.
Arm(g) == goal' = [goal EXCEPT ![g].armed = TRUE, ![g].stamp = @ + 1,
                               ![g].idleFrom = Len(winners)]

UseTool(t) ==
    /\ Tool(t)
    /\ \E g \in Active("task") : Step(g) \/ CloseGoal(g) \/ Arm(g)
    /\ UNCHANGED <<turn, queue, touched, track, plan, mishaps, history>>

\* The turn ends, well or not, and its job is queued.
Finish(t) ==
    /\ turn[t].stage = "core" /\ Move(t, "queued") /\ queue' = Append(queue, t)
    /\ UNCHANGED <<goal, touched, track, plan, tools, mishaps, history>>

\* The core throws in a turn whose request does not name its session: the job
\* is that of the session "unknown", where the goals of this one are not found.
Abort(t) ==
    /\ turn[t].stage \in {"open", "core"} /\ Mishap /\ TurnOver(t)
    /\ orphans' = orphans \cup ({turn[t].implicit} \ {None})
    /\ UNCHANGED <<goal, queue, touched, track, plan, tools, epoch, winners, forgotten, missed>>

-----------------------------------------------------------------------------
(* The job of the turn *)

Running(t) == queue # <<>> /\ Head(queue) = t

\* The turn that is counted now makes a goal count as active anew: its first
\* sight, a change since the last one, or being the goal of the turn.
SeenTouched(t, g) == track.last[g] = 0 \/ goal[g].stamp # track.stamp[g]
Seen(t, g)        == \/ track.last[g] = 0
                     \/ goal[g].stamp # track.stamp[g]
                     \/ g = turn[t].goal

Idle(t) == {g \in Open : ~Seen(t, g) /\ track.counted + 1 - track.last[g] >= AfterTurns}

\* The loop over the goals that were read takes the most recent first (those of
\* a conversation have one priority) and stops at each idle one for a write: the
\* tracker is refreshed down to the next goal that is to be superseded.
Down(todo, to) ==
    LET passed(g) == \A h \in todo : g > h
    IN [counted |-> to.counted,
        last    |-> [g \in Goal |-> IF passed(g) THEN to.last[g] ELSE track.last[g]],
        stamp   |-> [g \in Goal |-> IF passed(g) THEN to.stamp[g] ELSE track.stamp[g]]]

Without(tracked, gone) ==
    [counted |-> tracked.counted,
     last    |-> [g \in Goal |-> IF g \in gone THEN 0 ELSE tracked.last[g]],
     stamp   |-> [g \in Goal |-> IF g \in gone THEN 0 ELSE tracked.stamp[g]]]

Gone == {g \in Goal : goal[g].status # "active"}

Refreshed(t) ==
    LET n == track.counted + 1
        Now(g) == g \in Active("task") /\ Seen(t, g)
    IN [counted |-> n,
        last    |-> [g \in Goal |-> IF Now(g) THEN n ELSE track.last[g]],
        stamp   |-> [g \in Goal |-> IF Now(g) THEN goal[g].stamp ELSE track.stamp[g]]]

\* One more turn is counted: the goals are read, those that are gone leave the
\* tracker, and the loop begins.
CountTurn(t) ==
    /\ Running(t) /\ turn[t].stage = "queued" /\ turn[t].goal # None
    /\ plan' = Without(Refreshed(t), Gone)
    /\ track' = Without(Down(Idle(t), plan'), Gone)
    /\ turn' = [turn EXCEPT ![t].stage = "supersede", ![t].todo = Idle(t)]
    /\ winners' = Append(winners, turn[t].goal)
    /\ UNCHANGED <<goal, queue, touched, tools, mishaps, epoch, orphans, forgotten, missed>>

\* The idle goal the loop has come to is abandoned and forgotten, whatever has
\* become of it since it was read, and the loop goes on to the next one.
Superseding(t) == Running(t) /\ turn[t].stage = "supersede" /\ turn[t].todo # {}
Abandon(t)     == SetStatus(Max(turn[t].todo), "abandoned", "superseded")

Supersede(t) ==
    /\ Superseding(t) /\ Abandon(t)
    /\ LET g == Max(turn[t].todo)
       IN /\ turn' = [turn EXCEPT ![t].todo = @ \ {g}]
          /\ plan' = Without(plan, {g})
          /\ track' = Down(turn[t].todo \ {g}, plan')
    /\ UNCHANGED <<queue, touched, tools, mishaps, history>>

\* The implicit goal of the turn serves one cycle only.
EndImplicit(t) == IF turn[t].implicit = None THEN UNCHANGED goal
                  ELSE SetStatus(turn[t].implicit, "resolved", "ended")

EndJob(t) ==
    /\ Running(t)
    /\ \/ turn[t].stage = "supersede" /\ turn[t].todo = {}
       \/ turn[t].stage = "queued" /\ turn[t].goal = None
    /\ TurnOver(t) /\ queue' = Tail(queue) /\ EndImplicit(t)
    /\ UNCHANGED <<touched, track, plan, tools, mishaps, history>>

\* A read of the supersession fails: the turn counts, for no goal.
CountFails(t) ==
    /\ Running(t) /\ turn[t].stage = "queued" /\ turn[t].goal # None /\ Mishap
    /\ track' = [track EXCEPT !.counted = @ + 1] /\ plan' = track'
    /\ winners' = Append(winners, None) /\ Move(t, "supersede")
    /\ UNCHANGED <<goal, queue, touched, tools, epoch, orphans, forgotten, missed>>

\* The write of a supersession fails: the loop ends there, and the goals it has
\* not come to keep what the tracker knew of them before.
SupersedeFails(t) ==
    /\ Superseding(t) /\ Mishap
    /\ Abandon(t) \/ UNCHANGED goal
    /\ turn' = [turn EXCEPT ![t].todo = {}] /\ plan' = track
    /\ missed' = missed \cup {g \in Goal : \/ plan.last[g] # track.last[g]
                                           \/ plan.stamp[g] # track.stamp[g]}
    /\ UNCHANGED <<queue, touched, track, tools, epoch, winners, orphans, forgotten>>

\* The job fails before the supersession, or the end of the implicit goal does.
JobFails(t) ==
    /\ Running(t) /\ Mishap
    /\ turn[t].todo = {}
    /\ \/ turn[t].stage = "supersede" /\ EndImplicit(t)
       \/ UNCHANGED goal
    /\ TurnOver(t) /\ queue' = Tail(queue)
    /\ orphans' = orphans \cup ({turn[t].implicit} \ {None})
    /\ UNCHANGED <<touched, track, plan, tools, epoch, winners, forgotten, missed>>

\* The tracker of the session is the oldest of too many and is dropped.  A job in
\* its loop keeps the object it holds: for it the drop comes when it is through.
Drop ==
    /\ \A t \in Turn : turn[t].stage # "supersede"
    /\ track # NoTrack /\ track' = NoTrack /\ plan' = NoTrack
    /\ winners' = <<>> /\ missed' = {}
    /\ goal' = [g \in Goal |-> [goal[g] EXCEPT !.idleFrom = 0]]
    /\ UNCHANGED <<turn, queue, touched, tools, mishaps, epoch, orphans, forgotten>>

\* The process dies: its turns are lost and its bookkeeping is empty; the goals
\* are stored.
Crash ==
    /\ Mishap /\ epoch' = epoch + 1
    /\ turn' = [t \in Turn |-> IF turn[t].stage = "new" THEN turn[t] ELSE OverTurn]
    /\ queue' = <<>> /\ touched' = FALSE /\ track' = NoTrack /\ plan' = NoTrack
    /\ winners' = <<>> /\ forgotten' = FALSE /\ missed' = {}
    /\ goal' = [g \in Goal |-> [goal[g] EXCEPT !.idleFrom = 0]]
    /\ UNCHANGED <<tools, orphans>>

-----------------------------------------------------------------------------
Next ==
    \/ Crash \/ Forget \/ Drop
    \/ \E t \in Turn :
        \/ Begin(t) \/ Touch(t) \/ FindStale(t) \/ Sweep(t) \/ SweepFails(t)
        \/ Look(t) \/ CloseTop(t) \/ PushIntent(t) \/ EnsureImplicit(t) \/ Seed(t)
        \/ Phase3Fails(t) \/ UseTool(t) \/ Finish(t) \/ Abort(t)
        \/ CountTurn(t) \/ CountFails(t) \/ Supersede(t) \/ SupersedeFails(t)
        \/ EndJob(t) \/ JobFails(t)

Spec == Init /\ [][Next]_vars

-----------------------------------------------------------------------------
(* Properties                                                                *)

\* The implicit goal is not left behind as a zombie: once this process has
\* cleaned the session, every active implicit goal is that of a turn whose end
\* is still to come, unless that turn had no way to end it (a failure, or an
\* abort outside its session).
Cleaning == \E t \in Turn : turn[t].stage \in {"touch", "sweep"}
ImplicitHasOwner ==
    (touched \/ forgotten) /\ ~Cleaning =>
        \A g \in Active("implicit") \ orphans :
            \E t \in Turn : turn[t].stage # "done" /\ turn[t].implicit = g

\* The cleanup of a first touch takes the goals of processes that are gone,
\* never the goal that another turn, which ran ahead of it, has just pushed.
\* When this process has forgotten the session and touches it again, it takes
\* what was there when the turn began, and no goal that was pushed since.
SweepSparesThisProcess ==
    [][\A g \in Goal : goal'[g].by = "sweep" /\ goal[g].by # "sweep" =>
         \/ goal[g].epoch < epoch
         \/ /\ forgotten
            /\ \E t \in Turn : turn[t].stage = "sweep" /\ g <= turn[t].newest]_vars

\* A goal is superseded only after it has neither been the goal of any of the
\* last AfterTurns turns that were counted nor been touched before them (a turn
\* whose goals could not be read has none here); a restart takes all it knew
\* away (supersedeIdleLosers).  Exempt are the goals an earlier supersession of
\* this process had not come to when it failed: their turns were not entered.
SupersededWasIdle ==
    [][\A g \in Goal \ missed : goal'[g].by = "superseded" /\ goal[g].by # "superseded" =>
         LET n == Len(winners) IN
         /\ n > AfterTurns
         /\ \A i \in n - AfterTurns + 1..n : winners[i] # g
         /\ goal[g].idleFrom = n \/ goal[g].idleFrom < n - AfterTurns]_vars
=============================================================================
