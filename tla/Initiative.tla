----------------------------- MODULE Initiative -----------------------------
(***************************************************************************)
(* Self-initiated work: goals with a wake, the one-time jobs that carry    *)
(* the wakes, and the InitiativeService that decides what a wake may do.   *)
(*                                                                         *)
(* Three processes call the service: the timers of the scheduler (one wake *)
(* per job), the owner's arm_goal tool, and the recovery scan of a start.  *)
(* Wakes queue up on one promise chain (wakeChain); everything else is     *)
(* ordered by nothing but its awaits, and an action is what a process does *)
(* between two of them.                                                    *)
(*                                                                         *)
(* Time is relative: due and in count the ticks that remain, since counts  *)
(* the ticks that have passed, and runs says how many cycles were counted  *)
(* how long ago, so that no clock has to be bounded.  A tick is minutes in *)
(* the program.  It may pass while a cycle runs or a wake is queued, not   *)
(* between two writes to the store or the job file.                        *)
(***************************************************************************)
EXTENDS Integers, Sequences, FiniteSets, FiniteSetsExt, Functions

CONSTANTS
    Goal,            \* the goals of the long-term goal graph
    Recurring,       \* those with a wakeEvery; a wake of the others is one-shot
    Job,             \* slots for one-time jobs
    None,            \* no wake, no goal
    Every,           \* wakeEvery of a recurring goal, in ticks
    Cooldown,        \* cooldownMinutes
    Hour,            \* the shorter window of the runaway guards, and its cap
    MaxPerHour,
    Day,             \* the longer window, and its cap
    MaxPerDay,
    FailureThreshold,   \* INITIATIVE_FAILURE_THRESHOLD
    Delays,          \* the wake times the owner asks for, in ticks from now
    MaxArms,         \* bound: calls of arm_goal
    MaxRestarts,     \* bound: crashes
    MaxMishaps       \* bound: failures, switch-offs and changes of a status together

ASSUME ConstantsAssumption ==
    /\ Recurring \subseteq Goal
    /\ None \notin Goal \cup Int
    /\ {Cooldown, Hour, Day, MaxPerHour, MaxPerDay, FailureThreshold} \subseteq Nat \ {0}
    /\ Every \in Nat /\ Every >= Cooldown    \* validateWakeEvery's floor
    /\ Day >= Hour
    /\ Delays \subseteq Nat \ {0}
    /\ {MaxArms, MaxRestarts, MaxMishaps} \subseteq Nat

\* Who registers wakes: a wake itself, arm_goal, the recovery of a start.
Process == {"wake", "arm", "boot"}

VARIABLES
    flag,      \* flagInitiative, the kill switch
    status,    \* goalStatus
    due,       \* ticks until wakeAt (0: overdue), or None
    since,     \* ticks since lastWakeAt, up to Cooldown
    failures,  \* consecutiveFailures
    runs,      \* how many initiativeRunAt stamps are n ticks old
    job,       \* the scheduler's one-time jobs and their entries in jobs.json
    queue,     \* the wakes on wakeChain: <<who calls onWake, the goal>>
    stage,     \* what the wake at the head of the chain does next
    reg,       \* registerGoalWake and removePendingWakeJob in progress
    arm,       \* the call of arm_goal in progress
    boot,      \* recoverOnStart: the goals it read and has not handled
    arms, restarts, mishaps,   \* counters, for the bounds
    cycles,    \* history: how many cycles were dispatched n ticks ago
    rested,    \* history: ticks since the last dispatch of a goal, up to Cooldown
    fired      \* history: dispatches of a one-shot goal

goals   == <<status, due, since, failures>>
counts  == <<arms, restarts, mishaps>>
history == <<cycles, rested, fired>>
vars    == <<flag, goals, runs, job, queue, stage, reg, arm, boot, counts, history>>

NoJob     == [goal |-> None, in |-> 0, state |-> "free", armed |-> FALSE, onDisk |-> FALSE]
Idle      == [stage |-> "idle", goal |-> None, in |-> None, found |-> {}]

TypeOK ==
    /\ flag \in BOOLEAN
    /\ status \in [Goal -> {"proposed", "active", "blocked", "resolved"}]
    /\ due \in [Goal -> Nat \cup {None}]
    /\ since \in [Goal -> 0..Cooldown]
    /\ failures \in [Goal -> 0..FailureThreshold]
    /\ runs \in [0..Day -> Nat]
    /\ job \in [Job -> [goal : Goal \cup {None}, in : Nat,
                        state : {"free", "pending", "running"}, armed : BOOLEAN,
                        onDisk : BOOLEAN]]
    /\ queue \in Seq({"timer", "boot"} \X Goal)
    /\ stage \in {"none", "stamp", "roll", "dispatch", "cycle", "after", "rearmed", "finish"}
    /\ reg \in [Process -> [stage : {"idle", "remove", "removed", "added"},
                            goal : Goal \cup {None}, in : Nat \cup {None},
                            found : SUBSET Job]]
    /\ arm \in {<<"idle", None>>} \cup ({"activate", "read"} \X Goal)
    /\ boot \in [stage : {"idle", "scan", "next", "remove", "wait"},
                 goal : Goal \cup {None}, todo : [Goal -> Nat \cup {None}]]
    /\ arms \in [Goal -> Nat]
    /\ restarts \in 0..MaxRestarts
    /\ mishaps \in 0..MaxMishaps
    /\ cycles \in [0..Day -> Nat]
    /\ rested \in [Goal -> 0..Cooldown]
    /\ fired \in [Goal -> 0..MaxArms + 1]

Init ==
    /\ flag = TRUE
    /\ status \in [Goal -> {"proposed", "active"}]
    /\ due = [g \in Goal |-> None]
    /\ since = [g \in Goal |-> Cooldown]
    /\ failures = [g \in Goal |-> 0]
    /\ runs = [n \in 0..Day |-> 0]
    /\ job = [j \in Job |-> NoJob]
    /\ queue = <<>> /\ stage = "none"
    /\ reg = [p \in Process |-> Idle]
    /\ arm = <<"idle", None>>
    /\ boot = [stage |-> "idle", goal |-> None, todo |-> [g \in Goal |-> None]]
    /\ arms = [g \in Goal |-> 0] /\ restarts = 0 /\ mishaps = 0
    /\ cycles = [n \in 0..Day |-> 0]
    /\ rested = [g \in Goal |-> Cooldown]
    /\ fired = [g \in Goal |-> 0]

-----------------------------------------------------------------------------
(* Time *)

\* Stamps of one age are told apart by a number.
Stamps(bag, window) == UNION {{n} \X (1..bag[n]) : n \in 0..window}
Count(bag, window)  == Cardinality(Stamps(bag, window))

Passed(bag) == [n \in 0..Day |-> IF n = 0 THEN 0 ELSE bag[n - 1]]

Less(countdown, floor) ==
    IF countdown = None THEN None ELSE Max({floor, countdown - 1})

\* A wake at the head of the chain that has not begun.
Due == queue # <<>> /\ stage = "none"

Working == \/ Due \/ stage \notin {"none", "cycle"}
           \/ \E p \in Process : reg[p].stage # "idle"
           \/ arm[1] # "idle"
           \/ boot.stage \notin {"idle", "wait"}

\* A wake the recovery found in the future is registered at least
\* pastWakeDelayMs ahead, however late its turn comes.
Tick ==
    /\ ~Working
    /\ due'    = [g \in Goal |-> Less(due[g], 0)]
    /\ since'  = [g \in Goal |-> Min({Cooldown, since[g] + 1})]
    /\ rested' = [g \in Goal |-> Min({Cooldown, rested[g] + 1})]
    /\ runs'   = Passed(runs)
    /\ cycles' = Passed(cycles)
    /\ job'    = [j \in Job |-> [job[j] EXCEPT !.in = Less(@, 0)]]
    /\ boot'   = [boot EXCEPT !.todo = [g \in Goal |->
                     IF @[g] = 0 THEN 0 ELSE Less(@[g], 1)]]
    /\ UNCHANGED <<flag, status, failures, queue, stage, reg, arm, counts, fired>>

-----------------------------------------------------------------------------
(* The scheduler: one-time jobs *)

\* save() writes the jobs as they are in memory at that moment.  Only a job
\* that is pending in the file matters to a later start.
Saved(jobs) == [j \in Job |-> IF jobs[j].state = "free" THEN NoJob
                              ELSE [jobs[j] EXCEPT !.onDisk = (jobs[j].state = "pending")]]

PendingJobs(g) == {j \in Job : job[j].goal = g /\ job[j].state = "pending"}

\* The timer of a job goes off: the callback marks the job as running ...
TimerFires(j) ==
    /\ job[j].state = "pending" /\ job[j].armed /\ job[j].in = 0
    /\ job' = [job EXCEPT ![j].state = "running", ![j].armed = FALSE]
    /\ UNCHANGED <<flag, goals, runs, queue, stage, reg, arm, boot, counts, history>>

\* ... saves, and hands it to onWake, which joins the chain.  From here on the
\* job is looked at no more, whether it is running, completed or failed.
JobStarts(j) ==
    /\ job[j].state = "running"
    /\ job' = Saved([job EXCEPT ![j].state = "free"])
    /\ queue' = Append(queue, <<"timer", job[j].goal>>)
    /\ UNCHANGED <<flag, goals, runs, stage, reg, arm, boot, counts, history>>

-----------------------------------------------------------------------------
(* registerGoalWake: called by p for goal g with the wake it has read.     *)
(* With wake None it is removePendingWakeJob alone.                        *)

Register(p, g, wake) ==
    reg' = [reg EXCEPT ![p] =
              [stage |-> "remove", goal |-> g, in |-> wake, found |-> PendingJobs(g)]]

\* The jobs once the save p waits for, if any, has landed.
Landed(p) == IF reg[p].stage = "removed" THEN Saved(job) ELSE job

StillPending(p) == {j \in reg[p].found : job[j].state = "pending"}

Removing(p) == reg[p].stage \in {"remove", "removed"}

\* One more of the jobs found is removed, if it is still pending.
RemoveJob(p) ==
    /\ Removing(p)
    /\ \E j \in StillPending(p) :
         /\ reg' = [reg EXCEPT ![p].found = @ \ {j}, ![p].stage = "removed"]
         /\ job' = [Landed(p) EXCEPT ![j].state = "free", ![j].armed = FALSE]
    /\ UNCHANGED <<flag, goals, runs, queue, stage, arm, boot, counts, history>>

\* Which slot a job gets means nothing.
FreeSlots(p) == {j \in Job : Landed(p)[j] = NoJob /\ \A q \in Process \ {p} : j \notin reg[q].found}

\* addOneTimeJob: a wake in the past is put pastWakeDelayMs ahead.
AddJob(p) ==
    /\ Removing(p) /\ StillPending(p) = {} /\ reg[p].in # None
    /\ FreeSlots(p) # {}
    /\ LET j == CHOOSE j \in FreeSlots(p) : TRUE IN
         /\ job' = [Landed(p) EXCEPT ![j] =
                      [goal |-> reg[p].goal, in |-> Max({1, reg[p].in}),
                       state |-> "pending", armed |-> FALSE, onDisk |-> FALSE]]
         /\ reg' = [reg EXCEPT ![p].stage = "added", ![p].found = {j}]
    /\ UNCHANGED <<flag, goals, runs, queue, stage, arm, boot, counts, history>>

RemovalEnds(p) ==
    /\ Removing(p) /\ StillPending(p) = {} /\ reg[p].in = None
    /\ job' = Landed(p)
    /\ reg' = [reg EXCEPT ![p] = Idle]
    /\ UNCHANGED <<flag, goals, runs, queue, stage, arm, boot, counts, history>>

\* Saved; the timer is armed unless the job has been removed meanwhile.
JobAdded(p) ==
    /\ reg[p].stage = "added"
    /\ job' = [j \in Job |-> [Saved(job)[j] EXCEPT
                  !.armed = @ \/ (j \in reg[p].found /\ job[j].state = "pending")]]
    /\ reg' = [reg EXCEPT ![p] = Idle]
    /\ UNCHANGED <<flag, goals, runs, queue, stage, arm, boot, counts, history>>

-----------------------------------------------------------------------------
(* onWake: the wake at the head of the chain *)

Woken == Head(queue)[2]

CappedLate(window, max) == Count(runs, window) > max

Capped(window, max) == Count(runs, window) >= max

\* The kill switch is off, or the goal is not active.
WakeIgnored ==
    /\ Due /\ (~flag \/ status[Woken] # "active")
    /\ stage' = "finish"
    /\ UNCHANGED <<flag, goals, runs, job, queue, reg, arm, boot, counts, history>>

Eligible == Due /\ flag /\ status[Woken] = "active"

\* setWake: the goal wakes again in next ticks, a recurring one not before wakeEvery.
Rearm(next) ==
    /\ due' = [due EXCEPT ![Woken] = IF Woken \in Recurring THEN Max({next, Every}) ELSE next]
    /\ stage' = "rearmed"
    /\ UNCHANGED <<flag, status, since, failures, runs, job, queue, reg, arm, boot, counts, history>>

\* A cap is reached: the goal wakes again when the oldest run has left the window.
Oldest(window) == Max({n \in 0..window : runs[n] > 0})

WakeCapped ==
    /\ Eligible
    /\ \/ Capped(Hour, MaxPerHour) /\ Rearm(Hour - Oldest(Hour) + 1)
       \/ /\ ~Capped(Hour, MaxPerHour)
          /\ Capped(Day, MaxPerDay) /\ Rearm(Day - Oldest(Day) + 1)

Governed == Eligible /\ ~Capped(Hour, MaxPerHour) /\ ~Capped(Day, MaxPerDay)

WakeCoolsDown ==
    /\ Governed /\ since[Woken] < Cooldown
    /\ Rearm(Cooldown - since[Woken])

\* All guards are passed, and the run is counted.
WakeGranted ==
    /\ Governed /\ since[Woken] >= Cooldown
    /\ runs' = [runs EXCEPT ![0] = @ + 1]
    /\ stage' = "stamp"
    /\ UNCHANGED <<flag, goals, job, queue, reg, arm, boot, counts, history>>

StampRecurring ==
    /\ stage = "stamp"
    /\ since' = [since EXCEPT ![Woken] = IF Woken \in Recurring THEN 0 ELSE @]
    /\ stage' = "roll"
    /\ UNCHANGED <<flag, status, due, failures, runs, job, queue, reg, arm, boot, counts, history>>

\* recordWake: lastWakeAt first ...
StampWake ==
    /\ stage = "stamp"
    /\ since' = [since EXCEPT ![Woken] = 0]
    /\ stage' = "roll"
    /\ UNCHANGED <<flag, status, due, failures, runs, job, queue, reg, arm, boot, counts, history>>

RollKeeps ==
    /\ stage = "roll"
    /\ due' = [due EXCEPT ![Woken] = IF Woken \in Recurring THEN Every ELSE @]
    /\ stage' = "dispatch"
    /\ UNCHANGED <<flag, status, since, failures, runs, job, queue, reg, arm, boot, counts, history>>

\* ... then wakeAt: rolled forward, or cleared for a one-shot wake.
RollWake ==
    /\ stage = "roll"
    /\ due' = [due EXCEPT ![Woken] = IF Woken \in Recurring THEN Every ELSE None]
    /\ stage' = "dispatch"
    /\ UNCHANGED <<flag, status, since, failures, runs, job, queue, reg, arm, boot, counts, history>>

Mishap == mishaps < MaxMishaps /\ mishaps' = mishaps + 1

\* resolveGoalSession throws, outside of the try: the wake ends here.
SessionFails ==
    /\ stage = "dispatch" /\ Mishap
    /\ stage' = "finish"
    /\ UNCHANGED <<flag, goals, runs, job, queue, reg, arm, boot, arms, restarts, history>>

Dispatch ==
    /\ stage = "dispatch"
    /\ stage' = "cycle"
    /\ cycles' = [cycles EXCEPT ![0] = @ + 1]
    /\ rested' = [rested EXCEPT ![Woken] = 0]
    /\ fired' = [fired EXCEPT ![Woken] = IF Woken \in Recurring THEN 0 ELSE Min({MaxArms + 1, @ + 1})]
    /\ UNCHANGED <<flag, goals, runs, job, queue, reg, arm, boot, counts>>

CycleEnds ==
    /\ stage = "cycle"
    /\ failures' = [failures EXCEPT ![Woken] = 0]
    /\ stage' = "after"
    /\ UNCHANGED <<flag, status, due, since, runs, job, queue, reg, arm, boot, counts, history>>

\* recordWakeFailure; the wake ends without registering the next one.
CycleFails ==
    /\ stage = "cycle" /\ Mishap
    /\ failures' = [failures EXCEPT ![Woken] = Min({FailureThreshold, @ + 1})]
    /\ status' = [status EXCEPT ![Woken] =
                    IF failures[Woken] + 1 >= FailureThreshold THEN "blocked" ELSE @]
    /\ stage' = "finish"
    /\ UNCHANGED <<flag, due, since, runs, job, queue, reg, arm, boot, arms, restarts, history>>

RegisterRead ==
    /\ stage \in {"after", "rearmed"}
    /\ IF due[Woken] # None /\ (stage = "rearmed" \/ status[Woken] = "active")
       THEN Register("wake", Woken, IF Woken \in Recurring THEN Every ELSE due[Woken])
       ELSE UNCHANGED reg
    /\ stage' = "finish"
    /\ UNCHANGED <<flag, goals, runs, job, queue, arm, boot, counts, history>>

\* After a cycle only an active goal is registered again, after a skip any goal.
RegisterNext ==
    /\ stage \in {"after", "rearmed"}
    /\ IF due[Woken] # None /\ (stage = "rearmed" \/ status[Woken] = "active")
       THEN Register("wake", Woken, due[Woken])
       ELSE UNCHANGED reg
    /\ stage' = "finish"
    /\ UNCHANGED <<flag, goals, runs, job, queue, arm, boot, counts, history>>

\* The promise of onWake settles: the next wake begins, or the recovery goes on.
Finish ==
    /\ stage = "finish" /\ reg["wake"].stage = "idle"
    /\ boot' = IF Head(queue)[1] = "boot" THEN [boot EXCEPT !.stage = "next"] ELSE boot
    /\ queue' = Tail(queue)
    /\ stage' = "none"
    /\ UNCHANGED <<flag, goals, runs, job, reg, arm, counts, history>>

-----------------------------------------------------------------------------
(* arm_goal: the owner gives a goal a wake in d ticks *)

ArmGoal(g, d) ==
    /\ arm[1] = "idle" /\ reg["arm"].stage = "idle"
    /\ status[g] \in {"proposed", "active"}
    /\ SumFunctionOnSet(arms, Goal) < MaxArms
    /\ arms' = [arms EXCEPT ![g] = @ + 1]
    /\ due' = [due EXCEPT ![g] = d]
    /\ arm' = <<IF status[g] = "proposed" THEN "activate" ELSE "read", g>>
    /\ UNCHANGED <<flag, status, since, failures, runs, job, queue, stage, reg, boot,
                   restarts, mishaps, history>>

ArmActivates ==
    /\ arm[1] = "activate"
    /\ status' = [status EXCEPT ![arm[2]] = "active"]
    /\ arm' = <<"read", arm[2]>>
    /\ UNCHANGED <<flag, due, since, failures, runs, job, queue, stage, reg, boot, counts, history>>

\* It registers the wake the goal has by now, if it still has one.
ArmRegisters ==
    /\ arm[1] = "read"
    /\ IF due[arm[2]] = None
       THEN UNCHANGED reg
       ELSE Register("arm", arm[2], due[arm[2]])
    /\ arm' = <<"idle", None>>
    /\ UNCHANGED <<flag, goals, runs, job, queue, stage, boot, counts, history>>

-----------------------------------------------------------------------------
(* A crash, and the next start: the scheduler loads the job file and arms  *)
(* what is pending in it, then recoverOnStart begins.                      *)

CrashRestart ==
    /\ restarts < MaxRestarts /\ restarts' = restarts + 1
    /\ job' = [j \in Job |-> IF job[j].onDisk
                             THEN [job[j] EXCEPT !.state = "pending", !.armed = TRUE]
                             ELSE NoJob]
    /\ queue' = <<>> /\ stage' = "none"
    /\ reg' = [p \in Process |-> Idle]
    /\ arm' = <<"idle", None>>
    /\ boot' = [stage |-> "scan", goal |-> None, todo |-> [g \in Goal |-> None]]
    /\ UNCHANGED <<flag, goals, runs, arms, mishaps, history>>

\* wakingGoals(): a wake that is overdue now is 0, one in the future is not.
BootScans ==
    /\ boot.stage = "scan"
    /\ boot' = [stage |-> "next", goal |-> None,
                todo |-> [g \in Goal |-> IF status[g] = "active" THEN due[g] ELSE None]]
    /\ UNCHANGED <<flag, goals, runs, job, queue, stage, reg, arm, counts, history>>

\* Earliest first: an overdue wake loses its job, a future one gets a new job.
BootTakes(g) ==
    /\ boot.stage = "next" /\ reg["boot"].stage = "idle"
    /\ boot.todo[g] # None
    /\ \A h \in Goal : boot.todo[h] # None => boot.todo[g] <= boot.todo[h]
    /\ \/ /\ boot.todo[g] = 0
          /\ Register("boot", g, None)
          /\ boot' = [boot EXCEPT !.stage = "remove", !.goal = g, !.todo[g] = None]
       \/ /\ boot.todo[g] # 0
          /\ Register("boot", g, boot.todo[g])
          /\ boot' = [boot EXCEPT !.todo[g] = None]
    /\ UNCHANGED <<flag, goals, runs, job, queue, stage, arm, counts, history>>

\* The overdue goal is woken, by way of the chain.
BootWakes ==
    /\ boot.stage = "remove" /\ reg["boot"].stage = "idle"
    /\ queue' = Append(queue, <<"boot", boot.goal>>)
    /\ boot' = [boot EXCEPT !.stage = "wait"]
    /\ UNCHANGED <<flag, goals, runs, job, stage, reg, arm, counts, history>>

BootEnds ==
    /\ boot.stage = "next" /\ reg["boot"].stage = "idle"
    /\ \A g \in Goal : boot.todo[g] = None
    /\ boot' = [boot EXCEPT !.stage = "idle", !.goal = None]
    /\ UNCHANGED <<flag, goals, runs, job, queue, stage, reg, arm, counts, history>>

-----------------------------------------------------------------------------
(* The owner and the agent *)

SwitchOff ==
    /\ flag /\ Mishap
    /\ flag' = FALSE
    /\ UNCHANGED <<goals, runs, job, queue, stage, reg, arm, boot, arms, restarts, history>>

SwitchOn ==
    /\ ~flag /\ flag' = TRUE
    /\ UNCHANGED <<goals, runs, job, queue, stage, reg, arm, boot, counts, history>>

\* update_goal_step: an open goal is blocked, activated or resolved.
Block(g) ==
    /\ status[g] \in {"proposed", "active"} /\ Mishap
    /\ status' = [status EXCEPT ![g] = "blocked"]
    /\ UNCHANGED <<flag, due, since, failures, runs, job, queue, stage, reg, arm, boot,
                   arms, restarts, history>>

\* The activation of a goal registers no wake.
Activate(g) ==
    /\ status[g] \in {"proposed", "blocked"}
    /\ status' = [status EXCEPT ![g] = "active"]
    /\ IF due[g] = None THEN UNCHANGED mishaps ELSE Mishap
    /\ UNCHANGED <<flag, due, since, failures, runs, job, queue, stage, reg, arm, boot,
                   arms, restarts, history>>

Resolve(g) ==
    /\ status[g] # "resolved" /\ Mishap
    /\ status' = [status EXCEPT ![g] = "resolved"]
    /\ UNCHANGED <<flag, due, since, failures, runs, job, queue, stage, reg, arm, boot,
                   arms, restarts, history>>

Next ==
    \/ Tick
    \/ \E j \in Job : TimerFires(j) \/ JobStarts(j)
    \/ \E p \in Process : RemoveJob(p) \/ AddJob(p) \/ RemovalEnds(p) \/ JobAdded(p)
    \/ WakeIgnored \/ WakeCapped \/ WakeCoolsDown \/ WakeGranted
    \/ StampWake \/ RollWake
    \/ SessionFails \/ Dispatch \/ CycleEnds \/ CycleFails \/ RegisterNext \/ Finish
    \/ \E g \in Goal, d \in Delays : ArmGoal(g, d)
    \/ ArmActivates \/ ArmRegisters
    \/ CrashRestart \/ BootScans \/ (\E g \in Goal : BootTakes(g)) \/ BootWakes \/ BootEnds
    \/ SwitchOff \/ SwitchOn
    \/ \E g \in Goal : Block(g) \/ Activate(g) \/ Resolve(g)

Spec == Init /\ [][Next]_vars

-----------------------------------------------------------------------------
(* Properties *)

\* No rolling window, at any time, contains more dispatched cycles than its
\* cap allows: not with several wakes queued at once, and not after a crash
\* between the steps of a wake.
CyclesBounded ==
    Count(cycles, Hour) <= MaxPerHour /\ Count(cycles, Day) <= MaxPerDay

\* Two cycles of one goal are at least the cooldown apart, over duplicate
\* jobs and restarts too.
CooldownKept ==
    [][\A g \in Goal : (stage = "dispatch" /\ stage' = "cycle" /\ Woken = g)
                          => rested[g] = Cooldown]_vars

Quiet ==
    /\ queue = <<>> /\ arm[1] = "idle" /\ boot.stage = "idle"
    /\ \A p \in Process : reg[p].stage = "idle"
    /\ \A j \in Job : job[j].state # "running"

\* Unless a cycle failed, a goal was blocked or the switch was off, an active
\* goal with a wake has a job that will wake it, whatever skips, concurrent
\* registrations and crashes there have been; between starts that job does not
\* come later than the wake says: of two registrations that overlap, the one
\* with the older wake may add its job too, but does not remove the other's.
NoSleeper ==
    Quiet /\ mishaps = 0 =>
        \A g \in Goal : status[g] = "active" /\ due[g] # None =>
            \E j \in PendingJobs(g) :
                job[j].armed /\ (restarts = 0 => job[j].in <= Max({1, due[g]}))

\* Between starts, one wake the owner gives a one-shot goal is one cycle at most.
OneCyclePerWake ==
    restarts = 0 => \A g \in Goal \ Recurring : arms[g] <= 1 => fired[g] <= arms[g]
=============================================================================
