-------------------------- MODULE InitiativeProofs --------------------------
(***************************************************************************)
(* The caps, the cooldown, and the one job that wakes a goal: for any      *)
(* number of goals and jobs, any windows, caps and wake times, any number  *)
(* of calls of arm_goal, of failures and of restarts.                      *)
(***************************************************************************)
EXTENDS Initiative, FiniteSetTheorems, SequenceTheorems, TLAPS

(* Typing, and which steps exclude each other.                             *)

\* A registration is made by a wake that is done otherwise, or by a call of
\* arm_goal that has read its goal; the wake at work is on the chain.
OneEach ==
    /\ stage # "none" => queue # <<>>
    /\ stage # "finish" => reg["wake"].stage = "idle"
    /\ arm[1] # "idle" => reg["arm"].stage = "idle"

\* What is under way is about a goal.
Alive(b) == b.state # "free" \/ b.onDisk
Named ==
    /\ \A j \in Job : Alive(job[j]) => job[j].goal \in Goal
    /\ \A p \in Process : Removing(p) => reg[p].goal \in Goal
    /\ boot.stage = "remove" => boot.goal \in Goal

Typed == TypeOK /\ OneEach /\ Named

(* The caps: a run is counted before its cycle is dispatched.              *)

Budgeted ==
    /\ Count(runs, Hour) <= MaxPerHour /\ Count(runs, Day) <= MaxPerDay
    /\ \A n \in 0..Day : cycles[n] <= runs[n]
    /\ stage \in {"stamp", "roll", "dispatch"} => cycles[0] + 1 <= runs[0]

(* The cooldown: lastWakeAt is written before the cycle is dispatched.     *)

Cooled ==
    /\ \A g \in Goal : since[g] <= rested[g]
    /\ stage = "stamp" => since[Woken] = Cooldown
    /\ stage \in {"roll", "dispatch"} => since[Woken] = 0 /\ rested[Woken] = Cooldown

(* What may still dispatch a cycle of a goal: a call of arm_goal, a        *)
(* registration, a job, or a wake that is waiting or not yet dispatched.   *)

Asked(g)       == arm[1] # "idle" /\ arm[2] = g
Adding(p, g)   == Removing(p) /\ reg[p].goal = g
Booked(j, g)   == job[j].state # "free" /\ job[j].goal = g
Fresh          == {"none", "stamp", "roll", "dispatch", "rearmed"}
Waiting(i, g)  == i \in DOMAIN queue /\ queue[i][2] = g /\ (i = 1 => stage \in Fresh)
Expected(g)    == \/ Asked(g) \/ \E p \in Process : Adding(p, g)
                  \/ \E j \in Job : Booked(j, g)
                  \/ \E i \in DOMAIN queue : Waiting(i, g)

\* There is at most one of them.
Single(g) ==
    /\ Asked(g) => /\ \A p \in Process : ~Adding(p, g)
                   /\ \A j \in Job : ~Booked(j, g)
                   /\ \A i \in DOMAIN queue : ~Waiting(i, g)
    /\ \A p \in Process : Adding(p, g) =>
         /\ \A q \in Process : Adding(q, g) => q = p
         /\ \A j \in Job : ~Booked(j, g)
         /\ \A i \in DOMAIN queue : ~Waiting(i, g)
    /\ \A j \in Job : Booked(j, g) =>
         /\ \A k \in Job : Booked(k, g) => k = j
         /\ \A i \in DOMAIN queue : ~Waiting(i, g)
    /\ \A i, k \in DOMAIN queue : Waiting(i, g) /\ Waiting(k, g) => i = k

\* The wake is cleared before the cycle is dispatched.
Cleared(g) == (stage \in {"dispatch", "cycle", "after"} /\ Woken = g) => due[g] = None

\* A goal that was armed once: its wake is on its way, or was dispatched.
Once(g) ==
    /\ Single(g)
    /\ fired[g] <= arms[g]
    /\ arms[g] = 0 => ~Expected(g) /\ \A i \in DOMAIN queue : queue[i][2] # g
    /\ fired[g] = 1 => ~Expected(g)
    /\ Cleared(g)

Unstarted ==
    /\ boot.stage = "idle" /\ reg["boot"].stage = "idle"
    /\ \A g \in Goal : boot.todo[g] = None
    /\ \A i \in DOMAIN queue : queue[i][1] # "boot"

OncePerWake ==
    restarts = 0 => Unstarted /\ \A g \in Goal \ Recurring : arms[g] <= 1 => Once(g)

(* What will wake a goal in time.                                          *)

InTime(g, in) == restarts = 0 => in <= Max({1, due[g]})

Safe(j) == \A p \in Process : Removing(p) => j \notin reg[p].found

Starting(j, g) == job[j].goal = g /\ job[j].state = "running"
Timely(j, g)   == job[j].goal = g /\ job[j].state = "pending" /\ InTime(g, job[j].in) /\ Safe(j)
OnChain(i, g)  == queue[i][2] = g /\ (i = 1 => stage # "finish")
Promised(p, g) == Adding(p, g) /\ reg[p].in # None /\ InTime(g, reg[p].in)
Recovered(g)   == \/ boot.stage = "scan" \/ boot.todo[g] # None
                  \/ boot.stage = "remove" /\ boot.goal = g

Covered(g) ==
    \/ \E j \in Job : Starting(j, g) \/ Timely(j, g)
    \/ \E i \in DOMAIN queue : OnChain(i, g)
    \/ \E p \in Process : Promised(p, g)
    \/ Asked(g) \/ Recovered(g)

\* The recovery waits for the one wake that it put on the chain.
BootWaits ==
    /\ \A i \in DOMAIN queue : queue[i][1] = "boot" =>
         boot.stage = "wait" /\ \A k \in DOMAIN queue : queue[k][1] = "boot" => k = i
    /\ boot.stage = "idle" => \A g \in Goal : boot.todo[g] = None

\* A pending job has its timer, or is about to get it.
Timed == \A j \in Job : job[j].state = "pending" =>
             job[j].armed \/ \E p \in Process : reg[p].stage = "added" /\ j \in reg[p].found

Waking(g) == status[g] = "active" /\ due[g] # None

Awake ==
    /\ BootWaits /\ Timed
    /\ mishaps = 0 => flag /\ \A g \in Goal : Waking(g) => Covered(g)

-----------------------------------------------------------------------------
(* Lemmas about the operators of the model.                                *)

LEMMA MaxOfTwo ==
    ASSUME NEW a \in Int, NEW b \in Int
    PROVE  /\ Max({a, b}) \in {a, b}
           /\ Max({a, b}) >= a /\ Max({a, b}) >= b
<1>1. \E x \in {a, b} : \A y \in {a, b} : x >= y
  <2>1. CASE a >= b  BY <2>1
  <2>2. CASE b >= a  BY <2>2
  <2> QED BY <2>1, <2>2
<1> QED BY <1>1 DEF Max

LEMMA MinOfTwo ==
    ASSUME NEW a \in Int, NEW b \in Int
    PROVE  Min({a, b}) = IF a <= b THEN a ELSE b
<1>1. \E x \in {a, b} : \A y \in {a, b} : x =< y
  <2>1. CASE a <= b  BY <2>1
  <2>2. CASE b <= a  BY <2>2
  <2> QED BY <2>1, <2>2
<1> DEFINE m == CHOOSE x \in {a, b} : \A y \in {a, b} : x =< y
<1>2. m \in {a, b} /\ m <= a /\ m <= b
  BY <1>1
<1> HIDE DEF m
<1>3. m = IF a <= b THEN a ELSE b
  BY <1>2
<1> QED BY <1>3 DEF Min, m

\* A countdown loses a tick, but does not fall below its floor.
LEMMA LessIsLess ==
    ASSUME NEW c \in Nat \cup {None}, NEW floor \in Nat
    PROVE  /\ c = None => Less(c, floor) = None
           /\ c # None => /\ Less(c, floor) \in Nat
                          /\ Less(c, floor) >= floor /\ Less(c, floor) >= c - 1
                          /\ Less(c, floor) \in {floor, c - 1}
<1>1. CASE c = None
  BY <1>1 DEF Less
<1>2. CASE c # None
  <2>1. c \in Nat /\ c - 1 \in Int
    BY <1>2
  <2>2. /\ Max({floor, c - 1}) \in {floor, c - 1}
        /\ Max({floor, c - 1}) >= floor /\ Max({floor, c - 1}) >= c - 1
    BY <2>1, MaxOfTwo
  <2>3. Less(c, floor) = Max({floor, c - 1})
    BY <1>2 DEF Less
  <2> HIDE DEF Max
  <2> QED BY <1>2, <2>1, <2>2, <2>3
<1> QED BY <1>1, <1>2

LEMMA StampsAreFinite ==
    ASSUME NEW window \in Nat, NEW bag, \A n \in 0..window : bag[n] \in Nat
    PROVE  /\ IsFiniteSet(Stamps(bag, window))
           /\ Count(bag, window) \in Nat
<1> DEFINE One(n) == {n} \X (1..bag[n])
           f == [n \in 0..window |-> One(n)]
           F == {One(n) : n \in 0..window}
<1>1. f \in Surjection(0..window, F)
  BY DEF Surjection
<1>2. IsFiniteSet(F)
  BY <1>1, FS_Interval, FS_Surjection
<1>3. ASSUME NEW T \in F PROVE IsFiniteSet(T)
  <2>1. PICK n \in 0..window : T = One(n)
    BY <1>3
  <2>2. IsFiniteSet({n}) /\ IsFiniteSet(1..bag[n])
    <3>1. 1 \in Int /\ bag[n] \in Int
      OBVIOUS
    <3> QED BY <3>1, FS_Singleton, FS_Interval
  <2>3. IsFiniteSet({n} \X (1..bag[n]))
    BY <2>2, FS_Product
  <2> QED BY <2>1, <2>3
<1>4. IsFiniteSet(UNION F)
  BY <1>2, <1>3, FS_UNION
<1>5. UNION F = Stamps(bag, window)
  BY DEF Stamps
<1> QED BY <1>4, <1>5, FS_CardinalityType DEF Count

LEMMA InStamps ==
    ASSUME NEW bag, NEW window, NEW s
    PROVE  s \in Stamps(bag, window) <=>
               \E n \in 0..window : \E k \in 1..bag[n] : s = <<n, k>>
BY DEF Stamps

\* Fewer stamps of each age are fewer stamps.
LEMMA CountGrows ==
    ASSUME NEW window \in Nat, NEW a, NEW b,
           \A n \in 0..window : a[n] \in Nat /\ b[n] \in Nat /\ a[n] <= b[n]
    PROVE  Count(a, window) <= Count(b, window)
<1>1. Stamps(a, window) \subseteq Stamps(b, window)
  <2> SUFFICES ASSUME NEW n \in 0..window, NEW k \in 1..a[n]
               PROVE  <<n, k>> \in Stamps(b, window)
    BY InStamps
  <2>1. k \in 1..b[n]
    OBVIOUS
  <2> QED BY <2>1, InStamps
<1>2. IsFiniteSet(Stamps(b, window))
  BY StampsAreFinite
<1> QED BY <1>1, <1>2, FS_Subset DEF Count

\* Stamps leave the window as time passes.
LEMMA CountPasses ==
    ASSUME NEW window \in 0..Day, NEW bag \in [0..Day -> Nat]
    PROVE  Count(Passed(bag), window) <= Count(bag, window)
<1> DEFINE S == Stamps(Passed(bag), window)
           T == Stamps(bag, window)
           f == [s \in S |-> <<s[1] - 1, s[2]>>]
<1>0. Day \in Nat /\ window \in Nat
  BY ConstantsAssumption
<1>1. ASSUME NEW s \in S
      PROVE  \E n \in 0..window : \E k \in Nat :
                 s = <<n, k>> /\ n - 1 \in 0..window /\ k \in 1..bag[n - 1]
  <2>1. PICK n \in 0..window : \E k \in 1..Passed(bag)[n] : s = <<n, k>>
    BY <1>1, InStamps
  <2>2. PICK k \in 1..Passed(bag)[n] : s = <<n, k>>
    BY <2>1
  <2>3. n \in 0..Day /\ Passed(bag)[n] = IF n = 0 THEN 0 ELSE bag[n - 1]
    BY <1>0 DEF Passed
  <2>4. n # 0 /\ k \in 1..bag[n - 1]
    BY <2>2, <2>3
  <2> QED BY <1>0, <2>2, <2>4
<1>2. f \in [S -> T]
  <2> SUFFICES ASSUME NEW s \in S PROVE <<s[1] - 1, s[2]>> \in T
    OBVIOUS
  <2>1. PICK n \in 0..window, k \in Nat :
            s = <<n, k>> /\ n - 1 \in 0..window /\ k \in 1..bag[n - 1]
    BY <1>1
  <2> QED BY <2>1, InStamps
<1>3. ASSUME NEW s \in S, NEW t \in S, f[s] = f[t] PROVE s = t
  <2>1. PICK n \in 0..window, k \in Nat : s = <<n, k>>
    BY <1>1
  <2>2. PICK m \in 0..window, l \in Nat : t = <<m, l>>
    BY <1>1
  <2>3. <<n - 1, k>> = <<m - 1, l>>
    BY <1>3, <2>1, <2>2
  <2> QED BY <2>1, <2>2, <2>3
<1>4. f \in Injection(S, T)
  BY <1>2, <1>3 DEF Injection, IsInjective
<1>5. IsFiniteSet(T)
  BY <1>0, StampsAreFinite
<1> HIDE DEF f
<1> QED BY <1>4, <1>5, FS_Injection DEF Count

\* One more run is one more stamp.
LEMMA CountsOneMore ==
    ASSUME NEW window \in 0..Day, NEW bag \in [0..Day -> Nat]
    PROVE  Count([bag EXCEPT ![0] = @ + 1], window) <= Count(bag, window) + 1
<1> DEFINE more == [bag EXCEPT ![0] = @ + 1]
           S == Stamps(more, window)
           T == Stamps(bag, window)
           x == <<0, bag[0] + 1>>
<1>0. Day \in Nat /\ window \in Nat
  BY ConstantsAssumption
<1>1. IsFiniteSet(T) /\ Count(bag, window) \in Nat
  BY <1>0, StampsAreFinite
<1>2. S \subseteq T \cup {x}
  <2> SUFFICES ASSUME NEW s \in S, s # x PROVE s \in T
    OBVIOUS
  <2>0. PICK n \in 0..window : \E k \in 1..more[n] : s = <<n, k>>
    <3> HIDE DEF more
    <3> QED BY InStamps
  <2>2. PICK k \in 1..more[n] : s = <<n, k>>
    BY <2>0
  <2>1. k \in 1..bag[n]
    BY <1>0, <2>2
  <2> QED BY <2>1, <2>2, InStamps
<1>3. IsFiniteSet(T \cup {x}) /\ Cardinality(T \cup {x}) <= Cardinality(T) + 1
  BY <1>1, FS_AddElement, FS_CardinalityType
<1>4. Cardinality(S) <= Cardinality(T \cup {x}) /\ IsFiniteSet(S)
  BY <1>2, <1>3, FS_Subset
<1>5. Cardinality(S) \in Nat /\ Cardinality(T) \in Nat /\ Cardinality(T \cup {x}) \in Nat
  BY <1>1, <1>3, <1>4, FS_CardinalityType
<1> QED BY <1>3, <1>4, <1>5 DEF Count

LEMMA NothingCounted ==
    ASSUME NEW window \in Nat, NEW bag, \A n \in 0..window : bag[n] = 0
    PROVE  Count(bag, window) = 0
<1>1. ASSUME NEW s \in Stamps(bag, window) PROVE FALSE
  <2>1. PICK n \in 0..window : \E k \in 1..bag[n] : s = <<n, k>>
    BY <1>1, InStamps
  <2> QED BY <2>1
<1>2. Stamps(bag, window) = {}
  BY <1>1
<1> QED BY <1>2, FS_EmptySet DEF Count

\* A window with a stamp has an oldest one.
LEMMA OldestIsInWindow ==
    ASSUME NEW window \in 0..Day, runs \in [0..Day -> Nat], Count(runs, window) >= 1
    PROVE  Oldest(window) \in 0..window
<1>0. Day \in Nat /\ window \in Nat
  BY ConstantsAssumption
<1> DEFINE S == {n \in 0..window : runs[n] > 0}
           D == {window - n : n \in S}
<1>1. S # {}
  <2>1. \E n \in 0..window : ~(runs[n] = 0)
    BY <1>0, NothingCounted
  <2> QED BY <1>0, <2>1
<1>2. D \subseteq Nat /\ D # {}
  BY <1>0, <1>1
<1>3. PICK d \in D : \A e \in D : ~(<<e, d>> \in OpToRel(<, Nat))
  <2> HIDE DEF D
  <2> QED BY <1>2, WFMin, NatLessThanWellFounded
<1>4. \A e \in D : d <= e
  <2> HIDE DEF D
  <2> SUFFICES ASSUME NEW e \in D, e < d PROVE FALSE
    <3>1. \A e \in D : e \in Nat /\ d \in Nat
      BY <1>2
    <3> QED BY <3>1
  <2>1. <<e, d>> \in OpToRel(<, Nat)
    BY <1>2 DEF OpToRel
  <2> QED BY <1>3, <2>1
<1>5. PICK n \in S : d = window - n
  BY <1>3
<1>6. \A m \in S : n >= m
  <2> SUFFICES ASSUME NEW m \in S PROVE n >= m
    OBVIOUS
  <2>1. window - m \in D
    OBVIOUS
  <2>2. d <= window - m
    <3> HIDE DEF D
    <3> QED BY <1>4, <2>1
  <2> QED BY <1>0, <1>5, <2>2
<1>7. (CHOOSE x \in S : \A y \in S : x >= y) \in S
  BY <1>5, <1>6
<1> QED BY <1>7 DEF Oldest, Max

-----------------------------------------------------------------------------
(* The jobs through a save and through the steps of a registration.        *)

Booking == [goal : Goal \cup {None}, in : Nat, state : {"free", "pending", "running"},
            armed : BOOLEAN, onDisk : BOOLEAN]

\* jobs and saved are the same jobs, but for what is in the file and for free slots.
Alike(jobs, saved) ==
    /\ saved \in [Job -> Booking]
    /\ \A j \in Job : /\ saved[j].state = jobs[j].state
                      /\ Alive(saved[j]) => /\ Alive(jobs[j])
                                            /\ saved[j].goal = jobs[j].goal
                                            /\ saved[j].in = jobs[j].in
                                            /\ saved[j].armed = jobs[j].armed

LEMMA SavedIsAlike ==
    ASSUME NEW jobs, jobs \in [Job -> Booking]
    PROVE  Alike(jobs, Saved(jobs))
BY DEF Alike, Saved, NoJob, Booking, Alive

LEMMA LandedIsAlike ==
    ASSUME TypeOK, NEW p \in Process
    PROVE  Alike(job, Landed(p))
<1>1. job \in [Job -> Booking]
  BY DEF TypeOK, Booking
<1>2. Alike(job, job)
  BY <1>1 DEF Alike
<1> QED BY <1>1, <1>2, SavedIsAlike DEF Landed

\* A registration that adds its job takes a free slot nobody else refers to.
AddsJob(p, j) ==
    /\ Removing(p) /\ reg[p].in # None
    /\ job[j].state = "free"
    /\ \A q \in Process \ {p} : j \notin reg[q].found
    /\ Alike([job EXCEPT ![j] = job'[j]], job')
    /\ job'[j].goal = reg[p].goal /\ job'[j].in = Max({1, reg[p].in})
    /\ job'[j].state = "pending" /\ ~job'[j].armed
    /\ reg' = [reg EXCEPT ![p].stage = "added", ![p].found = {j}]
    /\ UNCHANGED <<flag, goals, runs, queue, stage, arm, boot, counts, history>>

LEMMA AddJobTakesSlot ==
    ASSUME TypeOK, NEW p \in Process, AddJob(p)
    PROVE  \E j \in Job : AddsJob(p, j)
<1> DEFINE j == CHOOSE j \in FreeSlots(p) : TRUE
<1>1. j \in FreeSlots(p)
  BY DEF AddJob
<1> HIDE DEF j
<1>2. /\ j \in Job /\ Landed(p)[j] = NoJob
      /\ \A q \in Process \ {p} : j \notin reg[q].found
  BY <1>1 DEF FreeSlots
<1>3. Alike(job, Landed(p))
  BY LandedIsAlike
<1>4. job[j].state = "free"
  BY <1>2, <1>3 DEF Alike, NoJob
<1> DEFINE new == [goal |-> reg[p].goal, in |-> Max({1, reg[p].in}),
                   state |-> "pending", armed |-> FALSE, onDisk |-> FALSE]
<1>5. /\ job' = [Landed(p) EXCEPT ![j] = new]
      /\ reg' = [reg EXCEPT ![p].stage = "added", ![p].found = {j}]
      /\ Removing(p) /\ reg[p].in # None
      /\ UNCHANGED <<flag, goals, runs, queue, stage, arm, boot, counts, history>>
  BY DEF AddJob, j
<1>6. new \in Booking
  <2>1. reg[p].in \in Nat /\ reg[p].goal \in Goal \cup {None}
    BY <1>5 DEF TypeOK
  <2>2. Max({1, reg[p].in}) \in Nat
    <3>1. 1 \in Int /\ reg[p].in \in Int
      BY <2>1
    <3>2. Max({1, reg[p].in}) \in {1, reg[p].in}
      BY <3>1, MaxOfTwo
    <3> HIDE DEF Max
    <3> QED BY <2>1, <3>2
  <2> HIDE DEF Max
  <2> QED BY <2>1, <2>2 DEF Booking
<1>7. job' \in [Job -> Booking] /\ job'[j] = new
  BY <1>2, <1>3, <1>5, <1>6 DEF Alike
<1>8. job \in [Job -> Booking]
  BY DEF TypeOK, Booking
<1>9. Alike([job EXCEPT ![j] = job'[j]], job')
  <2> HIDE DEF new
  <2> QED BY <1>2, <1>3, <1>5, <1>7, <1>8 DEF Alike
<1> QED BY <1>2, <1>4, <1>5, <1>7, <1>9 DEF AddsJob

LEMMA RemoveJobFrees ==
    ASSUME TypeOK, NEW p \in Process, RemoveJob(p)
    PROVE  \E j \in StillPending(p) :
              /\ j \in Job
              /\ job' \in [Job -> Booking] /\ job'[j].state = "free"
              /\ \A k \in Job : /\ Alive(job'[k]) => /\ Alive(job[k])
                                                     /\ job'[k].goal = job[k].goal
                                                     /\ job'[k].in = job[k].in
                                /\ k # j => /\ job'[k].state = job[k].state
                                            /\ Alive(job'[k]) => job'[k].armed = job[k].armed
              /\ reg' = [reg EXCEPT ![p].found = @ \ {j}, ![p].stage = "removed"]
<1>1. PICK j \in StillPending(p) :
         /\ reg' = [reg EXCEPT ![p].found = @ \ {j}, ![p].stage = "removed"]
         /\ job' = [Landed(p) EXCEPT ![j].state = "free", ![j].armed = FALSE]
  BY DEF RemoveJob
<1>2. j \in Job
  BY DEF StillPending, TypeOK, Process
<1>3. Alike(job, Landed(p))
  BY LandedIsAlike
<1>4. Landed(p) \in [Job -> Booking]
  BY <1>3 DEF Alike
<1>5. job' \in [Job -> Booking] /\ job'[j].state = "free"
  BY <1>1, <1>2, <1>4 DEF Booking
<1>6. ASSUME NEW k \in Job
      PROVE  /\ Alive(job'[k]) => /\ Alive(job[k])
                                  /\ job'[k].goal = job[k].goal
                                  /\ job'[k].in = job[k].in
             /\ k # j => /\ job'[k].state = job[k].state
                         /\ Alive(job'[k]) => job'[k].armed = job[k].armed
  <2>1. CASE k # j
    <3>1. job'[k] = Landed(p)[k]
      BY <1>1, <1>2, <1>4, <2>1
    <3> QED BY <1>3, <3>1 DEF Alike
  <2>2. CASE k = j
    <3>1. /\ job'[j].goal = Landed(p)[j].goal /\ job'[j].in = Landed(p)[j].in
          /\ job'[j].onDisk = Landed(p)[j].onDisk
      BY <1>1, <1>2, <1>4 DEF Booking
    <3>2. Alive(job'[j]) => Alive(Landed(p)[j])
      BY <1>5, <3>1 DEF Alive
    <3> QED BY <1>2, <1>3, <2>2, <3>1, <3>2 DEF Alike
  <2> QED BY <2>1, <2>2
<1> QED BY <1>1, <1>2, <1>5, <1>6

-----------------------------------------------------------------------------
(* Types                                                                   *)

LEMMA TypedInit == Init => Typed
<1> SUFFICES ASSUME Init PROVE Typed
  OBVIOUS
<1>1. None \notin Int /\ Cooldown \in Nat /\ Day \in Nat /\ FailureThreshold \in Nat
      /\ MaxMishaps \in Nat /\ MaxRestarts \in Nat /\ MaxArms \in Nat
  BY ConstantsAssumption
<1>2. status \in [Goal -> {"proposed", "active", "blocked", "resolved"}]
  BY DEF Init
<1>3. queue \in Seq({"timer", "boot"} \X Goal)
  BY DEF Init
<1>4. /\ job \in [Job -> [goal : Goal \cup {None}, in : Nat,
                        state : {"free", "pending", "running"}, armed : BOOLEAN,
                        onDisk : BOOLEAN]]
      /\ reg \in [Process -> [stage : {"idle", "remove", "removed", "added"},
                            goal : Goal \cup {None}, in : Nat \cup {None},
                            found : SUBSET Job]]
      /\ boot \in [stage : {"idle", "scan", "next", "remove", "wait"},
                 goal : Goal \cup {None}, todo : [Goal -> Nat \cup {None}]]
      /\ arm \in {<<"idle", None>>} \cup ({"activate", "read"} \X Goal)
      /\ stage \in {"none", "stamp", "roll", "dispatch", "cycle", "after", "rearmed", "finish"}
  BY DEF Init, NoJob, Idle
<1>5. TypeOK
  BY <1>1, <1>2, <1>3, <1>4 DEF Init, TypeOK
<1>6. OneEach
  BY DEF Init, OneEach, Idle, Process
<1>7. Named
  BY DEF Init, Named, NoJob, Idle, Process, Alive, Removing
<1> QED BY <1>5, <1>6, <1>7 DEF Typed

LEMMA TickIsTyped == Typed /\ Tick => Typed'
<1> SUFFICES ASSUME Typed, Tick PROVE Typed'
  OBVIOUS
<1>1. TypeOK /\ OneEach /\ Named
  BY DEF Typed
<1>2. None \notin Int /\ Cooldown \in Nat /\ Day \in Nat
  BY ConstantsAssumption
<1>3. /\ due'    = [g \in Goal |-> Less(due[g], 0)]
      /\ since'  = [g \in Goal |-> Min({Cooldown, since[g] + 1})]
      /\ rested' = [g \in Goal |-> Min({Cooldown, rested[g] + 1})]
      /\ runs'   = Passed(runs)
      /\ cycles' = Passed(cycles)
      /\ job'    = [j \in Job |-> [job[j] EXCEPT !.in = Less(@, 0)]]
      /\ boot'   = [boot EXCEPT !.todo = [g \in Goal |->
                     IF @[g] = 0 THEN 0 ELSE Less(@[g], 1)]]
      /\ UNCHANGED <<flag, status, failures, queue, stage, reg, arm, counts, fired>>
  BY DEF Tick
<1>4. \A c \in Nat \cup {None} : Less(c, 0) \in Nat \cup {None} /\ Less(c, 1) \in Nat \cup {None}
  BY LessIsLess
<1>5. \A n \in 0..Cooldown : Min({Cooldown, n + 1}) \in 0..Cooldown
  <2> SUFFICES ASSUME NEW n \in 0..Cooldown PROVE Min({Cooldown, n + 1}) \in 0..Cooldown
    OBVIOUS
  <2>1. Min({Cooldown, n + 1}) = IF Cooldown <= n + 1 THEN Cooldown ELSE n + 1
    BY <1>2, MinOfTwo
  <2> HIDE DEF Min
  <2> QED BY <1>2, <2>1
<1>6. due' \in [Goal -> Nat \cup {None}]
  BY <1>1, <1>3, <1>4 DEF TypeOK
<1>7. since' \in [Goal -> 0..Cooldown] /\ rested' \in [Goal -> 0..Cooldown]
  BY <1>1, <1>3, <1>5 DEF TypeOK
<1>8. runs' \in [0..Day -> Nat] /\ cycles' \in [0..Day -> Nat]
  <2>1. \A n \in 0..Day : n # 0 => n - 1 \in 0..Day
    BY <1>2
  <2>2. \A bag \in [0..Day -> Nat] : Passed(bag) \in [0..Day -> Nat]
    BY <2>1 DEF Passed
  <2>3. runs \in [0..Day -> Nat] /\ cycles \in [0..Day -> Nat]
    BY <1>1 DEF TypeOK
  <2> QED BY <1>3, <2>2, <2>3
<1>9. job' \in [Job -> [goal : Goal \cup {None}, in : Nat,
                        state : {"free", "pending", "running"}, armed : BOOLEAN,
                        onDisk : BOOLEAN]]
  <2>1. \A c \in Nat : Less(c, 0) \in Nat
    BY <1>2, LessIsLess
  <2>2. job \in [Job -> [goal : Goal \cup {None}, in : Nat,
                        state : {"free", "pending", "running"}, armed : BOOLEAN,
                        onDisk : BOOLEAN]]
    BY <1>1 DEF TypeOK
  <2>3. ASSUME NEW j \in Job
        PROVE  job'[j] \in [goal : Goal \cup {None}, in : Nat,
                            state : {"free", "pending", "running"}, armed : BOOLEAN,
                            onDisk : BOOLEAN]
    <3>1. job'[j] = [job[j] EXCEPT !.in = Less(job[j].in, 0)]
      BY <1>3, <2>2
    <3>2. Less(job[j].in, 0) \in Nat
      BY <2>1, <2>2
    <3> QED BY <2>2, <3>1, <3>2
  <2>4. DOMAIN job' = Job /\ job' = [j \in Job |-> job'[j]]
    BY <1>3
  <2> QED BY <2>3, <2>4
<1>10. boot' \in [stage : {"idle", "scan", "next", "remove", "wait"},
                 goal : Goal \cup {None}, todo : [Goal -> Nat \cup {None}]]
  BY <1>1, <1>3, <1>4 DEF TypeOK
<1>11. TypeOK'
  BY <1>1, <1>3, <1>6, <1>7, <1>8, <1>9, <1>10 DEF TypeOK, counts
<1>12. OneEach'
  BY <1>1, <1>3 DEF OneEach
<1>13. Named'
  <2>1. ASSUME NEW j \in Job
        PROVE  job'[j].goal = job[j].goal /\ job'[j].state = job[j].state
               /\ job'[j].onDisk = job[j].onDisk
    BY <1>1, <1>3 DEF TypeOK
  <2>2. boot'.stage = boot.stage /\ boot'.goal = boot.goal
    BY <1>1, <1>3 DEF TypeOK
  <2> QED BY <1>1, <1>3, <2>1, <2>2 DEF Named, Alive, Removing
<1> QED BY <1>11, <1>12, <1>13 DEF Typed

LEMMA WokenIsGoal == ASSUME Typed, queue # <<>> PROVE Woken \in Goal
<1>1. queue \in Seq({"timer", "boot"} \X Goal)
  BY DEF Typed, TypeOK
<1>2. Head(queue) \in {"timer", "boot"} \X Goal
  BY <1>1, HeadTailProperties
<1> QED BY <1>2 DEF Woken

LEMMA RearmIsTyped ==
    ASSUME Typed, Due, NEW next \in Nat, Rearm(next)
    PROVE  Typed'
<1>1. Woken \in Goal
  BY WokenIsGoal DEF Due
<1>2. Max({next, Every}) \in Nat
  <2>1. next \in Int /\ Every \in Int /\ Every \in Nat
    BY ConstantsAssumption
  <2>2. Max({next, Every}) \in {next, Every}
    BY <2>1, MaxOfTwo
  <2> HIDE DEF Max
  <2> QED BY <2>1, <2>2
<1>3. due' \in [Goal -> Nat \cup {None}]
  BY <1>1, <1>2 DEF Typed, TypeOK, Rearm
<1> HIDE DEF Max
<1>4. TypeOK'
  BY <1>3 DEF Typed, TypeOK, Rearm, counts, history
<1>5. OneEach'
  BY DEF Typed, OneEach, Rearm, Due, history
<1>6. Named'
  BY DEF Typed, Named, Rearm, Removing
<1> QED BY <1>4, <1>5, <1>6 DEF Typed

LEMMA SkipsAreTyped ==
    ASSUME Typed, WakeIgnored \/ WakeCapped \/ WakeCoolsDown \/ WakeGranted
    PROVE  Typed'
<1>1. CASE WakeIgnored
  BY <1>1 DEF WakeIgnored, Typed, TypeOK, OneEach, Named, Removing, Due, goals, counts, history
<1>2. CASE WakeCapped
  <2>1. /\ Hour \in Nat /\ Day \in Nat /\ Hour <= Day
        /\ MaxPerHour \in Nat \ {0} /\ MaxPerDay \in Nat \ {0}
    BY ConstantsAssumption
  <2>2. ASSUME NEW window \in {Hour, Day}, NEW max \in Nat \ {0}, Capped(window, max)
        PROVE  Oldest(window) \in 0..window
    <3>1. window \in 0..Day /\ runs \in [0..Day -> Nat]
      BY <2>1 DEF Typed, TypeOK
    <3>2. Count(runs, window) \in Nat
      <4>1. window \in Nat /\ \A n \in 0..window : runs[n] \in Nat
        BY <2>1, <3>1
      <4> QED BY <4>1, StampsAreFinite
    <3>3. Count(runs, window) >= 1
      BY <2>2, <3>2 DEF Capped
    <3> QED BY <3>1, <3>3, OldestIsInWindow
  <2>3. CASE Capped(Hour, MaxPerHour) /\ Rearm(Hour - Oldest(Hour) + 1)
    <3>1. Hour - Oldest(Hour) + 1 \in Nat
      BY <2>1, <2>2, <2>3
    <3> QED BY <1>2, <2>3, <3>1, RearmIsTyped DEF WakeCapped, Eligible
  <2>4. CASE Capped(Day, MaxPerDay) /\ Rearm(Day - Oldest(Day) + 1)
    <3>1. Day - Oldest(Day) + 1 \in Nat
      BY <2>1, <2>2, <2>4
    <3> QED BY <1>2, <2>4, <3>1, RearmIsTyped DEF WakeCapped, Eligible
  <2> QED BY <1>2, <2>3, <2>4 DEF WakeCapped
<1>3. CASE WakeCoolsDown
  <2>1. Woken \in Goal
    BY <1>3, WokenIsGoal DEF WakeCoolsDown, Governed, Eligible, Due
  <2>2. Cooldown - since[Woken] \in Nat
    <3>1. Cooldown \in Nat /\ since[Woken] \in 0..Cooldown
      BY <2>1, ConstantsAssumption DEF Typed, TypeOK
    <3> QED BY <3>1
  <2> QED BY <1>3, <2>2, RearmIsTyped DEF WakeCoolsDown, Governed, Eligible
<1>4. CASE WakeGranted
  <2>1. Due /\ runs' = [runs EXCEPT ![0] = @ + 1] /\ stage' = "stamp"
        /\ UNCHANGED <<flag, goals, job, queue, reg, arm, boot, counts, history>>
    BY <1>4 DEF WakeGranted, Governed, Eligible
  <2>2. runs' \in [0..Day -> Nat]
    <3>1. Day \in Nat /\ runs \in [0..Day -> Nat]
      BY ConstantsAssumption DEF Typed, TypeOK
    <3> QED BY <2>1, <3>1
  <2>3. TypeOK'
    BY <2>1, <2>2 DEF Typed, TypeOK, goals, counts, history
  <2> QED BY <2>1, <2>3 DEF Typed, OneEach, Named, Removing, Due
<1> QED BY <1>1, <1>2, <1>3, <1>4

LEMMA CyclesAreTyped ==
    ASSUME Typed, StampWake \/ RollWake \/ SessionFails \/ Dispatch \/ CycleEnds \/ CycleFails
    PROVE  Typed'
<1>1. Woken \in Goal /\ stage \in {"stamp", "roll", "dispatch", "cycle"}
  BY WokenIsGoal DEF Typed, OneEach, StampWake, RollWake, SessionFails, Dispatch, CycleEnds, CycleFails
<1>2. /\ Cooldown \in Nat /\ Every \in Nat /\ FailureThreshold \in Nat \ {0}
      /\ MaxMishaps \in Nat /\ MaxArms \in Nat /\ Day \in Nat
  BY ConstantsAssumption
<1>3. CASE StampWake
  <2>1. stage' = "roll" /\ since' \in [Goal -> 0..Cooldown]
    BY <1>1, <1>2, <1>3 DEF StampWake, Typed, TypeOK
  <2>2. UNCHANGED <<flag, status, due, failures, runs, job, queue, reg, arm, boot, counts, history>>
    BY <1>3 DEF StampWake
  <2>3. TypeOK'
    BY <2>1, <2>2 DEF Typed, TypeOK, counts, history
  <2> QED BY <1>1, <2>1, <2>2, <2>3 DEF Typed, OneEach, Named, Removing
<1>4. CASE RollWake
  <2>1. stage' = "dispatch" /\ due' \in [Goal -> Nat \cup {None}]
    BY <1>1, <1>2, <1>4 DEF RollWake, Typed, TypeOK
  <2>2. UNCHANGED <<flag, status, since, failures, runs, job, queue, reg, arm, boot, counts, history>>
    BY <1>4 DEF RollWake
  <2>3. TypeOK'
    BY <2>1, <2>2 DEF Typed, TypeOK, counts, history
  <2> QED BY <1>1, <2>1, <2>2, <2>3 DEF Typed, OneEach, Named, Removing
<1>5. CASE SessionFails
  <2>1. /\ stage' = "finish" /\ mishaps < MaxMishaps /\ mishaps' = mishaps + 1
        /\ UNCHANGED <<flag, goals, runs, job, queue, reg, arm, boot, arms, restarts, history>>
    BY <1>5 DEF SessionFails, Mishap
  <2>2. mishaps' \in 0..MaxMishaps
    BY <1>2, <2>1 DEF Typed, TypeOK
  <2>3. TypeOK'
    BY <2>1, <2>2 DEF Typed, TypeOK, goals, history
  <2> QED BY <1>1, <2>1, <2>3 DEF Typed, OneEach, Named, Removing
<1>6. CASE Dispatch
  <2>1. fired[Woken] + 1 \in Int /\ MaxArms + 1 \in Int /\ fired[Woken] \in 0..MaxArms + 1
    BY <1>1, <1>2 DEF Typed, TypeOK
  <2>2. Min({MaxArms + 1, fired[Woken] + 1}) \in 0..MaxArms + 1
    <3>1. Min({MaxArms + 1, fired[Woken] + 1})
            = IF MaxArms + 1 <= fired[Woken] + 1 THEN MaxArms + 1 ELSE fired[Woken] + 1
      BY <2>1, MinOfTwo
    <3> HIDE DEF Min
    <3> QED BY <1>2, <2>1, <3>1
  <2>3. /\ fired' \in [Goal -> 0..MaxArms + 1]
        /\ cycles' \in [0..Day -> Nat] /\ rested' \in [Goal -> 0..Cooldown]
    <3>1. fired' \in [Goal -> 0..MaxArms + 1]
      <4> HIDE DEF Min
      <4>0. 0 \in 0..MaxArms + 1
        BY <1>2
      <4> QED BY <1>1, <1>6, <2>2, <4>0 DEF Typed, TypeOK, Dispatch
    <3>2. cycles' \in [0..Day -> Nat]
      <4>1. 0 \in 0..Day /\ cycles \in [0..Day -> Nat] /\ cycles' = [cycles EXCEPT ![0] = @ + 1]
        BY <1>2, <1>6 DEF Typed, TypeOK, Dispatch
      <4> QED BY <4>1
    <3>3. rested' \in [Goal -> 0..Cooldown]
      <4>1. /\ 0 \in 0..Cooldown /\ rested \in [Goal -> 0..Cooldown]
            /\ rested' = [rested EXCEPT ![Woken] = 0]
        BY <1>2, <1>6 DEF Typed, TypeOK, Dispatch
      <4> QED BY <1>1, <4>1
    <3> QED BY <3>1, <3>2, <3>3
  <2>4. stage' = "cycle" /\ stage = "dispatch" /\ UNCHANGED <<flag, goals, runs, job, queue, reg, arm, boot, counts>>
    BY <1>6 DEF Dispatch
  <2>5. TypeOK'
    BY <2>3, <2>4 DEF Typed, TypeOK, goals, counts
  <2> QED BY <2>4, <2>5 DEF Typed, OneEach, Named, Removing
<1>7. CASE CycleEnds
  <2>1. stage' = "after" /\ failures' \in [Goal -> 0..FailureThreshold]
        /\ UNCHANGED <<flag, status, due, since, runs, job, queue, reg, arm, boot, counts, history>>
    BY <1>1, <1>2, <1>7 DEF CycleEnds, Typed, TypeOK
  <2>2. TypeOK'
    BY <2>1 DEF Typed, TypeOK, counts, history
  <2> QED BY <1>1, <2>1, <2>2 DEF Typed, OneEach, Named, Removing
<1>8. CASE CycleFails
  <2>1. failures[Woken] + 1 \in Int /\ FailureThreshold \in Int /\ failures[Woken] \in 0..FailureThreshold
    BY <1>1, <1>2 DEF Typed, TypeOK
  <2>2. Min({FailureThreshold, failures[Woken] + 1}) \in 0..FailureThreshold
    <3>1. Min({FailureThreshold, failures[Woken] + 1})
            = IF FailureThreshold <= failures[Woken] + 1 THEN FailureThreshold ELSE failures[Woken] + 1
      BY <2>1, MinOfTwo
    <3> HIDE DEF Min
    <3> QED BY <1>2, <2>1, <3>1
  <2>3. /\ failures' \in [Goal -> 0..FailureThreshold]
        /\ status' \in [Goal -> {"proposed", "active", "blocked", "resolved"}]
        /\ mishaps' \in 0..MaxMishaps
    <3>1. failures' \in [Goal -> 0..FailureThreshold]
      <4>1. failures' = [failures EXCEPT ![Woken] = Min({FailureThreshold, @ + 1})]
            /\ failures \in [Goal -> 0..FailureThreshold]
        BY <1>8 DEF Typed, TypeOK, CycleFails
      <4> HIDE DEF Min
      <4> QED BY <1>1, <2>2, <4>1
    <3>2. status' \in [Goal -> {"proposed", "active", "blocked", "resolved"}]
      BY <1>1, <1>8 DEF Typed, TypeOK, CycleFails
    <3>3. mishaps' \in 0..MaxMishaps
      <4>1. mishaps \in 0..MaxMishaps /\ mishaps < MaxMishaps /\ mishaps' = mishaps + 1
        BY <1>8 DEF Typed, TypeOK, CycleFails, Mishap
      <4> QED BY <1>2, <4>1
    <3> QED BY <3>1, <3>2, <3>3
  <2>4. stage' = "finish" /\ stage = "cycle"
        /\ UNCHANGED <<flag, due, since, runs, job, queue, reg, arm, boot, arms, restarts, history>>
    BY <1>8 DEF CycleFails
  <2> QED BY <2>3, <2>4 DEF Typed, TypeOK, OneEach, Named, Removing, history
<1> QED BY <1>3, <1>4, <1>5, <1>6, <1>7, <1>8

LEMMA RegisterIsTyped ==
    ASSUME Typed, NEW p \in Process, NEW g \in Goal, NEW wake \in Nat \cup {None},
           Register(p, g, wake)
    PROVE  /\ reg' \in [Process -> [stage : {"idle", "remove", "removed", "added"},
                            goal : Goal \cup {None}, in : Nat \cup {None},
                            found : SUBSET Job]]
           /\ reg'[p] = [stage |-> "remove", goal |-> g, in |-> wake, found |-> PendingJobs(g)]
           /\ \A q \in Process \ {p} : reg'[q] = reg[q]
<1>1. PendingJobs(g) \in SUBSET Job
  BY DEF PendingJobs
<1>2. [stage |-> "remove", goal |-> g, in |-> wake, found |-> PendingJobs(g)]
        \in [stage : {"idle", "remove", "removed", "added"},
             goal : Goal \cup {None}, in : Nat \cup {None}, found : SUBSET Job]
  BY <1>1
<1> QED BY <1>2 DEF Register, Typed, TypeOK

LEMMA RegistersAreTyped ==
    ASSUME Typed, RegisterNext \/ Finish \/ ArmRegisters \/ ArmActivates
    PROVE  Typed'
<1>1. CASE RegisterNext
  <2>1. Woken \in Goal
    BY <1>1, WokenIsGoal DEF RegisterNext, Typed, OneEach
  <2>2. due[Woken] \in Nat \cup {None}
    BY <2>1 DEF Typed, TypeOK
  <2>3. stage # "finish" /\ stage' = "finish" /\ stage # "none"
        /\ UNCHANGED <<flag, goals, runs, job, queue, arm, boot, counts, history>>
    BY <1>1 DEF RegisterNext
  <2>4. CASE Register("wake", Woken, due[Woken])
    <3>1. /\ reg' \in [Process -> [stage : {"idle", "remove", "removed", "added"},
                            goal : Goal \cup {None}, in : Nat \cup {None},
                            found : SUBSET Job]]
          /\ reg'["wake"] = [stage |-> "remove", goal |-> Woken, in |-> due[Woken],
                            found |-> PendingJobs(Woken)]
          /\ \A q \in Process \ {"wake"} : reg'[q] = reg[q]
      <4>1. "wake" \in Process
        BY DEF Process
      <4> HIDE DEF Process, Register
      <4> QED BY <2>1, <2>2, <2>4, <4>1, RegisterIsTyped
    <3>2. TypeOK'
      BY <2>3, <3>1 DEF Typed, TypeOK, goals, counts, history
    <3>3. OneEach'
      BY <2>3, <3>1 DEF Typed, OneEach, Process
    <3>4. Named'
      BY <2>1, <2>3, <3>1 DEF Typed, Named, Removing
    <3> QED BY <3>2, <3>3, <3>4 DEF Typed
  <2>5. CASE UNCHANGED reg
    BY <2>3, <2>5 DEF Typed, TypeOK, OneEach, Named, Removing, goals, counts, history
  <2> QED BY <1>1, <2>4, <2>5 DEF RegisterNext
<1>2. CASE Finish
  <2>1. queue # <<>>
    BY <1>2 DEF Finish, Typed, OneEach
  <2>2. queue' \in Seq({"timer", "boot"} \X Goal)
    BY <1>2, <2>1, HeadTailProperties DEF Finish, Typed, TypeOK
  <2>3. boot' \in [stage : {"idle", "scan", "next", "remove", "wait"},
                 goal : Goal \cup {None}, todo : [Goal -> Nat \cup {None}]]
        /\ (boot'.stage = "remove" => boot' = boot)
    BY <1>2 DEF Finish, Typed, TypeOK
  <2>4. stage' = "none" /\ reg["wake"].stage = "idle"
        /\ UNCHANGED <<flag, goals, runs, job, reg, arm, counts, history>>
    BY <1>2 DEF Finish
  <2> QED BY <2>2, <2>3, <2>4
      DEF Typed, TypeOK, OneEach, Named, Removing, goals, counts, history
<1>3. CASE ArmRegisters
  <2>1. arm[2] \in Goal /\ arm[1] # "idle"
    BY <1>3 DEF ArmRegisters, Typed, TypeOK
  <2>2. due[arm[2]] \in Nat \cup {None}
    BY <2>1 DEF Typed, TypeOK
  <2>3. arm' = <<"idle", None>>
        /\ UNCHANGED <<flag, goals, runs, job, queue, stage, boot, counts, history>>
    BY <1>3 DEF ArmRegisters
  <2>4. CASE Register("arm", arm[2], due[arm[2]])
    <3>1. /\ reg' \in [Process -> [stage : {"idle", "remove", "removed", "added"},
                            goal : Goal \cup {None}, in : Nat \cup {None},
                            found : SUBSET Job]]
          /\ reg'["arm"] = [stage |-> "remove", goal |-> arm[2], in |-> due[arm[2]],
                            found |-> PendingJobs(arm[2])]
          /\ \A q \in Process \ {"arm"} : reg'[q] = reg[q]
      <4>1. "arm" \in Process
        BY DEF Process
      <4> HIDE DEF Process, Register
      <4> QED BY <2>1, <2>2, <2>4, <4>1, RegisterIsTyped
    <3>2. TypeOK'
      BY <2>3, <3>1 DEF Typed, TypeOK, goals, counts, history
    <3>3. OneEach'
      BY <2>3, <3>1 DEF Typed, OneEach, Process
    <3>4. Named'
      BY <2>1, <2>3, <3>1 DEF Typed, Named, Removing
    <3> QED BY <3>2, <3>3, <3>4 DEF Typed
  <2>5. CASE UNCHANGED reg
    BY <2>3, <2>5 DEF Typed, TypeOK, OneEach, Named, Removing, goals, counts, history
  <2> QED BY <1>3, <2>4, <2>5 DEF ArmRegisters
<1>4. CASE ArmActivates
  <2>1. arm[2] \in Goal /\ arm[1] # "idle"
    BY <1>4 DEF ArmActivates, Typed, TypeOK
  <2>2. arm' = <<"read", arm[2]>> /\ status' = [status EXCEPT ![arm[2]] = "active"]
        /\ UNCHANGED <<flag, due, since, failures, runs, job, queue, stage, reg, boot, counts, history>>
    BY <1>4 DEF ArmActivates
  <2> QED BY <2>1, <2>2 DEF Typed, TypeOK, OneEach, Named, Removing, counts, history
<1> QED BY <1>1, <1>2, <1>3, <1>4

\* The types of what the scheduler and the registrations change.
LEMMA JobsAreTyped ==
    ASSUME Typed, NEW j \in Job, TimerFires(j) \/ JobStarts(j)
    PROVE  Typed'
<1>1. job \in [Job -> Booking]
  BY DEF Typed, TypeOK, Booking
<1>2. CASE TimerFires(j)
  <2>1. /\ job' \in [Job -> Booking]
        /\ \A k \in Job : Alive(job'[k]) => Alive(job[k]) /\ job'[k].goal = job[k].goal
    BY <1>1, <1>2 DEF TimerFires, Booking, Alive
  <2>2. UNCHANGED <<flag, goals, runs, queue, stage, reg, arm, boot, counts, history>>
    BY <1>2 DEF TimerFires
  <2>3. TypeOK'
    BY <2>1, <2>2 DEF Typed, TypeOK, Booking, goals, counts, history
  <2>4. Named'
    BY <2>1, <2>2 DEF Typed, Named, Removing
  <2> QED BY <2>2, <2>3, <2>4 DEF Typed, OneEach
<1>3. CASE JobStarts(j)
  <2>1. /\ job' = Saved([job EXCEPT ![j].state = "free"])
        /\ queue' = Append(queue, <<"timer", job[j].goal>>)
        /\ UNCHANGED <<flag, goals, runs, stage, reg, arm, boot, counts, history>>
        /\ Alive(job[j])
    BY <1>3 DEF JobStarts, Alive
  <2>2. /\ [job EXCEPT ![j].state = "free"] \in [Job -> Booking]
        /\ \A k \in Job : [job EXCEPT ![j].state = "free"][k].goal = job[k].goal
        /\ \A k \in Job : Alive([job EXCEPT ![j].state = "free"][k]) => Alive(job[k])
    BY <1>1 DEF Booking, Alive
  <2>3. /\ job' \in [Job -> Booking]
        /\ \A k \in Job : Alive(job'[k]) => Alive(job[k]) /\ job'[k].goal = job[k].goal
    BY <2>1, <2>2, SavedIsAlike DEF Alike
  <2>4. queue' \in Seq({"timer", "boot"} \X Goal) /\ queue' # <<>>
    <3>1. job[j].goal \in Goal /\ queue \in Seq({"timer", "boot"} \X Goal)
      BY <2>1 DEF Typed, TypeOK, Named
    <3>2. <<"timer", job[j].goal>> \in {"timer", "boot"} \X Goal
      BY <3>1
    <3> QED BY <2>1, <3>1, <3>2, AppendProperties
  <2>5. TypeOK'
    BY <2>1, <2>3, <2>4 DEF Typed, TypeOK, Booking, goals, counts, history
  <2>6. Named'
    BY <2>1, <2>3 DEF Typed, Named, Removing
  <2> QED BY <2>1, <2>4, <2>5, <2>6 DEF Typed, OneEach
<1> QED BY <1>2, <1>3

LEMMA RegistrationsAreTyped ==
    ASSUME Typed, NEW p \in Process,
           RemoveJob(p) \/ AddJob(p) \/ RemovalEnds(p) \/ JobAdded(p)
    PROVE  Typed'
<1>1. TypeOK /\ job \in [Job -> Booking]
      /\ reg \in [Process -> [stage : {"idle", "remove", "removed", "added"},
                              goal : Goal \cup {None}, in : Nat \cup {None},
                              found : SUBSET Job]]
  BY DEF Typed, TypeOK, Booking
<1>2. /\ UNCHANGED <<flag, goals, runs, queue, stage, arm, boot, counts, history>>
      /\ reg[p].stage # "idle"
  BY DEF RemoveJob, AddJob, RemovalEnds, JobAdded, Removing
<1>3. ASSUME /\ job' \in [Job -> Booking]
             /\ \A k \in Job : Alive(job'[k]) => job'[k].goal \in Goal
             /\ reg' \in [Process -> [stage : {"idle", "remove", "removed", "added"},
                              goal : Goal \cup {None}, in : Nat \cup {None},
                              found : SUBSET Job]]
             /\ \A q \in Process \ {p} : reg'[q] = reg[q]
             /\ reg'[p].stage \in {"remove", "removed"} => reg'[p].goal = reg[p].goal /\ Removing(p)
      PROVE  Typed'
  <2>1. TypeOK'
    BY <1>1, <1>2, <1>3 DEF TypeOK, Booking, goals, counts, history
  <2>2. OneEach'
    BY <1>2, <1>3 DEF Typed, OneEach, Process
  <2>3. Named'
    BY <1>2, <1>3 DEF Typed, Named, Removing
  <2> QED BY <2>1, <2>2, <2>3 DEF Typed
<1>4. \A k \in Job : Alive(job[k]) => job[k].goal \in Goal
  BY DEF Typed, Named
<1>5. CASE RemoveJob(p)
  <2>1. PICK j \in StillPending(p) :
              /\ j \in Job
              /\ job' \in [Job -> Booking] /\ job'[j].state = "free"
              /\ \A k \in Job : /\ Alive(job'[k]) => /\ Alive(job[k])
                                                     /\ job'[k].goal = job[k].goal
                                                     /\ job'[k].in = job[k].in
                                /\ k # j => /\ job'[k].state = job[k].state
                                            /\ Alive(job'[k]) => job'[k].armed = job[k].armed
              /\ reg' = [reg EXCEPT ![p].found = @ \ {j}, ![p].stage = "removed"]
    BY <1>1, <1>5, RemoveJobFrees
  <2>2. \A k \in Job : Alive(job'[k]) => job'[k].goal \in Goal
    BY <1>4, <2>1
  <2>3. Removing(p)
    BY <1>5 DEF RemoveJob
  <2>4. /\ reg' \in [Process -> [stage : {"idle", "remove", "removed", "added"},
                              goal : Goal \cup {None}, in : Nat \cup {None},
                              found : SUBSET Job]]
        /\ \A q \in Process \ {p} : reg'[q] = reg[q]
        /\ reg'[p].goal = reg[p].goal
    <3> DEFINE r == [reg[p] EXCEPT !.found = @ \ {j}, !.stage = "removed"]
    <3>1. reg' = [reg EXCEPT ![p] = r]
      BY <1>1, <2>1
    <3>2. /\ r \in [stage : {"idle", "remove", "removed", "added"},
                     goal : Goal \cup {None}, in : Nat \cup {None}, found : SUBSET Job]
          /\ r.goal = reg[p].goal
      BY <1>1
    <3> HIDE DEF r
    <3> QED BY <1>1, <3>1, <3>2
  <2> QED BY <1>3, <2>1, <2>2, <2>3, <2>4
<1>6. CASE AddJob(p)
  <2>1. PICK j \in Job : AddsJob(p, j)
    BY <1>1, <1>6, AddJobTakesSlot
  <2>2. reg[p].goal \in Goal
    BY <2>1 DEF AddsJob, Typed, Named
  <2>3. /\ job' \in [Job -> Booking]
        /\ \A k \in Job : Alive(job'[k]) => job'[k].goal \in Goal
    <3>1. Alike([job EXCEPT ![j] = job'[j]], job') /\ job'[j].goal = reg[p].goal
      BY <2>1 DEF AddsJob
    <3> QED BY <1>1, <1>4, <2>2, <3>1 DEF Alike
  <2>4. reg' = [reg EXCEPT ![p].stage = "added", ![p].found = {j}]
    BY <2>1 DEF AddsJob
  <2>5. /\ reg' \in [Process -> [stage : {"idle", "remove", "removed", "added"},
                              goal : Goal \cup {None}, in : Nat \cup {None},
                              found : SUBSET Job]]
        /\ \A q \in Process \ {p} : reg'[q] = reg[q]
        /\ reg'[p].stage = "added"
    <3> DEFINE r == [reg[p] EXCEPT !.stage = "added", !.found = {j}]
    <3>1. reg' = [reg EXCEPT ![p] = r]
      BY <1>1, <2>4
    <3>2. /\ r \in [stage : {"idle", "remove", "removed", "added"},
                     goal : Goal \cup {None}, in : Nat \cup {None}, found : SUBSET Job]
          /\ r.stage = "added"
      BY <1>1
    <3> HIDE DEF r
    <3> QED BY <1>1, <3>1, <3>2
  <2> QED BY <1>3, <2>3, <2>5
<1>7. ASSUME reg' = [reg EXCEPT ![p] = Idle]
      PROVE  /\ reg' \in [Process -> [stage : {"idle", "remove", "removed", "added"},
                              goal : Goal \cup {None}, in : Nat \cup {None},
                              found : SUBSET Job]]
             /\ \A q \in Process \ {p} : reg'[q] = reg[q]
             /\ reg'[p].stage = "idle"
  BY <1>1, <1>7 DEF Idle
<1>8. CASE RemovalEnds(p)
  <2>1. Alike(job, job')
    BY <1>1, <1>8, LandedIsAlike DEF RemovalEnds
  <2>2. job' \in [Job -> Booking] /\ \A k \in Job : Alive(job'[k]) => job'[k].goal \in Goal
    BY <1>4, <2>1 DEF Alike
  <2>3. reg' = [reg EXCEPT ![p] = Idle]
    BY <1>8 DEF RemovalEnds
  <2> QED BY <1>3, <1>7, <2>2, <2>3
<1>9. CASE JobAdded(p)
  <2>1. Alike(job, Saved(job))
    BY <1>1, SavedIsAlike
  <2>2. /\ job' \in [Job -> Booking]
        /\ \A k \in Job : job'[k].goal = Saved(job)[k].goal /\ job'[k].state = Saved(job)[k].state
                          /\ job'[k].onDisk = Saved(job)[k].onDisk
    <3>1. Saved(job) \in [Job -> Booking]
      BY <2>1 DEF Alike
    <3>2. job' = [k \in Job |-> [Saved(job)[k] EXCEPT
                  !.armed = @ \/ (k \in reg[p].found /\ job[k].state = "pending")]]
      BY <1>9 DEF JobAdded
    <3>3. ASSUME NEW k \in Job
          PROVE  /\ job'[k] = [Saved(job)[k] EXCEPT
                     !.armed = Saved(job)[k].armed \/ (k \in reg[p].found /\ job[k].state = "pending")]
                 /\ Saved(job)[k] \in Booking
      BY <3>1, <3>2
    <3>4. ASSUME NEW k \in Job PROVE job'[k] \in Booking
      <4>1. Saved(job)[k].armed \/ (k \in reg[p].found /\ job[k].state = "pending") \in BOOLEAN
        OBVIOUS
      <4> QED BY <3>3, <4>1 DEF Booking
    <3>5. job' \in [Job -> Booking]
      BY <3>2, <3>4
    <3> QED BY <3>3, <3>5 DEF Booking
  <2>3. \A k \in Job : Alive(job'[k]) => job'[k].goal \in Goal
    BY <1>4, <2>1, <2>2 DEF Alike, Alive
  <2>4. reg' = [reg EXCEPT ![p] = Idle]
    BY <1>9 DEF JobAdded
  <2> QED BY <1>3, <1>7, <2>2, <2>3, <2>4
<1> QED BY <1>5, <1>6, <1>8, <1>9

LEMMA StartsAreTyped ==
    ASSUME Typed, CrashRestart \/ BootScans \/ BootWakes \/ BootEnds \/ \E g \in Goal : BootTakes(g)
    PROVE  Typed'
<1>1. CASE CrashRestart
  <2>1. /\ restarts < MaxRestarts /\ restarts' = restarts + 1
        /\ job' = [j \in Job |-> IF job[j].onDisk
                             THEN [job[j] EXCEPT !.state = "pending", !.armed = TRUE]
                             ELSE NoJob]
        /\ queue' = <<>> /\ stage' = "none"
        /\ reg' = [p \in Process |-> Idle]
        /\ arm' = <<"idle", None>>
        /\ boot' = [stage |-> "scan", goal |-> None, todo |-> [g \in Goal |-> None]]
        /\ UNCHANGED <<flag, goals, runs, arms, mishaps, history>>
    BY <1>1 DEF CrashRestart
  <2>2. restarts' \in 0..MaxRestarts
    <3>1. MaxRestarts \in Nat /\ restarts \in 0..MaxRestarts
      BY ConstantsAssumption DEF Typed, TypeOK
    <3>2. restarts < MaxRestarts /\ restarts' = restarts + 1
      BY <2>1
    <3> QED BY <3>1, <3>2
  <2>3. job \in [Job -> Booking]
    BY DEF Typed, TypeOK, Booking
  <2>4. ASSUME NEW j \in Job
        PROVE  /\ job'[j] \in Booking
               /\ Alive(job'[j]) => Alive(job[j]) /\ job'[j].goal = job[j].goal
    <3>1. CASE job[j].onDisk
      <4>1. job'[j] = [job[j] EXCEPT !.state = "pending", !.armed = TRUE]
        BY <2>1, <3>1
      <4> QED BY <2>3, <3>1, <4>1 DEF Booking, Alive
    <3>2. CASE ~job[j].onDisk
      <4>1. job'[j] = NoJob
        BY <2>1, <3>2
      <4> QED BY <4>1 DEF Booking, NoJob, Alive
    <3> QED BY <3>1, <3>2
  <2>5. job' \in [Job -> Booking]
    BY <2>1, <2>4
  <2>6. /\ reg' \in [Process -> [stage : {"idle", "remove", "removed", "added"},
                            goal : Goal \cup {None}, in : Nat \cup {None},
                            found : SUBSET Job]]
        /\ \A p \in Process : reg'[p].stage = "idle"
    BY <2>1 DEF Idle
  <2>7. /\ boot' \in [stage : {"idle", "scan", "next", "remove", "wait"},
                 goal : Goal \cup {None}, todo : [Goal -> Nat \cup {None}]]
        /\ boot'.stage = "scan"
    BY <2>1
  <2>8. queue' \in Seq({"timer", "boot"} \X Goal)
    <3>1. queue' = <<>>
      BY <2>1
    <3> QED BY <3>1
  <2>9. TypeOK'
    BY <2>1, <2>2, <2>5, <2>6, <2>7, <2>8 DEF Typed, TypeOK, Booking, goals, history
  <2>10. Named'
    BY <2>4, <2>6, <2>7 DEF Typed, Named, Removing
  <2> QED BY <2>1, <2>6, <2>9, <2>10 DEF Typed, OneEach, Process
<1>2. CASE BootScans
  <2>1. /\ boot' = [stage |-> "next", goal |-> None,
                todo |-> [g \in Goal |-> IF status[g] = "active" THEN due[g] ELSE None]]
        /\ UNCHANGED <<flag, goals, runs, job, queue, stage, reg, arm, counts, history>>
    BY <1>2 DEF BootScans
  <2>2. /\ boot' \in [stage : {"idle", "scan", "next", "remove", "wait"},
                 goal : Goal \cup {None}, todo : [Goal -> Nat \cup {None}]]
        /\ boot'.stage = "next"
    BY <2>1 DEF Typed, TypeOK
  <2> QED BY <2>1, <2>2 DEF Typed, TypeOK, OneEach, Named, Removing, goals, counts, history
<1>3. CASE BootWakes
  <2>1. /\ boot.stage = "remove"
        /\ queue' = Append(queue, <<"boot", boot.goal>>)
        /\ boot' = [boot EXCEPT !.stage = "wait"]
        /\ UNCHANGED <<flag, goals, runs, job, stage, reg, arm, counts, history>>
    BY <1>3 DEF BootWakes
  <2>2. queue' \in Seq({"timer", "boot"} \X Goal) /\ queue' # <<>>
    <3>1. boot.goal \in Goal /\ queue \in Seq({"timer", "boot"} \X Goal)
      BY <2>1 DEF Typed, TypeOK, Named
    <3>2. <<"boot", boot.goal>> \in {"timer", "boot"} \X Goal
      BY <3>1
    <3> QED BY <2>1, <3>1, <3>2, AppendProperties
  <2>3. /\ boot' \in [stage : {"idle", "scan", "next", "remove", "wait"},
                 goal : Goal \cup {None}, todo : [Goal -> Nat \cup {None}]]
        /\ boot'.stage = "wait"
    BY <2>1 DEF Typed, TypeOK
  <2>4. TypeOK'
    BY <2>1, <2>2, <2>3 DEF Typed, TypeOK, goals, counts, history
  <2> QED BY <2>1, <2>2, <2>3, <2>4 DEF Typed, OneEach, Named, Removing
<1>4. CASE BootEnds
  <2>1. /\ boot' = [boot EXCEPT !.stage = "idle", !.goal = None]
        /\ UNCHANGED <<flag, goals, runs, job, queue, stage, reg, arm, counts, history>>
    BY <1>4 DEF BootEnds
  <2>2. /\ boot' \in [stage : {"idle", "scan", "next", "remove", "wait"},
                 goal : Goal \cup {None}, todo : [Goal -> Nat \cup {None}]]
        /\ boot'.stage = "idle"
    BY <2>1 DEF Typed, TypeOK
  <2> QED BY <2>1, <2>2 DEF Typed, TypeOK, OneEach, Named, Removing, goals, counts, history
<1>5. ASSUME NEW g \in Goal, BootTakes(g) PROVE Typed'
  <2>1. UNCHANGED <<flag, goals, runs, job, queue, stage, arm, counts, history>>
        /\ boot.stage = "next" /\ boot.todo[g] # None
    BY <1>5 DEF BootTakes
  <2>2. PICK wake \in Nat \cup {None} :
          /\ Register("boot", g, wake)
          /\ \/ boot' = [boot EXCEPT !.stage = "remove", !.goal = g, !.todo[g] = None]
             \/ boot' = [boot EXCEPT !.todo[g] = None]
    <3>1. boot.todo[g] \in Nat \cup {None}
      BY DEF Typed, TypeOK
    <3> QED BY <1>5, <3>1 DEF BootTakes
  <2>3. /\ reg' \in [Process -> [stage : {"idle", "remove", "removed", "added"},
                            goal : Goal \cup {None}, in : Nat \cup {None},
                            found : SUBSET Job]]
        /\ reg'["boot"] = [stage |-> "remove", goal |-> g, in |-> wake,
                           found |-> PendingJobs(g)]
        /\ \A q \in Process \ {"boot"} : reg'[q] = reg[q]
    <3>1. "boot" \in Process
      BY DEF Process
    <3> HIDE DEF Process, Register
    <3> QED BY <2>2, <3>1, RegisterIsTyped
  <2>4. /\ boot' \in [stage : {"idle", "scan", "next", "remove", "wait"},
                 goal : Goal \cup {None}, todo : [Goal -> Nat \cup {None}]]
        /\ boot'.stage = "remove" => boot'.goal = g
    <3>1. /\ boot \in [stage : {"idle", "scan", "next", "remove", "wait"},
                 goal : Goal \cup {None}, todo : [Goal -> Nat \cup {None}]]
          /\ boot.stage = "next"
      BY <2>1 DEF Typed, TypeOK
    <3>2. CASE boot' = [boot EXCEPT !.stage = "remove", !.goal = g, !.todo[g] = None]
      BY <3>1, <3>2
    <3>3. CASE boot' = [boot EXCEPT !.todo[g] = None]
      BY <3>1, <3>3
    <3> QED BY <2>2, <3>2, <3>3
  <2>5. TypeOK'
    BY <2>1, <2>3, <2>4 DEF Typed, TypeOK, goals, counts, history
  <2>6. OneEach'
    BY <2>1, <2>3 DEF Typed, OneEach, Process
  <2>7. Named'
    BY <2>1, <2>3, <2>4 DEF Typed, Named, Removing
  <2> QED BY <2>5, <2>6, <2>7 DEF Typed
<1> QED BY <1>1, <1>2, <1>3, <1>4, <1>5

LEMMA OwnersStepsAreTyped ==
    ASSUME Typed,
           \/ SwitchOff \/ SwitchOn
           \/ \E g \in Goal : Block(g) \/ Activate(g) \/ Resolve(g)
           \/ \E g \in Goal, d \in Delays : ArmGoal(g, d)
    PROVE  Typed'
<1>1. Mishap => mishaps' \in 0..MaxMishaps
  <2>1. MaxMishaps \in Nat /\ mishaps \in 0..MaxMishaps
    BY ConstantsAssumption DEF Typed, TypeOK
  <2> QED BY <2>1 DEF Mishap
<1>2. CASE SwitchOff
  BY <1>1, <1>2 DEF SwitchOff, Typed, TypeOK, OneEach, Named, Removing, goals, history
<1>3. CASE SwitchOn
  BY <1>3 DEF SwitchOn, Typed, TypeOK, OneEach, Named, Removing, goals, counts, history
<1>4. ASSUME NEW g \in Goal, Block(g) \/ Activate(g) \/ Resolve(g) PROVE Typed'
  <2>1. mishaps' \in 0..MaxMishaps
    <3>1. mishaps \in 0..MaxMishaps
      BY DEF Typed, TypeOK
    <3> QED BY <1>1, <1>4, <3>1 DEF Block, Activate, Resolve
  <2>2. status' \in [Goal -> {"proposed", "active", "blocked", "resolved"}]
    <3>1. status \in [Goal -> {"proposed", "active", "blocked", "resolved"}]
      BY DEF Typed, TypeOK
    <3>2. \/ status' = [status EXCEPT ![g] = "blocked"]
          \/ status' = [status EXCEPT ![g] = "active"]
          \/ status' = [status EXCEPT ![g] = "resolved"]
      BY <1>4 DEF Block, Activate, Resolve
    <3> QED BY <3>1, <3>2
  <2>3. UNCHANGED <<flag, due, since, failures, runs, job, queue, stage, reg, arm, boot,
                   arms, restarts, history>>
    BY <1>4 DEF Block, Activate, Resolve
  <2>4. TypeOK'
    BY <2>1, <2>2, <2>3 DEF Typed, TypeOK, history
  <2> QED BY <2>3, <2>4 DEF Typed, OneEach, Named, Removing
<1>5. ASSUME NEW g \in Goal, NEW d \in Delays, ArmGoal(g, d) PROVE Typed'
  <2>1. /\ reg["arm"].stage = "idle"
        /\ arms' = [arms EXCEPT ![g] = @ + 1]
        /\ due' = [due EXCEPT ![g] = d]
        /\ arm' = <<IF status[g] = "proposed" THEN "activate" ELSE "read", g>>
        /\ UNCHANGED <<flag, status, since, failures, runs, job, queue, stage, reg, boot,
                   restarts, mishaps, history>>
    BY <1>5 DEF ArmGoal
  <2>2. d \in Nat
    BY ConstantsAssumption
  <2>3. /\ arms' \in [Goal -> Nat] /\ due' \in [Goal -> Nat \cup {None}]
        /\ arm' \in {"activate", "read"} \X Goal
    <3>1. arms \in [Goal -> Nat] /\ due \in [Goal -> Nat \cup {None}]
      BY DEF Typed, TypeOK
    <3>2. arms' \in [Goal -> Nat]
      BY <2>1, <3>1
    <3>3. due' \in [Goal -> Nat \cup {None}]
      BY <2>1, <2>2, <3>1
    <3> QED BY <2>1, <3>2, <3>3
  <2>4. TypeOK'
    BY <2>1, <2>3 DEF Typed, TypeOK, history
  <2> QED BY <2>1, <2>4 DEF Typed, OneEach, Named, Removing
<1> QED BY <1>2, <1>3, <1>4, <1>5

LEMMA TypedStep == Typed /\ [Next]_vars => Typed'
<1> SUFFICES ASSUME Typed, [Next]_vars PROVE Typed'
  OBVIOUS
<1>1. CASE UNCHANGED vars
  <2>1. TypeOK'
    BY <1>1 DEF vars, goals, counts, history, Typed, TypeOK
  <2>2. OneEach'
    BY <1>1 DEF vars, Typed, OneEach
  <2>3. Named'
    BY <1>1 DEF vars, Typed, Named, Removing, Alive
  <2> QED BY <2>1, <2>2, <2>3 DEF Typed
<1>2. CASE Tick  BY <1>2, TickIsTyped
<1>3. ASSUME NEW j \in Job, TimerFires(j) \/ JobStarts(j) PROVE Typed'
  BY <1>3, JobsAreTyped
<1>4. ASSUME NEW p \in Process, RemoveJob(p) \/ AddJob(p) \/ RemovalEnds(p) \/ JobAdded(p)
      PROVE  Typed'
  BY <1>4, RegistrationsAreTyped
<1>5. CASE WakeIgnored \/ WakeCapped \/ WakeCoolsDown \/ WakeGranted  BY <1>5, SkipsAreTyped
<1>6. CASE StampWake \/ RollWake \/ SessionFails \/ Dispatch \/ CycleEnds \/ CycleFails
  BY <1>6, CyclesAreTyped
<1>7. CASE RegisterNext \/ Finish \/ ArmRegisters \/ ArmActivates  BY <1>7, RegistersAreTyped
<1>8. CASE CrashRestart \/ BootScans \/ BootWakes \/ BootEnds \/ \E g \in Goal : BootTakes(g)
  BY <1>8, StartsAreTyped
<1>9. CASE \/ SwitchOff \/ SwitchOn
           \/ \E g \in Goal : Block(g) \/ Activate(g) \/ Resolve(g)
           \/ \E g \in Goal, d \in Delays : ArmGoal(g, d)
  BY <1>9, OwnersStepsAreTyped
<1> QED BY <1>1, <1>2, <1>3, <1>4, <1>5, <1>6, <1>7, <1>8, <1>9 DEF Next

\* The goals, the jobs and what is under way keep their types, for any bounds.
THEOREM TypeCorrect == Spec => []TypeOK
<1>1. Typed => TypeOK
  BY DEF Typed
<1> QED BY TypedInit, TypedStep, <1>1, PTL DEF Spec

-----------------------------------------------------------------------------
(* The caps and the cooldown                                               *)

\* The wake at work stays at the head of the chain when others join it.
LEMMA JoiningTheChain ==
    ASSUME Typed, queue # <<>>, NEW caller \in {"timer", "boot"}, NEW g \in Goal,
           queue' = Append(queue, <<caller, g>>)
    PROVE  Woken' = Woken
<1>1. queue \in Seq({"timer", "boot"} \X Goal) /\ <<caller, g>> \in {"timer", "boot"} \X Goal
  BY DEF Typed, TypeOK
<1>2. Head(queue') = Head(queue)
  <2>1. Len(queue) \in Nat /\ Len(queue) >= 1
    BY <1>1, EmptySeq, LenProperties
  <2>2. Append(queue, <<caller, g>>)[1] = queue[1]
    BY <1>1, <2>1, AppendProperties
  <2> QED BY <1>1, <2>1, <2>2, HeadTailProperties, AppendProperties
<1> QED BY <1>2 DEF Woken

\* The steps that change neither the stamps nor the cooldown: they begin no
\* stage that leads to a dispatch, and leave the wake at work alone.
Apart ==
    /\ UNCHANGED <<runs, cycles, since, rested>>
    /\ stage' = "stamp" => stage = "stamp"
    /\ stage' \in {"roll", "dispatch"} => stage \in {"roll", "dispatch"}
    /\ stage' \in {"stamp", "roll", "dispatch"} => Woken' = Woken

LEMMA OthersAreApart ==
    ASSUME Typed, [Next]_vars
    PROVE  Tick \/ WakeGranted \/ StampWake \/ Dispatch \/ Apart
<1>1. CASE UNCHANGED vars
  BY <1>1 DEF vars, goals, history, Apart, Woken
<1>2. ASSUME NEW j \in Job, TimerFires(j) PROVE Apart
  BY <1>2 DEF TimerFires, goals, history, Apart, Woken
<1>3. ASSUME NEW j \in Job, JobStarts(j) PROVE Apart
  <2>1. /\ queue' = Append(queue, <<"timer", job[j].goal>>)
        /\ UNCHANGED <<flag, goals, runs, stage, reg, arm, boot, counts, history>>
        /\ Alive(job[j])
    BY <1>3 DEF JobStarts, Alive
  <2>2. job[j].goal \in Goal
    BY <2>1 DEF Typed, Named
  <2>3. stage # "none" => Woken' = Woken
    BY <2>1, <2>2, JoiningTheChain DEF Typed, OneEach
  <2> QED BY <2>1, <2>3 DEF Apart, goals, history
<1>4. ASSUME NEW p \in Process, RemoveJob(p) \/ AddJob(p) \/ RemovalEnds(p) \/ JobAdded(p)
      PROVE  Apart
  BY <1>4 DEF RemoveJob, AddJob, RemovalEnds, JobAdded, goals, history, Apart, Woken
<1>5. CASE WakeIgnored \/ WakeCapped \/ WakeCoolsDown
  BY <1>5 DEF WakeIgnored, WakeCapped, WakeCoolsDown, Rearm, goals, history, Apart
<1>6. CASE RollWake
  BY <1>6 DEF RollWake, history, Apart, Woken
<1>7. CASE SessionFails \/ CycleEnds \/ CycleFails \/ RegisterNext \/ Finish
  BY <1>7 DEF SessionFails, CycleEnds, CycleFails, RegisterNext, Finish, goals, history, Apart
<1>8. CASE ArmRegisters \/ ArmActivates
  BY <1>8 DEF ArmRegisters, ArmActivates, goals, history, Apart, Woken
<1>9. CASE CrashRestart
  BY <1>9 DEF CrashRestart, goals, history, Apart
<1>10. CASE BootWakes
  <2>1. /\ queue' = Append(queue, <<"boot", boot.goal>>) /\ boot.stage = "remove"
        /\ UNCHANGED <<flag, goals, runs, job, stage, reg, arm, counts, history>>
    BY <1>10 DEF BootWakes
  <2>2. boot.goal \in Goal
    BY <2>1 DEF Typed, Named
  <2>3. stage # "none" => Woken' = Woken
    BY <2>1, <2>2, JoiningTheChain DEF Typed, OneEach
  <2> QED BY <2>1, <2>3 DEF Apart, goals, history
<1>11. CASE BootScans \/ BootEnds \/ \E g \in Goal : BootTakes(g)
  BY <1>11 DEF BootScans, BootEnds, BootTakes, goals, history, Apart, Woken
<1>12. CASE \/ SwitchOff \/ SwitchOn
            \/ \E g \in Goal : Block(g) \/ Activate(g) \/ Resolve(g)
            \/ \E g \in Goal, d \in Delays : ArmGoal(g, d)
  BY <1>12 DEF SwitchOff, SwitchOn, Block, Activate, Resolve, ArmGoal, goals, history, Apart, Woken
<1> QED BY <1>1, <1>2, <1>3, <1>4, <1>5, <1>6, <1>7, <1>8, <1>9, <1>10, <1>11, <1>12 DEF Next

LEMMA BudgetedInit == Init => Budgeted
<1> SUFFICES ASSUME Init PROVE Budgeted
  OBVIOUS
<1>1. /\ Hour \in Nat /\ Day \in Nat /\ Hour <= Day /\ MaxPerHour \in Nat /\ MaxPerDay \in Nat
  BY ConstantsAssumption
<1>2. runs = [n \in 0..Day |-> 0] /\ cycles = [n \in 0..Day |-> 0] /\ stage = "none"
  BY DEF Init
<1>3. Count(runs, Hour) = 0 /\ Count(runs, Day) = 0
  BY <1>1, <1>2, NothingCounted
<1> QED BY <1>1, <1>2, <1>3 DEF Budgeted

LEMMA BudgetedStep == Typed /\ Budgeted /\ [Next]_vars => Budgeted'
<1> SUFFICES ASSUME Typed, Budgeted, [Next]_vars PROVE Budgeted'
  OBVIOUS
<1>1. /\ Hour \in 0..Day /\ Day \in 0..Day /\ Day \in Nat
      /\ MaxPerHour \in Nat /\ MaxPerDay \in Nat
  BY ConstantsAssumption
<1>2. runs \in [0..Day -> Nat] /\ cycles \in [0..Day -> Nat] /\ 0 \in 0..Day
  BY <1>1 DEF Typed, TypeOK
<1>3. runs' \in [0..Day -> Nat] /\ cycles' \in [0..Day -> Nat]
  BY <1>1, TypedStep DEF Typed, TypeOK
<1>4. \A window \in {Hour, Day} : /\ Count(runs, window) \in Nat
                                  /\ Count(runs', window) \in Nat
  <2>1. \A window \in {Hour, Day} : window \in Nat /\ 0..window \subseteq 0..Day
    BY <1>1
  <2>2. \A window \in {Hour, Day} : \A n \in 0..window : runs[n] \in Nat /\ runs'[n] \in Nat
    BY <1>2, <1>3, <2>1
  <2> QED BY <2>1, <2>2, StampsAreFinite
<1>5. CASE Tick
  <2>1. runs' = Passed(runs) /\ cycles' = Passed(cycles) /\ stage' = stage
        /\ stage \in {"none", "cycle"}
    BY <1>5 DEF Tick, Working
  <2>2. Count(runs', Hour) <= Count(runs, Hour) /\ Count(runs', Day) <= Count(runs, Day)
    BY <1>1, <1>2, <2>1, CountPasses
  <2>3. \A n \in 0..Day : cycles'[n] <= runs'[n]
    BY <1>1, <1>2, <2>1 DEF Budgeted, Passed
  <2> QED BY <1>1, <1>4, <2>1, <2>2, <2>3 DEF Budgeted
<1>6. CASE WakeGranted
  <2>1. /\ runs' = [runs EXCEPT ![0] = @ + 1] /\ stage' = "stamp" /\ cycles' = cycles
        /\ Count(runs, Hour) < MaxPerHour /\ Count(runs, Day) < MaxPerDay
    BY <1>1, <1>4, <1>6 DEF WakeGranted, Governed, Capped, history
  <2>2. Count(runs', Hour) <= Count(runs, Hour) + 1 /\ Count(runs', Day) <= Count(runs, Day) + 1
    BY <1>1, <1>2, <2>1, CountsOneMore
  <2>3. \A n \in 0..Day : cycles'[n] <= runs'[n]
    BY <1>1, <1>2, <2>1 DEF Budgeted
  <2>4. cycles'[0] + 1 <= runs'[0]
    BY <1>1, <1>2, <2>1 DEF Budgeted
  <2> QED BY <1>1, <1>4, <2>1, <2>2, <2>3, <2>4 DEF Budgeted
<1>7. CASE Dispatch
  <2>1. /\ stage = "dispatch" /\ stage' = "cycle" /\ runs' = runs
        /\ cycles' = [cycles EXCEPT ![0] = @ + 1]
    BY <1>7 DEF Dispatch
  <2>2. \A n \in 0..Day : cycles'[n] <= runs'[n]
    BY <1>1, <1>2, <2>1 DEF Budgeted
  <2> QED BY <2>1, <2>2 DEF Budgeted
<1>8. CASE StampWake
  BY <1>8 DEF StampWake, Budgeted, history
<1>9. CASE Apart
  BY <1>9 DEF Apart, Budgeted
<1> QED BY <1>5, <1>6, <1>7, <1>8, <1>9, OthersAreApart

\* No window holds more dispatched cycles than its cap, wherever it is placed
\* and whatever fails or restarts: each cycle was counted as a run before, and
\* no run is granted beyond a cap (InitiativeService.onWakeLocked, recordRun).
THEOREM CapsAreKept == Spec => []CyclesBounded
<1>1. Typed /\ Budgeted => CyclesBounded
  <2> SUFFICES ASSUME Typed, Budgeted PROVE CyclesBounded
    OBVIOUS
  <2>1. /\ Hour \in Nat /\ Day \in Nat /\ Hour <= Day
        /\ MaxPerHour \in Nat /\ MaxPerDay \in Nat
    BY ConstantsAssumption
  <2>2. runs \in [0..Day -> Nat] /\ cycles \in [0..Day -> Nat]
    BY DEF Typed, TypeOK
  <2>3. ASSUME NEW window \in {Hour, Day}
        PROVE  /\ Count(cycles, window) <= Count(runs, window)
               /\ Count(cycles, window) \in Nat /\ Count(runs, window) \in Nat
    <3>1. window \in Nat /\ window <= Day
      BY <2>1
    <3>2. \A n \in 0..window : cycles[n] \in Nat /\ runs[n] \in Nat /\ cycles[n] <= runs[n]
      BY <2>1, <2>2, <3>1 DEF Budgeted
    <3> QED BY <3>1, <3>2, CountGrows, StampsAreFinite
  <2> QED BY <2>1, <2>3 DEF Budgeted, CyclesBounded
<1>2. Init => Typed /\ Budgeted
  BY TypedInit, BudgetedInit
<1>3. Typed /\ Budgeted /\ [Next]_vars => (Typed /\ Budgeted)'
  BY TypedStep, BudgetedStep
<1> QED BY <1>1, <1>2, <1>3, PTL DEF Spec

LEMMA CooledInit == Init => Cooled
BY ConstantsAssumption DEF Init, Cooled

LEMMA CooledStep == Typed /\ Cooled /\ [Next]_vars => Cooled'
<1> SUFFICES ASSUME Typed, Cooled, [Next]_vars PROVE Cooled'
  OBVIOUS
<1>1. Cooldown \in Nat \ {0} /\ since \in [Goal -> 0..Cooldown] /\ rested \in [Goal -> 0..Cooldown]
  BY ConstantsAssumption DEF Typed, TypeOK
<1>2. CASE Tick
  <2>1. /\ since'  = [g \in Goal |-> Min({Cooldown, since[g] + 1})]
        /\ rested' = [g \in Goal |-> Min({Cooldown, rested[g] + 1})]
        /\ stage' = stage /\ stage \in {"none", "cycle"}
    BY <1>2 DEF Tick, Working
  <2>2. ASSUME NEW g \in Goal PROVE since'[g] <= rested'[g]
    <3>1. Cooldown \in Int /\ since[g] + 1 \in Int /\ rested[g] + 1 \in Int
      BY <1>1
    <3>2. /\ since'[g] = IF Cooldown <= since[g] + 1 THEN Cooldown ELSE since[g] + 1
          /\ rested'[g] = IF Cooldown <= rested[g] + 1 THEN Cooldown ELSE rested[g] + 1
      BY <2>1, <3>1, MinOfTwo
    <3>3. since[g] <= rested[g]
      BY DEF Cooled
    <3> QED BY <1>1, <3>2, <3>3
  <2> QED BY <2>1, <2>2 DEF Cooled
<1>3. CASE WakeGranted
  <2>1. /\ stage' = "stamp" /\ Due /\ since[Woken] >= Cooldown
        /\ UNCHANGED <<since, rested, queue>>
    BY <1>3 DEF WakeGranted, Governed, Eligible, goals, history
  <2>2. Woken \in Goal /\ Woken' = Woken
    BY <2>1, WokenIsGoal DEF Due, Woken
  <2>3. since[Woken] = Cooldown
    BY <1>1, <2>1, <2>2
  <2> QED BY <2>1, <2>2, <2>3 DEF Cooled
<1>4. CASE StampWake
  <2>1. /\ stage = "stamp" /\ stage' = "roll" /\ since' = [since EXCEPT ![Woken] = 0]
        /\ UNCHANGED <<rested, queue>>
    BY <1>4 DEF StampWake, history
  <2>2. Woken \in Goal /\ Woken' = Woken
    BY <2>1, WokenIsGoal DEF Typed, OneEach, Woken
  <2>3. since[Woken] = Cooldown /\ since[Woken] <= rested[Woken]
    BY <2>1, <2>2 DEF Cooled
  <2>4. rested[Woken] = Cooldown
    BY <1>1, <2>2, <2>3
  <2>5. \A g \in Goal : since'[g] <= rested[g]
    BY <1>1, <2>1, <2>2 DEF Cooled
  <2>6. since'[Woken] = 0
    BY <1>1, <2>1, <2>2
  <2> QED BY <2>1, <2>2, <2>4, <2>5, <2>6 DEF Cooled
<1>5. CASE Dispatch
  <2>1. /\ stage = "dispatch" /\ stage' = "cycle" /\ rested' = [rested EXCEPT ![Woken] = 0]
        /\ since' = since
    BY <1>5 DEF Dispatch, goals
  <2>2. Woken \in Goal /\ since[Woken] = 0
    BY <2>1, WokenIsGoal DEF Typed, OneEach, Cooled
  <2>3. \A g \in Goal : since[g] <= rested'[g]
    BY <1>1, <2>1, <2>2 DEF Cooled
  <2> QED BY <2>1, <2>3 DEF Cooled
<1>6. CASE Apart
  BY <1>6 DEF Apart, Cooled
<1> QED BY <1>2, <1>3, <1>4, <1>5, <1>6, OthersAreApart

\* Two cycles of one goal are the cooldown apart, over duplicate jobs and
\* restarts: lastWakeAt is set before a cycle is dispatched, and no wake passes
\* the guards while it is younger than the cooldown (GoalStack.recordWake).
THEOREM CooldownIsKept == Spec => CooldownKept
<1>1. Typed /\ Cooled /\ [Next]_vars =>
        [\A g \in Goal : (stage = "dispatch" /\ stage' = "cycle" /\ Woken = g)
                            => rested[g] = Cooldown]_vars
  BY DEF Cooled
<1>2. Init => Typed /\ Cooled
  BY TypedInit, CooledInit
<1>3. Typed /\ Cooled /\ [Next]_vars => (Typed /\ Cooled)'
  BY TypedStep, CooledStep
<1> QED BY <1>1, <1>2, <1>3, PTL DEF Spec, CooldownKept

-----------------------------------------------------------------------------
(* One wake, one cycle                                                     *)

\* Nothing new may dispatch a cycle of g.
Kept(g) ==
    /\ Asked(g)' => Asked(g)
    /\ \A p \in Process : Adding(p, g)' => Adding(p, g)
    /\ \A j \in Job : Booked(j, g)' => Booked(j, g)
    /\ \A i \in DOMAIN queue' : Waiting(i, g)' => Waiting(i, g)

\* The wake of g was expected, and one thing is left that may dispatch its cycle.
Handed(g) ==
    /\ Expected(g)
    /\ \/ /\ \A p, q \in Process : Adding(p, g)' /\ Adding(q, g)' => p = q
          /\ ~Asked(g)' /\ \A j \in Job : ~Booked(j, g)'
          /\ \A i \in DOMAIN queue' : ~Waiting(i, g)'
       \/ /\ \A j, k \in Job : Booked(j, g)' /\ Booked(k, g)' => j = k
          /\ ~Asked(g)' /\ \A p \in Process : ~Adding(p, g)'
          /\ \A i \in DOMAIN queue' : ~Waiting(i, g)'
       \/ /\ \A i, k \in DOMAIN queue' : Waiting(i, g)' /\ Waiting(k, g)' => i = k
          /\ ~Asked(g)' /\ \A p \in Process : ~Adding(p, g)'
          /\ \A j \in Job : ~Booked(j, g)'

LEMMA KeptStaysOnce ==
    ASSUME NEW g \in Goal, Once(g), Kept(g), Cleared(g)', UNCHANGED <<fired, arms>>,
           arms[g] = 0 => \A i \in DOMAIN queue' : queue'[i][2] # g
    PROVE  Once(g)'
<1>0. \A i : Waiting(i, g) => i \in DOMAIN queue
  BY DEF Waiting
<1>1. Single(g)'
  BY <1>0 DEF Once, Single, Kept
<1>2. Expected(g)' => Expected(g)
  BY <1>0 DEF Expected, Kept
<1> QED BY <1>1, <1>2 DEF Once

LEMMA HandedStaysOnce ==
    ASSUME NEW g \in Goal, Once(g), Handed(g), Cleared(g)', UNCHANGED <<fired, arms>>
    PROVE  Once(g)'
<1>1. Single(g)'
  BY DEF Handed, Single
<1>2. arms[g] # 0 /\ fired[g] # 1
  BY DEF Once, Handed
<1> QED BY <1>1, <1>2 DEF Once

\* The queue as a function, when a wake joins it or leaves it.
LEMMA Queued ==
    ASSUME Typed
    PROVE  /\ Len(queue) \in Nat /\ DOMAIN queue = 1..Len(queue)
           /\ \A i \in DOMAIN queue : queue[i] \in {"timer", "boot"} \X Goal
           /\ queue # <<>> => 1 \in DOMAIN queue /\ Woken = queue[1][2]
<1>1. queue \in Seq({"timer", "boot"} \X Goal)
  BY DEF Typed, TypeOK
<1> QED BY <1>1, EmptySeq, LenProperties, ElementOfSeq, HeadTailProperties DEF Woken

LEMMA Joined ==
    ASSUME Typed, NEW w \in {"timer", "boot"} \X Goal, queue' = Append(queue, w)
    PROVE  /\ DOMAIN queue' = 1..(Len(queue) + 1)
           /\ queue'[Len(queue) + 1] = w
           /\ \A i \in 1..Len(queue) : queue'[i] = queue[i]
<1>1. queue \in Seq({"timer", "boot"} \X Goal)
  BY DEF Typed, TypeOK
<1>2. queue' \in Seq({"timer", "boot"} \X Goal) /\ Len(queue') = Len(queue) + 1
  BY <1>1, AppendProperties
<1> QED BY <1>1, <1>2, AppendProperties, LenProperties

LEMMA Shifted ==
    ASSUME Typed, queue # <<>>, queue' = Tail(queue)
    PROVE  /\ \A i \in DOMAIN queue' : i \in Nat /\ i >= 1
                                       /\ i + 1 \in DOMAIN queue /\ queue'[i] = queue[i + 1]
           /\ \A i \in DOMAIN queue : i = 1 \/ (i - 1 \in DOMAIN queue' /\ queue'[i - 1] = queue[i])
<1>1. queue \in Seq({"timer", "boot"} \X Goal)
  BY DEF Typed, TypeOK
<1>2. /\ queue' \in Seq({"timer", "boot"} \X Goal) /\ Len(queue') = Len(queue) - 1
      /\ \A i \in 1..Len(queue') : queue'[i] = queue[i + 1]
  BY <1>1, HeadTailProperties
<1>3. DOMAIN queue = 1..Len(queue) /\ DOMAIN queue' = 1..Len(queue') /\ Len(queue) \in Nat
      /\ Len(queue') \in Nat
  BY <1>1, <1>2, LenProperties
<1>4. ASSUME NEW i \in DOMAIN queue, i # 1
      PROVE  i - 1 \in DOMAIN queue' /\ queue'[i - 1] = queue[i]
  <2>1. i - 1 \in 1..Len(queue') /\ (i - 1) + 1 = i
    BY <1>2, <1>3, <1>4
  <2> QED BY <1>2, <1>3, <2>1
<1>5. ASSUME NEW i \in DOMAIN queue'
      PROVE  i \in Nat /\ i >= 1 /\ i + 1 \in DOMAIN queue /\ queue'[i] = queue[i + 1]
  BY <1>2, <1>3
<1> QED BY <1>4, <1>5

\* The steps of a wake that change neither the chain nor the jobs.
LEMMA StagesKeep ==
    ASSUME NEW g, UNCHANGED <<job, queue, reg, arm>>, stage' \in Fresh => stage \in Fresh
    PROVE  Kept(g)
BY DEF Kept, Asked, Adding, Removing, Booked, Waiting, Fresh

LEMMA WakesKeepOnce ==
    ASSUME Typed, NEW g \in Goal \ Recurring, Once(g),
           \/ WakeIgnored \/ WakeCapped \/ WakeCoolsDown \/ WakeGranted
           \/ StampWake \/ RollWake \/ SessionFails \/ CycleEnds \/ CycleFails
    PROVE  Once(g)'
<1>1. /\ UNCHANGED <<job, queue, reg, arm, fired, arms>>
      /\ stage' \in Fresh => stage \in Fresh
  BY DEF WakeIgnored, WakeCapped, WakeCoolsDown, WakeGranted, Rearm, StampWake, RollWake,
         SessionFails, CycleEnds, CycleFails, Governed, Eligible, Due, Fresh, counts, history
<1>2. Woken' = Woken
  BY <1>1 DEF Woken
<1>3. Cleared(g)'
  <2>1. CASE RollWake
    <3>1. Woken \in Goal /\ due \in [Goal -> Nat \cup {None}]
      BY <2>1, WokenIsGoal DEF RollWake, Typed, TypeOK, OneEach
    <3> QED BY <1>2, <2>1, <3>1 DEF RollWake, Cleared
  <2>2. CASE WakeIgnored \/ WakeCapped \/ WakeCoolsDown \/ WakeGranted \/ StampWake
    BY <2>2 DEF WakeIgnored, WakeCapped, WakeCoolsDown, WakeGranted, Rearm, StampWake, Cleared
  <2>3. CASE SessionFails \/ CycleEnds \/ CycleFails
    BY <1>2, <2>3 DEF SessionFails, CycleEnds, CycleFails, Cleared, Once, goals
  <2> QED BY <2>1, <2>2, <2>3
<1>4. Kept(g)
  BY <1>1, StagesKeep
<1>5. arms[g] = 0 => \A i \in DOMAIN queue' : queue'[i][2] # g
  BY <1>1 DEF Once
<1> QED BY <1>1, <1>3, <1>4, <1>5, KeptStaysOnce

LEMMA DispatchKeepsOnce ==
    ASSUME Typed, NEW g \in Goal \ Recurring, Once(g), arms[g] <= 1, Dispatch
    PROVE  Once(g)'
<1>1. /\ stage = "dispatch" /\ stage' = "cycle"
      /\ fired' = [fired EXCEPT ![Woken] = IF Woken \in Recurring THEN 0 ELSE Min({MaxArms + 1, @ + 1})]
      /\ UNCHANGED <<flag, goals, runs, job, queue, reg, arm, boot, counts>>
  BY DEF Dispatch
<1>2. /\ Woken \in Goal /\ Woken' = Woken /\ 1 \in DOMAIN queue /\ Woken = queue[1][2]
  BY <1>1, WokenIsGoal, Queued DEF Typed, OneEach, Woken
<1>3. Kept(g)
  BY <1>1, StagesKeep DEF Fresh
<1>4. Cleared(g)'
  BY <1>1, <1>2 DEF Cleared, Once, goals
<1>5. arms[g] = 0 => \A i \in DOMAIN queue' : queue'[i][2] # g
  BY <1>1 DEF Once
<1>6. fired \in [Goal -> 0..MaxArms + 1] /\ arms \in [Goal -> Nat] /\ MaxArms \in Nat
  BY ConstantsAssumption DEF Typed, TypeOK
<1>7. CASE Woken # g
  <2>1. fired'[g] = fired[g]
    BY <1>1, <1>2, <1>6, <1>7
  <2>2. \A i : Waiting(i, g) => i \in DOMAIN queue
    BY DEF Waiting
  <2>3. Single(g)' /\ (Expected(g)' => Expected(g))
    BY <1>3, <2>2 DEF Once, Single, Kept, Expected
  <2> QED BY <1>1, <1>4, <1>5, <2>1, <2>3 DEF Once, counts
<1>8. CASE Woken = g
  <2>1. Waiting(1, g)
    BY <1>1, <1>2, <1>8 DEF Waiting, Fresh
  <2>2. /\ ~Asked(g) /\ \A p \in Process : ~Adding(p, g)
        /\ \A j \in Job : ~Booked(j, g)
        /\ \A i \in DOMAIN queue : Waiting(i, g) => i = 1
    BY <1>2, <2>1 DEF Once, Single
  <2>3. ~Waiting(1, g)'
    BY <1>1 DEF Waiting, Fresh
  <2>4. ~Expected(g)' /\ Single(g)'
    BY <1>3, <1>1, <2>2, <2>3 DEF Kept, Expected, Single
  <2>5. arms[g] = 1 /\ fired[g] = 0
    <3>1. Expected(g)
      BY <1>2, <2>1 DEF Expected
    <3> QED BY <1>6, <3>1 DEF Once
  <2>6. fired'[g] <= 1
    <3>1. fired'[g] = Min({MaxArms + 1, fired[g] + 1})
      BY <1>1, <1>2, <1>6, <1>8
    <3>2. MaxArms + 1 \in Int /\ fired[g] + 1 \in Int /\ fired[g] + 1 = 1 /\ MaxArms + 1 >= 1
      BY <1>6, <2>5
    <3>3. Min({MaxArms + 1, fired[g] + 1}) <= 1
      <4>1. Min({MaxArms + 1, fired[g] + 1})
              = IF MaxArms + 1 <= fired[g] + 1 THEN MaxArms + 1 ELSE fired[g] + 1
        BY <3>2, MinOfTwo
      <4> HIDE DEF Min
      <4> QED BY <3>2, <4>1
    <3> QED BY <3>1, <3>3
  <2> QED BY <1>1, <1>4, <1>5, <2>4, <2>5, <2>6 DEF Once, counts
<1> QED BY <1>7, <1>8

LEMMA RegisterNextKeepsOnce ==
    ASSUME Typed, NEW g \in Goal \ Recurring, Once(g), RegisterNext
    PROVE  Once(g)'
<1>1. /\ stage \in {"after", "rearmed"} /\ stage' = "finish"
      /\ UNCHANGED <<flag, goals, runs, job, queue, arm, boot, counts, history>>
  BY DEF RegisterNext
<1>2. /\ Woken \in Goal /\ Woken' = Woken /\ 1 \in DOMAIN queue /\ Woken = queue[1][2]
  BY <1>1, WokenIsGoal, Queued DEF Typed, OneEach, Woken
<1>3. Cleared(g)' /\ (arms[g] = 0 => \A i \in DOMAIN queue' : queue'[i][2] # g)
  BY <1>1 DEF Cleared, Once
<1>4. CASE UNCHANGED reg
  <2>1. Kept(g)
    BY <1>1, <1>4, StagesKeep DEF Fresh
  <2> QED BY <1>1, <1>3, <2>1, KeptStaysOnce DEF counts, history
<1>5. CASE due[Woken] # None /\ Register("wake", Woken, due[Woken])
  <2>1. /\ reg'["wake"] = [stage |-> "remove", goal |-> Woken, in |-> due[Woken],
                            found |-> PendingJobs(Woken)]
        /\ \A q \in Process \ {"wake"} : reg'[q] = reg[q]
    <3>1. "wake" \in Process /\ due[Woken] \in Nat \cup {None}
      BY <1>2 DEF Process, Typed, TypeOK
    <3> HIDE DEF Process, Register
    <3> QED BY <1>2, <1>5, <3>1, RegisterIsTyped
  <2>2. CASE Woken # g
    <3>1. Kept(g)
      BY <1>1, <2>1, <2>2 DEF Kept, Asked, Adding, Removing, Booked, Waiting, Fresh
    <3> QED BY <1>1, <1>3, <3>1, KeptStaysOnce DEF counts, history
  <2>3. CASE Woken = g
    <3>1. stage = "rearmed"
      BY <1>1, <1>5, <2>3 DEF Once, Cleared
    <3>2. Waiting(1, g)
      BY <1>2, <2>3, <3>1 DEF Waiting, Fresh
    <3>3. /\ ~Asked(g) /\ \A p \in Process : ~Adding(p, g)
          /\ \A j \in Job : ~Booked(j, g)
          /\ \A i \in DOMAIN queue : Waiting(i, g) => i = 1
      BY <1>2, <3>2 DEF Once, Single
    <3>4. Expected(g)
      BY <1>2, <3>2 DEF Expected
    <3>5. ~Asked(g)' /\ \A j \in Job : ~Booked(j, g)'
      BY <1>1, <3>3 DEF Asked, Booked
    <3>6. \A i \in DOMAIN queue' : ~Waiting(i, g)'
      BY <1>1, <3>3 DEF Waiting, Fresh
    <3>7. \A p \in Process : Adding(p, g)' => p = "wake"
      BY <2>1, <3>3 DEF Adding, Removing
    <3>8. Handed(g)
      BY <3>4, <3>5, <3>6, <3>7 DEF Handed
    <3> QED BY <1>1, <1>3, <3>8, HandedStaysOnce DEF counts, history
  <2> QED BY <2>2, <2>3
<1> QED BY <1>4, <1>5 DEF RegisterNext

LEMMA FinishKeepsOnce ==
    ASSUME Typed, NEW g \in Goal \ Recurring, Once(g), Finish
    PROVE  Once(g)'
<1>1. /\ stage = "finish" /\ queue' = Tail(queue) /\ stage' = "none"
      /\ UNCHANGED <<flag, goals, runs, job, reg, arm, counts, history>>
  BY DEF Finish
<1>2. queue # <<>>
  BY <1>1 DEF Typed, OneEach
<1>3. \A i \in DOMAIN queue' : i \in Nat /\ i >= 1
                                /\ i + 1 \in DOMAIN queue /\ queue'[i] = queue[i + 1]
  BY <1>1, <1>2, Shifted
<1>4. \A i \in DOMAIN queue' : Waiting(i, g)' => Waiting(i + 1, g)
  BY <1>3 DEF Waiting
<1>5. (Asked(g)' => Asked(g)) /\ (\A p \in Process : Adding(p, g)' => Adding(p, g))
      /\ (\A j \in Job : Booked(j, g)' => Booked(j, g))
  BY <1>1 DEF Asked, Adding, Removing, Booked
<1>6. Expected(g)' => Expected(g)
  BY <1>3, <1>4, <1>5 DEF Expected
<1>7. Single(g)'
  <2>1. ASSUME NEW i \in DOMAIN queue', NEW k \in DOMAIN queue', Waiting(i, g)', Waiting(k, g)'
        PROVE  i = k
    <3>1. i + 1 = k + 1
      BY <1>3, <1>4, <2>1 DEF Once, Single
    <3> QED BY <1>3, <3>1
  <2>2. (\E i \in DOMAIN queue' : Waiting(i, g)') => \E i \in DOMAIN queue : Waiting(i, g)
    BY <1>3, <1>4
  <2> QED BY <1>5, <2>1, <2>2 DEF Once, Single
<1>8. Cleared(g)'
  BY <1>1 DEF Cleared
<1>9. arms[g] = 0 => \A i \in DOMAIN queue' : queue'[i][2] # g
  BY <1>3 DEF Once
<1> QED BY <1>1, <1>6, <1>7, <1>8, <1>9 DEF Once, counts, history

LEMMA ArmingKeepsOnce ==
    ASSUME Typed, NEW g \in Goal \ Recurring, Once(g), arms'[g] <= 1,
           \/ ArmActivates \/ ArmRegisters
           \/ \E h \in Goal, d \in Delays : ArmGoal(h, d)
    PROVE  Once(g)'
<1>0. arms \in [Goal -> Nat]
  BY DEF Typed, TypeOK
<1>1. CASE ArmActivates
  <2>1. /\ arm[1] = "activate" /\ arm' = <<"read", arm[2]>>
        /\ UNCHANGED <<flag, due, since, failures, runs, job, queue, stage, reg, boot, counts, history>>
    BY <1>1 DEF ArmActivates
  <2>2. Kept(g) /\ Cleared(g)' /\ (arms[g] = 0 => \A i \in DOMAIN queue' : queue'[i][2] # g)
    BY <2>1 DEF Kept, Asked, Adding, Removing, Booked, Waiting, Cleared, Once, Woken
  <2> QED BY <2>1, <2>2, KeptStaysOnce DEF counts, history
<1>2. CASE ArmRegisters
  <2>1. /\ arm[1] = "read" /\ arm' = <<"idle", None>>
        /\ UNCHANGED <<flag, goals, runs, job, queue, stage, boot, counts, history>>
    BY <1>2 DEF ArmRegisters
  <2>2. arm[2] \in Goal
    BY <2>1 DEF Typed, TypeOK
  <2>3. Cleared(g)' /\ (arms[g] = 0 => \A i \in DOMAIN queue' : queue'[i][2] # g)
    BY <2>1 DEF Cleared, Once, Woken, goals
  <2>4. CASE UNCHANGED reg
    <3>1. Kept(g)
      BY <2>1, <2>4 DEF Kept, Asked, Adding, Removing, Booked, Waiting
    <3> QED BY <2>1, <2>3, <3>1, KeptStaysOnce DEF counts, history
  <2>5. CASE Register("arm", arm[2], due[arm[2]])
    <3>1. /\ reg'["arm"] = [stage |-> "remove", goal |-> arm[2], in |-> due[arm[2]],
                            found |-> PendingJobs(arm[2])]
          /\ \A q \in Process \ {"arm"} : reg'[q] = reg[q]
      <4>1. "arm" \in Process /\ due[arm[2]] \in Nat \cup {None}
        BY <2>2 DEF Process, Typed, TypeOK
      <4> HIDE DEF Process, Register
      <4> QED BY <2>2, <2>5, <4>1, RegisterIsTyped
    <3>2. CASE arm[2] # g
      <4>1. Kept(g)
        BY <2>1, <3>1, <3>2 DEF Kept, Asked, Adding, Removing, Booked, Waiting
      <4> QED BY <2>1, <2>3, <4>1, KeptStaysOnce DEF counts, history
    <3>3. CASE arm[2] = g
      <4>1. Asked(g)
        BY <2>1, <3>3 DEF Asked
      <4>2. /\ \A p \in Process : ~Adding(p, g)
            /\ \A j \in Job : ~Booked(j, g)
            /\ \A i \in DOMAIN queue : ~Waiting(i, g)
        BY <4>1 DEF Once, Single
      <4>3. ~Asked(g)' /\ (\A j \in Job : ~Booked(j, g)') /\ \A i \in DOMAIN queue' : ~Waiting(i, g)'
        BY <2>1, <4>2 DEF Asked, Booked, Waiting
      <4>4. \A p \in Process : Adding(p, g)' => p = "arm"
        BY <3>1, <4>2 DEF Adding, Removing
      <4>5. Handed(g)
        BY <4>1, <4>3, <4>4 DEF Handed, Expected
      <4> QED BY <2>1, <2>3, <4>5, HandedStaysOnce DEF counts, history
    <3> QED BY <3>2, <3>3
  <2> QED BY <1>2, <2>4, <2>5 DEF ArmRegisters
<1>3. ASSUME NEW h \in Goal, NEW d \in Delays, ArmGoal(h, d) PROVE Once(g)'
  <2>1. /\ arm[1] = "idle"
        /\ arms' = [arms EXCEPT ![h] = @ + 1] /\ due' = [due EXCEPT ![h] = d]
        /\ arm' = <<IF status[h] = "proposed" THEN "activate" ELSE "read", h>>
        /\ UNCHANGED <<job, queue, stage, reg, fired>>
    BY <1>3 DEF ArmGoal, history
  <2>2. due \in [Goal -> Nat \cup {None}] /\ Woken' = Woken
    BY <2>1 DEF Typed, TypeOK, Woken
  <2>3. CASE h # g
    <3>1. arms'[g] = arms[g] /\ due'[g] = due[g]
      BY <1>0, <2>1, <2>2, <2>3
    <3>2. Kept(g)
      BY <2>1, <2>3 DEF Kept, Asked, Adding, Removing, Booked, Waiting
    <3>3. \A i : Waiting(i, g) => i \in DOMAIN queue
      BY DEF Waiting
    <3>4. Single(g)' /\ (Expected(g)' => Expected(g))
      BY <3>2, <3>3 DEF Once, Single, Kept, Expected
    <3>5. Cleared(g)'
      BY <2>1, <2>2, <3>1 DEF Cleared, Once
    <3> QED BY <2>1, <3>1, <3>4, <3>5 DEF Once
  <2>4. CASE h = g
    <3>1. arms'[g] = arms[g] + 1 /\ arms[g] = 0
      BY <1>0, <2>1, <2>4
    <3>2. /\ ~Expected(g) /\ \A i \in DOMAIN queue : queue[i][2] # g
          /\ fired[g] = 0
      <4>1. fired[g] <= 0 /\ fired[g] \in 0..MaxArms + 1 /\ MaxArms \in Nat
        BY <3>1, ConstantsAssumption DEF Once, Typed, TypeOK
      <4> QED BY <3>1, <4>1 DEF Once
    <3>3. /\ \A p \in Process : ~Adding(p, g)'
          /\ \A j \in Job : ~Booked(j, g)'
          /\ \A i \in DOMAIN queue' : ~Waiting(i, g)'
      BY <2>1, <3>2 DEF Expected, Adding, Removing, Booked, Waiting
    <3>4. Single(g)'
      BY <3>3 DEF Single
    <3>5. Cleared(g)'
      <4>1. stage # "none" => Woken # g
        BY <3>2, Queued DEF Typed, OneEach
      <4> QED BY <2>1, <2>2, <4>1 DEF Cleared
    <3> QED BY <2>1, <3>1, <3>2, <3>4, <3>5 DEF Once
  <2> QED BY <2>3, <2>4
<1> QED BY <1>1, <1>2, <1>3

\* The jobs of a goal are booked as before when no state of a job has changed.
LEMMA AlikeKeeps ==
    ASSUME NEW g, \A j \in Job : job'[j].state # "free" =>
                      job[j].state # "free" /\ job'[j].goal = job[j].goal,
           UNCHANGED <<queue, stage, arm>>,
           \A p \in Process : Adding(p, g)' => Adding(p, g)
    PROVE  Kept(g)
BY DEF Kept, Asked, Booked, Waiting

LEMMA JobsKeepOnce ==
    ASSUME Typed, NEW g \in Goal \ Recurring, Once(g), NEW j \in Job,
           TimerFires(j) \/ JobStarts(j)
    PROVE  Once(g)'
<1>0. job \in [Job -> Booking]
  BY DEF Typed, TypeOK, Booking
<1>1. CASE TimerFires(j)
  <2>1. /\ job[j].state = "pending"
        /\ job' = [job EXCEPT ![j].state = "running", ![j].armed = FALSE]
        /\ UNCHANGED <<flag, goals, runs, queue, stage, reg, arm, boot, counts, history>>
    BY <1>1 DEF TimerFires
  <2>2. \A k \in Job : job'[k].state # "free" => job[k].state # "free" /\ job'[k].goal = job[k].goal
    BY <1>0, <2>1 DEF Booking
  <2>3. Kept(g)
    BY <2>1, <2>2, AlikeKeeps DEF Adding, Removing
  <2>4. Cleared(g)' /\ (arms[g] = 0 => \A i \in DOMAIN queue' : queue'[i][2] # g)
    BY <2>1 DEF Cleared, Once, Woken, goals
  <2> QED BY <2>1, <2>3, <2>4, KeptStaysOnce DEF counts, history
<1>2. CASE JobStarts(j)
  <2>1. /\ job[j].state = "running"
        /\ job' = Saved([job EXCEPT ![j].state = "free"])
        /\ queue' = Append(queue, <<"timer", job[j].goal>>)
        /\ UNCHANGED <<flag, goals, runs, stage, reg, arm, boot, counts, history>>
    BY <1>2 DEF JobStarts
  <2>2. /\ job[j].goal \in Goal
        /\ <<"timer", job[j].goal>> \in {"timer", "boot"} \X Goal
    BY <2>1 DEF Typed, Named, Alive
  <2>3. /\ DOMAIN queue' = 1..(Len(queue) + 1)
        /\ queue'[Len(queue) + 1] = <<"timer", job[j].goal>>
        /\ \A i \in 1..Len(queue) : queue'[i] = queue[i]
    BY <2>1, <2>2, Joined
  <2>4. /\ Len(queue) \in Nat /\ DOMAIN queue = 1..Len(queue)
    BY Queued
  <2>5. \A k \in Job : job'[k].state # "free" =>
                          k # j /\ job[k].state # "free" /\ job'[k].goal = job[k].goal
    <3> DEFINE freed == [job EXCEPT ![j].state = "free"]
    <3>1. /\ freed \in [Job -> Booking] /\ freed[j].state = "free"
          /\ \A k \in Job : freed[k].goal = job[k].goal
          /\ \A k \in Job : freed[k].state # "free" => k # j /\ job[k].state # "free"
      BY <1>0 DEF Booking
    <3>2. Alike(freed, job')
      <4> HIDE DEF freed
      <4>1. job' = Saved(freed)
        BY <2>1 DEF freed
      <4> QED BY <3>1, <4>1, SavedIsAlike
    <3> HIDE DEF freed
    <3> QED BY <3>1, <3>2 DEF Alike, Alive
  <2>6. \A k \in Job : Booked(k, g)' => k # j /\ Booked(k, g)
    BY <2>5 DEF Booked
  <2>7. /\ Asked(g)' => Asked(g)
        /\ \A p \in Process : Adding(p, g)' => Adding(p, g)
    BY <2>1 DEF Asked, Adding, Removing
  <2>8. \A i \in 1..Len(queue) : Waiting(i, g)' => Waiting(i, g)
    BY <2>1, <2>3, <2>4 DEF Waiting
  <2>9. Cleared(g)'
    <3>1. stage # "none" => Woken' = Woken
      BY <2>1, <2>2, JoiningTheChain DEF Typed, OneEach
    <3> QED BY <2>1, <3>1 DEF Cleared, Once, goals
  <2>10. CASE job[j].goal # g
    <3>1. \A i \in DOMAIN queue' : Waiting(i, g)' => i \in 1..Len(queue)
      BY <2>3, <2>4, <2>10 DEF Waiting
    <3>2. Kept(g)
      BY <2>6, <2>7, <2>8, <3>1 DEF Kept
    <3>3. arms[g] = 0 => \A i \in DOMAIN queue' : queue'[i][2] # g
      <4>1. \A i \in DOMAIN queue' : i \in 1..Len(queue) \/ queue'[i][2] = job[j].goal
        BY <2>3, <2>4
      <4> QED BY <2>3, <2>4, <2>10, <4>1 DEF Once
    <3> QED BY <2>1, <2>9, <3>2, <3>3, KeptStaysOnce DEF counts, history
  <2>11. CASE job[j].goal = g
    <3>1. Booked(j, g)
      BY <2>1, <2>11 DEF Booked
    <3>2. /\ \A k \in Job : Booked(k, g) => k = j
          /\ \A i \in DOMAIN queue : ~Waiting(i, g)
          /\ ~Asked(g) /\ \A p \in Process : ~Adding(p, g)
      BY <3>1 DEF Once, Single
    <3>3. \A i \in DOMAIN queue' : Waiting(i, g)' => i = Len(queue) + 1
      BY <2>3, <2>4, <2>8, <3>2
    <3>4. ~Asked(g)' /\ (\A p \in Process : ~Adding(p, g)') /\ \A k \in Job : ~Booked(k, g)'
      BY <2>6, <2>7, <3>2
    <3>5. Handed(g)
      BY <3>1, <3>3, <3>4 DEF Handed, Expected
    <3> QED BY <2>1, <2>9, <3>5, HandedStaysOnce DEF counts, history
  <2> QED BY <2>10, <2>11
<1> QED BY <1>1, <1>2

LEMMA RegistrationsKeepOnce ==
    ASSUME Typed, NEW g \in Goal \ Recurring, Once(g), NEW p \in Process,
           RemoveJob(p) \/ AddJob(p) \/ RemovalEnds(p) \/ JobAdded(p)
    PROVE  Once(g)'
<1>0. /\ TypeOK /\ job \in [Job -> Booking]
      /\ reg \in [Process -> [stage : {"idle", "remove", "removed", "added"},
                              goal : Goal \cup {None}, in : Nat \cup {None},
                              found : SUBSET Job]]
  BY DEF Typed, TypeOK, Booking
<1>1. UNCHANGED <<flag, goals, runs, queue, stage, arm, boot, counts, history>>
  BY DEF RemoveJob, AddJob, RemovalEnds, JobAdded
<1>2. Cleared(g)' /\ (arms[g] = 0 => \A i \in DOMAIN queue' : queue'[i][2] # g)
  BY <1>1 DEF Cleared, Once, Woken, goals
<1>3. ASSUME \A j \in Job : job'[j].state # "free" =>
                 job[j].state # "free" /\ job'[j].goal = job[j].goal,
             \A q \in Process : Adding(q, g)' => Adding(q, g)
      PROVE  Once(g)'
  <2>1. Kept(g)
    BY <1>1, <1>3, AlikeKeeps
  <2> QED BY <1>1, <1>2, <2>1, KeptStaysOnce DEF counts, history
<1>4. CASE RemoveJob(p)
  <2>1. PICK j \in StillPending(p) :
              /\ j \in Job
              /\ job' \in [Job -> Booking] /\ job'[j].state = "free"
              /\ \A k \in Job : /\ Alive(job'[k]) => /\ Alive(job[k])
                                                     /\ job'[k].goal = job[k].goal
                                                     /\ job'[k].in = job[k].in
                                /\ k # j => /\ job'[k].state = job[k].state
                                            /\ Alive(job'[k]) => job'[k].armed = job[k].armed
              /\ reg' = [reg EXCEPT ![p].found = @ \ {j}, ![p].stage = "removed"]
    BY <1>0, <1>4, RemoveJobFrees
  <2>2. \A q \in Process : Adding(q, g)' => Adding(q, g)
    <3>1. Removing(p)
      BY <1>4 DEF RemoveJob
    <3>2. reg'[p].goal = reg[p].goal /\ \A q \in Process \ {p} : reg'[q] = reg[q]
      BY <1>0, <2>1
    <3> QED BY <3>1, <3>2 DEF Adding, Removing
  <2> QED BY <1>3, <2>1, <2>2 DEF Alive
<1>5. CASE RemovalEnds(p) \/ JobAdded(p)
  <2>1. \A j \in Job : job'[j].state # "free" =>
                 job[j].state # "free" /\ job'[j].goal = job[j].goal
    <3>1. CASE RemovalEnds(p)
      BY <1>0, <3>1, LandedIsAlike DEF RemovalEnds, Alike, Alive
    <3>2. CASE JobAdded(p)
      <4>1. Alike(job, Saved(job)) /\ Saved(job) \in [Job -> Booking]
        BY <1>0, SavedIsAlike DEF Alike
      <4>2. \A k \in Job : job'[k].goal = Saved(job)[k].goal /\ job'[k].state = Saved(job)[k].state
        BY <3>2, <4>1 DEF JobAdded, Booking
      <4> QED BY <4>1, <4>2 DEF Alike, Alive
    <3> QED BY <1>5, <3>1, <3>2
  <2>2. \A q \in Process : Adding(q, g)' => Adding(q, g)
    BY <1>0, <1>5 DEF RemovalEnds, JobAdded, Adding, Removing, Idle
  <2> QED BY <1>3, <2>1, <2>2
<1>6. CASE AddJob(p)
  <2>1. PICK j \in Job : AddsJob(p, j)
    BY <1>0, <1>6, AddJobTakesSlot
  <2>2. /\ Removing(p) /\ job[j].state = "free"
        /\ Alike([job EXCEPT ![j] = job'[j]], job')
        /\ job'[j].goal = reg[p].goal
        /\ reg' = [reg EXCEPT ![p].stage = "added", ![p].found = {j}]
    BY <2>1 DEF AddsJob
  <2>3. \A k \in Job \ {j} : job'[k].state # "free" =>
                 job[k].state # "free" /\ job'[k].goal = job[k].goal
    BY <1>0, <2>2 DEF Alike, Alive
  <2>4. \A q \in Process : Adding(q, g)' => Adding(q, g) /\ q # p
    BY <1>0, <2>2 DEF Adding, Removing
  <2>5. CASE reg[p].goal # g
    <3>1. Kept(g)
      BY <1>1, <2>2, <2>3, <2>4, <2>5 DEF Kept, Asked, Booked, Waiting
    <3> QED BY <1>1, <1>2, <3>1, KeptStaysOnce DEF counts, history
  <2>6. CASE reg[p].goal = g
    <3>1. Adding(p, g)
      BY <2>2, <2>6 DEF Adding
    <3>2. /\ \A q \in Process : Adding(q, g) => q = p
          /\ \A k \in Job : ~Booked(k, g)
          /\ \A i \in DOMAIN queue : ~Waiting(i, g)
          /\ ~Asked(g)
      BY <3>1 DEF Once, Single
    <3>3. \A k \in Job : Booked(k, g)' => k = j
      BY <2>3, <3>2 DEF Booked
    <3>4. ~Asked(g)' /\ (\A q \in Process : ~Adding(q, g)') /\ \A i \in DOMAIN queue' : ~Waiting(i, g)'
      BY <1>1, <2>4, <3>2 DEF Asked, Waiting
    <3>5. Handed(g)
      BY <3>1, <3>3, <3>4 DEF Handed, Expected
    <3> QED BY <1>1, <1>2, <3>5, HandedStaysOnce DEF counts, history
  <2> QED BY <2>5, <2>6
<1> QED BY <1>4, <1>5, <1>6

LEMMA OnceInit == Init => OncePerWake
<1> SUFFICES ASSUME Init PROVE OncePerWake
  OBVIOUS
<1>1. Unstarted
  BY DEF Init, Unstarted, Idle, Process
<1>2. ASSUME NEW g \in Goal PROVE Once(g)
  <2>1. ~Expected(g) /\ queue = <<>>
    BY DEF Init, Expected, Asked, Adding, Removing, Booked, Waiting, NoJob, Idle
  <2>2. Single(g)
    BY <2>1 DEF Single, Expected
  <2> QED BY <2>1, <2>2 DEF Init, Once, Cleared
<1> QED BY <1>1, <1>2 DEF OncePerWake

LEMMA OnceStep == Typed /\ OncePerWake /\ [Next]_vars => OncePerWake'
<1> SUFFICES ASSUME Typed, OncePerWake, [Next]_vars, restarts' = 0 PROVE OncePerWake'
  BY DEF OncePerWake
<1>0. arms \in [Goal -> Nat] /\ restarts \in Nat
  BY ConstantsAssumption DEF Typed, TypeOK
<1>1. CASE UNCHANGED vars
  BY <1>1 DEF vars, goals, counts, history, OncePerWake, Unstarted, Once, Single, Cleared,
              Expected, Asked, Adding, Removing, Booked, Waiting, Woken
<1>2. ~CrashRestart /\ restarts = 0
  <2>1. CrashRestart => restarts' = restarts + 1
    BY DEF CrashRestart
  <2>2. ~CrashRestart => UNCHANGED restarts
    BY DEF Next, Tick, TimerFires, JobStarts, RemoveJob, AddJob, RemovalEnds, JobAdded,
         WakeIgnored, WakeCapped, WakeCoolsDown, WakeGranted, Rearm, StampWake, RollWake, SessionFails,
         Dispatch, CycleEnds, CycleFails, RegisterNext, Finish, ArmGoal, ArmActivates, ArmRegisters,
         BootScans, BootTakes, BootWakes, BootEnds, SwitchOff, SwitchOn, Block, Activate, Resolve,
         counts, vars
  <2> QED BY <1>0, <2>1, <2>2
<1>3. Unstarted
  BY <1>2 DEF OncePerWake
<1>4. ~(BootScans \/ BootWakes \/ BootEnds \/ \E g \in Goal : BootTakes(g))
  BY <1>3 DEF Unstarted, BootScans, BootWakes, BootEnds, BootTakes
<1>5. ASSUME NEW g \in Goal \ Recurring, arms[g] <= 1 PROVE Once(g)
  BY <1>2, <1>5 DEF OncePerWake
<1>6. CASE Tick
  <2>1. /\ UNCHANGED <<queue, stage, reg, arm, arms, fired>>
        /\ due' = [g \in Goal |-> Less(due[g], 0)]
        /\ job' = [j \in Job |-> [job[j] EXCEPT !.in = Less(@, 0)]]
        /\ boot' = [boot EXCEPT !.todo = [g \in Goal |-> IF @[g] = 0 THEN 0 ELSE Less(@[g], 1)]]
    BY <1>6 DEF Tick, counts
  <2>2. Unstarted'
    <3>1. boot \in [stage : {"idle", "scan", "next", "remove", "wait"},
                    goal : Goal \cup {None}, todo : [Goal -> Nat \cup {None}]]
      BY DEF Typed, TypeOK
    <3>2. /\ boot'.stage = boot.stage
          /\ boot'.todo = [g \in Goal |-> IF boot.todo[g] = 0 THEN 0 ELSE Less(boot.todo[g], 1)]
      BY <2>1, <3>1
    <3>3. None # 0
      BY ConstantsAssumption
    <3>4. \A g \in Goal : boot'.todo[g] = None
      BY <1>3, <3>2, <3>3 DEF Unstarted, Less
    <3> QED BY <1>3, <2>1, <3>2, <3>4 DEF Unstarted
  <2>3. ASSUME NEW g \in Goal \ Recurring, arms'[g] <= 1 PROVE Once(g)'
    <3>1. Once(g)
      BY <1>5, <2>1, <2>3
    <3>2. Kept(g)
      <4>1. \A j \in Job : job'[j].state = job[j].state /\ job'[j].goal = job[j].goal
        BY <2>1 DEF Typed, TypeOK
      <4> QED BY <2>1, <4>1, AlikeKeeps DEF Adding, Removing
    <3>3. Cleared(g)'
      BY <2>1, <3>1 DEF Once, Cleared, Woken, Less
    <3> QED BY <2>1, <3>1, <3>2, <3>3, KeptStaysOnce DEF Once
  <2> QED BY <2>2, <2>3 DEF OncePerWake
<1>7. ASSUME NEW j \in Job, TimerFires(j) \/ JobStarts(j) PROVE OncePerWake'
  <2>1. UNCHANGED arms
    BY <1>7 DEF TimerFires, JobStarts, counts
  <2>2. Unstarted'
    <3>1. CASE TimerFires(j)
      BY <1>3, <3>1 DEF TimerFires, Unstarted
    <3>2. CASE JobStarts(j)
      <4>1. queue' = Append(queue, <<"timer", job[j].goal>>) /\ UNCHANGED <<boot, reg>>
        BY <3>2 DEF JobStarts
      <4>2. <<"timer", job[j].goal>> \in {"timer", "boot"} \X Goal
        BY <3>2 DEF JobStarts, Typed, Named, Alive
      <4>3. \A i \in DOMAIN queue' : queue'[i][1] # "boot"
        BY <1>3, <4>1, <4>2, Joined, Queued DEF Unstarted
      <4> QED BY <1>3, <4>1, <4>3 DEF Unstarted
    <3> QED BY <1>7, <3>1, <3>2
  <2> QED BY <1>5, <1>7, <2>1, <2>2, JobsKeepOnce DEF OncePerWake
<1>8. ASSUME NEW p \in Process, RemoveJob(p) \/ AddJob(p) \/ RemovalEnds(p) \/ JobAdded(p)
      PROVE  OncePerWake'
  <2>1. UNCHANGED <<arms, boot, queue>> /\ reg[p].stage # "idle"
    BY <1>8 DEF RemoveJob, AddJob, RemovalEnds, JobAdded, Removing, counts
  <2>2. reg'["boot"] = reg["boot"]
    <3>1. p # "boot"
      BY <1>3, <2>1 DEF Unstarted
    <3> QED BY <1>8, <3>1 DEF RemoveJob, AddJob, RemovalEnds, JobAdded, Typed, TypeOK, Process
  <2>3. Unstarted'
    BY <1>3, <2>1, <2>2 DEF Unstarted
  <2> QED BY <1>5, <1>8, <2>1, <2>3, RegistrationsKeepOnce DEF OncePerWake
<1>9. CASE \/ WakeIgnored \/ WakeCapped \/ WakeCoolsDown \/ WakeGranted
           \/ StampWake \/ RollWake \/ SessionFails \/ CycleEnds \/ CycleFails
  <2>1. UNCHANGED <<arms, boot, queue, reg>>
    BY <1>9 DEF WakeIgnored, WakeCapped, WakeCoolsDown, WakeGranted, Rearm, StampWake, RollWake,
                SessionFails, CycleEnds, CycleFails, counts
  <2>2. Unstarted'
    BY <1>3, <2>1 DEF Unstarted
  <2> QED BY <1>5, <1>9, <2>1, <2>2, WakesKeepOnce DEF OncePerWake
<1>10. CASE Dispatch
  <2>1. UNCHANGED <<arms, boot, queue, reg>>
    BY <1>10 DEF Dispatch, counts
  <2>2. Unstarted'
    BY <1>3, <2>1 DEF Unstarted
  <2> QED BY <1>5, <1>10, <2>1, <2>2, DispatchKeepsOnce DEF OncePerWake
<1>11. CASE RegisterNext \/ ArmRegisters
  <2>1. UNCHANGED <<arms, boot, queue>> /\ reg'["boot"] = reg["boot"]
    <3>1. \/ \E new : reg' = [reg EXCEPT !["wake"] = new]
          \/ \E new : reg' = [reg EXCEPT !["arm"] = new]
          \/ UNCHANGED reg
      BY <1>11 DEF RegisterNext, ArmRegisters, Register
    <3>2. reg = [p \in Process |-> reg[p]]
      BY DEF Typed, TypeOK
    <3>3. reg'["boot"] = reg["boot"]
      BY <3>1, <3>2 DEF Process
    <3> QED BY <1>11, <3>3 DEF RegisterNext, ArmRegisters, counts
  <2>2. Unstarted'
    BY <1>3, <2>1 DEF Unstarted
  <2> QED BY <1>5, <1>11, <2>1, <2>2, RegisterNextKeepsOnce, ArmingKeepsOnce DEF OncePerWake
<1>12. CASE Finish
  <2>1. /\ queue' = Tail(queue) /\ UNCHANGED <<arms, reg>>
        /\ boot' = IF Head(queue)[1] = "boot" THEN [boot EXCEPT !.stage = "next"] ELSE boot
        /\ queue # <<>>
    BY <1>12 DEF Finish, counts, Typed, OneEach
  <2>2. Head(queue) = queue[1] /\ 1 \in DOMAIN queue
    <3>1. queue \in Seq({"timer", "boot"} \X Goal)
      BY DEF Typed, TypeOK
    <3> QED BY <2>1, <3>1, Queued, HeadTailProperties
  <2>3. UNCHANGED boot
    BY <1>3, <2>1, <2>2 DEF Unstarted
  <2>4. Unstarted'
    BY <1>3, <2>1, <2>3, Shifted DEF Unstarted
  <2> QED BY <1>5, <1>12, <2>1, <2>4, FinishKeepsOnce DEF OncePerWake
<1>13. CASE ArmActivates \/ \E h \in Goal, d \in Delays : ArmGoal(h, d)
  <2>1. \A g \in Goal : arms[g] <= arms'[g]
    BY <1>0, <1>13 DEF ArmActivates, ArmGoal, counts
  <2>2. Unstarted'
    BY <1>3, <1>13 DEF ArmActivates, ArmGoal, Unstarted
  <2>3. ASSUME NEW g \in Goal \ Recurring, arms'[g] <= 1 PROVE Once(g)'
    <3>1. arms'[g] \in Nat
      BY TypedStep DEF Typed, TypeOK
    <3>2. arms[g] <= 1
      BY <1>0, <2>1, <2>3, <3>1
    <3> QED BY <1>5, <1>13, <2>3, <3>2, ArmingKeepsOnce
  <2> QED BY <2>2, <2>3 DEF OncePerWake
<1>14. CASE \/ SwitchOff \/ SwitchOn
            \/ \E g \in Goal : Block(g) \/ Activate(g) \/ Resolve(g)
  <2>1. UNCHANGED <<due, job, queue, stage, reg, arm, boot, arms, fired>>
    BY <1>14 DEF SwitchOff, SwitchOn, Block, Activate, Resolve, goals, counts, history
  <2>2. Unstarted'
    BY <1>3, <2>1 DEF Unstarted
  <2>3. ASSUME NEW g \in Goal \ Recurring, arms'[g] <= 1 PROVE Once(g)'
    <3>1. Once(g)
      BY <1>5, <2>1, <2>3
    <3>2. Kept(g)
      BY <2>1, StagesKeep
    <3>3. Cleared(g)'
      BY <2>1, <3>1 DEF Once, Cleared, Woken
    <3> QED BY <2>1, <3>1, <3>2, <3>3, KeptStaysOnce DEF Once
  <2> QED BY <2>2, <2>3 DEF OncePerWake
<1> QED BY <1>1, <1>2, <1>4, <1>6, <1>7, <1>8, <1>9, <1>10, <1>11, <1>12, <1>13, <1>14 DEF Next

\* Between starts, one wake that the owner gives a one-shot goal is dispatched
\* as one cycle at most: at any time one call, one registration, one job or one
\* waiting wake may still lead to it, and none does once it was dispatched,
\* because recordWake clears wakeAt first (GoalStack.recordWake, onWakeLocked).
THEOREM WakesAreSpentOnce == Spec => []OneCyclePerWake
<1>1. OncePerWake => OneCyclePerWake
  BY DEF OncePerWake, Once, OneCyclePerWake
<1>2. Init => Typed /\ OncePerWake
  BY TypedInit, OnceInit
<1>3. Typed /\ OncePerWake /\ [Next]_vars => (Typed /\ OncePerWake)'
  BY TypedStep, OnceStep
<1> QED BY <1>1, <1>2, <1>3, PTL DEF Spec

-----------------------------------------------------------------------------
(* Nobody sleeps                                                           *)

\* What covers a goal stands, or something else covers it after the step.
LEMMA CoverStands ==
    ASSUME NEW g \in Goal, Covered(g), UNCHANGED restarts, due'[g] = due[g],
           Covered(g)' \/ \A j \in Job : Starting(j, g) => Starting(j, g)',
           Covered(g)' \/ \A j \in Job : Timely(j, g) =>
               job'[j].goal = g /\ job'[j].state = "pending" /\ job'[j].in = job[j].in /\ Safe(j)',
           Covered(g)' \/ \A i \in DOMAIN queue : OnChain(i, g) => i \in DOMAIN queue' /\ OnChain(i, g)',
           Covered(g)' \/ \A p \in Process : Promised(p, g) => Adding(p, g)' /\ reg'[p].in = reg[p].in,
           Covered(g)' \/ (Asked(g) => Asked(g)'),
           Covered(g)' \/ (Recovered(g) => Recovered(g)')
    PROVE  Covered(g)'
<1> SUFFICES ASSUME ~Covered(g)' PROVE Covered(g)'
  OBVIOUS
<1>1. ASSUME NEW j \in Job, Timely(j, g) PROVE Covered(g)'
  BY <1>1 DEF Covered, Timely, InTime
<1>2. ASSUME NEW p \in Process, Promised(p, g) PROVE Covered(g)'
  BY <1>2 DEF Covered, Promised, InTime
<1>3. ASSUME NEW i \in DOMAIN queue, OnChain(i, g) PROVE Covered(g)'
  BY <1>3 DEF Covered
<1>4. ASSUME NEW j \in Job, Starting(j, g) PROVE Covered(g)'
  BY <1>4 DEF Covered
<1>5. (Asked(g) \/ Recovered(g)) => Covered(g)'
  BY DEF Covered
<1> QED BY <1>1, <1>2, <1>3, <1>4, <1>5 DEF Covered

\* A countdown in time stays in time.
LEMMA InTimeTicks ==
    ASSUME Typed, NEW g \in Goal, due[g] # None, NEW in \in Nat, InTime(g, in), UNCHANGED restarts,
           due'[g] = Less(due[g], 0)
    PROVE  restarts' = 0 => Less(in, 0) <= Max({1, due'[g]})
<1>1. due[g] \in Nat /\ None # in
  BY ConstantsAssumption DEF Typed, TypeOK
<1>2. /\ due'[g] \in Nat /\ due'[g] >= 0 /\ due'[g] >= due[g] - 1
      /\ Less(in, 0) \in {0, in - 1} /\ Less(in, 0) \in Nat
  BY <1>1, LessIsLess
<1>3. restarts = 0 => in <= Max({1, due[g]})
  BY DEF InTime
<1>4. /\ Max({1, due[g]}) \in {1, due[g]} /\ 1 \in Int
      /\ Max({1, due'[g]}) >= 1 /\ Max({1, due'[g]}) >= due'[g]
      /\ Max({1, due'[g]}) \in Nat
  <2>1. 1 \in Int /\ due[g] \in Int /\ due'[g] \in Int
    BY <1>1, <1>2
  <2>2. Max({1, due'[g]}) \in {1, due'[g]}
    BY <2>1, MaxOfTwo
  <2>3. Max({1, due[g]}) \in {1, due[g]} /\ Max({1, due'[g]}) >= 1 /\ Max({1, due'[g]}) >= due'[g]
    BY <2>1, MaxOfTwo
  <2> HIDE DEF Max
  <2> QED BY <1>2, <2>2, <2>3
<1> HIDE DEF Max
<1> QED BY <1>1, <1>2, <1>3, <1>4

\* A wake that a goal has now, or half a minute ahead, is in time.
LEMMA OwnWakeIsInTime ==
    ASSUME Typed, NEW g \in Goal, due[g] # None
    PROVE  InTime(g, due[g])
<1>1. due[g] \in Int /\ 1 \in Int
  BY DEF Typed, TypeOK
<1>2. Max({1, due[g]}) >= due[g] /\ Max({1, due[g]}) \in {1, due[g]}
  BY <1>1, MaxOfTwo
<1> HIDE DEF Max
<1> QED BY <1>1, <1>2 DEF InTime

LEMMA DelayedIsInTime ==
    ASSUME Typed, NEW g \in Goal, due[g] # None, NEW in \in Nat, InTime(g, in)
    PROVE  InTime(g, Max({1, in}))
<1>1. due[g] \in Int /\ 1 \in Int /\ in \in Int
  BY DEF Typed, TypeOK
<1>2. /\ Max({1, due[g]}) >= 1 /\ Max({1, due[g]}) \in {1, due[g]}
      /\ Max({1, in}) \in {1, in}
  BY <1>1, MaxOfTwo
<1> HIDE DEF Max
<1> QED BY <1>1, <1>2 DEF InTime

LEMMA TickKeepsCover ==
    ASSUME Typed, NEW g \in Goal, Waking(g), Covered(g), Tick
    PROVE  Covered(g)'
<1>1. /\ due' = [h \in Goal |-> Less(due[h], 0)]
      /\ job' = [j \in Job |-> [job[j] EXCEPT !.in = Less(@, 0)]]
      /\ boot' = [boot EXCEPT !.todo = [h \in Goal |-> IF @[h] = 0 THEN 0 ELSE Less(@[h], 1)]]
      /\ UNCHANGED <<queue, stage, reg, arm, restarts>>
      /\ \A p \in Process : reg[p].stage = "idle"
      /\ arm[1] = "idle" /\ boot.stage \in {"idle", "wait"}
  BY DEF Tick, Working, counts
<1>2. job \in [Job -> Booking]
  BY DEF Typed, TypeOK, Booking
<1>3. \A j \in Job : /\ job'[j].goal = job[j].goal /\ job'[j].state = job[j].state
                     /\ job'[j].in = Less(job[j].in, 0) /\ job[j].in \in Nat
  BY <1>1, <1>2 DEF Booking
<1>4. ASSUME NEW j \in Job, Timely(j, g) PROVE Timely(j, g)'
  <2>1. restarts' = 0 => job'[j].in <= Max({1, due'[g]})
    BY <1>1, <1>3, <1>4, InTimeTicks DEF Timely, Waking
  <2>2. Safe(j)'
    BY <1>1 DEF Safe, Removing
  <2> QED BY <1>3, <1>4, <2>1, <2>2 DEF Timely, InTime
<1>5. \A j \in Job : Starting(j, g) => Starting(j, g)'
  BY <1>3 DEF Starting
<1>6. \A i \in DOMAIN queue : OnChain(i, g) => OnChain(i, g)'
  BY <1>1 DEF OnChain
<1>7. Recovered(g) => Recovered(g)'
  <2>1. boot \in [stage : {"idle", "scan", "next", "remove", "wait"},
                  goal : Goal \cup {None}, todo : [Goal -> Nat \cup {None}]]
    BY DEF Typed, TypeOK
  <2>2. boot.todo[g] # None => boot'.todo[g] # None
    <3>1. boot'.todo[g] = IF boot.todo[g] = 0 THEN 0 ELSE Less(boot.todo[g], 1)
      BY <1>1, <2>1
    <3>2. boot.todo[g] \in Nat \cup {None} /\ None \notin Nat
      BY <2>1, ConstantsAssumption
    <3>3. boot.todo[g] # None => Less(boot.todo[g], 1) \in Nat
      BY <3>2, LessIsLess
    <3> QED BY <3>1, <3>2, <3>3
  <2> QED BY <1>1, <2>2 DEF Recovered
<1>8. ~Asked(g) /\ \A p \in Process : ~Promised(p, g)
  BY <1>1 DEF Asked, Promised, Adding, Removing
<1> QED BY <1>1, <1>4, <1>5, <1>6, <1>7, <1>8 DEF Covered

LEMMA JobsKeepCover ==
    ASSUME Typed, NEW g \in Goal, Covered(g), NEW j \in Job, TimerFires(j) \/ JobStarts(j)
    PROVE  Covered(g)'
<1>0. job \in [Job -> Booking]
  BY DEF Typed, TypeOK, Booking
<1>1. /\ UNCHANGED <<flag, goals, runs, stage, reg, arm, boot, counts, history>>
      /\ due' = due /\ restarts' = restarts
  BY DEF TimerFires, JobStarts, goals, counts
<1>2. /\ \A p \in Process : Promised(p, g) => Adding(p, g)' /\ reg'[p].in = reg[p].in
      /\ (Asked(g) => Asked(g)') /\ (Recovered(g) => Recovered(g)')
      /\ \A k \in Job : Safe(k) => Safe(k)'
  BY <1>1 DEF Promised, Adding, Removing, Asked, Recovered, Safe
<1>3. CASE TimerFires(j)
  <2>1. /\ job' = [job EXCEPT ![j].state = "running", ![j].armed = FALSE]
        /\ job[j].state = "pending" /\ queue' = queue
    BY <1>3 DEF TimerFires
  <2>2. /\ job'[j].state = "running" /\ job'[j].goal = job[j].goal
        /\ \A k \in Job : k # j => job'[k] = job[k]
    BY <1>0, <2>1 DEF Booking
  <2>3. Covered(g)' \/ \A k \in Job : Timely(k, g) =>
               job'[k].goal = g /\ job'[k].state = "pending" /\ job'[k].in = job[k].in /\ Safe(k)'
    <3>1. CASE Timely(j, g)
      BY <2>2, <3>1 DEF Timely, Covered, Starting
    <3>2. CASE ~Timely(j, g)
      BY <1>2, <2>2, <3>2 DEF Timely
    <3> QED BY <3>1, <3>2
  <2>4. \A k \in Job : Starting(k, g) => Starting(k, g)'
    BY <2>1, <2>2 DEF Starting
  <2>5. \A i \in DOMAIN queue : OnChain(i, g) => i \in DOMAIN queue' /\ OnChain(i, g)'
    BY <1>1, <2>1 DEF OnChain
  <2> QED BY <1>1, <1>2, <2>3, <2>4, <2>5, CoverStands
<1>4. CASE JobStarts(j)
  <2>1. /\ job[j].state = "running"
        /\ job' = Saved([job EXCEPT ![j].state = "free"])
        /\ queue' = Append(queue, <<"timer", job[j].goal>>)
    BY <1>4 DEF JobStarts
  <2>2. <<"timer", job[j].goal>> \in {"timer", "boot"} \X Goal
    BY <2>1 DEF Typed, Named, Alive
  <2>3. /\ DOMAIN queue' = 1..(Len(queue) + 1)
        /\ queue'[Len(queue) + 1] = <<"timer", job[j].goal>>
        /\ \A i \in 1..Len(queue) : queue'[i] = queue[i]
    BY <2>1, <2>2, Joined
  <2>4. /\ Len(queue) \in Nat /\ DOMAIN queue = 1..Len(queue)
    BY Queued
  <2>5. \A i \in DOMAIN queue : OnChain(i, g) => i \in DOMAIN queue' /\ OnChain(i, g)'
    BY <1>1, <2>3, <2>4 DEF OnChain
  <2>6. \A k \in Job : k # j /\ job[k].state # "free" =>
            /\ job'[k].state = job[k].state /\ job'[k].goal = job[k].goal /\ job'[k].in = job[k].in
    <3> DEFINE freed == [job EXCEPT ![j].state = "free"]
    <3>1. /\ freed \in [Job -> Booking]
          /\ \A k \in Job : k # j => freed[k] = job[k]
      BY <1>0 DEF Booking
    <3>2. Alike(freed, job')
      <4>1. job' = Saved(freed)
        BY <2>1
      <4> HIDE DEF freed
      <4> QED BY <3>1, <4>1, SavedIsAlike
    <3> HIDE DEF freed
    <3> QED BY <3>1, <3>2 DEF Alike, Alive
  <2>7. Covered(g)' \/ \A k \in Job : Starting(k, g) => Starting(k, g)'
    <3>1. CASE job[j].goal = g
      <4>1. stage = "finish" => Len(queue) # 0
        <5>1. queue # <<>> => 1 \in DOMAIN queue
          BY Queued
        <5> QED BY <2>4, <5>1 DEF Typed, OneEach
      <4>2. PICK n \in Nat : n = Len(queue) + 1
        BY <2>4
      <4>3. n \in DOMAIN queue' /\ OnChain(n, g)'
        BY <1>1, <2>3, <2>4, <3>1, <4>1, <4>2 DEF OnChain
      <4> QED BY <4>3 DEF Covered
    <3>2. CASE job[j].goal # g
      BY <2>6, <3>2 DEF Starting
    <3> QED BY <3>1, <3>2
  <2>8. \A k \in Job : Timely(k, g) =>
               job'[k].goal = g /\ job'[k].state = "pending" /\ job'[k].in = job[k].in /\ Safe(k)'
    BY <1>2, <2>1, <2>6 DEF Timely
  <2> QED BY <1>1, <1>2, <2>5, <2>7, <2>8, CoverStands
<1> QED BY <1>3, <1>4

LEMMA RegistrationsKeepCover ==
    ASSUME Typed, NEW g \in Goal, Waking(g), Covered(g), NEW p \in Process,
           RemoveJob(p) \/ AddJob(p) \/ RemovalEnds(p) \/ JobAdded(p)
    PROVE  Covered(g)'
<1>0. /\ TypeOK /\ job \in [Job -> Booking]
      /\ reg \in [Process -> [stage : {"idle", "remove", "removed", "added"},
                              goal : Goal \cup {None}, in : Nat \cup {None},
                              found : SUBSET Job]]
  BY DEF Typed, TypeOK, Booking
<1>1. /\ UNCHANGED <<flag, goals, runs, queue, stage, arm, boot, counts, history>>
      /\ due' = due /\ restarts' = restarts
  BY DEF RemoveJob, AddJob, RemovalEnds, JobAdded, goals, counts
<1>2. /\ \A i \in DOMAIN queue : OnChain(i, g) => i \in DOMAIN queue' /\ OnChain(i, g)'
      /\ (Asked(g) => Asked(g)') /\ (Recovered(g) => Recovered(g)')
  BY <1>1 DEF OnChain, Asked, Recovered
<1>3. ASSUME \A q \in Process \ {p} : reg'[q] = reg[q],
             Removing(p)' => Removing(p) /\ reg'[p].found \subseteq reg[p].found
      PROVE  \A j \in Job : Safe(j) => Safe(j)'
  BY <1>3 DEF Safe, Removing
<1>4. CASE RemoveJob(p)
  <2>1. PICK j \in StillPending(p) :
              /\ j \in Job
              /\ job' \in [Job -> Booking] /\ job'[j].state = "free"
              /\ \A k \in Job : /\ Alive(job'[k]) => /\ Alive(job[k])
                                                     /\ job'[k].goal = job[k].goal
                                                     /\ job'[k].in = job[k].in
                                /\ k # j => /\ job'[k].state = job[k].state
                                            /\ Alive(job'[k]) => job'[k].armed = job[k].armed
              /\ reg' = [reg EXCEPT ![p].found = @ \ {j}, ![p].stage = "removed"]
    BY <1>0, <1>4, RemoveJobFrees
  <2>2. Removing(p) /\ j \in reg[p].found /\ job[j].state = "pending"
    BY <1>4 DEF RemoveJob, StillPending
  <2>3. /\ reg'[p].goal = reg[p].goal /\ reg'[p].in = reg[p].in /\ reg'[p].stage = "removed"
        /\ reg'[p].found \subseteq reg[p].found
        /\ \A q \in Process \ {p} : reg'[q] = reg[q]
    BY <1>0, <2>1
  <2>4. ~Safe(j) /\ \A k \in Job : Safe(k) => Safe(k)'
    BY <1>3, <2>2, <2>3 DEF Safe
  <2>5. \A k \in Job : k # j /\ job[k].state # "free" =>
            /\ job'[k].state = job[k].state /\ job'[k].goal = job[k].goal /\ job'[k].in = job[k].in
    BY <2>1 DEF Alive
  <2>6. \A k \in Job : Starting(k, g) => Starting(k, g)'
    BY <2>2, <2>5 DEF Starting
  <2>7. \A k \in Job : Timely(k, g) =>
               job'[k].goal = g /\ job'[k].state = "pending" /\ job'[k].in = job[k].in /\ Safe(k)'
    BY <2>4, <2>5 DEF Timely
  <2>8. \A q \in Process : Promised(q, g) => Adding(q, g)' /\ reg'[q].in = reg[q].in
    BY <2>2, <2>3 DEF Promised, Adding, Removing
  <2> QED BY <1>1, <1>2, <2>6, <2>7, <2>8, CoverStands
<1>5. CASE RemovalEnds(p) \/ JobAdded(p)
  <2>1. \A k \in Job : job[k].state # "free" =>
            /\ job'[k].state = job[k].state /\ job'[k].goal = job[k].goal /\ job'[k].in = job[k].in
    <3>1. CASE RemovalEnds(p)
      BY <1>0, <3>1, LandedIsAlike DEF RemovalEnds, Alike, Alive
    <3>2. CASE JobAdded(p)
      <4>1. Alike(job, Saved(job)) /\ Saved(job) \in [Job -> Booking]
        BY <1>0, SavedIsAlike DEF Alike
      <4>2. \A k \in Job : job'[k].goal = Saved(job)[k].goal /\ job'[k].state = Saved(job)[k].state
                           /\ job'[k].in = Saved(job)[k].in
        BY <3>2, <4>1 DEF JobAdded, Booking
      <4> QED BY <4>1, <4>2 DEF Alike, Alive
    <3> QED BY <1>5, <3>1, <3>2
  <2>2. /\ \A q \in Process \ {p} : reg'[q] = reg[q]
        /\ reg'[p].stage = "idle"
        /\ ~(Removing(p) /\ reg[p].in # None)
    BY <1>0, <1>5 DEF RemovalEnds, JobAdded, Removing, Idle
  <2>3. \A k \in Job : Safe(k) => Safe(k)'
    BY <1>3, <2>2 DEF Removing
  <2>4. \A k \in Job : Starting(k, g) => Starting(k, g)'
    BY <2>1 DEF Starting
  <2>5. \A k \in Job : Timely(k, g) =>
               job'[k].goal = g /\ job'[k].state = "pending" /\ job'[k].in = job[k].in /\ Safe(k)'
    BY <2>1, <2>3 DEF Timely
  <2>6. \A q \in Process : Promised(q, g) => Adding(q, g)' /\ reg'[q].in = reg[q].in
    BY <2>2 DEF Promised, Adding, Removing
  <2> QED BY <1>1, <1>2, <2>4, <2>5, <2>6, CoverStands
<1>6. CASE AddJob(p)
  <2>1. PICK j \in Job : AddsJob(p, j)
    BY <1>0, <1>6, AddJobTakesSlot
  <2>2. /\ Removing(p) /\ reg[p].in # None /\ job[j].state = "free"
        /\ \A q \in Process \ {p} : j \notin reg[q].found
        /\ Alike([job EXCEPT ![j] = job'[j]], job')
        /\ job'[j].goal = reg[p].goal /\ job'[j].in = Max({1, reg[p].in})
        /\ job'[j].state = "pending"
        /\ reg' = [reg EXCEPT ![p].stage = "added", ![p].found = {j}]
    BY <2>1 DEF AddsJob
  <2>3. \A k \in Job : k # j /\ job[k].state # "free" =>
            /\ job'[k].state = job[k].state /\ job'[k].goal = job[k].goal /\ job'[k].in = job[k].in
    BY <1>0, <2>2 DEF Alike, Alive
  <2>4. /\ \A q \in Process \ {p} : reg'[q] = reg[q]
        /\ reg'[p].stage = "added"
    BY <1>0, <2>2
  <2>5. \A k \in Job : Safe(k) => Safe(k)'
    BY <1>3, <2>4 DEF Removing
  <2>6. \A k \in Job : Starting(k, g) => Starting(k, g)'
    BY <2>2, <2>3 DEF Starting
  <2>7. \A k \in Job : Timely(k, g) =>
               job'[k].goal = g /\ job'[k].state = "pending" /\ job'[k].in = job[k].in /\ Safe(k)'
    BY <2>2, <2>3, <2>5 DEF Timely
  <2>8. Covered(g)' \/ \A q \in Process : Promised(q, g) => Adding(q, g)' /\ reg'[q].in = reg[q].in
    <3>1. CASE Promised(p, g)
      <4>1. reg[p].goal = g /\ InTime(g, reg[p].in) /\ reg[p].in \in Nat
        BY <1>0, <2>2, <3>1 DEF Promised, Adding
      <4>2. InTime(g, Max({1, reg[p].in}))
        BY <4>1, DelayedIsInTime DEF Waking
      <4>3. InTime(g, job'[j].in)
        BY <2>2, <4>2
      <4>4. restarts' = 0 => job'[j].in <= Max({1, due'[g]})
        BY <1>1, <4>3 DEF InTime
      <4>5. Safe(j)'
        BY <2>2, <2>4 DEF Safe, Removing
      <4>6. Timely(j, g)'
        <5> HIDE DEF Max
        <5> QED BY <2>2, <4>1, <4>4, <4>5 DEF Timely, InTime
      <4> QED BY <4>6 DEF Covered
    <3>2. CASE ~Promised(p, g)
      BY <2>4, <3>2 DEF Promised, Adding, Removing
    <3> QED BY <3>1, <3>2
  <2> QED BY <1>1, <1>2, <2>6, <2>7, <2>8, CoverStands
<1> QED BY <1>4, <1>5, <1>6

\* The steps that leave the jobs and the registrations alone.
LEMMA ElseKeepsCover ==
    ASSUME NEW g \in Goal, Covered(g), UNCHANGED <<job, reg, restarts>>, due'[g] = due[g],
           Covered(g)' \/ \A i \in DOMAIN queue : OnChain(i, g) => i \in DOMAIN queue' /\ OnChain(i, g)',
           Covered(g)' \/ (Asked(g) => Asked(g)'),
           Covered(g)' \/ (Recovered(g) => Recovered(g)')
    PROVE  Covered(g)'
<1>1. \A j \in Job : Starting(j, g) => Starting(j, g)'
  BY DEF Starting
<1>2. \A j \in Job : Timely(j, g) =>
               job'[j].goal = g /\ job'[j].state = "pending" /\ job'[j].in = job[j].in /\ Safe(j)'
  BY DEF Timely, Safe, Removing
<1>3. \A p \in Process : Promised(p, g) => Adding(p, g)' /\ reg'[p].in = reg[p].in
  BY DEF Promised, Adding, Removing
<1> QED BY <1>1, <1>2, <1>3, CoverStands

LEMMA WakesKeepCover ==
    ASSUME Typed, NEW g \in Goal, Waking(g) => Covered(g), flag, mishaps' = mishaps, Waking(g)',
           \/ WakeIgnored \/ WakeCapped \/ WakeCoolsDown \/ WakeGranted
           \/ StampWake \/ RollWake \/ SessionFails \/ Dispatch \/ CycleEnds \/ CycleFails
    PROVE  Covered(g)'
<1>1. mishaps \in Nat
  BY ConstantsAssumption DEF Typed, TypeOK
<1>2. ~SessionFails /\ ~CycleFails
  <2>1. (SessionFails \/ CycleFails) => mishaps' = mishaps + 1
    BY DEF SessionFails, CycleFails, Mishap
  <2> QED BY <1>1, <2>1
<1>3. /\ UNCHANGED <<status, queue, arm, boot, job, reg, restarts>>
      /\ queue # <<>> /\ Woken' = Woken
      /\ \A h \in Goal : h # Woken => due'[h] = due[h]
  <2>1. UNCHANGED <<status, queue, arm, boot, job, reg, restarts>> /\ queue # <<>>
    BY <1>2 DEF WakeIgnored, WakeCapped, WakeCoolsDown, WakeGranted, Rearm, StampWake, RollWake,
         Dispatch, CycleEnds, Governed, Eligible, Due, goals, counts, Typed, OneEach
  <2>2. \A h \in Goal : h # Woken => due'[h] = due[h]
    <3>1. due \in [Goal -> Nat \cup {None}]
      BY DEF Typed, TypeOK
    <3>2. UNCHANGED due \/ \E new : due' = [due EXCEPT ![Woken] = new]
      BY <1>2 DEF WakeIgnored, WakeCapped, WakeCoolsDown, WakeGranted, Rearm, StampWake, RollWake,
           Dispatch, CycleEnds, goals
    <3> QED BY <3>1, <3>2
  <2> QED BY <2>1, <2>2 DEF Woken
<1>4. 1 \in DOMAIN queue /\ Woken = queue[1][2]
  BY <1>3, Queued
<1>5. Asked(g) => Asked(g)'
  BY <1>3 DEF Asked
<1>6. Recovered(g) => Recovered(g)'
  BY <1>3 DEF Recovered
<1>7. CASE Woken = g
  <2>1. ~WakeIgnored
    BY <1>3, <1>7 DEF WakeIgnored, Waking
  <2>2. stage' # "finish"
    BY <1>2, <2>1 DEF WakeCapped, WakeCoolsDown, WakeGranted, Rearm, StampWake, RollWake,
         Dispatch, CycleEnds
  <2>3. OnChain(1, g)'
    BY <1>3, <1>4, <1>7, <2>2 DEF OnChain
  <2> QED BY <1>3, <1>4, <2>3 DEF Covered
<1>8. CASE Woken # g
  <2>1. \A i \in DOMAIN queue : OnChain(i, g) => i \in DOMAIN queue' /\ OnChain(i, g)'
    BY <1>3, <1>4, <1>8 DEF OnChain
  <2>2. due'[g] = due[g] /\ Covered(g)
    BY <1>3, <1>8 DEF Waking
  <2> QED BY <1>3, <1>5, <1>6, <2>1, <2>2, ElseKeepsCover
<1> QED BY <1>7, <1>8

\* A registration that p begins for goal h: the jobs of other goals stay safe.
LEMMA RegisteringKeepsSafe ==
    ASSUME Typed, NEW p \in Process, NEW h \in Goal, NEW wake \in Nat \cup {None},
           Register(p, h, wake)
    PROVE  \A j \in Job : Safe(j) /\ job[j].goal # h => Safe(j)'
<1>1. /\ reg'[p] = [stage |-> "remove", goal |-> h, in |-> wake, found |-> PendingJobs(h)]
      /\ \A q \in Process \ {p} : reg'[q] = reg[q]
  BY RegisterIsTyped
<1> QED BY <1>1 DEF Safe, Removing, PendingJobs

LEMMA RegisteringKeepsCover ==
    ASSUME Typed, NEW g \in Goal, NEW p \in Process, NEW h \in Goal, NEW wake \in Nat \cup {None},
           reg[p].stage = "idle", Register(p, h, wake), UNCHANGED <<job, restarts>>, due'[g] = due[g],
           Covered(g), g # h,
           \A i \in DOMAIN queue : OnChain(i, g) => i \in DOMAIN queue' /\ OnChain(i, g)',
           Asked(g) => Asked(g)', Recovered(g) => Recovered(g)'
    PROVE  Covered(g)'
<1>1. \A j \in Job : Safe(j) /\ job[j].goal # h => Safe(j)'
  BY RegisteringKeepsSafe
<1>2. \A q \in Process \ {p} : reg'[q] = reg[q]
  BY RegisterIsTyped
<1>3. \A j \in Job : Starting(j, g) => Starting(j, g)'
  BY DEF Starting
<1>4. \A j \in Job : Timely(j, g) =>
               job'[j].goal = g /\ job'[j].state = "pending" /\ job'[j].in = job[j].in /\ Safe(j)'
  BY <1>1 DEF Timely
<1>5. \A q \in Process : Promised(q, g) => Adding(q, g)' /\ reg'[q].in = reg[q].in
  BY <1>2 DEF Promised, Adding, Removing
<1> QED BY <1>3, <1>4, <1>5, CoverStands

\* The goal a registration was begun for, with the wake the goal has.
LEMMA RegisteringCovers ==
    ASSUME Typed, NEW g \in Goal, NEW p \in Process, due[g] # None, Register(p, g, due[g]),
           UNCHANGED <<due, restarts>>
    PROVE  Covered(g)'
<1>1. due[g] \in Nat \cup {None}
  BY DEF Typed, TypeOK
<1>2. reg'[p] = [stage |-> "remove", goal |-> g, in |-> due[g], found |-> PendingJobs(g)]
  BY <1>1, RegisterIsTyped
<1>3. InTime(g, due[g])
  BY OwnWakeIsInTime
<1>4. InTime(g, reg[p].in)'
  BY <1>2, <1>3 DEF InTime
<1>5. Promised(p, g)'
  BY <1>2, <1>4 DEF Promised, Adding, Removing
<1> QED BY <1>5 DEF Covered

LEMMA RegisterNextKeepsCover ==
    ASSUME Typed, NEW g \in Goal, Waking(g), Covered(g), RegisterNext
    PROVE  Covered(g)'
<1>1. /\ stage \in {"after", "rearmed"} /\ stage' = "finish"
      /\ UNCHANGED <<goals, job, queue, arm, boot, restarts, due>>
  BY DEF RegisterNext, goals, counts
<1>2. /\ Woken \in Goal /\ 1 \in DOMAIN queue /\ Woken = queue[1][2]
  BY <1>1, WokenIsGoal, Queued DEF Typed, OneEach
<1>3. /\ (Asked(g) => Asked(g)') /\ (Recovered(g) => Recovered(g)')
  BY <1>1 DEF Asked, Recovered
<1>4. CASE g = Woken
  <2>1. Register("wake", g, due[g]) /\ due[g] # None
    BY <1>1, <1>4 DEF RegisterNext, Waking
  <2>2. "wake" \in Process
    BY DEF Process
  <2> HIDE DEF Process, Register
  <2> QED BY <1>1, <2>1, <2>2, RegisteringCovers
<1>5. CASE g # Woken
  <2>1. \A i \in DOMAIN queue : OnChain(i, g) => i \in DOMAIN queue' /\ OnChain(i, g)'
    BY <1>1, <1>2, <1>5 DEF OnChain
  <2>2. CASE UNCHANGED reg
    BY <1>1, <1>3, <2>1, <2>2, ElseKeepsCover
  <2>3. CASE Register("wake", Woken, due[Woken])
    <3>1. "wake" \in Process /\ reg["wake"].stage = "idle" /\ due[Woken] \in Nat \cup {None}
      BY <1>1, <1>2 DEF Process, Typed, TypeOK, OneEach
    <3> HIDE DEF Process, Register
    <3> QED BY <1>1, <1>2, <1>3, <1>5, <2>1, <2>3, <3>1, RegisteringKeepsCover
  <2> QED BY <2>2, <2>3 DEF RegisterNext
<1> QED BY <1>4, <1>5

LEMMA FinishKeepsCover ==
    ASSUME Typed, BootWaits, NEW g \in Goal, Covered(g), Finish
    PROVE  Covered(g)'
<1>1. /\ stage = "finish" /\ queue' = Tail(queue) /\ stage' = "none"
      /\ boot' = IF Head(queue)[1] = "boot" THEN [boot EXCEPT !.stage = "next"] ELSE boot
      /\ UNCHANGED <<due, job, reg, arm, restarts>>
  BY DEF Finish, goals, counts
<1>2. queue # <<>> /\ Head(queue) = queue[1] /\ 1 \in DOMAIN queue
  <2>1. queue # <<>> /\ queue \in Seq({"timer", "boot"} \X Goal)
    BY <1>1 DEF Typed, TypeOK, OneEach
  <2> QED BY <2>1, Queued, HeadTailProperties
<1>3. Covered(g)' \/ \A i \in DOMAIN queue : OnChain(i, g) => i \in DOMAIN queue' /\ OnChain(i, g)'
  <2>1. ASSUME NEW i \in DOMAIN queue, OnChain(i, g) PROVE Covered(g)'
    <3>1. i # 1
      BY <1>1, <2>1 DEF OnChain
    <3>2. i - 1 \in DOMAIN queue' /\ queue'[i - 1] = queue[i]
      BY <1>1, <1>2, <3>1, Shifted
    <3>3. PICK k \in DOMAIN queue' : queue'[k] = queue[i]
      BY <3>2
    <3>4. OnChain(k, g)'
      BY <1>1, <2>1, <3>3 DEF OnChain
    <3> QED BY <3>3, <3>4 DEF Covered
  <2> QED BY <2>1
<1>4. Asked(g) => Asked(g)'
  BY <1>1 DEF Asked
<1>5. Recovered(g) => Recovered(g)'
  <2>1. CASE Head(queue)[1] = "boot"
    <3>1. boot.stage = "wait"
      BY <1>2, <2>1 DEF BootWaits
    <3>2. boot'.todo = boot.todo
      BY <1>1, <2>1 DEF Typed, TypeOK
    <3> QED BY <3>1, <3>2 DEF Recovered
  <2>2. CASE Head(queue)[1] # "boot"
    BY <1>1, <2>2 DEF Recovered
  <2> QED BY <2>1, <2>2
<1> QED BY <1>1, <1>3, <1>4, <1>5, ElseKeepsCover

LEMMA ArmingKeepsCover ==
    ASSUME Typed, NEW g \in Goal, Waking(g) => Covered(g), Waking(g)',
           \/ ArmActivates \/ ArmRegisters
           \/ \E h \in Goal, d \in Delays : ArmGoal(h, d)
    PROVE  Covered(g)'
<1>1. CASE ArmActivates
  <2>1. /\ arm[1] = "activate" /\ arm' = <<"read", arm[2]>>
        /\ status' = [status EXCEPT ![arm[2]] = "active"]
        /\ UNCHANGED <<due, job, queue, stage, reg, boot, restarts>>
    BY <1>1 DEF ArmActivates, counts
  <2>2. CASE arm[2] = g
    <3>1. Asked(g)'
      BY <2>1, <2>2 DEF Asked
    <3> QED BY <3>1 DEF Covered
  <2>3. CASE arm[2] # g
    <3>1. status'[g] = status[g]
      BY <2>1, <2>3 DEF Typed, TypeOK
    <3>2. Covered(g)
      BY <2>1, <3>1 DEF Waking
    <3>3. /\ \A i \in DOMAIN queue : OnChain(i, g) => i \in DOMAIN queue' /\ OnChain(i, g)'
          /\ (Asked(g) => Asked(g)') /\ (Recovered(g) => Recovered(g)')
      BY <2>1, <2>3 DEF OnChain, Asked, Recovered
    <3> QED BY <2>1, <3>2, <3>3, ElseKeepsCover
  <2> QED BY <2>2, <2>3
<1>2. CASE ArmRegisters
  <2>1. /\ arm[1] = "read" /\ arm' = <<"idle", None>>
        /\ UNCHANGED <<status, due, job, queue, stage, boot, restarts>>
    BY <1>2 DEF ArmRegisters, goals, counts
  <2>2. arm[2] \in Goal /\ Waking(g) /\ Covered(g)
    BY <2>1 DEF Typed, TypeOK, Waking
  <2>3. \A i \in DOMAIN queue : OnChain(i, g) => i \in DOMAIN queue' /\ OnChain(i, g)'
    BY <2>1 DEF OnChain
  <2>4. Recovered(g) => Recovered(g)'
    BY <2>1 DEF Recovered
  <2>5. CASE arm[2] = g
    <3>1. Register("arm", g, due[g]) /\ due[g] # None
      BY <1>2, <2>2, <2>5 DEF ArmRegisters, Waking
    <3>2. "arm" \in Process
      BY DEF Process
    <3> HIDE DEF Process, Register
    <3> QED BY <2>1, <3>1, <3>2, RegisteringCovers
  <2>6. CASE arm[2] # g
    <3>1. ~Asked(g)
      BY <2>6 DEF Asked
    <3>2. CASE UNCHANGED reg
      BY <2>1, <2>2, <2>3, <2>4, <3>1, <3>2, ElseKeepsCover
    <3>3. CASE Register("arm", arm[2], due[arm[2]])
      <4>1. /\ "arm" \in Process /\ reg["arm"].stage = "idle"
            /\ due[arm[2]] \in Nat \cup {None}
        BY <2>1, <2>2 DEF Process, Typed, TypeOK, OneEach
      <4> HIDE DEF Process, Register
      <4> QED BY <2>1, <2>2, <2>3, <2>4, <2>6, <3>1, <3>3, <4>1, RegisteringKeepsCover
    <3> QED BY <1>2, <3>2, <3>3 DEF ArmRegisters
  <2> QED BY <2>5, <2>6
<1>3. ASSUME NEW h \in Goal, NEW d \in Delays, ArmGoal(h, d) PROVE Covered(g)'
  <2>1. /\ arm[1] = "idle"
        /\ due' = [due EXCEPT ![h] = d]
        /\ arm' = <<IF status[h] = "proposed" THEN "activate" ELSE "read", h>>
        /\ UNCHANGED <<status, job, queue, stage, reg, boot, restarts>>
    BY <1>3 DEF ArmGoal
  <2>2. CASE h = g
    <3>1. Asked(g)'
      BY <2>1, <2>2 DEF Asked
    <3> QED BY <3>1 DEF Covered
  <2>3. CASE h # g
    <3>1. due'[g] = due[g]
      BY <2>1, <2>3 DEF Typed, TypeOK
    <3>2. Covered(g)
      BY <2>1, <3>1 DEF Waking
    <3>3. /\ \A i \in DOMAIN queue : OnChain(i, g) => i \in DOMAIN queue' /\ OnChain(i, g)'
          /\ ~Asked(g) /\ (Recovered(g) => Recovered(g)')
      BY <2>1 DEF OnChain, Asked, Recovered
    <3> QED BY <2>1, <3>1, <3>2, <3>3, ElseKeepsCover
  <2> QED BY <2>2, <2>3
<1> QED BY <1>1, <1>2, <1>3

LEMMA StartsKeepCover ==
    ASSUME Typed, Unstarted \/ restarts # 0, BootWaits,
           NEW g \in Goal, Waking(g), Covered(g),
           \/ CrashRestart \/ BootScans \/ BootWakes \/ BootEnds
           \/ \E h \in Goal : BootTakes(h)
    PROVE  Covered(g)'
<1>0. boot \in [stage : {"idle", "scan", "next", "remove", "wait"},
                goal : Goal \cup {None}, todo : [Goal -> Nat \cup {None}]]
  BY DEF Typed, TypeOK
<1>1. CASE CrashRestart
  BY <1>1 DEF CrashRestart, Covered, Recovered
<1>2. CASE BootScans
  <2>1. boot'.todo[g] = due[g]
    BY <1>2 DEF BootScans, Waking
  <2> QED BY <2>1 DEF Waking, Covered, Recovered
<1>3. CASE BootWakes
  <2>1. /\ boot.stage = "remove" /\ queue' = Append(queue, <<"boot", boot.goal>>)
        /\ boot' = [boot EXCEPT !.stage = "wait"]
        /\ UNCHANGED <<due, job, stage, reg, arm, restarts>>
    BY <1>3 DEF BootWakes, goals, counts
  <2>2. <<"boot", boot.goal>> \in {"timer", "boot"} \X Goal
    BY <2>1 DEF Typed, Named
  <2>3. /\ DOMAIN queue' = 1..(Len(queue) + 1)
        /\ queue'[Len(queue) + 1] = <<"boot", boot.goal>>
        /\ \A i \in 1..Len(queue) : queue'[i] = queue[i]
    BY <2>1, <2>2, Joined
  <2>4. Len(queue) \in Nat /\ DOMAIN queue = 1..Len(queue)
    BY Queued
  <2>5. \A i \in DOMAIN queue : OnChain(i, g) => i \in DOMAIN queue' /\ OnChain(i, g)'
    BY <2>1, <2>3, <2>4 DEF OnChain
  <2>6. Covered(g)' \/ (Recovered(g) => Recovered(g)')
    <3>1. CASE boot.goal = g
      <4>1. PICK n \in Nat : n = Len(queue) + 1
        BY <2>4
      <4>2. stage = "finish" => n # 1
        <5>1. queue # <<>> => 1 \in DOMAIN queue
          BY Queued
        <5> QED BY <2>4, <4>1, <5>1 DEF Typed, OneEach
      <4>3. n \in DOMAIN queue' /\ OnChain(n, g)'
        BY <2>1, <2>3, <2>4, <3>1, <4>1, <4>2 DEF OnChain
      <4> QED BY <4>3 DEF Covered
    <3>2. CASE boot.goal # g
      BY <1>0, <2>1, <3>2 DEF Recovered
    <3> QED BY <3>1, <3>2
  <2>7. Asked(g) => Asked(g)'
    BY <2>1 DEF Asked
  <2> QED BY <2>1, <2>5, <2>6, <2>7, ElseKeepsCover
<1>4. CASE BootEnds
  <2>1. /\ boot.stage = "next" /\ \A h \in Goal : boot.todo[h] = None
        /\ UNCHANGED <<due, job, queue, stage, reg, arm, restarts>>
    BY <1>4 DEF BootEnds, goals, counts
  <2>2. ~Recovered(g)
    BY <2>1 DEF Recovered
  <2>3. /\ \A i \in DOMAIN queue : OnChain(i, g) => i \in DOMAIN queue' /\ OnChain(i, g)'
        /\ (Asked(g) => Asked(g)')
    BY <2>1 DEF OnChain, Asked
  <2> QED BY <2>1, <2>2, <2>3, ElseKeepsCover
<1>5. ASSUME NEW h \in Goal, BootTakes(h) PROVE Covered(g)'
  <2>1. /\ boot.stage = "next" /\ reg["boot"].stage = "idle" /\ boot.todo[h] # None
        /\ UNCHANGED <<due, job, queue, stage, arm, restarts>>
        /\ "boot" \in Process
    BY <1>5 DEF BootTakes, goals, counts, Process
  <2>2. \/ /\ Register("boot", h, None)
           /\ boot' = [boot EXCEPT !.stage = "remove", !.goal = h, !.todo[h] = None]
        \/ /\ Register("boot", h, boot.todo[h])
           /\ boot' = [boot EXCEPT !.todo[h] = None]
    BY <1>5 DEF BootTakes
  <2>3. /\ \A i \in DOMAIN queue : OnChain(i, g) => i \in DOMAIN queue' /\ OnChain(i, g)'
        /\ (Asked(g) => Asked(g)')
    BY <2>1 DEF OnChain, Asked
  <2>4. CASE g # h
    <3>1. Recovered(g) => Recovered(g)'
      <4>1. boot'.todo[g] = boot.todo[g]
        BY <1>0, <2>2, <2>4
      <4> QED BY <2>1, <4>1 DEF Recovered
    <3>2. boot.todo[h] \in Nat \cup {None} /\ None \in Nat \cup {None}
      BY <1>0
    <3> HIDE DEF Process, Register
    <3> QED BY <2>1, <2>2, <2>3, <2>4, <3>1, <3>2, RegisteringKeepsCover
  <2>5. CASE g = h /\ boot' = [boot EXCEPT !.stage = "remove", !.goal = h, !.todo[h] = None]
    <3>1. boot'.stage = "remove" /\ boot'.goal = g
      BY <1>0, <2>5
    <3> QED BY <3>1 DEF Covered, Recovered
  <2>6. CASE g = h /\ Register("boot", h, boot.todo[h])
    <3>1. boot.todo[g] \in Nat
      BY <1>0, <2>1, <2>6
    <3>2. reg'["boot"] = [stage |-> "remove", goal |-> g, in |-> boot.todo[g],
                          found |-> PendingJobs(g)]
      <4> HIDE DEF Process, Register
      <4> QED BY <2>1, <2>6, <3>1, RegisterIsTyped
    <3>3. restarts' # 0
      BY <2>1 DEF Unstarted
    <3>4. None # boot.todo[g]
      BY <2>1, <2>6
    <3>5. Promised("boot", g)'
      BY <3>2, <3>3, <3>4 DEF Promised, Adding, Removing, InTime
    <3> QED BY <2>1, <3>5 DEF Covered
  <2> QED BY <2>2, <2>4, <2>5, <2>6
<1> QED BY <1>1, <1>2, <1>3, <1>4, <1>5

\* Only the recovery puts its wake on the chain, and then waits for it.
LEMMA BootWaitsStep ==
    ASSUME Typed, BootWaits, [Next]_vars
    PROVE  BootWaits'
<1>0. boot \in [stage : {"idle", "scan", "next", "remove", "wait"},
                goal : Goal \cup {None}, todo : [Goal -> Nat \cup {None}]]
  BY DEF Typed, TypeOK
<1>1. CASE Tick
  <2>1. /\ boot' = [boot EXCEPT !.todo = [g \in Goal |-> IF @[g] = 0 THEN 0 ELSE Less(@[g], 1)]]
        /\ UNCHANGED queue
    BY <1>1 DEF Tick
  <2>2. /\ boot'.stage = boot.stage
        /\ boot'.todo = [g \in Goal |-> IF boot.todo[g] = 0 THEN 0 ELSE Less(boot.todo[g], 1)]
    BY <1>0, <2>1
  <2>3. None # 0
    BY ConstantsAssumption
  <2>4. boot.stage = "idle" => \A g \in Goal : boot'.todo[g] = None
    BY <2>2, <2>3 DEF BootWaits, Less
  <2> QED BY <2>1, <2>2, <2>4 DEF BootWaits
<1>2. ASSUME NEW j \in Job, JobStarts(j) PROVE BootWaits'
  <2>1. /\ queue' = Append(queue, <<"timer", job[j].goal>>) /\ UNCHANGED boot
        /\ <<"timer", job[j].goal>> \in {"timer", "boot"} \X Goal
    BY <1>2 DEF JobStarts, Typed, Named, Alive
  <2>2. \A i \in DOMAIN queue' : queue'[i][1] = "boot" => i \in DOMAIN queue /\ queue'[i] = queue[i]
    BY <2>1, Joined, Queued
  <2> QED BY <2>1, <2>2 DEF BootWaits
<1>3. CASE Finish
  <2>1. /\ queue' = Tail(queue) /\ queue # <<>>
        /\ boot' = IF Head(queue)[1] = "boot" THEN [boot EXCEPT !.stage = "next"] ELSE boot
    BY <1>3 DEF Finish, Typed, OneEach
  <2>2. Head(queue) = queue[1] /\ 1 \in DOMAIN queue
    <3>1. queue \in Seq({"timer", "boot"} \X Goal)
      BY DEF Typed, TypeOK
    <3> QED BY <2>1, <3>1, Queued, HeadTailProperties
  <2>3. \A i \in DOMAIN queue' : i \in Nat /\ i >= 1
                                 /\ i + 1 \in DOMAIN queue /\ queue'[i] = queue[i + 1]
    BY <2>1, Shifted
  <2>4. CASE Head(queue)[1] = "boot"
    <3>1. \A k \in DOMAIN queue : queue[k][1] = "boot" => k = 1
      BY <2>2, <2>4 DEF BootWaits
    <3>2. \A i \in DOMAIN queue' : queue'[i][1] # "boot"
      <4> SUFFICES ASSUME NEW i \in DOMAIN queue', queue'[i][1] = "boot" PROVE FALSE
        OBVIOUS
      <4>1. i + 1 = 1 /\ i \in Nat /\ i >= 1
        BY <2>3, <3>1
      <4> QED BY <4>1
    <3>3. boot'.stage = "next"
      BY <1>0, <2>1, <2>4
    <3> QED BY <3>2, <3>3 DEF BootWaits
  <2>5. CASE Head(queue)[1] # "boot"
    <3>1. ASSUME NEW i \in DOMAIN queue', NEW k \in DOMAIN queue',
                 queue'[i][1] = "boot", queue'[k][1] = "boot"
          PROVE  k = i
      <4>1. k + 1 = i + 1
        BY <2>3, <3>1 DEF BootWaits
      <4> QED BY <2>3, <4>1
    <3>2. \A i \in DOMAIN queue' : queue'[i][1] = "boot" => boot.stage = "wait"
      BY <2>3 DEF BootWaits
    <3> QED BY <2>1, <2>5, <3>1, <3>2 DEF BootWaits
  <2> QED BY <2>4, <2>5
<1>4. CASE BootWakes
  <2>1. /\ boot.stage = "remove" /\ queue' = Append(queue, <<"boot", boot.goal>>)
        /\ boot' = [boot EXCEPT !.stage = "wait"]
        /\ <<"boot", boot.goal>> \in {"timer", "boot"} \X Goal
    BY <1>4 DEF BootWakes, Typed, Named
  <2>2. boot'.stage = "wait"
    BY <1>0, <2>1
  <2>3. \A i \in DOMAIN queue : queue[i][1] # "boot"
    BY <2>1 DEF BootWaits
  <2>4. PICK n : n = Len(queue) + 1
    OBVIOUS
  <2>5. \A i \in DOMAIN queue' : queue'[i][1] = "boot" => i = n
    BY <2>1, <2>3, <2>4, Joined, Queued
  <2> QED BY <2>2, <2>5 DEF BootWaits
<1>5. CASE CrashRestart
  <2>1. queue' = <<>> /\ boot'.stage = "scan"
    BY <1>5 DEF CrashRestart
  <2> QED BY <2>1 DEF BootWaits
<1>6. CASE BootScans \/ BootEnds \/ \E g \in Goal : BootTakes(g)
  <2>1. \A i \in DOMAIN queue : queue[i][1] # "boot"
    BY <1>6 DEF BootScans, BootEnds, BootTakes, BootWaits
  <2>2. UNCHANGED queue
    BY <1>6 DEF BootScans, BootEnds, BootTakes
  <2>3. boot'.stage = "idle" => \A g \in Goal : boot'.todo[g] = None
    <3>1. CASE BootScans
      BY <3>1 DEF BootScans
    <3>2. CASE BootEnds
      BY <1>0, <3>2 DEF BootEnds
    <3>3. CASE \E g \in Goal : BootTakes(g)
      <4>1. boot.stage = "next" /\ boot'.stage \in {boot.stage, "remove"}
        BY <1>0, <3>3 DEF BootTakes
      <4> QED BY <4>1
    <3> QED BY <1>6, <3>1, <3>2, <3>3
  <2> QED BY <2>1, <2>2, <2>3 DEF BootWaits
<1>7. CASE UNCHANGED <<queue, boot>>
  BY <1>7 DEF BootWaits
<1>8. \/ Tick \/ (\E j \in Job : JobStarts(j)) \/ Finish \/ BootWakes \/ CrashRestart
      \/ BootScans \/ BootEnds \/ (\E g \in Goal : BootTakes(g)) \/ UNCHANGED <<queue, boot>>
  BY DEF Next, vars, TimerFires, RemoveJob, AddJob, RemovalEnds, JobAdded,
         WakeIgnored, WakeCapped, WakeCoolsDown, WakeGranted, Rearm, StampWake, RollWake, SessionFails,
         Dispatch, CycleEnds, CycleFails, RegisterNext, ArmGoal, ArmActivates, ArmRegisters,
         SwitchOff, SwitchOn, Block, Activate, Resolve
<1> QED BY <1>1, <1>2, <1>3, <1>4, <1>5, <1>6, <1>7, <1>8

\* The jobs that are pending after a step were so before, with their timers,
\* and who was to arm one still is.
LEMMA TimersStand ==
    ASSUME Timed,
           \A j \in Job : job'[j].state = "pending" =>
               job[j].state = "pending" /\ (job[j].armed => job'[j].armed),
           \A p \in Process : reg[p].stage = "added" => reg'[p] = reg[p]
    PROVE  Timed'
BY DEF Timed

LEMMA TimedStep ==
    ASSUME Typed, Timed, [Next]_vars
    PROVE  Timed'
<1>0. /\ TypeOK /\ job \in [Job -> Booking]
      /\ reg \in [Process -> [stage : {"idle", "remove", "removed", "added"},
                              goal : Goal \cup {None}, in : Nat \cup {None},
                              found : SUBSET Job]]
  BY DEF Typed, TypeOK, Booking
<1>1. CASE Tick
  <2>1. /\ \A j \in Job : job'[j].state = job[j].state /\ job'[j].armed = job[j].armed
        /\ UNCHANGED reg
    BY <1>0, <1>1 DEF Tick, Booking
  <2> QED BY <2>1, TimersStand
<1>2. ASSUME NEW j \in Job, TimerFires(j) PROVE Timed'
  <2>1. /\ job'[j].state = "running" /\ (\A k \in Job : k # j => job'[k] = job[k])
        /\ UNCHANGED reg
    BY <1>0, <1>2 DEF TimerFires, Booking
  <2> QED BY <2>1, TimersStand
<1>3. ASSUME NEW j \in Job, JobStarts(j) PROVE Timed'
  <2> DEFINE freed == [job EXCEPT ![j].state = "free"]
  <2>1. /\ freed \in [Job -> Booking] /\ freed[j].state = "free"
        /\ \A k \in Job : k # j => freed[k] = job[k]
    BY <1>0 DEF Booking
  <2>2. Alike(freed, job') /\ UNCHANGED reg
    <3>1. job' = Saved(freed) /\ UNCHANGED reg
      BY <1>3 DEF JobStarts
    <3> HIDE DEF freed
    <3> QED BY <2>1, <3>1, SavedIsAlike
  <2>3. \A k \in Job : job'[k].state = "pending" =>
            job[k].state = "pending" /\ (job[k].armed => job'[k].armed)
    <3> HIDE DEF freed
    <3> QED BY <2>1, <2>2 DEF Alike, Alive
  <2> QED BY <2>2, <2>3, TimersStand
<1>4. ASSUME NEW p \in Process, RemoveJob(p) PROVE Timed'
  <2>1. PICK j \in StillPending(p) :
              /\ j \in Job
              /\ job' \in [Job -> Booking] /\ job'[j].state = "free"
              /\ \A k \in Job : /\ Alive(job'[k]) => /\ Alive(job[k])
                                                     /\ job'[k].goal = job[k].goal
                                                     /\ job'[k].in = job[k].in
                                /\ k # j => /\ job'[k].state = job[k].state
                                            /\ Alive(job'[k]) => job'[k].armed = job[k].armed
              /\ reg' = [reg EXCEPT ![p].found = @ \ {j}, ![p].stage = "removed"]
    BY <1>0, <1>4, RemoveJobFrees
  <2>2. \A k \in Job : job'[k].state = "pending" =>
            job[k].state = "pending" /\ (job[k].armed => job'[k].armed)
    BY <2>1 DEF Alive
  <2>3. \A q \in Process : reg[q].stage = "added" => reg'[q] = reg[q]
    BY <1>0, <1>4, <2>1 DEF RemoveJob, Removing
  <2> QED BY <2>2, <2>3, TimersStand
<1>5. ASSUME NEW p \in Process, AddJob(p) PROVE Timed'
  <2>1. PICK j \in Job : AddsJob(p, j)
    BY <1>0, <1>5, AddJobTakesSlot
  <2>2. /\ Removing(p) /\ job[j].state = "free"
        /\ Alike([job EXCEPT ![j] = job'[j]], job')
        /\ reg' = [reg EXCEPT ![p].stage = "added", ![p].found = {j}]
    BY <2>1 DEF AddsJob
  <2>3. \A k \in Job : k # j /\ job'[k].state = "pending" =>
            job[k].state = "pending" /\ (job[k].armed => job'[k].armed)
    BY <1>0, <2>2 DEF Alike, Alive
  <2>4. /\ reg'[p].stage = "added" /\ j \in reg'[p].found
        /\ \A q \in Process : reg[q].stage = "added" => reg'[q] = reg[q]
    BY <1>0, <2>2 DEF Removing
  <2> QED BY <2>3, <2>4 DEF Timed
<1>6. ASSUME NEW p \in Process, RemovalEnds(p) PROVE Timed'
  <2>1. Alike(job, job') /\ Removing(p) /\ reg' = [reg EXCEPT ![p] = Idle]
    BY <1>0, <1>6, LandedIsAlike DEF RemovalEnds
  <2>2. \A k \in Job : job'[k].state = "pending" =>
            job[k].state = "pending" /\ (job[k].armed => job'[k].armed)
    BY <2>1 DEF Alike, Alive
  <2>3. \A q \in Process : reg[q].stage = "added" => reg'[q] = reg[q]
    BY <1>0, <2>1 DEF Removing
  <2> QED BY <2>2, <2>3, TimersStand
<1>7. ASSUME NEW p \in Process, JobAdded(p) PROVE Timed'
  <2>1. Alike(job, Saved(job)) /\ Saved(job) \in [Job -> Booking]
    BY <1>0, SavedIsAlike DEF Alike
  <2>2. /\ job' = [j \in Job |-> [Saved(job)[j] EXCEPT
                     !.armed = @ \/ (j \in reg[p].found /\ job[j].state = "pending")]]
        /\ reg' = [reg EXCEPT ![p] = Idle]
    BY <1>7 DEF JobAdded
  <2>3. \A k \in Job : /\ job'[k].state = Saved(job)[k].state
                       /\ job'[k].armed = (Saved(job)[k].armed
                            \/ (k \in reg[p].found /\ job[k].state = "pending"))
    BY <2>1, <2>2 DEF Booking
  <2>4. \A k \in Job : job'[k].state = "pending" =>
            /\ job[k].state = "pending" /\ (job[k].armed => job'[k].armed)
            /\ k \in reg[p].found => job'[k].armed
    BY <2>1, <2>3 DEF Alike, Alive
  <2>5. \A q \in Process \ {p} : reg'[q] = reg[q]
    BY <1>0, <2>2
  <2> QED BY <2>4, <2>5 DEF Timed
<1>8. CASE RegisterNext \/ ArmRegisters \/ \E g \in Goal : BootTakes(g)
  <2>1. PICK p \in Process : /\ reg[p].stage = "idle" /\ UNCHANGED job
                             /\ UNCHANGED reg \/ \E new : reg' = [reg EXCEPT ![p] = new]
    <3>1. CASE RegisterNext
      BY <3>1 DEF RegisterNext, Register, Process, Typed, OneEach
    <3>2. CASE ArmRegisters
      BY <3>2 DEF ArmRegisters, Register, Process, Typed, OneEach
    <3>3. CASE \E g \in Goal : BootTakes(g)
      BY <3>3 DEF BootTakes, Register, Process
    <3> QED BY <1>8, <3>1, <3>2, <3>3
  <2>2. \A q \in Process : reg[q].stage = "added" => reg'[q] = reg[q]
    BY <1>0, <2>1
  <2> QED BY <2>1, <2>2, TimersStand
<1>9. CASE CrashRestart
  <2>1. \A j \in Job : job'[j] = IF job[j].onDisk
                                 THEN [job[j] EXCEPT !.state = "pending", !.armed = TRUE]
                                 ELSE NoJob
    BY <1>9 DEF CrashRestart
  <2>2. ASSUME NEW j \in Job, job'[j].state = "pending" PROVE job'[j].armed
    <3>1. CASE job[j].onDisk
      <4>1. job'[j] = [job[j] EXCEPT !.state = "pending", !.armed = TRUE] /\ job[j] \in Booking
        BY <1>0, <2>1, <3>1
      <4>2. job'[j].armed = TRUE
        BY <4>1 DEF Booking
      <4> QED BY <4>2
    <3>2. CASE ~job[j].onDisk
      <4>1. job'[j] = NoJob
        BY <2>1, <3>2
      <4> QED BY <2>2, <4>1 DEF NoJob
    <3> QED BY <3>1, <3>2
  <2> QED BY <2>2 DEF Timed
<1>10. CASE UNCHANGED <<job, reg>>
  BY <1>10 DEF Timed
<1>11. \/ Tick \/ (\E j \in Job : TimerFires(j) \/ JobStarts(j))
       \/ (\E p \in Process : RemoveJob(p) \/ AddJob(p) \/ RemovalEnds(p) \/ JobAdded(p))
       \/ RegisterNext \/ ArmRegisters \/ (\E g \in Goal : BootTakes(g))
       \/ CrashRestart \/ UNCHANGED <<job, reg>>
  BY DEF Next, vars, WakeIgnored, WakeCapped, WakeCoolsDown, WakeGranted, Rearm, StampWake, RollWake,
         SessionFails, Dispatch, CycleEnds, CycleFails, Finish, ArmGoal, ArmActivates,
         BootScans, BootWakes, BootEnds, SwitchOff, SwitchOn, Block, Activate, Resolve
<1> QED BY <1>1, <1>2, <1>3, <1>4, <1>5, <1>6, <1>7, <1>8, <1>9, <1>10, <1>11

LEMMA AwakeInit == Init => Awake
<1> SUFFICES ASSUME Init PROVE Awake
  OBVIOUS
<1>1. BootWaits
  BY DEF Init, BootWaits
<1>2. Timed
  BY DEF Init, Timed, NoJob
<1> QED BY <1>1, <1>2 DEF Init, Awake, Waking

\* A mishap is counted: a status that changes otherwise keeps its goal covered.
LEMMA OwnersStepsKeepCover ==
    ASSUME Typed, NEW g \in Goal, Waking(g) => Covered(g), Waking(g)', mishaps' = mishaps,
           \/ SwitchOff \/ SwitchOn
           \/ \E h \in Goal : Block(h) \/ Activate(h) \/ Resolve(h)
    PROVE  Covered(g)'
<1>1. mishaps \in Nat
  BY ConstantsAssumption DEF Typed, TypeOK
<1>2. ~Mishap
  BY <1>1 DEF Mishap
<1>3. /\ UNCHANGED <<due, job, reg, arm, boot, queue, stage, restarts>>
      /\ UNCHANGED status \/ \E h \in Goal : due[h] = None /\ status' = [status EXCEPT ![h] = "active"]
  BY <1>2 DEF SwitchOff, SwitchOn, Block, Activate, Resolve, goals, counts
<1>4. Waking(g)
  <2>1. due[g] # None /\ status'[g] = "active"
    BY <1>3 DEF Waking
  <2>2. status \in [Goal -> {"proposed", "active", "blocked", "resolved"}]
    BY DEF Typed, TypeOK
  <2> QED BY <1>3, <2>1, <2>2 DEF Waking
<1>5. /\ \A i \in DOMAIN queue : OnChain(i, g) => i \in DOMAIN queue' /\ OnChain(i, g)'
      /\ (Asked(g) => Asked(g)') /\ (Recovered(g) => Recovered(g)')
  BY <1>3 DEF OnChain, Asked, Recovered
<1> QED BY <1>3, <1>4, <1>5, ElseKeepsCover

LEMMA CoveredStep ==
    ASSUME Typed, OncePerWake, Awake, [Next]_vars, mishaps' = 0, NEW g \in Goal, Waking(g)'
    PROVE  Covered(g)'
<1>1. mishaps \in Nat /\ restarts \in Nat
  BY ConstantsAssumption DEF Typed, TypeOK
<1>2. mishaps = 0
  <2>1. UNCHANGED mishaps \/ Mishap
    BY DEF Next, vars, Tick, TimerFires, JobStarts, RemoveJob, AddJob, RemovalEnds, JobAdded,
         WakeIgnored, WakeCapped, WakeCoolsDown, WakeGranted, Rearm, StampWake, RollWake, SessionFails,
         Dispatch, CycleEnds, CycleFails, RegisterNext, Finish, ArmGoal, ArmActivates, ArmRegisters,
         CrashRestart, BootScans, BootTakes, BootWakes, BootEnds, SwitchOff, SwitchOn, Block, Activate,
         Resolve, counts
  <2>2. Mishap => mishaps' = mishaps + 1
    BY DEF Mishap
  <2> QED BY <1>1, <2>1, <2>2
<1>3. flag /\ mishaps' = mishaps /\ BootWaits /\ (Waking(g) => Covered(g))
  BY <1>2 DEF Awake
<1>4. Unstarted \/ restarts # 0
  BY DEF OncePerWake
<1>5. CASE UNCHANGED vars
  BY <1>3, <1>5 DEF vars, goals, counts, Waking, Covered, Starting, Timely, InTime, Safe, OnChain, Promised,
         Asked, Adding, Removing, Recovered
<1>6. ASSUME Waking(g)' => Waking(g),
             \/ Tick \/ (\E j \in Job : TimerFires(j) \/ JobStarts(j))
             \/ (\E p \in Process : RemoveJob(p) \/ AddJob(p) \/ RemovalEnds(p) \/ JobAdded(p))
             \/ RegisterNext \/ Finish
             \/ CrashRestart \/ BootScans \/ BootWakes \/ BootEnds \/ \E h \in Goal : BootTakes(h)
      PROVE  Covered(g)'
  <2>1. Waking(g) /\ Covered(g)
    BY <1>3, <1>6
  <2> QED BY <1>3, <1>4, <1>6, <2>1, TickKeepsCover, JobsKeepCover, RegistrationsKeepCover,
             RegisterNextKeepsCover, FinishKeepsCover, StartsKeepCover
<1>7. CASE \/ (\E j \in Job : TimerFires(j) \/ JobStarts(j))
           \/ (\E p \in Process : RemoveJob(p) \/ AddJob(p) \/ RemovalEnds(p) \/ JobAdded(p))
           \/ RegisterNext \/ Finish
           \/ CrashRestart \/ BootScans \/ BootWakes \/ BootEnds \/ \E h \in Goal : BootTakes(h)
  <2>1. UNCHANGED <<status, due>>
    BY <1>7 DEF TimerFires, JobStarts, RemoveJob, AddJob, RemovalEnds, JobAdded, RegisterNext, Finish,
         CrashRestart, BootScans, BootWakes, BootEnds, BootTakes, goals
  <2>2. Waking(g)' => Waking(g)
    BY <2>1 DEF Waking
  <2> QED BY <1>6, <1>7, <2>2
<1>8. CASE Tick
  <2>1. UNCHANGED status /\ due' = [h \in Goal |-> Less(due[h], 0)]
    BY <1>8 DEF Tick
  <2>2. Waking(g)' => Waking(g)
    BY <2>1 DEF Waking, Less
  <2> QED BY <1>6, <1>8, <2>2
<1>9. CASE \/ WakeIgnored \/ WakeCapped \/ WakeCoolsDown \/ WakeGranted
           \/ StampWake \/ RollWake \/ SessionFails \/ Dispatch \/ CycleEnds \/ CycleFails
  BY <1>3, <1>9, WakesKeepCover
<1>10. CASE ArmActivates \/ ArmRegisters \/ \E h \in Goal, d \in Delays : ArmGoal(h, d)
  BY <1>3, <1>10, ArmingKeepsCover
<1>11. CASE \/ SwitchOff \/ SwitchOn
            \/ \E h \in Goal : Block(h) \/ Activate(h) \/ Resolve(h)
  BY <1>3, <1>11, OwnersStepsKeepCover
<1> QED BY <1>5, <1>7, <1>8, <1>9, <1>10, <1>11 DEF Next

LEMMA AwakeStep == Typed /\ OncePerWake /\ Awake /\ [Next]_vars => Awake'
<1> SUFFICES ASSUME Typed, OncePerWake, Awake, [Next]_vars PROVE Awake'
  OBVIOUS
<1>1. BootWaits' /\ Timed'
  BY BootWaitsStep, TimedStep DEF Awake
<1>2. mishaps' = 0 => flag'
  <2>1. mishaps \in Nat
    BY ConstantsAssumption DEF Typed, TypeOK
  <2>2. \/ Mishap
        \/ UNCHANGED mishaps /\ (flag => flag')
    BY DEF Next, vars, Tick, TimerFires, JobStarts, RemoveJob, AddJob, RemovalEnds, JobAdded,
         WakeIgnored, WakeCapped, WakeCoolsDown, WakeGranted, Rearm, StampWake, RollWake, SessionFails,
         Dispatch, CycleEnds, CycleFails, RegisterNext, Finish, ArmGoal, ArmActivates, ArmRegisters,
         CrashRestart, BootScans, BootTakes, BootWakes, BootEnds, SwitchOff, SwitchOn, Block, Activate,
         Resolve, counts
  <2>3. Mishap => mishaps' # 0
    BY <2>1 DEF Mishap
  <2> QED BY <2>2, <2>3 DEF Awake
<1>3. mishaps' = 0 => \A g \in Goal : Waking(g)' => Covered(g)'
  BY CoveredStep
<1> QED BY <1>1, <1>2, <1>3 DEF Awake

\* Unless a cycle failed, a goal was blocked or the switch was off, an active
\* goal with a wake has an armed job that wakes it (in time, between starts)
\* once everything is at rest: a registration removes only jobs it found before
\* it adds its own (registerGoalWake), and a start takes up what a crash left.
THEOREM NobodySleeps == Spec => []NoSleeper
<1>1. Awake => NoSleeper
  <2> SUFFICES ASSUME Awake, Quiet, mishaps = 0, NEW g \in Goal, Waking(g)
               PROVE  \E j \in PendingJobs(g) :
                          job[j].armed /\ (restarts = 0 => job[j].in <= Max({1, due[g]}))
    BY DEF NoSleeper, Waking
  <2>1. Covered(g)
    BY DEF Awake
  <2>2. /\ queue = <<>> /\ arm[1] = "idle" /\ boot.stage = "idle"
        /\ \A p \in Process : reg[p].stage = "idle"
        /\ \A j \in Job : job[j].state # "running"
    BY DEF Quiet
  <2>3. boot.todo[g] = None
    BY <2>2 DEF Awake, BootWaits
  <2>4. PICK j \in Job : Timely(j, g)
    BY <2>1, <2>2, <2>3 DEF Covered, Starting, OnChain, Promised, Adding, Removing, Asked, Recovered
  <2>5. job[j].armed
    BY <2>2, <2>4 DEF Awake, Timed, Timely
  <2> QED BY <2>4, <2>5 DEF Timely, InTime, PendingJobs
<1>2. Init => Typed /\ OncePerWake /\ Awake
  BY TypedInit, OnceInit, AwakeInit
<1>3. Typed /\ OncePerWake /\ Awake /\ [Next]_vars => (Typed /\ OncePerWake /\ Awake)'
  BY TypedStep, OnceStep, AwakeStep
<1> QED BY <1>1, <1>2, <1>3, PTL DEF Spec
=============================================================================
