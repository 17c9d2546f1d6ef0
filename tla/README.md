# Ontofelia in TLA+

Ontofelia is a gateway that runs an AI agent for several users over several
channels (web chat, Telegram, Discord, HTTP) and gives the agent a long-term
memory: an RDF triplestore with ontology-aware belief revision, a materializing
reasoner, episodic and procedural memory, a goal stack, and a scheduler that
lets the agent work on its own initiative. It is one Node.js process. Apart
from one query worker there are no threads, but many asynchronous call chains
that interleave at every `await`, and almost nothing orders them: no
transactions, few locks, a promise chain here and there. What can go wrong is
what happens between two awaits of a chain, between two chains, and between a
write and a crash. That is what these modules are about.

The directory holds TLA+ modules translated from the source, configurations
that TLC checks on small instances, and proofs that TLAPS checks for every
value of the constants. `PROJECT.json` is the index: components, runs, the
source lines of every definition, a mutant for each checked property, the
hazards the properties are aimed at, the theorems.

    tlc -workers 2 -config OxigraphAdapter.cfg MCOxigraphAdapter.tla
    tlapm StoreProofs.tla

Contents: [the system](#the-system), [the modules](#the-modules),
[the runs](#the-runs), [fairness](#fairness), [proofs](#the-proofs),
[disagreements](#disagreements-between-the-code-and-its-documents),
[what is not modelled](#not-modelled), [plan](#plan).

## The system

### How the parts fit together

    channels, HTTP, WebSocket --> AgentRuntime.handleMessage --> CycleManager.runCycle
                                     |  tool loop                   |  queued persist
                                     v                              v
         scheduler -> InitiativeService   ToolExecutor     episodic / procedural memory,
             ^  one-time jobs   |  onWake     |  memory_*    goal stack, working memory
             |                  v             v                     |
             +---- GoalStack <--+       KnowledgeEngine             |
                        |               claims, belief revision,    |
                        |               reasoning gate, catch-up    |
                        v                     v                     v
                        +---------> TriplestoreAdapter <------------+
                            Oxigraph file | Oxigraph on disk | Fuseki

Everything durable except sessions (SQLite and transcript files), scheduler jobs
(`jobs.json`) and configuration goes through the triplestore adapter. Timers and
the cron job `reasoning.catchup` enter through the scheduler. Calls are plain
awaited function calls; the shared state is the triplestore and the fields of
the singletons. The hand-offs that outlive a call are the flush queue of the
adapter, the marker queue of the stale tracker, the wake chain of the initiative
service and the persistence queues of the cycle manager.

### Components

**File-backed triplestore** (`semantic-memory/src/adapters/OxigraphAdapter.ts`).
State: the in-memory store, `dataset.nq`, its temp file, the flush queue
(`flushTail`, `pendingFlush`), `batchDepth` and `dirty`, `status`. Operations:
`update`, `putGraph`, `importDataset`, `batch`, `restore`, `stop`, and the
flush behind them. Hard: writers share flushes; batches of unrelated chains
share one depth and one dirty flag; flushes fail; the process dies between dump
and rename. Correct when an awaited flush is durable, a deferred write is not
forgotten, the file never goes back, and every waiter is answered.

**Reasoning gate and inferred graphs** (`KnowledgeEngine.commitFact`,
`runCatchUp`, `rebuildInferredGraph*`; `reasoning/ReasoningGate.ts`; the
rebuild in `memory_retract`). State: asserted and inferred graphs, the durable
stale marker, the tracker (`loaded`, `since`, `epoch`, `persist`, queue).
Operations: store a fact (materialize or defer), mark stale, catch up, retract
and rebuild. Hard: deferrals during a catch-up, restart before the marker is
durable, failures of either marker update. Correct when a deferred fact is
never forgotten and is eventually materialized.

**Belief revision and claims** (`KnowledgeEngine.commitFact`,
`promoteToUserGraph`, `retireSupersededClaim`; `ClaimProvenanceService`;
`memory_retract`). State: triples, claims with a status and a successor,
Conflict records, derivations, open repairs. Operations: store, promote,
retract. Hard: each is up to a dozen queries and updates without a transaction.
Correct when a functional property has one value, claims and triples agree, the
history is well founded and audited, and derivations have support.

**Initiative** (`agent-runtime/src/cognitive/InitiativeService.ts`, the wake
bookkeeping of `GoalStack.ts`, `armGoal.ts`, `updateGoalStep.ts`). State: goals
with `wakeAt`, `wakeEvery`, `lastWakeAt`, failures; the run stamps; one job per
goal; the wake chain. Operations: register a wake, `onWake`, re-arm, recover on
start, arm a goal, change its status. Hard: timers, the owner and recovery race;
crashes between a record and the dispatch. Correct when the caps and the
cooldown hold, no goal sleeps for ever, and no wake fires twice.

**Job scheduler** (`scheduler/src/JobScheduler.ts`). State: jobs with timers,
`jobs.json`. Operations: add, remove, trigger, start, stop, fire. Hard: saves
overlap and are not atomic; `triggerJob` and the timer race. Correct when a
pending job survives a restart and a one-time job runs once.

**Query worker** (`adapters/QueryExecutor.ts`, `OxigraphQueryWorker.ts`).
State: the worker, the chain of queries, the current query and its timer; in the
worker a replica of the dataset file and its signature. Hard: deadline against
late result against worker death against close, events of workers already
replaced, a replica that must not be older than the file. Correct when every
query settles, by its own doing, and the chain goes on.

**Cognitive cycle** (`cognitive/CycleManager.ts`). State: a persistence queue
per session, the newest cycle per session, the trace counter, work in flight.
Operations: open, end, abort a cycle; the job that writes it in two waves; the
flush at a stop. Hard: cycles of a session overlap and end in any order, writes
of a job fail one by one. Correct when a session's cycles are recorded as a serial
queue, each carries its working memory from the one before, and a stop waits for
all of it.

**Goal stack** (`GoalStack.ts`, Phase 3 of the cycle, the goal tools). State: the
goals, the counters of the supersession. Hard: overlapping turns read, decide and
write; jobs end and supersede goals from what they read earlier. Correct when no
implicit goal outlives its turn and only idle goals are superseded.

**Message loop, session store, approvals** (`agent-runtime/src/index.ts`,
`session-store/src/index.ts`, `executor/ToolExecutor.ts`). State: the transcript
file and its count, sessions, pending approvals. Hard: turns of one session
overlap, an append is a read, a line and a count; approvals race their timeout.
Correct when only approved calls run, the line a turn remembers is its message,
every call is answered and the reply comes last, and every turn ends.

**Notifications** (`NotificationService.ts`). State: send stamps, digest items,
the chain of deliveries. Hard: the digest is drained beside the chain, writes fail.
Correct when the cap holds and no message is lost or shown twice.

**Preferences** (`ChoiceCapture.ts`, `PreferenceConsolidation.ts`, their queries in
`EpisodicMemory.ts`, `withdrawConsolidatedPreferences`). State: choice episodes, the ledger of
promotions and withdrawals, triples, claims. Hard: the user changes her mind, the owner
retracts, and only the ledger remembers why a preference is gone. Correct when one preference
stands, a retracted one stays away, and a settled one comes.

**Procedural memory** (`ProceduralMemory.ts` and its trigger in the runtime).
State: traces, skill rows, the sequence skill, the watermark. Hard: traces come late,
consolidations are asked for from three places, one fails half way. Correct when
each trace is counted once, and counted at all.

**Episodic memory** (`EpisodicMemory.ts`, `EpisodicConsolidation.ts`): episodes in a
chain, summaries that replace them.

**Intake**: `PairingStore` (requests with a status and an expiry), `NodeRegistry`
(pending codes, connections), `WebhookRegistry` (nonces). Hard: approvals of
what is no longer pending, reconnections, restarts.

**Configuration** (`config/src/writer.ts`): read, edit, validate, replace by
rename, without a lock. **Fuseki watchdog**: overlapping health checks and
restarts. **Credentials**: concurrent refresh of one token.

The remaining parts (providers, channels, sandbox, media, plugins, skills, CLI,
web interface, evaluation harness, text parsing and rendering) are I/O, text or
registries filled once; `PROJECT.json` lists each with the reason.

## The modules

| module | stands for | kind |
| --- | --- | --- |
| `DurableStore` | what an adapter promises: a file that trails memory, promises only for what the file holds | abstract |
| `OxigraphAdapter` | the file-backed adapter, refines `DurableStore` | detailed |
| `ReasoningGate` | store, defer, mark, catch up, retract and rebuild | detailed |
| `ReasoningGateProofs` | its theorems | proofs |
| `BeliefRevision` | store, promote, retract around one functional property | detailed |
| `Initiative` | goals, one-time jobs, wakes, recovery | detailed |
| `InitiativeProofs` | its theorems | proofs |
| `SerialQueue` | what a chain of promises promises | abstract |
| `PersistQueue` | the cycle manager's persistence, refines `SerialQueue` | detailed |
| `PersistQueueProofs` | its theorems | proofs |
| `GoalTurns` | the goals of one user through turns and their jobs | detailed |
| `Turns` | the message loop over the session store and the guardian | detailed |
| `TurnsProofs` | its theorems | proofs |
| `Notifications` | deliveries, cap, quiet hours, digest | detailed |
| `NotificationsProofs` | its theorems | proofs |
| `Consolidation` | traces, skills, the watermark | detailed |
| `PreferenceShift` | button presses, the promotion and the withdrawal of preferences, retraction by hand | detailed |
| `QueryExecutor` | the query chain, its deadline and its worker | detailed |
| `StoreProofs` | the theorems about `OxigraphAdapter` and `QueryExecutor` | proofs |
| `MemoryProofs` | the theorems about `BeliefRevision` and `Consolidation` | proofs |
| `GoalsAndPreferencesProofs` | the theorems about `GoalTurns` and `PreferenceShift` | proofs |
| `MC*` | constants and symmetry sets for TLC | instances |

In every module an action is what one chain does between two awaits: the
event loop runs it alone, and everything else may happen before its next one.
Where the code calls a helper that does not await, the helper is part of the
action. `pc`, `stage` or `wait` variables say which await a chain is at.

Three modules of proofs extend two components each. So that no name has two meanings there,
the specification of `QueryExecutor` is called `QueriesSpec` (`QueriesInit`, `QueriesNext`),
that of `Consolidation` `ConsolidationSpec` and that of `PreferenceShift` `PreferenceSpec`;
in the other modules it is `Spec`.

### OxigraphAdapter

A dataset is its version, the number of mutations that led to it: which triples
it holds never matters to the adapter, only which mutations are in it. `mem`,
`disk` and `tmp` are the three places; `phase` and `dump` are the running flush
(`flushNow`), `pending` is `pendingFlush # null`. `WriteThrough` and
`WriteDeferred` are a mutation followed by `persistOrDefer` outside and inside a
batch; `BeginBatch` and `EndBatch` are `batch()` up to and from its `finally`.
`RestoreThrows` is a `restore()` whose backup does not parse: the emptied store
stays in memory and nobody is told to flush it. `CrashRestart` is `initialize`
after a crash at any point. The history variables `promised` and `abandoned`
record what callers were told.

### ReasoningGate

Facts are stored by one chain each; rules are the sets of facts a derivation
needs, so `Reason` answers exactly what a fact adds to the facts there are. The
tracker's variables have their names in the code; `queue` is its chain of marker
updates. `CatchUp*` and `Rebuild*` follow `runCatchUp` and
`rebuildInferredGraphFor`, with the read, the CLEAR and the INSERT as separate
steps. `saved` is the dataset file: it is replaced by a flush and read back by
`CrashRestart`. `owed` is the set of facts whose materialization was skipped and
that no rebuild has read since; `racing` the facts whose materialization was under
way when a catch-up began, `wiped` the derivations a CLEAR removed that were neither
read nor racing. `outlived` are the retracted facts whose inferences somebody may still
write or leave: those that a catch-up or a materialization had read before they went, and
those whose rebuild failed or was cut off by a crash.

Abstractions: one source graph and its inferred graph stand for the worldview
and the users' graphs. A marker update is queued, changes the store and is
flushed in one step, but for the updates in `LateFailures` (the insert of a fact, the
INSERT and the DELETE of the marker), which may also fail after they have changed the
store. A size threshold is a constant of the code that no bound of the runs reaches by
counting: facts are deferred because `SetAsyncThreshold` turns deferral on.
`Unbatched` is empty in all runs: facts are stored inside `batch()`, as
`storeFact` does. `promoteToUserGraph` does not use `batch()`: with
`Unbatched = {f2}` the dataset file may hold the promoted fact without the
marker between two flushes, and the model does not order the flush of a promotion
before those of a catch-up, so `DeferredIsMarked` is not claimed of promotions. That
is a consequence of the code's own choice and is named here rather than hidden in a
guard.

### BeliefRevision

Each chain carries one request, and the claim it may store is identified with
it. `FindConflicting` to `Record` are `retireSupersededClaim` for one claim after
the other, `Materialize` to `CreateClaim` the rest of `commitFact`; `Promote*`
is the extra path of `promoteToUserGraph`, `Retract*` and `Rebuild*` that of
`memory_retract`. Of all that values imply one derived triple is modelled, which
follows from each value in `Supporting`; the reasoner's answers are computed from
the state at the step that asks. `Faults` are failures of a lookup, of reading a
claim, of the truth maintenance of a retired triple, and of a whole chain at any await.
Truth maintenance fails in two ways: a graph that cannot be read or an update that is
rejected throws (`"reason"`), and the repair is remembered; a reasoner that fails is not
heard of (`"unheard"`), because `materialize()` is called without `strict` and answers
that nothing was derived (`KnowledgeEngine.ts:1863`, `ReasonableEngine.ts:83-88`), so that
the inferences stay and nothing is remembered. `overlapped` remembers
whether requests have overlapped: this separates what the algorithm guarantees from
what interleaving takes away.

### Initiative

Time is relative: countdowns for wakes and jobs, ages for stamps, so no clock
needs a bound. A job has an in-memory state, a timer (`armed`) and a place in
the file (`onDisk`). `queue` is `wakeChain`; `stage` is where the wake at its
head is, from the guards (`WakeIgnored`, `WakeCapped`, `WakeCoolsDown`) over
`WakeGranted`, `StampWake`, `RollWake`, `Dispatch` to `RegisterNext` and
`Finish`. `Register`, `RemoveJob`, `AddJob`, `JobAdded` are `registerGoalWake`
with the awaits of `removeJob` and `addOneTimeJob`, and three processes may be
in it at once: a wake, `arm_goal`, the recovery of a start. `Boot*` is
`recoverOnStart`, concurrent with the timers that `scheduler.start()` has armed.

Abstractions: time does not pass between two writes to the store or the job
file, only while a cycle runs, a wake is queued or nothing happens (a tick is
minutes, a write is milliseconds). A job that has started leaves its slot: the
program keeps it in the list with its final status and never looks at it again.
The mandate gate is always passed. Two runs never have the same time stamp, so
stamps are counted per age. A save is one step at its await: torn and overlapping
writes of the file belong to the planned `JobScheduler` module.

### PersistQueue and SerialQueue

A turn is opened, runs, and ends by `Finish` or `Abort`; its job is chained to its
session's tail (`Enqueue`) and goes through `Begin`, `FirstWave`, `CarryOver` and
`SecondWave`. In a wave each write fails on its own (`SUBSET` of the writes); a job may
also throw (`JobThrows`). `tail`, `after` and `lastCycle` are the maps of the class,
keyed by session because one user suffices: every key holds session and user. A
working graph is known by how often it was written (`writes`), by the graph it was
copied from and by whether it is marked closed. `FlushAnswers` and `Stop` are
`flushPending` and `AgentRuntime.stop`. `JobsAreSerial` says that all this implements
`SerialQueue`, whose three variables are mapped to histories of the jobs.

### GoalTurns

One user, one session, overlapping turns. `Touch` to `Seed` are Phase 3
(`manageConversationalGoals`, `implicitGoal`), `UseTool` the goal tools during the turn,
`CountTurn` to `EndJob` the part of the persistence job that counts the turn, supersedes
idle goals and ends the implicit one; the jobs run in the order `PersistQueue` shows. What a
message says (a cue, an overlap of entities, an intent) is a choice. When the read of the
supersession fails, the code counts the turn against every goal, and so does
`CountFails`.

The loop of `supersedeIdleLosers` refreshes the tracker goal by goal and stops at each idle
one to write. `CountTurn` begins it, `Supersede` is one write and what the loop does up to
the next: `Down` says how far the tracker has been refreshed, `plan` what it will be when the
loop is through. `SupersedeFails` ends the loop at a write: the goals it has not come to keep
what the tracker knew of them, and `missed` names them. `Forget` is the 5001st session,
which empties `touchedGoalSessions`, so that this process cleans the session once more
(`forgotten`); `Drop` the eviction of the session's tracker. A write that fails may have
changed the store. The 200 goals a tracker holds at most are never reached.

### Turns

`Open` is `buildContext`, `Opening`, `CallTool`, `Result`, `Reply`, `Fallback` and
`Nothing` the two loops with the order in which each writes its entries, `Ask`, `Answer`
and `Timeout` the guardian. A transcript is the number of its lines plus, for each
turn, which lines it wrote where: nothing else tells entries apart. An append is the
read of the count, the line and the count (`ReadNext`, `WriteLine`, `CountLine`).
`disturbed` names the sessions where two turns overlapped or a crash cut one off:
there the code's line numbers are wrong, as its comment (`index.ts:1122`) concedes, and
count updates are lost. A hard reset is one step and happens only in a session at rest.
`autoApproveSessions` is never cleared but by a restart, in the model as in the code.

The guardian's maps are keyed by the id of a call, as in the code, and an id need not be
unique: a provider that sends none gets `call_0` (`NoId`), so `Ask` may take the place of a
call that waits, and the owner's `Answer` goes to whoever waits under the id. `Nameless`
are turns whose calls never have an id of their own; the others may have one or not.
`Nothing` leads to `Fallback` when the owner's configuration has `autoFallback` on and to
`NoFallback` when it is off; the configuration is read when the turn gets there, so
both are possible in one behaviour (`AutoFallback` holds the values it takes).

### Notifications

Deliveries go through `notifyChain` (`chain`); a drain reads the digest and deletes what
it read in two steps beside it. The two updates of `recordSend` are one step, `sendText`
is assumed to settle, and the digest is cleared before the turn that shows it has
replied. `notify()`, with its rescue of a failed delivery, has no caller at this commit
(the tool `notify_owner` calls `deliver()`), but is modelled. A message whose stamp fails
has been sent, is not counted by the cap and is queued once more as an error. A write that
is reported as failed may have taken effect (`Half`, `ClearFails`): the file-backed adapter
changes its memory and flushes it then. For a drain this means that the items are gone and
the turn that was to show them goes on without (`unseen`). That such a write may be undone
by a crash is left out.

### Consolidation

A row of `Skill` or `SequenceSkill` is what it counts: a number per cycle. Rates and
durations derive from the same traces. `Ask` starts or joins a run; a run reads the
watermark, the traces in its window, replaces one row after the other and moves the
watermark. The three origins of a run (cron job, owner, trace counter) are one action, which
joins a run in flight as `consolidationInFlight` does. `late` are traces written after
the lag, which the code gives up; `torn` that a run was cut off between its first row and the
watermark. In the instance the first window covers the whole run and `MinCycles` is 1.
The sequence counts per window: `SEQ_MIN_CYCLES` is asked of each window alone, and a
cycle that the edge of a window splits is not a whole sequence in either.

### PreferenceShift

One user, one offer signature, that user's graph. `Press`, `CheckPress` and
`RecordPress` are `ChoiceCapture` with its chain per offer, `Counted` and `Settled` the
grouping and the thresholds of `PreferenceConsolidation`, `Standing` the ledger
(`activePromotedHashes`). A run goes from `Start` over the two checks of
`promoteToUserGraph`, `Insert`, `CreateClaim` and `RecordPromotion` to the withdrawal of
the rivals (`FindRival` to `Unassert`, which is `retireSupersededClaim` once more, without
its derivations) and their `Release`. `run` holds what the run knows, which may be stale.
`Retract` and `RetractClaims` are the two updates of `memory_retract`. A preference is not
a functional property, so `BeliefRevision` does not cover this path. `torn` and
`overlapped` remember a run that failed after its first write, and a retraction that met a
run. An offer that is not answered, or whose record fails, leaves no choice and is left
out; a group is any evidence group of a choice.

### QueryExecutor

A worker is named by the query that spawned it, so as many workers can exist as there are
queries. `current`, `timer`, `worker`, `tail`, `closed` are the fields of the class;
`pc`, `seen` and `replica` what a worker is doing and holds; `events` the messages and
the `error` and `exit` events the main thread has yet to hear, per worker in order. A terminated
worker may go on until `Exit`, a dead one loses what is posted to it. The file's content
and its signature are one version number (each write renames another file into place);
`Replace` is the adapter's rename. A runaway query is one whose `Evaluate` never
happens. The time of a deadline is abstracted: it may pass as soon as it is armed.

## The runs

Sizes are distinct states; each run takes at most about three minutes with two workers.

| run | size | what it shows |
| --- | --- | --- |
| `adapter` | 54 154 | two chains, three versions, batches nested twice: durability, refinement of `DurableStore`, every waiter answered |
| `gate_safety` | 5 753 194 | two facts, five epochs, one fault, also of an INSERT of the marker that took effect: a deferred fact keeps its marker |
| `gate_liveness` | 1 482 132 | one fact and its derivation, four epochs: a deferred fact is eventually rebuilt, a catch-up wipes nothing that began after it, a retraction leaves no inference behind |
| `belief` | 3 496 838 | up to three requests of any kind in every interleaving, or four in sequence, over three values, with any two faults |
| `initiative` | 3 042 397 | a recurring and a one-shot goal, two calls of `arm_goal`, a crash, a mishap |
| `persist` | 460 842 | three turns in two sessions, one write, job or process that fails: the queue of jobs and its refinement |
| `goals` | 7 771 238 | four turns of which two overlap, two goals, a goal tool, sessions forgotten and trackers dropped, a failure or crash |
| `turns` | 2 211 117 | a blocking and a streamed turn in one or two sessions, a tool round each, ids that coincide, `autoFallback` on or off, a reset, a throw or a crash |
| `notify` | 849 410 | three messages, a cap of one, quiet hours, two drains, a failure |
| `consolidation` | 731 224 | two cycles of two tools, two consolidations at once, a failure |
| `preferences` | 427 822 | six answered offers over two values, a consolidation that may fail at any step, a retraction |
| `queries` | 442 519 | three queries of which one never ends, a file replaced twice, a death or failure, a close |

Why the bounds are enough to be interesting:

- `adapter`: three versions allow one mutation in the running dump, one joined
  to the pending flush and one arriving after it; two callers with nesting two
  give overlapping and nested batches. Larger instances are covered by the
  proofs.
- `gate_safety`: the conflict is between a deferral, a catch-up and a fault; two
  facts give a deferral during the catch-up of another one, five epochs let the
  tracker go through two stale periods. Rules are empty there because marking does not depend on derivations. Of the late failures it has that of the INSERT
  (that of the DELETE breaks the property, disagreement 3). `MarkerView` leaves out the
  histories `racing`, `wiped` and `outlived`, which no step and not the property reads. `gate_liveness` needs one fact
  that is stored or deferred, derived from and retracted beside catch-ups; it has no late
  failures. Neither reaches the size threshold by counting.
- `belief`: three chains let one retire what a second replaces while a third looks, and
  two values suffice for a conflict; once requests overlap no fourth is made
  (`Overlapping`). Of the five kinds of failure any two may happen (`MaxFaults`). In sequence four chains and three values let a value be replaced and
  return.
- `initiative`: the caps (2 per hour of 1 tick, 2 per day of 2 ticks) are reached
  with two goals, cooldown and interval coincide at their smallest legal ratio,
  the four job slots are never exhausted by the two registrations in progress per
  goal. One crash at any await is enough to separate memory from file; a
  mishap is a failure, a switch-off or a status change. `FailureThreshold` is 1,
  so that one failure blocks.
- `persist`: three turns are one being written, one queued behind it and one whose
  prompt is built meanwhile; the second session is `unknown`, which aborted turns
  share. The threshold of two traces makes a consolidation start between them.
- `goals`: with `AfterTurns = 2` a goal that was seen by the first turn can be superseded
  by the third, and the fourth comes after a supersession that failed: of two goals the
  loop writes the newer one and has yet to come to the older, perhaps that of the turn. A
  goal can be pushed by one turn, served by the next, closed or armed by a tool. One crash
  separates the goals of two processes, and the process may forget the session at any time.
- `turns`: the two turns overlap in one session, or the second comes after an
  archive, reset or crash; one round has every order of entries both loops write, and lets
  the calls of both turns wait at once, under one id or two.
- `notify`: the third message meets the cap, the full digest (`QUEUE_MAX` 1) and a
  drain under way; two drains overlap; the second of
  the two hours is quiet. A message that could not be rescued (`gaveUp`) takes two failures
  and is left to the proof.
- `consolidation`: a window ends inside a cycle, traces arrive after their window was
  read, and the second cycle comes after the first watermark. The window of a run that
  finds no watermark covers everything, so that the loss of an old watermark is not exercised.
- `preferences`: with `K` = 2, six choices settle on one value, on the other and on the
  first again, the shortest history in which a withdrawn value comes back; a retraction fits
  before, between and after. `Q` is 1 and there is one group: more groups only delay when a
  value is settled.
- `queries`: the second query runs away, so that its worker is terminated while
  the third runs in another one, whose replica is empty, or one dies idle between two.

The properties relate several actors, or memory and what outlives it:

- `FlushedIsDurable`: sharing a flush never shares too early.
  `NothingForgotten`: memory ahead of the file has a saver. `StoreSpec`: the file
  through crashes. `WaitersSettle`: a failure rejects, it does not block.
- `DeferredIsMarked`, `EventuallyCaughtUp`: the protocol of the marker.
  `NoDerivationWiped`: what a catch-up's CLEAR may remove. `NoInferenceOutlives`: what a
  retraction's rebuild must remove.
- `AcyclicHistory`, `AuditComplete`, `EveryTripleIsClaimed` hold under every
  interleaving; `SingleValued`, `AcceptedIsAsserted`, `InferredAgrees` only while requests
  have not overlapped. Two concurrent stores of
  different values do leave two values: each looks for conflicts before the other
  has stored its claim. The code does not claim otherwise.
- `CyclesBounded`, `CooldownKept`: no window, however placed, and no restart lets
  more cycles through. `NoSleeper`: every active goal with a wake has a job, in time.
  `OneCyclePerWake`: a one-shot wake is one cycle between starts.
- `JobsAreSerial`, `CarriesFromPredecessor`, `ReadGraphsAreFinal`, `FlushedIsRecorded`,
  `EveryCycleSettles`: the persistence of cycles, in order, once read never changed, and
  complete at a stop.
- `ImplicitHasOwner`, `SweepSparesThisProcess`, `SupersededWasIdle`: a goal ends when it
  should and not before.
- `GuardedRunsAreApproved`, `LineIsExact`, `ReplyIsLast`, `EveryTurnEnds`: the turn.
- `CapKept`, `NothingLost`, `ReportedOnce`: messages to the owner.
- `CountedOnce`, `EventuallyCounted`: the watermark is neither too slow nor too fast.
- `OnePreference`, `RetractedStaysAway`, `SettledIsPromoted`: three stores that are
  changed one after the other (graph, claims, ledger) agree about what the user prefers,
  and the ledger tells what the system withdrew from what the owner did.
- `OutcomeIsOwn`, `EveryQuerySettles`: a query's answer or failure is its own, and comes.

Type invariants are in the modules, or, for `QueryExecutor` and `Turns`, in the module of
their proofs. All of them are proved (`TypeCorrect` and its namesakes below).

Premises such as `mishaps = 0`, `restarts = 0`, `Quiet` or `faults = {...}` are
the conditions under which the code can promise the property; the runs reach
states on both sides of each.

The configurations that say `CHECK_DEADLOCK FALSE` have bounded turns, requests, messages
or queries, which end.

## Fairness

Safety-only runs use no fairness. It is always weak:

- `adapter`: the steps of a flush. libuv completes every file operation, with
  success or an error, and node runs every continuation that is ready. Nothing is
  assumed of callers, so open batches may stay open.
- `gate_liveness`: a chain that can go on goes on, the marker queue drains, and the
  cron job `reasoning.catchup` comes round again and again (the scheduler re-arms it
  after each run); failures are bounded by `MaxFaults`.
- `persist`: the steps of a job, of a consolidation and the answer of the flush. A
  turn need not end.
- `turns`: the steps of a turn, among them the provider's answer, the tool's, and the
  guardian's timeout. The last two have a time limit in the code, and so has a blocking
  turn's request to the provider (`chat()`); `chatStream()` sets none of its own, so that a
  stream ends, with an answer or an error, is an assumption about the provider and the
  network. The owner's answer has no limit and is not assumed.
- `consolidation`: time passes, the cron job comes back, and the steps of a run.
- `preferences`: the daily job comes back and goes on, the second step of a retraction and
  the presses in a chain are carried out; nobody has to press or to retract.
- `queries`: the event loop runs ready promises, armed timers and the events of workers;
  a worker's thread goes on with what can end, and `terminate()` takes effect. Nothing
  is assumed of a runaway evaluation.

`initiative` states no liveness: whether a wake comes depends on the owner leaving
the switch on. Nor does `notify`, whose chain is one of promises like that of `persist`.

## The proofs

| theorem | says |
| --- | --- |
| `TypeCorrect` of every component (`QueriesTypeCorrect`, `ConsolidationTypeCorrect`, `GoalTurnsTypeCorrect`, `PreferenceTypeCorrect` where two share a module) | the state keeps its types: `batchDepth` never goes negative, no chain, job, turn, run or worker is at an await the code does not have, no row, ledger or tracker holds what the code cannot write |
| `StoreProofs!Durability` | what a caller awaited a flush for is in the file |
| `JoinIsSound` | a waiter is joined only to a flush that holds or will hold its write |
| `NoForgottenWrite`, `DeferredHasOwner` | memory ahead of the file has a saver; the dirty mark has an open batch |
| `NoRegression` | the file never goes back |
| `ImplementsStore` | the adapter implements `DurableStore` |
| `OutcomesAreOwn` | an answer, crash or timeout is of the query's own evaluation, on a file no older than the query's start |
| `ReasoningGateProofs!DeferralsAreMarked` | a deferred fact has its marker, in memory and in the file, until a rebuild has read it |
| `NothingIsWiped` | a catch-up's CLEAR loses no derivation but those whose materialization had begun before it |
| `RetractionsAreClean` | a rebuilt graph holds no inference of a fact that is gone, but of facts somebody had read before |
| `MemoryProofs!Acyclic` | the supersession history is well founded |
| `Audited` | a completed successor has recorded the conflict |
| `TriplesAreClaimed` | without retractions and failed chains every triple has a claim or a chain at work on it |
| `OneValueStands`, `ClaimsStand`, `InferredIsKept` | requests one after another leave one value, its claim, and what it entails or an open repair, unless the reasoner failed unheard |
| `TracesAreCountedOnce` | no trace is counted twice, whoever asks for consolidations, unless one was cut off between a row and its watermark |
| `InitiativeProofs!CapsAreKept` | no window holds more cycles than its cap |
| `CooldownIsKept` | two cycles of a goal are a cooldown apart, over duplicate jobs and restarts |
| `WakesAreSpentOnce` | a one-shot goal armed once has one cycle at most between starts |
| `NobodySleeps` | an active goal with a wake has a pending job with its timer, in time |
| `PersistQueueProofs!JobsRefineQueue` | the chains of promises implement `SerialQueue` |
| `CarriedFromPredecessor` | a carry-over copies from the newest attended cycle written before |
| `ReadIsFinal` | a working graph that was read is written no more |
| `StopIsClean` | a clean stop leaves every ended cycle recorded, and no consolidation |
| `TurnsProofs!RunsAreApproved` | a guarded call runs only when the owner approved a call with its id in time, or its session |
| `RepliesAreLast` | a turn that returned wrote its reply last (the empty one of its model only without `autoFallback`), and a result after every call |
| `LinesAreExact` | the line a turn takes for its message is its message, where no turns overlapped |
| `NotificationsProofs!NothingIsLost` | a message taken is sent, waits, was shown or made room for newer ones, or a drain deleted it by an update reported as failed |
| `EverythingOnce` | what was sent is not shown, and drains that do not overlap show nothing twice |
| `CapIsKept` | no message is sent when the day before it has as many stamped ones as the cap |
| `GoalsAndPreferencesProofs!ImplicitGoalsHaveOwners` | an open implicit goal has a turn whose job will end it, or was given up by a step that failed |
| `CleanupSparesThisProcess` | the clean-up of a first touch ends no goal that this process has pushed; that of a session it had forgotten none pushed since the turn began |
| `OnlyIdleGoalsAreSuperseded` | a goal that is superseded won none of the last turns, and no tool had touched it since before them, unless a failed supersession had not come to it |
| `OnePreferenceStands` | between two runs at most one preference stands, unless one failed half way or met a retraction |
| `RetractedNeverReturns` | what the owner retracted by hand is never promoted again, with the same proviso |

All but the two named next hold for every value of the constants that the modules' own
assumptions admit: any finite sets of callers, chains, facts, goals, jobs, turns, sessions,
messages, queries, cycles, tools, values and offers, any bounds, caps, windows and faults. `DeferralsAreMarked` and
`NothingIsWiped` assume `Batched`: facts are stored inside `batch()`, as `storeFact` does
(`Unbatched = {}`), and no DELETE of the marker is reported as failed after it took effect
(`"delete" \notin LateFailures`). An INSERT of the marker may fail in either way. Both are
false without it, and the reasons are in this document: promotions do not use `batch()`
(see ReasoningGate above), and a late failure of the DELETE is disagreement 3.
`RetractionsAreClean` needs neither.

Each proof follows one pattern: an invariant that is inductive, one lemma per action or per
part, and the property as a consequence. Where the invariant came from:

**The adapter.** `JoinCoversWrite` is not inductive: to know that the pending
flush covers a write one needs that nobody asked for a version that does not
exist (`AskedExists`), that file, temp file and dump trail memory
(`FilesTrailMemory`), and that a write the running dump misses has another saver
(`LateWriteHasSaver`). The delicate part is `batchDepth`, a counter shared by
all chains: `DepthCounts` says that it is the cardinality of the set of open
batches, pairs of a caller and a nesting level, and the lemmas `OpenOneMore` and
`OpenOneLess` follow that set through `batch()`. The refinement maps every step to
`Mutate`, `Persist`, `Reload` or a stutter.

**The gate.** That deferrals are marked needs the shape of the
queue: a catch-up's DELETE, if any, and then at most one INSERT, which is that of the
tracker's stale period (`QueueShape`). A settled tracker then tells the truth about the store
(`SettledIsMarked`), and nobody defers while the queue changes the marker
(`DeferringIsMarked`). A catch-up that no new stale period has interrupted has read all that
is owed when it releases (`CatchUpCovers`). For the derivations, `LateIsOwed` says that who
comes while a catch-up runs defers, so that what its read missed is owed or was racing, and
`WipedIsOwed` that whatever was wiped rests on a fact the next catch-up has to read. That retractions are clean
rests on an account of who may still write an inference of a fact that is gone: what a
materialization or a rebuild holds are facts that are there or are in `outlived`.

**Belief revision.** The history is acyclic because a claim becomes visible only
in the last step of its chain (`ClaimedAtEnd`), so a chain that retires others
cannot be retired itself; `TargetsExist` and `Linked` connect what a chain holds
in its hands with what is in the store, `AuditUnderWay` follows a supersession to
its Conflict record, and `Covered` names, for every triple, the claim or the chain
that answers for it. The three properties of requests in sequence rest on `Alone` (as long as
nothing has overlapped at most one chain is at work) and on what holds at each of its awaits:
`Stand` relates the triples, the accepted claims and the list of those still to be retired,
`Grounded` what the inferred graph holds to what the assertions entail.

**Initiative.** `Budgeted`: runs are counted before cycles are dispatched, so that in every
window there are at least as many stamps as cycles, one more while a wake is between the two;
cardinalities of windows are compared by `CountPasses`, `CountsOneMore` and `CountGrows`.
`Cooled`: `lastWakeAt` is written before the cycle. `OncePerWake`: of call, registration, job
and waiting wake a goal has one in all, which hands it on to the next (`Single`), and the wake is
cleared before the dispatch (`Cleared`). `Awake`: every active goal with a wake is covered
by something that will lead to a job, including a recovery that has not looked at it yet
(`Covered`). A job counts only if nobody who is about to remove jobs has it on the list
(`Safe`); this was the part the first attempts missed.

**Consolidation.** Nothing is counted twice because every count lies where the next window does
not reach: it is of a trace at or below the watermark (`Before`), or it was made by the run at
work (`ByRun`, `SeqByRun`), and that run opens its window above the watermark it read
(`Above`). There is one such run, the one `consolidationInFlight` names (`OneAtWork`); what it
has read of a row and will add to lies below the window too (`PrevCounts`). When the run moves the
watermark its traces pass from the second kind to the first. A run that is cut off after a row
and before the watermark breaks exactly this, which is what `torn` remembers.

**GoalTurns.** Goals are numbered in the order of their pushes, so a turn can say which goals
it has seen by a number. `FirstTouch`: as long as a process has not forgotten the session,
every goal before its first touch is of an earlier process, and the turn that touches first
knows no later goal; the clean-up keeps to what that turn knew, which is
`CleanupSparesThisProcess` in either case. `OwnerInv`: an implicit goal that is active has a
turn that is not over, is within the reach of a clean-up, or was given up.
`TrackInv` says what the tracker of idle goals knows when the loop is through (`plan`): since
the turn it keeps for a goal that goal has won no turn, and unless its stamp has moved no tool
has touched it. `PlanInv` says how far the tracker has come to that: down to the next goal to
be written while a job is in its loop, all the way otherwise. The jobs run one at a
time (`QueueInv`), so between the count of a turn and its writes nobody else counts, and what
was idle at the count (`WasIdle`) is idle at the write (`IdleInv`). When a write fails, what the
loop would still have refreshed is `missed`, and the invariants speak of the other goals.

**PreferenceShift.** `ShiftInv` says, for each await of a run, how the triples, their claims and
the ledger agree: before its first write there is one preference at most and it is claimed
(`Calm`); what the ledger said of the candidate is still true (`Picked`), since nobody but the
run writes it; during the promotion the candidate comes in beside the others (`Promoting`); during
the shift whatever is in the graph beside the candidate is still on the list, and what was
withdrawn is not in the graph (`Shifting`). What the owner took out stays in the ledger and in
nobody's hands (`Hand`). The lemmas `PromotionStands` and `ReleaseFrees` say what an entry does to
`Standing`, which is computed from the whole ledger. All of it is conditional on
`Undisturbed`: a run that fails half way, or meets a retraction, breaks it in the code as in
the model (disagreements below).

**PersistQueue.** `Jobs` says that the jobs begun are a prefix of those asked for and that
each waits for its predecessor, `Tail1` and `Count` tie the maps of promises to it; every
step is one of `SerialQueue` or a stutter. With jobs in order, `LastIsAttended` says that
`lastCycle` is the newest attended job begun, which gives the carry-over and with it
`ReadIsFinal`; `RecordedIsKnown` accounts for what a stop finds.

**Turns.** A pending approval is that of a turn that waits under its id, and whatever the owner
says concerns every turn that waits under the id answered (`Guarded`);
`WellWritten` says what the rows of a turn look like at each of its awaits; `OneAtATime`,
`CountIsExact` and `LineIsNext` follow the transcript of a session that was not disturbed.

**Notifications.** The deliveries form a chain (`Serial`), so between the read of the cap and
the stamp nobody else sends; `Stamped` says that what was sent is stamped, or is among the
writes that failed; `Kept` that an item that is gone from the queue was shown or has at least
`QUEUE_MAX` newer ones (`Outnumbered`); `ShownOnce` follows items through drains.

**QueryExecutor.** A worker that was retired is never `worker` again, so its late messages are
dropped. What a worker may still say is true of the query it names (`EventsAreSound`): a
result rests on a file no older than that query's start, an evaluation that "started" has
begun, a death was its own or a termination. And the replica it answers from is at least as
new as that (`ReplicaIsRecent`).

The theorems on types, `JoinIsSound`, `DeferredHasOwner` and `NoRegression` state formulas
that no run lists. Every invariant and every action property that a run checks is proved.

Only model-checked:

- liveness: `WaitersSettle`, `EventuallyCaughtUp`, `EveryCycleSettles`, `EveryTurnEnds`,
  `EventuallyCounted`, `SettledIsPromoted` and `EveryQuerySettles` depend on fairness, which
  TLAPS does not reason about here (nor about ENABLED).

Facts that need induction over data or recursive operators are out of the installed provers'
reach; no module uses RECURSIVE.

## Disagreements between the code and its documents

Seen while modelling. No run is spent on them: the properties state what does hold, with
the case named in a premise, a history variable or a constant, and weakening that premise
makes TLC show the case.

1. A write that happens to fall into another chain's open batch resolves before
   anything is written (`OxigraphAdapter.ts:157`), although the comment at 28-30 says
   durability is "after the awaited write resolves". `promised` counts flushed writes
   only.
2. A materialization already under way when a catch-up starts can insert between the
   rebuild's read and its CLEAR (`KnowledgeEngine.ts:1520`): its derivations are lost
   and the graph is reported current. `docs/reasoning-gate.md:75-77` says that a
   synchronous materialization cannot race the rebuild. `racing` exempts it.
3. The DELETE of the marker changes memory and fails to flush (`ReasoningGate.ts:240`);
   the tracker then believes the marker persisted, and the next deferral writes none.
   `"delete" \in LateFailures` breaks `DeferredIsMarked`.
4. A value stated between a promotion's check and its commit is superseded by the
   promotion (`KnowledgeEngine.ts:2454`), which "never overrides what the user's graph
   says" (2217-2218).
5. A fact stored between the reasoner's answer and the DELETE re-supports a
   derivation, and it is deleted all the same (`KnowledgeEngine.ts:1863`; "we never
   over-retract", 1856-1858).
6. At a start the timer of an overdue job and the recovery both call `onWake`
   (`gateway/src/index.ts:389`); "a restart cannot fire a wake twice"
   (`docs/initiative-architecture.md:235-237`), and it does when the cooldown has passed by
   the second one's turn. `OneCyclePerWake` holds between starts.
7. `supersedeIdleLosers` decides from goals it has read and then sets each one to
   abandoned without looking again (`CycleManager.ts:1568`). A goal that a later turn arms in
   between (`arm_goal`: mandate and wake) is abandoned with its wake, although "goals with a
   mandate or a wake belong to the owner's order and are never superseded here"
   (1517-1518). `GoalTurns` has the step (`Abandon` looks at nothing).
8. A consolidation that fails after its first row counts those traces twice when it is
   repeated, although the comment at `ProceduralMemory.ts:301-305` says that counts are
   never added twice. `torn` exempts it. A row that was deleted and not inserted loses
   its history (`wiped`); a crash between the DELETE and the INSERT of the watermark
   counts the first window again.
9. A preference run that fails between the promotion and its ledger entry, or during the
   shift, is not made up for: the next run finds the triple already there, enters nothing
   (`PreferenceConsolidation.ts:379`) and withdraws nothing, so two preferences stay,
   although "the graph never holds two contradicting preferences" (46-47). A retraction
   between the INSERT and the claim of a run leaves a claim without its triple, and one
   during a run may leave the retracted value's ledger entry to be released. `torn` and
   `overlapped` exempt these.
10. A reasoner that fails during the truth maintenance of a retired triple leaves its
    inferences for good: `KnowledgeEngine.ts:1863` calls `materialize()` without `strict`,
    which answers a failure with an empty list (`ReasonableEngine.ts:83-88`). The comment at
    1885-1889 says that such a failure must not vanish silently and becomes an open repair;
    that is so only when the graph cannot be read or the DELETE fails. `InferredAgrees`
    exempts a reasoner that failed `"unheard"`.
11. The clean-up of implicit goals is "hygiene on the first touch of the session by this
    process" (`CycleManager.ts:1349`), and the set that remembers the touch is emptied at 5000
    sessions (1354): the next turn of the session ends implicit goals that belong to turns of
    this process still under way. `forgotten` is the second case of
    `SweepSparesThisProcess`.
12. A goal "neither chosen nor touched for `afterTurns` turns" is abandoned
    (`CycleManager.ts:1509-1513`); but a write that throws in the loop (1568) leaves
    the goals the loop has not come to, perhaps that of the turn itself, with the turn they
    were last entered for, and a later turn abandons them too soon. `missed` exempts them.
13. "Approve all" holds "until the session resets" (`agent-runtime/src/index.ts:503-504`), but
    `/new` archives the session and `/reset` empties it without touching
    `autoApproveSessions`: after a `/reset` the same session runs dangerous tools unasked.
    `Reset` leaves `auto` alone, and `GuardedRunsAreApproved` counts the approval given before.
14. Approvals are meant for "the session that the pending tool call belongs to" (506-507) and
    are found by the id of the call. A provider that sends no id gets `call_<idx>`
    (`OpenAICompatibleProvider.ts:193`), so calls of two turns that wait at once share one: the
    second takes the resolver of the first, which then times out, and the session that
    "approve all" concerns. An answer to the first call runs the second.
    `GuardedRunsAreApproved` therefore speaks of the id.
15. A drain whose DELETE is rejected by the flush has already removed the items from memory;
    `drainDigest` throws and the turn drops the error (`agent-runtime/src/index.ts:1039-1041`),
    so that messages are gone unread, although they are to be surfaced "once here"
    (1023-1027). `unseen` exempts them.

Smaller ones:

- `OxigraphAdapter.ts:171-173`, "no partially-written fact ever reaches disk": a
  flush queued before the batch dumps whatever the batch has written so far. A
  `restore()` whose backup does not load leaves the emptied store to be saved (317).
- A derivation may outlive a retraction that runs beside a store or a catch-up
  (`memory_retract.ts:145-148`): who has read the fact before inserts what it derived from it
  after. When a retraction's rebuild fails and so does the CLEAR in its place, what was
  inferred stays and the tool reports a success. `outlived` names these cases. A fact stored
  between the two updates of a hard delete keeps its triple and loses its claim (237). A
  forced catch-up that fails between CLEAR and refill leaves the inferred graph empty without
  a marker (`KnowledgeEngine.ts:1521`). Of two facts stored at once that only together imply
  something, neither materialization sees both (2490).
- A goal resolved during its cycle becomes blocked when the cycle fails for the last
  allowed time (`GoalStack.ts:642`). `recordWake` may clear the wake that `arm_goal` has just
  written and then reports as scheduled (616). The recovery registers wakes it read before
  it awaited other goals' cycles (`InitiativeService.ts:383`). A failed cycle of a recurring
  goal registers no next wake (341).
- Overlapping turns of a session lose updates of `messageCount`, and the recorded line of a
  message is then off by some (`agent-runtime/src/index.ts:1122-1124` says so). `stop()` of the
  runtime is called only by `/stop`, so a gateway that closes loses the queued jobs.
- With `autoFallback` off a turn whose provider fails or answers nothing returns an empty
  reply (`agent-runtime/src/index.ts:2377`, 2712).
- Overlapping turns of the owner both show the digest. The comment that `pruneDigest` is
  "not raced" overlooks the rescue in `notify()`, which is harmless.
- `EpisodicMemory.freezeEpisode` deletes `precededBy` as well, which its comment (649) denies,
  and `retentionTick` may overlap with itself.
- `JobScheduler`: saves overlap, `triggerJob` leaves the timer of the job it ran
  (195), `scheduleCronJob` re-arms after `stop()` (228), a job that was running at a crash
  is never run again, and a log that cannot be written makes the catch of `executeJob`
  (284) throw out of a timer.
- `config/src/writer.ts:83`: two processes that read, edit and rename the config file
  drop one edit. `ToolExecutor.ts:210`: a tool that loses against its deadline still has its
  effect.

## Not modelled

Content: RDF terms, SPARQL, prompts, model output, text rules of the guardian
and of self-protection. External systems: the reasoner crate (by the entailments
it returns), RocksDB, Fuseki, Docker, chat platforms, model providers. The
remaining components are listed with their status in `PROJECT.json`.

The modules stand for about 9.4 % of the implementation's lines. The rest is, for the
most part, rendering (web interface, command line, vault export), HTTP routes and provider
clients, parsing and prompt assembly, SPARQL templates, and heuristics that score text:
code without a state that several actors share. What does have such a state and is not
modelled yet is in the plan.

## Plan

The safety properties of the modules that exist are proved. What is left is breadth:
first `JobScheduler` (overlapping and torn saves, cron and one-time timers, `triggerJob`,
`stop`, reload), then the episode chain with its retention, the promotion of repeated facts,
`Intake` (pairing requests, node connections, webhook nonces), `ConfigWriter`, the token
refresh and the Fuseki watchdog, and as pure operators the decay of the working memory and
the visibility of graphs.
