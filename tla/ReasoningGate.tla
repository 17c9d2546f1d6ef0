--------------------------- MODULE ReasoningGate ---------------------------
(***************************************************************************)
(* Storing facts and keeping the inferred graph current                    *)
(* (packages/semantic-memory: KnowledgeEngine.commitFact, the reasoning    *)
(* gate and the catch-up, reasoning/ReasoningGate.ts; the tool             *)
(* memory_retract).                                                        *)
(*                                                                         *)
(* A fact is stored by its own asynchronous chain.  Normally the chain     *)
(* asks the reasoner what the fact adds to the facts there are, inserts    *)
(* the fact, then what the reasoner answered.  When the gate defers the    *)
(* fact, a stale marker is made durable instead and a catch-up rebuilds    *)
(* the inferred graph later; the catch-up clears the marker unless the     *)
(* epoch of the tracker says that a fact was deferred meanwhile.  A        *)
(* retraction deletes a fact and rebuilds the inferred graph on its own.   *)
(*                                                                         *)
(* One source graph and its inferred graph stand for all of them.  What    *)
(* the ontology derives is a set of rules, each the set of facts it needs; *)
(* a derived triple is identified with its rule.                           *)
(***************************************************************************)
EXTENDS Naturals, Sequences, FiniteSets

CONSTANTS
    Facts,         \* facts that can be stored, each by a chain of its own
    Unbatched,     \* facts stored outside batch(): promoteToUserGraph
    Rules,         \* derivations, each the set of facts it follows from
    Threshold,     \* reasoning/asyncThreshold when the owner sets it
    LateFailures,  \* updates that may fail after they changed the store
    MaxEpoch,      \* bound on the epoch of the tracker
    MaxFaults      \* bound on failures and restarts

ASSUME GateAssumption ==
    /\ IsFiniteSet(Facts) /\ Unbatched \subseteq Facts
    /\ Rules \subseteq SUBSET Facts
    /\ Threshold \in Nat \ {0}
    /\ LateFailures \subseteq {"fact", "insert", "delete"}
    /\ MaxEpoch \in Nat /\ MaxFaults \in Nat

VARIABLES
    base,     \* asserted facts in the store
    inferred, \* derivations in the inferred graph
    marked,   \* the stale marker is in the store
    saved,    \* the dataset file: the same three, and owed, at a flush
    gateOn,   \* the owner has set reasoning/asyncThreshold
    \* InferredStaleTracker
    loaded,   \* the marker has been read in this process
    since,    \* epoch at which the marker was set; 0: reported current
    epoch,    \* number of deferrals announced and done
    persist,  \* what became of the newest INSERT of the marker
    queue,    \* marker updates, run one after the other
    \* commitFact
    pc,       \* pc[f]: where the chain that stores f is
    result,   \* result[f]: what the reasoner said f adds
    \* rebuilds: the catch-up and a retraction's
    stage,    \* stage[w]: where the rebuild of w is
    snap,     \* snap[w]: the facts the rebuild of w has read
    catchup,  \* "off", or the catch-up that is in catchups: "due", "forced"
    started,  \* epoch the catch-up started at
    previous, \* since before the catch-up cleared it
    faults,   \* failures and restarts so far
    \* history
    owed,     \* facts deferred and not read by a completed rebuild since
    racing,   \* facts whose storing had begun when the catch-up did
    wiped,    \* derivations of other facts that a catch-up cleared though they hold
    outlived  \* retracted facts whose inferences somebody may still write, or
              \* that a failure or a crash has left in the inferred graph

store    == <<base, inferred, marked>>
tracker  == <<loaded, since, epoch, persist, queue>>
rebuild  == <<stage, snap>>
catching == <<catchup, started, previous>>
history  == <<owed, racing, wiped, outlived>>
vars == <<store, saved, gateOn, tracker, pc, result, rebuild, catching,
          faults, history>>

Rebuilders == {"catchup", "retract"}
Derived(facts) == {r \in Rules : r \subseteq facts}
LoadedSince == MaxEpoch + 1  \* since, when the marker was read from the store

Jobs ==
    [kind : {"insert"}, owner : Facts, since : Nat, waiters : SUBSET Facts]
      \cup [kind : {"delete"}]

TypeOK ==
    /\ base \subseteq Facts /\ inferred \subseteq Rules /\ marked \in BOOLEAN
    /\ saved \in [base : SUBSET Facts, inferred : SUBSET Rules,
                  marked : BOOLEAN, owed : SUBSET Facts]
    /\ gateOn \in BOOLEAN /\ loaded \in BOOLEAN
    /\ since \in Nat /\ epoch \in Nat
    /\ persist \in {"settled", "queued", "failed"}
    /\ queue \in Seq(Jobs)
    /\ pc \in [Facts -> {"idle", "count", "mark", "marking", "reason",
                         "insert", "skip", "touch", "derive"}]
    /\ result \in [Facts -> SUBSET Rules]
    /\ stage \in [Rebuilders -> {"off", "read", "clear", "fill", "release",
                                 "deleting"}]
    /\ snap \in [Rebuilders -> SUBSET Facts]
    /\ catchup \in {"off", "due", "forced"}
    /\ started \in Nat /\ previous \in Nat /\ faults \in Nat
    /\ owed \subseteq Facts /\ racing \subseteq Facts /\ wiped \subseteq Rules
    /\ outlived \subseteq Facts

Init ==
    /\ base = {} /\ inferred = {} /\ marked = FALSE
    /\ saved = [base |-> {}, inferred |-> {}, marked |-> FALSE, owed |-> {}]
    /\ gateOn \in BOOLEAN
    /\ loaded = FALSE /\ since = 0 /\ epoch = 0
    /\ persist = "settled" /\ queue = <<>>
    /\ pc = [f \in Facts |-> "idle"]
    /\ result = [f \in Facts |-> {}]
    /\ stage = [w \in Rebuilders |-> "off"]
    /\ snap = [w \in Rebuilders |-> {}]
    /\ catchup = "off" /\ started = 0 /\ previous = 0
    /\ faults = 0
    /\ owed = {} /\ racing = {} /\ wiped = {} /\ outlived = {}

Goto(f, place) == pc' = [pc EXCEPT ![f] = place]
GotoAll(fs, place) == pc' = [f \in Facts |-> IF f \in fs THEN place ELSE pc[f]]
At(w, place) == stage' = [stage EXCEPT ![w] = place]

\* The facts that somebody has read and has yet to write the inferences of.
Held == {f \in Facts : \/ \E g \in Facts : \E r \in result[g] : f \in r
                       \/ \E w \in Rebuilders : f \in snap[w]}

\* The facts that derivations in graph need and that are not among facts.
Missing(graph, facts) == {f \in Facts \ facts : \E r \in graph : f \in r}

-----------------------------------------------------------------------------
(* Storing a fact.                                                         *)

\* Mutation: the catch-up that runs is not asked about.
StoreRegardless(f) ==
    /\ pc[f] = "idle" /\ f \notin base
    /\ epoch + 2 * Cardinality({g \in Facts : pc[g] # "idle"}) + 2 <= MaxEpoch
    /\ Goto(f, IF gateOn THEN "count" ELSE "reason")
    /\ UNCHANGED <<store, saved, gateOn, tracker, result, rebuild, catching,
                   faults, history>>

\* storeFact(f), past the duplicate check, up to shouldDeferMaterialization:
\* the threshold is read, then whether a catch-up runs.
Store(f) ==
    /\ pc[f] = "idle" /\ f \notin base
    /\ epoch + 2 * Cardinality({g \in Facts : pc[g] # "idle"}) + 2 <= MaxEpoch
    /\ Goto(f, CASE catchup # "off" -> "mark"
                 [] catchup = "off" /\ gateOn -> "count"
                 [] OTHER -> "reason")
    /\ UNCHANGED <<store, saved, gateOn, tracker, result, rebuild, catching,
                   faults, history>>

\* countTriples and the comparison with the threshold.
Count(f) ==
    /\ pc[f] = "count"
    /\ Goto(f, IF Cardinality(base) > Threshold THEN "mark" ELSE "reason")
    /\ UNCHANGED <<store, saved, gateOn, tracker, result, rebuild, catching,
                   faults, history>>

\* The size cannot be measured, or the marker cannot be read or queued.
DeferFails(f) ==
    /\ pc[f] \in {"count", "mark"} /\ faults < MaxFaults
    /\ faults' = faults + 1
    /\ Goto(f, "reason")
    /\ UNCHANGED <<store, saved, gateOn, tracker, result, rebuild, catching,
                   history>>

\* markStale: announce the deferral, then wait for the marker in the store.
MarkStale(f) ==
    /\ pc[f] = "mark" /\ loaded
    /\ epoch' = epoch + 1
    /\ \/ /\ since = 0
          /\ since' = epoch'
          /\ persist' = "queued"
          /\ queue' = Append(queue, [kind |-> "insert", owner |-> f,
                                     since |-> since', waiters |-> {f}])
          /\ Goto(f, "marking")
       \/ /\ since # 0 /\ persist = "queued"
          /\ LET newest == CHOOSE i \in DOMAIN queue :
                             /\ queue[i].kind = "insert"
                             /\ \A j \in DOMAIN queue :
                                  queue[j].kind = "insert" => j <= i
             IN queue' = [queue EXCEPT ![newest].waiters = @ \cup {f}]
          /\ Goto(f, "marking")
          /\ UNCHANGED <<since, persist>>
       \/ /\ since # 0 /\ persist # "queued"
          /\ Goto(f, IF persist = "failed" THEN "reason" ELSE "skip")
          /\ UNCHANGED <<since, persist, queue>>
    /\ UNCHANGED <<store, saved, gateOn, loaded, result, rebuild, catching,
                   faults, history>>

\* materialize([f], abox): what f adds to the facts there are now.
Reason(f) ==
    /\ pc[f] = "reason"
    /\ result' = [result EXCEPT ![f] = Derived(base \cup {f}) \ Derived(base)]
    /\ Goto(f, "insert")
    /\ UNCHANGED <<store, saved, gateOn, tracker, rebuild, catching, faults,
                   history>>

\* Reasoning is best effort.
ReasonFails(f) ==
    /\ pc[f] = "reason" /\ faults < MaxFaults
    /\ faults' = faults + 1
    /\ Goto(f, "insert")
    /\ UNCHANGED <<store, saved, gateOn, tracker, result, rebuild, catching,
                   history>>

InsertBase(f) ==
    /\ pc[f] \in {"insert", "skip"}
    /\ base' = base \cup {f}
    /\ IF pc[f] = "skip"
       THEN Goto(f, "touch") /\ owed' = owed \cup {f}
       ELSE Goto(f, "derive") /\ UNCHANGED owed
    /\ outlived' = outlived \ {f}
    /\ UNCHANGED <<inferred, marked, saved, gateOn, tracker, result, rebuild,
                   catching, faults, racing, wiped>>

\* Mutation: the tracker is not told that the fact is in the store.
TouchNothing(f) ==
    /\ pc[f] = "touch"
    /\ Goto(f, "idle")
    /\ UNCHANGED <<store, saved, gateOn, tracker, result, rebuild, catching,
                   faults, history>>

\* staleTracker.touch: the deferred fact is in the store now.
Touch(f) ==
    /\ pc[f] = "touch"
    /\ epoch' = epoch + 1
    /\ Goto(f, "idle")
    /\ UNCHANGED <<store, saved, gateOn, loaded, since, persist, queue,
                   result, rebuild, catching, faults, history>>

InsertInferred(f) ==
    /\ pc[f] = "derive"
    /\ inferred' = inferred \cup result[f]
    /\ wiped' = wiped \ result[f]
    /\ result' = [result EXCEPT ![f] = {}]
    /\ Goto(f, "idle")
    /\ UNCHANGED <<base, marked, saved, gateOn, tracker, rebuild, catching,
                   faults, owed, racing, outlived>>

\* An insert that fails ends storeFact with its error; outside a batch the
\* flush may be what failed, and the store has changed.
InsertFails(f) ==
    /\ pc[f] \in {"insert", "skip", "derive"} /\ faults < MaxFaults
    /\ faults' = faults + 1
    /\ \/ UNCHANGED <<base, owed, outlived>>
       \/ /\ "fact" \in LateFailures /\ f \in Unbatched /\ pc[f] # "derive"
          /\ base' = base \cup {f}
          /\ outlived' = outlived \ {f}
          /\ owed' = IF pc[f] = "skip" THEN owed \cup {f} ELSE owed
    /\ result' = [result EXCEPT ![f] = {}]
    /\ Goto(f, "idle")
    /\ UNCHANGED <<inferred, marked, saved, gateOn, tracker, rebuild, catching,
                   racing, wiped>>

-----------------------------------------------------------------------------
(* The marker queue of the tracker.                                        *)

\* Mutation: the persisted marker is ignored.
LoadNothing ==
    /\ ~loaded
    /\ loaded' = TRUE
    /\ UNCHANGED <<store, saved, gateOn, since, epoch, persist, queue, pc,
                   result, rebuild, catching, faults, history>>

\* load(): the persisted marker is read once per process.
Load ==
    /\ ~loaded
    /\ loaded' = TRUE
    /\ since' = IF marked THEN LoadedSince ELSE 0
    /\ UNCHANGED <<store, saved, gateOn, epoch, persist, queue, pc, result,
                   rebuild, catching, faults, history>>

NewestSettles(outcome) ==
    IF \E i \in DOMAIN Tail(queue) : Tail(queue)[i].kind = "insert"
    THEN persist ELSE outcome

\* The INSERT of the marker is done: everybody who waits for it defers.
MarkerInserted ==
    /\ queue # <<>> /\ Head(queue).kind = "insert"
    /\ marked' = TRUE
    /\ GotoAll(Head(queue).waiters, "skip")
    /\ persist' = NewestSettles("settled")
    /\ queue' = Tail(queue)
    /\ UNCHANGED <<base, inferred, saved, gateOn, loaded, since, epoch,
                   result, rebuild, catching, faults, history>>

\* It fails: they materialize after all.
MarkerInsertFails ==
    /\ queue # <<>> /\ Head(queue).kind = "insert" /\ faults < MaxFaults
    /\ faults' = faults + 1
    /\ \/ UNCHANGED marked
       \/ "insert" \in LateFailures /\ marked' = TRUE
    /\ GotoAll(Head(queue).waiters, "reason")
    /\ since' = IF since = Head(queue).since THEN 0 ELSE since
    /\ persist' = NewestSettles("failed")
    /\ queue' = Tail(queue)
    /\ UNCHANGED <<base, inferred, saved, gateOn, loaded, epoch, result,
                   rebuild, catching, history>>

\* The catch-up's DELETE of the marker is done, and with it the catch-up.
MarkerDeleted ==
    /\ queue # <<>> /\ Head(queue).kind = "delete"
    /\ marked' = FALSE
    /\ queue' = Tail(queue)
    /\ At("catchup", "off")
    /\ catchup' = "off"
    /\ UNCHANGED <<base, inferred, saved, gateOn, loaded, since, epoch,
                   persist, pc, result, snap, started, previous, faults,
                   history>>

MarkerDeleteFails ==
    /\ queue # <<>> /\ Head(queue).kind = "delete" /\ faults < MaxFaults
    /\ faults' = faults + 1
    /\ \/ UNCHANGED marked
       \/ "delete" \in LateFailures /\ marked' = FALSE
    /\ since' = IF since = 0 THEN previous ELSE since
    /\ queue' = Tail(queue)
    /\ At("catchup", "off")
    /\ catchup' = "off"
    /\ UNCHANGED <<base, inferred, saved, gateOn, loaded, epoch, persist, pc,
                   result, snap, started, previous, history>>

-----------------------------------------------------------------------------
(* Rebuilding the inferred graph.                                          *)

\* catchUpInferredGraphs, unless one is running.
CatchUp(force) ==
    /\ catchup = "off"
    /\ catchup' = IF force THEN "forced" ELSE "due"
    /\ racing' = {f \in Facts : pc[f] # "idle"}
    /\ UNCHANGED <<store, saved, gateOn, tracker, pc, result, rebuild,
                   started, previous, faults, owed, wiped, outlived>>

\* runCatchUp: nothing to do unless the marker is set or the run is forced.
CatchUpStarts ==
    /\ catchup # "off" /\ stage["catchup"] = "off" /\ loaded
    /\ IF since = 0 /\ catchup = "due"
       THEN catchup' = "off" /\ UNCHANGED <<stage, started>>
       ELSE At("catchup", "read") /\ started' = epoch /\ UNCHANGED catchup
    /\ UNCHANGED <<store, saved, gateOn, tracker, pc, result, snap, previous,
                   faults, history>>

\* memory_retract(f): the fact is deleted, then its inferred graph rebuilt.
Retract(f) ==
    /\ stage["retract"] = "off" /\ f \in base
    /\ base' = base \ {f}
    /\ owed' = owed \ {f}
    /\ wiped' = wiped \cap Derived(base')
    /\ outlived' = outlived \cup ({f} \cap Held)
    /\ At("retract", "read")
    /\ UNCHANGED <<inferred, marked, saved, gateOn, tracker, pc, result, snap,
                   catching, faults, racing>>

\* rebuildInferredGraphFor reads the facts and gives them to the reasoner.
RebuildRead(w) ==
    /\ stage[w] = "read"
    /\ snap' = [snap EXCEPT ![w] = base]
    /\ At(w, "clear")
    /\ UNCHANGED <<store, saved, gateOn, tracker, pc, result, catching,
                   faults, history>>

\* The reasoner answers from a worker thread, so every chain that can go on
\* without waiting has gone on: a batched chain whose marker is in the store
\* has inserted its fact and touched the tracker, and one that has inserted
\* its fact has inserted what follows from it.
Drained ==
    /\ \A f \in Facts \ Unbatched : pc[f] \notin {"skip", "touch", "derive"}
    /\ queue # <<>> /\ Head(queue).kind = "insert"
         => Head(queue).owner \in Unbatched

\* Mutation: the graph is filled again without being cleared.
RebuildClearNothing(w) ==
    /\ stage[w] = "clear" /\ Drained
    /\ inferred' = inferred
    /\ wiped' = wiped
    /\ outlived' = outlived \cap Held
    /\ At(w, "fill")
    /\ UNCHANGED <<base, marked, saved, gateOn, tracker, pc, result, snap,
                   catching, faults, owed, racing>>

RebuildClear(w) ==
    /\ stage[w] = "clear" /\ Drained
    /\ inferred' = {}
    /\ wiped' = IF w = "catchup"
                THEN (wiped \cup {r \in inferred \cap Derived(base) : r \cap racing = {}})
                       \ Derived(snap[w])
                ELSE wiped
    /\ outlived' = outlived \cap Held
    /\ At(w, "fill")
    /\ UNCHANGED <<base, marked, saved, gateOn, tracker, pc, result, snap,
                   catching, faults, owed, racing>>

RebuildFill(w) ==
    /\ stage[w] = "fill"
    /\ inferred' = inferred \cup Derived(snap[w])
    /\ owed' = IF w = "catchup" THEN owed \ snap[w] ELSE owed
    /\ At(w, IF w = "catchup" THEN "release" ELSE "off")
    /\ snap' = [snap EXCEPT ![w] = {}]
    /\ UNCHANGED <<base, marked, saved, gateOn, tracker, pc, result, catching,
                   faults, racing, wiped, outlived>>

\* clearIfUnchanged: the marker goes unless a deferral was announced or done.
CatchUpReleases ==
    /\ stage["catchup"] = "release"
    /\ IF epoch = started
       THEN /\ previous' = since
            /\ since' = 0
            /\ queue' = Append(queue, [kind |-> "delete"])
            /\ At("catchup", "deleting")
            /\ UNCHANGED catchup
       ELSE /\ At("catchup", "off")
            /\ catchup' = "off"
            /\ UNCHANGED <<previous, since, queue>>
    /\ UNCHANGED <<store, saved, gateOn, loaded, epoch, persist, pc, result,
                   snap, started, faults, history>>

\* A catch-up that fails leaves the marker; a retraction whose rebuild fails
\* drops the inferred graph, if it can.
RebuildFails(w) ==
    /\ stage[w] \in {"read", "clear", "fill"} /\ faults < MaxFaults
    /\ faults' = faults + 1
    /\ At(w, "off")
    /\ snap' = [snap EXCEPT ![w] = {}]
    /\ IF w = "catchup"
       THEN catchup' = "off" /\ UNCHANGED <<inferred, outlived>>
       ELSE /\ inferred' \in {{}, inferred}
            /\ outlived' = outlived \cup Missing(inferred', base)
            /\ UNCHANGED catchup
    /\ UNCHANGED <<base, marked, saved, gateOn, tracker, pc, result, started,
                   previous, owed, racing, wiped>>

-----------------------------------------------------------------------------
\* The owner changes reasoning/asyncThreshold.
SetAsyncThreshold ==
    /\ gateOn' = ~gateOn
    /\ UNCHANGED <<store, saved, tracker, pc, result, rebuild, catching,
                   faults, history>>

\* A flush of the adapter: the file holds what the store holds.  Only a
\* restart reads the file, so no flush is modelled after the last one.
Flush ==
    /\ faults < MaxFaults
    /\ saved' = [base |-> base, inferred |-> inferred, marked |-> marked,
                 owed |-> owed]
    /\ UNCHANGED <<store, gateOn, tracker, pc, result, rebuild, catching,
                   faults, history>>

\* The process dies and restarts from the file.
CrashRestart ==
    /\ faults < MaxFaults /\ faults' = faults + 1
    /\ base' = saved.base /\ inferred' = saved.inferred
    /\ marked' = saved.marked /\ owed' = saved.owed
    /\ loaded' = FALSE /\ since' = 0 /\ epoch' = 0
    /\ persist' = "settled" /\ queue' = <<>>
    /\ pc' = [f \in Facts |-> "idle"] /\ result' = [f \in Facts |-> {}]
    /\ stage' = [w \in Rebuilders |-> "off"]
    /\ snap' = [w \in Rebuilders |-> {}]
    /\ catchup' = "off" /\ started' = 0 /\ previous' = 0
    /\ racing' = {} /\ wiped' = {}
    /\ outlived' = Missing(inferred', base')
    /\ UNCHANGED <<saved, gateOn>>

StoreStep(f) ==
    \/ Store(f) \/ Count(f) \/ MarkStale(f) \/ Reason(f)
    \/ InsertBase(f) \/ Touch(f) \/ InsertInferred(f)

StoreFailure(f) == DeferFails(f) \/ ReasonFails(f) \/ InsertFails(f)

MarkerStep == Load \/ MarkerInserted \/ MarkerDeleted

MarkerFailure == MarkerInsertFails \/ MarkerDeleteFails

RebuildStep(w) == RebuildRead(w) \/ RebuildClear(w) \/ RebuildFill(w)

CatchUpStep == CatchUpStarts \/ CatchUpReleases

Next ==
    \/ \E f \in Facts : StoreStep(f) \/ StoreFailure(f) \/ Retract(f)
    \/ MarkerStep \/ MarkerFailure
    \/ \E force \in BOOLEAN : CatchUp(force)
    \/ CatchUpStep
    \/ \E w \in Rebuilders : RebuildStep(w) \/ RebuildFails(w)
    \/ SetAsyncThreshold \/ Flush \/ CrashRestart

Spec == Init /\ [][Next]_vars

\* A chain that can go on goes on, the marker queue drains, and the cron job
\* reasoning.catchup comes round again and again.
Fairness ==
    /\ \A f \in Facts : WF_vars(StoreStep(f))
    /\ WF_vars(MarkerStep)
    /\ WF_vars(CatchUp(FALSE))
    /\ WF_vars(CatchUpStep)
    /\ \A w \in Rebuilders : WF_vars(RebuildStep(w))

FairSpec == Spec /\ Fairness

-----------------------------------------------------------------------------
(* Safety.                                                                 *)

\* A fact whose materialization was skipped is never forgotten: as long as no
\* rebuild has read it, the marker is in the store and the tracker reports the
\* inferred graph as stale, and the same holds of every dataset a crash can
\* leave behind.
DeferredIsMarked ==
    /\ owed # {} => marked /\ (loaded => since # 0)
    /\ saved.owed # {} => saved.marked

\* The inferences of a retracted fact do not outlive its retraction
\* (memory_retract.ts:145-148): once the graph has been rebuilt, what it holds
\* follows from facts that are still there.  A fact that somebody had read
\* before it went is exempt until the next rebuild, and so is one whose rebuild
\* failed or was cut off by a crash.
NoInferenceOutlives ==
    stage["retract"] \notin {"read", "clear"} =>
        \A r \in inferred : r \subseteq base \cup outlived

Quiet ==
    /\ \A f \in Facts : pc[f] = "idle"
    /\ \A w \in Rebuilders : stage[w] = "off"
    /\ catchup = "off" /\ queue = <<>>

\* What a materialization adds while a catch-up rebuilds is not wiped by the
\* rebuild's CLEAR, unless it had begun before: then a derivation is lost and
\* the inferred graph reported current (src/docs/reasoning-gate.md:75-77 says that no
\* synchronous materialization can race the rebuild), or the catch-up failed.
NoDerivationWiped == faults = 0 /\ Quiet /\ loaded /\ since = 0 => wiped = {}

-----------------------------------------------------------------------------
(* Liveness.                                                               *)

\* Every deferred fact is eventually covered by a rebuild, once failures stop.
EventuallyCaughtUp == owed # {} ~> owed = {}
=============================================================================
