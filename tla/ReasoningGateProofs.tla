------------------------- MODULE ReasoningGateProofs -------------------------
(***************************************************************************)
(* A deferred fact is never forgotten, what a catch-up's CLEAR removes it  *)
(* puts back or leaves owed, and a rebuilt graph holds no inference of a   *)
(* fact that is gone: for any number of facts, any derivation rules and    *)
(* any number of failures and restarts.                                    *)
(***************************************************************************)
EXTENDS ReasoningGate, SequenceTheorems, TLAPS

Inserts == {i \in DOMAIN queue : queue[i].kind = "insert"}

\* As long as the tracker says that an INSERT is on its way, there is one, and
\* so a newest one.
QueuedIsQueued == persist = "queued" => \E i \in Inserts : \A j \in Inserts : j <= i

\* Who waits for the marker waits for an INSERT that is in the queue.
WaitersAreTold ==
    \A f \in Facts : pc[f] = "marking" =>
        \E i \in DOMAIN queue : queue[i].kind = "insert" /\ f \in queue[i].waiters

(* The marker queue when every fact is stored in a batch: the DELETE of a  *)
(* catch-up, if any, then the one INSERT that the tracker's state is of.   *)
QueueShape ==
    /\ \A i \in DOMAIN queue :
        queue[i].kind = "delete" => i = 1 /\ stage["catchup"] = "deleting"
    /\ stage["catchup"] = "deleting" => queue # <<>> /\ queue[1].kind = "delete"
    /\ \A i, j \in Inserts : i = j
    /\ \A i \in Inserts : persist = "queued" /\ since # 0 /\ since = queue[i].since
    /\ ~loaded => queue = <<>> /\ since = 0 /\ persist = "settled" /\ stage["catchup"] = "off"

\* Whoever is told by an INSERT waits for it.
WaitersWait == \A i \in Inserts : \A f \in queue[i].waiters : pc[f] = "marking"

\* A tracker that is settled reports a marker that is in the store.
SettledIsMarked ==
    /\ since # 0 /\ persist = "settled" => marked
    /\ stage["catchup"] = "deleting" /\ since # 0 => persist = "queued"
    /\ stage["catchup"] = "deleting" /\ previous # 0 /\ persist = "settled" /\ since = 0
         => marked

Skipping(f) == pc[f] = "skip"

\* Nothing is deferred while the queue changes the marker.
DeferringIsMarked ==
    owed # {} \/ (\E f \in Facts : Skipping(f)) =>
        marked /\ (loaded => since # 0) /\ queue = <<>>

NothingUnderWay ==
    queue = <<>> /\ \A f \in Facts : pc[f] \notin {"skip", "touch", "marking"}

\* A catch-up that no deferral has been announced to, or done since, has read
\* everything that is owed, or is about to hear of it.
CatchUpCovers ==
    /\ stage["catchup"] # "off" => started <= epoch
    /\ epoch = started =>
        /\ stage["catchup"] = "clear" =>
             \A f \in owed \ snap["catchup"] : pc[f] = "touch"
        /\ stage["catchup"] = "fill" => owed \subseteq snap["catchup"] /\ NothingUnderWay
        /\ stage["catchup"] = "release" => owed = {} /\ NothingUnderWay

OwedIsStored ==
    /\ owed \subseteq base /\ saved.owed \subseteq saved.base
    /\ saved.owed # {} => saved.marked

QInv == TypeOK /\ QueuedIsQueued /\ WaitersAreTold

\* Facts are stored in batches, so that their flush comes last, and a DELETE of
\* the marker that fails has not deleted it.
Batched == Unbatched = {} /\ "delete" \notin LateFailures

IInv ==
    /\ QInv
    /\ QueueShape
    /\ WaitersWait
    /\ SettledIsMarked
    /\ DeferringIsMarked
    /\ CatchUpCovers
    /\ OwedIsStored
-----------------------------------------------------------------------------
(* The queue and those who wait for it, in every configuration.            *)

\* A step that leaves the queue alone and sends nobody to wait.
LEMMA QuietStep ==
    ASSUME QInv, TypeOK', UNCHANGED <<queue, persist>>,
           \A f \in Facts : pc'[f] = "marking" => pc[f] = "marking"
    PROVE  QInv'
BY DEF QInv, QueuedIsQueued, Inserts, WaitersAreTold

\* The rest of the queue, by its positions in the queue.
LEMMA TailOfQueue ==
    ASSUME TypeOK, queue # <<>>
    PROVE  /\ Tail(queue) \in Seq(Jobs) /\ Head(queue) = queue[1] /\ 1 \in DOMAIN queue
           /\ DOMAIN queue = 1 .. Len(queue) /\ Len(queue) \in Nat
           /\ \A i \in DOMAIN Tail(queue) :
                 /\ i \in Nat \ {0} /\ i + 1 \in DOMAIN queue
                 /\ Tail(queue)[i] = queue[i + 1]
           /\ \A i \in DOMAIN queue : i # 1 =>
                 i - 1 \in DOMAIN Tail(queue) /\ Tail(queue)[i - 1] = queue[i]
<1>1. /\ Tail(queue) \in Seq(Jobs) /\ Len(Tail(queue)) = Len(queue) - 1
      /\ \A i \in 1 .. Len(Tail(queue)) : Tail(queue)[i] = queue[i + 1]
  BY HeadTailProperties DEF TypeOK
<1>2. Len(queue) \in Nat \ {0} /\ DOMAIN queue = 1 .. Len(queue)
  BY EmptySeq, LenProperties DEF TypeOK
<1>3. DOMAIN Tail(queue) = 1 .. Len(queue) - 1  BY <1>1, LenProperties
<1>4. \A i \in DOMAIN queue : i # 1 =>
         i - 1 \in DOMAIN Tail(queue) /\ Tail(queue)[i - 1] = queue[i]
  <2> SUFFICES ASSUME NEW i \in DOMAIN queue, i # 1
               PROVE  i - 1 \in DOMAIN Tail(queue) /\ Tail(queue)[i - 1] = queue[i]
    OBVIOUS
  <2>1. i - 1 \in 1 .. Len(Tail(queue)) /\ (i - 1) + 1 = i  BY <1>1, <1>2
  <2> QED  BY <1>1, <1>2, <1>3, <2>1
<1> QED  BY <1>1, <1>2, <1>3, <1>4 DEF TypeOK

\* One more job at the end.
LEMMA AppendToQueue ==
    ASSUME TypeOK, NEW j \in Jobs
    PROVE  /\ Append(queue, j) \in Seq(Jobs) /\ Len(queue) \in Nat
           /\ DOMAIN Append(queue, j) = 1 .. Len(queue) + 1
           /\ DOMAIN queue = 1 .. Len(queue)
           /\ Append(queue, j)[Len(queue) + 1] = j
           /\ \A i \in DOMAIN queue : Append(queue, j)[i] = queue[i]
<1>1. /\ Append(queue, j) \in Seq(Jobs) /\ Len(Append(queue, j)) = Len(queue) + 1
      /\ Append(queue, j)[Len(queue) + 1] = j
      /\ \A i \in 1 .. Len(queue) : Append(queue, j)[i] = queue[i]
  BY AppendProperties DEF TypeOK
<1> QED  BY <1>1, LenProperties DEF TypeOK

\* The job at the head leaves, and those it told go on: nobody else is told.
LEMMA QueueMovesOn ==
    ASSUME QInv, TypeOK', queue # <<>>, queue' = Tail(queue),
           \/ Head(queue).kind = "delete" /\ UNCHANGED persist
           \/ \E outcome \in {"settled", "failed"} : persist' = NewestSettles(outcome),
           \A f \in Facts : pc'[f] = "marking" =>
              /\ pc[f] = "marking"
              /\ Head(queue).kind = "insert" => f \notin Head(queue).waiters
    PROVE  QInv'
<1> USE DEF QInv
<1>1. WaitersAreTold'
  <2> SUFFICES ASSUME NEW f \in Facts, pc'[f] = "marking"
               PROVE  \E i \in DOMAIN queue' : queue'[i].kind = "insert" /\ f \in queue'[i].waiters
    BY DEF WaitersAreTold
  <2>1. PICK i \in DOMAIN queue : queue[i].kind = "insert" /\ f \in queue[i].waiters
    BY DEF WaitersAreTold
  <2>2. i # 1  BY <2>1, TailOfQueue
  <2>3. i - 1 \in DOMAIN queue' /\ queue'[i - 1] = queue[i]  BY <2>2, TailOfQueue
  <2> QED  BY <2>1, <2>3
<1>2. QueuedIsQueued'
  <2> SUFFICES ASSUME persist' = "queued"
               PROVE  \E i \in Inserts' : \A j \in Inserts' : j <= i
    BY DEF QueuedIsQueued
  <2>1. persist = "queued"  BY DEF NewestSettles
  <2>2. PICK i \in Inserts : \A j \in Inserts : j <= i  BY <2>1 DEF QueuedIsQueued
  <2>3. ASSUME NEW j \in Inserts' PROVE j + 1 \in Inserts /\ j \in Nat
    BY <2>3, TailOfQueue DEF Inserts
  <2>4. i # 1
    <3>1. CASE Head(queue).kind = "delete"  BY <2>2, <3>1, TailOfQueue DEF Inserts
    <3>2. CASE Head(queue).kind # "delete"
      <4>1. PICK j \in DOMAIN Tail(queue) : Tail(queue)[j].kind = "insert"
        BY <3>2 DEF NewestSettles
      <4>2. j + 1 \in Inserts /\ j \in Nat \ {0}  BY <4>1, TailOfQueue DEF Inserts
      <4>3. j + 1 <= i  BY <2>2, <4>2
      <4> QED  BY <4>2, <4>3
    <3> QED  BY <3>1, <3>2
  <2>5. i - 1 \in Inserts' /\ i \in Nat  BY <2>2, <2>4, TailOfQueue DEF Inserts
  <2>6. \A j \in Inserts' : j <= i - 1  BY <2>2, <2>3, <2>5
  <2> QED  BY <2>5, <2>6
<1> QED  BY <1>1, <1>2

\* Storing a fact without a word to the tracker, or taking one back.
Plain(f) ==
    \/ Store(f) \/ Count(f) \/ Reason(f) \/ InsertBase(f) \/ Touch(f)
    \/ InsertInferred(f) \/ StoreFailure(f) \/ Retract(f)

LEMMA PlainKeepsQueue == ASSUME QInv, NEW f \in Facts, Plain(f) PROVE QInv'
<1> USE DEF QInv, Goto, store, tracker, rebuild, catching, history
<1>1. CASE Store(f)
  <2>1. TypeOK'  BY <1>1 DEF Store, TypeOK
  <2> QED  BY <1>1, <2>1, QuietStep DEF Store, TypeOK
<1>2. CASE Count(f)
  <2>1. TypeOK'  BY <1>2 DEF Count, TypeOK
  <2> QED  BY <1>2, <2>1, QuietStep DEF Count, TypeOK
<1>3. CASE Reason(f)
  <2>1. TypeOK'  BY <1>3 DEF Reason, TypeOK, Derived
  <2> QED  BY <1>3, <2>1, QuietStep DEF Reason, TypeOK
<1>4. CASE InsertBase(f)
  <2>1. TypeOK'  BY <1>4 DEF InsertBase, TypeOK
  <2> QED  BY <1>4, <2>1, QuietStep DEF InsertBase, TypeOK
<1>5. CASE Touch(f)
  <2>1. TypeOK'  BY <1>5 DEF Touch, TypeOK
  <2> QED  BY <1>5, <2>1, QuietStep DEF Touch, TypeOK
<1>6. CASE InsertInferred(f)
  <2>1. TypeOK'  BY <1>6 DEF InsertInferred, TypeOK
  <2> QED  BY <1>6, <2>1, QuietStep DEF InsertInferred, TypeOK
<1>7. CASE DeferFails(f)
  <2>1. TypeOK'  BY <1>7 DEF DeferFails, TypeOK
  <2> QED  BY <1>7, <2>1, QuietStep DEF DeferFails, TypeOK
<1>8. CASE ReasonFails(f)
  <2>1. TypeOK'  BY <1>8 DEF ReasonFails, TypeOK
  <2> QED  BY <1>8, <2>1, QuietStep DEF ReasonFails, TypeOK
<1>9. CASE InsertFails(f)
  <2>1. TypeOK'  BY <1>9 DEF InsertFails, TypeOK
  <2> QED  BY <1>9, <2>1, QuietStep DEF InsertFails, TypeOK
<1>10. CASE Retract(f)
  <2>1. TypeOK'  BY <1>10 DEF Retract, At, Rebuilders, TypeOK
  <2> QED  BY <1>10, <2>1, QuietStep DEF Retract
<1> QED
  BY <1>1, <1>2, <1>3, <1>4, <1>5, <1>6, <1>7, <1>8, <1>9, <1>10 DEF Plain, StoreFailure

\* The announcement of a deferral: who waits is written on an INSERT.
LEMMA MarkStaleKeepsQueue == ASSUME QInv, NEW f \in Facts, MarkStale(f) PROVE QInv'
<1> USE DEF QInv, Goto, store, rebuild, catching, history
<1>1. epoch' \in Nat /\ UNCHANGED <<store, saved, gateOn, loaded, result, rebuild, catching, faults, history>>
  BY DEF MarkStale, TypeOK
<1>2. CASE /\ since = 0 /\ since' = epoch' /\ persist' = "queued" /\ Goto(f, "marking")
           /\ queue' = Append(queue, [kind |-> "insert", owner |-> f,
                                      since |-> since', waiters |-> {f}])
  <2> DEFINE j == [kind |-> "insert", owner |-> f, since |-> since', waiters |-> {f}]
  <2>1. j \in Jobs  BY <1>1, <1>2 DEF Jobs
  <2>2. /\ queue' \in Seq(Jobs) /\ DOMAIN queue' = 1 .. Len(queue) + 1
        /\ DOMAIN queue = 1 .. Len(queue) /\ Len(queue) \in Nat
        /\ queue'[Len(queue) + 1] = j /\ \A i \in DOMAIN queue : queue'[i] = queue[i]
    BY <1>2, <2>1, AppendToQueue
  <2>3. TypeOK'  BY <1>1, <1>2, <2>2 DEF TypeOK
  <2>4. Len(queue) + 1 \in DOMAIN queue'  BY <2>2
  <2>5. QueuedIsQueued'  BY <2>2, <2>4 DEF QueuedIsQueued, Inserts
  <2>6. WaitersAreTold'
    <3> SUFFICES ASSUME NEW g \in Facts, pc'[g] = "marking"
                 PROVE  \E i \in DOMAIN queue' : queue'[i].kind = "insert" /\ g \in queue'[i].waiters
      BY DEF WaitersAreTold
    <3>1. CASE g = f  BY <2>2, <2>4, <3>1
    <3>2. CASE g # f
      <4>1. pc[g] = "marking"  BY <1>2, <3>2 DEF TypeOK
      <4>2. PICK i \in DOMAIN queue : queue[i].kind = "insert" /\ g \in queue[i].waiters
        BY <4>1 DEF WaitersAreTold
      <4> QED  BY <2>2, <4>2
    <3> QED  BY <3>1, <3>2
  <2> QED  BY <2>3, <2>5, <2>6
<1>3. CASE /\ since # 0 /\ persist = "queued" /\ Goto(f, "marking")
           /\ UNCHANGED <<since, persist>>
           /\ LET newest == CHOOSE i \in DOMAIN queue :
                               /\ queue[i].kind = "insert"
                               /\ \A j \in DOMAIN queue :
                                    queue[j].kind = "insert" => j <= i
              IN queue' = [queue EXCEPT ![newest].waiters = @ \cup {f}]
  <2>1. PICK i \in DOMAIN queue :
           /\ queue[i].kind = "insert"
           /\ \A j \in DOMAIN queue : queue[j].kind = "insert" => j <= i
           /\ queue' = [queue EXCEPT ![i].waiters = @ \cup {f}]
    <3> DEFINE Newest(i) == /\ queue[i].kind = "insert"
                            /\ \A j \in DOMAIN queue : queue[j].kind = "insert" => j <= i
    <3>1. \E i \in DOMAIN queue : Newest(i)  BY <1>3 DEF QueuedIsQueued, Inserts
    <3>2. /\ (CHOOSE i \in DOMAIN queue : Newest(i)) \in DOMAIN queue
          /\ Newest(CHOOSE i \in DOMAIN queue : Newest(i))
      BY <3>1
    <3> QED  BY <1>3, <3>2
  <2>2. DOMAIN queue = 1 .. Len(queue) /\ queue[i] \in Jobs  BY LenProperties, ElementOfSeq DEF TypeOK
  <2>3. /\ queue[i].waiters \in SUBSET Facts
        /\ [queue[i] EXCEPT !.waiters = @ \cup {f}] \in Jobs
        /\ [queue[i] EXCEPT !.waiters = @ \cup {f}].kind = "insert"
        /\ [queue[i] EXCEPT !.waiters = @ \cup {f}].waiters = queue[i].waiters \cup {f}
    BY <2>1, <2>2 DEF Jobs
  <2>4. queue' = [queue EXCEPT ![i] = [queue[i] EXCEPT !.waiters = @ \cup {f}]]  BY <2>1
  <2>5. /\ queue' \in Seq(Jobs) /\ DOMAIN queue' = DOMAIN queue
        /\ queue'[i] = [queue[i] EXCEPT !.waiters = @ \cup {f}]
        /\ \A j \in DOMAIN queue : j # i => queue'[j] = queue[j]
    BY <2>2, <2>3, <2>4, ExceptSeq DEF TypeOK
  <2>6. TypeOK'  BY <1>1, <1>3, <2>5 DEF TypeOK
  <2>7. QueuedIsQueued'  BY <2>1, <2>3, <2>5 DEF QueuedIsQueued, Inserts
  <2>8. WaitersAreTold'
    <3> SUFFICES ASSUME NEW g \in Facts, pc'[g] = "marking"
                 PROVE  \E k \in DOMAIN queue' : queue'[k].kind = "insert" /\ g \in queue'[k].waiters
      BY DEF WaitersAreTold
    <3>1. CASE g = f  BY <2>3, <2>5, <3>1
    <3>2. CASE g # f
      <4>1. pc[g] = "marking"  BY <1>3, <3>2 DEF TypeOK
      <4>2. PICK k \in DOMAIN queue : queue[k].kind = "insert" /\ g \in queue[k].waiters
        BY <4>1 DEF WaitersAreTold
      <4> QED  BY <2>3, <2>5, <4>2
    <3> QED  BY <3>1, <3>2
  <2> QED  BY <2>6, <2>7, <2>8
<1>4. CASE /\ since # 0 /\ persist # "queued" /\ UNCHANGED <<since, persist, queue>>
           /\ Goto(f, IF persist = "failed" THEN "reason" ELSE "skip")
  <2>1. TypeOK'  BY <1>1, <1>4 DEF TypeOK
  <2> QED  BY <1>4, <2>1, QuietStep DEF TypeOK
<1> QED  BY <1>2, <1>3, <1>4 DEF MarkStale

\* The steps of the queue.
LEMMA MarkerStepsKeepQueue ==
    ASSUME QInv, MarkerStep \/ MarkerFailure PROVE QInv'
<1> USE DEF QInv, GotoAll, At, store, tracker, rebuild, catching, history
<1>1. CASE Load
  <2>1. TypeOK'  BY <1>1, GateAssumption DEF Load, TypeOK, LoadedSince, GateAssumption
  <2> QED  BY <1>1, <2>1, QuietStep DEF Load
<1>2. CASE MarkerInserted
  <2>1. persist' \in {"settled", "queued", "failed"}
    BY <1>2 DEF MarkerInserted, TypeOK, NewestSettles
  <2>2. queue' \in Seq(Jobs)  BY <1>2, TailOfQueue DEF MarkerInserted
  <2>3. pc' \in [Facts -> {"idle", "count", "mark", "marking", "reason",
                         "insert", "skip", "touch", "derive"}]
    BY <1>2 DEF MarkerInserted, TypeOK
  <2>4. /\ marked' = TRUE
        /\ UNCHANGED <<base, inferred, saved, gateOn, loaded, since, epoch,
                       result, rebuild, catching, faults, history>>
    BY <1>2 DEF MarkerInserted
  <2>5. TypeOK'  BY <2>1, <2>2, <2>3, <2>4 DEF TypeOK
  <2> QED  BY <1>2, <2>5, QueueMovesOn DEF MarkerInserted, TypeOK
<1>3. CASE MarkerInsertFails
  <2>1. persist' \in {"settled", "queued", "failed"}
    BY <1>3 DEF MarkerInsertFails, TypeOK, NewestSettles
  <2>2. queue' \in Seq(Jobs)  BY <1>3, TailOfQueue DEF MarkerInsertFails
  <2>3. pc' \in [Facts -> {"idle", "count", "mark", "marking", "reason",
                         "insert", "skip", "touch", "derive"}]
    BY <1>3 DEF MarkerInsertFails, TypeOK
  <2>4. marked' \in BOOLEAN
    BY <1>3, Zenon DEF MarkerInsertFails, TypeOK
  <2>5. /\ since' \in Nat /\ faults' \in Nat
        /\ UNCHANGED <<base, inferred, saved, gateOn, loaded, epoch,
                       result, rebuild, catching, history>>
    BY <1>3 DEF MarkerInsertFails, TypeOK
  <2>6. TypeOK'  BY <2>1, <2>2, <2>3, <2>4, <2>5 DEF TypeOK
  <2> QED  BY <1>3, <2>6, QueueMovesOn DEF MarkerInsertFails, TypeOK
<1>4. CASE MarkerDeleted
  <2>1. TypeOK'  BY <1>4, TailOfQueue DEF MarkerDeleted, TypeOK, Rebuilders
  <2> QED  BY <1>4, <2>1, QueueMovesOn DEF MarkerDeleted
<1>5. CASE MarkerDeleteFails
  <2>1. marked' \in BOOLEAN
    BY <1>5, Zenon DEF MarkerDeleteFails, TypeOK
  <2>2. queue' \in Seq(Jobs)  BY <1>5, TailOfQueue DEF MarkerDeleteFails
  <2>3. /\ since' \in Nat /\ faults' \in Nat /\ catchup' = "off"
        /\ UNCHANGED <<base, inferred, saved, gateOn, loaded, epoch, persist, pc,
                       result, snap, started, previous, history>>
    BY <1>5 DEF MarkerDeleteFails, TypeOK
  <2>4. stage' \in [Rebuilders -> {"off", "read", "clear", "fill", "release", "deleting"}]
    BY <1>5 DEF MarkerDeleteFails, TypeOK
  <2>5. TypeOK'  BY <2>1, <2>2, <2>3, <2>4 DEF TypeOK
  <2> QED  BY <1>5, <2>5, QueueMovesOn DEF MarkerDeleteFails
<1> QED  BY <1>1, <1>2, <1>3, <1>4, <1>5 DEF MarkerStep, MarkerFailure

\* Catch-ups and rebuilds.
LEMMA CatchUpKeepsQueue ==
    ASSUME QInv, CatchUpStep \/ \E force \in BOOLEAN : CatchUp(force) PROVE QInv'
<1> USE DEF QInv, At, store, tracker, rebuild, catching, history
<1>1. CASE \E force \in BOOLEAN : CatchUp(force)
  <2>1. TypeOK'  BY <1>1 DEF CatchUp, TypeOK
  <2> QED  BY <1>1, <2>1, QuietStep DEF CatchUp
<1>2. CASE CatchUpStarts
  <2>1. TypeOK'  BY <1>2 DEF CatchUpStarts, TypeOK, Rebuilders
  <2> QED  BY <1>2, <2>1, QuietStep DEF CatchUpStarts
<1>3. CASE CatchUpReleases /\ epoch # started
  <2>1. TypeOK'  BY <1>3 DEF CatchUpReleases, TypeOK, Rebuilders
  <2> QED  BY <1>3, <2>1, QuietStep DEF CatchUpReleases
<1>4. CASE CatchUpReleases /\ epoch = started
  <2> DEFINE j == [kind |-> "delete"]
  <2>1. j \in Jobs /\ queue' = Append(queue, j) /\ UNCHANGED <<persist, pc>>
    BY <1>4 DEF Jobs, CatchUpReleases
  <2>2. /\ queue' \in Seq(Jobs) /\ DOMAIN queue' = 1 .. Len(queue) + 1
        /\ DOMAIN queue = 1 .. Len(queue) /\ Len(queue) \in Nat
        /\ queue'[Len(queue) + 1] = j /\ \A i \in DOMAIN queue : queue'[i] = queue[i]
    BY <2>1, AppendToQueue
  <2>3. TypeOK'  BY <1>4, <2>2 DEF CatchUpReleases, TypeOK, Rebuilders
  <2>4. \A i \in DOMAIN queue' : queue'[i].kind = "insert" => i \in DOMAIN queue  BY <2>2
  <2>5. QueuedIsQueued'  BY <2>1, <2>2, <2>4 DEF QueuedIsQueued, Inserts
  <2>6. WaitersAreTold'  BY <2>1, <2>2 DEF WaitersAreTold
  <2> QED  BY <2>3, <2>5, <2>6
<1> QED  BY <1>1, <1>2, <1>3, <1>4 DEF CatchUpStep

LEMMA RebuildKeepsQueue ==
    ASSUME QInv, NEW w \in Rebuilders, RebuildStep(w) \/ RebuildFails(w) PROVE QInv'
<1> USE DEF QInv, At, store, tracker, rebuild, catching, history
<1>1. CASE RebuildRead(w)
  <2>1. TypeOK'  BY <1>1 DEF RebuildRead, TypeOK
  <2> QED  BY <1>1, <2>1, QuietStep DEF RebuildRead
<1>2. CASE RebuildClear(w)
  <2>1. TypeOK'  BY <1>2 DEF RebuildClear, TypeOK
  <2> QED  BY <1>2, <2>1, QuietStep DEF RebuildClear
<1>3. CASE RebuildFill(w)
  <2>1. inferred' \subseteq Rules /\ owed' \subseteq Facts
    BY <1>3 DEF RebuildFill, TypeOK, Derived
  <2>2. stage' \in [Rebuilders -> {"off", "read", "clear", "fill", "release", "deleting"}]
    BY <1>3 DEF RebuildFill, TypeOK
  <2>3. /\ snap' \in [Rebuilders -> SUBSET Facts]
        /\ UNCHANGED <<base, marked, saved, gateOn, tracker, pc, result, catching,
                       faults, racing, wiped, outlived>>
    BY <1>3 DEF RebuildFill, TypeOK
  <2>4. TypeOK'  BY <2>1, <2>2, <2>3 DEF TypeOK
  <2> QED  BY <1>3, <2>4, QuietStep DEF RebuildFill
<1>4. CASE RebuildFails(w)
  <2>1. outlived' \subseteq Facts
    BY <1>4 DEF RebuildFails, TypeOK, Missing
  <2>2. /\ inferred' \subseteq Rules /\ catchup' \in {"off", "due", "forced"}
        /\ stage' \in [Rebuilders -> {"off", "read", "clear", "fill", "release", "deleting"}]
        /\ snap' \in [Rebuilders -> SUBSET Facts] /\ faults' \in Nat
        /\ UNCHANGED <<base, marked, saved, gateOn, tracker, pc, result, started,
                       previous, owed, racing, wiped>>
    BY <1>4 DEF RebuildFails, TypeOK
  <2>3. TypeOK'  BY <2>1, <2>2 DEF TypeOK
  <2> QED  BY <1>4, <2>3, QuietStep DEF RebuildFails
<1> QED  BY <1>1, <1>2, <1>3, <1>4 DEF RebuildStep

LEMMA HostKeepsQueue ==
    ASSUME QInv, SetAsyncThreshold \/ Flush \/ CrashRestart PROVE QInv'
<1> USE DEF QInv, store, tracker, rebuild, catching, history
<1>1. CASE SetAsyncThreshold
  <2>1. TypeOK'  BY <1>1 DEF SetAsyncThreshold, TypeOK
  <2> QED  BY <1>1, <2>1, QuietStep DEF SetAsyncThreshold
<1>2. CASE Flush
  <2>1. TypeOK'  BY <1>2 DEF Flush, TypeOK
  <2> QED  BY <1>2, <2>1, QuietStep DEF Flush
<1>3. CASE CrashRestart
  <2>1. /\ base' \subseteq Facts /\ inferred' \subseteq Rules /\ owed' \subseteq Facts
        /\ saved' = saved /\ gateOn' = gateOn /\ marked' \in BOOLEAN
    BY <1>3 DEF CrashRestart, TypeOK
  <2>2. queue' \in Seq(Jobs)  BY <1>3, EmptySeq DEF CrashRestart
  <2>3. /\ loaded' = FALSE /\ since' \in Nat /\ epoch' \in Nat /\ faults' \in Nat
        /\ started' \in Nat /\ previous' \in Nat
        /\ persist' \in {"settled", "queued", "failed"} /\ catchup' \in {"off", "due", "forced"}
        /\ racing' \subseteq Facts /\ wiped' \subseteq Rules /\ outlived' \subseteq Facts
    BY <1>3 DEF CrashRestart, TypeOK, Missing
  <2>4. /\ pc' \in [Facts -> {"idle", "count", "mark", "marking", "reason",
                               "insert", "skip", "touch", "derive"}]
        /\ result' \in [Facts -> SUBSET Rules]
        /\ stage' \in [Rebuilders -> {"off", "read", "clear", "fill", "release", "deleting"}]
        /\ snap' \in [Rebuilders -> SUBSET Facts]
    BY <1>3 DEF CrashRestart
  <2>5. TypeOK'  BY <2>1, <2>2, <2>3, <2>4 DEF TypeOK
  <2> QED  BY <1>3, <2>5 DEF CrashRestart, QueuedIsQueued, WaitersAreTold
<1> QED  BY <1>1, <1>2, <1>3

LEMMA QueueInvariance == Spec => []QInv
<1>1. Init => QInv
  <2> SUFFICES ASSUME Init PROVE QInv  OBVIOUS
  <2>1. TypeOK  BY EmptySeq DEF Init, TypeOK
  <2> QED  BY <2>1 DEF Init, QInv, QueuedIsQueued, WaitersAreTold
<1>2. QInv /\ [Next]_vars => QInv'
  <2> SUFFICES ASSUME QInv, [Next]_vars PROVE QInv'  OBVIOUS
  <2>1. CASE UNCHANGED vars
    <3> USE <2>1 DEF QInv, vars, store, tracker, rebuild, catching, history
    <3>1. TypeOK'  BY DEF TypeOK
    <3> QED  BY <3>1, QuietStep
  <2>2. CASE \E f \in Facts : StoreStep(f) \/ StoreFailure(f) \/ Retract(f)
    BY <2>2, PlainKeepsQueue, MarkStaleKeepsQueue DEF StoreStep, Plain
  <2>3. CASE MarkerStep \/ MarkerFailure  BY <2>3, MarkerStepsKeepQueue
  <2>4. CASE CatchUpStep \/ \E force \in BOOLEAN : CatchUp(force)  BY <2>4, CatchUpKeepsQueue
  <2>5. CASE \E w \in Rebuilders : RebuildStep(w) \/ RebuildFails(w)  BY <2>5, RebuildKeepsQueue
  <2>6. CASE SetAsyncThreshold \/ Flush \/ CrashRestart  BY <2>6, HostKeepsQueue
  <2> QED  BY <2>1, <2>2, <2>3, <2>4, <2>5, <2>6 DEF Next
<1> QED  BY <1>1, <1>2, PTL DEF Spec

(* Engine, gate, tracker and rebuilds keep the shape the code gives them   *)
(* (ReasoningGate.ts:60-140).                                              *)
THEOREM TypeCorrect == Spec => []TypeOK
<1>1. QInv => TypeOK  BY DEF QInv
<1> QED  BY <1>1, QueueInvariance, PTL

-----------------------------------------------------------------------------
(* What is deferred and the marker.                                        *)

LEMMA WaitersAreFacts == QInv => \A i \in Inserts : queue[i].waiters \subseteq Facts
<1> SUFFICES ASSUME QInv, NEW i \in Inserts PROVE queue[i].waiters \subseteq Facts  OBVIOUS
<1>1. queue[i] \in Jobs /\ queue[i].kind = "insert"
  BY LenProperties, ElementOfSeq DEF QInv, TypeOK, Inserts
<1> QED  BY <1>1 DEF Jobs

\* The tracker's state and the marker agree as long as nobody touches them.
LEMMA TrackerKept ==
    ASSUME QueueShape, WaitersWait, SettledIsMarked, QInv,
           UNCHANGED <<marked, loaded, since, persist, queue, previous>>,
           stage'["catchup"] = stage["catchup"],
           \A f \in Facts : pc[f] = "marking" => pc'[f] = "marking"
    PROVE  QueueShape' /\ WaitersWait' /\ SettledIsMarked'
<1>1. QueueShape' /\ SettledIsMarked'  BY DEF QueueShape, SettledIsMarked, Inserts
<1>2. \A i \in Inserts : queue[i].waiters \subseteq Facts  BY WaitersAreFacts
<1> QED  BY <1>1, <1>2 DEF WaitersWait, Inserts

\* The catch-up covers what is owed as long as whoever defers says so.
LEMMA CoverKept ==
    ASSUME CatchUpCovers, TypeOK, owed' \subseteq Facts, UNCHANGED started,
           stage'["catchup"] = stage["catchup"], snap'["catchup"] = snap["catchup"],
           epoch' \in Nat, epoch <= epoch',
           epoch' = epoch =>
              /\ NothingUnderWay => NothingUnderWay'
              /\ \A f \in owed' : f \in owed \/ (pc[f] = "skip" /\ pc'[f] = "touch")
              /\ \A f \in Facts : pc[f] = "touch" => pc'[f] = "touch"
    PROVE  CatchUpCovers'
<1>1. stage["catchup"] # "off" => started <= epoch'  BY DEF CatchUpCovers, TypeOK
<1>2. ASSUME stage["catchup"] # "off", epoch' = started PROVE epoch = started /\ epoch' = epoch
  BY <1>2 DEF CatchUpCovers, TypeOK
<1>3. ASSUME epoch' = started, stage["catchup"] = "clear"
      PROVE  \A f \in owed' \ snap["catchup"] : pc'[f] = "touch"
  BY <1>2, <1>3 DEF CatchUpCovers, TypeOK
<1>4. ASSUME epoch' = started, stage["catchup"] = "fill"
      PROVE  owed' \subseteq snap["catchup"] /\ NothingUnderWay'
  <2>1. owed \subseteq snap["catchup"] /\ NothingUnderWay /\ epoch' = epoch
    BY <1>2, <1>4 DEF CatchUpCovers
  <2>2. owed' \subseteq owed  BY <2>1 DEF NothingUnderWay
  <2> QED  BY <2>1, <2>2
<1>5. ASSUME epoch' = started, stage["catchup"] = "release"
      PROVE  owed' = {} /\ NothingUnderWay'
  <2>1. owed = {} /\ NothingUnderWay /\ epoch' = epoch
    BY <1>2, <1>5 DEF CatchUpCovers
  <2>2. owed' \subseteq owed  BY <2>1 DEF NothingUnderWay
  <2> QED  BY <2>1, <2>2
<1> QED  BY <1>1, <1>3, <1>4, <1>5 DEF CatchUpCovers

LEMMA PlainInv == ASSUME Batched, IInv, NEW f \in Facts, Plain(f) PROVE IInv'
<1> USE DEF IInv, Goto, store, tracker, rebuild, catching, history
<1>1. QInv' /\ owed' \subseteq Facts
  <2>1. QInv'  BY PlainKeepsQueue
  <2> QED  BY <2>1 DEF QInv, TypeOK
<1>2. /\ UNCHANGED <<marked, saved, loaded, since, persist, queue, previous, started>>
      /\ stage'["catchup"] = stage["catchup"] /\ snap' = snap
  BY DEF Plain, Store, Count, Reason, InsertBase, Touch, InsertInferred, StoreFailure,
         DeferFails, ReasonFails, InsertFails, Retract, At, TypeOK, QInv, Rebuilders
<1>3. QueueShape' /\ WaitersWait' /\ SettledIsMarked'
  <2>1. \A g \in Facts : pc[g] = "marking" => pc'[g] = "marking"
    BY DEF Plain, Store, Count, Reason, InsertBase, Touch, InsertInferred, StoreFailure,
           DeferFails, ReasonFails, InsertFails, Retract, QInv, TypeOK
  <2> QED  BY <1>2, <2>1, TrackerKept
<1>4. \A g \in Facts : pc'[g] = "skip" => pc[g] = "skip"
  BY DEF Plain, Store, Count, Reason, InsertBase, Touch, InsertInferred, StoreFailure,
         DeferFails, ReasonFails, InsertFails, Retract, QInv, TypeOK
<1>5. \A g \in Facts : pc'[g] = "marking" => pc[g] = "marking"
  BY DEF Plain, Store, Count, Reason, InsertBase, Touch, InsertInferred, StoreFailure,
         DeferFails, ReasonFails, InsertFails, Retract, QInv, TypeOK
<1>6. \A g \in Facts : pc'[g] = "touch" => pc[g] \in {"touch", "skip"}
  BY DEF Plain, Store, Count, Reason, InsertBase, Touch, InsertInferred, StoreFailure,
         DeferFails, ReasonFails, InsertFails, Retract, QInv, TypeOK
<1>7. /\ owed' \subseteq base'
      /\ \A g \in owed' : g \in owed \/ (pc[g] = "skip" /\ pc'[g] = "touch")
  BY DEF Plain, Store, Count, Reason, InsertBase, Touch, InsertInferred, StoreFailure,
         DeferFails, ReasonFails, InsertFails, Retract, QInv, TypeOK, OwedIsStored, Batched
<1>8. /\ epoch' \in Nat /\ epoch <= epoch'
      /\ epoch' = epoch => \A g \in Facts : pc[g] = "touch" => pc'[g] = "touch"
  BY DEF Plain, Store, Count, Reason, InsertBase, Touch, InsertInferred, StoreFailure,
         DeferFails, ReasonFails, InsertFails, Retract, QInv, TypeOK
<1>9. OwedIsStored'  BY <1>2, <1>7 DEF OwedIsStored
<1>10. DeferringIsMarked'
  <2>1. \A g \in owed' : g \in owed \/ (g \in Facts /\ Skipping(g))
    BY <1>1, <1>7 DEF Skipping
  <2>2. \A g \in Facts : Skipping(g)' => Skipping(g)  BY <1>4 DEF Skipping
  <2> QED  BY <1>2, <2>1, <2>2 DEF DeferringIsMarked
<1>11. CatchUpCovers'
  <2>1. NothingUnderWay => NothingUnderWay'  BY <1>2, <1>4, <1>5, <1>6 DEF NothingUnderWay
  <2> QED  BY <1>1, <1>2, <1>7, <1>8, <2>1, CoverKept DEF QInv
<1> QED  BY <1>1, <1>3, <1>9, <1>10, <1>11

\* A queue with neither an INSERT nor a DELETE is empty.
LEMMA NoJob ==
    ASSUME QInv, QueueShape, Inserts = {}, stage["catchup"] # "deleting"
    PROVE  queue = <<>>
<1>1. \A i \in DOMAIN queue : queue[i].kind = "insert" \/ queue[i].kind = "delete"
  <2>1. \A i \in DOMAIN queue : queue[i] \in Jobs
    BY LenProperties, ElementOfSeq DEF QInv, TypeOK
  <2> QED  BY <2>1 DEF Jobs
<1>2. \A i \in DOMAIN queue : FALSE  BY <1>1 DEF QueueShape, Inserts
<1> QED  BY <1>2, TailOfQueue DEF QInv

\* Behind an INSERT there is nothing.
LEMMA InsertIsAlone ==
    ASSUME QInv, QueueShape, queue # <<>>, Head(queue).kind = "insert"
    PROVE  /\ Tail(queue) = <<>> /\ 1 \in Inserts /\ Head(queue) = queue[1]
           /\ stage["catchup"] # "deleting"
<1>1. 1 \in Inserts /\ Head(queue) = queue[1]  BY TailOfQueue DEF Inserts, QInv
<1>2. stage["catchup"] # "deleting"  BY <1>1 DEF QueueShape, Inserts
<1>3. \A i \in DOMAIN Tail(queue) : FALSE
  <2> SUFFICES ASSUME NEW i \in DOMAIN Tail(queue) PROVE FALSE  OBVIOUS
  <2>1. /\ i + 1 \in DOMAIN queue /\ i \in Nat \ {0}
        /\ DOMAIN queue = 1 .. Len(queue) /\ queue \in Seq(Jobs)
    BY TailOfQueue DEF QInv, TypeOK
  <2>2. queue[i + 1] \in Jobs  BY <2>1, ElementOfSeq
  <2>3. queue[i + 1].kind = "insert" \/ queue[i + 1].kind = "delete"  BY <2>2 DEF Jobs
  <2>4. queue[i + 1].kind # "delete"  BY <1>2, <2>1 DEF QueueShape
  <2>5. i + 1 \in Inserts  BY <2>1, <2>3, <2>4 DEF Inserts
  <2>6. i + 1 = 1  BY <1>1, <2>5 DEF QueueShape
  <2> QED  BY <2>1, <2>6
<1>4. Tail(queue) = <<>>
  <2>1. Tail(queue) \in Seq(Jobs)  BY TailOfQueue DEF QInv
  <2>2. DOMAIN Tail(queue) = 1 .. Len(Tail(queue)) /\ Len(Tail(queue)) \in Nat
    BY <2>1, LenProperties
  <2>3. Len(Tail(queue)) = 0
    <3>1. \A n \in Nat : 1 \notin 1 .. n => n = 0  OBVIOUS
    <3>2. 1 \notin 1 .. Len(Tail(queue))  BY <1>3, <2>2, Zenon
    <3> QED  BY <2>2, <3>1, <3>2, Zenon
  <2> QED  BY <2>1, <2>3, EmptySeq
<1> QED  BY <1>1, <1>2, <1>4

LEMMA MarkStaleInv == ASSUME Batched, IInv, NEW f \in Facts, MarkStale(f) PROVE IInv'
<1> USE DEF IInv, Goto, store, rebuild, catching, history
<1>1. QInv'  BY MarkStaleKeepsQueue
<1>2. /\ pc[f] = "mark" /\ loaded /\ epoch' = epoch + 1
      /\ UNCHANGED <<base, inferred, marked, saved, gateOn, loaded, result, stage, snap,
                     catchup, started, previous, faults, owed, racing, wiped>>
  BY DEF MarkStale
<1>3. OwedIsStored'  BY <1>2 DEF OwedIsStored
<1>4. CatchUpCovers'
  <2>1. epoch \in Nat /\ started \in Nat /\ (stage["catchup"] # "off" => started <= epoch)
    BY DEF QInv, TypeOK, CatchUpCovers
  <2>2. stage'["catchup"] # "off" => started' < epoch'  BY <1>2, <2>1
  <2> QED  BY <1>2, <2>1, <2>2 DEF CatchUpCovers
<1>5. CASE /\ since = 0 /\ since' = epoch' /\ persist' = "queued" /\ Goto(f, "marking")
           /\ queue' = Append(queue, [kind |-> "insert", owner |-> f,
                                      since |-> since', waiters |-> {f}])
  <2> DEFINE j == [kind |-> "insert", owner |-> f, since |-> since', waiters |-> {f}]
  <2>1. epoch' \in Nat \ {0} /\ j \in Jobs  BY <1>2, <1>5 DEF Jobs, QInv, TypeOK
  <2>2. /\ DOMAIN queue' = 1 .. Len(queue) + 1 /\ DOMAIN queue = 1 .. Len(queue)
        /\ Len(queue) \in Nat /\ queue'[Len(queue) + 1] = j
        /\ \A i \in DOMAIN queue : queue'[i] = queue[i]
        /\ Len(queue) = 0 <=> queue = <<>>
        /\ queue' # <<>>
    BY <1>5, <2>1, AppendToQueue, EmptySeq, AppendProperties DEF QInv, TypeOK
  <2>3. Inserts = {}  BY <1>5 DEF QueueShape
  <2>4. Inserts' = {Len(queue) + 1}  BY <2>2, <2>3 DEF Inserts
  <2>5. QueueShape'
    <3>1. \A i \in DOMAIN queue' :
             queue'[i].kind = "delete" => i = 1 /\ stage'["catchup"] = "deleting"
      BY <1>2, <2>2 DEF QueueShape
    <3>2. stage'["catchup"] = "deleting" => queue' # <<>> /\ queue'[1].kind = "delete"
      BY <1>2, <2>2 DEF QueueShape
    <3>3. \A i \in Inserts' :
             persist' = "queued" /\ since' # 0 /\ since' = queue'[i].since
      BY <1>5, <2>1, <2>2, <2>4
    <3> QED  BY <1>2, <2>4, <3>1, <3>2, <3>3 DEF QueueShape
  <2>6. SettledIsMarked'  BY <1>2, <1>5, <2>1 DEF SettledIsMarked
  <2>7. DeferringIsMarked'
    <3>1. owed = {} /\ \A g \in Facts : ~Skipping(g)  BY <1>2, <1>5 DEF DeferringIsMarked
    <3>2. \A g \in Facts : ~Skipping(g)'  BY <1>5, <3>1 DEF Skipping, QInv, TypeOK
    <3> QED  BY <1>2, <3>1, <3>2 DEF DeferringIsMarked
  <2>8. WaitersWait'
    BY <1>2, <1>5, <2>2, <2>4 DEF WaitersWait, QInv, TypeOK
  <2> QED  BY <1>1, <1>3, <1>4, <2>5, <2>6, <2>7, <2>8
<1>6. CASE /\ since # 0 /\ persist = "queued" /\ Goto(f, "marking")
           /\ UNCHANGED <<since, persist>>
           /\ LET newest == CHOOSE i \in DOMAIN queue :
                               /\ queue[i].kind = "insert"
                               /\ \A j \in DOMAIN queue :
                                    queue[j].kind = "insert" => j <= i
              IN queue' = [queue EXCEPT ![newest].waiters = @ \cup {f}]
  <2>1. /\ DOMAIN queue' = DOMAIN queue
        /\ \A i \in DOMAIN queue : queue'[i].kind = queue[i].kind
        /\ \A i \in Inserts :
              /\ queue'[i].since = queue[i].since
              /\ queue'[i].waiters \subseteq queue[i].waiters \cup {f}
    <3>1. \A i \in DOMAIN queue : queue[i] \in Jobs
      BY LenProperties, ElementOfSeq DEF QInv, TypeOK
    <3>2. PICK n : queue' = [queue EXCEPT ![n].waiters = @ \cup {f}]  BY <1>6
    <3>3. DOMAIN queue' = DOMAIN queue  BY <3>2
    <3>4. \A i \in DOMAIN queue : i # n => queue'[i] = queue[i]  BY <3>2
    <3>5. ASSUME n \in Inserts PROVE queue'[n].waiters = queue[n].waiters \cup {f}
      BY <3>1, <3>2, <3>5 DEF Jobs, Inserts
    <3> QED  BY <3>1, <3>2, <3>3, <3>4, <3>5 DEF Jobs, Inserts
  <2>2. Inserts' = Inserts /\ Inserts # {} /\ 1 \in DOMAIN queue
    <3>1. Inserts' = Inserts /\ Inserts # {}  BY <1>6, <2>1 DEF Inserts, QInv, QueuedIsQueued
    <3>2. queue # <<>>  BY <3>1 DEF Inserts
    <3> QED  BY <3>1, <3>2, TailOfQueue DEF QInv
  <2>3. queue # <<>> /\ queue' # <<>>  BY <2>1, <2>2
  <2>4. QueueShape'
    BY <1>2, <1>6, <2>1, <2>2, <2>3 DEF QueueShape, Inserts
  <2>5. SettledIsMarked'  BY <1>2, <1>6 DEF SettledIsMarked
  <2>6. DeferringIsMarked'
    <3>1. owed = {} /\ \A g \in Facts : ~Skipping(g)  BY <2>3 DEF DeferringIsMarked
    <3>2. \A g \in Facts : ~Skipping(g)'  BY <1>6, <3>1 DEF Skipping, QInv, TypeOK
    <3> QED  BY <1>2, <3>1, <3>2 DEF DeferringIsMarked
  <2>7. WaitersWait'
    <3>1. \A i \in Inserts : queue[i].waiters \subseteq Facts  BY WaitersAreFacts
    <3>2. \A g \in Facts : g = f \/ pc[g] = "marking" => pc'[g] = "marking"
      BY <1>6 DEF QInv, TypeOK
    <3> QED  BY <2>1, <2>2, <3>1, <3>2 DEF WaitersWait
  <2> QED  BY <1>1, <1>3, <1>4, <2>4, <2>5, <2>6, <2>7
<1>7. CASE /\ since # 0 /\ persist # "queued" /\ UNCHANGED <<since, persist, queue>>
           /\ Goto(f, IF persist = "failed" THEN "reason" ELSE "skip")
  <2>1. QueueShape' /\ WaitersWait' /\ SettledIsMarked'
    <3>1. \A g \in Facts : pc[g] = "marking" => pc'[g] = "marking"
      BY <1>2, <1>7 DEF QInv, TypeOK
    <3> QED  BY <1>2, <1>7, <3>1, TrackerKept
  <2>2. DeferringIsMarked'
    <3>1. CASE persist = "failed"
      <4>1. \A g \in Facts : Skipping(g)' => Skipping(g)
        BY <1>7, <3>1 DEF Skipping, QInv, TypeOK
      <4> QED  BY <1>2, <1>7, <4>1 DEF DeferringIsMarked
    <3>2. CASE persist = "settled"
      <4>1. marked  BY <1>7, <3>2 DEF SettledIsMarked
      <4>2. stage["catchup"] # "deleting" /\ Inserts = {}
        BY <1>7, <3>2 DEF SettledIsMarked, QueueShape
      <4>3. queue = <<>>  BY <4>2, NoJob
      <4> QED  BY <1>2, <1>7, <4>1, <4>3 DEF DeferringIsMarked
    <3> QED  BY <1>7, <3>1, <3>2 DEF QInv, TypeOK
  <2> QED  BY <1>1, <1>3, <1>4, <2>1, <2>2
<1> QED  BY <1>5, <1>6, <1>7 DEF MarkStale

LEMMA LoadInv == ASSUME Batched, IInv, Load PROVE IInv'
<1> USE DEF IInv, rebuild, catching, history, store
<1>1. QInv'  BY MarkerStepsKeepQueue DEF MarkerStep
<1>2. /\ ~loaded /\ loaded' /\ since' = IF marked THEN LoadedSince ELSE 0
      /\ UNCHANGED <<base, inferred, marked, saved, epoch, persist, queue, pc, stage, snap,
                     started, previous, owed>>
  BY DEF Load
<1>3. LoadedSince # 0  BY GateAssumption DEF LoadedSince, GateAssumption
<1>4. queue = <<>> /\ persist = "settled" /\ stage["catchup"] = "off"
  BY <1>2 DEF QueueShape
<1>5. Inserts' = {}  BY <1>2, <1>4 DEF Inserts
<1>6. QueueShape'  BY <1>2, <1>4, <1>5 DEF QueueShape
<1>7. WaitersWait' /\ SettledIsMarked'
  BY <1>2, <1>4, <1>5 DEF SettledIsMarked, WaitersWait
<1>8. DeferringIsMarked'  BY <1>2, <1>3 DEF DeferringIsMarked, Skipping
<1>9. CatchUpCovers' /\ OwedIsStored'  BY <1>2 DEF CatchUpCovers, OwedIsStored, NothingUnderWay
<1> QED  BY <1>1, <1>6, <1>7, <1>8, <1>9

\* While an INSERT is in the queue nothing is owed, so it may fail.
LEMMA MarkerInsertInv ==
    ASSUME Batched, IInv, MarkerInserted \/ MarkerInsertFails PROVE IInv'
<1> USE DEF IInv, GotoAll, rebuild, catching, history
<1>1. QInv' /\ owed' \subseteq Facts
  <2>1. QInv'  BY MarkerStepsKeepQueue DEF MarkerStep, MarkerFailure
  <2> QED  BY <2>1 DEF QInv, TypeOK
<1>2. /\ queue # <<>> /\ Head(queue).kind = "insert" /\ queue' = Tail(queue)
      /\ UNCHANGED <<base, inferred, saved, gateOn, loaded, epoch, result, stage, snap,
                     catchup, started, previous, owed, racing>>
  BY DEF MarkerInserted, MarkerInsertFails
<1>3. /\ Tail(queue) = <<>> /\ 1 \in Inserts /\ Head(queue) = queue[1]
      /\ stage["catchup"] # "deleting"
  BY <1>2, InsertIsAlone
<1>4. loaded /\ since # 0 /\ since = Head(queue).since  BY <1>2, <1>3 DEF QueueShape
<1>5. owed = {} /\ \A f \in Facts : pc[f] # "skip"  BY <1>2 DEF DeferringIsMarked, Skipping
<1>6. queue' = <<>> /\ Inserts' = {}  BY <1>2, <1>3 DEF Inserts
<1>7. \A f \in Facts : pc[f] = "touch" => pc'[f] = "touch"
  <2> SUFFICES ASSUME NEW f \in Facts, pc[f] = "touch" PROVE pc'[f] = "touch"  OBVIOUS
  <2> USE DEF MarkerInserted, MarkerInsertFails, QInv, TypeOK
  <2>1. CASE f \notin Head(queue).waiters  BY <2>1
  <2>2. CASE f \in Head(queue).waiters  BY <1>3, <2>2 DEF WaitersWait
  <2> QED  BY <2>1, <2>2
<1>8. QueueShape' /\ WaitersWait'
  BY <1>2, <1>3, <1>4, <1>6 DEF QueueShape, WaitersWait
<1>9. OwedIsStored'  BY <1>2 DEF OwedIsStored
<1>10. CatchUpCovers'
  <2>1. ~NothingUnderWay  BY <1>2 DEF NothingUnderWay
  <2>2. epoch' \in Nat /\ epoch <= epoch'  BY <1>2 DEF QInv, TypeOK
  <2> QED  BY <1>1, <1>2, <1>7, <2>1, <2>2, CoverKept DEF QInv
<1>11. CASE MarkerInserted
  <2>1. marked' /\ since' = since /\ persist' \in {"settled", persist}
    BY <1>11 DEF MarkerInserted, NewestSettles
  <2>2. SettledIsMarked'  BY <1>2, <1>3, <2>1 DEF SettledIsMarked
  <2>3. DeferringIsMarked'  BY <1>2, <1>4, <1>6, <2>1 DEF DeferringIsMarked
  <2> QED  BY <1>1, <1>8, <1>9, <1>10, <2>2, <2>3
<1>12. CASE MarkerInsertFails
  <2>1. since' = 0  BY <1>4, <1>12 DEF MarkerInsertFails
  <2>2. SettledIsMarked'  BY <1>2, <1>3, <2>1 DEF SettledIsMarked
  <2>3. \A f \in Facts : ~Skipping(f)'
    BY <1>5, <1>12 DEF MarkerInsertFails, Skipping
  <2>4. DeferringIsMarked'  BY <1>2, <1>5, <2>3 DEF DeferringIsMarked
  <2> QED  BY <1>1, <1>8, <1>9, <1>10, <2>2, <2>4
<1> QED  BY <1>11, <1>12

LEMMA MarkerDeleteInv ==
    ASSUME Batched, IInv, MarkerDeleted \/ MarkerDeleteFails PROVE IInv'
<1> USE DEF IInv, At, rebuild, catching, history
<1>1. QInv'  BY MarkerStepsKeepQueue DEF MarkerStep, MarkerFailure
<1>2. /\ queue # <<>> /\ Head(queue).kind = "delete" /\ queue' = Tail(queue)
      /\ stage' = [stage EXCEPT !["catchup"] = "off"]
      /\ UNCHANGED <<base, inferred, saved, gateOn, loaded, epoch, persist, pc, result,
                     snap, started, previous, owed, racing>>
  BY DEF MarkerDeleted, MarkerDeleteFails
<1>3. stage'["catchup"] = "off"  BY <1>2 DEF QInv, TypeOK, Rebuilders
<1>4. /\ queue[1].kind = "delete" /\ stage["catchup"] = "deleting" /\ loaded
  BY <1>2, TailOfQueue DEF QInv, QueueShape
<1>5. owed = {} /\ \A f \in Facts : ~Skipping(f)  BY <1>2 DEF DeferringIsMarked
<1>6. \A i \in DOMAIN queue' : i + 1 \in DOMAIN queue /\ queue'[i] = queue[i + 1] /\ i \in Nat \ {0}
  BY <1>2, TailOfQueue DEF QInv
<1>7. since # 0 => since' = since
  BY DEF MarkerDeleted, MarkerDeleteFails
<1>8. QueueShape'
  <2>1. \A i \in DOMAIN queue' : queue'[i].kind # "delete"
    BY <1>6 DEF QueueShape
  <2>2. \A i \in Inserts' : i + 1 \in Inserts /\ i \in Nat  BY <1>6 DEF Inserts
  <2>3. \A i, j \in Inserts' : i = j
    <3> SUFFICES ASSUME NEW i \in Inserts', NEW j \in Inserts' PROVE i = j  OBVIOUS
    <3>1. i + 1 = j + 1 /\ i \in Nat /\ j \in Nat  BY <2>2 DEF QueueShape
    <3> QED  BY <3>1
  <2>4. \A i \in Inserts' : persist' = "queued" /\ since' # 0 /\ since' = queue'[i].since
    <3> SUFFICES ASSUME NEW i \in Inserts'
                 PROVE  persist' = "queued" /\ since' # 0 /\ since' = queue'[i].since
      OBVIOUS
    <3>1. i + 1 \in Inserts /\ queue'[i] = queue[i + 1]  BY <1>6, <2>2 DEF Inserts
    <3>2. persist = "queued" /\ since # 0 /\ since = queue[i + 1].since
      BY <3>1 DEF QueueShape
    <3> QED  BY <1>2, <1>7, <3>1, <3>2
  <2> QED  BY <1>2, <1>3, <1>4, <2>1, <2>3, <2>4 DEF QueueShape
<1>9. SettledIsMarked'
  <2>1. CASE MarkerDeleted
    <3>1. since' = since  BY <2>1 DEF MarkerDeleted
    <3> QED  BY <1>2, <1>3, <1>4, <3>1 DEF SettledIsMarked
  <2>2. CASE MarkerDeleteFails
    <3>1. marked' = marked  BY <2>2 DEF MarkerDeleteFails, Batched
    <3>2. since' = IF since = 0 THEN previous ELSE since  BY <2>2 DEF MarkerDeleteFails
    <3> QED  BY <1>2, <1>3, <1>4, <3>1, <3>2 DEF SettledIsMarked
  <2> QED  BY <2>1, <2>2
<1>10. DeferringIsMarked'  BY <1>2, <1>5 DEF DeferringIsMarked, Skipping
<1>11. CatchUpCovers'  BY <1>3 DEF CatchUpCovers
<1>12. OwedIsStored'  BY <1>2 DEF OwedIsStored
<1>13. WaitersWait'
  <2>1. \A i \in Inserts' : i + 1 \in Inserts /\ queue'[i] = queue[i + 1]
    BY <1>6 DEF Inserts
  <2> QED  BY <1>2, <2>1 DEF WaitersWait
<1> QED  BY <1>1, <1>8, <1>9, <1>10, <1>11, <1>12, <1>13

LEMMA CatchUpInv ==
    ASSUME Batched, IInv, CatchUpStarts \/ \E force \in BOOLEAN : CatchUp(force) PROVE IInv'
<1> USE DEF IInv, store, tracker, rebuild, catching, history
<1>1. QInv'  BY CatchUpKeepsQueue DEF CatchUpStep
<1>2. UNCHANGED <<base, marked, saved, loaded, since, epoch, persist, queue, pc, snap, previous, owed>>
  BY DEF CatchUpStarts, CatchUp
<1>3. \/ stage'["catchup"] = stage["catchup"] /\ started' = started
      \/ /\ stage["catchup"] = "off" /\ stage'["catchup"] = "read"
         /\ started' = epoch /\ loaded
  BY DEF CatchUpStarts, CatchUp, At, QInv, TypeOK, Rebuilders
<1>4. Inserts' = Inserts  BY <1>2 DEF Inserts
<1>5. QueueShape'  BY <1>2, <1>3, <1>4 DEF QueueShape
<1>6. WaitersWait' /\ SettledIsMarked' /\ OwedIsStored'
  BY <1>2, <1>3, <1>4 DEF WaitersWait, SettledIsMarked, OwedIsStored
<1>7. DeferringIsMarked'  BY <1>2 DEF DeferringIsMarked, Skipping
<1>8. CatchUpCovers'
  BY <1>2, <1>3 DEF CatchUpCovers, NothingUnderWay, QInv, TypeOK
<1> QED  BY <1>1, <1>5, <1>6, <1>7, <1>8

\* The marker is taken back only when nothing is owed.
LEMMA CatchUpReleasesInv == ASSUME Batched, IInv, CatchUpReleases PROVE IInv'
<1> USE DEF IInv, At, store, rebuild, catching, history
<1>1. QInv'  BY CatchUpKeepsQueue DEF CatchUpStep
<1>2. /\ stage["catchup"] = "release" /\ loaded
      /\ UNCHANGED <<base, inferred, marked, saved, gateOn, loaded, epoch, persist, pc, result,
                     snap, started, faults, owed, racing, wiped>>
  BY DEF CatchUpReleases, QueueShape
<1>3. OwedIsStored'  BY <1>2 DEF OwedIsStored
<1>4. CASE epoch # started
  <2>1. UNCHANGED <<previous, since, queue>> /\ stage'["catchup"] = "off"
    BY <1>4 DEF CatchUpReleases, QInv, TypeOK, Rebuilders
  <2>2. Inserts' = Inserts  BY <2>1 DEF Inserts
  <2>3. QueueShape' /\ WaitersWait'  BY <1>2, <2>1, <2>2 DEF QueueShape, WaitersWait
  <2>4. SettledIsMarked' /\ CatchUpCovers'  BY <1>2, <2>1 DEF SettledIsMarked, CatchUpCovers
  <2>5. DeferringIsMarked'  BY <1>2, <2>1 DEF DeferringIsMarked, Skipping
  <2> QED  BY <1>1, <1>3, <2>3, <2>4, <2>5
<1>5. CASE epoch = started
  <2>1. /\ previous' = since /\ since' = 0 /\ queue' = Append(queue, [kind |-> "delete"])
        /\ stage'["catchup"] = "deleting"
    BY <1>5 DEF CatchUpReleases, QInv, TypeOK, Rebuilders
  <2>2. owed = {} /\ queue = <<>> /\ \A f \in Facts : pc[f] # "skip"
    BY <1>2, <1>5 DEF CatchUpCovers, NothingUnderWay
  <2>3. queue' = <<[kind |-> "delete"]>>  BY <2>1, <2>2
  <2>4. DOMAIN queue' = {1} /\ queue'[1] = [kind |-> "delete"]  BY <2>3
  <2>5. Inserts' = {}  BY <2>4 DEF Inserts
  <2>6. QueueShape' /\ WaitersWait'
    BY <1>2, <2>1, <2>3, <2>4, <2>5 DEF QueueShape, WaitersWait
  <2>7. SettledIsMarked'  BY <1>2, <2>1 DEF SettledIsMarked
  <2>8. DeferringIsMarked'  BY <1>2, <2>2 DEF DeferringIsMarked, Skipping
  <2>9. CatchUpCovers'  BY <1>2, <1>5, <2>1 DEF CatchUpCovers, QInv, TypeOK
  <2> QED  BY <1>1, <1>3, <2>6, <2>7, <2>8, <2>9
<1> QED  BY <1>4, <1>5

\* A rebuild leaves the tracker alone; that of the catch-up is what it counts on.
LEMMA RebuildInv ==
    ASSUME Batched, IInv, NEW w \in Rebuilders, RebuildStep(w) \/ RebuildFails(w) PROVE IInv'
<1> USE DEF IInv, At, store, tracker, rebuild, catching, history
<1>1. QInv' /\ owed' \subseteq Facts
  <2>1. QInv'  BY RebuildKeepsQueue
  <2> QED  BY <2>1 DEF QInv, TypeOK
<1>2. /\ UNCHANGED <<base, marked, saved, loaded, since, epoch, persist, queue, pc, started, previous>>
      /\ owed' \subseteq owed /\ stage[w] # "off" /\ stage[w] # "deleting"
      /\ stage'[w] # "deleting"
      /\ \A v \in Rebuilders : v # w => stage'[v] = stage[v] /\ snap'[v] = snap[v]
  BY DEF RebuildStep, RebuildRead, RebuildClear, RebuildFill, RebuildFails, QInv, TypeOK
<1>3. /\ stage'["catchup"] = "deleting" <=> stage["catchup"] = "deleting"
      /\ stage["catchup"] = "off" => stage'["catchup"] = "off"
  BY <1>2 DEF Rebuilders
<1>4. Inserts' = Inserts  BY <1>2 DEF Inserts
<1>5. QueueShape'  BY <1>2, <1>3, <1>4 DEF QueueShape
<1>6. WaitersWait' /\ SettledIsMarked'
  BY <1>2, <1>3, <1>4 DEF WaitersWait, SettledIsMarked
<1>7. OwedIsStored'  BY <1>2 DEF OwedIsStored
<1>8. DeferringIsMarked'  BY <1>2 DEF DeferringIsMarked, Skipping
<1>9. CatchUpCovers'
  <2>1. CASE w # "catchup"
    <3>1. stage'["catchup"] = stage["catchup"] /\ snap'["catchup"] = snap["catchup"]
      BY <1>2, <2>1 DEF Rebuilders
    <3> QED  BY <1>2, <3>1 DEF CatchUpCovers, NothingUnderWay
  <2>2. CASE w = "catchup" /\ RebuildFails(w)
    <3>1. stage'["catchup"] = "off"  BY <2>2 DEF RebuildFails, QInv, TypeOK
    <3> QED  BY <3>1 DEF CatchUpCovers
  <2>3. CASE w = "catchup" /\ RebuildRead(w)
    <3>1. stage'["catchup"] = "clear" /\ snap'["catchup"] = base
      BY <2>3 DEF RebuildRead, QInv, TypeOK
    <3>2. owed' \subseteq snap'["catchup"]  BY <1>2, <3>1 DEF OwedIsStored
    <3>3. started' <= epoch'  BY <1>2, <2>3 DEF CatchUpCovers
    <3> QED  BY <3>1, <3>2, <3>3 DEF CatchUpCovers
  <2>4. CASE w = "catchup" /\ RebuildClear(w)
    <3>1. /\ stage["catchup"] = "clear" /\ stage'["catchup"] = "fill" /\ Drained
          /\ owed' = owed /\ snap' = snap
      BY <2>4 DEF RebuildClear, QInv, TypeOK
    <3>2. \A f \in Facts : pc[f] \notin {"skip", "touch"}  BY <3>1 DEF Drained, Batched
    <3>3. queue = <<>>
      <4>1. Inserts = {}
        <5> SUFFICES ASSUME NEW i \in Inserts PROVE FALSE  OBVIOUS
        <5>1. queue # <<>> /\ queue[1] = Head(queue) /\ 1 \in DOMAIN queue
          <6>1. queue # <<>>  BY DEF Inserts
          <6> QED  BY <6>1, TailOfQueue DEF QInv
        <5>2. queue[1] \in Jobs  BY <5>1, LenProperties, ElementOfSeq DEF QInv, TypeOK
        <5>3. queue[1].kind # "delete"  BY <3>1, <5>1 DEF QueueShape
        <5>4. queue[1].kind = "insert" /\ queue[1].owner \in Facts  BY <5>2, <5>3 DEF Jobs
        <5> QED  BY <3>1, <5>1, <5>4 DEF Drained, Batched
      <4> QED  BY <3>1, <4>1, NoJob
    <3>4. \A f \in Facts : pc[f] # "marking"  BY <3>3 DEF QInv, WaitersAreTold
    <3>5. NothingUnderWay'  BY <1>2, <3>2, <3>3, <3>4 DEF NothingUnderWay
    <3>6. epoch = started => owed \subseteq snap["catchup"]
      BY <3>1, <3>2 DEF CatchUpCovers, QInv, TypeOK
    <3> QED  BY <1>2, <3>1, <3>5, <3>6 DEF CatchUpCovers
  <2>5. CASE w = "catchup" /\ RebuildFill(w)
    <3>1. /\ stage["catchup"] = "fill" /\ stage'["catchup"] = "release"
          /\ owed' = owed \ snap["catchup"]
      BY <2>5 DEF RebuildFill, QInv, TypeOK
    <3> QED  BY <1>2, <3>1 DEF CatchUpCovers, NothingUnderWay
  <2> QED  BY <2>1, <2>2, <2>3, <2>4, <2>5 DEF RebuildStep
<1> QED  BY <1>1, <1>5, <1>6, <1>7, <1>8, <1>9

LEMMA HostInv ==
    ASSUME Batched, IInv, SetAsyncThreshold \/ Flush \/ CrashRestart PROVE IInv'
<1> USE DEF IInv, store, tracker, rebuild, catching, history
<1>1. QInv'  BY HostKeepsQueue
<1>2. CASE SetAsyncThreshold \/ Flush
  <2>1. UNCHANGED <<base, marked, loaded, since, epoch, persist, queue, pc, stage, snap,
                    started, previous, owed>>
    BY <1>2 DEF SetAsyncThreshold, Flush
  <2>2. Inserts' = Inserts  BY <2>1 DEF Inserts
  <2>3. QueueShape' /\ WaitersWait' /\ SettledIsMarked'
    BY <2>1, <2>2 DEF QueueShape, WaitersWait, SettledIsMarked
  <2>4. DeferringIsMarked' /\ CatchUpCovers'
    BY <2>1 DEF DeferringIsMarked, CatchUpCovers, NothingUnderWay, Skipping
  <2>5. OwedIsStored'
    BY <1>2 DEF SetAsyncThreshold, Flush, OwedIsStored, DeferringIsMarked
  <2> QED  BY <1>1, <2>3, <2>4, <2>5
<1>3. CASE CrashRestart
  <2>1. /\ base' = saved.base /\ owed' = saved.owed /\ saved' = saved
        /\ marked' = saved.marked
        /\ ~loaded' /\ since' = 0 /\ persist' = "settled" /\ queue' = <<>> /\ previous' = 0
        /\ \A f \in Facts : pc'[f] = "idle"
        /\ stage'["catchup"] = "off"
    BY <1>3 DEF CrashRestart, Rebuilders
  <2>2. Inserts' = {}  BY <2>1 DEF Inserts
  <2>3. QueueShape' /\ WaitersWait' /\ SettledIsMarked' /\ CatchUpCovers'
    BY <2>1, <2>2 DEF QueueShape, WaitersWait, SettledIsMarked, CatchUpCovers
  <2>4. DeferringIsMarked'  BY <2>1 DEF DeferringIsMarked, Skipping, OwedIsStored
  <2>5. OwedIsStored'  BY <2>1 DEF OwedIsStored
  <2> QED  BY <1>1, <2>3, <2>4, <2>5
<1> QED  BY <1>2, <1>3

LEMMA DeferringInvariance == Batched => (Spec => []IInv)
<1> SUFFICES ASSUME Batched PROVE Spec => []IInv  OBVIOUS
<1>1. Init /\ QInv => IInv
  <2> SUFFICES ASSUME Init, QInv PROVE IInv  OBVIOUS
  <2>1. Inserts = {}  BY DEF Init, Inserts
  <2> QED
    BY <2>1 DEF Init, IInv, QueueShape, WaitersWait, SettledIsMarked, DeferringIsMarked,
                Skipping, CatchUpCovers, OwedIsStored, Rebuilders
<1>2. IInv /\ [Next]_vars => IInv'
  <2> SUFFICES ASSUME IInv, [Next]_vars PROVE IInv'  OBVIOUS
  <2>1. CASE UNCHANGED vars
    <3> USE <2>1 DEF IInv, vars, store, tracker, rebuild, catching, history
    <3>1. QInv'  BY QuietStep DEF QInv, TypeOK
    <3>2. Inserts' = Inserts  BY DEF Inserts
    <3> QED
      BY <3>1, <3>2 DEF QueueShape, WaitersWait, SettledIsMarked, DeferringIsMarked,
                        Skipping, CatchUpCovers, NothingUnderWay, OwedIsStored
  <2>2. CASE \E f \in Facts : StoreStep(f) \/ StoreFailure(f) \/ Retract(f)
    BY <2>2, PlainInv, MarkStaleInv DEF StoreStep, Plain
  <2>3. CASE MarkerStep \/ MarkerFailure
    BY <2>3, LoadInv, MarkerInsertInv, MarkerDeleteInv DEF MarkerStep, MarkerFailure
  <2>4. CASE CatchUpStep \/ \E force \in BOOLEAN : CatchUp(force)
    BY <2>4, CatchUpInv, CatchUpReleasesInv DEF CatchUpStep
  <2>5. CASE \E w \in Rebuilders : RebuildStep(w) \/ RebuildFails(w)  BY <2>5, RebuildInv
  <2>6. CASE SetAsyncThreshold \/ Flush \/ CrashRestart  BY <2>6, HostInv
  <2> QED  BY <2>1, <2>2, <2>3, <2>4, <2>5, <2>6 DEF Next
<1> QED  BY <1>1, <1>2, QueueInvariance, PTL DEF Spec

(* When facts are stored in batches and a DELETE of the marker that fails  *)
(* has not deleted it: however deferrals, marker updates, catch-ups,       *)
(* retractions, failures and restarts interleave, a fact whose             *)
(* materialization was skipped is never forgotten, neither by this process *)
(* nor by the next one.  An INSERT of the marker may fail before or after  *)
(* it has changed the store (ReasoningGate.ts:60-140,                      *)
(* KnowledgeEngine.ts:2431-2676).                                          *)
THEOREM DeferralsAreMarked == Batched => (Spec => []DeferredIsMarked)
<1>1. IInv => DeferredIsMarked
  BY DEF IInv, DeferringIsMarked, OwedIsStored, DeferredIsMarked
<1> QED  BY <1>1, DeferringInvariance, PTL
-----------------------------------------------------------------------------
(* What a catch-up's CLEAR removes, as long as nothing failed.             *)

\* Who comes while a catch-up runs defers, so what is in the store and was not
\* read by the catch-up is owed, or was under way when it began.
Deferring == {"idle", "mark", "marking", "skip", "touch"}
LateIsOwed ==
    /\ catchup # "off" => \A f \in Facts \ racing : pc[f] \in Deferring
    /\ stage["catchup"] = "clear" => base \ (snap["catchup"] \cup racing) \subseteq owed

\* What was wiped rests on a fact that the next catch-up has to read.
WipedIsOwed ==
    /\ \A r \in wiped : r \subseteq base /\ r \cap owed # {}
    /\ stage["catchup"] = "clear" => \A r \in wiped : r \subseteq snap["catchup"]
    /\ stage["catchup"] = "fill" => \A r \in wiped : (r \cap owed) \ snap["catchup"] # {}

WInv ==
    /\ catchup = "off" => stage["catchup"] = "off"
    /\ faults = 0 => persist # "failed" /\ LateIsOwed /\ WipedIsOwed

\* A failure, as far as a catch-up is told to stop.
LEMMA AfterFailure ==
    ASSUME TypeOK, WInv, faults' = faults + 1,
           \/ UNCHANGED <<catchup, stage>>
           \/ catchup' = catchup /\ stage'["catchup"] = stage["catchup"]
           \/ stage'["catchup"] = "off"
    PROVE  WInv'
<1>1. faults' # 0  BY DEF TypeOK
<1> QED  BY <1>1 DEF WInv

\* A step that leaves the catch-up and the facts alone.
LEMMA CatchUpUntouched ==
    ASSUME WInv, UNCHANGED <<base, stage, snap, catchup, faults, owed, racing>>,
           wiped' \subseteq wiped, persist # "failed" => persist' # "failed",
           faults = 0 /\ catchup # "off" =>
              \A f \in Facts \ racing : pc'[f] = pc[f] \/ pc'[f] \in Deferring
    PROVE  WInv'
<1>1. faults' = 0 => LateIsOwed'  BY DEF WInv, LateIsOwed
<1>2. faults' = 0 => WipedIsOwed'  BY DEF WInv, WipedIsOwed
<1> QED  BY <1>1, <1>2 DEF WInv

LEMMA StoringKeepsWiped ==
    ASSUME TypeOK, WInv, NEW f \in Facts, StoreStep(f) PROVE WInv'
<1> USE DEF Goto, store, tracker, rebuild, catching, history
<1>1. CASE Store(f)
  <2>1. \A g \in Facts : pc'[g] = pc[g] \/ (g = f /\ (catchup # "off" => pc'[g] = "mark"))
    BY <1>1 DEF Store, TypeOK
  <2> QED  BY <1>1, <2>1, CatchUpUntouched DEF Store, Deferring
<1>2. CASE Count(f) \/ Reason(f)
  <2>1. pc[f] \notin Deferring /\ \A g \in Facts : g # f => pc'[g] = pc[g]
    BY <1>2 DEF Count, Reason, TypeOK, Deferring
  <2>2. faults = 0 /\ catchup # "off" => f \in racing  BY <2>1 DEF WInv, LateIsOwed
  <2> QED  BY <1>2, <2>1, <2>2, CatchUpUntouched DEF Count, Reason
<1>3. CASE MarkStale(f)
  <2>1. /\ UNCHANGED <<base, stage, snap, catchup, faults, owed, racing, wiped>>
        /\ persist # "failed" => persist' # "failed"
        /\ \A g \in Facts : g # f => pc'[g] = pc[g]
    BY <1>3 DEF MarkStale, TypeOK
  <2>2. persist # "failed" => pc'[f] \in Deferring
    BY <1>3 DEF MarkStale, TypeOK, Deferring
  <2>3. faults = 0 => persist # "failed"  BY DEF WInv
  <2> QED  BY <2>1, <2>2, <2>3, CatchUpUntouched
<1>4. CASE InsertBase(f)
  <2>1. /\ UNCHANGED <<stage, snap, catchup, faults, persist, racing, wiped>>
        /\ base' = base \cup {f} /\ owed \subseteq owed'
        /\ \A g \in Facts : g # f => pc'[g] = pc[g]
        /\ pc[f] = "skip" => f \in owed' /\ pc'[f] = "touch"
        /\ pc[f] # "skip" => pc[f] = "insert"
    BY <1>4 DEF InsertBase, TypeOK
  <2>2. faults = 0 /\ catchup # "off" /\ pc[f] # "skip" => f \in racing
    BY <2>1 DEF WInv, LateIsOwed, Deferring
  <2>3. faults' = 0 => LateIsOwed'
    BY <2>1, <2>2 DEF WInv, LateIsOwed, Deferring
  <2>4. faults' = 0 => WipedIsOwed'
    <3> SUFFICES ASSUME faults = 0 PROVE WipedIsOwed'  BY <2>1
    <3>1. WipedIsOwed  BY DEF WInv
    <3>2. ASSUME NEW r \in wiped, NEW z, (r \cap owed) \ z # {}
          PROVE  (r \cap owed') \ z # {}
      BY <2>1, <3>2
    <3>3. \A r \in wiped : r \subseteq base' /\ r \cap owed' # {}
      <4> SUFFICES ASSUME NEW r \in wiped PROVE r \subseteq base' /\ r \cap owed' # {}
        OBVIOUS
      <4>1. r \subseteq base /\ r \cap owed # {}  BY <3>1 DEF WipedIsOwed
      <4> QED  BY <2>1, <4>1
    <3> QED  BY <2>1, <3>1, <3>2, <3>3 DEF WipedIsOwed
  <2> QED  BY <2>1, <2>3, <2>4 DEF WInv
<1>5. CASE Touch(f)
  <2>1. pc'[f] = "idle" /\ \A g \in Facts : g # f => pc'[g] = pc[g]
    BY <1>5 DEF Touch, TypeOK
  <2> QED  BY <1>5, <2>1, CatchUpUntouched DEF Touch, Deferring
<1>6. CASE InsertInferred(f)
  <2>1. pc'[f] = "idle" /\ \A g \in Facts : g # f => pc'[g] = pc[g]
    BY <1>6 DEF InsertInferred, TypeOK
  <2>2. wiped' \subseteq wiped  BY <1>6 DEF InsertInferred
  <2> QED  BY <1>6, <2>1, <2>2, CatchUpUntouched DEF InsertInferred, Deferring
<1> QED  BY <1>1, <1>2, <1>3, <1>4, <1>5, <1>6 DEF StoreStep

\* What rested on a retracted fact is no longer missed.
LEMMA RetractKeepsWiped ==
    ASSUME TypeOK, WInv, NEW f \in Facts, Retract(f) PROVE WInv'
<1> USE DEF At, catching, tracker
<1>1. /\ UNCHANGED <<snap, catchup, faults, persist, pc, racing>>
      /\ stage'["catchup"] = stage["catchup"]
      /\ base' = base \ {f} /\ owed' = owed \ {f} /\ wiped' = wiped \cap Derived(base')
  BY DEF Retract, TypeOK, Rebuilders
<1>2. \A r \in wiped' : r \in wiped /\ r \subseteq base' /\ r \cap owed' = r \cap owed
  BY <1>1 DEF Derived
<1>3. faults' = 0 => LateIsOwed'  BY <1>1 DEF WInv, LateIsOwed
<1>4. faults' = 0 => WipedIsOwed'
  <2> SUFFICES ASSUME faults = 0 PROVE WipedIsOwed'  BY <1>1
  <2>1. WipedIsOwed  BY DEF WInv
  <2>2. \A r \in wiped' : r \subseteq base' /\ r \cap owed' # {}
    BY <1>2, <2>1 DEF WipedIsOwed
  <2>3. stage'["catchup"] = "clear" => \A r \in wiped' : r \subseteq snap'["catchup"]
    BY <1>1, <1>2, <2>1 DEF WipedIsOwed
  <2>4. stage'["catchup"] = "fill" => \A r \in wiped' : (r \cap owed') \ snap'["catchup"] # {}
    BY <1>1, <1>2, <2>1 DEF WipedIsOwed
  <2> QED  BY <2>2, <2>3, <2>4 DEF WipedIsOwed
<1> QED  BY <1>1, <1>3, <1>4 DEF WInv

LEMMA MarkerKeepsWiped ==
    ASSUME TypeOK, WInv, MarkerStep PROVE WInv'
<1> USE DEF GotoAll, At, store, tracker, rebuild, catching, history
<1>1. CASE Load  BY <1>1, CatchUpUntouched DEF Load
<1>2. CASE MarkerInserted
  <2>1. \A f \in Facts : pc'[f] = pc[f] \/ pc'[f] = "skip"  BY <1>2 DEF MarkerInserted
  <2>2. persist' \in {persist, "settled"}  BY <1>2 DEF MarkerInserted, NewestSettles
  <2> QED  BY <1>2, <2>1, <2>2, CatchUpUntouched DEF MarkerInserted, Deferring
<1>3. CASE MarkerDeleted
  <2>1. /\ UNCHANGED <<base, snap, faults, persist, pc, owed, racing, wiped>>
        /\ stage'["catchup"] = "off" /\ catchup' = "off"
    BY <1>3 DEF MarkerDeleted, TypeOK, Rebuilders
  <2> QED  BY <2>1 DEF WInv, LateIsOwed, WipedIsOwed
<1> QED  BY <1>1, <1>2, <1>3 DEF MarkerStep

LEMMA CatchUpKeepsWiped ==
    ASSUME TypeOK, WInv, CatchUpStep \/ \E force \in BOOLEAN : CatchUp(force) PROVE WInv'
<1> USE DEF At, store, tracker, rebuild, catching, history
<1>1. CASE \E force \in BOOLEAN : CatchUp(force)
  <2>1. /\ UNCHANGED <<base, stage, snap, faults, persist, pc, owed, wiped>>
        /\ catchup = "off" /\ catchup' # "off"
        /\ racing' = {f \in Facts : pc[f] # "idle"}
    BY <1>1 DEF CatchUp
  <2>2. stage["catchup"] = "off"  BY <2>1 DEF WInv
  <2> QED  BY <2>1, <2>2 DEF WInv, LateIsOwed, WipedIsOwed, Deferring
<1>2. CASE CatchUpStep
  <2>1. /\ UNCHANGED <<base, snap, faults, persist, pc, owed, racing, wiped>>
        /\ catchup # "off" => stage'["catchup"] \notin {"clear", "fill"}
        /\ catchup' = catchup \/ (catchup' = "off" /\ stage'["catchup"] = "off")
        /\ stage["catchup"] # "off" \/ catchup # "off"
    BY <1>2 DEF CatchUpStep, CatchUpStarts, CatchUpReleases, TypeOK, Rebuilders
  <2> QED  BY <2>1 DEF WInv, LateIsOwed, WipedIsOwed
<1> QED  BY <1>1, <1>2

\* The CLEAR takes only what the catch-up itself puts back, what was under way
\* when it began and what rests on a fact that is owed.
LEMMA RebuildKeepsWiped ==
    ASSUME TypeOK, WInv, NEW w \in Rebuilders, RebuildStep(w) PROVE WInv'
<1> USE DEF At, store, tracker, rebuild, catching, history
<1>1. /\ UNCHANGED <<base, faults, persist, pc, catchup, racing>>
      /\ stage[w] # "off"
      /\ \A v \in Rebuilders : v # w => stage'[v] = stage[v] /\ snap'[v] = snap[v]
  BY DEF RebuildStep, RebuildRead, RebuildClear, RebuildFill, TypeOK
<1>2. CASE w # "catchup"
  <2>1. stage'["catchup"] = stage["catchup"] /\ snap'["catchup"] = snap["catchup"]
    BY <1>1, <1>2 DEF Rebuilders
  <2>2. owed' = owed /\ wiped' = wiped
    BY <1>2 DEF RebuildStep, RebuildRead, RebuildClear, RebuildFill
  <2> QED  BY <1>1, <2>1, <2>2 DEF WInv, LateIsOwed, WipedIsOwed
<1>3. CASE w = "catchup" /\ RebuildRead(w)
  <2>1. /\ stage'["catchup"] = "clear" /\ snap'["catchup"] = base
        /\ owed' = owed /\ wiped' = wiped
    BY <1>3 DEF RebuildRead, TypeOK
  <2> QED  BY <1>1, <1>3, <2>1 DEF WInv, LateIsOwed, WipedIsOwed
<1>4. CASE w = "catchup" /\ RebuildClear(w)
  <2>1. /\ stage["catchup"] = "clear" /\ stage'["catchup"] = "fill"
        /\ owed' = owed /\ snap' = snap
        /\ wiped' = (wiped \cup {r \in inferred \cap Derived(base) : r \cap racing = {}})
                       \ Derived(snap["catchup"])
    BY <1>4 DEF RebuildClear, TypeOK
  <2>2. ASSUME faults = 0 PROVE LateIsOwed' /\ WipedIsOwed'
    <3>1. /\ base \ (snap["catchup"] \cup racing) \subseteq owed
          /\ \A r \in wiped : r \subseteq snap["catchup"]
      BY <2>1, <2>2 DEF WInv, LateIsOwed, WipedIsOwed
    <3>2. \A r \in wiped' : r \subseteq base /\ (r \cap owed) \ snap["catchup"] # {}
      <4> SUFFICES ASSUME NEW r \in wiped'
                   PROVE  r \subseteq base /\ (r \cap owed) \ snap["catchup"] # {}
        OBVIOUS
      <4>1. r \in Rules /\ r \notin Derived(snap["catchup"])
        BY <2>1 DEF TypeOK, Derived
      <4>2. ~(r \subseteq snap["catchup"])  BY <4>1 DEF Derived
      <4>3. r \in Derived(base) /\ r \cap racing = {}  BY <2>1, <3>1, <4>2
      <4>4. r \subseteq base  BY <4>3 DEF Derived
      <4>5. PICK g \in r : g \notin snap["catchup"]  BY <4>2
      <4>6. g \in owed  BY <3>1, <4>3, <4>4, <4>5
      <4> QED  BY <4>4, <4>5, <4>6
    <3>3. LateIsOwed'  BY <1>1, <2>1, <2>2 DEF WInv, LateIsOwed
    <3>4. \A r \in wiped' : r \cap owed # {}
      <4> SUFFICES ASSUME NEW r \in wiped' PROVE r \cap owed # {}  OBVIOUS
      <4>1. (r \cap owed) \ snap["catchup"] # {}  BY <3>2
      <4> QED  BY <4>1
    <3>5. WipedIsOwed'  BY <1>1, <2>1, <3>2, <3>4 DEF WipedIsOwed
    <3> QED  BY <3>3, <3>5
  <2> QED  BY <1>1, <1>4, <2>1, <2>2 DEF WInv
<1>5. CASE w = "catchup" /\ RebuildFill(w)
  <2>1. /\ stage["catchup"] = "fill" /\ stage'["catchup"] = "release"
        /\ owed' = owed \ snap["catchup"] /\ wiped' = wiped
    BY <1>5 DEF RebuildFill, TypeOK
  <2>2. ASSUME faults = 0 PROVE \A r \in wiped : r \cap owed' # {}
    <3> SUFFICES ASSUME NEW r \in wiped PROVE r \cap owed' # {}  OBVIOUS
    <3>1. (r \cap owed) \ snap["catchup"] # {}  BY <2>1, <2>2 DEF WInv, WipedIsOwed
    <3> QED  BY <2>1, <3>1
  <2> QED  BY <1>1, <1>5, <2>1, <2>2 DEF WInv, LateIsOwed, WipedIsOwed
<1> QED  BY <1>2, <1>3, <1>4, <1>5 DEF RebuildStep

LEMMA FailuresKeepWiped ==
    ASSUME TypeOK, WInv,
           \/ \E f \in Facts : StoreFailure(f)
           \/ MarkerFailure
           \/ \E w \in Rebuilders : RebuildFails(w)
           \/ CrashRestart
    PROVE  WInv'
<1> USE DEF At, store, tracker, rebuild, catching, history
<1>1. CASE \E f \in Facts : StoreFailure(f)
  BY <1>1, AfterFailure DEF StoreFailure, DeferFails, ReasonFails, InsertFails
<1>2. CASE MarkerFailure
  <2>1. CASE MarkerInsertFails  BY <2>1, AfterFailure DEF MarkerInsertFails
  <2>2. CASE MarkerDeleteFails
    <3>1. stage'["catchup"] = "off" /\ faults' = faults + 1
      BY <2>2 DEF MarkerDeleteFails, TypeOK, Rebuilders
    <3> QED  BY <3>1, AfterFailure
  <2> QED  BY <1>2, <2>1, <2>2 DEF MarkerFailure
<1>3. ASSUME NEW w \in Rebuilders, RebuildFails(w) PROVE WInv'
  <2>1. /\ faults' = faults + 1 /\ stage' = [stage EXCEPT ![w] = "off"]
        /\ w = "catchup" \/ catchup' = catchup
    BY <1>3 DEF RebuildFails
  <2>2. stage'["catchup"] = "off" \/ (catchup' = catchup /\ stage'["catchup"] = stage["catchup"])
    BY <2>1 DEF TypeOK, Rebuilders
  <2> QED  BY <2>1, <2>2, AfterFailure
<1>4. CASE CrashRestart
  <2>1. stage'["catchup"] = "off" /\ faults' = faults + 1
    BY <1>4 DEF CrashRestart, Rebuilders
  <2> QED  BY <2>1, AfterFailure
<1> QED  BY <1>1, <1>2, <1>3, <1>4

LEMMA WipedInvariance == Spec => [](TypeOK /\ WInv)
<1>1. Init => WInv
  BY DEF Init, WInv, LateIsOwed, WipedIsOwed, Rebuilders
<1>2. TypeOK /\ WInv /\ [Next]_vars => WInv'
  <2> SUFFICES ASSUME TypeOK, WInv, [Next]_vars PROVE WInv'  OBVIOUS
  <2>1. CASE UNCHANGED vars \/ SetAsyncThreshold \/ Flush
    BY <2>1, CatchUpUntouched
       DEF vars, SetAsyncThreshold, Flush, store, tracker, rebuild, catching, history
  <2>2. CASE \E f \in Facts : StoreStep(f) \/ Retract(f)
    BY <2>2, StoringKeepsWiped, RetractKeepsWiped
  <2>3. CASE MarkerStep  BY <2>3, MarkerKeepsWiped
  <2>4. CASE CatchUpStep \/ \E force \in BOOLEAN : CatchUp(force)
    BY <2>4, CatchUpKeepsWiped
  <2>5. CASE \E w \in Rebuilders : RebuildStep(w)  BY <2>5, RebuildKeepsWiped
  <2>6. CASE \/ \E f \in Facts : StoreFailure(f)
             \/ MarkerFailure
             \/ \E w \in Rebuilders : RebuildFails(w)
             \/ CrashRestart
    BY <2>6, FailuresKeepWiped
  <2> QED  BY <2>1, <2>2, <2>3, <2>4, <2>5, <2>6 DEF Next
<1> QED  BY <1>1, <1>2, TypeCorrect, PTL DEF Spec

(* Facts stored in batches: as long as nothing has failed, what the CLEAR  *)
(* of a catch-up removed from the inferred graph, though it holds, rests   *)
(* on a fact that is still owed, so once the tracker reports the graph as  *)
(* current nothing is missing but what had begun to be stored before the   *)
(* catch-up (KnowledgeEngine.ts:2549-2676, ReasoningGate.ts:60-140).       *)
THEOREM NothingIsWiped == Batched => (Spec => []NoDerivationWiped)
<1>1. IInv /\ TypeOK /\ WInv => NoDerivationWiped
  <2> SUFFICES ASSUME IInv, WInv, faults = 0, loaded, since = 0 PROVE wiped = {}
    BY DEF NoDerivationWiped
  <2>1. owed = {}  BY DEF IInv, DeferringIsMarked
  <2>2. \A r \in wiped : r \cap owed # {}  BY DEF WInv, WipedIsOwed
  <2> QED  BY <2>1, <2>2
<1> QED  BY <1>1, DeferringInvariance, WipedInvariance, PTL
-----------------------------------------------------------------------------
(* What is left of a retracted fact.                                       *)

\* Whoever has read a fact that is gone is known to have.
KnownToOutlive ==
    /\ \A f \in Facts : \A r \in result[f] :
        /\ r \subseteq base \cup outlived \cup {f}
        /\ pc[f] = "derive" => r \subseteq base \cup outlived
    /\ \A w \in Rebuilders : snap[w] \subseteq base \cup outlived

OInv == KnownToOutlive /\ NoInferenceOutlives

LEMMA ReadIsHeld ==
    ASSUME TypeOK
    PROVE  /\ \A f \in Facts : \A r \in result[f] : r \subseteq Held
           /\ \A w \in Rebuilders : snap[w] \subseteq Held
<1>1. \A f \in Facts : \A r \in result[f] : r \subseteq Facts
  BY GateAssumption DEF TypeOK, GateAssumption
<1> QED  BY <1>1 DEF Held, TypeOK

\* A step that reads and writes no fact.
LEMMA NothingReadOrWritten ==
    ASSUME OInv, UNCHANGED <<base, inferred, result, snap, outlived>>,
           stage'["retract"] = stage["retract"],
           \A f \in Facts : pc'[f] = "derive" => pc[f] = "derive"
    PROVE  OInv'
BY DEF OInv, KnownToOutlive, NoInferenceOutlives

LEMMA StoringKnows == ASSUME TypeOK, OInv, NEW f \in Facts, StoreStep(f) \/ StoreFailure(f) PROVE OInv'
<1> USE DEF Goto, store, tracker, rebuild, catching, history
<1>1. CASE Store(f) \/ Count(f) \/ MarkStale(f) \/ Touch(f) \/ DeferFails(f) \/ ReasonFails(f)
  <2>1. /\ UNCHANGED <<base, inferred, result, snap, stage, outlived>>
        /\ \A g \in Facts : pc'[g] = "derive" => pc[g] = "derive"
    BY <1>1 DEF Store, Count, MarkStale, Touch, DeferFails, ReasonFails, TypeOK
  <2> QED  BY <2>1, NothingReadOrWritten
<1>2. CASE Reason(f)
  <2>1. /\ UNCHANGED <<base, inferred, stage, snap, outlived>>
        /\ \A r \in result'[f] : r \subseteq base \cup {f}
        /\ pc'[f] = "insert"
        /\ \A g \in Facts : g # f => result'[g] = result[g] /\ pc'[g] = pc[g]
    BY <1>2 DEF Reason, Derived, TypeOK
  <2>2. KnownToOutlive'  BY <2>1 DEF OInv, KnownToOutlive
  <2>3. NoInferenceOutlives'  BY <2>1 DEF OInv, NoInferenceOutlives
  <2> QED  BY <2>2, <2>3 DEF OInv
<1>3. CASE InsertBase(f)
  <2>1. /\ UNCHANGED <<inferred, stage, snap, result>>
        /\ base' = base \cup {f} /\ outlived' = outlived \ {f}
        /\ \A g \in Facts : g # f => pc'[g] = pc[g]
    BY <1>3 DEF InsertBase, TypeOK
  <2>2. base' \cup outlived' = base \cup outlived \cup {f}  BY <2>1
  <2>3. KnownToOutlive'
    <3>1. ASSUME NEW g \in Facts, NEW r \in result'[g]
          PROVE  /\ r \subseteq base' \cup outlived' \cup {g}
                 /\ pc'[g] = "derive" => r \subseteq base' \cup outlived'
      <4>1. /\ r \subseteq base \cup outlived \cup {g}
            /\ pc[g] = "derive" => r \subseteq base \cup outlived
        BY <2>1, <3>1 DEF OInv, KnownToOutlive
      <4> QED  BY <2>1, <2>2, <4>1
    <3>2. \A w \in Rebuilders : snap'[w] \subseteq base' \cup outlived'
      BY <2>1, <2>2 DEF OInv, KnownToOutlive
    <3> QED  BY <3>1, <3>2 DEF KnownToOutlive
  <2>4. NoInferenceOutlives'  BY <2>1, <2>2 DEF OInv, NoInferenceOutlives
  <2> QED  BY <2>3, <2>4 DEF OInv
<1>4. CASE InsertInferred(f)
  <2>1. /\ UNCHANGED <<base, stage, snap, outlived>>
        /\ pc[f] = "derive" /\ inferred' = inferred \cup result[f]
        /\ result'[f] = {}
        /\ \A g \in Facts : g # f => result'[g] = result[g] /\ pc'[g] = pc[g]
    BY <1>4 DEF InsertInferred, TypeOK
  <2>2. KnownToOutlive'  BY <2>1 DEF OInv, KnownToOutlive
  <2>3. NoInferenceOutlives'  BY <2>1 DEF OInv, KnownToOutlive, NoInferenceOutlives
  <2> QED  BY <2>2, <2>3 DEF OInv
<1>5. CASE InsertFails(f)
  <2>1. /\ UNCHANGED <<inferred, stage, snap>>
        /\ base \cup outlived \subseteq base' \cup outlived'
        /\ result'[f] = {}
        /\ \A g \in Facts : g # f => result'[g] = result[g] /\ pc'[g] = pc[g]
    BY <1>5 DEF InsertFails, TypeOK
  <2>2. ASSUME NEW g \in Facts, NEW r \in result'[g]
        PROVE  /\ r \subseteq base' \cup outlived' \cup {g}
               /\ pc'[g] = "derive" => r \subseteq base' \cup outlived'
    <3>1. g # f /\ r \in result[g] /\ pc'[g] = pc[g]  BY <2>1, <2>2
    <3>2. /\ r \subseteq base \cup outlived \cup {g}
          /\ pc[g] = "derive" => r \subseteq base \cup outlived
      BY <3>1 DEF OInv, KnownToOutlive
    <3> QED  BY <2>1, <3>1, <3>2
  <2>3. KnownToOutlive'  BY <2>1, <2>2 DEF OInv, KnownToOutlive
  <2>4. NoInferenceOutlives'  BY <2>1 DEF OInv, NoInferenceOutlives
  <2> QED  BY <2>3, <2>4 DEF OInv
<1> QED  BY <1>1, <1>2, <1>3, <1>4, <1>5 DEF StoreStep, StoreFailure

\* The retracted fact is excused if somebody holds it.
LEMMA RetractKnows == ASSUME TypeOK, OInv, NEW f \in Facts, Retract(f) PROVE OInv'
<1> USE DEF At, rebuild, catching, history
<1>1. /\ base' = base \ {f} /\ outlived' = outlived \cup ({f} \cap Held)
      /\ UNCHANGED <<pc, result, snap>> /\ stage'["retract"] = "read"
  BY DEF Retract, TypeOK, Rebuilders
<1>2. \A x \in Held : x \in base \cup outlived => x \in base' \cup outlived'  BY <1>1
<1>3. \A g \in Facts : \A r \in result[g] : r \subseteq Held  BY ReadIsHeld
<1>4. \A w \in Rebuilders : snap[w] \subseteq Held  BY ReadIsHeld
<1>5. ASSUME NEW g \in Facts, NEW r \in result'[g]
      PROVE  /\ r \subseteq base' \cup outlived' \cup {g}
             /\ pc'[g] = "derive" => r \subseteq base' \cup outlived'
  <2>1. /\ r \subseteq base \cup outlived \cup {g}
        /\ pc[g] = "derive" => r \subseteq base \cup outlived
        /\ r \subseteq Held
    BY <1>1, <1>3, <1>5 DEF OInv, KnownToOutlive
  <2> QED  BY <1>1, <1>2, <2>1
<1>6. \A w \in Rebuilders : snap'[w] \subseteq base' \cup outlived'
  BY <1>1, <1>2, <1>4 DEF OInv, KnownToOutlive
<1>7. NoInferenceOutlives'  BY <1>1 DEF NoInferenceOutlives
<1> QED  BY <1>5, <1>6, <1>7 DEF OInv, KnownToOutlive

LEMMA RebuildKnows ==
    ASSUME TypeOK, OInv, NEW w \in Rebuilders, RebuildStep(w) \/ RebuildFails(w) PROVE OInv'
<1> USE DEF At, store, tracker, rebuild, catching, history
<1>1. CASE RebuildRead(w)
  <2>1. /\ UNCHANGED <<base, inferred, pc, result, outlived>>
        /\ snap' = [snap EXCEPT ![w] = base]
        /\ stage'["retract"] \notin {"read", "clear"} => stage'["retract"] = stage["retract"]
    BY <1>1 DEF RebuildRead, TypeOK, Rebuilders
  <2>2. \A v \in Rebuilders : snap'[v] \in {snap[v], base}  BY <2>1 DEF TypeOK
  <2>3. KnownToOutlive'  BY <2>1, <2>2 DEF OInv, KnownToOutlive
  <2>4. NoInferenceOutlives'  BY <2>1 DEF OInv, NoInferenceOutlives
  <2> QED  BY <2>3, <2>4 DEF OInv
<1>2. CASE RebuildClear(w)
  <2>1. /\ UNCHANGED <<base, pc, result, snap>>
        /\ inferred' = {} /\ outlived' = outlived \cap Held
    BY <1>2 DEF RebuildClear
  <2>2. \A x \in Held : x \in base \cup outlived => x \in base' \cup outlived'  BY <2>1
  <2>3. \A g \in Facts : \A r \in result[g] : r \subseteq Held  BY ReadIsHeld
  <2>4. \A v \in Rebuilders : snap[v] \subseteq Held  BY ReadIsHeld
  <2>5. ASSUME NEW g \in Facts, NEW r \in result'[g]
        PROVE  /\ r \subseteq base' \cup outlived' \cup {g}
               /\ pc'[g] = "derive" => r \subseteq base' \cup outlived'
    <3>1. /\ r \subseteq base \cup outlived \cup {g}
          /\ pc[g] = "derive" => r \subseteq base \cup outlived
          /\ r \subseteq Held
      BY <2>1, <2>3, <2>5 DEF OInv, KnownToOutlive
    <3> QED  BY <2>1, <2>2, <3>1
  <2>6. \A v \in Rebuilders : snap'[v] \subseteq base' \cup outlived'
    BY <2>1, <2>2, <2>4 DEF OInv, KnownToOutlive
  <2>7. NoInferenceOutlives'  BY <2>1 DEF NoInferenceOutlives
  <2> QED  BY <2>5, <2>6, <2>7 DEF OInv, KnownToOutlive
<1>3. CASE RebuildFill(w)
  <2>1. /\ UNCHANGED <<base, pc, result, outlived>>
        /\ inferred' = inferred \cup Derived(snap[w])
        /\ \A v \in Rebuilders : snap'[v] \in {snap[v], {}}
        /\ stage["retract"] \in {"read", "clear"} => stage'["retract"] = stage["retract"]
    BY <1>3 DEF RebuildFill, TypeOK, Rebuilders
  <2>2. \A r \in Derived(snap[w]) : r \subseteq base \cup outlived
    BY DEF OInv, KnownToOutlive, Derived
  <2>3. KnownToOutlive'  BY <2>1 DEF OInv, KnownToOutlive
  <2>4. NoInferenceOutlives'  BY <2>1, <2>2 DEF OInv, NoInferenceOutlives
  <2> QED  BY <2>3, <2>4 DEF OInv
<1>4. CASE RebuildFails(w)
  <2>1. /\ UNCHANGED <<base, pc, result>> /\ outlived \subseteq outlived'
        /\ \A v \in Rebuilders : snap'[v] \in {snap[v], {}}
    BY <1>4 DEF RebuildFails, TypeOK
  <2>2. KnownToOutlive'
    <3>1. base \cup outlived \subseteq base' \cup outlived'  BY <2>1
    <3>2. ASSUME NEW g \in Facts, NEW r \in result'[g]
          PROVE  /\ r \subseteq base' \cup outlived' \cup {g}
                 /\ pc'[g] = "derive" => r \subseteq base' \cup outlived'
      <4>1. /\ r \subseteq base \cup outlived \cup {g}
            /\ pc[g] = "derive" => r \subseteq base \cup outlived
        BY <2>1, <3>2 DEF OInv, KnownToOutlive
      <4> QED  BY <2>1, <3>1, <4>1
    <3>3. \A v \in Rebuilders : snap'[v] \subseteq base' \cup outlived'
      BY <2>1, <3>1 DEF OInv, KnownToOutlive
    <3> QED  BY <3>2, <3>3 DEF KnownToOutlive
  <2>3. CASE w = "catchup"
    <3>1. UNCHANGED <<inferred, outlived>> /\ stage'["retract"] = stage["retract"]
      BY <1>4, <2>3 DEF RebuildFails, TypeOK, Rebuilders
    <3>2. NoInferenceOutlives'  BY <2>1, <3>1 DEF OInv, NoInferenceOutlives
    <3> QED  BY <2>2, <3>2 DEF OInv
  <2>4. CASE w # "catchup"
    <3>1. outlived' = outlived \cup Missing(inferred', base)
      BY <1>4, <2>4 DEF RebuildFails
    <3>2. \A r \in inferred' : r \subseteq Facts
      BY <1>4, GateAssumption DEF RebuildFails, TypeOK, GateAssumption
    <3>3. NoInferenceOutlives'  BY <2>1, <3>1, <3>2 DEF NoInferenceOutlives, Missing
    <3> QED  BY <2>2, <3>3 DEF OInv
  <2> QED  BY <2>3, <2>4
<1> QED  BY <1>1, <1>2, <1>3, <1>4 DEF RebuildStep

LEMMA OutlivedInvariance == Spec => []OInv
<1>1. Init => OInv
  BY DEF Init, OInv, KnownToOutlive, NoInferenceOutlives
<1>2. TypeOK /\ OInv /\ [Next]_vars => OInv'
  <2> SUFFICES ASSUME TypeOK, OInv, [Next]_vars PROVE OInv'  OBVIOUS
  <2>1. CASE \E f \in Facts : StoreStep(f) \/ StoreFailure(f) \/ Retract(f)
    BY <2>1, StoringKnows, RetractKnows
  <2>2. CASE \E w \in Rebuilders : RebuildStep(w) \/ RebuildFails(w)  BY <2>2, RebuildKnows
  <2>3. CASE \/ MarkerStep \/ MarkerFailure
             \/ \E force \in BOOLEAN : CatchUp(force)
             \/ CatchUpStep \/ SetAsyncThreshold \/ Flush \/ UNCHANGED vars
    <3> USE DEF At, GotoAll, store, tracker, rebuild, catching, history
    <3>1. UNCHANGED <<base, inferred, result, snap, outlived>>
      BY <2>3 DEF MarkerStep, MarkerFailure, Load, MarkerInserted, MarkerDeleted,
                  MarkerInsertFails, MarkerDeleteFails, CatchUp, CatchUpStep, CatchUpStarts,
                  CatchUpReleases, SetAsyncThreshold, Flush, vars
    <3>2. stage'["retract"] = stage["retract"]
      BY <2>3 DEF MarkerStep, MarkerFailure, Load, MarkerInserted, MarkerDeleted,
                  MarkerInsertFails, MarkerDeleteFails, CatchUp, CatchUpStep, CatchUpStarts,
                  CatchUpReleases, SetAsyncThreshold, Flush, vars, TypeOK, Rebuilders
    <3>3. \A f \in Facts : pc'[f] = "derive" => pc[f] = "derive"
      BY <2>3 DEF MarkerStep, MarkerFailure, Load, MarkerInserted, MarkerDeleted,
                  MarkerInsertFails, MarkerDeleteFails, CatchUp, CatchUpStep, CatchUpStarts,
                  CatchUpReleases, SetAsyncThreshold, Flush, vars
    <3> QED  BY <3>1, <3>2, <3>3, NothingReadOrWritten
  <2>4. CASE CrashRestart
    <3>1. /\ outlived' = Missing(inferred', base')
          /\ \A f \in Facts : result'[f] = {}
          /\ \A w \in Rebuilders : snap'[w] = {}
      BY <2>4 DEF CrashRestart
    <3>2. \A r \in inferred' : r \subseteq Facts
      BY <2>4, GateAssumption DEF CrashRestart, TypeOK, GateAssumption
    <3>3. NoInferenceOutlives'  BY <3>1, <3>2 DEF NoInferenceOutlives, Missing
    <3> QED  BY <3>1, <3>3 DEF OInv, KnownToOutlive
  <2> QED  BY <2>1, <2>2, <2>3, <2>4 DEF Next
<1> QED  BY <1>1, <1>2, TypeCorrect, PTL DEF Spec

(* Once a retraction has rebuilt the inferred graph, the graph holds no    *)
(* inference of a fact that is gone, however the retraction overlaps with  *)
(* catch-ups and materializations: but for facts that one of them had read *)
(* before they went, and for rebuilds that failed or were cut off          *)
(* (memory_retract.ts:145-160, KnowledgeEngine.ts:1510-1555).              *)
THEOREM RetractionsAreClean == Spec => []NoInferenceOutlives
<1>1. OInv => NoInferenceOutlives  BY DEF OInv
<1> QED  BY <1>1, OutlivedInvariance, PTL

=============================================================================
