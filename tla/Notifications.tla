---------------------------- MODULE Notifications ----------------------------
(***************************************************************************)
(* NotificationService: messages to the owner under a daily cap and quiet  *)
(* hours, with the digest of those held back.                              *)
(*                                                                         *)
(* Deliveries run one after the other on notifyChain; a turn of the owner  *)
(* drains the digest beside them, and so does the rescue of a message      *)
(* whose delivery threw (notify), which queues it off the chain.  Stamps   *)
(* and digest are triples and outlive the process.  A stamp and a digest   *)
(* item are told apart by the message: their times are distinct, those of  *)
(* the model are not.  The episode that records each decision cannot fail  *)
(* the delivery and is left out.  notify() has no caller at this commit;   *)
(* the tool notify_owner calls deliver().  A write that is reported as     *)
(* failed may have taken effect: the file-backed adapter changes its       *)
(* memory before the disk refuses.  That a crash may undo such a write is  *)
(* left out: nobody has built on it.                                       *)
(***************************************************************************)
EXTENDS Integers, Sequences, FiniteSets, SequencesExt

CONSTANTS
    Messages,     \* bound: messages to the owner
    Quiet,        \* quiet hours
    MaxPerDay,
    Day,          \* the window of the cap
    QueueMax,     \* DIGEST_QUEUE_MAX
    Drains,       \* bound: turns of the owner, which drain the digest
    MaxTime,      \* bound: the clock
    MaxMishaps    \* bound: failed writes and reads, and crashes

ASSUME ConstantsAssumption ==
    /\ Quiet \subseteq Nat
    /\ {Messages, Drains, MaxPerDay, Day, MaxTime, MaxMishaps} \subseteq Nat /\ QueueMax \in Nat \ {0}

VARIABLES
    now,
    stage,    \* where each message is
    at,       \* the time its delivery read (0 when it no longer matters)
    excess,   \* the digest items it is about to prune
    chain,    \* notifyChain: the deliveries not yet settled
    stamps,   \* store: the messages whose sending is recorded, with the time
    digest,   \* store: the items held back
    drain,    \* the drains: what each has read
    mishaps,
    sent,     \* history: the messages sent, in order, with the time of the decision
    unstamped, \* history: of these, those whose stamp was never written
    queued,   \* history: the items ever put into the digest
    shown,    \* history: the items a drain handed to its turn, with the drain
    unseen,   \* history: the items a failing drain deleted all the same
    overlap,  \* history: pairs of drains that ran at the same time
    gaveUp    \* history: messages that could not be rescued

store   == <<stamps, digest>>
history == <<sent, unstamped, queued, shown, unseen, overlap, gaveUp>>
vars    == <<now, stage, at, excess, chain, store, drain, mishaps, history>>

Message == 1..Messages
Drain   == 1..Drains
Item   == [msg : Message, reason : {"held", "error"}, ts : 0..MaxTime]
Ended  == {"idle", "done", "failed", "lost"}
Stages == Ended \cup {"queued", "send", "stamp", "hold", "trim", "drop"}

\* The types, and: what is on the chain is under way.
TypeOK ==
    /\ now \in 0..MaxTime /\ mishaps \in 0..MaxMishaps
    /\ stage \in [Message -> Stages] /\ at \in [Message -> 0..MaxTime]
    /\ \A m \in Message : excess[m] \subseteq Item
    /\ stamps \subseteq Message \X (0..MaxTime) /\ digest \subseteq Item
    /\ \A d \in Drain : drain[d].stage \in {"none", "read", "over"} /\ drain[d].items \subseteq Item
    /\ IsInjective(chain) /\ \A m \in ToSet(chain) : stage[m] \notin Ended

Init ==
    /\ now = 0 /\ mishaps = 0
    /\ stage = [m \in Message |-> "idle"] /\ at = [m \in Message |-> 0]
    /\ excess = [m \in Message |-> {}]
    /\ chain = <<>> /\ stamps = {} /\ digest = {}
    /\ drain = [d \in Drain |-> [stage |-> "none", items |-> {}]]
    /\ sent = <<>> /\ unstamped = {} /\ queued = {} /\ shown = {} /\ unseen = {} /\ overlap = {} /\ gaveUp = {}

Tick == /\ now < MaxTime /\ now' = now + 1
        /\ UNCHANGED <<stage, at, excess, chain, store, drain, mishaps, history>>

Go(m, from, to) == stage[m] = from /\ stage' = [stage EXCEPT ![m] = to]

\* Off the chain, a message is being rescued.
Chained(m) == m \in ToSet(chain)

-----------------------------------------------------------------------------
(* A delivery *)

\* runExclusive: its turn comes when those before it have settled.
UpAtOnce(m) == Chained(m)
Up(m)       == chain # <<>> /\ Head(chain) = m

\* What settles is the head of the chain and passes it on, also when it threw;
\* a rescue is not on it.
PassedOn(m) == IF Chained(m) THEN Tail(chain) ELSE chain

Notify(m) ==
    /\ \A k \in 1..m - 1 : stage[k] # "idle"
    /\ Go(m, "idle", "queued") /\ chain' = Append(chain, m)
    /\ UNCHANGED <<now, at, excess, store, drain, mishaps, history>>

\* The clock is read; the cap, the quiet hours, and whether there are a target
\* and a channel.  Only the chain writes stamps, so these reads are one step.
Recent(t) == {s \in stamps : s[2] >= t - Day}
MaySend(urgent) == /\ Cardinality(Recent(now)) < MaxPerDay
                   /\ now \in Quiet => urgent
Decide(m) == \E reachable, urgent \in BOOLEAN :
    /\ Up(m) /\ Go(m, "queued", IF reachable /\ MaySend(urgent) THEN "send" ELSE "hold")
    /\ at' = [at EXCEPT ![m] = now]
    /\ UNCHANGED <<now, excess, chain, store, drain, mishaps, history>>

Send(m) ==
    /\ Go(m, "send", "stamp") /\ sent' = Append(sent, <<m, at[m]>>)
    /\ UNCHANGED <<now, at, excess, chain, store, drain, mishaps, unstamped, queued, shown, unseen, overlap, gaveUp>>

SendFails(m) ==
    /\ Go(m, "send", "hold")
    /\ UNCHANGED <<now, at, excess, chain, store, drain, mishaps, history>>

\* recordSend: the stamps older than a day go, then the new one comes; nobody
\* can tell a failure between the two updates from one before them.
Record(m) == stamps' = Recent(at[m]) \cup {<<m, at[m]>>}
Stamp(m) ==
    /\ Go(m, "stamp", "done") /\ Record(m)
    /\ chain' = PassedOn(m) /\ at' = [at EXCEPT ![m] = 0]
    /\ UNCHANGED <<now, excess, digest, drain, mishaps, history>>

\* queueDigest: the item is inserted, ...
ItemOf(m)  == [msg |-> m, reason |-> IF Chained(m) THEN "held" ELSE "error", ts |-> at[m]]
Enqueue(m) == digest' = digest \cup {ItemOf(m)} /\ queued' = queued \cup {ItemOf(m)}
Hold(m) ==
    /\ Go(m, "hold", "trim") /\ Enqueue(m) /\ at' = [at EXCEPT ![m] = 0]
    /\ UNCHANGED <<now, excess, chain, stamps, drain, mishaps, sent, unstamped, shown, unseen, overlap, gaveUp>>

\* ... and the oldest ones beyond the bound are looked up ...
Oldest(items, n) ==
    {old \in SUBSET items : Cardinality(old) = n /\ \A i \in old, j \in items \ old : i.ts <= j.ts}
Trim(m) ==
    /\ stage[m] = "trim"
    /\ IF Cardinality(digest) <= QueueMax
       THEN /\ stage' = [stage EXCEPT ![m] = "done"] /\ chain' = PassedOn(m)
            /\ UNCHANGED excess
       ELSE /\ stage' = [stage EXCEPT ![m] = "drop"]
            /\ \E old \in Oldest(digest, Cardinality(digest) - QueueMax) : excess' = [excess EXCEPT ![m] = old]
            /\ UNCHANGED chain
    /\ UNCHANGED <<now, at, store, drain, mishaps, history>>

\* ... and deleted.
Prune(m) == digest' = digest \ excess[m]
Drop(m) ==
    /\ Go(m, "drop", "done") /\ Prune(m)
    /\ excess' = [excess EXCEPT ![m] = {}] /\ chain' = PassedOn(m)
    /\ UNCHANGED <<now, at, stamps, drain, mishaps, history>>

\* What a write that fails may have done to the store.
Half(m) ==
    \/ UNCHANGED <<store, queued>>
    \/ stage[m] = "stamp" /\ Record(m) /\ UNCHANGED <<digest, queued>>
    \/ stage[m] = "hold" /\ Enqueue(m) /\ UNCHANGED stamps
    \/ stage[m] = "drop" /\ Prune(m) /\ UNCHANGED <<stamps, queued>>

\* A read or a write of the store fails: deliver() rejects, and notify() queues
\* the message once more, beside the next delivery.  A second failure ends it.
Fail(m) == \E sink \in BOOLEAN :   \* given to notify(), or to deliver()
    /\ (stage[m] = "queued" /\ Up(m)) \/ stage[m] \in {"stamp", "hold", "trim", "drop"}
    /\ mishaps < MaxMishaps /\ mishaps' = mishaps + 1
    /\ stage' = [stage EXCEPT ![m] = IF ~Chained(m) THEN "done" ELSE IF sink THEN "hold" ELSE "failed"]
    /\ at' = [at EXCEPT ![m] = IF stage'[m] = "hold" THEN now ELSE 0]
    /\ excess' = [excess EXCEPT ![m] = {}] /\ chain' = PassedOn(m)
    /\ unstamped' = IF stage[m] = "stamp" THEN unstamped \cup {m} ELSE unstamped
    /\ gaveUp' = IF Chained(m) THEN gaveUp ELSE gaveUp \cup {m}
    /\ Half(m)
    /\ UNCHANGED <<now, drain, sent, shown, unseen, overlap>>

-----------------------------------------------------------------------------
(* A turn of the owner *)

Over == [stage |-> "over", items |-> {}]
Read(d) ==
    /\ drain[d].stage = "none" /\ \A e \in 1..d - 1 : drain[e].stage # "none"
    /\ drain' = [drain EXCEPT ![d] = IF digest = {} THEN Over
                                     ELSE [stage |-> "read", items |-> digest]]
    /\ overlap' = overlap \cup {{d, e} : e \in {f \in Drain : drain[f].stage = "read"}}
    /\ UNCHANGED <<now, stage, at, excess, chain, store, mishaps, sent, unstamped, queued, shown, unseen, gaveUp>>

\* The items that were read are deleted, and go into the turn's prompt.
NothingCleared(d) == {}
AllCleared(d)     == digest
Cleared(d)        == drain[d].items
Clear(d) ==
    /\ drain[d].stage = "read" /\ drain' = [drain EXCEPT ![d] = Over]
    /\ digest' = digest \ Cleared(d)
    /\ shown' = shown \cup (drain[d].items \X {d})
    /\ UNCHANGED <<now, stage, at, excess, chain, stamps, mishaps, sent, unstamped, queued, unseen, overlap, gaveUp>>

\* The DELETE is reported as failed, and the turn goes on without the digest:
\* the items stay, or they are gone and nobody has read them.
ClearFails(d) ==
    /\ drain[d].stage = "read" /\ mishaps < MaxMishaps /\ mishaps' = mishaps + 1
    /\ drain' = [drain EXCEPT ![d] = Over]
    /\ \/ UNCHANGED <<digest, unseen>>
       \/ digest' = digest \ Cleared(d) /\ unseen' = unseen \cup drain[d].items
    /\ UNCHANGED <<now, stage, at, excess, chain, stamps, sent, unstamped, queued, shown, overlap, gaveUp>>

Crash ==
    /\ mishaps < MaxMishaps /\ mishaps' = mishaps + 1
    /\ unstamped' = unstamped \cup {m \in Message : stage[m] = "stamp"}
    /\ stage' = [m \in Message |-> IF stage[m] \in Ended THEN stage[m] ELSE "lost"]
    /\ drain' = [d \in Drain |-> IF drain[d].stage = "read" THEN Over
                                 ELSE drain[d]]
    /\ chain' = <<>> /\ excess' = [m \in Message |-> {}] /\ at' = [m \in Message |-> 0]
    /\ UNCHANGED <<now, store, sent, queued, shown, unseen, overlap, gaveUp>>

-----------------------------------------------------------------------------
Step(m) ==
    \/ Decide(m) \/ Send(m) \/ SendFails(m) \/ Stamp(m)
    \/ Hold(m) \/ Trim(m) \/ Drop(m)

Next ==
    \/ Tick \/ Crash
    \/ \E m \in Message : Notify(m) \/ Step(m) \/ Fail(m)
    \/ \E d \in Drain : Read(d) \/ Clear(d) \/ ClearFails(d)

Spec == Init /\ [][Next]_vars

-----------------------------------------------------------------------------
(* Properties                                                                *)

\* No message is sent when as many as the cap allows were sent in the day
\* before, in however many processes and whatever failed; only those whose
\* stamp could not be written do not count (deliverLocked, recordSend).
CapKept ==
    \A i \in DOMAIN sent :
        Cardinality({j \in 1..i - 1 : sent[j][2] >= sent[i][2] - Day /\ sent[j][1] \notin unstamped})
            < MaxPerDay

\* A message that was taken reaches the owner, or waits in the digest, or was
\* shown from it, or made room for newer ones; a drain beside a delivery, or a
\* failed write of a message given to notify(), does not lose it.  One way to
\* lose it is left: a drain whose DELETE took effect although it was rejected.
Outcomes(m) == {i \in queued : i.msg = m}
NothingLost ==
    \A m \in Message : stage[m] = "done" /\ m \notin gaveUp =>
        \/ \E i \in DOMAIN sent : sent[i][1] = m
        \/ \E i \in Outcomes(m) :
              \/ i \in digest \/ i \in unseen \/ \E d \in Drain : <<i, d>> \in shown
              \/ Cardinality({j \in queued \ {i} : j.ts >= i.ts}) >= QueueMax

\* The owner reads nothing twice: what was sent is not shown again, and what
\* one drain showed another does not, unless the two ran at the same time or a
\* failure made the service queue the message again.
ReportedOnce ==
    /\ \A s \in shown : s[1].reason = "held" => \A k \in DOMAIN sent : sent[k][1] # s[1].msg
    /\ \A r, s \in shown : r[1] = s[1] /\ r[2] # s[2] => {r[2], s[2]} \in overlap
=============================================================================
