------------------------- MODULE NotificationsProofs -------------------------
(***************************************************************************)
(* The cap on messages to the owner, and what becomes of those that are    *)
(* held back: for any number of messages, of turns of the owner, of        *)
(* failures and of crashes, any cap, quiet hours and length of the digest. *)
(***************************************************************************)
EXTENDS Notifications, FiniteSetTheorems, SequenceTheorems, TLAPS

Went(m, t) == \E i \in DOMAIN sent : sent[i] = <<m, t>>
Gone(m)    == \E t \in 0..MaxTime : Went(m, t)

Typed ==
    /\ TypeOK
    /\ excess \in [Message -> SUBSET Item]
    /\ chain \in Seq(Message) /\ sent \in Seq(Message \X (0..MaxTime))
    /\ drain \in [Drain -> [stage : {"none", "read", "over"}, items : SUBSET queued]]
    /\ IsFiniteSet(stamps) /\ IsFiniteSet(queued)
    /\ digest \subseteq queued /\ shown \subseteq queued \X Drain /\ queued \subseteq Item
    /\ unstamped \subseteq Message /\ gaveUp \subseteq Message

\* One delivery at a time: what is on the chain and has begun is its head.
Serial ==
    /\ \A m \in Message : Chained(m) /\ stage[m] # "queued" => Head(chain) = m
    /\ \A m \in Message : stage[m] \in {"queued", "send", "stamp"} => Chained(m)

\* A message is sent once, and what comes after its sending fails is a rescue.
SentOnce ==
    /\ \A i, j \in DOMAIN sent : sent[i][1] = sent[j][1] => i = j
    /\ \A m \in Message : Gone(m) =>
          \/ stage[m] \in {"stamp", "done", "failed", "lost"}
          \/ stage[m] \in {"hold", "trim", "drop"} /\ ~Chained(m)
    /\ \A m \in Message : stage[m] = "stamp" => Gone(m)

\* No window that counts, now or for the delivery that runs, reaches back to t.
Past(t) ==
    /\ t < now - Day
    /\ \A m \in Message : stage[m] \in {"send", "stamp"} => t < at[m] - Day

\* The stamps know of every message sent that a window can reach.
Stamped ==
    /\ \A m \in Message : at[m] <= now
    /\ \A m \in Message, t \in 0..MaxTime : Went(m, t) =>
          \/ m \in unstamped \/ (stage[m] = "stamp" /\ at[m] = t)
          \/ <<m, t>> \in stamps \/ Past(t)
    /\ \A m \in Message, t \in 0..MaxTime : stage[m] = "send" /\ at[m] = t =>
          Cardinality(Recent(t)) < MaxPerDay

\* A message has an item of its delivery and one of its rescue at most, and one
\* that was sent has none of its delivery.
ItemsAreNew ==
    \A i \in queued :
        \/ /\ i.reason = "held" /\ ~Gone(i.msg)
           /\ \/ stage[i.msg] \in {"trim", "drop", "done", "failed", "lost"}
              \/ stage[i.msg] = "hold" /\ ~Chained(i.msg)
        \/ /\ i.reason = "error" /\ ~Chained(i.msg)
           /\ stage[i.msg] \in {"trim", "drop", "done", "lost"}

\* Newer items fill the digest.
Outnumbered(i) == Cardinality({j \in queued \ {i} : j.ts >= i.ts}) >= QueueMax

Kept ==
    /\ \A i \in queued :
          i \in digest \/ i \in unseen \/ (\E d \in Drain : <<i, d>> \in shown) \/ Outnumbered(i)
    /\ \A m \in Message : \A i \in excess[m] : Outnumbered(i)
    /\ \A m \in Message : stage[m] \in {"trim", "drop"} => Outcomes(m) # {}
    /\ \A m \in Message : stage[m] = "done" /\ m \notin gaveUp =>
          Gone(m) \/ Outcomes(m) # {}

Reading(d) == drain[d].stage = "read"

\* What a drain has read another has shown, or will show, only beside it.
ShownOnce ==
    /\ \A d, e \in Drain : d # e /\ Reading(d) /\ Reading(e) => {d, e} \in overlap
    /\ \A d, e \in Drain : \A i \in drain[d].items :
          Reading(d) /\ d # e /\ <<i, e>> \in shown => {d, e} \in overlap
    /\ \A s \in shown : s[1] \notin digest
    /\ \A r, s \in shown : r[1] = s[1] /\ r[2] # s[2] => {r[2], s[2]} \in overlap

IInv == Typed /\ Serial /\ SentOnce /\ Stamped /\ ItemsAreNew /\ Kept /\ ShownOnce
-----------------------------------------------------------------------------
(* The chain.                                                              *)

\* A delivery joins it.
LEMMA ChainGrows ==
    ASSUME NEW S, NEW c \in Seq(S), IsInjective(c), NEW m \in S, m \notin ToSet(c)
    PROVE  /\ Append(c, m) \in Seq(S) /\ IsInjective(Append(c, m))
           /\ ToSet(Append(c, m)) = ToSet(c) \cup {m}
           /\ c # <<>> => Head(Append(c, m)) = Head(c)
<1>1. /\ Append(c, m) \in Seq(S) /\ Len(Append(c, m)) = Len(c) + 1
      /\ \A i \in 1 .. Len(c) : Append(c, m)[i] = c[i]
      /\ Append(c, m)[Len(c) + 1] = m
  BY AppendProperties
<1>2. Len(c) \in Nat /\ DOMAIN c = 1 .. Len(c) /\ DOMAIN Append(c, m) = 1 .. Len(c) + 1
  BY <1>1, LenProperties
<1>3. \A i \in DOMAIN c : c[i] # m  BY DEF ToSet
<1>4. IsInjective(Append(c, m))
  <2> SUFFICES ASSUME NEW a \in 1 .. Len(c) + 1, NEW b \in 1 .. Len(c) + 1,
                      Append(c, m)[a] = Append(c, m)[b]
               PROVE  a = b
    BY <1>2 DEF IsInjective
  <2>1. CASE a = Len(c) + 1 \/ b = Len(c) + 1  BY <1>1, <1>2, <1>3, <2>1
  <2>2. CASE a # Len(c) + 1 /\ b # Len(c) + 1
    BY <1>1, <1>2, <2>2 DEF IsInjective
  <2> QED  BY <2>1, <2>2
<1>5. ToSet(Append(c, m)) = ToSet(c) \cup {m}
  <2>1. \A i \in 1 .. Len(c) + 1 : Append(c, m)[i] \in ToSet(c) \cup {m}
    BY <1>1, <1>2 DEF ToSet
  <2>2. \A i \in DOMAIN c : c[i] \in ToSet(Append(c, m))
    BY <1>1, <1>2 DEF ToSet
  <2>3. m \in ToSet(Append(c, m))  BY <1>1, <1>2 DEF ToSet
  <2> QED  BY <1>2, <2>1, <2>2, <2>3 DEF ToSet
<1>6. c # <<>> => Head(Append(c, m)) = Head(c)
  <2> SUFFICES ASSUME c # <<>> PROVE Head(Append(c, m)) = Head(c)  OBVIOUS
  <2>1. 1 \in 1 .. Len(c)  BY EmptySeq
  <2> QED  BY <1>1, <2>1
<1> QED  BY <1>1, <1>4, <1>5, <1>6

\* Its head leaves it.
LEMMA ChainShrinks ==
    ASSUME NEW S, NEW c \in Seq(S), IsInjective(c), c # <<>>
    PROVE  /\ Tail(c) \in Seq(S) /\ IsInjective(Tail(c))
           /\ Head(c) \in ToSet(c) /\ ToSet(Tail(c)) = ToSet(c) \ {Head(c)}
<1>1. /\ Tail(c) \in Seq(S) /\ Len(Tail(c)) = Len(c) - 1
      /\ \A i \in 1 .. Len(Tail(c)) : Tail(c)[i] = c[i + 1]
  BY HeadTailProperties
<1>2. /\ Len(c) \in Nat \ {0} /\ DOMAIN c = 1 .. Len(c) /\ Head(c) = c[1]
      /\ DOMAIN Tail(c) = 1 .. Len(c) - 1
  BY <1>1, EmptySeq, LenProperties
<1>3. IsInjective(Tail(c))
  <2> SUFFICES ASSUME NEW a \in 1 .. Len(c) - 1, NEW b \in 1 .. Len(c) - 1,
                      Tail(c)[a] = Tail(c)[b]
               PROVE  a = b
    BY <1>2 DEF IsInjective
  <2>1. c[a + 1] = c[b + 1] /\ a + 1 \in DOMAIN c /\ b + 1 \in DOMAIN c  BY <1>1, <1>2
  <2>2. a + 1 = b + 1  BY <2>1 DEF IsInjective
  <2> QED  BY <2>2
<1>4. Head(c) \in ToSet(c)  BY <1>2 DEF ToSet
<1>5. ToSet(Tail(c)) = ToSet(c) \ {Head(c)}
  <2>1. \A i \in 1 .. Len(c) - 1 : Tail(c)[i] \in ToSet(c) /\ Tail(c)[i] # Head(c)
    <3> SUFFICES ASSUME NEW i \in 1 .. Len(c) - 1
                 PROVE  Tail(c)[i] \in ToSet(c) /\ Tail(c)[i] # Head(c)
      OBVIOUS
    <3>1. Tail(c)[i] = c[i + 1] /\ i + 1 \in DOMAIN c /\ 1 \in DOMAIN c /\ i + 1 # 1
      BY <1>1, <1>2
    <3> QED  BY <1>2, <3>1 DEF ToSet, IsInjective
  <2>2. \A i \in DOMAIN c : i # 1 => c[i] \in ToSet(Tail(c))
    <3> SUFFICES ASSUME NEW i \in DOMAIN c, i # 1 PROVE c[i] \in ToSet(Tail(c))  OBVIOUS
    <3>1. i - 1 \in DOMAIN Tail(c) /\ Tail(c)[i - 1] = c[(i - 1) + 1] /\ (i - 1) + 1 = i
      BY <1>1, <1>2
    <3> QED  BY <3>1 DEF ToSet
  <2> QED  BY <1>2, <2>1, <2>2 DEF ToSet
<1> QED  BY <1>1, <1>3, <1>4, <1>5

\* What has begun, or may begin, is the head.
LEMMA ChainPasses ==
    ASSUME Typed, Serial, NEW m \in Message, stage[m] # "queued" \/ Up(m)
    PROVE  /\ PassedOn(m) \in Seq(Message) /\ IsInjective(PassedOn(m))
           /\ ToSet(PassedOn(m)) = ToSet(chain) \ {m}
           /\ Chained(m) => Head(chain) = m
<1>1. chain \in Seq(Message) /\ IsInjective(chain)  BY DEF Typed, TypeOK
<1>2. CASE ~Chained(m)  BY <1>1, <1>2 DEF PassedOn, Chained
<1>3. CASE Chained(m)
  <2>1. Head(chain) = m  BY <1>3 DEF Up, Serial
  <2>2. chain # <<>>
    <3> SUFFICES ASSUME chain = <<>> PROVE FALSE  OBVIOUS
    <3>1. Len(chain) = 0 /\ DOMAIN chain = 1 .. Len(chain)  BY <1>1, EmptySeq, LenProperties
    <3> QED  BY <1>3, <3>1 DEF Chained, ToSet
  <2> QED  BY <1>1, <1>3, <2>1, <2>2, ChainShrinks DEF PassedOn
<1> QED  BY <1>2, <1>3

-----------------------------------------------------------------------------
(* What a step of one message does to the others and to the chain.         *)

\* What a failure may leave written.
LEMMA FailWrites ==
    ASSUME NEW m \in Message, Fail(m)
    PROVE  /\ UNCHANGED stamps \/ (stage[m] = "stamp" /\ Record(m))
           /\ \/ UNCHANGED <<digest, queued>>
              \/ stage[m] = "hold" /\ Enqueue(m)
              \/ stage[m] = "drop" /\ Prune(m) /\ UNCHANGED queued
BY DEF Fail, Half, store

LEMMA Moves ==
    ASSUME Typed, Serial, NEW m \in Message, Step(m) \/ Fail(m)
    PROVE  /\ stage' \in [Message -> Stages] /\ stage'[m] \notin {"idle", "queued"}
           /\ at' \in [Message -> 0..MaxTime] /\ excess' \in [Message -> SUBSET Item]
           /\ \A k \in Message : k # m =>
                 /\ stage'[k] = stage[k] /\ at'[k] = at[k] /\ excess'[k] = excess[k]
                 /\ k \in ToSet(chain') <=> Chained(k)
           /\ chain' \in Seq(Message) /\ IsInjective(chain')
           /\ \/ chain' = chain /\ ~(stage'[m] \in Ended /\ Chained(m))
              \/ m \notin ToSet(chain')
           /\ stage[m] \notin Ended /\ (Chained(m) => Head(chain) = m)
           /\ m \in ToSet(chain') => chain' = chain /\ Chained(m)
           /\ stage'[m] \in {"send", "stamp"} => chain' = chain /\ Chained(m)
           /\ UNCHANGED <<now, drain, shown, overlap>>
<1> USE DEF Go, store, history, Stages, Ended
<1>0. /\ now \in 0..MaxTime /\ stage \in [Message -> Stages] /\ at \in [Message -> 0..MaxTime]
      /\ excess \in [Message -> SUBSET Item] /\ chain \in Seq(Message)
      /\ IsInjective(chain) /\ digest \subseteq Item
      /\ 0 \in 0..MaxTime
  BY ConstantsAssumption DEF Typed, TypeOK, ConstantsAssumption
<1>1. CASE Decide(m)
  <2>1. Chained(m) /\ Head(chain) = m
    <3>1. stage[m] = "queued"  BY <1>1 DEF Decide
    <3> QED  BY <1>1, <3>1 DEF Decide, Serial, Up
  <2> QED  BY <1>0, <1>1, <2>1 DEF Decide, Chained
<1>2. CASE Send(m) \/ SendFails(m)
  <2>1. stage[m] = "send" /\ Chained(m) /\ Head(chain) = m
    BY <1>2 DEF Send, SendFails, Serial
  <2> QED  BY <1>0, <1>2, <2>1 DEF Send, SendFails, Chained
<1>3. CASE Stamp(m)
  <2>1. stage[m] = "stamp" /\ chain' = PassedOn(m)  BY <1>3 DEF Stamp
  <2>2. /\ PassedOn(m) \in Seq(Message) /\ IsInjective(PassedOn(m))
        /\ ToSet(PassedOn(m)) = ToSet(chain) \ {m} /\ (Chained(m) => Head(chain) = m)
    BY <2>1, ChainPasses
  <2> QED  BY <1>0, <1>3, <2>1, <2>2 DEF Stamp, Chained
<1>4. CASE Hold(m)
  <2>1. stage[m] = "hold" /\ (Chained(m) => Head(chain) = m)  BY <1>4 DEF Hold, Serial
  <2> QED  BY <1>0, <1>4, <2>1 DEF Hold, Chained
<1>5. CASE Trim(m)
  <2>1. stage[m] = "trim" /\ (Chained(m) => Head(chain) = m)  BY <1>5 DEF Trim, Serial
  <2>2. /\ PassedOn(m) \in Seq(Message) /\ IsInjective(PassedOn(m))
        /\ ToSet(PassedOn(m)) = ToSet(chain) \ {m}
    BY <2>1, ChainPasses
  <2>3. excess' \in [Message -> SUBSET Item] /\ \A k \in Message : k # m => excess'[k] = excess[k]
    BY <1>0, <1>5 DEF Trim, Oldest
  <2> QED  BY <1>0, <1>5, <2>1, <2>2, <2>3 DEF Trim, Chained
<1>6. CASE Drop(m)
  <2>1. stage[m] = "drop" /\ chain' = PassedOn(m)  BY <1>6 DEF Drop
  <2>2. /\ PassedOn(m) \in Seq(Message) /\ IsInjective(PassedOn(m))
        /\ ToSet(PassedOn(m)) = ToSet(chain) \ {m} /\ (Chained(m) => Head(chain) = m)
    BY <2>1, ChainPasses
  <2> QED  BY <1>0, <1>6, <2>1, <2>2 DEF Drop, Chained
<1>7. CASE Fail(m)
  <2>1. /\ stage[m] = "queued" => Up(m)
        /\ stage[m] \in {"queued", "stamp", "hold", "trim", "drop"}
        /\ chain' = PassedOn(m) /\ excess' = [excess EXCEPT ![m] = {}]
        /\ UNCHANGED <<now, drain, shown, overlap>>
    BY <1>7 DEF Fail
  <2>2. /\ PassedOn(m) \in Seq(Message) /\ IsInjective(PassedOn(m))
        /\ ToSet(PassedOn(m)) = ToSet(chain) \ {m} /\ (Chained(m) => Head(chain) = m)
    BY <2>1, ChainPasses
  <2>3. PICK to \in {"done", "hold", "failed"} : stage' = [stage EXCEPT ![m] = to]
    BY <1>7 DEF Fail
  <2>4. \E t \in 0..MaxTime : at' = [at EXCEPT ![m] = t]  BY <1>0, <1>7 DEF Fail
  <2> QED  BY <1>0, <2>1, <2>2, <2>3, <2>4 DEF Chained
<1> QED  BY <1>1, <1>2, <1>3, <1>4, <1>5, <1>6, <1>7 DEF Step
-----------------------------------------------------------------------------
(* The types.                                                              *)

LEMMA TypedMessage ==
    ASSUME Typed, Serial, NEW m \in Message, Step(m) \/ Fail(m) PROVE Typed'
<1> USE DEF Go, store, history
<1>1. /\ mishaps' \in 0..MaxMishaps
      /\ stamps' \subseteq Message \X (0..MaxTime) /\ IsFiniteSet(stamps')
  <2> USE DEF Typed, TypeOK
  <2>1. ASSUME Record(m) PROVE stamps' \subseteq Message \X (0..MaxTime) /\ IsFiniteSet(stamps')
    <3>1. IsFiniteSet(Recent(at[m]))  BY FS_Subset DEF Recent
    <3>2. IsFiniteSet(Recent(at[m]) \cup {<<m, at[m]>>})  BY <3>1, FS_AddElement
    <3> QED  BY <2>1, <3>2 DEF Record, Recent
  <2>2. Record(m) \/ UNCHANGED stamps
    BY FailWrites DEF Step, Decide, Send, SendFails, Stamp, Hold, Trim, Drop
  <2>3. stamps' \subseteq Message \X (0..MaxTime) /\ IsFiniteSet(stamps')  BY <2>1, <2>2
  <2>4. mishaps' \in 0..MaxMishaps
    BY ConstantsAssumption
       DEF Step, Decide, Send, SendFails, Stamp, Hold, Trim, Drop, Fail, ConstantsAssumption
  <2> QED  BY <2>3, <2>4
<1>2. /\ queued' \subseteq Item /\ IsFiniteSet(queued') /\ queued \subseteq queued'
      /\ digest' \subseteq queued'
  <2> USE DEF Typed, TypeOK
  <2>1. CASE Enqueue(m)
    <3>1. PICK i \in Item : digest' = digest \cup {i} /\ queued' = queued \cup {i}
      <4>1. ItemOf(m) \in Item  BY DEF Item, ItemOf
      <4> QED  BY <2>1, <4>1 DEF Enqueue
    <3>2. IsFiniteSet(queued \cup {i})  BY FS_AddElement
    <3> QED  BY <3>1, <3>2
  <2>2. CASE digest' \subseteq digest /\ queued' = queued  BY <2>2
  <2>3. Enqueue(m) \/ (digest' \subseteq digest /\ queued' = queued)
    BY FailWrites DEF Step, Decide, Send, SendFails, Stamp, Hold, Trim, Drop, Prune
  <2> QED  BY <2>1, <2>2, <2>3
<1>3. sent' \in Seq(Message \X (0..MaxTime))
  <2>1. CASE Send(m)
    <3>1. <<m, at[m]>> \in Message \X (0..MaxTime)  BY DEF Typed, TypeOK
    <3> QED  BY <2>1, <3>1, AppendProperties DEF Send, Typed
  <2>2. CASE Decide(m) \/ SendFails(m) \/ Stamp(m) \/ Hold(m) \/ Trim(m) \/ Drop(m) \/ Fail(m)
    BY <2>2 DEF Decide, SendFails, Stamp, Hold, Trim, Drop, Fail, Typed
  <2> QED  BY <2>1, <2>2 DEF Step
<1>4. unstamped' \subseteq Message /\ gaveUp' \subseteq Message
  BY DEF Step, Decide, Send, SendFails, Stamp, Hold, Trim, Drop, Fail, Typed
<1>5. \A k \in ToSet(chain') : stage'[k] \notin Ended
  <2> SUFFICES ASSUME NEW k \in ToSet(chain') PROVE stage'[k] \notin Ended  OBVIOUS
  <2>1. k \in Message
    <3>1. chain' \in Seq(Message)  BY Moves
    <3> QED  BY <3>1, LenProperties DEF ToSet
  <2>2. CASE k # m
    <3>1. Chained(k) /\ stage'[k] = stage[k]  BY <2>1, <2>2, Moves
    <3> QED  BY <3>1 DEF Typed, TypeOK, Chained
  <2>3. CASE k = m  BY <2>3, Moves
  <2> QED  BY <2>2, <2>3
<1>6. TypeOK'
  <2>1. /\ \A k \in Message : excess'[k] \subseteq Item
        /\ UNCHANGED <<now, drain>>
        /\ stage' \in [Message -> Stages] /\ at' \in [Message -> 0..MaxTime]
        /\ IsInjective(chain')
    BY Moves
  <2> QED  BY <1>1, <1>2, <1>5, <2>1 DEF Typed, TypeOK
<1>7. /\ excess' \in [Message -> SUBSET Item] /\ chain' \in Seq(Message)
      /\ UNCHANGED <<drain, shown>>
  BY Moves
<1> QED  BY <1>1, <1>2, <1>3, <1>4, <1>6, <1>7 DEF Typed

LEMMA TypedStep == ASSUME Typed, Serial, [Next]_vars PROVE Typed'
<1> USE DEF store, history
<1>1. CASE UNCHANGED vars \/ Tick
  <2>1. now' \in 0..MaxTime
    BY <1>1, ConstantsAssumption DEF vars, Tick, Typed, TypeOK, ConstantsAssumption
  <2>2. UNCHANGED <<stage, at, excess, chain, store, drain, mishaps, history>>
    BY <1>1 DEF vars, Tick
  <2> QED  BY <2>1, <2>2 DEF Typed, TypeOK
<1>2. ASSUME NEW m \in Message, Notify(m) PROVE Typed'
  <2>1. /\ stage[m] = "idle" /\ stage' = [stage EXCEPT ![m] = "queued"]
        /\ chain' = Append(chain, m)
        /\ UNCHANGED <<now, at, excess, store, drain, mishaps, history>>
    BY <1>2 DEF Notify, Go
  <2>2. m \notin ToSet(chain)  BY <2>1 DEF Typed, TypeOK, Ended
  <2>3. chain \in Seq(Message) /\ IsInjective(chain)  BY DEF Typed, TypeOK
  <2>4. /\ chain' \in Seq(Message) /\ IsInjective(chain')
        /\ ToSet(chain') = ToSet(chain) \cup {m}
    BY <2>1, <2>2, <2>3, ChainGrows
  <2>5. stage' \in [Message -> Stages]  BY <2>1 DEF Typed, TypeOK, Stages
  <2>6. \A k \in ToSet(chain') : stage'[k] \notin Ended
    BY <2>1, <2>4 DEF Typed, TypeOK, Ended
  <2> QED  BY <2>1, <2>4, <2>5, <2>6 DEF Typed, TypeOK
<1>3. ASSUME NEW m \in Message, Step(m) \/ Fail(m) PROVE Typed'  BY <1>3, TypedMessage
<1>4. ASSUME NEW d \in Drain, Read(d) \/ Clear(d) \/ ClearFails(d) PROVE Typed'
  <2>1. mishaps' \in 0..MaxMishaps
    BY <1>4, ConstantsAssumption
       DEF Read, Clear, ClearFails, Typed, TypeOK, ConstantsAssumption
  <2>2. digest' \subseteq digest  BY <1>4 DEF Read, Clear, ClearFails
  <2>3. drain' \in [Drain -> [stage : {"none", "read", "over"}, items : SUBSET queued]]
    <3>1. PICK items \in SUBSET queued, stage1 \in {"read", "over"} :
             drain' = [drain EXCEPT ![d] = [stage |-> stage1, items |-> items]]
      <4>1. CASE Read(d)
        <5>1. digest \in SUBSET queued  BY DEF Typed
        <5>2. CASE digest = {}  BY <4>1, <5>2 DEF Read, Over
        <5>3. CASE digest # {}  BY <4>1, <5>1, <5>3 DEF Read
        <5> QED  BY <5>2, <5>3
      <4>2. CASE Clear(d)  BY <4>2 DEF Clear, Over
      <4>3. CASE ClearFails(d)  BY <4>3 DEF ClearFails, Over
      <4> QED  BY <1>4, <4>1, <4>2, <4>3
    <3>2. drain \in [Drain -> [stage : {"none", "read", "over"}, items : SUBSET queued]]
      BY DEF Typed
    <3> QED  BY <3>1, <3>2
  <2>4. shown' \subseteq queued \X Drain
    BY <1>4 DEF Read, Clear, ClearFails, Typed
  <2>5. UNCHANGED <<now, stage, at, excess, chain, stamps, sent, unstamped, queued, gaveUp>>
    BY <1>4 DEF Read, Clear, ClearFails
  <2> QED  BY <2>1, <2>2, <2>3, <2>4, <2>5 DEF Typed, TypeOK
<1>5. CASE Crash
  <2>1. mishaps' \in 0..MaxMishaps
    BY <1>5, ConstantsAssumption DEF Crash, Typed, TypeOK, ConstantsAssumption
  <2>2. /\ chain' = <<>> /\ chain' \in Seq(Message) /\ ToSet(chain') = {}
        /\ IsInjective(chain')
    <3>1. chain' = <<>>  BY <1>5 DEF Crash
    <3>2. <<>> \in Seq(Message) /\ DOMAIN <<>> = {}  BY EmptySeq
    <3> QED  BY <3>1, <3>2 DEF ToSet, IsInjective
  <2>3. stage' \in [Message -> Stages] /\ unstamped' \subseteq Message
    BY <1>5 DEF Crash, Typed, TypeOK, Stages, Ended
  <2>4. drain' \in [Drain -> [stage : {"none", "read", "over"}, items : SUBSET queued]]
    BY <1>5 DEF Crash, Over, Typed, TypeOK
  <2>5. at' \in [Message -> 0..MaxTime] /\ excess' \in [Message -> SUBSET Item]
    BY <1>5, ConstantsAssumption DEF Crash, ConstantsAssumption
  <2>6. UNCHANGED <<now, store, sent, queued, shown, overlap, gaveUp>>  BY <1>5 DEF Crash
  <2> QED  BY <2>1, <2>2, <2>3, <2>4, <2>5, <2>6 DEF Typed, TypeOK
<1> QED  BY <1>1, <1>2, <1>3, <1>4, <1>5 DEF Next
-----------------------------------------------------------------------------
(* One delivery at a time, and one sending of a message.                   *)

LEMMA SerialStep == ASSUME Typed, Serial, [Next]_vars PROVE Serial'
<1> USE DEF Chained
<1>1. CASE UNCHANGED <<stage, chain>>  BY <1>1 DEF Serial
<1>2. ASSUME NEW m \in Message, Notify(m) PROVE Serial'
  <2>1. /\ stage[m] = "idle" /\ stage' = [stage EXCEPT ![m] = "queued"]
        /\ chain' = Append(chain, m) /\ stage \in [Message -> Stages]
    BY <1>2 DEF Notify, Go, Typed, TypeOK
  <2>2. chain \in Seq(Message) /\ IsInjective(chain) /\ m \notin ToSet(chain)
    BY <2>1 DEF Typed, TypeOK, Ended
  <2>3. /\ ToSet(chain') = ToSet(chain) \cup {m}
        /\ chain # <<>> => Head(chain') = Head(chain)
    BY <2>1, <2>2, ChainGrows
  <2>4. chain = <<>> => ToSet(chain) = {}
    BY EmptySeq, LenProperties DEF ToSet
  <2> QED  BY <2>1, <2>3, <2>4 DEF Serial
<1>3. ASSUME NEW m \in Message, Step(m) \/ Fail(m) PROVE Serial'
  <2>1. /\ \A k \in Message : k # m =>
              stage'[k] = stage[k] /\ (k \in ToSet(chain') <=> k \in ToSet(chain))
        /\ m \in ToSet(chain') => chain' = chain /\ m \in ToSet(chain)
        /\ m \in ToSet(chain) => Head(chain) = m
        /\ stage'[m] # "queued" /\ stage[m] \notin Ended
        /\ stage'[m] \in {"send", "stamp"} => m \in ToSet(chain')
        /\ chain' = chain \/ m \notin ToSet(chain')
        /\ m \notin ToSet(chain) => chain' = chain
    <3>1. m \notin ToSet(chain) => chain' = chain
      BY <1>3 DEF Step, Decide, Send, SendFails, Stamp, Hold, Trim, Drop, Fail, PassedOn
    <3> QED  BY <1>3, <3>1, Moves
  <2>2. ASSUME NEW k \in Message, k \in ToSet(chain'), stage'[k] # "queued"
        PROVE  Head(chain') = k
    <3>1. CASE k = m  BY <2>1, <2>2, <3>1
    <3>2. CASE k # m
      <4>1. k \in ToSet(chain) /\ stage[k] # "queued"  BY <2>1, <2>2, <3>2
      <4>2. Head(chain) = k  BY <4>1 DEF Serial
      <4>3. chain' = chain  BY <2>1, <3>2, <4>2
      <4> QED  BY <4>2, <4>3
    <3> QED  BY <3>1, <3>2
  <2>3. ASSUME NEW k \in Message, stage'[k] \in {"queued", "send", "stamp"}
        PROVE  k \in ToSet(chain')
    <3>1. CASE k = m  BY <2>1, <2>3, <3>1
    <3>2. CASE k # m  BY <2>1, <2>3, <3>2 DEF Serial
    <3> QED  BY <3>1, <3>2
  <2> QED  BY <2>2, <2>3 DEF Serial
<1>4. CASE Crash
  <2>1. chain' = <<>> /\ \A k \in Message : stage'[k] \in Ended \cup {"lost"}
    BY <1>4 DEF Crash
  <2>2. ToSet(chain') = {}
    <3>1. <<>> \in Seq(Message) /\ DOMAIN <<>> = {}  BY EmptySeq
    <3> QED  BY <2>1, <3>1 DEF ToSet
  <2> QED  BY <2>1, <2>2 DEF Serial, Ended
<1> QED
  BY <1>1, <1>2, <1>3, <1>4 DEF Next, vars, Tick, Read, Clear, ClearFails, store, history

\* What has been sent, once one more message is.
LEMMA SentMore ==
    ASSUME Typed, NEW m \in Message, Send(m)
    PROVE  /\ DOMAIN sent = 1 .. Len(sent) /\ Len(sent) \in Nat
           /\ DOMAIN sent' = 1 .. Len(sent) + 1
           /\ sent'[Len(sent) + 1] = <<m, at[m]>>
           /\ \A i \in 1 .. Len(sent) : sent'[i] = sent[i]
           /\ \A i \in 1 .. Len(sent) : \E k \in Message, t \in 0..MaxTime : sent[i] = <<k, t>>
           /\ \A k \in Message, t \in 0..MaxTime :
                 Went(k, t)' <=> Went(k, t) \/ (k = m /\ t = at[m])
           /\ \A k \in Message : Gone(k)' <=> Gone(k) \/ k = m
<1>1. <<m, at[m]>> \in Message \X (0..MaxTime) /\ sent \in Seq(Message \X (0..MaxTime))
  BY DEF Typed, TypeOK
<1>2. /\ sent' \in Seq(Message \X (0..MaxTime)) /\ Len(sent') = Len(sent) + 1
      /\ sent'[Len(sent) + 1] = <<m, at[m]>>
      /\ \A i \in 1 .. Len(sent) : sent'[i] = sent[i]
  BY <1>1, AppendProperties DEF Send
<1>3. DOMAIN sent = 1 .. Len(sent) /\ Len(sent) \in Nat /\ DOMAIN sent' = 1 .. Len(sent) + 1
  BY <1>1, <1>2, LenProperties
<1>4. \A i \in 1 .. Len(sent) : \E k \in Message, t \in 0..MaxTime : sent[i] = <<k, t>>
  <2> SUFFICES ASSUME NEW i \in 1 .. Len(sent)
               PROVE  \E k \in Message, t \in 0..MaxTime : sent[i] = <<k, t>>
    OBVIOUS
  <2>1. sent[i] \in Message \X (0..MaxTime)  BY <1>1, ElementOfSeq
  <2> QED  BY <2>1
<1>5. \A k \in Message, t \in 0..MaxTime :
         Went(k, t)' <=> Went(k, t) \/ (k = m /\ t = at[m])
  <2> SUFFICES ASSUME NEW k \in Message, NEW t \in 0..MaxTime
               PROVE  Went(k, t)' <=> Went(k, t) \/ (k = m /\ t = at[m])
    OBVIOUS
  <2>1. Went(k, t)' <=> \E i \in 1 .. Len(sent) + 1 : sent'[i] = <<k, t>>  BY <1>3 DEF Went
  <2>2. (\E i \in 1 .. Len(sent) + 1 : sent'[i] = <<k, t>>)
          <=> (\E i \in 1 .. Len(sent) : sent[i] = <<k, t>>) \/ <<k, t>> = <<m, at[m]>>
    <3>1. 1 .. Len(sent) + 1 = (1 .. Len(sent)) \cup {Len(sent) + 1}  BY <1>3
    <3>2. (\E i \in 1 .. Len(sent) + 1 : sent'[i] = <<k, t>>)
            <=> (\E i \in 1 .. Len(sent) : sent'[i] = <<k, t>>)
                  \/ sent'[Len(sent) + 1] = <<k, t>>
      BY <3>1
    <3> QED  BY <1>2, <3>2
  <2> QED  BY <1>3, <2>1, <2>2 DEF Went
<1>6. \A k \in Message : Gone(k)' <=> Gone(k) \/ k = m
  <2>1. at[m] \in 0..MaxTime  BY DEF Typed, TypeOK
  <2> QED  BY <1>5, <2>1 DEF Gone
<1> QED  BY <1>2, <1>3, <1>4, <1>5, <1>6

LEMMA SentSame ==
    ASSUME UNCHANGED sent
    PROVE  /\ \A k \in Message, t \in 0..MaxTime : Went(k, t)' <=> Went(k, t)
           /\ \A k \in Message : Gone(k)' <=> Gone(k)
BY DEF Went, Gone

\* The message a position is of.
LEMMA GoneByIndex ==
    ASSUME Typed, NEW i \in DOMAIN sent
    PROVE  /\ sent[i] = <<sent[i][1], sent[i][2]>>
           /\ sent[i][1] \in Message /\ sent[i][2] \in 0..MaxTime
           /\ Went(sent[i][1], sent[i][2]) /\ Gone(sent[i][1])
<1>1. sent[i] \in Message \X (0..MaxTime)
  BY LenProperties, ElementOfSeq DEF Typed
<1> QED  BY <1>1 DEF Went, Gone

LEMMA SentOnceStep == ASSUME Typed, Serial, SentOnce, [Next]_vars PROVE SentOnce'
<1>1. ASSUME NEW m \in Message, Send(m) PROVE SentOnce'
  <2>1. /\ stage[m] = "send" /\ stage'[m] = "stamp" /\ chain' = chain
        /\ \A k \in Message : k # m => stage'[k] = stage[k]
    BY <1>1 DEF Send, Go, Typed, TypeOK
  <2>2. ~Gone(m)  BY <2>1 DEF SentOnce
  <2>3. \A i \in DOMAIN sent : sent[i][1] # m  BY <2>2, GoneByIndex
  <2>4. ASSUME NEW i \in DOMAIN sent', NEW j \in DOMAIN sent', sent'[i][1] = sent'[j][1]
        PROVE  i = j
    <3>1. /\ DOMAIN sent = 1 .. Len(sent) /\ Len(sent) \in Nat
          /\ DOMAIN sent' = 1 .. Len(sent) + 1
          /\ sent'[Len(sent) + 1][1] = m
          /\ \A n \in 1 .. Len(sent) : sent'[n] = sent[n]
      BY <1>1, SentMore
    <3> QED  BY <2>3, <2>4, <3>1 DEF SentOnce
  <2>5. \A k \in Message : Gone(k)' <=> Gone(k) \/ k = m  BY <1>1, SentMore
  <2> QED  BY <2>1, <2>4, <2>5 DEF SentOnce, Chained
<1>2. ASSUME UNCHANGED sent,
             \A k \in Message : stage'[k] = "stamp" => stage[k] = "stamp",
             \A k \in Message : Gone(k) =>
                \/ stage'[k] \in {"stamp", "done", "failed", "lost"}
                \/ stage'[k] \in {"hold", "trim", "drop"} /\ k \notin ToSet(chain')
      PROVE  SentOnce'
  BY <1>2, SentSame DEF SentOnce, Chained
<1>3. CASE UNCHANGED <<sent, stage, chain>>  BY <1>2, <1>3 DEF SentOnce, Chained
<1>4. ASSUME NEW m \in Message, Notify(m) PROVE SentOnce'
  <2>1. /\ stage[m] = "idle" /\ stage' = [stage EXCEPT ![m] = "queued"]
        /\ chain' = Append(chain, m) /\ stage \in [Message -> Stages] /\ sent' = sent
    BY <1>4 DEF Notify, Go, Typed, TypeOK, history
  <2>2. chain \in Seq(Message) /\ IsInjective(chain) /\ m \notin ToSet(chain)
    BY <2>1 DEF Typed, TypeOK, Ended
  <2>3. ToSet(chain') = ToSet(chain) \cup {m}  BY <2>1, <2>2, ChainGrows
  <2>4. ~Gone(m)  BY <2>1 DEF SentOnce
  <2> QED  BY <1>2, <2>1, <2>3, <2>4 DEF SentOnce, Chained
<1>5. ASSUME NEW m \in Message, Step(m) \/ Fail(m), ~Send(m) PROVE SentOnce'
  <2>1. /\ \A k \in Message : k # m =>
              stage'[k] = stage[k] /\ (k \in ToSet(chain') <=> Chained(k))
        /\ stage' \in [Message -> Stages]
        /\ m \in ToSet(chain') => Chained(m)
    BY <1>5, Moves
  <2>2. sent' = sent /\ stage'[m] # "stamp"
    BY <1>5 DEF Step, Decide, SendFails, Stamp, Hold, Trim, Drop, Fail, Go, history,
                Typed, TypeOK, Stages, Ended
  <2>3. Gone(m) => \/ stage'[m] \in {"stamp", "done", "failed", "lost"}
                   \/ stage'[m] \in {"hold", "trim", "drop"} /\ m \notin ToSet(chain')
    <3>1. CASE Fail(m)
      <4>1. stage'[m] \in {"done", "hold", "failed"}
        BY <3>1 DEF Fail, Typed, TypeOK
      <4>2. stage[m] # "queued" \/ Up(m)  BY <3>1 DEF Fail
      <4>3. m \notin ToSet(chain')  BY <3>1, <4>2, ChainPasses DEF Fail
      <4> QED  BY <4>1, <4>3
    <3>2. CASE Stamp(m) \/ Drop(m)  BY <3>2 DEF Stamp, Drop, Go, Typed, TypeOK
    <3>3. CASE Decide(m) \/ SendFails(m)  BY <3>3 DEF Decide, SendFails, Go, SentOnce
    <3>4. CASE Hold(m) \/ Trim(m)
      <4>1. stage[m] \in {"hold", "trim"} /\ stage'[m] \in {"trim", "done", "drop"}
        BY <3>4 DEF Hold, Trim, Go, Typed, TypeOK
      <4> QED  BY <2>1, <4>1 DEF SentOnce
    <3> QED  BY <1>5, <3>1, <3>2, <3>3, <3>4 DEF Step
  <2> QED  BY <1>2, <2>1, <2>2, <2>3 DEF SentOnce
<1>6. CASE Crash
  <2>1. /\ sent' = sent /\ \A k \in Message : stage'[k] = IF stage[k] \in Ended THEN stage[k] ELSE "lost"
    BY <1>6 DEF Crash
  <2> QED  BY <1>2, <2>1 DEF SentOnce, Ended
<1> QED
  BY <1>1, <1>3, <1>4, <1>5, <1>6
     DEF Next, Step, vars, Tick, Read, Clear, ClearFails, store, history
-----------------------------------------------------------------------------
(* The cap.                                                                *)

\* Nothing new is in a window, and whoever is about to send or to stamp was.
LEMMA StampedKept ==
    ASSUME Typed, Stamped, UNCHANGED <<now, stamps, sent>>, unstamped \subseteq unstamped',
           \A k \in Message :
              /\ at'[k] <= now
              /\ stage'[k] \in {"send", "stamp"} => stage'[k] = stage[k] /\ at'[k] = at[k]
              /\ stage[k] = "stamp" => stage'[k] = "stamp" \/ k \in unstamped'
    PROVE  Stamped'
<1>1. ASSUME NEW t \in 0..MaxTime, Past(t) PROVE Past(t)'  BY <1>1 DEF Past
<1>2. \A k \in Message, t \in 0..MaxTime : Went(k, t)' <=> Went(k, t)  BY SentSame
<1>3. \A t \in 0..MaxTime : Recent(t)' = Recent(t)  BY DEF Recent
<1> QED  BY <1>1, <1>2, <1>3 DEF Stamped

LEMMA OnlyOneBegun ==
    ASSUME Serial, NEW k \in Message, NEW m \in Message,
           stage[k] \in {"send", "stamp"}, stage[m] \in {"send", "stamp"}
    PROVE  k = m
BY DEF Serial

LEMMA StampedStep == ASSUME Typed, Serial, SentOnce, Stamped, [Next]_vars PROVE Stamped'
<1> USE DEF store, history
<1>0. now \in 0..MaxTime /\ Day \in Nat /\ at \in [Message -> 0..MaxTime] /\ MaxTime \in Nat
  BY ConstantsAssumption DEF Typed, TypeOK, ConstantsAssumption
<1>1. CASE UNCHANGED <<now, stage, at, stamps, sent, unstamped>>
  BY <1>1, StampedKept DEF Stamped
<1>2. CASE Tick
  <2>1. now' = now + 1 /\ UNCHANGED <<stage, at, stamps, sent, unstamped>>  BY <1>2 DEF Tick
  <2>2. ASSUME NEW t \in 0..MaxTime, Past(t) PROVE Past(t)'  BY <1>0, <2>1, <2>2 DEF Past
  <2>3. \A k \in Message, t \in 0..MaxTime : Went(k, t)' <=> Went(k, t)  BY <2>1, SentSame
  <2>4. \A t \in 0..MaxTime : Recent(t)' = Recent(t)  BY <2>1 DEF Recent
  <2>5. \A k \in Message : at'[k] <= now'  BY <1>0, <2>1 DEF Stamped
  <2> QED  BY <2>1, <2>2, <2>3, <2>4, <2>5 DEF Stamped
<1>3. ASSUME NEW m \in Message, Notify(m) PROVE Stamped'
  <2>1. \A k \in Message : (stage'[k] \in {"send", "stamp"} \/ stage[k] = "stamp") => stage'[k] = stage[k]
    BY <1>3 DEF Notify, Go, Typed, TypeOK
  <2>2. UNCHANGED <<now, at, stamps, sent, unstamped>>  BY <1>3 DEF Notify
  <2> QED  BY <2>1, <2>2, StampedKept DEF Stamped
<1>4. ASSUME NEW m \in Message, Decide(m) PROVE Stamped'
  <2>1. /\ stage[m] = "queued" /\ at' = [at EXCEPT ![m] = now]
        /\ UNCHANGED <<now, stamps, sent, unstamped>>
        /\ stage'[m] \in {"send", "hold"} /\ \A k \in Message : k # m => stage'[k] = stage[k]
        /\ stage'[m] = "send" => Cardinality(Recent(now)) < MaxPerDay
    BY <1>4 DEF Decide, Go, MaySend, Typed, TypeOK
  <2>2. ASSUME NEW t \in 0..MaxTime, Past(t) PROVE Past(t)'  BY <1>0, <2>1, <2>2 DEF Past
  <2>3. \A k \in Message, t \in 0..MaxTime : Went(k, t)' <=> Went(k, t)  BY <2>1, SentSame
  <2>4. \A t \in 0..MaxTime : Recent(t)' = Recent(t)  BY <2>1 DEF Recent
  <2>5. \A k \in Message : at'[k] <= now'  BY <1>0, <2>1 DEF Stamped
  <2>6. \A k \in Message : k # m => at'[k] = at[k]  BY <1>0, <2>1
  <2>7. at'[m] = now  BY <1>0, <2>1
  <2>8. \A k \in Message, t \in 0..MaxTime : stage'[k] = "send" /\ at'[k] = t =>
           Cardinality(Recent(t)) < MaxPerDay
    BY <2>1, <2>6, <2>7 DEF Stamped
  <2>9. \A k \in Message, t \in 0..MaxTime : Went(k, t) =>
           \/ k \in unstamped \/ (stage'[k] = "stamp" /\ at'[k] = t)
           \/ <<k, t>> \in stamps \/ Past(t)
    BY <2>1, <2>6 DEF Stamped
  <2> QED  BY <2>1, <2>2, <2>3, <2>4, <2>5, <2>8, <2>9 DEF Stamped
<1>5. ASSUME NEW m \in Message, Send(m) PROVE Stamped'
  <2>1. /\ stage[m] = "send" /\ stage'[m] = "stamp"
        /\ \A k \in Message : k # m => stage'[k] = stage[k]
        /\ UNCHANGED <<now, at, stamps, unstamped>>
    BY <1>5 DEF Send, Go, Typed, TypeOK
  <2>2. ASSUME NEW t \in 0..MaxTime, Past(t) PROVE Past(t)'  BY <2>1, <2>2 DEF Past
  <2>3. \A k \in Message, t \in 0..MaxTime :
           Went(k, t)' <=> Went(k, t) \/ (k = m /\ t = at[m])
    BY <1>5, SentMore
  <2>4. \A t \in 0..MaxTime : Recent(t)' = Recent(t)  BY <2>1 DEF Recent
  <2>5. ~Gone(m)  BY <2>1 DEF SentOnce
  <2>6. \A t \in 0..MaxTime : ~Went(m, t)  BY <2>5 DEF Gone
  <2> QED  BY <2>1, <2>2, <2>3, <2>4, <2>6 DEF Stamped
<1>6. ASSUME NEW m \in Message, Stamp(m) \/ (Fail(m) /\ stage[m] = "stamp" /\ Record(m))
      PROVE  Stamped'
  <2>1. /\ stage[m] = "stamp" /\ stage'[m] \in {"done", "hold", "failed"}
        /\ \A k \in Message : k # m => stage'[k] = stage[k] /\ at'[k] = at[k]
        /\ at'[m] \in {0, now} /\ UNCHANGED <<now, sent>> /\ unstamped \subseteq unstamped'
        /\ stamps' = Recent(at[m]) \cup {<<m, at[m]>>}
    <3>1. CASE Stamp(m)  BY <3>1, <1>0 DEF Stamp, Record, Go, Typed, TypeOK
    <3>2. CASE Fail(m) /\ stage[m] = "stamp" /\ Record(m)
      BY <3>2, <1>0 DEF Fail, Record, Typed, TypeOK
    <3> QED  BY <1>6, <3>1, <3>2
  <2>2. \A k \in Message : stage'[k] \notin {"send", "stamp"}  BY <2>1, OnlyOneBegun
  <2>3. \A k \in Message, t \in 0..MaxTime : Went(k, t)' <=> Went(k, t)  BY <2>1, SentSame
  <2>4. \A k \in Message : at'[k] <= now  BY <1>0, <2>1 DEF Stamped
  <2>5. ASSUME NEW k \in Message, NEW t \in 0..MaxTime, Went(k, t)
        PROVE  k \in unstamped' \/ <<k, t>> \in stamps' \/ Past(t)'
    <3>1. at[m] <= now /\ at[m] \in 0..MaxTime  BY <1>0 DEF Stamped
    <3>2. t < now - Day => Past(t)'  BY <2>1, <2>2 DEF Past
    <3>3. CASE stage[k] = "stamp" /\ at[k] = t  BY <2>1, <3>3, OnlyOneBegun
    <3>4. CASE <<k, t>> \in stamps
      <4>1. CASE t >= at[m] - Day  BY <2>1, <3>4, <4>1 DEF Recent
      <4>2. CASE ~(t >= at[m] - Day)  BY <1>0, <3>1, <3>2, <4>2
      <4> QED  BY <4>1, <4>2
    <3>5. CASE Past(t)  BY <3>2, <3>5 DEF Past
    <3> QED  BY <2>1, <2>5, <3>3, <3>4, <3>5 DEF Stamped
  <2> QED  BY <2>1, <2>2, <2>3, <2>4, <2>5 DEF Stamped
<1>7. ASSUME NEW m \in Message, SendFails(m) \/ Hold(m) \/ Trim(m) \/ Drop(m) PROVE Stamped'
  <2>1. /\ stage[m] \in {"send", "hold", "trim", "drop"} /\ stage'[m] \in {"hold", "trim", "drop", "done"}
        /\ \A k \in Message : k # m => stage'[k] = stage[k] /\ at'[k] = at[k]
        /\ at'[m] \in {0, at[m]} /\ UNCHANGED <<now, stamps, sent, unstamped>>
    BY <1>7, <1>0 DEF SendFails, Hold, Trim, Drop, Go, Typed, TypeOK
  <2>2. \A k \in Message : at'[k] <= now  BY <1>0, <2>1 DEF Stamped
  <2> QED  BY <2>1, <2>2, StampedKept
<1>8. ASSUME NEW m \in Message, Fail(m), UNCHANGED stamps PROVE Stamped'
  <2>1. /\ stage'[m] \in {"done", "hold", "failed"}
        /\ \A k \in Message : k # m => stage'[k] = stage[k] /\ at'[k] = at[k]
        /\ at'[m] \in {0, now} /\ UNCHANGED <<now, stamps, sent>>
        /\ unstamped \subseteq unstamped' /\ (stage[m] = "stamp" => m \in unstamped')
    BY <1>8, <1>0 DEF Fail, Typed, TypeOK
  <2>2. \A k \in Message : at'[k] <= now  BY <1>0, <2>1 DEF Stamped
  <2> QED  BY <2>1, <2>2, StampedKept
<1>9. CASE Crash
  <2>1. /\ \A k \in Message : /\ stage'[k] \notin {"send", "stamp"} /\ at'[k] = 0
                              /\ stage[k] = "stamp" => k \in unstamped'
        /\ UNCHANGED <<now, stamps, sent>> /\ unstamped \subseteq unstamped'
    BY <1>9 DEF Crash, Ended
  <2>2. \A k \in Message : at'[k] <= now  BY <1>0, <2>1
  <2> QED  BY <2>1, <2>2, StampedKept
<1> QED
  BY <1>1, <1>2, <1>3, <1>4, <1>5, <1>6, <1>7, <1>8, <1>9, FailWrites
     DEF Next, Step, vars, Read, Clear, ClearFails
-----------------------------------------------------------------------------
(* The items of the digest.                                                *)

\* What an item says of its message, as the step leaves it.
LEMMA ItemsOfOthers ==
    ASSUME Typed, ItemsAreNew, UNCHANGED <<queued, sent>>,
           \A i \in queued :
              \/ /\ stage'[i.msg] = stage[i.msg]
                 /\ i.msg \in ToSet(chain') => Chained(i.msg)
              \/ stage'[i.msg] = "lost" /\ i.msg \notin ToSet(chain')
    PROVE  ItemsAreNew'
<1>1. \A i \in queued : i.msg \in Message  BY DEF Typed, Item
<1>2. \A i \in queued : Gone(i.msg)' <=> Gone(i.msg)  BY <1>1, SentSame
<1> QED  BY <1>1, <1>2 DEF ItemsAreNew, Chained

\* A message whose delivery has not come to the digest has no item there.
LEMMA NoItemYet ==
    ASSUME ItemsAreNew, NEW m \in Message,
           \/ stage[m] \in {"idle", "queued", "send", "stamp"}
           \/ stage[m] = "hold" /\ Chained(m)
    PROVE  Outcomes(m) = {}
BY DEF ItemsAreNew, Outcomes

LEMMA ItemsStep ==
    ASSUME Typed, Serial, SentOnce, ItemsAreNew, [Next]_vars PROVE ItemsAreNew'
<1> USE DEF store, history
<1>0. \A i \in queued : i.msg \in Message  BY DEF Typed, Item
<1>1. CASE UNCHANGED <<stage, chain, queued, sent>>
  BY <1>1, ItemsOfOthers DEF Chained
<1>2. ASSUME NEW m \in Message, Notify(m) PROVE ItemsAreNew'
  <2>1. /\ stage[m] = "idle" /\ stage' = [stage EXCEPT ![m] = "queued"]
        /\ chain' = Append(chain, m) /\ stage \in [Message -> Stages]
        /\ UNCHANGED <<queued, sent>>
    BY <1>2 DEF Notify, Go, Typed, TypeOK
  <2>2. chain \in Seq(Message) /\ IsInjective(chain) /\ m \notin ToSet(chain)
    BY <2>1 DEF Typed, TypeOK, Ended
  <2>3. ToSet(chain') = ToSet(chain) \cup {m}  BY <2>1, <2>2, ChainGrows
  <2>4. \A i \in queued : i.msg # m  BY <2>1, NoItemYet DEF Outcomes
  <2> QED  BY <1>0, <2>1, <2>3, <2>4, ItemsOfOthers DEF Chained
<1>3. ASSUME NEW m \in Message, Step(m) \/ Fail(m),
             \A i \in queued' : i.msg = m =>
                \/ /\ i.reason = "held" /\ ~Gone(m)'
                   /\ \/ stage'[m] \in {"trim", "drop", "done", "failed", "lost"}
                      \/ stage'[m] = "hold" /\ m \notin ToSet(chain')
                \/ /\ i.reason = "error" /\ m \notin ToSet(chain')
                   /\ stage'[m] \in {"trim", "drop", "done", "lost"}
      PROVE  ItemsAreNew'
  <2>1. \A k \in Message : k # m =>
           stage'[k] = stage[k] /\ (k \in ToSet(chain') <=> Chained(k))
    BY <1>3, Moves
  <2>2. \A k \in Message : k # m => (Gone(k)' <=> Gone(k))
    <3>1. CASE Send(m)  BY <3>1, SentMore
    <3>2. CASE ~Send(m)
      <4>1. sent' = sent
        BY <1>3, <3>2 DEF Step, Decide, SendFails, Stamp, Hold, Trim, Drop, Fail
      <4> QED  BY <4>1, SentSame
    <3> QED  BY <3>1, <3>2
  <2>3. \A i \in queued' : i.msg # m => i \in queued
    BY <1>3, FailWrites
       DEF Step, Decide, Send, SendFails, Stamp, Hold, Enqueue, ItemOf, Trim, Drop
  <2>4. \A i \in queued' : i.msg \in Message
    BY <1>0, <2>3
  <2> QED  BY <1>3, <2>1, <2>2, <2>3, <2>4 DEF ItemsAreNew, Chained
<1>4. ASSUME NEW m \in Message, Decide(m) \/ Send(m) \/ SendFails(m) \/ Stamp(m)
      PROVE  ItemsAreNew'
  <2>1. stage[m] \in {"queued", "send", "stamp"} /\ queued' = queued
    BY <1>4 DEF Decide, Send, SendFails, Stamp, Go
  <2>2. \A i \in queued : i.msg # m  BY <2>1, NoItemYet DEF Outcomes
  <2> QED  BY <1>3, <1>4, <2>1, <2>2 DEF Step
<1>5. ASSUME NEW m \in Message, Hold(m) \/ (Fail(m) /\ stage[m] = "hold" /\ Enqueue(m))
      PROVE  ItemsAreNew'
  <2>1. /\ stage[m] = "hold" /\ queued' = queued \cup {ItemOf(m)} /\ sent' = sent
        /\ \/ stage'[m] = "trim" /\ chain' = chain
           \/ /\ m \notin ToSet(chain')
              /\ stage'[m] \in IF Chained(m) THEN {"hold", "failed"} ELSE {"done"}
    <3>1. CASE Hold(m)  BY <3>1 DEF Hold, Enqueue, Go, Typed, TypeOK
    <3>2. CASE Fail(m) /\ stage[m] = "hold" /\ Enqueue(m)
      <4>1. m \notin ToSet(chain')  BY <3>2, ChainPasses DEF Fail
      <4>2. stage'[m] \in IF Chained(m) THEN {"hold", "failed"} ELSE {"done"}
        BY <3>2 DEF Fail, Typed, TypeOK
      <4> QED  BY <3>2, <4>1, <4>2 DEF Fail, Enqueue
    <3> QED  BY <1>5, <3>1, <3>2
  <2>2. Gone(m)' <=> Gone(m)  BY <2>1, SentSame
  <2>3. CASE Chained(m)
    <3>1. \A i \in queued : i.msg # m  BY <2>1, <2>3, NoItemYet DEF Outcomes
    <3>2. ~Gone(m)  BY <2>1, <2>3 DEF SentOnce
    <3>3. ItemOf(m).reason = "held"  BY <2>3 DEF ItemOf
    <3> QED  BY <1>3, <1>5, <2>1, <2>2, <2>3, <3>1, <3>2, <3>3 DEF Step
  <2>4. CASE ~Chained(m)
    <3>1. \A i \in queued : i.msg = m => i.reason = "held" /\ ~Gone(m)
      BY <2>1 DEF ItemsAreNew
    <3>2. ItemOf(m).reason = "error"  BY <2>4 DEF ItemOf
    <3> QED  BY <1>3, <1>5, <2>1, <2>2, <2>4, <3>1, <3>2 DEF Step, Chained
  <2> QED  BY <2>3, <2>4
<1>6. ASSUME NEW m \in Message, Trim(m) \/ Drop(m) \/ (Fail(m) /\ UNCHANGED queued)
      PROVE  ItemsAreNew'
  <2>1. /\ UNCHANGED <<queued, sent>>
        /\ m \in ToSet(chain') => Chained(m)
    <3>1. m \in ToSet(chain') => Chained(m)  BY <1>6, Moves DEF Step
    <3> QED  BY <1>6, <3>1 DEF Trim, Drop, Fail
  <2>2. Gone(m)' <=> Gone(m)  BY <2>1, SentSame
  <2>3. CASE Trim(m) \/ Drop(m)
    <3>1. stage'[m] \in {"drop", "done"}  BY <2>3 DEF Trim, Drop, Go, Typed, TypeOK
    <3>2. stage[m] \in {"trim", "drop"}  BY <2>3 DEF Trim, Drop, Go
    <3> QED  BY <1>3, <2>1, <2>2, <2>3, <3>1, <3>2 DEF Step, ItemsAreNew
  <2>4. CASE Fail(m)
    <3>1. /\ stage'[m] \in {"done", "hold", "failed"}
          /\ ~Chained(m) => stage'[m] = "done"
      BY <2>4 DEF Fail, Typed, TypeOK
    <3>2. stage[m] # "queued" \/ Up(m)  BY <2>4 DEF Fail
    <3>3. m \notin ToSet(chain')  BY <2>4, <3>2, ChainPasses DEF Fail
    <3> QED  BY <1>3, <2>1, <2>2, <2>4, <3>1, <3>3 DEF ItemsAreNew
  <2> QED  BY <1>6, <2>3, <2>4
<1>7. CASE Crash
  <2>1. /\ UNCHANGED <<queued, sent>> /\ chain' = <<>>
        /\ \A k \in Message : stage'[k] \in {stage[k], "lost"}
    BY <1>7 DEF Crash
  <2>2. ToSet(chain') = {}
    <3>1. <<>> \in Seq(Message) /\ DOMAIN <<>> = {}  BY EmptySeq
    <3> QED  BY <2>1, <3>1 DEF ToSet
  <2> QED  BY <1>0, <2>1, <2>2, ItemsOfOthers
<1> QED
  BY <1>1, <1>2, <1>4, <1>5, <1>6, <1>7, FailWrites
     DEF Next, Step, vars, Tick, Read, Clear, ClearFails
-----------------------------------------------------------------------------
(* What becomes of an item.                                                *)

LEMMA OutnumberedStays ==
    ASSUME IsFiniteSet(queued'), queued \subseteq queued', ConstantsAssumption,
           NEW i, Outnumbered(i)
    PROVE  Outnumbered(i)'
<1> DEFINE Newer(q) == {j \in q \ {i} : j.ts >= i.ts}
<1>1. Newer(queued) \subseteq Newer(queued') /\ Newer(queued') \subseteq queued'  OBVIOUS
<1>2. IsFiniteSet(Newer(queued'))  BY <1>1, FS_Subset
<1>3. /\ IsFiniteSet(Newer(queued))
      /\ Cardinality(Newer(queued)) <= Cardinality(Newer(queued'))
  BY <1>1, <1>2, FS_Subset
<1>4. Cardinality(Newer(queued)) \in Nat /\ Cardinality(Newer(queued')) \in Nat
  BY <1>2, <1>3, FS_CardinalityType
<1>5. QueueMax \in Nat  BY DEF ConstantsAssumption
<1>6. Cardinality(Newer(queued)) >= QueueMax  BY DEF Outnumbered
<1>7. Cardinality(Newer(queued')) >= QueueMax  BY <1>3, <1>4, <1>5, <1>6
<1> QED  BY <1>7 DEF Outnumbered

\* What a trim chooses is older than a digest's length of items.
LEMMA OldestAreOutnumbered ==
    ASSUME Typed, Cardinality(digest) > QueueMax,
           NEW old \in Oldest(digest, Cardinality(digest) - QueueMax), NEW i \in old
    PROVE  Outnumbered(i)
<1>1. /\ old \subseteq digest /\ Cardinality(old) = Cardinality(digest) - QueueMax
      /\ \A j \in digest \ old : i.ts <= j.ts
  BY DEF Oldest
<1>2. QueueMax \in Nat  BY ConstantsAssumption DEF ConstantsAssumption
<1>3. digest \subseteq queued /\ IsFiniteSet(digest) /\ IsFiniteSet(old)
  BY <1>1, FS_Subset DEF Typed
<1>4. digest \cap old = old  BY <1>1
<1>5. /\ IsFiniteSet(digest \ old)
      /\ Cardinality(digest \ old) = Cardinality(digest) - Cardinality(old)
  BY <1>3, <1>4, FS_Difference
<1>6. Cardinality(digest \ old) = QueueMax
  <2>1. Cardinality(digest) \in Nat  BY <1>3, FS_CardinalityType
  <2> QED  BY <1>1, <1>2, <1>5, <2>1
<1> DEFINE Newer == {j \in queued \ {i} : j.ts >= i.ts}
<1>7. digest \ old \subseteq Newer
  <2> SUFFICES ASSUME NEW j \in digest \ old PROVE j \in Newer  OBVIOUS
  <2>1. j \in queued /\ j # i /\ i.ts <= j.ts  BY <1>1, <1>3
  <2>2. i.ts \in Int /\ j.ts \in Int
    BY <1>1, <1>3, ConstantsAssumption DEF Typed, Item, ConstantsAssumption
  <2> QED  BY <2>1, <2>2
<1>8. IsFiniteSet(Newer)
  <2>1. Newer \subseteq queued  OBVIOUS
  <2> QED  BY <2>1, FS_Subset DEF Typed
<1>9. Cardinality(digest \ old) <= Cardinality(Newer)  BY <1>7, <1>8, FS_Subset
<1>10. Cardinality(Newer) \in Nat  BY <1>8, FS_CardinalityType
<1>11. Cardinality(Newer) >= QueueMax  BY <1>2, <1>6, <1>9, <1>10
<1> QED  BY <1>11 DEF Outnumbered

LEMMA KeptStep ==
    ASSUME Typed, Serial, SentOnce, Kept, Typed', [Next]_vars PROVE Kept'
<1> USE DEF store, history
<1>1. queued \subseteq queued' /\ IsFiniteSet(queued')
  <2>1. \A m \in Message : Fail(m) => queued \subseteq queued'  BY FailWrites DEF Enqueue
  <2> QED
    BY <2>1 DEF Next, vars, Tick, Crash, Notify, Step, Decide, Send, SendFails, Stamp, Hold,
                Enqueue, Trim, Drop, Read, Clear, ClearFails, Typed
<1>2. \A i \in Item : Outnumbered(i) => Outnumbered(i)'
  BY <1>1, OutnumberedStays, ConstantsAssumption
<1>3. shown \subseteq shown' /\ gaveUp \subseteq gaveUp' /\ unseen \subseteq unseen'
  BY DEF Next, vars, Tick, Crash, Notify, Step, Decide, Send, SendFails, Stamp, Hold, Trim,
         Drop, Fail, Read, Clear, ClearFails
<1>4. \A k \in Message : Gone(k) => Gone(k)'
  <2>1. CASE \E m \in Message : Send(m)  BY <2>1, SentMore
  <2>2. CASE ~\E m \in Message : Send(m)
    <3>1. sent' = sent
      BY <2>2 DEF Next, vars, Tick, Crash, Notify, Step, Decide, SendFails, Stamp, Hold, Trim,
                  Drop, Fail, Read, Clear, ClearFails
    <3> QED  BY <3>1, SentSame
  <2> QED  BY <2>1, <2>2
<1>5. \A k \in Message : Outcomes(k) # {} => Outcomes(k)' # {}  BY <1>1 DEF Outcomes
<1>6. queued \subseteq Item /\ \A m \in Message : excess[m] \subseteq Item
  BY DEF Typed, TypeOK
\* Where the items are.
<1>7. ASSUME queued' = queued,
             \A i \in digest : i \in digest' \/ i \in unseen' \/ Outnumbered(i)
                                 \/ \E d \in Drain : <<i, d>> \in shown'
      PROVE  \A i \in queued' :
                \/ i \in digest' \/ i \in unseen'
                \/ (\E d \in Drain : <<i, d>> \in shown') \/ Outnumbered(i)'
  BY <1>2, <1>3, <1>6, <1>7 DEF Kept
\* What is about to go, and what the stages say.
<1>8. ASSUME \A m \in Message : \A i \in excess'[m] : i \in excess[m] \/ (i \in Item /\ Outnumbered(i)),
             \A m \in Message :
                \/ stage'[m] = stage[m]
                \/ stage'[m] \in {"idle", "queued", "send", "stamp", "hold", "failed", "lost"}
                \/ /\ stage'[m] = "done"
                   /\ m \in gaveUp' \/ stage[m] \in {"stamp", "trim", "drop"}
                \/ stage'[m] \in {"trim", "drop"} /\ Outcomes(m)' # {},
             \A i \in queued' :
                \/ i \in digest' \/ i \in unseen'
                \/ (\E d \in Drain : <<i, d>> \in shown') \/ Outnumbered(i)'
      PROVE  Kept'
  <2>1. \A m \in Message : \A i \in excess'[m] : Outnumbered(i)'
    BY <1>2, <1>6, <1>8 DEF Kept
  <2>2. \A m \in Message : stage'[m] \in {"trim", "drop"} => Outcomes(m)' # {}
    BY <1>5, <1>8 DEF Kept
  <2>3. \A m \in Message : stage'[m] = "done" /\ m \notin gaveUp' =>
           Gone(m)' \/ Outcomes(m)' # {}
    BY <1>3, <1>4, <1>5, <1>8 DEF Kept, SentOnce
  <2> QED  BY <1>8, <2>1, <2>2, <2>3 DEF Kept
<1>9. CASE UNCHANGED <<digest, queued, excess, stage>>  BY <1>7, <1>8, <1>9
<1>10. ASSUME NEW m \in Message, Notify(m) PROVE Kept'
  <2>1. \A k \in Message : stage'[k] = stage[k] \/ stage'[k] = "queued"
    BY <1>10 DEF Notify, Go, Typed, TypeOK
  <2>2. UNCHANGED <<digest, queued, excess>>  BY <1>10 DEF Notify
  <2> QED  BY <1>7, <1>8, <2>1, <2>2
<1>11. ASSUME NEW m \in Message, Decide(m) \/ Send(m) \/ SendFails(m) \/ Stamp(m) PROVE Kept'
  <2>1. \A k \in Message : \/ stage'[k] = stage[k] \/ stage'[k] \in {"send", "hold", "stamp"}
                           \/ stage'[k] = "done" /\ stage[k] = "stamp"
    BY <1>11 DEF Decide, Send, SendFails, Stamp, Go, Typed, TypeOK
  <2>2. UNCHANGED <<digest, queued, excess>>  BY <1>11 DEF Decide, Send, SendFails, Stamp
  <2> QED  BY <1>7, <1>8, <2>1, <2>2
\* Where they are once one more is queued.
<1>e. ASSUME NEW m \in Message, Enqueue(m)
       PROVE  /\ Outcomes(m)' # {}
              /\ \A i \in queued' :
                    \/ i \in digest' \/ i \in unseen'
                    \/ (\E d \in Drain : <<i, d>> \in shown') \/ Outnumbered(i)'
  <2>1. queued' = queued \cup {ItemOf(m)} /\ digest' = digest \cup {ItemOf(m)}
    BY <1>e DEF Enqueue
  <2>2. ItemOf(m) \in queued' /\ ItemOf(m).msg = m  BY <2>1 DEF ItemOf
  <2>3. Outcomes(m)' # {}  BY <2>2 DEF Outcomes
  <2> QED  BY <1>2, <1>3, <1>6, <2>1, <2>3 DEF Kept
<1>12. ASSUME NEW m \in Message, Hold(m) PROVE Kept'
  <2>1. stage' = [stage EXCEPT ![m] = "trim"] /\ excess' = excess /\ Enqueue(m)
    BY <1>12 DEF Hold, Go
  <2>2. \A k \in Message : stage'[k] = stage[k] \/ (k = m /\ stage'[k] = "trim")
    BY <2>1 DEF Typed, TypeOK
  <2> QED  BY <1>8, <1>e, <2>1, <2>2
<1>13. ASSUME NEW m \in Message, Trim(m) PROVE Kept'
  <2>1. stage[m] = "trim" /\ UNCHANGED <<digest, queued>>  BY <1>13 DEF Trim
  <2>2. Outcomes(m)' # {}  BY <1>5, <2>1 DEF Kept
  <2>3. \A k \in Message :
           stage'[k] = stage[k] \/ (k = m /\ stage'[k] \in {"done", "drop"})
    BY <1>13 DEF Trim, Typed, TypeOK
  <2>4. \A k \in Message : \A i \in excess'[k] :
           i \in excess[k] \/ (i \in Item /\ Outnumbered(i))
    <3>1. CASE Cardinality(digest) <= QueueMax  BY <1>13, <3>1 DEF Trim
    <3>2. CASE ~(Cardinality(digest) <= QueueMax)
      <4>1. PICK old \in Oldest(digest, Cardinality(digest) - QueueMax) :
               excess' = [excess EXCEPT ![m] = old]
        BY <1>13, <3>2 DEF Trim
      <4>2. \A k \in Message : excess'[k] = IF k = m THEN old ELSE excess[k]
        BY <4>1 DEF Typed
      <4>3. Cardinality(digest) > QueueMax
        <5>1. IsFiniteSet(digest)  BY FS_Subset DEF Typed
        <5>2. Cardinality(digest) \in Nat /\ QueueMax \in Nat
          BY <5>1, FS_CardinalityType, ConstantsAssumption DEF ConstantsAssumption
        <5> QED  BY <3>2, <5>2
      <4>4. \A i \in old : i \in Item /\ Outnumbered(i)
        BY <4>3, OldestAreOutnumbered DEF Oldest, Typed, TypeOK
      <4> QED  BY <4>2, <4>4
    <3> QED  BY <3>1, <3>2
  <2> QED  BY <1>7, <1>8, <2>1, <2>2, <2>3, <2>4
<1>14. ASSUME NEW m \in Message, Drop(m) PROVE Kept'
  <2>1. /\ stage[m] = "drop" /\ digest' = digest \ excess[m] /\ queued' = queued
    BY <1>14 DEF Drop, Prune, Go
  <2>2. \A k \in Message : stage'[k] = stage[k] \/ (k = m /\ stage'[k] = "done")
    BY <1>14 DEF Drop, Go, Typed, TypeOK
  <2>3. \A k \in Message : excess'[k] \subseteq excess[k]
    BY <1>14 DEF Drop, Typed
  <2>4. \A i \in digest : i \in digest' \/ Outnumbered(i)  BY <2>1 DEF Kept
  <2> QED  BY <1>7, <1>8, <2>1, <2>2, <2>3, <2>4
<1>15. ASSUME NEW m \in Message, Fail(m) PROVE Kept'
  <2>1. \A i \in queued' :
           \/ i \in digest' \/ i \in unseen'
           \/ (\E d \in Drain : <<i, d>> \in shown') \/ Outnumbered(i)'
    <3>1. CASE UNCHANGED <<digest, queued>>  BY <1>7, <3>1
    <3>2. CASE Enqueue(m)  BY <1>e, <3>2
    <3>3. CASE Prune(m) /\ UNCHANGED queued
      <4>1. \A i \in digest : i \in digest' \/ Outnumbered(i)  BY <3>3 DEF Prune, Kept
      <4> QED  BY <1>7, <3>3, <4>1
    <3> QED  BY <1>15, <3>1, <3>2, <3>3, FailWrites
  <2>2. \A k \in Message : \/ stage'[k] = stage[k] \/ stage'[k] \in {"hold", "failed"}
                           \/ stage'[k] = "done" /\ k \in gaveUp'
    BY <1>15 DEF Fail, Typed, TypeOK
  <2>3. \A k \in Message : excess'[k] \subseteq excess[k]
    BY <1>15 DEF Fail, Typed
  <2> QED  BY <1>8, <2>1, <2>2, <2>3
<1>16. ASSUME NEW d \in Drain, Read(d) \/ Clear(d) \/ ClearFails(d) PROVE Kept'
  <2>1. UNCHANGED <<queued, excess, stage>>  BY <1>16 DEF Read, Clear, ClearFails
  <2>2. \A i \in digest : i \in digest' \/ i \in unseen' \/ \E e \in Drain : <<i, e>> \in shown'
    BY <1>16 DEF Read, Clear, ClearFails, Cleared
  <2> QED  BY <1>7, <1>8, <2>1, <2>2
<1>17. CASE Crash
  <2>1. UNCHANGED <<digest, queued>>  BY <1>17 DEF Crash
  <2>2. \A k \in Message : stage'[k] \in {stage[k], "lost"} /\ excess'[k] = {}
    BY <1>17 DEF Crash
  <2> QED  BY <1>7, <1>8, <2>1, <2>2
<1> QED
  BY <1>9, <1>10, <1>11, <1>12, <1>13, <1>14, <1>15, <1>16, <1>17
     DEF Next, Step, vars, Tick

LEMMA ShownStep ==
    ASSUME Typed, ItemsAreNew, ShownOnce, [Next]_vars PROVE ShownOnce'
<1> USE DEF store, history, Reading
<1>0. /\ drain \in [Drain -> [stage : {"none", "read", "over"}, items : SUBSET queued]]
      /\ \A s \in shown : s[1] \in queued /\ s[2] \in Drain
  BY DEF Typed
<1>1. ASSUME UNCHANGED <<drain, shown, overlap>>, \A s \in shown : s[1] \in digest' => s[1] \in digest
      PROVE  ShownOnce'
  BY <1>1 DEF ShownOnce
<1>2. ASSUME NEW m \in Message, stage[m] = "hold", Enqueue(m), UNCHANGED <<drain, shown, overlap>>
      PROVE  ShownOnce'
  <2>1. ItemOf(m) \notin queued
    <3>1. ItemOf(m).msg = m /\ ItemOf(m).reason = IF Chained(m) THEN "held" ELSE "error"
      BY DEF ItemOf
    <3> QED  BY <1>2, <3>1 DEF ItemsAreNew
  <2>2. digest' = digest \cup {ItemOf(m)}  BY <1>2 DEF Enqueue
  <2> QED  BY <1>0, <1>1, <1>2, <2>1, <2>2
<1>3. ASSUME NEW d \in Drain, Read(d) PROVE ShownOnce'
  <2>1. /\ drain[d].stage = "none" /\ UNCHANGED <<digest, shown>>
        /\ overlap' = overlap \cup {{d, e} : e \in {f \in Drain : drain[f].stage = "read"}}
    BY <1>3 DEF Read
  <2>2. \A e \in Drain : e # d => drain'[e] = drain[e]  BY <1>0, <1>3 DEF Read
  <2>3. drain'[d].items \in {{}, digest}  BY <1>0, <1>3 DEF Read, Over
  <2>4. \A e, f \in Drain : e # f /\ drain'[e].stage = "read" /\ drain'[f].stage = "read" =>
           {e, f} \in overlap'
    <3> SUFFICES ASSUME NEW e \in Drain, NEW f \in Drain, e # f,
                        drain'[e].stage = "read", drain'[f].stage = "read"
                 PROVE  {e, f} \in overlap'
      OBVIOUS
    <3>1. CASE e = d  BY <2>1, <2>2, <3>1
    <3>2. CASE f = d
      <4>1. {e, f} = {d, e}  BY <3>2
      <4> QED  BY <2>1, <2>2, <3>2, <4>1
    <3>3. CASE e # d /\ f # d  BY <2>1, <2>2, <3>3 DEF ShownOnce
    <3> QED  BY <3>1, <3>2, <3>3
  <2>5. ASSUME NEW e \in Drain, NEW f \in Drain, NEW i \in drain'[e].items,
               drain'[e].stage = "read", e # f, <<i, f>> \in shown
        PROVE  {e, f} \in overlap'
    <3>1. CASE e = d  BY <2>3, <2>5, <3>1 DEF ShownOnce
    <3>2. CASE e # d  BY <2>1, <2>2, <2>5, <3>2 DEF ShownOnce
    <3> QED  BY <3>1, <3>2
  <2> QED  BY <2>1, <2>4, <2>5 DEF ShownOnce
<1>4. ASSUME NEW d \in Drain, Clear(d) PROVE ShownOnce'
  <2>1. /\ drain[d].stage = "read" /\ drain' = [drain EXCEPT ![d] = Over] /\ overlap' = overlap
        /\ digest' = digest \ drain[d].items /\ shown' = shown \cup (drain[d].items \X {d})
    BY <1>4 DEF Clear, Cleared
  <2>2. /\ \A e \in Drain : drain'[e].stage = "read" => e # d /\ drain'[e] = drain[e]
    BY <1>0, <2>1 DEF Over
  <2>3. \A s \in shown' : s \in shown \/ (s[1] \in drain[d].items /\ s[2] = d)  BY <2>1
  <2>4. \A s \in shown' : s[1] \notin digest'  BY <2>1, <2>3 DEF ShownOnce
  <2>5. \A r, s \in shown' : r[1] = s[1] /\ r[2] # s[2] => {r[2], s[2]} \in overlap
    <3> SUFFICES ASSUME NEW r \in shown', NEW s \in shown', r[1] = s[1], r[2] # s[2]
                 PROVE  {r[2], s[2]} \in overlap
      OBVIOUS
    <3>1. CASE r \in shown /\ s \in shown  BY <3>1 DEF ShownOnce
    <3>2. ASSUME NEW p \in shown, NEW q \in shown', q \notin shown, p[1] = q[1], p[2] # q[2]
          PROVE  {d, p[2]} \in overlap /\ q[2] = d
      <4>1. q[1] \in drain[d].items /\ q[2] = d  BY <2>3, <3>2
      <4>2. p = <<p[1], p[2]>> /\ p[2] \in Drain  BY DEF Typed
      <4>3. <<q[1], p[2]>> \in shown  BY <3>2, <4>2
      <4> QED  BY <2>1, <3>2, <4>1, <4>2, <4>3 DEF ShownOnce
    <3>3. CASE r \in shown /\ s \notin shown
      <4>1. {d, r[2]} \in overlap /\ s[2] = d  BY <3>2, <3>3
      <4>2. {r[2], s[2]} = {d, r[2]}  BY <4>1
      <4> QED  BY <4>1, <4>2
    <3>4. CASE r \notin shown /\ s \in shown
      <4>1. {d, s[2]} \in overlap /\ r[2] = d  BY <3>2, <3>4
      <4> QED  BY <4>1
    <3>5. CASE r \notin shown /\ s \notin shown  BY <2>3, <3>5
    <3> QED  BY <3>1, <3>3, <3>4, <3>5
  <2>6. ASSUME NEW e \in Drain, NEW f \in Drain, NEW i \in drain'[e].items,
               drain'[e].stage = "read", e # f, <<i, f>> \in shown'
        PROVE  {e, f} \in overlap
    <3>1. e # d /\ drain'[e] = drain[e]  BY <2>2, <2>6
    <3>2. CASE <<i, f>> \in shown  BY <2>6, <3>1, <3>2 DEF ShownOnce
    <3>3. CASE f = d  BY <2>1, <2>6, <3>1, <3>3 DEF ShownOnce
    <3> QED  BY <2>1, <2>6, <3>2, <3>3
  <2> QED  BY <2>1, <2>2, <2>4, <2>5, <2>6 DEF ShownOnce
<1>5. ASSUME NEW d \in Drain, ClearFails(d) PROVE ShownOnce'
  <2>1. UNCHANGED <<shown, overlap>> /\ digest' \subseteq digest  BY <1>5 DEF ClearFails
  <2>2. \A e \in Drain : drain'[e].stage = "read" => drain'[e] = drain[e]
    BY <1>0, <1>5 DEF ClearFails, Over
  <2> QED  BY <2>1, <2>2 DEF ShownOnce
<1>6. CASE Crash
  <2>1. UNCHANGED <<digest, shown, overlap>>  BY <1>6 DEF Crash
  <2>2. \A e \in Drain : drain'[e].stage # "read"  BY <1>0, <1>6 DEF Crash, Over
  <2> QED  BY <2>1, <2>2 DEF ShownOnce
<1>7. ASSUME NEW m \in Message, Step(m) \/ Fail(m) \/ Notify(m) PROVE ShownOnce'
  <2>1. UNCHANGED <<drain, shown, overlap>>
    BY <1>7 DEF Notify, Step, Decide, Send, SendFails, Stamp, Hold, Trim, Drop, Fail
  <2>2. digest' \subseteq digest \/ (stage[m] = "hold" /\ Enqueue(m))
    BY <1>7, FailWrites DEF Notify, Step, Decide, Send, SendFails, Stamp, Hold, Trim, Drop, Prune, Go
  <2> QED  BY <1>1, <1>2, <2>1, <2>2
<1>8. CASE Tick \/ UNCHANGED vars
  <2>1. UNCHANGED <<drain, shown, overlap, digest>>  BY <1>8 DEF Tick, vars
  <2> QED  BY <1>1, <2>1
<1> QED  BY <1>3, <1>4, <1>5, <1>6, <1>7, <1>8 DEF Next
-----------------------------------------------------------------------------
(* The theorems.                                                           *)

LEMMA InvInit == Init => IInv
<1> SUFFICES ASSUME Init PROVE IInv  OBVIOUS
<1>1. /\ <<>> \in Seq(Message) /\ <<>> \in Seq(Message \X (0..MaxTime))
      /\ DOMAIN <<>> = {}
  BY EmptySeq
<1>2. IsFiniteSet({})  BY FS_EmptySet
<1>3. /\ 0 \in 0..MaxTime /\ 0 \in 0..MaxMishaps
  BY ConstantsAssumption DEF ConstantsAssumption
<1>4. ToSet(chain) = {} /\ IsInjective(chain)  BY <1>1 DEF Init, ToSet, IsInjective
<1>5. TypeOK  BY <1>3, <1>4 DEF Init, TypeOK, Stages, Ended
<1>6. Typed  BY <1>1, <1>2, <1>5 DEF Init, Typed
<1>7. \A k \in Message, t \in 0..MaxTime : ~Went(k, t)  BY <1>1 DEF Init, Went
<1>8. \A k \in Message : ~Gone(k)  BY <1>7 DEF Gone
<1>9. Serial  BY <1>4 DEF Init, Serial, Chained
<1>10. SentOnce  BY <1>1, <1>8 DEF Init, SentOnce
<1>11. Stamped  BY <1>3, <1>7 DEF Init, Stamped
<1>12. ItemsAreNew /\ Kept /\ ShownOnce  BY DEF Init, ItemsAreNew, Kept, ShownOnce, Reading
<1> QED  BY <1>6, <1>9, <1>10, <1>11, <1>12 DEF IInv

LEMMA Invariance == Spec => []IInv
<1>1. IInv /\ [Next]_vars => IInv'
  BY TypedStep, SerialStep, SentOnceStep, StampedStep, ItemsStep, KeptStep, ShownStep DEF IInv
<1> QED  BY <1>1, InvInit, PTL DEF Spec

(* The variables keep their types, and what is on the chain is under way   *)
(* (NotificationService.ts:188-200).                                       *)
THEOREM TypeCorrect == Spec => []TypeOK
<1>1. IInv => TypeOK  BY DEF IInv, Typed
<1> QED  BY <1>1, Invariance, PTL

(* A message that was taken reaches the owner, waits in the digest, was    *)
(* shown from it or made room for newer ones, unless writing it down       *)
(* failed a second time or a drain deleted it by an update that was        *)
(* reported as failed: whatever deliveries, rescues, drains and crashes    *)
(* there have been, and whether or not the failing writes of deliveries    *)
(* took effect (NotificationService.ts:159-177, 274-310, 345-392).         *)
THEOREM NothingIsLost == Spec => []NothingLost
<1>1. IInv => NothingLost
  <2> SUFFICES ASSUME IInv, NEW m \in Message, stage[m] = "done", m \notin gaveUp
               PROVE  \/ \E i \in DOMAIN sent : sent[i][1] = m
                      \/ \E i \in Outcomes(m) :
                            \/ i \in digest \/ i \in unseen \/ \E d \in Drain : <<i, d>> \in shown
                            \/ Cardinality({j \in queued \ {i} : j.ts >= i.ts}) >= QueueMax
    BY DEF NothingLost
  <2>1. Gone(m) \/ Outcomes(m) # {}  BY DEF IInv, Kept
  <2>2. Gone(m) => \E i \in DOMAIN sent : sent[i][1] = m  BY DEF Gone, Went
  <2>3. \A i \in Outcomes(m) :
           \/ i \in digest \/ i \in unseen \/ (\E d \in Drain : <<i, d>> \in shown)
           \/ Cardinality({j \in queued \ {i} : j.ts >= i.ts}) >= QueueMax
    BY DEF IInv, Kept, Outcomes, Outnumbered
  <2> QED  BY <2>1, <2>2, <2>3
<1> QED  BY <1>1, Invariance, PTL

(* What was sent is not shown from the digest as well, and what one drain  *)
(* has shown no other drain shows, unless they ran at the same time        *)
(* (NotificationService.ts:202-262, 274-310).                              *)
THEOREM EverythingOnce == Spec => []ReportedOnce
<1>1. IInv => ReportedOnce
  <2> SUFFICES ASSUME IInv PROVE ReportedOnce  OBVIOUS
  <2>1. ASSUME NEW s \in shown, s[1].reason = "held", NEW k \in DOMAIN sent
        PROVE  sent[k][1] # s[1].msg
    <3>1. s[1] \in queued  BY DEF IInv, Typed
    <3>2. ~Gone(s[1].msg)  BY <2>1, <3>1 DEF IInv, ItemsAreNew
    <3>3. Gone(sent[k][1])  BY GoneByIndex DEF IInv
    <3> QED  BY <3>2, <3>3
  <2> QED  BY <2>1 DEF IInv, ShownOnce, ReportedOnce
<1> QED  BY <1>1, Invariance, PTL

Counted(i) == {j \in 1..i - 1 : sent[j][2] >= sent[i][2] - Day /\ sent[j][1] \notin unstamped}

\* The window of a message sent is finite, and loses what was not stamped.
LEMMA CountedShrinks ==
    ASSUME NEW i \in Nat, \A j \in 1..i : sent'[j] = sent[j],
           unstamped \subseteq unstamped', Cardinality(Counted(i)) < MaxPerDay, i # 0
    PROVE  Cardinality({j \in 1..i - 1 : sent'[j][2] >= sent'[i][2] - Day
                                           /\ sent'[j][1] \notin unstamped'}) < MaxPerDay
<1> DEFINE New == {j \in 1..i - 1 : sent'[j][2] >= sent'[i][2] - Day /\ sent'[j][1] \notin unstamped'}
<1>1. IsFiniteSet(1..i - 1)  BY FS_Interval
<1>2. Counted(i) \subseteq 1..i - 1  BY DEF Counted
<1>3. New \subseteq Counted(i)
  <2> SUFFICES ASSUME NEW j \in New PROVE j \in Counted(i)  OBVIOUS
  <2>1. j \in 1..i - 1 /\ j \in 1..i /\ i \in 1..i  OBVIOUS
  <2>2. sent'[j] = sent[j] /\ sent'[i] = sent[i]  BY <2>1
  <2> QED  BY <2>1, <2>2 DEF Counted
<1>4. IsFiniteSet(Counted(i))  BY <1>1, <1>2, FS_Subset
<1>5. IsFiniteSet(New) /\ Cardinality(New) <= Cardinality(Counted(i))
  BY <1>3, <1>4, FS_Subset
<1>6. Cardinality(New) \in Nat /\ Cardinality(Counted(i)) \in Nat /\ MaxPerDay \in Nat
  BY <1>4, <1>5, FS_CardinalityType, ConstantsAssumption DEF ConstantsAssumption
<1>7. Cardinality(New) < MaxPerDay  BY <1>5, <1>6
<1> QED  BY <1>7

\* Whoever sends has counted every message that a window can reach.
LEMMA SendIsCounted ==
    ASSUME Typed, Serial, SentOnce, Stamped, NEW m \in Message, Send(m)
    PROVE  Cardinality({j \in 1..Len(sent) : sent[j][2] >= at[m] - Day
                                               /\ sent[j][1] \notin unstamped}) < MaxPerDay
<1> DEFINE J == {j \in 1..Len(sent) : sent[j][2] >= at[m] - Day /\ sent[j][1] \notin unstamped}
           f == [j \in J |-> sent[j]]
<1>1. stage[m] = "send" /\ at[m] \in 0..MaxTime /\ DOMAIN sent = 1..Len(sent)
  BY SentMore DEF Send, Go, Typed, TypeOK
<1>2. Cardinality(Recent(at[m])) < MaxPerDay  BY <1>1 DEF Stamped
<1>3. IsFiniteSet(Recent(at[m]))
  <2>1. Recent(at[m]) \subseteq stamps  BY DEF Recent
  <2> QED  BY <2>1, FS_Subset DEF Typed
<1>4. \A j \in J : sent[j] \in Recent(at[m])
  <2> SUFFICES ASSUME NEW j \in J PROVE sent[j] \in Recent(at[m])  OBVIOUS
  <2>1. j \in DOMAIN sent /\ sent[j][2] >= at[m] - Day /\ sent[j][1] \notin unstamped
    BY <1>1
  <2>2. PICK k \in Message, t \in 0..MaxTime : sent[j] = <<k, t>> /\ Went(k, t)
    BY <2>1, GoneByIndex
  <2>3. t >= at[m] - Day /\ k \notin unstamped  BY <2>1, <2>2
  <2>4. ~Past(t)
    <3>1. Past(t) => t < at[m] - Day  BY <1>1 DEF Past
    <3>2. Day \in Nat /\ MaxTime \in Nat  BY ConstantsAssumption DEF ConstantsAssumption
    <3> QED  BY <1>1, <2>3, <3>1, <3>2
  <2>5. stage[k] # "stamp"  BY <1>1, OnlyOneBegun
  <2>6. <<k, t>> \in stamps  BY <2>2, <2>3, <2>4, <2>5 DEF Stamped
  <2> QED  BY <2>2, <2>3, <2>6 DEF Recent
<1>5. f \in Injection(J, Recent(at[m]))
  <2>1. f \in [J -> Recent(at[m])]  BY <1>4
  <2>2. IsInjective(f)
    <3> SUFFICES ASSUME NEW a \in J, NEW b \in J, f[a] = f[b] PROVE a = b  BY DEF IsInjective
    <3>1. sent[a] = sent[b] /\ a \in DOMAIN sent /\ b \in DOMAIN sent  BY <1>1
    <3> QED  BY <3>1 DEF SentOnce
  <2> QED  BY <2>1, <2>2 DEF Injection
<1>6. IsFiniteSet(J) /\ Cardinality(J) <= Cardinality(Recent(at[m]))
  <2> HIDE DEF f, J
  <2> QED  BY <1>3, <1>5, FS_Injection
<1>7. /\ Cardinality(J) \in Nat /\ Cardinality(Recent(at[m])) \in Nat /\ MaxPerDay \in Nat
  BY <1>3, <1>6, FS_CardinalityType, ConstantsAssumption DEF ConstantsAssumption
<1>8. Cardinality(J) < MaxPerDay  BY <1>2, <1>6, <1>7
<1> QED  BY <1>8

LEMMA CapStep == ASSUME IInv, CapKept, [Next]_vars PROVE CapKept'
<1> USE DEF store, history
<1>1. unstamped \subseteq unstamped'
  BY DEF Next, vars, Tick, Crash, Notify, Step, Decide, Send, SendFails, Stamp, Hold, Trim,
         Drop, Fail, Read, Clear, ClearFails
<1>2. DOMAIN sent = 1 .. Len(sent) /\ Len(sent) \in Nat  BY LenProperties DEF IInv, Typed
<1>3. CASE UNCHANGED sent
  <2> SUFFICES ASSUME NEW i \in DOMAIN sent
               PROVE  Cardinality({j \in 1..i - 1 : sent'[j][2] >= sent'[i][2] - Day
                                           /\ sent'[j][1] \notin unstamped'}) < MaxPerDay
    BY <1>3 DEF CapKept
  <2>1. i \in Nat /\ i # 0  BY <1>2
  <2>2. Cardinality(Counted(i)) < MaxPerDay  BY DEF CapKept, Counted
  <2> QED  BY <1>1, <1>3, <2>1, <2>2, CountedShrinks
<1>4. ASSUME NEW m \in Message, Send(m) PROVE CapKept'
  <2>1. /\ DOMAIN sent' = 1 .. Len(sent) + 1 /\ sent'[Len(sent) + 1] = <<m, at[m]>>
        /\ \A i \in 1 .. Len(sent) : sent'[i] = sent[i]
    BY <1>4, SentMore DEF IInv
  <2>2. unstamped' = unstamped  BY <1>4 DEF Send
  <2> SUFFICES ASSUME NEW i \in 1 .. Len(sent) + 1
               PROVE  Cardinality({j \in 1..i - 1 : sent'[j][2] >= sent'[i][2] - Day
                                           /\ sent'[j][1] \notin unstamped'}) < MaxPerDay
    BY <2>1 DEF CapKept
  <2>3. CASE i \in 1 .. Len(sent)
    <3>1. i \in Nat /\ i # 0 /\ \A j \in 1..i : sent'[j] = sent[j]  BY <1>2, <2>1, <2>3
    <3>2. Cardinality(Counted(i)) < MaxPerDay  BY <1>2, <2>3 DEF CapKept, Counted
    <3> QED  BY <1>1, <3>1, <3>2, CountedShrinks
  <2>4. CASE i = Len(sent) + 1
    <3>1. {j \in 1..i - 1 : sent'[j][2] >= sent'[i][2] - Day /\ sent'[j][1] \notin unstamped'}
            = {j \in 1..Len(sent) : sent[j][2] >= at[m] - Day /\ sent[j][1] \notin unstamped}
      <4>1. 1..i - 1 = 1..Len(sent) /\ sent'[i] = <<m, at[m]>>  BY <1>2, <2>1, <2>4
      <4> QED  BY <2>1, <2>2, <4>1
    <3> QED  BY <1>4, <3>1, SendIsCounted DEF IInv
  <2> QED  BY <1>2, <2>3, <2>4
<1> QED
  BY <1>3, <1>4 DEF Next, vars, Tick, Crash, Notify, Step, Decide, SendFails, Stamp, Hold, Trim,
                    Drop, Fail, Read, Clear, ClearFails

(* No message is sent when as many as the cap allows were sent in the day  *)
(* before, in however many processes and whatever failed, counting all but *)
(* those whose stamp could not be written (NotificationService.ts:188-251, *)
(* 331-343).                                                               *)
THEOREM CapIsKept == Spec => []CapKept
<1>1. Init => CapKept
  <2> SUFFICES ASSUME Init PROVE CapKept  OBVIOUS
  <2>1. DOMAIN <<>> = {}  BY EmptySeq
  <2> QED  BY <2>1 DEF Init, CapKept
<1>2. IInv /\ CapKept /\ [Next]_vars => CapKept'  BY CapStep
<1> QED  BY <1>1, <1>2, Invariance, PTL DEF Spec
=============================================================================
