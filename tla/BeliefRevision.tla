--------------------------- MODULE BeliefRevision ---------------------------
(***************************************************************************)
(* Belief revision of the knowledge engine: several request chains store,  *)
(* promote or retract values of ONE functional property of ONE subject in  *)
(* one user's graph.                                                       *)
(*                                                                         *)
(* Every action is what a chain does between two awaits: one query or one  *)
(* update of the triplestore, or one answer of the reasoner.  Nothing in   *)
(* the code orders two chains (batch() of the triplestore coalesces their  *)
(* flushes, it does not exclude them), so the actions of different chains  *)
(* interleave freely.  overlapped, a history variable, remembers whether   *)
(* any two of them did: what a single chain establishes is claimed of the  *)
(* behaviours in which none did.                                           *)
(*                                                                         *)
(* The claim a chain stores is identified with the chain.  Of everything   *)
(* the values imply, one derived triple is modelled: it follows from each  *)
(* value in Supporting.                                                    *)
(***************************************************************************)
EXTENDS FiniteSets, Naturals

CONSTANTS
    Chain,       \* the requests, each with the claim it may store
    NoChain,     \* "superseded by nobody"
    Value,       \* the objects the property can have
    Supporting,  \* the values the derived triple follows from
    Kinds,       \* which requests there are
    Faults,      \* the failures that may happen, each at most once
    MaxFaults,   \* a bound: of these, no more than this happen
    Overlapping  \* a bound: once two requests overlap, no more than this are made

AllKinds  == {"store", "promote", "retract"}
AllFaults == {"lookup", "read", "reason", "unheard", "chain"}

ASSUME ConstantsAssumption ==
    /\ NoChain \notin Chain
    /\ Supporting \subseteq Value
    /\ Kinds \subseteq AllKinds
    /\ Faults \subseteq AllFaults
    /\ MaxFaults \in Nat
    /\ Overlapping \in Nat

VARIABLES
    asserted,   \* the values whose base triple is in the user's graph
    status,     \* status of the claim of each chain
    by,         \* core:supersededBy of each claim
    conflicts,  \* Conflict records: <<superseded claim, superseding claim>>
    inferred,   \* is the derived triple in the inferred graph?
    pending,    \* claims whose truth maintenance failed (in-memory repairs)
    pc,         \* what each chain awaits next
    kind,       \* the request of each chain
    value,      \* the values it is about: one, or for a retraction any set
    overlapped, \* has a request begun while another was under way?
    todo,       \* conflicting claims it has found and not yet retired
    current,    \* the claim it is retiring
    answer,     \* the reasoner's last answer to it
    faults      \* failures that have happened

beliefs  == <<asserted, status, by, conflicts, inferred, pending>>
requests == <<kind, value, overlapped>>
vars     == <<beliefs, requests, pc, todo, current, answer, faults>>

Ended == {"idle", "done", "failed"}

Stages == Ended \cup
    {"claimed", "competing", "find", "retire", "supersede", "unassert", "recheck",
     "withdraw", "record", "materialize", "insert", "insertInferred", "claim",
     "retractClaims", "rebuildRead", "rebuildClear", "rebuildFill"}

TypeOK ==
    /\ asserted \in SUBSET Value
    /\ status \in [Chain -> {"none", "accepted", "superseded", "deleted"}]
    /\ by \in [Chain -> Chain \cup {NoChain}]
    /\ conflicts \in SUBSET (Chain \X Chain)
    /\ inferred \in BOOLEAN
    /\ pending \in SUBSET Chain
    /\ pc \in [Chain -> Stages]
    /\ kind \in [Chain -> AllKinds]
    /\ value \in [Chain -> SUBSET Value]
    /\ overlapped \in BOOLEAN
    /\ todo \in [Chain -> SUBSET Chain]
    /\ current \in [Chain -> Chain \cup {NoChain}]
    /\ answer \in [Chain -> BOOLEAN]
    /\ faults \in SUBSET AllFaults

Init ==
    /\ asserted = {} /\ conflicts = {} /\ inferred = FALSE /\ pending = {}
    /\ overlapped = FALSE
    /\ status = [p \in Chain |-> "none"]
    /\ by = [p \in Chain |-> NoChain]
    /\ pc = [p \in Chain |-> "idle"]
    /\ kind = [p \in Chain |-> "store"]
    /\ value = [p \in Chain |-> {}]
    /\ todo = [p \in Chain |-> {}]
    /\ current = [p \in Chain |-> NoChain]
    /\ answer = [p \in Chain |-> FALSE]
    /\ faults = {}

-----------------------------------------------------------------------------
(* Helpers *)

Quiet == \A p \in Chain : pc[p] \in Ended

\* The derived triple follows from what is asserted.
Entailed(facts) == facts \cap Supporting # {}

\* What materialize() returns for facts: what follows from them together with
\* the store and does not follow from the store alone.
Caused(facts) == Entailed(asserted \cup facts) /\ ~Entailed(asserted)

AcceptedFor(facts) == {q \in Chain : status[q] = "accepted" /\ value[q] \cap facts # {}}

\* Accepted claims on the same subject and predicate with another object.
Competing(p) == {q \in Chain : status[q] = "accepted" /\ value[q] # value[p]}

Goto(p, stage) == pc' = [pc EXCEPT ![p] = stage]

Fault(f) ==
    /\ f \in Faults \ faults /\ Cardinality(faults) < MaxFaults
    /\ faults' = faults \cup {f}

Begin(p, k, facts) ==
    /\ k \in Kinds
    /\ pc[p] = "idle"
    /\ overlapped' = (overlapped \/ ~Quiet)
    /\ overlapped' => Cardinality({q \in Chain : pc[q] # "idle"}) < Overlapping
    /\ kind' = [kind EXCEPT ![p] = k]
    /\ value' = [value EXCEPT ![p] = facts]

-----------------------------------------------------------------------------
(* storeFact and promoteToUserGraph: the checks before the commit *)

StoreClaimFirst(p, v) ==
    /\ Begin(p, "store", {v})
    /\ v \notin asserted
    /\ status' = [status EXCEPT ![p] = "accepted"]
    /\ Goto(p, "find")
    /\ UNCHANGED <<asserted, by, conflicts, inferred, pending, todo, current, answer, faults>>

\* storeFact: a triple that is there already is not stored again.  A duplicate
\* check that fails counts as "no duplicate".
Store(p, v) ==
    /\ Begin(p, "store", {v})
    /\ \/ /\ Goto(p, IF v \in asserted THEN "done" ELSE "find")
          /\ UNCHANGED faults
       \/ /\ Fault("lookup")
          /\ Goto(p, "find")
    /\ UNCHANGED <<beliefs, todo, current, answer>>

\* The consolidation copies a value into the user's graph unless the triple is
\* there, has an accepted claim, or competes with one.
Promote(p, v) ==
    /\ Begin(p, "promote", {v})
    /\ Goto(p, IF v \in asserted THEN "done" ELSE "claimed")
    /\ UNCHANGED <<beliefs, todo, current, answer, faults>>

PromoteUnlessClaimed(p) ==
    /\ pc[p] = "claimed"
    /\ Goto(p, IF AcceptedFor(value[p]) # {} THEN "done" ELSE "competing")
    /\ UNCHANGED <<beliefs, requests, todo, current, answer, faults>>

PromoteUnlessCompeting(p) ==
    /\ pc[p] = "competing"
    /\ \/ /\ Goto(p, IF Competing(p) # {} THEN "done" ELSE "find")
          /\ UNCHANGED faults
       \/ /\ Fault("lookup")
          /\ Goto(p, "find")
    /\ UNCHANGED <<beliefs, requests, todo, current, answer>>

-----------------------------------------------------------------------------
(* commitFact: retire what competes, then assert the new value *)

\* A lookup that fails finds nothing: the value is then added beside the others.
FindConflicting(p) ==
    /\ pc[p] = "find"
    /\ \E found \in {Competing(p), {}} :
        /\ IF found = Competing(p) THEN UNCHANGED faults ELSE Fault("lookup")
        /\ todo' = [todo EXCEPT ![p] = found]
        /\ Goto(p, IF found = {} THEN "materialize" ELSE "retire")
    /\ UNCHANGED <<beliefs, requests, current, answer>>

\* The next claim to retire.  Its terms are read first: a claim that has been
\* deleted since it was found has no base triple to remove, and one that cannot
\* be read is left alone.
ReadClaim(p) ==
    /\ pc[p] = "retire"
    /\ \E q \in todo[p] :
        \/ /\ current' = [current EXCEPT ![p] = q]
           /\ answer' = [answer EXCEPT ![p] = status[q] # "deleted"]
           /\ Goto(p, "supersede")
           /\ UNCHANGED <<todo, faults>>
        \/ /\ Fault("read")
           /\ todo' = [todo EXCEPT ![p] = @ \ {q}]
           /\ Goto(p, IF todo[p] = {q} THEN "materialize" ELSE "retire")
           /\ UNCHANGED <<current, answer>>
    /\ UNCHANGED <<beliefs, requests>>

\* DELETE the status "accepted", INSERT "superseded" and the forward link, both
\* only WHERE the claim is still accepted.
Supersede(p) ==
    /\ pc[p] = "supersede"
    /\ IF status[current[p]] = "accepted"
         THEN /\ status' = [status EXCEPT ![current[p]] = "superseded"]
              /\ by' = [by EXCEPT ![current[p]] = p]
         ELSE UNCHANGED <<status, by>>
    /\ Goto(p, IF answer[p] THEN "unassert" ELSE "record")
    /\ UNCHANGED <<asserted, conflicts, inferred, pending, requests, todo, current, answer, faults>>

KeepAsserted(p) ==
    /\ pc[p] = "unassert"
    /\ Goto(p, "recheck")
    /\ UNCHANGED <<beliefs, requests, todo, current, answer, faults>>

\* The base triple goes whether or not this chain superseded the claim.
Unassert(p) ==
    /\ pc[p] = "unassert"
    /\ asserted' = asserted \ value[current[p]]
    /\ Goto(p, "recheck")
    /\ UNCHANGED <<status, by, conflicts, inferred, pending, requests, todo, current, answer, faults>>

\* Truth maintenance: which derivations did the removed triple alone support?
\* A graph that cannot be read throws, and the repair is remembered.  A reasoner
\* that fails is not heard of: materialize() is not called with strict, so it
\* answers that nothing was derived, and nothing is withdrawn or remembered.
Recheck(p) ==
    /\ pc[p] = "recheck"
    /\ \/ /\ answer' = [answer EXCEPT ![p] = Caused(value[current[p]])]
          /\ Goto(p, IF answer'[p] THEN "withdraw" ELSE "record")
          /\ UNCHANGED <<pending, faults>>
       \/ /\ Fault("reason")
          /\ pending' = pending \cup {current[p]}
          /\ Goto(p, "record")
          /\ UNCHANGED answer
       \/ /\ Fault("unheard")
          /\ answer' = [answer EXCEPT ![p] = FALSE]
          /\ Goto(p, "record")
          /\ UNCHANGED pending
    /\ UNCHANGED <<asserted, status, by, conflicts, inferred, requests, todo, current>>

\* DELETE the stale derivations; an update that fails is remembered too, whether
\* or not it has changed the store.
Withdraw(p) ==
    /\ pc[p] = "withdraw"
    /\ \/ /\ inferred' = FALSE
          /\ UNCHANGED <<pending, faults>>
       \/ /\ Fault("reason")
          /\ pending' = pending \cup {current[p]}
          /\ inferred' \in {inferred, FALSE}
    /\ Goto(p, "record")
    /\ UNCHANGED <<asserted, status, by, conflicts, requests, todo, current, answer>>

RecordOnce(p) ==
    /\ pc[p] = "record"
    /\ conflicts' = IF \E r \in Chain : <<current[p], r>> \in conflicts
                      THEN conflicts ELSE conflicts \cup {<<current[p], p>>}
    /\ todo' = [todo EXCEPT ![p] = @ \ {current[p]}]
    /\ Goto(p, IF todo'[p] = {} THEN "materialize" ELSE "retire")
    /\ UNCHANGED <<asserted, status, by, inferred, pending, requests, current, answer, faults>>

\* The Conflict record, then the next conflicting claim if there is one.
Record(p) ==
    /\ pc[p] = "record"
    /\ conflicts' = conflicts \cup {<<current[p], p>>}
    /\ todo' = [todo EXCEPT ![p] = @ \ {current[p]}]
    /\ Goto(p, IF todo'[p] = {} THEN "materialize" ELSE "retire")
    /\ UNCHANGED <<asserted, status, by, inferred, pending, requests, current, answer, faults>>

MaterializeAfterInsert(p) ==
    /\ pc[p] = "materialize"
    /\ answer' = [answer EXCEPT ![p] = FALSE]
    /\ Goto(p, "insert")
    /\ UNCHANGED <<beliefs, requests, todo, current, faults>>

\* What the new value implies, computed before it is inserted; best effort.
Materialize(p) ==
    /\ pc[p] = "materialize"
    /\ \/ /\ answer' = [answer EXCEPT ![p] = Caused(value[p])]
          /\ UNCHANGED faults
       \/ /\ Fault("reason")
          /\ answer' = [answer EXCEPT ![p] = FALSE]
    /\ Goto(p, "insert")
    /\ UNCHANGED <<beliefs, requests, todo, current>>

Insert(p) ==
    /\ pc[p] = "insert"
    /\ asserted' = asserted \cup value[p]
    /\ Goto(p, IF answer[p] THEN "insertInferred" ELSE "claim")
    /\ UNCHANGED <<status, by, conflicts, inferred, pending, requests, todo, current, answer, faults>>

InsertInferred(p) ==
    /\ pc[p] = "insertInferred"
    /\ inferred' = TRUE
    /\ Goto(p, "claim")
    /\ UNCHANGED <<asserted, status, by, conflicts, pending, requests, todo, current, answer, faults>>

\* The claim comes last, under the identifier minted at the start.
CreateClaim(p) ==
    /\ pc[p] = "claim"
    /\ status' = [status EXCEPT ![p] = "accepted"]
    /\ Goto(p, "done")
    /\ UNCHANGED <<asserted, by, conflicts, inferred, pending, requests, todo, current, answer, faults>>

-----------------------------------------------------------------------------
(* memory_retract *)

\* The hard delete of one value or, without an object, of all of them: first
\* the base triples ...
Retract(p, facts) ==
    /\ Begin(p, "retract", facts)
    /\ asserted' = asserted \ facts
    /\ Goto(p, "retractClaims")
    /\ UNCHANGED <<status, by, conflicts, inferred, pending, todo, current, answer, faults>>

RetractTriplesOnly(p) ==
    /\ pc[p] = "retractClaims"
    /\ Goto(p, "rebuildRead")
    /\ UNCHANGED <<beliefs, requests, todo, current, answer, faults>>

\* ... then, in an update of its own, the claims on them and their evidence.
RetractClaims(p) ==
    /\ pc[p] = "retractClaims"
    /\ status' = [q \in Chain |->
                    IF status[q] # "none" /\ value[q] \cap value[p] # {}
                      THEN "deleted" ELSE status[q]]
    /\ by' = [q \in Chain |-> IF status'[q] = "deleted" THEN NoChain ELSE by[q]]
    /\ Goto(p, "rebuildRead")
    /\ UNCHANGED <<asserted, conflicts, inferred, pending, requests, todo, current, answer, faults>>

\* The inferred graph is then rebuilt: read and reason, clear, fill.  A rebuild
\* that fails clears the inferred graph instead.
RebuildRead(p) ==
    /\ pc[p] = "rebuildRead"
    /\ \/ /\ answer' = [answer EXCEPT ![p] = Entailed(asserted)]
          /\ UNCHANGED faults
       \/ /\ Fault("reason")
          /\ answer' = [answer EXCEPT ![p] = FALSE]
    /\ Goto(p, "rebuildClear")
    /\ UNCHANGED <<beliefs, requests, todo, current>>

RebuildClear(p) ==
    /\ pc[p] = "rebuildClear"
    /\ inferred' = FALSE
    /\ Goto(p, IF answer[p] THEN "rebuildFill" ELSE "done")
    /\ UNCHANGED <<asserted, status, by, conflicts, pending, requests, todo, current, answer, faults>>

RebuildFill(p) ==
    /\ pc[p] = "rebuildFill"
    /\ inferred' = TRUE
    /\ Goto(p, "done")
    /\ UNCHANGED <<asserted, status, by, conflicts, pending, requests, todo, current, answer, faults>>

-----------------------------------------------------------------------------
\* A query or an update of the chain throws (the Fuseki server is away, the
\* graph policy refuses, the process dies): what it has written stays.
ChainFails(p) ==
    /\ pc[p] \notin Ended
    /\ Fault("chain")
    /\ Goto(p, "failed")
    /\ UNCHANGED <<beliefs, requests, todo, current, answer>>

Commit(p) ==
    \/ FindConflicting(p) \/ ReadClaim(p) \/ Supersede(p) \/ Unassert(p)
    \/ Recheck(p) \/ Withdraw(p) \/ Record(p)
    \/ Materialize(p) \/ Insert(p) \/ InsertInferred(p) \/ CreateClaim(p)

Next == \E p \in Chain :
    \/ \E v \in Value : Store(p, v) \/ Promote(p, v)
    \/ \E facts \in {{v} : v \in Value} \cup {Value} : Retract(p, facts)
    \/ PromoteUnlessClaimed(p) \/ PromoteUnlessCompeting(p)
    \/ Commit(p)
    \/ RetractClaims(p) \/ RebuildRead(p) \/ RebuildClear(p) \/ RebuildFill(p)
    \/ ChainFails(p)

Spec == Init /\ [][Next]_vars

-----------------------------------------------------------------------------
(* Properties *)

NoRetraction == \A p \in Chain : kind[p] # "retract"

\* The history is a forest whatever interleaves and fails: following
\* supersededBy from any claim never comes back to it, because a claim becomes
\* visible to others only after its chain has retired everything it replaces.
AcyclicHistory ==
    \A S \in SUBSET Chain : S # {} => \E q \in S : by[q] \notin S

\* Every supersession is audited with the claim that is named as its successor,
\* also when several chains retire the same claim.
AuditComplete ==
    \A q \in Chain :
        status[q] = "superseded" /\ pc[by[q]] = "done" => <<q, by[q]>> \in conflicts

\* Without a retraction or a failed chain, every triple in the user's graph has
\* an accepted claim behind it, or a chain that is about to add or remove one.
EveryTripleIsClaimed ==
    NoRetraction /\ "chain" \notin faults =>
        \A v \in asserted :
            \/ AcceptedFor({v}) # {}
            \/ \E p \in Chain : pc[p] \in {"insertInferred", "claim"} /\ v \in value[p]
            \/ \E p \in Chain : pc[p] = "unassert" /\ v \in value[current[p]]

\* What a chain establishes when it has the user's graph to itself.
Orderly == Quiet /\ ~overlapped

\* Requests one after another leave the functional property with one value,
\* whatever they were, unless a lookup or a chain failed.
SingleValued ==
    Orderly /\ faults \subseteq {"reason", "unheard"} => \A v, w \in asserted : v = w

\* Requests one after another leave no accepted claim on a triple that is gone,
\* unless a chain, a lookup or the reading of a claim failed.
AcceptedIsAsserted ==
    Orderly /\ faults \subseteq {"reason", "unheard"} =>
        \A q \in Chain : status[q] = "accepted" => value[q] \subseteq asserted

\* The inferred graph agrees with what is asserted: it holds what follows, unless
\* something failed, and a derivation whose support is gone is on the list of open
\* repairs, unless the reasoner failed over a retired triple and materialize() kept
\* that to itself.
InferredAgrees ==
    Orderly /\ "chain" \notin faults =>
        /\ faults = {} /\ Entailed(asserted) => inferred
        /\ inferred => Entailed(asserted) \/ pending # {} \/ "unheard" \in faults

=============================================================================
