-------------------------- MODULE PreferenceShift --------------------------
(***************************************************************************)
(* From button presses to preferences: one user, one offer signature (the  *)
(* same alternatives are offered again and again) and that user's graph.   *)
(*                                                                         *)
(* Three parties work at once.  The presses of the buttons of one message  *)
(* are recorded one at a time.  The consolidation, of which only one runs  *)
(* at a time, promotes the value the user has settled on and withdraws     *)
(* what it promoted before; the episodes it writes are the ledger of its   *)
(* next runs.  And the owner retracts preferences by hand, which leaves no *)
(* episode.  Every action ends at an await: one query, or one update.      *)
(*                                                                         *)
(* Abstracted: choices that do not count (secret, untrusted or without a   *)
(* fact graph); an offer that is not answered, or an offer or a press whose  *)
(* record fails: they leave no choice; the bounds on users and promotions  *)
(* of a run, which are far above one; and other sources that write the     *)
(* very same text.                                                         *)
(***************************************************************************)
EXTENDS Sequences, FiniteSets, Naturals

CONSTANTS
    Value,      \* the alternatives of the offer
    NoValue,
    Group,      \* the evidence groups: a session on a day
    K, Q,       \* consolidationMinEpisodes, consolidationMinGroups
    MaxOffers, MaxWaiting, MaxRetractions, MaxFaults   \* bounds

ASSUME PreferenceAssumption ==
    /\ NoValue \notin Value
    /\ {K, Q, MaxOffers, MaxWaiting} \subseteq Nat \ {0}
    /\ {MaxRetractions, MaxFaults} \subseteq Nat

VARIABLES
    offers,     \* how many offers have been answered
    chain,      \* the presses of its buttons that are not dealt with, in order
    checked,    \* has the press at the head passed hasChoiceMadeFor?
    choices,    \* the choice-made episodes, oldest first
    asserted,   \* the preferences in the user's graph
    accepted,   \* values with an accepted claim of the consolidation
    ledger,     \* consolidation-promoted and -superseded episodes, oldest first
    run,        \* the consolidation in flight, or NoRun
    retracting, \* the values of a retraction that has removed its triples only
    held,       \* those of them that were in the graph
    retractions, faults,
    gone,       \* history: values retracted by hand while they were in the graph
    overlapped, \* history: have a retraction and a consolidation overlapped?
    torn        \* history: has a consolidation failed after its first write?

capture        == <<offers, chain, checked, choices>>
beliefs        == <<asserted, accepted, ledger>>
owner          == <<retracting, held, retractions, gone>>
disturbed      == <<overlapped, torn>>
preferenceVars == <<capture, beliefs, run, owner, faults, disturbed>>

Reading == {"choices", "ledger", "present", "claimed", "insert"}
Writing == {"claim", "record", "find", "read", "supersede", "unassert", "release"}

\* stage: what the run awaits; cand: the value it promotes; standing: what the
\* ledger said stands; rivals: values still to be withdrawn; rival: the one
\* being withdrawn; found: the last answer about it or about cand; withdrawn:
\* values whose consolidation-superseded episode is not written yet.
Runs == [stage : {"off"} \cup Reading \cup Writing, cand : Value \cup {NoValue}, standing : SUBSET Value,
         rivals : SUBSET Value, rival : Value \cup {NoValue}, found : BOOLEAN, withdrawn : SUBSET Value]

NoRun == [stage |-> "off", cand |-> NoValue, standing |-> {}, rivals |-> {}, rival |-> NoValue,
         found |-> FALSE, withdrawn |-> {}]

Entry(type, v) == [type |-> type, value |-> v]

PreferenceTypeOK ==
    /\ offers \in 0..MaxOffers /\ chain \in Seq(Value) /\ checked \in BOOLEAN
    /\ choices \in Seq([offer : 1..MaxOffers, value : Value, group : Group])
    /\ asserted \subseteq Value /\ accepted \subseteq Value
    /\ ledger \in Seq([type : {"promoted", "superseded"}, value : Value])
    /\ run \in Runs
    /\ {retracting, held, gone} \subseteq SUBSET Value
    /\ retractions \in 0..MaxRetractions /\ faults \in 0..MaxFaults
    /\ overlapped \in BOOLEAN /\ torn \in BOOLEAN

PreferenceInit ==
    /\ offers = 0 /\ chain = <<>> /\ checked = FALSE /\ choices = <<>>
    /\ asserted = {} /\ accepted = {} /\ ledger = <<>> /\ run = NoRun
    /\ retracting = {} /\ held = {} /\ retractions = 0 /\ gone = {}
    /\ faults = 0 /\ overlapped = FALSE /\ torn = FALSE

-----------------------------------------------------------------------------
(* ChoiceCapture *)

\* The user presses a button of a new message with the offer, or another one of
\* the last, perhaps before its first press is recorded.  Messages have chains of
\* their own, which only order the choices differently: one at a time is enough.
Press(v) ==
    /\ Len(chain) < MaxWaiting
    /\ \/ chain = <<>> /\ offers < MaxOffers /\ offers' = offers + 1
       \/ offers > 0 /\ UNCHANGED offers
    /\ chain' = Append(chain, v)
    /\ UNCHANGED <<checked, choices, beliefs, run, owner, faults, disturbed>>

\* serialised(): the next job starts when the one before it has settled.
Over == chain' = Tail(chain) /\ checked' = FALSE

ChoiceMade == \E i \in DOMAIN choices : choices[i].offer = offers

\* hasChoiceMadeFor: only the first press of an offer is recorded.
CheckPress ==
    /\ chain # <<>> /\ ~checked
    /\ IF ChoiceMade THEN Over ELSE checked' = TRUE /\ UNCHANGED chain
    /\ UNCHANGED <<offers, choices, beliefs, run, owner, faults, disturbed>>

\* The choice-made episode.
RecordPress(g) ==
    /\ checked
    /\ choices' = Append(choices, [offer |-> offers, value |-> Head(chain), group |-> g])
    /\ Over
    /\ UNCHANGED <<offers, beliefs, run, owner, faults, disturbed>>

-----------------------------------------------------------------------------
(* PreferenceConsolidation: what the user has settled on *)

\* One choice per offer counts, the earliest.
Counted == {i \in DOMAIN choices : \A j \in 1..i - 1 : choices[j].offer # choices[i].offer}

\* Enough choices name v, from enough groups, and so do all of the newest K.
Settled(v) ==
    LET counted == Counted
        for     == {i \in counted : choices[i].value = v}
        newest  == {i \in counted : Cardinality({j \in counted : j > i}) < K}
    IN  /\ Cardinality(for) >= K
        /\ Cardinality({choices[i].group : i \in for}) >= Q
        /\ newest \subseteq for

\* promotedHashes: what was ever promoted (pattern 1 asks for no more).
EverPromoted == {v \in Value : \E i \in DOMAIN ledger : ledger[i] = Entry("promoted", v)}

\* activePromotedHashes: promoted, and not withdrawn by the system since.
Standing ==
    {v \in Value : \E i \in DOMAIN ledger :
        ledger[i] = Entry("promoted", v) /\ \A j \in i + 1..Len(ledger) : ledger[j] # Entry("superseded", v)}

At(stage)   == run.stage = stage
Goto(stage) == run' = [run EXCEPT !.stage = stage]
Stop        == run' = NoRun

\* The daily job, or the owner.  A request while a run is in flight joins it.
Start ==
    /\ At("off") /\ Goto("choices")
    /\ overlapped' = (overlapped \/ retracting # {})
    /\ UNCHANGED <<capture, beliefs, owner, faults, torn>>

\* At most one value can have all of the newest K choices.
ReadChoices ==
    /\ At("choices")
    /\ IF \E v \in Value : Settled(v)
         THEN run' = [run EXCEPT !.stage = "ledger", !.cand = CHOOSE v \in Value : Settled(v)]
         ELSE Stop
    /\ UNCHANGED <<capture, beliefs, owner, faults, disturbed>>

ReadLedger ==
    /\ At("ledger")
    /\ IF run.cand \in Standing THEN Stop
                               ELSE run' = [run EXCEPT !.stage = "present", !.standing = Standing]
    /\ UNCHANGED <<capture, beliefs, owner, faults, disturbed>>

-----------------------------------------------------------------------------
(* promoteToUserGraph *)

\* Is the triple there?  Has it an accepted claim?  The second is asked anyway.
AskPresent ==
    /\ At("present")
    /\ run' = [run EXCEPT !.stage = "claimed", !.found = run.cand \in asserted]
    /\ UNCHANGED <<capture, beliefs, owner, faults, disturbed>>

AskClaimed ==
    /\ At("claimed")
    /\ IF run.found \/ run.cand \in accepted THEN Stop ELSE Goto("insert")
    /\ UNCHANGED <<capture, beliefs, owner, faults, disturbed>>

Insert ==
    /\ At("insert") /\ Goto("claim")
    /\ asserted' = asserted \cup {run.cand}
    /\ UNCHANGED <<capture, accepted, ledger, owner, faults, disturbed>>

CreateClaim ==
    /\ At("claim") /\ Goto("record")
    /\ accepted' = accepted \cup {run.cand}
    /\ UNCHANGED <<capture, asserted, ledger, owner, faults, disturbed>>

RecordWithoutShift ==
    /\ At("record") /\ Stop
    /\ ledger' = Append(ledger, Entry("promoted", run.cand))
    /\ UNCHANGED <<capture, asserted, accepted, owner, faults, disturbed>>

\* The ledger entry, and then the shift: what stands beside the new value goes.
RecordPromotion ==
    /\ At("record")
    /\ ledger' = Append(ledger, Entry("promoted", run.cand))
    /\ IF run.standing = {} THEN Stop
                            ELSE run' = [run EXCEPT !.stage = "find", !.rivals = run.standing]
    /\ UNCHANGED <<capture, asserted, accepted, owner, faults, disturbed>>

-----------------------------------------------------------------------------
(* withdrawConsolidatedPreferences *)

\* On to the next rival, to the episodes about those withdrawn, or to the end.
Onward(rest, out) ==
    IF rest \cup out = {} THEN Stop
    ELSE run' = [run EXCEPT !.stage = IF rest # {} THEN "find" ELSE "release", !.rivals = rest, !.withdrawn = out]

FindAnyRival ==
    /\ At("find")
    /\ \E v \in run.rivals : run' = [run EXCEPT !.stage = "read", !.rival = v, !.rivals = @ \ {v}]
    /\ UNCHANGED <<capture, beliefs, owner, faults, disturbed>>

\* Only a value with an accepted claim of the consolidation is withdrawn: one
\* that the owner has retracted has none, and its ledger entry stays.
FindRival ==
    /\ At("find")
    /\ \E v \in run.rivals :
        IF v \in accepted
          THEN run' = [run EXCEPT !.stage = "read", !.rival = v, !.rivals = @ \ {v}]
          ELSE Onward(run.rivals \ {v}, run.withdrawn)
    /\ UNCHANGED <<capture, beliefs, owner, faults, disturbed>>

\* retireSupersededClaim: the terms of the claim, which may be gone by now.
ReadRival ==
    /\ At("read")
    /\ run' = [run EXCEPT !.stage = "supersede", !.found = run.rival \in accepted]
    /\ UNCHANGED <<capture, beliefs, owner, faults, disturbed>>

SupersedeClaim ==
    /\ At("supersede") /\ Goto("unassert")
    /\ accepted' = accepted \ {run.rival}
    /\ UNCHANGED <<capture, asserted, ledger, owner, faults, disturbed>>

\* The base triple, if the claim could be read; then the Conflict record.
Unassert ==
    /\ At("unassert")
    /\ asserted' = IF run.found THEN asserted \ {run.rival} ELSE asserted
    /\ Onward(run.rivals, run.withdrawn \cup {run.rival})
    /\ UNCHANGED <<capture, accepted, ledger, owner, faults, disturbed>>

\* The episode that releases the ledger entry of a value that was withdrawn.
Release ==
    /\ At("release")
    /\ \E v \in run.withdrawn :
        /\ ledger' = Append(ledger, Entry("superseded", v))
        /\ Onward({}, run.withdrawn \ {v})
    /\ UNCHANGED <<capture, asserted, accepted, owner, faults, disturbed>>

\* A query or an update throws, or the process dies: the promise in flight is
\* forgotten and the next run starts afresh.  A claim that cannot be read is left
\* as it is, and the run goes on.
Fail ==
    /\ ~At("off")
    /\ Stop \/ (At("read") /\ Onward(run.rivals, run.withdrawn))
    /\ faults < MaxFaults /\ faults' = faults + 1
    /\ torn' = (torn \/ run.stage \in Writing)
    /\ UNCHANGED <<capture, beliefs, owner, overlapped>>

-----------------------------------------------------------------------------
(* memory_retract of one preference, or of all of them *)

Retract(facts) ==
    /\ retracting = {} /\ retractions < MaxRetractions
    /\ retractions' = retractions + 1
    /\ retracting' = facts /\ held' = facts \cap asserted
    /\ asserted' = asserted \ facts
    /\ overlapped' = (overlapped \/ ~At("off"))
    /\ UNCHANGED <<capture, accepted, ledger, run, gone, faults, torn>>

RetractClaims ==
    /\ retracting # {}
    /\ accepted' = accepted \ retracting
    /\ gone' = gone \cup held
    /\ retracting' = {} /\ held' = {}
    /\ UNCHANGED <<capture, asserted, ledger, run, retractions, faults, disturbed>>

-----------------------------------------------------------------------------
Capture == CheckPress \/ (\E v \in Value : Press(v)) \/ (\E g \in Group : RecordPress(g))

RunStep ==
    \/ ReadChoices \/ ReadLedger \/ AskPresent \/ AskClaimed \/ Insert \/ CreateClaim
    \/ RecordPromotion \/ FindRival \/ ReadRival \/ SupersedeClaim \/ Unassert \/ Release

PreferenceNext ==
    \/ Capture \/ Start \/ RunStep \/ Fail
    \/ \E facts \in {{v} : v \in Value} \cup {Value} : Retract(facts)
    \/ RetractClaims

\* The scheduler starts the job every day, what has begun goes on, and the jobs
\* of a chain are run.  Nobody has to press a button or to retract anything.
Fairness ==
    /\ WF_preferenceVars(Start \/ RunStep) /\ WF_preferenceVars(RetractClaims)
    /\ WF_preferenceVars(CheckPress \/ \E g \in Group : RecordPress(g))

PreferenceSpec == PreferenceInit /\ [][PreferenceNext]_preferenceVars /\ Fairness

-----------------------------------------------------------------------------
(* Properties *)

\* No run broke off half way, and none met a retraction.
Undisturbed == ~torn /\ ~overlapped

\* Between two runs the graph never holds two preferences for one signature,
\* however often the user changes her mind and whatever was retracted between.
OnePreference == At("off") /\ Undisturbed => Cardinality(asserted) <= 1

\* What the owner has retracted by hand does not come back, whatever the user
\* chooses later and whatever the system withdraws on its own.
RetractedStaysAway == Undisturbed => gone \cap asserted = {}

\* A value the user has settled on becomes her preference, also when it was
\* withdrawn in favour of another one before, unless she changes her mind or it
\* was retracted by hand.
SettledIsPromoted ==
    \A v \in Value :
        Settled(v) ~> v \in asserted \/ v \in gone \/ ~Undisturbed \/ ~Settled(v)

=============================================================================
