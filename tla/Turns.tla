-------------------------------- MODULE Turns --------------------------------
(***************************************************************************)
(* The message loop: turns of a conversation over the session store, with  *)
(* the provider, the tools and the approvals of the guardian.              *)
(*                                                                         *)
(* Nothing serialises the turns of a session.  A transcript entry is a     *)
(* line of a file and a count in the database, written one after the       *)
(* other; a tool call that needs an approval waits for the owner's answer  *)
(* or its timeout.  A turn is blocking (handleMessage) or streamed, and    *)
(* the two write their entries in a different order.  One tool call stands *)
(* for those of a round; its id is the provider's, and the same for all    *)
(* calls that the provider gives none.  All messages come from one peer,   *)
(* so that one session is active; a client may still name an older one.    *)
(***************************************************************************)
EXTENDS Integers, Sequences, FiniteSets, SequencesExt

CONSTANTS
    Turns,        \* bound: messages (and soft resets)
    Streamed,     \* bound: of these, the streamed ones
    MaxSessions,  \* bound: sessions
    MaxRounds,    \* MAX_TOOL_ROUNDS
    AutoFallback, \* the values that the owner gives autoFallback
    Nameless,     \* bound: turns whose calls never come with an id
    None,
    MaxMishaps    \* bound: crashes, turns that throw and hard resets

ASSUME ConstantsAssumption ==
    /\ {Turns, MaxMishaps} \subseteq Nat
    /\ Streamed \subseteq 1..Turns /\ Nameless \subseteq 1..Turns
    /\ {MaxSessions, MaxRounds} \subseteq Nat \ {0}
    /\ AutoFallback \subseteq BOOLEAN /\ AutoFallback # {}

VARIABLES
    turn,      \* where each turn is
    active,    \* the session that new messages go to, 0 before the first
    created,   \* sessions created so far
    file,      \* the number of lines of each session's transcript
    count,     \* messageCount of each session
    auto,      \* autoApproveSessions
    pending,   \* pendingGuardians: of each id, the turn that the answer resolves, or 0
    tracked,   \* pendingGuardianSessions: of each id, the session, or 0
    asked,     \* the owner's screen: the calls shown and not answered, with their ids
    mishaps,   \* counter, for the bound
    disturbed,      \* history: sessions where turns disturbed or a crash cut one off
    yes, allowed    \* history: calls the owner approved in time; sessions wholly approved

guardian == <<auto, pending, tracked, asked>>
store    == <<active, created, file, count>>
history  == <<disturbed, yes, allowed>>
vars     == <<turn, store, guardian, mishaps, history>>

Turn    == 1..Turns
Session == 1..MaxSessions
Call    == Turn \X (1..MaxRounds)
NoId    == <<0, 0>>               \* call_0, the id of a call that came without one
Ids     == Call \cup {NoId}
Roles   == {"user", "call", "result", "empty", "reply", "reset"}
Working == {"built", "append", "llm", "tool", "wait", "approved", "denied", "fallback"}

NewTurn == [stage |-> "new", session |-> 0, stream |-> FALSE, line |-> None, round |-> 0,
            wrote |-> <<>>, at |-> 0,   \* its lines in the file; the line of the user's message
            entries |-> <<>>, landed |-> FALSE, read |-> 0, then |-> "new",
            id |-> NoId,          \* the id of the call that waits
            unanswered |-> FALSE] \* history: no model answered, and none was asked instead
\* A turn that has ended keeps what the properties speak of.
Forget(r) == [NewTurn EXCEPT !.stage = r.stage, !.session = r.session]

Init ==
    /\ turn = [t \in Turn |-> NewTurn]
    /\ active = 0 /\ created = 0
    /\ file = [s \in Session |-> 0] /\ count = [s \in Session |-> 0]
    /\ auto = {} /\ asked = {}
    /\ pending = [i \in Ids |-> 0] /\ tracked = [i \in Ids |-> 0]
    /\ mishaps = 0
    /\ disturbed = {} /\ yes = {} /\ allowed = {}

Live(t)   == turn[t].stage \in Working
LiveIn(s) == {t \in Turn : Live(t) /\ turn[t].session = s}
CallOf(t) == <<t, turn[t].round>>
Waits(t)  == turn[t].stage = "wait"

-----------------------------------------------------------------------------
(* The session store *)

\* appendTranscript for a row of entries: the count is read, the line is
\* appended, the count is written; then the next entry.
Write(t, entries, then) ==
    turn' = [turn EXCEPT ![t].stage = "append", ![t].entries = entries, ![t].landed = FALSE,
                         ![t].read = count[turn[t].session], ![t].then = then]

WriteLine(t) ==
    /\ turn[t].stage = "append" /\ ~turn[t].landed
    /\ file' = [file EXCEPT ![turn[t].session] = @ + 1]
    /\ LET entry == Head(turn[t].entries)
           here  == turn[t].session
       IN turn' = [turn EXCEPT ![t].landed = TRUE,
                               ![t].wrote = Append(@, entry),
                               ![t].at = IF entry = "user" THEN file[here] ELSE @]
    /\ UNCHANGED <<active, created, count, guardian, mishaps, history>>

ReadOnce(t) == turn[t].read
ReadNext(t) == turn[t].read + 1
CountLine(t) ==
    /\ turn[t].stage = "append" /\ turn[t].landed
    /\ count' = [count EXCEPT ![turn[t].session] = turn[t].read + 1]
    /\ turn' = IF Len(turn[t].entries) = 1
               THEN [turn EXCEPT ![t].stage = turn[t].then, ![t].entries = <<>>,
                                 ![t].landed = FALSE, ![t].read = 0, ![t].then = "new"]
               ELSE [turn EXCEPT ![t].entries = Tail(@), ![t].landed = FALSE,
                                 ![t].read = ReadNext(t)]
    /\ UNCHANGED <<active, created, file, guardian, mishaps, history>>

\* getOrCreateSession looks up and inserts in one go; a client's hint may name
\* any session there is.
Resolve(s) ==
    \/ active # 0 /\ s \in 1..created /\ UNCHANGED <<active, created>>
    \/ active = 0 /\ created < MaxSessions
       /\ s = created + 1 /\ created' = s /\ active' = s

Opening(t, s) ==
    /\ turn[t].stage = "new" /\ \A u \in 1..t - 1 : turn[u].stage # "new"
    /\ Resolve(s)
    /\ disturbed' = IF LiveIn(s) = {} THEN disturbed ELSE disturbed \cup {s}

-----------------------------------------------------------------------------
(* A turn *)

\* buildContext: the session, and the line that the user's entry should get.
Open(t) == \E s \in Session :
    /\ Opening(t, s)
    /\ turn' = [turn EXCEPT ![t] = [NewTurn EXCEPT !.stage = "built", !.session = s,
                                      !.stream = t \in Streamed, !.line = count[s]]]
    /\ UNCHANGED <<file, count, guardian, mishaps, yes, allowed>>

Post(t) ==
    /\ turn[t].stage = "built" /\ Write(t, <<"user">>, "llm")
    /\ UNCHANGED <<store, guardian, mishaps, history>>

\* The model answers with a text; a streamed turn does not ask it again after
\* the tools of the last round.
Reply(t) ==
    /\ turn[t].stage = "llm" /\ (turn[t].stream => turn[t].round < MaxRounds)
    /\ Write(t, <<"reply">>, "done")
    /\ UNCHANGED <<store, guardian, mishaps, history>>

\* The model calls a tool; a streamed turn writes the call down before it runs.
CallTool(t) ==
    /\ turn[t].stage = "llm" /\ turn[t].round < MaxRounds
    /\ LET called == [turn EXCEPT ![t].round = @ + 1]
       IN turn' = IF turn[t].stream
                  THEN [called EXCEPT ![t].stage = "append", ![t].entries = <<"call">>,
                                      ![t].landed = FALSE, ![t].then = "tool",
                                      ![t].read = count[turn[t].session]]
                  ELSE [called EXCEPT ![t].stage = "tool"]
    /\ UNCHANGED <<store, guardian, mishaps, history>>

\* Nothing comes back: an error of the provider or an empty text (a blocking
\* turn writes its empty answer down).  An error in a later round of a blocking
\* turn is not caught (Throw).
NothingEnds(t) ==
    /\ turn[t].stage = "llm"
    /\ IF turn[t].stream THEN turn' = [turn EXCEPT ![t].stage = "fallback"]
                         ELSE Write(t, <<"empty">>, "done")
    /\ UNCHANGED <<store, guardian, mishaps, history>>
Nothing(t) ==
    /\ turn[t].stage = "llm"
    /\ IF turn[t].stream THEN turn' = [turn EXCEPT ![t].stage = "fallback"]
                         ELSE Write(t, <<"empty">>, "fallback")
    /\ UNCHANGED <<store, guardian, mishaps, history>>

\* With autoFallback the fallback models are asked in turn; when none answers,
\* the error text is the reply.
Fallback(t) ==
    /\ turn[t].stage = "fallback" /\ TRUE \in AutoFallback
    /\ Write(t, <<"reply">>, "done")
    /\ UNCHANGED <<store, guardian, mishaps, history>>

\* Without it the empty answer is the reply; a streamed turn writes it now.
NoFallback(t) ==
    /\ turn[t].stage = "fallback" /\ FALSE \in AutoFallback
    /\ LET over == [turn EXCEPT ![t].unanswered = TRUE]
       IN turn' = IF turn[t].stream
                  THEN [over EXCEPT ![t].stage = "append", ![t].entries = <<"empty">>,
                                    ![t].landed = FALSE, ![t].then = "done",
                                    ![t].read = count[turn[t].session]]
                  ELSE [over EXCEPT ![t].stage = "done"]
    /\ UNCHANGED <<store, guardian, mishaps, history>>

\* The core throws, or the consumer of a stream leaves.
Throw(t) ==
    /\ turn[t].stage \in {"built", "llm"} \/ (turn[t].stream /\ turn[t].stage = "fallback")
    /\ mishaps < MaxMishaps /\ mishaps' = mishaps + 1
    /\ turn' = [turn EXCEPT ![t] = Forget([@ EXCEPT !.stage = "thrown"])]
    /\ UNCHANGED <<store, guardian, history>>

-----------------------------------------------------------------------------
(* The tool call and the guardian *)

Result(t) == Write(t, IF turn[t].stream THEN <<"result">> ELSE <<"call", "result">>, "llm")

\* A tool that needs no approval.
Plain(t) ==
    /\ turn[t].stage = "tool" /\ Result(t)
    /\ UNCHANGED <<store, guardian, mishaps, history>>

\* ensureToolApproved: a session that is wholly approved is not asked.  Who asks
\* under an id that another call waits under takes its place.
Ask(t) ==
    /\ turn[t].stage = "tool"
    /\ IF turn[t].session \in auto
       THEN turn' = [turn EXCEPT ![t].stage = "approved"] /\ UNCHANGED guardian
       ELSE \E i \in {NoId} \cup (IF t \in Nameless THEN {} ELSE {CallOf(t)}) :
            /\ turn' = [turn EXCEPT ![t].stage = "wait", ![t].id = i]
            /\ tracked' = [tracked EXCEPT ![i] = turn[t].session]
            /\ pending' = [pending EXCEPT ![i] = t]
            /\ asked' = asked \cup {<<CallOf(t), i>>}
            /\ UNCHANGED auto
    /\ UNCHANGED <<store, mishaps, history>>

\* The session that "approve all" concerns.
SessionNow(i) == active
SessionOf(i)  == tracked[i]

\* resolveGuardianApproval: the owner answers for a call, in time or too late;
\* the answer goes by the id.
Answer(c, i) == \E approved, all \in BOOLEAN :
    /\ <<c, i>> \in asked /\ asked' = asked \ {<<c, i>>}
    /\ auto' = IF approved /\ all THEN auto \cup ({SessionOf(i)} \ {0}) ELSE auto
    /\ tracked' = [tracked EXCEPT ![i] = 0] /\ pending' = [pending EXCEPT ![i] = 0]
    /\ turn' = IF pending[i] # 0
               THEN [turn EXCEPT ![pending[i]].stage = IF approved THEN "approved" ELSE "denied",
                                 ![pending[i]].id = NoId]
               ELSE turn
    /\ yes' = IF approved THEN yes \cup {CallOf(t) : t \in {u \in Turn : Waits(u) /\ turn[u].id = i}}
                          ELSE yes
    /\ allowed' = IF approved /\ all
                  THEN allowed \cup {turn[a[1][1]].session : a \in {b \in asked : b[2] = i}}
                  ELSE allowed
    /\ UNCHANGED <<store, mishaps, disturbed>>

\* waitForGuardianApproval gives up; the call stays tracked.
TimeoutUnanswered(t) ==
    /\ Waits(t) /\ pending[turn[t].id] = t /\ pending' = [pending EXCEPT ![turn[t].id] = 0]
    /\ UNCHANGED <<turn, store, auto, tracked, asked, mishaps, history>>
Timeout(t) ==
    /\ Waits(t) /\ pending' = [pending EXCEPT ![turn[t].id] = 0]
    /\ turn' = [turn EXCEPT ![t].stage = "denied", ![t].id = NoId]
    /\ UNCHANGED <<store, auto, tracked, asked, mishaps, history>>

\* The executor runs the tool, or it times out; the turn gets a result.
Execute(t) ==
    /\ turn[t].stage = "approved" /\ Result(t)
    /\ yes' = yes \ {CallOf(t)}
    /\ UNCHANGED <<store, guardian, mishaps, disturbed, allowed>>

Denied(t) ==
    /\ turn[t].stage = "denied" /\ Result(t)
    /\ yes' = yes \ {CallOf(t)}
    /\ UNCHANGED <<store, guardian, mishaps, disturbed, allowed>>

-----------------------------------------------------------------------------
(* Commands *)

\* /new archives the session and looks for the active one: it creates one,
\* unless the archived one was an older one already.
New ==
    /\ active # 0 /\ created < MaxSessions
    /\ created' = created + 1 /\ active' = created + 1
    /\ UNCHANGED <<turn, file, count, guardian, mishaps, history>>

\* /reset: the transcript is deleted and its count zeroed (bounds: in a session
\* at rest, and in one step).
Reset == \E s \in Session :
    /\ mishaps < MaxMishaps /\ mishaps' = mishaps + 1
    /\ Resolve(s) /\ LiveIn(s) = {}
    /\ file' = [file EXCEPT ![s] = 0] /\ count' = [count EXCEPT ![s] = 0]
    /\ turn' = [u \in Turn |-> IF turn[u].session = s THEN Forget(turn[u]) ELSE turn[u]]
    /\ UNCHANGED <<guardian, history>>

\* /reset soft: one more entry.
SoftReset(t) == \E s \in Session :
    /\ Opening(t, s)
    /\ turn' = [turn EXCEPT ![t].stage = "append", ![t].session = s, ![t].entries = <<"reset">>,
                            ![t].read = count[s], ![t].then = "done"]
    /\ UNCHANGED <<file, count, guardian, mishaps, yes, allowed>>

\* The process dies: the store stays as it is, the approvals are forgotten, and
\* what the owner was asked stays on the screen.
Crash ==
    /\ mishaps < MaxMishaps /\ mishaps' = mishaps + 1
    /\ disturbed' = disturbed \cup {turn[t].session : t \in {u \in Turn : Live(u)}}
    /\ turn' = [t \in Turn |-> IF Live(t) THEN Forget([turn[t] EXCEPT !.stage = "lost"]) ELSE turn[t]]
    /\ auto' = {} /\ pending' = [i \in Ids |-> 0] /\ tracked' = [i \in Ids |-> 0]
    /\ yes' = {} /\ allowed' = {}
    /\ UNCHANGED <<active, created, file, count, asked>>

-----------------------------------------------------------------------------
Step(t) ==
    \/ Post(t) \/ WriteLine(t) \/ CountLine(t)
    \/ Reply(t) \/ CallTool(t) \/ Nothing(t) \/ Fallback(t) \/ NoFallback(t)
    \/ Plain(t) \/ Ask(t) \/ Timeout(t) \/ Execute(t) \/ Denied(t)

Next ==
    \/ Crash \/ New \/ Reset
    \/ \E t \in Turn : Open(t) \/ Step(t) \/ Throw(t) \/ SoftReset(t)
    \/ \E c \in Call, i \in Ids : Answer(c, i)

\* The provider and the tools answer or time out, and so does the owner.
Spec == Init /\ [][Next]_vars /\ \A t \in Turn : WF_vars(Step(t))

-----------------------------------------------------------------------------
(* Properties                                                                *)

\* A guarded tool runs only when the owner, since this process began, approved
\* its call while it waited, or all calls of its session by the answer, late or
\* not, to a call of that session; another session is never approved with it.
\* The owner's word counts for every call with the id of the one answered: with
\* the ids that calls get when the provider sends none, that can be another's
\* (ensureToolApproved, resolveGuardianApproval).
GuardedRunsAreApproved ==
    \A t \in Turn : turn[t].stage = "approved" =>
                       CallOf(t) \in yes \/ turn[t].session \in allowed

\* The transcript line that a turn takes for its user's message (the episodes
\* point to it) is that message, in a session where no two turns ever
\* overlapped and none was cut off (buildContext, appendTranscript).
LineIsExact ==
    \A t \in {u \in Turn : turn[u].line # None /\ turn[u].session \notin disturbed} :
        "user" \in ToSet(turn[t].wrote) => turn[t].at = turn[t].line

\* A turn that returned has written its reply last, and every tool call with
\* its result, whatever failed on the way and whoever wrote in between; a hard
\* reset erases it.  The empty answer of a model is the last entry only of a
\* turn that was to ask no other model: autoFallback was off when the turn
\* looked (runCore, streamCore).
ReplyIsLast ==
    \A t \in Turn : turn[t].stage = "done" /\ turn[t].line # None =>
        LET mine == turn[t].wrote IN
        /\ mine # <<>> /\ Last(mine) = (IF turn[t].unanswered THEN "empty" ELSE "reply")
        /\ \A i \in DOMAIN mine : mine[i] = "call" => mine[i + 1] = "result"

\* Every turn ends, even when the owner never answers: in the end none is under
\* way (a turn that has ended never begins again).
EveryTurnEnds == <>[](\A t \in Turn : ~Live(t))
=============================================================================
