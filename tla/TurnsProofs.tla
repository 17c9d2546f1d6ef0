----------------------------- MODULE TurnsProofs -----------------------------
(***************************************************************************)
(* Approvals, transcripts and replies of any number of turns that share    *)
(* sessions, with any number of tool rounds, crashes and resets.           *)
(***************************************************************************)
EXTENDS Turns, SequenceTheorems, TLAPS

Numbers == Nat \X Nat
Stages == Working \cup {"new", "done", "thrown", "lost"}

TurnRecord == [stage : Stages, session : Session \cup {0}, stream : BOOLEAN,
               line : Nat \cup {None}, round : Nat, wrote : Seq(Roles), at : Nat,
               entries : Seq(Roles), landed : BOOLEAN, read : Nat,
               then : {"new", "llm", "tool", "fallback", "done"},
               id : Numbers, unanswered : BOOLEAN]

TypeOK ==
    /\ turn \in [Turn -> TurnRecord]
    /\ active \in 0 .. MaxSessions /\ created \in 0 .. MaxSessions
    /\ file \in [Session -> Nat] /\ count \in [Session -> Nat]
    /\ disturbed \subseteq Session
    /\ pending \in [Ids -> Turn \cup {0}] /\ tracked \in [Ids -> Session \cup {0}]

\* A turn that is new has nothing, one that is not has a session.
NewIsBlank ==
    \A t \in Turn : IF turn[t].stage = "new" THEN turn[t] = NewTurn
                                             ELSE turn[t].session \in Session

(* The guardian: the turn that an answer would resolve waits under the id   *)
(* of the answer; a session that is tracked under an id is that of a call   *)
(* that was asked under it and is not answered; a session is approved       *)
(* wholly only by an answer.                                                *)
PendingWaits ==
    /\ \A i \in Ids : pending[i] # 0 => turn[pending[i]].stage = "wait" /\ turn[pending[i]].id = i
    /\ \A i \in Ids : tracked[i] # 0 =>
           \E a \in asked : a[2] = i /\ turn[a[1][1]].session = tracked[i]
    /\ \A a \in asked : a[1][1] \in Turn /\ turn[a[1][1]].stage # "new"
    /\ auto \subseteq allowed

(* What a turn has written: its calls have their results, but the last may *)
(* be open.                                                                *)
Closed(w) == \A i \in 1 .. Len(w) :
                 w[i] = "call" => i + 1 \in 1 .. Len(w) /\ w[i + 1] = "result"
OneOpen(w) ==
    /\ w # <<>> /\ w[Len(w)] = "call"
    /\ \A i \in 1 .. Len(w) - 1 : w[i] = "call" => w[i + 1] = "result"
Ends(w, e) == w # <<>> /\ w[Len(w)] = e

Rows == {<<"user">>, <<"reply">>, <<"empty">>, <<"reset">>, <<"call">>, <<"result">>,
         <<"call", "result">>}

\* The row that is being written, and what of it is in the file.
RowFits(r) ==
    /\ r.entries \in Rows
    /\ IF (Head(r.entries) = "result" /\ ~r.landed) \/ (Head(r.entries) = "call" /\ r.landed)
       THEN OneOpen(r.wrote) ELSE Closed(r.wrote)
    /\ r.landed => Ends(r.wrote, Head(r.entries))
    /\ r.then = "tool" <=> r.entries = <<"call">>
    /\ r.then = "tool" => r.stream
    /\ r.then = "done" => \/ r.unanswered = FALSE /\ r.entries \in {<<"reply">>, <<"reset">>}
                          \/ r.unanswered = TRUE /\ r.entries = <<"empty">>
    /\ r.then # "done" => r.unanswered = FALSE
    /\ r.then = "fallback" => r.entries = <<"empty">> /\ r.stream = FALSE
    /\ r.then # "new"
    /\ r.line # None => r.entries # <<"reset">>

WellWritten(r) ==
    /\ r.stage \in {"built", "llm", "fallback"} => Closed(r.wrote)
    /\ r.stage \in {"tool", "wait", "approved", "denied"} =>
          IF r.stream THEN OneOpen(r.wrote) ELSE Closed(r.wrote)
    /\ r.stage = "append" => RowFits(r)
    /\ r.stage \in Working \ {"append"} => r.unanswered = FALSE
    /\ r.stage = "fallback" /\ r.stream = FALSE => Ends(r.wrote, "empty")
    /\ r.stage = "done" /\ r.line # None =>
          /\ Closed(r.wrote)
          /\ \/ r.unanswered = FALSE /\ Ends(r.wrote, "reply")
             \/ r.unanswered = TRUE /\ Ends(r.wrote, "empty")
CallsHaveResults == \A t \in Turn : WellWritten(turn[t])

(* Where nobody disturbs, one turn writes at a time, the count is that of  *)
(* the lines, and the user's message gets the line that was read for it.   *)
MidWrite(t) == turn[t].stage = "append" /\ turn[t].landed
Calm(s) == s \in Session \ disturbed
OneAtATime ==
    \A t, u \in Turn : Live(t) /\ Live(u) /\ turn[t].session = turn[u].session
                         /\ Calm(turn[t].session) => t = u
CountIsExact ==
    /\ \A s \in Session : Calm(s) /\ (\A t \in LiveIn(s) : ~MidWrite(t)) => count[s] = file[s]
    /\ \A t \in Turn : turn[t].stage = "append" /\ Calm(turn[t].session) =>
          /\ count[turn[t].session] = turn[t].read
          /\ turn[t].landed => file[turn[t].session] = turn[t].read + 1
LineIsNext ==
    \A t \in Turn : turn[t].line # None /\ Calm(turn[t].session) =>
        /\ turn[t].stage = "built" => turn[t].line = count[turn[t].session] /\ turn[t].wrote = <<>>
        /\ turn[t].stage = "append" /\ turn[t].entries = <<"user">> /\ ~turn[t].landed
             => turn[t].line = count[turn[t].session]
        /\ "user" \in ToSet(turn[t].wrote) => turn[t].at = turn[t].line

Typed == TypeOK /\ NewIsBlank
Guarded == PendingWaits /\ GuardedRunsAreApproved
Lined == OneAtATime /\ CountIsExact /\ LineIsNext
IInv == Typed /\ Guarded /\ CallsHaveResults /\ Lined

-----------------------------------------------------------------------------
(* What a step does to the turns.                                          *)

Others(t) == \A u \in Turn \ {t} : turn'[u] = turn[u]

\* The fields of a turn that no step of it but a line or an end changes.
Keeps(t) ==
    /\ turn'[t].session = turn[t].session /\ turn'[t].stream = turn[t].stream
    /\ turn'[t].line = turn[t].line /\ turn'[t].wrote = turn[t].wrote
    /\ turn'[t].at = turn[t].at /\ turn'[t].unanswered = turn[t].unanswered

\* A turn that starts to write a row (Write, and the call of CallTool).
Writes(t, entries, then) ==
    /\ Others(t) /\ Keeps(t) /\ turn'[t].stage = "append"
    /\ turn'[t].entries = entries /\ turn'[t].landed = FALSE /\ turn'[t].then = then
    /\ turn'[t].read = count[turn[t].session]

\* The rows are sequences of roles.
LEMMA RowsAreOfRoles == Rows \subseteq Seq(Roles)
<1>1. \A e \in Roles : <<e>> \in Seq(Roles)
    OBVIOUS
<1>2. <<"call", "result">> \in Seq(Roles)
    BY DEF Roles
<1> QED BY <1>1, <1>2 DEF Rows, Roles

\* A turn record that is given a row to write is a turn record.
LEMMA AppendIsTyped ==
    ASSUME NEW r \in TurnRecord, NEW e \in Seq(Roles), NEW n \in Nat,
           NEW then \in {"llm", "tool", "fallback", "done"}
    PROVE  [r EXCEPT !.stage = "append", !.entries = e, !.landed = FALSE,
                     !.read = n, !.then = then] \in TurnRecord
<1>1. "append" \in Stages /\ FALSE \in BOOLEAN
    BY DEF Stages, Working
<1> QED BY <1>1 DEF TurnRecord

\* Every operation that starts a row writes one of the known rows and leaves
\* the other turns and what this turn has written alone (appendTranscript).
LEMMA WriteWrites ==
    ASSUME Typed, NEW t \in Turn, turn[t].stage # "new", NEW entries \in Rows,
           NEW then \in {"llm", "tool", "fallback", "done"}, Write(t, entries, then)
    PROVE  /\ Writes(t, entries, then) /\ turn'[t].round = turn[t].round
           /\ turn' \in [Turn -> TurnRecord]
<1>1. turn[t].session \in Session /\ count[turn[t].session] \in Nat
    BY DEF Typed, NewIsBlank, TypeOK
<1>2. entries \in Seq(Roles)
    BY RowsAreOfRoles
<1>3. Writes(t, entries, then) /\ turn'[t].round = turn[t].round
    BY <1>1 DEF Typed, TypeOK, TurnRecord, Write, Writes, Others, Keeps
<1>4. turn' \in [Turn -> TurnRecord]
    <2>1. turn' = [turn EXCEPT ![t] = [turn[t] EXCEPT
              !.stage = "append", !.entries = entries, !.landed = FALSE,
              !.read = count[turn[t].session], !.then = then]]
        BY DEF Typed, TypeOK, Write
    <2>2. [turn[t] EXCEPT !.stage = "append", !.entries = entries, !.landed = FALSE,
              !.read = count[turn[t].session], !.then = then] \in TurnRecord
        BY <1>1, <1>2, AppendIsTyped DEF Typed, TypeOK
    <2> QED BY <2>1, <2>2 DEF Typed, TypeOK
<1> QED BY <1>3, <1>4

\* A turn that goes on without writing.
Moves(t, stage) ==
    /\ Others(t) /\ Keeps(t) /\ turn'[t].stage = stage

\* The operations that start a row, with the row and what comes after it; the
\* row of a call's result depends on whether the call is written already.
ResultRow(t) == IF turn[t].stream THEN <<"result">> ELSE <<"call", "result">>
LEMMA RowSteps ==
    ASSUME Typed, NEW t \in Turn
    PROVE  /\ Post(t) => Writes(t, <<"user">>, "llm") /\ turn' \in [Turn -> TurnRecord]
           /\ Reply(t) \/ Fallback(t) =>
                  Writes(t, <<"reply">>, "done") /\ turn' \in [Turn -> TurnRecord]
           /\ (CallTool(t) /\ turn[t].stream) =>
                  Writes(t, <<"call">>, "tool") /\ turn' \in [Turn -> TurnRecord]
           /\ (Nothing(t) /\ ~turn[t].stream) =>
                  Writes(t, <<"empty">>, "fallback") /\ turn' \in [Turn -> TurnRecord]
           /\ Plain(t) \/ Execute(t) \/ Denied(t) =>
                  Writes(t, ResultRow(t), "llm") /\ turn' \in [Turn -> TurnRecord]
<1> USE DEF Rows
<1>1. Post(t) => Writes(t, <<"user">>, "llm") /\ turn' \in [Turn -> TurnRecord]
    BY WriteWrites DEF Post
<1>2. Reply(t) \/ Fallback(t) =>
          Writes(t, <<"reply">>, "done") /\ turn' \in [Turn -> TurnRecord]
    BY WriteWrites DEF Reply, Fallback
<1>3. ASSUME CallTool(t), turn[t].stream
      PROVE  Writes(t, <<"call">>, "tool") /\ turn' \in [Turn -> TurnRecord]
    <2> DEFINE n == turn[t].round + 1
               r == [turn[t] EXCEPT !.round = n, !.stage = "append", !.entries = <<"call">>,
                                    !.landed = FALSE, !.then = "tool",
                                    !.read = count[turn[t].session]]
    <2>1. count[turn[t].session] \in Nat /\ n \in Nat
        BY <1>3 DEF CallTool, Typed, NewIsBlank, TypeOK, TurnRecord
    <2>2. turn' = [turn EXCEPT ![t] = r]
        BY <1>3 DEF CallTool, Typed, TypeOK
    <2> HIDE DEF n
    <2>3. r \in TurnRecord
        <3>1. "append" \in Stages /\ <<"call">> \in Seq(Roles)
            BY RowsAreOfRoles DEF Stages, Working
        <3> HIDE DEF Rows
        <3> QED BY ZenonT(40), <2>1, <3>1 DEF Typed, TypeOK, TurnRecord
    <2>4. Writes(t, <<"call">>, "tool")
        BY <2>1, <2>2 DEF Typed, TypeOK, TurnRecord, Writes, Others, Keeps
    <2> QED BY <2>2, <2>3, <2>4 DEF Typed, TypeOK
<1>4. (Nothing(t) /\ ~turn[t].stream) =>
          Writes(t, <<"empty">>, "fallback") /\ turn' \in [Turn -> TurnRecord]
    BY WriteWrites DEF Nothing
<1>5. Plain(t) \/ Execute(t) \/ Denied(t) =>
          Writes(t, ResultRow(t), "llm") /\ turn' \in [Turn -> TurnRecord]
    BY WriteWrites DEF Plain, Execute, Denied, Result, ResultRow
<1> QED BY <1>1, <1>2, <1>3, <1>4, <1>5

LEMMA MoveTo ==
    ASSUME Typed, NEW t \in Turn, NEW stage \in Stages, turn' = [turn EXCEPT ![t].stage = stage]
    PROVE  Moves(t, stage) /\ turn'[t].round = turn[t].round /\ turn' \in [Turn -> TurnRecord]
<1> DEFINE r == [turn[t] EXCEPT !.stage = stage]
<1>1. /\ r \in TurnRecord /\ r.stage = stage /\ r.session = turn[t].session
      /\ r.stream = turn[t].stream /\ r.line = turn[t].line /\ r.wrote = turn[t].wrote
      /\ r.at = turn[t].at /\ r.round = turn[t].round /\ r.unanswered = turn[t].unanswered
    BY DEF Typed, TypeOK, TurnRecord
<1>2. turn' = [turn EXCEPT ![t] = r]
    OBVIOUS
<1> QED BY <1>1, <1>2 DEF Typed, TypeOK, Moves, Others, Keeps

\* The same for a turn that begins to wait under an id, or waits no more.
LEMMA MoveUnder ==
    ASSUME Typed, NEW t \in Turn, NEW stage \in Stages, NEW i \in Numbers,
           turn' = [turn EXCEPT ![t].stage = stage, ![t].id = i]
    PROVE  /\ Moves(t, stage) /\ turn'[t].round = turn[t].round /\ turn'[t].id = i
           /\ turn' \in [Turn -> TurnRecord]
<1> DEFINE r == [turn[t] EXCEPT !.stage = stage, !.id = i]
<1>0. turn[t] \in TurnRecord
    BY DEF Typed, TypeOK
<1>1. /\ r.stage = stage /\ r.session = turn[t].session
      /\ r.stream = turn[t].stream /\ r.line = turn[t].line /\ r.wrote = turn[t].wrote
      /\ r.at = turn[t].at /\ r.round = turn[t].round /\ r.unanswered = turn[t].unanswered
      /\ r.id = i
    BY <1>0 DEF TurnRecord
<1>2. turn' = [turn EXCEPT ![t] = r]
    BY DEF Typed, TypeOK
<1>3. r \in TurnRecord
    BY ZenonT(40), <1>0 DEF TurnRecord
<1> QED BY <1>1, <1>2, <1>3 DEF Typed, TypeOK, Moves, Others, Keeps

\* The operations that only move a turn on: the call of a blocking turn, the
\* guardian's steps and a provider that gives nothing.
LEMMA MoveSteps ==
    ASSUME Typed, NEW t \in Turn
    PROVE  /\ (CallTool(t) /\ ~turn[t].stream) =>
                  Moves(t, "tool") /\ turn' \in [Turn -> TurnRecord]
           /\ (Nothing(t) /\ turn[t].stream) =>
                  Moves(t, "fallback") /\ turn' \in [Turn -> TurnRecord]
           /\ Ask(t) => /\ Moves(t, IF turn[t].session \in auto THEN "approved" ELSE "wait")
                        /\ turn'[t].round = turn[t].round
                        /\ turn' \in [Turn -> TurnRecord]
           /\ Timeout(t) => Moves(t, "denied") /\ turn' \in [Turn -> TurnRecord]
<1>0. {"tool", "fallback", "approved", "denied", "wait"} \subseteq Stages
    BY DEF Stages, Working
<1>1. ASSUME CallTool(t), ~turn[t].stream
      PROVE  Moves(t, "tool") /\ turn' \in [Turn -> TurnRecord]
    <2> DEFINE n == turn[t].round + 1
               r == [turn[t] EXCEPT !.round = n, !.stage = "tool"]
    <2>0. n \in Nat
        BY DEF Typed, TypeOK, TurnRecord
    <2>2. turn' = [turn EXCEPT ![t] = r]
        BY <1>1 DEF CallTool, Typed, TypeOK
    <2> HIDE DEF n
    <2>3. turn[t] \in TurnRecord
        BY DEF Typed, TypeOK
    <2>4. r \in TurnRecord
        BY ZenonT(40), <1>0, <2>0, <2>3 DEF TurnRecord
    <2>1. /\ r.stage = "tool" /\ r.session = turn[t].session
          /\ r.stream = turn[t].stream /\ r.line = turn[t].line /\ r.wrote = turn[t].wrote
          /\ r.at = turn[t].at /\ r.unanswered = turn[t].unanswered
        BY <2>3 DEF TurnRecord
    <2> QED BY <2>1, <2>2, <2>4 DEF Typed, TypeOK, Moves, Others, Keeps
<1>2. (Nothing(t) /\ turn[t].stream) => Moves(t, "fallback") /\ turn' \in [Turn -> TurnRecord]
    BY <1>0, MoveTo DEF Nothing
<1>3. ASSUME Ask(t)
      PROVE  /\ Moves(t, IF turn[t].session \in auto THEN "approved" ELSE "wait")
             /\ turn'[t].round = turn[t].round
             /\ turn' \in [Turn -> TurnRecord]
    <2>1. CASE turn[t].session \in auto
        <3>1. turn' = [turn EXCEPT ![t].stage = "approved"]
            BY <1>3, <2>1 DEF Ask
        <3> QED BY <1>0, <2>1, <3>1, MoveTo
    <2>2. CASE turn[t].session \notin auto
        <3>0. NoId \in Numbers /\ CallOf(t) \in Numbers
            BY DEF NoId, CallOf, Turn, Typed, TypeOK, TurnRecord, Numbers
        <3>1. PICK i \in {NoId, CallOf(t)} : turn' = [turn EXCEPT ![t].stage = "wait", ![t].id = i]
            BY <1>3, <2>2 DEF Ask
        <3>2. i \in Numbers
            BY <3>0, <3>1
        <3> QED BY <1>0, <2>2, <3>1, <3>2, MoveUnder
    <2> QED BY <2>1, <2>2
<1>4. Timeout(t) => Moves(t, "denied") /\ turn' \in [Turn -> TurnRecord]
    <2>1. NoId \in Numbers
        BY DEF NoId, Numbers
    <2> QED BY <1>0, <2>1, MoveUnder DEF Timeout
<1> QED BY <1>1, <1>2, <1>3, <1>4

\* An answer moves the turn that it resolves, if there is one.
LEMMA AnswerStep ==
    ASSUME Typed, PendingWaits, NEW c \in Call, NEW i \in Ids, Answer(c, i)
    PROVE  \/ pending[i] = 0 /\ UNCHANGED turn
           \/ \E t \in Turn :
                 /\ pending[i] = t /\ turn[t].stage = "wait" /\ turn[t].id = i
                 /\ Moves(t, "approved") \/ Moves(t, "denied")
                 /\ turn'[t].round = turn[t].round /\ turn' \in [Turn -> TurnRecord]
<1>0. {"approved", "denied"} \subseteq Stages /\ NoId \in Numbers /\ 0 \notin Turn
    BY DEF Stages, Working, NoId, Turn, Numbers
<1>1. PICK approved \in BOOLEAN :
          turn' = IF pending[i] # 0
                  THEN [turn EXCEPT ![pending[i]].stage = IF approved THEN "approved" ELSE "denied",
                                    ![pending[i]].id = NoId]
                  ELSE turn
    BY DEF Answer
<1>2. CASE pending[i] = 0
    BY <1>1, <1>2
<1>3. CASE pending[i] # 0
    <2>1. PICK t \in Turn : t = pending[i]
        BY <1>3 DEF Typed, TypeOK
    <2>2. turn[t].stage = "wait" /\ turn[t].id = i
        BY <1>3, <2>1 DEF PendingWaits
    <2>3. CASE approved
        <3>1. turn' = [turn EXCEPT ![t].stage = "approved", ![t].id = NoId]
            BY <1>1, <1>3, <2>1, <2>3
        <3> QED BY <1>0, <2>1, <2>2, <3>1, MoveUnder
    <2>4. CASE ~approved
        <3>1. turn' = [turn EXCEPT ![t].stage = "denied", ![t].id = NoId]
            BY <1>1, <1>3, <2>1, <2>4
        <3> QED BY <1>0, <2>1, <2>2, <3>1, MoveUnder
    <2> QED BY <2>3, <2>4
<1> QED BY <1>2, <1>3

\* Without a fallback the empty answer is the last that the turn writes.
LEMMA NoFallbackStep ==
    ASSUME Typed, NEW t \in Turn, NoFallback(t)
    PROVE  /\ Others(t) /\ turn' \in [Turn -> TurnRecord] /\ turn'[t].unanswered = TRUE
           /\ turn'[t].session = turn[t].session /\ turn'[t].stream = turn[t].stream
           /\ turn'[t].line = turn[t].line /\ turn'[t].wrote = turn[t].wrote
           /\ turn'[t].at = turn[t].at
           /\ \/ turn[t].stream = FALSE /\ turn'[t].stage = "done"
              \/ /\ turn[t].stream = TRUE /\ turn'[t].stage = "append"
                 /\ turn'[t].entries = <<"empty">> /\ turn'[t].landed = FALSE
                 /\ turn'[t].then = "done" /\ turn'[t].read = count[turn[t].session]
<1>0. turn[t] \in TurnRecord /\ turn[t].session \in Session /\ count[turn[t].session] \in Nat
    BY DEF NoFallback, Typed, NewIsBlank, TypeOK
<1>1. CASE turn[t].stream
    <2> DEFINE n == count[turn[t].session]
               r == [turn[t] EXCEPT !.unanswered = TRUE, !.stage = "append",
                                    !.entries = <<"empty">>, !.landed = FALSE,
                                    !.then = "done", !.read = n]
    <2>1. turn' = [turn EXCEPT ![t] = r]
        BY <1>1 DEF NoFallback, Typed, TypeOK
    <2>2. "append" \in Stages /\ <<"empty">> \in Seq(Roles) /\ n \in Nat
        BY <1>0, RowsAreOfRoles DEF Stages, Working, Rows
    <2>3. turn'[t] = r /\ Others(t)
        BY <2>1 DEF Others, Typed, TypeOK
    <2> HIDE DEF n
    <2>4. r \in TurnRecord
        BY ZenonT(40), <1>0, <2>2 DEF TurnRecord
    <2>5. turn' \in [Turn -> TurnRecord]
        BY <2>1, <2>4 DEF Typed, TypeOK
    <2>6. /\ r.session = turn[t].session /\ r.stream = turn[t].stream /\ r.line = turn[t].line
          /\ r.wrote = turn[t].wrote /\ r.at = turn[t].at /\ r.unanswered = TRUE
          /\ r.stage = "append" /\ r.entries = <<"empty">> /\ r.landed = FALSE
          /\ r.then = "done" /\ r.read = n
        BY <1>0 DEF TurnRecord
    <2>7. turn[t].stream = TRUE
        BY <1>0, <1>1 DEF TurnRecord
    <2> QED BY <2>3, <2>5, <2>6, <2>7 DEF n
<1>2. CASE ~turn[t].stream
    <2> DEFINE r == [turn[t] EXCEPT !.unanswered = TRUE, !.stage = "done"]
    <2>1. turn' = [turn EXCEPT ![t] = r]
        BY <1>2 DEF NoFallback, Typed, TypeOK
    <2>3. turn'[t] = r /\ Others(t)
        BY <2>1 DEF Others, Typed, TypeOK
    <2>4. r \in TurnRecord
        BY <1>0 DEF TurnRecord, Stages
    <2>5. turn' \in [Turn -> TurnRecord]
        BY <2>1, <2>4 DEF Typed, TypeOK
    <2>6. /\ r.session = turn[t].session /\ r.stream = turn[t].stream /\ r.line = turn[t].line
          /\ r.wrote = turn[t].wrote /\ r.at = turn[t].at /\ r.unanswered = TRUE
          /\ r.stage = "done"
        BY <1>0 DEF TurnRecord
    <2>7. turn[t].stream = FALSE
        BY <1>0, <1>2 DEF TurnRecord
    <2> QED BY <2>3, <2>5, <2>6, <2>7
<1> QED BY <1>1, <1>2

\* A turn opens in a session that nobody else writes in, or disturbs it.
Opens(t, s) ==
    /\ turn[t] = NewTurn /\ Others(t) /\ turn' \in [Turn -> TurnRecord]
    /\ turn'[t].session = s /\ turn'[t].wrote = <<>> /\ turn'[t].unanswered = FALSE
    /\ disturbed' = IF LiveIn(s) = {} THEN disturbed ELSE disturbed \cup {s}
LEMMA OpenSteps ==
    ASSUME Typed, NEW t \in Turn
    PROVE  /\ Open(t) => \E s \in Session :
                  /\ Opens(t, s) /\ turn'[t].stage = "built" /\ turn'[t].line = count[s]
           /\ SoftReset(t) => \E s \in Session :
                  /\ Opens(t, s) /\ turn'[t].stage = "append" /\ turn'[t].line = None
                  /\ turn'[t].entries = <<"reset">> /\ turn'[t].landed = FALSE
                  /\ turn'[t].then = "done" /\ turn'[t].read = count[s]
<1> USE DEF Typed, TypeOK, NewIsBlank
<1>0. NewTurn \in TurnRecord
    BY DEF NewTurn, TurnRecord, Stages, Working, NoId, Numbers
<1>1. ASSUME NEW s \in Session, Opening(t, s),
             turn' = [turn EXCEPT ![t] = [NewTurn EXCEPT !.stage = "built", !.session = s,
                                            !.stream = t \in Streamed, !.line = count[s]]]
      PROVE  Opens(t, s) /\ turn'[t].stage = "built" /\ turn'[t].line = count[s]
    <2> DEFINE r == [NewTurn EXCEPT !.stage = "built", !.session = s,
                                    !.stream = t \in Streamed, !.line = count[s]]
    <2>1. /\ r.stage = "built" /\ r.session = s /\ r.stream = (t \in Streamed)
          /\ r.line = count[s] /\ r.wrote = <<>> /\ r.unanswered = FALSE
        BY DEF NewTurn
    <2>2. r \in TurnRecord
        <3>1. (t \in Streamed) \in BOOLEAN /\ count[s] \in Nat /\ "built" \in Stages
            BY DEF Stages, Working
        <3> DEFINE b == (t \in Streamed) n == count[s]
        <3> HIDE DEF b, n
        <3>2. [NewTurn EXCEPT !.stage = "built", !.session = s, !.stream = b, !.line = n]
                  \in TurnRecord
            BY <1>0, <3>1 DEF TurnRecord, b, n
        <3> QED BY <3>2 DEF b, n
    <2>3. turn'[t] = r /\ Others(t) /\ turn' \in [Turn -> TurnRecord]
        BY <1>1, <2>2 DEF Others
    <2>4. turn[t] = NewTurn
        BY <1>1 DEF Opening
    <2> QED BY <1>1, <2>1, <2>3, <2>4 DEF Opens, Opening
<1>2. ASSUME NEW s \in Session, Opening(t, s),
             turn' = [turn EXCEPT ![t].stage = "append", ![t].session = s,
                                  ![t].entries = <<"reset">>,
                                  ![t].read = count[s], ![t].then = "done"]
      PROVE  /\ Opens(t, s) /\ turn'[t].stage = "append" /\ turn'[t].line = None
             /\ turn'[t].entries = <<"reset">> /\ turn'[t].landed = FALSE
             /\ turn'[t].then = "done" /\ turn'[t].read = count[s]
    <2> DEFINE r == [NewTurn EXCEPT !.stage = "append", !.session = s,
                                    !.entries = <<"reset">>, !.read = count[s], !.then = "done"]
    <2>1. /\ r.stage = "append" /\ r.session = s /\ r.line = None /\ r.wrote = <<>>
          /\ r.entries = <<"reset">> /\ r.landed = FALSE /\ r.then = "done" /\ r.read = count[s]
          /\ r.unanswered = FALSE
        BY DEF NewTurn
    <2>2. r \in TurnRecord
        <3>1. count[s] \in Nat /\ "append" \in Stages /\ <<"reset">> \in Seq(Roles)
            BY RowsAreOfRoles DEF Stages, Working, Rows
        <3> QED BY <1>0, <3>1 DEF TurnRecord
    <2>4. turn[t] = NewTurn
        BY <1>2 DEF Opening
    <2>3. turn'[t] = r /\ Others(t) /\ turn' \in [Turn -> TurnRecord]
        BY <1>2, <2>2, <2>4 DEF Others
    <2> QED BY <1>2, <2>1, <2>3, <2>4 DEF Opens, Opening
<1>3. Open(t) => \E s \in Session :
          /\ Opens(t, s) /\ turn'[t].stage = "built" /\ turn'[t].line = count[s]
    BY <1>1, Zenon DEF Open
<1>4. SoftReset(t) => \E s \in Session :
          /\ Opens(t, s) /\ turn'[t].stage = "append" /\ turn'[t].line = None
          /\ turn'[t].entries = <<"reset">> /\ turn'[t].landed = FALSE
          /\ turn'[t].then = "done" /\ turn'[t].read = count[s]
    BY <1>2, Zenon DEF SoftReset
<1> QED BY <1>3, <1>4

\* A line: the entry is the next of what the turn has written, and its place
\* is noted when it is the user's message.
LEMMA LineStep ==
    ASSUME Typed, NEW t \in Turn, WriteLine(t), turn[t].entries \in Rows
    PROVE  LET entry == Head(turn[t].entries) here == turn[t].session IN
           /\ Others(t) /\ turn' \in [Turn -> TurnRecord] /\ here \in Session
           /\ entry \in Roles
           /\ turn'[t].stage = "append" /\ turn'[t].session = here /\ turn'[t].landed = TRUE
           /\ turn'[t].stream = turn[t].stream /\ turn'[t].line = turn[t].line
           /\ turn'[t].unanswered = turn[t].unanswered
           /\ turn'[t].entries = turn[t].entries /\ turn'[t].then = turn[t].then
           /\ turn'[t].read = turn[t].read /\ turn'[t].wrote = Append(turn[t].wrote, entry)
           /\ turn'[t].at = IF entry = "user" THEN file[here] ELSE turn[t].at
           /\ file' = [file EXCEPT ![here] = @ + 1]
<1> DEFINE entry == Head(turn[t].entries) here == turn[t].session
           r == [turn[t] EXCEPT !.landed = TRUE, !.wrote = Append(@, entry),
                                !.at = IF entry = "user" THEN file[here] ELSE @]
<1>1. here \in Session
    BY DEF WriteLine, Typed, TypeOK, NewIsBlank
<1>2. entry \in Roles
    BY DEF Rows, Roles
<1>3. turn' = [turn EXCEPT ![t] = r]
    BY DEF WriteLine, Typed, TypeOK
<1>4. r \in TurnRecord
    <2>1. Append(turn[t].wrote, entry) \in Seq(Roles) /\ file[here] \in Nat
        BY <1>1, <1>2 DEF Typed, TypeOK, TurnRecord
    <2> QED BY ZenonT(40), <2>1 DEF Typed, TypeOK, TurnRecord
<1>5. /\ r.stage = "append" /\ r.session = here /\ r.landed = TRUE
      /\ r.stream = turn[t].stream /\ r.line = turn[t].line
      /\ r.entries = turn[t].entries /\ r.then = turn[t].then
      /\ r.read = turn[t].read /\ r.wrote = Append(turn[t].wrote, entry)
      /\ r.at = IF entry = "user" THEN file[here] ELSE turn[t].at
      /\ r.unanswered = turn[t].unanswered
    BY DEF WriteLine, Typed, TypeOK, TurnRecord
<1>6. file' = [file EXCEPT ![here] = @ + 1]
    BY DEF WriteLine
<1> HIDE DEF r, entry, here
<1>7. Others(t) /\ turn' \in [Turn -> TurnRecord] /\ turn'[t] = r
    BY <1>3, <1>4 DEF Others, Typed, TypeOK
<1> QED BY <1>1, <1>2, <1>5, <1>6, <1>7 DEF entry, here

\* A count: the row goes on with its next entry, or the turn goes on.
LEMMA CountStep ==
    ASSUME Typed, NEW t \in Turn, CountLine(t), RowFits(turn[t])
    PROVE  /\ Others(t) /\ Keeps(t) /\ turn' \in [Turn -> TurnRecord]
           /\ turn[t].session \in Session
           /\ count' = [count EXCEPT ![turn[t].session] = turn[t].read + 1]
           /\ turn'[t].landed = FALSE
           /\ IF turn[t].entries = <<"call", "result">>
              THEN /\ turn'[t].stage = "append" /\ turn'[t].entries = <<"result">>
                   /\ turn'[t].then = turn[t].then /\ turn'[t].read = turn[t].read + 1
              ELSE turn'[t].stage = turn[t].then
<1>1. turn[t].session \in Session
    BY DEF CountLine, Typed, TypeOK, NewIsBlank
<1>2. CASE turn[t].entries = <<"call", "result">>
    <2> DEFINE n == turn[t].read + 1
               r == [turn[t] EXCEPT !.entries = <<"result">>, !.landed = FALSE, !.read = n]
    <2>1. Len(turn[t].entries) # 1 /\ Tail(turn[t].entries) = <<"result">>
        BY <1>2
    <2>2. turn' = [turn EXCEPT ![t] = r]
        BY <2>1 DEF CountLine, ReadNext, Typed, TypeOK
    <2>3. r \in TurnRecord
        <3>1. <<"result">> \in Seq(Roles) /\ n \in Nat
            BY RowsAreOfRoles DEF Rows, Typed, TypeOK, TurnRecord
        <3>2. turn[t] \in TurnRecord /\ FALSE \in BOOLEAN
            BY DEF Typed, TypeOK
        <3> HIDE DEF n
        <3> QED BY ZenonT(40), <3>1, <3>2 DEF TurnRecord
    <2>4. r.stage = "append"
        BY DEF CountLine, Typed, TypeOK, TurnRecord
    <2>5. turn[t] \in TurnRecord /\ turn'[t] = r /\ turn' \in [Turn -> TurnRecord]
        BY <2>2, <2>3 DEF Typed, TypeOK
    <2>6. Others(t)
        BY <2>2 DEF Others, Typed, TypeOK
    <2>7. /\ Keeps(t) /\ turn'[t].landed = FALSE /\ turn'[t].entries = <<"result">>
          /\ turn'[t].then = turn[t].then /\ turn'[t].read = turn[t].read + 1
        BY <2>5 DEF Keeps, TurnRecord
    <2>8. count' = [count EXCEPT ![turn[t].session] = turn[t].read + 1]
        BY DEF CountLine
    <2> QED BY <1>1, <1>2, <2>4, <2>5, <2>6, <2>7, <2>8
<1>3. CASE turn[t].entries # <<"call", "result">>
    <2> DEFINE r == [turn[t] EXCEPT !.stage = turn[t].then, !.entries = <<>>,
                                    !.landed = FALSE, !.read = 0, !.then = "new"]
    <2>1. Len(turn[t].entries) = 1
        BY <1>3 DEF RowFits, Rows
    <2>2. turn' = [turn EXCEPT ![t] = r]
        BY <2>1 DEF CountLine, Typed, TypeOK
    <2>3. r \in TurnRecord
        <3>1. turn[t].then \in Stages /\ <<>> \in Seq(Roles)
            <4>1. turn[t] \in TurnRecord
                BY DEF Typed, TypeOK
            <4>2. turn[t].then \in {"new", "llm", "tool", "fallback", "done"}
                BY <4>1 DEF TurnRecord
            <4> QED BY <4>2 DEF Stages, Working
        <3>2. turn[t] \in TurnRecord /\ 0 \in Nat
            BY DEF Typed, TypeOK
        <3> QED BY <3>1, <3>2 DEF TurnRecord
    <2>4. turn[t] \in TurnRecord /\ turn'[t] = r /\ turn' \in [Turn -> TurnRecord]
        BY <2>2, <2>3 DEF Typed, TypeOK
    <2>5. Others(t)
        BY <2>2 DEF Others, Typed, TypeOK
    <2>6. Keeps(t) /\ turn'[t].landed = FALSE /\ turn'[t].stage = turn[t].then
        BY <2>4 DEF Keeps, TurnRecord
    <2>7. count' = [count EXCEPT ![turn[t].session] = turn[t].read + 1]
        BY DEF CountLine
    <2> QED BY <1>1, <1>3, <2>4, <2>5, <2>6, <2>7
<1> QED BY <1>2, <1>3

\* A turn that ends for good keeps its session and where it ended.
LEMMA Forgets ==
    ASSUME NEW r \in TurnRecord
    PROVE  /\ Forget(r) \in TurnRecord
           /\ Forget(r).stage = r.stage /\ Forget(r).session = r.session
           /\ Forget(r).line = None /\ Forget(r).wrote = <<>>
<1>1. NewTurn \in TurnRecord /\ NewTurn.line = None /\ NewTurn.wrote = <<>>
    BY DEF NewTurn, TurnRecord, Stages, NoId, Numbers
<1> QED BY <1>1 DEF Forget, TurnRecord

LEMMA ThrowStep ==
    ASSUME Typed, NEW t \in Turn, Throw(t)
    PROVE  /\ Others(t) /\ turn' \in [Turn -> TurnRecord]
           /\ turn'[t].stage = "thrown" /\ turn'[t].session = turn[t].session
           /\ turn'[t].line = None
<1> DEFINE r == [turn[t] EXCEPT !.stage = "thrown"]
<1>0. turn[t] \in TurnRecord /\ "thrown" \in Stages
    BY DEF Typed, TypeOK, Stages
<1>1. r.stage = "thrown" /\ r.session = turn[t].session
    BY <1>0 DEF TurnRecord
<1>3. r \in TurnRecord
    BY ZenonT(40), <1>0 DEF TurnRecord
<1>2. turn' = [turn EXCEPT ![t] = Forget(r)]
    BY DEF Throw
<1> QED BY <1>1, <1>2, <1>3, Forgets DEF Typed, TypeOK, Others

\* A hard reset and a crash end turns only where they are over, or all.
LEMMA ResetStep ==
    ASSUME Typed, Reset
    PROVE  \E s \in Session :
               /\ LiveIn(s) = {} /\ turn' \in [Turn -> TurnRecord]
               /\ file' = [file EXCEPT ![s] = 0] /\ count' = [count EXCEPT ![s] = 0]
               /\ \A u \in Turn : \/ turn[u].session # s /\ turn'[u] = turn[u]
                                  \/ /\ turn[u].session = s /\ turn'[u].line = None
                                     /\ turn'[u].stage = turn[u].stage
                                     /\ turn'[u].session = turn[u].session
<1>1. PICK s \in Session :
          /\ LiveIn(s) = {} /\ file' = [file EXCEPT ![s] = 0] /\ count' = [count EXCEPT ![s] = 0]
          /\ turn' = [u \in Turn |-> IF turn[u].session = s THEN Forget(turn[u]) ELSE turn[u]]
    BY DEF Reset
<1> QED BY <1>1, Forgets DEF Typed, TypeOK

LEMMA CrashStep ==
    ASSUME Typed, Crash
    PROVE  /\ turn' \in [Turn -> TurnRecord] /\ disturbed' \in SUBSET Session
           /\ \A u \in Turn : \/ ~Live(u) /\ turn'[u] = turn[u]
                              \/ /\ Live(u) /\ turn'[u].stage = "lost" /\ turn'[u].line = None
                                 /\ turn'[u].session = turn[u].session
           /\ \A s \in Session : s \notin disturbed' => s \notin disturbed /\ LiveIn(s) = {}
<1>1. \A u \in Turn : LET r == [turn[u] EXCEPT !.stage = "lost"] IN
          r \in TurnRecord /\ r.stage = "lost" /\ r.session = turn[u].session
    <2> SUFFICES ASSUME NEW u \in Turn
                 PROVE  LET r == [turn[u] EXCEPT !.stage = "lost"] IN
                        r \in TurnRecord /\ r.stage = "lost" /\ r.session = turn[u].session
        OBVIOUS
    <2>1. turn[u] \in TurnRecord /\ "lost" \in Stages
        BY DEF Typed, TypeOK, Stages
    <2> QED BY <2>1 DEF TurnRecord
<1>2. turn' = [t \in Turn |-> IF Live(t) THEN Forget([turn[t] EXCEPT !.stage = "lost"])
                                         ELSE turn[t]]
    BY DEF Crash
<1>3. disturbed' \in SUBSET Session
    BY DEF Crash, Typed, TypeOK, NewIsBlank, Live, Working
<1>4. \A u \in Turn : /\ turn'[u] \in TurnRecord
                      /\ \/ ~Live(u) /\ turn'[u] = turn[u]
                         \/ /\ Live(u) /\ turn'[u].stage = "lost" /\ turn'[u].line = None
                            /\ turn'[u].session = turn[u].session
    <2> SUFFICES ASSUME NEW u \in Turn
                 PROVE  /\ turn'[u] \in TurnRecord
                        /\ \/ ~Live(u) /\ turn'[u] = turn[u]
                           \/ /\ Live(u) /\ turn'[u].stage = "lost" /\ turn'[u].line = None
                              /\ turn'[u].session = turn[u].session
        OBVIOUS
    <2>1. CASE Live(u)
        <3> DEFINE r == [turn[u] EXCEPT !.stage = "lost"]
        <3>1. turn'[u] = Forget(r)
            BY <1>2, <2>1
        <3>2. r \in TurnRecord /\ r.stage = "lost" /\ r.session = turn[u].session
            BY <1>1
        <3> HIDE DEF r
        <3> QED BY <2>1, <3>1, <3>2, Forgets
    <2>2. CASE ~Live(u)
        BY <1>2, <2>2 DEF Typed, TypeOK
    <2> QED BY <2>1, <2>2
<1>5. turn' \in [Turn -> TurnRecord]
    BY <1>2, <1>4
<1>6. \A s \in Session : s \notin disturbed' => s \notin disturbed /\ LiveIn(s) = {}
    BY DEF Crash, LiveIn
<1> QED BY <1>3, <1>4, <1>5, <1>6

-----------------------------------------------------------------------------
\* Types, and that a turn that is no longer new has a session.
LEMMA TypedInit == Init => Typed
<1> SUFFICES ASSUME Init PROVE Typed
    OBVIOUS
<1>1. NewTurn \in TurnRecord
    BY DEF NewTurn, TurnRecord, Stages, Working, NoId, Numbers
<1>2. MaxSessions \in Nat
    BY ConstantsAssumption
<1> QED BY <1>1, <1>2 DEF Init, Typed, TypeOK, NewIsBlank, Session, NewTurn

\* Under every id there is a turn or none, and a session or none.
Resolved == pending \in [Ids -> Turn \cup {0}] /\ tracked \in [Ids -> Session \cup {0}]
LEMMA ResolvedStep == ASSUME Typed, [Next]_vars PROVE Resolved'
<1>0. Resolved
    BY DEF Typed, TypeOK, Resolved
<1>1. ASSUME UNCHANGED guardian PROVE Resolved'
    BY <1>0, <1>1 DEF guardian, Resolved, Ids, Call, Turn, Session
<1>2. ASSUME NEW t \in Turn, Ask(t) PROVE Resolved'
    <2>1. turn[t].session \in Session
        BY <1>2 DEF Ask, Typed, NewIsBlank
    <2>2. \/ UNCHANGED guardian
          \/ \E i : /\ tracked' = [tracked EXCEPT ![i] = turn[t].session]
                    /\ pending' = [pending EXCEPT ![i] = t]
        BY <1>2 DEF Ask
    <2> QED BY <1>0, <1>1, <2>1, <2>2 DEF Resolved, Ids, Call, Turn, Session
<1>3. ASSUME NEW t \in Turn, Timeout(t) PROVE Resolved'
    <2>1. pending' = [pending EXCEPT ![turn[t].id] = 0] /\ tracked' = tracked
        BY <1>3 DEF Timeout
    <2> QED BY <1>0, <2>1 DEF Resolved, Ids, Call, Turn, Session
<1>4. ASSUME NEW c \in Call, NEW i \in Ids, Answer(c, i) PROVE Resolved'
    <2>1. pending' = [pending EXCEPT ![i] = 0] /\ tracked' = [tracked EXCEPT ![i] = 0]
        BY <1>4 DEF Answer
    <2> QED BY <1>0, <2>1 DEF Resolved, Ids, Call, Turn, Session
<1>5. ASSUME Crash PROVE Resolved'
    BY <1>5 DEF Crash, Resolved, Ids, Call, Turn, Session
<1>6. ASSUME New \/ Reset PROVE Resolved'
    BY <1>1, <1>6 DEF New, Reset
<1>7. ASSUME NEW t \in Turn, \/ Open(t) \/ Throw(t) \/ SoftReset(t) \/ Post(t) \/ WriteLine(t)
                            \/ CountLine(t) \/ Reply(t) \/ CallTool(t) \/ Nothing(t)
                            \/ Fallback(t) \/ NoFallback(t) \/ Plain(t) \/ Execute(t) \/ Denied(t)
      PROVE  Resolved'
    BY <1>1, <1>7 DEF Open, Throw, SoftReset, Post, WriteLine, CountLine, Reply, CallTool, Nothing,
                      Fallback, NoFallback, Plain, Execute, Denied
<1>8. CASE UNCHANGED vars
    BY <1>1, <1>8 DEF vars
<1> QED BY <1>2, <1>3, <1>4, <1>5, <1>6, <1>7, <1>8 DEF Next, Step

\* One turn changes, and stays or becomes one with a session.
LEMMA TypedTurn ==
    ASSUME Typed, NEW t \in Turn, Others(t), turn' \in [Turn -> TurnRecord],
           turn'[t].stage # "new", turn'[t].session \in Session,
           UNCHANGED <<file, count, disturbed, active, created>>, Resolved'
    PROVE  Typed'
    BY DEF Typed, TypeOK, NewIsBlank, Others, Turn, Session, Resolved, Ids, Call

LEMMA TypedStep == ASSUME IInv, [Next]_vars PROVE Typed'
<1> USE DEF IInv
<1>a. Resolved'
    BY ResolvedStep
<1>0. MaxSessions \in Nat
    BY ConstantsAssumption
<1>1. ASSUME NEW s \in Session, Resolve(s)
      PROVE  active' \in 0 .. MaxSessions /\ created' \in 0 .. MaxSessions
    BY <1>0, <1>1 DEF Resolve, Session, Typed, TypeOK
<1>2. ASSUME NEW t \in Turn, Open(t) \/ SoftReset(t) PROVE Typed'
    <2>1. PICK s \in Session : Opens(t, s) /\ turn'[t].stage \in {"built", "append"}
        BY <1>2, OpenSteps
    <2>2. active' \in 0 .. MaxSessions /\ created' \in 0 .. MaxSessions
        BY <1>1, <1>2 DEF Open, SoftReset, Opening
    <2>3. UNCHANGED <<file, count>>
        BY <1>2 DEF Open, SoftReset
    <2>4. disturbed' \subseteq Session
        BY <2>1 DEF Opens, Typed, TypeOK
    <2>5. NewIsBlank'
        BY <2>1 DEF Opens, Others, Typed, NewIsBlank, Turn, Session
    <2> QED BY <2>1, <2>2, <2>3, <2>4, <2>5, <1>a DEF Typed, TypeOK, Opens, Turn, Session, Resolved, Ids, Call
<1>3. ASSUME NEW t \in Turn, \/ Post(t) \/ Reply(t) \/ CallTool(t) \/ Nothing(t) \/ Fallback(t)
                            \/ NoFallback(t)
                            \/ Plain(t) \/ Ask(t) \/ Timeout(t) \/ Execute(t) \/ Denied(t)
      PROVE  Typed'
    <2>1. turn[t].stage # "new" /\ UNCHANGED <<file, count, disturbed, active, created>>
        BY <1>3 DEF Post, Reply, CallTool, Nothing, Fallback, NoFallback, Plain, Ask, Timeout,
                    Waits, Execute, Denied, store, history
    <2>2. /\ Others(t) /\ turn' \in [Turn -> TurnRecord] /\ turn'[t].stage # "new"
          /\ turn'[t].session = turn[t].session
        BY <1>3, RowSteps, MoveSteps, NoFallbackStep DEF Writes, Moves, Keeps
    <2> QED BY <1>a, <2>1, <2>2, TypedTurn DEF Typed, NewIsBlank
<1>4. ASSUME NEW t \in Turn, WriteLine(t) PROVE Typed'
    <2>1. turn[t].entries \in Rows /\ turn[t].stage = "append"
        BY <1>4 DEF WriteLine, CallsHaveResults, WellWritten, RowFits
    <2>2. /\ Others(t) /\ turn' \in [Turn -> TurnRecord] /\ turn[t].session \in Session
          /\ turn'[t].stage = turn[t].stage /\ turn'[t].session = turn[t].session
          /\ file' = [file EXCEPT ![turn[t].session] = @ + 1]
        BY <1>4, <2>1, LineStep DEF Typed, TypeOK, TurnRecord
    <2>3. UNCHANGED <<active, created, count, disturbed>>
        BY <1>4 DEF WriteLine, history
    <2>4. file' \in [Session -> Nat]
        BY <2>2 DEF Typed, TypeOK
    <2>5. NewIsBlank'
        BY <2>1, <2>2 DEF Others, Typed, NewIsBlank, Turn, Session
    <2> QED BY <1>a, <2>2, <2>3, <2>4, <2>5 DEF Typed, TypeOK, Turn, Session, Resolved, Ids, Call
<1>5. ASSUME NEW t \in Turn, CountLine(t) PROVE Typed'
    <2>1. RowFits(turn[t])
        BY <1>5 DEF CountLine, CallsHaveResults, WellWritten
    <2>2. /\ Others(t) /\ turn' \in [Turn -> TurnRecord] /\ turn[t].session \in Session
          /\ turn'[t].stage # "new" /\ turn'[t].session = turn[t].session
          /\ count' = [count EXCEPT ![turn[t].session] = turn[t].read + 1]
        BY <1>5, <2>1, CountStep DEF Keeps, RowFits
    <2>3. UNCHANGED <<active, created, file, disturbed>>
        BY <1>5 DEF CountLine, history
    <2>4. count' \in [Session -> Nat]
        BY <2>2 DEF Typed, TypeOK, TurnRecord
    <2>5. NewIsBlank'
        BY <2>2 DEF Others, Typed, NewIsBlank, Turn, Session
    <2> QED BY <1>a, <2>2, <2>3, <2>4, <2>5 DEF Typed, TypeOK, Turn, Session, Resolved, Ids, Call
<1>6. ASSUME NEW t \in Turn, Throw(t) PROVE Typed'
    <2>1. turn[t].session \in Session
        BY <1>6 DEF Throw, Typed, NewIsBlank
    <2>2. UNCHANGED <<file, count, disturbed, active, created>>
        BY <1>6 DEF Throw, store, history
    <2> QED BY <1>a, <1>6, <2>1, <2>2, ThrowStep, TypedTurn
<1>7. ASSUME NEW c \in Call, NEW i \in Ids, Answer(c, i) PROVE Typed'
    <2>1. UNCHANGED <<file, count, disturbed, active, created>>
        BY <1>7 DEF Answer, store
    <2>2. CASE UNCHANGED turn
        BY <1>a, <2>1, <2>2 DEF Typed, TypeOK, NewIsBlank, Turn, Session, Resolved, Ids, Call
    <2>3. CASE ~UNCHANGED turn
        <3>1. PICK t \in Turn : /\ turn[t].stage = "wait" /\ turn' \in [Turn -> TurnRecord]
                                /\ Moves(t, "approved") \/ Moves(t, "denied")
            BY <1>7, <2>3, AnswerStep DEF Guarded
        <3>2. turn[t].session \in Session
            BY <3>1 DEF Typed, NewIsBlank
        <3>3. /\ Others(t) /\ turn'[t].stage # "new" /\ turn'[t].session = turn[t].session
            BY <3>1 DEF Moves, Keeps
        <3> QED BY <1>a, <2>1, <3>1, <3>2, <3>3, TypedTurn
    <2> QED BY <2>2, <2>3
<1>8. ASSUME New PROVE Typed'
    BY <1>a, <1>0, <1>8 DEF New, Typed, TypeOK, NewIsBlank, Turn, Session, history,
                            Resolved, Ids, Call
<1>9. ASSUME Reset PROVE Typed'
    <2>1. active' \in 0 .. MaxSessions /\ created' \in 0 .. MaxSessions /\ UNCHANGED disturbed
        BY <1>1, <1>9 DEF Reset, history
    <2>2. turn' \in [Turn -> TurnRecord] /\ file' \in [Session -> Nat] /\ count' \in [Session -> Nat]
        BY <1>9, ResetStep DEF Typed, TypeOK
    <2>3. NewIsBlank'
        <3>1. \A u \in Turn : NewTurn.session = 0 /\ 0 \notin Session
            BY DEF NewTurn, Session
        <3> QED BY <1>9, <3>1, ResetStep DEF Typed, NewIsBlank, Turn, Session
    <2> QED BY <1>a, <2>1, <2>2, <2>3 DEF Typed, TypeOK, Turn, Session, Resolved, Ids, Call
<1>10. ASSUME Crash PROVE Typed'
    <2>1. UNCHANGED <<active, created, file, count>>
        BY <1>10 DEF Crash
    <2>2. NewIsBlank'
        BY <1>10, CrashStep DEF Typed, NewIsBlank, Live, Working, Turn, Session
    <2> QED BY <1>a, <1>10, <2>1, <2>2, CrashStep
            DEF Typed, TypeOK, Turn, Session, Resolved, Ids, Call
<1>11. CASE UNCHANGED vars
    BY <1>a, <1>11 DEF vars, store, history, Typed, TypeOK, NewIsBlank, Turn, Session,
                       Resolved, Ids, Call
<1> QED BY <1>2, <1>3, <1>4, <1>5, <1>6, <1>7, <1>8, <1>9, <1>10, <1>11 DEF Next, Step

-----------------------------------------------------------------------------
(* The guardian.                                                           *)

\* A step of a turn that neither waits before it nor is approved by it.
LEMMA GuardedTurn ==
    ASSUME Typed, Guarded, NEW t \in Turn, Others(t), turn[t].stage # "wait",
           turn'[t].stage \notin {"approved", "new"},
           turn[t].stage = "new" \/ turn'[t].session = turn[t].session,
           UNCHANGED <<guardian, yes, allowed>>
    PROVE  Guarded'
<1> USE DEF Guarded, guardian
<1>0. 0 \notin Turn
    BY DEF Turn
<1>1. ASSUME NEW i \in Ids, pending[i] # 0
      PROVE  turn'[pending[i]].stage = "wait" /\ turn'[pending[i]].id = i
    <2>1. pending[i] \in Turn /\ turn[pending[i]].stage = "wait" /\ turn[pending[i]].id = i
        BY <1>1 DEF PendingWaits, Typed, TypeOK
    <2> QED BY <2>1 DEF Others
<1>2. \A a \in asked : /\ a[1][1] \in Turn /\ turn'[a[1][1]].stage # "new"
                        /\ turn'[a[1][1]].session = turn[a[1][1]].session
    BY DEF PendingWaits, Others
<1>3. ASSUME NEW i \in Ids, tracked[i] # 0
      PROVE  \E a \in asked : a[2] = i /\ turn'[a[1][1]].session = tracked[i]
    BY <1>2, <1>3 DEF PendingWaits
<1>4. PendingWaits'
    BY <1>1, <1>2, <1>3 DEF PendingWaits, Turn, Ids, Call
<1>5. GuardedRunsAreApproved'
    BY DEF GuardedRunsAreApproved, Others, CallOf, Turn
<1> QED BY <1>4, <1>5

\* A step of the guardian that moves one turn at most.
LEMMA GuardMoves ==
    ASSUME Typed, Guarded, NEW t \in Turn, Others(t),
           turn'[t].session = turn[t].session, turn'[t].round = turn[t].round,
           turn[t].stage # "new", turn'[t].stage # "new"
    PROVE  /\ \A u \in Turn : CallOf(u)' = CallOf(u) /\ turn'[u].session = turn[u].session
           /\ \A a \in asked : a[1][1] \in Turn /\ turn'[a[1][1]].stage # "new"
           /\ \A i \in Ids : tracked[i] # 0 =>
                  \E a \in asked : a[2] = i /\ turn'[a[1][1]].session = tracked[i]
<1>1. \A u \in Turn : CallOf(u)' = CallOf(u) /\ turn'[u].session = turn[u].session
    BY DEF CallOf, Others
<1>2. \A a \in asked : a[1][1] \in Turn /\ turn'[a[1][1]].stage # "new"
    BY DEF Others, Guarded, PendingWaits
<1>3. \A i \in Ids : tracked[i] # 0 =>
          \E a \in asked : a[2] = i /\ turn'[a[1][1]].session = tracked[i]
    BY <1>1, <1>2 DEF Guarded, PendingWaits
<1> QED BY <1>1, <1>2, <1>3

LEMMA GuardedStep == ASSUME IInv, [Next]_vars PROVE Guarded'
<1> USE DEF IInv
<1>0. 0 \notin Turn /\ \A i \in Ids : pending[i] # 0 => pending[i] \in Turn
    BY DEF Turn, Typed, TypeOK
<1>1. ASSUME NEW t \in Turn, Open(t) \/ SoftReset(t) PROVE Guarded'
    <2>1. Others(t) /\ turn[t].stage = "new" /\ turn'[t].stage \in {"built", "append"}
        <3>1. PICK s \in Session : Opens(t, s) /\ turn'[t].stage \in {"built", "append"}
            BY <1>1, OpenSteps
        <3> QED BY <3>1 DEF Opens, NewTurn
    <2>2. UNCHANGED <<guardian, yes, allowed>>
        BY <1>1 DEF Open, SoftReset
    <2> QED BY <2>1, <2>2, GuardedTurn
<1>2. ASSUME NEW t \in Turn, \/ Post(t) \/ Reply(t) \/ CallTool(t) \/ Nothing(t) \/ Fallback(t)
                            \/ NoFallback(t) \/ Plain(t)
      PROVE  Guarded'
    <2>1. turn[t].stage # "wait" /\ UNCHANGED <<guardian, yes, allowed>>
        BY <1>2 DEF Post, Reply, CallTool, Nothing, Fallback, NoFallback, Plain, history
    <2>2. /\ Others(t) /\ turn'[t].stage \notin {"approved", "new"}
          /\ turn'[t].session = turn[t].session
        BY <1>2, RowSteps, MoveSteps, NoFallbackStep DEF Writes, Moves, Keeps
    <2> QED BY <2>1, <2>2, GuardedTurn
<1>3. ASSUME NEW t \in Turn, WriteLine(t) PROVE Guarded'
    <2>1. turn[t].entries \in Rows /\ turn[t].stage = "append"
        BY <1>3 DEF WriteLine, CallsHaveResults, WellWritten, RowFits
    <2>2. /\ Others(t) /\ turn'[t].stage = turn[t].stage
          /\ turn'[t].session = turn[t].session
        BY <1>3, <2>1, LineStep DEF Typed, TypeOK, TurnRecord
    <2>3. UNCHANGED <<guardian, yes, allowed>>
        BY <1>3 DEF WriteLine, history
    <2> QED BY <2>1, <2>2, <2>3, GuardedTurn
<1>4. ASSUME NEW t \in Turn, CountLine(t) PROVE Guarded'
    <2>1. RowFits(turn[t]) /\ turn[t].stage = "append" /\ turn[t].then \notin {"approved", "new"}
        BY <1>4 DEF CountLine, CallsHaveResults, WellWritten, RowFits, Typed, TypeOK, TurnRecord
    <2>2. /\ Others(t) /\ turn'[t].stage \notin {"approved", "new"}
          /\ turn'[t].session = turn[t].session
        BY <1>4, <2>1, CountStep DEF Keeps
    <2>3. UNCHANGED <<guardian, yes, allowed>>
        BY <1>4 DEF CountLine, history
    <2> QED BY <2>1, <2>2, <2>3, GuardedTurn
<1>5. ASSUME NEW t \in Turn, Throw(t) PROVE Guarded'
    <2>1. turn[t].stage # "wait" /\ UNCHANGED <<guardian, yes, allowed>>
        BY <1>5 DEF Throw, history
    <2> QED BY <1>5, <2>1, ThrowStep, GuardedTurn
<1>6. ASSUME NEW t \in Turn, Ask(t) PROVE Guarded'
    <2>1. /\ Moves(t, IF turn[t].session \in auto THEN "approved" ELSE "wait")
          /\ turn'[t].round = turn[t].round /\ turn[t].stage = "tool"
          /\ turn' \in [Turn -> TurnRecord] /\ UNCHANGED <<yes, allowed>>
        BY <1>6, MoveSteps DEF Ask, history
    <2>2. Others(t) /\ turn'[t].session = turn[t].session /\ turn'[t].stage # "new"
        BY <2>1 DEF Moves, Keeps
    <2>3. /\ \A u \in Turn : CallOf(u)' = CallOf(u) /\ turn'[u].session = turn[u].session
          /\ \A a \in asked : a[1][1] \in Turn /\ turn'[a[1][1]].stage # "new"
          /\ \A i \in Ids : tracked[i] # 0 =>
                 \E a \in asked : a[2] = i /\ turn'[a[1][1]].session = tracked[i]
        BY <2>1, <2>2, GuardMoves
    <2>4. \A i \in Ids : pending[i] # 0 => turn'[pending[i]] = turn[pending[i]]
        BY <1>0, <2>1, <2>2 DEF Guarded, PendingWaits, Others
    <2>5. CASE turn[t].session \in auto
        <3>1. UNCHANGED guardian
            BY <1>6, <2>5 DEF Ask
        <3>2. PendingWaits'
            BY <2>1, <2>3, <2>4, <3>1 DEF guardian, Guarded, PendingWaits, Ids, Call, Turn
        <3>3. GuardedRunsAreApproved'
            BY <2>1, <2>2, <2>3, <2>5 DEF Guarded, PendingWaits, GuardedRunsAreApproved, Others, Turn
        <3> QED BY <3>2, <3>3 DEF Guarded
    <2>6. CASE turn[t].session \notin auto
        <3>1. PICK i \in {NoId, CallOf(t)} :
                  /\ turn' = [turn EXCEPT ![t].stage = "wait", ![t].id = i]
                  /\ tracked' = [tracked EXCEPT ![i] = turn[t].session]
                  /\ pending' = [pending EXCEPT ![i] = t]
                  /\ asked' = asked \cup {<<CallOf(t), i>>}
                  /\ UNCHANGED auto
            BY <1>6, <2>6 DEF Ask
        <3>2. turn'[t].stage = "wait" /\ turn'[t].id = i
            BY <3>1 DEF Typed, TypeOK, TurnRecord
        <3>3. ASSUME NEW j \in Ids, pending'[j] # 0
              PROVE  turn'[pending'[j]].stage = "wait" /\ turn'[pending'[j]].id = j
            <4>1. pending' = [pending EXCEPT ![i] = t]
                BY <3>1
            <4>2. CASE j = i
                <5>1. pending'[j] = t
                    BY <4>1, <4>2 DEF Typed, TypeOK
                <5> QED BY <3>2, <4>2, <5>1
            <4>3. CASE j # i
                <5>1. pending'[j] = pending[j]
                    BY <4>1, <4>3 DEF Typed, TypeOK
                <5> QED BY <2>4, <3>3, <5>1 DEF Guarded, PendingWaits
            <4> QED BY <4>2, <4>3
        <3>4. ASSUME NEW j \in Ids, tracked'[j] # 0
              PROVE  \E a \in asked' : a[2] = j /\ turn'[a[1][1]].session = tracked'[j]
            <4>1. CASE j = i
                <5>1. tracked'[j] = turn[t].session
                    BY <3>1, <4>1 DEF Typed, TypeOK
                <5>2. <<CallOf(t), i>> \in asked' /\ <<CallOf(t), i>>[1][1] = t
                    BY <3>1 DEF CallOf
                <5> QED BY <2>2, <4>1, <5>1, <5>2
            <4>2. CASE j # i
                <5>1. tracked'[j] = tracked[j] /\ asked \subseteq asked'
                    BY <3>1, <4>2 DEF Typed, TypeOK
                <5>2. PICK a \in asked : a[2] = j /\ turn'[a[1][1]].session = tracked[j]
                    BY <2>3, <3>4, <5>1
                <5> QED BY <5>1, <5>2
            <4> QED BY <4>1, <4>2
        <3>5. \A a \in asked' : a[1][1] \in Turn /\ turn'[a[1][1]].stage # "new"
            <4>1. <<CallOf(t), i>>[1][1] = t
                BY DEF CallOf
            <4>2. asked' = asked \cup {<<CallOf(t), i>>}
                BY <3>1
            <4> QED BY <2>2, <2>3, <4>1, <4>2
        <3>6. PendingWaits'
            BY <2>1, <3>1, <3>3, <3>4, <3>5 DEF Guarded, PendingWaits, Ids, Call, Turn
        <3>7. GuardedRunsAreApproved'
            BY <2>1, <2>2, <2>3, <3>2 DEF Guarded, GuardedRunsAreApproved, Others, Turn
        <3> QED BY <3>6, <3>7 DEF Guarded
    <2> QED BY <2>5, <2>6
<1>7. ASSUME NEW t \in Turn, Timeout(t) PROVE Guarded'
    <2>1. /\ Moves(t, "denied") /\ turn[t].stage = "wait"
          /\ pending' = [pending EXCEPT ![turn[t].id] = 0]
          /\ turn' = [turn EXCEPT ![t].stage = "denied", ![t].id = NoId]
          /\ UNCHANGED <<auto, tracked, asked, yes, allowed>>
        BY <1>7, MoveSteps DEF Timeout, Waits, history
    <2>2. /\ Others(t) /\ turn'[t].session = turn[t].session /\ turn'[t].stage = "denied"
          /\ turn'[t].round = turn[t].round
        BY <2>1 DEF Moves, Keeps, Typed, TypeOK, TurnRecord
    <2>3. /\ \A u \in Turn : CallOf(u)' = CallOf(u) /\ turn'[u].session = turn[u].session
          /\ \A a \in asked : a[1][1] \in Turn /\ turn'[a[1][1]].stage # "new"
          /\ \A i \in Ids : tracked[i] # 0 =>
                 \E a \in asked : a[2] = i /\ turn'[a[1][1]].session = tracked[i]
        BY <2>1, <2>2, GuardMoves
    <2>4. ASSUME NEW j \in Ids, pending'[j] # 0
          PROVE  turn'[pending'[j]].stage = "wait" /\ turn'[pending'[j]].id = j
        <3>1. pending'[j] = pending[j] /\ j # turn[t].id
            BY <2>1, <2>4 DEF Typed, TypeOK
        <3>2. /\ pending[j] \in Turn /\ turn[pending[j]].stage = "wait"
              /\ turn[pending[j]].id = j
            BY <1>0, <2>4, <3>1 DEF Guarded, PendingWaits
        <3>3. pending[j] # t
            BY <3>1, <3>2
        <3> QED BY <2>2, <3>1, <3>2, <3>3 DEF Others
    <2>a. UNCHANGED <<auto, tracked, asked, yes, allowed>>
        BY <2>1
    <2>5. PendingWaits'
        BY <2>a, <2>3, <2>4 DEF Guarded, PendingWaits, Ids, Call, Turn
    <2>6. GuardedRunsAreApproved'
        BY <2>a, <2>2, <2>3 DEF Guarded, GuardedRunsAreApproved, Others, Turn
    <2> QED BY <2>5, <2>6 DEF Guarded
<1>8. ASSUME NEW t \in Turn, Execute(t) \/ Denied(t) PROVE Guarded'
    <2>1. /\ Others(t) /\ turn'[t].stage = "append" /\ turn'[t].session = turn[t].session
          /\ turn[t].stage \notin {"wait", "new"}
          /\ yes' = yes \ {CallOf(t)} /\ UNCHANGED <<guardian, allowed>>
        BY <1>8, RowSteps DEF Execute, Denied, Writes, Keeps
    <2>2. \A i \in Ids : pending[i] # 0 => turn'[pending[i]] = turn[pending[i]]
        BY <1>0, <2>1 DEF Guarded, PendingWaits, Others
    <2>3. \A a \in asked : /\ a[1][1] \in Turn /\ turn'[a[1][1]].stage # "new"
                            /\ turn'[a[1][1]].session = turn[a[1][1]].session
        BY <2>1 DEF Guarded, PendingWaits, Others
    <2>4. \A i \in Ids : tracked[i] # 0 =>
              \E a \in asked : a[2] = i /\ turn'[a[1][1]].session = tracked[i]
        BY <2>3 DEF Guarded, PendingWaits
    <2>5. PendingWaits'
        BY <2>1, <2>2, <2>3, <2>4 DEF Guarded, PendingWaits, guardian, Ids, Call, Turn
    <2>6. ASSUME NEW u \in Turn, turn'[u].stage = "approved"
          PROVE  CallOf(u)' \in yes' \/ turn'[u].session \in allowed'
        <3>1. u # t /\ turn'[u] = turn[u]
            BY <2>1, <2>6 DEF Others
        <3>2. CallOf(u)' = CallOf(u) /\ CallOf(u) # CallOf(t)
            BY <3>1 DEF CallOf
        <3> QED BY <2>1, <2>6, <3>1, <3>2 DEF Guarded, GuardedRunsAreApproved
    <2> QED BY <2>5, <2>6 DEF Guarded, GuardedRunsAreApproved, Turn
<1>9. ASSUME NEW c \in Call, NEW i \in Ids, Answer(c, i) PROVE Guarded'
    <2>1. PICK approved, all \in BOOLEAN :
              /\ asked' = asked \ {<<c, i>>} /\ <<c, i>> \in asked
              /\ auto' = IF approved /\ all THEN auto \cup ({tracked[i]} \ {0}) ELSE auto
              /\ tracked' = [tracked EXCEPT ![i] = 0] /\ pending' = [pending EXCEPT ![i] = 0]
              /\ turn' = IF pending[i] # 0
                         THEN [turn EXCEPT ![pending[i]].stage =
                                               IF approved THEN "approved" ELSE "denied",
                                           ![pending[i]].id = NoId]
                         ELSE turn
              /\ yes' = IF approved
                        THEN yes \cup {CallOf(t) : t \in {u \in Turn : Waits(u) /\ turn[u].id = i}}
                        ELSE yes
              /\ allowed' = IF approved /\ all
                            THEN allowed \cup {turn[a[1][1]].session :
                                                  a \in {b \in asked : b[2] = i}}
                            ELSE allowed
        BY <1>9 DEF Answer, SessionOf
    <2>2. allowed \subseteq allowed' /\ yes \subseteq yes'
        BY <2>1
    <2>3. auto' \subseteq allowed'
        <3>1. CASE approved /\ all /\ tracked[i] # 0
            <4>1. PICK a \in asked : a[2] = i /\ turn[a[1][1]].session = tracked[i]
                BY <3>1 DEF Guarded, PendingWaits
            <4>2. tracked[i] \in allowed'
                BY <2>1, <3>1, <4>1
            <4> QED BY <2>1, <2>2, <4>2 DEF Guarded, PendingWaits
        <3>2. CASE ~(approved /\ all /\ tracked[i] # 0)
            BY <2>1, <2>2, <3>2 DEF Guarded, PendingWaits
        <3> QED BY <3>1, <3>2
    <2>4. \A j \in Ids : tracked'[j] # 0 => tracked'[j] = tracked[j] /\ j # i
        BY <2>1 DEF Typed, TypeOK
    <2>5. \A j \in Ids : pending'[j] # 0 => pending'[j] = pending[j] /\ j # i
        BY <2>1 DEF Typed, TypeOK
    <2>6. \A j \in Ids \ {i} : \A a \in asked : a[2] = j => a \in asked'
        BY <2>1
    <2>7. CASE pending[i] = 0
        <3>1. UNCHANGED turn
            BY <2>1, <2>7
        <3>2. ASSUME NEW j \in Ids, tracked'[j] # 0
              PROVE  \E a \in asked' : a[2] = j /\ turn'[a[1][1]].session = tracked'[j]
            BY <2>4, <2>6, <3>1, <3>2 DEF Guarded, PendingWaits
        <3>3. PendingWaits'
            <4>1. asked' \subseteq asked
                BY <2>1
            <4> QED BY <2>3, <2>5, <3>1, <3>2, <4>1 DEF Guarded, PendingWaits, Ids, Call, Turn
        <3>4. GuardedRunsAreApproved'
            BY <2>2, <3>1 DEF Guarded, GuardedRunsAreApproved, CallOf, Turn
        <3> QED BY <3>3, <3>4 DEF Guarded
    <2>8. CASE pending[i] # 0
        <3>1. PICK t \in Turn : /\ pending[i] = t /\ turn[t].stage = "wait" /\ turn[t].id = i
                                /\ Moves(t, "approved") \/ Moves(t, "denied")
                                /\ turn'[t].round = turn[t].round /\ turn' \in [Turn -> TurnRecord]
            BY <1>9, <2>8, AnswerStep DEF Guarded
        <3>2. Others(t) /\ turn'[t].session = turn[t].session /\ turn'[t].stage # "new"
            BY <3>1 DEF Moves, Keeps
        <3>3. /\ \A u \in Turn : CallOf(u)' = CallOf(u) /\ turn'[u].session = turn[u].session
              /\ \A a \in asked : a[1][1] \in Turn /\ turn'[a[1][1]].stage # "new"
              /\ \A j \in Ids : tracked[j] # 0 =>
                     \E a \in asked : a[2] = j /\ turn'[a[1][1]].session = tracked[j]
            BY <3>1, <3>2, GuardMoves
        <3>4. ASSUME NEW j \in Ids, tracked'[j] # 0
              PROVE  \E a \in asked' : a[2] = j /\ turn'[a[1][1]].session = tracked'[j]
            BY <2>4, <2>6, <3>3, <3>4
        <3>5. ASSUME NEW j \in Ids, pending'[j] # 0
              PROVE  turn'[pending'[j]].stage = "wait" /\ turn'[pending'[j]].id = j
            <4>1. pending'[j] = pending[j] /\ j # i
                BY <2>5, <3>5
            <4>2. /\ pending[j] \in Turn /\ turn[pending[j]].stage = "wait"
                  /\ turn[pending[j]].id = j
                BY <1>0, <3>5, <4>1 DEF Guarded, PendingWaits
            <4> QED BY <3>1, <3>2, <4>1, <4>2 DEF Others
        <3>6. PendingWaits'
            BY <2>1, <2>3, <3>3, <3>4, <3>5 DEF Guarded, PendingWaits, Ids, Call, Turn
        <3>7. turn'[t].stage = "approved" => CallOf(t) \in yes'
            <4>1. turn'[t].stage = IF approved THEN "approved" ELSE "denied"
                BY <2>1, <2>8, <3>1 DEF Typed, TypeOK, TurnRecord
            <4>2. Waits(t) /\ turn[t].id = i
                BY <3>1 DEF Waits
            <4> QED BY <2>1, <4>1, <4>2
        <3>8. GuardedRunsAreApproved'
            <4>1. ASSUME NEW u \in Turn, turn'[u].stage = "approved"
                  PROVE  CallOf(u)' \in yes' \/ turn'[u].session \in allowed'
                <5>1. CASE u = t
                    BY <3>3, <3>7, <4>1, <5>1
                <5>2. CASE u # t
                    BY <2>2, <3>2, <3>3, <4>1, <5>2 DEF Guarded, GuardedRunsAreApproved, Others
                <5> QED BY <5>1, <5>2
            <4> QED BY <4>1 DEF GuardedRunsAreApproved, Turn
        <3> QED BY <3>6, <3>8 DEF Guarded
    <2> QED BY <2>7, <2>8
<1>10. ASSUME New PROVE Guarded'
    BY <1>10 DEF New, guardian, history, Guarded, PendingWaits, GuardedRunsAreApproved, CallOf,
                 Ids, Call, Turn
<1>11. ASSUME Reset PROVE Guarded'
    <2>1. PICK s \in Session :
              /\ LiveIn(s) = {}
              /\ \A u \in Turn : \/ turn[u].session # s /\ turn'[u] = turn[u]
                                 \/ /\ turn[u].session = s /\ turn'[u].stage = turn[u].stage
                                    /\ turn'[u].session = turn[u].session
        BY <1>11, ResetStep
    <2>2. \A u \in Turn : turn[u].stage \in {"wait", "approved"} => turn'[u] = turn[u]
        BY <2>1 DEF LiveIn, Live, Working
    <2>3. \A u \in Turn : turn'[u].stage \in {"wait", "approved"} => turn'[u] = turn[u]
        BY <2>1, <2>2
    <2>4. UNCHANGED <<guardian, yes, allowed>>
        BY <1>11 DEF Reset, history
    <2>5. \A a \in asked : /\ a[1][1] \in Turn /\ turn'[a[1][1]].stage # "new"
                            /\ turn'[a[1][1]].session = turn[a[1][1]].session
        BY <2>1 DEF Guarded, PendingWaits
    <2>6. \A i \in Ids : tracked[i] # 0 =>
              \E a \in asked : a[2] = i /\ turn'[a[1][1]].session = tracked[i]
        BY <2>5 DEF Guarded, PendingWaits
    <2>7. \A i \in Ids : pending[i] # 0 => turn'[pending[i]] = turn[pending[i]]
        BY <1>0, <2>2 DEF Guarded, PendingWaits
    <2>8. PendingWaits'
        BY <2>4, <2>5, <2>6, <2>7 DEF Guarded, PendingWaits, guardian, Ids, Call, Turn
    <2>9. GuardedRunsAreApproved'
        BY <2>3, <2>4 DEF Guarded, GuardedRunsAreApproved, CallOf, Turn
    <2> QED BY <2>8, <2>9 DEF Guarded
<1>12. ASSUME Crash PROVE Guarded'
    <2>1. /\ pending' = [i \in Ids |-> 0] /\ tracked' = [i \in Ids |-> 0] /\ auto' = {}
          /\ asked' = asked
        BY <1>12 DEF Crash
    <2>2. \A u \in Turn : turn[u].stage # "new" => turn'[u].stage # "new"
        BY <1>12, CrashStep DEF Live, Working
    <2>4. \A u \in Turn : turn'[u].stage # "approved"
        BY <1>12, CrashStep DEF Live, Working
    <2>3. PendingWaits'
        <3>1. \A a \in asked' : a[1][1] \in Turn /\ turn'[a[1][1]].stage # "new"
            BY <2>1, <2>2 DEF Guarded, PendingWaits
        <3>2. \A i \in Ids : pending'[i] = 0 /\ tracked'[i] = 0
            BY <2>1
        <3>3. auto' = {}
            BY <2>1
        <3> QED BY <3>1, <3>2, <3>3 DEF PendingWaits, Ids, Call, Turn
    <2>5. GuardedRunsAreApproved'
        BY <2>4 DEF GuardedRunsAreApproved, Turn
    <2> QED BY <2>3, <2>5 DEF Guarded
<1>13. CASE UNCHANGED vars
    BY <1>13 DEF vars, guardian, history, Guarded, PendingWaits, GuardedRunsAreApproved, CallOf,
                 Ids, Call, Turn
<1> QED BY <1>1, <1>2, <1>3, <1>4, <1>5, <1>6, <1>7, <1>8, <1>9, <1>10, <1>11, <1>12, <1>13
        DEF Next, Step

-----------------------------------------------------------------------------
(* What the turns have written.                                            *)

\* One more entry: a call opens, a result closes, the rest leaves closed what
\* is closed.
LEMMA WrittenWith ==
    ASSUME NEW w \in Seq(Roles), NEW e \in Roles
    PROVE  LET v == Append(w, e) IN
           /\ Ends(v, e)
           /\ Closed(w) /\ e # "call" => Closed(v)
           /\ Closed(w) /\ e = "call" => OneOpen(v)
           /\ OneOpen(w) /\ e = "result" => Closed(v)
<1> DEFINE v == Append(w, e)
<1>1. /\ Len(w) \in Nat /\ Len(v) = Len(w) + 1 /\ v[Len(v)] = e /\ v # <<>>
      /\ \A i \in 1 .. Len(w) : v[i] = w[i]
    OBVIOUS
<1>2. Ends(v, e)
    BY <1>1 DEF Ends
<1>3. Closed(w) /\ e # "call" => Closed(v)
    BY <1>1 DEF Closed
<1>4. Closed(w) /\ e = "call" => OneOpen(v)
    BY <1>1 DEF Closed, OneOpen
<1>5. OneOpen(w) /\ e = "result" => Closed(v)
    BY <1>1 DEF Closed, OneOpen
<1> QED BY <1>2, <1>3, <1>4, <1>5

LEMMA WrittenTurn ==
    ASSUME CallsHaveResults, NEW t \in Turn, Others(t), WellWritten(turn'[t])
    PROVE  CallsHaveResults'
    BY DEF CallsHaveResults, Others, Turn

\* The heads of the rows.
LEMMA RowHeads ==
    /\ Head(<<"user">>) = "user" /\ Head(<<"reply">>) = "reply" /\ Head(<<"empty">>) = "empty"
    /\ Head(<<"reset">>) = "reset" /\ Head(<<"call">>) = "call" /\ Head(<<"result">>) = "result"
    /\ Head(<<"call", "result">>) = "call"
    /\ <<"call", "result">> # <<"call">> /\ <<"result">> # <<"call">> /\ <<"user">> # <<"call">>
    /\ <<"reply">> # <<"call">> /\ <<"empty">> # <<"call">> /\ <<"reset">> # <<"call">>
    /\ <<"call">> # <<"reset">> /\ <<"result">> # <<"reset">>
    /\ <<"reply">> # <<"reset">> /\ <<"empty">> # <<"reset">> /\ <<"user">> # <<"reset">>
    /\ <<"call", "result">> # <<"reset">>
    OBVIOUS

\* A row that starts on what the turn has written so far.
LEMMA WrittenRow ==
    ASSUME NEW t \in Turn, NEW entries \in Rows \ {<<"reset">>},
           NEW then \in {"llm", "tool", "fallback", "done"}, Writes(t, entries, then),
           IF entries = <<"result">> THEN OneOpen(turn[t].wrote) ELSE Closed(turn[t].wrote),
           then = "tool" <=> entries = <<"call">>, then = "tool" => turn[t].stream,
           then = "done" => entries = <<"reply">>,
           then = "fallback" => entries = <<"empty">> /\ turn[t].stream = FALSE,
           turn[t].unanswered = FALSE
    PROVE  WellWritten(turn'[t])
<1>1. (Head(entries) = "result") <=> (entries = <<"result">>)
    BY RowHeads DEF Rows
<1>2. RowFits(turn'[t])
    BY <1>1 DEF Writes, Keeps, RowFits
<1> QED BY <1>2 DEF Writes, WellWritten

LEMMA WrittenStep == ASSUME IInv, [Next]_vars PROVE CallsHaveResults'
<1> USE DEF IInv
<1>1. ASSUME NEW t \in Turn, Open(t) \/ SoftReset(t) PROVE CallsHaveResults'
    <2>1. /\ Others(t) /\ turn'[t].wrote = <<>>
          /\ \/ turn'[t].stage = "built"
             \/ /\ turn'[t].stage = "append" /\ turn'[t].entries = <<"reset">>
                /\ turn'[t].landed = FALSE /\ turn'[t].then = "done" /\ turn'[t].line = None
          /\ turn'[t].unanswered = FALSE
        BY <1>1, OpenSteps DEF Opens
    <2>2. Closed(<<>>)
        BY DEF Closed
    <2>3. WellWritten(turn'[t])
        BY <2>1, <2>2, RowHeads DEF WellWritten, RowFits, Rows
    <2> QED BY <2>1, <2>3, WrittenTurn
<1>2. ASSUME NEW t \in Turn, \/ Post(t) \/ Reply(t) \/ Fallback(t)
                            \/ (CallTool(t) /\ turn[t].stream) \/ (Nothing(t) /\ ~turn[t].stream)
      PROVE  CallsHaveResults'
    <2>1. Closed(turn[t].wrote) /\ turn[t].unanswered = FALSE
        BY <1>2 DEF CallsHaveResults, WellWritten, Post, Reply, Fallback, CallTool, Nothing, Working
    <2>2. PICK entries \in Rows \ {<<"reset">>, <<"result">>},
               then \in {"llm", "tool", "fallback", "done"} :
              /\ Writes(t, entries, then)
              /\ then = "tool" <=> entries = <<"call">>
              /\ then = "tool" => turn[t].stream
              /\ then = "done" => entries = <<"reply">>
              /\ then = "fallback" => entries = <<"empty">> /\ turn[t].stream = FALSE
        BY <1>2, RowSteps, RowHeads DEF Rows, Typed, TypeOK, TurnRecord
    <2>3. WellWritten(turn'[t])
        BY <2>1, <2>2, WrittenRow
    <2> QED BY <2>2, <2>3, WrittenTurn DEF Writes
<1>3. ASSUME NEW t \in Turn, Plain(t) \/ Execute(t) \/ Denied(t) PROVE CallsHaveResults'
    <2>1. /\ IF turn[t].stream THEN OneOpen(turn[t].wrote) ELSE Closed(turn[t].wrote)
          /\ turn[t].unanswered = FALSE
        BY <1>3 DEF CallsHaveResults, WellWritten, Plain, Execute, Denied, Working
    <2>2. Writes(t, ResultRow(t), "llm")
        BY <1>3, RowSteps
    <2>3. /\ ResultRow(t) \in Rows \ {<<"reset">>} /\ ResultRow(t) # <<"call">>
          /\ (ResultRow(t) = <<"result">>) <=> turn[t].stream
        BY RowHeads DEF ResultRow, Rows
    <2>4. WellWritten(turn'[t])
        BY <2>1, <2>2, <2>3, WrittenRow
    <2> QED BY <2>2, <2>4, WrittenTurn DEF Writes
<1>4. ASSUME NEW t \in Turn, \/ (CallTool(t) /\ ~turn[t].stream) \/ (Nothing(t) /\ turn[t].stream)
                            \/ Ask(t) \/ Timeout(t)
      PROVE  CallsHaveResults'
    <2>1. \/ turn[t].stage = "llm" /\ turn[t].stream /\ Moves(t, "fallback")
          \/ turn[t].stage = "llm" /\ ~turn[t].stream /\ Moves(t, "tool")
          \/ /\ turn[t].stage \in {"tool", "wait"}
             /\ Moves(t, "approved") \/ Moves(t, "wait") \/ Moves(t, "denied")
        BY <1>4, MoveSteps DEF CallTool, Nothing, Ask, Timeout, Waits
    <2>2. WellWritten(turn[t]) /\ turn[t].stream \in BOOLEAN
        BY DEF CallsHaveResults, Typed, TypeOK, TurnRecord
    <2>3. WellWritten(turn'[t])
        BY <2>1, <2>2 DEF WellWritten, Moves, Keeps, Working
    <2> QED BY <2>1, <2>3, WrittenTurn DEF Moves
<1>5. ASSUME NEW c \in Call, NEW i \in Ids, Answer(c, i) PROVE CallsHaveResults'
    <2>1. CASE UNCHANGED turn
        BY <2>1 DEF CallsHaveResults, Turn
    <2>2. CASE ~UNCHANGED turn
        <3>1. PICK t \in Turn : /\ turn[t].stage = "wait"
                                /\ Moves(t, "approved") \/ Moves(t, "denied")
            BY <1>5, <2>2, AnswerStep DEF Guarded
        <3>2. WellWritten(turn[t])
            BY DEF CallsHaveResults
        <3>3. WellWritten(turn'[t])
            BY <3>1, <3>2 DEF WellWritten, Moves, Keeps, Working
        <3> QED BY <3>1, <3>3, WrittenTurn DEF Moves
    <2> QED BY <2>1, <2>2
<1>6. ASSUME NEW t \in Turn, WriteLine(t) PROVE CallsHaveResults'
    <2> DEFINE r == turn[t] e == Head(r.entries) q == turn'[t]
    <2>1. RowFits(r) /\ r.stage = "append" /\ r.landed = FALSE /\ r.wrote \in Seq(Roles)
        BY <1>6 DEF WriteLine, CallsHaveResults, WellWritten, Typed, TypeOK, TurnRecord
    <2>2. e \in Roles /\ Others(t)
        BY <1>6, <2>1, LineStep DEF RowFits
    <2>3. /\ q.stage = "append" /\ q.wrote = Append(r.wrote, e) /\ q.entries = r.entries
          /\ q.landed = TRUE /\ q.then = r.then /\ q.stream = r.stream /\ q.line = r.line
          /\ q.unanswered = r.unanswered
        BY <1>6, <2>1, LineStep DEF RowFits, Typed, TypeOK, TurnRecord
    <2>4. /\ Ends(q.wrote, e)
          /\ IF e = "call" THEN OneOpen(q.wrote) ELSE Closed(q.wrote)
        BY <2>1, <2>2, <2>3, WrittenWith DEF RowFits
    <2>5. RowFits(q)
        BY <2>1, <2>3, <2>4 DEF RowFits
    <2> QED BY <2>2, <2>3, <2>5, WrittenTurn DEF WellWritten
<1>7. ASSUME NEW t \in Turn, CountLine(t) PROVE CallsHaveResults'
    <2> DEFINE r == turn[t] q == turn'[t]
    <2>1. RowFits(r) /\ r.stage = "append" /\ r.landed
        BY <1>7 DEF CountLine, CallsHaveResults, WellWritten
    <2>2. /\ Others(t) /\ q.wrote = r.wrote /\ q.stream = r.stream /\ q.line = r.line
          /\ q.landed = FALSE /\ q.unanswered = r.unanswered
        BY <1>7, <2>1, CountStep DEF Keeps
    <2>3. CASE r.entries = <<"call", "result">>
        <3>1. q.stage = "append" /\ q.entries = <<"result">> /\ q.then = r.then
            BY <1>7, <2>1, <2>3, CountStep
        <3>2. RowFits(q)
            BY <2>1, <2>2, <2>3, <3>1, RowHeads DEF RowFits, Rows
        <3> QED BY <2>2, <3>1, <3>2, WrittenTurn DEF WellWritten
    <2>4. CASE r.entries # <<"call", "result">>
        <3>1. q.stage = r.then
            BY <1>7, <2>1, <2>4, CountStep
        <3>2. (Head(r.entries) = "call") <=> (r.entries = <<"call">>)
            BY <2>1, <2>4, RowHeads DEF RowFits, Rows
        <3>3. r.then \in {"llm", "tool", "fallback", "done"}
            BY <2>1 DEF RowFits, Typed, TypeOK, TurnRecord
        <3>4. WellWritten(q)
            BY <2>1, <2>2, <3>1, <3>2, <3>3, RowHeads DEF RowFits, WellWritten, Working
        <3> QED BY <2>2, <3>4, WrittenTurn
    <2> QED BY <2>3, <2>4
<1>8. ASSUME NEW t \in Turn, Throw(t) PROVE CallsHaveResults'
    BY <1>8, ThrowStep, WrittenTurn DEF WellWritten, Working
<1>a. ASSUME NEW t \in Turn, NoFallback(t) PROVE CallsHaveResults'
    <2> DEFINE r == turn[t] q == turn'[t]
    <2>1. /\ Closed(r.wrote) /\ r.stage = "fallback"
          /\ r.stream = FALSE => Ends(r.wrote, "empty")
        BY <1>a DEF NoFallback, CallsHaveResults, WellWritten
    <2>2. Others(t) /\ q.wrote = r.wrote /\ q.unanswered = TRUE
        BY <1>a, NoFallbackStep
    <2>3. \/ r.stream = FALSE /\ q.stage = "done"
          \/ /\ q.stage = "append" /\ q.entries = <<"empty">> /\ q.landed = FALSE
             /\ q.then = "done"
        BY <1>a, NoFallbackStep
    <2>4. WellWritten(q)
        BY <2>1, <2>2, <2>3, RowHeads DEF WellWritten, RowFits, Rows, Working
    <2> QED BY <2>2, <2>4, WrittenTurn
<1>9. ASSUME New PROVE CallsHaveResults'
    BY <1>9 DEF New, CallsHaveResults, Turn
<1>10. ASSUME Reset PROVE CallsHaveResults'
    <2>1. ASSUME NEW u \in Turn PROVE WellWritten(turn'[u])
        <3>1. CASE turn'[u] = turn[u]
            BY <3>1 DEF CallsHaveResults
        <3>2. CASE turn'[u] # turn[u]
            <4>1. turn'[u].stage \notin Working /\ turn'[u].line = None
                BY <1>10, <3>2, ResetStep DEF LiveIn, Live
            <4> QED BY <4>1 DEF WellWritten, Working
        <3> QED BY <3>1, <3>2
    <2> QED BY <2>1 DEF CallsHaveResults, Turn
<1>11. ASSUME Crash PROVE CallsHaveResults'
    <2>1. ASSUME NEW u \in Turn PROVE WellWritten(turn'[u])
        BY <1>11, CrashStep DEF CallsHaveResults, WellWritten, Working
    <2> QED BY <2>1 DEF CallsHaveResults, Turn
<1>12. CASE UNCHANGED vars
    BY <1>12 DEF vars, CallsHaveResults, Turn
<1> QED BY <1>1, <1>2, <1>3, <1>4, <1>5, <1>6, <1>7, <1>8, <1>9, <1>10, <1>11, <1>12, <1>a
        DEF Next, Step

-----------------------------------------------------------------------------
(* The lines of a session where nobody disturbs.                           *)

\* A step of a turn that writes no line and no count.
LEMMA LinedTurn ==
    ASSUME Typed, Lined, NEW t \in Turn, Live(t), turn[t].stage # "append", Others(t),
           turn'[t].session = turn[t].session, turn'[t].stage # "built",
           \/ turn'[t].line = None
           \/ /\ turn'[t].line = turn[t].line /\ turn'[t].wrote = turn[t].wrote
              /\ turn'[t].at = turn[t].at,
           turn'[t].stage = "append" =>
               /\ turn'[t].landed = FALSE /\ turn'[t].read = count[turn[t].session]
               /\ turn'[t].entries = <<"user">> => turn[t].stage = "built",
           UNCHANGED <<file, count, disturbed>>
    PROVE  Lined'
<1> USE DEF Lined, Calm
<1>1. turn[t].session \in Session
    BY DEF Live, Working, Typed, NewIsBlank
<1>2. \A u \in Turn : (Live(u)' => Live(u)) /\ turn'[u].session = turn[u].session
    BY DEF Live, Others
<1>3. OneAtATime'
    BY <1>2 DEF OneAtATime, Turn, Session
<1>4. \A s \in Session : (\A u \in LiveIn(s)' : ~MidWrite(u)') => \A u \in LiveIn(s) : ~MidWrite(u)
    BY DEF LiveIn, Live, MidWrite, Others, Working, Turn
<1>5. CountIsExact'
    <2>1. \A s \in Session : s \notin disturbed' /\ (\A u \in LiveIn(s)' : ~MidWrite(u)')
                                 => count'[s] = file'[s]
        BY <1>4 DEF CountIsExact
    <2>2. ASSUME NEW u \in Turn, turn'[u].stage = "append", turn'[u].session \in Session \ disturbed'
          PROVE  /\ count'[turn'[u].session] = turn'[u].read
                 /\ turn'[u].landed => file'[turn'[u].session] = turn'[u].read + 1
        BY <2>2 DEF CountIsExact, Others
    <2> QED BY <2>1, <2>2 DEF CountIsExact, Turn, Session
<1>6. LineIsNext'
    <2> SUFFICES ASSUME NEW u \in Turn, turn'[u].line # None, turn'[u].session \in Session \ disturbed'
                 PROVE  /\ turn'[u].stage = "built" =>
                               turn'[u].line = count'[turn'[u].session] /\ turn'[u].wrote = <<>>
                        /\ turn'[u].stage = "append" /\ turn'[u].entries = <<"user">>
                               /\ ~turn'[u].landed => turn'[u].line = count'[turn'[u].session]
                        /\ "user" \in ToSet(turn'[u].wrote) => turn'[u].at = turn'[u].line
        BY DEF LineIsNext, Turn
    <2>1. CASE u # t
        BY <2>1 DEF LineIsNext, Others
    <2>2. CASE u = t
        BY <2>2 DEF LineIsNext
    <2> QED BY <2>1, <2>2
<1> QED BY <1>3, <1>5, <1>6

\* A turn that opens is alone, or disturbs the session.
LEMMA LinedOpen ==
    ASSUME Typed, Lined, NEW t \in Turn, NEW s \in Session, Opens(t, s),
           \/ turn'[t].stage = "built" /\ turn'[t].line = count[s]
           \/ /\ turn'[t].stage = "append" /\ turn'[t].line = None
              /\ turn'[t].landed = FALSE /\ turn'[t].read = count[s],
           UNCHANGED <<file, count>>
    PROVE  Lined'
<1> USE DEF Lined, Calm
<1>0. /\ Others(t) /\ ~Live(t) /\ turn'[t].session = s /\ turn'[t].wrote = <<>>
      /\ disturbed \subseteq disturbed'
      /\ s \notin disturbed' => LiveIn(s) = {}
    BY DEF Opens, NewTurn, Live, Working
<1>1. \A u \in Turn \ {t} : Live(u)' = Live(u) /\ MidWrite(u)' = MidWrite(u)
    BY <1>0 DEF Others, Live, MidWrite
<1>2. OneAtATime'
    <2> SUFFICES ASSUME NEW u \in Turn, NEW v \in Turn, Live(u)', Live(v)',
                        turn'[u].session = turn'[v].session, turn'[u].session \in Session \ disturbed'
                 PROVE  u = v
        BY DEF OneAtATime, Turn
    <2>1. CASE turn'[u].session = s
        <3>1. \A w \in Turn \ {t} : Live(w) => turn[w].session # s
            BY <1>0, <2>1 DEF LiveIn
        <3> QED BY <1>0, <1>1, <2>1, <3>1 DEF Others
    <2>2. CASE turn'[u].session # s
        BY <1>0, <1>1, <2>2 DEF OneAtATime, Others
    <2> QED BY <2>1, <2>2
<1>3. CountIsExact'
    <2>1. ASSUME NEW z \in Session, z \notin disturbed', \A u \in LiveIn(z)' : ~MidWrite(u)'
          PROVE  count'[z] = file'[z]
        <3>1. \A u \in LiveIn(z) : ~MidWrite(u)
            BY <1>0, <1>1, <2>1 DEF LiveIn, Others, Turn
        <3> QED BY <1>0, <2>1, <3>1 DEF CountIsExact
    <2>2. ASSUME NEW u \in Turn, turn'[u].stage = "append", turn'[u].session \in Session \ disturbed'
          PROVE  /\ count'[turn'[u].session] = turn'[u].read
                 /\ turn'[u].landed => file'[turn'[u].session] = turn'[u].read + 1
        BY <1>0, <2>2 DEF CountIsExact, Others
    <2> QED BY <2>1, <2>2 DEF CountIsExact, Turn, Session
<1>4. LineIsNext'
    <2> SUFFICES ASSUME NEW u \in Turn, turn'[u].line # None, turn'[u].session \in Session \ disturbed'
                 PROVE  /\ turn'[u].stage = "built" =>
                               turn'[u].line = count'[turn'[u].session] /\ turn'[u].wrote = <<>>
                        /\ turn'[u].stage = "append" /\ turn'[u].entries = <<"user">>
                               /\ ~turn'[u].landed => turn'[u].line = count'[turn'[u].session]
                        /\ "user" \in ToSet(turn'[u].wrote) => turn'[u].at = turn'[u].line
        BY DEF LineIsNext, Turn
    <2>1. CASE u # t
        BY <1>0, <2>1 DEF LineIsNext, Others
    <2>2. CASE u = t
        <3>1. "user" \notin ToSet(<<>>)
            BY DEF ToSet
        <3> QED BY <1>0, <2>2, <3>1
    <2> QED BY <2>1, <2>2
<1> QED BY <1>2, <1>3, <1>4

\* An entry more is a role more.
LEMMA ToSetWith ==
    ASSUME NEW w \in Seq(Roles), NEW e \in Roles
    PROVE  ToSet(Append(w, e)) = ToSet(w) \cup {e}
<1>1. /\ Len(w) \in Nat /\ DOMAIN w = 1 .. Len(w)
      /\ DOMAIN Append(w, e) = 1 .. Len(w) + 1
      /\ Append(w, e)[Len(w) + 1] = e
      /\ \A i \in 1 .. Len(w) : Append(w, e)[i] = w[i]
    OBVIOUS
<1>2. 1 .. Len(w) + 1 = (1 .. Len(w)) \cup {Len(w) + 1}
    BY <1>1
<1> QED BY <1>1, <1>2 DEF ToSet

\* A line lands.
LEMMA LinedLine ==
    ASSUME IInv, NEW t \in Turn, WriteLine(t)
    PROVE  Lined'
<1> USE DEF Lined, Calm, IInv
<1> DEFINE here == turn[t].session entry == Head(turn[t].entries)
<1>1. turn[t].stage = "append" /\ turn[t].landed = FALSE /\ RowFits(turn[t]) /\ Live(t)
    BY DEF WriteLine, CallsHaveResults, WellWritten, Typed, TypeOK, TurnRecord, Live, Working
<1>2. /\ Others(t) /\ here \in Session /\ entry \in Roles
      /\ turn'[t].stage = "append" /\ turn'[t].session = here /\ turn'[t].landed = TRUE
      /\ turn'[t].line = turn[t].line /\ turn'[t].read = turn[t].read
      /\ turn'[t].wrote = Append(turn[t].wrote, entry)
      /\ turn'[t].at = IF entry = "user" THEN file[here] ELSE turn[t].at
      /\ file' = [file EXCEPT ![here] = @ + 1]
    BY <1>1, LineStep DEF RowFits
<1>3. UNCHANGED <<count, disturbed>>
    BY DEF WriteLine, history
<1>4. \A u \in Turn : /\ Live(u)' = Live(u) /\ turn'[u].session = turn[u].session
                      /\ u # t => MidWrite(u)' = MidWrite(u)
    BY <1>1, <1>2 DEF Others, Live, MidWrite
<1>5. OneAtATime'
    BY <1>3, <1>4 DEF OneAtATime, Turn, Session
<1>6. ASSUME here \notin disturbed
      PROVE  /\ \A u \in LiveIn(here) : u = t
             /\ count[here] = turn[t].read /\ count[here] = file[here]
    <2>1. \A u \in LiveIn(here) : u = t
        BY <1>1, <1>2, <1>6 DEF OneAtATime, LiveIn
    <2>2. ~MidWrite(t)
        BY <1>1 DEF MidWrite
    <2> QED BY <1>1, <1>2, <1>6, <2>1, <2>2 DEF CountIsExact
<1>7. MidWrite(t)' /\ t \in LiveIn(here)'
    BY <1>1, <1>2, <1>4 DEF MidWrite, LiveIn, Turn
<1>8. CountIsExact'
    <2>1. ASSUME NEW z \in Session, z \notin disturbed', \A u \in LiveIn(z)' : ~MidWrite(u)'
          PROVE  count'[z] = file'[z]
        <3>1. z # here
            BY <1>2, <1>7, <2>1 DEF LiveIn
        <3>2. \A u \in LiveIn(z) : ~MidWrite(u)
            BY <1>4, <2>1, <3>1 DEF LiveIn, Turn
        <3> QED BY <1>2, <1>3, <2>1, <3>1, <3>2 DEF CountIsExact, Typed, TypeOK
    <2>2. ASSUME NEW u \in Turn, turn'[u].stage = "append", turn'[u].session \in Session \ disturbed'
          PROVE  /\ count'[turn'[u].session] = turn'[u].read
                 /\ turn'[u].landed => file'[turn'[u].session] = turn'[u].read + 1
        <3>1. CASE u = t
            BY <1>2, <1>3, <1>6, <2>2, <3>1 DEF Typed, TypeOK
        <3>2. CASE u # t
            <4>1. turn'[u] = turn[u] /\ Live(u)
                BY <1>2, <2>2, <3>2 DEF Others, Live, Working
            <4>2. turn[u].session # here
                BY <1>3, <1>6, <2>2, <3>2, <4>1 DEF LiveIn
            <4> QED BY <1>2, <1>3, <2>2, <4>1, <4>2 DEF CountIsExact, Typed, TypeOK
        <3> QED BY <3>1, <3>2
    <2> QED BY <2>1, <2>2 DEF CountIsExact, Turn, Session
<1>9. LineIsNext'
    <2> SUFFICES ASSUME NEW u \in Turn, turn'[u].line # None, turn'[u].session \in Session \ disturbed'
                 PROVE  /\ turn'[u].stage = "built" =>
                               turn'[u].line = count'[turn'[u].session] /\ turn'[u].wrote = <<>>
                        /\ turn'[u].stage = "append" /\ turn'[u].entries = <<"user">>
                               /\ ~turn'[u].landed => turn'[u].line = count'[turn'[u].session]
                        /\ "user" \in ToSet(turn'[u].wrote) => turn'[u].at = turn'[u].line
        BY DEF LineIsNext, Turn
    <2>1. CASE u # t
        BY <1>2, <1>3, <2>1 DEF LineIsNext, Others
    <2>2. CASE u = t
        <3>1. /\ turn[t].line # None /\ Calm(here)
              /\ ToSet(turn'[t].wrote) = ToSet(turn[t].wrote) \cup {entry}
            BY <1>2, <1>3, <2>2, ToSetWith DEF Typed, TypeOK, TurnRecord
        <3>2. CASE entry = "user"
            <4>1. turn[t].entries = <<"user">>
                BY <1>1, <3>2, RowHeads DEF RowFits, Rows
            <4>2. turn[t].line = count[here]
                BY <1>1, <3>1, <4>1 DEF LineIsNext
            <4>3. turn'[t].at = file[here] /\ file[here] = count[here]
                BY <1>2, <1>6, <3>1, <3>2
            <4> QED BY <1>2, <2>2, <4>2, <4>3
        <3>3. CASE entry # "user"
            BY <1>2, <2>2, <3>1, <3>3 DEF LineIsNext
        <3> QED BY <3>2, <3>3
    <2> QED BY <2>1, <2>2
<1> QED BY <1>5, <1>8, <1>9

\* A count is written.
LEMMA LinedCount ==
    ASSUME IInv, NEW t \in Turn, CountLine(t)
    PROVE  Lined'
<1> USE DEF Lined, Calm, IInv
<1> DEFINE here == turn[t].session
<1>1. /\ turn[t].stage = "append" /\ turn[t].landed = TRUE /\ RowFits(turn[t]) /\ Live(t)
      /\ turn[t].then \in {"llm", "tool", "fallback", "done"}
    BY DEF CountLine, CallsHaveResults, WellWritten, RowFits, Typed, TypeOK, TurnRecord, Live, Working
<1>2. /\ Others(t) /\ Keeps(t) /\ here \in Session /\ turn'[t].landed = FALSE
      /\ count' = [count EXCEPT ![here] = turn[t].read + 1]
      /\ \/ /\ turn'[t].stage = "append" /\ turn'[t].entries = <<"result">>
            /\ turn'[t].read = turn[t].read + 1
         \/ turn'[t].stage \in {"llm", "tool", "fallback", "done"}
    BY <1>1, CountStep
<1>3. UNCHANGED <<file, disturbed>>
    BY DEF CountLine, history
<1>4. \A u \in Turn : /\ Live(u)' => Live(u)
                      /\ turn'[u].session = turn[u].session
                      /\ u # t => Live(u)' = Live(u) /\ MidWrite(u)' = MidWrite(u)
    BY <1>1, <1>2 DEF Others, Keeps, Live, MidWrite
<1>5. OneAtATime'
    BY <1>3, <1>4 DEF OneAtATime, Turn, Session
<1>6. ASSUME here \notin disturbed
      PROVE  /\ \A u \in LiveIn(here) : u = t
             /\ count'[here] = turn[t].read + 1 /\ file'[here] = turn[t].read + 1
    <2>1. \A u \in LiveIn(here) : u = t
        BY <1>1, <1>2, <1>6 DEF OneAtATime, LiveIn
    <2> QED BY <1>1, <1>2, <1>3, <1>6, <2>1 DEF CountIsExact, Typed, TypeOK
<1>7. CountIsExact'
    <2>1. ASSUME NEW z \in Session, z \notin disturbed', \A u \in LiveIn(z)' : ~MidWrite(u)'
          PROVE  count'[z] = file'[z]
        <3>1. CASE z = here
            BY <1>3, <1>6, <2>1, <3>1
        <3>2. CASE z # here
            <4>1. \A u \in LiveIn(z) : ~MidWrite(u)
                BY <1>4, <2>1, <3>2 DEF LiveIn, Turn
            <4> QED BY <1>2, <1>3, <2>1, <3>2, <4>1 DEF CountIsExact, Typed, TypeOK
        <3> QED BY <3>1, <3>2
    <2>2. ASSUME NEW u \in Turn, turn'[u].stage = "append", turn'[u].session \in Session \ disturbed'
          PROVE  /\ count'[turn'[u].session] = turn'[u].read
                 /\ turn'[u].landed => file'[turn'[u].session] = turn'[u].read + 1
        <3>1. CASE u = t
            BY <1>2, <2>2, <3>1 DEF Keeps, Typed, TypeOK
        <3>2. CASE u # t
            <4>1. turn'[u] = turn[u] /\ Live(u)
                BY <1>2, <2>2, <3>2 DEF Others, Live, Working
            <4>2. turn[u].session # here
                BY <1>3, <1>6, <2>2, <3>2, <4>1 DEF LiveIn
            <4> QED BY <1>2, <1>3, <2>2, <4>1, <4>2 DEF CountIsExact, Typed, TypeOK
        <3> QED BY <3>1, <3>2
    <2> QED BY <2>1, <2>2 DEF CountIsExact, Turn, Session
<1>8. LineIsNext'
    <2> SUFFICES ASSUME NEW u \in Turn, turn'[u].line # None, turn'[u].session \in Session \ disturbed'
                 PROVE  /\ turn'[u].stage = "built" =>
                               turn'[u].line = count'[turn'[u].session] /\ turn'[u].wrote = <<>>
                        /\ turn'[u].stage = "append" /\ turn'[u].entries = <<"user">>
                               /\ ~turn'[u].landed => turn'[u].line = count'[turn'[u].session]
                        /\ "user" \in ToSet(turn'[u].wrote) => turn'[u].at = turn'[u].line
        BY DEF LineIsNext, Turn
    <2>1. CASE u # t
        <3>1. turn'[u] = turn[u]
            BY <1>2, <2>1 DEF Others
        <3>2. Live(u) => turn[u].session # here
            BY <1>3, <1>6, <2>1, <3>1 DEF LiveIn
        <3>3. Live(u) => count'[turn[u].session] = count[turn[u].session]
            BY <1>2, <3>2 DEF Typed, TypeOK, NewIsBlank, Live, Working
        <3> QED BY <1>3, <3>1, <3>3 DEF LineIsNext, Live, Working
    <2>2. CASE u = t
        <3>1. <<"result">> # <<"user">>
            OBVIOUS
        <3> QED BY <1>2, <1>3, <2>2, <3>1 DEF LineIsNext, Keeps
    <2> QED BY <2>1, <2>2
<1> QED BY <1>5, <1>7, <1>8

LEMMA LinedStep == ASSUME IInv, [Next]_vars PROVE Lined'
<1> USE DEF IInv
<1>1. ASSUME NEW t \in Turn, Open(t) PROVE Lined'
    <2>1. UNCHANGED <<file, count>>
        BY <1>1 DEF Open
    <2>2. PICK s \in Session :
              Opens(t, s) /\ turn'[t].stage = "built" /\ turn'[t].line = count[s]
        BY <1>1, OpenSteps
    <2> QED BY <2>1, <2>2, LinedOpen
<1>2. ASSUME NEW t \in Turn, SoftReset(t) PROVE Lined'
    <2>1. UNCHANGED <<file, count>>
        BY <1>2 DEF SoftReset
    <2>2. PICK s \in Session :
              /\ Opens(t, s) /\ turn'[t].stage = "append" /\ turn'[t].line = None
              /\ turn'[t].landed = FALSE /\ turn'[t].read = count[s]
        BY <1>2, OpenSteps
    <2> QED BY <2>1, <2>2, LinedOpen
<1>3. ASSUME NEW t \in Turn, NEW entries \in Rows, NEW then \in Stages,
             Writes(t, entries, then), Live(t), turn[t].stage # "append",
             entries = <<"user">> => turn[t].stage = "built",
             UNCHANGED <<file, count, disturbed>>
      PROVE  Lined'
    BY <1>3, LinedTurn DEF Writes, Keeps
<1>4. ASSUME NEW t \in Turn, NEW stage \in Stages \ {"append", "built"}, Moves(t, stage),
             Live(t), turn[t].stage # "append", UNCHANGED <<file, count, disturbed>>
      PROVE  Lined'
    BY <1>4, LinedTurn DEF Moves, Keeps
<1>5. ASSUME NEW t \in Turn, \/ Post(t) \/ Reply(t) \/ CallTool(t) \/ Nothing(t) \/ Fallback(t)
                            \/ Plain(t) \/ Ask(t) \/ Timeout(t) \/ Execute(t) \/ Denied(t)
      PROVE  Lined'
    <2>1. /\ Live(t) /\ turn[t].stage # "append" /\ UNCHANGED <<file, count, disturbed>>
          /\ Post(t) => turn[t].stage = "built"
        BY <1>5 DEF Post, Reply, CallTool, Nothing, Fallback, Plain, Ask, Timeout, Waits, Execute,
                    Denied, store, history, Live, Working
    <2>2. \/ \E entries \in Rows, then \in Stages :
                /\ Writes(t, entries, then)
                /\ entries = <<"user">> => Post(t)
          \/ \E stage \in Stages \ {"append", "built"} : Moves(t, stage)
        <3>1. /\ {"llm", "done", "tool", "fallback"} \subseteq Stages
              /\ {"tool", "fallback", "approved", "wait", "denied"}
                     \subseteq Stages \ {"append", "built"}
            BY DEF Stages, Working
        <3>2. /\ ResultRow(t) \in Rows /\ ResultRow(t) # <<"user">>
              /\ <<"call">> # <<"user">> /\ <<"empty">> # <<"user">> /\ <<"reply">> # <<"user">>
              /\ {<<"user">>, <<"reply">>, <<"empty">>, <<"call">>} \subseteq Rows
            BY DEF ResultRow, Rows
        <3>3. CASE \/ Post(t) \/ Reply(t) \/ Fallback(t) \/ Plain(t) \/ Execute(t) \/ Denied(t)
                   \/ (CallTool(t) /\ turn[t].stream) \/ (Nothing(t) /\ ~turn[t].stream)
            BY <3>1, <3>2, <3>3, RowSteps
        <3>4. CASE \/ (CallTool(t) /\ ~turn[t].stream) \/ (Nothing(t) /\ turn[t].stream)
                   \/ Ask(t) \/ Timeout(t)
            BY <3>1, <3>4, MoveSteps
        <3> QED BY <1>5, <3>3, <3>4
    <2> QED BY <1>3, <1>4, <2>1, <2>2
<1>6. ASSUME NEW t \in Turn, Throw(t) PROVE Lined'
    <2>1. Live(t) /\ turn[t].stage # "append" /\ UNCHANGED <<file, count, disturbed>>
        BY <1>6 DEF Throw, store, history, Live, Working
    <2> QED BY <1>6, <2>1, ThrowStep, LinedTurn
<1>a. ASSUME NEW t \in Turn, NoFallback(t) PROVE Lined'
    <2>1. Live(t) /\ turn[t].stage # "append" /\ UNCHANGED <<file, count, disturbed>>
        BY <1>a DEF NoFallback, store, history, Live, Working
    <2>2. <<"empty">> # <<"user">>
        OBVIOUS
    <2>3. /\ Others(t) /\ turn'[t].session = turn[t].session /\ turn'[t].stage # "built"
          /\ turn'[t].line = turn[t].line /\ turn'[t].wrote = turn[t].wrote
          /\ turn'[t].at = turn[t].at
          /\ turn'[t].stage = "append" =>
                /\ turn'[t].landed = FALSE /\ turn'[t].read = count[turn[t].session]
                /\ turn'[t].entries # <<"user">>
        BY <1>a, <2>2, NoFallbackStep
    <2> QED BY <2>1, <2>3, LinedTurn
<1>7. ASSUME NEW c \in Call, NEW i \in Ids, Answer(c, i) PROVE Lined'
    <2>1. UNCHANGED <<file, count, disturbed>>
        BY <1>7 DEF Answer, store
    <2>2. CASE UNCHANGED turn
        BY <2>1, <2>2 DEF Lined, OneAtATime, CountIsExact, LineIsNext, Live, LiveIn, MidWrite, Calm
    <2>3. CASE ~UNCHANGED turn
        <3>1. PICK t \in Turn : /\ turn[t].stage = "wait"
                                /\ Moves(t, "approved") \/ Moves(t, "denied")
            BY <1>7, <2>3, AnswerStep DEF Guarded
        <3>2. Live(t)
            BY <3>1 DEF Live, Working
        <3>3. {"approved", "denied"} \subseteq Stages \ {"append", "built"}
            BY DEF Stages, Working
        <3> QED BY <1>4, <2>1, <3>1, <3>2, <3>3
    <2> QED BY <2>2, <2>3
<1>8. ASSUME New PROVE Lined'
    BY <1>8 DEF New, history, Lined, OneAtATime, CountIsExact, LineIsNext, Live, LiveIn, MidWrite,
                Calm
<1>9. ASSUME Reset PROVE Lined'
    <2>1. PICK s \in Session :
              /\ LiveIn(s) = {}
              /\ file' = [file EXCEPT ![s] = 0] /\ count' = [count EXCEPT ![s] = 0]
              /\ \A u \in Turn : \/ turn[u].session # s /\ turn'[u] = turn[u]
                                 \/ /\ turn[u].session = s /\ turn'[u].line = None
                                    /\ turn'[u].stage = turn[u].stage
                                    /\ turn'[u].session = turn[u].session
        BY <1>9, ResetStep
    <2>2. UNCHANGED disturbed
        BY <1>9 DEF Reset, history
    <2>3. \A u \in Turn : /\ turn'[u].stage = turn[u].stage /\ turn'[u].session = turn[u].session
                          /\ turn'[u] = turn[u] \/ (turn'[u].line = None /\ turn[u].session = s)
                          /\ Live(u)' = Live(u)
                          /\ Live(u) => turn[u].session # s /\ turn'[u] = turn[u]
        BY <2>1 DEF LiveIn, Live
    <2>4. OneAtATime'
        BY <2>2, <2>3 DEF Lined, OneAtATime, Calm, Turn, Session
    <2>5. ASSUME NEW z \in Session, z \notin disturbed', \A u \in LiveIn(z)' : ~MidWrite(u)'
          PROVE  count'[z] = file'[z]
        <3>1. \A u \in LiveIn(z) : ~MidWrite(u)
            BY <2>3, <2>5 DEF LiveIn, MidWrite, Turn
        <3> QED BY <2>1, <2>2, <2>5, <3>1 DEF Lined, CountIsExact, Calm, Typed, TypeOK
    <2>6. ASSUME NEW u \in Turn, turn'[u].stage = "append", turn'[u].session \in Session \ disturbed'
          PROVE  /\ count'[turn'[u].session] = turn'[u].read
                 /\ turn'[u].landed => file'[turn'[u].session] = turn'[u].read + 1
        <3>1. Live(u)
            BY <2>3, <2>6 DEF Live, Working
        <3> QED BY <2>1, <2>2, <2>3, <2>6, <3>1 DEF Lined, CountIsExact, Calm, Typed, TypeOK
    <2>7. CountIsExact'
        BY <2>5, <2>6 DEF CountIsExact, Calm, Turn, Session
    <2>8. ASSUME NEW u \in Turn, turn'[u].line # None, turn'[u].session \in Session \ disturbed'
          PROVE  /\ turn'[u].stage = "built" =>
                        turn'[u].line = count'[turn'[u].session] /\ turn'[u].wrote = <<>>
                 /\ turn'[u].stage = "append" /\ turn'[u].entries = <<"user">>
                        /\ ~turn'[u].landed => turn'[u].line = count'[turn'[u].session]
                 /\ "user" \in ToSet(turn'[u].wrote) => turn'[u].at = turn'[u].line
        <3>1. turn'[u] = turn[u] /\ turn[u].session # s
            BY <2>1, <2>8
        <3> QED BY <2>1, <2>2, <2>8, <3>1 DEF Lined, LineIsNext, Calm, Typed, TypeOK
    <2>9. LineIsNext'
        BY <2>8 DEF LineIsNext, Calm, Turn
    <2> QED BY <2>4, <2>7, <2>9 DEF Lined
<1>10. ASSUME Crash PROVE Lined'
    <2>1. UNCHANGED <<file, count>>
        BY <1>10 DEF Crash
    <2>2. \A u \in Turn : /\ ~Live(u)' /\ ~(turn'[u].stage \in {"append", "built"})
                          /\ turn'[u] = turn[u] \/ turn'[u].line = None
                          /\ turn'[u].session = turn[u].session
        BY <1>10, CrashStep DEF Live, Working
    <2>3. \A s \in Session : s \notin disturbed' => s \notin disturbed /\ LiveIn(s) = {}
        BY <1>10, CrashStep
    <2>4. OneAtATime'
        BY <2>2 DEF OneAtATime, Turn
    <2>5. CountIsExact'
        BY <2>1, <2>2, <2>3 DEF Lined, CountIsExact, Calm, Turn, Session
    <2>6. LineIsNext'
        BY <2>2, <2>3 DEF Lined, LineIsNext, Calm, Turn
    <2> QED BY <2>4, <2>5, <2>6 DEF Lined
<1>11. CASE UNCHANGED vars
    BY <1>11 DEF vars, store, history, Lined, OneAtATime, CountIsExact, LineIsNext, Live, LiveIn,
                 MidWrite, Calm
<1> QED BY <1>1, <1>2, <1>5, <1>6, <1>7, <1>8, <1>9, <1>10, <1>11, <1>a, LinedLine, LinedCount
        DEF Next, Step

-----------------------------------------------------------------------------
(* The theorems.                                                           *)

LEMMA InitInv == Init => IInv
<1> SUFFICES ASSUME Init PROVE IInv
    OBVIOUS
<1>1. Typed
    BY TypedInit
<1>2. \A t \in Turn : turn[t] = NewTurn /\ turn[t].stage = "new" /\ turn[t].line = None /\ ~Live(t)
    BY DEF Init, NewTurn, Live, Working
<1>3. Guarded
    BY <1>2 DEF Init, Guarded, PendingWaits, GuardedRunsAreApproved, Ids, Call
<1>4. CallsHaveResults
    BY <1>2 DEF CallsHaveResults, WellWritten, Working
<1>5. Lined
    BY <1>2 DEF Init, Lined, OneAtATime, CountIsExact, LineIsNext
<1> QED BY <1>1, <1>3, <1>4, <1>5 DEF IInv

\* The inductive invariant: the types, the approvals, what each turn has written
\* and where its message stands in the transcript.
THEOREM Invariance == Spec => []IInv
<1>1. IInv /\ [Next]_vars => IInv'
    BY TypedStep, GuardedStep, WrittenStep, LinedStep DEF IInv
<1> QED BY InitInv, <1>1, PTL DEF Spec

\* The state keeps its types, whatever the number of turns and sessions: the
\* row that a turn is writing, the line it read and the stage it returns to.
THEOREM TypeCorrect == Spec => []TypeOK
<1>1. IInv => TypeOK
    BY DEF IInv, Typed
<1> QED BY <1>1, Invariance, PTL

\* No guarded tool runs unless the owner approved a call with its id while it
\* waited, or all calls of its session by the answer to a call of that session,
\* through any number of calls, of ids that coincide, of late answers, timeouts
\* and crashes (ensureToolApproved, resolveGuardianApproval).
THEOREM RunsAreApproved == Spec => []GuardedRunsAreApproved
<1>1. IInv => GuardedRunsAreApproved
    BY DEF IInv, Guarded
<1> QED BY <1>1, Invariance, PTL

\* A turn that returned wrote its reply last and every call with its result,
\* however many rounds it had and whoever wrote in between; its last entry is a
\* model's empty answer only when it was to ask no other model (runCore,
\* streamCore).
THEOREM RepliesAreLast == Spec => []ReplyIsLast
<1>1. IInv => ReplyIsLast
    <2> SUFFICES ASSUME IInv, NEW t \in Turn, turn[t].stage = "done", turn[t].line # None
                 PROVE  LET mine == turn[t].wrote IN
                        /\ mine # <<>>
                        /\ Last(mine) = (IF turn[t].unanswered THEN "empty" ELSE "reply")
                        /\ \A i \in DOMAIN mine : mine[i] = "call" => mine[i + 1] = "result"
        BY DEF ReplyIsLast
    <2>1. /\ Closed(turn[t].wrote)
          /\ Ends(turn[t].wrote, IF turn[t].unanswered THEN "empty" ELSE "reply")
        BY DEF IInv, CallsHaveResults, WellWritten
    <2>2. turn[t].wrote \in Seq(Roles)
        BY DEF IInv, Typed, TypeOK, TurnRecord
    <2>3. DOMAIN turn[t].wrote = 1 .. Len(turn[t].wrote)
        BY <2>2
    <2> QED BY <2>1, <2>3 DEF Closed, Ends, Last
<1> QED BY <1>1, Invariance, PTL

\* In a session where no two turns ever overlapped and none was cut off, the
\* line that a turn read for its user's message is that message's line
\* (buildContext, appendTranscript).
THEOREM LinesAreExact == Spec => []LineIsExact
<1>1. IInv => LineIsExact
    <2> SUFFICES ASSUME IInv, NEW t \in Turn, turn[t].line # None, turn[t].session \notin disturbed,
                        "user" \in ToSet(turn[t].wrote)
                 PROVE  turn[t].at = turn[t].line
        BY DEF LineIsExact
    <2>1. turn[t].session \in Session
        <3>1. turn[t].stage # "new"
            BY DEF IInv, Typed, NewIsBlank, NewTurn
        <3> QED BY <3>1 DEF IInv, Typed, NewIsBlank
    <2> QED BY <2>1 DEF IInv, Lined, LineIsNext, Calm
<1> QED BY <1>1, Invariance, PTL

=============================================================================
