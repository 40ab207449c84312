-------------------------- MODULE OutputTransport ---------------------------
(***************************************************************************)
(* What a suite prints in one verbose run, how it reaches the host, and    *)
(* what the grammar makes of it (cpputest.py; reliquary.py for the screen, *)
(* dosbox_x.py for the redirected file).  The console wraps at its width,  *)
(* the capture drops blank rows, trims the rest and may have lost the      *)
(* head; rows are joined again; the file is the program's own bytes.       *)
(*                                                                         *)
(* A line is known by what the grammar's patterns read it as.  Bounds: a   *)
(* test prints at most two failures, and one line of an unusual length.    *)
(***************************************************************************)
EXTENDS Integers, SequencesExt, FiniteSets

CONSTANT Count      \* how many tests the run has, in the order they run

ASSUME OutputTransportAssumption == Count \in Nat

Tests == 1 .. Count

VARIABLES
    transport,  \* "screen" or "file"
    phase,      \* "printing", "printed", "delivered", "refused" or "parsed"
    fate,       \* fate[t]: "unrun", "passed", "failed" or "died"
    printed,    \* the lines the suite printed
    lines,      \* the lines the host has got, each a sequence of pieces
    verdict,    \* verdict[t]: what the grammar makes of t
    message     \* message[t]: the pieces it reports for a failed t

vars == <<transport, phase, fate, printed, lines, verdict, message>>

-----------------------------------------------------------------------------
\* How the console lays out a line read as k: in a row; in a row of exactly
\* its width; in a full row and a rest; or wrapped on a space, which is then
\* trimmed, so that neither part is full.
Plain(k) == <<[reads |-> k, full |-> FALSE]>>
Exact(k) == <<[reads |-> k, full |-> TRUE]>>
Wrapped(k) == <<[reads |-> k, full |-> TRUE], [reads |-> "tail", full |-> FALSE]>>

\* What the two parts of a line read as that is wrapped on a space.
Cuts(k) ==
    CASE k = "ran"     -> {<<"ran", "other">>, <<"other", "other">>}
      [] k = "header"  -> {<<"location", "other">>, <<"other", "ran">>, <<"other", "header">>}
      [] k = "message" -> {<<"message", "message">>}
      [] k = "summary" -> {<<"other", "other">>}

Layouts(k) ==
    {Plain(k), Exact(k), Wrapped(k)} \cup {Plain(c[1]) \o Plain(c[2]) : c \in Cuts(k)}

Line(k) == [reads |-> k, layout |-> Plain(k), feed |-> FALSE]
OddLine(k) == {[Line(k) EXCEPT !.layout = l] : l \in Layouts(k)}

\* TestOutput.cpp: one line for a test that passes, or two if it printed
\* something itself, a form feed perhaps; for a failure its header, perhaps the site's location,
\* the message, and a blank line.
PassingTexts ==
    {<<r>> : r \in OddLine("ran")}
        \cup {<<[Line("ran") EXCEPT !.feed = f], Line("timing")>> : f \in BOOLEAN}

PlainFailure == <<Line("header"), Line("message"), Line("blank")>>
Failures ==
    {<<h, Line("message"), Line("blank")>> : h \in OddLine("header")}
        \cup {<<Line("header"), m, Line("blank")>> : m \in OddLine("message")}
        \cup {<<Line("header"), Line("location"), Line("message"), Line("blank")>>,
              PlainFailure \o <<Line("message"), Line("blank")>>}

FailingTexts ==
    {<<r>> \o PlainFailure \o <<Line("timing")>> : r \in OddLine("ran")}
        \cup {<<Line("ran")>> \o f \o <<Line("timing")>> : f \in Failures}
        \cup {<<Line("ran")>> \o f \o PlainFailure \o <<Line("timing")>> : f \in Failures}

Owned(text, t) ==
    [i \in DOMAIN text |->
        [reads |-> text[i].reads, layout |-> text[i].layout, feed |-> text[i].feed, of |-> t]]

-----------------------------------------------------------------------------
Init ==
    /\ transport \in {"screen", "file"}
    /\ phase = "printing"
    /\ fate = [t \in Tests |-> "unrun"]
    /\ printed = <<>> /\ lines = <<>>
    /\ verdict = [t \in Tests |-> "missing"]
    /\ message = [t \in Tests |-> <<>>]

Turn(t) == phase = "printing" /\ fate[t] = "unrun" /\ \A u \in 1 .. t - 1 : fate[u] # "unrun"

Emit(t, text, end) ==
    /\ printed' = printed \o Owned(text, t)
    /\ fate' = [fate EXCEPT ![t] = end]
    /\ UNCHANGED <<transport, lines, verdict, message>>

TestPasses(t) ==
    /\ Turn(t) /\ UNCHANGED phase
    /\ \E text \in PassingTexts : Emit(t, text, "passed")

TestFails(t) ==
    /\ Turn(t) /\ UNCHANGED phase
    /\ \E text \in FailingTexts : Emit(t, text, "failed")

(* Mistaken variant of the action below: the run goes on after it.         *)
TestDiesAlone(t) ==
    /\ Turn(t) /\ UNCHANGED phase
    /\ Emit(t, <<Line("ran")>>, "died")

\* The program is gone in the middle of a test, and with it the summary.
TestDies(t) ==
    /\ Turn(t) /\ phase' = "printed"
    /\ Emit(t, <<Line("ran")>>, "died")

PrintSummary ==
    /\ phase = "printing" /\ \A t \in Tests : fate[t] # "unrun"
    /\ \E s \in OddLine("summary") :
          printed' = printed \o Owned(<<Line("blank"), s>>, 0)
    /\ phase' = "printed"
    /\ UNCHANGED <<transport, fate, lines, verdict, message>>

-----------------------------------------------------------------------------
Piece(row, t) == [reads |-> row.reads, of |-> t, feed |-> FALSE]

\* exec(): the rows on screen, right-trimmed and without the blank ones.
Captured ==
    FlattenSeq([i \in DOMAIN printed |->
        IF printed[i].reads = "blank" THEN <<>>
        ELSE [j \in DOMAIN printed[i].layout |->
                 [piece |-> Piece(printed[i].layout[j], printed[i].of),
                  full  |-> printed[i].layout[j].full]]])

(* Mistaken variant of the operator below: every row a line.               *)
RowByRow(rows) == [i \in DOMAIN rows |-> <<rows[i].piece>>]

\* _logical_lines: a full row continues on the row after it.
LogicalLines(rows) ==
    LET ends == {i \in DOMAIN rows : ~rows[i].full \/ i = Len(rows)}
        begin(e) == 1 + Max({0} \cup {x \in ends : x < e})
    IN  [n \in 1 .. Cardinality(ends) |->
            LET e == CHOOSE e \in ends : Cardinality({x \in ends : x <= e}) = n
            IN  [j \in 1 .. e - begin(e) + 1 |-> rows[begin(e) + j - 1].piece]]

(* The screen gives up its first rows when there are more than it holds.   *)
DeliverScreen ==
    /\ phase = "printed" /\ transport = "screen"
    /\ \E first \in 1 .. Len(Captured) + 1 :
          lines' = LogicalLines(SubSeq(Captured, first, Len(Captured)))
    /\ phase' = "delivered"
    /\ UNCHANGED <<transport, fate, printed, verdict, message>>

\* _run_in_guest of DOSBox-X: a time out, an exit status or no file at all
\* refuses; else the file's bytes are the text.
DeliverFile ==
    /\ phase = "printed" /\ transport = "file"
    /\ \/ /\ lines' = [i \in DOMAIN printed |->
                          <<[reads |-> printed[i].reads, of |-> printed[i].of,
                             feed |-> printed[i].feed]>>]
          /\ phase' = "delivered"
       \/ phase' = "refused" /\ UNCHANGED lines
    /\ UNCHANGED <<transport, fate, printed, verdict, message>>

-----------------------------------------------------------------------------
\* The patterns anchored at a line's start, and those at its end too.
Starts(line, k) == line[1].reads = k
Ends(line, k) ==
    \/ line[Len(line)].reads = k
    \/ Len(line) > 1 /\ line[Len(line)].reads = "tail" /\ line[Len(line) - 1].reads = k

Headers == {i \in DOMAIN lines : Ends(lines[i], "header")}

(* Mistaken variants of the operators below: a failure too few is nothing  *)
(* to refuse; and a blank line alone ends a message.                       *)
ReadableUncounted == \E i \in DOMAIN lines : Starts(lines[i], "summary")
EndsAtBlank(line) == line[1].reads = "blank"

\* The summary is there, and the count it states is that of the blocks.
Readable ==
    /\ \E i \in DOMAIN lines : Starts(lines[i], "summary")
    /\ Cardinality(Headers) = Cardinality({i \in DOMAIN printed : printed[i].reads = "header"})

EndsMessage(line) ==
    \/ Len(line) = 1 /\ line[1].reads \in {"blank", "timing"}
    \/ Starts(line, "ran") \/ Starts(line, "summary")
    \/ Ends(line, "header") \/ Ends(line, "location")

\* splitlines: a form feed ends a line as well.
SplitLines ==
    FlattenSeq([i \in DOMAIN lines |->
        IF lines[i][1].feed
          THEN <<lines[i], <<[reads |-> "other", of |-> lines[i][1].of, feed |-> FALSE]>>>>
          ELSE <<lines[i]>>])

\* The lines after the i-th line end, a location line apart, up to one that
\* ends the message.
MessageAfter(i) ==
    LET after == SubSeq(SplitLines, i + 1, Len(SplitLines))
        rest == IF after # <<>> /\ Ends(after[1], "location") THEN Tail(after) ELSE after
        stops == {j \in DOMAIN rest : EndsMessage(rest[j])}
        taken == {j \in DOMAIN rest : \A s \in stops : j < s}
    IN  FlattenSeq(SubSeq(rest, 1, Cardinality(taken)))

Header(line) == line[IF line[Len(line)].reads = "header" THEN Len(line) ELSE Len(line) - 1]
HeadersOf(t) == {i \in Headers : Header(lines[i]).of = t}

\* An outcome for every test the text says ran, failed if it has a block;
\* the last of its blocks gives the message.
Outcome(t) ==
    IF \A i \in DOMAIN lines : ~(Starts(lines[i], "ran") /\ lines[i][1].of = t)
      THEN "missing"
      ELSE IF HeadersOf(t) # {} THEN "failed" ELSE "passed"

Reported(t) == IF Outcome(t) = "failed" THEN MessageAfter(Max(HeadersOf(t))) ELSE <<>>

Parse ==
    /\ phase = "delivered" /\ Readable
    /\ verdict' = [t \in Tests |-> Outcome(t)]
    /\ message' = [t \in Tests |-> Reported(t)]
    /\ phase' = "parsed"
    /\ UNCHANGED <<transport, fate, printed, lines>>

Refuse ==
    /\ phase = "delivered" /\ ~Readable
    /\ phase' = "refused"
    /\ UNCHANGED <<transport, fate, printed, lines, verdict, message>>

Next ==
    \/ \E t \in Tests : TestPasses(t) \/ TestFails(t) \/ TestDies(t)
    \/ PrintSummary \/ DeliverScreen \/ DeliverFile \/ Parse \/ Refuse

Spec == Init /\ [][Next]_vars

-----------------------------------------------------------------------------
(* The shape of the state: tests run in order, none after one that died,   *)
(* and the grammar has a verdict only of what it was given.                *)
TypeOK ==
    /\ transport \in {"screen", "file"}
    /\ phase \in {"printing", "printed", "delivered", "refused", "parsed"}
    /\ fate \in [Tests -> {"unrun", "passed", "failed", "died"}]
    /\ phase = "printing" => \A t \in Tests : fate[t] # "died"
    /\ verdict \in [Tests -> {"missing", "passed", "failed"}]
    /\ DOMAIN message = Tests
    /\ \A t \in Tests : verdict[t] # "missing" => phase = "parsed"

(* "refusing rather than reporting a mangled failure as a pass": whatever  *)
(* the console wraps, the capture drops and the screen loses, a test read  *)
(* as passed did pass, and one read as failed did fail; a run that died is *)
(* never read.                                                             *)
VerdictsAreTrue ==
    \A t \in Tests : verdict[t] # "missing" =>
        verdict[t] = fate[t] /\ \A u \in Tests : fate[u] \notin {"unrun", "died"}

\* No form feed is in a text that is the program's own bytes: with one, the
\* line a message is looked for at is not the one after its header.
Unfed == transport = "file" => \A i \in DOMAIN printed : ~printed[i].feed

(* The message of a failure never runs into the summary, nor into another  *)
(* test that is reported: only what the console made of a test whose own   *)
(* line is unreadable can end up in the message before it.                 *)
MessagesAreTheirOwn ==
    Unfed =>
        \A t \in Tests : \A i \in DOMAIN message[t] :
            LET u == message[t][i].of
            IN  u = t \/ (u \in Tests /\ verdict[u] = "missing")

(* A run that ended, of which nothing was lost and no line was exactly as  *)
(* wide as the console or wrapped on a space, and, where the text is the   *)
(* program's own bytes, held a form feed, is read: each test's outcome     *)
(* and, for one that failed, the message of its last block.                *)
Clean ==
    /\ \A t \in Tests : fate[t] \in {"passed", "failed"}
    /\ Unfed
    /\ transport = "screen" =>
          /\ \A i \in DOMAIN printed :
                LET k == printed[i].reads IN printed[i].layout \in {Plain(k), Wrapped(k)}
          /\ lines = LogicalLines(Captured)

CleanOutputIsRead ==
    /\ phase = "refused" /\ lines # <<>> => ~Clean
    /\ phase = "parsed" /\ Clean =>
          \A t \in Tests :
              /\ verdict[t] = fate[t]
              /\ verdict[t] = "failed" => message[t] # <<>> /\ message[t][1].reads = "message"
=============================================================================
