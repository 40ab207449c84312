---------------------------- MODULE ResultBroker ----------------------------
(***************************************************************************)
(* How the items of one suite get their outcomes (facade.py, suite.py,     *)
(* plugin.py): pytest runs the selected items one at a time; the broker    *)
(* answers each from what it has, or has the backend run the whole suite,  *)
(* the selected tests of the item's group, or the one test; the backend    *)
(* holds one exchange with the guest after another and reads each output.  *)
(* The guest's executable need not have the tests the list names.  Any     *)
(* output may come back unreadable, or readable and without some of the    *)
(* tests that ran: a line lost or joined to another on the screen.  The    *)
(* executing side states a budget.                                         *)
(*                                                                         *)
(* cache stands for _batch, _grouped and _single alike: the selection is   *)
(* the same all through a run, so a test's answer is only ever in one of   *)
(* them.  calls, ran, said and lost are history variables.                 *)
(***************************************************************************)
EXTENDS SuiteArgv, FiniteSets

CONSTANTS
    Ids,         \* the suite's tests in its own order, as enumerated
    GroupOf,     \* the group of each
    Guests,      \* which tests the guest's executable may really have
    NoTest

ASSUME ResultBrokerAssumption ==
    /\ Ids \in Seq(Tests) /\ IsInjective(Ids) /\ Range(Ids) = Tests
    /\ DOMAIN GroupOf = Tests
    /\ Guests \subseteq SUBSET Tests
    /\ NoTest \notin Tests

VARIABLES
    present,   \* the tests the guest's executable has
    batched,   \* whether the framework adapter supplies run_some_argv
    selected,  \* the tests pytest is going to run this session
    asking,    \* the item whose outcome is being fetched, or NoTest
    op,        \* the backend operation under way for it, or "idle"
    rest,      \* the tests run_some has yet to ask the guest about
    wanted,    \* those whose outcome run_some has read
    cache,     \* cache[t]: the outcome the broker has of t
    told,      \* told[t]: what pytest was told of t
    calls,     \* operations asked of the backend
    ran,       \* ran[t]: how often the guest has run t
    said,      \* said[t]: what it said of t last
    lost       \* tests the latest operation ran and its outputs do not show

fixed == <<present, batched, selected>>
history == <<calls, ran, said, lost>>
vars == <<fixed, asking, op, rest, wanted, cache, told, history>>

Verdicts == {"passed", "failed"}
Whole == selected = Tests

\* The group's selected tests; the suite's own order; the first n by it.
Mates(t) == {i \in selected : GroupOf[i] = GroupOf[t]}
InOrder(S) == SelectSeq(Ids, LAMBDA i : i \in S)
FirstOf(S, n) == {t \in S : \E k \in 1 .. n : k <= Cardinality(S) /\ InOrder(S)[k] = t}

Init ==
    /\ present \in Guests /\ batched \in BOOLEAN
    /\ selected \in SUBSET Tests \ {{}}
    /\ asking = NoTest /\ op = "idle" /\ rest = {} /\ wanted = {}
    /\ cache = [t \in Tests |-> "unknown"]
    /\ told = [t \in Tests |-> "nothing"]
    /\ calls = 0
    /\ ran = [t \in Tests |-> 0]
    /\ said = [t \in Tests |-> "nothing"]
    /\ lost = {}

Tell(t, what) == told' = [told EXCEPT ![t] = what]

\* The operation ends and its item is reported.
Finish(what) ==
    /\ Tell(asking, what)
    /\ asking' = NoTest /\ op' = "idle" /\ rest' = {} /\ wanted' = {}

-----------------------------------------------------------------------------
(* Mistaken variant of the operator below: a batch nobody looks at again.  *)
KnownNever(t) == ~Whole /\ cache[t] # "unknown"

Known(t) == cache[t] # "unknown"

\* runtest, run_guest_test: an item whose outcome the broker has.
Answer(t) ==
    /\ op = "idle" /\ t \in selected /\ told[t] = "nothing"
    /\ Known(t)
    /\ Tell(t, cache[t])
    /\ UNCHANGED <<fixed, asking, op, rest, wanted, cache, history>>

(* Mistaken variants of the action below: the whole suite run for a group, *)
(* and a group down to one test forgotten.                                 *)
AskBatchesOnly(t) ==
    /\ op = "idle" /\ t \in selected /\ told[t] = "nothing"
    /\ ~Known(t)
    /\ asking' = t /\ calls' = calls + 1 /\ lost' = {}
    /\ \/ Whole /\ op' = "all" /\ UNCHANGED rest
       \/ ~Whole /\ Cardinality(Mates(t)) > 1 /\ op' = "some" /\ rest' = Mates(t)
    /\ UNCHANGED <<fixed, wanted, cache, told, ran, said>>

AskForAll(t) ==
    /\ op = "idle" /\ t \in selected /\ told[t] = "nothing"
    /\ ~Known(t)
    /\ asking' = t /\ calls' = calls + 1 /\ lost' = {}
    /\ IF Cardinality(Mates(t)) > 1 THEN op' = "all" /\ UNCHANGED rest
                                ELSE op' = "one" /\ UNCHANGED rest
    /\ UNCHANGED <<fixed, wanted, cache, told, ran, said>>

\* One that it has not: how the backend is asked.
Ask(t) ==
    /\ op = "idle" /\ t \in selected /\ told[t] = "nothing"
    /\ ~Known(t)
    /\ asking' = t /\ calls' = calls + 1 /\ lost' = {}
    /\ \/ Whole /\ op' = "all" /\ UNCHANGED rest
       \/ ~Whole /\ Cardinality(Mates(t)) > 1 /\ op' = "some" /\ rest' = Mates(t)
       \/ ~Whole /\ Cardinality(Mates(t)) = 1 /\ op' = "one" /\ UNCHANGED rest
    /\ UNCHANGED <<fixed, wanted, cache, told, ran, said>>

(* One exchange: the guest runs the tests of asked it has, each of which   *)
(* passes or fails.                                                        *)
GuestRuns(asked) ==
    \E verdict \in [asked \cap present -> Verdicts] :
        /\ said' = [t \in Tests |-> IF t \in asked \cap present THEN verdict[t] ELSE said[t]]
        /\ ran' = [t \in Tests |-> IF t \in asked \cap present THEN ran[t] + 1 ELSE ran[t]]

\* The output is readable and shows these of the tests that ran.
Shows(asked, shown) ==
    /\ shown \subseteq asked \cap present
    /\ lost' = lost \cup ((asked \cap present) \ shown)

\* GuestOutputError: the item is told so and nothing is kept.
Unreadable == Finish("unreadable") /\ UNCHANGED <<cache, lost>>

(* run_all, of which the broker keeps the whole batch.                     *)
RunAll ==
    /\ op = "all"
    /\ GuestRuns(Tests)
    /\ \/ \E shown \in SUBSET present :
             /\ Shows(Tests, shown)
             /\ cache' = [t \in Tests |-> IF t \in shown THEN said'[t] ELSE "missing"]
             /\ Finish(cache'[asking])
       \/ Unreadable
    /\ UNCHANGED <<fixed, calls>>

(* run_test: LookupError when the output does not show it.                 *)
RunOne ==
    /\ op = "one"
    /\ GuestRuns({asking})
    /\ \/ /\ asking \in present /\ Shows({asking}, {asking})
          /\ cache' = [cache EXCEPT ![asking] = said'[asking]]
          /\ Finish(said'[asking])
       \/ Shows({asking}, {}) /\ Finish("missing") /\ UNCHANGED cache
       \/ Unreadable
    /\ UNCHANGED <<fixed, calls>>

\* What the next exchange of run_some asks for; without run_some_argv it is
\* the base class's, one test by one.
NextChunk == FirstOf(rest, IF batched THEN ChunkLen(InOrder(rest), "typed") ELSE 1)

(* Mistaken variants of the action below: what was read so far kept and    *)
(* passed on as it is, and a name dropped between two exchanges.           *)
RunSomeKeeping ==
    /\ op = "some"
    /\ GuestRuns(NextChunk)
    /\ cache' = [t \in Tests |-> IF t \in Mates(asking) THEN said'[t] ELSE cache[t]]
    /\ Finish(said'[asking])
    /\ UNCHANGED <<fixed, calls, lost>>
RunSomeSkipping ==
    LET left == rest \ FirstOf(rest, Cardinality(NextChunk) + 1)
    IN  /\ op = "some"
        /\ GuestRuns(NextChunk)
        /\ IF left # {}
             THEN /\ rest' = left /\ wanted' = wanted \cup NextChunk
                  /\ UNCHANGED <<asking, op, cache, told>>
             ELSE Finish("missing") /\ UNCHANGED cache
        /\ UNCHANGED <<fixed, calls, lost>>

(* run_some, one exchange of it.  An adapter without the batch stops at    *)
(* the first name whose output does not show it; with it the guest is      *)
(* asked about all of them before any is looked for, and one missing fails *)
(* them all.                                                               *)
RunSome ==
    /\ op = "some"
    /\ \E chunk \in {NextChunk} :
          /\ GuestRuns(chunk)
          /\ \/ \E shown \in SUBSET (chunk \cap present) :
                   LET left == rest \ chunk
                       read == wanted \cup shown
                       over == left = {} \/ (~batched /\ ~(chunk \subseteq shown))
                   IN  /\ Shows(chunk, shown)
                       /\ \/ /\ ~over
                             /\ rest' = left /\ wanted' = read
                             /\ UNCHANGED <<asking, op, cache, told>>
                          \/ /\ over /\ Mates(asking) \subseteq read
                             /\ cache' = [t \in Tests |->
                                            IF t \in Mates(asking) THEN said'[t] ELSE cache[t]]
                             /\ Finish(said'[asking])
                          \/ /\ over /\ ~(Mates(asking) \subseteq read)
                             /\ Finish("missing") /\ UNCHANGED cache
             \/ Unreadable
    /\ UNCHANGED <<fixed, calls>>

Exchange == RunAll \/ RunOne \/ RunSome
Next == Exchange \/ \E t \in Tests : Answer(t) \/ Ask(t)

(* pytest goes on to its next item and the guest answers, or is given up.  *)
Spec == Init /\ [][Next]_vars /\ WF_vars(Next)

-----------------------------------------------------------------------------
(* The shape of the state: an operation under way has an item it is for,   *)
(* and run_some names of that item's group.                                *)
TypeOK ==
    /\ selected \subseteq Tests /\ present \subseteq Tests /\ batched \in BOOLEAN
    /\ asking \in Tests \cup {NoTest}
    /\ op \in {"idle", "all", "some", "one"}
    /\ op = "idle" <=> asking = NoTest
    /\ rest \subseteq Tests /\ (rest # {} => op = "some")
    /\ asking # NoTest => asking \in selected /\ rest \subseteq Mates(asking)
    /\ wanted \subseteq Tests
    /\ cache \in [Tests -> Verdicts \cup {"unknown", "missing"}]
    /\ told \in [Tests -> Verdicts \cup {"nothing", "missing", "unreadable"}]
    /\ calls \in Nat
    /\ ran \in [Tests -> Nat]
    /\ said \in [Tests -> Verdicts \cup {"nothing"}]
    /\ lost \subseteq Tests

(* A narrowed selection never has the guest run a test that is not in it,  *)
(* batched by the group or not.                                            *)
OnlySelectedRun == \A t \in Tests : ran[t] > 0 => t \in selected

(* A verdict pytest is given is the guest's, of that very test and the     *)
(* latest it gave: no later run of the test ever contradicts the report.   *)
ToldWhatTheGuestSaid == \A t \in Tests : told[t] \in Verdicts => told[t] = said[t]

\* What one call of the backend asks for when it is asked about t, and the
\* items told that their call failed: nothing of it was kept.
Batch(t) == IF Whole THEN Tests ELSE Mates(t)
Failed == {t \in Tests : told[t] = "unreadable" \/ (told[t] = "missing" /\ ~Whole)}

(* "the whole suite is one batched run_all(); a narrowed selection is one  *)
(* run_some() per group": however the items interleave, a test runs in the *)
(* guest again, and the backend is called again, only once for each item   *)
(* of its batch that was told its call failed.  So with every output whole *)
(* and host and guest in sync, nothing runs twice.                         *)
OnlyFailuresRunAgain ==
    /\ \A t \in Tests : ran[t] <= 1 + Cardinality(Batch(t) \cap Failed)
    /\ calls <= Cardinality({Batch(t) : t \in selected}) + Cardinality(Failed)

(* "did not run test": an item told so is one the guest's executable has   *)
(* not got or the output of the very operation that answers it lost, or in *)
(* a narrowed selection one batched with such a test; never one that a     *)
(* chunk left out, an earlier operation lost or another group lacks.       *)
MissingHasACause ==
    [][\A t \in Tests : told[t] = "nothing" /\ told'[t] = "missing" =>
          ~((IF Whole THEN {t} ELSE Mates(t)) \subseteq present \ lost')]_vars

(* Every selected item is told something in the end.                       *)
EveryItemIsTold == <>(\A t \in selected : told[t] # "nothing")
=============================================================================
