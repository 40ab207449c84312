---------------------------- MODULE PytestSession ---------------------------
(***************************************************************************)
(* One pytest session over guest suites (plugin.py; facade.py for the ones *)
(* a test module names): configure, collect every file, run the selected   *)
(* items in the order pytest has them, finish, report, and unconfigure.    *)
(* What a guest is to the session is whether it is up, and whether its     *)
(* home was kept; a start, a listing, an exchange or a stop may raise, and *)
(* the session may be interrupted between two calls.                       *)
(*                                                                         *)
(* boots, kept and claims are history variables.                           *)
(***************************************************************************)
EXTENDS Declarations, Integers

CONSTANTS
    Order,      \* the suites and test modules, in the order pytest
                \* collects them
    Items,      \* the tests of all suites
    SuiteOf,    \* the executable each is in
    GroupOf,    \* its group, which one exchange with the guest answers
    Nothing,    \* no file, no item
    Faults      \* what may go wrong, a subset of AllFaults

AllFaults == {"startRaises", "stopRaises", "unreadable", "interrupt"}

ASSUME PytestSessionAssumption ==
    /\ Order \in Seq(Files \cup Modules)
    /\ IsInjective(Order) /\ Range(Order) = Files \cup Modules
    /\ SuiteOf \in [Items -> Files] /\ DOMAIN GroupOf = Items
    /\ Nothing \notin Files \cup Items
    /\ Faults \subseteq AllFaults

VARIABLES
    stage,        \* where the session is
    walked,       \* the files pytest_collect_file was asked about
    collectors,   \* those it returned a collector for
    claims,       \* claims[f]: the declarations that claimed f then
    at,           \* what collection has come to
    enumerating,  \* the suite whose guest is up to be listed, or Nothing
    guest,        \* guest[f]: the guest f was resolved to, {} before
    suites,       \* the suites collected
    broken,       \* collection has an error to report
    selected,     \* the items pytest is going to run
    asking,       \* the item being run whose guest is started, or Nothing
    told,         \* told[i]: what pytest was told of i
    started,      \* the suites whose _started is set
    live,         \* _live
    cleanups,     \* the stops left to config.add_cleanup
    up,           \* the suites whose guest is up
    named,        \* named[f]: f's homes in the terminal summary
    boots,        \* boots[f]: how often f's guest came up
    kept          \* kept[f]: f's homes kept for inspection

walk == <<walked, collectors, claims>>
collection == <<walk, at, enumerating, guest, suites, broken, selected>>
execution == <<asking, told, started>>
stops == <<live, cleanups>>
guests == <<up, boots, kept>>
vars == <<project, declarations, stage, collection, execution, stops, guests, named>>

ItemsOf(S) == {i \in Items : SuiteOf[i] \in S}
\* The selected items that one exchange answers along with i.
Mates(i) ==
    LET suite == ItemsOf({SuiteOf[i]})
    IN  IF suite \subseteq selected THEN suite
        ELSE {j \in suite \cap selected : GroupOf[j] = GroupOf[i]}

Init ==
    /\ DeclarationsInit
    /\ stage = "configuring"
    /\ walked = {} /\ collectors = {} /\ claims = [f \in Files |-> {}]
    /\ at = 1 /\ enumerating = Nothing
    /\ guest = claims
    /\ suites = {} /\ broken = FALSE /\ selected = {}
    /\ asking = Nothing /\ told = [i \in Items |-> "nothing"] /\ started = {}
    /\ live = <<>> /\ cleanups = <<>>
    /\ up = {}
    /\ boots = [f \in Files |-> 0]
    /\ kept = [f \in Files |-> 0] /\ named = kept

-----------------------------------------------------------------------------
PersistOf(f, g) == {r.persist : r \in g[f]} \ {Unsaid}
Disposable(f, g) == PersistOf(f, g) = {}
\* Whose session start_guest closes: one machine serves one at a time.
Rivals(f, g) == {h \in up \ {f} : PersistOf(f, g) \cap PersistOf(h, g) # {}}

KeepHome(f, g) ==
    kept' = IF project.line.keep /\ Disposable(f, g) THEN [kept EXCEPT ![f] = @ + 1] ELSE kept

StartGuest(f, g, ok) ==
    /\ ok \/ "startRaises" \in Faults
    /\ up' = (up \ Rivals(f, g)) \cup (IF ok THEN {f} ELSE {})
    /\ boots' = IF ok THEN [boots EXCEPT ![f] = @ + 1] ELSE boots
    /\ IF ok THEN UNCHANGED kept ELSE KeepHome(f, g)

(* stop_guest, which gives the home back and forgets the machine though    *)
(* the machine's stop raises; a guest that is not up has nothing to stop.  *)
StopGuest(f, ok) ==
    /\ ok \/ ("stopRaises" \in Faults /\ f \in up)
    /\ up' = up \ {f}
    /\ IF f \in up THEN KeepHome(f, guest) ELSE UNCHANGED kept
    /\ UNCHANGED boots

-----------------------------------------------------------------------------
(* pytest_configure.                                                       *)
Configure ==
    /\ stage = "configuring"
    /\ \E ok \in BOOLEAN : LoadConfig(ok) /\ stage' = IF ok THEN "collecting" ELSE "exited"
    /\ UNCHANGED <<project, collection, execution, stops, guests, named>>

(* pytest_collect_file.  pytest asks it of a whole directory before it     *)
(* collects the first of it, so of a file any time before its turn.  A     *)
(* usage error fails the collection, and the model goes on to files pytest *)
(* may then leave out.                                                     *)
Walk(f) ==
    /\ stage = "collecting" /\ enumerating = Nothing
    /\ f \notin walked \cup Embedded
    /\ walked' = walked \cup {f}
    /\ collectors' = IF Claimed(f) /\ ~ClaimRaises(f) THEN collectors \cup {f} ELSE collectors
    /\ claims' = [claims EXCEPT ![f] = Names(Claimants(f))]
    /\ broken' = (broken \/ ClaimRaises(f))
    /\ UNCHANGED <<project, declarations, stage, at, enumerating, guest, suites, selected,
                   execution, stops, guests, named>>

Come(c) == stage = "collecting" /\ enumerating = Nothing /\ at <= Len(Order) /\ Order[at] = c
GoOn == at' = at + 1

\* What the scan passed by has no collector.
PassBy(f) ==
    /\ Come(f) /\ f \in walked \ collectors
    /\ GoOn
    /\ UNCHANGED <<project, declarations, stage, walk, enumerating, guest, suites, broken,
                   selected, execution, stops, guests, named>>

(* A test module is imported and calls config(); a call that raises is the *)
(* module's collection error.                                              *)
Import(m) ==
    /\ Come(m)
    /\ \E ok \in BOOLEAN : Declare(project.modules[m], ok) /\ broken' = (broken \/ ~ok)
    /\ GoOn
    /\ UNCHANGED <<project, loaded, stage, walk, enumerating, guest, suites, selected,
                   execution, stops, guests, named>>

Ours(f) == Come(f) /\ f \in collectors \cup Embedded

(* collect, guest_suite: a suite no guest is there for, or whose twin will *)
(* not list it.                                                            *)
Refuse(f) ==
    /\ Ours(f)
    /\ Resolution(f) = {} \/ (f \in project.twins /\ "unreadable" \in Faults)
    /\ broken' = TRUE
    /\ GoOn
    /\ UNCHANGED <<project, declarations, stage, walk, enumerating, guest, suites, selected,
                   execution, stops, guests, named>>

(* The host-built twin lists the tests, and nothing boots.                 *)
ListOnHost(f) ==
    /\ Ours(f) /\ Resolution(f) # {} /\ f \in project.twins
    /\ guest' = [guest EXCEPT ![f] = Resolution(f)]
    /\ suites' = suites \cup {f}
    /\ GoOn
    /\ UNCHANGED <<project, declarations, stage, walk, enumerating, broken, selected,
                   execution, stops, guests, named>>

(* A guest is started to be asked; when that raises, there is none.        *)
Enumerate(f) ==
    /\ Ours(f) /\ Resolution(f) # {} /\ f \notin project.twins
    /\ guest' = [guest EXCEPT ![f] = Resolution(f)]
    /\ \/ StartGuest(f, guest', TRUE) /\ enumerating' = f /\ UNCHANGED <<at, broken>>
       \/ StartGuest(f, guest', FALSE) /\ broken' = TRUE /\ GoOn /\ UNCHANGED enumerating
    /\ UNCHANGED <<project, declarations, stage, walk, suites, selected, execution, stops, named>>

(* list_tests, and the guest is stopped whatever it answered.              *)
Enumerated(f) ==
    /\ stage = "collecting" /\ enumerating = f
    /\ \/ StopGuest(f, TRUE) /\ suites' = suites \cup {f} /\ UNCHANGED broken
       \/ /\ \E ok \in BOOLEAN : (ok => "unreadable" \in Faults) /\ StopGuest(f, ok)
          /\ broken' = TRUE /\ UNCHANGED suites
    /\ enumerating' = Nothing /\ GoOn
    /\ UNCHANGED <<project, declarations, stage, walk, guest, selected, execution, stops, named>>

(* pytest runs nothing of a collection with errors, and else what the      *)
(* tester selects.                                                         *)
Collected ==
    /\ stage = "collecting" /\ enumerating = Nothing /\ at > Len(Order)
    /\ \/ broken /\ stage' = "finishing" /\ UNCHANGED selected
       \/ ~broken /\ stage' = "running" /\ selected' \in SUBSET ItemsOf(suites)
    /\ UNCHANGED <<project, declarations, walk, at, enumerating, guest, suites, broken,
                   execution, stops, guests, named>>

-----------------------------------------------------------------------------
Comes(i) == stage = "running" /\ asking = Nothing /\ i \in selected /\ told[i] = "nothing"
Tell(i, what) == told' = [told EXCEPT ![i] = what]

\* Who will stop f's guest: sessionfinish, or the config's cleanup.
LeaveStop(f) ==
    IF f \in Embedded THEN cleanups' = Append(cleanups, f) /\ UNCHANGED live
                      ELSE live' = Append(live, f) /\ UNCHANGED cleanups

(* Mistaken variant of the action below: started for every item.           *)
RunItemStarting(i) ==
    LET f == SuiteOf[i] IN
    /\ Comes(i)
    /\ StartGuest(f, guest, TRUE) /\ LeaveStop(f)
    /\ started' = started \cup {f} /\ asking' = i /\ UNCHANGED told
    /\ UNCHANGED <<project, declarations, stage, collection, named>>

(* runtest, run_guest_test: the first item of a suite starts its guest.    *)
RunItem(i) ==
    LET f == SuiteOf[i] IN
    /\ Comes(i)
    /\ IF f \in started
         THEN asking' = i /\ UNCHANGED <<told, started, stops, guests>>
         ELSE \/ /\ StartGuest(f, guest, TRUE) /\ LeaveStop(f)
                 /\ started' = started \cup {f} /\ asking' = i /\ UNCHANGED told
              \/ /\ StartGuest(f, guest, FALSE)
                 /\ Tell(i, "not started") /\ UNCHANGED <<asking, started, stops>>
    /\ UNCHANGED <<project, declarations, stage, collection, named>>

Known(i) == \E j \in Mates(i) : told[j] = "answered"

(* The broker's answer: from what it has, from the guest, or a refusal of  *)
(* a backend whose guest another suite has taken the machine from.         *)
Answer(i) ==
    LET f == SuiteOf[i] IN
    /\ stage = "running" /\ asking = i
    /\ \/ (Known(i) \/ f \in up) /\ Tell(i, "answered")
       \/ ~Known(i) /\ f \in up /\ "unreadable" \in Faults /\ Tell(i, "unreadable")
       \/ ~Known(i) /\ f \notin up /\ Tell(i, "no session")
    /\ asking' = Nothing
    /\ UNCHANGED <<project, declarations, stage, collection, started, stops, guests, named>>

AllRun ==
    /\ stage = "running" /\ asking = Nothing
    /\ \A i \in selected : told[i] # "nothing"
    /\ stage' = "finishing"
    /\ UNCHANGED <<project, declarations, collection, execution, stops, guests, named>>

(* -x, --maxfail, a keyboard interrupt: pytest goes on to its finish; a    *)
(* guest that is being listed is stopped on the way.                       *)
Interrupt ==
    /\ "interrupt" \in Faults
    /\ stage \in {"collecting", "running"}
    /\ stage' = "finishing"
    /\ IF enumerating # Nothing THEN \E ok \in BOOLEAN : StopGuest(enumerating, ok)
                                ELSE UNCHANGED guests
    /\ enumerating' = Nothing /\ asking' = Nothing
    /\ UNCHANGED <<project, declarations, walk, at, guest, suites, broken, selected,
                   told, started, stops, named>>

-----------------------------------------------------------------------------
(* Mistaken variants of the action below: the first stop that raises ends  *)
(* the loop, the guests left to the config's cleanup, and one stopped that *)
(* is not taken off the list.                                              *)
FinishStranding ==
    /\ stage = "finishing" /\ live # <<>>
    /\ \E ok \in BOOLEAN :
          /\ StopGuest(Last(live), ok)
          /\ live' = IF ok THEN Front(live) ELSE <<>>
    /\ UNCHANGED <<project, declarations, stage, collection, execution, cleanups, named>>
FinishLater ==
    /\ stage = "finishing" /\ live # <<>>
    /\ cleanups' = cleanups \o live /\ live' = <<>>
    /\ UNCHANGED <<project, declarations, stage, collection, execution, guests, named>>

FinishPeeking ==
    /\ stage = "finishing" /\ live # <<>>
    /\ \E ok \in BOOLEAN : StopGuest(Last(live), ok)
    /\ UNCHANGED <<project, declarations, stage, collection, execution, stops, named>>

(* pytest_sessionfinish: one guest after another, whatever a stop raises.  *)
Finish ==
    /\ stage = "finishing" /\ live # <<>>
    /\ \E ok \in BOOLEAN : StopGuest(Last(live), ok)
    /\ live' = Front(live)
    /\ UNCHANGED <<project, declarations, stage, collection, execution, cleanups, named>>

(* pytest_terminal_summary.                                                *)
Summarise ==
    /\ stage = "finishing" /\ live = <<>>
    /\ named' = kept
    /\ stage' = "unconfiguring"
    /\ UNCHANGED <<project, declarations, collection, execution, stops, guests>>

(* pytest's cleanups, the last one added first; one that raises does not   *)
(* keep it from the others.                                                *)
Unconfigure ==
    /\ stage = "unconfiguring"
    /\ IF cleanups # <<>>
         THEN /\ \E ok \in BOOLEAN : StopGuest(Last(cleanups), ok)
              /\ cleanups' = Front(cleanups)
              /\ UNCHANGED stage
         ELSE stage' = "exited" /\ UNCHANGED <<guests, cleanups>>
    /\ UNCHANGED <<project, declarations, collection, execution, live, named>>

Collect(f) == Walk(f) \/ PassBy(f) \/ Refuse(f) \/ ListOnHost(f) \/ Enumerate(f) \/ Enumerated(f)
Next ==
    \/ Configure \/ Collected \/ AllRun \/ Finish \/ Summarise \/ Unconfigure
    \/ \E f \in Files : Collect(f)
    \/ \E m \in Modules : Import(m)
    \/ \E i \in Items : RunItem(i) \/ Answer(i)
    \/ Interrupt

(* pytest goes on with its one thread, each call being bounded in time.    *)
Spec == Init /\ [][Next]_vars /\ WF_vars(Next)

-----------------------------------------------------------------------------
(* The shape of the state: a suite has one guest it was resolved to, and   *)
(* one stop of it is left to whoever stops it.                             *)
TypeOK ==
    /\ stage \in {"configuring", "collecting", "running", "finishing", "unconfiguring", "exited"}
    /\ loaded \in {"unset", "none", "found"}
    /\ collectors \subseteq walked /\ walked \subseteq Files \ Embedded
    /\ at \in 1 .. Len(Order) + 1
    /\ enumerating \in Files \cup {Nothing}
    /\ \A f \in Files : Cardinality(guest[f]) <= 1
    /\ \A f \in suites : guest[f] # {}
    /\ suites \subseteq Files /\ broken \in BOOLEAN
    /\ selected \subseteq ItemsOf(suites)
    /\ asking \in selected \cup {Nothing}
    /\ told \in [Items -> {"nothing", "answered", "unreadable", "not started", "no session"}]
    /\ started \subseteq suites
    /\ live \in Seq(suites \ Embedded) /\ cleanups \in Seq(suites \cap Embedded)
    /\ IsInjective(live) /\ IsInjective(cleanups)
    /\ up \subseteq Files
    /\ {boots, kept, named} \subseteq [Files -> Nat]

(* "One backend failing to stop must not strand the others": whatever      *)
(* raised, a guest is up only while somebody is still to stop it.          *)
EveryGuestHasItsStop == up \subseteq Range(live) \cup Range(cleanups) \cup {enumerating}

(* A suite boots once to be listed, and not at all when its twin lists it; *)
(* and once more only when an item of it was selected.                     *)
BootsAreEarned ==
    \A f \in Files :
        boots[f] <= (IF f \in project.twins THEN 0 ELSE 1)
                    + (IF ItemsOf({f}) \cap selected # {} THEN 1 ELSE 0)

(* The terminal summary names every home the plugin's own suites kept, the *)
(* execution guests' among them.                                           *)
KeptHomesAreNamed ==
    stage \in {"unconfiguring", "exited"} =>
        \A f \in Files \ Embedded : named[f] = kept[f]

(* A declaration that claims a file when pytest walks past it decides      *)
(* where the file runs, whatever test modules declare before its guest is  *)
(* resolved and afterwards: they may have it refused, never sent           *)
(* elsewhere.  Only the command line may; and no scan falls into the       *)
(* catalog.                                                                *)
DeclarationDecides ==
    \A f \in Files \ Embedded : \A r \in guest[f] :
        \/ r.environment = project.line.environment /\ r.environment # Unsaid
        \/ /\ project.line.environment = Unsaid
           /\ claims[f] \subseteq {r.environment}
           /\ r.environment \in Names(environments) \cup {Unsaid}

(* "two suites naming it in one pytest run take turns": with nothing going *)
(* wrong, no item is turned away for its suite's session being over.       *)
TurnsAreTaken == \A i \in Items : told[i] # "no session"

(* The session ends: every selected item reported, unless it was           *)
(* interrupted, and every stop made.                                       *)
SessionEnds == <>(stage = "exited")
=============================================================================
