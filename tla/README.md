# A verification of testaferro

testaferro runs CppUTest executables built for DOS on a guest machine and reports their tests to
pytest as items. This directory holds TLA+ modules of its parts, the TLC configurations that check
them on small instances, and theorems about them that TLAPS proves for every value of the
constants. Paths below are relative to the repository's `src/testaferro/`; every definition that
stands for code is listed in `PROJECT.json` with the lines it was read from.

1. [The system](#1-the-system)
2. [Modules](#2-modules)
3. [Runs, and what they show](#3-runs-and-what-they-show)
4. [Fairness](#4-fairness)
5. [Theorems](#5-theorems)
6. [Where code and documents disagree](#6-where-code-and-documents-disagree)
7. [What is left out](#7-what-is-left-out)
8. [Plan](#8-plan)
9. [Running it](#9-running-it)

## 1. The system

pytest calls the **plugin** for each file. The plugin asks the **declarations** (the project's
`testaferro.ini`, `configure()` and the command line) whether the file is a suite of theirs, and has
**resolution** find a provider for it. The provider's backend, **reliquary** or **DOSBox-X**, stages
the executable into a directory, authors a machine's **document** with that directory as a **drive**,
puts the executable where it was declared to go, boots a guest and types commands at the **address**
it settled. The suite is listed once, which gives the items; as items run, the **result broker** asks
the guest for their outcomes in as few exchanges as the **chunks** of a command line allow, and the
**grammar** reads what came back. Beneath a reliquary guest lie a **home** (of a run, a lone session or
a kept machine) and the **system image** every process of the user's shares.

| Component | State it keeps | Operations | What is hard | What makes it correct |
|---|---|---|---|---|
| FreeDOS system image (`reliquary.py`, the `freedos*` assets) | the published disk, a partial and a build home per builder | find or build, publish, boot over, `clean`, `clean --system` | any number of processes build, kill each other's files or die, and no lock is held | only a whole disk is ever published; no build takes another's partial; nothing is left behind; an install that is up keeps its home |
| Persistent machines (`reliquary.py`) | the machine's home and phase on disk; `_holders` and `_running` in each process | `start_guest`, `stop_guest`, `shutdown`, `destroy`, the `atexit` failsafe | sessions of one process take the machine from each other, processes race for it, every call can raise or its process die | registries tell the truth; an open session serves its own staged set; one session at a time; nobody strands a running machine |
| Disposable homes and runs (`reliquary.py`, `cache.py`) | run directory, a home per session, `_running`, `_run_area` | `start()`/`stop()`, `start_guest`, `stop_guest`, a `with` block, exit, `clean` | teardown order, failures halfway, another process's `clean`, kills | no home is swept or handed over under a machine that is up; every home is given back; an orderly exit leaves nothing |
| Suite execution (`suite.py`, `cpputest.py`) | the chunk being filled, the outcomes read so far | `_chunks`, `argv_budget`, `run_some` | two limits at once, a name too long for any, an exchange that fails between two | no name lost or repeated; no line too long; no exchange wasted; no verdict without a run |
| Suite sessions (`reliquary.py`, `dosbox_x.py`, `placement.py`, `at_rest.py`) | work directory, boot image copy, document, what lies on the disks, `location` | `start_guest` with `_stage_boot_image`, `_reopen`, `_blueprint`, `_create`, `_place`, `_wait_ready`, `_run_setup`; `_run_in_guest`; `stop_guest` | a kept machine meets a session that declares something else; letters are DOS's to give; every step can fail and leave its work | what is run is what this session staged; images are read only unless a declaration has one used in place; a kept disk keeps its state |
| Drive letters (`reliquary.py`) | none | `_letter_map`, `_resolve_volume`, `_work_slot`, `_default_location` | gaps, full buses, documents of other sessions | the letter computed is the one DOS gives |
| Result broker (`facade.py`, `suite.py`, `backend.py`) | cached outcomes by suite, group, test | `outcome()` over `run_all`, `run_some`, `run_test` | items interleave, an exchange fails or answers in part, guest and list differ | nothing unselected runs; a report is the guest's own last word; a test runs again only for a call that failed |
| Output transport and grammar (`cpputest.py`, `reliquary.py`, `dosbox_x.py`) | the captured text | print, wrap, capture, join, parse | the screen wraps, trims, drops blank rows and loses its head; a test prints lines of its own | no verdict is untrue; no message takes in another test's; clean output is read in full |
| Pytest plugin and embedding facade (`plugin.py`, `facade.py`) | `_live`, `_started`, suites, kept homes | configure, collect, list, run, finish, summarise | any call raises, the session is interrupted, suites share a machine | every guest that is up has somebody to stop it; no boot is wasted; kept homes are named |
| Declarations and resolution (`environments.py`, `catalog.py`, `resolution.py`, `binfmt.py`, `placement.py`) | environments configured, search for the file | `configure`, `load_config`, claim, `select`, `resolve_backend` | three lookups that must agree; masks that overlap; test modules that declare while files are collected | what claims a file decides where it runs |
| Lifecycle CLI (`cli.py`) | none | its verbs are actions of the first three modules | | |

reliquary itself, pytest, and the guest with its console are outside the repository. They are
modelled from how the code uses them: the phases reliquary records for a machine and what it refuses
in each, the order in which pytest calls its hooks, a guest executable that may lack a test the list
has, and a DOS that gives letters to the drives it finds.

`PROJECT.json` lists each of these under `components`, and under `hazards` the places in the code
where an order, a failure or a limit could go wrong that a test would hardly reach, with the
properties that watch it.

## 2. Modules

    SystemImage          PersistentMachine --implements--> MachineLease       GuestHomes
    SuiteArgv <--- SuiteChunks, ResultBroker        OutputTransport
    SuiteChunks, DriveLetters <--- SuiteSession     Declarations <--- PytestSession

An `MC` module of the same name holds a module's instances, a `_proof` module its theorems. In each
module, an operator headed "Mistaken variant" is the mutation of the definition after it that some
property must notice; no action refers to it.

**`SystemImage`**: `_cached_default_image` and `_build_default_image` (reliquary.py 536-602), `clean` of
build homes, `_remove_system`. One action per step that another process can see: `Look`, `Stage`,
`CreateMachine`, `InstallStarts`, `InstallFinishes`, `InstallFails` (with the cleanup of its `except`
and `finally`), `CopyInstalled`, `CheckDestination`, `Replace`; the test and the rename are two
actions, as they are two calls. `OpenOverlay` and `CloseOverlay` are a guest over the disk, and
`base[p]` whose disk it lies on. `clean` is two actions, `CleanAsks` and `CleanRemoves`, and `sweep[p]`
says whether a cleaner has found p's home at rest (`asked`), and whether the install booted after it
did (`late`). A disk is `none`, `torn` (a copy cut short) or `full`.

**`PersistentMachine`**: a single kept machine with any number of backends in any number of
processes. `start_guest` is `CloseHolder`, `Claim`, `StageFiles`, `Reopen`, `Create`, `Boot`,
`Settle`; a step that may raise has a disjunct that stops, unregisters and reports as the code does.
`Stop` is `stop_guest`; `Shutdown`, and `DestroyBegins`, `DestroyMachine`, `RemoveHome`, are the CLI's
verbs; `Kill` takes a process and leaves the machine. A machine that another process creates or boots
between the last two steps of `destroy` loses its home and its record, and is `adrift` from then on. Memory is `holder` (`_holders`), `running` (`_running`), `hasHome`
and `hasMachine`; disk is `home`, `work`, `phase`, and `served` is the staged set the guest read as it
booted. `sole` records which process has the machine to itself, or that none does, and never changes:
it lets one model say both what holds among processes and what holds within one.

**`MachineLease`** is what a kept machine promises: a user, one at a time, whose use ends before the
next begins. `PersistentMachine` maps `user` to the session that is open.

**`GuestHomes`**: disposable homes. A session is a suite's or, if in `Scripted`, a `with` block's. Its
home lies in the run's directory or is `lone`. `StartRun` and `StopRun` are `start()` and `stop()`,
`MakeHome` .. `Settle` are `start_guest`, `StopGuest` its end, `Exit` the `atexit` handlers in the
order they run, `Kill` a process that runs none. `clean` is two actions, `CleanJudges` and
`CleanRemoves`, because it decides and then deletes.

**`SuiteArgv`** has the arithmetic of a command line (`Budget`, `Argv`, `Fits`, `ChunkLen`); who
carries the argv (`Sides`) decides the limit. **`SuiteChunks`** is the loop of `_chunks`, a step per name
(`Place`, `YieldAll`, `YieldLast`); its `FewestChunks` also says that each chunk is as long as
`ChunkLen`, which is what entitles `ResultBroker` to cut by it.

**`DriveLetters`** has the slots of a document (`FreeSlots`, `WorkSlot`) and the letters by which its
drives go: `LetterOf` is what the code computes, `GuestLetter` what DOS does, slot after slot.

**`SuiteSession`** composes the two: a suite from its staging to its verdicts, for each kind of
backend. `Stage`, `Reopen` or `Create`, `PlaceSuite`, `Boot` and `Setup` are reliquary's `start_guest`,
one action per step that may raise, with what `stop_guest` then does (`StopGuest`) in the same action;
`StartBatch` is DOSBox-X's, `StartCallable` that of a backend over a function. `RunSome`, `Cut` and
`Return` are `run_some`, between which `SuiteChunks`' own `Next` cuts one more chunk, and `Type`, `Invoke`
and `Call` the exchange of each backend, whose output reads as outcomes of all the names asked for or
not of all of them (`Shown`). `GuestWrites` is what runs in the guest, `CleanSystem` the
CLI's `clean --system`, `NextSession` the tester's next session, which may declare something else over
the same kept machine. On disk are `work` (who staged what into each directory), `bootImg`, `document`
(each drive with the file it is made of and how: a copy of it, a difference to it, or the file itself
used in place, as the `boot_image` of `config()` is), `disk` (what was put on the other drives); `writes`
and `touched` record whose state a write reached or took away; `outfile` is the file DOSBox-X's output
is read from, which nobody removes between two exchanges; `last` is what the last command ran, and `ran`
and `told` what the suite ran and what the caller was told in the latest call of `run_some`.

**`ResultBroker`**: `Ask` is pytest coming to an item, answered from the cache at once if it can be;
`RunAll`, `RunSome` and `RunOne` are the exchanges that follow, `RunSome` one chunk at a time;
`Answer` hands the item its outcome. `present` are the tests the guest really has, `said` the
guest's latest word on each. An output reads as outcomes of the tests it `Shows`: all that ran, or not
all, since a screen may lose lines and still read; `lost` are those of the operation under way that it
left out. The broker's three caches are one function here: for a given
selection the code only ever looks in one of them.

**`OutputTransport`**: tests print what CppUTest's `TestOutput.cpp` has them print, each line with a
layout (in one row, exactly as wide as the console, over two rows, wrapped on a space so that
neither is full). `DeliverScreen` is reliquary's capture, with the head lost or not and rows joined
as `_logical_lines` does; `DeliverFile` is DOSBox-X's redirected file. `Parse` is `parse_run` and
`_failures`, `Refuse` its errors. Text is abstracted to how a line reads.

**`Declarations`** has the declarations and what is computed of them: `Declare` (a run of `config()`
calls, up to the first that raises), `LoadConfig`, `Claimed`, `Select`, `Binds`, `ZeroConfiguration`,
`Resolution`. **`PytestSession`** extends it with the session: `Configure`; `Walk`, which is
`pytest_collect_file`, asked of a file at any time before its turn; then in pytest's order for each file
`PassBy`, `Refuse`, `ListOnHost` or `Enumerate` and `Enumerated`, and for each test module that declares
more `Import`; `claims[f]` are the declarations whose masks matched f when pytest walked past it.
`Collected` chooses a selection; `RunItem` and `Answer` run the items in any order; `AllRun` or
`Interrupt`; `Finish` stops what is in `_live`; `Summarise`; `Unconfigure` runs pytest's cleanups, an
embedded suite's stop among them. A mask is the set of files it matches, and an option's value
either reads or is garbled.

## 3. Runs, and what they show

State counts are of distinct states.

| Run | Instance | States | Shows |
|---|---|---|---|
| `SystemImage` | three builders, symmetric; every fault | 158,643 | `OnlyFinishedSystems`, `NothingIsLeftBehind` (neither homes nor partials), `BuildSweptAtRest`, `PartialIsItsBuilders`: the race for the disk never publishes half of one, nor lets one build undo another |
| `PersistentMachine` | two processes with two sessions each; every fault; one process alone or both | 17,053 | `RegistriesAreTrue` and `NothingStrandsTheMachine` among processes; `GuestServesItsOwnSet` and `ImplementsLease` where a process is alone; `EveryStartEnds` |
| `GuestHomes` | one process, two suites' sessions and a scripted one; every fault, its own `clean`, kills | 16,804 | `ReleasedAtRest`, `HomeWhileSession`, `ExitIsClean`, `HomesAreGivenBack` |
| `SuiteSession` | every list of up to five names of 8, 30 or 120 characters; every kind of machine, location, provider and setup; two sessions in turn over a kept machine, one `clean --system`; two calls of `run_some` in each, outputs whole, partial or unreadable | 222,490 | `EveryNameOnce`, `EveryLineFits`, `FewestChunks` (against every cutting of the list), `RunsWhatItStaged`, `ToldWhatRan`, `ImagesAreOnlyRead`, `KeptDisksKeepTheirState` |
| `ResultBroker` | four tests in two groups, every selection and order, a guest without one of them or with all, an adapter that batches or not, each output unreadable or read in whole or in part | 69,714 | `OnlySelectedRun`, `ToldWhatTheGuestSaid`, `OnlyFailuresRunAgain` (neither tests nor batches), `MissingHasACause`, `EveryItemIsTold` |
| `OutputTransport` | two tests of any fate, at most one odd line or form feed each, screen or file | 129,322 | `VerdictsAreTrue`, `MessagesAreTheirOwn`, `CleanOutputIsRead` |
| `PytestSession` | sixteen projects over four files, a test module and five items, every selection and order, every fault | 255,318 | `EveryGuestHasItsStop`, `BootsAreEarned`, `KeptHomesAreNamed`, `DeclarationDecides`, `SessionEnds` |

Five further runs each show one disagreement (section 6). Every passing run also checks its module's
type invariant (`TypeOK`, `SessionTypeOK`).

Why these instances are enough:

- *Builders*: a build interacts with one that publishes before it and one that publishes after it,
  and with cleaners, which are not builders; a third builder makes "another build" of two kinds at
  once. Theorems cover any number.
- *Processes and sessions of a kept machine*: taking over needs two sessions in a process, racing two
  processes. Each session may be started again and again.
- *Sessions of a run*: a run's teardown stops several sessions, one of which may be half started, while a
  scripted one fails in its own way. To keep the state finite, a session whose home was handed to the
  tester opens no second, and a run whose directory was kept is not opened again. `clean` of *another* process is
  in `GuestHomesCleanedUnder`: it breaks `HomeWhileSession`, so the passing run has the process's own only.
- *Names*: 8, 30 and 120 against 125 and 126 give lines that are short, at the limit with their
  separators, and over it alone; five names make up to three chunks and more.
- *Machines and sessions of a suite*: testaferro's own machine, a boot image's, and declared drives whose
  slots are in order, have a gap, begin late, or are all taken, copied or used in place; no location, one of the work drive, of
  another disk, of a floppy, of no drive, each at the root or in a directory. Two sessions in turn are
  the least in which one finds what another left; the second may declare another machine. Two calls
  of `run_some` make DOSBox-X read an output file of the call before.
- *Tests*: two groups, one of which needs two exchanges; a selection of both, of one, or of a part.
- *Printed lines*: two tests are the least of which one message can run into the next; the odd line
  may be any line of either. A test has at most two failures, since only "more than the last" matters.
  Three tests have states in the millions and no run; the theorems cover any number.
- *Projects*: nothing declared, an environment with masks that overlap or do not, one kept machine
  for two suites, one of another platform or provider, a broken file, settings on the command line
  against a declaration, a twin on the host or none, and a test module whose declarations come after
  some files were claimed or resolved: one more environment, one of a name there is, one that does not
  read. The files are an MZ executable, a headerless one, one that a test module embeds, and the host's own.

Assumptions of the models that are not in the code: a home holds one machine, so that a second
`create_machine` in it raises; reliquary starts only a machine at rest; a stop that raises leaves the
machine `stopping`, or `stuck`; the selection does not change once items run; a killed process is not
seen again; the count CppUTest's summary states is that of the headers printed, since only an intact
summary is read. In `SuiteSession` each drive bears one volume, as the code assumes of any declaration,
and DOS goes over the slots of a bus in order. In `PytestSession` a start or a stop is one step (there is one thread; a signal
between `start_guest` returning and `_live.append` is left out), pytest runs every cleanup though one
raises, and after a usage error in one file's claim the model goes on to files pytest may not come to.
pytest walks past a directory's files before it collects the first of them; the model lets it walk past
a file at any time before its turn, which allows every layout of files in directories. A test module's
`config()` calls are one step.

## 4. Fairness

- `SystemImage`: weak fairness of each builder's own steps. A script has a deadline and a copy
  returns. Nobody is obliged to ask for the disk, and no guest to end. Every property of its run is a
  safety one.
- `PersistentMachine`: weak fairness of a start that is under way, because each exchange with
  reliquary has a timeout of its own. No session has to be started or stopped, and no verb called.
- `GuestHomes`: weak fairness of a start under way and of a `clean` that has decided; strong fairness
  of `Exit`, since a process that is not killed ends, however often it was in the middle of a call
  before. Nothing obliges a tester to stop a session or a run.
- `ResultBroker`, `PytestSession`: weak fairness of `Next`. Both are a single thread, each step of
  which returns or raises; an interrupt may come, but need not.
- `SuiteSession`, `OutputTransport`: none; their properties are safety ones.

## 5. Theorems

All theorems are checked from nothing by `tlapm`, from the constants' named assumptions only
(`SystemImageAssumption`, ...: what the constants are), which TLC evaluates on the runs. Every invariant
and action property that a passing run checks is the statement of one of them, and so is the refinement
of `MachineLease`. Two theorems have an additional hypothesis, which they state.

**`SystemImage_proof`**, for any set of builders and of faults.
`FinishedSystems` (`OnlyFinishedSystems`): alone it is not inductive, for it says nothing of the
partial the next rename publishes; `FinishedInv` adds `PublishesWhole`, that what is about to be
renamed is whole or gone. `SystemImageTypeOK`; `NoLeftovers` (`NothingIsLeftBehind`);
`PartialStaysItsBuilders`, an action property. `BuildsAreSweptAtRest` (`BuildSweptAtRest`): the home of an
install machine that is up stays, with two exceptions that are the code's own: a build that failed to
destroy its machine, and a machine that booted between a cleaner's `_in_use` and its `rmtree`.

**`PersistentMachine_proof`**, for any processes and backends. `RegistryIsTrue` (`RegistriesAreTrue`:
the registered holder has the home, and every machine up is in `_running`) by `RegistryInv`, which adds
`CallsInv`: one call at a time in a process, a holder is of the process that registered it, and what
a call has taken up by each stage. `PersistentTypeOK`: among other things, what a guest is served by is a
machine with a record, or one adrift after a destroy of another process. For a process that has the machine to itself: `OwnSetServed`
(`GuestServesItsOwnSet`), and `AloneIsALease` (`ImplementsLease`): every step is a step of
`MachineLease` or leaves its user alone. `NothingIsStranded` (`NothingStrandsTheMachine`), an action
property among any processes: by `RegistryInv` whoever stops standing for the machine has stopped it; a
machine adrift has no record to be counted by.

**`GuestHomes_proof`**, for any processes and sessions. `BaseInv` is `TypeOK` with `AtWork`, what a
session has at each stage of its start; `UpIsTracked` says that a machine that is up in a living
process is one its failsafe knows. `OrderlyExitIsClean` (`ExitIsClean`) follows whoever cleans
meanwhile. `GuestHomesTypeOK`. `HomesOutlastSessions` (`HomeWhileSession`) and `MachinesAreReleasedAtRest`
(`ReleasedAtRest`) assume `OnlyItselfCleans`: if `clean` is called at all, there is one process, for
`clean` from another breaks both, by section 6. `DoomedIsIdle` is what the hypothesis buys: a home that
`clean` has judged stale belongs to no session under way, and none begins before it is removed.

**`SuiteChunks_proof`**, for any names, budget and list. `NoNameIsLost` (`EveryNameOnce`).
`NoLineIsTooLong` (`EveryLineFits`), by `ChunksFit`: the chunk being filled fits as well, or is one
name. `NoFewerExchanges` (`FewestChunks`): the greedy cut is the best there is. `ChunksAreFull` adds that
the name after a closed chunk did not fit; then a cutting that begins no part between a chunk's second
name and the next chunk's first has a part that holds more than that chunk could (`NextStart`), so
there is a part for every chunk (`NoCuttingIsShorter`). Both rest on what an argv costs. The cost is a fold
over its tokens, which the library defines by recursion on sets of indices: `FoldSums` unfolds it
into partial sums, `SpentOnPart` gives the cost of a part of a list as the difference of two prefixes'
weights, and a part of what fits, fits (`FitsShrinks`).

**`SuiteSession_proof`**, for any drives, plans, lists and number of calls. `LettersAreTheGuests`: the count
of drives in lower slots and the walk over the slots give the same letter. (The walk is a recursive
function over the four slots of one bus, which is unfolded.) `LettersAreDistinct`: hence an address
names one drive at most. The module lifts `SuiteChunks_proof` to the composition, where a call may be given
up at any chunk (`SuitesLoseNoName`, `SuitesFitTheLine`, `SuitesAskSeldom`), and adds, each for the
property that needs it: `FlowInv`, what is settled by each stage; `HomesInv`, the drives a
home's document may have, of which one is the work drive; `PlacedInv`, that from placement on the
address finds this session's set, which rests on `LettersAreTheGuests` and gives `SuitesRunWhatTheyStaged`
(`RunsWhatItStaged`); `ReadInv`, that every name a call has read is one the suite printed in that call or one
of its first chunk, unless the call is bound to be refused (chunks share no name, so a file another chunk
left shows none that is asked for), which gives `VerdictsAreOfRuns` (`ToldWhatRan`); `MediaInv`, that a drive used in place is one
a declaration made so, the copy of a boot image, or the work directory, and that a kept machine has none
over the shared system, which gives `OthersImagesAreRead` (`ImagesAreOnlyRead`) and `KeptStateIsKept`
(`KeptDisksKeepTheirState`). `SessionsAreTyped` (`SessionTypeOK`).

**`ResultBroker_proof`**, for any suite, selection and guest. `NothingElseRuns` (`OnlySelectedRun`)
and `ReportsAreTheGuests` (`ToldWhatTheGuestSaid`). `BrokerInv` adds `Operations` (which exchange is
under way, and for whom), `Answers` (a cached verdict is the guest's last) and `Batches`: the
batches kept are all or nothing. Without it a second exchange of a batch could rerun a test already
reported. `MissingIsCaused` (`MissingHasACause`) adds that a name `run_some` has neither read nor still
to ask for is one the guest lacks or the output lost. `FailuresAloneRunAgain` (`OnlyFailuresRunAgain`)
counts: an operation that fails leaves its batch without answers and tells one item so, one that succeeds
answers the batch for good, which is `Batches` again; so a batch is called for at most once more than items
of it were told of a failure.
`BrokerTypes` (`TypeOK`).

**`OutputTransport_proof`**, for any number of tests. The inductive invariant `IInv` (`AlwaysIInv`) says of
what is printed that tests follow one another, that each begins with its own line, that a header is of
a test that fails and is followed by a message, and that a summary comes once all have come to an
end (`PrintedInv`); and of what was delivered that it is the file or the rows of some screen (`LinesInv`).
All else is about one capture: where each piece of a line the host reads was printed, that
rows keep the order of the lines and a joined line takes in rows that follow one another.
`VerdictsAreTheTests` (`VerdictsAreTrue`): since the count in the summary is that of the headers printed and each
header read comes from a different one printed, a readable text has them all. `MessagesAreOfTheirTests`
(`MessagesAreTheirOwn`): between a header and the line of a later test that can be read, something ends
the message. `CleanIsAlwaysRead` (`CleanOutputIsRead`): of clean output each line is read as it was
printed. `Types` (`TypeOK`).

**`PytestSession_proof`**, for any suites, projects, selections, orders and faults.
`NoGuestIsStranded` (`EveryGuestHasItsStop`), by `Inv`, which adds what the lists hold and that nothing
is being listed once collection is over. `NoBootIsWasted` (`BootsAreEarned`): `BootInv` charges each boot
to the file's turn in collection, which comes once, or to its place in `_started`.
`SummaryNamesTheHomes` (`KeptHomesAreNamed`): what is stopped after the summary are embedded suites' guests.
`DeclarationsDecide` (`DeclarationDecides`), by `DeclaredInv`: declarations are finite in number and have
distinct names, so that of those one file is claimed by or binds there is one to speak of; they are
only ever added to, by `load_config` and by test modules, so whatever claimed a file when pytest walked past
it claims it still when it is resolved, and a second claim makes the choice ambiguous and the file refused. `SessionTypes` (`TypeOK`).

Model-checked only: the liveness properties (`EveryStartEnds`, `HomesAreGivenBack`, `EveryItemIsTold`,
`SessionEnds`), which are out of this prover's reach, as is anything about `ENABLED`. The library's
theorems of induction take an operator as a parameter, which the installed provers cannot instantiate. Where a
proof needs induction over numbers it is had from a theorem about sets: sets of numbers are ordered by
inclusion, a least of them exists (`Least`), so a set with 0 and every successor holds all numbers
(`NatSetInduction`).

## 6. Where code and documents disagree

Each has a run that shows it and an entry under `findings` in `PROJECT.json`.

- `SystemImageReplaced`. Two builds both find the destination free (reliquary.py:599); the one that
  renames second (602) replaces the disk the first one's guest is open on, which line 568 rules out.
- `PersistentStoppedFromUnder`. Two processes both find the machine at rest (913). The second one's
  `start_machine` (886) fails and its `except` (889) stops the machine the first is using; line 900
  promises a refusal "rather than stopped from under whoever has it".
- `GuestHomesCleanedUnder`. `_in_use` (511) knows its own process's sessions and machines recorded
  running. `clean` from another process sweeps the home of a session that has not booted yet, against
  tests/test_reliquary.py:1567, "nothing a live one is using".
- `DeclaredDirectory`. `_place` skips the write when the location is on testaferro's own work drive
  (reliquary.py:977), whatever directory it names there, and the set was gathered at that drive's root.
  A declaration such as README.md:160's `D:\TESTDIR`, where D: is that drive, boots a guest in which every command
  names a program that is missing; README.md:166 says a wrong one "fails **before the guest boots**". DOSBox-X gathers
  into the directory, and there it works.
- `PytestTakeTurns`. `_started` (plugin.py:300) is never reset. Two suites that name one machine "take
  turns" (README.md:419) once each; when the first one's next item comes, its session is over
  and the item fails with "no guest session". It needs items that alternate, as `--ff` or node
  ids on the command line have them.

Met while reading, and without a run of their own:

- An embedded suite's guest is stopped by the config's cleanup, after the terminal summary, so a
  home it kept is not listed there (facade.py:203).
- `guest_suite` promises to look for `testaferro.ini` upward from its call site (facade.py:107); the
  plugin's own fruitless search from the rootdir is remembered (environments.py:556) and no
  other is made.
- A `testaferro.ini` of which a later section raises leaves the earlier ones configured and the file
  not loaded, so that a second load is refused as "already configured" (environments.py:584).
- README.md:110 has command line settings "win over a declaration"; `--testaferro-provider` or
  `--testaferro-boot-image` with a declared environment is refused with a `TypeError`
  (resolution.py:136, reliquary.py:224).
- A build whose machine cannot be created leaves an empty partial (reliquary.py:579): `NothingIsLeftBehind`
  excepts the stage `uncreated`, as `BuildSweptAtRest` does an install machine whose destruction failed (593).
- A stop that raises gives the home back all the same, over a machine that may be up (reliquary.py:988);
  `ReleasedAtRest` and `ExitIsClean` except it, since the code means to give the home back.
- A `with` block whose start fails never reaches its exit; its home stays until the process ends
  (reliquary.py:1338).
- An output that does not read is not cached, so each item of its batch asks again (facade.py:64).
- DOSBox-X's exchanges share one output file (dosbox_x.py:522). An exchange whose command never came to
  run, and whose invocation ends with status 0, reads the file of the one before, though a comment calls the
  directory "rebuilt per invocation" (dosbox_x.py:395) and README.md:448 "rebuilt every time": that is the second
  disjunct of `Invoke`. Within a call of `run_some` the file names other tests and the call is refused. The first
  exchange of a later call for the same names is answered by the earlier call's file; `ToldWhatRan` excepts it.
- README.md:167 has "Nothing is ever written into your own boot image — what boots is Testaferro's copy". That
  is so of the image of a `guest_suite()` call. The `boot_image` of `config()` or `testaferro.ini` becomes a drive
  with `materialize: use` (environments.py:263, 445), which is passed on as it is (reliquary.py:1130): the guest boots
  the tester's file and may write to it. `ImagesAreOnlyRead` allows that file and no other.
- `clean` asks whether a build home is in use (reliquary.py:479) and removes it in the next call (480): an
  install that boots in between loses its home. `BuildSweptAtRest` excepts a sweep that was `late`.
- `destroy` lets reliquary dispose of the machine (reliquary.py:454) and then removes the home (455): a machine
  another process creates or boots in between loses its home under it, and no verb finds it again.
- A capture that lost a line and still reads (reliquary.py:1299) lacks a test that ran: `run_some` refuses
  the whole batch for it (suite.py:93), after every exchange was made, and `run_test` reports that the test did
  not run. README.md:346 warns of the short capture. `MissingHasACause` and `OnlyFailuresRunAgain` count it.
- A declaration a test module makes (README.md:201) comes too late for a file that was resolved before,
  though its mask claims it; and one that claims a file pytest has walked past but not resolved makes
  that file's environment ambiguous or decides it. `DeclarationDecides` speaks of what claimed the file when
  pytest walked past it.
- `_failures` (cpputest.py:169) counts line feeds and then indexes `splitlines()`, which breaks at form feeds too:
  a test that prints one costs later failures their messages, and after enough of them a failure is reported
  with another test's lines for its message; verdicts stay true. `MessagesAreTheirOwn` and
  `CleanOutputIsRead` therefore speak of a text without form feeds where it is the program's own bytes.
- `_in_use` (reliquary.py:509) does not know DOSBox-X's sessions: `clean` from the process that holds
  one takes its home.
- A kept machine's boot image is copied once (reliquary.py:1205): a copy cut short, or an image the tester
  has since replaced, is used as it is.
- README.md:154 has the default location `C:\TESTS`; in the code it is the root of the work drive.
- A location on a floppy is refused, because the volume is looked for behind an MBR (at_rest.py).
- `split_address` reads `/` as `\` (at_rest.py:76); DOSBox-X's own `_split_address` does not (dosbox_x.py:329).
- A `files=` entry called as the executable is overwrites it in the set (placement.py:71).

## 7. What is left out

- **The test list's grammar** (`parse_list`) and code pages; how a failure is worded and located.
- **Of DOSBox-X**: finding its executable, the sections of its conf, its failsafe. **Of placement**: what
  `files=` puts beside the executable, and a `program=` of the tester's own.
- **Disk images at rest** (at_rest.py): how remanence reads and writes FAT, and `get_tree`, which an inspected
  home is read with. `PutTree` is its write as `_place` uses it.
- **Parsing of option values** (environments.py): abstracted to whether a value reads. The fields
  of a machine (memory, processor) are passed on to the provider.
- **`resolve_guest_session`**, which is `resolve_backend` without a format, and `discover_backends`.
- **xdist**: each worker lists and runs suites of its own; workers share no state but the cache and a
  kept machine, which `SystemImage` and `PersistentMachine` have from the side of any process.
- **The CLI's printing**, the package's re-exports, and the script `freedos-ready.rlqs`.

## 8. Plan

Done, in this order: `SystemImage`, `PersistentMachine` over `MachineLease`, `GuestHomes`, `SuiteArgv`
with `SuiteChunks`, `ResultBroker`, `OutputTransport`, `Declarations` with `PytestSession`,
`DriveLetters`, and `SuiteSession` over `SuiteChunks` and `DriveLetters`.

1. **The search for `testaferro.ini`**: call sites as a second caller of `LoadConfig` in `Declarations`,
   a retry after a partial load, and the run that shows the sticky search.
2. **DOSBox-X's homes** in `GuestHomes`, and what `clean` makes of them.
3. **Workers**: `PytestSession` for several workers over one kept machine.
4. **Proofs**: what a kept machine's processes may rely on when they are not alone, once there is a
   lock or a refusal to speak of; the safety properties of what 1 to 3 add.

## 9. Running it

    tlc -workers 2 -config SystemImage.cfg MCSystemImage.tla
    tlapm SystemImage_proof.tla

The longest run, `SuiteSession`, takes about a minute and a half; each configuration says at its head which
part of the state it opens up, and why a deadlock is an end where it turns deadlock checking off.
