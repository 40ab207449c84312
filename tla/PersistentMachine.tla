------------------------- MODULE PersistentMachine -------------------------
(***************************************************************************)
(* One named machine kept between runs (persist=, reliquary.py): the home  *)
(* machines/<name>, the backends of each process that boot it in turn, the *)
(* registries _holders and _running each process keeps in memory, and the  *)
(* verbs shutdown and destroy.  Processes share the home and what          *)
(* reliquary records in it, and no lock.                                   *)
(*                                                                         *)
(* A process is single threaded: one call is under way in it at a time.  A *)
(* step is what a call does between two effects other processes can see.   *)
(* A stop that raises leaves the machine recorded "stopping".  sole, when  *)
(* it is a process, keeps every other from touching the machine, so that   *)
(* what holds without a second process can be stated beside what always    *)
(* holds.                                                                  *)
(***************************************************************************)
EXTENDS Naturals, FiniteSets

CONSTANTS
    Procs,     \* the processes: pytest runs, embedders, the CLI
    Backends,  \* the guest sessions naming this machine, of all processes
    ProcOf,    \* the process each backend lives in
    NoOne,     \* no backend, no process
    Faults     \* what may go wrong or interfere, a subset of AllFaults

AllFaults == {"gatherFails", "bootFails", "setupFails", "stopFails", "killed",
              "shutdown", "destroy"}

ASSUME PersistentMachineAssumption ==
    /\ ProcOf \in [Backends -> Procs]
    /\ NoOne \notin Backends \cup Procs
    /\ Faults \subseteq AllFaults

VARIABLES
    phase,       \* what reliquary records for the machine; "absent" if none
    home,        \* machines/<name> is a directory
    work,        \* whose staged set home/work holds, NoOne when absent
    served,      \* whose staged set the running machine read at boot
    adrift,      \* a home was removed, its records with it, and its machine up
    holder,      \* holder[q]: q's _holders entry for the name
    running,     \* the backends in the _running set of their process
    hasHome,     \* backends with _home set
    hasMachine,  \* backends with _machine set
    pc,          \* pc[b]: where the start_guest call of b is
    verb,        \* verb[q]: the step of destroy that q has behind it
    sole         \* the one process that touches the machine, or NoOne

disk == <<phase, home, work, served, adrift>>
registry == <<holder, running, hasHome, hasMachine>>
vars == <<disk, registry, pc, verb, sole>>

Phases == {"absent", "ready", "running", "stopping"}
Up == phase \in {"running", "stopping"}
\* Between calls a backend is "idle" or its guest "ready".
InCall == {"taking", "claimed", "staged", "creating", "opened", "booting"}
Stages == InCall \cup {"idle", "ready", "killed"}

SomeOne == Backends \cup {NoOne}

Init ==
    /\ phase \in Phases       \* not at rest: left so by a run that died
    /\ home = (phase # "absent")
    /\ work = NoOne /\ served = NoOne /\ adrift = FALSE
    /\ holder = [q \in Procs |-> NoOne]
    /\ running = {} /\ hasHome = {} /\ hasMachine = {}
    /\ pc = [b \in Backends |-> "idle"]
    /\ verb = [q \in Procs |-> "none"]
    /\ sole \in Procs \cup {NoOne}

\* q is alive and no call is under way in it.
Free(q) ==
    verb[q] = "none" /\ \A b \in Backends : ProcOf[b] = q => pc[b] \in {"idle", "ready"}

Goto(b, stage) == pc' = [pc EXCEPT ![b] = stage]

-----------------------------------------------------------------------------
(* stop_machine: a machine at rest stays so; when it raises (not ok), what *)
(* is up stays up.  It may raise of a machine that is no longer recorded.  *)
StopMachine(ok) ==
    IF ok THEN phase' = (IF Up THEN "ready" ELSE phase) /\ served' = NoOne
          ELSE /\ "stopFails" \in Faults \/ phase = "absent"
               /\ phase' = (IF Up THEN "stopping" ELSE phase) /\ UNCHANGED served

(* Mistaken variant of the action below: the registry entry forgotten.     *)
GiveUpUnregistered(b) ==
    /\ running' = running \ {b}
    /\ hasHome' = hasHome \ {b}
    /\ hasMachine' = hasMachine \ {b}
    /\ UNCHANGED holder

(* The finally clause of stop_guest: only the hold on the home is given up *)
(* and never the home.                                                     *)
GiveUp(b) ==
    /\ running' = running \ {b}
    /\ hasHome' = hasHome \ {b}
    /\ hasMachine' = hasMachine \ {b}
    /\ holder' = IF holder[ProcOf[b]] = b
                   THEN [holder EXCEPT ![ProcOf[b]] = NoOne] ELSE holder

(* stop_guest: the machine first, when this backend took one up.           *)
StopGuest(b, ok) ==
    /\ IF b \in hasMachine THEN StopMachine(ok)
                           ELSE ok /\ UNCHANGED <<phase, served>>
    /\ GiveUp(b)
    /\ UNCHANGED <<home, work, adrift>>

\* A start that raises inside start_guest's try: the session is ended.
Fail(b) == /\ \E ok \in BOOLEAN : StopGuest(b, ok)
           /\ Goto(b, "idle")

-----------------------------------------------------------------------------
(* Mistaken variants of the action below: the holder left open, and its    *)
(* running machine handed over as it is.                                   *)
CloseHolderForgotten(b) ==
    /\ pc[b] = "idle" /\ Free(ProcOf[b])
    /\ holder[ProcOf[b]] \notin {NoOne, b}
    /\ Goto(b, "taking")
    /\ UNCHANGED <<disk, registry, verb>>
CloseHolderHandingOver(b) ==
    LET h == holder[ProcOf[b]] IN
    /\ pc[b] = "idle" /\ Free(ProcOf[b])
    /\ h \notin {NoOne, b} /\ pc[h] = "ready"
    /\ running' = (running \ {h}) \cup {b}
    /\ hasHome' = (hasHome \ {h}) \cup {b}
    /\ hasMachine' = (hasMachine \ {h}) \cup {b}
    /\ holder' = [holder EXCEPT ![ProcOf[b]] = b]
    /\ pc' = [pc EXCEPT ![h] = "idle", ![b] = "ready"]
    /\ UNCHANGED <<disk, verb>>

(* start_guest: an earlier holder in this process is closed first; when    *)
(* its stop raises, so does this call, with nothing claimed.               *)
CloseHolder(b) ==
    LET h == holder[ProcOf[b]] IN
    /\ pc[b] = "idle" /\ Free(ProcOf[b])
    /\ h \notin {NoOne, b}
    /\ \E ok \in BOOLEAN :
          /\ StopGuest(h, ok)
          /\ pc' = [pc EXCEPT ![h] = "idle", ![b] = IF ok THEN "taking" ELSE "idle"]
    /\ UNCHANGED verb

(* The claim, and the work drive's directory wiped.                        *)
Claim(b) ==
    /\ \/ pc[b] = "idle" /\ Free(ProcOf[b]) /\ holder[ProcOf[b]] \in {NoOne, b}
       \/ pc[b] = "taking"
    /\ hasHome' = hasHome \cup {b}
    /\ holder' = [holder EXCEPT ![ProcOf[b]] = b]
    /\ work' = NoOne
    /\ Goto(b, "claimed")
    /\ UNCHANGED <<phase, home, served, adrift, running, hasMachine, verb>>

(* makedirs(work), which refuses a directory that is there, and the staged *)
(* set and boot image gathered.  A failure here is before the try: the     *)
(* claim stays until somebody stops the guest.                             *)
StageFiles(b) ==
    /\ pc[b] = "claimed"
    /\ home' = TRUE
    /\ \/ work = NoOne /\ work' = b /\ Goto(b, "staged")
       \/ work = NoOne /\ "gatherFails" \in Faults /\ work' = b /\ Goto(b, "idle")
       \/ work # NoOne /\ UNCHANGED work /\ Goto(b, "idle")
    /\ UNCHANGED <<phase, served, adrift, registry, verb>>

(* Mistaken variant of the action below: the machine not recorded.         *)
TakeUpUntracked(b) ==
    /\ hasMachine' = hasMachine \cup {b}
    /\ Goto(b, "opened")
    /\ UNCHANGED <<holder, running, hasHome>>

(* _machine_started: the machine is recorded before it boots.              *)
TakeUp(b) ==
    /\ hasMachine' = hasMachine \cup {b}
    /\ running' = running \cup {b}
    /\ Goto(b, "opened")
    /\ UNCHANGED <<holder, hasHome>>

(* Mistaken variant of the action below: wait for the machine to be free.  *)
ReopenWaiting(b) ==
    /\ pc[b] = "staged"
    /\ \/ phase = "ready" /\ TakeUp(b) /\ UNCHANGED disk
       \/ phase = "absent" /\ Goto(b, "creating") /\ UNCHANGED <<disk, registry>>
    /\ UNCHANGED verb

(* _reopen: the machine is taken up when it is at rest, refused when it is *)
(* recorded running or stopping, and still to be created when there is     *)
(* none.                                                                   *)
Reopen(b) ==
    /\ pc[b] = "staged"
    /\ \/ phase = "ready" /\ TakeUp(b) /\ UNCHANGED disk
       \/ Up /\ Fail(b)
       \/ phase = "absent" /\ Goto(b, "creating") /\ UNCHANGED <<disk, registry>>
    /\ UNCHANGED verb

(* _create: a home holds one machine, so a second create_machine raises.   *)
Create(b) ==
    /\ pc[b] = "creating"
    /\ \/ /\ phase = "absent" /\ home
          /\ phase' = "ready"
          /\ TakeUp(b)
          /\ UNCHANGED <<home, work, served, adrift>>
       \/ ~(phase = "absent" /\ home) /\ Fail(b)
    /\ UNCHANGED verb

(* _place and start_machine.  Reliquary starts only a machine at rest; a   *)
(* failure ends the session, the stop of the machine included.             *)
Boot(b) ==
    /\ pc[b] = "opened"
    /\ \/ /\ phase = "ready"
          /\ phase' = "running" /\ served' = work
          /\ Goto(b, "booting")
          /\ UNCHANGED <<home, work, adrift, registry>>
       \/ phase # "ready" /\ Fail(b)
       \/ "bootFails" \in Faults /\ Fail(b)
    /\ UNCHANGED verb

(* Mistaken variant of the action below: a failed setup stops no machine.  *)
SettleLeavingMachine(b) ==
    /\ pc[b] = "booting"
    /\ \/ phase = "running" /\ Goto(b, "ready") /\ UNCHANGED <<disk, registry>>
       \/ "setupFails" \in Faults /\ GiveUp(b) /\ Goto(b, "idle") /\ UNCHANGED disk
    /\ UNCHANGED verb

(* _wait_ready and _run_setup.                                             *)
Settle(b) ==
    /\ pc[b] = "booting"
    /\ \/ phase = "running" /\ Goto(b, "ready") /\ UNCHANGED <<disk, registry>>
       \/ phase # "running" /\ Fail(b)
       \/ "setupFails" \in Faults /\ Fail(b)
    /\ UNCHANGED verb

(* stop_guest called between two calls: a session's end, the cleanup after *)
(* a partial start, or _stop_running_machines on the way out.              *)
Stop(b) ==
    /\ pc[b] \in {"idle", "ready"} /\ b \in hasHome /\ Free(ProcOf[b])
    /\ Fail(b)
    /\ UNCHANGED verb

-----------------------------------------------------------------------------
(* shutdown(name) in process q: through the holder when q has one, else by *)
(* what reliquary records.  It is the first half of destroy, too, which    *)
(* goes no further when the stop raises.                                   *)
ShutdownStop(q, ok) ==
    \/ /\ holder[q] # NoOne
       /\ StopGuest(holder[q], ok)
       /\ Goto(holder[q], "idle")
    \/ /\ holder[q] = NoOne
       /\ IF Up THEN StopMachine(ok)
                ELSE ok /\ UNCHANGED <<phase, served>>
       /\ UNCHANGED <<home, work, adrift, registry, pc>>

Shutdown(q) ==
    /\ "shutdown" \in Faults /\ Free(q) /\ home
    /\ \E ok \in BOOLEAN : ShutdownStop(q, ok)
    /\ UNCHANGED verb

DestroyBegins(q) ==
    /\ "destroy" \in Faults /\ Free(q) /\ home
    /\ ShutdownStop(q, TRUE)
    /\ verb' = [verb EXCEPT ![q] = "stopped"]

(* Mistaken variant of the action below: whatever machine is there goes.   *)
DestroyMachineUp(q) ==
    /\ verb[q] = "stopped"
    /\ phase' = "absent" /\ verb' = [verb EXCEPT ![q] = "removing"]
    /\ UNCHANGED <<home, work, served, adrift, registry, pc>>

(* destroy_machine, which a machine that is up refuses: another process    *)
(* may have started it since it was stopped.                               *)
DestroyMachine(q) ==
    /\ verb[q] = "stopped"
    /\ \/ ~Up /\ phase' = "absent" /\ verb' = [verb EXCEPT ![q] = "removing"]
       \/ Up /\ UNCHANGED phase /\ verb' = [verb EXCEPT ![q] = "none"]
    /\ UNCHANGED <<home, work, served, adrift, registry, pc>>

(* shutil.rmtree(home): all that is there by now, a machine that another   *)
(* process created or booted in between included.                          *)
RemoveHome(q) ==
    /\ verb[q] = "removing"
    /\ home' = FALSE /\ work' = NoOne /\ phase' = "absent"
    /\ adrift' = (adrift \/ Up)
    /\ verb' = [verb EXCEPT ![q] = "none"]
    /\ UNCHANGED <<served, registry, pc>>

(* The process dies.  Its memory is gone; the machine stays as it was.     *)
Kill(q) ==
    LET mine == {b \in Backends : ProcOf[b] = q} IN
    /\ "killed" \in Faults
    /\ \E b \in mine : pc[b] # "killed"
    /\ holder' = [holder EXCEPT ![q] = NoOne]
    /\ running' = running \ mine
    /\ hasHome' = hasHome \ mine
    /\ hasMachine' = hasMachine \ mine
    /\ pc' = [b \in Backends |-> IF b \in mine THEN "killed" ELSE pc[b]]
    /\ verb' = [verb EXCEPT ![q] = "none"]
    /\ UNCHANGED disk

StartStep(b) ==
    \/ CloseHolder(b) \/ Claim(b) \/ StageFiles(b) \/ Reopen(b) \/ Create(b)
    \/ Boot(b) \/ Settle(b)

BackendStep(b) == (StartStep(b) \/ Stop(b)) /\ UNCHANGED sole
VerbStep(q) ==
    /\ \/ Shutdown(q) \/ DestroyBegins(q) \/ DestroyMachine(q) \/ RemoveHome(q)
       \/ Kill(q)
    /\ UNCHANGED sole

May(q) == sole \in {q, NoOne}
Next ==
    \/ \E b \in Backends : May(ProcOf[b]) /\ BackendStep(b)
    \/ \E q \in Procs : May(q) /\ VerbStep(q)

(* A call under way goes on: every exchange with reliquary has a timeout   *)
(* of its own.  No call has to be made.                                    *)
Spec == Init /\ [][Next]_vars
        /\ \A b \in Backends :
              WF_vars(pc[b] \in InCall /\ StartStep(b) /\ UNCHANGED sole)

-----------------------------------------------------------------------------
(* The shape of the state; and a set some session's machine booted with is *)
(* served by a machine that is recorded up, where the verbs find it, but   *)
(* for one adrift: booted between destroy's last two steps.                *)
TypeOK ==
    /\ phase \in Phases
    /\ home \in BOOLEAN
    /\ adrift \in BOOLEAN
    /\ served # NoOne => Up \/ adrift
    /\ work \in SomeOne /\ served \in SomeOne
    /\ holder \in [Procs -> SomeOne]
    /\ running \subseteq Backends
    /\ hasHome \subseteq Backends
    /\ hasMachine \subseteq Backends
    /\ pc \in [Backends -> Stages]
    /\ verb \in [Procs -> {"none", "stopped", "removing"}]
    /\ sole \in Procs \cup {NoOne}

(* "this is how the later holder finds the earlier one to close its        *)
(* session cleanly first" (_holders): in every process, whatever raced or  *)
(* failed, the backend that thinks it has the home is the one registered.  *)
HolderHasTheHome ==
    \A b \in Backends : b \in hasHome <=> holder[ProcOf[b]] = b

(* "every backend holding a live guest is tracked" (P6): a machine this    *)
(* process took up is in _running, so the atexit failsafe will stop it,    *)
(* and only a backend with a home to stop is there.                        *)
BootedIsTracked ==
    /\ running = hasMachine
    /\ \A b \in Backends :
          pc[b] \in {"opened", "booting", "ready"} => b \in running \cap hasHome

(* Both registries of every process say what its sessions have.            *)
RegistriesAreTrue == HolderHasTheHome /\ BootedIsTracked

(* In a process that has the machine to itself, a session that is open has *)
(* its machine up, booted with the set this very session staged, and that  *)
(* set is still what the work directory holds: no takeover, failed start   *)
(* or verb changed it under the session.                                   *)
GuestServesItsOwnSet ==
    sole # NoOne =>
        \A b \in Backends : pc[b] = "ready" => phase = "running" /\ served = b /\ work = b

(* Every way a start can fail, every takeover and every verb stops what it *)
(* leaves, or is told that the stop failed: no step but the killing of a   *)
(* process makes the machine one that is recorded up with no session       *)
(* standing for it.  (A machine adrift has no record.)                     *)
Stray == phase = "running" /\ \A b \in Backends : pc[b] \notin {"booting", "ready"}
NothingStrandsTheMachine ==
    [][Stray' /\ ~Stray => \E b \in Backends : pc[b] # "killed" /\ pc'[b] = "killed"]_vars

(* A start never waits for the machine: it takes it, or is refused.        *)
EveryStartEnds ==
    \A b \in Backends : pc[b] \in InCall ~> pc[b] \notin InCall

(* "A machine recorded running belongs to another process ...; either way  *)
(* it is refused by name rather than stopped from under whoever has it"    *)
(* (_reopen): with nobody asking for a shutdown, an open session's machine *)
(* stays up.                                                               *)
NeverStoppedFromUnder ==
    \A b \in Backends : pc[b] = "ready" => phase = "running"

-----------------------------------------------------------------------------
(* The lease this implements where one process has the machine to itself:  *)
(* the backend whose guest is up.                                          *)
User == IF sole # NoOne /\ \E b \in Backends : pc[b] \in {"booting", "ready"}
          THEN CHOOSE b \in Backends : pc[b] \in {"booting", "ready"}
          ELSE NoOne

Lease == INSTANCE MachineLease WITH user <- User
ImplementsLease == Lease!Spec
=============================================================================
