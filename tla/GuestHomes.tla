----------------------------- MODULE GuestHomes -----------------------------
(***************************************************************************)
(* Disposable guest sessions and the run they may belong to (reliquary.py, *)
(* cache.py): each session makes a home, a machine in it, boots it, and on *)
(* every way out stops the machine and hands the home back to be swept or  *)
(* kept; start() and stop() bracket a run whose area holds many homes; the *)
(* interpreter's exit is the failsafe; and testaferro clean sweeps from    *)
(* any process, at any moment, what it takes for stale.                    *)
(*                                                                         *)
(* A process is single threaded: one call is under way in it at a time.    *)
(* Bounds: a session whose home was kept opens no second one, and neither  *)
(* does a run whose area was kept.                                         *)
(***************************************************************************)
EXTENDS Naturals, FiniteSets

CONSTANTS
    Procs,     \* the processes
    Sessions,  \* the disposable guest sessions of all of them
    ProcOf,    \* the process each lives in
    Scripted,  \* the sessions opened by a with block and not by a suite
    Faults     \* what may go wrong or interfere, a subset of AllFaults

AllFaults == {"gatherFails", "createFails", "bootFails", "setupFails", "stopFails",
              "killed", "clean"}

ASSUME GuestHomesAssumption ==
    /\ ProcOf \in [Sessions -> Procs]
    /\ Scripted \subseteq Sessions
    /\ Procs \cap Sessions = {}
    /\ Faults \subseteq AllFaults

VARIABLES
    keep,      \* keep_guest_homes(), set before any guest starts
    area,      \* processes with a run open (_run_area)
    runDir,    \* processes whose run directory is on disk
    disk,      \* disk[s]: where s's home is on disk: "none", "run" or "lone"
    machine,   \* machine[s]: "none", "rest", "up", or "stuck": its stop raised
    hasHome,   \* sessions with _home set
    running,   \* sessions in the _running set of their process
    kept,      \* what release_guest_home kept: sessions and processes
    pc,        \* pc[s]: where the start_guest call of s is
    status,    \* status[q]: "alive", "exited" or "killed"
    doomed     \* doomed[q]: what q's clean judged stale and has yet to remove

onDisk == <<runDir, disk, machine>>
memory == <<area, hasHome, running, pc>>
vars == <<keep, onDisk, memory, kept, status, doomed>>

InCall == {"homed", "staged", "created", "booting"}
Mine(q) == {s \in Sessions : ProcOf[s] = q}
InRun(q) == {s \in Mine(q) : disk[s] = "run"}

Init ==
    /\ keep \in BOOLEAN
    /\ area = {} /\ runDir = {}
    /\ disk = [s \in Sessions |-> "none"]
    /\ machine = [s \in Sessions |-> "none"]
    /\ hasHome = {} /\ running = {} /\ kept = {}
    /\ pc = [s \in Sessions |-> "idle"]
    /\ status = [q \in Procs |-> "alive"]
    /\ doomed = [q \in Procs |-> {}]

\* q is alive with no call under way in it.
Free(q) ==
    /\ status[q] = "alive" /\ doomed[q] = {}
    /\ \A s \in Mine(q) : pc[s] \notin InCall

Goto(s, stage) == pc' = [pc EXCEPT ![s] = stage]

-----------------------------------------------------------------------------
(* release_guest_home, for the homes in S: kept, or removed from the disk. *)
(* A machine at rest is gone with its home.                                *)
Release(S) ==
    IF keep THEN kept' = kept \cup S /\ UNCHANGED disk
            ELSE /\ disk' = [s \in Sessions |-> IF s \in S THEN "none" ELSE disk[s]]
                 /\ UNCHANGED kept

(* The machines of S after stop_machine, F being those whose stop raised.  *)
Stopped(S, F) ==
    [s \in Sessions |->
        IF s \notin S THEN machine[s]
        ELSE IF s \in F THEN "stuck"
        ELSE IF keep /\ machine[s] # "none" THEN "rest" ELSE "none"]

(* Mistaken variants of the operator below: the home remembered, and the   *)
(* backend not taken off the tracked ones.                                 *)
StopGuestsRemembering(S, F) ==
    /\ F \subseteq {s \in S : machine[s] = "up"}
    /\ F # {} => "stopFails" \in Faults
    /\ machine' = Stopped(S, F)
    /\ running' = running \ S
    /\ pc' = [s \in Sessions |-> IF s \in S THEN "idle" ELSE pc[s]]
    /\ UNCHANGED hasHome

StopGuestsUntracked(S, F) ==
    /\ F \subseteq {s \in S : machine[s] = "up"}
    /\ F # {} => "stopFails" \in Faults
    /\ machine' = Stopped(S, F)
    /\ hasHome' = hasHome \ S
    /\ pc' = [s \in Sessions |-> IF s \in S THEN "idle" ELSE pc[s]]
    /\ UNCHANGED running

(* stop_guest for the sessions in S: the machine, then, whether or not its *)
(* stop raised, the home; and nothing of it is remembered.                 *)
StopGuests(S, F) ==
    /\ F \subseteq {s \in S : machine[s] = "up"}
    /\ F # {} => "stopFails" \in Faults
    /\ machine' = Stopped(S, F)
    /\ hasHome' = hasHome \ S
    /\ running' = running \ S
    /\ pc' = [s \in Sessions |-> IF s \in S THEN "idle" ELSE pc[s]]

(* Mistaken variant of the action below: the home not handed back.         *)
FailUnreleased(s) ==
    /\ StopGuests({s}, {})
    /\ UNCHANGED <<keep, area, runDir, disk, kept, status, doomed>>

(* A session that ends, in order or because its start failed.              *)
Fail(s) ==
    /\ \E F \in SUBSET {s} : StopGuests({s}, F)
    /\ Release({s})
    /\ UNCHANGED <<keep, area, runDir, status, doomed>>

-----------------------------------------------------------------------------
(* start(): a run of this process, refused while one is open.              *)
StartRun(q) ==
    /\ Free(q) /\ q \notin area \cup kept
    /\ area' = area \cup {q} /\ runDir' = runDir \cup {q}
    /\ UNCHANGED <<keep, disk, machine, hasHome, running, pc, kept, status, doomed>>

(* Mistaken variants of the operator below: the area swept first, its      *)
(* machines left to their own; and the area left to the next clean.        *)
CloseRunSweepingFirst(q, F) ==
    /\ F = {}
    /\ Release(InRun(q) \cup {q})
    /\ runDir' = IF keep THEN runDir ELSE runDir \ {q}
    /\ area' = area \ {q}
    /\ hasHome' = hasHome \ Mine(q) /\ running' = running \ Mine(q)
    /\ pc' = [s \in Sessions |-> IF s \in Mine(q) THEN "idle" ELSE pc[s]]
    /\ UNCHANGED machine

CloseRunLeavingArea(q, F) ==
    /\ StopGuests(running \cap Mine(q), F)
    /\ Release(running \cap Mine(q))
    /\ area' = area \ {q}
    /\ UNCHANGED runDir

(* stop() sweeps or keeps the whole area, homes of sessions nothing        *)
(* tracked included, once every tracked machine was stopped.               *)
CloseRun(q, F) ==
    LET tracked == running \cap Mine(q)
    IN  /\ StopGuests(tracked, F)
        /\ IF q \in area
             THEN /\ Release(InRun(q) \cup tracked \cup {q})
                  /\ runDir' = IF keep THEN runDir ELSE runDir \ {q}
             ELSE Release(tracked) /\ UNCHANGED runDir
        /\ area' = area \ {q}

StopRun(q) ==
    /\ Free(q) /\ q \in area
    /\ \E F \in SUBSET (running \cap Mine(q)) : CloseRun(q, F)
    /\ UNCHANGED <<keep, status, doomed>>

(* The interpreter goes down in an orderly way: the atexit handlers are    *)
(* stop, while a run is open, and _stop_running_machines.                  *)
Exit(q) ==
    /\ Free(q)
    /\ \E F \in SUBSET (running \cap Mine(q)) : CloseRun(q, F)
    /\ status' = [status EXCEPT ![q] = "exited"]
    /\ UNCHANGED <<keep, doomed>>

(* The process dies with its memory; disk and machines stay as they are.   *)
Kill(q) ==
    /\ "killed" \in Faults /\ status[q] = "alive"
    /\ status' = [status EXCEPT ![q] = "killed"]
    /\ area' = area \ {q}
    /\ hasHome' = hasHome \ Mine(q) /\ running' = running \ Mine(q)
    /\ pc' = [s \in Sessions |-> IF s \in Mine(q) THEN "idle" ELSE pc[s]]
    /\ doomed' = [doomed EXCEPT ![q] = {}]
    /\ UNCHANGED <<keep, onDisk, kept>>

-----------------------------------------------------------------------------
(* start_guest, disposable branch: a home inside the run's area, which     *)
(* makedirs puts back if it was swept, or a lone one under the cache.      *)
MakeHome(s) ==
    LET q == ProcOf[s] IN
    /\ pc[s] = "idle" /\ Free(q)
    /\ s \notin hasHome \cup kept /\ disk[s] = "none" /\ machine[s] = "none"
    /\ disk' = [disk EXCEPT ![s] = IF q \in area THEN "run" ELSE "lone"]
    /\ runDir' = IF q \in area THEN runDir \cup {q} ELSE runDir
    /\ hasHome' = hasHome \cup {s}
    /\ Goto(s, "homed")
    /\ UNCHANGED <<keep, area, machine, running, kept, status, doomed>>

(* The blueprint and work directories, the staged set and the boot image.  *)
(* A failure is before start_guest's try: a suite stops the guest then, a  *)
(* with block that was never entered does not.                             *)
StageFiles(s) ==
    /\ pc[s] = "homed"
    /\ \/ /\ Goto(s, "staged")
          /\ disk' = [disk EXCEPT ![s] = IF ProcOf[s] \in area THEN "run" ELSE "lone"]
          /\ runDir' = IF ProcOf[s] \in area THEN runDir \cup {ProcOf[s]} ELSE runDir
          /\ UNCHANGED <<keep, area, machine, hasHome, running, kept, status, doomed>>
       \/ /\ "gatherFails" \in Faults /\ s \notin Scripted
          /\ Fail(s)
       \/ /\ "gatherFails" \in Faults /\ s \in Scripted
          /\ Goto(s, "idle")
          /\ UNCHANGED <<keep, onDisk, area, hasHome, running, kept, status, doomed>>

(* _create: the blueprint written and the machine made, in a home that is  *)
(* there; the backend is tracked from here on.                             *)
Create(s) ==
    /\ pc[s] = "staged"
    /\ \/ /\ disk[s] # "none"
          /\ machine' = [machine EXCEPT ![s] = "rest"]
          /\ running' = running \cup {s}
          /\ Goto(s, "created")
          /\ UNCHANGED <<keep, area, runDir, disk, hasHome, kept, status, doomed>>
       \/ /\ "createFails" \in Faults \/ disk[s] = "none"
          /\ Fail(s)

(* _place and start_machine, which a machine whose home is gone refuses.   *)
Boot(s) ==
    /\ pc[s] = "created"
    /\ \/ /\ disk[s] # "none"
          /\ machine' = [machine EXCEPT ![s] = "up"]
          /\ Goto(s, "booting")
          /\ UNCHANGED <<keep, area, runDir, disk, hasHome, running, kept, status, doomed>>
       \/ /\ "bootFails" \in Faults \/ disk[s] = "none"
          /\ Fail(s)

(* _wait_ready and _run_setup.                                             *)
Settle(s) ==
    /\ pc[s] = "booting"
    /\ \/ /\ Goto(s, "ready")
          /\ UNCHANGED <<keep, onDisk, area, hasHome, running, kept, status, doomed>>
       \/ "setupFails" \in Faults /\ Fail(s)

(* stop_guest at a session's end.                                          *)
StopGuest(s) ==
    /\ pc[s] = "ready" /\ Free(ProcOf[s])
    /\ Fail(s)

-----------------------------------------------------------------------------
(* _in_use, as process q sees it: held by a backend tracked in q itself,   *)
(* or holding a machine recorded running or stopping.                      *)
InUse(q, s) ==
    \/ s \in running /\ ProcOf[s] = q
    \/ disk[s] # "none" /\ machine[s] \in {"up", "stuck"}

(* clean() judges a run area stale, or a lone home, and then removes it.   *)
CleanJudges(q) ==
    /\ "clean" \in Faults /\ Free(q)
    /\ \/ \E r \in runDir :
             /\ \A s \in InRun(r) : ~InUse(q, s)
             /\ doomed' = [doomed EXCEPT ![q] = {r}]
       \/ \E s \in Sessions :
             /\ disk[s] = "lone" /\ ~InUse(q, s)
             /\ doomed' = [doomed EXCEPT ![q] = {s}]
    /\ UNCHANGED <<keep, onDisk, memory, kept, status>>

CleanRemoves(q) ==
    LET gone == {s \in Sessions : \/ s \in doomed[q]
                                  \/ disk[s] = "run" /\ ProcOf[s] \in doomed[q]}
    IN  /\ doomed[q] # {}
        /\ disk' = [s \in Sessions |-> IF s \in gone THEN "none" ELSE disk[s]]
        /\ machine' = [s \in Sessions |-> IF s \in gone /\ machine[s] = "rest"
                                            THEN "none" ELSE machine[s]]
        /\ runDir' = runDir \ doomed[q]
        /\ doomed' = [doomed EXCEPT ![q] = {}]
        /\ UNCHANGED <<keep, memory, kept, status>>

StartStep(s) == StageFiles(s) \/ Create(s) \/ Boot(s) \/ Settle(s)

Next ==
    \/ \E s \in Sessions : MakeHome(s) \/ StartStep(s) \/ StopGuest(s)
    \/ \E q \in Procs :
          \/ StartRun(q) \/ StopRun(q) \/ Exit(q) \/ Kill(q)
          \/ CleanJudges(q) \/ CleanRemoves(q)

(* A start under way goes on, a clean finishes, and a process that is not  *)
(* killed comes to its end, however many calls it makes before.            *)
Spec == Init /\ [][Next]_vars
        /\ \A s \in Sessions : WF_vars(StartStep(s))
        /\ \A q \in Procs : WF_vars(CleanRemoves(q)) /\ SF_vars(Exit(q))

-----------------------------------------------------------------------------
(* The shape of the state; a session is tracked from its machine's making  *)
(* to its end and never without a home to stop it by.                      *)
TypeOK ==
    /\ keep \in BOOLEAN
    /\ area \subseteq Procs
    /\ runDir \subseteq Procs
    /\ disk \in [Sessions -> {"none", "run", "lone"}]
    /\ machine \in [Sessions -> {"none", "rest", "up", "stuck"}]
    /\ hasHome \subseteq Sessions
    /\ kept \subseteq Sessions \cup Procs
    /\ pc \in [Sessions -> InCall \cup {"idle", "ready"}]
    /\ status \in [Procs -> {"alive", "exited", "killed"}]
    /\ doomed \in [Procs -> SUBSET (Sessions \cup Procs)]
    /\ running = {s \in Sessions : pc[s] \in {"created", "booting", "ready"}}
    /\ running \subseteq hasHome

(* P6: "A running machine is stopped before anything is swept", and cache: *)
(* "A kept home is a directory and never a running guest": no machine is   *)
(* up in a home that was removed or handed over to the tester, but one     *)
(* that was asked to stop and did not.                                     *)
ReleasedAtRest ==
    \A s \in Sessions : machine[s] = "up" => disk[s] # "none" /\ s \notin kept

(* A session that has begun has its home on disk until it is stopped:      *)
(* whatever is swept in between, the run's area included, it is not that.  *)
(* What a with block that was never entered left may go at any time.       *)
HomeWhileSession ==
    \A s \in hasHome : disk[s] # "none" \/ (s \in Scripted /\ pc[s] = "idle")

(* "swept when it ends": once a process came to an orderly end no machine  *)
(* of its is up, and of its run and its suites' homes those alone are left *)
(* that the tester asked to keep.  A with block whose session was never    *)
(* entered may leave its home.                                             *)
ExitIsClean ==
    \A q \in Procs : status[q] = "exited" =>
        /\ q \in runDir => q \in kept
        /\ \A s \in Mine(q) : /\ machine[s] # "up"
                              /\ disk[s] # "none" /\ s \notin Scripted => keep

(* Every home of a suite is given back: swept or kept in the end, or left  *)
(* by a process that was killed.                                           *)
HomesAreGivenBack ==
    \A s \in Sessions \ Scripted :
        disk[s] # "none" ~> disk[s] = "none" \/ s \in kept \/ status[ProcOf[s]] = "killed"
=============================================================================
