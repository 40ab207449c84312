---------------------------- MODULE SystemImage ----------------------------
(***************************************************************************)
(* The cached FreeDOS system disk (reliquary.py): one file under the cache *)
(* root that every process of a host finds or, when it is missing, builds. *)
(* Nothing locks.  Each builder installs into a home and a partial file of *)
(* its own and publishes by a rename; each guest session then layers an    *)
(* overlay over whatever disk it finds published.                          *)
(*                                                                         *)
(* A file's content is "none" (absent), "torn" (empty, or a copy that was  *)
(* cut short) or "full".  winner is a history variable: who built the disk *)
(* published now.                                                          *)
(***************************************************************************)
EXTENDS Naturals, FiniteSets

CONSTANTS
    Builders,  \* the processes that may want the system disk
    Nobody,    \* the winner when no disk is published
    Faults     \* what may go wrong around a build, a subset of AllFaults

AllFaults == {"createFails", "installFails", "destroyFails", "killed",
              "clean", "cleanSystem"}

ASSUME SystemImageAssumption ==
    /\ Nobody \notin Builders
    /\ Faults \subseteq AllFaults

VARIABLES
    image,    \* content of freedos.qcow2, the published disk
    winner,   \* whose build it is
    partial,  \* partial[p]: content of p's own freedos.qcow2.*.part
    homes,    \* builders whose build-* home is on disk
    running,  \* builders whose install machine is up, and recorded so at home
    sweep,    \* sweep[p]: how far a testaferro clean is with p's build home
    pc,       \* where each process is
    base      \* base[p]: whose disk the overlay of p's guest lies on

vars == <<image, winner, partial, homes, running, sweep, pc, base>>

Content == {"none", "torn", "full"}

\* "idle" asks for the disk; "have" has its path; "guest" boots over it.
Building == {"missing", "staged", "created", "installing", "installed",
             "built", "replacing"}
Stages == Building \cup {"idle", "have", "guest", "uncreated", "failed", "killed"}

Init ==
    /\ image = "none" /\ winner = Nobody
    /\ partial = [p \in Builders |-> "none"]
    /\ homes = {} /\ running = {}
    /\ sweep = [p \in Builders |-> "none"]
    /\ pc = [p \in Builders |-> "idle"]
    /\ base = [p \in Builders |-> Nobody]

Goto(p, stage) == pc' = [pc EXCEPT ![p] = stage]
SetPartial(p, content) == partial' = [partial EXCEPT ![p] = content]

-----------------------------------------------------------------------------
(* _cached_default_image: a path lookup, or a build when nothing is there. *)
Look(p) ==
    /\ pc[p] = "idle"
    /\ Goto(p, IF image = "none" THEN "missing" ELSE "have")
    /\ UNCHANGED <<image, winner, partial, homes, running, sweep, base>>

(* mkstemp makes the partial, TemporaryDirectory the home: a new name each *)
(* time, unknown to a sweep that is under way.                             *)
Stage(p) ==
    /\ pc[p] = "missing"
    /\ SetPartial(p, "torn")
    /\ homes' = homes \cup {p}
    /\ sweep' = [sweep EXCEPT ![p] = "none"]
    /\ Goto(p, "staged")
    /\ UNCHANGED <<image, winner, running, base>>

(* create_machine is inside the home's block and before the try that       *)
(* removes the partial: when it fails the partial stays.  A home a cleaner *)
(* swept has nowhere to create one.                                        *)
CreateMachine(p) ==
    /\ pc[p] = "staged"
    /\ \/ p \in homes /\ Goto(p, "created") /\ UNCHANGED homes
       \/ /\ "createFails" \in Faults \/ p \notin homes
          /\ homes' = homes \ {p}
          /\ Goto(p, "uncreated")
    /\ UNCHANGED <<image, winner, partial, running, sweep, base>>

(* run_script("install") starts the machine and powers it off at its end.  *)
(* A cleaner that asked before now still believes the home at rest.        *)
InstallStarts(p) ==
    /\ pc[p] = "created" /\ p \in homes
    /\ running' = running \cup {p}
    /\ sweep' = [sweep EXCEPT ![p] = IF @ = "asked" THEN "late" ELSE @]
    /\ Goto(p, "installing")
    /\ UNCHANGED <<image, winner, partial, homes, base>>

InstallFinishes(p) ==
    /\ pc[p] = "installing"
    /\ running' = running \ {p}
    /\ Goto(p, "installed")
    /\ UNCHANGED <<image, winner, partial, homes, sweep, base>>

(* Mistaken variants of the action below: the partial kept, and the home   *)
(* not removed.                                                            *)
InstallFailsVariant(p, keepPartial, keepHome) ==
    /\ pc[p] \in {"created", "installing", "installed"}
    /\ "installFails" \in Faults \/ p \notin homes
    /\ IF keepPartial THEN UNCHANGED partial ELSE SetPartial(p, "none")
    /\ running' = running \ {p}
    /\ homes' = IF keepHome THEN homes ELSE homes \ {p}
    /\ Goto(p, "failed")
    /\ UNCHANGED <<image, winner, sweep, base>>
InstallFailsKeepingPartial(p) == InstallFailsVariant(p, TRUE, FALSE)
InstallFailsKeepingHome(p) == InstallFailsVariant(p, FALSE, TRUE)

(* The script or the copy fails: the partial is removed, the machine       *)
(* destroyed as best it can be, and the home goes with its block.  The     *)
(* record of a machine whose home was swept is gone: it is not destroyed.  *)
InstallFails(p) ==
    /\ pc[p] \in {"created", "installing", "installed"}
    /\ "installFails" \in Faults \/ p \notin homes
    /\ SetPartial(p, "none")
    /\ \/ running' = running \ {p}
       \/ /\ "destroyFails" \in Faults \/ p \notin homes
          /\ p \in running /\ UNCHANGED running
    /\ homes' = homes \ {p}
    /\ Goto(p, "failed")
    /\ UNCHANGED <<image, winner, sweep, base>>

(* Mistaken variant: the copy goes straight to the published name.         *)
CopyInPlace(p) ==
    /\ pc[p] = "installed" /\ p \in homes
    /\ image' = "torn" /\ winner' = p
    /\ SetPartial(p, "full")
    /\ homes' = homes \ {p}
    /\ Goto(p, "built")
    /\ UNCHANGED <<running, sweep, base>>

(* shutil.copy writes the partial, or re-creates it; the machine is        *)
(* destroyed and the home removed on the way out of the block.             *)
CopyInstalled(p) ==
    /\ pc[p] = "installed" /\ p \in homes
    /\ SetPartial(p, "full")
    /\ homes' = homes \ {p}
    /\ Goto(p, "built")
    /\ UNCHANGED <<image, winner, running, sweep, base>>

(* if os.path.exists(destination): os.remove(partial); return              *)
CheckDestination(p) ==
    /\ pc[p] = "built"
    /\ \/ /\ image = "none"
          /\ Goto(p, "replacing")
          /\ UNCHANGED partial
       \/ /\ image # "none"
          /\ SetPartial(p, "none")
          /\ Goto(p, IF partial[p] = "none" THEN "failed" ELSE "have")
    /\ UNCHANGED <<image, winner, homes, running, sweep, base>>

(* Mistaken variants: one partial name for all, and a move of whatever is  *)
(* or is not there.                                                        *)
ReplaceShared(p) ==
    /\ pc[p] = "replacing" /\ partial[p] # "none"
    /\ image' = partial[p] /\ winner' = p
    /\ partial' = [q \in Builders |-> "none"]
    /\ Goto(p, "have")
    /\ UNCHANGED <<homes, running, sweep, base>>
ReplaceUnchecked(p) ==
    /\ pc[p] = "replacing"
    /\ image' = partial[p] /\ winner' = p
    /\ SetPartial(p, "none")
    /\ Goto(p, "have")
    /\ UNCHANGED <<homes, running, sweep, base>>

(* os.replace(partial, destination): atomic, over whatever is there.       *)
Replace(p) ==
    /\ pc[p] = "replacing"
    /\ \/ /\ partial[p] # "none"
          /\ image' = partial[p] /\ winner' = p
          /\ SetPartial(p, "none")
          /\ Goto(p, "have")
       \/ /\ partial[p] = "none"
          /\ Goto(p, "failed")
          /\ UNCHANGED <<image, winner, partial>>
    /\ UNCHANGED <<homes, running, sweep, base>>

-----------------------------------------------------------------------------
(* A guest session layers its overlay over the published disk, boots over  *)
(* it, and is torn down; the next session asks for the disk again.         *)
OpenOverlay(p) ==
    /\ pc[p] = "have"
    /\ \/ image # "none" /\ Goto(p, "guest") /\ base' = [base EXCEPT ![p] = winner]
       \/ image = "none" /\ Goto(p, "failed") /\ UNCHANGED base
    /\ UNCHANGED <<image, winner, partial, homes, running, sweep>>

CloseOverlay(p) ==
    /\ pc[p] = "guest"
    /\ Goto(p, "idle")
    /\ base' = [base EXCEPT ![p] = Nobody]
    /\ UNCHANGED <<image, winner, partial, homes, running, sweep>>

(* The process dies: whatever it had on disk stays there, a copy in        *)
(* progress cut short.                                                     *)
Kill(p) ==
    /\ "killed" \in Faults
    /\ pc[p] \notin {"uncreated", "failed", "killed"}
    /\ IF pc[p] = "installed"
         THEN SetPartial(p, "torn") ELSE UNCHANGED partial
    /\ Goto(p, "killed")
    /\ base' = [base EXCEPT ![p] = Nobody]
    /\ UNCHANGED <<image, winner, homes, running, sweep>>

(* Mistaken variants of the two actions below: a sweep that does not ask   *)
(* whether the home is in use, and one that takes every build home.        *)
CleanAsksNothing(p) ==
    /\ "clean" \in Faults
    /\ p \in homes /\ sweep[p] = "none"
    /\ sweep' = [sweep EXCEPT ![p] = "asked"]
    /\ UNCHANGED <<image, winner, partial, homes, running, pc, base>>
CleanRemovesAny(p) ==
    /\ "clean" \in Faults
    /\ p \in homes /\ homes' = homes \ {p}
    /\ UNCHANGED <<image, winner, partial, running, sweep, pc, base>>

(* testaferro clean, in a process of its own: a build home is to go unless *)
(* a machine in it is recorded running when _in_use asks ...               *)
CleanAsks(p) ==
    /\ "clean" \in Faults
    /\ p \in homes \ running /\ sweep[p] = "none"
    /\ sweep' = [sweep EXCEPT ![p] = "asked"]
    /\ UNCHANGED <<image, winner, partial, homes, running, pc, base>>

(* ... and the rmtree comes after it, whatever was started in between.     *)
CleanRemoves(p) ==
    /\ p \in homes /\ sweep[p] # "none"
    /\ homes' = homes \ {p}
    /\ UNCHANGED <<image, winner, partial, running, sweep, pc, base>>

(* _remove_system: the published disk and every partial beside it.         *)
RemoveSystem ==
    /\ "cleanSystem" \in Faults
    /\ image' = "none" /\ winner' = Nobody
    /\ partial' = [p \in Builders |-> "none"]
    /\ UNCHANGED <<homes, running, sweep, pc, base>>

Build(p) ==
    \/ Stage(p) \/ CreateMachine(p) \/ InstallStarts(p) \/ InstallFinishes(p)
    \/ InstallFails(p) \/ CopyInstalled(p) \/ CheckDestination(p) \/ Replace(p)

Next ==
    \/ \E p \in Builders :
          \/ Look(p) \/ Build(p) \/ OpenOverlay(p) \/ CloseOverlay(p) \/ Kill(p)
          \/ CleanAsks(p) \/ CleanRemoves(p)
    \/ RemoveSystem

(* A process that is building goes on building: run_script has a deadline  *)
(* and a copy returns.  Nobody has to ask for the disk.                    *)
Spec == Init /\ [][Next]_vars /\ \A p \in Builders : WF_vars(Build(p))

-----------------------------------------------------------------------------
(* The shape of the state: contents, stages, and a winner exactly while a  *)
(* disk is published.                                                      *)
TypeOK ==
    /\ image \in Content
    /\ winner \in Builders \cup {Nobody}
    /\ image = "none" <=> winner = Nobody
    /\ partial \in [Builders -> Content]
    /\ homes \subseteq Builders
    /\ running \subseteq Builders
    /\ sweep \in [Builders -> {"none", "asked", "late"}]
    /\ pc \in [Builders -> Stages]
    /\ base \in [Builders -> Builders \cup {Nobody}]

(* "a killed build leaves no half-installed system to be mistaken for a    *)
(* finished one" (_build_default_image): whatever is published is a whole  *)
(* copy, whoever is killed, fails, is swept or replaces whom.              *)
OnlyFinishedSystems == image # "torn"

(* "each build stages into a partial named for itself": no other builder's *)
(* publishing, discarding, failing or cleaning up takes the partial a      *)
(* build has on disk; clean --system alone does.                           *)
PartialIsItsBuilders ==
    [][\A p \in Builders : partial[p] # "none" /\ partial'[p] = "none"
          => pc'[p] # pc[p] \/ RemoveSystem]_vars

(* A build that comes to its end leaves no partial in the cache.  The code *)
(* clears up from every failure of the install, the copy and the rename; a *)
(* machine that cannot be created, or a process killed, leaves one for     *)
(* clean --system.                                                         *)
NoPartialLeftBehind ==
    \A p \in Builders :
        pc[p] \in {"idle", "have", "guest", "failed"} => partial[p] = "none"

(* A build home on disk belongs to a build in progress or one killed.      *)
HomesAreBuilds ==
    \A p \in homes : pc[p] \in {"staged", "created", "installing", "installed", "killed"}

(* However a build ends that nobody kills, it takes its partial and its    *)
(* home with it.                                                           *)
NothingIsLeftBehind == NoPartialLeftBehind /\ HomesAreBuilds

(* P6 for the install machine: no kill, failure or sweep leaves a machine  *)
(* up whose home is gone, but for two ways the code leaves open.  A failed *)
(* build whose machine cannot be destroyed goes on (that failure is        *)
(* swallowed); and a cleaner that asked before the machine booted removes  *)
(* its home after (_in_use and rmtree, with nothing held between them).    *)
BuildSweptAtRest ==
    \A p \in running : pc[p] # "failed" /\ sweep[p] # "late" => p \in homes

(* "whichever finishes first is the disk: a build that arrives to find one *)
(* already in place discards its own rather than replacing a file the      *)
(* winner's guest may by then have open": the disk a guest's overlay lies  *)
(* on stays the published one as long as the guest is up.                  *)
NoGuestLosesItsDisk ==
    \A p \in Builders : pc[p] = "guest" => winner = base[p]
=============================================================================
