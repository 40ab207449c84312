---------------------- MODULE PersistentMachine_proof -----------------------
(* Proofs about PersistentMachine, for any processes and backends and any  *)
(* set of faults, kills and racing processes included.                     *)
EXTENDS PersistentMachine, TLAPS

(* What the registries' truth rests on: entries are of the process's own   *)
(* backends; one call is under way at a time in a process, none while it   *)
(* destroys; a backend has a home from its claim to its stop and a machine *)
(* from taking it up; and a call that closed the holder finds nobody       *)
(* registered when it claims.                                              *)
CallsInv ==
    /\ \A b, c \in Backends :
          pc[b] \in InCall /\ pc[c] \in InCall /\ ProcOf[b] = ProcOf[c] => b = c
    /\ \A q \in Procs : holder[q] # NoOne => ProcOf[holder[q]] = q
    /\ \A b \in Backends :
          /\ verb[ProcOf[b]] # "none" => pc[b] \notin InCall
          /\ pc[b] = "taking" => holder[ProcOf[b]] = NoOne
          /\ pc[b] \in {"claimed", "staged", "creating"} => b \in hasHome
          /\ b \in hasMachine <=> pc[b] \in {"opened", "booting", "ready"}

RegistryInv == TypeOK /\ HolderHasTheHome /\ BootedIsTracked /\ CallsInv

LEMMA RegistryInvInit == Init => RegistryInv
  BY PersistentMachineAssumption
  DEF Init, RegistryInv, TypeOK, HolderHasTheHome, BootedIsTracked, CallsInv, Phases,
      Stages, InCall, SomeOne

(* What stop_guest leaves, whether or not the machine's own stop raised.   *)
LEMMA StopEffect ==
  ASSUME RegistryInv, NEW b \in Backends, NEW ok \in BOOLEAN, StopGuest(b, ok)
  PROVE  /\ phase' \in Phases /\ home' = home /\ work' = work /\ served' \in SomeOne
         /\ adrift' = adrift /\ (served' # NoOne => phase' \in {"running", "stopping"} \/ adrift)
         /\ phase' = phase \/ (phase' \in {"ready", "stopping"} /\ Up)
         /\ running' = running \ {b}
         /\ hasHome' = hasHome \ {b}
         /\ hasMachine' = hasMachine \ {b}
         /\ holder' = [q \in Procs |-> IF holder[q] = b THEN NoOne ELSE holder[q]]
<1> USE PersistentMachineAssumption DEF RegistryInv, TypeOK
<1>1. /\ home' = home /\ work' = work /\ adrift' = adrift
      /\ running' = running \ {b}
      /\ hasHome' = hasHome \ {b}
      /\ hasMachine' = hasMachine \ {b}
  BY DEF StopGuest, GiveUp
<1>2. /\ phase' \in Phases /\ served' \in SomeOne
      /\ (served' # NoOne => phase' \in {"running", "stopping"} \/ adrift)
      /\ phase' = phase \/ (phase' \in {"ready", "stopping"} /\ Up)
  <2>1. CASE b \in hasMachine
    BY <2>1 DEF StopGuest, StopMachine, Phases, SomeOne, Up
  <2>2. CASE b \notin hasMachine
    BY <2>2 DEF StopGuest, Up
  <2> QED
    BY <2>1, <2>2
<1>3. holder' = [q \in Procs |-> IF holder[q] = b THEN NoOne ELSE holder[q]]
  <2>1. ProcOf[b] \in Procs
    OBVIOUS
  <2>2. \A q \in Procs : holder[q] = b => q = ProcOf[b]
    BY DEF CallsInv
  <2> QED
    BY <2>1, <2>2 DEF StopGuest, GiveUp
<1> QED
  BY <1>1, <1>2, <1>3

(* Ending a session keeps the registries true wherever its start was.      *)
LEMMA EndKeeps ==
  ASSUME RegistryInv, NEW b \in Backends, NEW ok \in BOOLEAN, StopGuest(b, ok),
         Goto(b, "idle"), verb' \in [Procs -> {"none", "stopped", "removing"}], sole' = sole,
         \A c \in Backends : verb'[ProcOf[c]] # "none" => pc'[c] \notin InCall
  PROVE  RegistryInv'
<1>1. /\ phase' \in Phases /\ home' = home /\ work' = work /\ served' \in SomeOne
      /\ adrift' = adrift /\ (served' # NoOne => phase' \in {"running", "stopping"} \/ adrift)
      /\ phase' = phase \/ (phase' \in {"ready", "stopping"} /\ Up)
      /\ running' = running \ {b}
      /\ hasHome' = hasHome \ {b}
      /\ hasMachine' = hasMachine \ {b}
      /\ holder' = [q \in Procs |-> IF holder[q] = b THEN NoOne ELSE holder[q]]
  BY StopEffect
<1>2. pc' = [pc EXCEPT ![b] = "idle"]
  BY DEF Goto
<1>3. TypeOK'
  BY <1>1, <1>2, PersistentMachineAssumption DEF RegistryInv, TypeOK, SomeOne, Stages, Up
<1>4. \A c \in Backends : ProcOf[c] \in Procs
  BY PersistentMachineAssumption
<1>5. \A c \in Backends :
        /\ pc'[c] = IF c = b THEN "idle" ELSE pc[c]
        /\ holder'[ProcOf[c]] = IF holder[ProcOf[c]] = b THEN NoOne
                                                        ELSE holder[ProcOf[c]]
  BY <1>1, <1>2, <1>4 DEF RegistryInv, TypeOK
<1>6. HolderHasTheHome' /\ BootedIsTracked'
  BY <1>1, <1>5, PersistentMachineAssumption
  DEF RegistryInv, HolderHasTheHome, BootedIsTracked
<1>7. CallsInv'
  <2>1. \A q \in Procs : holder'[q] # NoOne => ProcOf[holder'[q]] = q
    BY <1>1 DEF RegistryInv, CallsInv
  <2> QED
    BY <1>1, <1>5, <2>1 DEF RegistryInv, CallsInv, InCall
<1> QED
  BY <1>3, <1>6, <1>7 DEF RegistryInv

LEMMA FailKeeps ==
  ASSUME RegistryInv, NEW b \in Backends, Fail(b), verb' = verb, sole' = sole
  PROVE  RegistryInv'
<1>1. PICK ok \in BOOLEAN : StopGuest(b, ok)
  BY DEF Fail
<1>2. Goto(b, "idle")
  BY DEF Fail
<1>3. \A c \in Backends : pc'[c] \in {pc[c], "idle"}
  BY <1>2 DEF Goto, RegistryInv, TypeOK
<1>4. \A c \in Backends : verb'[ProcOf[c]] # "none" => pc'[c] \notin InCall
  BY <1>3 DEF RegistryInv, CallsInv, InCall
<1> QED
  BY <1>1, <1>2, <1>4, EndKeeps DEF RegistryInv, TypeOK

(* The stop of shutdown and destroy, in a process with no call under way.  *)
LEMMA ShutdownKeeps ==
  ASSUME RegistryInv, NEW q \in Procs, NEW ok \in BOOLEAN, ShutdownStop(q, ok), Free(q), sole' = sole,
         verb' = verb \/ verb' = [verb EXCEPT ![q] = "stopped"]
  PROVE  RegistryInv'
<1> USE DEF RegistryInv
<1>1. CASE holder[q] # NoOne
  <2>1. /\ holder[q] \in Backends /\ ProcOf[holder[q]] = q
        /\ StopGuest(holder[q], ok) /\ Goto(holder[q], "idle")
    BY <1>1 DEF ShutdownStop, TypeOK, CallsInv, SomeOne
  <2>2. \A c \in Backends : pc'[c] \in {pc[c], "idle"}
    BY <2>1 DEF Goto, TypeOK
  <2>3. \A c \in Backends : verb'[ProcOf[c]] = verb[ProcOf[c]] \/ ProcOf[c] = q
    BY PersistentMachineAssumption DEF TypeOK
  <2>4. \A c \in Backends : verb'[ProcOf[c]] # "none" => pc'[c] \notin InCall
    BY <2>2, <2>3 DEF CallsInv, InCall, Free
  <2>5. verb' \in [Procs -> {"none", "stopped", "removing"}]
    BY DEF TypeOK
  <2> QED
    BY <2>1, <2>4, <2>5, EndKeeps
<1>2. CASE holder[q] = NoOne
  <2>1. /\ UNCHANGED <<home, work, adrift, holder, running, hasHome, hasMachine, pc>>
        /\ phase' \in Phases /\ served' \in SomeOne
        /\ served' # NoOne => phase' \in {"running", "stopping"} \/ adrift
    BY <1>2 DEF ShutdownStop, StopMachine, registry, TypeOK, Phases, SomeOne, Up
  <2>2. \A c \in Backends : verb'[ProcOf[c]] # "none" => pc'[c] \notin InCall
    BY <2>1, PersistentMachineAssumption DEF TypeOK, CallsInv, Free, InCall
  <2>3. TypeOK'
    <3>1. verb' \in [Procs -> {"none", "stopped", "removing"}]
      BY DEF TypeOK
    <3> QED
      BY <2>1, <3>1 DEF TypeOK, Up
  <2> QED
    BY <2>1, <2>2, <2>3 DEF HolderHasTheHome, BootedIsTracked, CallsInv
<1> QED
  BY <1>1, <1>2

LEMMA RegistryInvNext == RegistryInv /\ [Next]_vars => RegistryInv'
<1> SUFFICES ASSUME RegistryInv, [Next]_vars PROVE RegistryInv'
  OBVIOUS
<1> USE PersistentMachineAssumption
    DEF RegistryInv, TypeOK, HolderHasTheHome, BootedIsTracked, CallsInv, Phases, Stages,
        InCall, SomeOne, Goto, Free, disk, registry, Up
<1>1. ASSUME NEW b \in Backends, CloseHolder(b), sole' = sole PROVE RegistryInv'
  <2> DEFINE h == holder[ProcOf[b]]
  <2> HIDE DEF TypeOK, HolderHasTheHome, BootedIsTracked, CallsInv
  <2>1. PICK ok \in BOOLEAN :
          /\ StopGuest(h, ok)
          /\ pc' = [pc EXCEPT ![h] = "idle", ![b] = IF ok THEN "taking" ELSE "idle"]
    BY <1>1 DEF CloseHolder
  <2>2. /\ h \in Backends /\ h # b /\ ProcOf[h] = ProcOf[b] /\ ProcOf[b] \in Procs
        /\ pc[b] = "idle" /\ Free(ProcOf[b]) /\ verb' = verb
    BY <1>1 DEF CloseHolder, TypeOK, CallsInv
  <2>3. /\ phase' \in Phases /\ home' = home /\ work' = work /\ served' \in SomeOne
        /\ adrift' = adrift /\ (served' # NoOne => phase' \in {"running", "stopping"} \/ adrift)
        /\ phase' = phase \/ (phase' \in {"ready", "stopping"} /\ Up)
        /\ running' = running \ {h}
        /\ hasHome' = hasHome \ {h}
        /\ hasMachine' = hasMachine \ {h}
        /\ holder' = [q \in Procs |-> IF holder[q] = h THEN NoOne ELSE holder[q]]
    BY <2>1, <2>2, StopEffect
  <2>4. \A c \in Backends :
          /\ pc'[c] = IF c = b THEN IF ok THEN "taking" ELSE "idle"
                     ELSE IF c = h THEN "idle" ELSE pc[c]
          /\ holder'[ProcOf[c]] = IF holder[ProcOf[c]] = h THEN NoOne
                                                          ELSE holder[ProcOf[c]]
    BY <2>1, <2>2, <2>3 DEF TypeOK
  <2>5. TypeOK'
    BY <1>1, <2>1, <2>2, <2>3 DEF TypeOK, Up
  <2>6. HolderHasTheHome' /\ BootedIsTracked'
    BY <2>2, <2>3, <2>4 DEF HolderHasTheHome, BootedIsTracked
  <2>7. \A q \in Procs : holder'[q] # NoOne => ProcOf[holder'[q]] = q
    BY <2>3 DEF CallsInv
  <2>8. \A c, d \in Backends :
           pc'[c] \in InCall /\ pc'[d] \in InCall /\ ProcOf[c] = ProcOf[d] => c = d
    BY SMTT(20), <2>2, <2>4 DEF CallsInv
  <2>9. \A c \in Backends :
           /\ verb'[ProcOf[c]] # "none" => pc'[c] \notin InCall
           /\ pc'[c] = "taking" => holder'[ProcOf[c]] = NoOne
    BY SMTT(20), <2>2, <2>4 DEF CallsInv
  <2>10. \A c \in Backends :
           /\ pc'[c] \in {"claimed", "staged", "creating"} => c \in hasHome'
           /\ c \in hasMachine' <=> pc'[c] \in {"opened", "booting", "ready"}
    BY SMTT(20), <2>2, <2>3, <2>4 DEF CallsInv
  <2>11. CallsInv'
    BY <2>7, <2>8, <2>9, <2>10 DEF CallsInv
  <2> QED
    BY <2>5, <2>6, <2>11
<1>2. ASSUME NEW b \in Backends, Claim(b), sole' = sole PROVE RegistryInv'
  BY <1>2 DEF Claim
<1>3. ASSUME NEW b \in Backends, StageFiles(b), sole' = sole PROVE RegistryInv'
  BY <1>3 DEF StageFiles
<1>4. ASSUME NEW b \in Backends, Reopen(b), sole' = sole PROVE RegistryInv'
  <2>1. CASE Fail(b) /\ verb' = verb
    BY <1>4, <2>1, FailKeeps
  <2>2. CASE ~Fail(b)
    BY SMTT(20), <1>4, <2>2 DEF Reopen, TakeUp
  <2> QED
    BY <1>4, <2>1, <2>2 DEF Reopen
<1>5. ASSUME NEW b \in Backends, Create(b), sole' = sole PROVE RegistryInv'
  <2>1. CASE Fail(b) /\ verb' = verb
    BY <1>5, <2>1, FailKeeps
  <2>2. CASE ~Fail(b)
    BY SMTT(20), <1>5, <2>2 DEF Create, TakeUp
  <2> QED
    BY <1>5, <2>1, <2>2 DEF Create
<1>6. ASSUME NEW b \in Backends, Boot(b), sole' = sole PROVE RegistryInv'
  <2>1. CASE Fail(b) /\ verb' = verb
    BY <1>6, <2>1, FailKeeps
  <2>2. CASE ~Fail(b)
    BY <1>6, <2>2 DEF Boot
  <2> QED
    BY <1>6, <2>1, <2>2 DEF Boot
<1>7. ASSUME NEW b \in Backends, Settle(b), sole' = sole PROVE RegistryInv'
  <2>1. CASE Fail(b) /\ verb' = verb
    BY <1>7, <2>1, FailKeeps
  <2>2. CASE ~Fail(b)
    BY <1>7, <2>2 DEF Settle
  <2> QED
    BY <1>7, <2>1, <2>2 DEF Settle
<1>8. ASSUME NEW b \in Backends, Stop(b), sole' = sole PROVE RegistryInv'
  BY <1>8, FailKeeps DEF Stop
<1>9. ASSUME NEW q \in Procs, Shutdown(q), sole' = sole PROVE RegistryInv'
  BY <1>9, ShutdownKeeps DEF Shutdown
<1>10. ASSUME NEW q \in Procs, DestroyBegins(q), sole' = sole PROVE RegistryInv'
  BY <1>10, ShutdownKeeps DEF DestroyBegins
<1>11. ASSUME NEW q \in Procs, DestroyMachine(q) \/ RemoveHome(q), sole' = sole
       PROVE  RegistryInv'
  <2> HIDE DEF TypeOK, HolderHasTheHome, BootedIsTracked, CallsInv
  <2>1. /\ UNCHANGED <<holder, running, hasHome, hasMachine, pc>>
        /\ \E v \in {"none", "removing"} : verb' = [verb EXCEPT ![q] = v]
        /\ verb[q] # "none"
    BY <1>11 DEF DestroyMachine, RemoveHome
  <2>2. \A b \in Backends : verb'[ProcOf[b]] # "none" => verb[ProcOf[b]] # "none"
    BY <2>1 DEF TypeOK
  <2>3. /\ phase' \in Phases /\ home' \in BOOLEAN /\ adrift' \in BOOLEAN
        /\ work' \in SomeOne /\ served' = served
        /\ (adrift => adrift') /\ (phase' = phase \/ ~Up \/ adrift')
    BY <1>11 DEF DestroyMachine, RemoveHome, TypeOK
  <2>4. TypeOK'
    <3>1. verb' \in [Procs -> {"none", "stopped", "removing"}]
      BY <2>1 DEF TypeOK
    <3>2. served' # NoOne => Up' \/ adrift'
      BY <2>3 DEF TypeOK
    <3> QED
      BY <1>11, <2>1, <2>3, <3>1, <3>2 DEF TypeOK
  <2> QED
    BY <2>1, <2>2, <2>4 DEF HolderHasTheHome, BootedIsTracked, CallsInv
<1>12. ASSUME NEW q \in Procs, Kill(q), sole' = sole PROVE RegistryInv'
  <2> DEFINE mine == {b \in Backends : ProcOf[b] = q}
  <2> HIDE DEF TypeOK, HolderHasTheHome, BootedIsTracked, CallsInv
  <2>1. /\ holder' = [holder EXCEPT ![q] = NoOne]
        /\ running' = running \ mine /\ hasHome' = hasHome \ mine
        /\ hasMachine' = hasMachine \ mine
        /\ pc' = [b \in Backends |-> IF b \in mine THEN "killed" ELSE pc[b]]
        /\ verb' = [verb EXCEPT ![q] = "none"]
        /\ UNCHANGED <<phase, home, work, served, adrift>>
    BY <1>12 DEF Kill
  <2>2. \A b \in Backends :
          /\ b \in mine <=> ProcOf[b] = q
          /\ pc'[b] = IF ProcOf[b] = q THEN "killed" ELSE pc[b]
          /\ holder'[ProcOf[b]] = IF ProcOf[b] = q THEN NoOne ELSE holder[ProcOf[b]]
          /\ verb'[ProcOf[b]] # "none" => verb[ProcOf[b]] # "none"
          /\ ProcOf[b] \in Procs
    BY <2>1 DEF TypeOK
  <2>3. TypeOK'
    BY <1>12, <2>1 DEF TypeOK
  <2>4. HolderHasTheHome' /\ BootedIsTracked'
    BY <2>1, <2>2 DEF HolderHasTheHome, BootedIsTracked
  <2>5. \A r \in Procs : holder'[r] # NoOne => ProcOf[holder'[r]] = r
    BY <2>1 DEF TypeOK, CallsInv
  <2>6. CallsInv'
    BY <2>1, <2>2, <2>5 DEF CallsInv
  <2> QED
    BY <2>3, <2>4, <2>6
<1>13. CASE UNCHANGED vars
  BY <1>13 DEF vars
<1> QED
  BY <1>1, <1>2, <1>3, <1>4, <1>5, <1>6, <1>7, <1>8,
     <1>9, <1>10, <1>11, <1>12, <1>13 DEF Next, BackendStep, VerbStep, StartStep

(* In every process, whatever other processes do to the shared home, the   *)
(* backend that has the home is the registered holder, and every machine   *)
(* the process took up is in _running, so the failsafe at exit stops it.   *)
THEOREM RegistryIsTrue == Spec => []RegistriesAreTrue
<1>1. RegistryInv => RegistriesAreTrue
  BY DEF RegistryInv, RegistriesAreTrue
<1> QED
  BY RegistryInvInit, RegistryInvNext, <1>1, PTL DEF Spec

(* The state keeps its shape.                                              *)
THEOREM PersistentTypeOK == Spec => []TypeOK
<1>1. RegistryInv => TypeOK
  BY DEF RegistryInv
<1> QED
  BY RegistryInvInit, RegistryInvNext, <1>1, PTL DEF Spec

-----------------------------------------------------------------------------
(* Where one process has the machine to itself, no backend of another has  *)
(* begun a session.                                                        *)
AloneInv ==
    sole # NoOne =>
        \A b \in Backends : ProcOf[b] # sole => pc[b] = "idle" /\ b \notin hasHome

LEMMA AloneAfterShutdown ==
  ASSUME RegistryInv, AloneInv, NEW q \in Procs, q = sole, sole' = sole,
         NEW ok \in BOOLEAN, ShutdownStop(q, ok)
  PROVE  AloneInv'
<1> USE DEF RegistryInv, TypeOK
<1>1. CASE holder[q] = NoOne
  BY <1>1, PersistentMachineAssumption DEF ShutdownStop, registry, AloneInv
<1>2. CASE holder[q] # NoOne
  <2>1. holder[q] \in Backends /\ ProcOf[holder[q]] = q /\ Goto(holder[q], "idle")
    BY <1>2 DEF ShutdownStop, CallsInv, SomeOne
  <2>2. hasHome' = hasHome \ {holder[q]}
    BY <1>2 DEF ShutdownStop, StopGuest, GiveUp
  <2> QED
    BY <2>1, <2>2 DEF AloneInv, Goto
<1> QED
  BY <1>1, <1>2

LEMMA AloneInvNext ==
  ASSUME RegistryInv, AloneInv, [Next]_vars
  PROVE  AloneInv'
<1> SUFFICES ASSUME sole # NoOne PROVE AloneInv'
  BY DEF Next, BackendStep, VerbStep, vars, AloneInv
<1>0. sole' = sole
  BY DEF Next, BackendStep, VerbStep, vars
<1> USE <1>0, PersistentMachineAssumption
    DEF RegistryInv, AloneInv, TypeOK, CallsInv, SomeOne, Goto, Free, registry
<1>1. ASSUME NEW b \in Backends, CloseHolder(b), ProcOf[b] = sole PROVE AloneInv'
  BY <1>1 DEF CloseHolder, StopGuest, StopMachine, GiveUp
<1>2. ASSUME NEW b \in Backends, Claim(b), ProcOf[b] = sole PROVE AloneInv'
  BY <1>2 DEF Claim
<1>3. ASSUME NEW b \in Backends, StageFiles(b), ProcOf[b] = sole PROVE AloneInv'
  BY <1>3 DEF StageFiles
<1>4. ASSUME NEW b \in Backends, Reopen(b), ProcOf[b] = sole PROVE AloneInv'
  BY <1>4 DEF Reopen, TakeUp, Fail, StopGuest, StopMachine, GiveUp
<1>5. ASSUME NEW b \in Backends, Create(b), ProcOf[b] = sole PROVE AloneInv'
  BY <1>5 DEF Create, TakeUp, Fail, StopGuest, StopMachine, GiveUp
<1>6. ASSUME NEW b \in Backends, Boot(b), ProcOf[b] = sole PROVE AloneInv'
  BY <1>6 DEF Boot, Fail, StopGuest, StopMachine, GiveUp
<1>7. ASSUME NEW b \in Backends, Settle(b), ProcOf[b] = sole PROVE AloneInv'
  BY <1>7 DEF Settle, Fail, StopGuest, StopMachine, GiveUp
<1>8. ASSUME NEW b \in Backends, Stop(b), ProcOf[b] = sole PROVE AloneInv'
  BY <1>8 DEF Stop, Fail, StopGuest, StopMachine, GiveUp
<1>9. ASSUME NEW q \in Procs, Shutdown(q), q = sole PROVE AloneInv'
  BY <1>9, AloneAfterShutdown DEF Shutdown
<1>10. ASSUME NEW q \in Procs, DestroyBegins(q), q = sole PROVE AloneInv'
  BY <1>10, AloneAfterShutdown DEF DestroyBegins
<1>11. ASSUME NEW q \in Procs, DestroyMachine(q) \/ RemoveHome(q), q = sole PROVE AloneInv'
  BY <1>11 DEF DestroyMachine, RemoveHome
<1>12. ASSUME NEW q \in Procs, Kill(q), q = sole PROVE AloneInv'
  BY <1>12 DEF Kill
<1>13. CASE UNCHANGED vars
  BY <1>13 DEF vars
<1> QED
  BY <1>1, <1>2, <1>3, <1>4, <1>5, <1>6, <1>7, <1>8,
     <1>9, <1>10, <1>11, <1>12, <1>13 DEF Next, May, BackendStep, VerbStep, StartStep

(* Along the start of a session the work directory is its own from the     *)
(* staging on, and the machine up and reading it from the boot on; and     *)
(* nothing is up when its destroy has come to the removal of the home.     *)
SoleInv ==
    sole # NoOne =>
        /\ \A b \in Backends :
              /\ pc[b] \in {"staged", "creating", "opened", "booting", "ready"} => work = b
              /\ pc[b] \in {"booting", "ready"} => phase = "running" /\ served = b
        /\ verb[sole] = "removing" => phase = "absent"

(* Alone, only one backend has the home.                                   *)
LEMMA OneHome ==
  ASSUME sole # NoOne, AloneInv, RegistryInv
  PROVE  \A b, c \in hasHome : b = c
<1>1. \A b, c \in hasHome : ProcOf[b] = ProcOf[c]
  BY DEF AloneInv, RegistryInv, TypeOK
<1> QED
  BY <1>1 DEF RegistryInv, HolderHasTheHome, TypeOK

(* Where nothing is under way and the holder was closed, no session is on. *)
LEMMA SoleAfterShutdown ==
  ASSUME sole # NoOne, AloneInv, RegistryInv, NEW q \in Procs, q = sole, NEW ok \in BOOLEAN,
         ShutdownStop(q, ok), Free(q), sole' = sole, verb'[q] # "removing"
  PROVE  SoleInv'
<1>1. \A b \in Backends : ProcOf[b] # q => pc[b] = "idle"
  BY DEF AloneInv
<1>2. \A b \in Backends : pc[b] \notin InCall
  BY <1>1 DEF Free, InCall
<1>3. \A b \in Backends : pc[b] = "ready" => holder[q] = b
  BY <1>1 DEF RegistryInv, BootedIsTracked, HolderHasTheHome
<1>4. \A b \in Backends : pc'[b] \in {"idle", pc[b]} /\ pc'[b] # "ready"
  <2>1. CASE holder[q] = NoOne
    BY <1>3, <2>1, PersistentMachineAssumption DEF ShutdownStop, registry
  <2>2. CASE holder[q] # NoOne
    BY <1>3, <2>2 DEF ShutdownStop, Goto, RegistryInv, TypeOK
  <2> QED
    BY <2>1, <2>2
<1> QED
  BY <1>2, <1>4 DEF SoleInv, InCall

LEMMA SoleInvNext ==
  ASSUME AloneInv, RegistryInv, SoleInv, [Next]_vars
  PROVE  SoleInv'
<1>0. sole' = sole
  BY DEF Next, BackendStep, VerbStep, vars
<1> SUFFICES ASSUME sole # NoOne PROVE SoleInv'
  BY <1>0 DEF SoleInv
<1> USE <1>0, PersistentMachineAssumption
    DEF AloneInv, RegistryInv, SoleInv, TypeOK, HolderHasTheHome, BootedIsTracked, CallsInv,
        Phases, Stages, InCall, SomeOne, Goto, Free, disk, registry, Up
<1>1. ASSUME NEW b \in Backends, CloseHolder(b), ProcOf[b] = sole PROVE SoleInv'
  BY <1>1 DEF CloseHolder, StopGuest, StopMachine, GiveUp
<1>2. ASSUME NEW b \in Backends, Claim(b), ProcOf[b] = sole PROVE SoleInv'
  BY <1>2 DEF Claim
<1>3. ASSUME NEW b \in Backends, StageFiles(b), ProcOf[b] = sole PROVE SoleInv'
  BY <1>3 DEF StageFiles
<1>4. ASSUME NEW b \in Backends, Reopen(b), ProcOf[b] = sole PROVE SoleInv'
  BY <1>4 DEF Reopen, TakeUp, Fail, StopGuest, StopMachine, GiveUp
<1>5. ASSUME NEW b \in Backends, Create(b), ProcOf[b] = sole PROVE SoleInv'
  BY <1>5 DEF Create, TakeUp, Fail, StopGuest, StopMachine, GiveUp
<1>6. ASSUME NEW b \in Backends, Boot(b), ProcOf[b] = sole PROVE SoleInv'
  BY <1>6 DEF Boot, Fail, StopGuest, StopMachine, GiveUp
<1>7. ASSUME NEW b \in Backends, Settle(b), ProcOf[b] = sole PROVE SoleInv'
  BY <1>7 DEF Settle, Fail, StopGuest, StopMachine, GiveUp
<1>8. ASSUME NEW b \in Backends, Stop(b), ProcOf[b] = sole PROVE SoleInv'
  BY <1>8 DEF Stop, Fail, StopGuest, StopMachine, GiveUp
<1>9. ASSUME NEW q \in Procs, Shutdown(q), q = sole PROVE SoleInv'
  <2>1. verb'[q] # "removing"
    BY <1>9 DEF Shutdown
  <2> QED
    BY <1>9, <2>1, SoleAfterShutdown DEF Shutdown
<1>10. ASSUME NEW q \in Procs, DestroyBegins(q), q = sole PROVE SoleInv'
  <2>1. verb'[q] # "removing"
    BY <1>10 DEF DestroyBegins
  <2> QED
    BY <1>10, <2>1, SoleAfterShutdown DEF DestroyBegins
<1>11. ASSUME NEW q \in Procs, DestroyMachine(q) \/ RemoveHome(q), q = sole PROVE SoleInv'
  <2>1. CASE DestroyMachine(q)
    BY <2>1 DEF DestroyMachine
  <2>2. CASE RemoveHome(q)
    <3>1. \A b \in Backends : pc[b] = "idle" \/ (ProcOf[b] = q /\ pc[b] \notin InCall)
      BY <1>11, <2>2 DEF RemoveHome
    <3> QED
      BY <1>11, <2>2, <3>1 DEF RemoveHome
  <2> QED
    BY <1>11, <2>1, <2>2
<1>12. ASSUME NEW q \in Procs, Kill(q), q = sole PROVE SoleInv'
  BY <1>12 DEF Kill
<1>13. CASE UNCHANGED vars
  BY <1>13 DEF vars
<1> QED
  BY <1>1, <1>2, <1>3, <1>4, <1>5, <1>6, <1>7, <1>8,
     <1>9, <1>10, <1>11, <1>12, <1>13 DEF Next, May, BackendStep, VerbStep, StartStep

(* In a process that has the machine to itself, an open session's guest is *)
(* up and booted with the very set this session staged, however many       *)
(* sessions take turns and whatever fails in between.                      *)
THEOREM OwnSetServed == Spec => []GuestServesItsOwnSet
<1>1. Init => SoleInv /\ AloneInv
  BY DEF Init, SoleInv, AloneInv
<1>2. RegistryInv /\ AloneInv /\ SoleInv /\ [Next]_vars => SoleInv' /\ AloneInv'
  BY SoleInvNext, AloneInvNext
<1>3. SoleInv => GuestServesItsOwnSet
  BY DEF SoleInv, GuestServesItsOwnSet
<1> QED
  BY RegistryInvInit, RegistryInvNext, <1>1, <1>2, <1>3, PTL DEF Spec

-----------------------------------------------------------------------------
(* The refinement: at most one guest is up, so User is it, and the step    *)
(* that brings one up finds none.                                          *)
UpIn(b) == pc[b] \in {"booting", "ready"}

LEMMA UserIsTheOneUp ==
  ASSUME sole # NoOne, AloneInv, RegistryInv
  PROVE  /\ \A b \in Backends : UpIn(b) => User = b
         /\ (\A b \in Backends : ~UpIn(b)) => User = NoOne
<1>1. \A b, c \in Backends : UpIn(b) /\ UpIn(c) => b = c
  BY OneHome DEF RegistryInv, BootedIsTracked, UpIn
<1> QED
  BY <1>1 DEF User, UpIn

(* A step brings a guest up only when the stepping backend's machine was   *)
(* taken up and at rest; every other step leaves up at most who was.       *)
LEMMA OnlyBootBringsUp ==
  ASSUME RegistryInv, [Next]_vars
  PROVE  \/ \A b \in Backends : UpIn(b)' => UpIn(b)
         \/ \E b \in Backends : /\ pc[b] = "opened" /\ UpIn(b)'
                                /\ \A c \in Backends \ {b} : pc'[c] = pc[c]
<1> DEFINE Goal == \/ \A b \in Backends : UpIn(b)' => UpIn(b)
                   \/ \E b \in Backends : /\ pc[b] = "opened" /\ UpIn(b)'
                                          /\ \A c \in Backends \ {b} : pc'[c] = pc[c]
<1> SUFFICES Goal
  OBVIOUS
<1> USE PersistentMachineAssumption DEF RegistryInv, TypeOK, Stages, InCall, Goto, UpIn, Up
<1>1. ASSUME NEW b \in Backends, CloseHolder(b) PROVE Goal
  BY <1>1 DEF CloseHolder, StopGuest, StopMachine, GiveUp
<1>2. ASSUME NEW b \in Backends, Claim(b) PROVE Goal
  BY <1>2 DEF Claim
<1>3. ASSUME NEW b \in Backends, StageFiles(b) PROVE Goal
  BY <1>3 DEF StageFiles
<1>4. ASSUME NEW b \in Backends, Reopen(b) PROVE Goal
  BY <1>4 DEF Reopen, TakeUp, Fail, StopGuest, StopMachine, GiveUp
<1>5. ASSUME NEW b \in Backends, Create(b) PROVE Goal
  BY <1>5 DEF Create, TakeUp, Fail, StopGuest, StopMachine, GiveUp
<1>6. ASSUME NEW b \in Backends, Boot(b) PROVE Goal
  BY <1>6 DEF Boot, Fail, StopGuest, StopMachine, GiveUp
<1>7. ASSUME NEW b \in Backends, Settle(b) PROVE Goal
  BY <1>7 DEF Settle, Fail, StopGuest, StopMachine, GiveUp
<1>8. ASSUME NEW b \in Backends, Stop(b) PROVE Goal
  BY <1>8 DEF Stop, Fail, StopGuest, StopMachine, GiveUp
<1>9. ASSUME NEW q \in Procs, Shutdown(q) PROVE Goal
  BY <1>9 DEF Shutdown, ShutdownStop, StopGuest, StopMachine, GiveUp
<1>10. ASSUME NEW q \in Procs, DestroyBegins(q) PROVE Goal
  BY <1>10 DEF DestroyBegins, ShutdownStop, StopGuest, StopMachine, GiveUp
<1>11. ASSUME NEW q \in Procs, DestroyMachine(q) \/ RemoveHome(q) PROVE Goal
  BY <1>11 DEF DestroyMachine, RemoveHome
<1>12. ASSUME NEW q \in Procs, Kill(q) PROVE Goal
  BY <1>12 DEF Kill
<1>13. CASE UNCHANGED vars
  BY <1>13 DEF vars
<1> QED
  BY <1>1, <1>2, <1>3, <1>4, <1>5, <1>6, <1>7, <1>8,
     <1>9, <1>10, <1>11, <1>12, <1>13 DEF Next, May, BackendStep, VerbStep, StartStep

(* A process that has the machine to itself leases it to one session at a  *)
(* time: every takeover closes the earlier session before the later opens. *)
THEOREM AloneIsALease == Spec => ImplementsLease
<1>1. Init => Lease!Init /\ AloneInv
  BY DEF Init, Lease!Init, User, AloneInv
<1>2. RegistryInv /\ AloneInv /\ RegistryInv' /\ AloneInv' /\ [Next]_vars => [Lease!Next]_User
  <2> SUFFICES ASSUME RegistryInv, AloneInv, RegistryInv', AloneInv', [Next]_vars
               PROVE  [Lease!Next]_User
    OBVIOUS
  <2>0. sole' = sole
    BY DEF Next, BackendStep, VerbStep, vars
  <2>a. CASE sole = NoOne
    BY <2>0, <2>a DEF User
  <2>b. CASE sole # NoOne
    <3>1. /\ \A b \in Backends : UpIn(b) => User = b
          /\ (\A b \in Backends : ~UpIn(b)) => User = NoOne
      BY <2>b, UserIsTheOneUp
    <3>2. /\ \A b \in Backends : UpIn(b)' => User' = b
          /\ (\A b \in Backends : ~UpIn(b)') => User' = NoOne
      <4>1. \A b, c \in Backends : UpIn(b)' /\ UpIn(c)' => b = c
        <5>1. \A b, c \in hasHome' : ProcOf[b] = ProcOf[c]
          BY <2>b, <2>0 DEF AloneInv, RegistryInv, TypeOK
        <5>2. \A b, c \in hasHome' : b = c
          BY <5>1 DEF RegistryInv, HolderHasTheHome, TypeOK
        <5> QED
          BY <5>2 DEF RegistryInv, BootedIsTracked, UpIn
      <4> QED
        BY <4>1, <2>b, <2>0 DEF User, UpIn
    <3>3. CASE \A b \in Backends : UpIn(b)' => UpIn(b)
      BY <3>1, <3>2, <3>3 DEF Lease!Next, Lease!Close
    <3>4. ASSUME NEW b \in Backends, pc[b] = "opened", UpIn(b)',
                 \A c \in Backends \ {b} : pc'[c] = pc[c]
          PROVE  [Lease!Next]_User
      <4>1. \A c \in Backends : ~UpIn(c)
        BY <2>b, <3>4, OneHome DEF RegistryInv, BootedIsTracked, UpIn
      <4> QED
        BY <3>1, <3>2, <3>4, <4>1 DEF Lease!Next, Lease!Open
    <3> QED
      BY <3>3, <3>4, OnlyBootBringsUp
  <2> QED
    BY <2>a, <2>b
<1>3. RegistryInv /\ AloneInv /\ [Next]_vars => AloneInv'
  BY AloneInvNext
<1> QED
  BY <1>1, <1>2, <1>3, RegistryInvInit, RegistryInvNext, PTL
  DEF Spec, ImplementsLease, Lease!Spec

-----------------------------------------------------------------------------
(* Ending a session never leaves its machine recorded running: at rest, or *)
(* "stopping" when the stop raised.                                        *)
LEMMA StoppedIsNotRunning ==
  ASSUME RegistryInv, NEW b \in Backends, NEW ok \in BOOLEAN, StopGuest(b, ok), phase' = "running"
  PROVE  phase = "running" /\ ~UpIn(b)
<1>1. CASE b \in hasMachine
  BY <1>1 DEF StopGuest, StopMachine, Up
<1>2. CASE b \notin hasMachine
  BY <1>2 DEF StopGuest, RegistryInv, CallsInv, UpIn
<1> QED
  BY <1>1, <1>2

\* What a step other than a kill does to a machine it leaves running.
Stood == phase' = "running" =>
            \/ phase = "running" /\ \A b \in Backends : UpIn(b) => UpIn(b)'
            \/ \E b \in Backends : UpIn(b)'

LEMMA FailStood ==
  ASSUME RegistryInv, NEW b \in Backends, Fail(b)
  PROVE  Stood
<1> SUFFICES ASSUME phase' = "running"
             PROVE  phase = "running" /\ \A c \in Backends : UpIn(c) => UpIn(c)'
  BY DEF Stood
<1>1. PICK ok \in BOOLEAN : StopGuest(b, ok)
  BY DEF Fail
<1>2. phase = "running" /\ ~UpIn(b)
  BY <1>1, StoppedIsNotRunning
<1>3. \A c \in Backends : c # b => pc'[c] = pc[c]
  BY DEF Fail, Goto, RegistryInv, TypeOK
<1> QED
  BY <1>2, <1>3 DEF UpIn

LEMMA ShutdownStood ==
  ASSUME RegistryInv, NEW q \in Procs, NEW ok \in BOOLEAN, ShutdownStop(q, ok)
  PROVE  Stood
<1> SUFFICES ASSUME phase' = "running"
             PROVE  phase = "running" /\ \A c \in Backends : UpIn(c) => UpIn(c)'
  BY DEF Stood
<1>1. CASE holder[q] = NoOne
  <2>1. phase' = phase /\ pc' = pc
    BY <1>1, PersistentMachineAssumption DEF ShutdownStop, StopMachine, Up
  <2> QED
    BY <2>1 DEF UpIn
<1>2. CASE holder[q] # NoOne
  <2> DEFINE b == holder[q]
  <2>1. b \in Backends /\ StopGuest(b, ok) /\ Goto(b, "idle")
    BY <1>2 DEF ShutdownStop, RegistryInv, TypeOK, SomeOne
  <2> HIDE DEF b
  <2>2. phase = "running" /\ ~UpIn(b)
    BY <2>1, StoppedIsNotRunning
  <2>3. \A c \in Backends : c # b => pc'[c] = pc[c]
    BY <2>1 DEF Goto, RegistryInv, TypeOK
  <2> QED
    BY <2>2, <2>3 DEF UpIn
<1> QED
  BY <1>1, <1>2

LEMMA NextStood ==
  ASSUME RegistryInv, [Next]_vars
  PROVE  Stood \/ \E b \in Backends : pc[b] # "killed" /\ pc'[b] = "killed"
<1> USE DEF Goto, disk, registry
<1>t. pc \in [Backends -> Stages]
  BY DEF RegistryInv, TypeOK
<1>1. ASSUME NEW b \in Backends, CloseHolder(b) PROVE Stood
  <2> SUFFICES ASSUME phase' = "running"
               PROVE  phase = "running" /\ \A c \in Backends : UpIn(c) => UpIn(c)'
    BY DEF Stood
  <2> DEFINE h == holder[ProcOf[b]]
  <2>1. PICK ok \in BOOLEAN :
          /\ StopGuest(h, ok)
          /\ pc' = [pc EXCEPT ![h] = "idle", ![b] = IF ok THEN "taking" ELSE "idle"]
    BY <1>1 DEF CloseHolder
  <2>2. h \in Backends /\ pc[b] = "idle"
    BY <1>1, PersistentMachineAssumption DEF CloseHolder, RegistryInv, TypeOK, SomeOne
  <2> HIDE DEF h
  <2>3. phase = "running" /\ ~UpIn(h)
    BY <2>1, <2>2, StoppedIsNotRunning
  <2>4. \A c \in Backends : c # h /\ c # b => pc'[c] = pc[c]
    BY <1>t, <2>1
  <2> QED
    BY <2>2, <2>3, <2>4 DEF UpIn
<1>2. ASSUME NEW b \in Backends, Claim(b) \/ StageFiles(b) PROVE Stood
  BY <1>t, <1>2 DEF Claim, StageFiles, Stood, UpIn
<1>3. ASSUME NEW b \in Backends, Reopen(b) PROVE Stood
  <2>1. CASE Fail(b)
    BY <2>1, FailStood
  <2>2. CASE ~Fail(b)
    BY <1>t, <1>3, <2>2 DEF Reopen, TakeUp, Stood, UpIn
  <2> QED
    BY <2>1, <2>2
<1>4. ASSUME NEW b \in Backends, Create(b) PROVE Stood
  <2>1. CASE Fail(b)
    BY <2>1, FailStood
  <2>2. CASE ~Fail(b)
    BY <1>4, <2>2 DEF Create, Stood
  <2> QED
    BY <2>1, <2>2
<1>5. ASSUME NEW b \in Backends, Boot(b) PROVE Stood
  <2>1. CASE Fail(b)
    BY <2>1, FailStood
  <2>2. CASE ~Fail(b)
    BY <1>t, <1>5, <2>2 DEF Boot, Stood, UpIn
  <2> QED
    BY <2>1, <2>2
<1>6. ASSUME NEW b \in Backends, Settle(b) PROVE Stood
  <2>1. CASE Fail(b)
    BY <2>1, FailStood
  <2>2. CASE ~Fail(b)
    BY <1>t, <1>6, <2>2 DEF Settle, Stood, UpIn
  <2> QED
    BY <2>1, <2>2
<1>7. ASSUME NEW b \in Backends, Stop(b) PROVE Stood
  BY <1>7, FailStood DEF Stop
<1>8. ASSUME NEW q \in Procs, Shutdown(q) \/ DestroyBegins(q) PROVE Stood
  BY <1>8, ShutdownStood DEF Shutdown, DestroyBegins
<1>9. ASSUME NEW q \in Procs, DestroyMachine(q) \/ RemoveHome(q) PROVE Stood
  BY <1>9 DEF DestroyMachine, RemoveHome, Stood, UpIn, Up
<1>10. ASSUME NEW q \in Procs, Kill(q)
       PROVE  \E b \in Backends : pc[b] # "killed" /\ pc'[b] = "killed"
  BY <1>10 DEF Kill
<1>11. CASE UNCHANGED vars
  BY <1>11 DEF vars, Stood, UpIn
<1> QED
  BY <1>1, <1>2, <1>3, <1>4, <1>5, <1>6, <1>7, <1>8, <1>9, <1>10, <1>11
  DEF Next, BackendStep, VerbStep, StartStep

(* Whatever starts, takeovers, verbs and processes race and whatever fails *)
(* in them: only the killing of a process leaves the machine running with  *)
(* no session standing for it.                                             *)
THEOREM NothingIsStranded == Spec => NothingStrandsTheMachine
<1>1. RegistryInv /\ [Next]_vars =>
        [Stray' /\ ~Stray => \E b \in Backends : pc[b] # "killed" /\ pc'[b] = "killed"]_vars
  <2> SUFFICES ASSUME RegistryInv, [Next]_vars, Stray', ~Stray
               PROVE  \E b \in Backends : pc[b] # "killed" /\ pc'[b] = "killed"
    OBVIOUS
  <2>1. ~Stood
    BY DEF Stood, Stray, UpIn
  <2> QED
    BY <2>1, NextStood
<1> QED
  BY <1>1, RegistryInvInit, RegistryInvNext, PTL DEF Spec, NothingStrandsTheMachine

=============================================================================
