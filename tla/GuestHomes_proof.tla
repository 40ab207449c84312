-------------------------- MODULE GuestHomes_proof --------------------------
(* Proofs about GuestHomes, for any processes and sessions.                *)
EXTENDS GuestHomes, TLAPS

(* What both arguments rest on: a session under way or open has not been   *)
(* handed over, and neither it nor a run outlives its process.             *)
AtWork ==
    /\ kept # {} => keep
    /\ \A s \in Sessions :
          /\ pc[s] # "idle" => s \notin kept /\ status[ProcOf[s]] = "alive"
          /\ pc[s] \in InCall => s \in hasHome
    /\ \A q \in area : status[q] = "alive"

BaseInv == TypeOK /\ AtWork

(* A machine that is up in a live process is one its atexit failsafe knows.*)
UpIsTracked ==
    \A s \in Sessions :
        machine[s] = "up" /\ status[ProcOf[s]] = "alive" => s \in running

LEMMA StopEffect ==
  ASSUME BaseInv, NEW S \in SUBSET Sessions, NEW F, StopGuests(S, F)
  PROVE  /\ machine' \in [Sessions -> {"none", "rest", "up", "stuck"}]
         /\ \A s \in Sessions :
               /\ machine'[s] = "up" => machine[s] = "up"
               /\ machine'[s] = "up" => s \notin S
               /\ pc'[s] = IF s \in S THEN "idle" ELSE pc[s]
         /\ pc' \in [Sessions -> InCall \cup {"idle", "ready"}]
         /\ hasHome' = hasHome \ S
         /\ running' = running \ S
  BY DEF BaseInv, TypeOK, StopGuests, Stopped, InCall

LEMMA ReleaseEffect ==
  ASSUME BaseInv, NEW S \in SUBSET (Sessions \cup Procs), Release(S)
  PROVE  /\ disk' \in [Sessions -> {"none", "run", "lone"}]
         /\ \A s \in Sessions :
               disk'[s] = IF s \in S /\ ~keep THEN "none" ELSE disk[s]
         /\ kept' = IF keep THEN kept \cup S ELSE kept
  BY DEF BaseInv, TypeOK, Release

(* Sessions S stopped and homes R handed back, R those of sessions that    *)
(* are stopped with it or were already.                                    *)
LEMMA EndKeepsBase ==
  ASSUME BaseInv, NEW S \in SUBSET Sessions, NEW F, NEW R \in SUBSET (Sessions \cup Procs),
         StopGuests(S, F), Release(R), keep' = keep, area' \subseteq area,
         runDir' \subseteq Procs, status' \in [Procs -> {"alive", "exited", "killed"}],
         doomed' = doomed,
         \A s \in R \cap Sessions : s \in S \/ pc[s] = "idle",
         \A s \in Sessions \ S : pc[s] # "idle" => status'[ProcOf[s]] = "alive",
         \A q \in area' : status'[q] = "alive"
  PROVE  BaseInv'
<1>1. /\ machine' \in [Sessions -> {"none", "rest", "up", "stuck"}]
      /\ \A s \in Sessions :
            /\ machine'[s] = "up" => machine[s] = "up"
            /\ machine'[s] = "up" => s \notin S
            /\ pc'[s] = IF s \in S THEN "idle" ELSE pc[s]
      /\ pc' \in [Sessions -> InCall \cup {"idle", "ready"}]
      /\ hasHome' = hasHome \ S
      /\ running' = running \ S
  BY StopEffect
<1>2. /\ disk' \in [Sessions -> {"none", "run", "lone"}]
      /\ \A s \in Sessions :
            disk'[s] = IF s \in R /\ ~keep THEN "none" ELSE disk[s]
      /\ kept' = IF keep THEN kept \cup R ELSE kept
  BY ReleaseEffect
<1>3. running' = {s \in Sessions : pc'[s] \in {"created", "booting", "ready"}}
  BY <1>1 DEF BaseInv, TypeOK
<1>4. TypeOK'
  BY <1>1, <1>2, <1>3 DEF BaseInv, TypeOK
<1>5. AtWork'
  BY <1>1, <1>2 DEF BaseInv, AtWork, InCall
<1> QED
  BY <1>4, <1>5 DEF BaseInv

LEMMA FailIs ==
  ASSUME BaseInv, NEW s \in Sessions, Fail(s)
  PROVE  /\ \E F \in SUBSET {s} : StopGuests({s}, F)
         /\ Release({s})
         /\ UNCHANGED <<keep, area, runDir, status, doomed>>
  BY DEF Fail

LEMMA FailKeepsBase ==
  ASSUME BaseInv, NEW s \in Sessions, Fail(s)
  PROVE  BaseInv'
<1>1. PICK F \in SUBSET {s} : StopGuests({s}, F)
  BY FailIs
<1>2. Release({s}) /\ UNCHANGED <<keep, area, runDir, status, doomed>>
  BY FailIs
<1>3. {s} \in SUBSET Sessions /\ {s} \in SUBSET (Sessions \cup Procs)
  OBVIOUS
<1> QED
  BY <1>1, <1>2, <1>3, EndKeepsBase DEF BaseInv, TypeOK, AtWork

(* The end of a run, or of its process: what is stopped, what handed back. *)
LEMMA CloseRunIs ==
  ASSUME BaseInv, NEW q \in Procs, Free(q), NEW F, CloseRun(q, F)
  PROVE  \E R \in SUBSET (Sessions \cup Procs) :
            /\ StopGuests(running \cap Mine(q), F)
            /\ Release(R)
            /\ running \cap Mine(q) \subseteq R /\ R \cap Sessions \subseteq Mine(q)
            /\ q \in area => InRun(q) \subseteq R /\ q \in R
            /\ runDir' = IF q \in area /\ ~keep THEN runDir \ {q} ELSE runDir
            /\ area' = area \ {q}
            /\ \A s \in Mine(q) : s \in running \/ pc[s] = "idle"
<1>1. \A s \in Mine(q) : s \in running \/ pc[s] = "idle"
  <2>1. SUFFICES ASSUME NEW s \in Mine(q) PROVE s \in running \/ pc[s] = "idle"
    OBVIOUS
  <2>2. s \in Sessions /\ pc[s] \notin InCall
    BY DEF Free, Mine
  <2> QED
    BY <2>2 DEF BaseInv, TypeOK, InCall
<1>2. CASE q \in area
  <2> DEFINE R == InRun(q) \cup (running \cap Mine(q)) \cup {q}
  <2>1. R \in SUBSET (Sessions \cup Procs) /\ R \cap Sessions \subseteq Mine(q)
    BY GuestHomesAssumption DEF InRun, Mine
  <2>2. /\ StopGuests(running \cap Mine(q), F) /\ Release(R)
        /\ runDir' = IF keep THEN runDir ELSE runDir \ {q}
        /\ area' = area \ {q}
    BY <1>2 DEF CloseRun
  <2>3. running \cap Mine(q) \subseteq R /\ InRun(q) \subseteq R /\ q \in R
    OBVIOUS
  <2> QED
    BY <1>1, <1>2, <2>1, <2>2, <2>3
<1>3. CASE q \notin area
  <2>1. running \cap Mine(q) \in SUBSET (Sessions \cup Procs)
    BY DEF Mine
  <2>2. /\ StopGuests(running \cap Mine(q), F) /\ Release(running \cap Mine(q))
        /\ runDir' = runDir /\ area' = area \ {q}
    BY <1>3 DEF CloseRun
  <2> QED
    BY <1>1, <1>3, <2>1, <2>2 DEF Mine
<1> QED
  BY <1>2, <1>3

LEMMA CloseRunKeepsBase ==
  ASSUME BaseInv, NEW q \in Procs, Free(q), NEW F, CloseRun(q, F), keep' = keep,
         status' = status \/ status' = [status EXCEPT ![q] = "exited"], doomed' = doomed
  PROVE  BaseInv'
<1>1. PICK R \in SUBSET (Sessions \cup Procs) :
            /\ StopGuests(running \cap Mine(q), F)
            /\ Release(R)
            /\ R \cap Sessions \subseteq Mine(q)
            /\ runDir' = IF q \in area /\ ~keep THEN runDir \ {q} ELSE runDir
            /\ area' = area \ {q}
            /\ \A s \in Mine(q) : s \in running \/ pc[s] = "idle"
  BY CloseRunIs
<1>2. running \cap Mine(q) \in SUBSET Sessions
  BY DEF Mine
<1>3. /\ runDir' \subseteq Procs
      /\ status' \in [Procs -> {"alive", "exited", "killed"}]
  BY <1>1 DEF BaseInv, TypeOK
<1>4. \A s \in R \cap Sessions : s \in running \cap Mine(q) \/ pc[s] = "idle"
  BY <1>1
<1>5. \A s \in Sessions \ (running \cap Mine(q)) :
         pc[s] # "idle" => status'[ProcOf[s]] = "alive"
  BY <1>1, GuestHomesAssumption DEF BaseInv, TypeOK, AtWork, Mine
<1>6. \A p \in area' : status'[p] = "alive"
  BY <1>1 DEF BaseInv, TypeOK, AtWork
<1> QED
  BY <1>1, <1>2, <1>3, <1>4, <1>5, <1>6, EndKeepsBase

LEMMA BaseInvInit == Init => BaseInv
  BY GuestHomesAssumption DEF Init, BaseInv, TypeOK, AtWork, InCall

LEMMA BaseInvStep == BaseInv /\ [Next]_vars => BaseInv'
<1> SUFFICES ASSUME BaseInv, [Next]_vars PROVE BaseInv'
  OBVIOUS
<1> USE DEF BaseInv
<1>1. ASSUME NEW s \in Sessions, MakeHome(s) PROVE BaseInv'
  <2>1. ProcOf[s] \in Procs /\ status[ProcOf[s]] = "alive"
    BY <1>1, GuestHomesAssumption DEF MakeHome, Free
  <2>2. /\ pc' = [pc EXCEPT ![s] = "homed"] /\ hasHome' = hasHome \cup {s}
        /\ s \notin kept /\ pc[s] = "idle"
        /\ disk' \in [Sessions -> {"none", "run", "lone"}] /\ runDir' \subseteq Procs
        /\ UNCHANGED <<keep, area, machine, running, kept, status, doomed>>
    BY <1>1, <2>1 DEF MakeHome, Goto, TypeOK
  <2> QED
    BY <2>1, <2>2 DEF TypeOK, AtWork, InCall
<1>2. ASSUME NEW s \in Sessions, StageFiles(s) PROVE BaseInv'
  <2>1. CASE Fail(s)
    BY <2>1, FailKeepsBase
  <2>2. CASE UNCHANGED <<keep, area, machine, hasHome, running, kept, status, doomed>>
             /\ runDir' \subseteq Procs /\ disk' \in [Sessions -> {"none", "run", "lone"}]
             /\ pc[s] = "homed" /\ pc' = [pc EXCEPT ![s] = "staged"]
    BY <2>2 DEF BaseInv, TypeOK, AtWork, InCall
  <2>3. CASE UNCHANGED <<keep, onDisk, area, hasHome, running, kept, status, doomed>>
             /\ pc[s] = "homed" /\ Goto(s, "idle")
    BY <2>3 DEF BaseInv, TypeOK, AtWork, InCall, Goto, onDisk
  <2>4. ProcOf[s] \in Procs
    BY GuestHomesAssumption
  <2> QED
    BY <1>2, <2>1, <2>2, <2>3, <2>4 DEF StageFiles, Goto, BaseInv, TypeOK
<1>3. ASSUME NEW s \in Sessions, Create(s) PROVE BaseInv'
  <2>1. CASE Fail(s)
    BY <2>1, FailKeepsBase
  <2>2. CASE /\ pc[s] = "staged" /\ Goto(s, "created")
             /\ machine' = [machine EXCEPT ![s] = "rest"]
             /\ running' = running \cup {s}
             /\ UNCHANGED <<keep, area, runDir, disk, hasHome, kept, status, doomed>>
    <3>1. s \in hasHome
      BY <2>2 DEF BaseInv, AtWork, InCall
    <3> QED
      BY <2>2, <3>1 DEF BaseInv, TypeOK, AtWork, InCall, Goto
  <2> QED
    BY <1>3, <2>1, <2>2 DEF Create
<1>4. ASSUME NEW s \in Sessions, Boot(s) PROVE BaseInv'
  <2>1. CASE Fail(s)
    BY <2>1, FailKeepsBase
  <2>2. CASE /\ pc[s] = "created" /\ Goto(s, "booting") /\ machine' = [machine EXCEPT ![s] = "up"]
             /\ UNCHANGED <<keep, area, runDir, disk, hasHome, running, kept, status, doomed>>
    BY <2>2 DEF BaseInv, TypeOK, AtWork, InCall, Goto
  <2> QED
    BY <1>4, <2>1, <2>2 DEF Boot, onDisk
<1>5. ASSUME NEW s \in Sessions, Settle(s) PROVE BaseInv'
  <2>1. CASE Fail(s)
    BY <2>1, FailKeepsBase
  <2>2. CASE /\ pc[s] = "booting" /\ Goto(s, "ready") /\ machine' = machine
             /\ UNCHANGED <<keep, area, runDir, disk, hasHome, running, kept, status, doomed>>
    BY <2>2 DEF BaseInv, TypeOK, AtWork, InCall, Goto
  <2> QED
    BY <1>5, <2>1, <2>2 DEF Settle, onDisk
<1>6. ASSUME NEW s \in Sessions, StopGuest(s) PROVE BaseInv'
  BY <1>6, FailKeepsBase DEF StopGuest
<1>7. ASSUME NEW q \in Procs, StartRun(q) PROVE BaseInv'
  BY <1>7 DEF StartRun, Free, BaseInv, TypeOK, AtWork
<1>8. ASSUME NEW q \in Procs, StopRun(q) PROVE BaseInv'
  BY <1>8, CloseRunKeepsBase DEF StopRun
<1>9. ASSUME NEW q \in Procs, Exit(q) PROVE BaseInv'
  BY <1>9, CloseRunKeepsBase DEF Exit
<1>10. ASSUME NEW q \in Procs, Kill(q) PROVE BaseInv'
  <2>1. /\ pc' = [s \in Sessions |-> IF s \in Mine(q) THEN "idle" ELSE pc[s]]
        /\ status' = [status EXCEPT ![q] = "killed"] /\ area' = area \ {q}
        /\ hasHome' = hasHome \ Mine(q) /\ running' = running \ Mine(q)
        /\ doomed' = [doomed EXCEPT ![q] = {}]
        /\ UNCHANGED <<keep, runDir, disk, machine, kept>>
    BY <1>10 DEF Kill, onDisk
  <2>2. TypeOK'
    BY <2>1 DEF BaseInv, TypeOK
  <2>3. \A s \in Sessions :
           s \notin Mine(q) => ProcOf[s] # q /\ ProcOf[s] \in Procs /\ pc'[s] = pc[s]
    BY <2>1, GuestHomesAssumption DEF Mine
  <2>4. \A s \in Mine(q) : pc'[s] = "idle"
    BY <2>1 DEF Mine
  <2>5. AtWork'
    BY <2>1, <2>3, <2>4 DEF TypeOK, AtWork, InCall
  <2> QED
    BY <2>2, <2>5 DEF BaseInv
<1>11. ASSUME NEW q \in Procs, CleanJudges(q) PROVE BaseInv'
  <2>1. /\ doomed' \in [Procs -> SUBSET (Sessions \cup Procs)]
        /\ UNCHANGED <<keep, runDir, disk, machine, area, hasHome, running, pc, kept, status>>
    BY <1>11 DEF CleanJudges, BaseInv, TypeOK, onDisk, memory
  <2> QED
    BY <2>1 DEF BaseInv, TypeOK, AtWork
<1>12. ASSUME NEW q \in Procs, CleanRemoves(q) PROVE BaseInv'
  <2>1. /\ disk' \in [Sessions -> {"none", "run", "lone"}]
        /\ machine' \in [Sessions -> {"none", "rest", "up", "stuck"}]
        /\ runDir' \subseteq Procs
        /\ doomed' \in [Procs -> SUBSET (Sessions \cup Procs)]
        /\ UNCHANGED <<keep, area, hasHome, running, pc, kept, status>>
    BY <1>12 DEF CleanRemoves, BaseInv, TypeOK, memory
  <2> QED
    BY <2>1 DEF BaseInv, TypeOK, AtWork
<1>13. CASE UNCHANGED vars
  BY <1>13 DEF vars, onDisk, memory, TypeOK, AtWork
<1> QED
  BY <1>1, <1>2, <1>3, <1>4, <1>5, <1>6, <1>7,
     <1>8, <1>9, <1>10, <1>11, <1>12, <1>13 DEF Next, StartStep

-----------------------------------------------------------------------------
(* TypeOK, whatever fails: a session is tracked from its machine's making  *)
(* to its end (_running), and never without a home to stop it by.          *)
THEOREM GuestHomesTypeOK == Spec => []TypeOK
<1>1. BaseInv => TypeOK
  BY DEF BaseInv
<1> QED
  BY <1>1, BaseInvInit, BaseInvStep, PTL DEF Spec

-----------------------------------------------------------------------------
(* A machine that is up, and was not asked to stop, is tracked.            *)
LEMMA EndUp ==
  ASSUME BaseInv, UpIsTracked, NEW S \in SUBSET Sessions, NEW F, StopGuests(S, F),
         \A s \in Sessions : status'[ProcOf[s]] = "alive" => status[ProcOf[s]] = "alive"
  PROVE  /\ UpIsTracked'
         /\ \A s \in Sessions : machine'[s] = "up" => machine[s] = "up" /\ s \notin S
<1>1. /\ \A s \in Sessions : /\ machine'[s] = "up" => machine[s] = "up"
                             /\ machine'[s] = "up" => s \notin S
      /\ running' = running \ S
  BY StopEffect
<1> QED
  BY <1>1 DEF UpIsTracked

LEMMA FailUp ==
  ASSUME BaseInv, UpIsTracked, NEW s \in Sessions, Fail(s)
  PROVE  /\ UpIsTracked'
         /\ \A t \in Sessions : machine'[t] = "up" => machine[t] = "up" /\ t # s
<1>1. PICK F \in SUBSET {s} : StopGuests({s}, F)
  BY FailIs
<1>2. \A t \in Sessions : status'[ProcOf[t]] = "alive" => status[ProcOf[t]] = "alive"
  BY FailIs
<1>3. {s} \in SUBSET Sessions
  OBVIOUS
<1> QED
  BY <1>1, <1>2, <1>3, EndUp

LEMMA CloseRunUp ==
  ASSUME BaseInv, UpIsTracked, NEW q \in Procs, Free(q), NEW F, CloseRun(q, F),
         status' = status \/ status' = [status EXCEPT ![q] = "exited"]
  PROVE  /\ UpIsTracked'
         /\ \A s \in Sessions :
               machine'[s] = "up" => machine[s] = "up" /\ s \notin running \cap Mine(q)
         /\ \A s \in Mine(q) : machine[s] = "up" => s \in running
<1>1. StopGuests(running \cap Mine(q), F)
  BY CloseRunIs
<1>2. running \cap Mine(q) \in SUBSET Sessions
  BY DEF Mine
<1>3. \A s \in Sessions : status'[ProcOf[s]] = "alive" => status[ProcOf[s]] = "alive"
  BY GuestHomesAssumption DEF BaseInv, TypeOK
<1>4. \A s \in Mine(q) : machine[s] = "up" => s \in running
  BY DEF Free, Mine, UpIsTracked
<1> QED
  BY <1>1, <1>2, <1>3, <1>4, EndUp

LEMMA UpIsTrackedStep == BaseInv /\ UpIsTracked /\ [Next]_vars => UpIsTracked'
<1> SUFFICES ASSUME BaseInv, UpIsTracked, [Next]_vars PROVE UpIsTracked'
  OBVIOUS
<1>1. ASSUME NEW s \in Sessions, MakeHome(s) PROVE UpIsTracked'
  BY <1>1 DEF MakeHome, UpIsTracked
<1>2. ASSUME NEW s \in Sessions, StageFiles(s) PROVE UpIsTracked'
  <2>1. CASE Fail(s)
    BY <2>1, FailUp
  <2>2. CASE ~Fail(s)
    BY <1>2, <2>2 DEF StageFiles, Goto, UpIsTracked, BaseInv, TypeOK, onDisk
  <2> QED
    BY <2>1, <2>2
<1>3. ASSUME NEW s \in Sessions, Create(s) PROVE UpIsTracked'
  <2>1. CASE Fail(s)
    BY <2>1, FailUp
  <2>2. CASE ~Fail(s)
    BY <1>3, <2>2 DEF Create, Goto, UpIsTracked, BaseInv, TypeOK
  <2> QED
    BY <2>1, <2>2
<1>4. ASSUME NEW s \in Sessions, Boot(s) PROVE UpIsTracked'
  <2>1. CASE Fail(s)
    BY <2>1, FailUp
  <2>2. CASE ~Fail(s)
    BY <1>4, <2>2 DEF Boot, Goto, UpIsTracked, BaseInv, TypeOK
  <2> QED
    BY <2>1, <2>2
<1>5. ASSUME NEW s \in Sessions, Settle(s) PROVE UpIsTracked'
  <2>1. CASE Fail(s)
    BY <2>1, FailUp
  <2>2. CASE ~Fail(s)
    BY <1>5, <2>2 DEF Settle, Goto, UpIsTracked, BaseInv, TypeOK, onDisk
  <2> QED
    BY <2>1, <2>2
<1>6. ASSUME NEW s \in Sessions, StopGuest(s) PROVE UpIsTracked'
  BY <1>6, FailUp DEF StopGuest
<1>7. ASSUME NEW q \in Procs, StartRun(q) PROVE UpIsTracked'
  BY <1>7 DEF StartRun, UpIsTracked
<1>8. ASSUME NEW q \in Procs, StopRun(q) PROVE UpIsTracked'
  BY <1>8, CloseRunUp DEF StopRun
<1>9. ASSUME NEW q \in Procs, Exit(q) PROVE UpIsTracked'
  BY <1>9, CloseRunUp DEF Exit
<1>10. ASSUME NEW q \in Procs, Kill(q) PROVE UpIsTracked'
  <2>1. /\ running' = running \ Mine(q) /\ machine' = machine
        /\ status' = [status EXCEPT ![q] = "killed"]
    BY <1>10 DEF Kill, onDisk
  <2>2. \A s \in Sessions : status'[ProcOf[s]] = "alive" =>
           status[ProcOf[s]] = "alive" /\ s \notin Mine(q)
    BY <2>1, GuestHomesAssumption DEF BaseInv, TypeOK, Mine
  <2> QED
    BY <2>1, <2>2 DEF UpIsTracked
<1>11. ASSUME NEW q \in Procs, CleanJudges(q) PROVE UpIsTracked'
  BY <1>11 DEF CleanJudges, onDisk, memory, UpIsTracked
<1>12. ASSUME NEW q \in Procs, CleanRemoves(q) PROVE UpIsTracked'
  BY <1>12 DEF CleanRemoves, memory, UpIsTracked, BaseInv, TypeOK
<1>13. CASE UNCHANGED vars
  BY <1>13 DEF vars, onDisk, memory, UpIsTracked
<1> QED
  BY <1>1, <1>2, <1>3, <1>4, <1>5, <1>6, <1>7,
     <1>8, <1>9, <1>10, <1>11, <1>12, <1>13 DEF Next, StartStep

-----------------------------------------------------------------------------
(* Who cleans is the one process there is: what it judged stale is of no   *)
(* session that has begun, and no call is made before it is removed.       *)
OnlyItselfCleans == "clean" \in Faults => \A q, r \in Procs : q = r

Condemned(s, q) == s \in doomed[q] \/ (disk[s] = "run" /\ ProcOf[s] \in doomed[q])

DoomedIsIdle ==
    \A q \in Procs : doomed[q] # {} =>
        /\ "clean" \in Faults
        /\ \A s \in Sessions : pc[s] \notin InCall
        /\ \A s \in Sessions : Condemned(s, q) => pc[s] = "idle"

\* A home is remembered without a session only where a with block failed.
RememberedIsBegun == \A s \in hasHome : pc[s] # "idle" \/ s \in Scripted

HomeInv == BaseInv /\ DoomedIsIdle /\ RememberedIsBegun /\ HomeWhileSession

LEMMA NothingDoomed ==
  ASSUME HomeInv, OnlyItselfCleans,
         \/ \E p \in Procs : Free(p)
         \/ \E s \in Sessions : pc[s] \in InCall
  PROVE  \A q \in Procs : doomed[q] = {}
BY DEF HomeInv, DoomedIsIdle, OnlyItselfCleans, Free

(* A call that starts or ends sessions while nothing is doomed.            *)
LEMMA CallKeepsHomes ==
  ASSUME HomeInv, doomed' = doomed, \A q \in Procs : doomed[q] = {},
         \A s \in hasHome' : /\ s \in Sessions
                             /\ pc'[s] # "idle" \/ s \in Scripted
                             /\ disk'[s] # "none" \/ (s \in Scripted /\ pc'[s] = "idle")
  PROVE  DoomedIsIdle' /\ RememberedIsBegun' /\ HomeWhileSession'
BY DEF DoomedIsIdle, RememberedIsBegun, HomeWhileSession

LEMMA FailKeepsHomes ==
  ASSUME HomeInv, OnlyItselfCleans, NEW s \in Sessions, Fail(s), \A q \in Procs : doomed[q] = {}
  PROVE  DoomedIsIdle' /\ RememberedIsBegun' /\ HomeWhileSession'
<1>1. /\ Release({s}) /\ {s} \in SUBSET (Sessions \cup Procs) /\ {s} \in SUBSET Sessions
      /\ doomed' = doomed
  BY FailIs DEF HomeInv
<1>2. \A t \in Sessions : disk'[t] = IF t \in {s} /\ ~keep THEN "none" ELSE disk[t]
  BY <1>1, ReleaseEffect DEF HomeInv
<1>3. /\ \A t \in Sessions : pc'[t] = IF t \in {s} THEN "idle" ELSE pc[t]
      /\ hasHome' = hasHome \ {s}
  BY <1>1, FailIs, StopEffect DEF HomeInv
<1>4. hasHome \subseteq Sessions
  BY DEF HomeInv, BaseInv, TypeOK
<1>5. \A t \in hasHome' : /\ t \in Sessions
                          /\ pc'[t] # "idle" \/ t \in Scripted
                          /\ disk'[t] # "none" \/ (t \in Scripted /\ pc'[t] = "idle")
  BY <1>2, <1>3, <1>4 DEF HomeInv, RememberedIsBegun, HomeWhileSession
<1> QED
  BY <1>1, <1>5, CallKeepsHomes

(* stop() and the exit sweep the whole area: of the homes in it that no    *)
(* session stopped here has, only a with block's can be remembered.        *)
LEMMA CloseRunKeepsHomes ==
  ASSUME HomeInv, OnlyItselfCleans, NEW q \in Procs, Free(q), NEW F, CloseRun(q, F), doomed' = doomed
  PROVE  DoomedIsIdle' /\ RememberedIsBegun' /\ HomeWhileSession'
<1>1. PICK R \in SUBSET (Sessions \cup Procs) :
            /\ StopGuests(running \cap Mine(q), F)
            /\ Release(R)
            /\ R \cap Sessions \subseteq Mine(q)
            /\ \A s \in Mine(q) : s \in running \/ pc[s] = "idle"
  BY CloseRunIs DEF HomeInv
<1>2. \A s \in Sessions : disk'[s] = IF s \in R /\ ~keep THEN "none" ELSE disk[s]
  <2>1. BaseInv /\ Release(R)
    BY <1>1 DEF HomeInv
  <2> QED
    BY ONLY <2>1, R \in SUBSET (Sessions \cup Procs), ReleaseEffect
<1>3. /\ \A s \in Sessions : pc'[s] = IF s \in running \cap Mine(q) THEN "idle" ELSE pc[s]
      /\ hasHome' = hasHome \ (running \cap Mine(q))
  BY <1>1 DEF StopGuests
<1>4. \A p \in Procs : doomed[p] = {}
  BY NothingDoomed
<1>5. hasHome \subseteq Sessions
  BY DEF HomeInv, BaseInv, TypeOK
<1>6. \A t \in hasHome' : /\ t \in Sessions
                          /\ pc'[t] # "idle" \/ t \in Scripted
                          /\ disk'[t] # "none" \/ (t \in Scripted /\ pc'[t] = "idle")
  <2>1. TAKE t \in hasHome'
  <2>2. t \in Sessions /\ t \in hasHome /\ pc'[t] = pc[t]
    BY <1>3, <1>5
  <2>3. pc[t] # "idle" \/ t \in Scripted
    BY <2>2 DEF HomeInv, RememberedIsBegun
  <2>4. CASE t \in Mine(q)
    <3>1. pc[t] = "idle"
      BY <1>1, <1>3, <2>4
    <3> QED
      BY <2>2, <2>3, <3>1
  <2>5. CASE t \notin Mine(q)
    <3>1. disk'[t] = disk[t]
      BY <1>1, <1>2, <2>2, <2>5
    <3> QED
      BY <2>2, <2>3, <3>1 DEF HomeInv, HomeWhileSession
  <2> QED
    BY <2>4, <2>5
<1> QED
  BY <1>4, <1>6, CallKeepsHomes

LEMMA HomeInvInit == Init => HomeInv
BY BaseInvInit DEF Init, HomeInv, DoomedIsIdle, RememberedIsBegun, HomeWhileSession

LEMMA HomeInvStep == OnlyItselfCleans /\ HomeInv /\ [Next]_vars => HomeInv'
<1> SUFFICES ASSUME OnlyItselfCleans, HomeInv, [Next]_vars
             PROVE  DoomedIsIdle' /\ RememberedIsBegun' /\ HomeWhileSession'
  BY BaseInvStep DEF HomeInv
<1>t. /\ hasHome \subseteq Sessions /\ pc \in [Sessions -> InCall \cup {"idle", "ready"}]
      /\ disk \in [Sessions -> {"none", "run", "lone"}]
      /\ doomed \in [Procs -> SUBSET (Sessions \cup Procs)]
  BY DEF HomeInv, BaseInv, TypeOK
<1>1. ASSUME NEW s \in Sessions, MakeHome(s) PROVE DoomedIsIdle' /\ RememberedIsBegun' /\ HomeWhileSession'
  <2>1. \A q \in Procs : doomed[q] = {}
    BY <1>1, NothingDoomed, GuestHomesAssumption DEF MakeHome
  <2>2. /\ pc' = [pc EXCEPT ![s] = "homed"] /\ hasHome' = hasHome \cup {s} /\ doomed' = doomed
        /\ disk' = [disk EXCEPT ![s] = IF ProcOf[s] \in area THEN "run" ELSE "lone"]
    BY <1>1 DEF MakeHome, Goto
  <2>3. \A t \in hasHome' : /\ t \in Sessions
                            /\ pc'[t] # "idle" \/ t \in Scripted
                            /\ disk'[t] # "none" \/ (t \in Scripted /\ pc'[t] = "idle")
    BY <1>t, <2>2 DEF HomeInv, RememberedIsBegun, HomeWhileSession
  <2> QED
    BY <2>1, <2>2, <2>3, CallKeepsHomes
<1>2. ASSUME NEW s \in Sessions, pc[s] \in InCall, StartStep(s)
      PROVE  DoomedIsIdle' /\ RememberedIsBegun' /\ HomeWhileSession'
  <2>1. \A q \in Procs : doomed[q] = {}
    BY <1>2, NothingDoomed
  <2>2. CASE Fail(s)
    BY <2>1, <2>2, FailKeepsHomes
  <2>3. CASE ~Fail(s)
    <3>1. /\ hasHome' = hasHome /\ doomed' = doomed
          /\ \/ pc' = [pc EXCEPT ![s] = "idle"] /\ s \in Scripted
             \/ \E stage \in {"staged", "created", "booting", "ready"} : pc' = [pc EXCEPT ![s] = stage]
          /\ \/ disk' = disk
             \/ disk' = [disk EXCEPT ![s] = IF ProcOf[s] \in area THEN "run" ELSE "lone"]
      BY <1>2, <2>3 DEF StartStep, StageFiles, Create, Boot, Settle, Goto, onDisk
    <3>2. \A t \in hasHome' : /\ t \in Sessions
                              /\ pc'[t] # "idle" \/ t \in Scripted
                              /\ disk'[t] # "none" \/ (t \in Scripted /\ pc'[t] = "idle")
      BY <1>t, <1>2, <3>1 DEF HomeInv, RememberedIsBegun, HomeWhileSession, InCall
    <3> QED
      BY <2>1, <3>1, <3>2, CallKeepsHomes
  <2> QED
    BY <2>2, <2>3
<1>3. ASSUME NEW s \in Sessions, StopGuest(s) PROVE DoomedIsIdle' /\ RememberedIsBegun' /\ HomeWhileSession'
  <2>1. \A q \in Procs : doomed[q] = {}
    BY <1>3, NothingDoomed, GuestHomesAssumption DEF StopGuest
  <2> QED
    BY <1>3, <2>1, FailKeepsHomes DEF StopGuest
<1>4. ASSUME NEW q \in Procs, StartRun(q) PROVE DoomedIsIdle' /\ RememberedIsBegun' /\ HomeWhileSession'
  <2>1. \A p \in Procs : doomed[p] = {}
    BY <1>4, NothingDoomed DEF StartRun
  <2> QED
    BY <1>4, <2>1 DEF StartRun, HomeInv, DoomedIsIdle, RememberedIsBegun, HomeWhileSession
<1>5. ASSUME NEW q \in Procs, StopRun(q) \/ Exit(q)
      PROVE  DoomedIsIdle' /\ RememberedIsBegun' /\ HomeWhileSession'
  BY <1>5, CloseRunKeepsHomes DEF StopRun, Exit
<1>6. ASSUME NEW q \in Procs, Kill(q) PROVE DoomedIsIdle' /\ RememberedIsBegun' /\ HomeWhileSession'
  <2>1. /\ hasHome' = hasHome \ Mine(q) /\ disk' = disk
        /\ pc' = [s \in Sessions |-> IF s \in Mine(q) THEN "idle" ELSE pc[s]]
        /\ doomed' = [doomed EXCEPT ![q] = {}]
    BY <1>6 DEF Kill, onDisk
  <2>2. \A s \in Sessions : pc'[s] \in {pc[s], "idle"}
    BY <2>1
  <2>3. \A p \in Procs : doomed'[p] \in {{}, doomed[p]}
    BY <1>t, <2>1
  <2>4. DoomedIsIdle'
    BY <2>1, <2>2, <2>3 DEF HomeInv, DoomedIsIdle, Condemned, InCall
  <2>5. \A t \in hasHome' : t \in hasHome /\ pc'[t] = pc[t]
    BY <1>t, <2>1
  <2> QED
    BY <2>1, <2>4, <2>5 DEF HomeInv, RememberedIsBegun, HomeWhileSession
<1>7. ASSUME NEW q \in Procs, CleanJudges(q) PROVE DoomedIsIdle' /\ RememberedIsBegun' /\ HomeWhileSession'
  <2>1. /\ "clean" \in Faults /\ Free(q) /\ UNCHANGED <<disk, hasHome, pc>>
        /\ \A p \in Procs : p = q
    BY <1>7 DEF CleanJudges, onDisk, memory, OnlyItselfCleans
  <2>2. \A s \in Sessions : ProcOf[s] = q /\ s \in Mine(q) /\ pc[s] \notin InCall
    BY <2>1, GuestHomesAssumption DEF Free, Mine
  <2>3. \A s \in Sessions : ~InUse(q, s) => pc[s] = "idle"
    BY <1>t, <2>2 DEF InUse, HomeInv, BaseInv, TypeOK, InCall
  <2>4. CASE \E r \in runDir : /\ \A s \in InRun(r) : ~InUse(q, s)
                               /\ doomed' = [doomed EXCEPT ![q] = {r}]
    <3>1. PICK r \in runDir : /\ \A s \in InRun(r) : ~InUse(q, s)
                              /\ doomed' = [doomed EXCEPT ![q] = {r}]
      BY <2>4
    <3>2. r = q /\ r \notin Sessions /\ doomed'[q] = {r}
      BY <1>t, <2>1, <3>1, GuestHomesAssumption DEF HomeInv, BaseInv, TypeOK
    <3>3. \A s \in Sessions : disk[s] = "run" => pc[s] = "idle"
      BY <2>2, <2>3, <3>1, <3>2 DEF InRun
    <3>4. DoomedIsIdle'
      BY <2>1, <2>2, <3>2, <3>3 DEF DoomedIsIdle, Condemned
    <3> QED
      BY <2>1, <3>4 DEF HomeInv, RememberedIsBegun, HomeWhileSession
  <2>5. CASE \E s \in Sessions : /\ disk[s] = "lone" /\ ~InUse(q, s)
                                 /\ doomed' = [doomed EXCEPT ![q] = {s}]
    <3>1. PICK s \in Sessions : ~InUse(q, s) /\ doomed' = [doomed EXCEPT ![q] = {s}]
      BY <2>5
    <3>2. q \notin Sessions /\ doomed'[q] = {s}
      BY <1>t, <3>1, GuestHomesAssumption
    <3>3. DoomedIsIdle'
      BY <2>1, <2>2, <2>3, <3>1, <3>2 DEF DoomedIsIdle, Condemned
    <3> QED
      BY <2>1, <3>3 DEF HomeInv, RememberedIsBegun, HomeWhileSession
  <2> QED
    BY <1>7, <2>4, <2>5 DEF CleanJudges
<1>8. ASSUME NEW q \in Procs, CleanRemoves(q) PROVE DoomedIsIdle' /\ RememberedIsBegun' /\ HomeWhileSession'
  <2>1. /\ doomed[q] # {} /\ UNCHANGED <<hasHome, pc>> /\ doomed' = [doomed EXCEPT ![q] = {}]
        /\ \A s \in Sessions : disk'[s] = IF Condemned(s, q) THEN "none" ELSE disk[s]
    BY <1>8 DEF CleanRemoves, Condemned, memory
  <2>2. \A p \in Procs : p = q
    BY <2>1 DEF HomeInv, DoomedIsIdle, OnlyItselfCleans
  <2>3. DoomedIsIdle'
    BY <1>t, <2>1, <2>2 DEF DoomedIsIdle
  <2>4. \A s \in Sessions : Condemned(s, q) => pc[s] = "idle"
    BY <2>1 DEF HomeInv, DoomedIsIdle
  <2> QED
    BY <1>t, <2>1, <2>3, <2>4 DEF HomeInv, RememberedIsBegun, HomeWhileSession
<1>9. CASE UNCHANGED vars
  BY <1>9 DEF vars, onDisk, memory, HomeInv, DoomedIsIdle, Condemned, RememberedIsBegun, HomeWhileSession
<1>10. \A s \in Sessions : StartStep(s) => pc[s] \in InCall
  BY DEF StartStep, StageFiles, Create, Boot, Settle, InCall
<1> QED
  BY <1>1, <1>2, <1>3, <1>4, <1>5, <1>6, <1>7, <1>8, <1>9, <1>10 DEF Next

(* Where no other process cleans, a session's home is there until it is    *)
(* stopped: neither the end of the run it began in, nor a kill, nor the    *)
(* process's own clean takes it away, however many sessions and runs there *)
(* are and whatever fails.  With nobody cleaning that is so of any number  *)
(* of processes.                                                           *)
THEOREM HomesOutlastSessions ==
  ASSUME OnlyItselfCleans
  PROVE  Spec => []HomeWhileSession
<1>1. Init => HomeInv
  BY HomeInvInit
<1>2. HomeInv /\ [Next]_vars => HomeInv'
  BY HomeInvStep
<1>3. HomeInv => HomeWhileSession
  BY DEF HomeInv
<1> QED
  BY <1>1, <1>2, <1>3, PTL DEF Spec

-----------------------------------------------------------------------------
(* What a clean has judged stale has no machine up in it, and none boots   *)
(* before it is removed.                                                   *)
DoomedIsDown ==
    \A q \in Procs : \A s \in Sessions : Condemned(s, q) => machine[s] # "up"

RestInv == HomeInv /\ UpIsTracked /\ DoomedIsDown /\ ReleasedAtRest

LEMMA NoneIsDown ==
  ASSUME doomed' = doomed, \A q \in Procs : doomed[q] = {}
  PROVE  DoomedIsDown'
BY DEF DoomedIsDown, Condemned

LEMMA FailRests ==
  ASSUME RestInv, NEW s \in Sessions, Fail(s)
  PROVE  ReleasedAtRest'
<1>1. \A t \in Sessions : machine'[t] = "up" => machine[t] = "up" /\ t # s
  BY FailUp DEF RestInv, HomeInv
<1>2. Release({s}) /\ {s} \in SUBSET (Sessions \cup Procs)
  BY FailIs DEF RestInv, HomeInv
<1>3. /\ \A t \in Sessions : disk'[t] = IF t \in {s} /\ ~keep THEN "none" ELSE disk[t]
      /\ kept' = IF keep THEN kept \cup {s} ELSE kept
  BY <1>2, ReleaseEffect DEF RestInv, HomeInv
<1> QED
  BY <1>1, <1>3 DEF RestInv, ReleasedAtRest

LEMMA CloseRunRests ==
  ASSUME RestInv, NEW q \in Procs, Free(q), NEW F, CloseRun(q, F),
         status' = status \/ status' = [status EXCEPT ![q] = "exited"]
  PROVE  ReleasedAtRest'
<1>1. PICK R \in SUBSET (Sessions \cup Procs) : Release(R) /\ R \cap Sessions \subseteq Mine(q)
  BY CloseRunIs DEF RestInv, HomeInv
<1>2. /\ \A s \in Sessions : machine'[s] = "up" => machine[s] = "up" /\ s \notin running \cap Mine(q)
      /\ \A s \in Mine(q) : machine[s] = "up" => s \in running
  BY CloseRunUp DEF RestInv, HomeInv
<1>3. /\ \A s \in Sessions : disk'[s] = IF s \in R /\ ~keep THEN "none" ELSE disk[s]
      /\ kept' = IF keep THEN kept \cup R ELSE kept
  BY <1>1, ReleaseEffect DEF RestInv, HomeInv
<1>4. \A s \in Sessions : machine'[s] = "up" => machine[s] = "up" /\ s \notin R
  BY <1>1, <1>2
<1> QED
  BY <1>3, <1>4 DEF RestInv, ReleasedAtRest

LEMMA RestInvStep == OnlyItselfCleans /\ RestInv /\ [Next]_vars => RestInv'
<1> SUFFICES ASSUME OnlyItselfCleans, RestInv, [Next]_vars
             PROVE  DoomedIsDown' /\ ReleasedAtRest'
  BY HomeInvStep, UpIsTrackedStep DEF RestInv, HomeInv
<1> USE DEF RestInv, HomeInv, BaseInv, TypeOK
<1>1. ASSUME NEW s \in Sessions, MakeHome(s) PROVE DoomedIsDown' /\ ReleasedAtRest'
  <2>1. \A q \in Procs : doomed[q] = {}
    BY <1>1, NothingDoomed, GuestHomesAssumption DEF MakeHome
  <2> QED
    BY <1>1, <2>1, NoneIsDown DEF MakeHome, ReleasedAtRest
<1>2. ASSUME NEW s \in Sessions, pc[s] \in InCall, StartStep(s) PROVE DoomedIsDown' /\ ReleasedAtRest'
  <2>1. (\A q \in Procs : doomed[q] = {}) /\ s \notin kept
    BY <1>2, NothingDoomed DEF AtWork, InCall
  <2>2. CASE Fail(s)
    BY <2>1, <2>2, FailRests, FailIs, NoneIsDown
  <2>3. CASE ~Fail(s)
    <3>1. /\ kept' = kept /\ doomed' = doomed
          /\ \/ disk' = disk
             \/ disk' = [disk EXCEPT ![s] = IF ProcOf[s] \in area THEN "run" ELSE "lone"]
          /\ \/ machine' = machine
             \/ machine' = [machine EXCEPT ![s] = "rest"]
             \/ /\ machine' = [machine EXCEPT ![s] = "up"]
                /\ disk[s] # "none" /\ disk' = disk
      BY <1>2, <2>3 DEF StartStep, StageFiles, Create, Boot, Settle, onDisk
    <3>2. ReleasedAtRest'
      BY <2>1, <3>1 DEF ReleasedAtRest
    <3> QED
      BY <2>1, <3>1, <3>2, NoneIsDown
  <2> QED
    BY <2>2, <2>3
<1>3. ASSUME NEW s \in Sessions, StopGuest(s) PROVE DoomedIsDown' /\ ReleasedAtRest'
  <2>1. \A q \in Procs : doomed[q] = {}
    BY <1>3, NothingDoomed, GuestHomesAssumption DEF StopGuest
  <2> QED
    BY <1>3, <2>1, FailRests, FailIs, NoneIsDown DEF StopGuest
<1>4. ASSUME NEW q \in Procs, StartRun(q) PROVE DoomedIsDown' /\ ReleasedAtRest'
  BY <1>4, GuestHomesAssumption DEF StartRun, DoomedIsDown, Condemned, ReleasedAtRest
<1>5. ASSUME NEW q \in Procs, StopRun(q) \/ Exit(q) PROVE DoomedIsDown' /\ ReleasedAtRest'
  <2>1. Free(q) /\ doomed' = doomed
    BY <1>5 DEF StopRun, Exit
  <2>2. \A p \in Procs : doomed[p] = {}
    BY <2>1, NothingDoomed
  <2> QED
    BY <1>5, <2>1, <2>2, CloseRunRests, NoneIsDown DEF StopRun, Exit
<1>6. ASSUME NEW q \in Procs, Kill(q) PROVE DoomedIsDown' /\ ReleasedAtRest'
  <2>1. /\ UNCHANGED <<disk, machine, kept>> /\ doomed' = [doomed EXCEPT ![q] = {}]
    BY <1>6 DEF Kill, onDisk
  <2>2. \A p \in Procs : doomed'[p] \in {{}, doomed[p]}
    BY <2>1
  <2> QED
    BY <2>1, <2>2 DEF DoomedIsDown, Condemned, ReleasedAtRest
<1>7. ASSUME NEW q \in Procs, CleanJudges(q) PROVE DoomedIsDown' /\ ReleasedAtRest'
  <2>1. /\ UNCHANGED <<disk, machine, kept>> /\ \A p \in Procs : p = q
    BY <1>7 DEF CleanJudges, onDisk, OnlyItselfCleans
  <2>2. ReleasedAtRest'
    BY <2>1 DEF ReleasedAtRest
  <2>3. \A s \in Sessions : disk[s] # "none" /\ ~InUse(q, s) => machine[s] # "up"
    BY DEF InUse
  <2>4. CASE \E r \in runDir : /\ \A s \in InRun(r) : ~InUse(q, s)
                               /\ doomed' = [doomed EXCEPT ![q] = {r}]
    <3>1. PICK r \in runDir : /\ \A s \in InRun(r) : ~InUse(q, s)
                              /\ doomed' = [doomed EXCEPT ![q] = {r}]
      BY <2>4
    <3>2. r = q /\ r \notin Sessions /\ doomed'[q] = {r}
      BY <2>1, <3>1, GuestHomesAssumption
    <3>3. \A s \in Sessions : disk[s] = "run" => machine[s] # "up"
      BY <2>1, <2>3, <3>1, <3>2, GuestHomesAssumption DEF InRun, Mine
    <3> QED
      BY <2>1, <2>2, <3>2, <3>3 DEF DoomedIsDown, Condemned
  <2>5. CASE \E s \in Sessions : /\ disk[s] = "lone" /\ ~InUse(q, s)
                                 /\ doomed' = [doomed EXCEPT ![q] = {s}]
    <3>1. PICK s \in Sessions : /\ disk[s] = "lone" /\ ~InUse(q, s)
                                /\ doomed' = [doomed EXCEPT ![q] = {s}]
      BY <2>5
    <3>2. (\A t \in Sessions : ProcOf[t] # s) /\ doomed'[q] = {s} /\ machine[s] # "up"
      BY <2>3, <3>1, GuestHomesAssumption
    <3> QED
      BY <2>1, <2>2, <3>2 DEF DoomedIsDown, Condemned
  <2> QED
    BY <1>7, <2>4, <2>5 DEF CleanJudges
<1>8. ASSUME NEW q \in Procs, CleanRemoves(q) PROVE DoomedIsDown' /\ ReleasedAtRest'
  <2>1. /\ doomed[q] # {} /\ kept' = kept /\ doomed' = [doomed EXCEPT ![q] = {}]
        /\ \A s \in Sessions : /\ disk'[s] = IF Condemned(s, q) THEN "none" ELSE disk[s]
                               /\ machine'[s] = "up" => machine[s] = "up"
    BY <1>8 DEF CleanRemoves, Condemned, memory
  <2>2. \A p \in Procs : p = q
    BY <2>1 DEF DoomedIsIdle, OnlyItselfCleans
  <2>3. DoomedIsDown'
    BY <2>1, <2>2 DEF DoomedIsDown, Condemned
  <2>4. ReleasedAtRest'
    BY <2>1 DEF DoomedIsDown, ReleasedAtRest
  <2> QED
    BY <2>3, <2>4
<1>9. CASE UNCHANGED vars
  BY <1>9 DEF vars, onDisk, memory, DoomedIsDown, Condemned, ReleasedAtRest
<1>10. \A s \in Sessions : StartStep(s) => pc[s] \in InCall
  BY DEF StartStep, StageFiles, Create, Boot, Settle, InCall
<1> QED
  BY <1>1, <1>2, <1>3, <1>4, <1>5, <1>6, <1>7, <1>8, <1>9, <1>10 DEF Next

(* P6: provided that no other process cleans meanwhile, no machine is ever *)
(* up in a home that was swept or handed to the tester, whatever fails,    *)
(* however many runs and sessions there are, and even when processes are   *)
(* killed; one whose stop raised is "stuck", and may be.                   *)
THEOREM MachinesAreReleasedAtRest ==
  ASSUME OnlyItselfCleans
  PROVE  Spec => []ReleasedAtRest
<1>1. Init => RestInv
  BY HomeInvInit DEF Init, RestInv, UpIsTracked, DoomedIsDown, Condemned, ReleasedAtRest
<1>2. RestInv /\ [Next]_vars => RestInv'
  BY RestInvStep
<1>3. RestInv => ReleasedAtRest
  BY DEF RestInv
<1> QED
  BY <1>1, <1>2, <1>3, PTL DEF Spec

-----------------------------------------------------------------------------
(* Every home of a suite on disk is one its session will hand back, and    *)
(* every run directory one its process has open; only what the tester      *)
(* keeps is neither.                                                       *)
HomesAreHeld ==
    \A s \in Sessions \ Scripted :
        status[ProcOf[s]] = "alive" /\ disk[s] # "none" /\ ~keep => pc[s] # "idle"

RunsAreOpen == \A q \in runDir : status[q] = "alive" => q \in area \cup kept

ExitInv == BaseInv /\ UpIsTracked /\ HomesAreHeld /\ RunsAreOpen /\ ExitIsClean

LEMMA FailExits ==
  ASSUME ExitInv, NEW s \in Sessions, pc[s] # "idle", Fail(s)
  PROVE  HomesAreHeld' /\ RunsAreOpen' /\ ExitIsClean'
<1>1. \A t \in Sessions : machine'[t] = "up" => machine[t] = "up"
  BY FailUp DEF ExitInv
<1>2. /\ Release({s}) /\ {s} \in SUBSET (Sessions \cup Procs) /\ {s} \in SUBSET Sessions
      /\ UNCHANGED <<keep, area, runDir, status>>
  BY FailIs DEF ExitInv
<1>3. /\ \A t \in Sessions : disk'[t] = IF t \in {s} /\ ~keep THEN "none" ELSE disk[t]
      /\ kept' = IF keep THEN kept \cup {s} ELSE kept
  BY <1>2, ReleaseEffect DEF ExitInv
<1>4. \A t \in Sessions : pc'[t] = IF t \in {s} THEN "idle" ELSE pc[t]
  BY <1>2, FailIs, StopEffect DEF ExitInv
<1> QED
  BY <1>1, <1>2, <1>3, <1>4 DEF ExitInv, HomesAreHeld, RunsAreOpen, ExitIsClean, Mine

LEMMA CloseRunExits ==
  ASSUME ExitInv, NEW q \in Procs, Free(q), NEW F, CloseRun(q, F), keep' = keep,
         status' = status \/ status' = [status EXCEPT ![q] = "exited"]
  PROVE  HomesAreHeld' /\ RunsAreOpen' /\ ExitIsClean'
<1>1. PICK R \in SUBSET (Sessions \cup Procs) :
            /\ StopGuests(running \cap Mine(q), F)
            /\ Release(R)
            /\ running \cap Mine(q) \subseteq R /\ R \cap Sessions \subseteq Mine(q)
            /\ q \in area => InRun(q) \subseteq R /\ q \in R
            /\ runDir' = IF q \in area /\ ~keep THEN runDir \ {q} ELSE runDir
            /\ area' = area \ {q}
            /\ \A s \in Mine(q) : s \in running \/ pc[s] = "idle"
  BY CloseRunIs DEF ExitInv
<1>2. /\ \A s \in Sessions : machine'[s] = "up" => machine[s] = "up" /\ s \notin running \cap Mine(q)
      /\ \A s \in Mine(q) : machine[s] = "up" => s \in running
  BY CloseRunUp DEF ExitInv
<1>3. /\ \A s \in Sessions : disk'[s] = IF s \in R /\ ~keep THEN "none" ELSE disk[s]
      /\ kept' = IF keep THEN kept \cup R ELSE kept
  <2>1. BaseInv /\ Release(R)
    BY <1>1 DEF ExitInv
  <2> QED
    BY ONLY <2>1, R \in SUBSET (Sessions \cup Procs), ReleaseEffect
<1>4. running \cap Mine(q) \in SUBSET Sessions
  BY DEF Mine
<1>5. \A s \in Sessions : pc'[s] = IF s \in running \cap Mine(q) THEN "idle" ELSE pc[s]
  BY <1>1 DEF StopGuests
<1>6. /\ status[q] = "alive"
      /\ \A p \in Procs : p # q => status'[p] = status[p]
  BY DEF Free, ExitInv, BaseInv, TypeOK
<1>7. \A s \in Mine(q) : machine'[s] # "up" /\ (disk'[s] # "none" /\ s \notin Scripted => keep)
  <2>1. \A s \in Mine(q) : s \in Sessions /\ ProcOf[s] = q
    BY DEF Mine
  <2>2. \A s \in Mine(q) : machine'[s] # "up"
    BY <1>2, <2>1
  <2>3. \A s \in Mine(q) : ~keep /\ disk[s] # "none" /\ s \notin Scripted => s \in running
    BY <1>1, <1>6, <2>1 DEF ExitInv, HomesAreHeld
  <2> QED
    BY <1>1, <1>3, <2>1, <2>2, <2>3
<1>8. \A s \in Sessions \ Mine(q) :
        /\ ProcOf[s] \in Procs /\ ProcOf[s] # q
        /\ disk'[s] = disk[s] /\ pc'[s] = pc[s] /\ (machine'[s] = "up" => machine[s] = "up")
  BY <1>1, <1>2, <1>3, <1>5, GuestHomesAssumption DEF Mine
<1>9. HomesAreHeld'
  BY <1>6, <1>7, <1>8 DEF ExitInv, HomesAreHeld, Mine
<1>10. q \in runDir' => q \in kept'
  BY <1>1, <1>3, <1>6 DEF ExitInv, RunsAreOpen
<1>11. \A p \in runDir' : p \in runDir /\ (p \in kept => p \in kept')
  BY <1>1, <1>3
<1>12. RunsAreOpen'
  BY <1>1, <1>6, <1>10, <1>11 DEF ExitInv, RunsAreOpen, BaseInv, TypeOK
<1>13. ExitIsClean'
  <2>1. SUFFICES ASSUME NEW p \in Procs, status'[p] = "exited"
                 PROVE  /\ p \in runDir' => p \in kept'
                        /\ \A s \in Mine(p) : /\ machine'[s] # "up"
                                              /\ disk'[s] # "none" /\ s \notin Scripted => keep
    BY DEF ExitIsClean, Mine
  <2>2. CASE p = q
    BY <1>7, <1>10, <2>2
  <2>3. CASE p # q
    <3>1. status[p] = "exited"
      BY <1>6, <2>1, <2>3
    <3>2. \A s \in Mine(p) : s \in Sessions \ Mine(q)
      BY <2>3 DEF Mine
    <3> QED
      BY <1>8, <1>11, <3>1, <3>2 DEF ExitInv, ExitIsClean
  <2> QED
    BY <2>2, <2>3
<1> QED
  BY <1>9, <1>12, <1>13

LEMMA ExitInvStep == ExitInv /\ [Next]_vars => ExitInv'
<1> SUFFICES ASSUME ExitInv, [Next]_vars
             PROVE  HomesAreHeld' /\ RunsAreOpen' /\ ExitIsClean'
  BY BaseInvStep, UpIsTrackedStep DEF ExitInv
<1>1. ASSUME NEW s \in Sessions, MakeHome(s) PROVE HomesAreHeld' /\ RunsAreOpen' /\ ExitIsClean'
  <2>1. status[ProcOf[s]] = "alive" /\ ProcOf[s] \in Procs
    BY <1>1, GuestHomesAssumption DEF MakeHome, Free
  <2>2. HomesAreHeld'
    BY <1>1 DEF MakeHome, Goto, ExitInv, BaseInv, TypeOK, HomesAreHeld
  <2>3. RunsAreOpen'
    BY <1>1 DEF MakeHome, ExitInv, RunsAreOpen
  <2>4. ExitIsClean'
    BY <1>1, <2>1 DEF MakeHome, ExitInv, BaseInv, TypeOK, ExitIsClean, Mine
  <2> QED
    BY <2>2, <2>3, <2>4
<1>2. ASSUME NEW s \in Sessions, StageFiles(s) PROVE HomesAreHeld' /\ RunsAreOpen' /\ ExitIsClean'
  <2>1. pc[s] = "homed"
    BY <1>2 DEF StageFiles
  <2>2. status[ProcOf[s]] = "alive" /\ ProcOf[s] \in Procs
    BY <2>1, GuestHomesAssumption DEF ExitInv, BaseInv, AtWork
  <2>3. CASE Fail(s)
    BY <2>1, <2>3, FailExits
  <2>4. CASE ~Fail(s)
    <3> USE <1>2, <2>1, <2>2, <2>4 DEF ExitInv, BaseInv, TypeOK
    <3>1. HomesAreHeld'
      BY DEF StageFiles, Goto, HomesAreHeld, onDisk, AtWork, InCall
    <3>2. RunsAreOpen'
      BY DEF StageFiles, RunsAreOpen, onDisk, AtWork, InCall
    <3>3. ExitIsClean'
      BY DEF StageFiles, ExitIsClean, Mine, onDisk, AtWork, InCall
    <3> QED
      BY <3>1, <3>2, <3>3
  <2> QED
    BY <2>3, <2>4
<1>3. ASSUME NEW s \in Sessions, Create(s) PROVE HomesAreHeld' /\ RunsAreOpen' /\ ExitIsClean'
  <2>1. pc[s] = "staged"
    BY <1>3 DEF Create
  <2>2. status[ProcOf[s]] = "alive" /\ ProcOf[s] \in Procs
    BY <2>1, GuestHomesAssumption DEF ExitInv, BaseInv, AtWork
  <2>3. CASE Fail(s)
    BY <2>1, <2>3, FailExits
  <2>4. CASE ~Fail(s)
    <3> USE <1>3, <2>1, <2>2, <2>4 DEF ExitInv, BaseInv, TypeOK
    <3>1. HomesAreHeld'
      BY DEF Create, Goto, HomesAreHeld, AtWork
    <3>2. RunsAreOpen'
      BY DEF Create, RunsAreOpen, AtWork
    <3>3. ExitIsClean'
      BY DEF Create, ExitIsClean, Mine, AtWork
    <3> QED
      BY <3>1, <3>2, <3>3
  <2> QED
    BY <2>3, <2>4
<1>4. ASSUME NEW s \in Sessions, Boot(s) PROVE HomesAreHeld' /\ RunsAreOpen' /\ ExitIsClean'
  <2>1. pc[s] = "created"
    BY <1>4 DEF Boot
  <2>2. status[ProcOf[s]] = "alive" /\ ProcOf[s] \in Procs
    BY <2>1, GuestHomesAssumption DEF ExitInv, BaseInv, AtWork
  <2>3. CASE Fail(s)
    BY <2>1, <2>3, FailExits
  <2>4. CASE ~Fail(s)
    <3> USE <1>4, <2>1, <2>2, <2>4 DEF ExitInv, BaseInv, TypeOK
    <3>1. HomesAreHeld'
      BY DEF Boot, Goto, HomesAreHeld, AtWork
    <3>2. RunsAreOpen'
      BY DEF Boot, RunsAreOpen, AtWork
    <3>3. ExitIsClean'
      BY DEF Boot, ExitIsClean, Mine, AtWork
    <3> QED
      BY <3>1, <3>2, <3>3
  <2> QED
    BY <2>3, <2>4
<1>5. ASSUME NEW s \in Sessions, Settle(s) PROVE HomesAreHeld' /\ RunsAreOpen' /\ ExitIsClean'
  <2>1. pc[s] = "booting"
    BY <1>5 DEF Settle
  <2>2. status[ProcOf[s]] = "alive" /\ ProcOf[s] \in Procs
    BY <2>1, GuestHomesAssumption DEF ExitInv, BaseInv, AtWork
  <2>3. CASE Fail(s)
    BY <2>1, <2>3, FailExits
  <2>4. CASE ~Fail(s)
    <3> USE <1>5, <2>1, <2>2, <2>4 DEF ExitInv, BaseInv, TypeOK
    <3>1. HomesAreHeld'
      BY DEF Settle, Goto, HomesAreHeld, onDisk, AtWork
    <3>2. RunsAreOpen'
      BY DEF Settle, RunsAreOpen, onDisk, AtWork
    <3>3. ExitIsClean'
      BY DEF Settle, ExitIsClean, Mine, onDisk, AtWork
    <3> QED
      BY <3>1, <3>2, <3>3
  <2> QED
    BY <2>3, <2>4
<1>6. ASSUME NEW s \in Sessions, StopGuest(s) PROVE HomesAreHeld' /\ RunsAreOpen' /\ ExitIsClean'
  BY <1>6, FailExits DEF StopGuest
<1>7. ASSUME NEW q \in Procs, StartRun(q) PROVE HomesAreHeld' /\ RunsAreOpen' /\ ExitIsClean'
  BY <1>7 DEF StartRun, Free, ExitInv, HomesAreHeld, RunsAreOpen, ExitIsClean, Mine
<1>8. ASSUME NEW q \in Procs, StopRun(q) PROVE HomesAreHeld' /\ RunsAreOpen' /\ ExitIsClean'
  BY <1>8, CloseRunExits DEF StopRun
<1>9. ASSUME NEW q \in Procs, Exit(q) PROVE HomesAreHeld' /\ RunsAreOpen' /\ ExitIsClean'
  BY <1>9, CloseRunExits DEF Exit
<1>10. ASSUME NEW q \in Procs, Kill(q) PROVE HomesAreHeld' /\ RunsAreOpen' /\ ExitIsClean'
  <2>1. /\ status' = [status EXCEPT ![q] = "killed"] /\ area' = area \ {q}
        /\ pc' = [s \in Sessions |-> IF s \in Mine(q) THEN "idle" ELSE pc[s]]
        /\ UNCHANGED <<keep, runDir, disk, machine, kept>>
    BY <1>10 DEF Kill, onDisk
  <2>2. /\ status'[q] = "killed"
        /\ \A p \in Procs : p # q => status'[p] = status[p]
    BY <2>1 DEF ExitInv, BaseInv, TypeOK
  <2>3. HomesAreHeld'
    BY <2>1, <2>2, GuestHomesAssumption DEF ExitInv, HomesAreHeld, Mine
  <2>4. RunsAreOpen'
    BY <2>1, <2>2 DEF ExitInv, BaseInv, TypeOK, RunsAreOpen
  <2>5. ExitIsClean'
    BY <2>1, <2>2 DEF ExitInv, ExitIsClean, Mine
  <2> QED
    BY <2>3, <2>4, <2>5
<1>11. ASSUME NEW q \in Procs, CleanJudges(q) PROVE HomesAreHeld' /\ RunsAreOpen' /\ ExitIsClean'
  BY <1>11 DEF CleanJudges, onDisk, memory, ExitInv, HomesAreHeld, RunsAreOpen, ExitIsClean, Mine
<1>12. ASSUME NEW q \in Procs, CleanRemoves(q) PROVE HomesAreHeld' /\ RunsAreOpen' /\ ExitIsClean'
  <2>1. /\ \A s \in Sessions : /\ disk'[s] \in {disk[s], "none"}
                               /\ machine'[s] = "up" => machine[s] = "up"
        /\ runDir' \subseteq runDir
        /\ UNCHANGED <<keep, area, pc, kept, status>>
    BY <1>12 DEF CleanRemoves, memory, ExitInv, BaseInv, TypeOK
  <2> QED
    BY <2>1 DEF ExitInv, HomesAreHeld, RunsAreOpen, ExitIsClean, Mine
<1>13. CASE UNCHANGED vars
  BY <1>13 DEF vars, onDisk, memory, ExitInv, HomesAreHeld, RunsAreOpen, ExitIsClean, Mine
<1> QED
  BY <1>1, <1>2, <1>3, <1>4, <1>5, <1>6, <1>7,
     <1>8, <1>9, <1>10, <1>11, <1>12, <1>13 DEF Next, StartStep

(* "swept when it ends": a process that came to an orderly end left no     *)
(* machine up but one whose stop raised, and no home of a suite but those  *)
(* it was told to keep, whatever failed and whoever cleaned meanwhile.     *)
THEOREM OrderlyExitIsClean == Spec => []ExitIsClean
<1>1. Init => ExitInv
  BY BaseInvInit DEF Init, ExitInv, UpIsTracked, HomesAreHeld, RunsAreOpen, ExitIsClean, Mine
<1>2. ExitInv /\ [Next]_vars => ExitInv'
  BY ExitInvStep
<1>3. ExitInv => ExitIsClean
  BY DEF ExitInv
<1> QED
  BY <1>1, <1>2, <1>3, PTL DEF Spec
=============================================================================
