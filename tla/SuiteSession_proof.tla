------------------------- MODULE SuiteSession_proof -------------------------
(***************************************************************************)
(* What is proved of SuiteSession, for any plans, any lists of names and   *)
(* any number of calls.                                                    *)
(***************************************************************************)
EXTENDS SuiteSession, SuiteChunks_proof, FiniteSetTheorems, TLAPS

-----------------------------------------------------------------------------
(* The letters of a machine's drives.                                      *)
\* The drives of a bus before a slot: what a letter counts.
Before(bus, n, drives) == {e \in drives : e.bus = bus /\ e.slot < n}

LEMMA PairFinite ==
  ASSUME NEW a, NEW b
  PROVE  IsFiniteSet({a, b})
<1>1. {a, b} = {a} \cup {b}
  OBVIOUS
<1>2. IsFiniteSet({a}) /\ IsFiniteSet({b})
  BY FS_Singleton
<1>. QED
  BY <1>1, <1>2, FS_Union

LEMMA DrivesFinite == IsFiniteSet(Drives)
<1>1. Drives = ({Floppy(0), Floppy(1)} \cup {Hdd(0), Hdd(1)}) \cup {Hdd(2), Hdd(3)}
  BY DEF Drives, Floppy, Hdd, HddSlots
<1>2. IsFiniteSet({Floppy(0), Floppy(1)} \cup {Hdd(0), Hdd(1)})
  BY PairFinite, FS_Union
<1>. QED
  BY <1>1, <1>2, PairFinite, FS_Union

LEMMA BeforeFinite ==
  ASSUME NEW drives \in SUBSET Drives, NEW bus, NEW n
  PROVE  IsFiniteSet(Before(bus, n, drives)) /\ Cardinality(Before(bus, n, drives)) \in Nat
<1>1. Before(bus, n, drives) \subseteq Drives
  BY DEF Before
<1>. QED
  BY <1>1, DrivesFinite, FS_Subset, FS_CardinalityType

LEMMA DriveShape ==
  ASSUME NEW d \in Drives
  PROVE  /\ d.bus \in {"floppy", "hdd"}
         /\ d.slot \in 0 .. 3
         /\ d.bus = "floppy" => d.slot \in 0 .. 1
         /\ d = [bus |-> d.bus, slot |-> d.slot]
BY DEF Drives, Floppy, Hdd, HddSlots

\* One slot more: the drive in it, if there is one.
LEMMA BeforeNext ==
  ASSUME NEW drives \in SUBSET Drives, NEW bus, NEW n \in Nat
  PROVE  Cardinality(Before(bus, n + 1, drives)) =
           Cardinality(Before(bus, n, drives))
             + (IF [bus |-> bus, slot |-> n] \in drives THEN 1 ELSE 0)
<1>. DEFINE d == [bus |-> bus, slot |-> n]
<1>1. CASE d \in drives
  <2>1. Before(bus, n + 1, drives) = Before(bus, n, drives) \cup {d}
    <3>1. ASSUME NEW e \in Before(bus, n + 1, drives), e \notin Before(bus, n, drives)
          PROVE  e = d
      BY <3>1, DriveShape DEF Before
    <3>. QED
      BY <1>1, <3>1, DriveShape DEF Before
  <2>2. d \notin Before(bus, n, drives)
    BY DEF Before
  <2>. QED
    BY <1>1, <2>1, <2>2, BeforeFinite, FS_AddElement
<1>2. CASE d \notin drives
  <2>1. Before(bus, n + 1, drives) = Before(bus, n, drives)
    BY <1>2, DriveShape DEF Before
  <2>. QED
    BY <1>2, <2>1, BeforeFinite
<1>. QED
  BY <1>1, <1>2

LEMMA BeforeFirst ==
  ASSUME NEW drives \in SUBSET Drives, NEW bus
  PROVE  Cardinality(Before(bus, 0, drives)) = 0
<1>1. Before(bus, 0, drives) = {}
  BY DriveShape DEF Before
<1>. QED
  BY <1>1, FS_EmptySet

\* What the guest counts up, slot by slot, is the number of drives before.
LEMMA NextLetterCounts ==
  ASSUME NEW drives \in SUBSET Drives, NEW bus \in {"floppy", "hdd"}
  PROVE  \A n \in 0 .. HddSlots :
           NextLetter(bus, drives)[n] =
             BaseLetter([bus |-> bus, slot |-> 0]) + Cardinality(Before(bus, n, drives))
<1>. DEFINE base == BaseLetter([bus |-> bus, slot |-> 0])
            step(f, n) == IF n = 0 THEN base
                          ELSE f[n - 1] + (IF [bus |-> bus, slot |-> n - 1] \in drives THEN 1 ELSE 0)
            count == [n \in 0 .. HddSlots |-> base + Cardinality(Before(bus, n, drives))]
            next == NextLetter(bus, drives)
<1>1. base \in Nat
  BY DEF BaseLetter
<1>2. ASSUME NEW n \in 0 .. HddSlots
      PROVE  count[n] = step(count, n)
  <2>1. CASE n = 0
    BY <1>1, <2>1, BeforeFirst DEF HddSlots
  <2>2. CASE n # 0
    <3>1. n - 1 \in 0 .. HddSlots /\ n - 1 \in Nat /\ (n - 1) + 1 = n
      BY <2>2 DEF HddSlots
    <3>. QED
      BY <1>1, <2>2, <3>1, BeforeNext, BeforeFinite
  <2>. QED
    BY <2>1, <2>2
<1>3. count = [n \in 0 .. HddSlots |-> step(count, n)]
  BY <1>2
<1>4. next = [n \in 0 .. HddSlots |-> step(next, n)]
  BY <1>3 DEF NextLetter
<1>5. \A n \in 0 .. HddSlots : next[n] = step(next, n) /\ count[n] = step(count, n)
  BY <1>2, <1>4
<1>6. \A n \in 0 .. HddSlots : next[n] = count[n]
  <2>. HIDE DEF next, count, base
  <2>0. next[0] = count[0]
    BY <1>5 DEF HddSlots
  <2>1. next[1] = count[1]
    BY <1>5, <2>0 DEF HddSlots
  <2>2. next[2] = count[2]
    BY <1>5, <2>1 DEF HddSlots
  <2>3. next[3] = count[3]
    BY <1>5, <2>2 DEF HddSlots
  <2>4. next[4] = count[4]
    BY <1>5, <2>3 DEF HddSlots
  <2>. QED
    BY <2>0, <2>1, <2>2, <2>3, <2>4 DEF HddSlots
<1>. QED
  BY <1>6

(* "DOS assigns a floppy controller's drives A:/B: by position, and a hard *)
(* disk C: onward by slot order": whatever drives a machine has, a letter  *)
(* computed for one from the document is the letter it gets in the guest.  *)
THEOREM LettersAreTheGuests ==
  ASSUME NEW drives \in SUBSET Drives, NEW d \in drives
  PROVE  GuestLetter(d, drives) = LetterOf(d, drives)
<1>1. d.bus \in {"floppy", "hdd"} /\ d.slot \in 0 .. HddSlots
  BY DriveShape DEF HddSlots
<1>2. LetterOf(d, drives) = BaseLetter(d) + Cardinality(Before(d.bus, d.slot, drives))
  BY DEF LetterOf, Before
<1>. QED
  BY <1>1, <1>2, NextLetterCounts DEF GuestLetter, BaseLetter

LEMMA LetterAbove ==
  ASSUME NEW drives \in SUBSET Drives, NEW d \in drives, NEW e \in drives,
         d.bus = e.bus, d.slot < e.slot
  PROVE  LetterOf(d, drives) < LetterOf(e, drives)
<1>. DEFINE lower == Before(d.bus, d.slot, drives)
            upper == Before(d.bus, e.slot, drives)
<1>1. lower \subseteq upper /\ d \in upper /\ d \notin lower
  BY DriveShape DEF Before
<1>2. Cardinality(lower) < Cardinality(upper)
  BY <1>1, BeforeFinite, FS_Subset
<1>3. /\ LetterOf(d, drives) = BaseLetter(d) + Cardinality(lower)
      /\ LetterOf(e, drives) = BaseLetter(d) + Cardinality(upper)
  BY DEF LetterOf, Before, BaseLetter
<1>. QED
  BY <1>2, <1>3, BeforeFinite DEF BaseLetter

LEMMA LetterRange ==
  ASSUME NEW drives \in SUBSET Drives, NEW d \in drives
  PROVE  /\ LetterOf(d, drives) \in Nat
         /\ d.bus = "floppy" => LetterOf(d, drives) < 2
         /\ d.bus # "floppy" => LetterOf(d, drives) >= 2
<1>1. LetterOf(d, drives) = BaseLetter(d) + Cardinality(Before(d.bus, d.slot, drives))
  BY DEF LetterOf, Before
<1>2. Cardinality(Before(d.bus, d.slot, drives)) \in Nat
  BY BeforeFinite
<1>3. ASSUME d.bus = "floppy"
      PROVE  Cardinality(Before(d.bus, d.slot, drives)) < 2
  <2>1. Cardinality(Before("floppy", 0, drives)) = 0
    BY BeforeFirst
  <2>2. Cardinality(Before("floppy", 0 + 1, drives)) =
          Cardinality(Before("floppy", 0, drives))
            + (IF [bus |-> "floppy", slot |-> 0] \in drives THEN 1 ELSE 0)
    BY BeforeNext
  <2>3. Cardinality(Before("floppy", 1, drives)) < 2
    BY <2>1, <2>2
  <2>. QED
    BY <1>3, <2>1, <2>3, DriveShape
<1>. QED
  BY <1>1, <1>2, <1>3 DEF BaseLetter

\* No letter comes after F: four disks, the first of them C.
LEMMA LetterBound ==
  ASSUME NEW drives \in SUBSET Drives, NEW d \in drives
  PROVE  LetterOf(d, drives) \in 0 .. 5
<1>. DEFINE count(n) == Cardinality(Before(d.bus, n, drives))
<1>1. ASSUME NEW n \in Nat
      PROVE  count(n) \in Nat /\ count(n + 1) <= count(n) + 1
  <2>1. count(n) \in Nat /\ count(n + 1) \in Nat
    BY BeforeFinite
  <2>2. count(n + 1) = count(n) + (IF [bus |-> d.bus, slot |-> n] \in drives THEN 1 ELSE 0)
    BY BeforeNext
  <2>. QED
    BY <2>1, <2>2
<1>2. count(0) = 0
  BY BeforeFirst
<1>3. count(1) <= 1 /\ count(2) <= 2 /\ count(3) <= 3
  <2>. HIDE DEF count
  <2>1. count(0 + 1) <= count(0) + 1 /\ count(1 + 1) <= count(1) + 1 /\ count(2 + 1) <= count(2) + 1
    BY <1>1
  <2>. QED
    BY <1>1, <1>2, <2>1
<1>4. count(d.slot) <= 3
  BY <1>1, <1>2, <1>3, DriveShape
<1>5. LetterOf(d, drives) = BaseLetter(d) + count(d.slot)
  BY DEF LetterOf, Before
<1>. DEFINE m == count(d.slot)
<1>6. m \in Nat /\ m <= 3
  BY <1>1, <1>4, DriveShape
<1>7. BaseLetter(d) \in {0, 2}
  BY DEF BaseLetter
<1>. HIDE DEF m
<1>. QED
  BY ONLY <1>5, <1>6, <1>7 DEF m

(* "The address staged against is the address spelled": a letter names one *)
(* drive of a machine at most, so the drive an address is resolved to is   *)
(* the only one a command typed at that address can find.                  *)
THEOREM LettersAreDistinct ==
  ASSUME NEW drives \in SUBSET Drives, NEW d \in drives, NEW e \in drives,
         LetterOf(d, drives) = LetterOf(e, drives)
  PROVE  d = e
<1>1. d.bus = e.bus
  BY LetterRange, DriveShape
<1>2. ~(d.slot < e.slot) /\ ~(e.slot < d.slot)
  BY <1>1, LetterAbove, LetterRange
<1>. QED
  BY <1>1, <1>2, DriveShape

-----------------------------------------------------------------------------
(* Where a session is, and what that says of its address and its setup.    *)
OnMachine == Now.provider = "reliquary"

FlowInv ==
    /\ plan \in Plans /\ turn \in 1 .. Len(plan)
    /\ stage \in {"idle", "staged", "made", "placed", "booted", "up", "over"}
    /\ stage \in {"staged", "made", "placed", "booted"} => OnMachine
    /\ stage \notin {"placed", "booted", "up"} => address = NoAddress
    /\ stage = "up" /\ Now.provider = "callable" => address = NoAddress
    /\ stage = "up" /\ OnMachine => setups = Now.setup
    /\ last.tried => stage \in {"up", "over"}
    /\ busy => stage = "up"

LEMMA NowType ==
  ASSUME plan \in Plans, turn \in 1 .. Len(plan)
  PROVE  Now \in Sessions
BY SuiteSessionAssumption DEF Now

LEMMA FlowInit == SessionInit => FlowInv
<1>. SUFFICES ASSUME SessionInit
              PROVE  FlowInv
  OBVIOUS
<1>1. plan \in Plans /\ Len(plan) \in Nat /\ plan # <<>>
  BY SuiteSessionAssumption DEF SessionInit
<1>2. turn \in 1 .. Len(plan)
  BY <1>1, SuiteSessionAssumption DEF SessionInit
<1>. QED
  BY <1>1, <1>2 DEF SessionInit, FlowInv, Nobody

LEMMA FlowStep == FlowInv /\ [SessionNext]_sessionVars => FlowInv'
<1>. SUFFICES ASSUME FlowInv, [SessionNext]_sessionVars
              PROVE  FlowInv'
  OBVIOUS
<1>. USE DEF FlowInv, Now, OnMachine, StopGuest, exchanges
<1>1. CASE Stage
  BY <1>1 DEF Stage
<1>2. CASE Reopen
  BY <1>2 DEF Reopen
<1>3. CASE Create
  BY <1>3 DEF Create
<1>4. CASE PlaceSuite
  BY <1>4 DEF PlaceSuite
<1>5. CASE Boot
  BY <1>5 DEF Boot
<1>6. CASE Setup
  BY <1>6 DEF Setup
<1>7. CASE StartBatch
  BY <1>7 DEF StartBatch
<1>8. CASE StartCallable
  BY <1>8 DEF StartCallable
<1>9. CASE RunSome
  BY <1>9 DEF RunSome
<1>10. CASE Cut
  BY <1>10 DEF Cut
<1>11. CASE Type
  BY <1>11 DEF Type, Asking, Reads, Raises, Exchanged, homes, Runs
<1>12. CASE Invoke
  BY <1>12 DEF Invoke, Asking, Reads, Raises, Exchanged, homes, Runs
<1>13. CASE Call
  BY <1>13 DEF Call, Asking, Reads, Raises, Exchanged, homes
<1>14. CASE Return
  BY <1>14 DEF Return
<1>15. CASE GuestWrites
  BY <1>15 DEF GuestWrites
<1>16. CASE Stop
  BY <1>16 DEF Stop
<1>17. CASE NextSession
  <2>1. turn' \in 1 .. Len(plan') /\ plan' \in Plans
    BY <1>17, SuiteSessionAssumption DEF NextSession
  <2>. QED
    BY <1>17, <2>1 DEF NextSession, Nobody
<1>18. CASE CleanSystem
  BY <1>18 DEF CleanSystem
<1>19. CASE UNCHANGED sessionVars
  BY <1>19 DEF sessionVars
<1>. QED
  BY <1>1, <1>2, <1>3, <1>4, <1>5, <1>6, <1>7, <1>8, <1>9, <1>10, <1>11, <1>12, <1>13, <1>14,
     <1>15, <1>16, <1>17, <1>18, <1>19 DEF SessionNext, Start, Exchange

-----------------------------------------------------------------------------
(* The homes: a machine, if there is one, has a work drive in a slot of    *)
(* its own, and every medium is one of the five testaferro authors.        *)
HomesInv ==
    /\ work \in [Homes -> [Dirs -> Nat]]
    /\ disk \in [Homes -> [Drives -> [Dirs -> Nat]]]
    /\ DOMAIN document = Homes
    /\ \A h \in Homes : Machine(h) \subseteq Drives
    /\ \A h \in Homes : \A d \in Machine(h) : document[h][d] \in Media
    /\ \A h \in Homes :
          Machine(h) # {} => \E d \in Machine(h) : document[h][d].location = "work"

LEMMA HomesHaveH == H \in Homes
BY DEF H, Homes

LEMMA WorkDriveIsThere ==
  ASSUME HomesInv, NEW h \in Homes, Machine(h) # {}
  PROVE  WorkDrive(h) \in Machine(h)
BY DEF HomesInv, WorkDrive

LEMMA WorkSlotIsFree ==
  ASSUME NEW drives \in SUBSET Drives, FreeSlots(drives) # {}
  PROVE  WorkSlot(drives) \in Drives /\ WorkSlot(drives) \notin drives
<1>. DEFINE free == FreeSlots(drives)
<1>1. free \subseteq 0 .. 3 /\ free # {}
  BY DEF FreeSlots, HddSlots
<1>2. \E m \in free : \A n \in free : m <= n
  <2>1. CASE 0 \in free
    BY <1>1, <2>1
  <2>2. CASE 0 \notin free /\ 1 \in free
    BY <1>1, <2>2
  <2>3. CASE 0 \notin free /\ 1 \notin free /\ 2 \in free
    BY <1>1, <2>3
  <2>4. CASE free = {3}
    BY <2>4
  <2>. QED
    BY <1>1, <2>1, <2>2, <2>3, <2>4
<1>3. PICK m \in free : \A n \in free : m <= n
  BY <1>2
<1>4. \E d \in {Hdd(n) : n \in free} : \A n \in free : d.slot <= n
  <2>1. Hdd(m).slot = m
    BY DEF Hdd
  <2>. QED
    BY <1>3, <2>1
<1>5. WorkSlot(drives) \in {Hdd(n) : n \in free}
  BY <1>4 DEF WorkSlot
<1>. QED
  BY <1>5 DEF FreeSlots, Drives

\* What a new machine's document holds.
LEMMA BlueprintType ==
  ASSUME NEW s \in Sessions, FreeSlots(DeclaredDrives(s)) # {}
  PROVE  /\ DOMAIN Blueprint(s) \subseteq Drives
         /\ \A d \in DOMAIN Blueprint(s) : Blueprint(s)[d] \in Media
         /\ \E d \in DOMAIN Blueprint(s) : Blueprint(s)[d].location = "work"
         /\ s.keep => \A d \in DOMAIN Blueprint(s) : Blueprint(s)[d] # Medium("system", "difference")
         /\ \A d \in DOMAIN Blueprint(s) : Blueprint(s)[d].location = "boot.img" => s.image
<1>. DEFINE own == WorkSlot(DeclaredDrives(s))
<1>1. DeclaredDrives(s) \in SUBSET Drives
  BY DEF DeclaredDrives, Sessions, Drives, Floppy, Hdd, HddSlots
<1>2. own \in Drives /\ own \notin DeclaredDrives(s)
  BY <1>1, WorkSlotIsFree
<1>3. DOMAIN Blueprint(s) = DeclaredDrives(s) \cup {own}
  BY DEF Blueprint
<1>4. Blueprint(s)[own] = Medium("work", "use")
  BY DEF Blueprint
<1>5. \A d \in DeclaredDrives(s) : Blueprint(s)[d] = DeclaredMedium(s, d)
  BY <1>2 DEF Blueprint
<1>. QED
  BY <1>1, <1>2, <1>3, <1>4, <1>5 DEF DeclaredMedium, Media, Medium

LEMMA HomesInit == SessionInit => HomesInv
BY DEF SessionInit, HomesInv, Nothing, NoDrives, Machine, Homes

\* Giving a session up empties the home of its own and keeps the other.
LEMMA HomesStopped ==
  ASSUME FlowInv, HomesInv, StopGuest
  PROVE  /\ work' \in [Homes -> [Dirs -> Nat]]
         /\ DOMAIN document' = Homes
         /\ \A h \in Homes : Machine(h)' \subseteq Drives
         /\ \A h \in Homes : \A d \in Machine(h)' : document'[h][d] \in Media
         /\ \A h \in Homes :
               Machine(h)' # {} => \E d \in Machine(h)' : document'[h][d].location = "work"
<1>1. CASE Now.keep
  BY <1>1 DEF HomesInv, StopGuest, Machine
<1>2. CASE ~Now.keep
  <2>1. /\ document' = [document EXCEPT !["own"] = NoDrives]
        /\ work' = [work EXCEPT !["own"] = Nothing]
    BY <1>2 DEF StopGuest
  <2>2. DOMAIN NoDrives = {} /\ Nothing \in [Dirs -> Nat]
    BY DEF NoDrives, Nothing
  <2>. QED
    BY <2>1, <2>2 DEF HomesInv, Machine, Homes
<1>. QED
  BY <1>1, <1>2

LEMMA HomesStep == FlowInv /\ HomesInv /\ [SessionNext]_sessionVars => HomesInv'
<1>. SUFFICES ASSUME FlowInv, HomesInv, [SessionNext]_sessionVars
              PROVE  HomesInv'
  OBVIOUS
<1>n. Now \in Sessions /\ turn \in Nat
  BY NowType, SuiteSessionAssumption DEF FlowInv
<1>h. H \in Homes
  BY HomesHaveH
<1>s. ASSUME UNCHANGED <<work, document>>, disk' \in [Homes -> [Drives -> [Dirs -> Nat]]]
      PROVE  HomesInv'
  BY <1>s DEF HomesInv, Machine
<1>t. ASSUME StopGuest, disk' \in [Homes -> [Drives -> [Dirs -> Nat]]]
      PROVE  HomesInv'
  BY <1>t, HomesStopped DEF HomesInv
<1>e. Nothing \in [Dirs -> Nat] /\ \A dir : [Nothing EXCEPT ![dir] = turn] \in [Dirs -> Nat]
  BY <1>n DEF Nothing
<1>w. ASSUME NEW h, NEW w \in [Dirs -> Nat], work' = [work EXCEPT ![h] = w]
      PROVE  work' \in [Homes -> [Dirs -> Nat]]
  BY <1>w DEF HomesInv
<1>d. UNCHANGED disk => disk' \in [Homes -> [Drives -> [Dirs -> Nat]]]
  BY DEF HomesInv
<1>1. CASE Stage
  <2>1. work' \in [Homes -> [Dirs -> Nat]]
    BY <1>1, <1>e, <1>w DEF Stage
  <2>2. UNCHANGED <<document, disk>>
    BY <1>1 DEF Stage
  <2>. QED
    BY <2>1, <2>2 DEF HomesInv, Machine
<1>2. CASE Reopen
  BY <1>2, <1>s, <1>t, <1>d DEF Reopen
<1>3. CASE Create
  <2>1. CASE StopGuest /\ UNCHANGED disk
    BY <2>1, <1>t, <1>d
  <2>2. CASE /\ FreeSlots(DeclaredDrives(Now)) # {}
             /\ document' = [document EXCEPT ![H] = Blueprint(Now)]
             /\ \E files \in {disk[h] : h \in Homes} :
                   disk' = [disk EXCEPT ![H] =
                               [d \in Drives |-> IF Now.inPlace THEN files[d] ELSE Nothing]]
             /\ UNCHANGED work
    <3>1. disk' \in [Homes -> [Drives -> [Dirs -> Nat]]]
      <4>1. PICK files \in {disk[h] : h \in Homes} :
               disk' = [disk EXCEPT ![H] =
                           [d \in Drives |-> IF Now.inPlace THEN files[d] ELSE Nothing]]
        BY <2>2
      <4>2. files \in [Drives -> [Dirs -> Nat]]
        BY DEF HomesInv
      <4>3. [d \in Drives |-> IF Now.inPlace THEN files[d] ELSE Nothing] \in [Drives -> [Dirs -> Nat]]
        BY <1>e, <4>2
      <4>. QED
        BY <4>1, <4>3 DEF HomesInv
    <3>2. \A h \in Homes : document'[h] = IF h = H THEN Blueprint(Now) ELSE document[h]
      BY <2>2 DEF HomesInv
    <3>3. DOMAIN document' = Homes
      BY <2>2 DEF HomesInv
    <3>4. \A h \in Homes : Machine(h)' \subseteq Drives
      BY <3>2, <2>2, <1>n, BlueprintType DEF HomesInv, Machine
    <3>5. \A h \in Homes : \A d \in Machine(h)' : document'[h][d] \in Media
      BY <3>2, <2>2, <1>n, BlueprintType DEF HomesInv, Machine
    <3>6. \A h \in Homes :
             Machine(h)' # {} => \E d \in Machine(h)' : document'[h][d].location = "work"
      BY <3>2, <2>2, <1>n, BlueprintType DEF HomesInv, Machine
    <3>. QED
      BY <2>2, <3>1, <3>3, <3>4, <3>5, <3>6 DEF HomesInv
  <2>. QED
    BY <1>3, <2>1, <2>2 DEF Create
<1>4. CASE PlaceSuite
  <2>1. disk' \in [Homes -> [Drives -> [Dirs -> Nat]]]
    <3>1. work[H]["root"] \in Nat
      BY <1>h DEF HomesInv, Dirs
    <3>2. ASSUME NEW d, NEW dir, disk' = [disk EXCEPT ![H][d][dir] = work[H]["root"]]
          PROVE  disk' \in [Homes -> [Drives -> [Dirs -> Nat]]]
      BY ZenonT(30), <3>1, <3>2 DEF HomesInv
    <3>. QED
      BY <1>4, <1>d, <3>2 DEF PlaceSuite, PutTree
  <2>. QED
    BY <1>4, <2>1, <1>s, <1>t DEF PlaceSuite
<1>5. CASE Boot \/ Setup
  BY <1>5, <1>s, <1>t, <1>d DEF Boot, Setup
<1>6. CASE StartBatch
  <2>1. CASE StopGuest
    BY <1>6, <2>1, <1>t, <1>d DEF StartBatch
  <2>2. CASE ~StopGuest
    <3>1. /\ \E dir : work' = [work EXCEPT !["own"] = [Nothing EXCEPT ![dir] = turn]]
          /\ UNCHANGED <<document, disk>>
      BY <1>6, <2>2 DEF StartBatch
    <3>2. work' \in [Homes -> [Dirs -> Nat]]
      BY <3>1, <1>e, <1>w
    <3>. QED
      BY <3>1, <3>2 DEF HomesInv, Machine
  <2>. QED
    BY <2>1, <2>2
<1>7. CASE Stop
  BY <1>7, <1>t, <1>d DEF Stop
<1>8. CASE StartCallable \/ Exchange \/ GuestWrites \/ NextSession \/ CleanSystem
  BY <1>8, <1>s, <1>d DEF StartCallable, Exchange, RunSome, Cut, Type, Invoke, Call, Return, Exchanged,
       GuestWrites, NextSession, CleanSystem, homes
<1>9. CASE UNCHANGED sessionVars
  BY <1>9, <1>s, <1>d DEF sessionVars, homes
<1>. QED
  BY <1>1, <1>2, <1>3, <1>4, <1>5, <1>6, <1>7, <1>8, <1>9 DEF SessionNext, Start

-----------------------------------------------------------------------------
(* What nobody may write to is not written to, and what a kept machine's   *)
(* guests wrote is not lost: no medium but testaferro's own is used in     *)
(* place unless a declaration says so, a kept machine's disk never lies    *)
(* over the cached one, and the copy of a boot image it boots is there     *)
(* already.                                                                *)
InPlaceSoFar == \E k \in 1 .. turn : plan[k].inPlace

MediaInv ==
    /\ ImagesAreOnlyRead
    /\ \A h \in Homes : \A d \in Machine(h) :
          document[h][d] = Medium("declared", "use") => InPlaceSoFar
    /\ writes \in [Drives -> {"none", "there"}]
    /\ \A d \in Machine("kept") : document["kept"][d] # Medium("system", "difference")
    /\ (\E d \in Machine("kept") : document["kept"][d].location = "boot.img") => "kept" \in bootImg
    /\ stage = "staged" /\ Now.image => H \in bootImg

LEMMA MediaInit == SessionInit => MediaInv
BY DEF SessionInit, MediaInv, ImagesAreOnlyRead, NoDrives, Machine, Homes

LEMMA NothingLost ==
  ASSUME MediaInv, NEW S, Lose(S), \A d \in S : FALSE
  PROVE  UNCHANGED writes
BY DEF MediaInv, Lose

LEMMA WritesFindTheirOwn ==
  ASSUME HomesInv, MediaInv, NEW d \in Machine(H), Write(d), UNCHANGED <<plan, turn>>
  PROVE  ImagesAreOnlyRead'
<1>1. document[H][d] \in Media /\ H \in Homes
  BY HomesHaveH DEF HomesInv
<1>2. CASE document[H][d] = Medium("declared", "use")
  <2>1. InPlaceSoFar
    BY <1>1, <1>2 DEF MediaInv
  <2>2. touched' \subseteq {"declared"}
    BY <1>2, <2>1 DEF Medium, Write, MediaInv, ImagesAreOnlyRead, InPlaceSoFar
  <2>. QED
    BY <2>1, <2>2 DEF ImagesAreOnlyRead, InPlaceSoFar
<1>3. CASE document[H][d] # Medium("declared", "use")
  <2>1. touched' = touched
    BY <1>1, <1>3 DEF Media, Medium, Write
  <2>. QED
    BY <2>1 DEF MediaInv, ImagesAreOnlyRead
<1>. QED
  BY <1>2, <1>3

LEMMA ImagesStay ==
  ASSUME MediaInv, UNCHANGED <<touched, plan, turn>>
  PROVE  ImagesAreOnlyRead' /\ InPlaceSoFar' = InPlaceSoFar
BY DEF MediaInv, ImagesAreOnlyRead, InPlaceSoFar

LEMMA BootImageStaged ==
  ASSUME FlowInv, MediaInv, StageBootImage
  PROVE  UNCHANGED writes /\ bootImg \subseteq bootImg' /\ (Now.image => H \in bootImg')
<1>. DEFINE S == {d \in Machine("kept") : Now.keep /\ document["kept"][d].location = "boot.img"}
<1>1. CASE Now.image /\ ~(Now.keep /\ H \in bootImg)
  <2>1. Lose(S) /\ bootImg' = bootImg \cup {H}
    BY <1>1 DEF StageBootImage
  <2>2. \A d \in S : FALSE
    BY <1>1 DEF MediaInv, H
  <2>. QED
    BY <2>1, <2>2, NothingLost
<1>2. CASE ~(Now.image /\ ~(Now.keep /\ H \in bootImg))
  BY <1>2 DEF StageBootImage
<1>. QED
  BY <1>1, <1>2

LEMMA MediaStep == FlowInv /\ HomesInv /\ MediaInv /\ [SessionNext]_sessionVars => MediaInv'
<1>. SUFFICES ASSUME FlowInv, HomesInv, MediaInv, [SessionNext]_sessionVars
              PROVE  MediaInv'
  OBVIOUS
<1>n. Now \in Sessions
  BY NowType DEF FlowInv
<1>h. H \in Homes
  BY HomesHaveH
<1>s. ASSUME UNCHANGED <<plan, turn, document, bootImg, writes>>, ImagesAreOnlyRead', stage' # "staged"
      PROVE  MediaInv'
  BY <1>s DEF MediaInv, Machine, InPlaceSoFar
<1>t. ASSUME StopGuest, UNCHANGED <<plan, turn, writes>>, ImagesAreOnlyRead'
      PROVE  MediaInv'
  <2>1. "kept" \in bootImg => "kept" \in bootImg'
    BY <1>t DEF StopGuest
  <2>2. document'["kept"] = document["kept"]
    BY <1>t DEF StopGuest, HomesInv, Homes
  <2>3. \A h \in Homes : \A d \in Machine(h)' : d \in Machine(h) /\ document'[h][d] = document[h][d]
    <3>1. CASE Now.keep
      BY <1>t, <3>1 DEF StopGuest, Machine
    <3>2. CASE ~Now.keep
      <4>1. document' = [document EXCEPT !["own"] = NoDrives] /\ DOMAIN NoDrives = {}
        BY <1>t, <3>2 DEF StopGuest, NoDrives
      <4>. QED
        BY <4>1 DEF HomesInv, Homes, Machine
    <3>. QED
      BY <3>1, <3>2
  <2>4. stage' # "staged"
    BY <1>t DEF StopGuest
  <2>. QED
    BY <1>t, <2>1, <2>2, <2>3, <2>4 DEF MediaInv, Machine, InPlaceSoFar
<1>1. CASE Stage
  <2>1. UNCHANGED <<document, touched, plan, turn>>
    BY <1>1 DEF Stage
  <2>2. CASE UNCHANGED <<bootImg, writes>> /\ stage' = "over"
    BY <1>s, <2>1, <2>2, ImagesStay
  <2>3. CASE StageBootImage
    <3>1. UNCHANGED writes /\ bootImg \subseteq bootImg' /\ (Now.image => H \in bootImg')
      BY <2>3, BootImageStaged
    <3>2. Now' = Now /\ H' = H
      BY <2>1 DEF Now, H
    <3>. QED
      BY <2>1, <3>1, <3>2, ImagesStay DEF MediaInv, Machine
  <2>. QED
    BY <1>1, <2>2, <2>3 DEF Stage
<1>2. CASE Reopen
  BY <1>2, <1>s, <1>t, ImagesStay DEF Reopen
<1>3. CASE Create
  <2>u. UNCHANGED <<plan, turn, touched>>
    BY <1>3 DEF Create
  <2>1. CASE StopGuest
    BY <1>3, <1>t, <2>1, ImagesStay DEF Create
  <2>2. CASE ~StopGuest
    <3>1. /\ FreeSlots(DeclaredDrives(Now)) # {}
          /\ document' = [document EXCEPT ![H] = Blueprint(Now)]
          /\ stage = "staged" /\ stage' = "made" /\ UNCHANGED <<bootImg, writes, touched>>
      BY <1>3, <2>2 DEF Create
    <3>2. \A h \in Homes : \A d \in Machine(h)' :
             document'[h][d] = Medium("declared", "use") => InPlaceSoFar'
      <4>1. \A d \in DOMAIN Blueprint(Now) :
               Blueprint(Now)[d] = Medium("declared", "use") => Now.inPlace
        BY DEF Blueprint, DeclaredMedium, Medium
      <4>2. Now.inPlace => InPlaceSoFar
        BY DEF Now, FlowInv, InPlaceSoFar
      <4>3. \A h \in Homes : document'[h] = IF h = H THEN Blueprint(Now) ELSE document[h]
        BY <3>1 DEF HomesInv
      <4>. QED
        BY <2>u, <4>1, <4>2, <4>3, ImagesStay DEF MediaInv, Machine
    <3>3. CASE Now.keep
      <4>1. document'["kept"] = Blueprint(Now)
        BY <3>1, <3>3 DEF H, HomesInv, Homes
      <4>2. Now.image => "kept" \in bootImg
        BY <3>1, <3>3 DEF MediaInv, H
      <4>. QED
        BY <1>n, <2>u, <3>1, <3>2, <3>3, <4>1, <4>2, BlueprintType, ImagesStay DEF MediaInv, Machine
    <3>4. CASE ~Now.keep
      <4>1. document'["kept"] = document["kept"]
        BY <3>1, <3>4 DEF H, HomesInv, Homes
      <4>. QED
        BY <2>u, <3>1, <3>2, <4>1, ImagesStay DEF MediaInv, Machine
    <3>. QED
      BY <3>3, <3>4
  <2>. QED
    BY <2>1, <2>2
<1>4. CASE PlaceSuite
  <2>1. ImagesAreOnlyRead'
    BY <1>4, ImagesStay, WritesFindTheirOwn DEF PlaceSuite, PutTree, Lettered
  <2>. QED
    BY <1>4, <2>1, <1>s, <1>t DEF PlaceSuite
<1>5. CASE Boot \/ Setup
  BY <1>5, <1>s, <1>t, ImagesStay DEF Boot, Setup
<1>6. CASE StartBatch
  BY <1>6, <1>s, <1>t, ImagesStay DEF StartBatch
<1>7. CASE Stop
  BY <1>7, <1>t, ImagesStay DEF Stop
<1>8. CASE StartCallable
  BY <1>8, <1>s, ImagesStay DEF StartCallable, homes
<1>9. CASE Exchange
  <2>1. UNCHANGED homes /\ stage' = stage /\ UNCHANGED <<plan, turn>>
    BY <1>9 DEF Exchange, RunSome, Cut, Type, Invoke, Call, Return, Exchanged
  <2>. QED
    BY <2>1, ImagesStay DEF homes, MediaInv, Machine, Now, H
<1>10. CASE GuestWrites
  <2>1. ImagesAreOnlyRead'
    BY <1>10, WritesFindTheirOwn DEF GuestWrites
  <2>2. writes' \in [Drives -> {"none", "there"}]
    BY <1>10 DEF GuestWrites, MediaInv
  <2>3. UNCHANGED <<plan, turn, document, bootImg>> /\ stage' # "staged"
    BY <1>10 DEF GuestWrites
  <2>. QED
    BY <2>1, <2>2, <2>3 DEF MediaInv, Machine, InPlaceSoFar
<1>11. CASE NextSession
  <2>1. InPlaceSoFar => InPlaceSoFar'
    BY <1>11 DEF NextSession, InPlaceSoFar, FlowInv
  <2>2. UNCHANGED homes /\ stage' # "staged"
    BY <1>11 DEF NextSession
  <2>3. ImagesAreOnlyRead'
    BY <2>1, <2>2 DEF homes, MediaInv, ImagesAreOnlyRead, InPlaceSoFar
  <2>. QED
    BY <2>1, <2>2, <2>3 DEF homes, MediaInv, Machine
<1>12. CASE CleanSystem
  <2>1. UNCHANGED writes
    BY <1>12, NothingLost DEF CleanSystem, MediaInv
  <2>. QED
    BY <1>12, <2>1, <1>s, ImagesStay DEF CleanSystem
<1>13. CASE UNCHANGED sessionVars
  BY <1>13, ImagesStay DEF sessionVars, homes, MediaInv, Machine, Now, H
<1>. QED
  BY <1>1, <1>2, <1>3, <1>4, <1>5, <1>6, <1>7, <1>8, <1>9, <1>10, <1>11, <1>12, <1>13
     DEF SessionNext, Start

LEMMA MediaAlways == SessionSpec => [](FlowInv /\ HomesInv /\ MediaInv)
BY FlowInit, HomesInit, MediaInit, FlowStep, HomesStep, MediaStep, PTL DEF SessionSpec

(* "The tester's image is read and never written", and no guest reaches    *)
(* the one system disk they share, whatever is declared and however a      *)
(* start fails: the file of a drive that a declaration uses in place is    *)
(* all that guests or placement ever write to.                             *)
THEOREM OthersImagesAreRead == SessionSpec => []ImagesAreOnlyRead
<1>1. MediaInv => ImagesAreOnlyRead
  BY DEF MediaInv
<1>. QED
  BY <1>1, MediaAlways, PTL

(* What a guest wrote to a kept machine's disk stays there: no later       *)
(* session copies over it and no clean --system takes what it lies over.   *)
THEOREM KeptStateIsKept == SessionSpec => []KeptDisksKeepTheirState
<1>1. MediaInv => KeptDisksKeepTheirState
  BY DEF MediaInv, KeptDisksKeepTheirState
<1>. QED
  BY <1>1, MediaAlways, PTL

-----------------------------------------------------------------------------
(* Where the session's set is: in the work directory from its staging on,  *)
(* and, once placed, on the one drive that has the address's letter,       *)
(* unless that is the work drive, which serves the directory's root.       *)
OnDrive ==
    /\ address.dir \in Dirs
    /\ \E d \in Machine(H) :
          /\ LetterOf(d, Machine(H)) = address.letter
          /\ d # WorkDrive(H) => disk[H][d][address.dir] = turn

PlacedInv ==
    /\ OnMachine /\ stage \in {"staged", "made", "placed", "booted", "up"} =>
          work[H] = [Nothing EXCEPT !["root"] = turn]
    /\ OnMachine /\ stage \in {"made", "placed", "booted", "up"} => Machine(H) # {}
    /\ OnMachine /\ stage \in {"placed", "booted", "up"} => OnDrive
    /\ Now.provider = "dosbox-x" /\ stage = "up" => work["own"][address.dir] = turn

LEMMA PlacedInit == SessionInit => PlacedInv
BY DEF SessionInit, PlacedInv

LEMMA WishedDir ==
  ASSUME FlowInv
  PROVE  Wished.dir \in Dirs
BY NowType DEF FlowInv, Wished, DefaultLocation, Sessions, Addresses, Dirs

\* Steps that leave everything the placement speaks of as it was.
LEMMA PlacedFrame ==
  ASSUME PlacedInv, UNCHANGED <<plan, turn, stage, work, document, disk, address>>
  PROVE  PlacedInv'
BY DEF PlacedInv, OnDrive, OnMachine, Now, H, Machine, WorkDrive

LEMMA PlacedStep == FlowInv /\ HomesInv /\ PlacedInv /\ [SessionNext]_sessionVars => PlacedInv'
<1>. SUFFICES ASSUME FlowInv, HomesInv, PlacedInv, [SessionNext]_sessionVars
              PROVE  PlacedInv'
  OBVIOUS
<1>n. Now \in Sessions /\ turn \in Nat
  BY NowType, SuiteSessionAssumption DEF FlowInv
<1>h. H \in Homes
  BY HomesHaveH
<1>f. UNCHANGED <<plan, turn>> => Now' = Now /\ H' = H
  BY DEF Now, H
<1>o. stage' \in {"idle", "over"} => PlacedInv'
  BY DEF PlacedInv
<1>t. StopGuest => PlacedInv'
  BY <1>o DEF StopGuest
<1>1. CASE Stage
  <2>1. CASE stage' = "over"
    BY <1>o, <2>1
  <2>2. CASE stage' # "over"
    <3>1. /\ work' = [work EXCEPT ![H] = [Nothing EXCEPT !["root"] = turn]]
          /\ stage' = "staged" /\ UNCHANGED <<plan, turn>> /\ OnMachine
      BY <1>1, <2>2 DEF Stage, OnMachine
    <3>2. work'[H'] = [Nothing EXCEPT !["root"] = turn']
      BY <1>f, <1>h, <3>1 DEF HomesInv
    <3>3. Now'.provider = "reliquary"
      BY <1>f, <3>1 DEF OnMachine
    <3>4. Nothing' = Nothing
      BY DEF Nothing
    <3>. QED
      BY <3>1, <3>2, <3>3, <3>4 DEF PlacedInv, OnMachine
  <2>. QED
    BY <2>1, <2>2
<1>2. CASE Reopen
  <2>1. CASE StopGuest
    BY <1>t, <2>1
  <2>2. CASE ~StopGuest
    <3>1. /\ stage = "staged" /\ stage' = "made" /\ Now.keep /\ Machine("kept") # {}
          /\ UNCHANGED <<plan, turn, work, document>>
      BY <1>2, <2>2 DEF Reopen
    <3>2. H = "kept" /\ OnMachine
      BY <3>1 DEF H, FlowInv
    <3>3. work'[H'] = [Nothing EXCEPT !["root"] = turn] /\ Machine(H)' # {}
      BY <1>f, <3>1, <3>2 DEF PlacedInv, Machine
    <3>4. Now'.provider = "reliquary"
      BY <1>f, <3>1, <3>2 DEF OnMachine
    <3>5. Nothing' = Nothing
      BY DEF Nothing
    <3>. QED
      BY <3>1, <3>3, <3>4, <3>5 DEF PlacedInv, OnMachine
  <2>. QED
    BY <2>1, <2>2
<1>3. CASE Create
  <2>1. CASE StopGuest
    BY <1>t, <2>1
  <2>2. CASE ~StopGuest
    <3>1. /\ FreeSlots(DeclaredDrives(Now)) # {}
          /\ document' = [document EXCEPT ![H] = Blueprint(Now)]
          /\ stage = "staged" /\ stage' = "made" /\ UNCHANGED <<plan, turn, work>>
      BY <1>3, <2>2 DEF Create
    <3>2. OnMachine /\ work'[H'] = [Nothing EXCEPT !["root"] = turn]
      BY <1>f, <3>1 DEF PlacedInv, FlowInv
    <3>3. document'[H'] = Blueprint(Now)
      BY <1>f, <1>h, <3>1 DEF HomesInv
    <3>4. DOMAIN Blueprint(Now) # {}
      BY <1>n, <3>1, BlueprintType
    <3>5. Machine(H)' # {} /\ Now'.provider = "reliquary"
      BY <1>f, <3>1, <3>2, <3>3, <3>4 DEF Machine, OnMachine
    <3>6. Nothing' = Nothing
      BY DEF Nothing
    <3>. QED
      BY <3>1, <3>2, <3>5, <3>6 DEF PlacedInv, OnMachine
  <2>. QED
    BY <2>1, <2>2
<1>4. CASE PlaceSuite
  <2>1. CASE StopGuest
    BY <1>t, <2>1
  <2>2. CASE ~StopGuest
    <3>1. /\ stage = "made" /\ stage' = "placed" /\ address' = Wished
          /\ UNCHANGED <<plan, turn, work, document>>
      BY <1>4, <2>2 DEF PlaceSuite
    <3>2. PICK d \in Lettered(Wished.letter, Machine(H)) :
             IF d = WorkDrive(H) THEN UNCHANGED <<disk, touched>> ELSE PutTree(d, Wished.dir)
      BY <1>4, <2>2 DEF PlaceSuite
    <3>3. OnMachine /\ work[H] = [Nothing EXCEPT !["root"] = turn] /\ Machine(H) # {}
      BY <3>1 DEF PlacedInv, FlowInv
    <3>4. Machine(H)' = Machine(H) /\ WorkDrive(H)' = WorkDrive(H) /\ Now' = Now /\ H' = H
      BY <1>f, <3>1 DEF Machine, WorkDrive
    <3>5. d \in Machine(H) /\ LetterOf(d, Machine(H)) = Wished.letter /\ d \in Drives
      BY <1>h, <3>2 DEF Lettered, HomesInv
    <3>6. ASSUME d # WorkDrive(H)
          PROVE  disk'[H][d][Wished.dir] = turn
      <4>1. disk' = [disk EXCEPT ![H][d][Wished.dir] = work[H]["root"]]
        BY <3>2, <3>6 DEF PutTree
      <4>2. work[H]["root"] = turn
        BY <3>3 DEF Nothing, Dirs
      <4>. QED
        BY <1>h, <3>5, <4>1, <4>2, WishedDir DEF HomesInv
    <3>7. OnDrive'
      BY <3>1, <3>4, <3>5, <3>6, WishedDir DEF OnDrive
    <3>8. Nothing' = Nothing
      BY DEF Nothing
    <3>. QED
      BY <3>1, <3>3, <3>4, <3>7, <3>8 DEF PlacedInv, OnMachine
  <2>. QED
    BY <2>1, <2>2
<1>5. CASE Boot \/ Setup
  <2>1. CASE StopGuest
    BY <1>t, <2>1
  <2>2. CASE ~StopGuest
    <3>1. /\ stage \in {"placed", "booted"} /\ stage' \in {"booted", "up"}
          /\ UNCHANGED <<plan, turn, work, document, disk, address>>
      BY <1>5, <2>2 DEF Boot, Setup
    <3>2. OnMachine
      BY <3>1 DEF FlowInv
    <3>. QED
      BY <1>f, <3>1, <3>2 DEF PlacedInv, OnDrive, OnMachine, Machine, WorkDrive, Nothing
  <2>. QED
    BY <2>1, <2>2
<1>6. CASE StartBatch
  <2>1. CASE StopGuest
    BY <1>t, <2>1
  <2>2. CASE ~StopGuest
    <3>. DEFINE where == IF Now.location = NoAddress THEN [letter |-> 3, dir |-> "root"] ELSE Now.location
    <3>1. /\ work' = [work EXCEPT !["own"] = [Nothing EXCEPT ![where.dir] = turn]]
          /\ address' = where /\ stage' = "up" /\ UNCHANGED <<plan, turn>>
          /\ Now.provider = "dosbox-x"
      BY <1>6, <2>2 DEF StartBatch
    <3>2. where.dir \in Dirs
      BY <1>n DEF Sessions, Addresses, Dirs
    <3>3. work'["own"][address'.dir] = turn'
      BY <3>1, <3>2 DEF HomesInv, Homes, Nothing
    <3>. QED
      BY <1>f, <3>1, <3>3 DEF PlacedInv, OnMachine
  <2>. QED
    BY <2>1, <2>2
<1>7. CASE StartCallable
  BY <1>7, <1>f DEF StartCallable, PlacedInv, OnMachine
<1>8. CASE Exchange \/ GuestWrites \/ CleanSystem
  BY <1>8, PlacedFrame DEF Exchange, RunSome, Cut, Type, Invoke, Call, Return, Exchanged, GuestWrites,
       CleanSystem, homes
<1>9. CASE Stop
  BY <1>9, <1>t DEF Stop
<1>10. CASE NextSession
  BY <1>10, <1>o DEF NextSession
<1>11. CASE UNCHANGED sessionVars
  BY <1>11, PlacedFrame DEF sessionVars, homes
<1>. QED
  BY <1>1, <1>2, <1>3, <1>4, <1>5, <1>6, <1>7, <1>8, <1>9, <1>10, <1>11 DEF SessionNext, Start

(* What is typed finds the set: by the letters DOS gives, which are those  *)
(* testaferro computed, no other drive answers to the address.             *)
LEMMA TypedIsFound ==
  ASSUME FlowInv, HomesInv, PlacedInv, OnMachine, stage = "up", address # NoAddress
  PROVE  Found = IF Misplaced THEN 0 ELSE turn
<1>h. H \in Homes
  BY HomesHaveH
<1>1. OnDrive /\ Machine(H) # {} /\ work[H] = [Nothing EXCEPT !["root"] = turn]
  BY DEF PlacedInv
<1>2. PICK d \in Machine(H) :
         /\ LetterOf(d, Machine(H)) = address.letter
         /\ d # WorkDrive(H) => disk[H][d][address.dir] = turn
  BY <1>1 DEF OnDrive
<1>3. Machine(H) \in SUBSET Drives /\ WorkDrive(H) \in Machine(H)
  BY <1>h, <1>1, WorkDriveIsThere DEF HomesInv
<1>4. \A e \in Machine(H) : GuestLetter(e, Machine(H)) = LetterOf(e, Machine(H))
  BY <1>3, LettersAreTheGuests
<1>5. {e \in Machine(H) : GuestLetter(e, Machine(H)) = address.letter} = {d}
  BY <1>2, <1>3, <1>4, LettersAreDistinct
<1>6. Found = IF d = WorkDrive(H) THEN work[H][address.dir] ELSE disk[H][d][address.dir]
  BY <1>5 DEF Found
<1>7. CASE d = WorkDrive(H)
  <2>1. Misplaced <=> address.dir = "dir"
    BY <1>2, <1>7 DEF Misplaced, OnMachine
  <2>2. address.dir \in {"root", "dir"}
    BY <1>1 DEF OnDrive, Dirs
  <2>3. work[H]["root"] = turn /\ work[H]["dir"] = 0
    BY <1>1 DEF Nothing, Dirs
  <2>. QED
    BY <1>6, <1>7, <2>1, <2>2, <2>3
<1>8. CASE d # WorkDrive(H)
  <2>1. ~Misplaced
    BY <1>2, <1>3, <1>8, LettersAreDistinct DEF Misplaced
  <2>. QED
    BY <1>2, <1>6, <1>8, <2>1
<1>. QED
  BY <1>7, <1>8

LEMMA RunsStep ==
  FlowInv /\ HomesInv /\ PlacedInv /\ RunsWhatItStaged /\ [SessionNext]_sessionVars => RunsWhatItStaged'
<1>. SUFFICES ASSUME FlowInv, HomesInv, PlacedInv, RunsWhatItStaged, [SessionNext]_sessionVars
              PROVE  RunsWhatItStaged'
  OBVIOUS
<1>n. FlowInv'
  BY FlowStep
<1>o. ~last.tried' \/ address' = NoAddress => RunsWhatItStaged'
  BY DEF RunsWhatItStaged
<1>f. ASSUME UNCHANGED <<plan, turn, document, address, last>>
      PROVE  RunsWhatItStaged'
  BY <1>f DEF RunsWhatItStaged, Misplaced, Now, H, Machine, WorkDrive
<1>1. CASE Start
  <2>1. stage \notin {"up", "over"} /\ UNCHANGED last
    BY <1>1 DEF Start, Stage, Reopen, Create, PlaceSuite, Boot, Setup, StartBatch, StartCallable, exchanges
  <2>2. ~last.tried'
    BY <2>1 DEF FlowInv
  <2>. QED
    BY <1>o, <2>2
<1>2. CASE RunSome \/ Cut \/ Return \/ GuestWrites \/ CleanSystem
  BY <1>2, <1>f DEF RunSome, Cut, Return, GuestWrites, CleanSystem, homes, exchanges
<1>3. CASE Type
  <2>1. /\ last' = [tried |-> TRUE, program |-> Found, setups |-> setups]
        /\ OnMachine /\ busy /\ UNCHANGED <<plan, turn, stage, document, address>>
    BY <1>3 DEF Type, Asking, Runs, Exchanged, homes, OnMachine
  <2>2. stage = "up" /\ setups = Now.setup
    BY <2>1 DEF FlowInv
  <2>3. address # NoAddress => Found = IF Misplaced THEN 0 ELSE turn
    BY <2>1, <2>2, TypedIsFound
  <2>4. Misplaced' = Misplaced /\ Now' = Now
    BY <2>1 DEF Misplaced, Now, H, Machine, WorkDrive
  <2>. QED
    BY <2>1, <2>2, <2>3, <2>4 DEF RunsWhatItStaged
<1>4. CASE Invoke
  <2>1. CASE UNCHANGED last
    BY <1>4, <1>f, <2>1 DEF Invoke, Exchanged, homes
  <2>2. CASE ~UNCHANGED last
    <3>1. /\ last' = [tried |-> TRUE, program |-> work["own"][address.dir], setups |-> Now.setup]
          /\ Now.provider = "dosbox-x" /\ busy /\ UNCHANGED <<plan, turn, stage, document, address>>
      BY <1>4, <2>2 DEF Invoke, Asking, Runs, Exchanged, homes
    <3>2. work["own"][address.dir] = turn
      BY <3>1 DEF FlowInv, PlacedInv
    <3>3. ~Misplaced' /\ Now' = Now
      BY <3>1 DEF Misplaced, Now
    <3>. QED
      BY <3>1, <3>2, <3>3 DEF RunsWhatItStaged
  <2>. QED
    BY <2>1, <2>2
<1>5. CASE Call
  BY <1>5, <1>f DEF Call, Exchanged, homes
<1>6. CASE Stop
  BY <1>6, <1>o DEF Stop, StopGuest
<1>7. CASE NextSession
  BY <1>7, <1>o DEF NextSession, Nobody
<1>8. CASE UNCHANGED sessionVars
  BY <1>8, <1>f DEF sessionVars, homes, exchanges
<1>. QED
  BY <1>1, <1>2, <1>3, <1>4, <1>5, <1>6, <1>7, <1>8 DEF SessionNext, Exchange

(* "The address staged against is the address spelled": whatever machine   *)
(* and location are declared, every command a suite is run by finds this   *)
(* session's executable, on a guest whose setup has run once.              *)
THEOREM SuitesRunWhatTheyStaged == SessionSpec => []RunsWhatItStaged
<1>1. SessionInit => RunsWhatItStaged
  BY DEF SessionInit, RunsWhatItStaged, Nobody
<1>. QED
  BY <1>1, FlowInit, HomesInit, PlacedInit, FlowStep, HomesStep, PlacedStep, RunsStep, PTL
     DEF SessionSpec

-----------------------------------------------------------------------------
(* A call of run_some cuts its names anew, and no step of a session but    *)
(* that and Cut touches the chunks.                                        *)
LEMMA AnewIsInitial ==
  ASSUME names' \in Subsets, side' \in Sides, CutAnew
  PROVE  ChunksInv'
<1>1. Init'
  BY DEF Init, CutAnew
<1>2. Init' => ChunksInv'
  BY ChunksInvInit, PTL
<1>. QED
  BY <1>1, <1>2

LEMMA ChunksStep == FlowInv /\ ChunksInv /\ [SessionNext]_sessionVars => ChunksInv'
<1>. SUFFICES ASSUME FlowInv, ChunksInv, [SessionNext]_sessionVars
              PROVE  ChunksInv'
  OBVIOUS
<1>c. UNCHANGED chunking => ChunksInv'
  BY ChunksInvStep DEF chunking, vars
<1>1. CASE Start
  BY <1>1, <1>c DEF Start, Stage, Reopen, Create, PlaceSuite, Boot, Setup, StartBatch, StartCallable
<1>2. CASE RunSome
  BY <1>2, AnewIsInitial DEF RunSome, ChunksInv, TypeOK
<1>3. CASE Cut
  BY <1>3, ChunksInvStep DEF Cut
<1>4. CASE Type \/ Invoke \/ Call \/ Return \/ GuestWrites \/ Stop \/ CleanSystem
  BY <1>4, <1>c DEF Type, Invoke, Call, Return, Exchanged, GuestWrites, Stop, CleanSystem
<1>5. CASE NextSession
  <2>1. plan[turn + 1] \in Sessions
    BY <1>5, SuiteSessionAssumption DEF NextSession, FlowInv
  <2>2. plan[turn + 1].kind \in DOMAIN Lists /\ SideOf(plan[turn + 1]) \in Sides
    BY <2>1 DEF Sessions, SideOf, Sides
  <2>. QED
    BY <1>5, <2>2, AnewIsInitial, SuiteSessionAssumption DEF NextSession
<1>6. CASE UNCHANGED sessionVars
  BY <1>6, <1>c DEF sessionVars
<1>. QED
  BY <1>1, <1>2, <1>3, <1>4, <1>5, <1>6 DEF SessionNext, Exchange

LEMMA ChunksAlways == SessionSpec => []ChunksInv
<1>1. SessionInit => ChunksInv
  BY ChunksInvInit DEF SessionInit
<1>. QED
  BY <1>1, FlowInit, FlowStep, ChunksStep, PTL DEF SessionSpec

(* No name of a call falls between two exchanges of it and none is asked   *)
(* for twice, in whichever session and under whichever provider.           *)
THEOREM SuitesLoseNoName == SessionSpec => []EveryNameOnce
<1>1. ChunksInv => EveryNameOnce
  BY DEF ChunksInv
<1>. QED
  BY <1>1, ChunksAlways, PTL

(* Nor does any exchange carry more than the guest can take, unless a name *)
(* alone does.                                                             *)
THEOREM SuitesFitTheLine == SessionSpec => []EveryLineFits
<1>1. ChunksInv => EveryLineFits
  BY ChunksFitTheLine
<1>. QED
  BY <1>1, ChunksAlways, PTL

(* And a call costs as few exchanges as its names allow, under the budget  *)
(* of the session's own provider.                                          *)
THEOREM SuitesAskSeldom == SessionSpec => []FewestChunks
  BY ChunksAreFewest, ChunksAlways, PTL

-----------------------------------------------------------------------------
(* The rest of the type invariant: what the proofs above had no need of.   *)
WorkIsOne ==
    \A h \in Homes : \A d, e \in Machine(h) :
        document[h][d].location = "work" /\ document[h][e].location = "work" => d = e

AddressInv ==
    /\ address \in Addresses \cup {NoAddress}
    /\ stage \in {"placed", "booted", "up"} /\ Now.provider # "callable" => address \in Addresses

CountsInv ==
    /\ bootImg \subseteq Homes /\ cleaned \in BOOLEAN
    /\ setups \in Nat /\ busy \in BOOLEAN /\ calls \in 0 .. Calls
    /\ asked \in 0 .. Len(out)
    /\ wanted \cup outfile \cup ran \cup told \subseteq 1 .. Len(names)

LastInv == last \in [tried : BOOLEAN, program : Nat, setups : Nat]

LEMMA WorkIsOneStep ==
  FlowInv /\ HomesInv /\ WorkIsOne /\ [SessionNext]_sessionVars => WorkIsOne'
<1>. SUFFICES ASSUME FlowInv, HomesInv, WorkIsOne, [SessionNext]_sessionVars
              PROVE  WorkIsOne'
  OBVIOUS
<1>s. UNCHANGED document => WorkIsOne'
  BY DEF WorkIsOne, Machine
<1>t. StopGuest => WorkIsOne'
  <2>. SUFFICES ASSUME StopGuest, ~Now.keep
                PROVE  WorkIsOne'
    BY <1>s DEF StopGuest
  <2>1. document' = [document EXCEPT !["own"] = NoDrives] /\ DOMAIN NoDrives = {}
    BY DEF NoDrives, StopGuest
  <2>. QED
    BY <2>1 DEF WorkIsOne, Machine, HomesInv
<1>1. CASE Create
  <2>1. CASE StopGuest
    BY <1>t, <2>1
  <2>2. CASE ~StopGuest
    <3>. DEFINE own == WorkSlot(DeclaredDrives(Now))
    <3>1. FreeSlots(DeclaredDrives(Now)) # {} /\ document' = [document EXCEPT ![H] = Blueprint(Now)]
      BY <1>1, <2>2 DEF Create
    <3>2. \A d \in DOMAIN Blueprint(Now) : Blueprint(Now)[d].location = "work" => d = own
      BY DEF Blueprint, DeclaredMedium, Medium
    <3>. QED
      BY <3>1, <3>2 DEF WorkIsOne, Machine, HomesInv
  <2>. QED
    BY <2>1, <2>2
<1>2. CASE Stage \/ StartCallable \/ Exchange \/ GuestWrites \/ NextSession \/ CleanSystem
  BY <1>2, <1>s DEF Stage, StartCallable, Exchange, RunSome, Cut, Type, Invoke, Call, Return, Exchanged,
       GuestWrites, NextSession, CleanSystem, homes
<1>3. CASE Reopen \/ PlaceSuite \/ Boot \/ Setup \/ StartBatch \/ Stop
  BY <1>3, <1>s, <1>t DEF Reopen, PlaceSuite, Boot, Setup, StartBatch, Stop
<1>4. CASE UNCHANGED sessionVars
  BY <1>4, <1>s DEF sessionVars, homes
<1>. QED
  BY <1>1, <1>2, <1>3, <1>4 DEF SessionNext, Start

LEMMA WishedIsAddress ==
  ASSUME FlowInv, HomesInv, Machine(H) # {}
  PROVE  Wished \in Addresses
<1>1. Machine(H) \in SUBSET Drives /\ WorkDrive(H) \in Machine(H)
  BY HomesHaveH, WorkDriveIsThere DEF HomesInv
<1>2. DefaultLocation(Machine(H), WorkDrive(H)) \in Addresses
  BY <1>1, LetterBound DEF DefaultLocation, Addresses, Dirs
<1>. QED
  BY <1>2, NowType DEF FlowInv, Wished, Sessions

LEMMA AddressStep ==
  FlowInv /\ HomesInv /\ PlacedInv /\ AddressInv /\ [SessionNext]_sessionVars => AddressInv'
<1>. SUFFICES ASSUME FlowInv, HomesInv, PlacedInv, AddressInv, [SessionNext]_sessionVars
              PROVE  AddressInv'
  OBVIOUS
<1>n. Now \in Sessions
  BY NowType DEF FlowInv
<1>t. StopGuest => AddressInv'
  BY DEF AddressInv, StopGuest
<1>u. ASSUME UNCHANGED <<plan, turn, address>>,
             stage' = stage \/ stage' \notin {"placed", "booted", "up"}
                \/ stage \in {"placed", "booted"}
      PROVE  AddressInv'
  BY <1>u DEF AddressInv, Now
<1>1. CASE Stage \/ Reopen \/ Create
  BY <1>1, <1>t, <1>u DEF Stage, Reopen, Create
<1>2. CASE PlaceSuite
  <2>1. Machine(H) # {}
    BY <1>2 DEF PlaceSuite, PlacedInv, FlowInv
  <2>. QED
    BY <1>2, <2>1, <1>t, WishedIsAddress DEF PlaceSuite, AddressInv
<1>3. CASE Boot \/ Setup
  BY <1>3, <1>t, <1>u DEF Boot, Setup
<1>4. CASE StartBatch
  <2>1. [letter |-> 3, dir |-> "root"] \in Addresses
    BY DEF Addresses, Dirs
  <2>2. Now.location # NoAddress => Now.location \in Addresses
    BY <1>n DEF Sessions
  <2>. QED
    BY <1>4, <2>1, <2>2, <1>t DEF StartBatch, AddressInv
<1>5. CASE StartCallable
  BY <1>5 DEF StartCallable, AddressInv, Now
<1>6. CASE Exchange \/ GuestWrites \/ CleanSystem
  BY <1>6, <1>u DEF Exchange, RunSome, Cut, Type, Invoke, Call, Return, Exchanged, GuestWrites, CleanSystem
<1>7. CASE Stop
  BY <1>7, <1>t DEF Stop
<1>8. CASE NextSession
  BY <1>8 DEF NextSession, AddressInv
<1>9. CASE UNCHANGED sessionVars
  BY <1>9, <1>u DEF sessionVars
<1>. QED
  BY <1>1, <1>2, <1>3, <1>4, <1>5, <1>6, <1>7, <1>8, <1>9 DEF SessionNext, Start

\* The names of a chunk are among those of the call.
LEMMA AskedAreNames ==
  ASSUME ChunksInv, asked \in 0 .. Len(out), asked < Len(out)
  PROVE  Asked \subseteq 1 .. Len(names)
<1>1. out \in Seq([from : 1 .. Len(names) + 1, to : 0 .. Len(names)]) /\ Len(names) \in Nat
  BY NamesAreFinite DEF ChunksInv, TypeOK
<1>2. out[asked + 1] \in [from : 1 .. Len(names) + 1, to : 0 .. Len(names)]
  <2>1. Len(out) \in Nat /\ asked + 1 \in 1 .. Len(out)
    BY <1>1
  <2>. QED
    BY <1>1, <2>1, ElementOf
<1>. QED
  BY <1>1, <1>2 DEF Asked

LEMMA CutGrows ==
  ASSUME ChunksInv, Next
  PROVE  Len(out) \in Nat /\ Len(out') >= Len(out) /\ UNCHANGED names /\ Len(out') \in Nat
<1>1. out \in Seq([from : 1 .. Len(names) + 1, to : 0 .. Len(names)])
  BY DEF ChunksInv, TypeOK
<1>2. Len(out) \in Nat
  BY <1>1
<1>3. CASE YieldAll
  <2>1. out = <<>>
    <3>. SUFFICES ASSUME out # <<>> PROVE FALSE
      OBVIOUS
    <3>1. Len(out) \in 1 .. Len(out)
      BY <1>1, <1>2
    <3>2. out[Len(out)] \in [from : 1 .. Len(names) + 1, to : 0 .. Len(names)]
      BY <1>1, <3>1, ElementOf
    <3>3. out[Len(out)].to = from - 1 /\ out[Len(out)].from <= out[Len(out)].to
      BY <3>1 DEF ChunksInv, EveryNameOnce
    <3>4. from = 1
      BY <1>3 DEF YieldAll, ChunksInv, TypeOK
    <3>. QED
      BY <3>2, <3>3, <3>4, NamesAreFinite DEF ChunksInv
  <2>. QED
    BY <1>3, <2>1 DEF YieldAll
<1>4. CASE Place
  BY <1>1, <1>2, <1>4 DEF Place
<1>5. CASE YieldLast
  BY <1>1, <1>2, <1>5 DEF YieldLast
<1>. QED
  BY <1>3, <1>4, <1>5 DEF Next

LEMMA CountsInit == SessionInit => CountsInv
<1>1. SessionInit => calls \in 0 .. Calls /\ setups \in Nat /\ asked \in 0 .. Len(out)
  BY SuiteSessionAssumption DEF SessionInit, Init
<1>2. SessionInit => wanted \cup outfile \cup ran \cup told \subseteq 1 .. Len(names)
  BY DEF SessionInit
<1>. QED
  BY <1>1, <1>2 DEF SessionInit, CountsInv

LEMMA CountsStep ==
  FlowInv /\ ChunksInv /\ CountsInv /\ [SessionNext]_sessionVars => CountsInv'
<1>. SUFFICES ASSUME FlowInv, ChunksInv, CountsInv, [SessionNext]_sessionVars
              PROVE  CountsInv'
  OBVIOUS
<1>h. H \in Homes
  BY HomesHaveH
<1>s. ASSUME UNCHANGED <<names, out, cleaned, busy, calls, asked, wanted, outfile, ran, told>>,
             bootImg' \subseteq Homes, setups' \in Nat
      PROVE  CountsInv'
  BY <1>s DEF CountsInv
<1>t. UNCHANGED bootImg \/ StopGuest => bootImg' \subseteq Homes
  BY DEF StopGuest, CountsInv
<1>1. CASE Stage
  <2>1. bootImg' \subseteq Homes
    BY <1>1, <1>h DEF Stage, StageBootImage, CountsInv
  <2>. QED
    BY <1>1, <2>1, <1>s DEF Stage, CountsInv, chunking, exchanges
<1>2. CASE Reopen \/ Create \/ PlaceSuite \/ StartBatch \/ StartCallable \/ Stop \/ GuestWrites
  BY <1>2, <1>s, <1>t DEF Reopen, Create, PlaceSuite, StartBatch, StartCallable, Stop, GuestWrites,
       CountsInv, chunking, homes, exchanges
<1>3. CASE Boot \/ Setup
  <2>1. bootImg' \subseteq Homes
    BY <1>3, <1>t DEF Boot, Setup
  <2>2. setups' \in Nat
    BY <1>3 DEF Boot, Setup, CountsInv
  <2>. QED
    BY <1>3, <2>1, <2>2, <1>s DEF Boot, Setup, chunking
<1>4. CASE RunSome
  BY <1>4, SuiteSessionAssumption DEF RunSome, CutAnew, CountsInv, homes
<1>5. CASE Cut
  BY <1>5, CutGrows DEF Cut, CountsInv, homes, exchanges
<1>6. CASE Type \/ Invoke \/ Call
  <2>1. asked < Len(out) /\ Asked \subseteq 1 .. Len(names) /\ Len(out) \in Nat
    BY <1>6, AskedAreNames, NamesAreFinite DEF Type, Invoke, Call, Asking, CountsInv, ChunksInv
  <2>2. UNCHANGED <<bootImg, cleaned, setups, calls, told, names, out>>
    BY <1>6 DEF Type, Invoke, Call, Exchanged, homes, chunking
  <2>3. asked' = asked \/ asked' = asked + 1
    BY <1>6 DEF Type, Invoke, Call, Reads, Raises
  <2>4. busy' = busy \/ busy' = FALSE
    BY <1>6 DEF Type, Invoke, Call, Reads, Raises
  <2>5. wanted' \cup outfile' \cup ran' \subseteq wanted \cup outfile \cup ran \cup Asked
    BY <1>6 DEF Type, Invoke, Call, Reads, Raises, Shown
  <2>6. asked' \in 0 .. Len(out')
    <3>1. out' = out /\ asked \in 0 .. Len(out)
      BY <2>2 DEF CountsInv
    <3>. QED
      BY <2>1, <2>3, <3>1
  <2>7. busy' \in BOOLEAN
    BY <2>4 DEF CountsInv
  <2>8. wanted' \cup outfile' \cup ran' \cup told' \subseteq 1 .. Len(names')
    BY <2>1, <2>2, <2>5 DEF CountsInv
  <2>. QED
    BY <2>2, <2>6, <2>8, <2>7 DEF CountsInv
<1>7. CASE Return
  BY <1>7 DEF Return, CountsInv, chunking, homes
<1>8. CASE NextSession
  <2>1. calls' \in 0 .. Calls /\ setups' \in Nat /\ asked' \in 0 .. Len(out')
    BY <1>8, SuiteSessionAssumption DEF NextSession, CutAnew
  <2>2. wanted' \cup outfile' \cup ran' \cup told' \subseteq 1 .. Len(names')
    BY <1>8 DEF NextSession
  <2>3. busy' \in BOOLEAN /\ UNCHANGED <<bootImg, cleaned>>
    BY <1>8 DEF NextSession, homes
  <2>. QED
    BY <2>1, <2>2, <2>3 DEF CountsInv
<1>9. CASE CleanSystem
  BY <1>9 DEF CleanSystem, CountsInv, chunking, exchanges
<1>10. CASE UNCHANGED sessionVars
  BY <1>10 DEF sessionVars, CountsInv, chunking, homes, exchanges
<1>. QED
  BY <1>1, <1>2, <1>3, <1>4, <1>5, <1>6, <1>7, <1>8, <1>9, <1>10 DEF SessionNext, Start, Exchange

LEMMA LastStep ==
  /\ FlowInv /\ HomesInv /\ PlacedInv /\ AddressInv /\ CountsInv /\ LastInv
  /\ [SessionNext]_sessionVars
  => LastInv'
<1>. SUFFICES ASSUME FlowInv, HomesInv, PlacedInv, AddressInv, CountsInv, LastInv,
                     [SessionNext]_sessionVars
              PROVE  LastInv'
  OBVIOUS
<1>n. Now \in Sessions /\ turn \in Nat
  BY NowType, SuiteSessionAssumption DEF FlowInv
<1>s. UNCHANGED last => LastInv'
  BY DEF LastInv
<1>1. CASE Type
  <2>1. stage = "up" /\ OnMachine
    BY <1>1 DEF Type, Asking, FlowInv, OnMachine
  <2>2. address # NoAddress
    BY <2>1, SuiteSessionAssumption DEF AddressInv, OnMachine
  <2>3. Found \in Nat
    BY <1>n, <2>1, <2>2, TypedIsFound
  <2>4. last' = [tried |-> TRUE, program |-> Found, setups |-> setups]
    BY <1>1 DEF Type, Runs
  <2>. QED
    BY <2>3, <2>4 DEF LastInv, CountsInv
<1>2. CASE Invoke
  <2>1. CASE UNCHANGED last
    BY <1>s, <2>1
  <2>2. CASE ~UNCHANGED last
    <3>1. /\ last' = [tried |-> TRUE, program |-> work["own"][address.dir], setups |-> Now.setup]
          /\ Now.provider = "dosbox-x" /\ busy
      BY <1>2, <2>2 DEF Invoke, Asking, Runs
    <3>2. work["own"][address.dir] = turn
      BY <3>1 DEF FlowInv, PlacedInv
    <3>3. Now.setup \in Nat
      BY <1>n DEF Sessions
    <3>. QED
      BY <1>n, <3>1, <3>2, <3>3 DEF LastInv
  <2>. QED
    BY <2>1, <2>2
<1>3. CASE NextSession
  BY <1>3 DEF NextSession, Nobody, LastInv
<1>4. CASE Start \/ RunSome \/ Cut \/ Call \/ Return \/ GuestWrites \/ Stop \/ CleanSystem
  BY <1>4, <1>s DEF Start, Stage, Reopen, Create, PlaceSuite, Boot, Setup, StartBatch, StartCallable,
       RunSome, Cut, Call, Return, GuestWrites, Stop, CleanSystem, exchanges
<1>5. CASE UNCHANGED sessionVars
  BY <1>5, <1>s DEF sessionVars, exchanges
<1>. QED
  BY <1>1, <1>2, <1>3, <1>4, <1>5 DEF SessionNext, Exchange

(* The types, of every variable and of how they hang together: one work    *)
(* drive in a machine, and an address just as long as it is settled.       *)
THEOREM SessionsAreTyped == SessionSpec => []SessionTypeOK
<1>1. SessionInit => WorkIsOne /\ AddressInv /\ CountsInv /\ LastInv
  <2>1. SessionInit => WorkIsOne
    BY DEF SessionInit, WorkIsOne, NoDrives, Machine
  <2>2. SessionInit => AddressInv /\ LastInv
    BY DEF SessionInit, AddressInv, LastInv, Nobody
  <2>. QED
    BY <2>1, <2>2, CountsInit
<1>2. /\ FlowInv /\ HomesInv /\ MediaInv /\ PlacedInv /\ ChunksInv
      /\ WorkIsOne /\ AddressInv /\ CountsInv /\ LastInv
      => SessionTypeOK
  <2>. SUFFICES ASSUME FlowInv, HomesInv, MediaInv, PlacedInv, ChunksInv,
                       WorkIsOne, AddressInv, CountsInv, LastInv
                PROVE  SessionTypeOK
    OBVIOUS
  <2>1. ASSUME NEW h \in Homes, Machine(h) # {}
        PROVE  Cardinality({d \in Machine(h) : document[h][d].location = "work"}) = 1
    <3>1. PICK d \in Machine(h) : document[h][d].location = "work"
      BY <2>1 DEF HomesInv
    <3>2. {e \in Machine(h) : document[h][e].location = "work"} = {d}
      BY <3>1 DEF WorkIsOne
    <3>. QED
      BY <3>2, FS_Singleton
  <2>2. address # NoAddress <=> stage \in {"placed", "booted", "up"} /\ Now.provider # "callable"
    BY SuiteSessionAssumption DEF FlowInv, AddressInv, OnMachine
  <2>3. touched \subseteq {"image", "system", "declared"}
    BY DEF MediaInv, ImagesAreOnlyRead
  <2>. QED
    BY <2>1, <2>2, <2>3 DEF SessionTypeOK, FlowInv, HomesInv, MediaInv, ChunksInv, AddressInv, CountsInv, LastInv
<1>. QED
  BY <1>1, <1>2, MediaAlways, ChunksAlways, FlowInit, HomesInit, PlacedInit, FlowStep, HomesStep,
     PlacedStep, WorkIsOneStep, AddressStep, CountsStep, LastStep, PTL DEF SessionSpec

-----------------------------------------------------------------------------
(* Every verdict a call returns is of a run of its own, but for those of a *)
(* first exchange that an earlier call's file answers.  A chunk is what    *)
(* its first name and the budget make it, so a file with all the names of  *)
(* the first chunk has no other; and if a name of it is missing there, the *)
(* call never reads it, as no later exchange asks for it.                  *)
Segment(a) == a .. a + ChunkLen(Chunk(a, Len(names)), side) - 1
First == out[1].from .. out[1].to

ReadInv ==
    /\ side = SideOf(Now)
    /\ outfile # {} => side = "tail" /\ \E a \in 1 .. Len(names) : outfile \subseteq Segment(a)
    /\ busy => told = {}
    /\ busy /\ asked = 0 => wanted = {}
    /\ busy /\ asked > 0 =>
          \/ wanted \cup outfile \subseteq ran \cup FirstAsked
          \/ \E i \in First : i \notin wanted \cup outfile
    /\ ToldWhatRan

LEMMA ChunkIsSegment ==
  ASSUME ChunksInv, NEW k \in 1 .. Len(out), side = "tail"
  PROVE  out[k].from .. out[k].to = Segment(out[k].from)
<1>. DEFINE a == out[k].from
            b == out[k].to
            n == ChunkLen(Chunk(a, Len(names)), side)
<1>1. b - a + 1 = n
  BY ChunkIsLongest DEF Limited
<1>2. a \in Int /\ b \in Int
  <2>1. a \in 1 .. Len(names) /\ b \in a .. Len(names)
    BY ChunkIsWithin
  <2>. QED
    BY <2>1
<1>3. Segment(a) = a .. a + n - 1
  BY DEF Segment
<1>. HIDE DEF a, b, n
<1>4. a + n - 1 = b
  BY ONLY <1>1, <1>2
<1>. QED
  BY <1>3, <1>4 DEF a, b

LEMMA LaterThanFirst ==
  ASSUME ChunksInv, NEW k \in 2 .. Len(out)
  PROVE  (out[k].from .. out[k].to) \cap First = {}
<1>. DEFINE S == {d \in Nat : d + 2 <= Len(out) => out[1].to < out[d + 2].from}
<1>1. Len(out) \in Nat /\ \A i \in 1 .. Len(out) : out[i].from \in Nat /\ out[i].to \in Nat
  <2>1. ASSUME NEW i \in 1 .. Len(out)
        PROVE  out[i].from \in 1 .. Len(names) /\ out[i].to \in out[i].from .. Len(names)
    BY ChunkIsWithin
  <2>. QED
    BY <2>1, NamesAreFinite DEF ChunksInv
<1>2. \A i \in 1 .. Len(out) - 1 : out[i + 1].from = out[i].to + 1
  BY DEF ChunksInv, EveryNameOnce
<1>3. \A i \in 1 .. Len(out) : out[i].from <= out[i].to
  BY DEF ChunksInv, EveryNameOnce
<1>4. 0 \in S
  BY <1>1, <1>2
<1>5. ASSUME NEW d \in S \cap Nat PROVE d + 1 \in S
  <2>1. SUFFICES ASSUME d + 3 <= Len(out) PROVE out[1].to < out[d + 3].from
    OBVIOUS
  <2>2. out[d + 3].from = out[d + 2].to + 1 /\ d + 2 \in 1 .. Len(out) /\ 1 \in 1 .. Len(out)
    BY <1>1, <1>2, <2>1
  <2>3. out[1].to < out[d + 2].from
    BY <2>2
  <2>. QED
    BY <1>1, <1>3, <2>2, <2>3
<1>6. k - 2 \in S
  <2>1. k - 2 \in Nat
    BY <1>1
  <2>. HIDE DEF S
  <2>. QED
    BY <1>4, <1>5, <2>1, NatSetInduction
<1>7. out[1].to < out[k].from
  BY <1>1, <1>6
<1>8. out[1].to \in Nat /\ out[k].from \in Nat
  BY <1>1
<1>. QED
  BY <1>7, <1>8 DEF First

\* What an exchange reads beyond what it runs is what the file had, and it
\* leaves the file as it is or with what the exchange ran.
LEMMA ExchangeReads ==
  ASSUME Type \/ Invoke \/ Call, ReadInv, ChunksInv, CountsInv
  PROVE  /\ asked \in Nat /\ asked + 1 \in 1 .. Len(out) /\ busy
         /\ UNCHANGED <<names, side, out, plan, turn, told>> /\ ran \subseteq ran'
         /\ outfile' # {} => outfile' = outfile \/ (side = "tail" /\ outfile' \subseteq Asked)
         /\ busy' =>
              /\ asked' = asked + 1
              /\ \/ /\ Asked \subseteq ran' /\ wanted' \subseteq wanted \cup Asked
                    /\ outfile' = outfile \/ outfile' \subseteq Asked
                    /\ side = "tail" => outfile' \subseteq Asked
                 \/ side = "tail" /\ wanted' = wanted \cup outfile /\ outfile' = outfile
<1>1. asked \in Nat /\ asked + 1 \in 1 .. Len(out) /\ busy
  BY NamesAreFinite DEF Type, Invoke, Call, Asking, CountsInv, ChunksInv
<1>2. UNCHANGED <<names, side, out, plan, turn, told>>
  BY DEF Type, Invoke, Call, Exchanged, chunking
<1>3. \A shown \in Shown : shown \subseteq Asked
  BY DEF Shown
<1>4. CASE Type
  <2>1. side # "tail" /\ outfile' = outfile
    BY <1>4 DEF Type, ReadInv, SideOf
  <2>. QED
    BY <1>1, <1>2, <1>3, <1>4, <2>1 DEF Type, Reads, Raises
<1>5. CASE Invoke
  <2>1. side = "tail"
    BY <1>5 DEF Invoke, ReadInv, SideOf
  <2>. QED
    BY <1>1, <1>2, <1>3, <1>5, <2>1 DEF Invoke, Reads, Raises
<1>6. CASE Call
  <2>1. side # "tail" /\ outfile' = outfile
    BY <1>6 DEF Call, ReadInv, SideOf
  <2>. QED
    BY <1>1, <1>2, <1>3, <1>6, <2>1 DEF Call, Reads, Raises
<1>. QED
  BY <1>4, <1>5, <1>6

\* The first exchange of a call.
LEMMA FirstRead ==
  ASSUME ReadInv, ChunksInv, CountsInv, Type \/ Invoke \/ Call, busy', asked = 0
  PROVE  \/ wanted' \cup outfile' \subseteq ran' \cup FirstAsked
         \/ \E i \in First : i \notin wanted' \cup outfile'
<1>1. /\ 1 \in 1 .. Len(out) /\ out # <<>> /\ wanted = {}
  BY ExchangeReads DEF ReadInv
<1>2. Asked = First /\ out[1].from = 1
  BY <1>1 DEF Asked, First, ChunksInv, EveryNameOnce
<1>3. CASE /\ Asked \subseteq ran' /\ wanted' \subseteq wanted \cup Asked
           /\ side = "tail" => outfile' \subseteq Asked
  <2>1. outfile' \subseteq Asked
    <3>1. side # "tail" => outfile = {}
      BY DEF ReadInv
    <3>2. outfile' # {} => outfile' = outfile \/ (side = "tail" /\ outfile' \subseteq Asked)
      BY ExchangeReads
    <3>. QED
      BY <1>3, <3>1, <3>2
  <2>. QED
    BY <1>1, <1>3, <2>1
<1>4. CASE side = "tail" /\ wanted' = wanted \cup outfile /\ outfile' = outfile
  <2>1. CASE First \subseteq outfile
    <3>1. First = Segment(1) /\ 1 \in First
      <4>1. First = Segment(1)
        BY <1>1, <1>2, <1>4, ChunkIsSegment DEF First
      <4>2. out[1].to \in 1 .. Len(names)
        BY <1>1, <1>2, ChunkIsWithin
      <4>. QED
        BY <1>2, <4>1, <4>2 DEF First
    <3>2. PICK a \in 1 .. Len(names) : outfile \subseteq Segment(a)
      BY <2>1, <3>1 DEF ReadInv
    <3>3. a = 1
      <4>1. 1 \in Segment(a)
        BY <2>1, <3>1, <3>2
      <4>. QED
        BY <4>1 DEF Segment
    <3>4. outfile \subseteq FirstAsked
      BY <1>1, <1>4, <3>1, <3>2, <3>3 DEF FirstAsked, First
    <3>. QED
      BY <1>1, <1>4, <3>4
  <2>2. CASE ~(First \subseteq outfile)
    BY <1>1, <1>4, <2>2
  <2>. QED
    BY <2>1, <2>2
<1>. QED
  BY <1>3, <1>4, ExchangeReads

\* Any other.
LEMMA LaterRead ==
  ASSUME ReadInv, ChunksInv, CountsInv, Type \/ Invoke \/ Call, busy', asked > 0
  PROVE  \/ wanted' \cup outfile' \subseteq ran' \cup FirstAsked
         \/ \E i \in First : i \notin wanted' \cup outfile'
<1>1. /\ asked + 1 \in 2 .. Len(out) /\ busy /\ ran \subseteq ran'
  BY ExchangeReads
<1>2. Asked \cap First = {}
  BY <1>1, LaterThanFirst DEF Asked
<1>3. \/ /\ Asked \subseteq ran' /\ wanted' \subseteq wanted \cup Asked
         /\ outfile' \subseteq outfile \cup Asked
      \/ wanted' = wanted \cup outfile /\ outfile' = outfile
  BY ExchangeReads
<1>4. CASE wanted \cup outfile \subseteq ran \cup FirstAsked
  BY <1>1, <1>3, <1>4
<1>5. CASE \E i \in First : i \notin wanted \cup outfile
  BY <1>2, <1>3, <1>5
<1>. QED
  BY <1>1, <1>4, <1>5 DEF ReadInv

LEMMA ReadInit == SessionInit => ReadInv
BY DEF SessionInit, ReadInv, ToldWhatRan, Now

LEMMA ReadStep ==
  FlowInv /\ ChunksInv /\ CountsInv /\ ReadInv /\ [SessionNext]_sessionVars => ReadInv'
<1>. SUFFICES ASSUME FlowInv, ChunksInv, CountsInv, ReadInv, [SessionNext]_sessionVars
              PROVE  ReadInv'
  OBVIOUS
<1>s. ASSUME UNCHANGED <<names, side, out, plan, turn, busy, asked, wanted, outfile, ran, told>>
      PROVE  ReadInv'
  BY <1>s DEF ReadInv, ToldWhatRan, FirstAsked, First, Segment, Chunk, Now
<1>1. CASE Start \/ GuestWrites \/ Stop \/ CleanSystem
  BY <1>1, <1>s DEF Start, Stage, Reopen, Create, PlaceSuite, Boot, Setup, StartBatch, StartCallable,
       GuestWrites, Stop, CleanSystem, exchanges, chunking
<1>2. CASE RunSome
  BY <1>2 DEF RunSome, ReadInv, ToldWhatRan, Segment, Chunk, Now
<1>3. CASE Cut
  <2>1. UNCHANGED <<names, side, plan, turn, busy, asked, wanted, outfile, ran, told>>
    BY <1>3, CutGrows DEF Cut, Next, YieldAll, Place, YieldLast, exchanges
  <2>2. busy /\ told = {}
    BY <1>3 DEF Cut, ReadInv
  <2>3. asked > 0 => First' = First /\ FirstAsked' = FirstAsked
    <3>1. SUFFICES ASSUME asked > 0 PROVE out # <<>> /\ out' # <<>> /\ out'[1] = out[1]
      BY <2>1 DEF First, FirstAsked
    <3>2. out \in Seq([from : 1 .. Len(names) + 1, to : 0 .. Len(names)]) /\ Len(out) >= 1
      BY <3>1 DEF CountsInv, ChunksInv, TypeOK
    <3>3. ~YieldAll
      <4>1. from # 1
        <5>1. 1 \in 1 .. Len(out) /\ Len(out) \in 1 .. Len(out)
          BY <3>2
        <5>2. out[Len(out)].from \in 1 .. Len(names) /\ out[Len(out)].to \in out[Len(out)].from .. Len(names)
          BY <5>1, ChunkIsWithin
        <5>3. out[Len(out)].to = from - 1
          BY <3>2 DEF ChunksInv, EveryNameOnce
        <5>. QED
          BY <5>2, <5>3
      <4>. QED
        BY <4>1 DEF YieldAll, ChunksInv, TypeOK
    <3>4. out' = out \/ \E c : out' = Append(out, c)
      BY <1>3, <3>3 DEF Cut, Next, Place, YieldLast
    <3>. QED
      BY <3>2, <3>4
  <2>4. \A a \in 1 .. Len(names) : Segment(a)' = Segment(a)
    BY <2>1 DEF Segment, Chunk
  <2>. QED
    BY <2>1, <2>2, <2>3, <2>4 DEF ReadInv, ToldWhatRan, Now
<1>4. CASE Type \/ Invoke \/ Call
  <2>1. /\ asked \in Nat /\ asked + 1 \in 1 .. Len(out) /\ busy
        /\ UNCHANGED <<names, side, out, plan, turn, told>>
        /\ outfile' # {} => outfile' = outfile \/ (side = "tail" /\ outfile' \subseteq Asked)
        /\ busy' => asked' = asked + 1
    BY <1>4, ExchangeReads
  <2>2. /\ First' = First /\ FirstAsked' = FirstAsked
        /\ \A a \in 1 .. Len(names) : Segment(a)' = Segment(a)
    BY <2>1 DEF First, FirstAsked, Segment, Chunk
  <2>3. told' = {} /\ side' = SideOf(Now)'
    BY <2>1 DEF ReadInv, Now
  <2>4. outfile' # {} => side' = "tail" /\ \E a \in 1 .. Len(names') : outfile' \subseteq Segment(a)'
    <3>1. CASE outfile' = outfile
      BY <2>1, <2>2, <3>1 DEF ReadInv
    <3>2. CASE side = "tail" /\ outfile' \subseteq Asked
      <4>. DEFINE a == out[asked + 1].from
      <4>1. Asked = Segment(a) /\ a \in 1 .. Len(names)
        BY <2>1, <3>2, ChunkIsSegment, ChunkIsWithin DEF Asked
      <4>. QED
        BY <2>1, <2>2, <3>2, <4>1
    <3>. QED
      BY <2>1, <3>1, <3>2
  <2>5. busy' => \/ wanted' \cup outfile' \subseteq ran' \cup FirstAsked
                 \/ \E i \in First : i \notin wanted' \cup outfile'
    <3>1. CASE asked = 0
      BY <1>4, <3>1, FirstRead
    <3>2. CASE asked > 0
      BY <1>4, <3>2, LaterRead
    <3>. QED
      BY <2>1, <3>1, <3>2
  <2>6. busy' => asked' # 0
    BY <2>1
  <2>. QED
    BY <2>2, <2>3, <2>4, <2>5, <2>6 DEF ReadInv, ToldWhatRan
<1>5. CASE Return
  <2>1. /\ busy' = FALSE /\ UNCHANGED <<names, side, out, plan, turn, outfile, ran>>
        /\ told' = IF 1 .. Len(names) \subseteq wanted THEN 1 .. Len(names) ELSE {}
    BY <1>5 DEF Return, chunking
  <2>2. asked > 0
    <3>1. out # <<>>
      BY <1>5, NamesAreFinite DEF Return, Finished, ChunksInv, EveryNameOnce
    <3>2. asked = Len(out) /\ Len(out) \in Nat
      BY <1>5, NamesAreFinite DEF Return, ChunksInv
    <3>. QED
      BY <3>1, <3>2 DEF ChunksInv, TypeOK
  <2>3. First \subseteq 1 .. Len(names)
    <3>1. 1 \in 1 .. Len(out)
      BY <2>2, <1>5, NamesAreFinite DEF Return, ChunksInv
    <3>2. out[1].from \in 1 .. Len(names) /\ out[1].to \in out[1].from .. Len(names)
      BY <3>1, ChunkIsWithin
    <3>. QED
      BY <3>2, NamesAreFinite DEF First, ChunksInv
  <2>4. told' \subseteq ran \cup FirstAsked
    BY <1>5, <2>1, <2>2, <2>3 DEF ReadInv, Return
  <2>. QED
    BY <2>1, <2>4 DEF ReadInv, ToldWhatRan, FirstAsked, First, Segment, Chunk, Now
<1>6. CASE NextSession
  BY <1>6 DEF NextSession, ReadInv, ToldWhatRan, Now
<1>7. CASE UNCHANGED sessionVars
  BY <1>7, <1>s DEF sessionVars, exchanges, chunking
<1>. QED
  BY <1>1, <1>2, <1>3, <1>4, <1>5, <1>6, <1>7 DEF SessionNext, Exchange

(* No verdict is of a run that the call did not make, but for those of a   *)
(* first exchange under DOSBox-X that the file of an earlier call answers. *)
THEOREM VerdictsAreOfRuns == SessionSpec => []ToldWhatRan
<1>1. ReadInv => ToldWhatRan
  BY DEF ReadInv
<1>. QED
  BY <1>1, ChunksAlways, FlowInit, CountsInit, ReadInit, FlowStep, CountsStep, ReadStep, PTL DEF SessionSpec

=============================================================================
