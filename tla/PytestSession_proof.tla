------------------------- MODULE PytestSession_proof ------------------------
(* Proofs about PytestSession, for any suites, projects and faults.        *)
EXTENDS PytestSession, FiniteSetTheorems, TLAPS

(* What the argument rests on: the guests that are up and the stops left   *)
(* are of suites, and nothing is being listed once collection is over.     *)
Shape ==
    /\ live \in Seq(Files) /\ cleanups \in Seq(Files) /\ up \subseteq Files
    /\ enumerating # Nothing => stage = "collecting" /\ enumerating \in Files

Inv == Shape /\ EveryGuestHasItsStop

(* A stop added to the end of a list is one of the list's, with the ones   *)
(* before it.                                                              *)
LEMMA AddedStop ==
  ASSUME NEW s \in Seq(Files), NEW f \in Files
  PROVE  /\ Append(s, f) \in Seq(Files)
         /\ Range(Append(s, f)) = Range(s) \cup {f}
<1>1. Append(s, f) \in Seq(Files) /\ Len(Append(s, f)) = Len(s) + 1
  OBVIOUS
<1>2. DOMAIN Append(s, f) = 1 .. Len(s) + 1 /\ DOMAIN s = 1 .. Len(s)
  OBVIOUS
<1>3. \A k \in 1 .. Len(s) : Append(s, f)[k] = s[k]
  OBVIOUS
<1>4. Append(s, f)[Len(s) + 1] = f
  OBVIOUS
<1> QED
  BY <1>1, <1>2, <1>3, <1>4 DEF Range

(* Taking the last stop off a list takes off no other.                     *)
LEMMA LastStop ==
  ASSUME NEW s \in Seq(Files), s # <<>>
  PROVE  /\ Last(s) \in Files
         /\ Front(s) \in Seq(Files)
         /\ Range(s) \subseteq Range(Front(s)) \cup {Last(s)}
<1>1. Len(s) \in Nat \ {0}
  OBVIOUS
<1>2. Front(s) = [k \in 1 .. Len(s) - 1 |-> s[k]]
  BY <1>1 DEF Front
<1>3. \A k \in 1 .. Len(s) - 1 : Front(s)[k] = s[k]
  BY <1>1, <1>2
<1>4. Front(s) \in Seq(Files) /\ DOMAIN Front(s) = 1 .. Len(s) - 1
  BY <1>1, <1>2
<1> QED
  BY <1>1, <1>3, <1>4 DEF Range, Last

(* A stop takes down the guest it is a stop of, whether or not it raises.  *)
LEMMA Stopping ==
  ASSUME NEW f, NEW ok \in BOOLEAN, StopGuest(f, ok)
  PROVE  up' = up \ {f}
BY DEF StopGuest

(* And a start brings up no guest but its own.                            *)
LEMMA Starting ==
  ASSUME NEW f, NEW ok \in BOOLEAN, StartGuest(f, guest, ok)
  PROVE  up' \subseteq up \cup (IF ok THEN {f} ELSE {})
BY DEF StartGuest, Rivals

LEMMA InitInv == Init => Inv
BY DEF Init, Inv, Shape, EveryGuestHasItsStop

LEMMA CollectKeeps ==
  ASSUME Inv, NEW f \in Files, Collect(f)
  PROVE  Inv'
<1> USE PytestSessionAssumption
<1>1. CASE Walk(f) \/ PassBy(f) \/ Refuse(f) \/ ListOnHost(f)
  BY <1>1 DEF Walk, PassBy, Refuse, ListOnHost, Inv, Shape, EveryGuestHasItsStop, stops, guests, execution
<1>2. CASE Enumerate(f)
  <2>1. stage = "collecting" /\ enumerating = Nothing /\ UNCHANGED <<stage, stops>>
    BY <1>2 DEF Enumerate, Ours, Come
  <2>2. CASE StartGuest(f, guest', TRUE) /\ enumerating' = f
    <3>1. up' \subseteq up \cup {f}
      BY <2>2 DEF StartGuest
    <3> QED
      BY <2>1, <2>2, <3>1 DEF Inv, Shape, EveryGuestHasItsStop, stops
  <2>3. CASE StartGuest(f, guest', FALSE) /\ UNCHANGED enumerating
    BY <2>1, <2>3 DEF StartGuest, Inv, Shape, EveryGuestHasItsStop, stops
  <2> QED
    BY <1>2, <2>2, <2>3 DEF Enumerate
<1>3. CASE Enumerated(f)
  <2>1. enumerating = f /\ enumerating' = Nothing /\ UNCHANGED <<stage, stops>>
    BY <1>3 DEF Enumerated
  <2>2. up' = up \ {f}
    BY <1>3, Stopping DEF Enumerated
  <2> QED
    BY <2>1, <2>2 DEF Inv, Shape, EveryGuestHasItsStop, stops
<1> QED
  BY <1>1, <1>2, <1>3 DEF Collect

LEMMA RunItemKeeps ==
  ASSUME Inv, NEW i \in Items, RunItem(i)
  PROVE  Inv'
<1> DEFINE f == SuiteOf[i]
<1>1. f \in Files
  BY PytestSessionAssumption
<1>2. UNCHANGED <<stage, enumerating>>
  BY DEF RunItem, collection
<1>3. CASE UNCHANGED <<stops, guests>>
  BY <1>2, <1>3 DEF Inv, Shape, EveryGuestHasItsStop, stops, guests
<1>4. CASE StartGuest(f, guest, TRUE) /\ LeaveStop(f)
  <2>1. up' \subseteq up \cup {f}
    BY <1>4, Starting
  <2>2. CASE cleanups' = Append(cleanups, f) /\ UNCHANGED live
    BY <1>1, <1>2, <2>1, <2>2, AddedStop DEF Inv, Shape, EveryGuestHasItsStop
  <2>3. CASE live' = Append(live, f) /\ UNCHANGED cleanups
    BY <1>1, <1>2, <2>1, <2>3, AddedStop DEF Inv, Shape, EveryGuestHasItsStop
  <2> QED
    BY <1>4, <2>2, <2>3 DEF LeaveStop
<1>5. CASE StartGuest(f, guest, FALSE) /\ UNCHANGED stops
  BY <1>2, <1>5, Starting DEF Inv, Shape, EveryGuestHasItsStop, stops
<1> QED
  BY <1>3, <1>4, <1>5 DEF RunItem

LEMMA InterruptKeeps == Inv /\ Interrupt => Inv'
<1> SUFFICES ASSUME Inv, Interrupt PROVE Inv'
  OBVIOUS
<1>1. enumerating' = Nothing /\ UNCHANGED stops
  BY DEF Interrupt
<1>2. up' \subseteq up \ (IF enumerating # Nothing THEN {enumerating} ELSE {})
  BY Stopping DEF Interrupt, guests
<1>3. Nothing \notin Files
  BY PytestSessionAssumption
<1> QED
  BY <1>1, <1>2, <1>3 DEF Inv, Shape, EveryGuestHasItsStop, stops

LEMMA FinishKeeps == Inv /\ Finish => Inv'
<1> SUFFICES ASSUME Inv, Finish PROVE Inv'
  OBVIOUS
<1>1. live' = Front(live) /\ live # <<>> /\ UNCHANGED <<stage, enumerating, cleanups>>
  BY DEF Finish, collection
<1>2. up' = up \ {Last(live)}
  BY Stopping DEF Finish
<1>3. live' \in Seq(Files) /\ Range(live) \subseteq Range(live') \cup {Last(live)}
  BY <1>1, LastStop DEF Inv, Shape
<1> QED
  BY <1>1, <1>2, <1>3 DEF Inv, Shape, EveryGuestHasItsStop

LEMMA UnconfigureKeeps == Inv /\ Unconfigure => Inv'
<1> SUFFICES ASSUME Inv, Unconfigure PROVE Inv'
  OBVIOUS
<1>1. UNCHANGED <<live, enumerating>> /\ enumerating = Nothing
  BY DEF Unconfigure, collection, Inv, Shape
<1>2. CASE cleanups # <<>>
  <2>1. cleanups' = Front(cleanups) /\ up' = up \ {Last(cleanups)}
    BY <1>2, Stopping DEF Unconfigure
  <2>2. cleanups' \in Seq(Files) /\ Range(cleanups) \subseteq Range(cleanups') \cup {Last(cleanups)}
    BY <1>2, <2>1, LastStop DEF Inv, Shape
  <2> QED
    BY <1>1, <2>1, <2>2 DEF Inv, Shape, EveryGuestHasItsStop
<1>3. CASE cleanups = <<>>
  BY <1>1, <1>3 DEF Unconfigure, guests, Inv, Shape, EveryGuestHasItsStop
<1> QED
  BY <1>2, <1>3

LEMMA NextKeeps == Inv /\ [Next]_vars => Inv'
<1> SUFFICES ASSUME Inv, [Next]_vars PROVE Inv'
  OBVIOUS
<1>1. CASE Configure
  BY <1>1 DEF Configure, Inv, Shape, EveryGuestHasItsStop, collection, stops, guests
<1>2. CASE Collected
  BY <1>2 DEF Collected, Inv, Shape, EveryGuestHasItsStop, stops, guests
<1>3. CASE AllRun
  BY <1>3 DEF AllRun, Inv, Shape, EveryGuestHasItsStop, collection, stops, guests
<1>4. CASE Summarise
  BY <1>4 DEF Summarise, Inv, Shape, EveryGuestHasItsStop, collection, stops, guests
<1>5. ASSUME NEW i \in Items, Answer(i) PROVE Inv'
  BY <1>5 DEF Answer, Inv, Shape, EveryGuestHasItsStop, collection, stops, guests
<1>6. CASE UNCHANGED vars
  BY <1>6 DEF vars, Inv, Shape, EveryGuestHasItsStop, collection, stops, guests
<1>7. ASSUME NEW m \in Modules, Import(m) PROVE Inv'
  BY <1>7 DEF Import, Inv, Shape, EveryGuestHasItsStop, stops, guests
<1> QED
  BY <1>1, <1>2, <1>3, <1>4, <1>5, <1>6, <1>7, CollectKeeps, RunItemKeeps, InterruptKeeps,
     FinishKeeps, UnconfigureKeeps DEF Next

(* Whatever raises and whenever the session is interrupted, a guest is up  *)
(* only while one of the three who stop guests has it to stop: collect()   *)
(* itself, pytest_sessionfinish, or the cleanup of an embedded suite.      *)
THEOREM NoGuestIsStranded == Spec => []EveryGuestHasItsStop
<1>1. Inv => EveryGuestHasItsStop
  BY DEF Inv
<1> QED
  BY InitInv, NextKeeps, <1>1, PTL DEF Spec
-----------------------------------------------------------------------------
(* What a suite's boots are counted by.  Collection comes to a file once,  *)
(* and a guest that came up for an item of a suite has it in started.      *)
Listed(f) ==
    \/ stage \notin {"configuring", "collecting"}
    \/ enumerating = f
    \/ \E k \in 1 .. Len(Order) : k < at /\ Order[k] = f

BootInv ==
    /\ at \in Nat \ {0}
    /\ enumerating # Nothing => /\ stage = "collecting" /\ enumerating \in Files
                               /\ at \in 1 .. Len(Order) /\ Order[at] = enumerating
    /\ stage \in {"configuring", "collecting"} => started = {}
    /\ started \subseteq {SuiteOf[i] : i \in selected \cap Items}
    /\ boots \in [Files -> Nat]
    /\ \A f \in Files :
          boots[f] <= (IF Listed(f) /\ f \notin project.twins THEN 1 ELSE 0)
                      + (IF f \in started THEN 1 ELSE 0)

LEMMA BootInvInit == Init => BootInv
<1> SUFFICES ASSUME Init PROVE BootInv
  OBVIOUS
<1> USE DEF Init
<1>1. boots \in [Files -> Nat] /\ \A f \in Files : boots[f] = 0
  OBVIOUS
<1>2. \A f \in Files : boots[f] <= (IF Listed(f) /\ f \notin project.twins THEN 1 ELSE 0)
                                   + (IF f \in started THEN 1 ELSE 0)
  <2>1. TAKE f \in Files
  <2>2. CASE Listed(f) /\ f \notin project.twins
    BY <1>1, <2>2
  <2>3. CASE ~(Listed(f) /\ f \notin project.twins)
    BY <1>1, <2>3
  <2> QED
    BY <2>2, <2>3
<1> QED
  BY <1>1, <1>2 DEF BootInv

(* A step that boots nothing, and by which no file is less listed.         *)
LEMMA BootsAsBefore ==
  ASSUME BootInv, boots' = boots, project' = project, started' = started,
         \A f \in Files : Listed(f) => Listed(f)'
  PROVE  \A f \in Files :
            boots'[f] <= (IF Listed(f)' /\ f \notin project'.twins THEN 1 ELSE 0)
                         + (IF f \in started' THEN 1 ELSE 0)
<1>1. TAKE f \in Files
<1>2. /\ boots[f] \in Nat
      /\ boots[f] <= (IF Listed(f) /\ f \notin project.twins THEN 1 ELSE 0)
                     + (IF f \in started THEN 1 ELSE 0)
  BY DEF BootInv
<1>3. CASE Listed(f) /\ f \notin project.twins
  BY <1>2, <1>3
<1>4. CASE ~(Listed(f) /\ f \notin project.twins)
  <2>1. boots[f] <= IF f \in started THEN 1 ELSE 0
    BY <1>2, <1>4
  <2>2. CASE Listed(f)' /\ f \notin project'.twins
    BY <1>2, <2>1, <2>2
  <2>3. CASE ~(Listed(f)' /\ f \notin project'.twins)
    BY <1>2, <2>1, <2>3
  <2> QED
    BY <2>2, <2>3
<1> QED
  BY <1>3, <1>4

LEMMA BootWalk ==
  ASSUME BootInv, NEW f \in Files, Walk(f)
  PROVE  BootInv'
<1>1. UNCHANGED <<project, stage, at, enumerating, selected, started, boots>>
  BY DEF Walk, execution, guests
<1>2. \A g \in Files : Listed(g) => Listed(g)'
  BY <1>1 DEF Listed
<1> QED
  BY <1>1, <1>2, BootsAsBefore DEF BootInv

LEMMA BootImport ==
  ASSUME BootInv, NEW m \in Modules, Import(m)
  PROVE  BootInv'
<1>1. /\ UNCHANGED <<project, stage, enumerating, selected, started, boots>>
      /\ at' = at + 1 /\ enumerating = Nothing
  BY DEF Import, Come, GoOn, execution, guests
<1>2. \A g \in Files : Listed(g) => Listed(g)'
  BY <1>1 DEF Listed, BootInv
<1> QED
  BY <1>1, <1>2, BootsAsBefore DEF BootInv

LEMMA BootCollect ==
  ASSUME BootInv, NEW f \in Files, Collect(f), ~Walk(f)
  PROVE  BootInv'
<1> USE PytestSessionAssumption
<1>1. stage = "collecting" /\ stage' = "collecting" /\ project' = project
      /\ started' = started /\ started = {} /\ at \in 1 .. Len(Order) /\ Order[at] = f
  <2>1. CASE Enumerated(f)
    <3>1. f # Nothing
      OBVIOUS
    <3> QED
      BY <2>1, <3>1 DEF Enumerated, execution, BootInv
  <2>2. CASE PassBy(f) \/ Refuse(f) \/ ListOnHost(f) \/ Enumerate(f)
    <3>1. Come(f) /\ UNCHANGED <<stage, project, started>>
      BY <2>2 DEF PassBy, Refuse, ListOnHost, Enumerate, Ours, execution
    <3> QED
      BY <3>1 DEF Come, BootInv
  <2> QED
    BY <2>1, <2>2 DEF Collect
<1>2. CASE PassBy(f) \/ Refuse(f) \/ ListOnHost(f)
  <2>1. /\ enumerating = Nothing /\ enumerating' = Nothing /\ at' = at + 1 /\ boots' = boots
        /\ UNCHANGED selected
    BY <1>2 DEF PassBy, Refuse, ListOnHost, Ours, Come, GoOn, guests
  <2>2. \A g \in Files : Listed(g) => Listed(g)'
    BY <1>1, <2>1 DEF Listed, BootInv
  <2> QED
    BY <1>1, <2>1, <2>2, BootsAsBefore DEF BootInv
<1>3. CASE Enumerated(f)
  <2>1. /\ enumerating = f /\ enumerating' = Nothing /\ at' = at + 1 /\ boots' = boots
        /\ UNCHANGED selected
    BY <1>3 DEF Enumerated, StopGuest, GoOn
  <2>2. \A g \in Files : Listed(g) => Listed(g)'
    BY <1>1, <2>1 DEF Listed, BootInv
  <2> QED
    BY <1>1, <2>1, <2>2, BootsAsBefore DEF BootInv
<1>4. CASE Enumerate(f)
  <2>1. enumerating = Nothing /\ f \notin project.twins /\ UNCHANGED selected
    BY <1>4 DEF Enumerate, Ours, Come
  <2>2. CASE StartGuest(f, guest', FALSE) /\ GoOn /\ UNCHANGED enumerating
    <3>1. at' = at + 1 /\ enumerating' = Nothing /\ boots' = boots
      BY <2>1, <2>2 DEF GoOn, StartGuest
    <3>2. \A g \in Files : Listed(g) => Listed(g)'
      BY <1>1, <2>1, <3>1 DEF Listed, BootInv
    <3> QED
      BY <1>1, <2>1, <3>1, <3>2, BootsAsBefore DEF BootInv
  <2>3. CASE StartGuest(f, guest', TRUE) /\ enumerating' = f /\ UNCHANGED at
    <3>1. ~Listed(f)
      <4>1. \A k \in 1 .. Len(Order) : Order[k] = f => k = at
        BY <1>1 DEF IsInjective
      <4> QED
        BY <1>1, <2>1, <4>1 DEF Listed
    <3>2. boots[f] = 0
      BY <1>1, <3>1 DEF BootInv
    <3>3. boots' = [boots EXCEPT ![f] = @ + 1]
      BY <2>3 DEF StartGuest
    <3>4. /\ boots' \in [Files -> Nat] /\ boots'[f] = 1
          /\ \A g \in Files : g # f => boots'[g] = boots[g]
      BY <3>2, <3>3 DEF BootInv
    <3>5. \A g \in Files : g # f => (Listed(g) <=> Listed(g)')
      BY <1>1, <2>1, <2>3 DEF Listed
    <3>6. Listed(f)'
      BY <2>3 DEF Listed
    <3>7. \A g \in Files :
            boots'[g] <= (IF Listed(g)' /\ g \notin project'.twins THEN 1 ELSE 0)
                         + (IF g \in started' THEN 1 ELSE 0)
      <4>1. TAKE g \in Files
      <4>2. CASE g = f
        BY <1>1, <2>1, <3>4, <3>6, <4>2
      <4>3. CASE g # f
        BY <1>1, <3>4, <3>5, <4>3 DEF BootInv
      <4> QED
        BY <4>2, <4>3
    <3> QED
      BY <1>1, <2>1, <2>3, <3>4, <3>7 DEF BootInv
  <2> QED
    BY <1>4, <2>2, <2>3 DEF Enumerate
<1> QED
  BY <1>2, <1>3, <1>4 DEF Collect

LEMMA BootRunItem ==
  ASSUME BootInv, NEW i \in Items, RunItem(i)
  PROVE  BootInv'
<1> DEFINE f == SuiteOf[i]
<1>1. f \in Files
  BY PytestSessionAssumption
<1>2. /\ stage = "running" /\ i \in selected
      /\ UNCHANGED <<project, stage, at, enumerating, selected>>
  BY DEF RunItem, Comes, collection
<1>3. \A g \in Files : Listed(g) <=> Listed(g)'
  BY <1>2 DEF Listed
<1>4. CASE boots' = boots /\ started' = started
  BY <1>2, <1>3, <1>4, BootsAsBefore DEF BootInv
<1>5. CASE f \notin started /\ StartGuest(f, guest, TRUE) /\ started' = started \cup {f}
  <2>1. boots' = [boots EXCEPT ![f] = @ + 1]
    BY <1>5 DEF StartGuest
  <2>2. /\ boots' \in [Files -> Nat] /\ boots'[f] = boots[f] + 1
        /\ \A g \in Files : g # f => boots'[g] = boots[g]
    BY <1>1, <2>1 DEF BootInv
  <2>3. \A g \in Files :
          boots'[g] <= (IF Listed(g)' /\ g \notin project'.twins THEN 1 ELSE 0)
                       + (IF g \in started' THEN 1 ELSE 0)
    <3>1. TAKE g \in Files
    <3>2. CASE g = f
      <4>1. boots[g] \in Nat /\ boots[g] <= (IF Listed(g)' /\ g \notin project'.twins THEN 1 ELSE 0)
        BY <1>2, <1>3, <1>5, <3>2 DEF BootInv
      <4> QED
        BY <1>5, <2>2, <3>2, <4>1
    <3>3. CASE g # f
      BY <1>2, <1>3, <1>5, <2>2, <3>3 DEF BootInv
    <3> QED
      BY <3>2, <3>3
  <2> QED
    BY <1>2, <1>5, <2>2, <2>3 DEF BootInv
<1> QED
  BY <1>4, <1>5 DEF RunItem, StartGuest, guests

LEMMA BootInvStep == BootInv /\ [Next]_vars => BootInv'
<1> SUFFICES ASSUME BootInv, [Next]_vars PROVE BootInv'
  OBVIOUS
<1>1. CASE UNCHANGED vars
  <2>1. \A f \in Files : Listed(f) <=> Listed(f)'
    BY <1>1 DEF vars, collection, Listed
  <2> QED
    BY <1>1, <2>1 DEF vars, collection, execution, guests, BootInv
<1>2. CASE Configure
  <2>1. UNCHANGED <<project, at, enumerating, selected, started, boots>> /\ enumerating = Nothing
        /\ started = {}
    BY <1>2 DEF Configure, collection, execution, guests, BootInv
  <2>2. \A f \in Files : Listed(f) => Listed(f)'
    BY <1>2, <2>1 DEF Configure, Listed
  <2> QED
    BY <2>1, <2>2, BootsAsBefore DEF BootInv
<1>3. CASE Collected
  <2>1. /\ UNCHANGED <<project, at, enumerating, started, boots>> /\ enumerating = Nothing
        /\ started = {} /\ stage' \in {"finishing", "running"}
    BY <1>3 DEF Collected, execution, guests, BootInv
  <2>2. \A f \in Files : Listed(f) => Listed(f)'
    BY <2>1 DEF Listed
  <2> QED
    BY <2>1, <2>2, BootsAsBefore DEF BootInv
<1>4. CASE AllRun \/ Finish \/ Summarise \/ Unconfigure
  <2>1. /\ UNCHANGED <<project, at, enumerating, selected, started, boots>>
        /\ stage \notin {"configuring", "collecting"}
        /\ stage' \notin {"configuring", "collecting"}
    BY <1>4 DEF AllRun, Finish, Summarise, Unconfigure, StopGuest, collection, execution, guests
  <2>2. \A f \in Files : Listed(f) => Listed(f)'
    BY <2>1 DEF Listed
  <2> QED
    BY <2>1, <2>2, BootsAsBefore DEF BootInv
<1>5. ASSUME NEW i \in Items, Answer(i) PROVE BootInv'
  <2>1. UNCHANGED <<project, stage, at, enumerating, selected, started, boots>>
    BY <1>5 DEF Answer, collection, guests
  <2>2. \A f \in Files : Listed(f) => Listed(f)'
    BY <2>1 DEF Listed
  <2> QED
    BY <2>1, <2>2, BootsAsBefore DEF BootInv
<1>6. CASE Interrupt
  <2>1. /\ UNCHANGED <<project, at, selected, started, boots>> /\ enumerating' = Nothing
        /\ stage' = "finishing"
    BY <1>6 DEF Interrupt, StopGuest, guests
  <2>2. \A f \in Files : Listed(f) => Listed(f)'
    BY <2>1 DEF Listed
  <2> QED
    BY <2>1, <2>2, BootsAsBefore DEF BootInv
<1> QED
  BY <1>1, <1>2, <1>3, <1>4, <1>5, <1>6, BootWalk, BootImport, BootCollect, BootRunItem DEF Next

(* No boot is wasted: one to list a suite, none when its twin lists it,    *)
(* and one more only for an item of it that was selected.                  *)
THEOREM NoBootIsWasted == Spec => []BootsAreEarned
<1>1. BootInv => BootsAreEarned
  <2> SUFFICES ASSUME BootInv, NEW f \in Files
               PROVE  boots[f] <= (IF f \in project.twins THEN 0 ELSE 1)
                                  + (IF ItemsOf({f}) \cap selected # {} THEN 1 ELSE 0)
    BY DEF BootsAreEarned
  <2>1. f \in started => ItemsOf({f}) \cap selected # {}
    BY DEF BootInv, ItemsOf
  <2>2. boots[f] \in Nat /\ boots[f] <= (IF f \in project.twins THEN 0 ELSE 1)
                                       + (IF f \in started THEN 1 ELSE 0)
    <3>1. CASE f \in project.twins
      BY <3>1 DEF BootInv
    <3>2. CASE f \notin project.twins
      BY <3>2 DEF BootInv
    <3> QED
      BY <3>1, <3>2
  <2>3. CASE f \in project.twins
    BY <2>1, <2>2, <2>3
  <2>4. CASE f \notin project.twins
    BY <2>1, <2>2, <2>4
  <2> QED
    BY <2>3, <2>4
<1> QED
  BY <1>1, BootInvInit, BootInvStep, PTL DEF Spec

-----------------------------------------------------------------------------
(* After the summary only stops left to pytest's cleanups keep a home, and *)
(* those are of embedded suites.                                           *)
SummaryInv ==
    /\ cleanups \in Seq(Files) /\ Range(cleanups) \subseteq Embedded
    /\ kept \in [Files -> Nat]
    /\ stage = "configuring" => named = kept
    /\ KeptHomesAreNamed

LEMMA KeepingHome ==
  ASSUME NEW f, NEW g, KeepHome(f, g), kept \in [Files -> Nat], f \in Files
  PROVE  kept' \in [Files -> Nat] /\ \A h \in Files : h # f => kept'[h] = kept[h]
BY DEF KeepHome

(* A step before the summary.                                              *)
LEMMA BeforeSummary ==
  ASSUME SummaryInv, stage' \notin {"configuring", "unconfiguring", "exited"},
         kept' \in [Files -> Nat],
         \/ cleanups' = cleanups
         \/ \E f \in Files \cap Embedded : cleanups' = Append(cleanups, f)
  PROVE  SummaryInv'
<1>1. CASE cleanups' = cleanups
  BY <1>1 DEF SummaryInv, KeptHomesAreNamed
<1>2. ASSUME NEW f \in Files \cap Embedded, cleanups' = Append(cleanups, f) PROVE SummaryInv'
  <2>1. cleanups' \in Seq(Files) /\ Range(cleanups') = Range(cleanups) \cup {f}
    BY <1>2, AddedStop DEF SummaryInv
  <2> QED
    BY <1>2, <2>1 DEF SummaryInv, KeptHomesAreNamed
<1> QED
  BY <1>1, <1>2

LEMMA SummaryStep == Inv /\ SummaryInv /\ [Next]_vars => SummaryInv'
<1> SUFFICES ASSUME Inv, SummaryInv, [Next]_vars PROVE SummaryInv'
  OBVIOUS
<1>a. kept \in [Files -> Nat]
  BY DEF SummaryInv
<1>1. CASE UNCHANGED vars
  BY <1>1 DEF vars, stops, guests, SummaryInv, KeptHomesAreNamed
<1>2. CASE Configure
  BY <1>2 DEF Configure, stops, guests, SummaryInv, KeptHomesAreNamed
<1>3. CASE Collected \/ AllRun
  BY <1>3, <1>a, BeforeSummary DEF Collected, AllRun, stops, guests
<1>4. ASSUME NEW f \in Files, Collect(f) PROVE SummaryInv'
  <2>1. stage' = "collecting" /\ cleanups' = cleanups
    <3>1. CASE Walk(f) \/ PassBy(f) \/ Refuse(f) \/ ListOnHost(f)
      BY <3>1 DEF Walk, PassBy, Refuse, ListOnHost, Ours, Come, stops
    <3>2. CASE Enumerate(f)
      BY <3>2 DEF Enumerate, Ours, Come, stops
    <3>3. CASE Enumerated(f)
      BY <3>3 DEF Enumerated, stops
    <3> QED
      BY <1>4, <3>1, <3>2, <3>3 DEF Collect
  <2>2. kept' = kept \/ \E g : KeepHome(f, g)
    BY <1>4 DEF Collect, Walk, PassBy, Refuse, ListOnHost, Enumerate, Enumerated, StartGuest,
               StopGuest, guests
  <2>3. kept' \in [Files -> Nat]
    BY <1>a, <2>2, KeepingHome
  <2> QED
    BY <2>1, <2>3, BeforeSummary
<1>5. ASSUME NEW i \in Items, RunItem(i) PROVE SummaryInv'
  <2>1. SuiteOf[i] \in Files /\ stage' = "running"
    BY <1>5, PytestSessionAssumption DEF RunItem, Comes
  <2>2. kept' = kept \/ KeepHome(SuiteOf[i], guest)
    BY <1>5 DEF RunItem, StartGuest, guests
  <2>3. kept' \in [Files -> Nat]
    BY <1>a, <2>1, <2>2, KeepingHome
  <2>4. cleanups' = cleanups \/ (SuiteOf[i] \in Embedded /\ cleanups' = Append(cleanups, SuiteOf[i]))
    BY <1>5 DEF RunItem, LeaveStop, stops
  <2> QED
    BY <2>1, <2>3, <2>4, BeforeSummary
<1>6. ASSUME NEW i \in Items, Answer(i) PROVE SummaryInv'
  BY <1>6, <1>a, BeforeSummary DEF Answer, stops, guests
<1>7. CASE Interrupt
  <2>1. stage' = "finishing" /\ cleanups' = cleanups
    BY <1>7 DEF Interrupt, stops
  <2>2. kept' = kept \/ (enumerating \in Files /\ KeepHome(enumerating, guest))
    BY <1>7 DEF Interrupt, StopGuest, guests, Inv, Shape
  <2>3. kept' \in [Files -> Nat]
    BY <1>a, <2>2, KeepingHome
  <2> QED
    BY <2>1, <2>3, BeforeSummary
<1>8. CASE Finish
  <2>1. Last(live) \in Files /\ stage' = "finishing" /\ cleanups' = cleanups
    BY <1>8, LastStop DEF Finish, Inv, Shape
  <2>2. kept' = kept \/ KeepHome(Last(live), guest)
    BY <1>8 DEF Finish, StopGuest
  <2>3. kept' \in [Files -> Nat]
    BY <1>a, <2>1, <2>2, KeepingHome
  <2> QED
    BY <2>1, <2>3, BeforeSummary
<1>9. CASE Summarise
  BY <1>9 DEF Summarise, stops, guests, SummaryInv, KeptHomesAreNamed
<1>10. CASE Unconfigure
  <2>1. stage = "unconfiguring" /\ stage' \in {"unconfiguring", "exited"} /\ named' = named
    BY <1>10 DEF Unconfigure
  <2>2. CASE cleanups = <<>>
    BY <1>10, <2>1, <2>2 DEF Unconfigure, guests, SummaryInv, KeptHomesAreNamed
  <2>3. CASE cleanups # <<>>
    <3>1. /\ cleanups' = Front(cleanups)
          /\ kept' = kept \/ KeepHome(Last(cleanups), guest)
      BY <1>10, <2>3 DEF Unconfigure, StopGuest
    <3>2. /\ Last(cleanups) \in Files /\ Last(cleanups) \in Embedded
          /\ cleanups' \in Seq(Files) /\ Range(cleanups') \subseteq Embedded
      <4>1. Len(cleanups) \in Nat \ {0} /\ \A k \in 1 .. Len(cleanups) : cleanups[k] \in Files \cap Embedded
        BY <2>3 DEF SummaryInv, Range
      <4>2. cleanups' = [k \in 1 .. Len(cleanups) - 1 |-> cleanups[k]]
        BY <3>1, <4>1 DEF Front, SummaryInv
      <4>3. \A k \in 1 .. Len(cleanups) - 1 : cleanups'[k] \in Files \cap Embedded
        BY <4>1, <4>2
      <4>4. cleanups' \in Seq(Files) /\ DOMAIN cleanups' = 1 .. Len(cleanups) - 1
        BY <4>1, <4>2
      <4> QED
        BY <4>1, <4>3, <4>4 DEF Last, Range
    <3>3. /\ kept' \in [Files -> Nat]
          /\ \A h \in Files : h # Last(cleanups) => kept'[h] = kept[h]
      BY <1>a, <3>1, <3>2, KeepingHome
    <3> QED
      BY <2>1, <3>2, <3>3 DEF SummaryInv, KeptHomesAreNamed
  <2> QED
    BY <2>2, <2>3
<1>11. ASSUME NEW m \in Modules, Import(m) PROVE SummaryInv'
  BY <1>11, <1>a, BeforeSummary DEF Import, Come, stops, guests
<1> QED
  BY <1>1, <1>2, <1>3, <1>4, <1>5, <1>6, <1>7, <1>8, <1>9, <1>10, <1>11 DEF Next

(* The summary names every home the plugin's own suites kept.              *)
THEOREM SummaryNamesTheHomes == Spec => []KeptHomesAreNamed
<1>1. Init => SummaryInv
  BY DEF Init, SummaryInv, KeptHomesAreNamed, Range
<1>2. SummaryInv => KeptHomesAreNamed
  BY DEF SummaryInv
<1> QED
  BY <1>1, <1>2, SummaryStep, InitInv, NextKeeps, PTL DEF Spec

-----------------------------------------------------------------------------
(* The shape of the state, by what collection changes.  A scanned file has *)
(* a guest only after pytest asked whether it is a suite.                  *)
CollectTypes ==
    /\ stage \in {"configuring", "collecting", "running", "finishing", "unconfiguring", "exited"}
    /\ loaded \in {"unset", "none", "found"}
    /\ collectors \subseteq walked /\ walked \subseteq Files \ Embedded
    /\ at \in 1 .. Len(Order) + 1
    /\ enumerating \in Files \cup {Nothing}
    /\ suites \subseteq Files /\ broken \in BOOLEAN
    /\ \A f \in suites : guest[f] # {}
    /\ enumerating # Nothing => guest[enumerating] # {}
    /\ \A f \in Files \ Embedded : guest[f] # {} => f \in walked

(* Declarations are added to, before and during collection, and never      *)
(* changed or taken away: what claimed a file once claims it still.  Their *)
(* names are distinct, which is what makes a name a choice.                *)
AtMostOne(S) == \A x, y \in S : x = y

DeclaredInv ==
    /\ project \in Projects
    /\ IsFiniteSet(environments)
    /\ \A d, e \in environments : d.name = e.name => d = e
    /\ \A d \in environments : d.name # Unsaid
    /\ claims = [f \in Files |-> claims[f]]
    /\ \A f \in Files : claims[f] \subseteq Names(Claimants(f))
    /\ guest = [f \in Files |-> guest[f]]
    /\ \A f \in Files : AtMostOne(guest[f])
    /\ DeclarationDecides

LEMMA FewIsAtMostOne ==
  ASSUME NEW S, IsFiniteSet(S), ~(Cardinality(S) > 1)
  PROVE  AtMostOne(S)
<1>1. Cardinality(S) \in Nat
  BY FS_CardinalityType
<1>2. SUFFICES ASSUME NEW x \in S, NEW y \in S, x # y PROVE FALSE
  BY DEF AtMostOne
<1>3. IsFiniteSet({x}) /\ Cardinality({x}) = 1
  BY FS_Singleton
<1>4. IsFiniteSet({x} \cup {y}) /\ Cardinality({x} \cup {y}) = 2
  <2>1. y \notin {x}
    BY <1>2
  <2>2. Cardinality({x} \cup {y}) = Cardinality({x}) + 1
    BY <1>3, <2>1, FS_AddElement
  <2> QED
    BY <1>3, <2>2, FS_AddElement
<1>5. Cardinality({x} \cup {y}) <= Cardinality(S)
  BY FS_Subset
<1> QED
  BY <1>1, <1>4, <1>5

LEMMA AtMostOneIsFew ==
  ASSUME NEW S, AtMostOne(S)
  PROVE  IsFiniteSet(S) /\ Cardinality(S) <= 1
<1>1. CASE S = {}
  BY <1>1, FS_EmptySet
<1>2. ASSUME NEW x \in S PROVE IsFiniteSet(S) /\ Cardinality(S) <= 1
  <2>1. S = {x}
    BY <1>2 DEF AtMostOne
  <2>2. IsFiniteSet({x}) /\ Cardinality({x}) = 1
    BY FS_Singleton
  <2> QED
    BY <2>1, <2>2
<1> QED
  BY <1>1, <1>2

LEMMA ClaimantsAreFinite ==
  ASSUME DeclaredInv, NEW f
  PROVE  IsFiniteSet(Claimants(f)) /\ IsFiniteSet(Serving("dos"))
<1>1. Claimants(f) \subseteq environments /\ Serving("dos") \subseteq environments
  BY DEF Claimants, Serving
<1> QED
  BY <1>1, FS_Subset DEF DeclaredInv

LEMMA WantedIsOne ==
  ASSUME DeclaredInv, NEW f
  PROVE  AtMostOne(Wanted(f))
<1>1. CASE f \in Embedded \/ Asked(f).environment # Unsaid
  BY <1>1 DEF Wanted, AtMostOne
<1>2. CASE ~(f \in Embedded \/ Asked(f).environment # Unsaid) /\ ~Ambiguous(f)
  <2>1. AtMostOne(Claimants(f))
    BY <1>2, ClaimantsAreFinite, FewIsAtMostOne DEF Ambiguous
  <2>2. AtMostOne(Names(Claimants(f)))
    BY <2>1 DEF Names, AtMostOne
  <2> QED
    BY <1>2, <2>2 DEF Wanted, AtMostOne
<1>3. CASE ~(f \in Embedded \/ Asked(f).environment # Unsaid) /\ Ambiguous(f)
  BY <1>3 DEF Wanted, AtMostOne
<1> QED
  BY <1>1, <1>2, <1>3

LEMMA SelectIsOne ==
  ASSUME DeclaredInv, NEW name
  PROVE  AtMostOne(Select(name))
<1>1. AtMostOne(Called(name, environments))
  BY DEF Called, AtMostOne, DeclaredInv
<1>2. AtMostOne(Called(name, Standard))
  BY DEF Called, AtMostOne, Standard, Declaration
<1>3. Cardinality(Serving("dos")) = 1 => AtMostOne(Serving("dos"))
  BY ClaimantsAreFinite, FewIsAtMostOne
<1>4. AtMostOne({})
  BY DEF AtMostOne
<1> QED
  BY <1>1, <1>2, <1>3, <1>4 DEF Select

(* A suite is resolved to one guest, or refused.                           *)
LEMMA ResolutionIsOne ==
  ASSUME DeclaredInv, NEW f
  PROVE  AtMostOne(Resolution(f))
<1> DEFINE For(name) == IF FallsThrough(name) THEN ZeroConfiguration(f)
                        ELSE UNION {InEnvironment(f, d) : d \in Select(name)}
<1>1. AtMostOne(ZeroConfiguration(f))
  BY DEF ZeroConfiguration, AtMostOne
<1>2. \A d : AtMostOne(InEnvironment(f, d))
  BY DEF InEnvironment, AtMostOne
<1>3. \A name : AtMostOne(For(name))
  BY <1>1, <1>2, SelectIsOne DEF AtMostOne
<1>4. Resolution(f) = UNION {For(name) : name \in Wanted(f)}
  BY DEF Resolution
<1> HIDE DEF For
<1> QED
  BY <1>3, <1>4, WantedIsOne DEF AtMostOne

(* Where a guest runs is the environment it was resolved to by name, or    *)
(* the project's own that serves the platform.                             *)
LEMMA GuestsEnvironment ==
  ASSUME DeclaredInv, NEW f, NEW r \in Resolution(f)
  PROVE  \E name \in Wanted(f) :
            \/ name # Unsaid /\ r.environment = name
            \/ name = Unsaid /\ r.environment \in Names(environments) \cup {Unsaid}
<1>1. PICK name \in Wanted(f) :
        r \in IF FallsThrough(name) THEN ZeroConfiguration(f)
              ELSE UNION {InEnvironment(f, d) : d \in Select(name)}
  BY DEF Resolution
<1>2. CASE FallsThrough(name)
  <2>1. r.environment = Unsaid
    BY <1>1, <1>2 DEF ZeroConfiguration
  <2> QED
    BY <1>2, <2>1 DEF FallsThrough
<1>3. CASE ~FallsThrough(name)
  <2>1. PICK d \in Select(name) : r \in InEnvironment(f, d)
    BY <1>1, <1>3
  <2>2. r.environment = d.name
    BY <2>1 DEF InEnvironment
  <2>3. CASE name = Unsaid
    BY <2>1, <2>2, <2>3 DEF Select, Serving, Names, NameOf
  <2>4. CASE name # Unsaid
    BY <2>1, <2>2, <2>4 DEF Select, Called
  <2> QED
    BY <2>3, <2>4
<1> QED
  BY <1>2, <1>3

LEMMA ClaimsDecide ==
  ASSUME DeclaredInv, NEW f \in Files \ Embedded, NEW r \in Resolution(f)
  PROVE  \/ r.environment = project.line.environment /\ r.environment # Unsaid
         \/ /\ project.line.environment = Unsaid
            /\ \A d \in Claimants(f) : r.environment = d.name
            /\ r.environment \in Names(environments) \cup {Unsaid}
<1>1. PICK name \in Wanted(f) :
        \/ name # Unsaid /\ r.environment = name
        \/ name = Unsaid /\ r.environment \in Names(environments) \cup {Unsaid}
  BY GuestsEnvironment
<1>2. CASE project.line.environment # Unsaid
  BY <1>1, <1>2 DEF Wanted, Asked
<1>3. CASE project.line.environment = Unsaid /\ Claimants(f) = {}
  BY <1>1, <1>3 DEF Wanted, Asked
<1>4. CASE project.line.environment = Unsaid /\ Claimants(f) # {}
  <2>1. name \in Names(Claimants(f)) /\ ~Ambiguous(f)
    BY <1>1, <1>4 DEF Wanted, Asked
  <2>2. AtMostOne(Claimants(f))
    BY <2>1, ClaimantsAreFinite, FewIsAtMostOne DEF Ambiguous
  <2>3. PICK d \in Claimants(f) : name = d.name
    BY <2>1 DEF Names, NameOf
  <2>4. d \in environments /\ d.name # Unsaid
    BY <2>3 DEF Claimants, DeclaredInv
  <2> QED
    BY <1>1, <1>4, <2>2, <2>3, <2>4 DEF AtMostOne, Names, NameOf
<1> QED
  BY <1>2, <1>3, <1>4

(* However many calls there are and whichever raises, what is declared was *)
(* not declared before, and no two declarations have one name.             *)
LEMMA DeclaringAdds ==
  ASSUME DeclaredInv, NEW n \in Nat, NEW calls, DOMAIN calls = 1 .. n,
         \A k \in 1 .. n : calls[k].name # Unsaid,
         NEW ok \in BOOLEAN, Declare(calls, ok)
  PROVE  /\ IsFiniteSet(environments')
         /\ \A d, e \in environments' : d.name = e.name => d = e
         /\ \A d \in environments' : d.name # Unsaid
         /\ environments \subseteq environments'
<1> DEFINE J == {k \in 1 .. n : \A j \in 1 .. k : ~Refused(calls, j)}
           New == {calls[k] : k \in J}
<1>1. environments' = environments \cup New
  BY DEF Declare
<1>2. J \subseteq 1 .. n /\ \A k \in J : calls[k].name # Unsaid
  OBVIOUS
<1>3. \A k \in J : ~Refused(calls, k)
  OBVIOUS
<1>4. ASSUME NEW k \in J, NEW d \in environments PROVE d.name # calls[k].name
  <2>1. calls[k].name \notin Names(environments \cup {calls[j] : j \in 1 .. k - 1})
    BY <1>3 DEF Refused
  <2> QED
    BY <2>1 DEF Names, NameOf
<1>5. ASSUME NEW k \in J, NEW j \in 1 .. k - 1 PROVE calls[j].name # calls[k].name
  <2>1. calls[k].name \notin Names(environments \cup {calls[m] : m \in 1 .. k - 1})
    BY <1>3 DEF Refused
  <2> QED
    BY <2>1 DEF Names, NameOf
<1>6. ASSUME NEW k \in J, NEW j \in J, calls[j].name = calls[k].name PROVE j = k
  <2> HIDE DEF J
  <2>1. k \in 1 .. n /\ j \in 1 .. n
    BY <1>2
  <2>2. ~(j \in 1 .. k - 1) /\ ~(k \in 1 .. j - 1)
    BY <1>5, <1>6
  <2> QED
    BY <2>1, <2>2
<1>7. IsFiniteSet(New)
  <2>1. IsFiniteSet(1 .. n)
    BY FS_Interval
  <2>2. IsFiniteSet(J)
    BY <1>2, <2>1, FS_Subset
  <2> HIDE DEF J
  <2> DEFINE read == [k \in J |-> calls[k]]
  <2>3. read \in Surjection(J, New)
    BY DEF Surjection
  <2> QED
    BY <2>2, <2>3, FS_Surjection
<1>8. IsFiniteSet(environments')
  BY <1>1, <1>7, FS_Union DEF DeclaredInv
<1> HIDE DEF J
<1> QED
  BY <1>1, <1>2, <1>4, <1>6, <1>8 DEF DeclaredInv

\* The calls of an ini or of a test module are a sequence of declarations.
LEMMA CallsAreNamed ==
  ASSUME DeclaredInv, NEW calls \in {project.ini} \cup {project.modules[m] : m \in Modules}
  PROVE  \E n \in Nat : DOMAIN calls = 1 .. n /\ \A k \in 1 .. n : calls[k].name # Unsaid
<1>1. calls \in Seq(Range(calls)) /\ \A d \in Range(calls) : d.name # Unsaid
  BY DeclarationsAssumption DEF DeclaredInv
<1>2. PICK n \in Nat : DOMAIN calls = 1 .. n
  BY <1>1
<1> QED
  BY <1>1, <1>2 DEF Range

(* So a step that declares more leaves every claim and every guest right.  *)
LEMMA DeclaringKeeps ==
  ASSUME DeclaredInv, UNCHANGED <<project, claims, guest>>,
         NEW calls \in {project.ini} \cup {project.modules[m] : m \in Modules},
         NEW ok \in BOOLEAN, Declare(calls, ok)
  PROVE  DeclaredInv'
<1>1. /\ IsFiniteSet(environments')
      /\ \A d, e \in environments' : d.name = e.name => d = e
      /\ \A d \in environments' : d.name # Unsaid
      /\ environments \subseteq environments'
  <2>1. PICK n \in Nat : DOMAIN calls = 1 .. n /\ \A k \in 1 .. n : calls[k].name # Unsaid
    BY CallsAreNamed
  <2> QED
    BY <2>1, DeclaringAdds
<1>2. \A f : Names(Claimants(f)) \subseteq Names(Claimants(f))'
  BY <1>1 DEF Names, NameOf, Claimants
<1>3. Names(environments) \subseteq Names(environments)'
  BY <1>1 DEF Names, NameOf
<1>4. DeclarationDecides'
  BY <1>3 DEF DeclaredInv, DeclarationDecides
<1>5. \A f \in Files : claims'[f] \subseteq Names(Claimants(f))'
  BY <1>2 DEF DeclaredInv
<1> QED
  BY <1>1, <1>4, <1>5 DEF DeclaredInv, AtMostOne

(* A file that is resolved goes where what claims it says.                 *)
LEMMA ResolvingKeeps ==
  ASSUME DeclaredInv, UNCHANGED <<project, environments, claims>>, NEW f \in Files,
         guest' = [guest EXCEPT ![f] = Resolution(f)]
  PROVE  DeclaredInv'
<1>1. guest' = [g \in Files |-> IF g = f THEN Resolution(f) ELSE guest[g]]
  BY DEF DeclaredInv
<1>2. guest' = [g \in Files |-> guest'[g]] /\ \A g \in Files : AtMostOne(guest'[g])
  <2>1. AtMostOne(Resolution(f))
    BY ResolutionIsOne
  <2> QED
    BY <1>1, <2>1 DEF DeclaredInv
<1>3. \A g : Claimants(g)' = Claimants(g)
  BY DEF Claimants
<1>4. ASSUME f \notin Embedded, NEW r \in Resolution(f)
      PROVE  \/ r.environment = project.line.environment /\ r.environment # Unsaid
             \/ /\ project.line.environment = Unsaid
                /\ claims[f] \subseteq {r.environment}
                /\ r.environment \in Names(environments) \cup {Unsaid}
  <2>1. claims[f] \subseteq Names(Claimants(f))
    BY DEF DeclaredInv
  <2> QED
    BY <1>4, <2>1, ClaimsDecide DEF Names, NameOf
<1>5. DeclarationDecides'
  <2> SUFFICES ASSUME NEW g \in Files \ Embedded, NEW r \in guest'[g]
               PROVE  \/ r.environment = project.line.environment /\ r.environment # Unsaid
                      \/ /\ project.line.environment = Unsaid
                         /\ claims[g] \subseteq {r.environment}
                         /\ r.environment \in Names(environments) \cup {Unsaid}
    BY DEF DeclarationDecides, Names, NameOf
  <2>1. CASE g = f
    BY <1>1, <1>4, <2>1
  <2>2. CASE g # f
    BY <1>1, <2>2 DEF DeclaredInv, DeclarationDecides
  <2> QED
    BY <2>1, <2>2
<1>6. \A g \in Files : claims'[g] \subseteq Names(Claimants(g))'
  BY <1>3 DEF DeclaredInv, Names, NameOf
<1> QED
  BY <1>2, <1>5, <1>6 DEF DeclaredInv, AtMostOne

LEMMA DeclaredInvInit == Init => DeclaredInv
<1> SUFFICES ASSUME Init PROVE DeclaredInv
  OBVIOUS
<1>1. /\ claims = [f \in Files |-> {}] /\ guest = claims
      /\ project \in Projects /\ environments = project.configured
  BY DEF Init, DeclarationsInit
<1>2. DeclarationDecides /\ \A f \in Files : AtMostOne(guest[f])
  BY <1>1 DEF DeclarationDecides, AtMostOne
<1> QED
  BY <1>1, <1>2, DeclarationsAssumption DEF DeclaredInv

LEMMA NothingDeclared ==
  ASSUME DeclaredInv, UNCHANGED <<project, environments, claims, guest>>
  PROVE  DeclaredInv'
BY DEF DeclaredInv, DeclarationDecides, AtMostOne, Claimants, Names, NameOf

LEMMA WalkKeepsDeclared ==
  ASSUME DeclaredInv, CollectTypes, NEW f \in Files, Walk(f)
  PROVE  DeclaredInv'
<1>1. /\ UNCHANGED <<project, environments, guest>> /\ f \notin walked
      /\ claims' = [claims EXCEPT ![f] = Names(Claimants(f))]
  BY DEF Walk, declarations
<1>2. claims' = [g \in Files |-> IF g = f THEN Names(Claimants(f)) ELSE claims[g]]
  BY <1>1 DEF DeclaredInv
<1>3. claims' = [g \in Files |-> claims'[g]]
  BY <1>2
<1>4. guest[f] = {} \/ f \in Embedded
  BY <1>1 DEF CollectTypes
<1>5. \A g \in Files : claims'[g] \subseteq Names(Claimants(g))'
  BY <1>1, <1>2 DEF DeclaredInv, Claimants, Names, NameOf
<1>6. DeclarationDecides'
  BY <1>1, <1>2, <1>4 DEF DeclaredInv, DeclarationDecides, Names, NameOf
<1> QED
  BY <1>1, <1>3, <1>5, <1>6 DEF DeclaredInv, AtMostOne

LEMMA DeclaredInvStep == DeclaredInv /\ CollectTypes /\ [Next]_vars => DeclaredInv'
<1> SUFFICES ASSUME DeclaredInv, CollectTypes, [Next]_vars PROVE DeclaredInv'
  OBVIOUS
<1>1. CASE Configure
  <2>1. UNCHANGED <<project, claims, guest>>
    BY <1>1 DEF Configure, collection, walk
  <2>2. PICK ok \in BOOLEAN : Declare(project.ini, ok)
    BY <1>1 DEF Configure, LoadConfig
  <2> QED
    BY <2>1, <2>2, DeclaringKeeps
<1>2. ASSUME NEW m \in Modules, Import(m) PROVE DeclaredInv'
  <2>1. UNCHANGED <<project, claims, guest>>
    BY <1>2 DEF Import, walk
  <2>2. PICK ok \in BOOLEAN : Declare(project.modules[m], ok)
    BY <1>2 DEF Import
  <2> QED
    BY <2>1, <2>2, DeclaringKeeps
<1>3. ASSUME NEW f \in Files, Collect(f) PROVE DeclaredInv'
  <2>1. CASE Walk(f)
    BY <2>1, WalkKeepsDeclared
  <2>2. CASE PassBy(f) \/ Refuse(f) \/ Enumerated(f)
    BY <2>2, NothingDeclared DEF PassBy, Refuse, Enumerated, declarations, walk
  <2>3. CASE ListOnHost(f) \/ Enumerate(f)
    <3>1. UNCHANGED <<project, environments, claims>> /\ guest' = [guest EXCEPT ![f] = Resolution(f)]
      BY <2>3 DEF ListOnHost, Enumerate, declarations, walk
    <3> QED
      BY <3>1, ResolvingKeeps
  <2> QED
    BY <1>3, <2>1, <2>2, <2>3 DEF Collect
<1>4. ASSUME NEW i \in Items, RunItem(i) \/ Answer(i) PROVE DeclaredInv'
  BY <1>4, NothingDeclared DEF RunItem, Answer, declarations, collection, walk
<1>5. CASE Collected \/ AllRun \/ Interrupt
  BY <1>5, NothingDeclared DEF Collected, AllRun, Interrupt, declarations, collection, walk
<1>6. CASE Finish \/ Summarise \/ Unconfigure
  BY <1>6, NothingDeclared DEF Finish, Summarise, Unconfigure, declarations, collection, walk
<1>7. CASE UNCHANGED vars
  BY <1>7, NothingDeclared DEF vars, declarations, collection, walk
<1> QED
  BY <1>1, <1>2, <1>3, <1>4, <1>5, <1>6, <1>7 DEF Next

(* The shape of the state, by what the run changes.                        *)
(* A suite is in started before a stop of its guest is on a list, so none  *)
(* is there twice.                                                         *)
RunTypes ==
    /\ stage \in {"configuring", "collecting"} =>
          selected = {} /\ asking = Nothing /\ started = {} /\ live = <<>> /\ cleanups = <<>>
    /\ selected \subseteq ItemsOf(suites)
    /\ asking \in selected \cup {Nothing}
    /\ told \in [Items -> {"nothing", "answered", "unreadable", "not started", "no session"}]
    /\ started \subseteq suites
    /\ live \in Seq(suites \ Embedded) /\ cleanups \in Seq(suites \cap Embedded)
    /\ IsInjective(live) /\ IsInjective(cleanups)
    /\ Range(live) \cup Range(cleanups) \subseteq started

LEMMA OneMoreStop ==
  ASSUME NEW S, NEW s \in Seq(S), NEW f \in S, f \notin Range(s), IsInjective(s)
  PROVE  /\ Append(s, f) \in Seq(S) /\ IsInjective(Append(s, f))
         /\ Range(Append(s, f)) = Range(s) \cup {f}
<1>1. Append(s, f) \in Seq(S) /\ Len(Append(s, f)) = Len(s) + 1 /\ Len(s) \in Nat
  OBVIOUS
<1>2. DOMAIN Append(s, f) = 1 .. Len(s) + 1 /\ DOMAIN s = 1 .. Len(s)
  OBVIOUS
<1>3. \A k \in 1 .. Len(s) : Append(s, f)[k] = s[k]
  OBVIOUS
<1>4. Append(s, f)[Len(s) + 1] = f
  OBVIOUS
<1>5. \A k \in 1 .. Len(s) : s[k] # f
  BY <1>2 DEF Range
<1>6. IsInjective(Append(s, f))
  BY <1>1, <1>2, <1>3, <1>4, <1>5 DEF IsInjective
<1>7. Range(Append(s, f)) = Range(s) \cup {f}
  BY <1>1, <1>2, <1>3, <1>4 DEF Range
<1> QED
  BY <1>1, <1>6, <1>7

LEMMA OneStopLess ==
  ASSUME NEW S, NEW s \in Seq(S), s # <<>>, IsInjective(s)
  PROVE  /\ Front(s) \in Seq(S) /\ IsInjective(Front(s))
         /\ Range(Front(s)) \subseteq Range(s)
<1>1. Len(s) \in Nat \ {0} /\ DOMAIN s = 1 .. Len(s) /\ \A k \in 1 .. Len(s) : s[k] \in S
  OBVIOUS
<1>2. Front(s) = [k \in 1 .. Len(s) - 1 |-> s[k]]
  BY <1>1 DEF Front
<1>3. \A k \in 1 .. Len(s) - 1 : Front(s)[k] = s[k] /\ k \in 1 .. Len(s)
  BY <1>1, <1>2
<1>4. Front(s) \in Seq(S) /\ DOMAIN Front(s) = 1 .. Len(s) - 1
  BY <1>1, <1>2
<1>5. IsInjective(Front(s))
  BY <1>1, <1>3, <1>4 DEF IsInjective
<1>6. Range(Front(s)) \subseteq Range(s)
  BY <1>1, <1>3, <1>4 DEF Range
<1> QED
  BY <1>4, <1>5, <1>6

LEMMA TypesInit == Init => CollectTypes /\ RunTypes
<1> SUFFICES ASSUME Init PROVE CollectTypes /\ RunTypes
  OBVIOUS
<1>1. Len(Order) \in Nat
  BY PytestSessionAssumption
<1>2. CollectTypes
  <2>1. at \in 1 .. Len(Order) + 1
    BY <1>1 DEF Init
  <2>2. broken \in BOOLEAN /\ loaded = "unset" /\ stage = "configuring"
    BY DEF Init, DeclarationsInit
  <2>3. suites = {} /\ enumerating = Nothing /\ walked = {} /\ collectors = {}
        /\ \A f \in Files : guest[f] = {}
    BY DEF Init
  <2> QED
    BY <2>1, <2>2, <2>3 DEF CollectTypes
<1>3. live = <<>> /\ cleanups = <<>> /\ DOMAIN live = {} /\ DOMAIN cleanups = {}
  BY DEF Init
<1>4. IsInjective(live) /\ IsInjective(cleanups) /\ Range(live) = {} /\ Range(cleanups) = {}
  BY <1>3 DEF IsInjective, Range
<1>5. RunTypes
  BY <1>3, <1>4 DEF Init, RunTypes
<1> QED
  BY <1>2, <1>5

LEMMA CollectTypesStep ==
  BootInv /\ DeclaredInv /\ CollectTypes /\ [Next]_vars => CollectTypes'
<1> SUFFICES ASSUME BootInv, DeclaredInv, CollectTypes, [Next]_vars PROVE CollectTypes'
  OBVIOUS
<1> USE PytestSessionAssumption
<1>a. Len(Order) \in Nat /\ at \in Nat \ {0}
  BY DEF BootInv
<1>1. CASE Configure
  <2>1. stage' \in {"collecting", "exited"}
        /\ UNCHANGED <<walked, collectors, at, enumerating, guest, suites, broken>>
    BY <1>1 DEF Configure, collection, walk
  <2>2. loaded' \in {"unset", "none", "found"}
    BY <1>1 DEF Configure, LoadConfig, CollectTypes
  <2> QED
    BY <2>1, <2>2 DEF CollectTypes
<1>2. ASSUME NEW f \in Files, Collect(f) PROVE CollectTypes'
  <2>1. loaded' = loaded
    BY <1>2 DEF Collect, Walk, PassBy, Refuse, ListOnHost, Enumerate, Enumerated, declarations
  <2>5. CASE Walk(f)
    BY <2>1, <2>5 DEF Walk, ClaimRaises, CollectTypes
  <2>2. CASE PassBy(f) \/ Refuse(f)
    <3>1. /\ stage' = stage /\ enumerating' = enumerating /\ guest' = guest /\ suites' = suites
          /\ at <= Len(Order) /\ at' = at + 1 /\ UNCHANGED <<walked, collectors>>
      BY <2>2 DEF PassBy, Refuse, Ours, Come, GoOn, walk
    <3>2. broken' \in BOOLEAN
      BY <2>2 DEF PassBy, Refuse, CollectTypes
    <3> QED
      BY <1>a, <2>1, <3>1, <3>2 DEF CollectTypes
  <2>3. CASE (ListOnHost(f) \/ Enumerate(f))
    <3>1. /\ guest' = [guest EXCEPT ![f] = Resolution(f)] /\ Resolution(f) # {}
          /\ stage' = stage /\ enumerating = Nothing /\ at <= Len(Order)
          /\ at' \in {at, at + 1} /\ broken' \in BOOLEAN
          /\ enumerating' \in {Nothing, f} /\ suites' \in {suites, suites \cup {f}}
          /\ UNCHANGED <<walked, collectors>> /\ f \in collectors \cup Embedded
      BY <2>3 DEF ListOnHost, Enumerate, Ours, Come, GoOn, CollectTypes, walk
    <3>2. guest = [g \in Files |-> guest[g]]
      BY DEF DeclaredInv
    <3>3. guest'[f] # {} /\ \A g \in Files : g # f => guest'[g] = guest[g]
      BY <3>1, <3>2
    <3> HIDE DEF BootInv, DeclaredInv
    <3> QED
      BY <1>a, <2>1, <3>1, <3>3 DEF CollectTypes
  <2>4. CASE Enumerated(f)
    <3>1. /\ stage' = stage /\ guest' = guest /\ enumerating = f /\ enumerating' = Nothing
          /\ at' = at + 1 /\ broken' \in BOOLEAN /\ suites' \in {suites, suites \cup {f}}
          /\ UNCHANGED <<walked, collectors>>
      BY <2>4 DEF Enumerated, GoOn, CollectTypes, walk
    <3>2. f # Nothing
      OBVIOUS
    <3>3. at \in 1 .. Len(Order)
      BY <3>1, <3>2 DEF BootInv
    <3> QED
      BY <1>a, <2>1, <3>1, <3>2, <3>3 DEF CollectTypes
  <2> QED
    BY <1>2, <2>2, <2>3, <2>4, <2>5 DEF Collect
<1>3. CASE Collected \/ AllRun \/ Interrupt
  BY <1>3 DEF Collected, AllRun, Interrupt, declarations, collection, walk, CollectTypes
<1>4. CASE Finish \/ Summarise \/ Unconfigure
  BY <1>4 DEF Finish, Summarise, Unconfigure, declarations, collection, walk, CollectTypes
<1>5. ASSUME NEW i \in Items, RunItem(i) \/ Answer(i) PROVE CollectTypes'
  BY <1>5 DEF RunItem, Answer, declarations, collection, walk, CollectTypes
<1>6. CASE UNCHANGED vars
  BY <1>6 DEF vars, declarations, collection, walk, CollectTypes
<1>7. ASSUME NEW m \in Modules, Import(m) PROVE CollectTypes'
  <2>1. /\ UNCHANGED <<stage, loaded, walked, collectors, enumerating, guest, suites>>
        /\ at <= Len(Order) /\ at' = at + 1 /\ broken' \in BOOLEAN
    BY <1>7 DEF Import, Come, GoOn, walk, CollectTypes
  <2> QED
    BY <1>a, <2>1 DEF CollectTypes
<1> QED
  BY <1>1, <1>2, <1>3, <1>4, <1>5, <1>6, <1>7 DEF Next

LEMMA RunTypesStep == RunTypes /\ [Next]_vars => RunTypes'
<1> SUFFICES ASSUME RunTypes, [Next]_vars PROVE RunTypes'
  OBVIOUS
<1>1. CASE Configure
  BY <1>1 DEF Configure, collection, execution, stops, RunTypes, ItemsOf
<1>2. ASSUME NEW f \in Files, Collect(f) PROVE RunTypes'
  <2>1. stage = "collecting" /\ UNCHANGED <<stage, selected, asking, told, started, live, cleanups>>
    <3>1. CASE Walk(f) \/ PassBy(f) \/ Refuse(f) \/ ListOnHost(f)
      BY <3>1 DEF Walk, PassBy, Refuse, ListOnHost, Ours, Come, execution, stops
    <3>2. CASE Enumerate(f)
      BY <3>2 DEF Enumerate, Ours, Come, execution, stops
    <3>3. CASE Enumerated(f)
      BY <3>3 DEF Enumerated, execution, stops
    <3> QED
      BY <1>2, <3>1, <3>2, <3>3 DEF Collect
  <2>2. selected' = {} /\ asking' = Nothing /\ started' = {} /\ live' = <<>> /\ cleanups' = <<>>
    BY <2>1 DEF RunTypes
  <2>3. IsInjective(live') /\ IsInjective(cleanups') /\ Range(live') \cup Range(cleanups') \subseteq started'
    BY <2>1 DEF RunTypes
  <2>4. told' \in [Items -> {"nothing", "answered", "unreadable", "not started", "no session"}]
    BY <2>1 DEF RunTypes
  <2>5. live' \in Seq(suites' \ Embedded) /\ cleanups' \in Seq(suites' \cap Embedded)
    BY <2>2
  <2> QED
    BY <2>2, <2>3, <2>4, <2>5 DEF RunTypes
<1>3. CASE Collected
  <2>1. /\ stage = "collecting" /\ stage' \in {"finishing", "running"} /\ suites' = suites
        /\ UNCHANGED <<asking, told, started, live, cleanups>>
        /\ selected' = selected \/ selected' \in SUBSET ItemsOf(suites)
    BY <1>3 DEF Collected, execution, stops
  <2>2. selected' \subseteq ItemsOf(suites)' /\ asking' = Nothing
    BY <2>1 DEF RunTypes, ItemsOf
  <2> QED
    BY <2>1, <2>2 DEF RunTypes
<1>4. ASSUME NEW i \in Items, RunItem(i) PROVE RunTypes'
  <2> DEFINE f == SuiteOf[i]
  <2>1. /\ stage' = "running" /\ i \in selected /\ UNCHANGED <<selected, suites>>
        /\ asking = Nothing
    BY <1>4 DEF RunItem, Comes, collection
  <2>2. f \in suites
    BY <2>1 DEF RunTypes, ItemsOf
  <2>3. asking' \in {Nothing, i}
    BY <1>4, <2>1 DEF RunItem
  <2>4. told' \in [Items -> {"nothing", "answered", "unreadable", "not started", "no session"}]
    BY <1>4 DEF RunItem, Tell, RunTypes
  <2>5. selected' \subseteq ItemsOf(suites)' /\ asking' \in selected' \cup {Nothing}
    BY <2>1, <2>3 DEF RunTypes, ItemsOf
  <2>6. CASE UNCHANGED <<started, stops>>
    BY <2>1, <2>4, <2>5, <2>6 DEF RunTypes, stops
  <2>7. CASE f \notin started /\ started' = started \cup {f} /\ LeaveStop(f)
    <3> HIDE DEF f
    <3>1. /\ f \notin Range(live) /\ f \notin Range(cleanups)
          /\ live \in Seq(suites \ Embedded) /\ cleanups \in Seq(suites \cap Embedded)
          /\ IsInjective(live) /\ IsInjective(cleanups)
      BY <2>7 DEF RunTypes
    <3>2. CASE f \in Embedded
      <4>1. f \in suites \cap Embedded /\ live' = live /\ cleanups' = Append(cleanups, f)
        BY <2>2, <2>7, <3>2 DEF LeaveStop
      <4>2. /\ cleanups' \in Seq(suites \cap Embedded) /\ IsInjective(cleanups')
            /\ Range(cleanups') = Range(cleanups) \cup {f}
        BY <3>1, <4>1, OneMoreStop
      <4> QED
        BY <2>1, <2>2, <2>4, <2>5, <2>7, <4>1, <4>2 DEF RunTypes
    <3>3. CASE f \notin Embedded
      <4>1. f \in suites \ Embedded /\ cleanups' = cleanups /\ live' = Append(live, f)
        BY <2>2, <2>7, <3>3 DEF LeaveStop
      <4>2. /\ live' \in Seq(suites \ Embedded) /\ IsInjective(live')
            /\ Range(live') = Range(live) \cup {f}
        BY <3>1, <4>1, OneMoreStop
      <4> QED
        BY <2>1, <2>2, <2>4, <2>5, <2>7, <4>1, <4>2 DEF RunTypes
    <3> QED
      BY <3>2, <3>3
  <2> QED
    BY <1>4, <2>6, <2>7 DEF RunItem
<1>5. ASSUME NEW i \in Items, Answer(i) PROVE RunTypes'
  <2>1. /\ asking' = Nothing /\ UNCHANGED <<stage, selected, suites, started, live, cleanups>>
    BY <1>5 DEF Answer, collection, stops
  <2>2. told' \in [Items -> {"nothing", "answered", "unreadable", "not started", "no session"}]
    BY <1>5 DEF Answer, Tell, RunTypes
  <2>3. ItemsOf(suites)' = ItemsOf(suites)
    BY <2>1 DEF ItemsOf
  <2> QED
    BY <2>1, <2>2, <2>3 DEF RunTypes
<1>6. CASE AllRun \/ Summarise \/ Interrupt
  <2>1. /\ stage' \in {"finishing", "unconfiguring"} /\ asking' \in {asking, Nothing}
        /\ UNCHANGED <<selected, suites, told, started, live, cleanups>>
    BY <1>6 DEF AllRun, Summarise, Interrupt, collection, execution, stops
  <2>2. ItemsOf(suites)' = ItemsOf(suites)
    BY <2>1 DEF ItemsOf
  <2> QED
    BY <2>1, <2>2 DEF RunTypes
<1>7. CASE Finish
  <2>1. /\ stage' = "finishing" /\ UNCHANGED <<selected, suites, asking, told, started, cleanups>>
        /\ live # <<>> /\ live' = Front(live)
    BY <1>7 DEF Finish, collection, execution
  <2>2. /\ live' \in Seq(suites \ Embedded) /\ IsInjective(live')
        /\ Range(live') \subseteq Range(live)
    BY <2>1, OneStopLess DEF RunTypes
  <2>3. ItemsOf(suites)' = ItemsOf(suites)
    BY <2>1 DEF ItemsOf
  <2> QED
    BY <2>1, <2>2, <2>3 DEF RunTypes
<1>8. CASE Unconfigure
  <2>1. /\ stage' \in {"unconfiguring", "exited"}
        /\ UNCHANGED <<selected, suites, asking, told, started, live>>
        /\ cleanups' = cleanups \/ (cleanups # <<>> /\ cleanups' = Front(cleanups))
    BY <1>8 DEF Unconfigure, collection, execution
  <2>2. /\ cleanups' \in Seq(suites \cap Embedded) /\ IsInjective(cleanups')
        /\ Range(cleanups') \subseteq Range(cleanups)
    BY <2>1, OneStopLess DEF RunTypes
  <2>3. ItemsOf(suites)' = ItemsOf(suites)
    BY <2>1 DEF ItemsOf
  <2> QED
    BY <2>1, <2>2, <2>3 DEF RunTypes
<1>9. CASE UNCHANGED vars
  BY <1>9 DEF vars, collection, execution, stops, RunTypes, ItemsOf
<1>10. ASSUME NEW m \in Modules, Import(m) PROVE RunTypes'
  BY <1>10 DEF Import, execution, stops, RunTypes, ItemsOf
<1> QED
  BY <1>1, <1>2, <1>3, <1>4, <1>5, <1>6, <1>7, <1>8, <1>9, <1>10 DEF Next

LEMMA NamedStep == SummaryInv /\ named \in [Files -> Nat] /\ [Next]_vars => (named \in [Files -> Nat])'
<1> SUFFICES ASSUME SummaryInv, named \in [Files -> Nat], [Next]_vars PROVE named' \in [Files -> Nat]
  OBVIOUS
<1>1. named' = named \/ named' = kept
  BY DEF Next, vars, Collect, Configure, Walk, Import, PassBy, Refuse, ListOnHost, Enumerate, Enumerated, Collected,
         RunItem, Answer, AllRun, Interrupt, Finish, Summarise, Unconfigure
<1> QED
  BY <1>1 DEF SummaryInv

LEMMA TypesAtLast ==
  ASSUME Inv, BootInv, SummaryInv, DeclaredInv, CollectTypes, RunTypes, named \in [Files -> Nat]
  PROVE  TypeOK
<1>1. \A f \in Files : Cardinality(guest[f]) <= 1
  <2>1. TAKE f \in Files
  <2>2. AtMostOne(guest[f])
    BY DEF DeclaredInv
  <2> QED
    BY <2>2, AtMostOneIsFew
<1>2. up \subseteq Files /\ {boots, kept, named} \subseteq [Files -> Nat]
  BY DEF Inv, Shape, BootInv, SummaryInv
<1> QED
  BY <1>1, <1>2 DEF TypeOK, CollectTypes, RunTypes

(* The shape of the state: a suite is resolved to one guest at most and    *)
(* one stop of it is left, to pytest_sessionfinish or to config's cleanups *)
(* as the suite is the plugin's or embedded.                               *)
THEOREM SessionTypes == Spec => []TypeOK
<1>1. Init => SummaryInv /\ named \in [Files -> Nat]
  BY DEF Init, SummaryInv, KeptHomesAreNamed, Range
<1> QED
  BY <1>1, InitInv, NextKeeps, BootInvInit, BootInvStep, SummaryStep, DeclaredInvInit, DeclaredInvStep,
     TypesInit, CollectTypesStep, RunTypesStep, NamedStep, TypesAtLast, PTL DEF Spec

(* A declaration that claims a file when pytest walks past it decides      *)
(* where it runs, unless the command line does, whatever is declared while *)
(* files are collected; and no scan falls into the catalog.                *)
THEOREM DeclarationsDecide == Spec => []DeclarationDecides
<1>1. DeclaredInv => DeclarationDecides
  BY DEF DeclaredInv
<1> QED
  BY <1>1, BootInvInit, BootInvStep, DeclaredInvInit, DeclaredInvStep, TypesInit, CollectTypesStep, PTL
     DEF Spec

=============================================================================
