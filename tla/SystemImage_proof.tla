------------------------- MODULE SystemImage_proof --------------------------
(* Proofs about SystemImage, for any number of builders and any faults.    *)
EXTENDS SystemImage, TLAPS

(* A partial that is about to be published is whole, or was taken away.    *)
PublishesWhole ==
    \A p \in Builders : pc[p] \in {"built", "replacing"} => partial[p] # "torn"

(* The invariant that is inductive: OnlyFinishedSystems alone says nothing *)
(* of the partial that becomes the image at the next rename.               *)
FinishedInv == TypeOK /\ OnlyFinishedSystems /\ PublishesWhole

LEMMA FinishedInvInit == Init => FinishedInv
  BY SystemImageAssumption
  DEF Init, FinishedInv, TypeOK, OnlyFinishedSystems, PublishesWhole, Content,
      Stages, Building

LEMMA FinishedInvNext == FinishedInv /\ [Next]_vars => FinishedInv'
<1> SUFFICES ASSUME FinishedInv, [Next]_vars PROVE FinishedInv'
  OBVIOUS
<1> USE SystemImageAssumption
    DEF FinishedInv, TypeOK, OnlyFinishedSystems, PublishesWhole, Content, Stages,
        Building, Goto, SetPartial
<1>1. ASSUME NEW p \in Builders, Look(p) PROVE FinishedInv'
  BY <1>1 DEF Look
<1>2. ASSUME NEW p \in Builders, Stage(p) PROVE FinishedInv'
  BY <1>2 DEF Stage
<1>3. ASSUME NEW p \in Builders, CreateMachine(p) PROVE FinishedInv'
  BY <1>3 DEF CreateMachine
<1>4. ASSUME NEW p \in Builders, InstallStarts(p) PROVE FinishedInv'
  BY <1>4 DEF InstallStarts
<1>5. ASSUME NEW p \in Builders, InstallFinishes(p) PROVE FinishedInv'
  BY <1>5 DEF InstallFinishes
<1>6. ASSUME NEW p \in Builders, InstallFails(p) PROVE FinishedInv'
  BY <1>6 DEF InstallFails
<1>7. ASSUME NEW p \in Builders, CopyInstalled(p) PROVE FinishedInv'
  BY <1>7 DEF CopyInstalled
<1>8. ASSUME NEW p \in Builders, CheckDestination(p) PROVE FinishedInv'
  BY <1>8 DEF CheckDestination
<1>9. ASSUME NEW p \in Builders, Replace(p) PROVE FinishedInv'
  BY <1>9 DEF Replace
<1>10. ASSUME NEW p \in Builders, OpenOverlay(p) PROVE FinishedInv'
  BY <1>10 DEF OpenOverlay
<1>11. ASSUME NEW p \in Builders, CloseOverlay(p) PROVE FinishedInv'
  BY <1>11 DEF CloseOverlay
<1>12. ASSUME NEW p \in Builders, Kill(p) PROVE FinishedInv'
  BY <1>12 DEF Kill
<1>13. ASSUME NEW p \in Builders, CleanAsks(p) PROVE FinishedInv'
  BY <1>13 DEF CleanAsks
<1>14. ASSUME NEW p \in Builders, CleanRemoves(p) PROVE FinishedInv'
  BY <1>14 DEF CleanRemoves
<1>15. CASE RemoveSystem
  BY <1>15 DEF RemoveSystem
<1>16. CASE UNCHANGED vars
  BY <1>16 DEF vars
<1> QED
  BY <1>1, <1>2, <1>3, <1>4, <1>5, <1>6, <1>7, <1>8, <1>9, <1>10, <1>11, <1>12,
     <1>13, <1>14, <1>15, <1>16 DEF Next, Build

(* Whatever is published under the name of the system disk is a whole copy *)
(* of an install that finished: no kill, failure, sweep or race of any     *)
(* number of builders leaves a half-installed one there.                   *)
THEOREM FinishedSystems == Spec => []OnlyFinishedSystems
<1>1. FinishedInv => OnlyFinishedSystems
  BY DEF FinishedInv
<1> QED
  BY FinishedInvInit, FinishedInvNext, <1>1, PTL DEF Spec

(* The state keeps its shape.                                              *)
THEOREM SystemImageTypeOK == Spec => []TypeOK
<1>1. FinishedInv => TypeOK
  BY DEF FinishedInv
<1> QED
  BY FinishedInvInit, FinishedInvNext, <1>1, PTL DEF Spec
-----------------------------------------------------------------------------
HomesInv == TypeOK /\ HomesAreBuilds

LEMMA HomesInvNext == HomesInv /\ [Next]_vars => HomesInv'
<1> SUFFICES ASSUME HomesInv, [Next]_vars PROVE HomesInv'
  OBVIOUS
<1> USE SystemImageAssumption
    DEF HomesInv, HomesAreBuilds, TypeOK, Content, Stages, Building, Goto, SetPartial
<1>1. ASSUME NEW p \in Builders, Look(p) PROVE HomesInv'
  BY <1>1 DEF Look
<1>2. ASSUME NEW p \in Builders, Stage(p) PROVE HomesInv'
  BY <1>2 DEF Stage
<1>3. ASSUME NEW p \in Builders, CreateMachine(p) PROVE HomesInv'
  BY <1>3 DEF CreateMachine
<1>4. ASSUME NEW p \in Builders, InstallStarts(p) PROVE HomesInv'
  BY <1>4 DEF InstallStarts
<1>5. ASSUME NEW p \in Builders, InstallFinishes(p) PROVE HomesInv'
  BY <1>5 DEF InstallFinishes
<1>6. ASSUME NEW p \in Builders, InstallFails(p) PROVE HomesInv'
  BY <1>6 DEF InstallFails
<1>7. ASSUME NEW p \in Builders, CopyInstalled(p) PROVE HomesInv'
  BY <1>7 DEF CopyInstalled
<1>8. ASSUME NEW p \in Builders, CheckDestination(p) PROVE HomesInv'
  BY <1>8 DEF CheckDestination
<1>9. ASSUME NEW p \in Builders, Replace(p) PROVE HomesInv'
  BY <1>9 DEF Replace
<1>10. ASSUME NEW p \in Builders, OpenOverlay(p) PROVE HomesInv'
  BY <1>10 DEF OpenOverlay
<1>11. ASSUME NEW p \in Builders, CloseOverlay(p) PROVE HomesInv'
  BY <1>11 DEF CloseOverlay
<1>12. ASSUME NEW p \in Builders, Kill(p) PROVE HomesInv'
  BY <1>12 DEF Kill
<1>13. ASSUME NEW p \in Builders, CleanAsks(p) PROVE HomesInv'
  BY <1>13 DEF CleanAsks
<1>14. ASSUME NEW p \in Builders, CleanRemoves(p) PROVE HomesInv'
  BY <1>14 DEF CleanRemoves
<1>15. CASE RemoveSystem
  BY <1>15 DEF RemoveSystem
<1>16. CASE UNCHANGED vars
  BY <1>16 DEF vars
<1> QED
  BY <1>1, <1>2, <1>3, <1>4, <1>5, <1>6, <1>7, <1>8, <1>9, <1>10, <1>11, <1>12,
     <1>13, <1>14, <1>15, <1>16 DEF Next, Build

(* A build home on disk belongs to a build still going on, or to one that  *)
(* was killed: every other way out of a build removes it.                  *)
LEMMA NoHomeOutlivesItsBuild == Spec => []HomesAreBuilds
<1>1. Init => HomesInv
  BY SystemImageAssumption
  DEF Init, HomesInv, HomesAreBuilds, TypeOK, Content, Stages, Building
<1>2. HomesInv => HomesAreBuilds
  BY DEF HomesInv
<1> QED
  BY <1>1, HomesInvNext, <1>2, PTL DEF Spec

-----------------------------------------------------------------------------
(* What one step may do to a partial: see PartialIsItsBuilders.            *)
OwnPartials ==
    \A p \in Builders : partial[p] # "none" /\ partial'[p] = "none"
        => pc'[p] # pc[p] \/ RemoveSystem

LEMMA OwnPartialsStep == TypeOK /\ [Next]_vars => OwnPartials
<1> SUFFICES ASSUME TypeOK, [Next]_vars PROVE OwnPartials
  OBVIOUS
<1> USE DEF OwnPartials, TypeOK, Stages, Building, Goto, SetPartial
<1>1. ASSUME NEW p \in Builders, Look(p) PROVE OwnPartials
  BY <1>1 DEF Look
<1>2. ASSUME NEW p \in Builders, Stage(p) PROVE OwnPartials
  BY <1>2 DEF Stage
<1>3. ASSUME NEW p \in Builders, CreateMachine(p) PROVE OwnPartials
  BY <1>3 DEF CreateMachine
<1>4. ASSUME NEW p \in Builders, InstallStarts(p) PROVE OwnPartials
  BY <1>4 DEF InstallStarts
<1>5. ASSUME NEW p \in Builders, InstallFinishes(p) PROVE OwnPartials
  BY <1>5 DEF InstallFinishes
<1>6. ASSUME NEW p \in Builders, InstallFails(p) PROVE OwnPartials
  BY <1>6 DEF InstallFails
<1>7. ASSUME NEW p \in Builders, CopyInstalled(p) PROVE OwnPartials
  BY <1>7 DEF CopyInstalled
<1>8. ASSUME NEW p \in Builders, CheckDestination(p) PROVE OwnPartials
  BY <1>8 DEF CheckDestination
<1>9. ASSUME NEW p \in Builders, Replace(p) PROVE OwnPartials
  BY <1>9 DEF Replace
<1>10. ASSUME NEW p \in Builders, OpenOverlay(p) PROVE OwnPartials
  BY <1>10 DEF OpenOverlay
<1>11. ASSUME NEW p \in Builders, CloseOverlay(p) PROVE OwnPartials
  BY <1>11 DEF CloseOverlay
<1>12. ASSUME NEW p \in Builders, Kill(p) PROVE OwnPartials
  BY <1>12 DEF Kill
<1>13. ASSUME NEW p \in Builders, CleanAsks(p) PROVE OwnPartials
  BY <1>13 DEF CleanAsks
<1>14. ASSUME NEW p \in Builders, CleanRemoves(p) PROVE OwnPartials
  BY <1>14 DEF CleanRemoves
<1>15. CASE RemoveSystem
  BY <1>15
<1>16. CASE UNCHANGED vars
  BY <1>16 DEF vars
<1> QED
  BY <1>1, <1>2, <1>3, <1>4, <1>5, <1>6, <1>7, <1>8, <1>9, <1>10, <1>11, <1>12,
     <1>13, <1>14, <1>15, <1>16 DEF Next, Build

(* No other builder's publishing, discarding, failing or being killed, and *)
(* no sweep, takes the partial of a build: only the build itself and the   *)
(* removal of the whole system do.                                         *)
THEOREM PartialStaysItsBuilders == Spec => PartialIsItsBuilders
<1>1. TypeOK /\ [Next]_vars => [OwnPartials]_vars
  BY OwnPartialsStep
<1> QED
  BY <1>1, SystemImageTypeOK, PTL DEF Spec, PartialIsItsBuilders, OwnPartials

-----------------------------------------------------------------------------
(* A build that begins owns no partial.                                    *)
LeftoverInv ==
    /\ TypeOK /\ NoPartialLeftBehind
    /\ \A p \in Builders : pc[p] = "missing" => partial[p] = "none"

LEMMA LeftoverInvNext == LeftoverInv /\ [Next]_vars => LeftoverInv'
<1> SUFFICES ASSUME LeftoverInv, [Next]_vars PROVE LeftoverInv'
  OBVIOUS
<1> USE SystemImageAssumption
    DEF LeftoverInv, NoPartialLeftBehind, TypeOK, Content, Stages,
        Building, Goto, SetPartial
<1>1. ASSUME NEW p \in Builders, Look(p) PROVE LeftoverInv'
  BY <1>1 DEF Look
<1>2. ASSUME NEW p \in Builders, Stage(p) PROVE LeftoverInv'
  BY <1>2 DEF Stage
<1>3. ASSUME NEW p \in Builders, CreateMachine(p) PROVE LeftoverInv'
  BY <1>3 DEF CreateMachine
<1>4. ASSUME NEW p \in Builders, InstallStarts(p) PROVE LeftoverInv'
  BY <1>4 DEF InstallStarts
<1>5. ASSUME NEW p \in Builders, InstallFinishes(p) PROVE LeftoverInv'
  BY <1>5 DEF InstallFinishes
<1>6. ASSUME NEW p \in Builders, InstallFails(p) PROVE LeftoverInv'
  BY <1>6 DEF InstallFails
<1>7. ASSUME NEW p \in Builders, CopyInstalled(p) PROVE LeftoverInv'
  BY <1>7 DEF CopyInstalled
<1>8. ASSUME NEW p \in Builders, CheckDestination(p) PROVE LeftoverInv'
  BY <1>8 DEF CheckDestination
<1>9. ASSUME NEW p \in Builders, Replace(p) PROVE LeftoverInv'
  BY <1>9 DEF Replace
<1>10. ASSUME NEW p \in Builders, OpenOverlay(p) PROVE LeftoverInv'
  BY <1>10 DEF OpenOverlay
<1>11. ASSUME NEW p \in Builders, CloseOverlay(p) PROVE LeftoverInv'
  BY <1>11 DEF CloseOverlay
<1>12. ASSUME NEW p \in Builders, Kill(p) PROVE LeftoverInv'
  BY <1>12 DEF Kill
<1>13. ASSUME NEW p \in Builders, CleanAsks(p) PROVE LeftoverInv'
  BY <1>13 DEF CleanAsks
<1>14. ASSUME NEW p \in Builders, CleanRemoves(p) PROVE LeftoverInv'
  BY <1>14 DEF CleanRemoves
<1>15. CASE RemoveSystem
  BY <1>15 DEF RemoveSystem
<1>16. CASE UNCHANGED vars
  BY <1>16 DEF vars
<1> QED
  BY <1>1, <1>2, <1>3, <1>4, <1>5, <1>6, <1>7, <1>8, <1>9, <1>10, <1>11, <1>12,
     <1>13, <1>14, <1>15, <1>16 DEF Next, Build

(* A build whose machine could be created, and that is not killed, leaves  *)
(* no partial in the cache and no home, whatever else fails or is swept.   *)
THEOREM NoLeftovers == Spec => []NothingIsLeftBehind
<1>1. Init => LeftoverInv
  BY SystemImageAssumption
  DEF Init, LeftoverInv, NoPartialLeftBehind, TypeOK, Content, Stages, Building
<1>2. LeftoverInv => NoPartialLeftBehind
  BY DEF LeftoverInv
<1>3. NoPartialLeftBehind /\ HomesAreBuilds => NothingIsLeftBehind
  BY DEF NothingIsLeftBehind
<1> QED
  BY <1>1, LeftoverInvNext, NoHomeOutlivesItsBuild, <1>2, <1>3, PTL DEF Spec

-----------------------------------------------------------------------------
(* A machine is up only from the install's start to its end, or where the  *)
(* build was killed or could not destroy it; and no sweep that asks finds  *)
(* a machine up and goes on.                                               *)
SweptInv ==
    /\ TypeOK /\ BuildSweptAtRest
    /\ \A p \in running : pc[p] \in {"installing", "failed", "killed"}
    /\ \A p \in running : sweep[p] # "asked"

LEMMA SweptInvNext == SweptInv /\ [Next]_vars => SweptInv'
<1> SUFFICES ASSUME SweptInv, [Next]_vars PROVE SweptInv'
  OBVIOUS
<1> USE SystemImageAssumption
    DEF SweptInv, BuildSweptAtRest, TypeOK, Content, Stages, Building, Goto, SetPartial
<1>1. ASSUME NEW p \in Builders, Look(p) PROVE SweptInv'
  BY <1>1 DEF Look
<1>2. ASSUME NEW p \in Builders, Stage(p) PROVE SweptInv'
  BY <1>2 DEF Stage
<1>3. ASSUME NEW p \in Builders, CreateMachine(p) PROVE SweptInv'
  BY <1>3 DEF CreateMachine
<1>4. ASSUME NEW p \in Builders, InstallStarts(p) PROVE SweptInv'
  BY <1>4 DEF InstallStarts
<1>5. ASSUME NEW p \in Builders, InstallFinishes(p) PROVE SweptInv'
  BY <1>5 DEF InstallFinishes
<1>6. ASSUME NEW p \in Builders, InstallFails(p) PROVE SweptInv'
  BY <1>6 DEF InstallFails
<1>7. ASSUME NEW p \in Builders, CopyInstalled(p) PROVE SweptInv'
  BY <1>7 DEF CopyInstalled
<1>8. ASSUME NEW p \in Builders, CheckDestination(p) PROVE SweptInv'
  BY <1>8 DEF CheckDestination
<1>9. ASSUME NEW p \in Builders, Replace(p) PROVE SweptInv'
  BY <1>9 DEF Replace
<1>10. ASSUME NEW p \in Builders, OpenOverlay(p) PROVE SweptInv'
  BY <1>10 DEF OpenOverlay
<1>11. ASSUME NEW p \in Builders, CloseOverlay(p) PROVE SweptInv'
  BY <1>11 DEF CloseOverlay
<1>12. ASSUME NEW p \in Builders, Kill(p) PROVE SweptInv'
  BY <1>12 DEF Kill
<1>13. ASSUME NEW p \in Builders, CleanAsks(p) PROVE SweptInv'
  BY <1>13 DEF CleanAsks
<1>14. ASSUME NEW p \in Builders, CleanRemoves(p) PROVE SweptInv'
  BY <1>14 DEF CleanRemoves
<1>15. CASE RemoveSystem
  BY <1>15 DEF RemoveSystem
<1>16. CASE UNCHANGED vars
  BY <1>16 DEF vars
<1> QED
  BY <1>1, <1>2, <1>3, <1>4, <1>5, <1>6, <1>7, <1>8, <1>9, <1>10, <1>11, <1>12,
     <1>13, <1>14, <1>15, <1>16 DEF Next, Build

(* No cleaner, no kill and no end of a build leaves an install machine up  *)
(* whose home was removed, but a build that failed to destroy its own and  *)
(* a cleaner that had asked before the machine booted.                     *)
THEOREM BuildsAreSweptAtRest == Spec => []BuildSweptAtRest
<1>1. Init => SweptInv
  BY SystemImageAssumption
  DEF Init, SweptInv, BuildSweptAtRest, TypeOK, Content, Stages, Building
<1>2. SweptInv => BuildSweptAtRest
  BY DEF SweptInv
<1> QED
  BY <1>1, SweptInvNext, <1>2, PTL DEF Spec
=============================================================================
