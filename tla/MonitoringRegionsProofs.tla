---------------------- MODULE MonitoringRegionsProofs ----------------------
(***************************************************************************)
(* Proofs about MonitoringRegions, for any finite set of regions, any      *)
(* callers and any number of calls.  RegionInv is inductive (one lemma per *)
(* conjunct), and it implies MonitoredInside and NothingLeftBehind and,    *)
(* for each step, EarlierInstallationStays.                                *)
(***************************************************************************)
EXTENDS MonitoringRegions, FiniteSetTheorems, TLAPS

\* The set of regions that count.
Counted == {r \in Regions : Counting(r)}

\* It is finite, and its size is a natural number.
LEMMA CountedFinite == IsFiniteSet(Counted) /\ Cardinality(Counted) \in Nat
  BY ActorAssumption, FS_Subset, FS_CardinalityType DEF Counted

\* The initial state is well typed.
LEMMA TypeInit == Init => TypeOK
<1> SUFFICES ASSUME Init PROVE TypeOK
  OBVIOUS
<1>1. calls \in 0..MaxCalls
  BY BoundAssumption DEF Init
<1>2. QED
  BY <1>1 DEF Init, TypeOK, PC

\* A region that leaves was counted: the count does not become negative.
LEMMA ReleasePositive ==
  ASSUME RegionInv, NEW r \in Regions, Release(r)
  PROVE  count \in Nat /\ count > 0 /\ r \in Counted
<1>1. r \in Counted
  <2>1. ~first[r] /\ pc[r] \in {"inside", "failed"}
    BY DEF Release, RegionInv, EntryOrder, At
  <2>2. QED
    BY <2>1 DEF Counted, Counting
<1>2. count # 0
  BY <1>1, CountedFinite, FS_EmptySet DEF RegionInv, CountIsExact, Counted
<1>3. QED
  BY <1>1, <1>2 DEF RegionInv, TypeOK

\* Every step keeps the state well typed.
LEMMA TypeStep == RegionInv /\ [Next]_vars => TypeOK'
<1> SUFFICES ASSUME RegionInv, [Next]_vars PROVE TypeOK'
  OBVIOUS
<1> USE DEF TypeOK, RegionInv, PC, Goto, At, regions, locals, history
<1>1. CASE UNCHANGED vars
  BY <1>1 DEF vars
<1>2. ASSUME NEW a \in Actors, InstallReserve(a) \/ UninstallReserve(a)
      PROVE TypeOK'
  BY <1>2 DEF InstallReserve, UninstallReserve, Reserve
<1>3. ASSUME NEW a \in Actors, InstallEnable(a) PROVE TypeOK'
  BY <1>3 DEF InstallEnable
<1>4. ASSUME NEW a \in Actors, InstallReturn(a) PROVE TypeOK'
  BY <1>4 DEF InstallReturn, AfterInstall
<1>5. ASSUME NEW a \in Actors, InstallRaise(a) PROVE TypeOK'
  BY <1>5 DEF InstallRaise
<1>6. ASSUME NEW a \in Actors, UninstallReturn(a) PROVE TypeOK'
  BY <1>6 DEF UninstallReturn, Busy
<1>7. ASSUME NEW a \in Actors, UninstallInterrupted(a) PROVE TypeOK'
  BY <1>7 DEF UninstallInterrupted
<1>8. ASSUME NEW a \in Actors, EnterFirst(a) PROVE TypeOK'
  BY <1>8 DEF EnterFirst, LeftOver
<1>9. ASSUME NEW a \in Actors, EnterNested(a) PROVE TypeOK'
  BY <1>9 DEF EnterNested
<1>10. ASSUME NEW a \in Actors, EnterDone(a) PROVE TypeOK'
  BY <1>10 DEF EnterDone
<1>11. ASSUME NEW a \in Actors, EnterFailed(a) PROVE TypeOK'
  BY <1>11 DEF EnterFailed
<1>12. ASSUME NEW a \in Regions, Release(a) PROVE TypeOK'
  <2>1. count \in Nat /\ count > 0
    BY <1>12, ReleasePositive
  <2>2. count' \in Nat /\ calls' = calls /\ calls' \in 0..MaxCalls
    BY <1>12, <2>1 DEF Release
  <2>3. /\ owns' \in BOOLEAN /\ changing' \in BOOLEAN
        /\ pc' \in [Actors -> PC]
    BY <1>12 DEF Release, Actors
  <2>4. QED
    BY <1>12, <2>2, <2>3 DEF Release
<1>13. ASSUME NEW a \in Regions, Begin(a) PROVE TypeOK'
  BY <1>13 DEF Begin
<1>14. ASSUME NEW a \in Callers, CallInstall(a) \/ CallUninstall(a) PROVE TypeOK'
  BY <1>14, BoundAssumption DEF CallInstall, CallUninstall, Call
<1>15. ASSUME NEW a \in Callers PROVE ~At(a, "failed")
  BY DEF CallersOnlyCall
<1> QED
  BY <1>1, <1>2, <1>3, <1>4, <1>5, <1>6, <1>7, <1>8, <1>9, <1>10, <1>11,
     <1>12, <1>13, <1>14, <1>15
  DEF Next, Proceed, Actors

\* Callers stay outside monitoring(), and `first` is set only while entering
\* or leaving.
LEMMA ShapeStep ==
  RegionInv /\ [Next]_vars => CallersOnlyCall' /\ EntryOrder'
<1> SUFFICES ASSUME RegionInv, [Next]_vars
             PROVE  CallersOnlyCall' /\ EntryOrder'
  OBVIOUS
<1> USE ActorAssumption DEF RegionInv, TypeOK, CallersOnlyCall, EntryOrder,
        Actors, Goto, At, regions, locals, history
<1> DEFINE Goal == CallersOnlyCall' /\ EntryOrder'
<1>1. CASE UNCHANGED vars
  BY <1>1 DEF vars
<1>2. ASSUME NEW a \in Actors, InstallReserve(a) \/ UninstallReserve(a) PROVE Goal
  BY <1>2 DEF InstallReserve, UninstallReserve, Reserve
<1>3. ASSUME NEW a \in Actors, InstallEnable(a) PROVE Goal
  BY <1>3 DEF InstallEnable
<1>4. ASSUME NEW a \in Actors, InstallReturn(a) PROVE Goal
  BY <1>4 DEF InstallReturn, AfterInstall
<1>5. ASSUME NEW a \in Actors, InstallRaise(a) PROVE Goal
  BY <1>5 DEF InstallRaise
<1>6. ASSUME NEW a \in Actors, UninstallReturn(a) PROVE Goal
  BY <1>6 DEF UninstallReturn
<1>7. ASSUME NEW a \in Actors, UninstallInterrupted(a) PROVE Goal
  BY <1>7 DEF UninstallInterrupted
<1>8. ASSUME NEW a \in Actors, EnterFirst(a) PROVE Goal
  BY <1>8 DEF EnterFirst
<1>9. ASSUME NEW a \in Actors, EnterNested(a) PROVE Goal
  BY <1>9 DEF EnterNested
<1>10. ASSUME NEW a \in Actors, EnterDone(a) PROVE Goal
  BY <1>10 DEF EnterDone
<1>11. ASSUME NEW a \in Actors, EnterFailed(a) PROVE Goal
  BY <1>11 DEF EnterFailed
<1>12. ASSUME NEW a \in Actors, Release(a) PROVE Goal
  BY <1>12 DEF Release
<1>13. ASSUME NEW a \in Regions, Begin(a) PROVE Goal
  BY <1>13 DEF Begin
<1>14. ASSUME NEW a \in Callers, CallInstall(a) \/ CallUninstall(a) PROVE Goal
  BY <1>14 DEF CallInstall, CallUninstall, Call
<1> QED
  BY <1>1, <1>2, <1>3, <1>4, <1>5, <1>6, <1>7, <1>8, <1>9, <1>10, <1>11,
     <1>12, <1>13, <1>14 DEF Next, Proceed
-----------------------------------------------------------------------------
\* A region counts exactly when the count says so.
LEMMA CountedMeansBusy ==
  ASSUME RegionInv
  PROVE  count > 0 <=> \E r \in Regions : Counting(r)
<1>1. count = 0 <=> Counted = {}
  BY CountedFinite, FS_EmptySet DEF RegionInv, CountIsExact, Counted
<1>2. count \in Nat
  BY DEF RegionInv, TypeOK
<1>3. QED
  BY <1>1, <1>2 DEF Counted

\* _monitoring_region_count is the number of regions that count.
LEMMA CountStep == RegionInv /\ [Next]_vars => CountIsExact'
<1> SUFFICES ASSUME RegionInv, [Next]_vars PROVE CountIsExact'
  OBVIOUS
<1>a. count = Cardinality(Counted) /\ IsFiniteSet(Counted)
  BY CountedFinite DEF RegionInv, CountIsExact, Counted
<1>b. ASSUME count' = count, Counted' = Counted PROVE CountIsExact'
  BY <1>a, <1>b DEF CountIsExact, Counted
<1>c. ASSUME NEW r \in Regions, r \notin Counted, count' = count + 1,
             Counted' = Counted \union {r}
      PROVE  CountIsExact'
  BY <1>a, <1>c, FS_AddElement DEF CountIsExact, Counted
<1>d. ASSUME NEW r \in Regions, r \in Counted, count' = count - 1,
             Counted' = Counted \ {r}
      PROVE  CountIsExact'
  BY <1>a, <1>d, FS_RemoveElement DEF CountIsExact, Counted
<1> USE ActorAssumption DEF RegionInv, TypeOK, CallersOnlyCall, EntryOrder,
        Actors, Goto, At, regions, locals, history, Counted, Counting
<1>1. CASE UNCHANGED vars
  BY <1>1, <1>b DEF vars
<1>2. ASSUME NEW a \in Actors, InstallReserve(a) \/ UninstallReserve(a)
      PROVE  count' = count /\ Counted' = Counted
  BY <1>2 DEF InstallReserve, UninstallReserve, Reserve
<1>3. ASSUME NEW a \in Actors, InstallEnable(a)
      PROVE  count' = count /\ Counted' = Counted
  BY <1>3 DEF InstallEnable
<1>4. ASSUME NEW a \in Actors, InstallReturn(a)
      PROVE  count' = count /\ Counted' = Counted
  BY <1>4 DEF InstallReturn, AfterInstall
<1>5. ASSUME NEW a \in Actors, InstallRaise(a)
      PROVE  count' = count /\ Counted' = Counted
  BY <1>5 DEF InstallRaise
<1>6. ASSUME NEW a \in Actors, UninstallReturn(a)
      PROVE  count' = count /\ Counted' = Counted
  BY <1>6 DEF UninstallReturn
<1>7. ASSUME NEW a \in Actors, UninstallInterrupted(a)
      PROVE  count' = count /\ Counted' = Counted
  BY <1>7 DEF UninstallInterrupted
<1>8. ASSUME NEW a \in Actors, EnterFirst(a)
      PROVE  count' = count /\ Counted' = Counted
  BY <1>8 DEF EnterFirst
<1>9. ASSUME NEW a \in Actors, EnterNested(a) PROVE CountIsExact'
  <2>1. a \in Regions /\ a \notin Counted /\ count' = count + 1
    BY <1>9 DEF EnterNested
  <2>2. Counted' = Counted \union {a}
    BY <1>9, <2>1 DEF EnterNested
  <2>3. QED
    BY <2>1, <2>2, <1>c
<1>10. ASSUME NEW a \in Actors, EnterDone(a) PROVE CountIsExact'
  <2>1. a \in Regions /\ a \notin Counted /\ count' = 1 /\ Changer(a)
    BY <1>10 DEF EnterDone, Changer
  <2>2. count = 0
    BY <2>1 DEF OneTransition
  <2>3. Counted' = Counted \union {a}
    BY <1>10, <2>1 DEF EnterDone
  <2>4. QED
    BY <2>1, <2>2, <2>3, <1>c
<1>11. ASSUME NEW a \in Actors, EnterFailed(a)
       PROVE  count' = count /\ Counted' = Counted
  BY <1>11 DEF EnterFailed
<1>12. ASSUME NEW a \in Actors, Release(a) PROVE CountIsExact'
  <2>1. a \in Regions /\ a \in Counted /\ count' = count - 1
    BY <1>12 DEF Release
  <2>2. Counted' = Counted \ {a}
    BY <1>12, <2>1 DEF Release
  <2>3. QED
    BY <2>1, <2>2, <1>d
<1>13. ASSUME NEW a \in Regions, Begin(a)
       PROVE  count' = count /\ Counted' = Counted
  BY <1>13 DEF Begin
<1>14. ASSUME NEW a \in Callers, CallInstall(a) \/ CallUninstall(a)
       PROVE  count' = count /\ Counted' = Counted
  BY <1>14 DEF CallInstall, CallUninstall, Call
<1> HIDE DEF Counted
<1> QED
  BY <1>b, <1>1, <1>2, <1>3, <1>4, <1>5, <1>6, <1>7, <1>8, <1>9, <1>10, <1>11,
     <1>12, <1>13, <1>14 DEF Next, Proceed
-----------------------------------------------------------------------------
\* At most one region owns the transition, and none counts meanwhile.
LEMMA TransitionStep == RegionInv /\ [Next]_vars => OneTransition'
<1> SUFFICES ASSUME RegionInv, [Next]_vars PROVE OneTransition'
  OBVIOUS
<1> USE ActorAssumption DEF RegionInv, TypeOK, CallersOnlyCall, EntryOrder,
        OneTransition, Changer, Actors, Goto, At, regions, locals, history
<1>1. CASE UNCHANGED vars
  BY <1>1 DEF vars
<1>2. ASSUME NEW a \in Actors, InstallReserve(a) \/ UninstallReserve(a)
      PROVE  OneTransition'
  BY <1>2 DEF InstallReserve, UninstallReserve, Reserve
<1>3. ASSUME NEW a \in Actors, InstallEnable(a) PROVE OneTransition'
  BY <1>3 DEF InstallEnable
<1>4. ASSUME NEW a \in Actors, InstallReturn(a) PROVE OneTransition'
  BY <1>4 DEF InstallReturn, AfterInstall
<1>5. ASSUME NEW a \in Actors, InstallRaise(a) PROVE OneTransition'
  BY <1>5 DEF InstallRaise
<1>6. ASSUME NEW a \in Actors, UninstallReturn(a) PROVE OneTransition'
  BY <1>6 DEF UninstallReturn
<1>7. ASSUME NEW a \in Actors, UninstallInterrupted(a) PROVE OneTransition'
  BY <1>7 DEF UninstallInterrupted
<1>8. ASSUME NEW a \in Actors, EnterFirst(a) PROVE OneTransition'
  BY <1>8 DEF EnterFirst
<1>9. ASSUME NEW a \in Actors, EnterNested(a) PROVE OneTransition'
  BY <1>9 DEF EnterNested
<1>10. ASSUME NEW a \in Actors, EnterDone(a) PROVE OneTransition'
  BY <1>10 DEF EnterDone
<1>11. ASSUME NEW a \in Actors, EnterFailed(a) PROVE OneTransition'
  BY <1>11 DEF EnterFailed
<1>12. ASSUME NEW a \in Actors, Release(a) PROVE OneTransition'
  <2>1. a \in Regions /\ count > 0
    BY <1>12, ReleasePositive DEF Release
  <2>2. ~changing /\ \A r \in Regions : ~Changer(r)
    BY <2>1
  <2>3. QED
    BY <1>12, <2>1, <2>2 DEF Release
<1>13. ASSUME NEW a \in Regions, Begin(a) PROVE OneTransition'
  BY <1>13 DEF Begin
<1>14. ASSUME NEW a \in Callers, CallInstall(a) \/ CallUninstall(a)
       PROVE  OneTransition'
  BY <1>14 DEF CallInstall, CallUninstall, Call
<1> QED
  BY <1>1, <1>2, <1>3, <1>4, <1>5, <1>6, <1>7, <1>8, <1>9, <1>10, <1>11,
     <1>12, <1>13, <1>14 DEF Next, Proceed
-----------------------------------------------------------------------------
\* Monitoring stays on while a region counts on it.
LEMMA MonitoredStep == RegionInv /\ [Next]_vars => MonitoredWhileBusy'
<1> SUFFICES ASSUME RegionInv, [Next]_vars PROVE MonitoredWhileBusy'
  OBVIOUS
<1> USE ActorAssumption DEF RegionInv, TypeOK, CallersOnlyCall, EntryOrder,
        OneTransition, Changer, MonitoredWhileBusy, Actors, Goto, At,
        regions, locals, history
<1>1. CASE UNCHANGED vars
  BY <1>1 DEF vars
<1>2. ASSUME NEW a \in Actors, InstallReserve(a) \/ UninstallReserve(a)
      PROVE  MonitoredWhileBusy'
  BY <1>2 DEF InstallReserve, UninstallReserve, Reserve
<1>3. ASSUME NEW a \in Actors, InstallEnable(a) PROVE MonitoredWhileBusy'
  BY <1>3 DEF InstallEnable
<1>4. ASSUME NEW a \in Actors, InstallReturn(a) PROVE MonitoredWhileBusy'
  BY <1>4 DEF InstallReturn, AfterInstall
<1>5. ASSUME NEW a \in Actors, InstallRaise(a) PROVE MonitoredWhileBusy'
  BY <1>5 DEF InstallRaise
<1>6. ASSUME NEW a \in Actors, UninstallReturn(a) PROVE MonitoredWhileBusy'
  <2>1. CASE a \in Regions
    BY <1>6, <2>1 DEF UninstallReturn
  <2>2. CASE a \in Callers
    BY <1>6, <2>2 DEF UninstallReturn, Busy
  <2>3. QED
    BY <2>1, <2>2
<1>7. ASSUME NEW a \in Actors, UninstallInterrupted(a) PROVE MonitoredWhileBusy'
  BY <1>7 DEF UninstallInterrupted
<1>8. ASSUME NEW a \in Actors, EnterFirst(a) PROVE MonitoredWhileBusy'
  <2>1. a \in Regions /\ \A r \in Regions : ~Changer(r)
    BY <1>8 DEF EnterFirst
  <2>2. count' = 0 /\ (~inactive'[a] => enabled')
    BY <1>8 DEF EnterFirst
  <2>3. ASSUME NEW r \in Regions, r # a
        PROVE  /\ pc'[r] = pc[r] /\ first'[r] = first[r]
               /\ inactive'[r] = inactive[r] /\ ~Changer(r)
    BY <1>8, <2>1, <2>3 DEF EnterFirst
  <2>4. pc'[a] = "install"
    BY <1>8 DEF EnterFirst
  <2>5. QED
    BY <2>2, <2>3, <2>4
<1>9. ASSUME NEW a \in Actors, EnterNested(a) PROVE MonitoredWhileBusy'
  BY <1>9 DEF EnterNested
<1>10. ASSUME NEW a \in Actors, EnterDone(a) PROVE MonitoredWhileBusy'
  BY <1>10 DEF EnterDone
<1>11. ASSUME NEW a \in Actors, EnterFailed(a) PROVE MonitoredWhileBusy'
  BY <1>11 DEF EnterFailed
<1>12. ASSUME NEW a \in Actors, Release(a) PROVE MonitoredWhileBusy'
  <2>1. a \in Regions /\ count > 0
    BY <1>12, ReleasePositive DEF Release
  <2>2. QED
    BY <1>12, <2>1 DEF Release
<1>13. ASSUME NEW a \in Regions, Begin(a) PROVE MonitoredWhileBusy'
  BY <1>13 DEF Begin
<1>14. ASSUME NEW a \in Callers, CallInstall(a) \/ CallUninstall(a)
       PROVE  MonitoredWhileBusy'
  BY <1>14 DEF CallInstall, CallUninstall, Call
<1> QED
  BY <1>1, <1>2, <1>3, <1>4, <1>5, <1>6, <1>7, <1>8, <1>9, <1>10, <1>11,
     <1>12, <1>13, <1>14 DEF Next, Proceed
-----------------------------------------------------------------------------
\* An installation made by a region has an owner, and an owner's installation
\* was made by a region.
LEMMA OwnerStep == RegionInv /\ [Next]_vars => RemovedByOwner'
<1> SUFFICES ASSUME RegionInv, [Next]_vars PROVE RemovedByOwner'
  OBVIOUS
<1> USE ActorAssumption DEF RegionInv, TypeOK, CallersOnlyCall, EntryOrder,
        OneTransition, Changer, MonitoredWhileBusy, RemovedByOwner, Actors,
        Goto, At, regions, locals, history
<1>1. CASE UNCHANGED vars
  BY <1>1 DEF vars
<1>2. ASSUME NEW a \in Actors, InstallReserve(a) \/ UninstallReserve(a)
      PROVE  RemovedByOwner'
  BY ZenonT(30), <1>2 DEF InstallReserve, UninstallReserve, Reserve
<1>3. ASSUME NEW a \in Actors, InstallEnable(a) PROVE RemovedByOwner'
  BY <1>3, CountedMeansBusy DEF InstallEnable, Busy, Counting
<1>4. ASSUME NEW a \in Actors, InstallReturn(a) PROVE RemovedByOwner'
  BY <1>4 DEF InstallReturn, AfterInstall
<1>5. ASSUME NEW a \in Actors, InstallRaise(a) PROVE RemovedByOwner'
  BY <1>5 DEF InstallRaise
<1>6. ASSUME NEW a \in Actors, UninstallReturn(a) PROVE RemovedByOwner'
  BY <1>6 DEF UninstallReturn
<1>7. ASSUME NEW a \in Actors, UninstallInterrupted(a) PROVE RemovedByOwner'
  BY <1>7 DEF UninstallInterrupted
<1>8. ASSUME NEW a \in Actors, EnterFirst(a) PROVE RemovedByOwner'
  BY <1>8 DEF EnterFirst, LeftOver
<1>9. ASSUME NEW a \in Actors, EnterNested(a) PROVE RemovedByOwner'
  BY <1>9 DEF EnterNested
<1>10. ASSUME NEW a \in Actors, EnterDone(a) PROVE RemovedByOwner'
  BY <1>10 DEF EnterDone
<1>11. ASSUME NEW a \in Actors, EnterFailed(a) PROVE RemovedByOwner'
  BY <1>11 DEF EnterFailed
<1>12. ASSUME NEW a \in Actors, Release(a) PROVE RemovedByOwner'
  <2>1. a \in Regions /\ count > 0
    BY <1>12, ReleasePositive DEF Release
  <2>2. \A r \in Regions : ~Changer(r)
    BY <2>1
  <2>3. CASE count' = 0 /\ owns
    BY <1>12, <2>1, <2>2, <2>3 DEF Release
  <2>4. CASE ~(count' = 0 /\ owns)
    BY <1>12, <2>1, <2>2, <2>4 DEF Release
  <2>5. QED
    BY <2>3, <2>4
<1>13. ASSUME NEW a \in Regions, Begin(a) PROVE RemovedByOwner'
  BY <1>13 DEF Begin
<1>14. ASSUME NEW a \in Callers, CallInstall(a) \/ CallUninstall(a)
       PROVE  RemovedByOwner'
  BY ZenonT(30), <1>14 DEF CallInstall, CallUninstall, Call
<1> QED
  BY <1>1, <1>2, <1>3, <1>4, <1>5, <1>6, <1>7, <1>8, <1>9, <1>10, <1>11,
     <1>12, <1>13, <1>14 DEF Next, Proceed
-----------------------------------------------------------------------------
\* The initial state satisfies RegionInv.
LEMMA InitRegionInv == Init => RegionInv
<1> SUFFICES ASSUME Init PROVE RegionInv
  OBVIOUS
<1>1. TypeOK
  BY TypeInit
<1>2. {r \in Regions : Counting(r)} = {}
  BY DEF Init, Counting, Actors
<1>3. CountIsExact
  BY <1>2, FS_EmptySet DEF Init, CountIsExact
<1>4. \A r \in Regions : ~Changer(r) /\ ~first[r] /\ pc[r] = "idle"
  BY DEF Init, Changer, Actors
<1>5. CallersOnlyCall
  BY DEF Init, CallersOnlyCall, Actors
<1>6. EntryOrder /\ OneTransition /\ MonitoredWhileBusy
  <2>1. EntryOrder
    BY <1>4 DEF EntryOrder
  <2>2. OneTransition
    BY <1>4 DEF Init, OneTransition
  <2>3. MonitoredWhileBusy
    BY <1>4 DEF Init, MonitoredWhileBusy
  <2>4. QED
    BY <2>1, <2>2, <2>3
<1>7. RemovedByOwner
  BY <1>4, ActorAssumption DEF Init, RemovedByOwner
<1>8. QED
  BY <1>1, <1>3, <1>5, <1>6, <1>7 DEF RegionInv

\* RegionInv is an invariant.
THEOREM RegionInvariant == Spec => []RegionInv
<1>1. Init => RegionInv
  BY InitRegionInv
<1>2. RegionInv /\ [Next]_vars => RegionInv'
  BY TypeStep, ShapeStep, CountStep, TransitionStep, MonitoredStep, OwnerStep
  DEF RegionInv
<1>3. QED
  BY <1>1, <1>2, PTL DEF Spec

\* A region that runs its body is monitored, unless a caller interferes.
THEOREM Monitored == Spec => []MonitoredInside
<1>1. RegionInv => MonitoredInside
  <2> SUFFICES ASSUME RegionInv, NEW r \in Regions, At(r, "inside"), ~disturbed
               PROVE  enabled
    BY DEF MonitoredInside
  <2>1. Counting(r)
    BY DEF RegionInv, EntryOrder, Counting, At
  <2>2. count > 0
    BY <2>1, CountedMeansBusy
  <2>3. QED
    BY <2>2 DEF RegionInv, MonitoredWhileBusy
<1>2. QED
  BY <1>1, RegionInvariant, PTL

\* When no region is busy, none has left an installation behind.
THEOREM Cleaned == Spec => []NothingLeftBehind
<1>1. RegionInv => NothingLeftBehind
  BY DEF RegionInv, TypeOK, OneTransition, RemovedByOwner, NothingLeftBehind, Busy
<1>2. QED
  BY <1>1, RegionInvariant, PTL

\* A region disables only what a region has enabled.
THEOREM EarlierStays == Spec => EarlierInstallationStays
<1>1. ASSUME RegionInv, NEW r \in Regions, UninstallReturn(r), enabled, ~disturbed
      PROVE  creator \in Regions
  <2>1. Changer(r) /\ pc[r] = "uninstalling"
    BY <1>1 DEF UninstallReturn, Changer, At
  <2>2. QED
    BY <1>1, <2>1 DEF RegionInv, RemovedByOwner, EntryOrder
<1>2. RegionInv /\ [Next]_vars =>
        [\A r \in Regions : UninstallReturn(r) /\ enabled /\ ~disturbed =>
           creator \in Regions]_vars
  BY <1>1
<1>3. QED
  BY <1>2, RegionInvariant, PTL DEF Spec, EarlierInstallationStays
-----------------------------------------------------------------------------
(* The refinement of InstallationLease, when the regions are alone and     *)
(* nobody interrupts uninstall().                                          *)

\* Monitoring that was on before everything stays on, and what the regions
\* switch on is theirs to switch off.
LeaseInv ==
  /\ RegionInv
  /\ ~disturbed /\ creator \in Regions \union {Nobody}
  /\ before <=> enabled /\ creator = Nobody
  /\ \A r \in Regions :
       /\ first[r] /\ inactive[r] /\ pc[r] \in {"install", "installing"} => ~enabled
       /\ ~first[r] /\ pc[r] \in {"uninstall", "uninstalling"} => enabled

\* LeaseInv is inductive.
LEMMA LeaseStep ==
  ASSUME Callers = {}, ~Interrupts, LeaseInv, [Next]_vars
  PROVE  LeaseInv'
<1>1. RegionInv'
  BY TypeStep, ShapeStep, CountStep, TransitionStep, MonitoredStep, OwnerStep
  DEF RegionInv, LeaseInv
<1> DEFINE Rest ==
      /\ ~disturbed' /\ creator' \in Regions \union {Nobody}
      /\ before' <=> enabled' /\ creator' = Nobody
      /\ \A r \in Regions :
           /\ first'[r] /\ inactive'[r] /\ pc'[r] \in {"install", "installing"}
              => ~enabled'
           /\ ~first'[r] /\ pc'[r] \in {"uninstall", "uninstalling"} => enabled'
<1> SUFFICES Rest
  BY <1>1 DEF LeaseInv
<1>a. /\ TypeOK /\ EntryOrder /\ OneTransition /\ MonitoredWhileBusy
      /\ RemovedByOwner /\ ~disturbed /\ creator \in Regions \union {Nobody}
      /\ before <=> enabled /\ creator = Nobody
      /\ \A r \in Regions :
           /\ first[r] /\ inactive[r] /\ pc[r] \in {"install", "installing"}
              => ~enabled
           /\ ~first[r] /\ pc[r] \in {"uninstall", "uninstalling"} => enabled
  BY DEF LeaseInv, RegionInv
<1>b. \A r \in Regions : Counting(r) => count > 0
  BY CountedMeansBusy DEF LeaseInv
<1> USE <1>a, ActorAssumption
    DEF TypeOK, EntryOrder, OneTransition, Changer, MonitoredWhileBusy,
        Actors, Goto, At, regions, locals, history
<1>2. CASE UNCHANGED vars
  BY <1>2 DEF vars
<1>3. ASSUME NEW a \in Regions, InstallReserve(a) \/ UninstallReserve(a) PROVE Rest
  BY <1>3 DEF InstallReserve, UninstallReserve, Reserve
<1>4. ASSUME NEW a \in Regions, InstallEnable(a) PROVE Rest
  <2>1. enabled \/ (first[a] /\ Changer(a))
    BY <1>4, <1>b DEF InstallEnable, Counting
  <2>2. QED
    BY <1>4, <2>1 DEF InstallEnable
<1>5. ASSUME NEW a \in Regions, InstallReturn(a) PROVE Rest
  BY <1>5 DEF InstallReturn, AfterInstall
<1>6. ASSUME NEW a \in Regions, InstallRaise(a) PROVE Rest
  BY <1>6 DEF InstallRaise
<1>7. ASSUME NEW a \in Regions, UninstallReturn(a) PROVE Rest
  <2>1. enabled => creator \in Regions
    BY <1>7 DEF UninstallReturn, RemovedByOwner
  <2>2. QED
    BY <1>7, <2>1 DEF UninstallReturn
<1>8. ASSUME NEW a \in Regions, EnterFirst(a) PROVE Rest
  BY <1>8 DEF EnterFirst
<1>9. ASSUME NEW a \in Regions, EnterNested(a) PROVE Rest
  BY <1>9 DEF EnterNested
<1>10. ASSUME NEW a \in Regions, EnterDone(a) PROVE Rest
  BY <1>10 DEF EnterDone
<1>11. ASSUME NEW a \in Regions, EnterFailed(a) PROVE Rest
  BY <1>11 DEF EnterFailed
<1>12. ASSUME NEW a \in Regions, Release(a) PROVE Rest
  <2>1. enabled
    BY <1>12, ReleasePositive DEF LeaseInv
  <2>2. QED
    BY <1>12, <2>1 DEF Release
<1>13. ASSUME NEW a \in Regions, Begin(a) PROVE Rest
  BY <1>13 DEF Begin
<1>14. ASSUME NEW a \in Regions PROVE ~UninstallInterrupted(a)
  BY DEF UninstallInterrupted
<1> HIDE DEF Rest
<1> QED
  BY <1>2, <1>3, <1>4, <1>5, <1>6, <1>7, <1>8, <1>9, <1>10, <1>11,
     <1>12, <1>13, <1>14 DEF Next, Proceed

\* Monitoring is on exactly when it was on before or a region holds a lease.
LEMMA ActiveWhileHeld ==
  LeaseInv => (enabled <=> before \/ \E r \in Regions : Holds(r))
<1> SUFFICES ASSUME LeaseInv
             PROVE  enabled <=> before \/ \E r \in Regions : Holds(r)
  OBVIOUS
<1>1. ASSUME NEW r \in Regions, Holds(r) PROVE enabled
  <2>1. CASE first[r]
    BY <1>1, <2>1 DEF Holds, LeaseInv, RegionInv, MonitoredWhileBusy
  <2>2. CASE ~first[r] /\ Counting(r)
    BY <2>2, CountedMeansBusy DEF LeaseInv, RegionInv, MonitoredWhileBusy
  <2>3. CASE ~first[r] /\ ~Counting(r)
    <3>1. r \in Actors
      BY DEF Actors
    <3>2. pc[r] \in {"uninstall", "uninstalling"}
      BY <1>1, <2>3, <3>1
      DEF Holds, Counting, LeaseInv, RegionInv, TypeOK, PC, EntryOrder
    <3>3. QED
      BY <2>3, <3>2 DEF LeaseInv
  <2>4. QED
    BY <2>1, <2>2, <2>3
<1>2. ASSUME enabled, ~before PROVE \E r \in Regions : Holds(r)
  <2>1. creator \in Regions
    BY <1>2 DEF LeaseInv
  <2>2. CASE count > 0
    <3>1. PICK r \in Regions : Counting(r)
      BY <2>2, CountedMeansBusy DEF LeaseInv
    <3>2. Holds(r)
      BY <3>1 DEF Counting, Holds
    <3>3. QED
      BY <3>2
  <2>3. CASE ~(count > 0)
    <3>1. PICK r \in Regions : Changer(r) /\ (first[r] => inactive[r])
      BY <1>2, <2>1, <2>3 DEF LeaseInv, RegionInv, RemovedByOwner
    <3>2. Holds(r)
      BY <1>2, <3>1 DEF Changer, Holds, LeaseInv
    <3>3. QED
      BY <3>2
  <2>4. QED
    BY <2>2, <2>3
<1>3. QED
  BY <1>1, <1>2 DEF LeaseInv

\* A step changes what one region holds.
LEMMA OneHolder ==
  ASSUME Callers = {}, ~Interrupts, LeaseInv, Next
  PROVE  \E a \in Regions : \A r \in Regions \ {a} : Holds(r)' <=> Holds(r)
<1> DEFINE Alone(a) == \A r \in Regions \ {a} : Holds(r)' <=> Holds(r)
<1>a. \A r \in Regions : Counting(r) => count > 0
  BY CountedMeansBusy DEF LeaseInv
<1>b. /\ TypeOK /\ EntryOrder /\ OneTransition /\ MonitoredWhileBusy /\ ~disturbed
  BY DEF LeaseInv, RegionInv
<1> USE <1>b, ActorAssumption
    DEF TypeOK, EntryOrder, OneTransition, Changer, MonitoredWhileBusy,
        Actors, Goto, At, regions, locals, history, Holds
<1>1. ASSUME NEW a \in Regions, InstallReserve(a) \/ UninstallReserve(a) PROVE Alone(a)
  BY <1>1 DEF InstallReserve, UninstallReserve, Reserve
<1>2. ASSUME NEW a \in Regions, InstallEnable(a) PROVE Alone(a)
  <2>1. enabled \/ Changer(a)
    BY <1>2, <1>a DEF InstallEnable, Counting
  <2>2. QED
    BY <1>2, <2>1 DEF InstallEnable
<1>3. ASSUME NEW a \in Regions, InstallReturn(a) PROVE Alone(a)
  BY <1>3 DEF InstallReturn, AfterInstall
<1>4. ASSUME NEW a \in Regions, InstallRaise(a) PROVE Alone(a)
  BY <1>4 DEF InstallRaise
<1>5. ASSUME NEW a \in Regions, UninstallReturn(a) PROVE Alone(a)
  BY <1>5 DEF UninstallReturn
<1>6. ASSUME NEW a \in Regions, EnterFirst(a) PROVE Alone(a)
  BY <1>6 DEF EnterFirst
<1>7. ASSUME NEW a \in Regions, EnterNested(a) PROVE Alone(a)
  BY <1>7 DEF EnterNested
<1>8. ASSUME NEW a \in Regions, EnterDone(a) PROVE Alone(a)
  BY <1>8 DEF EnterDone
<1>9. ASSUME NEW a \in Regions, EnterFailed(a) PROVE Alone(a)
  BY <1>9 DEF EnterFailed
<1>10. ASSUME NEW a \in Regions, Release(a) PROVE Alone(a)
  BY <1>10 DEF Release
<1>11. ASSUME NEW a \in Regions, Begin(a) PROVE Alone(a)
  BY <1>11 DEF Begin
<1>12. ASSUME NEW a \in Regions PROVE ~UninstallInterrupted(a)
  BY DEF UninstallInterrupted
<1> HIDE DEF Alone
<1>13. \E a \in Regions : Alone(a)
  BY <1>1, <1>2, <1>3, <1>4, <1>5, <1>6, <1>7, <1>8, <1>9, <1>10, <1>11, <1>12
  DEF Next, Proceed
<1>14. QED
  BY <1>13 DEF Alone

\* Regions on their own implement the abstract lease: monitoring is on as long
\* as somebody holds one, and in the end it is as it was before.
THEOREM RegionsImplementLease ==
  ASSUME Callers = {}, ~Interrupts
  PROVE  Spec => LeaseSpec
<1> DEFINE Holders == {r \in Regions : Holds(r)}
<1>1. Init => LeaseInv
  <2> SUFFICES ASSUME Init PROVE LeaseInv
    OBVIOUS
  <2>1. RegionInv
    BY InitRegionInv
  <2>2. QED
    BY <2>1 DEF Init, LeaseInv, Actors
<1>2. LeaseInv /\ [Next]_vars => LeaseInv'
  BY LeaseStep
<1>3. Init => Lease!Init
  <2> SUFFICES ASSUME Init PROVE Lease!Init
    OBVIOUS
  <2>1. Holders = {}
    BY DEF Init, Holds, Actors
  <2>2. QED
    BY <2>1 DEF Init, Lease!Init
<1>4. LeaseInv /\ [Next]_vars => [Lease!Next]_<<Holders, enabled, before>>
  <2> SUFFICES ASSUME LeaseInv, [Next]_vars
               PROVE  [Lease!Next]_<<Holders, enabled, before>>
    OBVIOUS
  <2>1. CASE UNCHANGED vars
    BY <2>1 DEF vars, locals, history, Holds
  <2>2. CASE Next
    <3>1. PICK a \in Regions : \A r \in Regions \ {a} : Holds(r)' <=> Holds(r)
      BY <2>2, OneHolder
    <3>2. before' = before
      BY <2>2 DEF Next, Proceed, InstallReserve, UninstallReserve, Reserve,
        InstallEnable, InstallReturn, InstallRaise, UninstallReturn,
        UninstallInterrupted, EnterFirst, EnterNested, EnterDone, EnterFailed,
        Release, Begin, CallInstall, CallUninstall, Call, history
    <3>3. (enabled <=> before \/ Holders # {}) /\ enabled \in BOOLEAN
      BY ActiveWhileHeld DEF LeaseInv, RegionInv, TypeOK
    <3>4. (enabled' <=> before' \/ Holders' # {}) /\ enabled' \in BOOLEAN
      <4>1. LeaseInv'
        BY <1>2
      <4>2. (enabled <=> before \/ \E r \in Regions : Holds(r))'
        BY <4>1, ActiveWhileHeld, PTL
      <4>3. enabled' \in BOOLEAN
        BY <4>1 DEF LeaseInv, RegionInv, TypeOK
      <4>4. QED
        BY <4>2, <4>3
    <3>5. before \in BOOLEAN
      BY DEF LeaseInv, RegionInv, TypeOK
    <3>6. CASE Holds(a)' <=> Holds(a)
      <4>1. Holders' = Holders
        BY <3>1, <3>6
      <4>2. QED
        BY <3>2, <3>3, <3>4, <4>1
    <3>7. CASE ~Holds(a) /\ Holds(a)'
      <4>1. Holders' = Holders \union {a} /\ a \notin Holders
        BY <3>1, <3>7
      <4>2. Lease!Take(a)
        BY <3>2, <3>4, <4>1 DEF Lease!Take
      <4>3. QED
        BY <4>2 DEF Lease!Next
    <3>8. CASE Holds(a) /\ ~Holds(a)'
      <4>1. Holders' = Holders \ {a} /\ a \in Holders
        BY <3>1, <3>8
      <4>2. Lease!GiveBack(a)
        BY <3>2, <3>4, <3>5, <4>1 DEF Lease!GiveBack
      <4>3. QED
        BY <4>2 DEF Lease!Next
    <3>9. QED
      BY <3>6, <3>7, <3>8
  <2>3. QED
    BY <2>1, <2>2
<1>5. QED
  BY <1>1, <1>2, <1>3, <1>4, PTL DEF Spec, LeaseSpec, Lease!Spec
=============================================================================
